-------------------------- MODULE Timeline_proofs ---------------------------
(***************************************************************************)
(* Proofs about Timeline: the conversion of every run, for every input of  *)
(* the types InputsAssumption names, every hash of the tracks, with or     *)
(* without a native capture and a focused trace.                           *)
(*                                                                         *)
(* The first part is about the writer's packets alone: the stack of begins *)
(* and ends a trace processor keeps for a track closes each slice with its *)
(* own end, if the slices of the track nest and the packets are sorted as  *)
(* the writer sorts them. The second is the invariant of the conversion:   *)
(* what a step that succeeded leaves behind it. The others follow the data *)
(* from there: the rows of a native capture and their flows, the slices of *)
(* a plan and of its focused copy, and the markers, tokens and samples     *)
(* from the loaded run to the rows that are read back.                     *)
(***************************************************************************)
EXTENDS Timeline, TLAPS, FiniteSetTheorems

------------------------------------------------------------------------------
(* Packets of one track and their order.                                      *)

\* A slice the writer can place: its times and the hash of its track are integers.
Placed(s) == s.ts \in Int /\ s.dur \in Int /\ s.dur > 0 /\ Uuid(s.track) \in Int

\* The order of two packets of one track, spelled out.
LEMMA PrecedesOnATrack ==
    ASSUME NEW p, NEW q, \A i \in 1..4 : p.at[i] \in Int /\ q.at[i] \in Int, p.at[3] = q.at[3]
    PROVE  Precedes(p, q) <=>
               \/ p.at[1] < q.at[1]
               \/ p.at[1] = q.at[1] /\ p.at[2] < q.at[2]
               \/ p.at[1] = q.at[1] /\ p.at[2] = q.at[2] /\ p.at[4] < q.at[4]
<1>1. /\ p.at[1] \in Int /\ p.at[2] \in Int /\ p.at[3] \in Int /\ p.at[4] \in Int
      /\ q.at[1] \in Int /\ q.at[2] \in Int /\ q.at[3] \in Int /\ q.at[4] \in Int
  OBVIOUS
<1>2. Precedes(p, q) <=> \/ p.at[1] < q.at[1]
                         \/ p.at[2] < q.at[2] /\ p.at[1] = q.at[1]
                         \/ p.at[3] < q.at[3] /\ p.at[1] = q.at[1] /\ p.at[2] = q.at[2]
                         \/ p.at[4] < q.at[4] /\ p.at[1] = q.at[1] /\ p.at[2] = q.at[2]
                                              /\ p.at[3] = q.at[3]
  BY DEF Precedes
<1> QED
  BY <1>1, <1>2

\* A begin sorts by its time, after the ends of that time, the longest slice first.
LEMMA BeginIsAt ==
    ASSUME NEW s, Placed(s)
    PROVE  LET at == BeginPacket(s).at
           IN  /\ at[1] = s.ts /\ at[2] = 1 /\ at[3] = Uuid(s.track) /\ at[4] = -SliceEnd(s)
               /\ \A i \in 1..4 : at[i] \in Int
<1>1. BeginPacket(s).at = <<s.ts, 1, Uuid(s.track), -SliceEnd(s)>>
  BY DEF BeginPacket
<1>2. -SliceEnd(s) \in Int
  BY DEF SliceEnd, Placed
<1> QED
  BY <1>1, <1>2 DEF Placed

\* An end sorts by its time, before the begins of that time, the latest begun first.
LEMMA EndIsAt ==
    ASSUME NEW s, Placed(s)
    PROVE  LET at == EndPacket(s).at
           IN  /\ at[1] = SliceEnd(s) /\ at[2] = 0 /\ at[3] = Uuid(s.track) /\ at[4] = -s.ts
               /\ \A i \in 1..4 : at[i] \in Int
<1>1. EndPacket(s).at = <<SliceEnd(s), 0, Uuid(s.track), -s.ts>>
  BY DEF EndPacket
<1>2. SliceEnd(s) \in Int /\ -s.ts \in Int
  BY DEF SliceEnd, Placed
<1> QED
  BY <1>1, <1>2 DEF Placed

\* Of two slices of one track that begin together, the longer one begins first.
LEMMA BeginPrecedesBegin ==
    ASSUME NEW s, NEW t, Placed(s), Placed(t), s.track = t.track
    PROVE  Precedes(BeginPacket(s), BeginPacket(t)) <=>
               s.ts < t.ts \/ (s.ts = t.ts /\ SliceEnd(t) < SliceEnd(s))
<1>1. SliceEnd(s) \in Int /\ SliceEnd(t) \in Int /\ s.ts \in Int /\ t.ts \in Int
  BY DEF SliceEnd, Placed
<1> DEFINE p == BeginPacket(s)
           q == BeginPacket(t)
<1>2. /\ \A i \in 1..4 : p.at[i] \in Int /\ q.at[i] \in Int
      /\ p.at[3] = q.at[3]
  BY BeginIsAt
<1>3. Precedes(p, q) <=>
        \/ p.at[1] < q.at[1]
        \/ p.at[1] = q.at[1] /\ p.at[2] < q.at[2]
        \/ p.at[1] = q.at[1] /\ p.at[2] = q.at[2] /\ p.at[4] < q.at[4]
  <2> HIDE DEF p, q
  <2> QED
    BY <1>2, PrecedesOnATrack
<1> QED
  BY <1>1, <1>3, BeginIsAt

\* A begin and an end of one instant: the end comes first.
LEMMA BeginPrecedesEnd ==
    ASSUME NEW s, NEW t, Placed(s), Placed(t), s.track = t.track
    PROVE  Precedes(BeginPacket(s), EndPacket(t)) <=> s.ts < SliceEnd(t)
<1>1. SliceEnd(s) \in Int /\ SliceEnd(t) \in Int /\ s.ts \in Int /\ t.ts \in Int
  BY DEF SliceEnd, Placed
<1> DEFINE p == BeginPacket(s)
           q == EndPacket(t)
<1>2. /\ \A i \in 1..4 : p.at[i] \in Int /\ q.at[i] \in Int
      /\ p.at[3] = q.at[3]
  BY BeginIsAt, EndIsAt
<1>3. Precedes(p, q) <=>
        \/ p.at[1] < q.at[1]
        \/ p.at[1] = q.at[1] /\ p.at[2] < q.at[2]
        \/ p.at[1] = q.at[1] /\ p.at[2] = q.at[2] /\ p.at[4] < q.at[4]
  <2> HIDE DEF p, q
  <2> QED
    BY <1>2, PrecedesOnATrack
<1> QED
  BY <1>1, <1>3, BeginIsAt, EndIsAt

\* Of two slices of one track that end together, the later begun one ends first.
LEMMA EndPrecedesEnd ==
    ASSUME NEW s, NEW t, Placed(s), Placed(t), s.track = t.track
    PROVE  Precedes(EndPacket(s), EndPacket(t)) <=>
               SliceEnd(s) < SliceEnd(t) \/ (SliceEnd(s) = SliceEnd(t) /\ t.ts < s.ts)
<1>1. SliceEnd(s) \in Int /\ SliceEnd(t) \in Int /\ s.ts \in Int /\ t.ts \in Int
  BY DEF SliceEnd, Placed
<1> DEFINE p == EndPacket(s)
           q == EndPacket(t)
<1>2. /\ \A i \in 1..4 : p.at[i] \in Int /\ q.at[i] \in Int
      /\ p.at[3] = q.at[3]
  BY EndIsAt
<1>3. Precedes(p, q) <=>
        \/ p.at[1] < q.at[1]
        \/ p.at[1] = q.at[1] /\ p.at[2] < q.at[2]
        \/ p.at[1] = q.at[1] /\ p.at[2] = q.at[2] /\ p.at[4] < q.at[4]
  <2> HIDE DEF p, q
  <2> QED
    BY <1>2, PrecedesOnATrack
<1> QED
  BY <1>1, <1>3, EndIsAt

\* Two slices of a track the writer accepts begin inside one another as they end.
LEMMA NestedWhole ==
    ASSUME NEW s, NEW v, Placed(s), Placed(v), s.track = v.track, s # v,
           ~Crosses(s, v), ~Crosses(v, s)
    PROVE  (Precedes(BeginPacket(s), BeginPacket(v)) /\ Precedes(BeginPacket(v), EndPacket(s)))
           <=> (Precedes(BeginPacket(s), EndPacket(v)) /\ Precedes(EndPacket(v), EndPacket(s)))
<1>1. /\ s.ts \in Int /\ s.dur \in Int /\ s.dur > 0 /\ SliceEnd(s) = s.ts + s.dur
      /\ v.ts \in Int /\ v.dur \in Int /\ v.dur > 0 /\ SliceEnd(v) = v.ts + v.dur
  BY DEF Placed, SliceEnd
<1>2. /\ v.ts < SliceEnd(s) /\ s.ts <= v.ts /\ (s.ts = v.ts => SliceEnd(s) >= SliceEnd(v))
         => ~(SliceEnd(v) > SliceEnd(s)) /\ ~(s.ts = v.ts /\ s.dur = v.dur)
      /\ s.ts < SliceEnd(v) /\ v.ts <= s.ts /\ (v.ts = s.ts => SliceEnd(v) >= SliceEnd(s))
         => ~(SliceEnd(s) > SliceEnd(v)) /\ ~(v.ts = s.ts /\ v.dur = s.dur)
  BY DEF Crosses
<1>3. /\ Precedes(BeginPacket(s), BeginPacket(v)) <=>
           s.ts < v.ts \/ (s.ts = v.ts /\ SliceEnd(v) < SliceEnd(s))
      /\ Precedes(BeginPacket(v), EndPacket(s)) <=> v.ts < SliceEnd(s)
      /\ Precedes(BeginPacket(s), EndPacket(v)) <=> s.ts < SliceEnd(v)
      /\ Precedes(EndPacket(v), EndPacket(s)) <=>
           SliceEnd(v) < SliceEnd(s) \/ (SliceEnd(v) = SliceEnd(s) /\ s.ts < v.ts)
  BY BeginPrecedesBegin, BeginPrecedesEnd, EndPrecedesEnd
<1> QED
  BY <1>1, <1>2, <1>3

------------------------------------------------------------------------------
(* The stack of a track.                                                      *)

\* As many packets as slices: a packet tells whose it is.
LEMMA CountBegins ==
    ASSUME NEW U, IsFiniteSet(U)
    PROVE  Cardinality({BeginPacket(v) : v \in U}) = Cardinality(U)
<1> DEFINE f == [v \in U |-> BeginPacket(v)]
<1>1. \A v \in U : f[v].of = v
  BY DEF BeginPacket
<1>2. f \in [U -> {BeginPacket(v) : v \in U}] /\ \A u, v \in U : f[u] = f[v] => u = v
  BY <1>1
<1>3. \A p \in {BeginPacket(v) : v \in U} : \E v \in U : f[v] = p
  OBVIOUS
<1>4. f \in Bijection(U, {BeginPacket(v) : v \in U})
  <2> HIDE DEF f
  <2> QED
    BY <1>2, <1>3 DEF Bijection, Injection, Surjection, IsInjective
<1>5. ExistsBijection(U, {BeginPacket(v) : v \in U})
  BY <1>4 DEF ExistsBijection
<1> QED
  BY <1>5, FS_Bijection

\* Slices have different end packets, so ends are counted as slices.
LEMMA CountEnds ==
    ASSUME NEW U, IsFiniteSet(U)
    PROVE  Cardinality({EndPacket(v) : v \in U}) = Cardinality(U)
<1> DEFINE f == [v \in U |-> EndPacket(v)]
<1>1. \A v \in U : f[v].of = v
  BY DEF EndPacket
<1>2. f \in [U -> {EndPacket(v) : v \in U}] /\ \A u, v \in U : f[u] = f[v] => u = v
  BY <1>1
<1>3. \A p \in {EndPacket(v) : v \in U} : \E v \in U : f[v] = p
  OBVIOUS
<1>4. f \in Bijection(U, {EndPacket(v) : v \in U})
  <2> HIDE DEF f
  <2> QED
    BY <1>2, <1>3 DEF Bijection, Injection, Surjection, IsInjective
<1>5. ExistsBijection(U, {EndPacket(v) : v \in U})
  BY <1>4 DEF ExistsBijection
<1> QED
  BY <1>5, FS_Bijection

\* The packets of a set of slices, and those of them between two packets.
PacketsOf(T) == {BeginPacket(v) : v \in T} \cup {EndPacket(v) : v \in T}
BegunIn(T, p, q) == {v \in T : Precedes(p, BeginPacket(v)) /\ Precedes(BeginPacket(v), q)}
EndedIn(T, p, q) == {v \in T : Precedes(p, EndPacket(v)) /\ Precedes(EndPacket(v), q)}

\* As many begins as ends between two packets: as many slices begun as ended.
LEMMA BalancedMeans ==
    ASSUME NEW T, IsFiniteSet(T), NEW p, NEW q
    PROVE  Balanced(PacketsOf(T), p, q)
             <=> Cardinality(BegunIn(T, p, q)) = Cardinality(EndedIn(T, p, q))
<1>1. {r \in Between(PacketsOf(T), p, q) : r.kind = "begin"}
        = {BeginPacket(v) : v \in BegunIn(T, p, q)}
  <2>1. /\ \A v : BeginPacket(v).kind = "begin"
        /\ \A v : EndPacket(v).kind = "end"
    BY DEF BeginPacket, EndPacket
  <2> QED
    BY <2>1 DEF PacketsOf, BegunIn, Between
<1>2. {r \in Between(PacketsOf(T), p, q) : r.kind = "end"}
        = {EndPacket(v) : v \in EndedIn(T, p, q)}
  <2>1. /\ \A v : BeginPacket(v).kind = "begin"
        /\ \A v : EndPacket(v).kind = "end"
    BY DEF BeginPacket, EndPacket
  <2> QED
    BY <2>1 DEF PacketsOf, EndedIn, Between
<1>3. IsFiniteSet(BegunIn(T, p, q)) /\ IsFiniteSet(EndedIn(T, p, q))
  <2>1. BegunIn(T, p, q) \in SUBSET T /\ EndedIn(T, p, q) \in SUBSET T
    BY DEF BegunIn, EndedIn
  <2> QED
    BY <2>1, FS_Subset
<1> QED
  BY <1>1, <1>2, <1>3, CountBegins, CountEnds DEF Balanced

\* Of a slice that is nested with every other of its track, the begin is the
\* last one before its end that is still open.
LEMMA LastOpenIsOwn ==
    ASSUME NEW T, IsFiniteSet(T), \A v \in T : Placed(v), \A u, v \in T : ~Crosses(u, v),
           NEW s \in T, \A v \in T : v.track = s.track
    PROVE  LET open == {p \in PacketsOf(T) : /\ p.kind = "begin" /\ Precedes(p, EndPacket(s))
                                             /\ Balanced(PacketsOf(T), p, EndPacket(s))}
           IN  {p \in open : \A q \in open : ~Precedes(p, q)} = {BeginPacket(s)}
<1> DEFINE open == {p \in PacketsOf(T) : /\ p.kind = "begin" /\ Precedes(p, EndPacket(s))
                                         /\ Balanced(PacketsOf(T), p, EndPacket(s))}
           begun(t) == BegunIn(T, BeginPacket(t), EndPacket(s))
           ended(t) == EndedIn(T, BeginPacket(t), EndPacket(s))
<1>1. \A v \in T : /\ v.ts \in Int /\ v.dur \in Int /\ v.dur > 0
                   /\ SliceEnd(v) = v.ts + v.dur /\ SliceEnd(v) \in Int
  BY DEF Placed, SliceEnd
<1>2. \A u, v \in T :
         /\ Precedes(BeginPacket(u), BeginPacket(v)) <=>
              u.ts < v.ts \/ (u.ts = v.ts /\ SliceEnd(v) < SliceEnd(u))
         /\ Precedes(BeginPacket(u), EndPacket(v)) <=> u.ts < SliceEnd(v)
         /\ Precedes(EndPacket(u), EndPacket(v)) <=>
              SliceEnd(u) < SliceEnd(v) \/ (SliceEnd(u) = SliceEnd(v) /\ v.ts < u.ts)
  BY BeginPrecedesBegin, BeginPrecedesEnd, EndPrecedesEnd
<1>3. \A v \in T : v # s =>
         ((Precedes(BeginPacket(s), BeginPacket(v)) /\ Precedes(BeginPacket(v), EndPacket(s)))
          <=> (Precedes(BeginPacket(s), EndPacket(v)) /\ Precedes(EndPacket(v), EndPacket(s))))
  BY NestedWhole
<1>4. begun(s) = ended(s)
  BY <1>1, <1>2, <1>3 DEF BegunIn, EndedIn
<1>5. BeginPacket(s) \in open
  <2>1. BeginPacket(s).kind = "begin" /\ BeginPacket(s) \in PacketsOf(T)
    BY DEF BeginPacket, PacketsOf
  <2>2. Precedes(BeginPacket(s), EndPacket(s))
    BY <1>1, <1>2
  <2>3. Balanced(PacketsOf(T), BeginPacket(s), EndPacket(s))
    BY <1>4, BalancedMeans
  <2> QED
    BY <2>1, <2>2, <2>3
<1>6. \A p \in open : \E t \in T : p = BeginPacket(t)
  BY DEF PacketsOf, EndPacket
<1>7. ASSUME NEW t \in T, BeginPacket(t) \in open
      PROVE  ~Precedes(BeginPacket(s), BeginPacket(t))
  <2> SUFFICES ASSUME Precedes(BeginPacket(s), BeginPacket(t))
               PROVE  FALSE
    OBVIOUS
  <2>1. Precedes(BeginPacket(t), EndPacket(s)) /\ Balanced(PacketsOf(T), BeginPacket(t), EndPacket(s))
    BY <1>7
  <2>2. t # s
    BY <1>1, <1>2
  <2>3. t \in ended(t) /\ t \notin begun(t)
    BY <1>1, <1>2, <1>3, <2>1, <2>2 DEF BegunIn, EndedIn
  <2>4. ASSUME NEW v \in begun(t)
        PROVE  v \in ended(t)
    <3>1. /\ v \in T /\ Precedes(BeginPacket(t), BeginPacket(v))
          /\ Precedes(BeginPacket(v), EndPacket(s))
      BY <2>4 DEF BegunIn
    <3>2. Precedes(BeginPacket(s), BeginPacket(v)) /\ v # s
      BY <1>1, <1>2, <3>1
    <3>3. Precedes(EndPacket(v), EndPacket(s))
      BY <1>3, <3>1, <3>2
    <3>4. Precedes(BeginPacket(t), EndPacket(v))
      BY <1>1, <1>2, <3>1
    <3> QED
      BY <3>1, <3>3, <3>4 DEF EndedIn
  <2>5. IsFiniteSet(ended(t)) /\ begun(t) \in SUBSET ended(t)
    <3>1. ended(t) \in SUBSET T
      BY DEF EndedIn
    <3> QED
      BY <2>4, <3>1, FS_Subset
  <2>6. Cardinality(begun(t)) # Cardinality(ended(t))
    <3> HIDE DEF begun, ended
    <3> QED
      BY <2>3, <2>5, FS_Subset
  <2> QED
    BY <2>1, <2>6, BalancedMeans
<1>8. ASSUME NEW t \in T, BeginPacket(t) \in open, t # s
      PROVE  Precedes(BeginPacket(t), BeginPacket(s))
  <2>1. ~Precedes(BeginPacket(s), BeginPacket(t)) /\ Precedes(BeginPacket(t), EndPacket(s))
    BY <1>7, <1>8
  <2>2. ~Crosses(s, t)
    OBVIOUS
  <2>3. ~(t.ts = s.ts /\ t.dur = s.dur)
    BY <1>1, <1>8, <2>2 DEF Crosses
  <2> QED
    BY <1>1, <1>2, <2>1, <2>3
<1> HIDE DEF open
<1> QED
  BY <1>5, <1>6, <1>7, <1>8 DEF open

\* What the trace processor reads back of a plan that passes the writer's check
\* of the nesting: each slice, with its own begin and its own end.
THEOREM SlicesReadBack ==
    ASSUME NEW plan0, IsFiniteSet(plan0.slices), \A s \in plan0.slices : Placed(s),
           ~NestingRefused(plan0)
    PROVE  SliceRows(TraceOf(plan0)) = {ExpectedSlice(s) : s \in plan0.slices}
<1> DEFINE packets == pending_events(plan0)
           ends == {q \in packets : q.kind = "end"}
<1>1. TraceOf(plan0).packets = packets
  BY DEF TraceOf
<1>2. ends = {EndPacket(s) : s \in plan0.slices}
  BY DEF pending_events, BeginPacket, EndPacket
<1>3. ASSUME NEW s \in plan0.slices
      PROVE  Opened(packets, EndPacket(s)) = {BeginPacket(s)}
  <2> DEFINE T == {v \in plan0.slices : v.track = s.track}
             open == {p \in PacketsOf(T) : /\ p.kind = "begin" /\ Precedes(p, EndPacket(s))
                                            /\ Balanced(PacketsOf(T), p, EndPacket(s))}
  <2>1. \A v : EndPacket(v).of = v /\ BeginPacket(v).of = v
    BY DEF BeginPacket, EndPacket
  <2>2. {p \in packets : p.of.track = EndPacket(s).of.track} = PacketsOf(T)
    BY <2>1 DEF pending_events, PacketsOf
  <2>3. /\ IsFiniteSet(T) /\ s \in T /\ \A v \in T : Placed(v) /\ v.track = s.track
        /\ \A u, v \in T : ~Crosses(u, v)
    <3>1. T \in SUBSET plan0.slices
      OBVIOUS
    <3>2. IsFiniteSet(T)
      <4> HIDE DEF T
      <4> QED
        BY <3>1, FS_Subset
    <3> QED
      BY <3>2 DEF NestingRefused
  <2>4. {p \in open : \A q \in open : ~Precedes(p, q)} = {BeginPacket(s)}
    <3> HIDE DEF T
    <3> QED
      BY <2>3, LastOpenIsOwn
  <2>5. Opened(packets, EndPacket(s)) = {p \in open : \A q \in open : ~Precedes(p, q)}
    BY <2>2 DEF Opened
  <2> QED
    BY <2>4, <2>5
<1>4. \A s \in plan0.slices : SliceRow(BeginPacket(s), EndPacket(s)) = ExpectedSlice(s)
  <2> TAKE s \in plan0.slices
  <2>1. /\ BeginPacket(s).of = s /\ BeginPacket(s).at[1] = s.ts /\ EndPacket(s).at[1] = SliceEnd(s)
    BY BeginIsAt, EndIsAt DEF BeginPacket, EndPacket
  <2>2. SliceEnd(s) - s.ts = s.dur
    BY DEF SliceEnd, Placed
  <2> QED
    BY <2>1, <2>2 DEF SliceRow, ExpectedSlice
<1>5. SliceRows(TraceOf(plan0)) = UNION {{SliceRow(p, e) : p \in Opened(packets, e)} : e \in ends}
  BY <1>1 DEF SliceRows
<1>6. \A s \in plan0.slices : {SliceRow(p, EndPacket(s)) : p \in Opened(packets, EndPacket(s))}
                                = {ExpectedSlice(s)}
  BY <1>3, <1>4
<1>7. {{SliceRow(p, e) : p \in Opened(packets, e)} : e \in ends}
        = {{ExpectedSlice(s)} : s \in plan0.slices}
  <2> HIDE DEF packets
  <2> QED
    BY <1>2, <1>6
<1> QED
  BY <1>5, <1>7

------------------------------------------------------------------------------
(* The steps of a conversion: what each one that succeeded leaves behind it.    *)

SeparatedStages == {"separate", "failed_separate", "publish", "failed_publish", "published"}
FocusedStages == SeparatedStages \cup {"validate_focused", "failed_validate_focused"}
ValidatedStages == FocusedStages \cup {"focus", "failed_focus"}
WrittenStages == ValidatedStages \cup {"validate", "failed_validate"}
CompleteStages == WrittenStages \cup {"write", "failed_write"}
PlannedStages == CompleteStages \cup {"details", "failed_details"}
LoadedStages == PlannedStages \cup {"plan", "failed_plan"}

ContextMade ==
    /\ OneRequest(input.run) => ~ContextRefused(input.run, input.kpis, input.summaries)
    /\ context = IF OneRequest(input.run)
          THEN build_timeline_summary_context(input.run, input.kpis, input.summaries) ELSE None
BasePlan ==
    build_trace_plan(EventsSeen(input.run), input.run.metrics, native_envelopes(input.run), context)
PlanAccepted ==
    ~PlanRefused(EventsSeen(input.run), input.run.metrics, native_envelopes(input.run), context)
NativeMade ==
    /\ ~CaptureOfRunRefused(CaptureOf(input.run))
    /\ native = build_native_detail_plan(CaptureOf(input.run))
PlanMade ==
    \/ native = NoDetails /\ plan = BasePlan
    \/ NativeMade /\ plan = augment_trace_plan(BasePlan, native)
FocusMade == focused = request_focused_plan(plan) /\ focusedTrace = TraceOf(focused)

\* The run is one of the inputs; a stage behind a step has what the step made.
ConversionInv ==
    /\ input \in Inputs
    /\ native = NoDetails \/ NativeMade
    /\ stage \in LoadedStages => ~load_hybrid_run_refused(input.run) /\ ContextMade
    /\ stage \in PlannedStages => PlanAccepted
    /\ stage = "details" => native = NoDetails /\ plan = BasePlan
    /\ stage \in {"load", "plan"} => native = NoDetails
    /\ stage \in CompleteStages => PlanMade
    /\ stage \in WrittenStages => ~WriteRefused(plan) /\ trace = TraceOf(plan)
    /\ stage \in ValidatedStages => validate_trace(plan, trace)
    /\ stage \in FocusedStages /\ config.focused
         => ~FocusRefused(plan) /\ FocusMade /\ ~WriteRefused(focused)
    /\ stage \in SeparatedStages /\ config.focused => validate_trace(focused, focusedTrace)

\* Every conversion of every run: each step works on what the steps before it made
\* and accepted, also where the step itself fails. Nothing is validated that was
\* not written, and the published trace is the one of the validated plan.
THEOREM ConversionHolds == Spec => []ConversionInv
<1> USE DEF SeparatedStages, FocusedStages, ValidatedStages, WrittenStages, CompleteStages,
            PlannedStages, LoadedStages
<1>1. Init => ConversionInv
  BY DEF Init, ConversionInv
<1>2. ConversionInv /\ [Next]_vars => ConversionInv'
  <2> SUFFICES ASSUME ConversionInv, [Next]_vars
               PROVE  ConversionInv'
    OBVIOUS
  <2> USE DEF ConversionInv
  <2>1. CASE Load
    <3>1. CASE Fail("failed_load")
      BY <2>1, <3>1 DEF Load, Fail, NativeMade, ContextMade, PlanAccepted, BasePlan, PlanMade,
                       FocusMade
    <3>2. CASE ~Fail("failed_load")
      BY <2>1, <3>2 DEF Load, NativeMade, ContextMade
    <3> QED
      BY <3>1, <3>2
  <2>2. CASE Plan
    <3>1. CASE Fail("failed_plan")
      BY <2>2, <3>1 DEF Plan, Fail, NativeMade, ContextMade, PlanAccepted, BasePlan, PlanMade,
                       FocusMade
    <3>2. CASE ~Fail("failed_plan")
      BY <2>2, <3>2 DEF Plan, NativeMade, ContextMade, PlanAccepted, BasePlan, PlanMade
    <3> QED
      BY <3>1, <3>2
  <2>3. CASE Details
    <3>1. CASE Fail("failed_details")
      BY <2>3, <3>1 DEF Details, Fail, NativeMade, ContextMade, PlanAccepted, BasePlan, PlanMade,
                       FocusMade
    <3>2. CASE ~Fail("failed_details")
      BY <2>3, <3>2 DEF Details, NativeMade, ContextMade, PlanAccepted, BasePlan, PlanMade
    <3> QED
      BY <3>1, <3>2
  <2>4. CASE Write
    <3>1. CASE Fail("failed_write")
      BY <2>4, <3>1 DEF Write, Fail, NativeMade, ContextMade, PlanAccepted, BasePlan, PlanMade,
                       FocusMade
    <3>2. CASE ~Fail("failed_write")
      BY <2>4, <3>2 DEF Write, NativeMade, ContextMade, PlanAccepted, BasePlan, PlanMade
    <3> QED
      BY <3>1, <3>2
  <2>5. CASE Validate
    <3>1. CASE Fail("failed_validate")
      BY <2>5, <3>1 DEF Validate, Fail, NativeMade, ContextMade, PlanAccepted, BasePlan, PlanMade,
                       FocusMade
    <3>2. CASE ~Fail("failed_validate")
      BY <2>5, <3>2 DEF Validate, NativeMade, ContextMade, PlanAccepted, BasePlan, PlanMade
    <3> QED
      BY <3>1, <3>2
  <2>6. CASE Focus
    <3>1. CASE Fail("failed_focus")
      BY <2>6, <3>1 DEF Focus, Fail, NativeMade, ContextMade, PlanAccepted, BasePlan, PlanMade,
                       FocusMade
    <3>2. CASE ~Fail("failed_focus")
      BY <2>6, <3>2 DEF Focus, NativeMade, ContextMade, PlanAccepted, BasePlan, PlanMade, FocusMade
    <3> QED
      BY <3>1, <3>2
  <2>7. CASE ValidateFocused
    <3>1. CASE Fail("failed_validate_focused")
      BY <2>7, <3>1 DEF ValidateFocused, Fail, NativeMade, ContextMade, PlanAccepted, BasePlan, PlanMade,
                       FocusMade
    <3>2. CASE ~Fail("failed_validate_focused")
      BY <2>7, <3>2 DEF ValidateFocused, NativeMade, ContextMade, PlanAccepted, BasePlan, PlanMade,
                        FocusMade
    <3> QED
      BY <3>1, <3>2
  <2>8. CASE Separate
    <3>1. CASE Fail("failed_separate")
      BY <2>8, <3>1 DEF Separate, Fail, NativeMade, ContextMade, PlanAccepted, BasePlan, PlanMade,
                       FocusMade
    <3>2. CASE ~Fail("failed_separate")
      BY <2>8, <3>2 DEF Separate, NativeMade, ContextMade, PlanAccepted, BasePlan, PlanMade,
                        FocusMade
    <3> QED
      BY <3>1, <3>2
  <2>9. CASE Publish
    <3>1. CASE Fail("failed_publish")
      BY <2>9, <3>1 DEF Publish, Fail, NativeMade, ContextMade, PlanAccepted, BasePlan, PlanMade,
                       FocusMade
    <3>2. CASE ~Fail("failed_publish")
      BY <2>9, <3>2 DEF Publish, NativeMade, ContextMade, PlanAccepted, BasePlan, PlanMade,
                        FocusMade
    <3> QED
      BY <3>1, <3>2
  <2>10. CASE UNCHANGED vars
    BY <2>10 DEF vars, NativeMade, ContextMade, PlanAccepted, BasePlan, PlanMade, FocusMade
  <2> QED
    BY <2>1, <2>2, <2>3, <2>4, <2>5, <2>6, <2>7, <2>8, <2>9, <2>10 DEF Next
<1> QED
  BY <1>1, <1>2, PTL DEF Spec

------------------------------------------------------------------------------
(* Small facts of sets of integers and of sets with one element.               *)

\* A finite set of integers that is not empty has a least element: one with
\* fewest others before it.
LEMMA HasLeast ==
    ASSUME NEW S, IsFiniteSet(S), S # {}, S \subseteq Int
    PROVE  \E x \in S : \A y \in S : x <= y
<1> DEFINE below(x) == {y \in S : y < x}
           T == {below(x) : x \in S}
<1>1. T \subseteq FiniteSubsetsOf(S) /\ T # {}
  <2>1. \A x \in S : below(x) \in SUBSET S /\ IsFiniteSet(below(x))
    <3> TAKE x \in S
    <3>1. below(x) \in SUBSET S
      OBVIOUS
    <3> HIDE DEF below
    <3> QED
      BY <3>1, FS_Subset
  <2> QED
    BY <2>1 DEF FiniteSubsetsOf
<1>2. \E b \in T : \A c \in T : <<c, b>> \notin StrictSubsetOrdering(S)
  <2> HIDE DEF T
  <2> QED
    BY <1>1, WFMin, FS_StrictSubsetOrderingWellFounded
<1>3. PICK x \in S : \A z \in S : <<below(z), below(x)>> \notin StrictSubsetOrdering(S)
  BY <1>2
<1>4. ASSUME NEW z \in S, z < x
      PROVE  FALSE
  <2>1. below(z) \subseteq below(x) /\ z \in below(x) /\ z \notin below(z)
    <3>1. x \in Int /\ z \in Int /\ \A y \in S : y \in Int
      OBVIOUS
    <3>2. \A y \in S : y < z => y < x
      BY <1>4, <3>1
    <3>3. \A y, w \in S : y \in below(w) <=> y < w
      OBVIOUS
    <3>4. below(z) \subseteq S
      OBVIOUS
    <3>5. z < x /\ ~(z < z)
      BY <1>4, <3>1
    <3> HIDE DEF below, T
    <3> QED
      BY <3>2, <3>3, <3>4, <3>5, Zenon
  <2>2. below(z) \in SUBSET S /\ below(x) \in SUBSET S
    OBVIOUS
  <2> HIDE DEF below
  <2> QED
    BY <1>3, <2>1, <2>2 DEF StrictSubsetOrdering
<1> QED
  BY <1>4

\* A finite set of integers that is not empty has a least one, which is an integer.
LEMMA LeastIsInt ==
    ASSUME NEW S, IsFiniteSet(S), S # {}, S \subseteq Int
    PROVE  Least(S) \in Int
BY HasLeast DEF Least

\* Likewise the greatest.
LEMMA GreatestIsInt ==
    ASSUME NEW S, IsFiniteSet(S), S # {}, S \subseteq Int
    PROVE  Greatest(S) \in Int
<1> DEFINE T == {-x : x \in S}
<1>1. IsFiniteSet(T) /\ T # {} /\ T \subseteq Int
  <2> DEFINE f == [x \in S |-> -x]
  <2>1. f \in Surjection(S, T)
    <3>1. f \in [S -> T] /\ \A t \in T : \E x \in S : f[x] = t
      OBVIOUS
    <3> HIDE DEF f, T
    <3> QED
      BY <3>1 DEF Surjection
  <2>2. IsFiniteSet(T)
    <3> HIDE DEF f, T
    <3> QED
      BY <2>1, FS_Surjection
  <2>3. T # {}
    <3>1. PICK x : x \in S
      OBVIOUS
    <3>2. -x \in T
      BY <3>1
    <3> QED
      BY <3>2
  <2>4. T \subseteq Int
    <3>1. \A x \in S : -x \in Int
      OBVIOUS
    <3> QED
      BY <3>1
  <2> QED
    BY <2>2, <2>3, <2>4
<1>2. PICK t \in T : \A u \in T : t <= u
  <2> HIDE DEF T
  <2> QED
    BY <1>1, HasLeast
<1>3. PICK x \in S : t = -x
  OBVIOUS
<1>4. \A y \in S : y <= x
  BY <1>2, <1>3
<1> QED
  BY <1>4 DEF Greatest

\* The one element of a set that is chosen from it.
LEMMA TheOne ==
    ASSUME NEW S, IsFiniteSet(S), Cardinality(S) = 1
    PROVE  (CHOOSE x \in S : TRUE) \in S /\ \A a, b \in S : a = b
BY FS_Singleton

------------------------------------------------------------------------------
(* The rows of a native capture.                                               *)

\* The capture that gives native details is one the readers have typed.
LEMMA CaptureIsTyped ==
    ASSUME NEW i \in Inputs, CaptureOf(i.run) # None, CaptureOf(i.run).source # "rbln"
    PROVE  CaptureTyped(CaptureOf(i.run))
<1>1. PICK r \in Roles : CaptureOf(i.run) = i.run.sources[r].capture
  BY DEF CaptureOf
<1>2. RunTyped(i.run)
  BY InputsAssumption
<1> QED
  BY <1>1, <1>2 DEF RunTyped, SourceTyped

\* The one row of a kind that carries a flow's key.
LEMMA TheLinkedRow ==
    ASSUME NEW capture, CaptureTyped(capture), NEW kind, NEW key,
           Cardinality(LinkedRows(capture, kind, key)) = 1,
           NEW a \in capture.rows,
           a.place = (CHOOSE r \in LinkedRows(capture, kind, key) : TRUE).place
    PROVE  a.kind = kind /\ CorrelationKey(capture, a) = key
<1> DEFINE linked == LinkedRows(capture, kind, key)
           row == CHOOSE r \in linked : TRUE
<1>1. linked \in SUBSET capture.rows
  BY DEF LinkedRows, SliceRowsOf, Emitted
<1>2. IsFiniteSet(linked)
  <2> HIDE DEF linked
  <2> QED
    BY <1>1, FS_Subset DEF CaptureTyped
<1>3. row \in linked
  <2>1. Cardinality(linked) = 1
    OBVIOUS
  <2> HIDE DEF linked
  <2> QED
    BY <1>2, <2>1, TheOne
<1>4. a = row
  <2> HIDE DEF linked, row
  <2>1. row \in capture.rows /\ a.place = row.place
    BY <1>1, <1>3 DEF linked, row
  <2> QED
    BY <2>1 DEF CaptureTyped
<1> HIDE DEF row
<1> QED
  BY <1>3, <1>4 DEF LinkedRows

\* The two ends of a native flow carry one correlation of one process.
LEMMA FlowKeepsProcess ==
    ASSUME NEW capture, CaptureTyped(capture), NEW f \in DetailsOf(capture, FlowKeys(capture)).flows,
           NEW a \in capture.rows, NEW b \in capture.rows,
           a.place = f.source, b.place = f.destination
    PROVE  a.correlation = b.correlation /\ (a.process = b.process \/ b.process = None)
<1>1. PICK key \in FlowKeys(capture) : f = NativeFlow(capture, key)
  BY DEF DetailsOf
<1>2. /\ Cardinality(LinkedRows(capture, "host_api", key)) = 1
      /\ Cardinality(LinkedRows(capture, "device", key)) = 1
  BY DEF FlowKeys
<1>3. /\ f.source = (CHOOSE r \in LinkedRows(capture, "host_api", key) : TRUE).place
      /\ f.destination = (CHOOSE r \in LinkedRows(capture, "device", key) : TRUE).place
  BY <1>1 DEF NativeFlow, FlowSpec
<1>4. CorrelationKey(capture, a) = key
  BY <1>2, <1>3, TheLinkedRow
<1>5. b.kind = "device" /\ CorrelationKey(capture, b) = key
  BY <1>2, <1>3, TheLinkedRow
<1>6. a.correlation = b.correlation /\ Scope(capture, a) = Scope(capture, b)
  <2> HIDE DEF Scope
  <2> QED
    BY <1>4, <1>5 DEF CorrelationKey
<1>7. CASE capture.source = "nsys"
  <2>1. Scope(capture, a) = <<0, a.process>> /\ Scope(capture, b) = <<0, b.process>>
    BY <1>7 DEF Scope
  <2>2. <<0, a.process>> = <<0, b.process>>
    BY <1>6, <2>1
  <2> QED
    BY <1>6, <2>2
<1>8. CASE capture.source = "kineto"
  <2>1. b.process = None
    BY <1>5, <1>8 DEF CaptureTyped, RowTyped
  <2> QED
    BY <1>6, <2>1
<1> QED
  BY <1>7, <1>8 DEF CaptureTyped

\* No flow of the native rows crosses from one process to another.
LEMMA NativeFlowsHold ==
    ASSUME ConversionInv
    PROVE  NativeFlowsKeepTheirProcess
<1> DEFINE capture == CaptureOf(input.run)
<1>1. CASE native = NoDetails
  BY <1>1 DEF NativeFlowsKeepTheirProcess, NoDetails
<1>2. CASE native # NoDetails
  <2>1. native = build_native_detail_plan(capture) /\ input \in Inputs
    BY <1>2 DEF ConversionInv, NativeMade
  <2>2. capture # None /\ capture.source # "rbln" /\ native = DetailsOf(capture, FlowKeys(capture))
    BY <1>2, <2>1 DEF build_native_detail_plan
  <2>3. CaptureTyped(capture)
    BY <2>1, <2>2, CaptureIsTyped
  <2> HIDE DEF capture
  <2>4. \A f \in native.flows : \A a, b \in capture.rows :
           /\ a.place = f.source /\ b.place = f.destination
           => a.correlation = b.correlation /\ (a.process = b.process \/ b.process = None)
    BY <2>2, <2>3, FlowKeepsProcess
  <2> QED
    BY <2>4 DEF capture, NativeFlowsKeepTheirProcess
<1> QED
  BY <1>1, <1>2

\* A native slice of an accepted capture lies on integer times of its own track.
LEMMA NativeSliceTimes ==
    ASSUME NEW capture, CaptureTyped(capture), ~CaptureRefused(capture), NEW keys,
           NEW s \in attach_explicit_flows(capture, keys)
    PROVE  s.ts \in Int /\ s.dur \in Int
<1>1. PICK r \in SliceRowsOf(capture) : s = AttachFlow(capture, NativeSlice(capture, r), keys)
  BY DEF attach_explicit_flows
<1>2. s.ts = OnCanonicalClock(capture, r) /\ s.dur = r.dur
  BY <1>1 DEF AttachFlow, NativeSlice, SliceSpec
<1>3. r \in capture.rows /\ ~RowRefused(capture, r) /\ RowTyped(capture, r)
  BY DEF SliceRowsOf, Emitted, CaptureRefused, CaptureTyped
<1>4. r.ts \in Int
  BY <1>3 DEF RowRefused, RowTyped
<1>5. r.dur \in Int
  <2>1. capture.source \in {"kineto", "nsys"}
    BY DEF CaptureTyped
  <2>2. CASE capture.source = "kineto"
    <3>1. r.phase = "X"
      BY <2>2 DEF SliceRowsOf, Emitted, InstantRows
    <3> QED
      BY <1>3, <3>1 DEF RowRefused, RowTyped
  <2>3. CASE capture.source = "nsys"
    BY <1>3, <2>3 DEF RowRefused, RowTyped
  <2> QED
    BY <2>1, <2>2, <2>3
<1>6. /\ Least(capture.bases) \in Int /\ Least(capture.offsets) \in Int
      /\ Greatest(capture.offsets) \in Int /\ capture.transform \in Int
  BY LeastIsInt, GreatestIsInt DEF CaptureTyped
<1>7. clock_offset(capture) \in Int
  BY <1>6 DEF clock_offset
<1> QED
  BY <1>2, <1>4, <1>5, <1>6, <1>7 DEF OnCanonicalClock, unix_to_canonical

------------------------------------------------------------------------------
(* The slices of a plan.                                                       *)

\* A slice has the fields of one, so that a change of one leaves the others.
IsSlice(s) ==
    s = [track |-> s.track, name |-> s.name, ts |-> s.ts, dur |-> s.dur, note |-> s.note,
         beginFlows |-> s.beginFlows, endFlows |-> s.endFlows,
         beginTerminating |-> s.beginTerminating, endTerminating |-> s.endTerminating]

\* SliceSpec makes a slice, with the fields it is given.
LEMMA SliceSpecIsSlice ==
    ASSUME NEW track, NEW name, NEW ts, NEW dur, NEW note
    PROVE  LET s == SliceSpec(track, name, ts, dur, note)
           IN  IsSlice(s) /\ s.track = track /\ s.ts = ts /\ s.dur = dur /\ s.name = name
                  /\ s.note = note
BY DEF SliceSpec, IsSlice

\* On which lane of its stage a pair is, and which flows it carries, is all that
\* differs between a pair and its slice.
PairOf(item, kind, start, end) ==
    /\ IsSlice(item.spec)
    /\ item.stage = kind.track /\ item.start = start /\ item.end = end
    /\ item.correlation = correlation_of(start)
    /\ Family(item.spec.track) = "stage" /\ base_track_key(item.spec.track) = kind.track
    /\ item.spec.ts = start.ts /\ item.spec.dur = end.ts - start.ts
    /\ item.spec.note = Note(Correlated(correlation_of(start)), start.id, end.id,
                             IF kind.discriminator = "step" THEN start.step ELSE None, None)

\* PairedSlice makes the pair of its two markers.
LEMMA PairedSliceIsPair ==
    ASSUME NEW kind, NEW start, NEW end
    PROVE  PairOf(PairedSlice(kind, start, end), kind, start, end)
<1> DEFINE item == PairedSlice(kind, start, end)
<1>1. /\ item.stage = kind.track /\ item.start = start /\ item.end = end
      /\ item.correlation = correlation_of(start)
      /\ item.spec = SliceSpec(StageKey(kind.track),
                        <<kind.track, IF kind.discriminator = "step" THEN start.step ELSE 0>>,
                        start.ts, end.ts - start.ts,
                        Note(Correlated(correlation_of(start)), start.id, end.id,
                             IF kind.discriminator = "step" THEN start.step ELSE None, None))
  BY DEF PairedSlice
<1>2. /\ IsSlice(item.spec) /\ item.spec.track = StageKey(kind.track)
      /\ item.spec.ts = start.ts /\ item.spec.dur = end.ts - start.ts
      /\ item.spec.note = Note(Correlated(correlation_of(start)), start.id, end.id,
                             IF kind.discriminator = "step" THEN start.step ELSE None, None)
  BY <1>1, SliceSpecIsSlice
<1>3. Family(StageKey(kind.track)) = "stage" /\ base_track_key(StageKey(kind.track)) = kind.track
  BY DEF Family, base_track_key, StageKey, TrackKey
<1> QED
  BY <1>1, <1>2, <1>3 DEF PairOf

\* A slice of the plan comes of a pair, an envelope, or a span left unpaired.
LEMMA PlannedSlice ==
    ASSUME NEW events, NEW drawn, NEW envelopes,
           NEW s \in AllSlices(pair_slices(events), drawn, events, envelopes)
    PROVE  IsSlice(s) /\ Family(s.track) \in {"stage", "phase"}
<1>1. CASE s \in {WithFlows(item, drawn).spec : item \in assign_concurrent_lanes(pair_slices(events))}
  <2>1. PICK laid \in assign_concurrent_lanes(pair_slices(events)) : s = WithFlows(laid, drawn).spec
    BY <1>1
  <2>2. PICK it \in pair_slices(events) :
           \E k : laid = [it EXCEPT !.spec.track = lane_track_key(StageKey(it.stage), k)]
    <3>1. PICK rows : laid \in OnLanes(rows, Lanes(rows)) /\ rows \subseteq pair_slices(events)
      BY DEF assign_concurrent_lanes, OfStage
    <3> DEFINE lane == Lanes(rows)
    <3>2. laid \in OnLanes(rows, lane)
      BY <3>1
    <3> HIDE DEF lane
    <3>3. PICK it \in rows :
             laid = [it EXCEPT !.spec.track = lane_track_key(StageKey(it.stage), lane[it])]
      BY <3>2 DEF OnLanes
    <3> QED
      BY <3>1, <3>3
  <2>3. PICK k : laid = [it EXCEPT !.spec.track = lane_track_key(StageKey(it.stage), k)]
    BY <2>2
  <2>4. PICK kind, start, end : it = PairedSlice(kind, start, end)
    BY DEF pair_slices
  <2> DEFINE lane == lane_track_key(StageKey(it.stage), k)
             laned == [it.spec EXCEPT !.track = lane]
  <2>5. Family(lane) = "stage"
    BY DEF lane_track_key, StageKey, TrackKey, Family
  <2>6. IsSlice(laned) /\ laned.track = lane
    <3>1. IsSlice(it.spec)
      BY <2>4, PairedSliceIsPair DEF PairOf
    <3> HIDE DEF lane
    <3> QED
      BY <3>1 DEF IsSlice
  <2>7. [it EXCEPT !.spec.track = lane].spec = laned
    BY <2>4 DEF PairedSlice
  <2>8. s.track = laned.track /\ IsSlice(s)
    <3> DEFINE item == [it EXCEPT !.spec.track = lane]
    <3>1. DOMAIN item = {"stage", "correlation", "start", "end", "spec"}
      BY <2>4 DEF PairedSlice
    <3>2. item.spec = laned /\ s = WithFlows(item, drawn).spec
      BY <2>1, <2>3, <2>7
    <3> HIDE DEF item, laned
    <3>3. \E a, b, c : s = [item.spec EXCEPT !.beginFlows = a, !.endFlows = b, !.beginTerminating = c]
      BY <3>1, <3>2 DEF WithFlows
    <3> QED
      BY <2>6, <3>2, <3>3 DEF IsSlice
  <2> HIDE DEF lane, laned
  <2> QED
    BY <2>5, <2>6, <2>8
<1>2. CASE s \in native_slices(envelopes)
  <2>1. PICK e \in envelopes :
           s = SliceSpec(Profiler, <<e.profiler, 0>>, e.ts, e.dur,
                         Note(None, None, None, None, e.profiler))
    BY <1>2 DEF native_slices
  <2>2. IsSlice(s) /\ s.track = Profiler
    BY <2>1, SliceSpecIsSlice
  <2> QED
    BY <2>2 DEF Profiler, StageKey, TrackKey, Family
<1>3. CASE s \in UnpairedSlices(events)
  <2>1. PICK e \in Unpaired(events) :
           s = SliceSpec(PhaseKey(e.phase), <<e.name, 0>>, e.ts, e.dur, Remaining(e))
    BY <1>3 DEF UnpairedSlices
  <2>2. IsSlice(s) /\ s.track = PhaseKey(e.phase)
    BY <2>1, SliceSpecIsSlice
  <2> QED
    BY <2>2 DEF PhaseKey, TrackKey, Family
<1> QED
  BY <1>1, <1>2, <1>3 DEF AllSlices

\* The native details come beside the other slices; of those only an envelope changes.
LEMMA CompleteSlice ==
    ASSUME ConversionInv, stage \in CompleteStages, NEW s \in plan.slices
    PROVE  /\ IsSlice(s)
           /\ IsNative(s) => /\ s \in native.slices
                             /\ NativeMade /\ native # NoDetails
<1> DEFINE events == EventsSeen(input.run)
           envelopes == native_envelopes(input.run)
           drawn == DrawnFlows(pair_slices(events))
<1>1. BasePlan.slices = AllSlices(pair_slices(events), drawn, events, envelopes)
  BY DEF BasePlan, build_trace_plan, PlanOf, Planned, TracePlan
<1>2. \A t \in BasePlan.slices : IsSlice(t) /\ Family(t.track) \in {"stage", "phase"}
  <2> HIDE DEF drawn, events, envelopes
  <2> QED
    BY <1>1, PlannedSlice
<1>3. PlanMade
  BY DEF ConversionInv
<1>4. CASE native = NoDetails /\ plan = BasePlan
  BY <1>2, <1>4 DEF IsNative
<1>5. CASE NativeMade /\ plan = augment_trace_plan(BasePlan, native)
  <2>1. plan.slices = {Tell(t, native.profilers) : t \in BasePlan.slices} \cup native.slices
    BY <1>5 DEF augment_trace_plan, BasePlan, build_trace_plan, PlanOf, Planned, TracePlan
  <2>2. CASE s \in native.slices
    <3>1. native # NoDetails
      BY <2>2 DEF NoDetails
    <3>2. /\ native = DetailsOf(CaptureOf(input.run), FlowKeys(CaptureOf(input.run)))
      BY <1>5, <3>1 DEF NativeMade, build_native_detail_plan
    <3>3. PICK capture, r, keys : s = AttachFlow(capture, NativeSlice(capture, r), keys)
      BY <2>2, <3>2 DEF DetailsOf, attach_explicit_flows
    <3>4. IsSlice(NativeSlice(capture, r).spec)
      BY SliceSpecIsSlice DEF NativeSlice
    <3>5. IsSlice(s)
      <4> HIDE DEF IsSlice
      <4>1. CASE s = NativeSlice(capture, r).spec
        BY <3>4, <4>1
      <4>2. CASE s # NativeSlice(capture, r).spec
        <5> DEFINE spec == NativeSlice(capture, r).spec
        <5>1. \E c, d, e : s = [spec EXCEPT !.note.correlation = c, !.beginFlows = d,
                                            !.beginTerminating = e]
          BY <3>3, <4>2 DEF AttachFlow
        <5>2. \E n, d, e : s = [spec EXCEPT !.note = n, !.beginFlows = d, !.beginTerminating = e]
          <6> HIDE DEF spec
          <6> QED
            BY <5>1
        <5> HIDE DEF spec
        <5> QED
          BY <3>4, <5>2 DEF spec, IsSlice
      <4> QED
        BY <4>1, <4>2
    <3> QED
      BY <1>5, <2>2, <3>1, <3>5
  <2>3. CASE s \notin native.slices
    <3>1. PICK t \in BasePlan.slices : s = Tell(t, native.profilers)
      BY <2>1, <2>3
    <3>2. IsSlice(s) /\ s.track = t.track
      <4>1. IsSlice(t)
        BY <1>2
      <4>2. CASE t.track = Profiler
        <5>1. \E n : s = [t EXCEPT !.note = n]
          BY <3>1, <4>2 DEF Tell
        <5> QED
          BY <4>1, <5>1 DEF IsSlice
      <4>3. CASE t.track # Profiler
        BY <3>1, <4>1, <4>3 DEF Tell
      <4> QED
        BY <4>2, <4>3
    <3> QED
      BY <1>2, <3>2 DEF IsNative
  <2> QED
    BY <2>2, <2>3
<1> QED
  BY <1>3, <1>4, <1>5 DEF PlanMade

\* The window of a focused trace is the one measured interval of the client.
LEMMA WindowIsTyped ==
    ASSUME ConversionInv, stage \in CompleteStages, ~WindowDiffers(plan.window)
    PROVE  /\ plan.window.start \in Int /\ plan.window.end \in Int
           /\ plan.window.start <= plan.window.end
<1> DEFINE run == input.run
           row == CHOOSE r \in MeasuredRows(run) : TRUE
           transform == CHOOSE x \in ClientTransforms(run) : TRUE
<1>1. plan.window = BasePlan.window
  <2>1. PlanMade
    BY DEF ConversionInv
  <2>2. CASE plan = BasePlan
    BY <2>2
  <2>3. CASE plan = augment_trace_plan(BasePlan, native)
    BY <2>3 DEF augment_trace_plan, BasePlan, build_trace_plan, PlanOf, Planned, TracePlan
  <2> QED
    BY <2>1, <2>2, <2>3 DEF PlanMade
<1>2. BasePlan.window = IF context = None THEN None ELSE context.window
  BY DEF BasePlan, build_trace_plan, PlanOf, Planned, TracePlan
<1>3. ContextMade /\ context # None
  BY <1>1, <1>2 DEF ConversionInv, WindowDiffers, CompleteStages, PlannedStages, LoadedStages
<1>4. /\ ~ContextRefused(run, input.kpis, input.summaries)
      /\ context = build_timeline_summary_context(run, input.kpis, input.summaries)
  BY <1>3 DEF ContextMade
<1>5. plan.window = measured_request_evidence(run).window
  BY <1>1, <1>2, <1>3, <1>4 DEF build_timeline_summary_context, ContextOf
<1>6. run.sources["gpu"].measured # None
  BY <1>5 DEF measured_request_evidence, Evidence, WindowDiffers
<1>7. plan.window = WindowOf(row, transform)
  BY <1>5, <1>6 DEF measured_request_evidence, Evidence
<1>8. RunTyped(run)
  BY InputsAssumption DEF ConversionInv
<1>9. row \in MeasuredRows(run)
  <2> DEFINE rows == MeasuredRows(run)
  <2>1. rows \in SUBSET run.sources["gpu"].measured /\ IsFiniteSet(run.sources["gpu"].measured)
    BY <1>6, <1>8 DEF MeasuredRows, RunTyped, SourceTyped, Roles
  <2>2. Cardinality(rows) = 1
    BY <1>4, <1>6 DEF ContextRefused, MeasuredRefused
  <2> HIDE DEF rows
  <2>3. IsFiniteSet(rows)
    BY <2>1, FS_Subset
  <2> QED
    BY <2>2, <2>3, TheOne DEF rows
<1>10. transform \in ClientTransforms(run)
  <2> DEFINE rows == ClientTransforms(run)
  <2>1. rows \in SUBSET run.transforms /\ IsFiniteSet(run.transforms)
    BY <1>8 DEF ClientTransforms, RunTyped
  <2>2. Cardinality(rows) = 1
    BY <1>4, <1>6 DEF ContextRefused, MeasuredRefused
  <2> HIDE DEF rows
  <2>3. IsFiniteSet(rows)
    BY <2>1, FS_Subset
  <2> QED
    BY <2>2, <2>3, TheOne DEF rows
<1>11. row.start \in Int /\ row.end \in Int /\ transform.offset \in Int
  BY <1>6, <1>8, <1>9, <1>10 DEF MeasuredRows, ClientTransforms, RunTyped, SourceTyped, Roles,
                                 MeasuredTyped
<1>12. plan.window.start \in Int /\ plan.window.end \in Int
  BY <1>7, <1>11 DEF WindowOf
<1> QED
  BY <1>12 DEF WindowDiffers

\* An interval has a half tick of the window inside it exactly when it overlaps it.
LEMMA SharesIsOverlaps ==
    ASSUME NEW spec, NEW window, spec.ts \in Int, spec.dur \in Int, spec.dur > 0,
           window.start \in Int, window.end \in Int, window.start <= window.end
    PROVE  Shares(spec, window) <=> Overlaps(spec, window)
<1>1. SliceEnd(spec) = spec.ts + spec.dur
  BY DEF SliceEnd
<1>2. ASSUME Shares(spec, window)
      PROVE  Overlaps(spec, window)
  <2>1. PICK t \in (2 * window.start)..(2 * window.end) : 2 * spec.ts < t /\ t < 2 * SliceEnd(spec)
    BY <1>2 DEF Shares
  <2>2. spec.ts < window.end /\ SliceEnd(spec) > window.start
    BY <1>1, <2>1
  <2> QED
    BY <2>2 DEF Overlaps
<1>3. ASSUME Overlaps(spec, window)
      PROVE  Shares(spec, window)
  <2> DEFINE t == IF spec.ts < window.start THEN 2 * window.start ELSE 2 * spec.ts + 1
  <2>1. spec.ts < window.end /\ SliceEnd(spec) > window.start
    BY <1>3 DEF Overlaps
  <2>2. /\ t \in (2 * window.start)..(2 * window.end)
        /\ 2 * spec.ts < t /\ t < 2 * SliceEnd(spec)
    BY <1>1, <2>1
  <2> QED
    BY <2>2 DEF Shares
<1> QED
  BY <1>2, <1>3

\* A native slice of the plan has a length, and its times are integers.
LEMMA NativeSlicePlaced ==
    ASSUME ConversionInv, stage \in WrittenStages, NEW s \in plan.slices, IsNative(s)
    PROVE  s.ts \in Int /\ s.dur \in Int /\ s.dur > 0
<1> DEFINE capture == CaptureOf(input.run)
<1>1. s \in native.slices /\ NativeMade /\ native # NoDetails
  BY CompleteSlice DEF CompleteStages
<1>2. /\ capture # None /\ capture.source # "rbln" /\ ~CaptureRefused(capture)
      /\ native = DetailsOf(capture, FlowKeys(capture))
  BY <1>1 DEF NativeMade, build_native_detail_plan, CaptureOfRunRefused
<1>3. CaptureTyped(capture)
  BY <1>2, CaptureIsTyped DEF ConversionInv
<1>4. s \in attach_explicit_flows(capture, FlowKeys(capture))
  BY <1>1, <1>2 DEF DetailsOf
<1>5. s.ts \in Int /\ s.dur \in Int
  <2> HIDE DEF capture
  <2> QED
    BY <1>2, <1>3, <1>4, NativeSliceTimes
<1>6. ~(s.dur <= 0)
  BY DEF ConversionInv, WriteRefused, TimesRefused
<1> QED
  BY <1>5, <1>6

\* The row of the request and those of the profilers are no stage of the processing.
LEMMA StageNames ==
    /\ "request" \notin PipelineNames \cup DetailNames
    /\ "profiler" \notin PipelineNames \cup DetailNames
<1>1. \A a, b, c, d, e, f : Bracketed(a, b, c, d, e, f).track = a
  BY DEF Bracketed, Stage
<1>2. \A s \in PipelineStages \cup DetailStages : s.track # "request" /\ s.track # "profiler"
  <2> HIDE DEF Bracketed
  <2> QED
    BY <1>1 DEF PipelineStages, DetailStages
<1> QED
  BY <1>2 DEF PipelineNames, DetailNames

\* The focused plan cuts slices and flows away, and changes no slice it keeps.
LEMMA FocusedSlicesAre ==
    ASSUME ConversionInv, stage \in FocusedStages, config.focused
    PROVE  LET kept == WholeFlows(plan.flows, FocusedSlices(plan))
           IN  /\ focused.slices = {KeepFlows(s, kept) : s \in FocusedSlices(plan)}
               /\ \A s \in plan.slices : /\ ExpectedSlice(KeepFlows(s, kept)) = ExpectedSlice(s)
                                         /\ KeepFlows(s, kept).ts = s.ts
                                         /\ KeepFlows(s, kept).dur = s.dur
<1> USE DEF CompleteStages, WrittenStages, ValidatedStages
<1> DEFINE kept == WholeFlows(plan.flows, FocusedSlices(plan))
<1>1. focused.slices = {KeepFlows(s, kept) : s \in FocusedSlices(plan)}
  <2>1. plan = [tracks |-> plan.tracks, slices |-> plan.slices, instants |-> plan.instants,
                   counters |-> plan.counters, flows |-> plan.flows, grouped |-> plan.grouped,
                   gaps |-> plan.gaps, window |-> plan.window, presentation |-> plan.presentation]
    <3>1. BasePlan = [tracks |-> BasePlan.tracks, slices |-> BasePlan.slices,
                      instants |-> BasePlan.instants,
                   counters |-> BasePlan.counters, flows |-> BasePlan.flows, grouped |-> BasePlan.grouped,
                   gaps |-> BasePlan.gaps, window |-> BasePlan.window,
                   presentation |-> BasePlan.presentation]
      BY DEF BasePlan, build_trace_plan, PlanOf, Planned, TracePlan
    <3>2. PlanMade
      BY DEF ConversionInv
    <3> QED
      BY <3>1, <3>2 DEF PlanMade, augment_trace_plan
  <2>2. focused = request_focused_plan(plan)
    BY DEF ConversionInv, FocusMade
  <2> QED
    BY <2>1, <2>2 DEF request_focused_plan, Focused
<1>2. \A s \in plan.slices : /\ ExpectedSlice(KeepFlows(s, kept)) = ExpectedSlice(s)
                              /\ KeepFlows(s, kept).ts = s.ts /\ KeepFlows(s, kept).dur = s.dur
  <2> TAKE s \in plan.slices
  <2>1. IsSlice(s)
    BY CompleteSlice
  <2>2. \E a, b, c, d : KeepFlows(s, kept) = [s EXCEPT !.beginFlows = a, !.endFlows = b,
                            !.beginTerminating = c, !.endTerminating = d]
    BY DEF KeepFlows
  <2> QED
    BY <2>1, <2>2 DEF IsSlice, ExpectedSlice
<1> QED
  BY <1>1, <1>2

\* A focused plan keeps all slices of the request, the native slices that share
\* time with it, and both ends of its flows.
LEMMA FocusHolds ==
    ASSUME ConversionInv
    PROVE  FocusKeepsTheRequest
<1> SUFFICES ASSUME stage = "published", config.focused
             PROVE  FocusKeepsTheRequest
  BY DEF FocusKeepsTheRequest
<1> DEFINE kept == WholeFlows(plan.flows, FocusedSlices(plan))
<1>1. /\ stage \in CompleteStages /\ stage \in WrittenStages /\ stage \in FocusedStages
      /\ stage \in SeparatedStages
  BY DEF CompleteStages, WrittenStages, ValidatedStages, FocusedStages, SeparatedStages
<1>2. /\ ~FocusRefused(plan) /\ focused = request_focused_plan(plan)
      /\ validate_trace(focused, focusedTrace)
  BY <1>1 DEF ConversionInv, FocusMade
<1>3. /\ SliceRows(focusedTrace) = {ExpectedSlice(s) : s \in focused.slices}
      /\ Dangling(focusedTrace) = {}
  BY <1>2 DEF validate_trace, BaseRowsDiffer
<1>4. /\ focused.slices = {KeepFlows(s, kept) : s \in FocusedSlices(plan)}
      /\ \A s \in plan.slices : ExpectedSlice(KeepFlows(s, kept)) = ExpectedSlice(s)
  BY <1>1, FocusedSlicesAre
<1>5. SliceRows(focusedTrace) = {ExpectedSlice(s) : s \in FocusedSlices(plan)}
  <2>1. FocusedSlices(plan) \subseteq plan.slices
    BY DEF FocusedSlices
  <2> QED
    BY <1>3, <1>4, <2>1
<1>6. ASSUME NEW s \in plan.slices, Family(s.track) = "stage",
             base_track_key(s.track) \in PipelineNames \cup DetailNames
      PROVE  ShownFocused(s)
  <2>1. s.track # StageKey("request") /\ s.track # Profiler
    BY <1>6, StageNames DEF Profiler, StageKey, TrackKey, base_track_key
  <2>2. s \in FocusedSlices(plan)
    BY <1>6, <2>1 DEF FocusedSlices, IsNative
  <2> QED
    BY <1>5, <2>2 DEF ShownFocused
<1>7. ASSUME NEW s \in plan.slices, IsNative(s)
      PROVE  Shares(s, plan.window) <=> ShownFocused(s)
  <2>1. s.ts \in Int /\ s.dur \in Int /\ s.dur > 0
    BY <1>1, <1>7, NativeSlicePlaced
  <2>2. /\ plan.window.start \in Int /\ plan.window.end \in Int
        /\ plan.window.start <= plan.window.end
    BY <1>1, <1>2, WindowIsTyped DEF FocusRefused
  <2>3. Shares(s, plan.window) <=> Overlaps(s, plan.window)
    BY <2>1, <2>2, SharesIsOverlaps
  <2>4. ASSUME Overlaps(s, plan.window)
        PROVE  ShownFocused(s)
    <3>1. s.track # StageKey("request") /\ s.track # Profiler
      BY <1>7 DEF Profiler, StageKey, TrackKey, IsNative, Family
    <3>2. s \in FocusedSlices(plan)
      BY <1>7, <2>4, <3>1 DEF FocusedSlices
    <3> QED
      BY <1>5, <3>2 DEF ShownFocused
  <2>5. ASSUME ShownFocused(s)
        PROVE  Overlaps(s, plan.window)
    <3>1. PICK t \in FocusedSlices(plan) : ExpectedSlice(t) = ExpectedSlice(s)
      BY <1>5, <2>5 DEF ShownFocused
    <3>2. t.track = s.track /\ t.ts = s.ts /\ t.dur = s.dur
      BY <3>1 DEF ExpectedSlice
    <3>3. Overlaps(t, plan.window)
      BY <1>7, <3>2 DEF FocusedSlices, IsNative
    <3> QED
      BY <3>2, <3>3 DEF Overlaps, SliceEnd
  <2> QED
    BY <2>3, <2>4, <2>5
<1> QED
  BY <1>3, <1>6, <1>7 DEF FocusKeepsTheRequest

\* Every conversion of every run: the focused trace shows all of the request and
\* the native slices that share time with it, no flow of it has lost an end, and
\* a native flow never joins the calls of one process to the work of another.
THEOREM NativeRowsHold == Spec => []NativeRowsAreTrue
<1>1. ConversionInv => NativeRowsAreTrue
  BY FocusHolds, NativeFlowsHold DEF NativeRowsAreTrue
<1> QED
  BY <1>1, ConversionHolds, PTL

------------------------------------------------------------------------------
(* The markers of a run and the slices and instants that show them.            *)

\* A name belongs to one stage, and to one side of it.
LEMMA NamesTellTheStage ==
    /\ \A s, t \in Stages : s.first # t.last
    /\ \A s, t \in Stages : s.first = t.first => s = t
    /\ \A s, t \in Stages : s.last = t.last => s = t
    /\ \A s \in Stages : s.track # "profiler"
    /\ \A s, t \in Stages : s.track = t.track => s = t
<1>1. \A a, b, c, d, e, f, g :
         /\ Stage(a, b, c, d, e, f, g).track = a /\ Stage(a, b, c, d, e, f, g).first = b
         /\ Stage(a, b, c, d, e, f, g).last = c
  BY DEF Stage
<1>2. \A a, b, c, d, e, f : Bracketed(a, b, c, d, e, f) = Stage(a, b, c, d, d, e, f)
  BY DEF Bracketed
<1> HIDE DEF Stage, Bracketed
<1>3. \A s, t \in Stages : s.first # t.last
  <2>1. \A s \in Stages : s.first \in {"request_received", "prefill_start", "kv_export_start",
           "kv_handoff_start", "kv_transfer_setup_start", "kv_transfer_start",
           "kv_transfer_wait_start", "kv_transform_start", "kv_device_sync_start",
           "decode_schedule_wait_start", "decode_loop_start", "decode_step_start", "sampling_start"}
    BY <1>1, <1>2 DEF Stages, PipelineStages, DetailStages
  <2>2. \A s \in Stages : s.last \in {"response_done", "prefill_end", "kv_export_end",
           "kv_handoff_end", "kv_transfer_setup_end", "kv_transfer_end",
           "kv_transfer_wait_end", "kv_transform_end", "kv_device_sync_end",
           "decode_schedule_wait_end", "decode_loop_end", "decode_step_end", "sampling_end"}
    BY <1>1, <1>2 DEF Stages, PipelineStages, DetailStages
  <2> QED
    BY <2>1, <2>2
<1>4. \A s, t \in Stages : s.first = t.first => s = t
  BY <1>1, <1>2 DEF Stages, PipelineStages, DetailStages
<1>5. \A s, t \in Stages : s.last = t.last => s = t
  BY <1>1, <1>2 DEF Stages, PipelineStages, DetailStages
<1>6. \A s \in Stages : s.track # "profiler"
  BY <1>1, <1>2 DEF Stages, PipelineStages, DetailStages
<1>7. \A s, t \in Stages : s.track = t.track => s = t
  BY <1>1, <1>2 DEF Stages, PipelineStages, DetailStages
<1> QED
  BY <1>3, <1>4, <1>5, <1>6, <1>7

\* A pair with the lane its stage gave it, and the slice and the row it becomes.
LaidPair(paired, it) ==
    [it EXCEPT !.spec.track = lane_track_key(StageKey(it.stage), Lanes(OfStage(paired, it.stage))[it])]
PairSlice(paired, it) == WithFlows(LaidPair(paired, it), DrawnFlows(paired)).spec
SpanSlice(e) == SliceSpec(PhaseKey(e.phase), <<e.name, 0>>, e.ts, e.dur, Remaining(e))

\* Laying pairs in lanes changes the track of each and nothing else.
LEMMA LanesLayPairs ==
    ASSUME NEW paired, \A it \in paired : \E s \in Stages : it.stage = s.track
    PROVE  assign_concurrent_lanes(paired) = {LaidPair(paired, it) : it \in paired}
<1> DEFINE laid(rows) == OnLanes(rows, Lanes(rows))
<1>1. \A s \in Stages : laid(OfStage(paired, s.track))
                          = {LaidPair(paired, it) : it \in OfStage(paired, s.track)}
  <2> TAKE s \in Stages
  <2> DEFINE rows == OfStage(paired, s.track)
  <2>1. \A it \in rows : it.stage = s.track
    BY DEF OfStage
  <2>2. \A it \in rows : LaidPair(paired, it)
            = [it EXCEPT !.spec.track = lane_track_key(StageKey(it.stage), Lanes(rows)[it])]
    BY <2>1 DEF LaidPair
  <2>3. laid(rows) = {[it EXCEPT !.spec.track = lane_track_key(StageKey(it.stage), Lanes(rows)[it])] :
                        it \in rows}
    BY DEF OnLanes
  <2> HIDE DEF rows, laid
  <2> QED
    BY <2>2, <2>3 DEF rows
<1>2. assign_concurrent_lanes(paired) = UNION {laid(OfStage(paired, s.track)) : s \in Stages}
  BY DEF assign_concurrent_lanes
<1>3. \A it : it \in paired <=> \E s \in Stages : it \in OfStage(paired, s.track)
  BY DEF OfStage
<1> HIDE DEF laid
<1> QED
  BY <1>1, <1>2, <1>3

\* What the slice of a pair keeps of it.
LEMMA PairSliceKeeps ==
    ASSUME NEW paired, NEW it \in paired, NEW kind \in Stages, NEW start, NEW end,
           it = PairedSlice(kind, start, end)
    PROVE  /\ PairSlice(paired, it).note.first = start.id
           /\ PairSlice(paired, it).note.last = end.id
           /\ PairSlice(paired, it).track # Profiler
           /\ IsSlice(PairSlice(paired, it))
           /\ PairSlice(paired, it).ts = start.ts /\ PairSlice(paired, it).dur = end.ts - start.ts
<1> DEFINE lane == lane_track_key(StageKey(it.stage), Lanes(OfStage(paired, it.stage))[it])
           laned == [it.spec EXCEPT !.track = lane]
<1>1. PairOf(it, kind, start, end)
  BY PairedSliceIsPair
<1>2. lane # Profiler
  <2>1. lane[2] = kind.track
    BY <1>1 DEF lane_track_key, StageKey, TrackKey, PairOf
  <2>2. Profiler[2] = "profiler"
    BY DEF Profiler, StageKey, TrackKey
  <2> QED
    BY <2>1, <2>2, NamesTellTheStage
<1>3. /\ IsSlice(laned) /\ laned.track = lane /\ laned.note = it.spec.note
      /\ laned.ts = start.ts /\ laned.dur = end.ts - start.ts
  <2> HIDE DEF lane
  <2> QED
    BY <1>1 DEF PairOf, IsSlice
<1>4. LaidPair(paired, it).spec = laned
        /\ DOMAIN LaidPair(paired, it) = {"stage", "correlation", "start", "end", "spec"}
  <2> HIDE DEF lane
  <2> QED
    BY DEF lane, LaidPair, PairedSlice
<1>5. \E a, b, c : PairSlice(paired, it)
                     = [laned EXCEPT !.beginFlows = a, !.endFlows = b, !.beginTerminating = c]
  <2> HIDE DEF laned
  <2> QED
    BY <1>4 DEF PairSlice, WithFlows
<1>6. /\ PairSlice(paired, it).track = lane /\ PairSlice(paired, it).note = it.spec.note
      /\ IsSlice(PairSlice(paired, it))
      /\ PairSlice(paired, it).ts = start.ts /\ PairSlice(paired, it).dur = end.ts - start.ts
  <2> HIDE DEF lane, laned
  <2> QED
    BY <1>3, <1>5 DEF IsSlice
<1>7. it.spec.note.first = start.id /\ it.spec.note.last = end.id
  BY <1>1 DEF PairOf, Note
<1> HIDE DEF lane
<1> QED
  BY <1>2, <1>6, <1>7

\* A note that stands for no event, told or linked or not.
LEMMA BareNote ==
    ASSUME NEW profiler, NEW value
    PROVE  LET note == Note(None, None, None, None, profiler)
           IN  /\ note.first = None /\ note.last = None
               /\ [note EXCEPT !.emitted = value].first = None
               /\ [note EXCEPT !.emitted = value].last = None
               /\ [note EXCEPT !.correlation = value].first = None
               /\ [note EXCEPT !.correlation = value].last = None
BY DEF Note

\* The pairs of a run, and the slices that show its events.
PairsOf(run) == pair_slices(EventsSeen(run))

\* A pair joins a first and a last marker of one stage and one key.
LEMMA PairIsMade ==
    ASSUME NEW run, NEW it \in PairsOf(run)
    PROVE  \E kind \in Stages : \E start, end \in EventsSeen(run) :
              /\ start.name = kind.first /\ end.name = kind.last
              /\ pair_key(kind, start) = pair_key(kind, end)
              /\ it = PairedSlice(kind, start, end) /\ it.stage = kind.track
BY DEF PairsOf, pair_slices, Pairs, Named, PairedSlice

\* The slices of a base plan: the pairs in their lanes, the native spans of the
\* envelopes, and the events that are spans of their own.
LEMMA BaseSlicesAre ==
    ASSUME ConversionInv
    PROVE  BasePlan.slices
             = {PairSlice(PairsOf(input.run), it) : it \in PairsOf(input.run)}
               \cup native_slices(native_envelopes(input.run))
               \cup {SpanSlice(e) : e \in {x \in Unpaired(EventsSeen(input.run)) : x.type = "span"}}
<1> DEFINE run == input.run
           events == EventsSeen(run)
           paired == PairsOf(run)
           P == {PairSlice(paired, it) : it \in paired}
           U == {SpanSlice(e) : e \in {x \in Unpaired(events) : x.type = "span"}}
<1>1. BasePlan.slices = AllSlices(paired, DrawnFlows(paired), events, native_envelopes(run))
  BY DEF BasePlan, build_trace_plan, PlanOf, Planned, TracePlan, PairsOf
<1>2. assign_concurrent_lanes(paired) = {LaidPair(paired, it) : it \in paired}
  <2>1. \A it \in paired : \E s \in Stages : it.stage = s.track
    BY PairIsMade
  <2> HIDE DEF paired
  <2> QED
    BY <2>1, LanesLayPairs
<1>3. {WithFlows(item, DrawnFlows(paired)).spec : item \in assign_concurrent_lanes(paired)} = P
  BY <1>2 DEF PairSlice
<1>4. UnpairedSlices(events) = U
  BY DEF UnpairedSlices, SpanSlice
<1> QED
  BY <1>1, <1>3, <1>4 DEF AllSlices

\* With or without native details, each pair and each span event has its slice, and
\* no other slice of the plan names a marker.
LEMMA EventSlices ==
    ASSUME ConversionInv, stage \in CompleteStages
    PROVE  /\ \A it \in PairsOf(input.run) : PairSlice(PairsOf(input.run), it) \in plan.slices
           /\ \A e \in Unpaired(EventsSeen(input.run)) : e.type = "span" => SpanSlice(e) \in plan.slices
           /\ \A s \in plan.slices :
                 \/ \E it \in PairsOf(input.run) : s = PairSlice(PairsOf(input.run), it)
                 \/ \E e \in Unpaired(EventsSeen(input.run)) : e.type = "span" /\ s = SpanSlice(e)
                 \/ s.note.first = None /\ s.note.last = None
<1> DEFINE run == input.run
           events == EventsSeen(run)
           paired == PairsOf(run)
           envelopes == native_envelopes(run)
           P == {PairSlice(paired, it) : it \in paired}
           U == {SpanSlice(e) : e \in {x \in Unpaired(events) : x.type = "span"}}
           N == native_slices(envelopes)
<1>1. BasePlan.slices = P \cup N \cup U
  BY BaseSlicesAre
<1>2. \A s \in P \cup U : s.track # Profiler
  <2>1. \A s \in P : s.track # Profiler
    BY PairIsMade, PairSliceKeeps
  <2>2. \A e : SpanSlice(e).track = <<"phase", e.phase, 0>>
    BY DEF SpanSlice, SliceSpec, PhaseKey, TrackKey
  <2>3. Profiler = <<"stage", "profiler", 0>>
    BY DEF Profiler, StageKey, TrackKey
  <2> QED
    BY <2>1, <2>2, <2>3
<1>3. \A s \in N : IsSlice(s) /\ \E p : s.note = Note(None, None, None, None, p)
  <2> TAKE s \in N
  <2>1. PICK e \in envelopes : s = SliceSpec(Profiler, <<e.profiler, 0>>, e.ts, e.dur,
                         Note(None, None, None, None, e.profiler))
    BY DEF native_slices
  <2>2. IsSlice(s) /\ s.note = Note(None, None, None, None, e.profiler)
    BY <2>1, SliceSpecIsSlice
  <2> QED
    BY <2>2
<1>4. PlanMade
  BY DEF ConversionInv
<1>5. \A s \in N : s.note.first = None /\ s.note.last = None
  BY <1>3, BareNote
<1>6. CASE plan = BasePlan
  <2> HIDE DEF P, U, N
  <2>1. plan.slices = P \cup N \cup U
    BY <1>1, <1>6
  <2> QED
    BY <1>5, <2>1 DEF P, U
<1>7. CASE NativeMade /\ plan = augment_trace_plan(BasePlan, native)
  <2>1. plan.slices = {Tell(t, native.profilers) : t \in BasePlan.slices} \cup native.slices
    BY <1>7 DEF augment_trace_plan, BasePlan, build_trace_plan, PlanOf, Planned, TracePlan
  <2>2. \A s \in P \cup U : Tell(s, native.profilers) = s
    BY <1>2 DEF Tell
  <2>3. \A s \in N : Tell(s, native.profilers).note.first = None
                     /\ Tell(s, native.profilers).note.last = None
    <3> TAKE s \in N
    <3>1. CASE s.track = Profiler
      <4>1. \E b : Tell(s, native.profilers) = [s EXCEPT !.note = [s.note EXCEPT !.emitted = b]]
        BY <3>1 DEF Tell
      <4>2. PICK b : Tell(s, native.profilers) = [s EXCEPT !.note = [s.note EXCEPT !.emitted = b]]
        BY <4>1
      <4>3. Tell(s, native.profilers).note = [s.note EXCEPT !.emitted = b]
        BY <1>3, <4>2 DEF IsSlice
      <4>4. [s.note EXCEPT !.emitted = b].first = None /\ [s.note EXCEPT !.emitted = b].last = None
        BY <1>3, BareNote
      <4> QED
        BY <4>3, <4>4
    <3>2. CASE s.track # Profiler
      BY <1>5, <3>2 DEF Tell
    <3> QED
      BY <3>1, <3>2
  <2>4. \A s \in native.slices : s.note.first = None /\ s.note.last = None
    <3> TAKE s \in native.slices
    <3>1. native # NoDetails
      BY DEF NoDetails
    <3>2. /\ native = DetailsOf(CaptureOf(input.run), FlowKeys(CaptureOf(input.run)))
      BY <1>7, <3>1 DEF NativeMade, build_native_detail_plan
    <3>3. PICK capture, r, keys : s = AttachFlow(capture, NativeSlice(capture, r), keys)
      BY <3>2 DEF DetailsOf, attach_explicit_flows
    <3> DEFINE spec == NativeSlice(capture, r).spec
    <3>4. IsSlice(spec) /\ spec.note = NativeNote(capture.profiler)
      BY SliceSpecIsSlice DEF NativeSlice
    <3>5. \/ s = spec
          \/ \E c, d, e : s = [spec EXCEPT !.note = [spec.note EXCEPT !.correlation = c],
                                           !.beginFlows = d, !.beginTerminating = e]
      BY <3>3 DEF AttachFlow
    <3>6. \/ s.note = spec.note
          \/ \E c : s.note = [spec.note EXCEPT !.correlation = c]
      <4> HIDE DEF spec
      <4> QED
        BY <3>4, <3>5 DEF IsSlice
    <3> HIDE DEF spec
    <3> QED
      <4>1. spec.note = Note(None, None, None, None, capture.profiler)
        BY <3>4 DEF NativeNote
      <4>2. CASE s.note = spec.note
        BY <4>1, <4>2, BareNote
      <4>3. CASE s.note # spec.note
        <5>1. PICK c : s.note = [Note(None, None, None, None, capture.profiler) EXCEPT !.correlation = c]
          BY <3>6, <4>1, <4>3
        <5> QED
          BY <5>1, BareNote
      <4> QED
        BY <4>2, <4>3
  <2> HIDE DEF P, U, N
  <2>5. /\ P \cup U \subseteq plan.slices
        /\ \A s \in plan.slices : s \in P \cup U \/ (s.note.first = None /\ s.note.last = None)
    BY <1>1, <2>1, <2>2, <2>3, <2>4
  <2> QED
    BY <2>5 DEF P, U
<1> QED
  BY <1>4, <1>6, <1>7 DEF PlanMade

\* The instants of a plan: of boundaries, of events left unpaired, of measured
\* tokens, and those that stand for no event.
SpotInstant(e) == InstantSpec(PhaseKey(e.phase), <<e.name, 0>>, e.ts, Remaining(e))

\* Likewise of the instants: shown boundaries, events on their own and tokens.
LEMMA EventInstants ==
    ASSUME ConversionInv, stage \in CompleteStages
    PROVE  LET events == EventsSeen(input.run)
               tokens == TokensOf(context)
               grouped == context # None
           IN  /\ \A e \in ShownBoundaries(events, tokens) :
                     boundary_instant(e, grouped) \in plan.instants
               /\ \A e \in Unpaired(events) : e.type # "span" => SpotInstant(e) \in plan.instants
               /\ \A t \in tokens : token_output_instant(t) \in plan.instants
               /\ \A i \in plan.instants :
                     \/ \E e \in ShownBoundaries(events, tokens) : i = boundary_instant(e, grouped)
                     \/ \E e \in Unpaired(events) : e.type # "span" /\ i = SpotInstant(e)
                     \/ \E t \in tokens : i = token_output_instant(t)
                     \/ i.note.first = None /\ i.track # BoundaryEvents
<1> DEFINE events == EventsSeen(input.run)
           tokens == TokensOf(context)
           grouped == context # None
           B == {boundary_instant(e, grouped) : e \in ShownBoundaries(events, tokens)}
           U == {SpotInstant(e) : e \in {x \in Unpaired(events) : x.type # "span"}}
           T == {token_output_instant(t) : t \in tokens}
<1>1. \E M : /\ BasePlan.instants = B \cup T \cup U \cup M
             /\ \A i \in M : i.note.first = None /\ i.track # BoundaryEvents
  <2> DEFINE times == {e.ts : e \in events} \cup {c.ts : c \in resource_counters(input.run.metrics)}
                      \cup {e.ts : e \in native_envelopes(input.run)}
             M == IF context # None THEN {} ELSE {LegacyInstant(times)}
  <2>1. BasePlan.instants = B \cup T \cup U \cup M
    <3>1. BasePlan.instants = AllInstants(events, resource_counters(input.run.metrics),
                                          native_envelopes(input.run), context)
      BY DEF BasePlan, build_trace_plan, PlanOf, Planned, TracePlan
    <3>2. BoundaryInstants(events, tokens, grouped) = B \cup T
      BY DEF BoundaryInstants
    <3>3. UnpairedInstants(events) = U
      BY DEF UnpairedInstants, SpotInstant
    <3> QED
      BY <3>1, <3>2, <3>3 DEF AllInstants
  <2>2. \A i \in M : i.note.first = None /\ i.track # BoundaryEvents
    <3>1. /\ LegacyInstant(times).note = Note(None, None, None, None, None)
          /\ LegacyInstant(times).track = ClockMetadata
      BY DEF LegacyInstant, InstantSpec
    <3>2. ClockMetadata # BoundaryEvents
      BY DEF ClockMetadata, BoundaryEvents, StageKey, TrackKey
    <3> QED
      BY <3>1, <3>2, BareNote
  <2> HIDE DEF M, B, U, T
  <2> QED
    BY <2>1, <2>2
<1>2. PICK M : /\ BasePlan.instants = B \cup T \cup U \cup M
               /\ \A i \in M : i.note.first = None /\ i.track # BoundaryEvents
  BY <1>1
<1>3. PlanMade
  BY DEF ConversionInv
<1>4. \E R : /\ plan.instants = B \cup T \cup U \cup R
             /\ \A i \in R : i.note.first = None /\ i.track # BoundaryEvents
  <2>1. CASE plan = BasePlan
    BY <1>2, <2>1
  <2>2. CASE NativeMade /\ plan = augment_trace_plan(BasePlan, native)
    <3>1. plan.instants = BasePlan.instants \cup native.instants
      BY <2>2 DEF augment_trace_plan, BasePlan, build_trace_plan, PlanOf, Planned, TracePlan
    <3>2. \A i \in native.instants : i.note.first = None /\ i.track # BoundaryEvents
      <4> TAKE i \in native.instants
      <4>1. native # NoDetails
        BY DEF NoDetails
      <4>2. native = DetailsOf(CaptureOf(input.run), FlowKeys(CaptureOf(input.run)))
        BY <2>2, <4>1 DEF NativeMade, build_native_detail_plan
      <4>3. PICK capture, r : i = NativeInstant(capture, r)
        BY <4>2 DEF DetailsOf
      <4>4. /\ i.note = Note(None, None, None, None, capture.profiler)
            /\ i.track = LeafKey(capture.profiler, r)
        BY <4>3 DEF NativeInstant, InstantSpec, NativeNote
      <4>5. \A p : LeafKey(p, r) # BoundaryEvents
        BY DEF LeafKey, NativeKey, BoundaryEvents, TrackKey
      <4> QED
        BY <4>4, <4>5, BareNote
    <3>3. plan.instants = B \cup T \cup U \cup (M \cup native.instants)
      <4> HIDE DEF B, T, U
      <4> QED
        BY <1>2, <3>1
    <3>4. \A i \in M \cup native.instants : i.note.first = None /\ i.track # BoundaryEvents
      <4> HIDE DEF B, T, U
      <4> QED
        BY <1>2, <3>2, Zenon
    <3> HIDE DEF B, T, U
    <3> QED
      BY <3>3, <3>4, Zenon
  <2> HIDE DEF B, T, U
  <2> QED
    BY <1>3, <2>1, <2>2, Zenon DEF PlanMade
<1>5. PICK R : /\ plan.instants = B \cup T \cup U \cup R
               /\ \A i \in R : i.note.first = None /\ i.track # BoundaryEvents
  BY <1>4
<1> HIDE DEF events, tokens, grouped
<1>6. /\ \A e \in ShownBoundaries(events, tokens) : boundary_instant(e, grouped) \in plan.instants
      /\ \A e \in Unpaired(events) : e.type # "span" => SpotInstant(e) \in plan.instants
      /\ \A t \in tokens : token_output_instant(t) \in plan.instants
      /\ \A i \in plan.instants :
            \/ \E e \in ShownBoundaries(events, tokens) : i = boundary_instant(e, grouped)
            \/ \E e \in Unpaired(events) : e.type # "span" /\ i = SpotInstant(e)
            \/ \E t \in tokens : i = token_output_instant(t)
            \/ i.note.first = None /\ i.track # BoundaryEvents
  BY <1>5
<1> QED
  BY <1>6 DEF events, tokens, grouped

\* The loader has seen to it that an event is known by its id.
LEMMA IdsAreUnique ==
    ASSUME ConversionInv, stage \in LoadedStages
    PROVE  /\ IsFiniteSet(EventsSeen(input.run))
           /\ \A e \in EventsSeen(input.run) : e.id # None
           /\ \A a, b \in EventsSeen(input.run) : a.id = b.id => a = b
<1> DEFINE rows == input.run.events
           ids == {rows[i].id : i \in DOMAIN rows}
           n == Len(rows)
           f == [i \in 1..n |-> rows[i].id]
           g == [i \in 1..n |-> rows[i]]
<1>1. RunTyped(input.run)
  BY InputsAssumption DEF ConversionInv
<1>2. DOMAIN rows = 1..n /\ n \in Nat
  BY <1>1 DEF RunTyped
<1>3. IsFiniteSet(1..n) /\ Cardinality(1..n) = n
  <2> HIDE DEF n
  <2> QED
    BY <1>2, FS_Interval
<1>4. Cardinality(ids) = n
  BY DEF ConversionInv, load_hybrid_run_refused, NormalizedRefused, EventsRefused
<1>5. f \in Surjection(1..n, ids)
  <2>1. f \in [1..n -> ids] /\ \A x \in ids : \E i \in 1..n : f[i] = x
    BY <1>2
  <2> HIDE DEF f, ids, n
  <2> QED
    BY <2>1 DEF Surjection
<1>6. f \in Injection(1..n, ids)
  <2> HIDE DEF f, ids, n
  <2> QED
    BY <1>3, <1>4, <1>5, FS_Surjection
<1>7. \A i, j \in 1..n : rows[i].id = rows[j].id => i = j
  <2>1. \A i, j \in 1..n : f[i] = f[j] => i = j
    <3> HIDE DEF f, ids, n
    <3> QED
      BY <1>6 DEF Injection, IsInjective
  <2> QED
    BY <2>1
<1>8. EventsSeen(input.run) = {rows[i] : i \in 1..n}
  BY <1>2 DEF EventsSeen
<1>9. IsFiniteSet(EventsSeen(input.run))
  <2>1. g \in Surjection(1..n, EventsSeen(input.run))
    <3>1. /\ g \in [1..n -> EventsSeen(input.run)]
          /\ \A x \in EventsSeen(input.run) : \E i \in 1..n : g[i] = x
      BY <1>8
    <3> HIDE DEF g, n
    <3> QED
      BY <3>1 DEF Surjection
  <2> HIDE DEF g, n
  <2> QED
    BY <1>3, <2>1, FS_Surjection
<1>10. \A e \in EventsSeen(input.run) : e.id # None
  BY <1>1 DEF RunTyped, EventTyped
<1> QED
  BY <1>7, <1>8, <1>9, <1>10

\* Nor has a stage two events of one key on a side.
LEMMA KeysAreUnique ==
    ASSUME NEW kind, NEW rows, IsFiniteSet(rows), ~DuplicateKey(kind, rows),
           NEW a \in rows, NEW b \in rows, pair_key(kind, a) = pair_key(kind, b)
    PROVE  a = b
<1> DEFINE keys == Keys(kind, rows)
           f == [e \in rows |-> pair_key(kind, e)]
<1>1. Cardinality(keys) = Cardinality(rows)
  BY DEF DuplicateKey
<1>2. f \in [rows -> keys] /\ \A x \in keys : \E e \in rows : f[e] = x
  BY DEF Keys
<1>3. f \in Injection(rows, keys)
  <2> HIDE DEF f, keys
  <2>1. f \in Surjection(rows, keys)
    BY <1>2 DEF Surjection
  <2> QED
    BY <1>1, <2>1, FS_Surjection
<1>4. f[a] = f[b]
  OBVIOUS
<1> HIDE DEF f, keys
<1> QED
  BY <1>3, <1>4 DEF Injection, IsInjective

\* A marker of a stage begins, or ends, exactly one pair.
LEMMA OnePairForEach ==
    ASSUME ConversionInv, stage \in PlannedStages, NEW kind \in Stages,
           NEW e \in EventsSeen(input.run)
    PROVE  /\ e.name = kind.first
                => \E end \in EventsSeen(input.run) :
                      /\ PairedSlice(kind, e, end) \in PairsOf(input.run)
                      /\ \A other \in EventsSeen(input.run) :
                            PairedSlice(kind, e, other) \in PairsOf(input.run) => other = end
           /\ e.name = kind.last
                => \E start \in EventsSeen(input.run) :
                      /\ PairedSlice(kind, start, e) \in PairsOf(input.run)
                      /\ \A other \in EventsSeen(input.run) :
                            PairedSlice(kind, other, e) \in PairsOf(input.run) => other = start
<1> DEFINE events == EventsSeen(input.run)
           starts == Named(events, kind.first)
           ends == Named(events, kind.last)
<1>1. IsFiniteSet(starts) /\ IsFiniteSet(ends)
  <2>1. starts \in SUBSET events /\ ends \in SUBSET events
    BY DEF Named
  <2>2. IsFiniteSet(events)
    BY IdsAreUnique DEF LoadedStages
  <2> HIDE DEF starts, ends, events
  <2> QED
    BY <2>1, <2>2, FS_Subset
<1>2. /\ ~DuplicateKey(kind, starts) /\ ~DuplicateKey(kind, ends)
      /\ Keys(kind, starts) = Keys(kind, ends)
  BY DEF ConversionInv, PlanAccepted, PlanRefused, PairingRefused, StageRefused
<1>3. \A a, b : a \in starts /\ b \in ends /\ pair_key(kind, a) = pair_key(kind, b)
                  => PairedSlice(kind, a, b) \in PairsOf(input.run)
  <2> DEFINE made(s) == {PairedSlice(s, pair[1], pair[2]) :
                           pair \in Pairs(s, Named(events, s.first), Named(events, s.last))}
  <2> TAKE a, b
  <2> SUFFICES ASSUME a \in starts, b \in ends, pair_key(kind, a) = pair_key(kind, b)
               PROVE  PairedSlice(kind, a, b) \in PairsOf(input.run)
    OBVIOUS
  <2>1. <<a, b>> \in Pairs(kind, starts, ends)
    BY DEF Pairs
  <2>2. PairedSlice(kind, a, b) \in made(kind)
    BY <2>1
  <2>3. PairsOf(input.run) = UNION {made(s) : s \in Stages}
    BY DEF PairsOf, pair_slices
  <2> HIDE DEF made
  <2> QED
    BY <2>2, <2>3
<1>4. \A a, b : PairedSlice(kind, a, b) \in PairsOf(input.run)
                  => a \in starts /\ b \in ends /\ pair_key(kind, a) = pair_key(kind, b)
  <2> TAKE a, b
  <2> SUFFICES ASSUME PairedSlice(kind, a, b) \in PairsOf(input.run)
               PROVE  a \in starts /\ b \in ends /\ pair_key(kind, a) = pair_key(kind, b)
    OBVIOUS
  <2>1. PICK k \in Stages, x \in events, y \in events :
           /\ x.name = k.first /\ y.name = k.last /\ pair_key(k, x) = pair_key(k, y)
           /\ PairedSlice(kind, a, b) = PairedSlice(k, x, y)
    BY PairIsMade
  <2>2. a = x /\ b = y /\ kind.track = k.track
    BY <2>1 DEF PairedSlice
  <2>3. kind = k
    BY <2>2, NamesTellTheStage
  <2> QED
    BY <2>1, <2>2, <2>3 DEF Named
<1>5. ASSUME e.name = kind.first
      PROVE  \E end \in events : /\ PairedSlice(kind, e, end) \in PairsOf(input.run)
                /\ \A other \in events :
                      PairedSlice(kind, e, other) \in PairsOf(input.run) => other = end
  <2>1. PICK end \in ends : pair_key(kind, e) = pair_key(kind, end)
    BY <1>2, <1>5 DEF Keys, Named
  <2>2. end \in events /\ e \in starts
    BY <1>5 DEF Named
  <2>3. PairedSlice(kind, e, end) \in PairsOf(input.run)
    BY <1>3, <2>1, <2>2
  <2>4. ASSUME NEW other \in events, PairedSlice(kind, e, other) \in PairsOf(input.run)
        PROVE  other = end
    <3>1. other \in ends /\ pair_key(kind, other) = pair_key(kind, end)
      BY <1>4, <2>1, <2>4
    <3> HIDE DEF ends
    <3> QED
      BY <1>1, <1>2, <3>1, KeysAreUnique
  <2> QED
    BY <2>2, <2>3, <2>4
<1>6. ASSUME e.name = kind.last
      PROVE  \E start \in events : /\ PairedSlice(kind, start, e) \in PairsOf(input.run)
                /\ \A other \in events :
                      PairedSlice(kind, other, e) \in PairsOf(input.run) => other = start
  <2>1. PICK start \in starts : pair_key(kind, e) = pair_key(kind, start)
    BY <1>2, <1>6 DEF Keys, Named
  <2>2. start \in events /\ e \in ends
    BY <1>6 DEF Named
  <2>3. PairedSlice(kind, start, e) \in PairsOf(input.run)
    BY <1>3, <2>1, <2>2
  <2>4. ASSUME NEW other \in events, PairedSlice(kind, other, e) \in PairsOf(input.run)
        PROVE  other = start
    <3>1. other \in starts /\ pair_key(kind, other) = pair_key(kind, start)
      BY <1>4, <2>1, <2>4
    <3> HIDE DEF starts
    <3> QED
      BY <1>1, <1>2, <3>1, KeysAreUnique
  <2> QED
    BY <2>2, <2>3, <2>4
<1> QED
  BY <1>5, <1>6

\* The rows in which an event is the first record, and those in which it is the last.
LEMMA FirstRow ==
    ASSUME ConversionInv, stage \in ValidatedStages, NEW e \in EventsSeen(input.run),
           NEW row \in SliceRows(trace), row.note.first = e.id
    PROVE  \/ \E kind \in Stages, end \in EventsSeen(input.run) :
                 /\ e.name = kind.first /\ PairedSlice(kind, e, end) \in PairsOf(input.run)
                 /\ row = ExpectedSlice(PairSlice(PairsOf(input.run), PairedSlice(kind, e, end)))
           \/ /\ e \in Unpaired(EventsSeen(input.run)) /\ e.type = "span"
              /\ row = ExpectedSlice(SpanSlice(e))
<1> USE DEF CompleteStages, WrittenStages, PlannedStages, LoadedStages
<1>1. PICK s \in plan.slices : row = ExpectedSlice(s)
  BY DEF ConversionInv, validate_trace, BaseRowsDiffer
<1>2. s.note.first = e.id /\ e.id # None
  BY <1>1, IdsAreUnique DEF ExpectedSlice
<1>3. CASE \E it \in PairsOf(input.run) : s = PairSlice(PairsOf(input.run), it)
  <2>1. PICK it \in PairsOf(input.run) : s = PairSlice(PairsOf(input.run), it)
    BY <1>3
  <2>2. PICK kind \in Stages, start \in EventsSeen(input.run), end \in EventsSeen(input.run) :
           start.name = kind.first /\ it = PairedSlice(kind, start, end)
    BY PairIsMade
  <2>3. start.id = e.id
    BY <1>2, <2>1, <2>2, PairSliceKeeps
  <2>4. start = e
    BY <2>3, IdsAreUnique
  <2> QED
    BY <1>1, <2>1, <2>2, <2>4
<1>4. CASE \E u \in Unpaired(EventsSeen(input.run)) : u.type = "span" /\ s = SpanSlice(u)
  <2>1. PICK u \in Unpaired(EventsSeen(input.run)) : u.type = "span" /\ s = SpanSlice(u)
    BY <1>4
  <2>2. s.note.first = u.id /\ u \in EventsSeen(input.run)
    BY <2>1 DEF SpanSlice, SliceSpec, Remaining, Note, Unpaired
  <2>3. u = e
    BY <1>2, <2>2, IdsAreUnique
  <2> QED
    BY <1>1, <2>1, <2>3
<1> QED
  BY <1>2, <1>3, <1>4, EventSlices

\* A row that ends with a marker shows a pair that does.
LEMMA LastRow ==
    ASSUME ConversionInv, stage \in ValidatedStages, NEW e \in EventsSeen(input.run),
           NEW row \in SliceRows(trace), row.note.last = e.id
    PROVE  \E kind \in Stages, start \in EventsSeen(input.run) :
              /\ e.name = kind.last /\ PairedSlice(kind, start, e) \in PairsOf(input.run)
              /\ row = ExpectedSlice(PairSlice(PairsOf(input.run), PairedSlice(kind, start, e)))
<1> USE DEF CompleteStages, WrittenStages, PlannedStages, LoadedStages
<1>1. PICK s \in plan.slices : row = ExpectedSlice(s)
  BY DEF ConversionInv, validate_trace, BaseRowsDiffer
<1>2. s.note.last = e.id /\ e.id # None
  BY <1>1, IdsAreUnique DEF ExpectedSlice
<1>3. \A u : SpanSlice(u).note.last = None
  BY DEF SpanSlice, SliceSpec, Remaining, Note
<1>4. PICK it \in PairsOf(input.run) : s = PairSlice(PairsOf(input.run), it)
  BY <1>2, <1>3, EventSlices
<1>5. PICK kind \in Stages, start \in EventsSeen(input.run), end \in EventsSeen(input.run) :
         end.name = kind.last /\ it = PairedSlice(kind, start, end)
  BY PairIsMade
<1>6. end.id = e.id
  BY <1>2, <1>4, <1>5, PairSliceKeeps
<1>7. end = e
  BY <1>6, IdsAreUnique
<1> QED
  BY <1>1, <1>4, <1>5, <1>7

\* A pair and a span have their rows in the trace.
LEMMA RowOf ==
    ASSUME ConversionInv, stage \in ValidatedStages
    PROVE  /\ \A it \in PairsOf(input.run) :
                 ExpectedSlice(PairSlice(PairsOf(input.run), it)) \in SliceRows(trace)
           /\ \A e \in Unpaired(EventsSeen(input.run)) :
                 e.type = "span" => ExpectedSlice(SpanSlice(e)) \in SliceRows(trace)
<1> USE DEF CompleteStages, WrittenStages
<1>1. SliceRows(trace) = {ExpectedSlice(s) : s \in plan.slices}
  BY DEF ConversionInv, validate_trace, BaseRowsDiffer
<1> QED
  BY <1>1, EventSlices

\* An event ends one row if it is due as a slice, and none otherwise.
LEMMA EndsOnce ==
    ASSUME ConversionInv, stage \in ValidatedStages, NEW e \in EventsSeen(input.run)
    PROVE  Cardinality(SliceEndsOf(SliceRows(trace), e)) = (IF DueAsSlice(e) THEN 1 ELSE 0)
<1> USE DEF CompleteStages, WrittenStages, PlannedStages, LoadedStages
<1> DEFINE run == input.run
           rows == SliceRows(trace)
           first == {r \in rows : r.note.first = e.id}
           last == {r \in rows : r.note.last = e.id}
           pairs == PairsOf(run)
           ends == SliceEndsOf(rows, e)
<1>1. ends = {<<"first", r>> : r \in first} \cup {<<"last", r>> : r \in last}
  BY DEF SliceEndsOf
<1>2. ASSUME NEW kind \in Stages, e.name = kind.first
      PROVE  \E r : first = {r} /\ last = {}
  <2>1. PICK end \in EventsSeen(run) :
           /\ PairedSlice(kind, e, end) \in pairs
           /\ \A other \in EventsSeen(run) : PairedSlice(kind, e, other) \in pairs => other = end
    BY <1>2, OnePairForEach
  <2> DEFINE r == ExpectedSlice(PairSlice(pairs, PairedSlice(kind, e, end)))
  <2>2. r \in first
    <3>1. r \in rows
      BY <2>1, RowOf
    <3>2. r.note.first = e.id
      BY <2>1, PairSliceKeeps DEF ExpectedSlice
    <3> QED
      BY <3>1, <3>2
  <2>3. \A x \in first : x = r
    <3> TAKE x \in first
    <3>1. CASE e \in Unpaired(EventsSeen(run))
      BY <1>2, <3>1 DEF Unpaired, PAIR_EVENT_NAMES
    <3>2. CASE e \notin Unpaired(EventsSeen(run))
      <4>1. PICK k \in Stages, other \in EventsSeen(run) :
               /\ e.name = k.first /\ PairedSlice(k, e, other) \in pairs
               /\ x = ExpectedSlice(PairSlice(pairs, PairedSlice(k, e, other)))
        BY <3>2, FirstRow
      <4>2. k = kind
        BY <1>2, <4>1, NamesTellTheStage
      <4> QED
        BY <2>1, <4>1, <4>2
    <3> QED
      BY <3>1, <3>2
  <2>4. last = {}
    BY <1>2, LastRow, NamesTellTheStage
  <2> HIDE DEF r, first, last
  <2> QED
    BY <2>2, <2>3, <2>4
<1>3. ASSUME NEW kind \in Stages, e.name = kind.last
      PROVE  \E r : last = {r} /\ first = {}
  <2>1. PICK start \in EventsSeen(run) :
           /\ PairedSlice(kind, start, e) \in pairs
           /\ \A other \in EventsSeen(run) : PairedSlice(kind, other, e) \in pairs => other = start
    BY <1>3, OnePairForEach
  <2> DEFINE r == ExpectedSlice(PairSlice(pairs, PairedSlice(kind, start, e)))
  <2>2. r \in last
    <3>1. r \in rows
      BY <2>1, RowOf
    <3>2. r.note.last = e.id
      BY <2>1, PairSliceKeeps DEF ExpectedSlice
    <3> QED
      BY <3>1, <3>2
  <2>3. \A x \in last : x = r
    <3> TAKE x \in last
    <3>1. PICK k \in Stages, other \in EventsSeen(run) :
             /\ e.name = k.last /\ PairedSlice(k, other, e) \in pairs
             /\ x = ExpectedSlice(PairSlice(pairs, PairedSlice(k, other, e)))
      BY LastRow
    <3>2. k = kind
      BY <1>3, <3>1, NamesTellTheStage
    <3> QED
      BY <2>1, <3>1, <3>2
  <2>4. first = {}
    <3>1. e \notin Unpaired(EventsSeen(run))
      BY <1>3 DEF Unpaired, PAIR_EVENT_NAMES
    <3> QED
      BY <1>3, <3>1, FirstRow, NamesTellTheStage
  <2> QED
    <3>1. last = {r}
      <4> HIDE DEF r, first, last
      <4> QED
        BY <2>2, <2>3
    <3> HIDE DEF r, first, last
    <3> QED
      BY <2>4, <3>1
<1>4. ASSUME e.name \notin PAIR_EVENT_NAMES
      PROVE  last = {} /\ IF IsSpan(e) THEN \E r : first = {r} ELSE first = {}
  <2>1. \A kind \in Stages : e.name # kind.first /\ e.name # kind.last
    BY <1>4 DEF PAIR_EVENT_NAMES
  <2>2. last = {}
    BY <2>1, LastRow
  <2>3. IsSpan(e) <=> e \in Unpaired(EventsSeen(run)) /\ e.type = "span"
    BY DEF IsSpan, Unpaired
  <2>4. \A x \in first : IsSpan(e) /\ x = ExpectedSlice(SpanSlice(e))
    BY <2>1, <2>3, FirstRow
  <2>5. IsSpan(e) => ExpectedSlice(SpanSlice(e)) \in first
    <3>1. ExpectedSlice(SpanSlice(e)).note.first = e.id
      BY DEF SpanSlice, SliceSpec, Remaining, Note, ExpectedSlice
    <3> QED
      BY <2>3, <3>1, RowOf
  <2> HIDE DEF first
  <2> QED
    BY <2>2, <2>4, <2>5
<1>5. DueAsSlice(e) => \E x : ends = {x}
  <2>1. e.name \in PAIR_EVENT_NAMES <=> \E kind \in Stages : e.name = kind.first \/ e.name = kind.last
    BY DEF PAIR_EVENT_NAMES
  <2>2. DueAsSlice(e) => \E r : (first = {r} /\ last = {}) \/ (first = {} /\ last = {r})
    <3> HIDE DEF first, last
    <3> QED
      BY <1>2, <1>3, <1>4, <2>1 DEF DueAsSlice
  <2>3. \A r : first = {r} /\ last = {} => ends = {<<"first", r>>}
    <3> HIDE DEF first, last, ends
    <3> QED
      BY <1>1
  <2>4. \A r : first = {} /\ last = {r} => ends = {<<"last", r>>}
    <3> HIDE DEF first, last, ends
    <3> QED
      BY <1>1
  <2> HIDE DEF first, last, ends
  <2> QED
    BY <2>2, <2>3, <2>4
<1>6. ~DueAsSlice(e) => ends = {}
  <2>1. ~DueAsSlice(e) => first = {} /\ last = {}
    <3> HIDE DEF first, last
    <3> QED
      BY <1>4 DEF DueAsSlice
  <2> HIDE DEF first, last, ends
  <2> QED
    BY <1>1, <2>1
<1> HIDE DEF ends
<1>7. Cardinality(ends) = (IF DueAsSlice(e) THEN 1 ELSE 0)
  BY <1>5, <1>6, FS_Singleton, FS_EmptySet
<1> QED
  BY <1>7 DEF ends

\* An event has one instant if it is due as an instant, and none otherwise.
LEMMA SpotsOnce ==
    ASSUME ConversionInv, stage \in ValidatedStages, NEW e \in EventsSeen(input.run)
    PROVE  Cardinality(InstantsOf(trace.instants, e)) = (IF DueAsInstant(e) THEN 1 ELSE 0)
<1> USE DEF CompleteStages, WrittenStages, PlannedStages, LoadedStages
<1> DEFINE events == EventsSeen(input.run)
           tokens == TokensOf(context)
           grouped == context # None
           shown == InstantsOf(trace.instants, e)
           bounds == e \in ShownBoundaries(events, tokens)
           spots == e \in Unpaired(events) /\ e.type # "span"
<1>1. trace.instants = plan.instants
  BY DEF ConversionInv, TraceOf
<1>2. \A u : /\ boundary_instant(u, grouped).note.first = u.id
             /\ SpotInstant(u).note.first = u.id
             /\ token_output_instant(u).note.first = None
  BY DEF boundary_instant, SpotInstant, token_output_instant, InstantSpec, Remaining, Note
<1>3. ASSUME NEW i \in shown
      PROVE  \/ bounds /\ i = boundary_instant(e, grouped)
             \/ spots /\ i = SpotInstant(e)
  <2>1. i \in plan.instants /\ i.note.first = e.id /\ e.id # None
    BY <1>1, <1>3, IdsAreUnique DEF InstantsOf
  <2>2. CASE \E u \in ShownBoundaries(events, tokens) : i = boundary_instant(u, grouped)
    <3>1. PICK u \in ShownBoundaries(events, tokens) : i = boundary_instant(u, grouped)
      BY <2>2
    <3>2. u.id = e.id /\ u \in events
      BY <1>2, <2>1, <3>1 DEF ShownBoundaries
    <3>3. u = e
      BY <3>2, IdsAreUnique
    <3> QED
      BY <3>1, <3>3
  <2>3. CASE \E u \in Unpaired(events) : u.type # "span" /\ i = SpotInstant(u)
    <3>1. PICK u \in Unpaired(events) : u.type # "span" /\ i = SpotInstant(u)
      BY <2>3
    <3>2. u.id = e.id /\ u \in events
      BY <1>2, <2>1, <3>1 DEF Unpaired
    <3>3. u = e
      BY <3>2, IdsAreUnique
    <3> QED
      BY <3>1, <3>3
  <2>4. ~\E t \in tokens : i = token_output_instant(t)
    BY <1>2, <2>1
  <2> QED
    BY <2>1, <2>2, <2>3, <2>4, EventInstants
<1>4. /\ bounds => boundary_instant(e, grouped) \in shown
      /\ spots => SpotInstant(e) \in shown
  BY <1>1, <1>2, EventInstants DEF InstantsOf
<1>5. /\ ~(bounds /\ spots)
      /\ DueAsInstant(e) <=> bounds \/ spots
  BY DEF DueAsInstant, ShownBoundaries, Unpaired, IsSpan, BOUNDARY_EVENT_NAMES
<1>6. DueAsInstant(e) => \E x : shown = {x}
  <2>1. bounds /\ ~spots => shown = {boundary_instant(e, grouped)}
    <3> HIDE DEF shown, bounds, spots
    <3> QED
      BY <1>3, <1>4
  <2>2. spots /\ ~bounds => shown = {SpotInstant(e)}
    <3> HIDE DEF shown, bounds, spots
    <3> QED
      BY <1>3, <1>4
  <2> HIDE DEF shown, bounds, spots
  <2> QED
    BY <1>5, <2>1, <2>2
<1>7. ~DueAsInstant(e) => shown = {}
  <2> HIDE DEF shown, bounds, spots
  <2> QED
    BY <1>3, <1>5
<1> HIDE DEF shown
<1>8. Cardinality(shown) = (IF DueAsInstant(e) THEN 1 ELSE 0)
  BY <1>6, <1>7, FS_Singleton, FS_EmptySet
<1> QED
  BY <1>8 DEF shown

\* The measured tokens have an index each.
LEMMA TokensAreApart ==
    ASSUME ConversionInv, stage \in LoadedStages, NEW a \in TokensOf(context),
           NEW b \in TokensOf(context), a.index = b.index
    PROVE  a = b
<1> DEFINE run == input.run
           row == CHOOSE r \in MeasuredRows(run) : TRUE
           transform == CHOOSE x \in ClientTransforms(run) : TRUE
<1>1. context # None /\ a \in context.tokens /\ b \in context.tokens
  BY DEF TokensOf
<1>2. ContextMade
  BY DEF ConversionInv
<1>3. /\ ~ContextRefused(run, input.kpis, input.summaries)
      /\ context = build_timeline_summary_context(run, input.kpis, input.summaries)
  BY <1>1, <1>2 DEF ContextMade
<1>4. context.tokens = measured_request_evidence(run).tokens
  BY <1>3 DEF build_timeline_summary_context, ContextOf
<1>5. run.sources["gpu"].measured # None
  BY <1>1, <1>4 DEF measured_request_evidence, Evidence
<1>6. context.tokens = TokensOfRow(row, transform)
  BY <1>4, <1>5 DEF measured_request_evidence, Evidence
<1>7. RunTyped(run)
  BY InputsAssumption DEF ConversionInv
<1>8. row \in MeasuredRows(run)
  <2> DEFINE rows == MeasuredRows(run)
  <2>1. rows \in SUBSET run.sources["gpu"].measured /\ IsFiniteSet(run.sources["gpu"].measured)
    BY <1>5, <1>7 DEF MeasuredRows, RunTyped, SourceTyped, Roles
  <2>2. Cardinality(rows) = 1
    BY <1>3, <1>5 DEF ContextRefused, MeasuredRefused
  <2> HIDE DEF rows
  <2>3. IsFiniteSet(rows)
    BY <2>1, FS_Subset
  <2> QED
    BY <2>2, <2>3, TheOne DEF rows
<1>9. row.tokens # None /\ row.tokens \in Seq(Int)
  <2>1. MeasuredTyped(row)
    BY <1>5, <1>7, <1>8 DEF MeasuredRows, RunTyped, SourceTyped, Roles
  <2>2. row.tokens # None
    <3> HIDE DEF row, transform
    <3> QED
      BY <1>1, <1>6 DEF TokensOfRow
  <2> QED
    BY <2>1, <2>2 DEF MeasuredTyped
<1> HIDE DEF row, transform
<1>10. PICK i \in DOMAIN row.tokens :
          a = [index |-> i - 1, ts |-> row.tokens[i] + transform.offset, request |-> row.request]
  BY <1>1, <1>6, <1>9 DEF TokensOfRow
<1>11. PICK j \in DOMAIN row.tokens :
          b = [index |-> j - 1, ts |-> row.tokens[j] + transform.offset, request |-> row.request]
  BY <1>1, <1>6, <1>9 DEF TokensOfRow
<1>12. DOMAIN row.tokens \subseteq Int
  BY <1>9
<1>13. i - 1 = j - 1
  BY <1>10, <1>11
<1>14. i = j
  BY <1>12, <1>13
<1> QED
  BY <1>10, <1>11, <1>14

\* A token of the measured request is shown once.
LEMMA TokensOnce ==
    ASSUME ConversionInv, stage \in ValidatedStages, NEW t \in TokensOf(context)
    PROVE  Cardinality(ShownAs(t)) = 1
<1> USE DEF CompleteStages, WrittenStages, PlannedStages, LoadedStages
<1>1. trace.instants = plan.instants
  BY DEF ConversionInv, TraceOf
<1>2. \A u : /\ token_output_instant(u).track = BoundaryEvents
             /\ token_output_instant(u).name = <<"output_token", u.index>>
             /\ SpotInstant(u).track = PhaseKey(u.phase)
  BY DEF SpotInstant, token_output_instant, InstantSpec
<1>3. \A u, grouped : u.name \in BOUNDARY_EVENT_NAMES
                         => boundary_instant(u, grouped).name[1] # "output_token"
  BY DEF boundary_instant, InstantSpec, BOUNDARY_EVENT_NAMES
<1>4. \A phase : PhaseKey(phase) # BoundaryEvents
  BY DEF PhaseKey, TrackKey, BoundaryEvents
<1>5. token_output_instant(t) \in ShownAs(t)
  BY <1>1, <1>2, EventInstants DEF ShownAs
<1>6. ASSUME NEW i \in ShownAs(t)
      PROVE  i = token_output_instant(t)
  <2>1. i \in plan.instants /\ i.track = BoundaryEvents /\ i.name = <<"output_token", t.index>>
    BY <1>1, <1>6 DEF ShownAs
  <2>2. i.name[1] = "output_token"
    BY <2>1
  <2>3. ~\E e \in ShownBoundaries(EventsSeen(input.run), TokensOf(context)) :
            i = boundary_instant(e, context # None)
    BY <1>3, <2>2 DEF ShownBoundaries
  <2>4. ~\E e \in Unpaired(EventsSeen(input.run)) : e.type # "span" /\ i = SpotInstant(e)
    BY <1>2, <1>4, <2>1
  <2>5. PICK u \in TokensOf(context) : i = token_output_instant(u)
    BY <2>1, <2>3, <2>4, EventInstants
  <2>6. u.index = t.index
    <3>1. <<"output_token", u.index>> = <<"output_token", t.index>>
      BY <1>2, <2>1, <2>5
    <3> QED
      BY <3>1
  <2>7. u = t
    BY <2>6, TokensAreApart
  <2> QED
    BY <2>5, <2>7
<1>7. ShownAs(t) = {token_output_instant(t)}
  BY <1>5, <1>6
<1> QED
  BY <1>7, FS_Singleton

\* A sample of a resource is a counter value exactly when it was available.
LEMMA SamplesShown ==
    ASSUME ConversionInv, stage \in ValidatedStages, NEW m \in input.run.metrics, m.resource
    PROVE  SampleOf(m) \in trace.counters <=> m.available
<1> USE DEF CompleteStages, WrittenStages, PlannedStages, LoadedStages
<1> DEFINE metrics == input.run.metrics
<1>1. trace.counters = resource_counters(metrics)
  <2>1. trace.counters = plan.counters /\ PlanMade
    BY DEF ConversionInv, TraceOf
  <2>2. BasePlan.counters = resource_counters(metrics)
    BY DEF BasePlan, build_trace_plan, PlanOf, Planned, TracePlan
  <2>3. CASE plan = BasePlan
    BY <2>1, <2>2, <2>3
  <2>4. CASE plan = augment_trace_plan(BasePlan, native)
    <3>1. plan.counters = BasePlan.counters
      BY <2>4 DEF augment_trace_plan, BasePlan, build_trace_plan, PlanOf, Planned, TracePlan
    <3> QED
      BY <2>1, <2>2, <3>1
  <2> QED
    BY <2>1, <2>3, <2>4 DEF PlanMade
<1>2. resource_counters(metrics) = {SampleOf(x) : x \in Available(metrics)}
  BY DEF resource_counters, SampleOf
<1>3. \A x \in Available(metrics) : x.value # None
  BY DEF ConversionInv, PlanAccepted, PlanRefused, CountersRefused
<1>4. m.available => m \in Available(metrics)
  BY DEF Available, ResourceMetrics
<1>5. ASSUME SampleOf(m) \in trace.counters
      PROVE  m.available
  <2>1. PICK x \in Available(metrics) : SampleOf(m) = SampleOf(x)
    BY <1>1, <1>2, <1>5
  <2>2. m.value = x.value
    BY <2>1 DEF SampleOf, CounterSpec
  <2>3. SampleTyped(m)
    BY InputsAssumption DEF ConversionInv, RunTyped
  <2> QED
    BY <1>3, <2>2, <2>3 DEF SampleTyped
<1> QED
  BY <1>1, <1>2, <1>4, <1>5

\* Every conversion of every run: the published trace shows each event once for
\* each part it has in it, each measured token once, and a sample of a resource
\* exactly when it was available.
THEOREM RecordsHold == Spec => []EveryRecordIsShown
<1>1. ConversionInv => EveryRecordIsShown
  <2> SUFFICES ASSUME ConversionInv, stage = "published"
               PROVE  EveryRecordIsShown
    BY DEF EveryRecordIsShown
  <2>1. stage \in ValidatedStages
    BY DEF ValidatedStages, FocusedStages, SeparatedStages
  <2>2. \A e \in EventsSeen(input.run) : ShownOnce(e)
    BY <2>1, EndsOnce, SpotsOnce DEF ShownOnce
  <2>3. \A t \in TokensOf(context) : Cardinality(ShownAs(t)) = 1
    BY <2>1, TokensOnce
  <2>4. \A m \in input.run.metrics : m.resource => (SampleOf(m) \in trace.counters <=> m.available)
    BY <2>1, SamplesShown
  <2> QED
    BY <2>2, <2>3, <2>4 DEF EveryRecordIsShown
<1> QED
  BY <1>1, ConversionHolds, PTL

------------------------------------------------------------------------------
(* What is written is read back.                                               *)

\* The values of a function with a finite domain are finitely many.
LEMMA ImageIsFinite ==
    ASSUME NEW f, IsFiniteSet(DOMAIN f)
    PROVE  IsFiniteSet({f[x] : x \in DOMAIN f})
<1> DEFINE image == {f[x] : x \in DOMAIN f}
           g == [x \in DOMAIN f |-> f[x]]
<1>1. g \in [DOMAIN f -> image] /\ \A y \in image : \E x \in DOMAIN f : g[x] = y
  OBVIOUS
<1> HIDE DEF g, image
<1>2. g \in Surjection(DOMAIN f, image)
  BY <1>1 DEF Surjection
<1>3. IsFiniteSet(image)
  BY <1>2, FS_Surjection
<1> QED
  BY <1>3 DEF image

\* A run has finitely many pairs: its events tell them.
LEMMA PairsAreFinite ==
    ASSUME ConversionInv, stage \in LoadedStages
    PROVE  IsFiniteSet(PairsOf(input.run))
<1> DEFINE pairs == PairsOf(input.run)
           events == EventsSeen(input.run)
           f == [it \in pairs |-> <<it.start, it.end>>]
<1>1. IsFiniteSet(events \X events)
  BY IdsAreUnique, FS_Product
<1>2. f \in [pairs -> events \X events]
  <2>1. \A it \in pairs : it.start \in events /\ it.end \in events
    <3> TAKE it \in pairs
    <3>1. PICK k \in Stages, x \in events, y \in events : it = PairedSlice(k, x, y)
      BY PairIsMade
    <3>2. it.start = x /\ it.end = y
      BY <3>1 DEF PairedSlice
    <3> QED
      BY <3>2
  <2> QED
    BY <2>1
<1>3. \A a, b \in pairs : f[a] = f[b] => a = b
  <2> TAKE a \in pairs, b \in pairs
  <2> SUFFICES ASSUME f[a] = f[b]
               PROVE  a = b
    OBVIOUS
  <2>1. PICK k \in Stages, x \in events, y \in events :
           x.name = k.first /\ a = PairedSlice(k, x, y)
    BY PairIsMade
  <2>2. PICK l \in Stages, u \in events, v \in events :
           u.name = l.first /\ b = PairedSlice(l, u, v)
    BY PairIsMade
  <2>3. x = u /\ y = v
    <3>1. a.start = b.start /\ a.end = b.end
      OBVIOUS
    <3> QED
      BY <2>1, <2>2, <3>1 DEF PairedSlice
  <2>4. k = l
    BY <2>1, <2>2, <2>3, NamesTellTheStage
  <2> QED
    BY <2>1, <2>2, <2>3, <2>4
<1> HIDE DEF f, pairs, events
<1>4. f \in Injection(pairs, events \X events)
  BY <1>2, <1>3 DEF Injection, IsInjective
<1>5. IsFiniteSet(pairs)
  BY <1>1, <1>4, FS_Injection
<1> QED
  BY <1>5 DEF pairs

\* The envelopes of the captures: finitely many, at integer times.
LEMMA EnvelopesAreTyped ==
    ASSUME NEW i \in Inputs
    PROVE  /\ IsFiniteSet(native_envelopes(i.run))
           /\ \A e \in native_envelopes(i.run) : e.ts \in Int /\ e.dur \in Int
<1> DEFINE run == i.run
           roles == {r \in Roles : run.sources[r].alignment # None}
           of(role) == {EnvelopeOf(run.sources[role].alignment, t) : t \in ToCanonical(run, role)}
           all == {of(role) : role \in roles}
<1>1. RunTyped(run)
  BY InputsAssumption
<1>2. \A role \in roles : IsFiniteSet(of(role))
  <2> TAKE role \in roles
  <2> DEFINE transforms == ToCanonical(run, role)
             f == [t \in transforms |-> EnvelopeOf(run.sources[role].alignment, t)]
  <2>1. transforms \in SUBSET run.transforms /\ IsFiniteSet(run.transforms)
    BY <1>1 DEF ToCanonical, RunTyped
  <2>2. IsFiniteSet(transforms)
    <3> HIDE DEF transforms
    <3> QED
      BY <2>1, FS_Subset
  <2>3. DOMAIN f = transforms /\ of(role) = {f[t] : t \in DOMAIN f}
    <3> HIDE DEF transforms
    <3> QED
      BY DEF transforms
  <2> HIDE DEF f, transforms, of
  <2> QED
    BY <2>2, <2>3, ImageIsFinite
<1>3. IsFiniteSet(all)
  <2>1. roles \in SUBSET {"gpu", "npu"} /\ IsFiniteSet({"gpu", "npu"})
    <3>1. IsFiniteSet({"gpu"} \cup {"npu"})
      BY FS_Singleton, FS_AddElement
    <3>2. {"gpu"} \cup {"npu"} = {"gpu", "npu"}
      OBVIOUS
    <3> QED
      BY <3>1, <3>2 DEF Roles
  <2> DEFINE f == [role \in roles |-> of(role)]
  <2>2. DOMAIN f = roles /\ all = {f[role] : role \in DOMAIN f}
    <3> HIDE DEF roles, of
    <3> QED
      OBVIOUS
  <2> HIDE DEF f, roles, all
  <2>3. IsFiniteSet(roles)
    BY <2>1, FS_Subset
  <2> QED
    BY <2>2, <2>3, ImageIsFinite
<1>4. native_envelopes(run) = UNION all
  BY DEF native_envelopes
<1>5. IsFiniteSet(native_envelopes(run))
  <2>1. \A S \in all : IsFiniteSet(S)
    BY <1>2
  <2> HIDE DEF all
  <2> QED
    BY <1>3, <1>4, <2>1, FS_UNION
<1>6. \A e \in native_envelopes(run) : e.ts \in Int /\ e.dur \in Int
  <2> TAKE e \in native_envelopes(run)
  <2>1. PICK role \in roles, t \in run.transforms :
           e = EnvelopeOf(run.sources[role].alignment, t)
    BY DEF native_envelopes, ToCanonical
  <2> DEFINE a == run.sources[role].alignment
  <2>2. a.interval[1] \in Int /\ a.interval[2] \in Int /\ t.offset \in Int
    BY <1>1 DEF RunTyped, SourceTyped
  <2>3. e.ts = a.interval[1] + t.offset /\ e.dur = a.interval[2] - a.interval[1]
    BY <2>1 DEF EnvelopeOf
  <2> HIDE DEF a
  <2> QED
    BY <2>2, <2>3
<1> QED
  BY <1>5, <1>6

\* The slices a run itself gives: finitely many, at integer times.
LEMMA BaseSlicesTyped ==
    ASSUME ConversionInv, stage \in CompleteStages
    PROVE  /\ IsFiniteSet(BasePlan.slices)
           /\ \A s \in BasePlan.slices : IsSlice(s) /\ s.ts \in Int /\ s.dur \in Int
<1> USE DEF CompleteStages, PlannedStages, LoadedStages
<1> DEFINE run == input.run
           events == EventsSeen(run)
           paired == PairsOf(run)
           envelopes == native_envelopes(run)
           spans == {x \in Unpaired(events) : x.type = "span"}
           P == {PairSlice(paired, it) : it \in paired}
           U == {SpanSlice(e) : e \in spans}
           N == native_slices(envelopes)
<1>1. BasePlan.slices = P \cup N \cup U
  BY BaseSlicesAre
<1>2. \A e \in events : e.ts \in Int /\ e.dur \in Int
  BY InputsAssumption DEF ConversionInv, RunTyped, EventTyped
<1>3. IsFiniteSet(P) /\ \A s \in P : IsSlice(s) /\ s.ts \in Int /\ s.dur \in Int
  <2> DEFINE f == [it \in paired |-> PairSlice(paired, it)]
  <2>1. DOMAIN f = paired /\ P = {f[it] : it \in DOMAIN f}
    <3> HIDE DEF paired
    <3> QED
      OBVIOUS
  <2>2. IsFiniteSet(P)
    <3>1. IsFiniteSet(paired)
      BY PairsAreFinite
    <3> HIDE DEF f, paired, P
    <3> QED
      BY <2>1, <3>1, ImageIsFinite
  <2>3. ASSUME NEW it \in paired
        PROVE  /\ IsSlice(PairSlice(paired, it))
               /\ PairSlice(paired, it).ts \in Int /\ PairSlice(paired, it).dur \in Int
    <3>1. PICK kind \in Stages, start \in events, end \in events : it = PairedSlice(kind, start, end)
      BY PairIsMade
    <3>2. /\ IsSlice(PairSlice(paired, it))
          /\ PairSlice(paired, it).ts = start.ts /\ PairSlice(paired, it).dur = end.ts - start.ts
      BY <3>1, PairSliceKeeps
    <3>3. start.ts \in Int /\ end.ts \in Int
      BY <1>2
    <3> QED
      BY <3>2, <3>3
  <2> QED
    BY <2>2, <2>3
<1>4. IsFiniteSet(N) /\ \A s \in N : IsSlice(s) /\ s.ts \in Int /\ s.dur \in Int
  <2> DEFINE slice(e) == SliceSpec(Profiler, <<e.profiler, 0>>, e.ts, e.dur,
                                   Note(None, None, None, None, e.profiler))
             f == [e \in envelopes |-> slice(e)]
  <2>1. DOMAIN f = envelopes /\ N = {f[e] : e \in DOMAIN f}
    BY DEF native_slices
  <2>2. IsFiniteSet(envelopes) /\ \A e \in envelopes : e.ts \in Int /\ e.dur \in Int
    BY EnvelopesAreTyped DEF ConversionInv
  <2>3. IsFiniteSet(N)
    <3> HIDE DEF f, envelopes, N
    <3> QED
      BY <2>1, <2>2, ImageIsFinite
  <2>4. \A e : IsSlice(slice(e)) /\ slice(e).ts = e.ts /\ slice(e).dur = e.dur
    BY SliceSpecIsSlice
  <2>5. \A s \in N : \E e \in envelopes : s = slice(e)
    BY <2>1
  <2> HIDE DEF N, slice, envelopes, f
  <2> QED
    BY <2>2, <2>3, <2>4, <2>5
<1>5. IsFiniteSet(U) /\ \A s \in U : IsSlice(s) /\ s.ts \in Int /\ s.dur \in Int
  <2> DEFINE f == [e \in spans |-> SpanSlice(e)]
  <2>1. DOMAIN f = spans /\ U = {f[e] : e \in DOMAIN f}
    <3> HIDE DEF spans
    <3> QED
      OBVIOUS
  <2>2. spans \in SUBSET events /\ IsFiniteSet(events)
    BY IdsAreUnique DEF Unpaired
  <2>3. IsFiniteSet(U)
    <3> HIDE DEF f, spans, U, events
    <3>1. IsFiniteSet(spans)
      BY <2>2, FS_Subset
    <3> QED
      BY <2>1, <3>1, ImageIsFinite
  <2>4. \A e : IsSlice(SpanSlice(e)) /\ SpanSlice(e).ts = e.ts /\ SpanSlice(e).dur = e.dur
    BY SliceSpecIsSlice DEF SpanSlice
  <2> HIDE DEF spans, events
  <2> QED
    BY <1>2, <2>2, <2>3, <2>4
<1> HIDE DEF P, N, U
<1>6. IsFiniteSet(BasePlan.slices)
  BY <1>1, <1>3, <1>4, <1>5, FS_Union
<1> QED
  BY <1>1, <1>3, <1>4, <1>5, <1>6

\* So are those of the complete plan.
LEMMA CompleteSlicesTyped ==
    ASSUME ConversionInv, stage \in CompleteStages
    PROVE  IsFiniteSet(plan.slices) /\ \A s \in plan.slices : s.ts \in Int /\ s.dur \in Int
<1> DEFINE capture == CaptureOf(input.run)
           keys == FlowKeys(capture)
           base == BasePlan.slices
<1>1. IsFiniteSet(base) /\ \A s \in base : IsSlice(s) /\ s.ts \in Int /\ s.dur \in Int
  BY BaseSlicesTyped
<1>2. PlanMade
  BY DEF ConversionInv
<1>3. CASE plan = BasePlan
  BY <1>1, <1>3
<1>4. CASE NativeMade /\ plan = augment_trace_plan(BasePlan, native)
  <2> DEFINE tell == [s \in base |-> Tell(s, native.profilers)]
             told == {Tell(s, native.profilers) : s \in base}
  <2>1. plan.slices = told \cup native.slices
    BY <1>4 DEF augment_trace_plan, BasePlan, build_trace_plan, PlanOf, Planned, TracePlan
  <2>2. IsFiniteSet(told)
    <3>1. DOMAIN tell = base /\ told = {tell[s] : s \in DOMAIN tell}
      <4> HIDE DEF base
      <4> QED
        OBVIOUS
    <3> HIDE DEF tell, base, told
    <3> QED
      BY <1>1, <3>1, ImageIsFinite
  <2>3. \A s \in told : s.ts \in Int /\ s.dur \in Int
    <3>1. \A s \in base : Tell(s, native.profilers).ts = s.ts /\ Tell(s, native.profilers).dur = s.dur
      <4> TAKE s \in base
      <4>1. IsSlice(s)
        BY <1>1
      <4>2. CASE s.track = Profiler
        <5>1. \E n : Tell(s, native.profilers) = [s EXCEPT !.note = n]
          BY <4>2 DEF Tell
        <5> QED
          BY <4>1, <5>1 DEF IsSlice
      <4>3. CASE s.track # Profiler
        BY <4>3 DEF Tell
      <4> QED
        BY <4>2, <4>3
    <3> HIDE DEF base
    <3> QED
      BY <1>1, <3>1
  <2>4. IsFiniteSet(native.slices) /\ \A s \in native.slices : s.ts \in Int /\ s.dur \in Int
    <3>1. CASE native = NoDetails
      BY <3>1, FS_EmptySet DEF NoDetails
    <3>2. CASE native # NoDetails
      <4>1. /\ capture # None /\ capture.source # "rbln" /\ ~CaptureRefused(capture)
            /\ native = DetailsOf(capture, keys)
        BY <1>4, <3>2 DEF NativeMade, build_native_detail_plan, CaptureOfRunRefused
      <4>2. CaptureTyped(capture)
        BY <4>1, CaptureIsTyped DEF ConversionInv
      <4>3. native.slices = attach_explicit_flows(capture, keys)
        BY <4>1 DEF DetailsOf
      <4> HIDE DEF capture, keys
      <4>4. \A s \in native.slices : s.ts \in Int /\ s.dur \in Int
        BY <4>1, <4>2, <4>3, NativeSliceTimes
      <4> DEFINE rows == SliceRowsOf(capture)
                 f == [r \in rows |-> AttachFlow(capture, NativeSlice(capture, r), keys)]
      <4>5. DOMAIN f = rows /\ native.slices = {f[r] : r \in DOMAIN f}
        <5>1. native.slices = {AttachFlow(capture, NativeSlice(capture, r), keys) : r \in rows}
          BY <4>3 DEF attach_explicit_flows
        <5> HIDE DEF rows
        <5> QED
          BY <5>1
      <4>6. IsFiniteSet(rows)
        <5>1. rows \in SUBSET capture.rows /\ IsFiniteSet(capture.rows)
          BY <4>2 DEF SliceRowsOf, Emitted, CaptureTyped
        <5> HIDE DEF rows
        <5> QED
          BY <5>1, FS_Subset
      <4>7. IsFiniteSet(native.slices)
        <5> HIDE DEF f, rows
        <5> QED
          BY <4>5, <4>6, ImageIsFinite
      <4> QED
        BY <4>4, <4>7
    <3> QED
      BY <3>1, <3>2
  <2> HIDE DEF told
  <2> QED
    BY <2>1, <2>2, <2>3, <2>4, FS_Union
<1> QED
  BY <1>2, <1>3, <1>4 DEF PlanMade

\* What the trace processor makes of the packets is what was planned, in a
\* conversion that goes on and in one that fails later.
SlicesAreReadBack ==
    /\ stage \in WrittenStages
         => SliceRows(trace) = {ExpectedSlice(s) : s \in plan.slices}
    /\ stage \in FocusedStages /\ config.focused
         => SliceRows(focusedTrace) = {ExpectedSlice(s) : s \in focused.slices}

\* Whatever the hash of the tracks, every trace that is written and every focused
\* one gives each of its slices back with its own begin and end: no validation
\* fails because packets of one instant came in the wrong order.
THEOREM WrittenSlicesReadBack ==
    ASSUME \A key : Uuid(key) \in Int
    PROVE  Spec => []SlicesAreReadBack
<1>1. ASSUME NEW plan0, IsFiniteSet(plan0.slices), ~WriteRefused(plan0),
             \A s \in plan0.slices : s.ts \in Int /\ s.dur \in Int
      PROVE  SliceRows(TraceOf(plan0)) = {ExpectedSlice(s) : s \in plan0.slices}
  <2>1. \A s \in plan0.slices : Placed(s)
    <3>1. \A s \in plan0.slices : ~(s.dur <= 0)
      BY <1>1 DEF WriteRefused, TimesRefused
    <3> QED
      BY <1>1, <3>1 DEF Placed
  <2>2. ~NestingRefused(plan0)
    BY <1>1 DEF WriteRefused
  <2> QED
    BY <1>1, <2>1, <2>2, SlicesReadBack
<1>2. ASSUME ConversionInv, stage \in WrittenStages
      PROVE  SliceRows(trace) = {ExpectedSlice(s) : s \in plan.slices}
  <2>1. trace = TraceOf(plan) /\ ~WriteRefused(plan)
    BY <1>2 DEF ConversionInv
  <2>2. IsFiniteSet(plan.slices) /\ \A s \in plan.slices : s.ts \in Int /\ s.dur \in Int
    BY <1>2, CompleteSlicesTyped DEF CompleteStages
  <2> QED
    BY <1>1, <2>1, <2>2
<1>3. ASSUME ConversionInv, stage \in FocusedStages, config.focused
      PROVE  SliceRows(focusedTrace) = {ExpectedSlice(s) : s \in focused.slices}
  <2> DEFINE kept == WholeFlows(plan.flows, FocusedSlices(plan))
             cut == FocusedSlices(plan)
             f == [s \in cut |-> KeepFlows(s, kept)]
  <2>1. focusedTrace = TraceOf(focused) /\ ~WriteRefused(focused)
    BY <1>3 DEF ConversionInv, FocusMade
  <2>2. /\ focused.slices = {KeepFlows(s, kept) : s \in cut}
        /\ \A s \in plan.slices : KeepFlows(s, kept).ts = s.ts /\ KeepFlows(s, kept).dur = s.dur
    BY <1>3, FocusedSlicesAre
  <2>3. /\ IsFiniteSet(plan.slices) /\ \A s \in plan.slices : s.ts \in Int /\ s.dur \in Int
        /\ cut \in SUBSET plan.slices
    BY <1>3, CompleteSlicesTyped DEF CompleteStages, WrittenStages, ValidatedStages, FocusedSlices
  <2>4. \A s \in focused.slices : s.ts \in Int /\ s.dur \in Int
    <3> HIDE DEF kept, cut
    <3> QED
      BY <2>2, <2>3
  <2>5. IsFiniteSet(focused.slices)
    <3>1. DOMAIN f = cut /\ focused.slices = {f[s] : s \in DOMAIN f}
      <4> HIDE DEF kept, cut
      <4> QED
        BY <2>2
    <3> HIDE DEF f, kept, cut
    <3>2. IsFiniteSet(cut)
      BY <2>3, FS_Subset
    <3> QED
      BY <3>1, <3>2, ImageIsFinite
  <2> QED
    BY <1>1, <2>1, <2>4, <2>5
<1>4. ConversionInv => SlicesAreReadBack
  BY <1>2, <1>3 DEF SlicesAreReadBack
<1> QED
  BY <1>4, ConversionHolds, PTL
=============================================================================
