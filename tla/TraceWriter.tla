---------------------------- MODULE TraceWriter -----------------------------
(***************************************************************************)
(* Writing a plan as a trace (perfetto/writer.py), and what the trace         *)
(* processor, which is not part of the repository, makes of the packets.      *)
(* Packets are ordered by their sort key; a track holds a stack of open        *)
(* slices, so the order of packets of one instant decides what is read back.   *)
(***************************************************************************)
EXTENDS TracePlanner

CONSTANT Uuid(_)   \* the hash of a track's key; the planner refuses collisions

KeysOf(tracks) == {t.key : t \in tracks}
ChildrenOf(plan, key) == {t \in plan.tracks : t.parent = key}

TimesRefused(plan) ==
    \/ \E s \in plan.slices : s.ts < 0 \/ s.dur <= 0
    \/ \E x \in plan.instants \cup plan.counters : x.ts < 0

\* Two slices of one track are apart or one strictly holds the other.
Crosses(a, b) ==
    /\ a # b /\ a.track = b.track
    /\ b.ts < SliceEnd(a) /\ a.ts <= b.ts
    /\ a.ts = b.ts => SliceEnd(a) >= SliceEnd(b)
    /\ SliceEnd(b) > SliceEnd(a) \/ (a.ts = b.ts /\ a.dur = b.dur)
NestingRefused(plan) == \E a, b \in plan.slices : Crosses(a, b)

RanksRefused(ordering, children) ==
    IF ordering = "explicit"
      THEN \/ \E t \in children : t.rank = None
           \/ Cardinality({t.rank : t \in children}) # Cardinality(children)
      ELSE \E t \in children : t.rank # None
HierarchyRefused(plan) ==
    \/ Cardinality(KeysOf(plan.tracks)) # Cardinality(plan.tracks)
    \/ \E t \in plan.tracks : IF t.parent = None THEN t.rank # None
                                ELSE t.parent = t.key \/ t.parent \notin KeysOf(plan.tracks)
    \/ \E t \in plan.tracks : RanksRefused(t.ordering, ChildrenOf(plan, t.key))

\* A slice or an instant is on a slice track, a counter on a counter track.
TracksRefused(plan, counterKeys) ==
    \/ \E x \in plan.slices \cup plan.instants :
          x.track \notin KeysOf(plan.tracks) \ counterKeys
    \/ \E c \in plan.counters : c.track \notin counterKeys

WriteRefused(plan) ==
    \/ TimesRefused(plan) \/ NestingRefused(plan) \/ HierarchyRefused(plan)
    \/ TracksRefused(plan, {t.key : t \in {u \in plan.tracks : u.kind = "counter"}})

------------------------------------------------------------------------------
(* Packets: at one instant the ends come first, the innermost before the       *)
(* outer ones, and the outer begins before the inner ones.                     *)

EndPacketBeginsFirst(slice) ==      \* mutant: begins are written before the ends
    [at |-> <<SliceEnd(slice), 2, Uuid(slice.track), -slice.ts>>, kind |-> "end", of |-> slice]
BeginPacket(slice) ==
    [at |-> <<slice.ts, 1, Uuid(slice.track), -SliceEnd(slice)>>, kind |-> "begin", of |-> slice]
EndPacket(slice) ==
    [at |-> <<SliceEnd(slice), 0, Uuid(slice.track), -slice.ts>>, kind |-> "end", of |-> slice]
pending_events(plan) ==
    {BeginPacket(s) : s \in plan.slices} \cup {EndPacket(s) : s \in plan.slices}

Precedes(p, q) ==
    \E i \in 1..4 : p.at[i] < q.at[i] /\ \A j \in 1..(i - 1) : p.at[j] = q.at[j]

\* The trace: its descriptors, its packets, and what needs no order.
TraceOf(plan) ==
    [tracks |-> plan.tracks, packets |-> pending_events(plan), instants |-> plan.instants,
     counters |-> plan.counters, presentation |-> plan.presentation]

------------------------------------------------------------------------------
(* The trace processor: an end closes the slice opened last on its track and   *)
(* still open; a flow ends at a packet that comes after the one it left.       *)

Between(packets, p, q) == {r \in packets : Precedes(p, r) /\ Precedes(r, q)}
Balanced(packets, p, q) ==
    Cardinality({r \in Between(packets, p, q) : r.kind = "begin"})
      = Cardinality({r \in Between(packets, p, q) : r.kind = "end"})
Opened(packets, end) ==
    LET track == {p \in packets : p.of.track = end.of.track}
        open == {p \in track : p.kind = "begin" /\ Precedes(p, end) /\ Balanced(track, p, end)}
    IN  {p \in open : \A q \in open : ~Precedes(p, q)}

SliceRow(begin, end) ==
    [track |-> begin.of.track, name |-> begin.of.name, ts |-> begin.at[1],
     dur |-> end.at[1] - begin.at[1], note |-> begin.of.note]
SliceRows(trace) ==
    UNION {{SliceRow(p, e) : p \in Opened(trace.packets, e)} :
             e \in {q \in trace.packets : q.kind = "end"}}

Leaving(packet) == IF packet.kind = "begin" THEN packet.of.beginFlows ELSE packet.of.endFlows
Arriving(packet) ==
    IF packet.kind = "begin" THEN packet.of.beginTerminating ELSE packet.of.endTerminating
FlowRow(id, p, q) ==
    [id |-> id, source |-> p.of.note.correlation, destination |-> q.of.note.correlation]
FlowEnds(packets) ==
    {pair \in {p \in packets : Leaving(p) # {}} \X {p \in packets : Arriving(p) # {}} :
       Precedes(pair[1], pair[2])}
FlowRows(trace) ==
    UNION {{FlowRow(id, pair[1], pair[2]) : id \in Leaving(pair[1]) \cap Arriving(pair[2])} :
             pair \in FlowEnds(trace.packets)}
Dangling(trace) ==
    UNION {Arriving(p) : p \in trace.packets} \ {row.id : row \in FlowRows(trace)}
=============================================================================
