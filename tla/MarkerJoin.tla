----------------------------- MODULE MarkerJoin -----------------------------
(***************************************************************************)
(* The contract of one request's markers, and the join of the GPU's and the *)
(* NPU's requests (hybrid/join.py).  Rows are sequences of events as        *)
(* RuntimeMarkers makes them; an issue's wording is left out, what it is     *)
(* about is kept.  Sets stand for the tuples of issues, whose order nothing *)
(* depends on.                                                              *)
(***************************************************************************)
EXTENDS Integers, Sequences, FiniteSets

CONSTANT None

MARKER_ORDER ==
    <<"request_received", "prefill_start", "prefill_end", "kv_export_start",
      "kv_export_end", "kv_transfer_start", "kv_transfer_end", "kv_transform_start",
      "kv_transform_end", "decode_loop_start", "decode_step_start", "decode_step_end",
      "sampling_start", "sampling_end", "decode_loop_end", "response_done">>
ITERATION_MARKERS ==
    <<"decode_step_start", "decode_step_end", "sampling_start", "sampling_end">>
OBSERVABILITY_MARKER_VERSION == "1.1.0"
OBSERVABILITY_MARKERS ==
    {"kv_handoff_start", "kv_handoff_end", "kv_transfer_setup_start",
     "kv_transfer_setup_end", "kv_transfer_wait_start", "kv_transfer_wait_end",
     "kv_device_sync_start", "kv_device_sync_end", "decode_schedule_wait_start",
     "decode_schedule_wait_end"}
TRANSFER_REPEATABLE_MARKERS ==
    {"kv_transfer_start", "kv_transfer_end", "kv_transfer_setup_start",
     "kv_transfer_setup_end", "kv_transfer_wait_start", "kv_transfer_wait_end"}

MarkerNames == {MARKER_ORDER[i] : i \in DOMAIN MARKER_ORDER}
IterationNames == {ITERATION_MARKERS[i] : i \in DOMAIN ITERATION_MARKERS}
TokenMarkers == {"first_token_emitted", "token_emitted"}

\* The places of a name, the first of a set of places, and the rows there.
Places(rows, name) == {i \in DOMAIN rows : rows[i].name = name}
FirstPlace(places) == CHOOSE i \in places : \A j \in places : i <= j
Steps(rows, name) == {rows[i].step : i \in Places(rows, name)}
Transfers(rows, name) == {rows[i].transfer : i \in Places(rows, name)}

\* The row that stands for one value of a field among those of a name: the
\* first one for a step (kept when seen again), the last one for a transfer.
RowOfStep(rows, name, step) ==
    rows[FirstPlace({i \in Places(rows, name) : rows[i].step = step})]
RowOfTransfer(rows, name, id) ==
    LET places == {i \in Places(rows, name) : rows[i].transfer = id}
    IN  rows[CHOOSE i \in places : \A j \in places : j <= i]

HasObservability(rows) ==
    \E i \in DOMAIN rows : rows[i].version = OBSERVABILITY_MARKER_VERSION

\* A reversal is an issue; it is definite when the clocks' uncertainty does
\* not cover it.
OrderingIssueOneSided(before, after) ==   \* mutant: one clock's uncertainty
    IF after.ts >= before.ts THEN {}
    ELSE {[before |-> before.id, after |-> after.id,
           definite |-> before.ts - after.ts > before.uncertainty]}
OrderingIssue(before, after) ==
    IF after.ts >= before.ts THEN {}
    ELSE {[before |-> before.id, after |-> after.id,
           definite |-> before.ts - after.ts > before.uncertainty + after.uncertainty]}

------------------------------------------------------------------------------
(* Repetition: an iteration marker repeats with its step, a transfer marker  *)
(* with its transfer, no other one does.                                     *)

RepeatIssues(rows, name) ==
    LET n == Cardinality(Places(rows, name))
        values == IF name \in IterationNames THEN Steps(rows, name) ELSE Transfers(rows, name)
        keyed == name \in IterationNames \cup TRANSFER_REPEATABLE_MARKERS
        anonymous == Cardinality({i \in Places(rows, name) :
            None = IF name \in IterationNames THEN rows[i].step ELSE rows[i].transfer})
    IN  [pairing |-> IF \/ n > 1 /\ keyed /\ None \in values
                        \/ n = 1 /\ name \in IterationNames /\ None \in values
                       THEN {<<"identity", name>>} ELSE {},
         duplicates |-> IF n > 1 /\ (keyed => Cardinality(values \ {None}) # n - anonymous)
                          THEN {name} ELSE {}]

\* The earliest row of each name present, in the contract's order: each is to
\* be no later than the next.
Representative(rows, name) ==
    LET places == Places(rows, name)
    IN  rows[CHOOSE i \in places : \A j \in places :
                rows[i].ts < rows[j].ts \/ (rows[i].ts = rows[j].ts /\ i <= j)]

RepresentativeIssues(rows) ==
    LET present == {k \in DOMAIN MARKER_ORDER : Places(rows, MARKER_ORDER[k]) # {}}
        next(k) == FirstPlace({m \in present : m > k})
    IN  UNION {OrderingIssue(Representative(rows, MARKER_ORDER[k]),
                             Representative(rows, MARKER_ORDER[next(k)])) :
                 k \in {k \in present : \E m \in present : m > k}}

------------------------------------------------------------------------------
(* Decode iterations: the four markers of a step carry the same indices, the *)
(* indices have no gap, and each step follows the one before inside the loop. *)

IterationPairing(rows) ==
    LET indices(name) == Steps(rows, name) \ {None}
        expected == indices("decode_step_start")
    IN  {<<"indices", name>> : name \in {n \in IterationNames : indices(n) # expected}}
        \cup (IF \E a, b \in expected : \E c \in a..b : c \notin expected
                THEN {<<"contiguous", "decode.step_index">>} ELSE {})

IterationIssues(rows) ==
    LET indices(name) == Steps(rows, name) \ {None}
        whole == {k \in indices("decode_step_start") :
                     \A name \in IterationNames : k \in indices(name)}
        at(k, m) == RowOfStep(rows, ITERATION_MARKERS[m], k)
        only(name) == IF Cardinality(Places(rows, name)) = 1
                        THEN {rows[FirstPlace(Places(rows, name))]} ELSE {}
        previous(k) == {j \in whole : j < k /\ \A m \in whole : m < k => m <= j}
    IN  UNION ({OrderingIssue(at(k, m), at(k, m + 1)) : k \in whole, m \in 1..3}
               \cup (UNION {{OrderingIssue(at(j, 4), at(k, 1)) : j \in previous(k)} : k \in whole})
               \cup {OrderingIssue(row, at(k, 1)) : k \in whole, row \in only("decode_loop_start")}
               \cup {OrderingIssue(at(k, 4), row) : k \in whole, row \in only("decode_loop_end")})

HasIterations(rows) == \A name \in IterationNames : Places(rows, name) # {}

------------------------------------------------------------------------------
(* The markers of observability 1.1.0: intervals paired by transfer, waits   *)
(* inside their transfer, every transfer waited for or seen done at once.    *)

RequiredPairs == {"kv_handoff", "kv_transfer_setup", "decode_schedule_wait"}
OptionalPairs == {"kv_transfer_wait", "kv_device_sync"}

PairedByTransfer(rows, stage) ==
    LET first == stage \o "_start"
        last == stage \o "_end"
        starts == Transfers(rows, first)
        ends == Transfers(rows, last)
        both == starts \cap ends
        sameClock(id) == RowOfTransfer(rows, first, id).clock = RowOfTransfer(rows, last, id).clock
        repeated(name) == Cardinality(Places(rows, name)) # Cardinality(Transfers(rows, name))
    IN  IF None \in starts \cup ends
          THEN [pairing |-> {<<"identity", stage>>}, duplicates |-> {}, ordering |-> {}]
          ELSE [pairing |-> (IF starts # ends THEN {<<"transfers", stage>>} ELSE {})
                             \cup {<<"clocks", stage>> : id \in {x \in both : ~sameClock(x)}},
                duplicates |-> {name \in {first, last} : repeated(name)},
                ordering |-> UNION {OrderingIssue(RowOfTransfer(rows, first, id),
                                                  RowOfTransfer(rows, last, id)) :
                                      id \in {x \in both : sameClock(x)}}]

PairsToCheck(rows) ==
    {stage \in RequiredPairs : /\ Places(rows, stage \o "_start") # {}
                               /\ Places(rows, stage \o "_end") # {}}
    \cup {stage \in OptionalPairs : \/ Places(rows, stage \o "_start") # {}
                                    \/ Places(rows, stage \o "_end") # {}}

MissingCapabilities(rows) ==
    {<<"missing", name>> : name \in
        {n \in {s \o "_start" : s \in RequiredPairs} \cup {s \o "_end" : s \in RequiredPairs} :
            Places(rows, n) = {}}}

\* The transfers whose wait was marked on both sides, and those set up.
WaitedTransfers(rows) ==
    (Transfers(rows, "kv_transfer_wait_start") \cap Transfers(rows, "kv_transfer_wait_end"))
        \ {None}
BoundedTransfers(rows) ==
    Transfers(rows, "kv_transfer_start") \cap Transfers(rows, "kv_transfer_end")

WaitPairing(rows) ==
    LET setUp == Transfers(rows, "kv_transfer_setup_start") \ {None}
        ended == Transfers(rows, "kv_transfer_end")
        seenDone(id) == RowOfTransfer(rows, "kv_transfer_end", id).observed = "done_on_first_poll"
    IN  {<<"wait_boundary", id>> : id \in WaitedTransfers(rows) \ BoundedTransfers(rows)}
        \cup {<<"no_end", id>> : id \in setUp \ ended}
        \cup {<<"no_wait", id>> : id \in
                 {x \in setUp \cap ended : /\ x \notin Transfers(rows, "kv_transfer_wait_start")
                                           /\ ~seenDone(x)}}

WaitIssues(rows) ==
    UNION {OrderingIssue(RowOfTransfer(rows, "kv_transfer_start", id),
                         RowOfTransfer(rows, "kv_transfer_wait_start", id))
           \cup OrderingIssue(RowOfTransfer(rows, "kv_transfer_wait_end", id),
                              RowOfTransfer(rows, "kv_transfer_end", id)) :
             id \in WaitedTransfers(rows) \cap BoundedTransfers(rows)}

\* The response is the last canonical marker: no token may come after it.
ResponseIssues(rows) ==
    LET tokens == {i \in DOMAIN rows : rows[i].name \in TokenMarkers}
        latest == CHOOSE i \in tokens : \A j \in tokens : rows[j].ts <= rows[i].ts
        done == Places(rows, "response_done")
    IN  IF Cardinality(done) # 1 \/ tokens = {} THEN {}
        ELSE OrderingIssue(rows[latest], rows[FirstPlace(done)])

------------------------------------------------------------------------------
(* The verdict on one request's markers.                                      *)

MarkerStatus(missing, duplicates, pairing, ordering) ==
    IF (\E issue \in ordering : issue.definite) \/ duplicates # {} \/ pairing # {}
      THEN "invalid"
      ELSE IF missing # {} \/ ordering # {} THEN "partial" ELSE "valid"
Verdict(missing, duplicates, pairing, ordering) ==
    [missing |-> missing, duplicates |-> duplicates, pairing |-> pairing, ordering |-> ordering,
     status |-> MarkerStatus(missing, duplicates, pairing, ordering)]

ValidateMarkerOrder(rows) ==
    LET missing == {name \in MarkerNames : Places(rows, name) = {}}
        repeats == {RepeatIssues(rows, name) : name \in MarkerNames}
        pairs == IF HasObservability(rows)
                   THEN {PairedByTransfer(rows, stage) : stage \in PairsToCheck(rows)} ELSE {}
        duplicates == UNION {x.duplicates : x \in repeats \cup pairs}
        pairing == (UNION {x.pairing : x \in repeats \cup pairs})
                   \cup (IF HasIterations(rows) THEN IterationPairing(rows) ELSE {})
                   \cup (IF HasObservability(rows)
                           THEN MissingCapabilities(rows) \cup WaitPairing(rows) ELSE {})
        ordering == RepresentativeIssues(rows) \cup ResponseIssues(rows)
                    \cup (UNION {p.ordering : p \in pairs})
                    \cup (IF HasIterations(rows) THEN IterationIssues(rows) ELSE {})
                    \cup (IF HasObservability(rows) THEN WaitIssues(rows) ELSE {})
    IN  Verdict(missing, duplicates, pairing, ordering)

------------------------------------------------------------------------------
(* A run of several requests: each correlation is judged by itself.          *)

ContractMarkers == MarkerNames \cup OBSERVABILITY_MARKERS \cup TokenMarkers

\* Every item of the verdicts next to the correlation it is about.
ItemsOf(verdicts, part) ==
    UNION {{<<id, item>> : item \in verdicts[id][part]} : id \in DOMAIN verdicts}
MergedVerdicts(verdicts, loose) ==
    Verdict(ItemsOf(verdicts, "missing"), ItemsOf(verdicts, "duplicates"),
            ItemsOf(verdicts, "pairing") \cup {<<None, "uncorrelated">> : i \in loose},
            UNION {verdicts[id].ordering : id \in DOMAIN verdicts})

\* The rows at these places, each where it was.
Kept(rows, places) == [i \in places |-> rows[i]]

\* Without any correlation the rows are taken for one historical request.
ValidateMarkerGroups(all) ==
    LET rows == Kept(all, {i \in DOMAIN all : all[i].name \in ContractMarkers})
        ids == {rows[i].correlation : i \in DOMAIN rows} \ {None}
        loose == {i \in DOMAIN rows : rows[i].correlation = None}
    IN  IF loose # {} /\ ids = {} THEN ValidateMarkerOrder(rows)
        ELSE MergedVerdicts(
                [id \in ids |-> ValidateMarkerOrder(Kept(rows, {i \in DOMAIN rows : rows[i].correlation = id}))],
                loose)

------------------------------------------------------------------------------
(* The join.  A group is the events of one request id of one source; an event *)
(* without one is a group of its own, which no request id can name.           *)

GroupKey(event) ==
    IF event.request = None THEN <<"event", event.id>> ELSE <<"request", event.request>>

\* The rows at these places, in their order.
NthPlace(places, n) == CHOOSE i \in places : Cardinality({j \in places : j <= i}) = n
RowsAt(rows, places) == [n \in 1..Cardinality(places) |-> rows[NthPlace(places, n)]]
Groups(events) ==
    [key \in {GroupKey(events[i]) : i \in DOMAIN events} |->
        RowsAt(events, {i \in DOMAIN events : GroupKey(events[i]) = key})]

IdentifierValues(rows, method) ==
    {(IF method = "transfer_id" THEN rows[i].transfer ELSE rows[i].correlation) :
        i \in DOMAIN rows} \ {None}

\* The result for groups that could not be joined to one another.
Unjoined(request, gpuKeys, npuKeys, method, status, rows) ==
    [request |-> request, gpu |-> gpuKeys, npu |-> npuKeys, method |-> method,
     confidence |-> 0, status |-> status, ordering |-> {}, events |-> rows]

JoinedStatusLenient(marker) ==   \* mutant: missing or uncertain markers are let pass
    IF marker.status = "invalid" THEN "invalid" ELSE "joined"
JoinedStatus(marker) ==
    CASE marker.status = "invalid" -> "invalid"
      [] marker.status = "valid" -> "joined"
      [] OTHER -> "partial"

\* Confidence in tenths.
Judged(result, marker) ==
    [result EXCEPT !.status = JoinedStatus(marker), !.ordering = marker.ordering]
Joined(gpuKey, gpuRows, npuKey, npuRows, method, confidence) ==
    Judged([request |-> IF gpuRows[1].request # None THEN gpuRows[1].request
                        ELSE npuRows[1].request,
            gpu |-> {gpuKey}, npu |-> {npuKey}, method |-> method, confidence |-> confidence,
            status |-> None, ordering |-> {}, events |-> gpuRows \o npuRows],
           ValidateMarkerOrder(gpuRows \o npuRows))

\* First the requests both sources name alike; a request id that bounds more
\* than one request is ambiguous.
JoinByRequest(gpu, npu) ==
    LET keys == {key \in DOMAIN gpu \cap DOMAIN npu : key[1] = "request"}
        repeated(key) == \/ Cardinality(Places(gpu[key], "request_received")) > 1
                         \/ Cardinality(Places(npu[key], "response_done")) > 1
    IN  [usedGpu |-> keys, usedNpu |-> keys,
         results |-> {IF repeated(key)
                        THEN Unjoined(key[2], {key}, {key}, "request_id", "ambiguous",
                                      gpu[key] \o npu[key])
                        ELSE Joined(key, gpu[key], key, npu[key], "request_id", 10) :
                        key \in keys}]

\* The groups of the GPU side that name n, and those whose only candidate
\* names nobody else.
Rivals(candidates, n) == {g \in DOMAIN candidates : n \in candidates[g]}
OneCandidate(candidates, g) ==   \* mutant: the other direction is not looked at
    Cardinality(candidates[g]) = 1
OneToOne(candidates, g) ==
    /\ Cardinality(candidates[g]) = 1
    /\ \A n \in candidates[g] : Rivals(candidates, n) = {g}

\* Then, among the groups left, those that share an identifier with exactly
\* one group of the other source; a group with several is ambiguous, and
\* leaves the candidates to the next method.
JoinBy(done, gpu, npu, method, confidence) ==
    LET freeGpu == DOMAIN gpu \ done.usedGpu
        freeNpu == DOMAIN npu \ done.usedNpu
        candidates == [g \in freeGpu |->
            {n \in freeNpu : IdentifierValues(gpu[g], method)
                             \cap IdentifierValues(npu[n], method) # {}}]
        matched == {g \in freeGpu : candidates[g] # {}}
        result(g) ==
            IF OneToOne(candidates, g)
              THEN LET n == CHOOSE n \in candidates[g] : TRUE
                   IN  Joined(g, gpu[g], n, npu[n], method, confidence)
              ELSE Unjoined(gpu[g][1].request, {g}, candidates[g], method, "ambiguous", gpu[g])
    IN  [usedGpu |-> done.usedGpu \cup matched,
         usedNpu |-> done.usedNpu \cup UNION {candidates[g] : g \in {x \in matched : OneToOne(candidates, x)}},
         results |-> done.results \cup {result(g) : g \in matched}]

WithUnjoined(done, gpu, npu) ==
    done.results
    \cup {Unjoined(gpu[g][1].request, {g}, {}, "none", "not_joined", gpu[g]) :
             g \in DOMAIN gpu \ done.usedGpu}
    \cup {Unjoined(npu[n][1].request, {}, {n}, "none", "not_joined", npu[n]) :
             n \in DOMAIN npu \ done.usedNpu}

JoinGroups(gpu, npu) ==
    LET named == JoinByRequest(gpu, npu)
        transferred == JoinBy(named, gpu, npu, "transfer_id", 9)
    IN  WithUnjoined(JoinBy(transferred, gpu, npu, "correlation_id", 8), gpu, npu)
JoinRequests(gpuEvents, npuEvents) == JoinGroups(Groups(gpuEvents), Groups(npuEvents))
=============================================================================
