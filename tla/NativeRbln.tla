----------------------------- MODULE NativeRbln -----------------------------
(***************************************************************************)
(* The capture of the NPU's own profiler (perfetto/native_rbln.py): files that  *)
(* are traces already, on a clock nothing ties to the run's, of which the one    *)
(* without a number holds all that the numbered shards hold.  A file is          *)
(*   [digest, stem, shard (None or a number), packets, described, snapshots],      *)
(* a packet [kind, track, ts, flows, terminating].                               *)
(***************************************************************************)
EXTENDS TimelineEvidence, SequencesExt

\* The endpoints of one flow in order of time, ties in order of the file.
Touches(packet, id) == id \in packet.flows \cup packet.terminating
FlowIdsOf(packets) == UNION {packets[i].flows \cup packets[i].terminating : i \in DOMAIN packets}
EndpointsOf(packets, id) ==
    SortSeq(SelectSeq([i \in DOMAIN packets |-> [at |-> i, packet |-> packets[i]]],
                      LAMBDA row : Touches(row.packet, id)),
            LAMBDA a, b : \/ a.packet.ts < b.packet.ts
                          \/ a.packet.ts = b.packet.ts /\ a.at < b.at)

\* A flow is open after every endpoint that does not end it; each endpoint that
\* finds it open is an edge, one that ends it must.
Ends(row, id) == id \in row.packet.terminating
FindsOpen(rows, i, id) == i > 1 /\ ~Ends(rows[i - 1], id)
UnstartedEnd(rows, id) == \E i \in DOMAIN rows : Ends(rows[i], id) /\ ~FindsOpen(rows, i, id)
EdgesOf(rows, id) == {i \in DOMAIN rows : FindsOpen(rows, i, id)}
FlowEdges(file) ==
    UNION {{<<id, i>> : i \in EdgesOf(EndpointsOf(file.packets, id), id)} : id \in FlowIdsOf(file.packets)}
rbln_flow_edge_count(file) == Cardinality(FlowEdges(file))

Kinds(file, kinds) == {i \in DOMAIN file.packets : file.packets[i].kind \in kinds}
Depth(file, track, last) ==
    Cardinality({i \in Kinds(file, {"begin"}) : i <= last /\ file.packets[i].track = track})
      - Cardinality({i \in Kinds(file, {"end"}) : i <= last /\ file.packets[i].track = track})
UsedTracksOf(file) == {file.packets[i].track : i \in DOMAIN file.packets}
ShownIn(file) == Cardinality(Kinds(file, {"begin", "instant"}))

FileRefused(file) ==
    \/ file.snapshots # 0 \/ file.described = {}
    \/ Kinds(file, {"begin"}) = {}
    \/ ~(UsedTracksOf(file) \subseteq file.described)
    \/ \E track \in UsedTracksOf(file) :
          \/ Depth(file, track, Len(file.packets)) # 0
          \/ \E i \in DOMAIN file.packets : Depth(file, track, i) < 0
    \/ \E i \in DOMAIN file.packets : file.packets[i].flows \cap file.packets[i].terminating # {}
    \/ \E id \in FlowIdsOf(file.packets) : UnstartedEnd(EndpointsOf(file.packets, id), id)

\* The aggregate is the file every other one is a shard of.
Shards(files, file) == {f \in files : f.stem = file.stem /\ f.shard # None /\ f # file}
Aggregates(files) ==
    IF Cardinality(files) = 1 THEN files
      ELSE {f \in files : f.shard = None /\ Shards(files, f) = files \ {f}}
Reconciled(files, aggregate) ==
    Cardinality(files) > 1
      => /\ ShownIn(aggregate) = MapThenSumSet(ShownIn, files \ {aggregate})
         /\ rbln_flow_edge_count(aggregate)
              = MapThenSumSet(rbln_flow_edge_count, files \ {aggregate})

RblnRefused(files) ==
    \/ files = {} \/ \E f \in files : FileRefused(f)
    \/ Cardinality(Aggregates(files)) # 1
    \/ \E f \in Aggregates(files) : ~Reconciled(files, f)

\* What is published of it: the aggregate as it is, with what is to be read in it.
SeparateTrace(file) ==
    [digest |-> file.digest, slices |-> ShownIn(file), tracks |-> Cardinality(UsedTracksOf(file)),
     flows |-> rbln_flow_edge_count(file)]
separate_traces(files) == {SeparateTrace(f) : f \in Aggregates(files)}

\* The trace processor's count of a copied file (validate_native_perfetto_trace).
NativeTraceAgrees(view, files) ==
    \E f \in files : /\ f.digest = view.digest /\ ShownIn(f) = view.slices
                     /\ Cardinality(UsedTracksOf(f)) = view.tracks
                     /\ rbln_flow_edge_count(f) = view.flows
=============================================================================
