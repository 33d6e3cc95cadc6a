----------------------------- MODULE Publication -----------------------------
(***************************************************************************)
(* The three products of a finished run: its closeout (recovery), its trace  *)
(* (perfetto) and its report (overview).  Each is written by a publisher     *)
(* into a staging directory of its own, with a manifest of itself and of all *)
(* that it was made from, checked, and renamed into place.  Publishers may   *)
(* run at the same time, fail or die at any step and be run again, and the   *)
(* files they read may change under them.                                    *)
(*                                                                           *)
(* create_detached_recovery (schema/artifact_integrity.py), convert_perfetto *)
(* (perfetto/converter.py), generate_overview and publish_bundle             *)
(* (overview/generator.py, overview/publication.py).                         *)
(***************************************************************************)
EXTENDS Integers, FiniteSets

CONSTANTS
    Publishers,
    Kind(_),            \* "recovery", "perfetto" or "overview"
    MaxAttempts,        \* runs of one publisher
    MaxFaults,          \* changes, failures, deaths and runs out of turn together
    Refused, None

VARIABLES
    dirs,               \* the directories there are: <<name, 0>>, or <<publisher, attempt>>
                        \* for a staging directory
    files,              \* <<directory, name>> -> content
    pc, attempt,
    loaded,             \* what a publisher has read: the run's events, the identity of
                        \* the run (its closeout manifest), the trace's files
    faults

vars == <<dirs, files, pc, attempt, loaded, faults>>

D == INSTANCE DetachedManifest

At(name) == <<name, 0>>
Kinds == {"recovery", "perfetto", "overview"}
Sources == {"coordinator", "hybrid"}
Events == <<At("hybrid"), "events">>
Deferred == <<At("coordinator"), "deferred">>
Staging(p) == <<p, attempt[p]>>
Names(dir) == {f[2] : f \in {f \in DOMAIN files : f[1] = dir}}

\* What each publisher writes itself, in this order.
RecoveryPayloads == <<"recovery_result">>
PerfettoPayloads == <<"trace", "trace_validation", "conversion_manifest">>
OverviewPayloads == <<"overview_html", "overview_json", "overview_validation">>
Payloads(kind) ==
    CASE kind = "recovery" -> RecoveryPayloads
      [] kind = "perfetto" -> PerfettoPayloads
      [] kind = "overview" -> OverviewPayloads
PerfettoSources == {<<"coordinator", "result">>, <<"hybrid", "events">>, <<"recovery", "recovery_result">>}
Required(kind) ==
    {<<kind, Payloads(kind)[i]>> : i \in DOMAIN Payloads(kind)}
    \cup (IF kind = "perfetto" THEN PerfettoSources ELSE {})
Whole(kind) == {Payloads(kind)[i] : i \in DOMAIN Payloads(kind)}
                   \cup {D!ManifestName, D!ValidationName}

ASSUME PublisherKinds == \A p \in Publishers : Kind(p) \in Kinds

\* The directories a manifest of this kind speaks for, the output at dir.
RecoveryRoots(dir) == [r \in Sources \cup {"recovery"} |-> IF r = "recovery" THEN dir ELSE At(r)]
PerfettoRoots(dir) ==
    [r \in Sources \cup {"recovery", "perfetto"} |-> IF r = "perfetto" THEN dir ELSE At(r)]
OverviewRoots(dir) == [r \in {"overview"} |-> dir]
Roots(kind, dir) ==
    CASE kind = "recovery" -> RecoveryRoots(dir)
      [] kind = "perfetto" -> PerfettoRoots(dir)
      [] kind = "overview" -> OverviewRoots(dir)
Inventoried(kind, dir) == D!Inventory(files, Roots(kind, dir), kind)

\* The manifest and the sidecar in dir hold together, and what they list is there.
StoredHolds(kind, dir) ==
    /\ {<<dir, D!ManifestName>>, <<dir, D!ValidationName>>} \subseteq DOMAIN files
    /\ D!VerifyStoredSidecar(files[<<dir, D!ManifestName>>].data, files[<<dir, D!ValidationName>>].data,
                             Inventoried(kind, dir), DOMAIN Roots(kind, dir), kind)

\* The closeout of the run: like any stored manifest, but for the control record.
CloseoutHolds ==
    /\ {<<At("recovery"), n>> : n \in Whole("recovery")} \subseteq DOMAIN files
    /\ LET manifest == files[<<At("recovery"), D!ManifestName>>].data
           report == D!AcceptDeferred(D!ValidateManifest(manifest, Inventoried("recovery", At("recovery"))),
                                      <<"coordinator", "deferred">>)
       IN  /\ D!ManifestAccepted(manifest, DOMAIN Roots("recovery", At("recovery")), "recovery")
           /\ report.valid
           /\ files[<<At("recovery"), D!ValidationName>>].data = report
RunIdentity == files[<<At("recovery"), D!ManifestName>>].data

TraceFiles == [n \in Names(At("perfetto")) |-> files[<<At("perfetto"), n>>]]

------------------------------------------------------------------------------

Init ==
    /\ dirs = {At(source) : source \in Sources}
    /\ files = [f \in {Events, <<At("coordinator"), "result">>} |-> [by |-> "run", data |-> 0]]
    /\ pc = [p \in Publishers |-> "idle"]
    /\ attempt = [p \in Publishers |-> 0]
    /\ loaded = [p \in Publishers |-> None]
    /\ faults = 0

Goto(p, step) == pc' = [pc EXCEPT ![p] = step]
Fault == faults < MaxFaults /\ faults' = faults + 1

\* Its inputs are published and their publisher is done.
Returned(kind) == \E p \in Publishers : Kind(p) = kind /\ pc[p] = "returned"
InTurn(p) ==
    CASE Kind(p) = "recovery" -> TRUE
      [] Kind(p) = "perfetto" -> Returned("recovery")
      [] Kind(p) = "overview" -> Returned("perfetto")

Start(p) ==
    /\ pc[p] \in {"idle", "raised", "dead"} /\ attempt[p] < MaxAttempts
    /\ IF InTurn(p) /\ attempt[p] = 0 THEN UNCHANGED faults ELSE Fault
    /\ attempt' = [attempt EXCEPT ![p] = @ + 1]
    /\ Goto(p, IF Kind(p) = "recovery" THEN "absent" ELSE "read")
    /\ loaded' = [loaded EXCEPT ![p] = None]
    /\ UNCHANGED <<dirs, files>>

\* load_hybrid_run reads the records first and looks at the closeout last.
Read(p) ==
    /\ pc[p] = "read" /\ Goto(p, "closeout")
    /\ loaded' = [loaded EXCEPT ![p] = [events |-> files[Events].data, run |-> None, trace |-> None]]
    /\ UNCHANGED <<dirs, files, attempt, faults>>

CheckCloseout(p) ==
    /\ pc[p] = "closeout"
    /\ IF CloseoutHolds
       THEN /\ loaded' = [loaded EXCEPT ![p].run = RunIdentity]
            /\ Goto(p, IF Kind(p) = "overview" THEN "trace" ELSE "absent")
       ELSE Goto(p, "raised") /\ UNCHANGED loaded
    /\ UNCHANGED <<dirs, files, attempt, faults>>

\* load_matching_perfetto: exactly the files of a conversion, of this run.
ExactTraceFiles == Names(At("perfetto")) = Whole("perfetto")
ManifestMatches(p) == TraceFiles["conversion_manifest"].data.run = loaded[p].run
TraceIsTheManifests ==
    TraceFiles["conversion_manifest"].data.trace = TraceFiles["trace"].data
ReadTrace(p) ==
    /\ pc[p] = "trace"
    /\ IF ExactTraceFiles /\ ManifestMatches(p) /\ TraceIsTheManifests
       THEN /\ loaded' = [loaded EXCEPT ![p].trace = TraceFiles]
            /\ Goto(p, "match")
       ELSE Goto(p, "raised") /\ UNCHANGED loaded
    /\ UNCHANGED <<dirs, files, attempt, faults>>

\* A trace planned afresh from the events is the one that is there.
FreshTraceMatches(p) == TraceFiles["trace"].data = loaded[p].events
MatchTrace(p) ==
    /\ pc[p] = "match"
    /\ Goto(p, IF /\ StoredHolds("perfetto", At("perfetto"))
                  /\ FreshTraceMatches(p)
                  /\ TraceFiles = loaded[p].trace
                 THEN "absent" ELSE "raised")
    /\ UNCHANGED <<dirs, files, attempt, loaded, faults>>

\* An output that exists is refused before anything is written.
MakeStaging(p) ==
    /\ pc[p] = "absent"
    /\ IF At(Kind(p)) \in dirs THEN Goto(p, "raised") /\ UNCHANGED dirs
       ELSE Goto(p, "write") /\ dirs' = dirs \cup {Staging(p)}
    /\ UNCHANGED <<files, attempt, loaded, faults>>

Put(f, p, data) ==
    files' = [g \in DOMAIN files \cup {f} |->
                IF g = f THEN [by |-> p, data |-> data] ELSE files[g]]

\* The data of a payload that a later step looks at.
ConversionManifest(p) == [run |-> loaded[p].run, trace |-> loaded[p].events]
OverviewReport(p) == [events |-> loaded[p].events, trace |-> loaded[p].trace["trace"]]
Payload(p, name) ==
    CASE name = "trace" -> loaded[p].events
      [] name = "conversion_manifest" -> ConversionManifest(p)
      [] name = "overview_json" -> OverviewReport(p)
      [] OTHER -> None

WritePayload(p) ==
    /\ pc[p] = "write"
    /\ LET written == Names(Staging(p))
           order == Payloads(Kind(p))
       IN  \E i \in DOMAIN order :
              /\ order[i] \notin written
              /\ \A j \in DOMAIN order : j < i => order[j] \in written
              /\ Put(<<Staging(p), order[i]>>, p, Payload(p, order[i]))
              /\ Goto(p, IF i = Cardinality(DOMAIN order) THEN "manifest" ELSE "write")
    /\ UNCHANGED <<dirs, attempt, loaded, faults>>

\* Mutant: an unpublished attempt is not cleaned up.
GivesUpAtOnce(p) == Goto(p, "raised")

\* Where a publisher goes that cannot go on: the closeout leaves its staging
\* directory behind.
GivesUp(p) == Goto(p, IF Kind(p) = "recovery" THEN "raised" ELSE "clean")

WriteManifest(p) ==
    /\ pc[p] = "manifest"
    /\ LET manifest == D!BuildManifest(Inventoried(Kind(p), Staging(p)),
                           DOMAIN Roots(Kind(p), Staging(p)), Kind(p), Required(Kind(p)))
       IN  IF manifest = Refused THEN GivesUp(p) /\ UNCHANGED files
           ELSE Goto(p, "validate") /\ Put(<<Staging(p), D!ManifestName>>, p, manifest)
    /\ UNCHANGED <<dirs, attempt, loaded, faults>>

\* The closeout writes its report before it looks at it.
Validate(p) ==
    /\ pc[p] = "validate"
    /\ LET report == D!ValidateManifest(files[<<Staging(p), D!ManifestName>>].data,
                                        Inventoried(Kind(p), Staging(p)))
       IN  /\ IF report.valid \/ Kind(p) = "recovery"
                THEN Put(<<Staging(p), D!ValidationName>>, p, report) ELSE UNCHANGED files
           /\ IF report.valid THEN Goto(p, IF Kind(p) = "recovery" THEN "rename" ELSE "verify")
              ELSE GivesUp(p)
    /\ UNCHANGED <<dirs, attempt, loaded, faults>>

VerifyStaging(p) ==
    /\ pc[p] = "verify"
    /\ IF StoredHolds(Kind(p), Staging(p)) /\ Names(Staging(p)) = Whole(Kind(p))
         THEN Goto(p, "inputs") ELSE GivesUp(p)
    /\ UNCHANGED <<dirs, files, attempt, loaded, faults>>

\* The run, and for a report its trace, are loaded again and are the same.
SameRun(p) == CloseoutHolds /\ RunIdentity = loaded[p].run
SameTrace(p) == TraceFiles = loaded[p].trace
CheckInputs(p) ==
    /\ pc[p] = "inputs"
    /\ IF SameRun(p) /\ (Kind(p) = "overview" => SameTrace(p))
         THEN Goto(p, "rename") ELSE GivesUp(p)
    /\ UNCHANGED <<dirs, files, attempt, loaded, faults>>

\* renameat2 without replacement; the plain rename of the closeout refuses a
\* directory that is not empty, and no output ever is.
Moved(from, to) ==
    LET gone == {f \in DOMAIN files : f[1] = from}
        new == {<<to, f[2]>> : f \in gone}
    IN  [f \in (DOMAIN files \ gone) \cup new |->
            IF f \in new THEN files[<<from, f[2]>>] ELSE files[f]]
RenameOver(p) ==   \* mutant: what is there is replaced
    /\ pc[p] = "rename"
    /\ dirs' = (dirs \ {Staging(p)}) \cup {At(Kind(p))}
    /\ files' = Moved(Staging(p), At(Kind(p)))
    /\ Goto(p, "published")
    /\ UNCHANGED <<attempt, loaded, faults>>

Rename(p) ==
    /\ pc[p] = "rename"
    /\ IF At(Kind(p)) \in dirs THEN GivesUp(p) /\ UNCHANGED <<dirs, files>>
       ELSE /\ dirs' = (dirs \ {Staging(p)}) \cup {At(Kind(p))}
            /\ files' = Moved(Staging(p), At(Kind(p)))
            /\ Goto(p, "published")
    /\ UNCHANGED <<attempt, loaded, faults>>

\* The output is checked where it now is.  It stays if the check fails; the
\* closeout's report is then written over the one it was published with.
VerifyPublished(p) ==
    /\ pc[p] = "published"
    /\ LET kind == Kind(p)
           report == D!ValidateManifest(files[<<At(kind), D!ManifestName>>].data, Inventoried(kind, At(kind)))
       IN  /\ IF kind = "recovery" /\ files[<<At(kind), D!ValidationName>>].data # report
                THEN Put(<<At(kind), D!ValidationName>>, p, report) ELSE UNCHANGED files
           /\ Goto(p, IF report.valid /\ (kind = "recovery" \/ StoredHolds(kind, At(kind)))
                        THEN "returned" ELSE "raised")
    /\ UNCHANGED <<dirs, attempt, loaded, faults>>

\* The finally block of an unpublished attempt.
RemoveStaging(p) ==
    /\ pc[p] = "clean" /\ Goto(p, "raised")
    /\ dirs' = dirs \ {Staging(p)}
    /\ files' = [f \in {f \in DOMAIN files : f[1] # Staging(p)} |-> files[f]]
    /\ UNCHANGED <<attempt, loaded, faults>>

\* A write, or a check of what was written, raises.
Fails(p) ==
    /\ Fault
    /\ \/ pc[p] \in {"write", "manifest", "validate", "verify", "inputs", "rename"} /\ GivesUp(p)
       \/ pc[p] \in {"read", "closeout", "trace", "match", "published"} /\ Goto(p, "raised")
    /\ UNCHANGED <<dirs, files, attempt, loaded>>

Dies(p) ==
    /\ Fault
    /\ pc[p] \notin {"idle", "returned", "raised", "dead"} /\ Goto(p, "dead")
    /\ UNCHANGED <<dirs, files, attempt, loaded>>

\* From the closeout on, the files of a run are only changed from outside: an
\* edit (which shows in size, digest or time), or the deferred control record.
Sealed == \E p \in Publishers : Kind(p) = "recovery" /\ pc[p] \notin {"idle", "absent", "write", "manifest"}
Tampered ==
    /\ Fault /\ Sealed
    /\ \/ \E f \in {Events, <<At("perfetto"), "trace">>} \cap DOMAIN files :
             files' = [files EXCEPT ![f].data = @ + 1]
       \/ files' = [g \in DOMAIN files \cup {Deferred} |->
                      IF g \in DOMAIN files THEN files[g] ELSE [by |-> "run", data |-> 0]]
    /\ UNCHANGED <<dirs, pc, attempt, loaded>>

Step(p) ==
    \/ Read(p) \/ CheckCloseout(p) \/ ReadTrace(p) \/ MatchTrace(p) \/ MakeStaging(p)
    \/ WritePayload(p) \/ WriteManifest(p) \/ Validate(p) \/ VerifyStaging(p)
    \/ CheckInputs(p) \/ Rename(p) \/ VerifyPublished(p) \/ RemoveStaging(p)

Next == Tampered \/ \E p \in Publishers : Start(p) \/ Step(p) \/ Fails(p) \/ Dies(p)

\* Someone whose turn it is starts, or goes on: publishers wait for nobody, so
\* this lets all of them end.  It is assumed only while nothing has gone wrong.
InOrder ==
    /\ faults = 0
    /\ \E p \in Publishers : Step(p) \/ (InTurn(p) /\ attempt[p] = 0 /\ Start(p))

Spec == Init /\ [][Next]_vars /\ WF_vars(InOrder)

------------------------------------------------------------------------------
(* Properties                                                                 *)

\* An output directory appears whole, in one step, as the work of one
\* publisher, and is never replaced, whatever runs, fails or dies next to it
\* (support/publication.py: publish_directory_no_replace).
Once == INSTANCE PublishedOnce WITH
    Outputs <- Kinds, Writers <- Publishers, Contents <- Whole,
    published <- [k \in Kinds |-> [n \in Names(At(k)) |-> files[<<At(k), n>>].by]]
PublishedOnce == Once!Spec

\* All products speak of one run: the trace on disk was converted from the run
\* its closeout lists, and the report shows the events of that run and a trace
\* made from those events, although the files may change at any time
\* (converter.py: _assert_input_unchanged, generator.py: _generation_input_check).
\* Records are read before the closeout is looked at: an edit between the manifests of
\* two closeouts, both readers being under way before, would go unseen.  That takes
\* three faults, or four if one publisher makes both closeouts; up to two it holds.
OneRunThroughout ==
    /\ At("perfetto") \in dirs =>
          /\ At("recovery") \in dirs
          /\ TraceFiles["conversion_manifest"].data.run = RunIdentity
    /\ At("overview") \in dirs =>
          LET shown == files[<<At("overview"), "overview_json">>].data
          IN  /\ shown.events = RunIdentity.entries[<<"hybrid", "events">>].data
              /\ shown.trace.data = shown.events

\* An attempt that ends, published or not, leaves no staging directory, unless
\* the publisher died or is the closeout (publication.py: the finally block).
OnlyDeathLeavesStaging ==
    [][\A p \in Publishers :
          pc[p] # pc'[p] /\ pc'[p] \in {"raised", "returned"} /\ Kind(p) # "recovery"
              => Staging(p) \notin dirs']_vars

\* If nothing changes the run's files and nothing fails, each product made in
\* its turn is accepted by the next: no publisher is stopped by what an earlier
\* one, or a rival for the same output, has written.
PipelineCompletes == [](faults = 0) => <>(\A kind \in Kinds : Returned(kind))
=============================================================================
