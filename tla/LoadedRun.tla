----------------------------- MODULE LoadedRun ------------------------------
(***************************************************************************)
(* Reading a merged run back (perfetto/loader.py): everything the converter,    *)
(* the Overview and their manifests rely on is checked against the disk and     *)
(* against the records of the two sources.  A run is                            *)
(*   [status, mode, detailed, profilers (the manifest's alignment status),       *)
(*    canonical, clocks, hosts, devices, transforms, events (a sequence),        *)
(*    metrics, artifacts, files, sources (role -> source), named (role -> run    *)
(*    id), closeout]                                                            *)
(* and a source                                                                 *)
(*   [id, status, mode, detailed, devices, clocks, hosts, artifacts, files,       *)
(*    descriptor, alignment, detail, measured, capture].                         *)
(* A file on disk is its digest: files maps the paths found to what they hold.    *)
(***************************************************************************)
EXTENDS NativeDetails

J == INSTANCE MarkerJoin

Roles == {"gpu", "npu"}
CLOSEOUT_ROOT_IDS == {"coordinator", "gpu", "hybrid", "npu", "recovery"}
Unique(set, projected) == Cardinality(set) = Cardinality(projected)

------------------------------------------------------------------------------
(* Artifacts: each listed once, there, with the content the list records.       *)

ArtifactsRefused(artifacts, files, clocks, hosts) ==
    \/ ~Unique(artifacts, {a.path : a \in artifacts})
    \/ \E a \in artifacts :
          \/ a.path \notin DOMAIN files \/ files[a.path] # a.digest
          \/ a.clock # None /\ a.clock \notin clocks
          \/ a.host # None /\ a.host \notin hosts

\* The descriptor the merge wrote of a source still tells the source's records.
DescriptorOf(source) ==
    [id |-> source.id, detailed |-> source.detailed, hosts |-> source.hosts,
     clocks |-> source.clocks, artifacts |-> source.artifacts,
     manifest |-> source.files["manifest.json"]]
DescriptorRefused(role, source) ==
    \/ source.descriptor # DescriptorOf(source)
    \/ source.status # "succeeded" \/ source.mode # role \/ role \notin source.devices
    \/ source.clocks = {} \/ ~Unique(source.clocks, {c.id : c \in source.clocks})
    \/ ArtifactsRefused(source.artifacts, source.files, {c.id : c \in source.clocks}, source.hosts)

------------------------------------------------------------------------------
(* The normalized records: one canonical clock every record is on, known hosts   *)
(* and devices, unique identities, and a whole set of markers.                   *)

CanonicalClocks(run) == {c \in run.clocks : c.role = "canonical"}
EventsSeen(run) == {run.events[i] : i \in DOMAIN run.events}
PlacesRefused(run, rows) ==
    \E row \in rows :
       \/ row.clock # run.canonical \/ row.host \notin run.hosts
       \/ row.device # None /\ <<row.host, row.device>> \notin run.devices
TransformsRefused(run) ==
    \/ ~Unique(run.transforms, {t.id : t \in run.transforms})
    \/ \E t \in run.transforms : \/ t.source \notin {c.id : c \in run.clocks}
                                 \/ t.target # run.canonical
EventsRefused(run) ==
    LET ids == {run.events[i].id : i \in DOMAIN run.events}
    IN  \/ Cardinality(ids) # Len(run.events)
        \/ \E i \in DOMAIN run.events : run.events[i].parent \notin ids \cup {None}
NormalizedRefused(run) ==
    \/ run.status # "succeeded" \/ run.mode # "hybrid"
    \/ {c.id : c \in CanonicalClocks(run)} # {run.canonical}
    \/ \E c \in CanonicalClocks(run) : ~c.monotonic
    \/ ~Unique(run.clocks, {c.id : c \in run.clocks})
    \/ \E c \in run.clocks : c.host \notin run.hosts
    \/ TransformsRefused(run) \/ EventsRefused(run)
    \/ PlacesRefused(run, EventsSeen(run)) \/ PlacesRefused(run, run.metrics)
    \/ J!ValidateMarkerGroups(run.events).status # "valid"

------------------------------------------------------------------------------
(* The envelope of a native capture: the two profiler calls bracket it on the     *)
(* source's host clock, and the one transform of the source takes it to the       *)
(* canonical one.  The alignment is                                              *)
(*   [profiler, role, canonical, native, partial, start, stop, interval,          *)
(*    uncertainty], start and stop [before, after, ok].                            *)

AnchorRefused(anchor) ==
    anchor.before < 0 \/ anchor.after < anchor.before \/ ~anchor.ok
ToCanonical(run, role) == {t \in run.transforms : t.role = role}
NativeArtifacts(source) == {a \in source.artifacts : a.clock = source.alignment.native}

\* The files the capture's summary lists are the native artifacts, unchanged.
DetailFilesRefused(source) ==
    \/ {f.path : f \in source.detail.files} # {a.path : a \in NativeArtifacts(source)}
    \/ ~Unique(source.detail.files, NativeArtifacts(source))
    \/ \E f \in source.detail.files : \E a \in NativeArtifacts(source) :
          a.path = f.path /\ (f.digest # a.digest \/ f.size <= 0)

AlignmentRefused(source, role) ==
    LET a == source.alignment
        ids == {c.id : c \in source.clocks}
    IN  \/ ~a.partial \/ a.role # role \/ a.uncertainty < 0
        \/ a.canonical \notin ids \/ a.native \notin ids \/ a.native = a.canonical
        \/ AnchorRefused(a.start) \/ AnchorRefused(a.stop)
        \/ a.interval # <<a.start.before, a.stop.after>> \/ a.interval[2] < a.interval[1]
HostClockRefused(run, source, role) ==
    \/ Cardinality(ToCanonical(run, role)) # 1
    \/ \E t \in ToCanonical(run, role) :
          \/ \A c \in run.clocks : c.id # t.source \/ c.source # role
                                   \/ c.original # source.alignment.canonical
          \/ source.alignment.interval[1] + t.offset < 0
EnvelopeRefused(run, source, role) ==
    \/ source.detailed # (source.alignment # None)
    \/ source.alignment # None
         /\ \/ AlignmentRefused(source, role) \/ HostClockRefused(run, source, role)
            \/ NativeArtifacts(source) = {} \/ source.detail = None
            \/ source.detail.kind # source.alignment.profiler
            \/ DetailFilesRefused(source)

EnvelopeOf(alignment, transform) ==
    [profiler |-> alignment.profiler, ts |-> alignment.interval[1] + transform.offset,
     dur |-> alignment.interval[2] - alignment.interval[1],
     uncertainty |-> alignment.uncertainty + transform.uncertainty, partial |-> TRUE]
native_envelopes(run) ==
    UNION {{EnvelopeOf(run.sources[role].alignment, t) : t \in ToCanonical(run, role)} :
             role \in {r \in Roles : run.sources[r].alignment # None}}

------------------------------------------------------------------------------
(* The closeout: the manifest of the five roots still holds of the disk, and the   *)
(* validation stored with it is the one computed again.  The one file an early     *)
(* campaign wrote after its closeout is let pass when it is exactly that record.   *)

Deferred == <<"coordinator", "deferred_postprocess.json", "unexpected">>
Recomputed(closeout) ==
    IF closeout.mismatches = {Deferred} /\ closeout.deferred = "contract"
      THEN {} ELSE closeout.mismatches
CloseoutRefused(run) ==
    LET c == run.closeout
    IN  \/ c.roots # CLOSEOUT_ROOT_IDS \/ Recomputed(c) # {} \/ c.stored # c.count
        \/ ~c.recovered \/ c.run # run.id

------------------------------------------------------------------------------

SourceNamesRefused(run) == \E role \in Roles : run.named[role] # run.sources[role].id
ProfilersRefused(run) ==
    \/ Cardinality({r \in Roles : run.sources[r].alignment # None}) # (IF run.detailed THEN 1 ELSE 0)
    \/ run.profilers # (IF native_envelopes(run) = {} THEN "not_applicable" ELSE "partial")

load_hybrid_run_refused(run) ==
    \/ NormalizedRefused(run)
    \/ ArtifactsRefused(run.artifacts, run.files,
                        {c.id : c \in run.clocks} \cup {c.original : c \in run.clocks}, run.hosts)
    \/ \E role \in Roles : DescriptorRefused(role, run.sources[role])
    \/ SourceNamesRefused(run) \/ CloseoutRefused(run)
    \/ \E role \in Roles : EnvelopeRefused(run, run.sources[role], role)
    \/ ProfilersRefused(run)
=============================================================================
