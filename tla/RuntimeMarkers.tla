--------------------------- MODULE RuntimeMarkers ---------------------------
(***************************************************************************)
(* The marker streams the serving processes append to, one JSONL file per   *)
(* process, and their ingestion into the events of a source run             *)
(* (hybrid/runtime_markers.py).  A file is a sequence of lines; a line is    *)
(* Torn (not a JSON object: blank, truncated by the end of its writer) or    *)
(* the row that was parsed.  Identifiers that a row may leave out are None.  *)
(***************************************************************************)
LOCAL INSTANCE Integers
LOCAL INSTANCE Sequences
LOCAL INSTANCE FiniteSets
LOCAL INSTANCE TLC

CONSTANTS
    Refused, None, Torn,
    DigestLess(_, _)    \* the order of the digests of two identities: any, but one

Stages == {"prefill", "kv_export", "kv_transfer", "kv_transform", "decode_loop",
           "decode_step", "sampling", "kv_handoff", "kv_transfer_setup",
           "kv_transfer_wait", "kv_device_sync", "decode_schedule_wait"}
StageStart(stage) == stage \o "_start"
StageEnd(stage) == stage \o "_end"

\* The phase each canonical marker has to carry.
StagePhase(stage) ==
    CASE stage \in {"kv_transfer", "kv_handoff", "kv_transfer_setup",
                    "kv_transfer_wait", "kv_device_sync"} -> "kv_transfer"
      [] stage \in {"decode_loop", "decode_step", "decode_schedule_wait"} -> "decode"
      [] OTHER -> stage

CANONICAL_MARKER_PHASES ==
    [name \in {"request_received"} |-> "request"] @@
    [name \in {"first_token_emitted", "token_emitted", "response_done"} |-> "response"] @@
    [name \in {StageStart(s) : s \in Stages} \cup {StageEnd(s) : s \in Stages} |->
        StagePhase(CHOOSE s \in Stages : name \in {StageStart(s), StageEnd(s)})]

RequiredFields == {"schema_version", "event_name", "timestamp_ns", "host_id",
    "clock_domain_id", "process_role", "pid", "thread_id", "request_id", "phase",
    "source", "attributes"}
OptionalFields == {"correlation_id", "remote_request_id_suffix", "transfer_id",
    "sequence", "marker_version"}

\* The attribute names a row may not use: those ingestion writes itself, and
\* any segment that names a payload.
ReservedAttributes == {"hybrid.process_role", "hybrid.source", "hybrid.transfer_id",
    "hybrid.correlation_id", "hybrid.marker_sequence", "hybrid.marker_version",
    "hybrid.remote_request_id_suffix", "hybrid.marker_file_index",
    "hybrid.marker_line_number"}
ForbiddenSegments == {"address", "completion_text", "kv_data", "kv_tensor", "pointer",
    "prompt", "raw_pointer", "response_text", "tensor", "token_ids", "token_text"}

\* A row's attributes are given by their (normalised) name segments, those of
\* nested objects and of the objects in lists included.
AttributesSafe(row) ==
    /\ row.attributes \cap ReservedAttributes = {}
    /\ row.segments \cap ForbiddenSegments = {}

\* An identifier is absent or a non-empty string.
IdentifierOK(value) == value = None \/ value # ""

RowAccepted(row, host, clock) ==
    /\ RequiredFields \subseteq row.fields
    /\ row.fields \subseteq RequiredFields \cup OptionalFields
    /\ row.schema = "1.0.0"
    /\ row.name \in DOMAIN CANONICAL_MARKER_PHASES
    /\ row.phase = CANONICAL_MARKER_PHASES[row.name]
    /\ row.ts >= 0 /\ row.pid >= 0 /\ row.tid >= 0
    /\ row.host = host
    /\ row.clock = clock
    /\ row.request # "" /\ row.request # None
    /\ \A value \in {row.correlation, row.transfer, row.version} : IdentifierOK(value)
    /\ AttributesSafe(row)

\* The identity of a marker: the place it was read at and what it says.
EventId(file, line, row) == <<file, line, row.name, row.ts, row.pid, row.tid>>

\* The event of an accepted row.  What only a stage reads stays with it: the
\* decode step, the bytes of a transfer, what its completion observed.
MarkerEvent(file, line, row) ==
    [id |-> EventId(file, line, row), name |-> row.name, clock |-> row.clock,
     ts |-> row.ts, request |-> row.request, transfer |-> row.transfer,
     correlation |-> row.correlation, version |-> row.version, step |-> row.step,
     bytes |-> row.bytes, observed |-> row.observed, uncertainty |-> 0]

ParseMarker(line, file, number, host, clock) ==
    IF line = Torn \/ ~RowAccepted(line, host, clock) THEN Refused
    ELSE MarkerEvent(file, number, line)

\* The order of ingestion: by time, and by the digest of the identity where
\* times are equal.
Earlier(a, b) == a.ts < b.ts \/ (a.ts = b.ts /\ DigestLess(a.id, b.id))
Sorted(events) ==
    [k \in 1..Cardinality(events) |->
        CHOOSE x \in events : Cardinality({y \in events : Earlier(y, x)}) = k - 1]

IngestRuntimeMarkerFiles(files, host, clock) ==
    LET places == UNION {{<<f, n>> : n \in DOMAIN files[f]} : f \in DOMAIN files}
        parsed(p) == ParseMarker(files[p[1]][p[2]], p[1], p[2], host, clock)
        events == {parsed(p) : p \in places}
    IN  IF \/ files = <<>>
           \/ \E f \in DOMAIN files : files[f] = <<>>
           \/ \E p \in places : parsed(p) = Refused
        THEN Refused
        ELSE Sorted(events)

==============================================================================
