-------------------------------- MODULE Proxy --------------------------------
(***************************************************************************)
(* php/hybrid/proxy.py and the client of php/gpu/openai_client.py. A       *)
(* handler thread per request performs the prefill on one server and       *)
(* relays the decode of the other, and reports its phases as markers: one  *)
(* line each in a file that all handlers share.                            *)
(*                                                                         *)
(* The time of a marker is read together with its sequence number, which   *)
(* stands for it here. Of the file the model keeps the markers of each     *)
(* request, in the order of their lines, and the number of the last line.  *)
(***************************************************************************)
EXTENDS Naturals, Sequences, FiniteSets

CONSTANTS
    Requests,  \* the requests, each with an id of its own
    MaxFaults  \* bound on failed writes of a marker

ASSUME ProxyAssumption == IsFiniteSet(Requests) /\ MaxFaults \in Nat

\* The markers a handler emits, in this order.
Markers == <<"request_received", "prefill_start", "prefill_end",
             "kv_export_start", "kv_export_end", "kv_handoff_start",
             "response_done">>

\* The steps of _handle_completion that emit one.
Emits == [received |-> 1, prefillStart |-> 2, prefillEnd |-> 3,
          exportStart |-> 4, exportEnd |-> 5, handoff |-> 6, done |-> 7]
EmitSteps == DOMAIN Emits

Steps == EmitSteps \cup {"none", "askPrefill", "prefill", "askDecode", "decode",
                         "relay", "raise", "end"}

VARIABLES
    alive,     \* the proxy process
    point,        \* step of the handler of each request
    lock,      \* MarkerWriter.lock: the handler that holds it, if any
    sequence,  \* MarkerWriter.sequence
    number,    \* the number a handler has drawn for the line it writes, or 0
    file,      \* proxy-markers.jsonl: the markers of each request
    last,      \* the number of its last line
    prefill,   \* prefill of a request: none, working, kv, nokv, bad
    decode,    \* its decode: none, working, streamed, cut
    sent,      \* to the client: nothing, headers, all (up to [DONE]), eof, error
    client,    \* idle, asking, ok, error
    faults

writer == <<lock, sequence, number, file, last, faults>>
servers == <<prefill, decode>>
proxyVars == <<alive, point, writer, servers, sent, client>>

ProxyTypeOK ==
    /\ alive \in BOOLEAN /\ point \in [Requests -> Steps]
    /\ lock \subseteq Requests
    /\ sequence \in Nat /\ last \in Nat /\ number \in [Requests -> Nat]
    /\ file \in [Requests -> Seq(DOMAIN Markers)]
    /\ prefill \in [Requests -> {"none", "working", "kv", "nokv", "bad"}]
    /\ decode \in [Requests -> {"none", "working", "streamed", "cut"}]
    /\ sent \in [Requests -> {"nothing", "headers", "all", "eof", "error"}]
    /\ client \in [Requests -> {"idle", "asking", "ok", "error"}]
    /\ faults \in 0 .. MaxFaults

ProxyInit ==
    /\ alive = TRUE /\ point = [r \in Requests |-> "none"]
    /\ lock = {} /\ sequence = 0 /\ last = 0 /\ number = [r \in Requests |-> 0]
    /\ file = [r \in Requests |-> << >>]
    /\ prefill = [r \in Requests |-> "none"] /\ decode = [r \in Requests |-> "none"]
    /\ sent = [r \in Requests |-> "nothing"]
    /\ client = [r \in Requests |-> "idle"] /\ faults = 0

Advance(r, step) == point' = [point EXCEPT ![r] = step]
Raise(r) == Advance(r, "raise")

-----------------------------------------------------------------------------
(* The client                                                              *)

\* urlopen: a handler thread takes the request, or the connection is refused.
Ask(r) ==
    /\ client[r] = "idle"
    /\ client' = [client EXCEPT ![r] = IF alive THEN "asking" ELSE "error"]
    /\ point' = [point EXCEPT ![r] = IF alive THEN "received" ELSE "none"]
    /\ UNCHANGED <<alive, writer, servers, sent>>

\* The client stops reading at [DONE].
ReadsDone(r) ==
    /\ client[r] = "asking" /\ sent[r] = "all"
    /\ client' = [client EXCEPT ![r] = "ok"]
    /\ UNCHANGED <<alive, point, writer, servers, sent>>

\* An error status, the end of the stream before [DONE], or the timeout.
GivesUp(r) ==
    /\ client[r] = "asking"
    /\ client' = [client EXCEPT ![r] = "error"]
    /\ UNCHANGED <<alive, point, writer, servers, sent>>

-----------------------------------------------------------------------------
(* MarkerWriter.emit                                                       *)

\* with self.lock: the sequence number and the timestamp.
Take(r) ==
    /\ point[r] \in EmitSteps /\ lock = {}
    /\ lock' = {r} /\ sequence' = sequence + 1
    /\ number' = [number EXCEPT ![r] = sequence']
    /\ UNCHANGED <<alive, point, file, last, faults, servers, sent, client>>

\* The step after a marker. The answer of the prefill is looked at after
\* prefill_end, its kv_transfer_params after kv_export_start.
After(r) ==
    CASE point[r] = "received"     -> "prefillStart"
      [] point[r] = "prefillStart" -> "askPrefill"
      [] point[r] = "prefillEnd"   -> IF prefill[r] = "bad" THEN "raise"
                                   ELSE "exportStart"
      [] point[r] = "exportStart"  -> IF prefill[r] = "nokv" THEN "raise" ELSE "exportEnd"
      [] point[r] = "exportEnd"    -> "handoff"
      [] point[r] = "handoff"      -> "askDecode"
      [] OTHER                  -> "end"

Release(r) == lock' = lock \ {r} /\ number' = [number EXCEPT ![r] = 0]

\* The line, the release of the lock, and on with the handler.
Write(r) ==
    /\ point[r] \in EmitSteps /\ r \in lock /\ Release(r)
    /\ file' = [file EXCEPT ![r] = Append(@, Emits[point[r]])]
    /\ last' = number[r]
    /\ Advance(r, After(r))
    /\ sent' = IF point[r] = "done" /\ sent[r] = "headers"
               THEN [sent EXCEPT ![r] = "eof"] ELSE sent
    /\ UNCHANGED <<alive, sequence, faults, servers, client>>

\* An OSError of mkdir, open or write: the number is spent. No part of the line
\* is taken to be left in the file.
WriteFails(r) ==
    /\ point[r] \in EmitSteps /\ r \in lock /\ faults < MaxFaults
    /\ Release(r) /\ faults' = faults + 1 /\ Raise(r)
    /\ UNCHANGED <<alive, sequence, file, last, servers, sent, client>>

-----------------------------------------------------------------------------
(* The two phases                                                          *)

\* _post_json to the prefill server, whose connection may be refused.
AskPrefill(r) ==
    /\ point[r] = "askPrefill"
    /\ \/ prefill' = [prefill EXCEPT ![r] = "working"] /\ Advance(r, "prefill")
       \/ UNCHANGED prefill /\ Raise(r)
    /\ UNCHANGED <<alive, writer, decode, sent, client>>

\* A bad answer has another status than 200 or is no JSON object.
PrefillAnswers(r) ==
    /\ point[r] = "prefill" /\ Advance(r, "prefillEnd")
    /\ \E a \in {"kv", "nokv", "bad"} : prefill' = [prefill EXCEPT ![r] = a]
    /\ UNCHANGED <<alive, writer, decode, sent, client>>

\* The timeout, or a lost connection: the server may work on.
PrefillFails(r) ==
    /\ point[r] = "prefill" /\ Raise(r)
    /\ UNCHANGED <<alive, writer, servers, sent, client>>

AskDecode(r) ==
    /\ point[r] = "askDecode"
    /\ \/ decode' = [decode EXCEPT ![r] = "working"] /\ Advance(r, "decode")
       \/ UNCHANGED decode /\ Raise(r)
    /\ UNCHANGED <<alive, writer, prefill, sent, client>>

\* Status 200 goes to the client at once, who may be gone.
RelayStatus(r) ==
    /\ point[r] = "decode"
    /\ \/ sent' = [sent EXCEPT ![r] = "headers"] /\ Advance(r, "relay")
       \/ client[r] # "asking" /\ UNCHANGED sent /\ Raise(r)
    /\ UNCHANGED <<alive, writer, servers, client>>

\* Another status, the timeout, or a lost connection.
DecodeFails(r) ==
    /\ point[r] = "decode" /\ Raise(r)
    /\ UNCHANGED <<alive, writer, servers, sent, client>>

\* The last chunk, which holds [DONE], goes to the client.
RelayDone(r) ==
    /\ point[r] = "relay" /\ decode[r] = "working"
    /\ decode' = [decode EXCEPT ![r] = "streamed"]
    /\ sent' = [sent EXCEPT ![r] = "all"]
    /\ UNCHANGED <<alive, point, writer, prefill, client>>

\* An empty chunk ends the relay: after the last one, or where a stream
\* without chunked encoding breaks off.
RelayEnds(r) ==
    /\ point[r] = "relay" /\ Advance(r, "done")
    /\ decode' = [decode EXCEPT ![r] = IF @ = "working" THEN "cut" ELSE @]
    /\ UNCHANGED <<alive, writer, prefill, sent, client>>

\* The timeout, an incomplete chunk, or a client that is gone.
RelayFails(r) ==
    /\ point[r] = "relay" /\ Raise(r)
    /\ UNCHANGED <<alive, writer, servers, sent, client>>

\* The except block of do_POST: a 502, which is lost in the stream if the
\* response has begun.
Answer502(r) ==
    /\ point[r] = "raise" /\ Advance(r, "end")
    /\ sent' = [sent EXCEPT ![r] = CASE @ = "nothing" -> "error"
                                     [] @ = "headers" -> "eof"
                                     [] OTHER         -> @]
    /\ UNCHANGED <<alive, writer, servers, client>>

\* The process of the proxy ends between two steps of its threads.
ProxyDies ==
    /\ alive /\ alive' = FALSE
    /\ lock' = {} /\ number' = [r \in Requests |-> 0]
    /\ point' = [r \in Requests |-> IF point[r] = "none" THEN "none" ELSE "end"]
    /\ sent' = [r \in Requests |-> IF sent[r] \in {"nothing", "headers"}
                                   THEN "eof" ELSE sent[r]]
    /\ UNCHANGED <<sequence, file, last, faults, servers, client>>

-----------------------------------------------------------------------------

Client(r) == ReadsDone(r) \/ GivesUp(r)

Handler(r) ==
    \/ Take(r) \/ Write(r) \/ WriteFails(r)
    \/ AskPrefill(r) \/ PrefillAnswers(r) \/ PrefillFails(r)
    \/ AskDecode(r) \/ RelayStatus(r) \/ DecodeFails(r)
    \/ RelayDone(r) \/ RelayEnds(r) \/ RelayFails(r) \/ Answer502(r)

ProxyNext == ProxyDies \/ \E r \in Requests : Ask(r) \/ Client(r) \/ Handler(r)

ProxySpec == ProxyInit /\ [][ProxyNext]_proxyVars

-----------------------------------------------------------------------------
(* Properties                                                              *)

Marked(r, m) == \E i \in DOMAIN file[r] : file[r][i] = m

\* The lines of all handlers are in the order of their numbers, and so of the
\* times read with them, although a failed write may leave a number out.
LinesAreOrdered == [][last' # last => last < last']_proxyVars

\* However its request ends, a handler has written the first markers of the
\* sequence, once each and in this order: a reader sees no phase without those
\* before it.
MarkersArePrefix ==
    \A r \in Requests : \A i \in DOMAIN file[r] : file[r][i] = i

\* A server works on a request only between the markers that are to enclose
\* its work, even when its handler has given up.
WorkIsBracketed ==
    \A r \in Requests :
        /\ prefill[r] = "working" => Marked(r, 2) /\ ~Marked(r, 3)
        /\ decode[r] = "working" => Marked(r, 6) /\ ~Marked(r, 7)

\* A client has its answer only if both servers did their part for it, and
\* then all but the last marker are already in the file.
AnswersAreServed ==
    \A r \in Requests : client[r] = "ok" =>
        prefill[r] = "kv" /\ decode[r] = "streamed" /\ \A m \in 1 .. 6 : Marked(r, m)
=============================================================================
