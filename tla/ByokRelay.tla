------------------------------ MODULE ByokRelay ------------------------------
(***************************************************************************)
(* The relay: a request gets its user's key from the store, is proxied to  *)
(* the provider, and the usage that the answer reports is captured while   *)
(* the answer passes through (usageRW), and recorded in llm_usage.         *)
(*                                                                         *)
(* An answer is a sequence of lines.  Its bytes arrive in calls of Write   *)
(* that the network cuts as it likes: Write is modelled piece by piece, a  *)
(* piece being what a call has of one line.  marks are the places in a     *)
(* line where the bytes "data:" begin; usage is what the line, taken as a  *)
(* whole, reports.  A JSON body is one line without a line feed.           *)
(***************************************************************************)
EXTENDS ByokStore

CONSTANTS
    Calls,          \* POST requests: call -> [server, owner, id, model, longest, stream]
    Responses,      \* answers that providers may give
    Workloads,      \* bound: the calls, and how many of Put, of a behaviour
    MaxCapture,     \* maxUsageCaptureBytes
    MaxIdentifier   \* maxIdentifierLength

ASSUME RelayAssumption ==
    /\ MaxCapture \in Nat
    /\ \A c \in DOMAIN Calls : /\ Calls[c].owner \in Owners /\ Calls[c].server \in Instances
                               /\ Calls[c].stream \in BOOLEAN
    /\ \A resp \in Responses :
           /\ resp \in Seq({resp[k] : k \in DOMAIN resp})
           /\ \A k \in DOMAIN resp : resp[k].size \in Nat \ {0} /\ resp[k].feed \in BOOLEAN
           /\ \A k \in DOMAIN resp : k < Len(resp) => resp[k].feed

VARIABLES
    conns,          \* the local variables of ServeHTTP and its usageRW
    usage           \* llm_usage: request_id -> whose it is and what it reports

relayVars == <<conns, usage>>
allVars == <<storeVars, relayVars>>

Fresh(c) == [pc |-> "idle", cred |-> NULL, resp |-> << >>, stream |-> Calls[c].stream,
             line |-> 1, off |-> 0, body |-> 0, buf |-> 0, usage |-> NULL, late |-> FALSE]

Ended(c, pc) == [Fresh(c) EXCEPT !.pc = pc]

RelayInit ==
    /\ StoreInit
    /\ usage = [q \in {} |-> 0]
    /\ \E load \in Workloads :
           /\ budget = load.puts
           /\ conns = [c \in DOMAIN Calls |->
                          IF c \in load.calls THEN Fresh(c) ELSE Ended(c, "absent")]

At(c, pc) == conns[c].pc = pc

(***************************************************************************)
(* The call's Get: it reads the current key, and, if it cannot open it,    *)
(* reads the row again for the previous one.  Without a key it ends.       *)
(***************************************************************************)
Opened(c, sealed) == open(Calls[c].server, Calls[c].owner, sealed)

GetCurrent(c) ==
    LET o == Calls[c].owner
        cred == Opened(c, Stored(o).key)
    IN  /\ At(c, "idle")
        /\ conns' = [conns EXCEPT
               ![c].pc = IF ~keyed(Calls[c].server) \/ o \notin DOMAIN credentials
                         THEN "refused"
                         ELSE IF cred = NULL THEN "previous" ELSE "proxy",
               ![c].cred = cred]
        /\ UNCHANGED <<storeVars, usage>>

GetPrevious(c) ==
    LET cred == Opened(c, Stored(Calls[c].owner).previous)
    IN  /\ At(c, "previous")
        /\ conns' = [conns EXCEPT ![c].pc = IF cred = NULL THEN "refused" ELSE "proxy",
                                  ![c].cred = cred]
        /\ UNCHANGED <<storeVars, usage>>

(***************************************************************************)
(* The provider answers, or there is no answer, and the client gets a 502. *)
(***************************************************************************)
Answer(c, resp) ==
    /\ At(c, "proxy")
    /\ conns' = [conns EXCEPT ![c].pc = "copy", ![c].resp = resp]
    /\ UNCHANGED <<storeVars, usage>>

NoAnswer(c) ==
    /\ At(c, "proxy")
    /\ conns' = [conns EXCEPT ![c].pc = "finish"]
    /\ UNCHANGED <<storeVars, usage>>

-----------------------------------------------------------------------------
(***************************************************************************)
(* Whether n more bytes fit into a buffer of len: appendLine and the body. *)
(* Mutants: a full buffer is too much; there is no bound.                  *)
(***************************************************************************)
fitsBelow(len, n) == len + n < MaxCapture

fitsAlways(len, n) == TRUE

fits(len, n) == len + n <= MaxCapture

grow(len, n) == IF fits(len, n) THEN len + n ELSE len

(***************************************************************************)
(* parseLine, at the line feed: a line that begins with "data:" and was    *)
(* kept whole reports its usage, if it has any.  Mutant: the first usage   *)
(* counts.                                                                 *)
(***************************************************************************)
parseFirst(old, line, len) ==
    IF old = NULL /\ 0 \in line.marks /\ len = line.size THEN line.usage ELSE old

parseLine(old, line, len) ==
    IF 0 \in line.marks /\ len = line.size /\ line.usage # NULL THEN line.usage ELSE old

(***************************************************************************)
(* capture, for the next n bytes of the current line; head says that they  *)
(* begin a call of Write, which is where the relay looks for an event      *)
(* stream that the request did not ask for.                                *)
(***************************************************************************)
captured(x, n, head) ==
    LET line == x.resp[x.line]
        stream == x.stream \/ (head /\ x.off \in line.marks)
        body == IF stream THEN (IF x.stream THEN x.body ELSE 0) ELSE grow(x.body, n)
        buf == IF stream THEN grow(x.buf, n) ELSE x.buf
        ends == x.off + n = line.size
        fed == stream /\ ends /\ line.feed
    IN  [x EXCEPT !.stream = stream, !.body = body,
                  !.buf = IF fed THEN 0 ELSE buf,
                  !.usage = IF fed THEN parseLine(@, line, buf) ELSE @,
                  !.line = IF ends THEN @ + 1 ELSE @,
                  !.off = IF ends THEN 0 ELSE @ + n]

Capture(c, head) ==
    /\ At(c, "copy") /\ conns[c].line <= Len(conns[c].resp)
    /\ head \/ conns[c].line + conns[c].off > 1
    /\ \E n \in 1 .. conns[c].resp[conns[c].line].size - conns[c].off :
           conns' = [conns EXCEPT ![c] = captured(conns[c], n, head)]
    /\ UNCHANGED <<storeVars, usage>>

Copied(c) ==
    /\ At(c, "copy") /\ conns[c].line > Len(conns[c].resp)
    /\ conns' = [conns EXCEPT ![c].pc = "finish"]
    /\ UNCHANGED <<storeVars, usage>>

(***************************************************************************)
(* The client or the provider hangs up: ReverseProxy panics, and finish is *)
(* not called.  The ten seconds of meterCtx, which run from before the     *)
(* call is proxied, are over.                                              *)
(***************************************************************************)
HangUp(c) ==
    /\ At(c, "copy")
    /\ conns' = [conns EXCEPT ![c] = Ended(c, "aborted")]
    /\ UNCHANGED <<storeVars, usage>>

MeterTimesOut(c) ==
    /\ conns[c].pc \in {"proxy", "copy", "finish"} /\ ~conns[c].late
    /\ conns' = [conns EXCEPT ![c].late = TRUE]
    /\ UNCHANGED <<storeVars, usage>>

(***************************************************************************)
(* recordUsage: the usage seen in the stream, or that of the whole body.   *)
(* A stream is no JSON, nor is a body with a hole.                         *)
(***************************************************************************)
Json(resp) == Len(resp) = 1 /\ ~resp[1].feed /\ 0 \notin resp[1].marks

Seen(x) == IF x.stream THEN x.usage
           ELSE IF Json(x.resp) /\ x.body = x.resp[1].size THEN x.resp[1].usage ELSE NULL

requestID(c) == IF Calls[c].id # NULL THEN <<"byok", Calls[c].id>> ELSE <<"new", c>>

(***************************************************************************)
(* A usage u of the call is refused without a model, when an identifier,   *)
(* the longest of them, is too long (the request id, which the client      *)
(* chooses, has its prefix "byok:"), and with negative counts.             *)
(***************************************************************************)
validateUsage(c, u) ==
    Calls[c].model # NULL /\ Calls[c].longest <= MaxIdentifier /\ u >= 0

(***************************************************************************)
(* finish.  RecordUsageRetry adds one row per request id; nothing is       *)
(* recorded without usage, when it is not valid, after the ten seconds, or *)
(* when the database stays busy.                                           *)
(***************************************************************************)
Finish(c) ==
    LET q == requestID(c)
        recorded == /\ Seen(conns[c]) # NULL /\ validateUsage(c, Seen(conns[c]))
                    /\ ~conns[c].late
    IN
    /\ At(c, "finish")
    /\ \/ /\ recorded
          /\ usage' = IF q \in DOMAIN usage THEN usage
                      ELSE [p \in DOMAIN usage \cup {q} |->
                               IF p = q THEN [owner |-> Calls[c].owner, call |-> c,
                                              tokens |-> Seen(conns[c])]
                                        ELSE usage[p]]
          /\ UNCHANGED faults
       \/ ~recorded /\ UNCHANGED <<usage, faults>>
       \/ Fault /\ UNCHANGED usage
    /\ conns' = [conns EXCEPT ![c] = [Ended(c, "done") EXCEPT
                                          !.resp = conns[c].resp, !.late = conns[c].late]]
    /\ UNCHANGED <<credentials, writers, budget, history, disturbed, revoked>>

RelayStep(c) ==
    \/ GetCurrent(c) \/ GetPrevious(c)
    \/ \E resp \in Responses : Answer(c, resp)
    \/ NoAnswer(c)
    \/ \E head \in BOOLEAN : Capture(c, head)
    \/ Copied(c) \/ HangUp(c) \/ MeterTimesOut(c) \/ Finish(c)

ByokNext ==
    \/ StoreStep /\ UNCHANGED relayVars
    \/ \E c \in DOMAIN Calls : RelayStep(c)

ByokSpec == RelayInit /\ [][ByokNext]_allVars

-----------------------------------------------------------------------------
(***************************************************************************)
(* What an answer reports, by definition: the last usage of a line that is *)
(* complete and not too long, if the call asked for a stream, or that of a *)
(* body that is not too long.                                              *)
(***************************************************************************)
ReportsUsage(line) ==
    0 \in line.marks /\ line.feed /\ line.usage # NULL /\ line.size <= MaxCapture

ReportOf(c, resp) ==
    LET ks == {k \in DOMAIN resp : ReportsUsage(resp[k])}
    IN  IF Calls[c].stream
        THEN IF ks = {} THEN NULL
             ELSE resp[CHOOSE k \in ks : \A j \in ks : j <= k].usage
        ELSE IF Json(resp) /\ resp[1].marks = {} /\ resp[1].size <= MaxCapture
        THEN resp[1].usage ELSE NULL

Reports(c) == ReportOf(c, conns[c].resp)

RelayTypeOK ==
    /\ DOMAIN credentials \subseteq Owners
    /\ \A o \in DOMAIN credentials :
           credentials[o].key.owner = o /\ credentials[o].version \in 1 .. MaxPuts
    /\ \A c \in DOMAIN Calls :
           /\ conns[c].cred \in Creds \cup {NULL}
           /\ conns[c].body \in 0 .. MaxCapture /\ conns[c].buf \in 0 .. MaxCapture
    /\ faults \in 0 .. MaxFaults

(***************************************************************************)
(* The row of a request id is about one call: its user, and the usage of   *)
(* its own answer; it is exactly what the answer reports, however the      *)
(* network cut it, wherever that is defined by the call and the answer.    *)
(***************************************************************************)
RecordedIsTheirs ==
    \A q \in DOMAIN usage :
        LET c == usage[q].call IN
        /\ At(c, "done") /\ requestID(c) = q /\ usage[q].owner = Calls[c].owner
        /\ \E k \in DOMAIN conns[c].resp : conns[c].resp[k].usage = usage[q].tokens
        /\ Reports(c) \in {NULL, usage[q].tokens}

(***************************************************************************)
(* A call whose answer was relayed to its end within the ten seconds is in *)
(* llm_usage whenever the answer reports usage, also at the limit of the   *)
(* buffers and in whatever pieces it came, unless RecordUsage refuses the  *)
(* usage or the database was busy.  The row is its own, or, of calls that  *)
(* share a request id, that of the first to finish.                        *)
(***************************************************************************)
MeteredInTime ==
    \A c \in DOMAIN Calls :
        (At(c, "done") /\ Reports(c) # NULL /\ ~conns[c].late
            /\ validateUsage(c, Reports(c)) /\ faults = 0) => requestID(c) \in DOMAIN usage

(***************************************************************************)
(* The relay is said to meter every upstream call.                         *)
(***************************************************************************)
EveryCallIsMetered ==
    \A c \in DOMAIN Calls :
        (At(c, "done") /\ Reports(c) # NULL /\ validateUsage(c, Reports(c)) /\ faults = 0)
            => requestID(c) \in DOMAIN usage

-----------------------------------------------------------------------------
(***************************************************************************)
(* Why this holds.  Where a copy is in the answer, and what the buffers    *)
(* then have of it: of a line, all if it is not too long, however it was   *)
(* cut; of the lines before, the last usage.                               *)
(***************************************************************************)
ConnRows ==
    [pc : {"absent", "idle", "refused", "previous", "proxy", "copy", "finish", "aborted", "done"},
     cred : Creds \cup {NULL}, resp : Responses \cup {<< >>}, stream : BOOLEAN,
     line : Nat, off : Nat, body : 0 .. MaxCapture, buf : 0 .. MaxCapture,
     usage : {NULL} \cup UNION {{resp[k].usage : k \in DOMAIN resp} : resp \in Responses},
     late : BOOLEAN]

IsAt(x) ==
    /\ x.line \in 1 .. Len(x.resp) + 1
    /\ IF x.line <= Len(x.resp) THEN x.off < x.resp[x.line].size ELSE x.off = 0
    /\ x.pc = "finish" => x.line = Len(x.resp) + 1

Begins(c, x) ==
    x.pc \in {"idle", "previous", "proxy"} =>
        /\ x.resp = << >> /\ x.stream = Calls[c].stream
        /\ x.body = 0 /\ x.buf = 0 /\ x.usage = NULL

LineIsKept(c, x) ==
    /\ ~x.stream => x.buf = 0
    /\ x.line <= Len(x.resp) => x.buf <= x.off
    /\ Calls[c].stream /\ x.line <= Len(x.resp) /\ x.off <= MaxCapture => x.buf = x.off

UsageIsLast(c, x) ==
    /\ x.usage # NULL => \E k \in 1 .. x.line - 1 : x.resp[k].usage = x.usage
    /\ Calls[c].stream =>
           /\ x.stream
           /\ LET ks == {k \in 1 .. x.line - 1 : ReportsUsage(x.resp[k])}
              IN  \/ ks = {} /\ x.usage = NULL
                  \/ \E k \in ks : (\A j \in ks : j <= k) /\ x.usage = x.resp[k].usage

BodyIsKept(c, x) ==
    ~Calls[c].stream /\ Json(x.resp) /\ x.resp[1].marks = {} =>
        /\ ~x.stream
        /\ LET total == IF x.line = 1 THEN x.off ELSE x.resp[1].size
           IN  total <= MaxCapture => x.body = total

CopiesKnow ==
    \A c \in DOMAIN Calls :
        /\ IsAt(conns[c]) /\ Begins(c, conns[c]) /\ LineIsKept(c, conns[c])
        /\ UsageIsLast(c, conns[c]) /\ BodyIsKept(c, conns[c])

RelayInv ==
    /\ conns \in [DOMAIN Calls -> ConnRows]
    /\ \A q \in DOMAIN usage : usage[q].call \in DOMAIN Calls
    /\ faults \in 0 .. MaxFaults
    /\ VersionsCount
    /\ CopiesKnow
    /\ RecordedIsTheirs
    /\ MeteredInTime
=============================================================================
