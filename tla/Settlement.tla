----------------------------- MODULE Settlement ------------------------------
(***************************************************************************)
(* Metered calls settled through the outbox: the settlement_outbox and     *)
(* llm_usage tables, the application's workers that reserve, call the      *)
(* provider and settle, the sweeper (ProcessSettlementOutbox on a timer),  *)
(* and Reconcile, over the ledger of module Credits.                       *)
(*                                                                         *)
(* SettleViaOutbox and ProcessSettlementOutbox are not transactions: every *)
(* statement they execute is an action, and a crash or a database error    *)
(* can fall between any two.                                               *)
(***************************************************************************)
EXTENDS Credits

CONSTANTS
    Workers,        \* executions of a metered call; two may share a request
    Sweepers,       \* timers that call ProcessSettlementOutbox
    OutboxStale,    \* staleSettlementSeconds, in ticks of the clock
    Limit,          \* the limit passed to ProcessSettlementOutbox
    MaxFaults       \* bound: crashes and database errors

ASSUME OutboxAssumption ==
    OutboxStale \in Nat /\ Limit \in Nat \ {0} /\ MaxFaults \in Nat

VARIABLES
    outbox,         \* settlement_outbox: request_id -> row
    usage,          \* llm_usage: request_id -> credits_charged
    served,         \* requests that the provider has answered
    work,           \* what every worker is doing
    sweep,          \* what every sweeper is doing
    faults,         \* crashes and errors so far
    lost            \* history: the writes of a request that were not made

settlementVars == <<outbox, usage, served, work, sweep, faults, lost>>
allVars == <<vars, settlementVars>>

-----------------------------------------------------------------------------
(***************************************************************************)
(* An outbox row; its reservation is the one of its request.  pos is the   *)
(* order of created_at, age the time since, up to where the sweeper no     *)
(* longer tells the difference.                                            *)
(***************************************************************************)
OutboxRow == [status : {"pending", "settled", "failed", "expired"},
              pos : Nat, age : 0 .. OutboxStale + 1]

IdleWorker == [pc |-> "idle", req |-> NULL, cost |-> 0]
IdleSweeper == [pc |-> "idle", ids |-> {}, id |-> NULL]

SettlementInit ==
    /\ Init
    /\ outbox = [q \in {} |-> 0]
    /\ usage = [q \in {} |-> 0]
    /\ served = {}
    /\ work = [w \in Workers |-> IdleWorker]
    /\ sweep = [s \in Sweepers |-> IdleSweeper]
    /\ faults = 0
    /\ lost = {}

AtWork(w, pc) == work[w].pc = pc
Goto(w, pc) == work' = [work EXCEPT ![w].pc = pc]

SetStatus(q, status) == outbox' = [outbox EXCEPT ![q].status = status]

-----------------------------------------------------------------------------
(***************************************************************************)
(* The worker's Reserve.  For a request that has a reservation of the same *)
(* user already, Reserve returns that one, whatever its status; only a     *)
(* fresh request debits the account.                                       *)
(***************************************************************************)
StartCall(w, u, q, n) ==
    /\ AtWork(w, "idle")
    /\ \/ Reserve(u, q, n)
       \/ /\ q \in DOMAIN reservations
          /\ reservations[q].user = u
          /\ UNCHANGED vars
    /\ work' = [work EXCEPT ![w] = [pc |-> "reserved", req |-> q, cost |-> 0]]
    /\ UNCHANGED <<outbox, usage, served, sweep, faults, lost>>

EnqueueSettlement(w) ==
    /\ AtWork(w, "reserved")
    /\ LET q == work[w].req IN
       IF q \in DOMAIN outbox
       THEN UNCHANGED outbox
       ELSE outbox' = [p \in DOMAIN outbox \cup {q} |->
                IF p = q THEN [status |-> "pending", age |-> 0,
                               pos |-> Cardinality(DOMAIN outbox)]
                         ELSE outbox[p]]
    /\ Goto(w, "calling")
    /\ UNCHANGED <<vars, usage, served, sweep, faults, lost>>

(***************************************************************************)
(* The provider answers, at a cost of c credits, or fails; the application *)
(* releases the reservation then (and may find it closed).                 *)
(***************************************************************************)
ProviderAnswers(w, c) ==
    /\ AtWork(w, "calling")
    /\ served' = served \cup {work[w].req}
    /\ work' = [work EXCEPT ![w].pc = "settle", ![w].cost = c]
    /\ UNCHANGED <<vars, outbox, usage, sweep, faults, lost>>

TryRelease(q) ==
    \/ Release(q)
    \/ q \in DOMAIN reservations /\ reservations[q].status # "reserved" /\ UNCHANGED vars

ProviderFails(w) ==
    /\ AtWork(w, "calling")
    /\ TryRelease(work[w].req)
    /\ work' = [work EXCEPT ![w] = IdleWorker]
    /\ UNCHANGED <<outbox, usage, served, sweep, faults, lost>>

(***************************************************************************)
(* SettleViaOutbox, statement by statement.  It reads the row and the      *)
(* reservation (whose ids never change) and prices the usage.  Usage of a  *)
(* model without a price cannot be charged, and releases the reserve;      *)
(* priced usage is settled, which fails when the reservation is closed.    *)
(***************************************************************************)
ReleaseUnpriced(w) ==
    /\ AtWork(w, "settle")
    /\ work[w].req \in DOMAIN outbox
    /\ TryRelease(work[w].req)
    /\ Goto(w, "fail")
    /\ UNCHANGED <<outbox, usage, served, sweep, faults, lost>>

(***************************************************************************)
(* Mutants: a closed reservation counts as settled before, as an           *)
(* idempotent operation would have it; the audit row is left out.          *)
(***************************************************************************)
SettleCallIdempotent(w) ==
    /\ AtWork(w, "settle")
    /\ work[w].req \in DOMAIN outbox
    /\ LET q == work[w].req IN
       \/ Settle(q, work[w].cost)
       \/ reservations[q].status # "reserved" /\ UNCHANGED vars
    /\ Goto(w, "audit")
    /\ UNCHANGED <<outbox, usage, served, sweep, faults, lost>>

SettleCallUnaudited(w) ==
    /\ AtWork(w, "settle")
    /\ work[w].req \in DOMAIN outbox
    /\ LET q == work[w].req IN
       \/ Settle(q, work[w].cost) /\ Goto(w, "mark")
       \/ reservations[q].status # "reserved" /\ Goto(w, "fail") /\ UNCHANGED vars
    /\ UNCHANGED <<outbox, usage, served, sweep, faults, lost>>

SettleCall(w) ==
    /\ AtWork(w, "settle")
    /\ work[w].req \in DOMAIN outbox
    /\ LET q == work[w].req IN
       \/ Settle(q, work[w].cost) /\ Goto(w, "audit")
       \/ reservations[q].status # "reserved" /\ Goto(w, "fail") /\ UNCHANGED vars
    /\ UNCHANGED <<outbox, usage, served, sweep, faults, lost>>

(***************************************************************************)
(* The updates of the outbox row, to failed and to settled.  Neither looks *)
(* at the status it overwrites (attempt_count, which nothing reads, is     *)
(* left out).                                                              *)
(***************************************************************************)
MarkFailed(w) ==
    /\ AtWork(w, "fail")
    /\ SetStatus(work[w].req, "failed")
    /\ work' = [work EXCEPT ![w] = IdleWorker]
    /\ UNCHANGED <<vars, usage, served, sweep, faults, lost>>

(***************************************************************************)
(* RecordUsageRetry, whose error is ignored: the row may be missing        *)
(* afterwards because validateUsage refuses the usage (an identifier too   *)
(* long, a billing mode that does not fit), which Settle does not look at, *)
(* or because the database stayed busy.  The table takes one row per       *)
(* request.                                                                *)
(***************************************************************************)
RecordUsage(w) ==
    /\ AtWork(w, "audit")
    /\ LET q == work[w].req IN
       \/ /\ q \in DOMAIN usage
          /\ UNCHANGED <<usage, lost>>
       \/ /\ q \notin DOMAIN usage
          /\ usage' = [p \in DOMAIN usage \cup {q} |->
                          IF p = q THEN work[w].cost ELSE usage[p]]
          /\ UNCHANGED lost
       \/ /\ lost' = lost \cup {<<"audit", q>>}
          /\ UNCHANGED usage
    /\ Goto(w, "mark")
    /\ UNCHANGED <<vars, outbox, served, sweep, faults>>

MarkSettled(w) ==
    /\ AtWork(w, "mark")
    /\ SetStatus(work[w].req, "settled")
    /\ work' = [work EXCEPT ![w] = IdleWorker]
    /\ UNCHANGED <<vars, usage, served, sweep, faults, lost>>

-----------------------------------------------------------------------------
(***************************************************************************)
(* ProcessSettlementOutbox: the Limit oldest pending rows are listed once; *)
(* then, for each, a row older than the threshold whose reservation is     *)
(* still reserved has it released and is marked.                           *)
(***************************************************************************)
Pending == {q \in DOMAIN outbox : outbox[q].status = "pending"}

OldestPending ==
    {q \in Pending : Cardinality({p \in Pending : outbox[p].pos < outbox[q].pos}) < Limit}

SweepList(s) ==
    /\ sweep[s].pc = "idle"
    /\ sweep' = [sweep EXCEPT ![s].pc = "next", ![s].ids = OldestPending]
    /\ UNCHANGED <<vars, outbox, usage, served, work, faults, lost>>

(***************************************************************************)
(* Whether the sweeper takes the hold of a listed row.  Mutants: the age   *)
(* of the row is not checked; the test of the status is inverted.          *)
(***************************************************************************)
SweepableAnyAge(q) == reservations[q].status = "reserved"

SweepableClosed(q) == outbox[q].age > OutboxStale /\ reservations[q].status # "reserved"

Sweepable(q) == outbox[q].age > OutboxStale /\ reservations[q].status = "reserved"

SweepNext(s) ==
    /\ sweep[s].pc = "next"
    /\ \E q \in sweep[s].ids :
          /\ \A p \in sweep[s].ids : outbox[q].pos <= outbox[p].pos
          /\ sweep' = [sweep EXCEPT ![s] =
                 IF Sweepable(q)
                 THEN [pc |-> "release", ids |-> sweep[s].ids \ {q}, id |-> q]
                 ELSE [sweep[s] EXCEPT !.ids = @ \ {q}]]
    /\ UNCHANGED <<vars, outbox, usage, served, work, faults, lost>>

(***************************************************************************)
(* Mutant: the row is marked and its hold is forgotten.                    *)
(***************************************************************************)
SweepReleaseSkipped(s) ==
    /\ sweep[s].pc = "release"
    /\ sweep' = [sweep EXCEPT ![s].pc = "mark"]
    /\ UNCHANGED <<vars, outbox, usage, served, work, faults, lost>>

SweepRelease(s) ==
    /\ sweep[s].pc = "release"
    /\ TryRelease(sweep[s].id)
    /\ sweep' = [sweep EXCEPT ![s].pc = "mark"]
    /\ UNCHANGED <<outbox, usage, served, work, faults, lost>>

(***************************************************************************)
(* Mutant: the row gets the reservation's status.                          *)
(***************************************************************************)
SweepMarkReleased(s) ==
    /\ sweep[s].pc = "mark"
    /\ SetStatus(sweep[s].id, "released")
    /\ sweep' = [sweep EXCEPT ![s].pc = "next", ![s].id = NULL]
    /\ UNCHANGED <<vars, usage, served, work, faults, lost>>

SweepMark(s) ==
    /\ sweep[s].pc = "mark"
    /\ SetStatus(sweep[s].id, "expired")
    /\ sweep' = [sweep EXCEPT ![s].pc = "next", ![s].id = NULL]
    /\ UNCHANGED <<vars, usage, served, work, faults, lost>>

SweepDone(s) ==
    /\ sweep[s].pc = "next"
    /\ sweep[s].ids = {}
    /\ sweep' = [sweep EXCEPT ![s] = IdleSweeper]
    /\ UNCHANGED <<vars, outbox, usage, served, work, faults, lost>>

-----------------------------------------------------------------------------
(***************************************************************************)
(* Faults.  A transaction or statement that cannot get the write lock      *)
(* fails with the tables unchanged.  The error of Settle is recorded, that *)
(* of the release and of the updates to failed and expired ignored, that   *)
(* of the update to settled returned.  A crash forgets what a worker or    *)
(* sweeper was doing.  lost remembers what is missing in the tables then:  *)
(* a reservation that was not closed, an audit row, a row not marked.      *)
(***************************************************************************)
Fault == faults < MaxFaults /\ faults' = faults + 1

Unwritten(w) ==
    CASE AtWork(w, "audit") -> {"audit", "mark"} \X {work[w].req}
      [] AtWork(w, "mark")  -> {"mark"} \X {work[w].req}
      [] OTHER              -> {}

BusyWorker(w) ==
    /\ \/ /\ AtWork(w, "settle")
          /\ Goto(w, "fail")
          /\ lost' = lost \cup {<<"close", work[w].req>>}
       \/ /\ AtWork(w, "fail") \/ AtWork(w, "mark")
          /\ work' = [work EXCEPT ![w] = IdleWorker]
          /\ lost' = lost \cup Unwritten(w)
    /\ UNCHANGED sweep

BusySweeper(s) ==
    /\ \/ /\ sweep[s].pc = "release"
          /\ sweep' = [sweep EXCEPT ![s].pc = "mark"]
          /\ lost' = lost \cup {<<"close", sweep[s].id>>}
       \/ /\ sweep[s].pc = "mark"
          /\ sweep' = [sweep EXCEPT ![s].pc = "next", ![s].id = NULL]
          /\ UNCHANGED lost
    /\ UNCHANGED work

Busy ==
    /\ Fault
    /\ (\E w \in Workers : BusyWorker(w)) \/ (\E s \in Sweepers : BusySweeper(s))
    /\ UNCHANGED <<vars, outbox, usage, served>>

Crash ==
    /\ Fault
    /\ \/ \E w \in Workers : /\ ~ AtWork(w, "idle")
                             /\ work' = [work EXCEPT ![w] = IdleWorker]
                             /\ lost' = lost \cup Unwritten(w)
                             /\ UNCHANGED sweep
       \/ \E s \in Sweepers : /\ sweep[s].pc # "idle"
                              /\ sweep' = [sweep EXCEPT ![s] = IdleSweeper]
                              /\ UNCHANGED <<work, lost>>
    /\ UNCHANGED <<vars, outbox, usage, served>>

(***************************************************************************)
(* The clock, for both tables.                                             *)
(***************************************************************************)
AgeRow(row) ==
    IF row.age <= OutboxStale THEN [row EXCEPT !.age = @ + 1] ELSE row

Older(res) ==
    IF res.status = "reserved" /\ res.age <= Timeout
    THEN [res EXCEPT !.age = @ + 1] ELSE res

ClockTick ==
    /\ reservations' = [q \in DOMAIN reservations |-> Older(reservations[q])]
    /\ outbox' = [q \in DOMAIN outbox |-> AgeRow(outbox[q])]
    /\ reservations' # reservations \/ outbox' # outbox
    /\ UNCHANGED <<accounts, ledger, recon, aborts, usage, served, work, sweep, faults, lost>>

-----------------------------------------------------------------------------
TopUp(u, n, k) == Grant(u, n, k) /\ UNCHANGED settlementVars

Maintain(r) == Reconcile(r) /\ UNCHANGED settlementVars

WorkStep(w) ==
    \/ EnqueueSettlement(w)
    \/ ReleaseUnpriced(w)
    \/ SettleCall(w)
    \/ RecordUsage(w)
    \/ MarkFailed(w)
    \/ MarkSettled(w)

SweepStep(s) ==
    \/ SweepList(s)
    \/ SweepNext(s)
    \/ SweepRelease(s)
    \/ SweepMark(s)
    \/ SweepDone(s)

SettlementNext ==
    \/ \E u \in Users, n \in Amounts, k \in IdemKeys : TopUp(u, n, k)
    \/ \E w \in Workers, u \in Users, q \in RequestIds, n \in Amounts : StartCall(w, u, q, n)
    \/ \E w \in Workers, c \in Costs : ProviderAnswers(w, c)
    \/ \E w \in Workers : ProviderFails(w)
    \/ \E w \in Workers : WorkStep(w)
    \/ \E s \in Sweepers : SweepStep(s)
    \/ \E r \in Reconcilers : Maintain(r)
    \/ Busy
    \/ Crash
    \/ ClockTick

SettlementSpec == SettlementInit /\ [][SettlementNext]_allVars

(***************************************************************************)
(* The clock advances, the sweeper's timer keeps firing, and a worker that *)
(* has begun to settle goes on unless it crashes; nothing makes the        *)
(* provider answer, the application retry, or Reconcile run.               *)
(***************************************************************************)
SettlementFairSpec ==
    /\ SettlementSpec
    /\ WF_allVars(ClockTick)
    /\ \A w \in Workers : WF_allVars(WorkStep(w))
    /\ \A s \in Sweepers : WF_allVars(SweepStep(s))

-----------------------------------------------------------------------------
SettlementTypeOK ==
    /\ DOMAIN outbox \subseteq RequestIds
    /\ outbox \in [DOMAIN outbox -> OutboxRow]
    /\ DOMAIN usage \subseteq RequestIds
    /\ usage \in [DOMAIN usage -> Int]
    /\ served \subseteq RequestIds
    /\ work \in [Workers ->
           [pc : {"idle", "reserved", "calling", "settle", "fail",
                  "audit", "mark"},
            req : RequestIds \cup {NULL}, cost : Costs \cup {0}]]
    /\ sweep \in [Sweepers ->
           [pc : {"idle", "next", "release", "mark"},
            ids : SUBSET RequestIds, id : RequestIds \cup {NULL}]]
    /\ faults \in 0 .. MaxFaults
    /\ lost \subseteq {"audit", "mark", "close"} \X RequestIds

(***************************************************************************)
(* A row says settled only when its reservation was really captured,       *)
(* whatever workers, sweepers and Reconcile raced for the request.         *)
(***************************************************************************)
SettledMeansCaptured ==
    \A q \in DOMAIN outbox :
        outbox[q].status = "settled" => reservations[q].status = "captured"

(***************************************************************************)
(* The audit trail agrees with the money: a usage row of a request carries *)
(* exactly the credits captured for it, also when two workers settled the  *)
(* same request with different usage.                                      *)
(***************************************************************************)
AuditMatchesCharge ==
    \A q \in DOMAIN usage :
        /\ reservations[q].status = "captured"
        /\ reservations[q].captured = usage[q]

(***************************************************************************)
(* The reservation of a request is closed, or a Settle or Release of it    *)
(* ran into a busy database.                                               *)
(***************************************************************************)
Ended(q) == reservations[q].status # "reserved" \/ <<"close", q>> \in lost

(***************************************************************************)
(* A row that is no longer pending is one no sweeper lists again; so its   *)
(* hold has been closed by then, unless the very Settle or Release of that *)
(* request failed (settlement.go:31 and :80 go on to mark the row).        *)
(***************************************************************************)
FinishedIsClosed ==
    \A q \in DOMAIN outbox : outbox[q].status # "pending" => Ended(q)

(***************************************************************************)
(* Every captured request keeps its trace in both tables: it is audited,   *)
(* and its row is no longer pending, unless the worker that settled it is  *)
(* still at it, crashed before that write, or had that very write refused  *)
(* or fail.                                                                *)
(***************************************************************************)
CaptureLeavesATrace ==
    \A q \in DOMAIN reservations :
        reservations[q].status = "captured" =>
            /\ \/ q \in DOMAIN usage
               \/ <<"audit", q>> \in lost
               \/ \E w \in Workers : AtWork(w, "audit") /\ work[w].req = q
            /\ \/ q \in DOMAIN outbox /\ outbox[q].status # "pending"
               \/ <<"mark", q>> \in lost
               \/ \E w \in Workers : work[w].pc \in {"audit", "mark"} /\ work[w].req = q

(***************************************************************************)
(* The sweeper takes a hold away from a call only when its outbox row is   *)
(* older than the threshold, however long ago it listed the row.           *)
(***************************************************************************)
NeverSweptEarly ==
    [][\A s \in Sweepers :
          sweep[s].pc = "release" /\ sweep'[s].pc = "mark" =>
              outbox[sweep[s].id].age > OutboxStale]_allVars

(***************************************************************************)
(* The rows in front of a pending one fill the limit of every sweep.       *)
(***************************************************************************)
Starved(q) == q \in Pending \ OldestPending

(***************************************************************************)
(* A hold does not stay behind a pending row even if Reconcile never runs: *)
(* ProcessSettlementOutbox gives it back, unless a Settle or Release of    *)
(* the request failed, or the oldest rows fill the limit for ever (rows    *)
(* whose reservation somebody else has closed stay pending).               *)
(***************************************************************************)
SweepEndsHolds ==
    \A q \in RequestIds :
        (q \in Pending /\ reservations[q].status = "reserved")
          ~> ((q \in DOMAIN reservations /\ Ended(q)) \/ []Starved(q))

-----------------------------------------------------------------------------
(***************************************************************************)
(* What the documentation says and the code does not do.                   *)
(***************************************************************************)

(***************************************************************************)
(* A served call whose row is pending and that no worker is at: the worker *)
(* crashed after the provider answered.                                    *)
(***************************************************************************)
LeftPending(q) ==
    q \in served /\ q \in Pending /\ \A w \in Workers : work[w].req # q

(***************************************************************************)
(* The settle of a served call is said to be persisted, so that a restart  *)
(* resumes it instead of dropping the charge.                              *)
(***************************************************************************)
ServedIsCharged ==
    \A q \in RequestIds :
        (LeftPending(q) /\ reservations[q].status = "reserved")
          ~> (q \in DOMAIN reservations /\ reservations[q].status = "captured")

-----------------------------------------------------------------------------
(***************************************************************************)
(* Why the settlement is right.  The invariants above are not inductive:   *)
(* they rest on what a worker or a sweeper knows of the tables between two *)
(* of its statements, and on its staying true whatever the others do.      *)
(***************************************************************************)

(***************************************************************************)
(* A row is enqueued only for a request that has a reservation.            *)
(***************************************************************************)
OutboxIsReserved ==
    /\ IsFiniteSet(DOMAIN outbox)
    /\ DOMAIN outbox \subseteq DOMAIN reservations

(***************************************************************************)
(* What a worker may rely on: from the enqueue on its request has a row,   *)
(* once the provider has answered it was served at a cost, after the       *)
(* settle its reservation is captured, at that cost until it is audited,   *)
(* and a call it marks as failed has ended.                                *)
(***************************************************************************)
Enqueued == {"calling", "settle", "fail", "audit", "mark"}

WorkersKnow ==
    \A w \in Workers :
        /\ work[w].pc # "idle" => work[w].req \in DOMAIN reservations
        /\ work[w].pc \in Enqueued => work[w].req \in DOMAIN outbox
        /\ work[w].pc = "settle" => work[w].req \in served /\ work[w].cost \in Costs
        /\ work[w].pc \in {"audit", "mark"} =>
               reservations[work[w].req].status = "captured"
        /\ work[w].pc = "audit" => reservations[work[w].req].captured = work[w].cost
        /\ work[w].pc = "fail" => Ended(work[w].req)

(***************************************************************************)
(* What a sweeper may rely on: the rows it listed are still there, and the *)
(* one it acts on is still older than the threshold, and has ended when it *)
(* is marked.                                                              *)
(***************************************************************************)
SweepersKnow ==
    \A s \in Sweepers :
        /\ sweep[s].ids \subseteq DOMAIN outbox
        /\ sweep[s].pc \in {"release", "mark"} =>
               /\ sweep[s].id \in DOMAIN outbox
               /\ outbox[sweep[s].id].age > OutboxStale
        /\ sweep[s].pc = "mark" => Ended(sweep[s].id)

SettlementInv ==
    /\ OutboxIsReserved
    /\ DOMAIN usage \subseteq DOMAIN reservations
    /\ WorkersKnow
    /\ SweepersKnow
    /\ SettledMeansCaptured
    /\ AuditMatchesCharge
    /\ FinishedIsClosed
    /\ CaptureLeavesATrace
=============================================================================
