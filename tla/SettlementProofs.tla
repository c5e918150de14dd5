--------------------------- MODULE SettlementProofs --------------------------
(***************************************************************************)
(* Proofs about the settlement of metered calls, for any number of         *)
(* workers, sweepers, Reconcile loops and faults, and any thresholds.      *)
(*                                                                         *)
(* The settlement only reaches the ledger through the operations of module *)
(* Credits, so it implements that module's specification and inherits its  *)
(* invariants; what it adds is about the outbox, the usage table and the   *)
(* two kinds of processes.                                                 *)
(***************************************************************************)
EXTENDS Settlement, CreditsProofs

(***************************************************************************)
(* A Release whose error is ignored is a Release of the service or no step *)
(* of it.                                                                  *)
(***************************************************************************)
LEMMA TryReleaseStep ==
  ASSUME TypeOK, NEW q, TryRelease(q)
  PROVE  [Next]_vars
<1>1. ASSUME Release(q) PROVE Next
  <2>1. q \in DOMAIN reservations
    BY <1>1 DEF Release, finalize
  <2>2. q \in RequestIds
    BY <2>1 DEF TypeOK
  <2> QED BY <1>1, <2>2 DEF Next, Operation
<1> QED BY <1>1 DEF TryRelease

(***************************************************************************)
(* The clock of the settlement is the service's clock, or moves only the   *)
(* outbox rows.                                                            *)
(***************************************************************************)
LEMMA ClockTickStep ==
  ASSUME TypeOK, ClockTick
  PROVE  [Next]_vars
<1>1. UNCHANGED <<accounts, ledger, recon, aborts>>
  BY DEF ClockTick
<1>2. reservations' = [q \in DOMAIN reservations |->
         IF reservations[q].status = "reserved" /\ reservations[q].age <= Timeout
         THEN [reservations[q] EXCEPT !.age = @ + 1]
         ELSE reservations[q]]
  BY DEF ClockTick, Older
<1>3. CASE \E q \in DOMAIN reservations :
              reservations[q].status = "reserved" /\ reservations[q].age <= Timeout
  <2>1. Tick
    BY <1>1, <1>2, <1>3 DEF Tick
  <2> QED BY <2>1 DEF Next
<1>4. CASE ~ \E q \in DOMAIN reservations :
              reservations[q].status = "reserved" /\ reservations[q].age <= Timeout
  <2>1. reservations' = [q \in DOMAIN reservations |-> reservations[q]]
    BY <1>2, <1>4
  <2>2. reservations' = reservations
    BY <2>1 DEF TypeOK
  <2> QED BY <1>1, <2>2 DEF vars
<1> QED BY <1>3, <1>4

(***************************************************************************)
(* Every step of the settlement is a step of the ledger service or leaves  *)
(* its tables alone.                                                       *)
(***************************************************************************)
LEMMA CreditsStep ==
  ASSUME TypeOK, WorkersKnow, [SettlementNext]_allVars
  PROVE  [Next]_vars
<1>1. ASSUME NEW u \in Users, NEW n \in Amounts, NEW k \in IdemKeys, TopUp(u, n, k)
      PROVE  Next
  BY <1>1 DEF TopUp, Next, Operation
<1>2. ASSUME NEW w \in Workers, NEW u \in Users, NEW q \in RequestIds,
             NEW n \in Amounts, StartCall(w, u, q, n)
      PROVE  [Next]_vars
  <2>1. Reserve(u, q, n) \/ UNCHANGED vars
    BY <1>2 DEF StartCall
  <2> QED BY <2>1 DEF Next, Operation
<1>3. ASSUME NEW w \in Workers, NEW c \in Costs, ProviderAnswers(w, c)
      PROVE  UNCHANGED vars
  BY <1>3 DEF ProviderAnswers
<1>4. ASSUME NEW w \in Workers, ProviderFails(w)
      PROVE  [Next]_vars
  BY <1>4, TryReleaseStep DEF ProviderFails
<1>5. ASSUME NEW w \in Workers, WorkStep(w)
      PROVE  [Next]_vars
  <2>1. CASE EnqueueSettlement(w) \/ RecordUsage(w) \/ MarkFailed(w) \/ MarkSettled(w)
    BY <2>1 DEF EnqueueSettlement, RecordUsage, MarkFailed, MarkSettled
  <2>2. CASE ReleaseUnpriced(w)
    BY <2>2, TryReleaseStep DEF ReleaseUnpriced
  <2>3. CASE SettleCall(w)
    <3>1. CASE UNCHANGED vars
      BY <3>1
    <3>2. CASE Settle(work[w].req, work[w].cost)
      <4>1. work[w].req \in RequestIds
        BY <3>2 DEF Settle, finalize, TypeOK
      <4>2. work[w].cost \in Costs
        BY <2>3 DEF SettleCall, AtWork, WorkersKnow
      <4> QED BY <3>2, <4>1, <4>2 DEF Next, Operation
    <3> QED BY <2>3, <3>1, <3>2 DEF SettleCall
  <2> QED BY <1>5, <2>1, <2>2, <2>3 DEF WorkStep
<1>6. ASSUME NEW s \in Sweepers, SweepStep(s)
      PROVE  [Next]_vars
  <2>1. CASE SweepList(s) \/ SweepNext(s) \/ SweepMark(s) \/ SweepDone(s)
    BY <2>1 DEF SweepList, SweepNext, SweepMark, SweepDone
  <2>2. CASE SweepRelease(s)
    BY <2>2, TryReleaseStep DEF SweepRelease
  <2> QED BY <1>6, <2>1, <2>2 DEF SweepStep
<1>7. ASSUME NEW r \in Reconcilers, Maintain(r)
      PROVE  Next
  BY <1>7 DEF Maintain, Next
<1>8. CASE Busy \/ Crash
  BY <1>8 DEF Busy, Crash
<1>9. CASE ClockTick
  BY <1>9, ClockTickStep
<1>10. CASE UNCHANGED allVars
  BY <1>10 DEF allVars
<1> QED BY <1>1, <1>2, <1>3, <1>4, <1>5, <1>6, <1>7, <1>8, <1>9, <1>10
        DEF SettlementNext

-----------------------------------------------------------------------------
(***************************************************************************)
(* The kinds of step that a worker and a sweeper take.                     *)
(***************************************************************************)
WorkMoves(w, row) ==
    work' = [work EXCEPT ![w] = row]

WorkRow(pc, q, c) == [pc |-> pc, req |-> q, cost |-> c]

WorkRows == [pc : {"idle", "reserved", "calling", "settle", "fail", "audit", "mark"},
             req : RequestIds \cup {NULL}, cost : Costs \cup {0}]

SweepRow(pc, ids, q) == [pc |-> pc, ids |-> ids, id |-> q]

SweepRows == [pc : {"idle", "next", "release", "mark"},
              ids : SUBSET RequestIds, id : RequestIds \cup {NULL}]

(***************************************************************************)
(* A worker that goes on keeps its request and its cost.                   *)
(***************************************************************************)
LEMMA GotoMoves ==
  ASSUME SettlementTypeOK, NEW w \in Workers, NEW pc, Goto(w, pc)
  PROVE  WorkMoves(w, WorkRow(pc, work[w].req, work[w].cost))
<1>1. work[w] \in WorkRows
  BY DEF SettlementTypeOK, WorkRows
<1>2. [work[w] EXCEPT !.pc = pc] = WorkRow(pc, work[w].req, work[w].cost)
  BY <1>1 DEF WorkRows, WorkRow
<1> QED BY <1>2 DEF Goto, WorkMoves

(***************************************************************************)
(* The fields of a worker's state, and of every other worker's after it    *)
(* has moved.                                                              *)
(***************************************************************************)
LEMMA WorkMoved ==
  ASSUME SettlementTypeOK, NEW w \in Workers, NEW pc, NEW q, NEW c,
         WorkMoves(w, WorkRow(pc, q, c))
  PROVE  /\ work'[w].pc = pc /\ work'[w].req = q /\ work'[w].cost = c
         /\ \A v \in Workers : v # w => work'[v] = work[v]
BY DEF SettlementTypeOK, WorkMoves, WorkRow

(***************************************************************************)
(* A worker's move keeps the type of the workers.                          *)
(***************************************************************************)
LEMMA WorkMoveType ==
  ASSUME SettlementTypeOK, NEW w \in Workers, NEW row \in WorkRows, WorkMoves(w, row)
  PROVE  work' \in [Workers -> WorkRows]
BY DEF SettlementTypeOK, WorkMoves, WorkRows

(***************************************************************************)
(* What a worker remembers is well typed.                                  *)
(***************************************************************************)
LEMMA WorkFields ==
  ASSUME SettlementTypeOK, NEW w \in Workers
  PROVE  /\ work[w].req \in RequestIds \cup {NULL}
         /\ work[w].cost \in Costs \cup {0}
         /\ \A pc \in {"idle", "reserved", "calling", "settle", "fail", "audit", "mark"} :
                WorkRow(pc, work[w].req, work[w].cost) \in WorkRows
         /\ IdleWorker \in WorkRows
BY DEF SettlementTypeOK, WorkRow, WorkRows, IdleWorker

(***************************************************************************)
(* What a worker leaves unwritten is about a request.                      *)
(***************************************************************************)
LEMMA UnwrittenType ==
  ASSUME TypeOK, WorkersKnow, NEW w \in Workers
  PROVE  Unwritten(w) \subseteq {"audit", "mark", "close"} \X RequestIds
<1>1. work[w].pc # "idle" => work[w].req \in RequestIds
  BY DEF WorkersKnow, TypeOK
<1>2. CASE AtWork(w, "audit")
  BY <1>1, <1>2 DEF Unwritten, AtWork
<1>3. CASE AtWork(w, "mark")
  <2>1. Unwritten(w) = {"mark"} \X {work[w].req}
    BY <1>3 DEF Unwritten, AtWork
  <2> QED BY <1>1, <1>3, <2>1 DEF AtWork
<1>4. CASE ~ AtWork(w, "audit") /\ ~ AtWork(w, "mark")
  BY <1>4 DEF Unwritten
<1> QED BY <1>2, <1>3, <1>4

(***************************************************************************)
(* A change of an outbox row's status keeps every row's age and position.  *)
(***************************************************************************)
LEMMA SetStatusKeeps ==
  ASSUME SettlementTypeOK, NEW q \in DOMAIN outbox,
         NEW st \in {"pending", "settled", "failed", "expired"}, SetStatus(q, st)
  PROVE  /\ DOMAIN outbox' = DOMAIN outbox
         /\ outbox' \in [DOMAIN outbox -> OutboxRow]
         /\ \A p \in DOMAIN outbox : outbox'[p].age = outbox[p].age
         /\ \A p \in DOMAIN outbox : p # q => outbox'[p].status = outbox[p].status
         /\ outbox'[q].status = st
<1>1. \A p \in DOMAIN outbox : outbox[p] \in OutboxRow
  BY DEF SettlementTypeOK
<1>2. outbox' = [outbox EXCEPT ![q] = [outbox[q] EXCEPT !.status = st]]
  BY DEF SetStatus
<1>3. [outbox[q] EXCEPT !.status = st] \in OutboxRow
  BY <1>1 DEF OutboxRow
<1>4. /\ [outbox[q] EXCEPT !.status = st].age = outbox[q].age
      /\ [outbox[q] EXCEPT !.status = st].status = st
  BY <1>1 DEF OutboxRow
<1>5. /\ DOMAIN outbox' = DOMAIN outbox
      /\ outbox' \in [DOMAIN outbox -> OutboxRow]
      /\ \A p \in DOMAIN outbox : p # q => outbox'[p] = outbox[p]
      /\ outbox'[q] = [outbox[q] EXCEPT !.status = st]
  BY <1>1, <1>2, <1>3 DEF SettlementTypeOK
<1> QED BY <1>4, <1>5

(***************************************************************************)
(* The insert of an outbox row.                                            *)
(***************************************************************************)
LEMMA EnqueueKeeps ==
  ASSUME SettlementTypeOK, OutboxIsReserved, NEW w \in Workers, EnqueueSettlement(w),
         work[w].req \in RequestIds
  PROVE  /\ DOMAIN outbox' = DOMAIN outbox \cup {work[w].req}
         /\ IsFiniteSet(DOMAIN outbox')
         /\ outbox' \in [DOMAIN outbox' -> OutboxRow]
         /\ \A p \in DOMAIN outbox : outbox'[p] = outbox[p]
         /\ \A p \in DOMAIN outbox' \ DOMAIN outbox : outbox'[p].status = "pending"
<1> DEFINE q == work[w].req
<1>1. CASE q \in DOMAIN outbox
  <2>1. outbox' = outbox
    BY <1>1 DEF EnqueueSettlement
  <2>2. DOMAIN outbox \cup {q} = DOMAIN outbox
    BY <1>1
  <2> QED BY <2>1, <2>2 DEF SettlementTypeOK, OutboxIsReserved
<1>2. CASE q \notin DOMAIN outbox
  <2> DEFINE row == [status |-> "pending", age |-> 0, pos |-> Cardinality(DOMAIN outbox)]
  <2>1. Cardinality(DOMAIN outbox) \in Nat
    BY FS_CardinalityType DEF OutboxIsReserved
  <2>2. row \in OutboxRow /\ row.status = "pending"
    BY <2>1, OutboxAssumption DEF OutboxRow
  <2>3. outbox' = [p \in DOMAIN outbox \cup {q} |-> IF p = q THEN row ELSE outbox[p]]
    BY <1>2 DEF EnqueueSettlement
  <2>4. IsFiniteSet(DOMAIN outbox \cup {q})
    BY FS_AddElement DEF OutboxIsReserved
  <2>5. \A p \in DOMAIN outbox : outbox[p] \in OutboxRow
    BY DEF SettlementTypeOK
  <2> HIDE DEF row, q
  <2>6. DOMAIN outbox' = DOMAIN outbox \cup {q}
    BY <2>3
  <2>7. /\ outbox' \in [DOMAIN outbox' -> OutboxRow]
        /\ \A p \in DOMAIN outbox : outbox'[p] = outbox[p]
        /\ \A p \in DOMAIN outbox' \ DOMAIN outbox : outbox'[p].status = "pending"
    BY <1>2, <2>2, <2>3, <2>5, <2>6
  <2> QED BY <2>4, <2>6, <2>7 DEF q
<1> QED BY <1>1, <1>2

(***************************************************************************)
(* The clock keeps the rows of the outbox and makes none younger.          *)
(***************************************************************************)
LEMMA ClockKeeps ==
  ASSUME SettlementTypeOK, ClockTick
  PROVE  /\ DOMAIN outbox' = DOMAIN outbox
         /\ outbox' \in [DOMAIN outbox -> OutboxRow]
         /\ \A p \in DOMAIN outbox : /\ outbox'[p].age >= outbox[p].age
                                     /\ outbox'[p].status = outbox[p].status
<1>1. outbox' = [q \in DOMAIN outbox |-> AgeRow(outbox[q])]
  BY DEF ClockTick
<1>2. ASSUME NEW row \in OutboxRow
      PROVE  /\ AgeRow(row) \in OutboxRow
             /\ AgeRow(row).age >= row.age
             /\ AgeRow(row).status = row.status
  <2>1. row.age \in 0 .. OutboxStale + 1 /\ OutboxStale \in Nat
    BY OutboxAssumption DEF OutboxRow
  <2>2. CASE row.age <= OutboxStale
    <3>1. row.age + 1 \in 0 .. OutboxStale + 1
      BY <2>1, <2>2
    <3>2. AgeRow(row) = [row EXCEPT !.age = row.age + 1]
      BY <2>2 DEF AgeRow
    <3>3. /\ [row EXCEPT !.age = row.age + 1] \in OutboxRow
          /\ [row EXCEPT !.age = row.age + 1].age = row.age + 1
          /\ [row EXCEPT !.age = row.age + 1].status = row.status
      BY <3>1 DEF OutboxRow
    <3> QED BY <2>1, <3>2, <3>3
  <2>3. CASE ~ (row.age <= OutboxStale)
    BY <2>1, <2>3 DEF AgeRow
  <2> QED BY <2>2, <2>3
<1>3. \A p \in DOMAIN outbox : outbox[p] \in OutboxRow
  BY DEF SettlementTypeOK
<1> QED BY <1>1, <1>2, <1>3

-----------------------------------------------------------------------------
(***************************************************************************)
(* The settlement's variables are well typed in the initial state.         *)
(***************************************************************************)
LEMMA SettlementTypeInit == SettlementInit => SettlementTypeOK
BY OutboxAssumption DEF SettlementInit, SettlementTypeOK, IdleWorker, IdleSweeper

(***************************************************************************)
(* Every step of the settlement keeps the types.  The position of a new    *)
(* outbox row is a number because the outbox is finite, and a row is only  *)
(* written for a request that has one.                                     *)
(***************************************************************************)
LEMMA SettlementTypeNext ==
  ASSUME TypeOK, SettlementTypeOK, OutboxIsReserved, WorkersKnow, SweepersKnow,
         [SettlementNext]_allVars
  PROVE  SettlementTypeOK'
<1> DEFINE WorkOK == work \in [Workers -> WorkRows]
           SweepOK == sweep \in [Sweepers -> SweepRows]
           OutboxOK == DOMAIN outbox \subseteq RequestIds /\ outbox \in [DOMAIN outbox -> OutboxRow]
           UsageOK == DOMAIN usage \subseteq RequestIds /\ usage \in [DOMAIN usage -> Int]
           RestOK == served \subseteq RequestIds /\ faults \in 0 .. MaxFaults
           LostOK == lost \subseteq {"audit", "mark", "close"} \X RequestIds
<1>a. SettlementTypeOK <=> WorkOK /\ SweepOK /\ OutboxOK /\ UsageOK /\ RestOK /\ LostOK
  BY DEF SettlementTypeOK, WorkRows, SweepRows
<1>b. SettlementTypeOK' <=>
        WorkOK' /\ SweepOK' /\ OutboxOK' /\ UsageOK' /\ RestOK' /\ LostOK'
  BY DEF SettlementTypeOK, WorkRows, SweepRows
<1>c. \A w \in Workers : work[w].pc # "idle" => work[w].req \in RequestIds
  BY DEF WorkersKnow, TypeOK
<1>d. /\ UNCHANGED work => WorkOK'
      /\ UNCHANGED sweep => SweepOK'
      /\ UNCHANGED outbox => OutboxOK'
      /\ UNCHANGED usage => UsageOK'
      /\ UNCHANGED <<served, faults>> => RestOK'
      /\ UNCHANGED lost => LostOK'
  BY <1>a
<1>e. ASSUME NEW w \in Workers,
             \/ \E pc \in {"idle", "reserved", "calling", "settle", "fail", "audit", "mark"} :
                   Goto(w, pc)
             \/ work' = [work EXCEPT ![w] = IdleWorker]
      PROVE  WorkOK'
  <2>1. ASSUME NEW pc \in {"idle", "reserved", "calling", "settle", "fail", "audit", "mark"},
               Goto(w, pc)
        PROVE  WorkOK'
    BY <2>1, GotoMoves, WorkFields, WorkMoveType
  <2>2. CASE work' = [work EXCEPT ![w] = IdleWorker]
    BY <2>2, WorkFields, WorkMoveType DEF WorkMoves
  <2> QED BY <1>e, <2>1, <2>2
<1>f. ASSUME NEW q \in DOMAIN outbox,
             NEW st \in {"pending", "settled", "failed", "expired"}, SetStatus(q, st)
      PROVE  OutboxOK'
  <2>1. DOMAIN outbox' = DOMAIN outbox /\ outbox' \in [DOMAIN outbox -> OutboxRow]
    BY <1>f, SetStatusKeeps
  <2> QED BY <1>a, <2>1
<1>g. Fault => RestOK' \/ ~ UNCHANGED served
  BY <1>a, OutboxAssumption DEF Fault
<1>h. ASSUME NEW w \in Workers, lost' = lost \cup Unwritten(w)
      PROVE  LostOK'
  BY <1>h, <1>a, UnwrittenType
<1>i. ASSUME NEW k \in {"audit", "mark", "close"}, NEW q \in RequestIds,
             lost' = lost \cup {<<k, q>>}
      PROVE  LostOK'
  BY <1>i, <1>a
<1> HIDE DEF WorkOK, SweepOK, OutboxOK, UsageOK, RestOK, LostOK
<1>1. CASE \E u \in Users, n \in Amounts, k \in IdemKeys : TopUp(u, n, k)
  BY <1>1, <1>b, <1>d DEF TopUp, settlementVars
<1>2. CASE \E r \in Reconcilers : Maintain(r)
  BY <1>2, <1>b, <1>d DEF Maintain, settlementVars
<1>3. ASSUME NEW w \in Workers, NEW u \in Users, NEW q \in RequestIds,
             NEW n \in Amounts, StartCall(w, u, q, n)
      PROVE  SettlementTypeOK'
  <2>1. WorkMoves(w, WorkRow("reserved", q, 0))
    BY <1>3 DEF StartCall, WorkMoves, WorkRow
  <2>2. WorkRow("reserved", q, 0) \in WorkRows
    BY DEF WorkRow, WorkRows
  <2>3. WorkOK'
    BY <2>1, <2>2, WorkMoveType DEF WorkOK
  <2> QED BY <1>3, <1>b, <1>d, <2>3 DEF StartCall
<1>4. ASSUME NEW w \in Workers, NEW c \in Costs, ProviderAnswers(w, c)
      PROVE  SettlementTypeOK'
  <2>1. work[w] \in WorkRows
    BY <1>a DEF WorkOK
  <2>2. [work[w] EXCEPT !.pc = "settle", !.cost = c] \in WorkRows
    BY <2>1 DEF WorkRows
  <2>3. WorkMoves(w, [work[w] EXCEPT !.pc = "settle", !.cost = c])
    BY <1>4 DEF ProviderAnswers, WorkMoves
  <2>4. WorkOK'
    BY <2>2, <2>3, WorkMoveType DEF WorkOK
  <2>5. RestOK'
    BY <1>4, <1>a, <1>c DEF ProviderAnswers, RestOK, AtWork
  <2> QED BY <1>4, <1>b, <1>d, <2>4, <2>5 DEF ProviderAnswers
<1>5. ASSUME NEW w \in Workers, ProviderFails(w)
      PROVE  SettlementTypeOK'
  <2>1. WorkOK'
    BY <1>5, <1>e DEF ProviderFails
  <2> QED BY <1>5, <1>b, <1>d, <2>1 DEF ProviderFails
<1>6. ASSUME NEW w \in Workers, EnqueueSettlement(w)
      PROVE  SettlementTypeOK'
  <2>1. WorkOK'
    BY <1>6, <1>e DEF EnqueueSettlement
  <2>2. work[w].req \in RequestIds
    BY <1>6, <1>c DEF EnqueueSettlement, AtWork
  <2>3. OutboxOK'
    BY <1>6, <1>a, <2>2, EnqueueKeeps DEF OutboxOK
  <2> QED BY <1>6, <1>b, <1>d, <2>1, <2>3 DEF EnqueueSettlement
<1>7. ASSUME NEW w \in Workers, ReleaseUnpriced(w) \/ SettleCall(w)
      PROVE  SettlementTypeOK'
  <2>1. Goto(w, "fail") \/ Goto(w, "audit")
    BY <1>7 DEF ReleaseUnpriced, SettleCall
  <2>2. WorkOK'
    BY <1>e, <2>1
  <2> QED BY <1>7, <1>b, <1>d, <2>2 DEF ReleaseUnpriced, SettleCall
<1>8. ASSUME NEW w \in Workers, RecordUsage(w)
      PROVE  SettlementTypeOK'
  <2>1. WorkOK'
    BY <1>8, <1>e DEF RecordUsage
  <2>2. UsageOK'
    <3>1. work[w].req \in RequestIds
      BY <1>8, <1>c DEF RecordUsage, AtWork
    <3>2. work[w].cost \in Int
      <4>1. work[w].cost \in Costs \cup {0}
        BY WorkFields
      <4>2. \A c \in Costs \cup {0} : c \in Int
        BY AmountsAssumption
      <4> QED BY <4>1, <4>2
    <3>3. \/ UNCHANGED usage
          \/ usage' = [p \in DOMAIN usage \cup {work[w].req} |->
                          IF p = work[w].req THEN work[w].cost ELSE usage[p]]
      BY <1>8 DEF RecordUsage
    <3> QED BY <1>a, <3>1, <3>2, <3>3 DEF UsageOK
  <2>3. RestOK'
    BY <1>8, <1>a, OutboxAssumption DEF RecordUsage, RestOK
  <2>4. LostOK'
    <3>1. work[w].req \in RequestIds
      BY <1>8, <1>c DEF RecordUsage, AtWork
    <3>2. UNCHANGED lost \/ lost' = lost \cup {<<"audit", work[w].req>>}
      BY <1>8 DEF RecordUsage
    <3> QED BY <1>d, <1>i, <3>1, <3>2
  <2> QED BY <1>8, <1>b, <1>d, <2>1, <2>2, <2>3, <2>4 DEF RecordUsage
<1>9. ASSUME NEW w \in Workers, MarkFailed(w) \/ MarkSettled(w)
      PROVE  SettlementTypeOK'
  <2>1. WorkOK'
    BY <1>9, <1>e DEF MarkFailed, MarkSettled
  <2>2. work[w].req \in DOMAIN outbox
    BY <1>9 DEF MarkFailed, MarkSettled, AtWork, WorkersKnow, Enqueued
  <2>3. OutboxOK'
    BY <1>9, <1>f, <2>2 DEF MarkFailed, MarkSettled
  <2> QED BY <1>9, <1>b, <1>d, <2>1, <2>3 DEF MarkFailed, MarkSettled
<1>10. ASSUME NEW s \in Sweepers, SweepStep(s)
       PROVE  SettlementTypeOK'
  <2>1. sweep[s] \in SweepRows /\ OldestPending \subseteq RequestIds
    BY <1>a DEF SweepOK, OutboxOK, OldestPending, Pending
  <2>2. SweepOK'
    <3>1. CASE SweepList(s)
      BY <1>a, <2>1, <3>1 DEF SweepList, SweepOK, SweepRows
    <3>2. CASE SweepNext(s)
      <4>1. PICK q \in sweep[s].ids :
               sweep' = [sweep EXCEPT ![s] =
                   IF Sweepable(q)
                   THEN [pc |-> "release", ids |-> sweep[s].ids \ {q}, id |-> q]
                   ELSE [sweep[s] EXCEPT !.ids = @ \ {q}]]
        BY <3>2 DEF SweepNext
      <4>2. q \in RequestIds
        BY <2>1 DEF SweepRows
      <4>3. /\ [pc |-> "release", ids |-> sweep[s].ids \ {q}, id |-> q] \in SweepRows
            /\ [sweep[s] EXCEPT !.ids = @ \ {q}] \in SweepRows
        BY <2>1, <4>2 DEF SweepRows
      <4>4. PICK row \in SweepRows : sweep' = [sweep EXCEPT ![s] = row]
        <5>1. CASE Sweepable(q)
          BY <4>1, <4>3, <5>1
        <5>2. CASE ~ Sweepable(q)
          BY <4>1, <4>3, <5>2
        <5> QED BY <5>1, <5>2
      <4> QED BY <1>a, <4>4 DEF SweepOK
    <3>3. CASE SweepRelease(s)
      BY <1>a, <2>1, <3>3 DEF SweepRelease, SweepOK, SweepRows
    <3>4. CASE SweepMark(s)
      BY <1>a, <2>1, <3>4 DEF SweepMark, SweepOK, SweepRows
    <3>5. CASE SweepDone(s)
      BY <1>a, <2>1, <3>5 DEF SweepDone, SweepOK, SweepRows, IdleSweeper
    <3> QED BY <1>10, <3>1, <3>2, <3>3, <3>4, <3>5 DEF SweepStep
  <2>3. OutboxOK'
    <3>1. CASE SweepMark(s)
      BY <1>f, <3>1 DEF SweepMark, SweepersKnow
    <3>2. CASE SweepList(s) \/ SweepNext(s) \/ SweepRelease(s) \/ SweepDone(s)
      BY <1>d, <3>2 DEF SweepList, SweepNext, SweepRelease, SweepDone
    <3> QED BY <1>10, <3>1, <3>2 DEF SweepStep
  <2> QED BY <1>10, <1>b, <1>d, <2>2, <2>3
          DEF SweepStep, SweepList, SweepNext, SweepRelease, SweepMark, SweepDone
<1>11. CASE Busy
  <2>1. ASSUME NEW w \in Workers, BusyWorker(w)
        PROVE  WorkOK' /\ SweepOK' /\ LostOK'
    <3>1. work[w].pc # "idle"
      BY <2>1 DEF BusyWorker, AtWork
    <3>2. Goto(w, "fail") \/ work' = [work EXCEPT ![w] = IdleWorker]
      BY <2>1 DEF BusyWorker
    <3>3. \/ lost' = lost \cup {<<"close", work[w].req>>}
          \/ lost' = lost \cup Unwritten(w)
      BY <2>1 DEF BusyWorker
    <3> QED BY <2>1, <1>c, <1>d, <1>e, <1>h, <1>i, <3>1, <3>2, <3>3 DEF BusyWorker
  <2>2. ASSUME NEW s \in Sweepers, BusySweeper(s)
        PROVE  WorkOK' /\ SweepOK' /\ LostOK'
    <3>1. SweepOK'
      BY <2>2, <1>a DEF BusySweeper, SweepOK, SweepRows
    <3>2. sweep[s].pc = "release" => sweep[s].id \in RequestIds
      BY <1>a DEF SweepersKnow, OutboxOK
    <3> QED BY <2>2, <1>d, <1>i, <3>1, <3>2 DEF BusySweeper
  <2> QED BY <1>11, <1>b, <1>d, <1>g, <2>1, <2>2 DEF Busy
<1>12. CASE Crash
  <2>1. WorkOK'
    BY <1>12, <1>d, <1>e DEF Crash
  <2>2. SweepOK'
    BY <1>12, <1>a DEF Crash, SweepOK, SweepRows, IdleSweeper
  <2>3. LostOK'
    BY <1>12, <1>d, <1>h DEF Crash
  <2> QED BY <1>12, <1>b, <1>d, <1>g, <2>1, <2>2, <2>3 DEF Crash
<1>13. CASE ClockTick
  <2>1. OutboxOK'
    BY <1>13, <1>a, ClockKeeps DEF OutboxOK
  <2> QED BY <1>13, <1>b, <1>d, <2>1 DEF ClockTick
<1>14. CASE UNCHANGED allVars
  BY <1>14, <1>b, <1>d DEF allVars, settlementVars
<1> QED BY <1>1, <1>2, <1>3, <1>4, <1>5, <1>6, <1>7, <1>8, <1>9, <1>10, <1>11,
          <1>12, <1>13, <1>14 DEF SettlementNext, WorkStep

-----------------------------------------------------------------------------
(***************************************************************************)
(* What no step takes away: reservations and outbox rows stay, a closed    *)
(* reservation stays as it is, no row gets younger or pending again, and   *)
(* neither a served request, nor an audit row, nor a lost write is         *)
(* forgotten.                                                              *)
(***************************************************************************)
Grows ==
    /\ \A q \in DOMAIN reservations :
           /\ q \in DOMAIN reservations'
           /\ reservations[q].status # "reserved" => reservations'[q] = reservations[q]
    /\ \A q \in DOMAIN outbox :
           /\ q \in DOMAIN outbox' /\ outbox'[q].age >= outbox[q].age
           /\ outbox[q].status # "pending" => outbox'[q].status # "pending"
    /\ DOMAIN usage \subseteq DOMAIN usage'
    /\ served \subseteq served'
    /\ lost \subseteq lost'

(***************************************************************************)
(* No step of the service removes a reservation.                           *)
(***************************************************************************)
LEMMA ReservationsStay ==
  ASSUME TypeOK, [Next]_vars
  PROVE  DOMAIN reservations \subseteq DOMAIN reservations'
<1>1. ASSUME NEW u, NEW n, NEW k, NEW typ, adjust(u, n, k, typ)
      PROVE  reservations' = reservations
  BY <1>1 DEF adjust
<1>2. ASSUME NEW u, NEW q, NEW n, Reserve(u, q, n)
      PROVE  DOMAIN reservations \subseteq DOMAIN reservations'
  <2>1. reservations' = [p \in DOMAIN reservations \cup {q} |->
            IF p = q THEN [user |-> u, amount |-> n, captured |-> 0,
                           released |-> 0, status |-> "reserved", age |-> 0]
                     ELSE reservations[p]]
    BY <1>2 DEF Reserve, debitReservation
  <2> QED BY <2>1
<1>3. ASSUME NEW q, NEW c, NEW all, finalize(q, c, all)
      PROVE  DOMAIN reservations \subseteq DOMAIN reservations'
  BY <1>3 DEF finalize
<1>4. ASSUME NEW r, NEW st, expireOne(r, st)
      PROVE  DOMAIN reservations \subseteq DOMAIN reservations'
  BY <1>4 DEF expireOne
<1>5. CASE Operation
  BY <1>5, <1>1, <1>2, <1>3 DEF Operation, Grant, Refund, Settle, Release
<1>6. CASE \E r \in Reconcilers : Reconcile(r)
  BY <1>6, <1>4 DEF Reconcile, expireStale, detectDrift
<1>7. CASE (\E r \in Reconcilers : Abort(r)) \/ Tick \/ UNCHANGED vars
  BY <1>7 DEF Abort, Tick, vars
<1> QED BY <1>5, <1>6, <1>7 DEF Next

(***************************************************************************)
(* Every step grows the tables in this sense.                              *)
(***************************************************************************)
LEMMA StepGrows ==
  ASSUME TypeOK, AccountingInv, SettlementTypeOK, OutboxIsReserved, WorkersKnow,
         SweepersKnow, [SettlementNext]_allVars
  PROVE  Grows
<1>1. [Next]_vars
  BY CreditsStep
<1>2. \A q \in DOMAIN reservations :
           /\ q \in DOMAIN reservations'
           /\ reservations[q].status # "reserved" => reservations'[q] = reservations[q]
  BY <1>1, ReservationsStay, ClosedStep
<1> DEFINE OutboxGrows == \A q \in DOMAIN outbox :
                   /\ q \in DOMAIN outbox' /\ outbox'[q].age >= outbox[q].age
                   /\ outbox[q].status # "pending" => outbox'[q].status # "pending"
           RestGrows == DOMAIN usage \subseteq DOMAIN usage' /\ served \subseteq served'
                        /\ lost \subseteq lost'
<1>3. OutboxGrows
  <2>1. \A q \in DOMAIN outbox : outbox[q].age \in Int
    BY DEF SettlementTypeOK, OutboxRow
  <2>2. UNCHANGED outbox => OutboxGrows
    BY <2>1
  <2>3. ASSUME NEW q \in DOMAIN outbox,
               NEW st \in {"settled", "failed", "expired"}, SetStatus(q, st)
        PROVE  OutboxGrows
    <3>1. /\ DOMAIN outbox' = DOMAIN outbox
          /\ \A p \in DOMAIN outbox : outbox'[p].age = outbox[p].age
          /\ \A p \in DOMAIN outbox : p # q => outbox'[p].status = outbox[p].status
          /\ outbox'[q].status = st
      BY <2>3, SetStatusKeeps
    <3> QED BY <2>1, <3>1
  <2>4. ASSUME NEW w \in Workers, EnqueueSettlement(w)
        PROVE  OutboxGrows
    <3>1. work[w].req \in RequestIds
      BY <2>4 DEF EnqueueSettlement, AtWork, WorkersKnow, TypeOK
    <3>2. DOMAIN outbox' = DOMAIN outbox \cup {work[w].req}
          /\ \A p \in DOMAIN outbox : outbox'[p] = outbox[p]
      BY <2>4, <3>1, EnqueueKeeps
    <3> QED BY <2>1, <3>2
  <2>5. ASSUME NEW w \in Workers, MarkFailed(w) \/ MarkSettled(w)
        PROVE  OutboxGrows
    <3>1. work[w].req \in DOMAIN outbox
      BY <2>5 DEF MarkFailed, MarkSettled, AtWork, WorkersKnow, Enqueued
    <3> HIDE DEF OutboxGrows
    <3> QED BY <2>3, <2>5, <3>1 DEF MarkFailed, MarkSettled
  <2>6. ASSUME NEW s \in Sweepers, SweepMark(s)
        PROVE  OutboxGrows
    <3>1. sweep[s].id \in DOMAIN outbox
      BY <2>6 DEF SweepMark, SweepersKnow
    <3> HIDE DEF OutboxGrows
    <3> QED BY <2>3, <2>6, <3>1 DEF SweepMark
  <2>7. CASE ClockTick
    BY <2>7, ClockKeeps
  <2> HIDE DEF OutboxGrows
  <2>8. ASSUME NEW w \in Workers, WorkStep(w)
        PROVE  OutboxGrows
    BY <2>2, <2>4, <2>5, <2>8
       DEF WorkStep, ReleaseUnpriced, SettleCall, RecordUsage
  <2>9. ASSUME NEW s \in Sweepers, SweepStep(s)
        PROVE  OutboxGrows
    BY <2>2, <2>6, <2>9 DEF SweepStep, SweepList, SweepNext, SweepRelease, SweepDone
  <2>10. CASE \/ \E u \in Users, n \in Amounts, k \in IdemKeys : TopUp(u, n, k)
              \/ \E w \in Workers, u \in Users, q \in RequestIds, n \in Amounts : StartCall(w, u, q, n)
              \/ \E w \in Workers, c \in Costs : ProviderAnswers(w, c)
              \/ \E w \in Workers : ProviderFails(w)
              \/ \E r \in Reconcilers : Maintain(r)
              \/ Busy \/ Crash \/ UNCHANGED allVars
    BY <2>2, <2>10 DEF TopUp, StartCall, ProviderAnswers, ProviderFails, Maintain,
                       Busy, Crash, allVars, settlementVars
  <2> QED BY <2>7, <2>8, <2>9, <2>10 DEF SettlementNext
<1>4. RestGrows
  <2>2. UNCHANGED <<usage, served, lost>> => RestGrows
    OBVIOUS
  <2>3. UNCHANGED <<usage, served>> /\ lost \subseteq lost' => RestGrows
    OBVIOUS
  <2>4. ASSUME NEW w \in Workers, RecordUsage(w)
        PROVE  RestGrows
    <3>1. DOMAIN usage \subseteq DOMAIN usage' /\ served' = served
      BY <2>4 DEF RecordUsage
    <3>2. lost \subseteq lost'
      BY <2>4 DEF RecordUsage
    <3> QED BY <3>1, <3>2
  <2>5. ASSUME NEW w \in Workers, NEW c \in Costs, ProviderAnswers(w, c)
        PROVE  RestGrows
    BY <2>5 DEF ProviderAnswers
  <2> HIDE DEF RestGrows
  <2>6. ASSUME NEW w \in Workers, WorkStep(w)
        PROVE  RestGrows
    BY <2>2, <2>4, <2>6 DEF WorkStep, EnqueueSettlement, ReleaseUnpriced,
                            SettleCall, MarkFailed, MarkSettled
  <2>7. ASSUME NEW s \in Sweepers, SweepStep(s)
        PROVE  RestGrows
    BY <2>2, <2>7 DEF SweepStep, SweepList, SweepNext, SweepRelease, SweepMark, SweepDone
  <2>8. CASE Busy \/ Crash
    BY <2>3, <2>8 DEF Busy, BusyWorker, BusySweeper, Crash
  <2>9. CASE \/ \E u \in Users, n \in Amounts, k \in IdemKeys : TopUp(u, n, k)
             \/ \E w \in Workers, u \in Users, q \in RequestIds, n \in Amounts : StartCall(w, u, q, n)
             \/ \E w \in Workers : ProviderFails(w)
             \/ \E r \in Reconcilers : Maintain(r)
             \/ ClockTick \/ UNCHANGED allVars
    BY <2>2, <2>9 DEF TopUp, StartCall, ProviderFails, Maintain, ClockTick,
                      allVars, settlementVars
  <2> QED BY <2>5, <2>6, <2>7, <2>8, <2>9 DEF SettlementNext
<1> QED BY <1>2, <1>3, <1>4 DEF Grows

-----------------------------------------------------------------------------
(***************************************************************************)
(* A step that captures nothing.                                           *)
(***************************************************************************)
NoCapture ==
    \A q \in DOMAIN reservations' :
        reservations'[q].status = "captured" =>
            q \in DOMAIN reservations /\ reservations[q].status = "captured"

(***************************************************************************)
(* Of the operations of the service, only Settle captures.                 *)
(***************************************************************************)
LEMMA QuietCaptures ==
  ASSUME TypeOK
  PROVE  /\ UNCHANGED reservations => NoCapture
         /\ \A u, n, k : Grant(u, n, k) => NoCapture
         /\ \A u, q, n : Reserve(u, q, n) => NoCapture
         /\ \A q : TryRelease(q) => NoCapture
         /\ \A r : Reconcile(r) => NoCapture
         /\ ClockTick => NoCapture
<1>1. UNCHANGED reservations => NoCapture
  BY DEF NoCapture
<1>2. ASSUME NEW u, NEW n, NEW k, Grant(u, n, k) PROVE NoCapture
  BY <1>1, <1>2 DEF Grant, adjust
<1>3. ASSUME NEW u, NEW q, NEW n, Reserve(u, q, n) PROVE NoCapture
  <2>1. reservations' = [p \in DOMAIN reservations \cup {q} |->
            IF p = q THEN [user |-> u, amount |-> n, captured |-> 0,
                           released |-> 0, status |-> "reserved", age |-> 0]
                     ELSE reservations[p]]
    BY <1>3 DEF Reserve, debitReservation
  <2> QED BY <2>1 DEF NoCapture
<1>4. ASSUME NEW q, TryRelease(q) PROVE NoCapture
  <2>1. CASE Release(q)
    <3>1. /\ q \in DOMAIN reservations
          /\ reservations' = [reservations EXCEPT ![q] =
                  [@ EXCEPT !.captured = 0,
                            !.released = outcome(reservations[q], 0, TRUE).returnAmt,
                            !.status = outcome(reservations[q], 0, TRUE).status]]
      BY <2>1 DEF Release, finalize
    <3>2. outcome(reservations[q], 0, TRUE).status = "released"
      BY DEF outcome
    <3>3. reservations[q] \in Reservation
      BY <3>1 DEF TypeOK
    <3>4. reservations'[q].status = "released"
      BY <3>1, <3>2, <3>3 DEF Reservation
    <3>5. /\ DOMAIN reservations' = DOMAIN reservations
          /\ \A p \in DOMAIN reservations : p # q => reservations'[p] = reservations[p]
      BY <3>1
    <3> QED BY <3>4, <3>5 DEF NoCapture
  <2>2. CASE UNCHANGED vars
    BY <1>1, <2>2 DEF vars
  <2> QED BY <1>4, <2>1, <2>2 DEF TryRelease
<1>5. ASSUME NEW r, Reconcile(r) PROVE NoCapture
  <2>1. ASSUME NEW st, expireOne(r, st) PROVE NoCapture
    <3>1. CASE StillReserved(st.id)
      <4>1. reservations' = [reservations EXCEPT ![st.id].status = "expired"]
        BY <2>1, <3>1 DEF expireOne
      <4>2. \A q \in DOMAIN reservations : reservations[q] \in Reservation
        BY DEF TypeOK
      <4> QED BY <4>1, <4>2 DEF NoCapture, Reservation
    <3>2. CASE ~ StillReserved(st.id)
      BY <1>1, <2>1, <3>2 DEF expireOne
    <3> QED BY <3>1, <3>2
  <2> QED BY <1>1, <1>5, <2>1 DEF Reconcile, expireStale, detectDrift
<1>6. ASSUME ClockTick PROVE NoCapture
  <2>1. \A q \in DOMAIN reservations : reservations[q] \in Reservation
    BY DEF TypeOK
  <2>2. ASSUME NEW res \in Reservation PROVE Older(res).status = res.status
    BY DEF Older, Reservation
  <2> QED BY <1>6, <2>1, <2>2 DEF ClockTick, NoCapture
<1> QED BY <1>1, <1>2, <1>3, <1>4, <1>5, <1>6

(***************************************************************************)
(* A settlement that succeeds captures the cost of its worker's call.      *)
(***************************************************************************)
Captures(w) ==
    /\ AtWork(w, "settle")
    /\ Goto(w, "audit")
    /\ work[w].req \in DOMAIN reservations
    /\ reservations'[work[w].req].status = "captured"
    /\ reservations'[work[w].req].captured = work[w].cost
    /\ \A p \in DOMAIN reservations' :
           p # work[w].req => p \in DOMAIN reservations /\ reservations'[p] = reservations[p]

(***************************************************************************)
(* SettleCall captures, or finds the reservation closed.                   *)
(***************************************************************************)
LEMMA SettleCaptures ==
  ASSUME TypeOK, NEW w \in Workers, SettleCall(w)
  PROVE  \/ Captures(w)
         \/ /\ Goto(w, "fail") /\ UNCHANGED vars
            /\ reservations[work[w].req].status # "reserved"
<1> DEFINE q == work[w].req
           c == work[w].cost
           out == outcome(reservations[q], c, FALSE)
<1>1. ASSUME Settle(q, c), Goto(w, "audit") PROVE Captures(w)
  <2>1. /\ q \in DOMAIN reservations
        /\ reservations' = [reservations EXCEPT ![q] =
               [@ EXCEPT !.captured = c, !.released = out.returnAmt,
                         !.status = out.status]]
    BY <1>1 DEF Settle, finalize
  <2>2. out.status = "captured"
    BY DEF outcome
  <2>3. reservations[q] \in Reservation
    BY <2>1 DEF TypeOK
  <2>4. reservations'[q].status = "captured" /\ reservations'[q].captured = c
    BY <2>1, <2>2, <2>3 DEF Reservation
  <2>5. \A p \in DOMAIN reservations' :
           p # q => p \in DOMAIN reservations /\ reservations'[p] = reservations[p]
    BY <2>1
  <2> QED BY <1>1, <2>1, <2>4, <2>5 DEF Captures, SettleCall
<1> QED BY <1>1 DEF SettleCall

(***************************************************************************)
(* After a Release whose error is ignored the reservation is closed.       *)
(***************************************************************************)
LEMMA TryReleaseCloses ==
  ASSUME TypeOK, NEW q, TryRelease(q)
  PROVE  q \in DOMAIN reservations' /\ reservations'[q].status # "reserved"
<1>1. CASE Release(q)
  <2>1. /\ q \in DOMAIN reservations
        /\ reservations' = [reservations EXCEPT ![q] =
                [@ EXCEPT !.captured = 0,
                          !.released = outcome(reservations[q], 0, TRUE).returnAmt,
                          !.status = outcome(reservations[q], 0, TRUE).status]]
    BY <1>1 DEF Release, finalize
  <2>2. outcome(reservations[q], 0, TRUE).status = "released"
    BY DEF outcome
  <2>3. reservations[q] \in Reservation
    BY <2>1 DEF TypeOK
  <2> QED BY <2>1, <2>2, <2>3 DEF Reservation
<1>2. CASE q \in DOMAIN reservations /\ reservations[q].status # "reserved" /\ UNCHANGED vars
  BY <1>2 DEF vars
<1> QED BY <1>1, <1>2 DEF TryRelease

(***************************************************************************)
(* Nothing but a worker's settlement captures.                             *)
(***************************************************************************)
LEMMA CaptureStep ==
  ASSUME TypeOK, [SettlementNext]_allVars
  PROVE  NoCapture \/ \E w \in Workers : Captures(w)
<1> UNCHANGED vars => UNCHANGED reservations
  BY DEF vars
<1>1. CASE \E u \in Users, n \in Amounts, k \in IdemKeys : TopUp(u, n, k)
  BY <1>1, QuietCaptures DEF TopUp
<1>2. CASE \E w \in Workers, u \in Users, q \in RequestIds, n \in Amounts : StartCall(w, u, q, n)
  BY <1>2, QuietCaptures DEF StartCall
<1>3. CASE \E w \in Workers, c \in Costs : ProviderAnswers(w, c)
  BY <1>3, QuietCaptures DEF ProviderAnswers
<1>4. CASE \E w \in Workers : ProviderFails(w)
  BY <1>4, QuietCaptures DEF ProviderFails
<1>5. ASSUME NEW w \in Workers, WorkStep(w)
      PROVE  NoCapture \/ Captures(w)
  <2>1. CASE SettleCall(w)
    BY <2>1, SettleCaptures, QuietCaptures
  <2>2. CASE ReleaseUnpriced(w)
    BY <2>2, QuietCaptures DEF ReleaseUnpriced
  <2>3. CASE EnqueueSettlement(w) \/ RecordUsage(w) \/ MarkFailed(w) \/ MarkSettled(w)
    BY <2>3, QuietCaptures DEF EnqueueSettlement, RecordUsage, MarkFailed, MarkSettled
  <2> QED BY <1>5, <2>1, <2>2, <2>3 DEF WorkStep
<1>6. ASSUME NEW s \in Sweepers, SweepStep(s)
      PROVE  NoCapture
  <2>1. CASE SweepRelease(s)
    BY <2>1, QuietCaptures DEF SweepRelease
  <2>2. CASE SweepList(s) \/ SweepNext(s) \/ SweepMark(s) \/ SweepDone(s)
    BY <2>2, QuietCaptures DEF SweepList, SweepNext, SweepMark, SweepDone
  <2> QED BY <1>6, <2>1, <2>2 DEF SweepStep
<1>7. CASE \E r \in Reconcilers : Maintain(r)
  BY <1>7, QuietCaptures DEF Maintain
<1>8. CASE Busy \/ Crash \/ UNCHANGED allVars
  BY <1>8, QuietCaptures DEF Busy, Crash, allVars
<1>9. CASE ClockTick
  BY <1>9, QuietCaptures
<1> QED BY <1>1, <1>2, <1>3, <1>4, <1>5, <1>6, <1>7, <1>8, <1>9 DEF SettlementNext

(***************************************************************************)
(* The steps of a worker, by where they lead, with what each one makes     *)
(* true.  A worker leaves its audit only with the row written or lost, and *)
(* its settlement only with the outbox row marked or the mark lost.        *)
(***************************************************************************)
WorkerKinds(v) ==
    LET old == work[v]
        new == work'[v]
    IN  /\ \/ new = old
           \/ new.pc = "idle"
           \/ new.pc = "reserved" /\ new.req \in DOMAIN reservations'
           \/ /\ new.pc = "calling" /\ old.pc = "reserved"
              /\ new.req = old.req /\ new.req \in DOMAIN outbox'
           \/ /\ new.pc = "settle" /\ old.pc = "calling" /\ new.req = old.req
              /\ new.req \in served' /\ new.cost \in Costs
           \/ /\ new.pc = "fail" /\ old.pc = "settle" /\ new.req = old.req
              /\ \/ reservations'[new.req].status # "reserved"
                 \/ <<"close", new.req>> \in lost'
           \/ /\ new.pc = "audit" /\ old.pc = "settle" /\ new.req = old.req
              /\ reservations'[new.req].status = "captured"
              /\ reservations'[new.req].captured = new.cost
           \/ new.pc = "mark" /\ old.pc = "audit" /\ new.req = old.req
        /\ old.pc = "audit" =>
               new = old \/ old.req \in DOMAIN usage' \/ <<"audit", old.req>> \in lost'
        /\ old.pc \in {"audit", "mark"} =>
               \/ new.pc \in {"audit", "mark"} /\ new.req = old.req
               \/ old.req \in DOMAIN outbox' /\ outbox'[old.req].status # "pending"
               \/ <<"mark", old.req>> \in lost'

(***************************************************************************)
(* Every step is of one of these kinds, for every worker.                  *)
(***************************************************************************)
LEMMA WorkerStep ==
  ASSUME TypeOK, SettlementTypeOK, OutboxIsReserved, WorkersKnow,
         [SettlementNext]_allVars, NEW v \in Workers
  PROVE  WorkerKinds(v)
<1>0. UNCHANGED work => WorkerKinds(v)
  BY DEF WorkerKinds
<1>b. ASSUME NEW w \in Workers, NEW pc, NEW q, NEW c, WorkMoves(w, WorkRow(pc, q, c)),
             v # w
      PROVE  WorkerKinds(v)
  BY <1>b, WorkMoved DEF WorkerKinds
<1>c. ASSUME NEW w \in Workers, NEW pc, Goto(w, pc)
      PROVE  /\ v # w => WorkerKinds(v)
             /\ work'[w].pc = pc /\ work'[w].req = work[w].req /\ work'[w].cost = work[w].cost
  BY <1>b, <1>c, GotoMoves, WorkMoved
<1>d. ASSUME NEW w \in Workers, work' = [work EXCEPT ![w] = IdleWorker],
             lost' = lost \cup Unwritten(w) \/ work[w].pc \notin {"audit", "mark"}
      PROVE  WorkerKinds(v)
  <2>1. WorkMoves(w, WorkRow("idle", NULL, 0))
    BY <1>d DEF WorkMoves, WorkRow, IdleWorker
  <2>2. work'[w].pc = "idle"
    BY <2>1, WorkMoved
  <2>3. work[w].pc = "audit" => {<<"audit", work[w].req>>, <<"mark", work[w].req>>} \subseteq lost'
    BY <1>d DEF Unwritten, AtWork
  <2>4. work[w].pc = "mark" => <<"mark", work[w].req>> \in lost'
    BY <1>d DEF Unwritten, AtWork
  <2> QED BY <1>b, <1>d, <2>1, <2>2, <2>3, <2>4 DEF WorkerKinds
<1>1. CASE \E u \in Users, n \in Amounts, k \in IdemKeys : TopUp(u, n, k)
  BY <1>0, <1>1 DEF TopUp, settlementVars
<1>2. ASSUME NEW w \in Workers, NEW u \in Users, NEW q \in RequestIds, NEW n \in Amounts,
             StartCall(w, u, q, n)
      PROVE  WorkerKinds(v)
  <2>1. WorkMoves(w, WorkRow("reserved", q, 0)) /\ work[w].pc = "idle"
    BY <1>2 DEF StartCall, WorkMoves, WorkRow, AtWork
  <2>2. q \in DOMAIN reservations'
    <3>1. CASE Reserve(u, q, n)
      BY <3>1 DEF Reserve, debitReservation
    <3>2. CASE q \in DOMAIN reservations /\ UNCHANGED vars
      BY <3>2 DEF vars
    <3> QED BY <1>2, <3>1, <3>2 DEF StartCall
  <2>3. work'[w].pc = "reserved" /\ work'[w].req = q
    BY <2>1, WorkMoved
  <2> QED BY <1>b, <2>1, <2>2, <2>3 DEF WorkerKinds
<1>3. ASSUME NEW w \in Workers, NEW c \in Costs, ProviderAnswers(w, c)
      PROVE  WorkerKinds(v)
  <2>1. work \in [Workers -> WorkRows]
    BY DEF SettlementTypeOK, WorkRows
  <2>2. work' = [work EXCEPT ![w].pc = "settle", ![w].cost = c]
    BY <1>3 DEF ProviderAnswers
  <2>3. /\ work'[w].pc = "settle" /\ work'[w].req = work[w].req /\ work'[w].cost = c
        /\ v # w => work'[v] = work[v]
    BY <2>1, <2>2 DEF WorkRows
  <2>4. work[w].pc = "calling" /\ work[w].req \in served'
    BY <1>3 DEF ProviderAnswers, AtWork
  <2> QED BY <2>3, <2>4 DEF WorkerKinds
<1>4. ASSUME NEW w \in Workers, ProviderFails(w)
      PROVE  WorkerKinds(v)
  BY <1>4, <1>d DEF ProviderFails, AtWork
<1>5. ASSUME NEW w \in Workers, EnqueueSettlement(w)
      PROVE  WorkerKinds(v)
  <2>1. work[w].req \in RequestIds /\ work[w].pc = "reserved"
    BY <1>5 DEF EnqueueSettlement, AtWork, WorkersKnow, TypeOK
  <2>2. work[w].req \in DOMAIN outbox'
    BY <1>5, <2>1, EnqueueKeeps
  <2>3. Goto(w, "calling")
    BY <1>5 DEF EnqueueSettlement
  <2> QED BY <1>c, <2>1, <2>2, <2>3 DEF WorkerKinds
<1>6. ASSUME NEW w \in Workers, ReleaseUnpriced(w)
      PROVE  WorkerKinds(v)
  <2>1. reservations'[work[w].req].status # "reserved"
    BY <1>6, TryReleaseCloses DEF ReleaseUnpriced
  <2> QED BY <1>6, <1>c, <2>1 DEF ReleaseUnpriced, AtWork, WorkerKinds
<1>7. ASSUME NEW w \in Workers, SettleCall(w)
      PROVE  WorkerKinds(v)
  <2>1. work[w].pc = "settle"
    BY <1>7 DEF SettleCall, AtWork
  <2>2. CASE Captures(w)
    BY <1>c, <2>1, <2>2 DEF Captures, WorkerKinds
  <2>3. CASE Goto(w, "fail") /\ UNCHANGED vars /\ reservations[work[w].req].status # "reserved"
    BY <1>c, <2>1, <2>3 DEF WorkerKinds, vars
  <2> QED BY <1>7, <2>2, <2>3, SettleCaptures
<1>8. ASSUME NEW w \in Workers, RecordUsage(w)
      PROVE  WorkerKinds(v)
  <2>1. work[w].pc = "audit" /\ Goto(w, "mark")
    BY <1>8 DEF RecordUsage, AtWork
  <2>2. work[w].req \in DOMAIN usage' \/ <<"audit", work[w].req>> \in lost'
    <3>1. \/ work[w].req \in DOMAIN usage /\ UNCHANGED usage
          \/ usage' = [p \in DOMAIN usage \cup {work[w].req} |->
                          IF p = work[w].req THEN work[w].cost ELSE usage[p]]
          \/ lost' = lost \cup {<<"audit", work[w].req>>}
      BY <1>8 DEF RecordUsage
    <3> QED BY <3>1
  <2> QED BY <1>c, <2>1, <2>2 DEF WorkerKinds
<1>9. ASSUME NEW w \in Workers, MarkFailed(w) \/ MarkSettled(w)
      PROVE  WorkerKinds(v)
  <2>1. CASE MarkFailed(w)
    BY <1>d, <2>1 DEF MarkFailed, AtWork
  <2>2. CASE MarkSettled(w)
    <3>1. /\ work[w].pc = "mark" /\ work[w].req \in DOMAIN outbox
          /\ SetStatus(work[w].req, "settled")
      BY <2>2 DEF MarkSettled, AtWork, WorkersKnow, Enqueued
    <3>2. work[w].req \in DOMAIN outbox' /\ outbox'[work[w].req].status # "pending"
      BY <3>1, SetStatusKeeps
    <3>3. WorkMoves(w, WorkRow("idle", NULL, 0))
      BY <2>2 DEF MarkSettled, WorkMoves, WorkRow, IdleWorker
    <3>4. work'[w].pc = "idle"
      BY <3>3, WorkMoved
    <3> QED BY <1>b, <3>1, <3>2, <3>3, <3>4 DEF WorkerKinds
  <2> QED BY <1>9, <2>1, <2>2
<1>10. ASSUME NEW s \in Sweepers, SweepStep(s)
       PROVE  WorkerKinds(v)
  BY <1>0, <1>10 DEF SweepStep, SweepList, SweepNext, SweepRelease, SweepMark, SweepDone
<1>11. CASE (\E r \in Reconcilers : Maintain(r)) \/ ClockTick \/ UNCHANGED allVars
  BY <1>0, <1>11 DEF Maintain, ClockTick, allVars, settlementVars
<1>12. CASE Busy
  <2>1. ASSUME NEW w \in Workers, AtWork(w, "settle"), Goto(w, "fail"),
               lost' = lost \cup {<<"close", work[w].req>>}
        PROVE  WorkerKinds(v)
    BY <1>c, <2>1 DEF AtWork, WorkerKinds
  <2> QED BY <1>0, <1>12, <1>d, <2>1 DEF Busy, BusyWorker, BusySweeper
<1>13. CASE Crash
  BY <1>0, <1>13, <1>d DEF Crash
<1> QED BY <1>1, <1>2, <1>3, <1>4, <1>5, <1>6, <1>7, <1>8, <1>9, <1>10, <1>11,
          <1>12, <1>13 DEF SettlementNext, WorkStep

(***************************************************************************)
(* The steps of a sweeper, by where they lead, with what each makes true.  *)
(***************************************************************************)
SweeperKinds(t) ==
    LET old == sweep[t]
        new == sweep'[t]
    IN  \/ new = old
        \/ new.pc = "idle" /\ new.ids = {}
        \/ new.pc = "next" /\ new.ids \subseteq DOMAIN outbox
        \/ /\ new.pc = "release" /\ new.ids \subseteq DOMAIN outbox
           /\ new.id \in DOMAIN outbox /\ outbox[new.id].age > OutboxStale
        \/ /\ new.pc = "mark" /\ old.pc = "release"
           /\ new.ids = old.ids /\ new.id = old.id
           /\ \/ reservations'[new.id].status # "reserved"
              \/ <<"close", new.id>> \in lost'

(***************************************************************************)
(* Every step is of one of these kinds, for every sweeper.                 *)
(***************************************************************************)
LEMMA SweeperStep ==
  ASSUME TypeOK, SettlementTypeOK, SweepersKnow, [SettlementNext]_allVars,
         NEW t \in Sweepers
  PROVE  SweeperKinds(t)
<1>0. UNCHANGED sweep => SweeperKinds(t)
  BY DEF SweeperKinds
<1>a. sweep[t] \in SweepRows /\ sweep \in [Sweepers -> SweepRows]
  BY DEF SettlementTypeOK, SweepRows
<1>b. sweep[t].ids \subseteq DOMAIN outbox
  BY DEF SweepersKnow
<1>c. ASSUME NEW s \in Sweepers, NEW row, sweep' = [sweep EXCEPT ![s] = row]
      PROVE  IF s = t THEN sweep'[t] = row ELSE SweeperKinds(t)
  BY <1>a, <1>c DEF SweeperKinds
<1>1. ASSUME NEW s \in Sweepers, SweepList(s)
      PROVE  SweeperKinds(t)
  <2>1. OldestPending \subseteq DOMAIN outbox
    BY DEF OldestPending, Pending
  <2>2. s = t => sweep'[t].pc = "next" /\ sweep'[t].ids = OldestPending
    BY <1>1, <1>a DEF SweepList, SweepRows
  <2>3. s # t => sweep'[t] = sweep[t]
    BY <1>1, <1>a DEF SweepList
  <2> QED BY <2>1, <2>2, <2>3 DEF SweeperKinds
<1>2. ASSUME NEW s \in Sweepers, SweepNext(s)
      PROVE  SweeperKinds(t)
  <2>1. PICK q \in sweep[s].ids :
               sweep' = [sweep EXCEPT ![s] =
                   IF Sweepable(q)
                   THEN [pc |-> "release", ids |-> sweep[s].ids \ {q}, id |-> q]
                   ELSE [sweep[s] EXCEPT !.ids = @ \ {q}]]
    BY <1>2 DEF SweepNext
  <2>2. CASE s # t
    BY <1>c, <2>1, <2>2
  <2>3. CASE s = t /\ Sweepable(q)
    <3>1. sweep'[t] = [pc |-> "release", ids |-> sweep[t].ids \ {q}, id |-> q]
      BY <1>a, <2>1, <2>3
    <3>2. q \in DOMAIN outbox /\ outbox[q].age > OutboxStale
      BY <1>b, <2>3 DEF Sweepable
    <3> QED BY <1>b, <3>1, <3>2 DEF SweeperKinds
  <2>4. CASE s = t /\ ~ Sweepable(q)
    <3>1. sweep'[t] = [sweep[t] EXCEPT !.ids = @ \ {q}]
      BY <1>a, <2>1, <2>4
    <3>2. sweep'[t].pc = "next" /\ sweep'[t].ids = sweep[t].ids \ {q}
      BY <1>2, <1>a, <2>4, <3>1 DEF SweepNext, SweepRows
    <3> QED BY <1>b, <3>2 DEF SweeperKinds
  <2> QED BY <2>2, <2>3, <2>4
<1>3. ASSUME NEW s \in Sweepers, sweep[s].pc = "release",
             sweep' = [sweep EXCEPT ![s].pc = "mark"],
             \/ reservations'[sweep[s].id].status # "reserved"
             \/ <<"close", sweep[s].id>> \in lost'
      PROVE  SweeperKinds(t)
  <2>1. CASE s # t
    BY <1>a, <1>3, <2>1 DEF SweeperKinds
  <2>2. CASE s = t
    <3>1. sweep'[t] = [sweep[t] EXCEPT !.pc = "mark"]
      BY <1>a, <1>3, <2>2
    <3>2. sweep'[t].pc = "mark" /\ sweep'[t].ids = sweep[t].ids /\ sweep'[t].id = sweep[t].id
      BY <1>a, <3>1 DEF SweepRows
    <3> QED BY <1>3, <2>2, <3>2 DEF SweeperKinds
  <2> QED BY <2>1, <2>2
<1>4. ASSUME NEW s \in Sweepers, sweep' = [sweep EXCEPT ![s].pc = "next", ![s].id = NULL]
      PROVE  SweeperKinds(t)
  <2>1. CASE s # t
    BY <1>a, <1>4, <2>1 DEF SweeperKinds
  <2>2. CASE s = t
    <3>1. sweep'[t].pc = "next" /\ sweep'[t].ids = sweep[t].ids
      BY <1>a, <1>4, <2>2 DEF SweepRows
    <3> QED BY <1>b, <3>1 DEF SweeperKinds
  <2> QED BY <2>1, <2>2
<1>5. ASSUME NEW s \in Sweepers, sweep' = [sweep EXCEPT ![s] = IdleSweeper]
      PROVE  SweeperKinds(t)
  BY <1>5, <1>c DEF SweeperKinds, IdleSweeper
<1>6. ASSUME NEW s \in Sweepers, SweepStep(s)
      PROVE  SweeperKinds(t)
  <2>1. CASE SweepRelease(s)
    <3>1. reservations'[sweep[s].id].status # "reserved"
      BY <2>1, TryReleaseCloses DEF SweepRelease
    <3> QED BY <1>3, <2>1, <3>1 DEF SweepRelease
  <2>2. CASE SweepMark(s)
    BY <1>4, <2>2 DEF SweepMark
  <2>3. CASE SweepDone(s)
    BY <1>5, <2>3 DEF SweepDone
  <2> QED BY <1>1, <1>2, <1>6, <2>1, <2>2, <2>3 DEF SweepStep
<1>7. ASSUME NEW w \in Workers, WorkStep(w)
      PROVE  SweeperKinds(t)
  BY <1>0, <1>7 DEF WorkStep, EnqueueSettlement, ReleaseUnpriced, SettleCall,
                    RecordUsage, MarkFailed, MarkSettled
<1>8. CASE Busy \/ Crash
  <2>1. ASSUME NEW s \in Sweepers, BusySweeper(s)
        PROVE  SweeperKinds(t)
    <3>1. CASE sweep' = [sweep EXCEPT ![s].pc = "mark"] /\ sweep[s].pc = "release"
               /\ lost' = lost \cup {<<"close", sweep[s].id>>}
      BY <1>3, <3>1
    <3> QED BY <1>4, <2>1, <3>1 DEF BusySweeper
  <2> QED BY <1>0, <1>5, <1>8, <2>1 DEF Busy, BusyWorker, Crash
<1>9. CASE \/ \E u \in Users, n \in Amounts, k \in IdemKeys : TopUp(u, n, k)
           \/ \E w \in Workers, u \in Users, q \in RequestIds, n \in Amounts : StartCall(w, u, q, n)
           \/ \E w \in Workers, c \in Costs : ProviderAnswers(w, c)
           \/ \E w \in Workers : ProviderFails(w)
           \/ \E r \in Reconcilers : Maintain(r)
           \/ ClockTick \/ UNCHANGED allVars
  BY <1>0, <1>9 DEF TopUp, StartCall, ProviderAnswers, ProviderFails, Maintain,
                    ClockTick, allVars, settlementVars
<1> QED BY <1>6, <1>7, <1>8, <1>9 DEF SettlementNext

-----------------------------------------------------------------------------
(***************************************************************************)
(* What a step adds to the two tables: an outbox row is inserted for the   *)
(* request of a worker that holds a reservation, becomes settled through a *)
(* worker that has captured, is otherwise finished by a worker or sweeper  *)
(* at its mark, and a usage row comes from a worker at its audit, with the *)
(* cost it captured.                                                       *)
(***************************************************************************)
OutboxKinds ==
    /\ IsFiniteSet(DOMAIN outbox')
    /\ DOMAIN outbox' \subseteq DOMAIN reservations
    /\ \A q \in DOMAIN outbox' : outbox'[q].status = "settled" =>
           \/ q \in DOMAIN outbox /\ outbox[q].status = "settled"
           \/ \E w \in Workers : AtWork(w, "mark") /\ work[w].req = q
    /\ \A q \in DOMAIN outbox' : outbox'[q].status # "pending" =>
           \/ q \in DOMAIN outbox /\ outbox[q].status # "pending"
           \/ \E w \in Workers : work[w].pc \in {"fail", "mark"} /\ work[w].req = q
           \/ \E s \in Sweepers : sweep[s].pc = "mark" /\ sweep[s].id = q

UsageKinds ==
    \A q \in DOMAIN usage' :
        \/ q \in DOMAIN usage /\ usage'[q] = usage[q]
        \/ \E w \in Workers : /\ AtWork(w, "audit") /\ work[w].req = q
                              /\ usage'[q] = work[w].cost

(***************************************************************************)
(* Every step is such a step.                                              *)
(***************************************************************************)
LEMMA TablesStep ==
  ASSUME TypeOK, SettlementTypeOK, OutboxIsReserved, WorkersKnow, SweepersKnow,
         [SettlementNext]_allVars
  PROVE  OutboxKinds /\ UsageKinds
<1>a. UNCHANGED outbox => OutboxKinds
  BY DEF OutboxKinds, OutboxIsReserved
<1>b. UNCHANGED usage => UsageKinds
  BY DEF UsageKinds
<1>c. ASSUME NEW q \in DOMAIN outbox, NEW st \in {"failed", "expired"}, SetStatus(q, st),
             \/ \E w \in Workers : work[w].pc \in {"fail", "mark"} /\ work[w].req = q
             \/ \E s \in Sweepers : sweep[s].pc = "mark" /\ sweep[s].id = q
      PROVE  OutboxKinds
  BY <1>c, SetStatusKeeps DEF OutboxKinds, OutboxIsReserved
<1>1. ASSUME NEW w \in Workers, EnqueueSettlement(w)
      PROVE  OutboxKinds /\ UsageKinds
  <2>1. work[w].req \in RequestIds /\ work[w].req \in DOMAIN reservations
    BY <1>1 DEF EnqueueSettlement, AtWork, WorkersKnow, TypeOK
  <2>2. OutboxKinds
    BY <1>1, <2>1, EnqueueKeeps DEF OutboxKinds, OutboxIsReserved
  <2> QED BY <1>1, <1>b, <2>2 DEF EnqueueSettlement
<1>2. ASSUME NEW w \in Workers, ReleaseUnpriced(w) \/ SettleCall(w)
      PROVE  OutboxKinds /\ UsageKinds
  BY <1>2, <1>a, <1>b DEF ReleaseUnpriced, SettleCall
<1>3. ASSUME NEW w \in Workers, RecordUsage(w)
      PROVE  OutboxKinds /\ UsageKinds
  <2>1. \/ UNCHANGED usage
        \/ usage' = [p \in DOMAIN usage \cup {work[w].req} |->
                        IF p = work[w].req THEN work[w].cost ELSE usage[p]]
    BY <1>3 DEF RecordUsage
  <2>2. UsageKinds
    BY <1>3, <1>b, <2>1 DEF UsageKinds, RecordUsage
  <2> QED BY <1>3, <1>a, <2>2 DEF RecordUsage
<1>4. ASSUME NEW w \in Workers, MarkFailed(w)
      PROVE  OutboxKinds /\ UsageKinds
  <2>1. work[w].req \in DOMAIN outbox
    BY <1>4 DEF MarkFailed, AtWork, WorkersKnow, Enqueued
  <2> QED BY <1>4, <1>b, <1>c, <2>1 DEF MarkFailed, AtWork
<1>5. ASSUME NEW w \in Workers, MarkSettled(w)
      PROVE  OutboxKinds /\ UsageKinds
  <2>1. work[w].req \in DOMAIN outbox
    BY <1>5 DEF MarkSettled, AtWork, WorkersKnow, Enqueued
  <2>2. /\ DOMAIN outbox' = DOMAIN outbox
        /\ \A p \in DOMAIN outbox : p # work[w].req => outbox'[p].status = outbox[p].status
    BY <1>5, <2>1, SetStatusKeeps DEF MarkSettled
  <2>3. OutboxKinds
    BY <1>5, <2>2 DEF OutboxKinds, OutboxIsReserved, MarkSettled, AtWork
  <2> QED BY <1>5, <1>b, <2>3 DEF MarkSettled
<1>6. ASSUME NEW s \in Sweepers, SweepStep(s)
      PROVE  OutboxKinds /\ UsageKinds
  <2>1. CASE SweepMark(s)
    BY <1>b, <1>c, <2>1 DEF SweepMark, SweepersKnow
  <2>2. CASE SweepList(s) \/ SweepNext(s) \/ SweepRelease(s) \/ SweepDone(s)
    BY <1>a, <1>b, <2>2 DEF SweepList, SweepNext, SweepRelease, SweepDone
  <2> QED BY <1>6, <2>1, <2>2 DEF SweepStep
<1>7. CASE ClockTick
  <2>1. OutboxKinds
    BY <1>7, ClockKeeps DEF OutboxKinds, OutboxIsReserved
  <2> QED BY <1>7, <1>b, <2>1 DEF ClockTick
<1>8. CASE \/ \E u \in Users, n \in Amounts, k \in IdemKeys : TopUp(u, n, k)
           \/ \E w \in Workers, u \in Users, q \in RequestIds, n \in Amounts : StartCall(w, u, q, n)
           \/ \E w \in Workers, c \in Costs : ProviderAnswers(w, c)
           \/ \E w \in Workers : ProviderFails(w)
           \/ \E r \in Reconcilers : Maintain(r)
           \/ Busy \/ Crash \/ UNCHANGED allVars
  BY <1>a, <1>b, <1>8 DEF TopUp, StartCall, ProviderAnswers, ProviderFails, Maintain,
                          Busy, Crash, allVars, settlementVars
<1> QED BY <1>1, <1>2, <1>3, <1>4, <1>5, <1>6, <1>7, <1>8 DEF SettlementNext, WorkStep

-----------------------------------------------------------------------------
(***************************************************************************)
(* The empty tables satisfy the settlement's invariant.                    *)
(***************************************************************************)
LEMMA SettlementInvInit == SettlementInit => SettlementInv
<1> SUFFICES ASSUME SettlementInit PROVE SettlementInv
  OBVIOUS
<1>1. /\ DOMAIN outbox = {} /\ DOMAIN usage = {} /\ DOMAIN reservations = {}
      /\ \A w \in Workers : work[w].pc = "idle"
      /\ \A s \in Sweepers : sweep[s].pc = "idle" /\ sweep[s].ids = {}
  BY DEF SettlementInit, Init, IdleWorker, IdleSweeper
<1>2. OutboxIsReserved
  BY <1>1, FS_EmptySet DEF OutboxIsReserved
<1>3. WorkersKnow /\ SweepersKnow
  BY <1>1 DEF WorkersKnow, SweepersKnow, Enqueued
<1> QED BY <1>1, <1>2, <1>3 DEF SettlementInv, SettledMeansCaptured,
          AuditMatchesCharge, FinishedIsClosed, CaptureLeavesATrace

(***************************************************************************)
(* Every step keeps it.                                                    *)
(***************************************************************************)
LEMMA SettlementInvNext ==
  ASSUME TypeOK, AccountingInv, SettlementTypeOK, SettlementTypeOK', SettlementInv,
         [SettlementNext]_allVars
  PROVE  SettlementInv'
<1> USE DEF SettlementInv
<1>1. Grows
  BY StepGrows
<1>2. \A w \in Workers : WorkerKinds(w)
  BY WorkerStep
<1>3. \A s \in Sweepers : SweeperKinds(s)
  BY SweeperStep
<1>4. OutboxKinds /\ UsageKinds
  BY TablesStep
<1>5. OutboxIsReserved'
  BY <1>1, <1>4 DEF OutboxIsReserved, OutboxKinds, Grows
<1>6. DOMAIN usage' \subseteq DOMAIN reservations'
  BY <1>1, <1>4 DEF UsageKinds, Grows, WorkersKnow, AtWork
<1>7. WorkersKnow'
  <2> SUFFICES ASSUME NEW w \in Workers
               PROVE  /\ work'[w].pc # "idle" => work'[w].req \in DOMAIN reservations'
                      /\ work'[w].pc \in Enqueued => work'[w].req \in DOMAIN outbox'
                      /\ work'[w].pc = "settle" =>
                             work'[w].req \in served' /\ work'[w].cost \in Costs
                      /\ work'[w].pc \in {"audit", "mark"} =>
                             reservations'[work'[w].req].status = "captured"
                      /\ work'[w].pc = "audit" =>
                             reservations'[work'[w].req].captured = work'[w].cost
                      /\ work'[w].pc = "fail" =>
                             \/ reservations'[work'[w].req].status # "reserved"
                             \/ <<"close", work'[w].req>> \in lost'
    BY DEF WorkersKnow, Ended
  <2>1. WorkerKinds(w)
    BY <1>2
  <2> QED BY <1>1, <2>1 DEF WorkerKinds, Grows, WorkersKnow, Enqueued, Ended
<1>8. SweepersKnow'
  <2> SUFFICES ASSUME NEW s \in Sweepers
               PROVE  /\ sweep'[s].ids \subseteq DOMAIN outbox'
                      /\ sweep'[s].pc \in {"release", "mark"} =>
                             /\ sweep'[s].id \in DOMAIN outbox'
                             /\ outbox'[sweep'[s].id].age > OutboxStale
                      /\ sweep'[s].pc = "mark" =>
                             \/ reservations'[sweep'[s].id].status # "reserved"
                             \/ <<"close", sweep'[s].id>> \in lost'
    BY DEF SweepersKnow, Ended
  <2>1. SweeperKinds(s)
    BY <1>3
  <2>2. /\ \A q \in DOMAIN outbox : outbox[q].age \in Int /\ outbox'[q].age \in Int
        /\ OutboxStale \in Int
    BY <1>1, OutboxAssumption DEF SettlementTypeOK, OutboxRow, Grows
  <2>3. \A q \in DOMAIN outbox : outbox[q].age > OutboxStale => outbox'[q].age > OutboxStale
    BY <1>1, <2>2 DEF Grows
  <2>4. DOMAIN outbox \subseteq DOMAIN reservations
    BY DEF OutboxIsReserved
  <2> QED BY <1>1, <2>1, <2>3, <2>4 DEF SweeperKinds, Grows, SweepersKnow, Ended
<1>9. SettledMeansCaptured'
  <2> SUFFICES ASSUME NEW q \in DOMAIN outbox', outbox'[q].status = "settled"
               PROVE  reservations'[q].status = "captured"
    BY DEF SettledMeansCaptured
  <2>1. q \in DOMAIN reservations /\ reservations[q].status = "captured"
    BY <1>4 DEF OutboxKinds, SettledMeansCaptured, WorkersKnow, AtWork
  <2> QED BY <1>1, <2>1 DEF Grows
<1>10. AuditMatchesCharge'
  <2> SUFFICES ASSUME NEW q \in DOMAIN usage'
               PROVE  /\ reservations'[q].status = "captured"
                      /\ reservations'[q].captured = usage'[q]
    BY DEF AuditMatchesCharge
  <2>1. /\ q \in DOMAIN reservations /\ reservations[q].status = "captured"
        /\ reservations[q].captured = usage'[q]
    BY <1>4 DEF UsageKinds, AuditMatchesCharge, WorkersKnow, AtWork
  <2> QED BY <1>1, <2>1 DEF Grows
<1>11. FinishedIsClosed'
  <2> SUFFICES ASSUME NEW q \in DOMAIN outbox', outbox'[q].status # "pending"
               PROVE  reservations'[q].status # "reserved" \/ <<"close", q>> \in lost'
    BY DEF FinishedIsClosed, Ended
  <2>1. q \in DOMAIN reservations
    BY <1>4 DEF OutboxKinds
  <2>2. Ended(q)
    BY <1>4 DEF OutboxKinds, FinishedIsClosed, WorkersKnow, SweepersKnow, Ended
  <2> QED BY <1>1, <2>1, <2>2 DEF Grows, Ended
<1>12. CaptureLeavesATrace'
  <2> DEFINE Audited(q) == \/ q \in DOMAIN usage
                           \/ <<"audit", q>> \in lost
                           \/ \E w \in Workers : work[w].pc = "audit" /\ work[w].req = q
             Marked(q) == \/ q \in DOMAIN outbox /\ outbox[q].status # "pending"
                          \/ <<"mark", q>> \in lost
                          \/ \E w \in Workers : work[w].pc \in {"audit", "mark"} /\ work[w].req = q
  <2> SUFFICES ASSUME NEW q \in DOMAIN reservations', reservations'[q].status = "captured"
               PROVE  Audited(q)' /\ Marked(q)'
    BY DEF CaptureLeavesATrace, AtWork
  <2>1. CASE q \in DOMAIN reservations /\ reservations[q].status = "captured"
    <3>1. Audited(q) /\ Marked(q)
      BY <2>1 DEF CaptureLeavesATrace, AtWork
    <3>2. Audited(q)'
      <4>1. CASE q \in DOMAIN usage \/ <<"audit", q>> \in lost
        BY <1>1, <4>1 DEF Grows
      <4>2. ASSUME NEW w \in Workers, work[w].pc = "audit", work[w].req = q
            PROVE  Audited(q)'
        BY <1>2, <4>2 DEF WorkerKinds
      <4> QED BY <3>1, <4>1, <4>2
    <3>3. Marked(q)'
      <4>1. CASE (q \in DOMAIN outbox /\ outbox[q].status # "pending") \/ <<"mark", q>> \in lost
        BY <1>1, <4>1 DEF Grows
      <4>2. ASSUME NEW w \in Workers, work[w].pc \in {"audit", "mark"}, work[w].req = q
            PROVE  Marked(q)'
        BY <1>2, <4>2 DEF WorkerKinds
      <4> QED BY <3>1, <4>1, <4>2
    <3> QED BY <3>2, <3>3
  <2>2. CASE ~ (q \in DOMAIN reservations /\ reservations[q].status = "captured")
    <3>1. PICK w \in Workers : Captures(w)
      BY <2>2, CaptureStep DEF NoCapture
    <3>2. q = work[w].req
      BY <2>2, <3>1 DEF Captures
    <3>3. work'[w].pc = "audit" /\ work'[w].req = q
      BY <3>1, <3>2, GotoMoves, WorkMoved DEF Captures
    <3> QED BY <3>3
  <2> QED BY <2>1, <2>2
<1> QED BY <1>5, <1>6, <1>7, <1>8, <1>9, <1>10, <1>11, <1>12

(***************************************************************************)
(* The tables of the ledger, the outbox and the audit trail, and what the  *)
(* workers, sweepers and Reconcile loops know of them, fit together in     *)
(* every run of the settlement.                                            *)
(***************************************************************************)
THEOREM SettlementCorrect ==
  SettlementSpec => [](TypeOK /\ AccountingInv /\ SettlementTypeOK /\ SettlementInv)
<1> DEFINE I == TypeOK /\ AccountingInv /\ SettlementTypeOK /\ SettlementInv
<1>1. SettlementInit => I
  BY TypeInit, AccountingInit, SettlementTypeInit, SettlementInvInit DEF SettlementInit
<1>2. I /\ [SettlementNext]_allVars => I'
  <2> SUFFICES ASSUME I, [SettlementNext]_allVars PROVE I'
    OBVIOUS
  <2>1. OutboxIsReserved /\ WorkersKnow /\ SweepersKnow
    BY DEF SettlementInv
  <2>2. [Next]_vars
    BY <2>1, CreditsStep
  <2>3. TypeOK'
    BY <2>2, TypeNext
  <2>4. AccountingInv'
    BY <2>2, <2>3, AccountingNext
  <2>5. SettlementTypeOK'
    BY <2>1, SettlementTypeNext
  <2>6. SettlementInv'
    BY <2>5, SettlementInvNext
  <2> QED BY <2>3, <2>4, <2>5, <2>6
<1> QED BY <1>1, <1>2, PTL DEF SettlementSpec

(***************************************************************************)
(* The settlement implements the ledger service: seen from the ledger,     *)
(* every behaviour of workers, sweepers, Reconcile loops, crashes and      *)
(* database errors is one of module Credits, so all its theorems hold here *)
(* too.                                                                    *)
(***************************************************************************)
THEOREM SettlementImplementsCredits == SettlementSpec => Spec
<1>1. SettlementInit => Init
  BY DEF SettlementInit
<1>2. TypeOK /\ SettlementInv /\ [SettlementNext]_allVars => [Next]_vars
  BY CreditsStep DEF SettlementInv
<1> QED BY <1>1, <1>2, SettlementCorrect, PTL DEF SettlementSpec, Spec

(***************************************************************************)
(* The credits of users stay in escrow while calls are settled, retried,   *)
(* abandoned and swept.                                                    *)
(***************************************************************************)
THEOREM SettlementIsEscrow == SettlementSpec => ImplementsEscrow
BY SettlementImplementsCredits, ServiceIsEscrow, PTL

(***************************************************************************)
(* The outbox, the usage table, the workers and the sweepers are well      *)
(* typed.                                                                  *)
(***************************************************************************)
THEOREM SettlementTypeCorrect == SettlementSpec => []SettlementTypeOK
BY SettlementCorrect, PTL

(***************************************************************************)
(* A row that says settled has a captured reservation, whatever workers,   *)
(* sweepers and Reconcile raced for the request.                           *)
(***************************************************************************)
THEOREM SettledIsCaptured == SettlementSpec => []SettledMeansCaptured
<1>1. SettlementInv => SettledMeansCaptured
  BY DEF SettlementInv
<1> QED BY <1>1, SettlementCorrect, PTL

(***************************************************************************)
(* RecordUsage writes the credits that Settle captured, and nothing else,  *)
(* also when several workers settle the same request.                      *)
(***************************************************************************)
THEOREM AuditIsTrue == SettlementSpec => []AuditMatchesCharge
<1>1. SettlementInv => AuditMatchesCharge
  BY DEF SettlementInv
<1> QED BY <1>1, SettlementCorrect, PTL

(***************************************************************************)
(* An outbox row that is no longer pending has a closed reservation,       *)
(* whoever finished it, unless a Settle or Release of that very request    *)
(* met a busy database: no hold is left for a sweeper that will never look *)
(* again.                                                                  *)
(***************************************************************************)
THEOREM FinishedHoldsAreClosed == SettlementSpec => []FinishedIsClosed
<1>1. SettlementInv => FinishedIsClosed
  BY DEF SettlementInv
<1> QED BY <1>1, SettlementCorrect, PTL

(***************************************************************************)
(* A captured request is audited and its row marked, unless its own worker *)
(* is still at it or lost that very write (a crash, a busy database, usage *)
(* that validateUsage refuses).                                            *)
(***************************************************************************)
THEOREM CaptureIsTraced == SettlementSpec => []CaptureLeavesATrace
<1>1. SettlementInv => CaptureLeavesATrace
  BY DEF SettlementInv
<1> QED BY <1>1, SettlementCorrect, PTL

(***************************************************************************)
(* ProcessSettlementOutbox acts only on rows older than the threshold,     *)
(* however long ago it listed them.                                        *)
(***************************************************************************)
THEOREM SweepIsNeverEarly == SettlementSpec => NeverSweptEarly
<1>1. SettlementInv =>
        [\A s \in Sweepers :
            sweep[s].pc = "release" /\ sweep'[s].pc = "mark" =>
                outbox[sweep[s].id].age > OutboxStale]_allVars
  BY DEF SettlementInv, SweepersKnow
<1> QED BY <1>1, SettlementCorrect, PTL DEF NeverSweptEarly
=============================================================================
