------------------------------- MODULE Credits -------------------------------
(***************************************************************************)
(* The credit ledger of package credits: the accounts, the append-only     *)
(* transaction ledger, the reservations that hold credits while an LLM     *)
(* call runs, and Reconcile, which gives stale holds back.                 *)
(*                                                                         *)
(* Every operation of the service that writes runs in one transaction      *)
(* opened with BEGIN IMMEDIATE (credits.go, immediateTx), so each is one   *)
(* action here.  Reconcile is the exception: it reads the stale            *)
(* reservations first and expires them one transaction at a time, from     *)
(* what it read, while everything else goes on.                            *)
(*                                                                         *)
(* An operation that returns an error changes nothing; it is a guard.      *)
(***************************************************************************)
EXTENDS Integers, Sequences, FiniteSets, Sums

CONSTANTS
    Users,          \* user ids
    RequestIds,     \* request ids of metered calls
    IdemKeys,       \* idempotency keys that callers pass to Grant and Refund
    Amounts,        \* amounts that callers pass to Grant, Refund and Reserve
    Costs,          \* actual costs that callers pass to Settle
    Reconcilers,    \* the loops that call Reconcile, one per app instance
    Timeout,        \* Config.ReservationTimeout, in ticks of the clock
    MaxAborts,      \* bound: how many Reconcile runs end early
    NULL            \* SQL's NULL

ASSUME AmountsAssumption == Amounts \subseteq Int /\ Costs \subseteq Int
ASSUME TimeAssumption == Timeout \in Nat /\ MaxAborts \in Nat
ASSUME NullAssumption == NULL \notin RequestIds /\ NULL \notin IdemKeys

VARIABLES
    accounts,       \* credit_accounts: user_id -> balance
    ledger,         \* credit_transactions, in the order of insertion
    reservations,   \* credit_reservations: request_id -> row
    recon,          \* the local variables of every running Reconcile
    aborts          \* Reconcile runs that ended early so far

vars == <<accounts, ledger, reservations, recon, aborts>>

-----------------------------------------------------------------------------
(***************************************************************************)
(* The tables.                                                             *)
(***************************************************************************)
Statuses == {"reserved", "captured", "released", "expired"}

LedgerTypes == {"grant", "refund", "reservation", "reservation_release",
                "reservation_overage"}

(***************************************************************************)
(* The key of a reservation's debit, "resv:" + request_id.  All keys share *)
(* one UNIQUE column, whatever they are for.                               *)
(***************************************************************************)
ReserveKey(q) == <<"resv", q>>

AllKeys == IdemKeys \cup {ReserveKey(q) : q \in RequestIds}

Row(u, amount, typ, ref, key) ==
    [user |-> u, amount |-> amount, type |-> typ, ref |-> ref, key |-> key]

Rows == [user : Users, amount : Int, type : LedgerTypes,
         ref : RequestIds \cup {NULL}, key : AllKeys \cup {NULL}]

(***************************************************************************)
(* A reservation row.  Its id is random and its request_id UNIQUE, so rows *)
(* are named by their request_id.  age is the time since created_at; it    *)
(* stops one tick beyond the timeout, where nothing distinguishes it       *)
(* further, and when the reservation is closed.                            *)
(***************************************************************************)
Reservation == [user : Users, amount : Int, captured : Int, released : Int,
                status : Statuses, age : 0 .. Timeout + 1]

UsedKeys == {ledger[i].key : i \in DOMAIN ledger} \ {NULL}

(***************************************************************************)
(* Whether the UNIQUE index on idempotency_key takes a key.  Mutant: there *)
(* is no such index.                                                       *)
(***************************************************************************)
FreshKeyAssumed(key) == TRUE

FreshKey(key) == key \notin UsedKeys

Balance(u) == IF u \in DOMAIN accounts THEN accounts[u] ELSE 0

LedgerSum(log, u) ==
    Total([i \in 1 .. Len(log) |-> IF log[i].user = u THEN log[i].amount ELSE 0])

-----------------------------------------------------------------------------
Init ==
    /\ accounts = [u \in {} |-> 0]
    /\ ledger = << >>
    /\ reservations = [q \in {} |-> 0]
    /\ recon = [r \in Reconcilers |->
                    [pc |-> "idle", stales |-> {}, mismatches |-> {}]]
    /\ aborts = 0

(***************************************************************************)
(* Grant and Refund: one keyed ledger row and the same change of the       *)
(* balance, creating the account on its first row.                         *)
(***************************************************************************)
adjust(u, amount, key, typ) ==
    /\ FreshKey(key)
    /\ ledger' = Append(ledger, Row(u, amount, typ, NULL, key))
    /\ accounts' = [w \in DOMAIN accounts \cup {u} |->
                        IF w = u THEN Balance(u) + amount ELSE accounts[w]]
    /\ UNCHANGED <<reservations, recon, aborts>>

Grant(u, amount, key) ==
    /\ amount > 0
    /\ adjust(u, amount, key, "grant")

Refund(u, amount, key) ==
    /\ amount > 0
    /\ adjust(u, -amount, key, "refund")

(***************************************************************************)
(* The WHERE of the debit.  Mutant: the balance must not be negative, "not *)
(* merely < amount".                                                       *)
(***************************************************************************)
CoversNothing(u, amount) == accounts[u] >= 0

Covers(u, amount) == accounts[u] - amount >= 0

(***************************************************************************)
(* Reserve.  A request that has a reservation already gets that one back   *)
(* and nothing changes.  The debit needs an account row, and a key that no *)
(* caller has spent: the insert of the ledger row fails otherwise and the  *)
(* transaction is rolled back.                                             *)
(***************************************************************************)
debitReservation(u, q, amount) ==
    /\ u \in DOMAIN accounts
    /\ Covers(u, amount)
    /\ FreshKey(ReserveKey(q))
    /\ accounts' = [accounts EXCEPT ![u] = @ - amount]
    /\ reservations' = [p \in DOMAIN reservations \cup {q} |->
            IF p = q THEN [user |-> u, amount |-> amount, captured |-> 0,
                           released |-> 0, status |-> "reserved", age |-> 0]
                     ELSE reservations[p]]
    /\ ledger' = Append(ledger, Row(u, -amount, "reservation", q, ReserveKey(q)))

Reserve(u, q, amount) ==
    /\ amount >= 1
    /\ q \notin DOMAIN reservations
    /\ debitReservation(u, q, amount)
    /\ UNCHANGED <<recon, aborts>>

(***************************************************************************)
(* Mutants: a settle beyond the reserve draws nothing; the row's source is *)
(* written as its type.                                                    *)
(***************************************************************************)
outcomeClamped(res, captured, releaseAll) ==
    LET back == IF releaseAll THEN res.amount
                ELSE IF captured > res.amount THEN 0 ELSE res.amount - captured
    IN  [returnAmt |-> back, adjust |-> back,
         status |-> IF releaseAll THEN "released" ELSE "captured",
         ledType |-> "reservation_release"]

outcomeMistyped(res, captured, releaseAll) ==
    [outcomeClamped(res, captured, releaseAll) EXCEPT !.ledType = "llm_settle"]

(***************************************************************************)
(* What Settle and Release make of a reservation: the part of the hold     *)
(* that goes back, the signed ledger adjustment, and how it is recorded.   *)
(***************************************************************************)
outcome(res, captured, releaseAll) ==
    IF releaseAll
    THEN [returnAmt |-> res.amount, adjust |-> res.amount,
          status |-> "released", ledType |-> "reservation_release"]
    ELSE IF captured > res.amount
    THEN [returnAmt |-> 0, adjust |-> -(captured - res.amount),
          status |-> "captured", ledType |-> "reservation_overage"]
    ELSE [returnAmt |-> res.amount - captured,
          adjust |-> res.amount - captured,
          status |-> "captured", ledType |-> "reservation_release"]

(***************************************************************************)
(* Mutant: the ledger row is written and the balance forgotten.            *)
(***************************************************************************)
writeReturnUnbalanced(u, q, amount, ledType) ==
    /\ ledger' = Append(ledger, Row(u, amount, ledType, q, NULL))
    /\ UNCHANGED accounts

(***************************************************************************)
(* A ledger row without a key that refers to a reservation, and the same   *)
(* change of the balance (an UPDATE: without an account it changes none).  *)
(***************************************************************************)
writeReturn(u, q, amount, ledType) ==
    /\ ledger' = Append(ledger, Row(u, amount, ledType, q, NULL))
    /\ accounts' = [accounts EXCEPT ![u] = @ + amount]

finalize(q, captured, releaseAll) ==
    /\ releaseAll \/ captured >= 0
    /\ q \in DOMAIN reservations
    /\ reservations[q].status = "reserved"
    /\ LET res == reservations[q]
           out == outcome(res, captured, releaseAll)
       IN  /\ IF out.adjust # 0
              THEN writeReturn(res.user, q, out.adjust, out.ledType)
              ELSE UNCHANGED <<ledger, accounts>>
           /\ reservations' = [reservations EXCEPT ![q] =
                  [@ EXCEPT !.captured = captured, !.released = out.returnAmt,
                            !.status = out.status]]
    /\ UNCHANGED <<recon, aborts>>

Settle(q, captured) == finalize(q, captured, FALSE)

Release(q) == finalize(q, 0, TRUE)

-----------------------------------------------------------------------------
(***************************************************************************)
(* Mutants: a reservation is stale one tick too early; the status looked   *)
(* for is that of an outbox row.                                           *)
(***************************************************************************)
StaleAtTimeout(res) == res.status = "reserved" /\ res.age >= Timeout

StalePending(res) == res.status = "pending" /\ res.age > Timeout

(***************************************************************************)
(* Reconcile, run by r: read what is stale, expire it row by row, report   *)
(* the drift.                                                              *)
(***************************************************************************)
Stale(res) == res.status = "reserved" /\ res.age > Timeout

expireStale(r) ==
    /\ recon[r].pc = "idle"
    /\ recon' = [recon EXCEPT ![r] =
           [pc |-> "expire",
            stales |-> {[id |-> q, user |-> reservations[q].user,
                         amount |-> reservations[q].amount] :
                        q \in {p \in DOMAIN reservations : Stale(reservations[p])}},
            mismatches |-> {}]]
    /\ UNCHANGED <<accounts, ledger, reservations, aborts>>

(***************************************************************************)
(* The WHERE of expireOne's update.  Mutant: the status that the scan read *)
(* is trusted.                                                             *)
(***************************************************************************)
StillReservedAssumed(q) == TRUE

StillReserved(q) == reservations[q].status = "reserved"

(***************************************************************************)
(* One transaction of the loop, for the row st that the scan read.  The    *)
(* amount returned is the one read then; the status is checked now.        *)
(***************************************************************************)
expireOne(r, st) ==
    /\ recon[r].pc = "expire"
    /\ st \in recon[r].stales
    /\ IF StillReserved(st.id)
       THEN /\ reservations' = [reservations EXCEPT ![st.id].status = "expired"]
            /\ writeReturn(st.user, st.id, st.amount, "reservation_release")
       ELSE UNCHANGED <<accounts, ledger, reservations>>
    /\ recon' = [recon EXCEPT ![r].stales = @ \ {st}]
    /\ UNCHANGED aborts

(***************************************************************************)
(* The query of detectDrift: users that have an account or a ledger row    *)
(* and whose balance is not the sum of their rows.                         *)
(***************************************************************************)
Mismatches ==
    {u \in DOMAIN accounts \cup {ledger[i].user : i \in DOMAIN ledger} :
        Balance(u) # LedgerSum(ledger, u)}

detectDrift(r) ==
    /\ recon[r].pc = "expire"
    /\ recon[r].stales = {}
    /\ recon' = [recon EXCEPT ![r].pc = "idle", ![r].mismatches = Mismatches]
    /\ UNCHANGED <<accounts, ledger, reservations, aborts>>

(***************************************************************************)
(* A Reconcile that returns early, or dies with its process: an error of   *)
(* one expireOne ends the whole run, and what it had read is gone.         *)
(***************************************************************************)
Abort(r) ==
    /\ recon[r].pc = "expire"
    /\ aborts < MaxAborts
    /\ aborts' = aborts + 1
    /\ recon' = [recon EXCEPT ![r].pc = "idle", ![r].stales = {}]
    /\ UNCHANGED <<accounts, ledger, reservations>>

(***************************************************************************)
(* The clock.                                                              *)
(***************************************************************************)
Tick ==
    /\ \E q \in DOMAIN reservations :
           reservations[q].status = "reserved" /\ reservations[q].age <= Timeout
    /\ reservations' = [q \in DOMAIN reservations |->
           IF reservations[q].status = "reserved" /\ reservations[q].age <= Timeout
           THEN [reservations[q] EXCEPT !.age = @ + 1]
           ELSE reservations[q]]
    /\ UNCHANGED <<accounts, ledger, recon, aborts>>

-----------------------------------------------------------------------------
Operation ==
    \/ \E u \in Users, n \in Amounts, k \in IdemKeys : Grant(u, n, k)
    \/ \E u \in Users, n \in Amounts, k \in IdemKeys : Refund(u, n, k)
    \/ \E u \in Users, q \in RequestIds, n \in Amounts : Reserve(u, q, n)
    \/ \E q \in RequestIds, c \in Costs : Settle(q, c)
    \/ \E q \in RequestIds : Release(q)

Reconcile(r) ==
    \/ expireStale(r)
    \/ \E st \in recon[r].stales : expireOne(r, st)
    \/ detectDrift(r)

Next ==
    \/ Operation
    \/ \E r \in Reconcilers : Reconcile(r)
    \/ \E r \in Reconcilers : Abort(r)
    \/ Tick

Spec == Init /\ [][Next]_vars

(***************************************************************************)
(* The clock advances, and every app keeps calling Reconcile on a timer.   *)
(***************************************************************************)
FairSpec ==
    /\ Spec
    /\ WF_vars(Tick)
    /\ \A r \in Reconcilers : WF_vars(Reconcile(r))

-----------------------------------------------------------------------------
(***************************************************************************)
(* The shape of the tables and of what a Reconcile remembers.              *)
(***************************************************************************)
StaleRows == [id : RequestIds, user : Users, amount : Int]

TypeOK ==
    /\ DOMAIN accounts \subseteq Users
    /\ accounts \in [DOMAIN accounts -> Int]
    /\ ledger \in Seq(Rows)
    /\ DOMAIN reservations \subseteq RequestIds
    /\ reservations \in [DOMAIN reservations -> Reservation]
    /\ recon \in [Reconcilers ->
           [pc : {"idle", "expire"}, stales : SUBSET StaleRows,
            mismatches : SUBSET Users]]
    /\ aborts \in 0 .. MaxAborts

(***************************************************************************)
(* balance == SUM(ledger) for every user: detectDrift never has anything   *)
(* to report.                                                              *)
(***************************************************************************)
NoDrift == Mismatches = {}

(***************************************************************************)
(* What a reservation still holds of its user's credits, or has taken.     *)
(***************************************************************************)
Owed(res) ==
    CASE res.status = "reserved" -> res.amount
      [] res.status = "captured" -> res.captured
      [] OTHER                   -> 0

RefSum(log, q) ==
    Total([i \in 1 .. Len(log) |-> IF log[i].ref = q THEN log[i].amount ELSE 0])

(***************************************************************************)
(* The ledger rows that refer to a reservation add up to exactly what it   *)
(* holds while it is open, to the captured cost once it is settled, and to *)
(* nothing once it is released or expired: finalize and expireOne, racing  *)
(* for the same row, return the hold once.                                 *)
(***************************************************************************)
ReservationsBalance ==
    \A q \in DOMAIN reservations : RefSum(ledger, q) = - Owed(reservations[q])

TypeSum(log, u, typs) ==
    Total([i \in 1 .. Len(log) |->
              IF log[i].user = u /\ log[i].type \in typs THEN log[i].amount ELSE 0])

DebtTypes == {"refund", "reservation_overage"}

(***************************************************************************)
(* A user is never deeper in debt than what was refunded from the account  *)
(* and what settlements drew beyond their reserve: no sequence of Reserve, *)
(* Settle, Release and expiry overdraws an account by itself.              *)
(***************************************************************************)
DebtIsExplained ==
    \A u \in Users :
        Balance(u) >= TypeSum(ledger, u, DebtTypes)

(***************************************************************************)
(* The UNIQUE idempotency_key: no key pays twice, also when a caller's key *)
(* is one that Reserve derives from a request id.                          *)
(***************************************************************************)
KeysPayOnce ==
    \A i, j \in DOMAIN ledger :
        ledger[i].key = ledger[j].key /\ ledger[i].key # NULL => i = j

(***************************************************************************)
(* A closed reservation is never touched again, by no late Settle, Release *)
(* or expiry, and no later ledger row refers to it.                        *)
(***************************************************************************)
ClosedIsFinal ==
    [][\A q \in DOMAIN reservations :
          reservations[q].status # "reserved" =>
              /\ reservations'[q] = reservations[q]
              /\ RefSum(ledger', q) = RefSum(ledger, q)]_vars

(***************************************************************************)
(* Reconcile expires only reservations older than the timeout, also when   *)
(* the request was settled or the scan is old.                             *)
(***************************************************************************)
NeverExpiredEarly ==
    [][\A q \in DOMAIN reservations :
          reservations[q].status = "reserved" /\ reservations'[q].status = "expired"
              => reservations[q].age > Timeout]_vars

(***************************************************************************)
(* No hold lasts: a reservation whose call never settles is given back.    *)
(***************************************************************************)
HoldsEnd ==
    \A q \in RequestIds :
        (q \in DOMAIN reservations /\ reservations[q].status = "reserved")
            ~> (q \in DOMAIN reservations /\ reservations[q].status # "reserved")

-----------------------------------------------------------------------------
(***************************************************************************)
(* Why the accounting holds.  The properties above are not inductive: they *)
(* rest on what the tables say of one another, and on what a Reconcile     *)
(* that was interrupted between its scan and its writes still knows.       *)
(***************************************************************************)

(***************************************************************************)
(* Accounts agree with the ledger, seen from every user.                   *)
(***************************************************************************)
BalancesAgree == \A u \in Users : Balance(u) = LedgerSum(ledger, u)

(***************************************************************************)
(* A hold is positive and its user has an account, so that the UPDATE of   *)
(* writeReturn finds a row.                                                *)
(***************************************************************************)
HoldsAreFunded ==
    \A q \in DOMAIN reservations :
        /\ reservations[q].amount >= 1
        /\ reservations[q].user \in DOMAIN accounts

(***************************************************************************)
(* No ledger row refers to a request before its reservation exists.        *)
(***************************************************************************)
NothingOwedBefore ==
    \A q \in RequestIds \ DOMAIN reservations : RefSum(ledger, q) = 0

(***************************************************************************)
(* What a Reconcile read of a row stays true until it acts on it: the user *)
(* and the amount never change, and while the row is still reserved it is  *)
(* still older than the timeout.                                           *)
(***************************************************************************)
SnapshotsHold ==
    \A r \in Reconcilers : \A st \in recon[r].stales :
        /\ st.id \in DOMAIN reservations
        /\ st.user = reservations[st.id].user
        /\ st.amount = reservations[st.id].amount
        /\ reservations[st.id].status = "reserved" =>
               reservations[st.id].age > Timeout

(***************************************************************************)
(* Refunds and overages only ever take credits away.                       *)
(***************************************************************************)
DebtsAreDebits ==
    \A u \in Users : TypeSum(ledger, u, DebtTypes) <= 0

AccountingInv ==
    /\ BalancesAgree
    /\ HoldsAreFunded
    /\ NothingOwedBefore
    /\ SnapshotsHold
    /\ ReservationsBalance
    /\ DebtsAreDebits
    /\ DebtIsExplained
=============================================================================
