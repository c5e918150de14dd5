-------------------------- MODULE EntitlementsProofs -------------------------
(***************************************************************************)
(* Proofs about the monthly grant, for any number of callers, users, plans *)
(* and months.                                                             *)
(*                                                                         *)
(* What makes the grant happen once is the UNIQUE key alone: a call acts   *)
(* on a subscription and a month that it read earlier.  The inductive      *)
(* invariant says what such a call still knows, and that every row of the  *)
(* ledger carries the key of its user and of a month that has begun.       *)
(***************************************************************************)
EXTENDS Entitlements, CreditsProofs

(***************************************************************************)
(* Everything that the proofs need of a state.                             *)
(***************************************************************************)
GrantsInv == TypeOK /\ AccountingInv /\ EntitlementsInv

(***************************************************************************)
(* The keys of two grants are the same only for one user and one month,    *)
(* and none is NULL.                                                       *)
(***************************************************************************)
LEMMA KeysDiffer ==
  /\ \A u, w, p, r : monthlyGrantKey(u, p) = monthlyGrantKey(w, r) => u = w /\ p = r
  /\ \A u \in Users, p \in 1 .. MaxPeriod :
        monthlyGrantKey(u, p) \in IdemKeys /\ monthlyGrantKey(u, p) # NULL
BY MonthlyKeysAssumption, NullAssumption DEF monthlyGrantKey

(***************************************************************************)
(* The credits of a plan are an integer, also for an unknown plan.         *)
(***************************************************************************)
LEMMA PlanCreditType == \A plan : planCreditFor(plan) \in Int
BY PlanAssumption DEF planCreditFor

(***************************************************************************)
(* What the statements of one call do: it moves on by itself, and only its *)
(* last statement may write the ledger.                                    *)
(***************************************************************************)
LEMMA CallTypes ==
  ASSUME EntitlementsTypeOK, NEW c \in Callers
  PROVE  /\ period \in Int /\ period >= 1 /\ period <= MaxPeriod /\ MaxPeriod \in Int
         /\ calls[c] \in CallRows
         /\ calls[c].pc \in {"idle", "key", "grant", "cancel"}
         /\ calls[c].user \in Users \cup {NULL}
         /\ calls[c].plan \in Plans \cup {NULL}
         /\ calls[c].period \in 0 .. MaxPeriod
<1>1. calls[c] \in CallRows
  BY DEF EntitlementsTypeOK
<1>2. period \in 1 .. MaxPeriod /\ MaxPeriod \in Int
  BY PlanAssumption DEF EntitlementsTypeOK
<1> QED BY <1>1, <1>2 DEF CallRows

(***************************************************************************)
(* The initial state satisfies the invariant.                              *)
(***************************************************************************)
LEMMA GrantsInit == EntitlementsInit => GrantsInv
<1> SUFFICES ASSUME EntitlementsInit PROVE GrantsInv
  OBVIOUS
<1>1. TypeOK /\ AccountingInv
  BY TypeInit, AccountingInit DEF EntitlementsInit
<1>2. EntitlementsTypeOK
  <2>1. IdleCall \in CallRows
    BY PlanAssumption DEF IdleCall, CallRows
  <2> QED BY <2>1, PlanAssumption DEF EntitlementsInit, EntitlementsTypeOK
<1>3. KeysPayOnce /\ RowsAreMonthly
  BY DEF EntitlementsInit, Init, KeysPayOnce, RowsAreMonthly
<1>5. CallsKnow
  BY DEF EntitlementsInit, CallsKnow, IdleCall
<1> QED BY <1>1, <1>2, <1>3, <1>5 DEF GrantsInv, EntitlementsInv

(***************************************************************************)
(* A step that does not write the tables of the service keeps what holds   *)
(* of them.                                                                *)
(***************************************************************************)
LEMMA QuietGrants ==
  ASSUME GrantsInv, UNCHANGED vars, period' \in Int, period' >= period
  PROVE  TypeOK' /\ AccountingInv' /\ KeysPayOnce' /\ RowsAreMonthly'
<1>1. TypeOK' /\ AccountingInv'
  BY TypeNext, AccountingNext DEF GrantsInv
<1>2. KeysPayOnce'
  BY KeysNext DEF GrantsInv, EntitlementsInv
<1>3. RowsAreMonthly'
  BY DEF vars, GrantsInv, EntitlementsInv, RowsAreMonthly, EntitlementsTypeOK
<1> QED BY <1>1, <1>2, <1>3

(***************************************************************************)
(* The clock and the subscriptions: what a step that writes them must keep *)
(* for the calls under way.                                                *)
(***************************************************************************)
LEMMA CallsStay ==
  ASSUME EntitlementsInv, UNCHANGED calls,
         period' \in 1 .. MaxPeriod, period' >= period
  PROVE  EntitlementsTypeOK' /\ CallsKnow'
<1>1. EntitlementsTypeOK'
  BY DEF EntitlementsInv, EntitlementsTypeOK
<1>2. CallsKnow'
  BY PlanAssumption DEF EntitlementsInv, CallsKnow, EntitlementsTypeOK
<1> QED BY <1>1, <1>2

(***************************************************************************)
(* The same for a step of one call: the record it becomes must be right.   *)
(***************************************************************************)
LEMMA CallMoves ==
  ASSUME EntitlementsInv, NEW c \in Callers, NEW row \in CallRows,
         calls' = [calls EXCEPT ![c] = row],
         period' = period,
         row.pc \in {"key", "grant"} =>
             /\ row.user \in Users
             /\ planCreditFor(row.plan) > 0,
         row.pc = "grant" => row.period \in 1 .. period
  PROVE  EntitlementsTypeOK' /\ CallsKnow'
<1>1. EntitlementsTypeOK'
  BY DEF EntitlementsInv, EntitlementsTypeOK
<1>2. calls'[c] = row /\ \A d \in Callers : d # c => calls'[d] = calls[d]
  BY DEF EntitlementsInv, EntitlementsTypeOK
<1>3. CallsKnow'
  BY <1>2 DEF EntitlementsInv, CallsKnow
<1> QED BY <1>1, <1>3

(***************************************************************************)
(* What the last statement of a call does to the ledger: it is a Grant of  *)
(* module Credits to the call's user under the call's key, or the key was  *)
(* used.                                                                   *)
(***************************************************************************)
LEMMA GrantMonthlyInv ==
  ASSUME GrantsInv, NEW c \in Callers, GrantMonthly(c)
  PROVE  /\ TypeOK' /\ AccountingInv' /\ KeysPayOnce' /\ RowsAreMonthly'
         /\ \E i \in DOMAIN ledger' :
               /\ ledger'[i].user = calls[c].user
               /\ ledger'[i].key = monthlyGrantKey(calls[c].user, calls[c].period)
               /\ ledger'[i].amount > 0
<1>1. PICK u, n, p : /\ u = calls[c].user /\ p = calls[c].period
                     /\ n = planCreditFor(calls[c].plan)
  OBVIOUS
<1>2. /\ u \in Users /\ n \in Int /\ n > 0 /\ p \in 1 .. period
      /\ period' = period /\ period \in Int /\ period <= MaxPeriod /\ MaxPeriod \in Int
  BY <1>1, PlanCreditType, CallTypes
     DEF GrantMonthly, GrantsInv, EntitlementsInv, CallsKnow
<1>3. p \in 1 .. MaxPeriod
  BY <1>2
<1>4. PICK k : k = monthlyGrantKey(u, p)
  OBVIOUS
<1>5. k \in IdemKeys /\ k # NULL
  BY <1>2, <1>3, <1>4, KeysDiffer
<1>6. CASE Grant(u, n, k)
  <2>1. adjust(u, n, k, "grant")
    BY <1>6 DEF Grant
  <2>2. TypeOK'
    BY <1>2, <1>5, <2>1, AdjustType DEF GrantsInv, LedgerTypes
  <2>3. AccountingInv'
    BY <1>2, <1>5, <2>1, <2>2, AdjustAccounting DEF GrantsInv, LedgerTypes
  <2>4. PICK row : row = Row(u, n, "grant", NULL, k)
    OBVIOUS
  <2>5. /\ row.user = u /\ row.amount = n /\ row.key = k
        /\ ledger' = Append(ledger, row) /\ FreshKey(row.key)
    BY <2>1, <2>4 DEF Row, adjust
  <2>6. KeysPayOnce'
    BY <2>5, KeysAppend DEF GrantsInv, EntitlementsInv
  <2>7. /\ Len(ledger) \in Nat /\ DOMAIN ledger = 1 .. Len(ledger)
        /\ DOMAIN ledger' = 1 .. Len(ledger) + 1
        /\ \A i \in DOMAIN ledger : ledger'[i] = ledger[i]
        /\ ledger'[Len(ledger) + 1] = row
    BY <2>5 DEF TypeOK, GrantsInv
  <2>8. RowsAreMonthly'
    <3> SUFFICES ASSUME NEW i \in DOMAIN ledger'
                 PROVE  /\ ledger'[i].amount > 0
                        /\ \E r \in 1 .. period :
                              ledger'[i].key = monthlyGrantKey(ledger'[i].user, r)
      BY <1>2 DEF RowsAreMonthly
    <3>1. CASE i \in DOMAIN ledger
      BY <2>7, <3>1 DEF GrantsInv, EntitlementsInv, RowsAreMonthly
    <3>2. CASE i = Len(ledger) + 1
      BY <1>2, <1>4, <2>5, <2>7, <3>2
    <3> QED BY <2>7, <3>1, <3>2
  <2>9. Len(ledger) + 1 \in DOMAIN ledger'
    BY <2>7
  <2> QED BY <1>1, <1>2, <1>4, <2>2, <2>3, <2>5, <2>6, <2>7, <2>8, <2>9
<1>7. CASE k \in UsedKeys /\ UNCHANGED vars
  <2>1. PICK i \in DOMAIN ledger : ledger[i].key = k
    BY <1>7 DEF UsedKeys
  <2>2. PICK r : ledger[i].amount > 0 /\ ledger[i].key = monthlyGrantKey(ledger[i].user, r)
    BY <2>1 DEF GrantsInv, EntitlementsInv, RowsAreMonthly
  <2>3. ledger[i].user = u
    BY <1>4, <2>1, <2>2, KeysDiffer
  <2>4. TypeOK' /\ AccountingInv' /\ KeysPayOnce' /\ RowsAreMonthly'
    BY <1>2, <1>7, QuietGrants
  <2> QED BY <1>1, <1>4, <1>7, <2>1, <2>2, <2>3, <2>4 DEF vars
<1> QED BY <1>1, <1>4, <1>6, <1>7 DEF GrantMonthly

(***************************************************************************)
(* Every step keeps the invariant.                                         *)
(***************************************************************************)
LEMMA GrantsNext ==
  GrantsInv /\ [EntitlementsNext]_<<vars, entitlementVars>> => GrantsInv'
<1> SUFFICES ASSUME GrantsInv, [EntitlementsNext]_<<vars, entitlementVars>>
             PROVE  GrantsInv'
  OBVIOUS
<1>0. EntitlementsInv /\ EntitlementsTypeOK /\ CallsKnow
  BY DEF GrantsInv, EntitlementsInv
<1>i. IdleCall \in CallRows /\ IdleCall.pc = "idle"
  BY PlanAssumption DEF IdleCall, CallRows
<1>p. period \in 1 .. MaxPeriod /\ period \in Int /\ MaxPeriod \in Int
  BY <1>0, PlanAssumption DEF EntitlementsTypeOK
<1>a. ASSUME UNCHANGED vars, period' \in 1 .. MaxPeriod, period' >= period,
             EntitlementsTypeOK', CallsKnow'
      PROVE  GrantsInv'
  <2>1. period' \in Int
    BY <1>a, PlanAssumption
  <2> QED BY <1>a, <2>1, QuietGrants DEF GrantsInv, EntitlementsInv
<1>1. ASSUME NEW c \in Callers, NEW u \in Users, NEW plan \in Plans,
             CheckGate(c, u, plan)
      PROVE  GrantsInv'
  <2>1. PICK row : row = [pc |-> "key", user |-> u, plan |-> plan, period |-> 0]
    OBVIOUS
  <2>2. row \in CallRows
    BY <1>p, <2>1 DEF CallRows
  <2>4. /\ row.pc = "key" /\ row.user = u /\ row.plan = plan
    BY <2>1
  <2>5. /\ calls' = [calls EXCEPT ![c] = row] /\ UNCHANGED <<vars, subs, period>>
        /\ planCreditFor(plan) > 0
    BY <1>1, <2>1 DEF CheckGate
  <2>6. EntitlementsTypeOK' /\ CallsKnow'
    BY <1>0, <2>2, <2>4, <2>5, CallMoves
  <2> QED BY <1>a, <1>p, <2>5, <2>6
<1>2. ASSUME NEW c \in Callers, ReadPeriod(c)
      PROVE  GrantsInv'
  <2>1. PICK row : row = [calls[c] EXCEPT !.pc = "grant", !.period = period]
    OBVIOUS
  <2>0. calls[c] \in CallRows
    BY <1>0, CallTypes
  <2>2. row \in CallRows
    <3>1. period \in 0 .. MaxPeriod
      BY <1>p
    <3> QED BY <2>0, <2>1, <3>1 DEF CallRows
  <2>3. /\ row.pc = "grant" /\ row.user = calls[c].user /\ row.plan = calls[c].plan
        /\ row.period = period
    BY <2>0, <2>1 DEF CallRows
  <2>4. /\ calls' = [calls EXCEPT ![c] = row] /\ UNCHANGED <<vars, subs, period>>
        /\ calls[c].pc = "key"
    BY <1>2, <2>1 DEF ReadPeriod
  <2>5. period \in 1 .. period
    BY <1>p
  <2>6. EntitlementsTypeOK' /\ CallsKnow'
    <3>1. row.user \in Users /\ planCreditFor(row.plan) > 0
      BY <1>0, <2>3, <2>4 DEF CallsKnow
    <3> QED BY <1>0, <2>2, <2>3, <2>4, <2>5, <3>1, CallMoves
  <2> QED BY <1>a, <1>p, <2>4, <2>6
<1>3. ASSUME NEW c \in Callers, GrantMonthly(c)
      PROVE  GrantsInv'
  <2>1. /\ calls' = [calls EXCEPT ![c] = IdleCall]
        /\ UNCHANGED <<subs, period>>
    BY <1>3 DEF GrantMonthly
  <2>2. EntitlementsTypeOK' /\ CallsKnow'
    BY <1>0, <1>i, <2>1, CallMoves
  <2> QED BY <1>3, <2>2, GrantMonthlyInv DEF GrantsInv, EntitlementsInv
<1>4. ASSUME NEW u \in Users, NEW st \in SubscriptionStatuses,
             SetSubscription(u, st), UNCHANGED calls
      PROVE  GrantsInv'
  <2>1. period' = period
    BY <1>4 DEF SetSubscription
  <2>2. EntitlementsTypeOK' /\ CallsKnow'
    BY <1>0, <1>4, <1>p, <2>1, CallsStay
  <2>3. UNCHANGED vars
    BY <1>4 DEF SetSubscription
  <2> QED BY <1>a, <1>p, <2>1, <2>2, <2>3
<1>5. ASSUME NEW c \in Callers, NEW u \in Users, ReadSubscription(c, u)
      PROVE  GrantsInv'
  <2>1. PICK row : row = [IdleCall EXCEPT !.pc = "cancel", !.user = u]
    OBVIOUS
  <2>2. row \in CallRows /\ row.pc = "cancel"
    BY <1>i, <2>1 DEF CallRows
  <2>3. calls' = [calls EXCEPT ![c] = row] /\ UNCHANGED <<vars, subs, period>>
    BY <1>5, <2>1 DEF ReadSubscription
  <2>4. EntitlementsTypeOK' /\ CallsKnow'
    BY <1>0, <2>2, <2>3, CallMoves
  <2> QED BY <1>a, <1>p, <2>3, <2>4
<1>6. ASSUME NEW c \in Callers, CancelSubscription(c)
      PROVE  GrantsInv'
  <2>1. /\ SetSubscription(calls[c].user, "cancelled")
        /\ calls' = [calls EXCEPT ![c] = IdleCall]
    BY <1>6 DEF CancelSubscription
  <2>2. period' = period
    BY <2>1 DEF SetSubscription
  <2>3. EntitlementsTypeOK' /\ CallsKnow'
    BY <1>0, <1>i, <2>1, <2>2, CallMoves
  <2>4. UNCHANGED vars
    BY <2>1 DEF SetSubscription
  <2> QED BY <1>a, <1>p, <2>2, <2>3, <2>4
<1>7. ASSUME NextPeriod PROVE GrantsInv'
  <2>1. /\ period' \in 1 .. MaxPeriod /\ period' >= period
        /\ UNCHANGED <<vars, calls>>
    BY <1>7, <1>p DEF NextPeriod
  <2>2. EntitlementsTypeOK' /\ CallsKnow'
    BY <1>0, <2>1, CallsStay
  <2> QED BY <1>a, <2>1, <2>2
<1>8. ASSUME UNCHANGED <<vars, entitlementVars>> PROVE GrantsInv'
  <2>1. UNCHANGED <<vars, subs, period, calls>>
    BY <1>8 DEF entitlementVars
  <2>2. EntitlementsTypeOK' /\ CallsKnow'
    BY <1>0, <1>p, <2>1, CallsStay
  <2> QED BY <1>a, <1>p, <2>1, <2>2
<1> QED BY <1>1, <1>2, <1>3, <1>4, <1>5, <1>6, <1>7, <1>8 DEF EntitlementsNext

(***************************************************************************)
(* The invariant holds always.                                             *)
(***************************************************************************)
THEOREM GrantsCorrect == EntitlementsSpec => []GrantsInv
BY GrantsInit, GrantsNext, PTL DEF EntitlementsSpec

(***************************************************************************)
(* At most one monthly grant per user and month, and none in advance: the  *)
(* rows of a user are as many as the months they name.                     *)
(***************************************************************************)
LEMMA InvImpliesMonthlyOnce == GrantsInv => MonthlyOnce
<1> SUFFICES ASSUME GrantsInv, NEW u \in Users
             PROVE  /\ Cardinality({i \in DOMAIN ledger : ledger[i].user = u}) <= period
                    /\ \A p \in 1 .. MaxPeriod :
                          /\ Cardinality(MonthlyRows(u, p)) <= 1
                          /\ p > period => MonthlyRows(u, p) = {}
  BY DEF MonthlyOnce
<1>1. /\ KeysPayOnce /\ RowsAreMonthly
      /\ period \in 1 .. MaxPeriod /\ period \in Int /\ MaxPeriod \in Int /\ period \in Nat
  BY PlanAssumption DEF GrantsInv, EntitlementsInv, EntitlementsTypeOK
<1>2. \A i \in DOMAIN ledger, p \in 1 .. MaxPeriod :
         ledger[i].key = monthlyGrantKey(u, p) => p \in 1 .. period
  BY <1>1, KeysDiffer DEF RowsAreMonthly
<1>3. ASSUME NEW p \in 1 .. MaxPeriod
      PROVE  /\ Cardinality(MonthlyRows(u, p)) <= 1
             /\ p > period => MonthlyRows(u, p) = {}
  <2>1. \A i, j \in MonthlyRows(u, p) : i = j
    BY <1>1, KeysDiffer DEF MonthlyRows, KeysPayOnce
  <2>2. p > period => MonthlyRows(u, p) = {}
    BY <1>1, <1>2 DEF MonthlyRows
  <2> QED BY <2>1, <2>2, AtMostOne
<1>4. Cardinality({i \in DOMAIN ledger : ledger[i].user = u}) <= period
  <2> DEFINE S == {i \in DOMAIN ledger : ledger[i].user = u}
             month == [i \in S |-> CHOOSE p \in 1 .. period :
                                      ledger[i].key = monthlyGrantKey(u, p)]
  <2>1. \A i \in S : \E p \in 1 .. period : ledger[i].key = monthlyGrantKey(u, p)
    BY <1>1 DEF RowsAreMonthly
  <2>2. \A i \in S : /\ month[i] \in 1 .. period
                     /\ ledger[i].key = monthlyGrantKey(u, month[i])
    BY <2>1
  <2>3. month \in [S -> 1 .. period]
    BY <2>2
  <2>4. \A i, j \in S : month[i] = month[j] => i = j
    <3> SUFFICES ASSUME NEW i \in S, NEW j \in S, month[i] = month[j]
                 PROVE  i = j
      OBVIOUS
    <3>1. ledger[i].key = ledger[j].key /\ month[i] \in 1 .. MaxPeriod
      BY <1>1, <2>2
    <3>2. ledger[i].key # NULL
      BY <2>2, <3>1, KeysDiffer
    <3> QED BY <1>1, <3>1, <3>2 DEF KeysPayOnce
  <2>5. month \in Injection(S, 1 .. period)
    <3> HIDE DEF S, month
    <3> QED BY <2>3, <2>4 DEF Injection, IsInjective
  <2>6. IsFiniteSet(1 .. period) /\ Cardinality(1 .. period) = period
    BY <1>1, FS_Interval
  <2> HIDE DEF S, month
  <2>7. Cardinality(S) <= period
    BY <2>5, <2>6, FS_Injection
  <2> QED BY <2>7 DEF S
<1> QED BY <1>3, <1>4

(***************************************************************************)
(* However many calls race, whatever plans they name and however late they *)
(* run, EnsureMonthlyGrant pays a month once.                              *)
(***************************************************************************)
THEOREM MonthIsPaidOnce == EntitlementsSpec => []MonthlyOnce
BY GrantsCorrect, InvImpliesMonthlyOnce, PTL

(***************************************************************************)
(* Only its own last statement ends a call that is about to grant.         *)
(***************************************************************************)
LEMMA GrantEndsCall ==
  ASSUME GrantsInv, [EntitlementsNext]_<<vars, entitlementVars>>,
         NEW c \in Callers, calls[c].pc = "grant", calls'[c].pc = "idle"
  PROVE  GrantMonthly(c)
<1>0. calls \in [Callers -> CallRows] /\ DOMAIN calls = Callers
  BY DEF GrantsInv, EntitlementsInv, EntitlementsTypeOK
<1>1. calls'[c] # calls[c]
  OBVIOUS
<1>2. ASSUME NEW d \in Callers, d # c, NEW row, calls' = [calls EXCEPT ![d] = row]
      PROVE  FALSE
  BY <1>0, <1>1, <1>2
<1>3. ASSUME NEW d \in Callers, NEW u \in Users, NEW plan \in Plans,
             CheckGate(d, u, plan)
      PROVE  FALSE
  BY <1>2, <1>3 DEF CheckGate
<1>4. ASSUME NEW d \in Callers, ReadPeriod(d) PROVE FALSE
  <2>1. d # c /\ calls' = [calls EXCEPT ![d] =
              [calls[d] EXCEPT !.pc = "grant", !.period = period]]
    BY <1>4 DEF ReadPeriod
  <2> QED BY <1>2, <2>1
<1>5. ASSUME NEW d \in Callers, GrantMonthly(d) PROVE d = c
  BY <1>2, <1>5 DEF GrantMonthly
<1>6. ASSUME NEW d \in Callers, NEW u \in Users, ReadSubscription(d, u) PROVE FALSE
  BY <1>2, <1>6 DEF ReadSubscription
<1>7. ASSUME NEW d \in Callers, CancelSubscription(d) PROVE FALSE
  BY <1>2, <1>7 DEF CancelSubscription
<1>8. ~ UNCHANGED calls
  BY <1>1
<1> QED BY <1>3, <1>4, <1>5, <1>6, <1>7, <1>8
      DEF EntitlementsNext, NextPeriod, entitlementVars

(***************************************************************************)
(* "Already granted" is never said to a user who has not the grant.        *)
(***************************************************************************)
THEOREM CallersHaveTheGrant == EntitlementsSpec => CallersAreGranted
<1>1. GrantsInv /\ [EntitlementsNext]_<<vars, entitlementVars>> =>
        [\A c \in Callers :
          calls[c].pc = "grant" /\ calls'[c].pc = "idle" =>
              \E i \in DOMAIN ledger' :
                  /\ ledger'[i].user = calls[c].user
                  /\ ledger'[i].key = monthlyGrantKey(calls[c].user, calls[c].period)
                  /\ ledger'[i].amount > 0]_<<vars, entitlementVars>>
  BY GrantEndsCall, GrantMonthlyInv
<1> QED BY <1>1, GrantsCorrect, PTL DEF EntitlementsSpec, CallersAreGranted
=============================================================================
