---------------------------- MODULE Entitlements -----------------------------
(***************************************************************************)
(* The lazy monthly grant and its gate: the subscriptions table, and the   *)
(* requests that call EnsureMonthlyGrant, over the ledger of module        *)
(* Credits.                                                                *)
(*                                                                         *)
(* EnsureMonthlyGrant is not a transaction.  It reads the subscription,    *)
(* then the clock, and only then grants; CancelSubscription reads the      *)
(* subscription and then writes it.  Everything else may happen in         *)
(* between.  The plan in a subscription row is left out: it is written     *)
(* back as it was read, and no operation looks at it.                      *)
(***************************************************************************)
EXTENDS Credits

CONSTANTS
    Callers,        \* requests that call EnsureMonthlyGrant or Cancel
    Plans,          \* plan names
    MonthlyCredits, \* Config.MonthlyCredits
    PlanMonthlyCredits, \* Config.PlanMonthlyCredits: some plans -> credits
    MaxPeriod       \* bound: the months, 1 .. MaxPeriod

ASSUME PlanAssumption ==
    /\ MonthlyCredits \in Int /\ MaxPeriod \in Nat \ {0}
    /\ PlanMonthlyCredits \in [DOMAIN PlanMonthlyCredits -> Int]

VARIABLES
    subs,           \* subscriptions: user_id -> status
    period,         \* the month that Config.Now is in
    calls           \* the local variables of every caller

entitlementVars == <<subs, period, calls>>

SubscriptionStatuses == {"active", "paused", "cancelled"}

(***************************************************************************)
(* Mutant: the key does not name the user.                                 *)
(***************************************************************************)
monthlyGrantKeyShared(u, p) == <<"monthly", p>>

monthlyGrantKey(u, p) == <<"monthly", u, p>>

(***************************************************************************)
(* These keys are among those that callers pass to Grant.                  *)
(***************************************************************************)
ASSUME MonthlyKeysAssumption ==
    \A u \in Users, p \in 1 .. MaxPeriod : monthlyGrantKey(u, p) \in IdemKeys

planCreditFor(plan) ==
    IF plan \in DOMAIN PlanMonthlyCredits
    THEN PlanMonthlyCredits[plan] ELSE MonthlyCredits

(***************************************************************************)
(* The gate: a user without a subscription passes, and one whose           *)
(* subscription is active.                                                 *)
(***************************************************************************)
GateOpen(u) == u \in DOMAIN subs => subs[u] = "active"

IdleCall == [pc |-> "idle", user |-> NULL, plan |-> NULL, period |-> 0]

EntitlementsInit ==
    /\ Init
    /\ subs = [u \in {} |-> 0]
    /\ period = 1
    /\ calls = [c \in Callers |-> IdleCall]

-----------------------------------------------------------------------------
(***************************************************************************)
(* EnsureMonthlyGrant: the gate and the amount, then the clock, then the   *)
(* grant, which a key that was used already turns into "already granted".  *)
(***************************************************************************)
CheckGate(c, u, plan) ==
    /\ calls[c].pc = "idle"
    /\ GateOpen(u)
    /\ planCreditFor(plan) > 0
    /\ calls' = [calls EXCEPT ![c] =
                    [pc |-> "key", user |-> u, plan |-> plan, period |-> 0]]
    /\ UNCHANGED <<vars, subs, period>>

ReadPeriod(c) ==
    /\ calls[c].pc = "key"
    /\ calls' = [calls EXCEPT ![c].pc = "grant", ![c].period = period]
    /\ UNCHANGED <<vars, subs, period>>

GrantMonthly(c) ==
    /\ calls[c].pc = "grant"
    /\ LET key == monthlyGrantKey(calls[c].user, calls[c].period)
       IN  \/ Grant(calls[c].user, planCreditFor(calls[c].plan), key)
           \/ key \in UsedKeys /\ UNCHANGED vars
    /\ calls' = [calls EXCEPT ![c] = IdleCall]
    /\ UNCHANGED <<subs, period>>

(***************************************************************************)
(* SetSubscription is one upsert.  CancelSubscription is a read and, from  *)
(* what it read, a SetSubscription.                                        *)
(***************************************************************************)
SetSubscription(u, status) ==
    /\ subs' = [w \in DOMAIN subs \cup {u} |-> IF w = u THEN status ELSE subs[w]]
    /\ UNCHANGED <<vars, period>>

ReadSubscription(c, u) ==
    /\ calls[c].pc = "idle"
    /\ u \in DOMAIN subs
    /\ calls' = [calls EXCEPT ![c] = [IdleCall EXCEPT !.pc = "cancel", !.user = u]]
    /\ UNCHANGED <<vars, subs, period>>

CancelSubscription(c) ==
    /\ calls[c].pc = "cancel"
    /\ SetSubscription(calls[c].user, "cancelled")
    /\ calls' = [calls EXCEPT ![c] = IdleCall]

(***************************************************************************)
(* A new month begins.                                                     *)
(***************************************************************************)
NextPeriod ==
    /\ period < MaxPeriod
    /\ period' = period + 1
    /\ UNCHANGED <<vars, subs, calls>>

EntitlementsNext ==
    \/ \E c \in Callers, u \in Users, plan \in Plans : CheckGate(c, u, plan)
    \/ \E c \in Callers : ReadPeriod(c)
    \/ \E c \in Callers : GrantMonthly(c)
    \/ \E u \in Users, st \in SubscriptionStatuses :
           SetSubscription(u, st) /\ UNCHANGED calls
    \/ \E c \in Callers, u \in Users : ReadSubscription(c, u)
    \/ \E c \in Callers : CancelSubscription(c)
    \/ NextPeriod

EntitlementsSpec == EntitlementsInit /\ [][EntitlementsNext]_<<vars, entitlementVars>>

-----------------------------------------------------------------------------
(***************************************************************************)
(* A user draws at most one monthly grant for a month, whatever plans the  *)
(* concurrent calls name and however late they run, and none for a month   *)
(* that has not begun.                                                     *)
(***************************************************************************)
MonthlyRows(u, p) == {i \in DOMAIN ledger : ledger[i].key = monthlyGrantKey(u, p)}

MonthlyOnce ==
    \A u \in Users :
        /\ Cardinality({i \in DOMAIN ledger : ledger[i].user = u}) <= period
        /\ \A p \in 1 .. MaxPeriod :
               /\ Cardinality(MonthlyRows(u, p)) <= 1
               /\ p > period => MonthlyRows(u, p) = {}

(***************************************************************************)
(* "Already granted" is true when EnsureMonthlyGrant says so: when a call  *)
(* that passed the gate returns, its user has the grant of the month that  *)
(* the call read, also when two users or two plans race.                   *)
(***************************************************************************)
CallersAreGranted ==
    [][\A c \in Callers :
          calls[c].pc = "grant" /\ calls'[c].pc = "idle" =>
              \E i \in DOMAIN ledger' :
                  /\ ledger'[i].user = calls[c].user
                  /\ ledger'[i].key = monthlyGrantKey(calls[c].user, calls[c].period)
                  /\ ledger'[i].amount > 0]_<<vars, entitlementVars>>

-----------------------------------------------------------------------------
(***************************************************************************)
(* Why the monthly grant is right: every row of the ledger is the grant of *)
(* a month that has begun, and what a call knows between its statements    *)
(* stays true.                                                             *)
(***************************************************************************)
CallRows == [pc : {"idle", "key", "grant", "cancel"}, user : Users \cup {NULL},
             plan : Plans \cup {NULL}, period : 0 .. MaxPeriod]

EntitlementsTypeOK ==
    /\ period \in 1 .. MaxPeriod
    /\ calls \in [Callers -> CallRows]

RowsAreMonthly ==
    \A i \in DOMAIN ledger :
        /\ ledger[i].amount > 0
        /\ \E p \in 1 .. period : ledger[i].key = monthlyGrantKey(ledger[i].user, p)

CallsKnow ==
    \A c \in Callers :
        /\ calls[c].pc \in {"key", "grant"} =>
               /\ calls[c].user \in Users
               /\ planCreditFor(calls[c].plan) > 0
        /\ calls[c].pc = "grant" => calls[c].period \in 1 .. period

EntitlementsInv ==
    /\ EntitlementsTypeOK
    /\ KeysPayOnce
    /\ RowsAreMonthly
    /\ CallsKnow
=============================================================================
