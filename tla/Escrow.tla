------------------------------- MODULE Escrow -------------------------------
(***************************************************************************)
(* What the credit service promises its callers, without tables, ledger    *)
(* rows or maintenance loops: an escrow.                                   *)
(*                                                                         *)
(*  - credits enter and leave an account by keyed transfers, each key at   *)
(*    most once;                                                           *)
(*  - a request may hold available credits, once, and only credits that    *)
(*    are there;                                                           *)
(*  - a hold ends once: charged for a cost, the rest available again (or   *)
(*    the excess drawn from what is available), or returned in full.       *)
(***************************************************************************)
EXTENDS Integers

CONSTANTS Users, RequestIds, IdemKeys, Amounts, Costs

VARIABLES
    avail,      \* user -> credits available
    hold,       \* request -> set of the one hold [user, amount] that is open
    closed,     \* requests whose hold has ended
    charge,     \* request -> credits charged
    used        \* transfer keys used

vars == <<avail, hold, closed, charge, used>>

Init ==
    /\ avail = [u \in Users |-> 0]
    /\ hold = [q \in RequestIds |-> {}]
    /\ closed = {}
    /\ charge = [q \in RequestIds |-> 0]
    /\ used = {}

Transfer(u, n, k) ==
    /\ k \notin used
    /\ avail' = [avail EXCEPT ![u] = @ + n]
    /\ used' = used \cup {k}
    /\ UNCHANGED <<hold, closed, charge>>

Hold(u, q, n) ==
    /\ q \notin closed /\ hold[q] = {}
    /\ n > 0 /\ n <= avail[u]
    /\ avail' = [avail EXCEPT ![u] = @ - n]
    /\ hold' = [hold EXCEPT ![q] = {[user |-> u, amount |-> n]}]
    /\ UNCHANGED <<closed, charge, used>>

End(q, h, c) ==
    /\ h \in hold[q]
    /\ c >= 0
    /\ avail' = [avail EXCEPT ![h.user] = @ + h.amount - c]
    /\ hold' = [hold EXCEPT ![q] = {}]
    /\ closed' = closed \cup {q}
    /\ charge' = [charge EXCEPT ![q] = c]
    /\ UNCHANGED used

Next ==
    \/ \E u \in Users, n \in Amounts, k \in IdemKeys :
           Transfer(u, n, k) \/ Transfer(u, -n, k)
    \/ \E u \in Users, q \in RequestIds, n \in Amounts : Hold(u, q, n)
    \/ \E q \in RequestIds, c \in Costs \cup {0} :
           \E h \in hold[q] : End(q, h, c)

Spec == Init /\ [][Next]_vars
=============================================================================
