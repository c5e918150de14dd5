----------------------------- MODULE CreditsImpl -----------------------------
(***************************************************************************)
(* The credit service implements the escrow it promises to be: what is     *)
(* available is the materialized balance, a hold is a reservation that is  *)
(* still reserved, and the charge is what was captured.                    *)
(***************************************************************************)
EXTENDS Credits

HoldOf(q) ==
    IF q \in DOMAIN reservations /\ reservations[q].status = "reserved"
    THEN {[user |-> reservations[q].user, amount |-> reservations[q].amount]}
    ELSE {}

ChargeOf(q) == IF q \in DOMAIN reservations THEN reservations[q].captured ELSE 0

ClosedRequests ==
    {q \in DOMAIN reservations : reservations[q].status # "reserved"}

(***************************************************************************)
(* The keys that callers have spent on Grant and Refund.                   *)
(***************************************************************************)
SpentKeys ==
    {ledger[i].key : i \in {j \in DOMAIN ledger : ledger[j].ref = NULL}}

Escrow == INSTANCE Escrow WITH
    avail  <- [u \in Users |-> Balance(u)],
    hold   <- [q \in RequestIds |-> HoldOf(q)],
    closed <- ClosedRequests,
    charge <- [q \in RequestIds |-> ChargeOf(q)],
    used   <- SpentKeys

(***************************************************************************)
(* Whatever Settle, Release, Grant, Refund and any number of Reconcile     *)
(* loops do to the tables, callers see an escrow: every step of the        *)
(* service is a step of Escrow or invisible.                               *)
(***************************************************************************)
ImplementsEscrow == Escrow!Spec

(***************************************************************************)
(* What an expiry relies on to charge nothing: it leaves captured as it    *)
(* finds it.                                                               *)
(***************************************************************************)
OpenIsUncharged ==
    \A q \in DOMAIN reservations :
        reservations[q].status = "reserved" => reservations[q].captured = 0
=============================================================================
