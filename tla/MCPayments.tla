----------------------------- MODULE MCPayments ------------------------------
(***************************************************************************)
(* A small instance of Payments, with what Stripe sends as the adapter     *)
(* maps it: one purchase with the two events that report its payment (a    *)
(* third, of a checkout that is not paid yet, is mapped to nothing), a     *)
(* partial refund and a dispute about all of it, a second purchase that    *)
(* the provider names with a payment of its own or, under the same event   *)
(* id, with that of the first, and an event about a purchase that does not *)
(* exist, which also reuses the id of another.                             *)
(***************************************************************************)
EXTENDS Payments

INSTANCE StripeEvents

Checkout(id, purchase, intent, paid) ==
    [id |-> id, type |-> "checkout.session.completed", purchase |-> purchase,
     intent |-> intent, paid |-> paid]

Completed == Checkout("e1", "p1", "pi1", TRUE)
Unpaid == Checkout("e0", "p1", "pi1", FALSE)
AsyncSucceeded ==
    [Checkout("e2", "p1", "pi1", TRUE) EXCEPT
        !.type = "checkout.session.async_payment_succeeded"]
Unknown == Checkout("e2", "p9", "pi9", TRUE)
OtherPurchase == Checkout("e6", "p2", "pi1", TRUE)
SecondPaid == Checkout("e6", "p2", "pi2", TRUE)
Refunded ==
    [id |-> "e3", type |-> "charge.refunded", purchase |-> "p1", intent |-> "pi1",
     amount |-> 1]
Disputed ==
    [id |-> "e4", type |-> "charge.dispute.created", purchase |-> NULL,
     chargePurchase |-> "p1", intent |-> "pi1", amount |-> 2]

MCCatalog == [topup |-> [credits |-> 3, amount |-> 2]]

MCReversals == {mapEvent(e) : e \in {Completed, Unpaid, Refunded, Disputed}} \ {NULL}
MCPayers == {mapEvent(e) : e \in {Completed, AsyncSucceeded, Unknown, OtherPurchase,
                                  SecondPaid}}

MCPaymentKeys == {PaymentKey(f) : f \in Facts} \cup {ReversalKey(f) : f \in Facts}
=============================================================================
