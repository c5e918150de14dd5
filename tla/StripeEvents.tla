---------------------------- MODULE StripeEvents -----------------------------
(***************************************************************************)
(* What package stripe reads out of a webhook event: which subscription,   *)
(* purchase, user and plan it is about, and what it is mapped to.  An      *)
(* event is a record with the fields that the code looks at; a payload     *)
(* that does not parse is left out.                                        *)
(***************************************************************************)
CONSTANT NULL   \* an empty string, a missing object

Else(x, y) == IF x # NULL THEN x ELSE y

Nobody == [user |-> NULL, plan |-> NULL]

(***************************************************************************)
(* Whether an event says for whom it is.                                   *)
(***************************************************************************)
Known(who) == who.user # NULL /\ who.plan # NULL

(***************************************************************************)
(* customer.subscription.created, .updated and .deleted.  terms stands for *)
(* the period, the trial and the cancellation that Stripe announces.       *)
(***************************************************************************)
normalise(status) ==
    CASE status = "canceled" -> "cancelled"
      [] status \in {"incomplete", "incomplete_expired"} -> "past_due"
      [] OTHER -> status

mapSubscriptionEvent(evt) ==
    IF ~Known(evt.meta) THEN NULL
    ELSE [sub |-> evt.subscription, user |-> evt.meta.user, plan |-> evt.meta.plan,
          status |-> normalise(evt.status), terms |-> evt.terms, created |-> evt.created]

(***************************************************************************)
(* The subscription of an invoice: in one of three places, by API version. *)
(***************************************************************************)
invoiceSubID(evt) == Else(evt.subscription, Else(evt.parent, evt.line))

(***************************************************************************)
(* invoice.paid brings no credits when it is not paid, is manual, prorates *)
(* a change of plan (one of its lines covers a short period), or when its  *)
(* subscription or its period is missing.                                  *)
(***************************************************************************)
Skipped(evt) ==
    \/ evt.status \notin {NULL, "paid"}
    \/ evt.reason = "manual"
    \/ evt.reason = "subscription_update" /\ evt.short
    \/ invoiceSubID(evt) = NULL
    \/ evt.period = 0

(***************************************************************************)
(* User and plan of an invoice, each from the first that has it of its own *)
(* metadata, what it quotes of the subscription's (not read for a failed   *)
(* payment) and the stored subscription.  Mutant: nothing is quoted.       *)
(***************************************************************************)
QuotedNothing(evt) == Nobody

Quoted(evt) == IF evt.type = "paid" THEN evt.quoted ELSE Nobody

resolveUserPlan(evt, stored) ==
    [user |-> Else(evt.meta.user, Else(Quoted(evt).user, stored.user)),
     plan |-> Else(evt.meta.plan, Else(Quoted(evt).plan, stored.plan))]

(***************************************************************************)
(* Events about purchases, mapped to those of package payments: only a     *)
(* checkout that is paid counts, a refund and a dispute carry an amount,   *)
(* and a dispute may name the purchase on its charge.                      *)
(***************************************************************************)
mapEvent(evt) ==
    LET purchase == IF evt.type = "charge.dispute.created"
                    THEN Else(evt.purchase, evt.chargePurchase) ELSE evt.purchase
        status == CASE evt.type = "charge.refunded" -> "refunded"
                    [] evt.type = "charge.dispute.created" -> "disputed"
                    [] OTHER -> "paid"
    IN  IF evt.intent = NULL \/ purchase = NULL \/ (status = "paid" /\ ~evt.paid)
        THEN NULL
        ELSE [id |-> evt.id, provider |-> "stripe", purchase |-> purchase,
              payment |-> evt.intent, status |-> status,
              minor |-> IF status = "paid" THEN 0 ELSE evt.amount]
=============================================================================
