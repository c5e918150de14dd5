---------------------------- MODULE Subscriptions ----------------------------
(***************************************************************************)
(* Stripe's subscriptions: the webhook requests that carry events about    *)
(* subscriptions and invoices, the table payment_subscriptions, and the    *)
(* grants for paid invoices, over the ledger of module Credits.            *)
(*                                                                         *)
(* Stripe delivers an event in any order, again if it likes, and until a   *)
(* reply of 2xx reaches it.  The request of an invoice first reads the     *)
(* stored subscription and then writes, so others come in between.         *)
(***************************************************************************)
EXTENDS Credits

CONSTANTS
    Events,                 \* what Stripe sends: event id -> payload
    SubscriptionCredits,    \* plan -> credits, of stripe.Config
    Requests,               \* webhook requests with an invoice
    MaxFaults               \* bound: crashes, lost replies and failing statements

INSTANCE StripeEvents

ASSUME SubscriptionsAssumption ==
    /\ MaxFaults \in Nat
    /\ \A id \in DOMAIN Events :
           /\ Events[id].id = id /\ Events[id].created \in Nat \ {0}
           /\ Events[id].meta.user \in Users \cup {NULL}
           /\ Events[id].type = "paid" => Events[id].quoted.user \in Users \cup {NULL}
    /\ \A plan \in DOMAIN SubscriptionCredits : SubscriptionCredits[plan] \in Int

VARIABLES
    subs,           \* payment_subscriptions: subscription_id -> row
    requests,       \* the local variables of a request with an invoice
    acked,          \* events whose 2xx reply has reached Stripe
    faults          \* faults so far

subVars == <<subs, requests, acked, faults>>
allVars == <<vars, subVars>>

Free == [event |-> NULL, who |-> Nobody]

SubscriptionsInit ==
    /\ Init
    /\ subs = [s \in {} |-> 0]
    /\ requests = [w \in Requests |-> Free]
    /\ acked = {}
    /\ faults = 0

Fault == faults < MaxFaults /\ faults' = faults + 1

(***************************************************************************)
(* The 2xx reply ends a request; it may get lost.                          *)
(***************************************************************************)
Reply(evt) ==
    \/ acked' = acked \cup {evt.id} /\ UNCHANGED faults
    \/ Fault /\ UNCHANGED acked

-----------------------------------------------------------------------------
(***************************************************************************)
(* ApplySubscription: the statuses it takes, and the upsert with its       *)
(* WHERE.  Mutants: two of Stripe's statuses are forgotten; there is no    *)
(* WHERE.                                                                  *)
(***************************************************************************)
AcceptedWithoutPauses == {"active", "trialing", "past_due", "cancelled"}

Accepted == {"active", "trialing", "paused", "past_due", "unpaid", "cancelled"}

NewerAssumed(e) == TRUE

Newer(e) == e.sub \in DOMAIN subs => e.created > subs[e.sub].created

ApplySubscription(e) ==
    /\ Known(e) /\ e.created > 0 /\ e.status \in Accepted
    /\ subs' = IF Newer(e) THEN [s \in DOMAIN subs \cup {e.sub} |->
                                     IF s = e.sub THEN e ELSE subs[s]]
               ELSE subs

(***************************************************************************)
(* HandleWebhook with a subscription event.  One that names no user or     *)
(* plan is acknowledged; one that ApplySubscription refuses is not, and    *)
(* nothing changes.                                                        *)
(***************************************************************************)
HandleSubscription(evt) ==
    /\ evt.type = "subscription"
    /\ LET e == mapSubscriptionEvent(evt)
       IN  IF e = NULL THEN UNCHANGED subs ELSE ApplySubscription(e)
    /\ Reply(evt)
    /\ UNCHANGED <<vars, requests>>

(***************************************************************************)
(* HandleWebhook with an invoice: the early returns, or the read of the    *)
(* stored subscription, whose error is ignored.                            *)
(***************************************************************************)
Dropped(evt) ==
    \/ evt.type = "paid" /\ Skipped(evt)
    \/ evt.type = "failed" /\ invoiceSubID(evt) = NULL

DropInvoice(evt) ==
    /\ evt.type \in {"paid", "failed"} /\ Dropped(evt)
    /\ Reply(evt)
    /\ UNCHANGED <<vars, subs, requests>>

Stored(s) == IF s \in DOMAIN subs THEN subs[s] ELSE Nobody

ReadSubscription(w, evt) ==
    /\ evt.type \in {"paid", "failed"} /\ ~Dropped(evt)
    /\ requests[w] = Free
    /\ \E stored \in {Stored(invoiceSubID(evt)), Nobody} :
           /\ IF stored = Stored(invoiceSubID(evt)) THEN UNCHANGED faults ELSE Fault
           /\ requests' = [requests EXCEPT ![w] =
                  [event |-> evt.id, who |-> resolveUserPlan(evt, stored)]]
    /\ UNCHANGED <<vars, subs, acked>>

Serving(w, type) == requests[w] # Free /\ Events[requests[w].event].type = type

(***************************************************************************)
(* handleInvoiceFailed: the subscription is past due.  An error of         *)
(* ApplySubscription is ignored, and so is an invoice of nobody.           *)
(***************************************************************************)
pastDue(evt, who) ==
    [sub |-> invoiceSubID(evt), user |-> who.user, plan |-> who.plan,
     status |-> "past_due", terms |-> evt.terms, created |-> evt.created]

handleInvoiceFailed(w) ==
    /\ Serving(w, "failed")
    /\ LET evt == Events[requests[w].event]
           who == requests[w].who
       IN  \/ Known(who) /\ ApplySubscription(pastDue(evt, who)) /\ Reply(evt)
           \/ Known(who) /\ Fault /\ acked' = acked \cup {evt.id} /\ UNCHANGED subs
           \/ ~Known(who) /\ Reply(evt) /\ UNCHANGED subs
    /\ requests' = [requests EXCEPT ![w] = Free]
    /\ UNCHANGED vars

(***************************************************************************)
(* handleInvoicePaid: GrantSubscriptionPeriod, where a key that was used   *)
(* already counts as success.  An invoice of nobody, or of a plan without  *)
(* credits, is acknowledged.  Mutant: the key carries the event.           *)
(***************************************************************************)
SubscriptionKeyByEvent(evt) ==
    <<"subscription", invoiceSubID(evt), evt.period, evt.invoice, evt.id>>

SubscriptionKey(evt) ==
    <<"subscription", invoiceSubID(evt), evt.period, evt.invoice>>

(***************************************************************************)
(* These keys are among those that callers pass to Grant.                  *)
(***************************************************************************)
ASSUME SubscriptionKeysAssumption ==
    \A id \in DOMAIN Events :
        Events[id].type = "paid" => SubscriptionKey(Events[id]) \in IdemKeys

CreditsOf(plan) ==
    IF plan \in DOMAIN SubscriptionCredits THEN SubscriptionCredits[plan] ELSE 0

handleInvoicePaid(w) ==
    /\ Serving(w, "paid")
    /\ LET evt == Events[requests[w].event]
           who == requests[w].who
       IN  /\ IF Known(who) /\ CreditsOf(who.plan) # 0
              THEN \/ Grant(who.user, CreditsOf(who.plan), SubscriptionKey(evt))
                   \/ SubscriptionKey(evt) \in UsedKeys /\ UNCHANGED vars
              ELSE UNCHANGED vars
           /\ Reply(evt)
    /\ requests' = [requests EXCEPT ![w] = Free]
    /\ UNCHANGED subs

(***************************************************************************)
(* A request dies, or its grant fails and it replies 500.                  *)
(***************************************************************************)
Crash(w) ==
    /\ requests[w] # Free /\ Fault
    /\ requests' = [requests EXCEPT ![w] = Free]
    /\ UNCHANGED <<vars, subs, acked>>

Deliver(evt) ==
    \/ HandleSubscription(evt)
    \/ DropInvoice(evt)
    \/ \E w \in Requests : ReadSubscription(w, evt)

Finish(w) == handleInvoiceFailed(w) \/ handleInvoicePaid(w)

SubscriptionsNext ==
    \/ \E id \in DOMAIN Events : Deliver(Events[id])
    \/ \E w \in Requests : Finish(w)
    \/ \E w \in Requests : Crash(w)

SubscriptionsSpec == SubscriptionsInit /\ [][SubscriptionsNext]_allVars

(***************************************************************************)
(* As long as an event is not acknowledged Stripe tries again and finds a  *)
(* server that takes one (which one, and how often others are delivered    *)
(* again before, is left open); a request that has begun ends.             *)
(***************************************************************************)
SubscriptionsFairSpec ==
    /\ SubscriptionsSpec
    /\ SF_allVars(\E id \in DOMAIN Events \ acked : Deliver(Events[id]))
    /\ \A w \in Requests : WF_allVars(Finish(w))

-----------------------------------------------------------------------------
Sent == {Events[id] : id \in DOMAIN Events}

Mapped == {evt \in Sent : evt.type = "subscription" /\ mapSubscriptionEvent(evt) # NULL}

(***************************************************************************)
(* The events that may have written the row of a subscription.             *)
(***************************************************************************)
Namers(s) ==
    {evt \in Mapped : evt.subscription = s}
        \cup {evt \in Sent : evt.type = "failed" /\ invoiceSubID(evt) = s}

(***************************************************************************)
(* A paid invoice that ought to bring credits and says itself for whom.    *)
(***************************************************************************)
SelfContained(evt) ==
    /\ evt.type = "paid" /\ ~Skipped(evt)
    /\ LET who == [user |-> Else(evt.meta.user, evt.quoted.user),
                   plan |-> Else(evt.meta.plan, evt.quoted.plan)]
       IN  Known(who) /\ CreditsOf(who.plan) > 0

(***************************************************************************)
(* However events overtake each other, the stored subscription is the      *)
(* state that the newest event reported: no event that was acknowledged is *)
(* newer, and the row is as some event of that second has it, except that  *)
(* a failed payment may quote the user and plan that were stored.          *)
(***************************************************************************)
NewestEventWins ==
    /\ \A evt \in Mapped :
           LET e == mapSubscriptionEvent(evt)
           IN  evt.id \in acked => e.sub \in DOMAIN subs /\ e.created <= subs[e.sub].created
    /\ \A s \in DOMAIN subs :
           \/ \E evt \in Mapped : subs[s] = mapSubscriptionEvent(evt)
           \/ \E evt \in Sent :
                  evt.type = "failed" /\ subs[s] = pastDue(evt, subs[s])

(***************************************************************************)
(* GrantSubscriptionPeriod grants an invoice once, also when requests with *)
(* different events about it, that resolved different plans, overlap; and  *)
(* what is granted is what a plan of this invoice or subscription brings,  *)
(* for a user that it names: each is the invoice's own if it has one, and  *)
(* only else that of an event that has written the subscription's row.     *)
(***************************************************************************)
InvoicesGrantOnce ==
    \A i \in DOMAIN ledger :
        /\ \A j \in DOMAIN ledger :
               SubSeq(ledger[i].key, 1, 4) = SubSeq(ledger[j].key, 1, 4) => i = j
        /\ \E evt \in Sent :
               /\ evt.type = "paid" /\ ~Skipped(evt)
               /\ SubSeq(ledger[i].key, 1, 4) = SubSeq(SubscriptionKey(evt), 1, 4)
               /\ \E d, g \in Namers(invoiceSubID(evt)) \cup {evt} :
                      /\ ledger[i].user = resolveUserPlan(evt, d.meta).user
                      /\ ledger[i].amount = CreditsOf(resolveUserPlan(evt, g.meta).plan)

(***************************************************************************)
(* Stripe forgets an event once it is acknowledged: an acknowledged paid   *)
(* invoice that says for whom it is has been granted by then.              *)
(***************************************************************************)
AckedIsGranted ==
    \A id \in acked : SelfContained(Events[id]) => SubscriptionKey(Events[id]) \in UsedKeys

(***************************************************************************)
(* Stripe's retries bring every subscription up to the newest event that   *)
(* names its user and plan, and every self-contained invoice its credits,  *)
(* whatever got lost on the way.                                           *)
(***************************************************************************)
EventsTakeEffect ==
    <>(/\ \A evt \in Mapped :
             LET e == mapSubscriptionEvent(evt)
             IN  e.sub \in DOMAIN subs /\ subs[e.sub].created >= e.created
       /\ \A evt \in Sent : SelfContained(evt) => SubscriptionKey(evt) \in UsedKeys)

-----------------------------------------------------------------------------
(***************************************************************************)
(* Why this holds, beyond the UNIQUE key: where the user and the plan of a *)
(* stored subscription come from, where a request that has read it has its *)
(* own from, and where a row of the ledger.                                *)
(***************************************************************************)
StoredIsNamed ==
    \A s \in DOMAIN subs :
        /\ subs[s].sub = s /\ subs[s].created \in Nat
        /\ \E d, g \in Namers(s) :
               subs[s].user = d.meta.user /\ subs[s].plan = g.meta.plan

IsNamed(evt, who) ==
    \E d, g \in Namers(invoiceSubID(evt)) \cup {evt} :
        /\ who.user = resolveUserPlan(evt, d.meta).user
        /\ who.plan = resolveUserPlan(evt, g.meta).plan

RequestsKnow ==
    /\ DOMAIN requests = Requests
    /\ \A w \in Requests : requests[w] # Free =>
           /\ requests[w].event \in DOMAIN Events
           /\ Events[requests[w].event].type \in {"paid", "failed"}
           /\ ~Dropped(Events[requests[w].event])
           /\ IsNamed(Events[requests[w].event], requests[w].who)

GrantsAreInvoices ==
    \A i \in DOMAIN ledger : \E evt \in Sent :
        /\ evt.type = "paid" /\ ~Skipped(evt)
        /\ ledger[i].key = SubscriptionKey(evt)
        /\ \E d, g \in Namers(invoiceSubID(evt)) \cup {evt} :
               /\ ledger[i].user = resolveUserPlan(evt, d.meta).user
               /\ ledger[i].amount = CreditsOf(resolveUserPlan(evt, g.meta).plan)

SubscriptionsInv ==
    /\ KeysPayOnce
    /\ StoredIsNamed
    /\ RequestsKnow
    /\ GrantsAreInvoices
    /\ NewestEventWins
    /\ AckedIsGranted
=============================================================================
