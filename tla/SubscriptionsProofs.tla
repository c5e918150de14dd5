-------------------------- MODULE SubscriptionsProofs ------------------------
(***************************************************************************)
(* Proofs about Stripe's subscriptions, for any set of events, whatever    *)
(* they say and in whatever order and however often they are delivered,    *)
(* any number of concurrent requests and any faults.                       *)
(*                                                                         *)
(* A request with an invoice decides for whom it is from a row that may be *)
(* overwritten before it grants.  The invariant therefore follows the user *)
(* and the plan back to the events: through the stored row, through the    *)
(* request's local variables, into the ledger.                             *)
(***************************************************************************)
EXTENDS Subscriptions, CreditsProofs, SequenceTheorems

(***************************************************************************)
(* Everything that the proofs need of a state.                             *)
(***************************************************************************)
StripeInv == TypeOK /\ AccountingInv /\ SubscriptionsInv

(***************************************************************************)
(* An event that was sent is found under its id.                           *)
(***************************************************************************)
LEMMA SentById ==
  ASSUME NEW evt \in Sent
  PROVE  /\ evt.id \in DOMAIN Events /\ Events[evt.id] = evt
         /\ evt.created \in Nat \ {0}
         /\ evt.meta.user \in Users \cup {NULL}
         /\ evt.type = "paid" => /\ evt.quoted.user \in Users \cup {NULL}
                                 /\ SubscriptionKey(evt) \in IdemKeys
                                 /\ SubscriptionKey(evt) # NULL
<1>1. PICK id \in DOMAIN Events : evt = Events[id]
  BY DEF Sent
<1>2. evt.id = id
  BY <1>1, SubscriptionsAssumption
<1> QED BY <1>1, <1>2, SubscriptionsAssumption, SubscriptionKeysAssumption, NullAssumption

(***************************************************************************)
(* What Else chooses.                                                      *)
(***************************************************************************)
LEMMA ElseMeans ==
  ASSUME NEW x, NEW y
  PROVE  /\ x # NULL => Else(x, y) = x
         /\ x = NULL => Else(x, y) = y
BY DEF Else

(***************************************************************************)
(* resolveUserPlan, field by field: what the invoice has itself, and else  *)
(* what is stored.                                                         *)
(***************************************************************************)
LEMMA Resolved ==
  ASSUME NEW evt, NEW stored
  PROVE  /\ resolveUserPlan(evt, stored).user =
                Else(evt.meta.user, Else(Quoted(evt).user, stored.user))
         /\ resolveUserPlan(evt, stored).plan =
                Else(evt.meta.plan, Else(Quoted(evt).plan, stored.plan))
BY DEF resolveUserPlan

(***************************************************************************)
(* An invoice for which nothing is stored has only its own.                *)
(***************************************************************************)
LEMMA ResolvedAlone ==
  ASSUME NEW evt
  PROVE  /\ resolveUserPlan(evt, Nobody).user = resolveUserPlan(evt, evt.meta).user
         /\ resolveUserPlan(evt, Nobody).plan = resolveUserPlan(evt, evt.meta).plan
<1>1. Nobody.user = NULL /\ Nobody.plan = NULL
  BY DEF Nobody
<1>2. resolveUserPlan(evt, Nobody).user = resolveUserPlan(evt, evt.meta).user
  <2>1. CASE evt.meta.user # NULL
    BY <2>1, Resolved, ElseMeans
  <2>2. CASE evt.meta.user = NULL
    BY <1>1, <2>2, Resolved
  <2> QED BY <2>1, <2>2
<1>3. resolveUserPlan(evt, Nobody).plan = resolveUserPlan(evt, evt.meta).plan
  <2>1. CASE evt.meta.plan # NULL
    BY <2>1, Resolved, ElseMeans
  <2>2. CASE evt.meta.plan = NULL
    BY <1>1, <2>2, Resolved
  <2> QED BY <2>1, <2>2
<1> QED BY <1>2, <1>3

(***************************************************************************)
(* A user that an invoice is resolved to is a user of the service.         *)
(***************************************************************************)
LEMMA NamedIsUser ==
  ASSUME NEW evt \in Sent, evt.type \in {"paid", "failed"}, NEW who, IsNamed(evt, who),
         who.user # NULL
  PROVE  who.user \in Users
<1>1. PICK d \in Namers(invoiceSubID(evt)) \cup {evt} :
         who.user = resolveUserPlan(evt, d.meta).user
  BY DEF IsNamed
<1>2. d \in Sent
  BY <1>1 DEF Namers, Mapped
<1>3. d.meta.user \in Users \cup {NULL} /\ evt.meta.user \in Users \cup {NULL}
  BY <1>2, SentById
<1>4. Quoted(evt).user \in Users \cup {NULL}
  BY SentById DEF Quoted, Nobody
<1>5. who.user = Else(evt.meta.user, Else(Quoted(evt).user, d.meta.user))
  BY <1>1, Resolved
<1> QED BY <1>3, <1>4, <1>5 DEF Else

(***************************************************************************)
(* A self-contained invoice is resolved to what it says, whatever is       *)
(* stored.                                                                 *)
(***************************************************************************)
LEMMA SelfContainedResolves ==
  ASSUME NEW evt, SelfContained(evt), NEW who, IsNamed(evt, who)
  PROVE  Known(who) /\ CreditsOf(who.plan) > 0
<1>1. PICK d, g : /\ who.user = resolveUserPlan(evt, d.meta).user
                  /\ who.plan = resolveUserPlan(evt, g.meta).plan
  BY DEF IsNamed
<1>2. Quoted(evt) = evt.quoted
  BY DEF SelfContained, Quoted
<1>3. /\ Else(evt.meta.user, evt.quoted.user) # NULL
      /\ Else(evt.meta.plan, evt.quoted.plan) # NULL
      /\ CreditsOf(Else(evt.meta.plan, evt.quoted.plan)) > 0
  BY DEF SelfContained, Known
<1>4. who.user = Else(evt.meta.user, evt.quoted.user)
  BY <1>1, <1>2, <1>3, Resolved DEF Else
<1>5. who.plan = Else(evt.meta.plan, evt.quoted.plan)
  BY <1>1, <1>2, <1>3, Resolved DEF Else
<1> QED BY <1>3, <1>4, <1>5 DEF Known

(***************************************************************************)
(* The fields of the two kinds of rows that ApplySubscription is given.    *)
(***************************************************************************)
LEMMA MappedFields ==
  ASSUME NEW evt \in Mapped
  PROVE  LET e == mapSubscriptionEvent(evt)
         IN  /\ evt \in Sent /\ evt.type = "subscription" /\ e # NULL
             /\ e.sub = evt.subscription /\ e.created = evt.created
             /\ e.user = evt.meta.user /\ e.plan = evt.meta.plan
             /\ evt \in Namers(e.sub) /\ e.created \in Nat
<1>1. evt \in Sent /\ evt.type = "subscription" /\ mapSubscriptionEvent(evt) # NULL
  BY DEF Mapped
<1>2. mapSubscriptionEvent(evt) =
        [sub |-> evt.subscription, user |-> evt.meta.user, plan |-> evt.meta.plan,
         status |-> normalise(evt.status), terms |-> evt.terms, created |-> evt.created]
  BY <1>1 DEF mapSubscriptionEvent
<1>3. evt.created \in Nat
  BY <1>1, SentById
<1> QED BY <1>1, <1>2, <1>3 DEF Namers

(***************************************************************************)
(* The same for a failed payment.                                          *)
(***************************************************************************)
LEMMA PastDueFields ==
  ASSUME NEW evt, NEW who
  PROVE  LET e == pastDue(evt, who)
         IN  /\ e.sub = invoiceSubID(evt) /\ e.created = evt.created
             /\ e.user = who.user /\ e.plan = who.plan
             /\ e = pastDue(evt, e)
BY DEF pastDue

-----------------------------------------------------------------------------
(***************************************************************************)
(* The two parts of NewestEventWins.                                       *)
(***************************************************************************)
AckedIsStored ==
  \A evt \in Mapped :
     LET e == mapSubscriptionEvent(evt)
     IN  evt.id \in acked => e.sub \in DOMAIN subs /\ e.created <= subs[e.sub].created

Reported(row) ==
  \/ \E evt \in Mapped : row = mapSubscriptionEvent(evt)
  \/ \E evt \in Sent : evt.type = "failed" /\ row = pastDue(evt, row)

RowsAreReported == \A s \in DOMAIN subs : Reported(subs[s])

(***************************************************************************)
(* They are its conjuncts.                                                 *)
(***************************************************************************)
LEMMA NewestParts == NewestEventWins <=> AckedIsStored /\ RowsAreReported
BY DEF NewestEventWins, AckedIsStored, RowsAreReported, Reported

(***************************************************************************)
(* No row is lost or goes back in time.                                    *)
(***************************************************************************)
SubsGrow ==
  \A s \in DOMAIN subs : s \in DOMAIN subs' /\ subs[s].created <= subs'[s].created

(***************************************************************************)
(* So it is when nothing is written.                                       *)
(***************************************************************************)
LEMMA SubsStay ==
  ASSUME StoredIsNamed, UNCHANGED subs
  PROVE  SubsGrow
BY DEF StoredIsNamed, SubsGrow

(***************************************************************************)
(* The upsert of ApplySubscription: a newer row replaces the stored one,   *)
(* and afterwards nothing older than e is stored.                          *)
(***************************************************************************)
LEMMA UpsertKeeps ==
  ASSUME StoredIsNamed, RowsAreReported,
         NEW e, ApplySubscription(e), e.created \in Nat, Reported(e),
         \E d, g \in Namers(e.sub) : e.user = d.meta.user /\ e.plan = g.meta.plan
  PROVE  /\ StoredIsNamed' /\ RowsAreReported' /\ SubsGrow
         /\ e.sub \in DOMAIN subs' /\ e.created <= subs'[e.sub].created
<1>1. CASE Newer(e)
  <2>1. /\ DOMAIN subs' = DOMAIN subs \cup {e.sub}
        /\ subs'[e.sub] = e
        /\ \A s \in DOMAIN subs : s # e.sub => subs'[s] = subs[s]
    BY <1>1 DEF ApplySubscription
  <2>2. StoredIsNamed'
    <3> SUFFICES ASSUME NEW s \in DOMAIN subs'
                 PROVE  /\ subs'[s].sub = s /\ subs'[s].created \in Nat
                        /\ \E d, g \in Namers(s) :
                              subs'[s].user = d.meta.user /\ subs'[s].plan = g.meta.plan
      BY DEF StoredIsNamed
    <3>1. CASE s = e.sub
      BY <2>1, <3>1
    <3>2. CASE s # e.sub
      BY <2>1, <3>2 DEF StoredIsNamed
    <3> QED BY <3>1, <3>2
  <2>3. RowsAreReported'
    BY <2>1 DEF RowsAreReported, Reported
  <2>4. SubsGrow
    <3> SUFFICES ASSUME NEW s \in DOMAIN subs
                 PROVE  s \in DOMAIN subs' /\ subs[s].created <= subs'[s].created
      BY DEF SubsGrow
    <3>1. subs[s].created \in Nat
      BY DEF StoredIsNamed
    <3>2. s = e.sub => subs[s].created < e.created
      BY <1>1, <3>1 DEF Newer
    <3> QED BY <2>1, <3>1, <3>2
  <2> QED BY <2>1, <2>2, <2>3, <2>4
<1>2. CASE ~ Newer(e)
  <2>1. subs' = subs
    BY <1>2 DEF ApplySubscription
  <2>2. e.sub \in DOMAIN subs /\ ~ (e.created > subs[e.sub].created)
    BY <1>2 DEF Newer
  <2>3. subs[e.sub].created \in Nat
    BY <2>2 DEF StoredIsNamed
  <2>4. StoredIsNamed' /\ RowsAreReported'
    BY <2>1 DEF StoredIsNamed, RowsAreReported
  <2> QED BY <2>1, <2>2, <2>3, <2>4, SubsStay
<1> QED BY <1>1, <1>2

(***************************************************************************)
(* A reply acknowledges its own event or none.                             *)
(***************************************************************************)
LEMMA ReplyAcks ==
  ASSUME NEW evt, Reply(evt) \/ UNCHANGED acked
  PROVE  acked' \subseteq acked \cup {evt.id}
BY DEF Reply, Fault

(***************************************************************************)
(* Acknowledging an event that is stored, or about no subscription, keeps  *)
(* the first part of NewestEventWins.                                      *)
(***************************************************************************)
LEMMA AckStored ==
  ASSUME StoredIsNamed, StoredIsNamed', AckedIsStored, SubsGrow,
         NEW evt \in Sent, acked' \subseteq acked \cup {evt.id},
         evt \in Mapped => LET e == mapSubscriptionEvent(evt)
                           IN  e.sub \in DOMAIN subs' /\ e.created <= subs'[e.sub].created
  PROVE  AckedIsStored'
<1> SUFFICES ASSUME NEW f \in Mapped, f.id \in acked', NEW e, e = mapSubscriptionEvent(f)
             PROVE  e.sub \in DOMAIN subs' /\ e.created <= subs'[e.sub].created
  BY DEF AckedIsStored
<1>1. e.created \in Nat /\ f \in Sent
  BY MappedFields
<1>2. CASE f.id = evt.id
  <2>1. f = evt
    BY <1>1, <1>2, SentById
  <2> QED BY <2>1
<1>3. CASE f.id \in acked
  <2>1. e.sub \in DOMAIN subs /\ e.created <= subs[e.sub].created
    BY <1>3 DEF AckedIsStored
  <2>2. e.sub \in DOMAIN subs' /\ subs[e.sub].created <= subs'[e.sub].created
    BY <2>1 DEF SubsGrow
  <2>3. subs[e.sub].created \in Nat /\ subs'[e.sub].created \in Nat
    BY <2>1, <2>2 DEF StoredIsNamed
  <2> QED BY <1>1, <2>1, <2>2, <2>3
<1> QED BY <1>2, <1>3

(***************************************************************************)
(* Acknowledging an event that has its grant, or is due none, keeps        *)
(* AckedIsGranted.                                                         *)
(***************************************************************************)
LEMMA AckGranted ==
  ASSUME AckedIsGranted, NEW evt \in Sent, acked' \subseteq acked \cup {evt.id},
         UsedKeys \subseteq UsedKeys',
         SelfContained(evt) => SubscriptionKey(evt) \in UsedKeys'
  PROVE  AckedIsGranted'
<1> SUFFICES ASSUME NEW id \in acked', SelfContained(Events[id])
             PROVE  SubscriptionKey(Events[id]) \in UsedKeys'
  BY DEF AckedIsGranted
<1>1. CASE id = evt.id
  BY <1>1, SentById
<1>2. CASE id \in acked
  BY <1>2 DEF AckedIsGranted
<1> QED BY <1>1, <1>2

(***************************************************************************)
(* A step that leaves the service's tables alone keeps what is said of     *)
(* them.                                                                   *)
(***************************************************************************)
LEMMA QuietLedger ==
  ASSUME StripeInv, UNCHANGED vars
  PROVE  /\ TypeOK' /\ AccountingInv' /\ KeysPayOnce' /\ GrantsAreInvoices'
         /\ UsedKeys' = UsedKeys
<1>1. TypeOK' /\ AccountingInv' /\ KeysPayOnce'
  BY TypeNext, AccountingNext, KeysNext DEF StripeInv, SubscriptionsInv
<1>2. GrantsAreInvoices' /\ UsedKeys' = UsedKeys
  BY DEF vars, StripeInv, SubscriptionsInv, GrantsAreInvoices, UsedKeys
<1> QED BY <1>1, <1>2

(***************************************************************************)
(* A request that ends, or begins with what it has read, leaves the others *)
(* alone.                                                                  *)
(***************************************************************************)
LEMMA RequestMoves ==
  ASSUME RequestsKnow, NEW w \in Requests, NEW req,
         requests' = [requests EXCEPT ![w] = req],
         req # Free => /\ req.event \in DOMAIN Events
                       /\ Events[req.event].type \in {"paid", "failed"}
                       /\ ~Dropped(Events[req.event])
                       /\ IsNamed(Events[req.event], req.who)
  PROVE  RequestsKnow'
<1>1. /\ DOMAIN requests' = Requests /\ requests'[w] = req
      /\ \A v \in Requests : v # w => requests'[v] = requests[v]
  BY DEF RequestsKnow
<1> QED BY <1>1 DEF RequestsKnow

(***************************************************************************)
(* What a step must show, the ledger unchanged, for the whole invariant.   *)
(***************************************************************************)
LEMMA QuietRequest ==
  ASSUME StripeInv, UNCHANGED vars, RequestsKnow', StoredIsNamed', RowsAreReported',
         SubsGrow, NEW evt \in Sent, acked' \subseteq acked \cup {evt.id},
         evt.type # "paid" \/ Skipped(evt) \/ acked' = acked
            \/ (SelfContained(evt) => SubscriptionKey(evt) \in UsedKeys),
         evt \in Mapped => LET e == mapSubscriptionEvent(evt)
                           IN  e.sub \in DOMAIN subs' /\ e.created <= subs'[e.sub].created
  PROVE  StripeInv'
<1>1. /\ TypeOK' /\ AccountingInv' /\ KeysPayOnce' /\ GrantsAreInvoices'
      /\ UsedKeys' = UsedKeys
  BY QuietLedger
<1>2. AckedIsGranted'
  <2>1. CASE acked' = acked
    BY <1>1, <2>1 DEF StripeInv, SubscriptionsInv, AckedIsGranted
  <2>2. CASE acked' # acked
    <3>1. SelfContained(evt) => SubscriptionKey(evt) \in UsedKeys'
      BY <1>1, <2>2 DEF SelfContained
    <3> QED BY <1>1, <3>1, AckGranted DEF StripeInv, SubscriptionsInv
  <2> QED BY <2>1, <2>2
<1>3. AckedIsStored'
  BY AckStored, NewestParts DEF StripeInv, SubscriptionsInv
<1>4. NewestEventWins'
  BY <1>3 DEF NewestEventWins, AckedIsStored, RowsAreReported, Reported
<1> QED BY <1>1, <1>2, <1>4 DEF StripeInv, SubscriptionsInv

-----------------------------------------------------------------------------
(***************************************************************************)
(* The empty tables satisfy the invariant.                                 *)
(***************************************************************************)
LEMMA StripeInit == SubscriptionsInit => StripeInv
<1> SUFFICES ASSUME SubscriptionsInit PROVE StripeInv
  OBVIOUS
<1>1. TypeOK /\ AccountingInv
  BY TypeInit, AccountingInit DEF SubscriptionsInit
<1>2. ledger = << >> /\ DOMAIN subs = {} /\ acked = {}
      /\ requests = [w \in Requests |-> Free]
  BY DEF SubscriptionsInit, Init
<1> QED BY <1>1, <1>2
      DEF StripeInv, SubscriptionsInv, KeysPayOnce, StoredIsNamed, RequestsKnow,
          GrantsAreInvoices, NewestEventWins, AckedIsGranted

(***************************************************************************)
(* An event about a subscription.                                          *)
(***************************************************************************)
LEMMA HandleSubscriptionInv ==
  ASSUME StripeInv, NEW evt \in Sent, HandleSubscription(evt)
  PROVE  StripeInv'
<1>0. /\ StoredIsNamed /\ RowsAreReported /\ RequestsKnow
  BY NewestParts DEF StripeInv, SubscriptionsInv
<1>1. /\ evt.type = "subscription" /\ UNCHANGED <<vars, requests>>
      /\ acked' \subseteq acked \cup {evt.id}
  BY ReplyAcks DEF HandleSubscription
<1>2. RequestsKnow'
  BY <1>0, <1>1 DEF RequestsKnow
<1>3. PICK e : e = mapSubscriptionEvent(evt)
  OBVIOUS
<1>4. CASE e = NULL
  <2>1. UNCHANGED subs
    BY <1>3, <1>4 DEF HandleSubscription
  <2>2. evt \notin Mapped
    BY <1>3, <1>4 DEF Mapped
  <2>3. StoredIsNamed' /\ RowsAreReported' /\ SubsGrow
    BY <1>0, <2>1, SubsStay DEF StoredIsNamed, RowsAreReported
  <2> QED BY <1>1, <1>2, <2>2, <2>3, QuietRequest
<1>5. CASE e # NULL
  <2>1. ApplySubscription(e)
    BY <1>3, <1>5 DEF HandleSubscription
  <2>2. evt \in Mapped
    BY <1>1, <1>3, <1>5 DEF Mapped
  <2>3. /\ e.created \in Nat /\ evt \in Namers(e.sub)
        /\ e.user = evt.meta.user /\ e.plan = evt.meta.plan
    BY <1>3, <2>2, MappedFields
  <2>4. Reported(e)
    BY <1>3, <2>2 DEF Reported
  <2>5. /\ StoredIsNamed' /\ RowsAreReported' /\ SubsGrow
        /\ e.sub \in DOMAIN subs' /\ e.created <= subs'[e.sub].created
    BY <1>0, <2>1, <2>3, <2>4, UpsertKeeps
  <2> QED BY <1>1, <1>2, <1>3, <2>5, QuietRequest
<1> QED BY <1>4, <1>5

(***************************************************************************)
(* An invoice is about no subscription event.                              *)
(***************************************************************************)
LEMMA InvoicesAreNotMapped ==
  ASSUME NEW evt, evt.type \in {"paid", "failed"}
  PROVE  evt \notin Mapped
BY DEF Mapped

(***************************************************************************)
(* An invoice that is dropped, and one whose request begins or dies: the   *)
(* table of subscriptions stays.                                           *)
(***************************************************************************)
LEMMA StoredStays ==
  ASSUME StripeInv, UNCHANGED <<vars, subs>>, RequestsKnow',
         NEW evt \in Sent, evt.type \in {"paid", "failed"},
         acked' \subseteq acked \cup {evt.id},
         \/ evt.type = "failed" \/ Skipped(evt) \/ acked' = acked
         \/ SelfContained(evt) => SubscriptionKey(evt) \in UsedKeys
  PROVE  StripeInv'
<1>1. /\ StoredIsNamed' /\ RowsAreReported' /\ SubsGrow
  BY SubsStay, NewestParts DEF StripeInv, SubscriptionsInv, StoredIsNamed, RowsAreReported
<1>2. evt \notin Mapped /\ (evt.type = "failed" => evt.type # "paid")
  BY InvoicesAreNotMapped
<1> QED BY <1>1, <1>2, QuietRequest

(***************************************************************************)
(* A dropped invoice is acknowledged.                                      *)
(***************************************************************************)
LEMMA DropInvoiceInv ==
  ASSUME StripeInv, NEW evt \in Sent, DropInvoice(evt)
  PROVE  StripeInv'
<1>1. /\ UNCHANGED <<vars, subs, requests>> /\ acked' \subseteq acked \cup {evt.id}
      /\ evt.type \in {"paid", "failed"} /\ (evt.type = "failed" \/ Skipped(evt))
  BY ReplyAcks DEF DropInvoice, Dropped
<1>2. RequestsKnow'
  BY <1>1 DEF RequestsKnow, StripeInv, SubscriptionsInv
<1> QED BY <1>1, <1>2, StoredStays

(***************************************************************************)
(* A request reads the stored subscription, or fails to: its user and plan *)
(* come from the events that are named.                                    *)
(***************************************************************************)
LEMMA ReadSubscriptionInv ==
  ASSUME StripeInv, NEW evt \in Sent, NEW w \in Requests, ReadSubscription(w, evt)
  PROVE  StripeInv'
<1>0. StoredIsNamed /\ RequestsKnow
  BY DEF StripeInv, SubscriptionsInv
<1>1. /\ evt.type \in {"paid", "failed"} /\ ~Dropped(evt)
      /\ UNCHANGED <<vars, subs, acked>>
  BY DEF ReadSubscription
<1>2. PICK stored \in {Stored(invoiceSubID(evt)), Nobody} :
         requests' = [requests EXCEPT ![w] =
                         [event |-> evt.id, who |-> resolveUserPlan(evt, stored)]]
  BY DEF ReadSubscription
<1>3. PICK who : who = resolveUserPlan(evt, stored)
  OBVIOUS
<1>4. PICK s : s = invoiceSubID(evt)
  OBVIOUS
<1>5. IsNamed(evt, who)
  <2>1. CASE stored = Nobody
    BY <1>3, <2>1, ResolvedAlone DEF IsNamed
  <2>2. CASE stored # Nobody
    <3>1. s \in DOMAIN subs /\ stored = subs[s]
      BY <1>2, <1>4, <2>2 DEF Stored
    <3>2. PICK d \in Namers(s), g \in Namers(s) :
             stored.user = d.meta.user /\ stored.plan = g.meta.plan
      BY <1>0, <3>1 DEF StoredIsNamed
    <3>3. /\ who.user = resolveUserPlan(evt, d.meta).user
          /\ who.plan = resolveUserPlan(evt, g.meta).plan
      BY <1>3, <3>2, Resolved
    <3> QED BY <1>4, <3>3 DEF IsNamed
  <2> QED BY <2>1, <2>2
<1>6. PICK req : req = [event |-> evt.id, who |-> who]
  OBVIOUS
<1>7. req.event = evt.id /\ req.who = who /\ requests' = [requests EXCEPT ![w] = req]
  BY <1>2, <1>3, <1>6
<1>8. evt.id \in DOMAIN Events /\ Events[evt.id] = evt
  BY SentById
<1>9. RequestsKnow'
  BY <1>0, <1>1, <1>5, <1>7, <1>8, RequestMoves
<1> QED BY <1>1, <1>9, StoredStays

(***************************************************************************)
(* What a request that is served knows.                                    *)
(***************************************************************************)
LEMMA ServedKnows ==
  ASSUME StripeInv, NEW w \in Requests, requests[w] # Free,
         NEW evt, evt = Events[requests[w].event]
  PROVE  /\ evt \in Sent /\ evt.type \in {"paid", "failed"} /\ ~Dropped(evt)
         /\ IsNamed(evt, requests[w].who)
BY DEF StripeInv, SubscriptionsInv, RequestsKnow, Sent

(***************************************************************************)
(* A failed payment marks the subscription as past due, for the user and   *)
(* the plan that the request resolved.                                     *)
(***************************************************************************)
LEMMA InvoiceFailedInv ==
  ASSUME StripeInv, NEW w \in Requests, handleInvoiceFailed(w)
  PROVE  StripeInv'
<1>0. StoredIsNamed /\ RowsAreReported /\ RequestsKnow
  BY NewestParts DEF StripeInv, SubscriptionsInv
<1>1. PICK evt, who : evt = Events[requests[w].event] /\ who = requests[w].who
  OBVIOUS
<1>2. /\ requests[w] # Free /\ evt.type = "failed" /\ UNCHANGED vars
      /\ requests' = [requests EXCEPT ![w] = Free]
  BY <1>1 DEF handleInvoiceFailed, Serving
<1>3. evt \in Sent /\ IsNamed(evt, who)
  BY <1>1, <1>2, ServedKnows
<1>4. RequestsKnow'
  BY <1>0, <1>2, RequestMoves
<1>5. \/ Known(who) /\ ApplySubscription(pastDue(evt, who)) /\ Reply(evt)
      \/ Known(who) /\ Fault /\ acked' = acked \cup {evt.id} /\ UNCHANGED subs
      \/ ~Known(who) /\ Reply(evt) /\ UNCHANGED subs
  BY <1>1 DEF handleInvoiceFailed
<1>6. acked' \subseteq acked \cup {evt.id}
  BY <1>5, ReplyAcks
<1>7. CASE UNCHANGED subs
  BY <1>2, <1>3, <1>4, <1>6, <1>7, StoredStays
<1>8. CASE ApplySubscription(pastDue(evt, who))
  <2>1. PICK e : e = pastDue(evt, who)
    OBVIOUS
  <2>2. /\ e.sub = invoiceSubID(evt) /\ e.created = evt.created
        /\ e.user = who.user /\ e.plan = who.plan /\ e = pastDue(evt, e)
    BY <2>1, PastDueFields
  <2>3. e.created \in Nat /\ Reported(e)
    BY <1>2, <1>3, <2>2, SentById DEF Reported
  <2>4. evt \in Namers(e.sub)
    BY <1>2, <1>3, <2>2 DEF Namers
  <2>5. \E d, g \in Namers(e.sub) : e.user = d.meta.user /\ e.plan = g.meta.plan
    <3>1. PICK d \in Namers(e.sub), g \in Namers(e.sub) :
             /\ who.user = resolveUserPlan(evt, d.meta).user
             /\ who.plan = resolveUserPlan(evt, g.meta).plan
      BY <1>3, <2>2, <2>4 DEF IsNamed
    <3>2. Quoted(evt).user = NULL /\ Quoted(evt).plan = NULL
      BY <1>2 DEF Quoted, Nobody
    <3>3. who.user = evt.meta.user \/ who.user = d.meta.user
      BY <3>1, <3>2, Resolved DEF Else
    <3>4. who.plan = evt.meta.plan \/ who.plan = g.meta.plan
      BY <3>1, <3>2, Resolved DEF Else
    <3> QED BY <2>2, <2>4, <3>3, <3>4
  <2>6. StoredIsNamed' /\ RowsAreReported' /\ SubsGrow
    BY <1>0, <1>8, <2>1, <2>3, <2>5, UpsertKeeps
  <2>7. evt \notin Mapped /\ evt.type # "paid"
    BY <1>2, InvoicesAreNotMapped
  <2> QED BY <1>2, <1>3, <1>4, <1>6, <2>6, <2>7, QuietRequest
<1> QED BY <1>5, <1>7, <1>8

(***************************************************************************)
(* A paid invoice: a Grant of module Credits under the invoice's key to    *)
(* the user that the request resolved, unless the key was used.            *)
(***************************************************************************)
LEMMA InvoicePaidInv ==
  ASSUME StripeInv, NEW w \in Requests, handleInvoicePaid(w)
  PROVE  StripeInv'
<1>0. /\ TypeOK /\ AccountingInv /\ KeysPayOnce /\ GrantsAreInvoices /\ AckedIsGranted
      /\ StoredIsNamed /\ RowsAreReported /\ AckedIsStored /\ RequestsKnow
  BY NewestParts DEF StripeInv, SubscriptionsInv
<1>1. PICK evt, who, key : /\ evt = Events[requests[w].event] /\ who = requests[w].who
                           /\ key = SubscriptionKey(evt)
  OBVIOUS
<1>2. /\ requests[w] # Free /\ evt.type = "paid" /\ UNCHANGED subs
      /\ requests' = [requests EXCEPT ![w] = Free]
      /\ acked' \subseteq acked \cup {evt.id}
  BY <1>1, ReplyAcks DEF handleInvoicePaid, Serving
<1>3. evt \in Sent /\ ~Skipped(evt) /\ IsNamed(evt, who)
  BY <1>1, <1>2, ServedKnows DEF Dropped
<1>4. RequestsKnow'
  BY <1>0, <1>2, RequestMoves
<1>5. key \in IdemKeys /\ key # NULL
  BY <1>1, <1>2, <1>3, SentById
<1>6. PICK n : n = CreditsOf(who.plan)
  OBVIOUS
<1>7. \/ Known(who) /\ Grant(who.user, n, key)
      \/ key \in UsedKeys /\ UNCHANGED vars
      \/ ~ (Known(who) /\ n # 0) /\ UNCHANGED vars
  BY <1>1, <1>6 DEF handleInvoicePaid
<1>8. CASE UNCHANGED vars /\ (key \in UsedKeys \/ ~ (Known(who) /\ n # 0))
  <2>1. SelfContained(evt) => key \in UsedKeys
    <3>1. SelfContained(evt) => Known(who) /\ n > 0
      BY <1>3, <1>6, SelfContainedResolves
    <3> QED BY <1>8, <3>1
  <2> QED BY <1>1, <1>2, <1>3, <1>4, <1>8, <2>1, StoredStays
<1>9. CASE Known(who) /\ Grant(who.user, n, key)
  <2>1. n \in Int /\ n > 0
    BY <1>6, <1>9, SubscriptionsAssumption DEF CreditsOf, Grant
  <2>2. who.user \in Users
    BY <1>2, <1>3, <1>9, NamedIsUser DEF Known
  <2>3. adjust(who.user, n, key, "grant")
    BY <1>9 DEF Grant
  <2>4. TypeOK'
    BY <1>0, <1>5, <2>1, <2>2, <2>3, AdjustType DEF LedgerTypes
  <2>5. AccountingInv'
    BY <1>0, <1>5, <2>1, <2>2, <2>3, <2>4, AdjustAccounting DEF LedgerTypes
  <2>6. PICK row : row = Row(who.user, n, "grant", NULL, key)
    OBVIOUS
  <2>7. /\ row.user = who.user /\ row.amount = n /\ row.key = key
        /\ ledger' = Append(ledger, row) /\ FreshKey(row.key)
    BY <2>3, <2>6 DEF Row, adjust
  <2>8. KeysPayOnce'
    BY <1>0, <2>7, KeysAppend
  <2>9. /\ Len(ledger) \in Nat /\ DOMAIN ledger = 1 .. Len(ledger)
        /\ DOMAIN ledger' = 1 .. Len(ledger) + 1
        /\ \A i \in DOMAIN ledger : ledger'[i] = ledger[i]
        /\ ledger'[Len(ledger) + 1] = row
    BY <1>0, <2>7 DEF TypeOK
  <2>10. UsedKeys \subseteq UsedKeys' /\ key \in UsedKeys'
    BY <1>5, <2>7, <2>9 DEF UsedKeys
  <2>11. GrantsAreInvoices'
    <3> SUFFICES ASSUME NEW i \in DOMAIN ledger'
                 PROVE  \E f \in Sent :
                    /\ f.type = "paid" /\ ~Skipped(f)
                    /\ ledger'[i].key = SubscriptionKey(f)
                    /\ \E d, g \in Namers(invoiceSubID(f)) \cup {f} :
                          /\ ledger'[i].user = resolveUserPlan(f, d.meta).user
                          /\ ledger'[i].amount = CreditsOf(resolveUserPlan(f, g.meta).plan)
      BY DEF GrantsAreInvoices
    <3>1. CASE i \in DOMAIN ledger
      BY <1>0, <2>9, <3>1 DEF GrantsAreInvoices
    <3>2. CASE i = Len(ledger) + 1
      <4>1. \E d, g \in Namers(invoiceSubID(evt)) \cup {evt} :
               /\ row.user = resolveUserPlan(evt, d.meta).user
               /\ row.amount = CreditsOf(resolveUserPlan(evt, g.meta).plan)
        BY <1>3, <1>6, <2>7 DEF IsNamed
      <4>2. ledger'[i] = row
        BY <2>9, <3>2
      <4> QED BY <1>1, <1>2, <1>3, <2>7, <4>1, <4>2
    <3> QED BY <2>9, <3>1, <3>2
  <2>12. AckedIsGranted'
    BY <1>0, <1>1, <1>2, <1>3, <2>10, AckGranted
  <2>13. /\ StoredIsNamed' /\ RowsAreReported' /\ SubsGrow
    BY <1>0, <1>2, SubsStay DEF StoredIsNamed, RowsAreReported
  <2>14. AckedIsStored'
    <3>1. evt \notin Mapped
      BY <1>2, InvoicesAreNotMapped
    <3> QED BY <1>0, <1>2, <1>3, <2>13, <3>1, AckStored
  <2>15. NewestEventWins'
    BY <2>13, <2>14 DEF NewestEventWins, AckedIsStored, RowsAreReported, Reported
  <2> QED BY <1>4, <2>4, <2>5, <2>8, <2>11, <2>12, <2>13, <2>15
        DEF StripeInv, SubscriptionsInv
<1> QED BY <1>7, <1>8, <1>9

(***************************************************************************)
(* A request that dies.                                                    *)
(***************************************************************************)
LEMMA CrashInv ==
  ASSUME StripeInv, NEW w \in Requests, Crash(w)
  PROVE  StripeInv'
<1>1. PICK evt : evt = Events[requests[w].event]
  OBVIOUS
<1>2. /\ requests[w] # Free /\ UNCHANGED <<vars, subs, acked>>
      /\ requests' = [requests EXCEPT ![w] = Free]
  BY DEF Crash
<1>3. evt \in Sent /\ evt.type \in {"paid", "failed"}
  BY <1>1, <1>2, ServedKnows
<1>4. RequestsKnow'
  BY <1>2, RequestMoves DEF StripeInv, SubscriptionsInv
<1> QED BY <1>2, <1>3, <1>4, StoredStays

(***************************************************************************)
(* Every step keeps the invariant.                                         *)
(***************************************************************************)
LEMMA StripeNext == StripeInv /\ [SubscriptionsNext]_allVars => StripeInv'
<1> SUFFICES ASSUME StripeInv, [SubscriptionsNext]_allVars PROVE StripeInv'
  OBVIOUS
<1>1. ASSUME NEW id \in DOMAIN Events, Deliver(Events[id]) PROVE StripeInv'
  <2>1. Events[id] \in Sent
    BY DEF Sent
  <2> QED BY <1>1, <2>1, HandleSubscriptionInv, DropInvoiceInv, ReadSubscriptionInv
        DEF Deliver
<1>2. ASSUME NEW w \in Requests, Finish(w) PROVE StripeInv'
  BY <1>2, InvoiceFailedInv, InvoicePaidInv DEF Finish
<1>3. ASSUME NEW w \in Requests, Crash(w) PROVE StripeInv'
  BY <1>3, CrashInv
<1>4. ASSUME UNCHANGED allVars PROVE StripeInv'
  <2>1. UNCHANGED <<vars, subs, requests, acked>>
    BY <1>4 DEF allVars, subVars
  <2>2. /\ TypeOK' /\ AccountingInv' /\ KeysPayOnce' /\ GrantsAreInvoices'
        /\ UsedKeys' = UsedKeys
    BY <2>1, QuietLedger
  <2> QED BY <2>1, <2>2
        DEF StripeInv, SubscriptionsInv, StoredIsNamed, RequestsKnow, NewestEventWins,
            AckedIsGranted
<1> QED BY <1>1, <1>2, <1>3, <1>4 DEF SubscriptionsNext

(***************************************************************************)
(* The invariant holds always.                                             *)
(***************************************************************************)
THEOREM SubscriptionsCorrect == SubscriptionsSpec => []StripeInv
BY StripeInit, StripeNext, PTL DEF SubscriptionsSpec

(***************************************************************************)
(* Whatever overtakes what, the newest event wins.                         *)
(***************************************************************************)
THEOREM NewestWins == SubscriptionsSpec => []NewestEventWins
<1>1. StripeInv => NewestEventWins
  BY DEF StripeInv, SubscriptionsInv
<1> QED BY <1>1, SubscriptionsCorrect, PTL

(***************************************************************************)
(* What was acknowledged has been granted.                                 *)
(***************************************************************************)
THEOREM AcknowledgedIsGranted == SubscriptionsSpec => []AckedIsGranted
<1>1. StripeInv => AckedIsGranted
  BY DEF StripeInv, SubscriptionsInv
<1> QED BY <1>1, SubscriptionsCorrect, PTL

(***************************************************************************)
(* The first four parts of an invoice's key are the key.                   *)
(***************************************************************************)
LEMMA KeyIsFour ==
  ASSUME NEW evt
  PROVE  SubSeq(SubscriptionKey(evt), 1, 4) = SubscriptionKey(evt)
<1>1. PICK a, b, c, d : SubscriptionKey(evt) = <<a, b, c, d>>
  BY DEF SubscriptionKey
<1> DEFINE s == <<a, b, c, d>>
<1>2. s \in Seq({a, b, c, d}) /\ Len(s) = 4
  OBVIOUS
<1> HIDE DEF s
<1>3. SubSeq(s, 1, 4) = s
  BY <1>2, SubSeqFull
<1> QED BY <1>1, <1>3 DEF s

(***************************************************************************)
(* An invoice brings credits once, and those of its plan to its user.      *)
(***************************************************************************)
THEOREM InvoiceIsPaidOnce == SubscriptionsSpec => []InvoicesGrantOnce
<1>1. StripeInv => InvoicesGrantOnce
  <2> SUFFICES ASSUME StripeInv PROVE InvoicesGrantOnce
    OBVIOUS
  <2>1. KeysPayOnce /\ GrantsAreInvoices
    BY DEF StripeInv, SubscriptionsInv
  <2>2. \A i \in DOMAIN ledger : /\ SubSeq(ledger[i].key, 1, 4) = ledger[i].key
                                 /\ ledger[i].key # NULL
    BY <2>1, KeyIsFour, SentById DEF GrantsAreInvoices
  <2>3. \A i, j \in DOMAIN ledger :
           SubSeq(ledger[i].key, 1, 4) = SubSeq(ledger[j].key, 1, 4) => i = j
    BY <2>1, <2>2 DEF KeysPayOnce
  <2> QED BY <2>1, <2>3 DEF InvoicesGrantOnce, GrantsAreInvoices
<1> QED BY <1>1, SubscriptionsCorrect, PTL
=============================================================================
