------------------------------ MODULE Payments -------------------------------
(***************************************************************************)
(* Package payments: purchases, the inbox of provider events with its      *)
(* leases, and the processes that work it off (webhook requests, which     *)
(* call ProcessPending after Receive, and the loops of Worker.Run), over   *)
(* the ledger of module Credits.                                           *)
(*                                                                         *)
(* Only the end of processOne is a transaction.  The claim, the read of    *)
(* the purchase and fail are statements of their own, and what was read of *)
(* the purchase is used after everybody else has had a turn.               *)
(***************************************************************************)
EXTENDS Credits

CONSTANTS
    PurchaseIds,    \* ids that NewRequestID may return
    Providers,
    Catalog,        \* sku -> its credits and its price in minor units
    Facts,          \* what providers send: the events and their payloads
    Handlers,       \* webhook requests
    Loops,          \* workers: one Run per app instance
    Ledgers,        \* "service": the ledger is a *credits.Service; or "other"
    BatchSize,      \* the LIMIT of ProcessPending
    MaxAttempts,    \* WorkerConfig.MaxAttempts
    MaxDeliveries,  \* bound: webhook requests with an event
    MaxFaults       \* bound: crashes and failing statements

ASSUME PaymentsAssumption ==
    /\ BatchSize \in Nat \ {0} /\ MaxAttempts \in Nat \ {0}
    /\ MaxDeliveries \in Nat /\ MaxFaults \in Nat
    /\ \A sku \in DOMAIN Catalog :
           Catalog[sku].credits \in Nat \ {0} /\ Catalog[sku].amount \in Nat \ {0}
    /\ \A f \in Facts : f.status \in {"paid", "refunded", "disputed"} /\ f.minor \in Int

VARIABLES
    purchases,      \* payment_purchases: id -> row
    inbox,          \* payment_events: provider and event_id -> row
    procs,          \* the local variables of handlers and loops
    kind,           \* which of Ledgers the service was built with
    reported,       \* events that were passed to DeadLetter
    deliveries,     \* events received so far
    faults,         \* faults so far
    stale           \* history: a purchase was written from an outdated read

paymentVars == <<purchases, inbox, procs, kind, reported, deliveries, faults, stale>>
allVars == <<vars, paymentVars>>

Procs == Handlers \cup Loops

(***************************************************************************)
(* The primary key of payment_events.                                      *)
(***************************************************************************)
EventId(f) == <<f.provider, f.id>>

EventIds == {EventId(f) : f \in Facts}

(***************************************************************************)
(* The key of a payment's grant and of an event's reversal.  Mutants: each *)
(* with the other's identity.                                              *)
(***************************************************************************)
PaymentKeyByEvent(f) == <<"payment", f.provider, f.id>>
ReversalKeyByPayment(f) == <<"reversal", f.provider, f.payment>>

PaymentKey(f) == <<"payment", f.provider, f.payment>>
ReversalKey(f) == <<"reversal", f.provider, f.id>>

(***************************************************************************)
(* These keys are among those that callers pass to Grant and Refund.       *)
(***************************************************************************)
ASSUME PaymentKeysAssumption ==
    \A f \in Facts : PaymentKey(f) \in IdemKeys /\ ReversalKey(f) \in IdemKeys

(***************************************************************************)
(* How much of a purchase an event takes back in all (a refund's amount is *)
(* cumulative; an event without an amount takes everything), and how much  *)
(* of that is still to be taken, by what was read of the purchase.         *)
(* Mutant: amounts are not cumulative.                                     *)
(***************************************************************************)
target(p, f) ==
    IF f.minor <= 0 THEN p.credits
    ELSE (p.credits * (IF f.minor < p.amount THEN f.minor ELSE p.amount)
            + p.amount - 1) \div p.amount

reversalNotCumulative(p, f) == target(p, f)

reversal(p, f) == target(p, f) - p.reversed

Ready(w) == [pc |-> IF w \in Loops THEN "start" ELSE "idle",
             batch |-> {}, event |-> NULL, read |-> NULL]

(***************************************************************************)
(* ProcessPending returns: to the webhook request, or to the loop, which   *)
(* then looks for dead letters.                                            *)
(***************************************************************************)
Returned(w) == [Ready(w) EXCEPT !.pc = IF w \in Loops THEN "alarm" ELSE "idle"]

(***************************************************************************)
(* Where the loop over the batch goes on when B is left of it.             *)
(***************************************************************************)
Continue(w, B) == IF B = {} THEN Returned(w)
                  ELSE [Ready(w) EXCEPT !.pc = "claim", !.batch = B]

PaymentsInit ==
    /\ Init
    /\ purchases = [i \in {} |-> 0]
    /\ inbox = [e \in {} |-> 0]
    /\ procs = [w \in Procs |-> Ready(w)]
    /\ kind \in Ledgers
    /\ reported = {}
    /\ deliveries = 0 /\ faults = 0 /\ stale = FALSE

-----------------------------------------------------------------------------
(***************************************************************************)
(* CreatePurchase: the row is a snapshot of the catalog item.              *)
(***************************************************************************)
CreatePurchase(i, provider, u, sku) ==
    /\ i \notin DOMAIN purchases
    /\ purchases' = [j \in DOMAIN purchases \cup {i} |->
            IF j = i THEN [id |-> i, provider |-> provider, user |-> u,
                           credits |-> Catalog[sku].credits,
                           amount |-> Catalog[sku].amount,
                           payment |-> NULL, status |-> "pending", reversed |-> 0]
                     ELSE purchases[j]]
    /\ UNCHANGED <<vars, inbox, procs, kind, reported, deliveries, faults, stale>>

(***************************************************************************)
(* Receive: the event is stored unless it is there already; an id that is  *)
(* there with another payload is an error.  received_at has seconds, so an *)
(* event may share it with the one before.  A provider learns of a         *)
(* purchase from its row's id, so the row is there before its events.      *)
(***************************************************************************)
LastReceived == IF DOMAIN inbox = {} THEN 0
                ELSE CHOOSE n \in {inbox[e].at : e \in DOMAIN inbox} :
                         \A e \in DOMAIN inbox : inbox[e].at <= n

Receive(w, f) ==
    /\ w \in Handlers /\ procs[w].pc = "idle"
    /\ deliveries < MaxDeliveries
    /\ f.purchase \in PurchaseIds => f.purchase \in DOMAIN purchases
    /\ deliveries' = deliveries + 1
    /\ \/ /\ EventId(f) \notin DOMAIN inbox
          /\ \E at \in {LastReceived, LastReceived + 1} :
                 inbox' = [e \in DOMAIN inbox \cup {EventId(f)} |->
                     IF e = EventId(f) THEN [fact |-> f, status |-> "received", attempts |-> 0,
                                       expired |-> FALSE, at |-> at]
                                 ELSE inbox[e]]
          /\ procs' = [procs EXCEPT ![w].pc = "start"]
       \/ /\ EventId(f) \in DOMAIN inbox
          /\ procs' = [procs EXCEPT ![w].pc =
                           IF inbox[EventId(f)].fact = f THEN "start" ELSE "idle"]
          /\ UNCHANGED inbox
    /\ UNCHANGED <<vars, purchases, kind, reported, faults, stale>>

-----------------------------------------------------------------------------
(***************************************************************************)
(* ProcessPending: expired leases go back to the queue, then the oldest    *)
(* events of the queue are listed.  Mutant: leases are never returned.     *)
(***************************************************************************)
ExpireLeasesNever(w) ==
    /\ procs[w].pc = "start"
    /\ procs' = [procs EXCEPT ![w].pc = "list"]
    /\ UNCHANGED <<vars, purchases, inbox, kind, reported, deliveries, faults, stale>>

ExpireLeases(w) ==
    /\ procs[w].pc = "start"
    /\ inbox' = [e \in DOMAIN inbox |->
            IF inbox[e].status = "processing" /\ inbox[e].expired
            THEN [inbox[e] EXCEPT !.status = "failed", !.expired = FALSE]
            ELSE inbox[e]]
    /\ procs' = [procs EXCEPT ![w].pc = "list"]
    /\ UNCHANGED <<vars, purchases, kind, reported, deliveries, faults, stale>>

Queue == {e \in DOMAIN inbox : inbox[e].status \in {"received", "failed"}}

Oldest(S) == {e \in S : \A d \in S : inbox[e].at <= inbox[d].at}

ListPending(w) ==
    /\ procs[w].pc = "list"
    /\ \E B \in SUBSET Queue :
           /\ Cardinality(B) = (IF Cardinality(Queue) < BatchSize
                                THEN Cardinality(Queue) ELSE BatchSize)
           /\ \A e \in B, d \in Queue \ B : inbox[e].at <= inbox[d].at
           /\ procs' = [procs EXCEPT ![w] = Continue(w, B)]
    /\ UNCHANGED <<vars, purchases, inbox, kind, reported, deliveries, faults, stale>>

(***************************************************************************)
(* processOne.  The claim counts the attempt and takes the lease; an event *)
(* that somebody else has taken or applied since it was listed is skipped. *)
(***************************************************************************)
Claimable(e) == inbox[e].status \in {"received", "failed"}

Claim(w) ==
    /\ procs[w].pc = "claim"
    /\ \E e \in Oldest(procs[w].batch) :
           \/ /\ Claimable(e)
              /\ inbox' = [inbox EXCEPT ![e] = [inbox[e] EXCEPT
                    !.status = "processing", !.expired = FALSE,
                    !.attempts = IF inbox[e].attempts < MaxAttempts
                                 THEN inbox[e].attempts + 1 ELSE MaxAttempts]]
              /\ procs' = [procs EXCEPT ![w] = [procs[w] EXCEPT
                    !.pc = "read", !.event = e, !.batch = procs[w].batch \ {e}]]
           \/ /\ ~Claimable(e)
              /\ procs' = [procs EXCEPT ![w] = Continue(w, procs[w].batch \ {e})]
              /\ UNCHANGED inbox
    /\ UNCHANGED <<vars, purchases, kind, reported, deliveries, faults, stale>>

Fact(w) == inbox[procs[w].event].fact

(***************************************************************************)
(* The purchase is read, and the event refused if there is none, or if it  *)
(* belongs to another provider or another payment.                         *)
(***************************************************************************)
Identified(p, f) == p.provider = f.provider /\ p.payment \in {NULL, f.payment}

ReadPurchase(w) ==
    /\ procs[w].pc = "read"
    /\ LET i == Fact(w).purchase
       IN  IF i \in DOMAIN purchases /\ Identified(purchases[i], Fact(w))
           THEN procs' = [procs EXCEPT ![w] = [procs[w] EXCEPT
                              !.pc = "book", !.read = purchases[i]]]
           ELSE procs' = [procs EXCEPT ![w].pc = "fail"]
    /\ UNCHANGED <<vars, purchases, inbox, kind, reported, deliveries, faults, stale>>

(***************************************************************************)
(* The ledger's part.  A key that was used already counts as success.      *)
(***************************************************************************)
Book(p, f) ==
    IF f.status = "paid"
    THEN \/ Grant(p.user, p.credits, PaymentKey(f))
         \/ PaymentKey(f) \in UsedKeys /\ UNCHANGED vars
    ELSE \/ Refund(p.user, reversal(p, f), ReversalKey(f))
         \/ (reversal(p, f) <= 0 \/ ReversalKey(f) \in UsedKeys) /\ UNCHANGED vars

(***************************************************************************)
(* The tables' part.  Nothing asks whether this process still has the      *)
(* lease, or whether the purchase is as it was read.                       *)
(***************************************************************************)
PaymentTaken(p, f) ==
    \E j \in DOMAIN purchases \ {p.id} :
        purchases[j].provider = p.provider /\ purchases[j].payment = f.payment

NewReversed(p, f) == p.reversed + (IF reversal(p, f) > 0 THEN reversal(p, f) ELSE 0)

Record(w, p, f) ==
    /\ ~PaymentTaken(p, f)
    /\ purchases' = [purchases EXCEPT ![p.id] = [purchases[p.id] EXCEPT
            !.payment = f.payment, !.status = f.status,
            !.reversed = IF f.status = "paid" THEN purchases[p.id].reversed
                         ELSE NewReversed(p, f)]]
    /\ inbox' = [inbox EXCEPT ![EventId(f)] = [inbox[EventId(f)] EXCEPT
            !.status = "applied", !.expired = FALSE]]
    /\ stale' = (stale \/ p.reversed # purchases[p.id].reversed)
    /\ procs' = [procs EXCEPT ![w] = Continue(w, procs[w].batch)]
    /\ UNCHANGED <<kind, reported, deliveries, faults>>

(***************************************************************************)
(* With a *credits.Service both parts are one transaction.                 *)
(***************************************************************************)
Apply(w) ==
    /\ procs[w].pc = "book" /\ kind = "service"
    /\ Book(procs[w].read, Fact(w))
    /\ Record(w, procs[w].read, Fact(w))

(***************************************************************************)
(* With another ledger they are two.                                       *)
(***************************************************************************)
BookFirst(w) ==
    /\ procs[w].pc = "book" /\ kind = "other"
    /\ Book(procs[w].read, Fact(w))
    /\ procs' = [procs EXCEPT ![w].pc = "record"]
    /\ UNCHANGED <<purchases, inbox, kind, reported, deliveries, faults, stale>>

RecordAfter(w) ==
    /\ procs[w].pc = "record"
    /\ Record(w, procs[w].read, Fact(w))
    /\ UNCHANGED vars

(***************************************************************************)
(* The UPDATE of the purchase meets UNIQUE(provider, payment_id).  fail is *)
(* called while the transaction is still open: its own UPDATE waits for    *)
(* the write lock in vain, and the event keeps its lease.                  *)
(***************************************************************************)
RecordConflict(w) ==
    /\ procs[w].pc = (IF kind = "service" THEN "book" ELSE "record")
    /\ PaymentTaken(procs[w].read, Fact(w))
    /\ procs' = [procs EXCEPT ![w] = Returned(w)]
    /\ UNCHANGED <<vars, purchases, inbox, kind, reported, deliveries, faults, stale>>

(***************************************************************************)
(* fail marks the event whatever its status is, and ProcessPending returns *)
(* the error without the rest of its batch.                                *)
(***************************************************************************)
Fail(w) ==
    /\ procs[w].pc = "fail"
    /\ inbox' = [inbox EXCEPT ![procs[w].event] = [inbox[procs[w].event] EXCEPT
                    !.status = "failed", !.expired = FALSE]]
    /\ procs' = [procs EXCEPT ![w] = Returned(w)]
    /\ UNCHANGED <<vars, purchases, kind, reported, deliveries, faults, stale>>

(***************************************************************************)
(* checkDeadLetter, at the end of every round of a loop.                   *)
(***************************************************************************)
CheckDeadLetter(w) ==
    /\ procs[w].pc = "alarm"
    /\ reported' = reported \cup {e \in DOMAIN inbox :
            inbox[e].status = "failed" /\ inbox[e].attempts >= MaxAttempts}
    /\ procs' = [procs EXCEPT ![w] = Ready(w)]
    /\ UNCHANGED <<vars, purchases, inbox, kind, deliveries, faults, stale>>

-----------------------------------------------------------------------------
(***************************************************************************)
(* A process dies, or one of its statements fails with the tables          *)
(* unchanged: before the claim ProcessPending returns, after it fail is    *)
(* called, and when fail's own UPDATE fails, which it ignores, the event   *)
(* keeps its lease and ProcessPending returns.  Leases run out by          *)
(* themselves.                                                             *)
(***************************************************************************)
Crash(w) ==
    /\ faults < MaxFaults /\ procs[w] # Ready(w)
    /\ faults' = faults + 1
    /\ procs' = [procs EXCEPT ![w] = Ready(w)]
    /\ UNCHANGED <<vars, purchases, inbox, kind, reported, deliveries, stale>>

Busy(w) ==
    /\ faults < MaxFaults
    /\ faults' = faults + 1
    /\ \/ /\ procs[w].pc \in {"start", "list", "claim", "fail"}
          /\ procs' = [procs EXCEPT ![w] = Returned(w)]
       \/ /\ procs[w].pc \in {"read", "book", "record"}
          /\ procs' = [procs EXCEPT ![w].pc = "fail"]
    /\ UNCHANGED <<vars, purchases, inbox, kind, reported, deliveries, stale>>

LeaseRunsOut(e) ==
    /\ inbox[e].status = "processing" /\ ~inbox[e].expired
    /\ inbox' = [inbox EXCEPT ![e].expired = TRUE]
    /\ UNCHANGED <<vars, purchases, procs, kind, reported, deliveries, faults, stale>>

Step(w) ==
    \/ ExpireLeases(w) \/ ListPending(w) \/ Claim(w)
    \/ ReadPurchase(w) \/ Apply(w) \/ BookFirst(w) \/ RecordAfter(w)
    \/ RecordConflict(w) \/ Fail(w) \/ CheckDeadLetter(w)

PaymentsNext ==
    \/ \E i \in PurchaseIds, p \in Providers, u \in Users, sku \in DOMAIN Catalog :
           CreatePurchase(i, p, u, sku)
    \/ \E w \in Handlers, f \in Facts : Receive(w, f)
    \/ \E w \in Procs : Step(w)
    \/ \E w \in Procs : Crash(w)
    \/ \E w \in Procs : Busy(w)
    \/ \E e \in DOMAIN inbox : LeaseRunsOut(e)

PaymentsSpec == PaymentsInit /\ [][PaymentsNext]_allVars

(***************************************************************************)
(* The loops of Worker.Run go on, and every lease that nobody ends runs    *)
(* out.  Webhook requests may hang.                                        *)
(***************************************************************************)
PaymentsFairSpec ==
    /\ PaymentsSpec
    /\ \A w \in Loops : WF_allVars(Step(w))
    /\ \A e \in EventIds : WF_allVars(e \in DOMAIN inbox /\ LeaseRunsOut(e))

-----------------------------------------------------------------------------
PurchaseRows ==
    [id : PurchaseIds, provider : Providers, user : Users, credits : Nat \ {0},
     amount : Nat \ {0}, payment : {f.payment : f \in Facts} \cup {NULL},
     status : {"pending", "paid", "refunded", "disputed"}, reversed : Nat]

InboxRows ==
    [fact : Facts, status : {"received", "processing", "failed", "applied"},
     attempts : 0 .. MaxAttempts, expired : BOOLEAN, at : 0 .. deliveries]

ProcRows ==
    [pc : {"idle", "start", "list", "claim", "read", "book", "record", "fail", "alarm"},
     batch : SUBSET EventIds, event : EventIds \cup {NULL},
     read : PurchaseRows \cup {NULL}]

(***************************************************************************)
(* The shape of the tables and of what a process remembers; never is more  *)
(* of a purchase recorded as taken back than it brought.                   *)
(***************************************************************************)
PaymentsTypeOK ==
    /\ purchases \in [DOMAIN purchases -> PurchaseRows]
    /\ \A i \in DOMAIN purchases :
           purchases[i].id = i /\ purchases[i].reversed <= purchases[i].credits
    /\ inbox \in [DOMAIN inbox -> InboxRows]
    /\ \A e \in DOMAIN inbox : EventId(inbox[e].fact) = e
    /\ procs \in [Procs -> ProcRows]
    /\ reported \subseteq DOMAIN inbox
    /\ deliveries \in 0 .. MaxDeliveries /\ faults \in 0 .. MaxFaults

(***************************************************************************)
(* The events received, those about a purchase, and the credits that their *)
(* reversals took back.                                                    *)
(***************************************************************************)
Received == {inbox[e].fact : e \in DOMAIN inbox}

ReceivedFor(i) == {f \in Received : f.purchase = i /\ f.provider = purchases[i].provider}

KeySum(log, keys) ==
    Total([k \in 1 .. Len(log) |-> IF log[k].key \in keys THEN log[k].amount ELSE 0])

ReversedFor(i) == -KeySum(ledger, {ReversalKey(f) : f \in ReceivedFor(i)})

(***************************************************************************)
(* A purchase grants its credits once, whatever is delivered twice, leased *)
(* twice, retried after a crash, or sent as two events about one payment;  *)
(* and what a payment brings are the credits of a purchase that it was     *)
(* reported for, to its buyer.  (A provider that reports two payments for  *)
(* one purchase may have each of them granted, when they are processed     *)
(* at once: only what was read of the purchase stands against it.)         *)
(***************************************************************************)
PurchasesGrantOnce ==
    \A i \in DOMAIN purchases :
        LET grants == {k \in DOMAIN ledger :
                          ledger[k].key \in {PaymentKey(f) : f \in ReceivedFor(i)}}
        IN  /\ (\A f, g \in ReceivedFor(i) : f.payment = g.payment)
                   => Cardinality(grants) <= 1
            /\ \A k \in grants : \E f \in Received :
                   /\ f.status = "paid" /\ f.purchase \in DOMAIN purchases
                   /\ ledger[k].key = PaymentKey(f)
                   /\ ledger[k].user = purchases[f.purchase].user
                   /\ ledger[k].amount = purchases[f.purchase].credits

(***************************************************************************)
(* What an applied event says is in the ledger: the grant of its payment,  *)
(* unless the provider reported that payment for another purchase too, and *)
(* at least the reversal that it asks for.                                 *)
(***************************************************************************)
AppliedIsBooked ==
    \A e \in DOMAIN inbox : inbox[e].status = "applied" =>
        LET f == inbox[e].fact
            p == purchases[f.purchase]
        IN  /\ f.purchase \in DOMAIN purchases
            /\ f.status # "paid" => ReversedFor(p.id) >= target(p, f)
            /\ (/\ f.status = "paid"
                /\ \A g \in Received : g.provider = f.provider /\ g.payment = f.payment
                                            => g.purchase = f.purchase)
               => \E k \in DOMAIN ledger :
                      /\ ledger[k].key = PaymentKey(f)
                      /\ ledger[k].user = p.user /\ ledger[k].amount = p.credits

(***************************************************************************)
(* When the ledger is a *credits.Service, reversed_credits is what was     *)
(* taken back, and never more than was granted, as long as no process      *)
(* writes a purchase that has changed since it read it: partial refunds,   *)
(* disputes and retries in any order.                                      *)
(***************************************************************************)
ReversalsAddUp ==
    (kind = "service" /\ ~stale) =>
        \A i \in DOMAIN purchases :
            /\ ReversedFor(i) = purchases[i].reversed
            /\ ReversedFor(i) <= purchases[i].credits

(***************************************************************************)
(* An event that can be applied, because its purchase exists and no other  *)
(* payment or provider claims it.                                          *)
(***************************************************************************)
Payable(e) ==
    /\ e \in DOMAIN inbox
    /\ LET f == inbox[e].fact
       IN  /\ f.purchase \in DOMAIN purchases
           /\ purchases[f.purchase].provider = f.provider
           /\ \A d \in DOMAIN inbox :
                  (f.purchase = inbox[d].fact.purchase) = (f.payment = inbox[d].fact.payment)

(***************************************************************************)
(* Two purchases are reported as paid by one payment: the second one's     *)
(* event meets the UNIQUE constraint, for ever.                            *)
(***************************************************************************)
Contested ==
    \E d, e \in DOMAIN inbox :
        /\ inbox[d].fact.provider = inbox[e].fact.provider
        /\ inbox[d].fact.payment = inbox[e].fact.payment
        /\ inbox[d].fact.purchase # inbox[e].fact.purchase

(***************************************************************************)
(* The queue moves, or somebody is told why it does not: with one worker   *)
(* loop and no contested payment, an event that can be applied is applied, *)
(* or an event that is not applied and not behind it in the queue is       *)
(* passed to DeadLetter.                                                   *)
(***************************************************************************)
BlockIsReported(e) ==
    \E d \in reported : inbox[d].status # "applied" /\ inbox[d].at <= inbox[e].at

AppliedOrReported ==
    \A e \in EventIds :
        (Cardinality(Loops) = 1 /\ Payable(e) /\ ~Contested)
          ~> (\/ ~Payable(e) \/ Contested
              \/ inbox[e].status = "applied"
              \/ BlockIsReported(e))

-----------------------------------------------------------------------------
(***************************************************************************)
(* What the documentation says and the code does not do.                   *)
(***************************************************************************)

(***************************************************************************)
(* What the package says of refunds: they reverse the original grant, and  *)
(* so no more than it.                                                     *)
(***************************************************************************)
ReversalsWithinPurchase ==
    \A i \in DOMAIN purchases : ReversedFor(i) <= purchases[i].credits

-----------------------------------------------------------------------------
(***************************************************************************)
(* Why this holds.  A process acts on a purchase that it read earlier, so  *)
(* the invariant says what is still true of that read; and a key that was  *)
(* used counts as success, so it says what the use of a key implies.       *)
(***************************************************************************)
IsBooked(f) ==
    /\ f.purchase \in DOMAIN purchases
    /\ purchases[f.purchase].provider = f.provider
    /\ IF f.status = "paid" THEN PaymentKey(f) \in UsedKeys
       ELSE ReversedFor(f.purchase) >= target(purchases[f.purchase], f)

(***************************************************************************)
(* A read of the purchase of f: all but payment, status and the reversed   *)
(* credits is as it was, and those have been taken back.                   *)
(***************************************************************************)
IsReadFor(p, f) ==
    /\ f.purchase \in DOMAIN purchases /\ purchases[f.purchase].provider = f.provider
    /\ p \in PurchaseRows /\ p.id = f.purchase
    /\ p.user = purchases[f.purchase].user
    /\ p.credits = purchases[f.purchase].credits
    /\ p.amount = purchases[f.purchase].amount
    /\ p.reversed <= p.credits /\ p.reversed <= ReversedFor(f.purchase)

ProcsKnow ==
    \A w \in Procs :
        /\ procs[w].batch \subseteq DOMAIN inbox
        /\ procs[w].pc \in {"read", "book", "record", "fail"} =>
               procs[w].event \in DOMAIN inbox
        /\ procs[w].pc \in {"book", "record"} => IsReadFor(procs[w].read, Fact(w))
        /\ procs[w].pc = "record" => kind # "service" /\ IsBooked(Fact(w))

EventsKnow ==
    \A e \in DOMAIN inbox :
        LET f == inbox[e].fact
        IN  /\ f.purchase \in PurchaseIds => f.purchase \in DOMAIN purchases
            /\ inbox[e].status = "applied" => IsBooked(f)
            /\ f.status # "paid" /\ ReversalKey(f) \in UsedKeys => IsBooked(f)

RowsAreBooked ==
    \A k \in DOMAIN ledger : \E f \in Received :
        /\ f.purchase \in DOMAIN purchases
        /\ purchases[f.purchase].provider = f.provider
        /\ ledger[k].user = purchases[f.purchase].user
        /\ IF f.status = "paid"
           THEN /\ ledger[k].key = PaymentKey(f)
                /\ ledger[k].amount = purchases[f.purchase].credits
           ELSE ledger[k].key = ReversalKey(f) /\ ledger[k].amount < 0

RecordedIsTaken ==
    \A i \in DOMAIN purchases :
        /\ purchases[i].reversed <= ReversedFor(i)
        /\ kind = "service" /\ ~stale => ReversedFor(i) = purchases[i].reversed

PaymentsInv ==
    /\ PaymentsTypeOK
    /\ KeysPayOnce
    /\ ProcsKnow
    /\ EventsKnow
    /\ RowsAreBooked
    /\ RecordedIsTaken
=============================================================================
