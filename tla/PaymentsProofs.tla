---------------------------- MODULE PaymentsProofs ---------------------------
(***************************************************************************)
(* Proofs about the inbox of payment events and the purchases, for any     *)
(* catalog, any events, providers, webhook requests and workers, and any   *)
(* leases, crashes and failing statements.                                 *)
(***************************************************************************)
EXTENDS Payments, CreditsProofs

(***************************************************************************)
(* Everything that the proofs need of a state.                             *)
(***************************************************************************)
PayInv == TypeOK /\ AccountingInv /\ PaymentsInv

-----------------------------------------------------------------------------
(***************************************************************************)
(* The sum of the rows under some keys, when a row is appended.            *)
(***************************************************************************)
LEMMA KeySumAppend ==
  ASSUME NEW log \in Seq(Rows), NEW row \in Rows, NEW keys
  PROVE  KeySum(Append(log, row), keys)
            = KeySum(log, keys) + (IF row.key \in keys THEN row.amount ELSE 0)
<1> DEFINE ext == Append(log, row)
           f == [k \in 1 .. Len(log) |-> IF log[k].key \in keys THEN log[k].amount ELSE 0]
           g == [k \in 1 .. Len(ext) |-> IF ext[k].key \in keys THEN ext[k].amount ELSE 0]
<1> Len(log) \in Nat /\ ext \in Seq(Rows) /\ Len(ext) = Len(log) + 1
  OBVIOUS
<1>a. f \in [1 .. Len(log) -> Int] /\ g \in [1 .. Len(ext) -> Int]
  <2>1. /\ \A k \in 1 .. Len(log) : log[k].amount \in Int
        /\ \A k \in 1 .. Len(ext) : ext[k].amount \in Int
    BY AmountsAreInts
  <2> HIDE DEF ext
  <2> QED BY <2>1
<1>1. f \in Seq(Int) /\ Len(f) = Len(log)
  BY <1>a, IntSequence
<1>2. g \in Seq(Int) /\ Len(g) = Len(f) + 1
  BY <1>a, <1>1, IntSequence
<1>3. \A k \in 1 .. Len(f) : g[k] = f[k]
  BY <1>1
<1>4. g[Len(f) + 1] = IF row.key \in keys THEN row.amount ELSE 0
  BY <1>1
<1>5. KeySum(log, keys) = Total(f) /\ KeySum(ext, keys) = Total(g)
  BY DEF KeySum
<1> HIDE DEF f, g
<1>6. Total(g) = Total(f) + g[Len(f) + 1]
  BY <1>1, <1>2, <1>3, TotalExtend
<1> QED BY <1>4, <1>5, <1>6

(***************************************************************************)
(* It is an integer.                                                       *)
(***************************************************************************)
LEMMA KeySumIsInt ==
  ASSUME NEW log \in Seq(Rows), NEW keys
  PROVE  KeySum(log, keys) \in Int
<1> DEFINE f == [k \in 1 .. Len(log) |-> IF log[k].key \in keys THEN log[k].amount ELSE 0]
<1>1. f \in [1 .. Len(log) -> Int] /\ Len(log) \in Nat
  BY AmountsAreInts
<1>2. f \in Seq(Int)
  BY <1>1, IntSequence
<1> HIDE DEF f
<1>3. Total(f) \in Int
  BY <1>2, TotalIsRun
<1> QED BY <1>3 DEF f, KeySum

(***************************************************************************)
(* Only the keys of rows count.                                            *)
(***************************************************************************)
LEMMA KeySumSame ==
  ASSUME NEW log, NEW K, NEW L,
         \A k \in 1 .. Len(log) : log[k].key \in K <=> log[k].key \in L
  PROVE  KeySum(log, K) = KeySum(log, L)
<1>1. [k \in 1 .. Len(log) |-> IF log[k].key \in K THEN log[k].amount ELSE 0]
        = [k \in 1 .. Len(log) |-> IF log[k].key \in L THEN log[k].amount ELSE 0]
  OBVIOUS
<1> QED BY <1>1 DEF KeySum

(***************************************************************************)
(* A sequence of zeros adds up to nothing.                                 *)
(***************************************************************************)
LEMMA TotalOfZeros ==
  ASSUME NEW n \in Nat
  PROVE  Total([k \in 1 .. n |-> 0]) = 0
<1> DEFINE z(m) == [k \in 1 .. m |-> 0]
           S == {m \in Nat : Total(z(m)) = 0}
<1>1. 0 \in S
  <2>1. z(0) = << >>
    OBVIOUS
  <2> QED BY <2>1, TotalEmpty
<1>2. ASSUME NEW m \in Nat, m \in S PROVE m + 1 \in S
  <2>1. z(m) \in Seq(Int) /\ Len(z(m)) = m
    BY IntSequence
  <2>2. z(m + 1) \in Seq(Int) /\ Len(z(m + 1)) = m + 1
    BY IntSequence
  <2>3. \A k \in 1 .. m : z(m + 1)[k] = z(m)[k]
    OBVIOUS
  <2>4. z(m + 1)[m + 1] = 0
    OBVIOUS
  <2>5. Total(z(m)) = 0
    BY <1>2
  <2> HIDE DEF z
  <2>6. Total(z(m + 1)) = Total(z(m)) + z(m + 1)[m + 1]
    BY <2>1, <2>2, <2>3, TotalExtend
  <2> QED BY <2>4, <2>5, <2>6
<1> HIDE DEF S
<1>3. Nat \subseteq S
  BY <1>1, <1>2, SetInduction
<1> QED BY <1>3 DEF S

(***************************************************************************)
(* No keys, no sum.                                                        *)
(***************************************************************************)
LEMMA KeySumNone ==
  ASSUME NEW log \in Seq(Rows)
  PROVE  KeySum(log, {}) = 0
<1>1. Len(log) \in Nat
  OBVIOUS
<1>2. [k \in 1 .. Len(log) |-> IF log[k].key \in {} THEN log[k].amount ELSE 0]
        = [k \in 1 .. Len(log) |-> 0]
  OBVIOUS
<1> QED BY <1>1, <1>2, TotalOfZeros DEF KeySum

(***************************************************************************)
(* What two equal keys have in common.                                     *)
(***************************************************************************)
LEMMA PaymentKeysDiffer ==
  /\ \A f, g : ReversalKey(f) = ReversalKey(g) <=> EventId(f) = EventId(g)
  /\ \A f, g : PaymentKey(f) = PaymentKey(g)
                  <=> f.provider = g.provider /\ f.payment = g.payment
  /\ \A f, g : PaymentKey(f) # ReversalKey(g)
  /\ \A f \in Facts : /\ PaymentKey(f) \in IdemKeys /\ PaymentKey(f) # NULL
                      /\ ReversalKey(f) \in IdemKeys /\ ReversalKey(f) # NULL
<1>1. \A f, g : PaymentKey(f) # ReversalKey(g)
  BY DEF PaymentKey, ReversalKey
<1>2. \A f, g : ReversalKey(f) = ReversalKey(g) <=> EventId(f) = EventId(g)
  BY DEF ReversalKey, EventId
<1>3. \A f, g : PaymentKey(f) = PaymentKey(g)
                  <=> f.provider = g.provider /\ f.payment = g.payment
  BY DEF PaymentKey
<1> QED BY <1>1, <1>2, <1>3, PaymentKeysAssumption, NullAssumption

(***************************************************************************)
(* The integer division by a positive number.                              *)
(***************************************************************************)
LEMMA Division ==
  ASSUME NEW a \in Nat, NEW b \in Nat \ {0}
  PROVE  (a \div b) \in Nat /\ b * (a \div b) <= a /\ a < b * (a \div b) + b
OBVIOUS

(***************************************************************************)
(* A purchase is never asked back for more than it brought, whatever       *)
(* amount an event carries.                                                *)
(***************************************************************************)
LEMMA TargetWithin ==
  ASSUME NEW p, p.credits \in Nat \ {0}, p.amount \in Nat \ {0},
         NEW f, f.minor \in Int
  PROVE  target(p, f) \in Nat /\ target(p, f) <= p.credits
<1>1. CASE f.minor <= 0
  BY <1>1 DEF target
<1>2. CASE f.minor > 0
  <2>1. PICK c \in Nat \ {0}, a \in Nat \ {0} : c = p.credits /\ a = p.amount
    OBVIOUS
  <2>2. PICK m \in Nat : m = (IF f.minor < p.amount THEN f.minor ELSE p.amount)
    BY <1>2
  <2>3. m <= a
    BY <2>1, <2>2
  <2>4. c * m \in Nat /\ c * m <= c * a
    BY <2>3
  <2>5. PICK x \in Nat : x = c * m + a - 1
    BY <2>4
  <2>6. PICK q \in Nat : q = x \div a /\ a * q <= x
    BY Division
  <2>7. q <= c
    <3> SUFFICES ASSUME q >= c + 1 PROVE FALSE
      OBVIOUS
    <3>1. a * (c + 1) <= a * q
      OBVIOUS
    <3>2. a * (c + 1) = c * a + a
      OBVIOUS
    <3>3. a * q \in Int /\ c * a \in Int
      OBVIOUS
    <3> QED BY <2>4, <2>5, <2>6, <3>1, <3>2, <3>3
  <2>8. target(p, f) = q
    BY <1>2, <2>1, <2>2, <2>5, <2>6 DEF target
  <2> QED BY <2>1, <2>7, <2>8
<1> QED BY <1>1, <1>2

-----------------------------------------------------------------------------
(***************************************************************************)
(* Types.                                                                  *)
(***************************************************************************)

(***************************************************************************)
(* The fields of a purchase.                                               *)
(***************************************************************************)
LEMMA PurchaseFields ==
  ASSUME PaymentsTypeOK, NEW i \in DOMAIN purchases
  PROVE  /\ purchases[i] \in PurchaseRows /\ purchases[i].id = i
         /\ i \in PurchaseIds /\ purchases[i].user \in Users
         /\ purchases[i].credits \in Nat \ {0} /\ purchases[i].amount \in Nat \ {0}
         /\ purchases[i].reversed \in Nat /\ purchases[i].reversed <= purchases[i].credits
<1>1. /\ purchases[i] \in PurchaseRows /\ purchases[i].id = i
      /\ purchases[i].reversed <= purchases[i].credits
  BY DEF PaymentsTypeOK
<1>2. /\ purchases[i].id \in PurchaseIds /\ purchases[i].user \in Users
      /\ purchases[i].credits \in Nat \ {0} /\ purchases[i].amount \in Nat \ {0}
      /\ purchases[i].reversed \in Nat
  BY <1>1 DEF PurchaseRows
<1> QED BY <1>1, <1>2

(***************************************************************************)
(* The fields of an event's row.                                           *)
(***************************************************************************)
LEMMA InboxFields ==
  ASSUME PaymentsTypeOK, NEW e \in DOMAIN inbox
  PROVE  /\ inbox[e] \in InboxRows /\ inbox[e].fact \in Facts
         /\ EventId(inbox[e].fact) = e /\ e \in EventIds
         /\ inbox[e].status \in {"received", "processing", "failed", "applied"}
         /\ inbox[e].attempts \in 0 .. MaxAttempts /\ inbox[e].at \in 0 .. deliveries
<1>1. inbox[e] \in InboxRows /\ EventId(inbox[e].fact) = e
  BY DEF PaymentsTypeOK
<1>2. /\ inbox[e].fact \in Facts
      /\ inbox[e].status \in {"received", "processing", "failed", "applied"}
      /\ inbox[e].attempts \in 0 .. MaxAttempts /\ inbox[e].at \in 0 .. deliveries
  BY <1>1 DEF InboxRows
<1> QED BY <1>1, <1>2 DEF EventIds

(***************************************************************************)
(* What a process remembers.                                               *)
(***************************************************************************)
LEMMA ProcFields ==
  ASSUME PaymentsTypeOK, NEW w \in Procs
  PROVE  /\ procs[w] \in ProcRows /\ procs[w].batch \subseteq EventIds
         /\ procs[w].pc \in {"idle", "start", "list", "claim", "read", "book",
                             "record", "fail", "alarm"}
         /\ procs[w].event \in EventIds \cup {NULL}
         /\ procs[w].read \in PurchaseRows \cup {NULL}
<1>1. procs[w] \in ProcRows
  BY DEF PaymentsTypeOK
<1> QED BY <1>1 DEF ProcRows

(***************************************************************************)
(* Where a process goes when it is done, or goes on with a batch.          *)
(***************************************************************************)
LEMMA ReadyFields ==
  ASSUME NEW w, NEW B \in SUBSET EventIds
  PROVE  /\ Ready(w) \in ProcRows /\ Ready(w).pc \in {"idle", "start"}
         /\ Ready(w).batch = {}
         /\ Returned(w) \in ProcRows /\ Returned(w).pc \in {"idle", "alarm"}
         /\ Returned(w).batch = {}
         /\ Continue(w, B) \in ProcRows
         /\ Continue(w, B).pc \in {"idle", "alarm", "claim"}
         /\ Continue(w, B).batch = B
<1>1. /\ Ready(w) \in ProcRows /\ Ready(w).pc \in {"idle", "start"}
      /\ Ready(w).batch = {}
  BY DEF Ready, ProcRows
<1>2. /\ Returned(w) \in ProcRows /\ Returned(w).pc \in {"idle", "alarm"}
      /\ Returned(w).batch = {}
  <2> HIDE DEF Ready
  <2> QED BY <1>1 DEF Returned, ProcRows
<1>3. ASSUME B # {}
      PROVE  /\ Continue(w, B) \in ProcRows /\ Continue(w, B).pc = "claim"
             /\ Continue(w, B).batch = B
  BY <1>1, <1>3 DEF Continue, ProcRows
<1>4. ASSUME B = {}
      PROVE  Continue(w, B) = Returned(w)
  BY <1>4 DEF Continue
<1> QED BY <1>1, <1>2, <1>3, <1>4

(***************************************************************************)
(* The steps of a process change its own local variables only.             *)
(***************************************************************************)
LEMMA ProcMoves ==
  ASSUME PaymentsTypeOK, NEW w \in Procs, NEW r \in ProcRows,
         procs' = [procs EXCEPT ![w] = r]
  PROVE  /\ procs' \in [Procs -> ProcRows] /\ procs'[w] = r
         /\ \A v \in Procs : v # w => procs'[v] = procs[v]
BY DEF PaymentsTypeOK

(***************************************************************************)
(* An update of one event's row.                                           *)
(***************************************************************************)
LEMMA InboxMoves ==
  ASSUME PaymentsTypeOK, NEW e \in DOMAIN inbox, NEW row \in InboxRows,
         row.fact = inbox[e].fact, inbox' = [inbox EXCEPT ![e] = row],
         UNCHANGED deliveries
  PROVE  /\ DOMAIN inbox' = DOMAIN inbox /\ inbox'[e] = row
         /\ \A d \in DOMAIN inbox : d # e => inbox'[d] = inbox[d]
         /\ inbox' \in [DOMAIN inbox' -> InboxRows']
         /\ \A d \in DOMAIN inbox' : EventId(inbox'[d].fact) = d
<1>1. /\ DOMAIN inbox' = DOMAIN inbox /\ inbox'[e] = row
      /\ \A d \in DOMAIN inbox : d # e => inbox'[d] = inbox[d]
  BY DEF PaymentsTypeOK
<1>2. InboxRows' = InboxRows
  BY DEF InboxRows
<1>3. inbox' \in [DOMAIN inbox -> InboxRows]
  BY DEF PaymentsTypeOK
<1>4. \A d \in DOMAIN inbox : EventId(inbox'[d].fact) = d
  BY <1>1 DEF PaymentsTypeOK
<1> QED BY <1>1, <1>2, <1>3, <1>4

(***************************************************************************)
(* The time of the last event received is that of some event, or none.     *)
(***************************************************************************)
LEMMA LastReceivedType ==
  ASSUME PaymentsTypeOK
  PROVE  LastReceived \in 0 .. deliveries
<1>1. deliveries \in Nat /\ deliveries >= 0
  BY PaymentsAssumption DEF PaymentsTypeOK
<1>2. CASE DOMAIN inbox = {}
  BY <1>1, <1>2 DEF LastReceived
<1>3. CASE DOMAIN inbox # {}
  <2> DEFINE S == {inbox[e].at : e \in DOMAIN inbox}
             T == {deliveries - n : n \in S}
  <2>1. \A n \in S : n \in 0 .. deliveries
    BY InboxFields
  <2>2. T \subseteq Nat /\ T # {}
    <3>1. S # {}
      BY <1>3
    <3> HIDE DEF S
    <3> QED BY <1>1, <2>1, <3>1
  <2>3. PICK m \in T : \A k \in T : m <= k
    <3> HIDE DEF T
    <3> QED BY <2>2, LeastNat
  <2>4. PICK n \in S : m = deliveries - n
    OBVIOUS
  <2>5. \A k \in S : k <= n
    <3> SUFFICES ASSUME NEW k \in S PROVE k <= n
      OBVIOUS
    <3>1. deliveries - k \in T
      OBVIOUS
    <3>2. m <= deliveries - k
      BY <2>3, <3>1
    <3> QED BY <1>1, <2>1, <2>4, <3>2
  <2>6. \A e \in DOMAIN inbox : inbox[e].at <= n
    BY <2>5
  <2>7. LastReceived \in S
    BY <1>3, <2>6 DEF LastReceived
  <2> QED BY <2>1, <2>7
<1> QED BY <1>2, <1>3

-----------------------------------------------------------------------------
(***************************************************************************)
(* What no step undoes.                                                    *)
(***************************************************************************)

(***************************************************************************)
(* Purchases stay, with what was bought; events stay, with what they say.  *)
(***************************************************************************)
TablesKeep ==
  /\ DOMAIN purchases \subseteq DOMAIN purchases'
  /\ \A i \in DOMAIN purchases :
        /\ purchases'[i].id = purchases[i].id
        /\ purchases'[i].provider = purchases[i].provider
        /\ purchases'[i].user = purchases[i].user
        /\ purchases'[i].credits = purchases[i].credits
        /\ purchases'[i].amount = purchases[i].amount
  /\ DOMAIN inbox \subseteq DOMAIN inbox'
  /\ \A e \in DOMAIN inbox : inbox'[e].fact = inbox[e].fact

(***************************************************************************)
(* A key that was used stays used, and what was taken back stays taken.    *)
(***************************************************************************)
Forward ==
  /\ TablesKeep
  /\ UsedKeys \subseteq UsedKeys'
  /\ kind' = kind
  /\ \A i \in DOMAIN purchases :
        /\ ReversedFor(i) \in Int /\ ReversedFor(i)' \in Int
        /\ ReversedFor(i) <= ReversedFor(i)'

(***************************************************************************)
(* What is asked back depends on what was bought only.                     *)
(***************************************************************************)
LEMMA TargetSame ==
  ASSUME NEW p, NEW q, NEW f, p.credits = q.credits, p.amount = q.amount
  PROVE  target(p, f) = target(q, f)
BY DEF target

(***************************************************************************)
(* An event that is booked stays booked.                                   *)
(***************************************************************************)
LEMMA BookedStays ==
  ASSUME PaymentsTypeOK, Forward, NEW f \in Facts, IsBooked(f)
  PROVE  IsBooked(f)'
<1>1. PICK i, p, q : i = f.purchase /\ p = purchases[i] /\ q = purchases'[i]
  OBVIOUS
<1>2. /\ i \in DOMAIN purchases /\ i \in DOMAIN purchases'
      /\ p.provider = f.provider /\ q.provider = f.provider
      /\ q.credits = p.credits /\ q.amount = p.amount
  BY <1>1 DEF IsBooked, Forward, TablesKeep
<1>3. CASE f.status = "paid"
  BY <1>1, <1>2, <1>3 DEF IsBooked, Forward
<1>4. CASE f.status # "paid"
  <2>1. target(p, f) = target(q, f) /\ target(p, f) \in Int
    <3>1. p.credits \in Nat \ {0} /\ p.amount \in Nat \ {0}
      BY <1>1, <1>2, PurchaseFields
    <3>2. f.minor \in Int
      BY PaymentsAssumption
    <3> QED BY <1>2, <3>1, <3>2, TargetSame, TargetWithin
  <2>2. PICK n, m : n = ReversedFor(i) /\ m = ReversedFor(i)'
    OBVIOUS
  <2>3. n \in Int /\ m \in Int /\ n <= m
    BY <1>2, <2>2 DEF Forward
  <2>4. n >= target(p, f)
    BY <1>1, <1>4, <2>2 DEF IsBooked
  <2>5. m >= target(q, f)
    BY <2>1, <2>3, <2>4
  <2> QED BY <1>1, <1>2, <1>4, <2>2, <2>5 DEF IsBooked
<1> QED BY <1>3, <1>4

(***************************************************************************)
(* A read of a purchase stays as good as it was.                           *)
(***************************************************************************)
LEMMA ReadStays ==
  ASSUME Forward, NEW p, NEW f, IsReadFor(p, f)
  PROVE  IsReadFor(p, f)'
<1>1. PICK i : i = f.purchase
  OBVIOUS
<1>2. i \in DOMAIN purchases
  BY <1>1 DEF IsReadFor
<1>3. PICK n, m : n = ReversedFor(i) /\ m = ReversedFor(i)'
  OBVIOUS
<1>4. n \in Int /\ m \in Int /\ n <= m /\ p.reversed <= n /\ p.reversed \in Int
  BY <1>1, <1>2, <1>3 DEF Forward, IsReadFor, PurchaseRows
<1>5. p.reversed <= m
  BY <1>4
<1>6. p \in PurchaseRows'
  BY DEF IsReadFor, PurchaseRows
<1> QED BY <1>1, <1>2, <1>3, <1>5, <1>6 DEF IsReadFor, Forward, TablesKeep

(***************************************************************************)
(* What a process knows when its local variables are r.                    *)
(***************************************************************************)
Knows(r) ==
  /\ r.batch \subseteq DOMAIN inbox
  /\ r.pc \in {"read", "book", "record", "fail"} => r.event \in DOMAIN inbox
  /\ r.pc \in {"book", "record"} => IsReadFor(r.read, inbox[r.event].fact)
  /\ r.pc = "record" => kind # "service" /\ IsBooked(inbox[r.event].fact)

(***************************************************************************)
(* It goes on knowing that.                                                *)
(***************************************************************************)
LEMMA KnowledgeStays ==
  ASSUME PaymentsTypeOK, Forward, NEW r, Knows(r)
  PROVE  Knows(r)'
<1>1. r.batch \subseteq DOMAIN inbox'
  BY DEF Forward, TablesKeep, Knows
<1>2. CASE r.pc \notin {"read", "book", "record", "fail"}
  BY <1>1, <1>2 DEF Knows
<1>3. CASE r.pc \in {"read", "book", "record", "fail"}
  <2>1. PICK f : f = inbox[r.event].fact
    OBVIOUS
  <2>2. /\ r.event \in DOMAIN inbox /\ r.event \in DOMAIN inbox'
        /\ inbox'[r.event].fact = f /\ f \in Facts
    BY <1>3, <2>1, InboxFields DEF Knows, Forward, TablesKeep
  <2>3. r.pc \in {"book", "record"} => IsReadFor(r.read, f)'
    BY <2>1, ReadStays DEF Knows
  <2>4. r.pc = "record" => kind' # "service" /\ IsBooked(f)'
    BY <2>1, <2>2, BookedStays DEF Knows, Forward
  <2> QED BY <1>1, <2>2, <2>3, <2>4 DEF Knows
<1> QED BY <1>2, <1>3

(***************************************************************************)
(* The processes know what they know, one by one.                          *)
(***************************************************************************)
LEMMA AllKnow ==
  ProcsKnow <=> \A w \in Procs : Knows(procs[w])
BY DEF ProcsKnow, Knows, Fact

(***************************************************************************)
(* A step of one process: the others go on knowing what they know.         *)
(***************************************************************************)
LEMMA ProcsGoOn ==
  ASSUME PaymentsTypeOK, ProcsKnow, Forward, NEW w \in Procs, NEW r,
         procs'[w] = r, \A v \in Procs : v # w => procs'[v] = procs[v], Knows(r)'
  PROVE  ProcsKnow'
<1>1. \A v \in Procs : Knows(procs[v])
  BY AllKnow
<1>2. ASSUME NEW v \in Procs PROVE Knows(procs[v])'
  <2>1. CASE v = w
    BY <2>1 DEF Knows
  <2>2. CASE v # w
    <3>1. PICK s : s = procs[v]
      OBVIOUS
    <3>2. Knows(s) /\ procs'[v] = s
      BY <1>1, <2>2, <3>1
    <3>3. Knows(s)'
      BY <3>2, KnowledgeStays
    <3> QED BY <3>2, <3>3 DEF Knows
  <2> QED BY <2>1, <2>2
<1> QED BY <1>2 DEF ProcsKnow, Knows, Fact

-----------------------------------------------------------------------------
(***************************************************************************)
(* What was taken back.                                                    *)
(***************************************************************************)

(***************************************************************************)
(* The keys of the reversals that were received for a purchase.            *)
(***************************************************************************)
KeysFor(i) == {ReversalKey(f) : f \in ReceivedFor(i)}

(***************************************************************************)
(* While the ledger stays, so does what was taken back: an event that has  *)
(* just come has no row in it.                                             *)
(***************************************************************************)
LEMMA ReversedStays ==
  ASSUME PayInv, TablesKeep, UNCHANGED vars, PaymentsTypeOK',
         NEW i \in DOMAIN purchases
  PROVE  ReversedFor(i) \in Int /\ ReversedFor(i)' = ReversedFor(i)
<1>1. PICK K, L, log : K = KeysFor(i) /\ L = KeysFor(i)' /\ log = ledger
  OBVIOUS
<1>2. /\ ReversedFor(i) = -KeySum(log, K) /\ ReversedFor(i)' = -KeySum(log, L)
      /\ log \in Seq(Rows)
  <2>1. ledger' = log /\ log \in Seq(Rows)
    BY <1>1 DEF vars, PayInv, TypeOK
  <2>2. ReversedFor(i) = -KeySum(log, K)
    BY <1>1 DEF ReversedFor, KeysFor
  <2>3. ReversedFor(i)' = -KeySum(log, L)
    BY <1>1, <2>1 DEF ReversedFor, KeysFor
  <2> QED BY <2>1, <2>2, <2>3
<1>3. ASSUME NEW k \in 1 .. Len(log)
      PROVE  log[k].key \in K <=> log[k].key \in L
  <2>1. ASSUME log[k].key \in K PROVE log[k].key \in L
    <3>1. PICK f \in ReceivedFor(i) : log[k].key = ReversalKey(f)
      BY <1>1, <2>1 DEF KeysFor
    <3>2. f \in ReceivedFor(i)'
      BY DEF TablesKeep, ReceivedFor, Received
    <3> QED BY <1>1, <3>1, <3>2 DEF KeysFor
  <2>2. ASSUME log[k].key \in L PROVE log[k].key \in K
    <3>1. PICK f \in ReceivedFor(i)' : log[k].key = ReversalKey(f)
      BY <1>1, <2>2 DEF KeysFor
    <3>2. /\ f.purchase = i /\ f.provider = purchases'[i].provider
          /\ \E e \in DOMAIN inbox' : inbox'[e].fact = f
      BY DEF ReceivedFor, Received
    <3>3. EventId(f) \in DOMAIN inbox' /\ inbox'[EventId(f)].fact = f
      BY <3>2 DEF PaymentsTypeOK
    <3>4. k \in DOMAIN ledger
      BY <1>1, <1>2
    <3>5. PICK g \in Received : \/ ledger[k].key = PaymentKey(g)
                                \/ ledger[k].key = ReversalKey(g)
      BY <3>4 DEF PayInv, PaymentsInv, RowsAreBooked
    <3>6. EventId(f) = EventId(g)
      BY <1>1, <3>1, <3>5, PaymentKeysDiffer
    <3>7. EventId(g) \in DOMAIN inbox /\ inbox[EventId(g)].fact = g
      BY DEF PayInv, PaymentsInv, PaymentsTypeOK, Received
    <3>8. f = g
      BY <3>3, <3>6, <3>7 DEF TablesKeep
    <3>9. f \in ReceivedFor(i)
      BY <3>2, <3>8 DEF ReceivedFor, TablesKeep
    <3> QED BY <1>1, <3>1, <3>9 DEF KeysFor
  <2> QED BY <2>1, <2>2
<1>4. KeySum(log, K) = KeySum(log, L)
  BY <1>3, KeySumSame
<1>5. KeySum(log, K) \in Int
  BY <1>2, KeySumIsInt
<1> QED BY <1>2, <1>4, <1>5

(***************************************************************************)
(* What is taken back of a purchase is an integer.                         *)
(***************************************************************************)
LEMMA ReversedIsInt ==
  ASSUME TypeOK, NEW i
  PROVE  ReversedFor(i) \in Int
<1>1. KeySum(ledger, KeysFor(i)) \in Int
  BY KeySumIsInt DEF TypeOK
<1> QED BY <1>1 DEF ReversedFor, KeysFor

(***************************************************************************)
(* The events received for a purchase, while both tables keep their rows.  *)
(***************************************************************************)
LEMMA ReceivedStays ==
  ASSUME TablesKeep, DOMAIN inbox' = DOMAIN inbox, NEW i \in DOMAIN purchases
  PROVE  KeysFor(i)' = KeysFor(i) /\ Received' = Received
<1>1. Received' = Received
  BY DEF Received, TablesKeep
<1>2. purchases'[i].provider = purchases[i].provider
  BY DEF TablesKeep
<1>3. ReceivedFor(i)' = ReceivedFor(i)
  BY <1>1, <1>2 DEF ReceivedFor
<1> QED BY <1>1, <1>3 DEF KeysFor

(***************************************************************************)
(* The row of a booking is about the events of one purchase only.          *)
(***************************************************************************)
LEMMA KeyIsOwn ==
  ASSUME PaymentsTypeOK, NEW e \in DOMAIN inbox, NEW f, f = inbox[e].fact,
         NEW i \in DOMAIN purchases
  PROVE  /\ PaymentKey(f) \notin KeysFor(i)
         /\ ReversalKey(f) \in KeysFor(i)
               <=> f.purchase = i /\ f.provider = purchases[i].provider
<1>1. PaymentKey(f) \notin KeysFor(i)
  BY PaymentKeysDiffer DEF KeysFor
<1>2. f \in Received
  BY DEF Received
<1>3. ASSUME NEW g \in Received, ReversalKey(g) = ReversalKey(f) PROVE g = f
  <2>1. PICK d \in DOMAIN inbox : g = inbox[d].fact
    BY DEF Received
  <2>2. EventId(g) = d /\ EventId(f) = e
    BY <2>1, InboxFields
  <2>3. EventId(g) = EventId(f)
    BY <1>3, PaymentKeysDiffer
  <2> QED BY <2>1, <2>2, <2>3
<1> QED BY <1>1, <1>2, <1>3 DEF KeysFor, ReceivedFor

(***************************************************************************)
(* The row that books an event by a read p of its purchase.                *)
(***************************************************************************)
BookKey(f) == IF f.status = "paid" THEN PaymentKey(f) ELSE ReversalKey(f)

IsRow(row, p, f) ==
  /\ row.user = p.user /\ row.key = BookKey(f)
  /\ row.amount = IF f.status = "paid" THEN p.credits ELSE -reversal(p, f)
  /\ f.status # "paid" => reversal(p, f) > 0

(***************************************************************************)
(* What such a read says, and what it makes of the event.                  *)
(***************************************************************************)
LEMMA ReadFields ==
  ASSUME NEW p, NEW f \in Facts, IsReadFor(p, f)
  PROVE  /\ p.user \in Users /\ p.credits \in Nat \ {0} /\ p.amount \in Nat \ {0}
         /\ p.reversed \in Nat /\ p.reversed <= p.credits
         /\ target(p, f) \in Nat /\ target(p, f) <= p.credits
         /\ reversal(p, f) = target(p, f) - p.reversed /\ reversal(p, f) \in Int
         /\ NewReversed(p, f) \in Nat /\ NewReversed(p, f) <= p.credits
         /\ NewReversed(p, f) = IF target(p, f) > p.reversed THEN target(p, f) ELSE p.reversed
<1>1. /\ p.user \in Users /\ p.credits \in Nat \ {0} /\ p.amount \in Nat \ {0}
      /\ p.reversed \in Nat /\ p.reversed <= p.credits
  BY DEF IsReadFor, PurchaseRows
<1>2. target(p, f) \in Nat /\ target(p, f) <= p.credits
  BY <1>1, PaymentsAssumption, TargetWithin
<1>3. reversal(p, f) = target(p, f) - p.reversed
  BY DEF reversal
<1> QED BY <1>1, <1>2, <1>3 DEF NewReversed

(***************************************************************************)
(* The two outcomes of a booking: a new row under the event's key; or      *)
(* nothing, and then the event is booked already.                          *)
(***************************************************************************)
LEMMA BookCases ==
  ASSUME PayInv, NEW e \in DOMAIN inbox, NEW f, f = inbox[e].fact,
         NEW p, IsReadFor(p, f), Book(p, f)
  PROVE  \/ /\ UNCHANGED vars
            /\ f.status = "paid" => PaymentKey(f) \in UsedKeys
            /\ f.status # "paid" => ReversedFor(f.purchase) >= target(p, f)
         \/ /\ TypeOK' /\ AccountingInv'
            /\ \E row \in Rows : /\ IsRow(row, p, f) /\ FreshKey(row.key)
                                 /\ ledger' = Append(ledger, row)
<1>1. f \in Facts /\ PaymentsTypeOK /\ TypeOK
  BY InboxFields DEF PayInv, PaymentsInv
<1>2. /\ p.user \in Users /\ p.credits \in Nat \ {0} /\ p.reversed \in Nat
      /\ target(p, f) \in Nat
      /\ reversal(p, f) = target(p, f) - p.reversed /\ reversal(p, f) \in Int
  BY <1>1, ReadFields
<1>3. /\ PaymentKey(f) \in IdemKeys /\ PaymentKey(f) # NULL
      /\ ReversalKey(f) \in IdemKeys /\ ReversalKey(f) # NULL
  BY <1>1, PaymentKeysDiffer
<1> DEFINE Wrote(n, key) ==
             /\ TypeOK' /\ AccountingInv'
             /\ \E row \in Rows : /\ row.user = p.user /\ row.amount = n /\ row.key = key
                                  /\ FreshKey(row.key) /\ ledger' = Append(ledger, row)
<1>4. ASSUME NEW n \in Int, NEW key \in IdemKeys, NEW typ \in LedgerTypes,
             adjust(p.user, n, key, typ),
             \/ typ = "grant" /\ n > 0
             \/ typ = "refund" /\ n < 0
      PROVE  Wrote(n, key)
  <2>1. TypeOK'
    BY <1>1, <1>2, <1>4, AdjustType
  <2>2. AccountingInv'
    BY <1>1, <1>2, <1>4, <2>1, AdjustAccounting DEF PayInv
  <2>3. PICK row : row = Row(p.user, n, typ, NULL, key)
    OBVIOUS
  <2>4. row.user = p.user /\ row.amount = n /\ row.key = key
    BY <2>3 DEF Row
  <2>5. row \in Rows
    BY <1>2, <1>4, <2>3, RowType DEF AllKeys
  <2>6. FreshKey(row.key) /\ ledger' = Append(ledger, row)
    BY <1>4, <2>3, <2>4 DEF adjust
  <2> QED BY <2>1, <2>2, <2>4, <2>5, <2>6
<1>5. CASE f.status = "paid"
  <2>1. CASE Grant(p.user, p.credits, PaymentKey(f))
    <3>1. adjust(p.user, p.credits, PaymentKey(f), "grant")
      BY <2>1 DEF Grant
    <3>2. "grant" \in LedgerTypes
      BY DEF LedgerTypes
    <3>3. PICK n \in Int : n = p.credits /\ n > 0
      BY <1>2
    <3>4. adjust(p.user, n, PaymentKey(f), "grant")
      BY <3>1, <3>3
    <3>5. Wrote(n, PaymentKey(f))
      <4> HIDE DEF Wrote
      <4> QED BY <1>3, <1>4, <3>2, <3>3, <3>4
    <3> QED BY <1>5, <3>3, <3>5 DEF IsRow, BookKey
  <2>2. CASE PaymentKey(f) \in UsedKeys /\ UNCHANGED vars
    BY <1>5, <2>2
  <2> QED BY <1>5, <2>1, <2>2 DEF Book
<1>6. CASE f.status # "paid"
  <2>1. CASE Refund(p.user, reversal(p, f), ReversalKey(f))
    <3>1. /\ adjust(p.user, -reversal(p, f), ReversalKey(f), "refund")
          /\ reversal(p, f) > 0
      BY <2>1 DEF Refund
    <3>2. "refund" \in LedgerTypes
      BY DEF LedgerTypes
    <3>3. PICK n \in Int : n = -reversal(p, f) /\ n < 0
      BY <1>2, <3>1
    <3>4. adjust(p.user, n, ReversalKey(f), "refund")
      BY <3>1, <3>3
    <3>5. Wrote(n, ReversalKey(f))
      <4> HIDE DEF Wrote
      <4> QED BY <1>3, <1>4, <3>2, <3>3, <3>4
    <3> QED BY <1>6, <3>1, <3>3, <3>5 DEF IsRow, BookKey
  <2>2. CASE (reversal(p, f) <= 0 \/ ReversalKey(f) \in UsedKeys) /\ UNCHANGED vars
    <3>1. PICK n : n = ReversedFor(f.purchase)
      OBVIOUS
    <3>2. n \in Int /\ p.reversed <= n
      BY <1>1, <3>1, ReversedIsInt DEF IsReadFor
    <3>3. CASE reversal(p, f) <= 0
      <4>1. n >= target(p, f)
        BY <1>2, <3>2, <3>3
      <4> QED BY <1>6, <2>2, <3>1, <4>1
    <3>4. CASE ReversalKey(f) \in UsedKeys
      <4>1. IsBooked(f)
        BY <1>6, <3>4 DEF PayInv, PaymentsInv, EventsKnow
      <4>2. target(p, f) = target(purchases[f.purchase], f)
        BY TargetSame DEF IsReadFor
      <4> QED BY <1>6, <2>2, <4>1, <4>2 DEF IsBooked
    <3> QED BY <2>2, <3>3, <3>4
  <2> QED BY <1>6, <2>1, <2>2 DEF Book
<1> QED BY <1>5, <1>6

(***************************************************************************)
(* The rows under some keys, as a sum to take back.                        *)
(***************************************************************************)
Taken(K) == -KeySum(ledger, K)

(***************************************************************************)
(* What a booking does to what was taken back of the purchases.            *)
(***************************************************************************)
LEMMA BookTakes ==
  ASSUME PayInv, NEW e \in DOMAIN inbox, NEW f, f = inbox[e].fact,
         NEW p, IsReadFor(p, f), Book(p, f),
         NEW j \in DOMAIN purchases, NEW K, K = KeysFor(j)
  PROVE  /\ Taken(K) = ReversedFor(j) /\ Taken(K) \in Int /\ Taken(K)' \in Int
         /\ Taken(K) <= Taken(K)'
         /\ j # f.purchase \/ f.status = "paid" => Taken(K)' = Taken(K)
         /\ j = f.purchase /\ f.status # "paid" =>
               /\ Taken(K)' >= target(p, f)
               /\ p.reversed = ReversedFor(j) => Taken(K)' = NewReversed(p, f)
<1>1. f \in Facts /\ PaymentsTypeOK /\ TypeOK
  BY InboxFields DEF PayInv, PaymentsInv
<1>2. /\ p.reversed \in Nat /\ target(p, f) \in Nat
      /\ reversal(p, f) = target(p, f) - p.reversed
      /\ NewReversed(p, f) = IF target(p, f) > p.reversed THEN target(p, f) ELSE p.reversed
  BY <1>1, ReadFields
<1>3. Taken(K) = ReversedFor(j) /\ Taken(K) \in Int
  BY <1>1, ReversedIsInt DEF Taken, ReversedFor, KeysFor
<1>4. j = f.purchase => p.reversed <= Taken(K)
  BY <1>3 DEF IsReadFor
<1>5. CASE /\ UNCHANGED vars
           /\ f.status # "paid" => ReversedFor(f.purchase) >= target(p, f)
  <2>1. Taken(K)' = Taken(K)
    BY <1>5 DEF Taken, vars
  <2>2. j = f.purchase /\ f.status # "paid" => Taken(K) >= target(p, f)
    BY <1>3, <1>5
  <2> QED BY <1>2, <1>3, <1>4, <2>1, <2>2
<1>6. CASE /\ TypeOK'
           /\ \E row \in Rows : /\ IsRow(row, p, f) /\ FreshKey(row.key)
                                /\ ledger' = Append(ledger, row)
  <2>1. PICK row \in Rows : IsRow(row, p, f) /\ ledger' = Append(ledger, row)
    BY <1>6
  <2>2. KeySum(ledger, K)' = KeySum(ledger, K) + (IF row.key \in K THEN row.amount ELSE 0)
    BY <1>1, <2>1, KeySumAppend DEF TypeOK
  <2>3. KeySum(ledger, K) \in Int /\ row.amount \in Int
    BY <1>1, KeySumIsInt DEF TypeOK, Rows
  <2>4. Taken(K)' = Taken(K) - (IF row.key \in K THEN row.amount ELSE 0)
    BY <2>2, <2>3 DEF Taken
  <2>5. row.key \in K <=> j = f.purchase /\ f.status # "paid"
    <3>1. f.purchase = j => f.provider = purchases[j].provider
      BY DEF IsReadFor
    <3> QED BY <1>1, <2>1, <3>1, KeyIsOwn DEF IsRow, BookKey
  <2>6. f.status # "paid" => row.amount = -reversal(p, f) /\ reversal(p, f) > 0
    BY <2>1 DEF IsRow
  <2> QED BY <1>2, <1>3, <1>4, <2>3, <2>4, <2>5, <2>6
<1> QED BY <1>5, <1>6, BookCases

(***************************************************************************)
(* What a booking does to the ledger.                                      *)
(***************************************************************************)
LEMMA BookWrites ==
  ASSUME PayInv, NEW e \in DOMAIN inbox, NEW f, f = inbox[e].fact,
         NEW p, IsReadFor(p, f), Book(p, f)
  PROVE  /\ TypeOK' /\ AccountingInv' /\ KeysPayOnce'
         /\ UsedKeys \subseteq UsedKeys' /\ UsedKeys' \subseteq UsedKeys \cup {BookKey(f)}
         /\ f.status = "paid" => PaymentKey(f) \in UsedKeys'
         /\ \A k \in DOMAIN ledger' : \/ k \in DOMAIN ledger /\ ledger'[k] = ledger[k]
                                      \/ IsRow(ledger'[k], p, f)
<1>1. TypeOK /\ AccountingInv /\ KeysPayOnce
  BY DEF PayInv, PaymentsInv
<1>2. CASE /\ UNCHANGED vars
           /\ f.status = "paid" => PaymentKey(f) \in UsedKeys
  <2>1. TypeOK' /\ AccountingInv' /\ KeysPayOnce'
    BY <1>1, <1>2, TypeNext, AccountingNext, KeysNext
  <2>2. ledger' = ledger
    BY <1>2 DEF vars
  <2>3. UsedKeys' = UsedKeys
    BY <2>2 DEF UsedKeys
  <2> QED BY <1>2, <2>1, <2>2, <2>3
<1>3. CASE /\ TypeOK' /\ AccountingInv'
           /\ \E row \in Rows : /\ IsRow(row, p, f) /\ FreshKey(row.key)
                                /\ ledger' = Append(ledger, row)
  <2>1. PICK row \in Rows : /\ IsRow(row, p, f) /\ FreshKey(row.key)
                            /\ ledger' = Append(ledger, row)
    BY <1>3
  <2>2. KeysPayOnce'
    BY <1>1, <2>1, KeysAppend
  <2>3. /\ Len(ledger) \in Nat /\ DOMAIN ledger = 1 .. Len(ledger)
        /\ DOMAIN ledger' = 1 .. Len(ledger) + 1
        /\ \A k \in DOMAIN ledger : ledger'[k] = ledger[k]
        /\ ledger'[Len(ledger) + 1] = row
    BY <1>1, <2>1 DEF TypeOK
  <2>4. \A k \in DOMAIN ledger' : k \in DOMAIN ledger \/ k = Len(ledger) + 1
    BY <2>3
  <2>5. DOMAIN ledger \subseteq DOMAIN ledger' /\ Len(ledger) + 1 \in DOMAIN ledger'
    BY <2>3
  <2>6. row.key = BookKey(f) /\ BookKey(f) # NULL
    <3>1. f \in Facts
      BY InboxFields DEF PayInv, PaymentsInv
    <3> QED BY <2>1, <3>1, PaymentKeysDiffer DEF IsRow, BookKey
  <2>7. UsedKeys \subseteq UsedKeys' /\ UsedKeys' \subseteq UsedKeys \cup {BookKey(f)}
    BY <2>3, <2>4, <2>5, <2>6 DEF UsedKeys
  <2>8. BookKey(f) \in UsedKeys'
    BY <2>3, <2>5, <2>6 DEF UsedKeys
  <2>9. f.status = "paid" => PaymentKey(f) \in UsedKeys'
    BY <2>8 DEF BookKey
  <2> QED BY <1>3, <2>1, <2>2, <2>3, <2>4, <2>7, <2>9
<1> QED BY <1>2, <1>3, BookCases

-----------------------------------------------------------------------------
(***************************************************************************)
(* The steps that do not write the ledger or a purchase: at most an event  *)
(* comes in, or one that was not applied changes its status.               *)
(***************************************************************************)
InboxGoesOn ==
  /\ DOMAIN inbox \subseteq DOMAIN inbox'
  /\ \A e \in DOMAIN inbox :
        /\ inbox'[e].fact = inbox[e].fact
        /\ inbox'[e].status = "applied" => inbox[e].status = "applied"
  /\ \A e \in DOMAIN inbox' \ DOMAIN inbox :
        /\ inbox'[e].status # "applied"
        /\ inbox'[e].fact.purchase \in PurchaseIds =>
              inbox'[e].fact.purchase \in DOMAIN purchases

(***************************************************************************)
(* They keep all that does not depend on the process that takes them.      *)
(***************************************************************************)
LEMMA QuietPayments ==
  ASSUME PayInv, UNCHANGED <<vars, purchases, kind, stale>>, InboxGoesOn,
         PaymentsTypeOK'
  PROVE  /\ Forward /\ TypeOK' /\ AccountingInv' /\ KeysPayOnce'
         /\ EventsKnow' /\ RowsAreBooked' /\ RecordedIsTaken'
<1>1. TypeOK /\ AccountingInv /\ KeysPayOnce /\ PaymentsTypeOK
  BY DEF PayInv, PaymentsInv
<1>2. TypeOK' /\ AccountingInv' /\ KeysPayOnce'
  BY <1>1, TypeNext, AccountingNext, KeysNext
<1>3. TablesKeep
  BY DEF TablesKeep, InboxGoesOn
<1>4. \A i \in DOMAIN purchases : ReversedFor(i) \in Int /\ ReversedFor(i)' = ReversedFor(i)
  BY <1>3, ReversedStays
<1>5. ledger' = ledger /\ UsedKeys' = UsedKeys
  BY DEF vars, UsedKeys
<1>6. Forward
  BY <1>3, <1>4, <1>5 DEF Forward
<1>7. RecordedIsTaken'
  BY <1>4 DEF PayInv, PaymentsInv, RecordedIsTaken
<1>8. Received \subseteq Received'
  BY <1>3 DEF Received, TablesKeep
<1>9. RowsAreBooked'
  BY <1>5, <1>8 DEF PayInv, PaymentsInv, RowsAreBooked
<1>10. EventsKnow'
  <2> SUFFICES ASSUME NEW e \in DOMAIN inbox', NEW f, f = inbox'[e].fact
               PROVE  /\ f.purchase \in PurchaseIds => f.purchase \in DOMAIN purchases'
                      /\ inbox'[e].status = "applied" => IsBooked(f)'
                      /\ f.status # "paid" /\ ReversalKey(f) \in UsedKeys' => IsBooked(f)'
    BY DEF EventsKnow
  <2>1. CASE e \in DOMAIN inbox
    <3>1. /\ f = inbox[e].fact /\ f \in Facts
          /\ inbox'[e].status = "applied" => inbox[e].status = "applied"
      BY <1>1, <2>1, InboxFields DEF InboxGoesOn
    <3>2. /\ f.purchase \in PurchaseIds => f.purchase \in DOMAIN purchases
          /\ inbox[e].status = "applied" => IsBooked(f)
          /\ f.status # "paid" /\ ReversalKey(f) \in UsedKeys => IsBooked(f)
      BY <2>1, <3>1 DEF PayInv, PaymentsInv, EventsKnow
    <3>3. IsBooked(f) => IsBooked(f)'
      BY <1>1, <1>6, <3>1, BookedStays
    <3> QED BY <1>5, <3>1, <3>2, <3>3
  <2>2. CASE e \notin DOMAIN inbox
    <3>1. /\ inbox'[e].status # "applied"
          /\ f.purchase \in PurchaseIds => f.purchase \in DOMAIN purchases'
      BY <2>2 DEF InboxGoesOn
    <3>2. ReversalKey(f) \notin UsedKeys
      <4> SUFFICES ASSUME ReversalKey(f) \in UsedKeys PROVE FALSE
        OBVIOUS
      <4>1. PICK k \in DOMAIN ledger : ledger[k].key = ReversalKey(f)
        BY DEF UsedKeys
      <4>2. PICK g \in Received : \/ ledger[k].key = PaymentKey(g)
                                  \/ ledger[k].key = ReversalKey(g)
        BY DEF PayInv, PaymentsInv, RowsAreBooked
      <4>3. EventId(g) = EventId(f)
        BY <4>1, <4>2, PaymentKeysDiffer
      <4>4. EventId(f) = e
        BY DEF PaymentsTypeOK
      <4>5. EventId(g) \in DOMAIN inbox
        BY <1>1 DEF PaymentsTypeOK, Received
      <4> QED BY <2>2, <4>3, <4>4, <4>5
    <3> QED BY <1>5, <3>1, <3>2
  <2> QED BY <2>1, <2>2
<1> QED BY <1>2, <1>6, <1>7, <1>9, <1>10

(***************************************************************************)
(* And, when one process takes them, that process has to know what it      *)
(* goes on with.                                                           *)
(***************************************************************************)
LEMMA QuietProcess ==
  ASSUME PayInv, UNCHANGED <<vars, purchases, kind, stale>>, InboxGoesOn,
         reported' \subseteq DOMAIN inbox', inbox' \in [DOMAIN inbox' -> InboxRows'],
         \A e \in DOMAIN inbox' : EventId(inbox'[e].fact) = e,
         deliveries' \in 0 .. MaxDeliveries, faults' \in 0 .. MaxFaults,
         NEW w \in Procs, NEW r \in ProcRows, procs' = [procs EXCEPT ![w] = r],
         Forward => Knows(r)'
  PROVE  PayInv'
<1>1. PaymentsTypeOK /\ ProcsKnow
  BY DEF PayInv, PaymentsInv
<1>2. /\ procs' \in [Procs -> ProcRows] /\ procs'[w] = r
      /\ \A v \in Procs : v # w => procs'[v] = procs[v]
  BY <1>1, ProcMoves
<1>3. ProcRows' = ProcRows /\ PurchaseRows' = PurchaseRows
  BY DEF ProcRows, PurchaseRows
<1>4. PaymentsTypeOK'
  BY <1>1, <1>2, <1>3 DEF PaymentsTypeOK
<1>5. /\ Forward /\ TypeOK' /\ AccountingInv' /\ KeysPayOnce'
      /\ EventsKnow' /\ RowsAreBooked' /\ RecordedIsTaken'
  BY <1>4, QuietPayments
<1>6. ProcsKnow'
  BY <1>1, <1>2, <1>5, ProcsGoOn
<1> QED BY <1>4, <1>5, <1>6 DEF PayInv, PaymentsInv

(***************************************************************************)
(* The same for a step that leaves the inbox alone.                        *)
(***************************************************************************)
LEMMA QuietInbox ==
  ASSUME PayInv, UNCHANGED <<vars, purchases, inbox, kind, deliveries, stale>>,
         reported' \subseteq DOMAIN inbox, faults' \in 0 .. MaxFaults,
         NEW w \in Procs, NEW r \in ProcRows, procs' = [procs EXCEPT ![w] = r],
         Knows(r)
  PROVE  PayInv'
<1>1. PaymentsTypeOK
  BY DEF PayInv, PaymentsInv
<1>2. InboxGoesOn
  BY DEF InboxGoesOn
<1>3. InboxRows' = InboxRows
  BY DEF InboxRows
<1>4. /\ inbox' \in [DOMAIN inbox' -> InboxRows']
      /\ \A e \in DOMAIN inbox' : EventId(inbox'[e].fact) = e
      /\ deliveries' \in 0 .. MaxDeliveries
  BY <1>1, <1>3 DEF PaymentsTypeOK
<1>5. Forward => Knows(r)'
  BY <1>1, KnowledgeStays
<1> QED BY <1>2, <1>4, <1>5, QuietProcess

(***************************************************************************)
(* A process that goes on with a batch, or is done, knows enough.          *)
(***************************************************************************)
LEMMA ReadyKnows ==
  ASSUME NEW w, NEW B \in SUBSET EventIds
  PROVE  /\ Knows(Ready(w)) /\ Knows(Returned(w))
         /\ B \subseteq DOMAIN inbox => Knows(Continue(w, B))
<1>1. PICK r, s, c : r = Ready(w) /\ s = Returned(w) /\ c = Continue(w, B)
  OBVIOUS
<1>2. /\ r.batch = {} /\ r.pc \in {"idle", "start"}
      /\ s.batch = {} /\ s.pc \in {"idle", "alarm"}
      /\ c.batch = B /\ c.pc \in {"idle", "alarm", "claim"}
  BY <1>1, ReadyFields
<1>3. Knows(r) /\ Knows(s) /\ (B \subseteq DOMAIN inbox => Knows(c))
  BY <1>2 DEF Knows
<1> QED BY <1>1, <1>3

(***************************************************************************)
(* The steps that leave the inbox alone.                                   *)
(***************************************************************************)
LEMMA ListPendingInv ==
  ASSUME PayInv, NEW w \in Procs, ListPending(w)
  PROVE  PayInv'
<1>1. PICK B \in SUBSET Queue : procs' = [procs EXCEPT ![w] = Continue(w, B)]
  BY DEF ListPending
<1>2. PaymentsTypeOK /\ B \subseteq DOMAIN inbox /\ B \in SUBSET EventIds
  BY InboxFields DEF PayInv, PaymentsInv, Queue
<1>3. PICK r : r = Continue(w, B)
  OBVIOUS
<1>4. r \in ProcRows /\ Knows(r)
  BY <1>2, <1>3, ReadyFields, ReadyKnows
<1>5. /\ UNCHANGED <<vars, purchases, inbox, kind, deliveries, stale>>
      /\ reported' \subseteq DOMAIN inbox /\ faults' \in 0 .. MaxFaults
      /\ procs' = [procs EXCEPT ![w] = r]
  BY <1>1, <1>2, <1>3 DEF ListPending, PaymentsTypeOK
<1> QED BY <1>4, <1>5, QuietInbox

(***************************************************************************)
(* The purchase is read: what it says now is what the process knows.       *)
(***************************************************************************)
LEMMA ReadPurchaseInv ==
  ASSUME PayInv, NEW w \in Procs, ReadPurchase(w)
  PROVE  PayInv'
<1>1. /\ PaymentsTypeOK /\ procs[w].pc = "read" /\ procs[w] \in ProcRows
      /\ UNCHANGED <<vars, purchases, inbox, kind, deliveries, stale>>
      /\ reported' \subseteq DOMAIN inbox /\ faults' \in 0 .. MaxFaults
  BY ProcFields DEF PayInv, PaymentsInv, PaymentsTypeOK, ReadPurchase
<1>2. Knows(procs[w])
  BY AllKnow DEF PayInv, PaymentsInv
<1>3. PICK f, i : f = Fact(w) /\ i = f.purchase
  OBVIOUS
<1>4. procs[w].event \in DOMAIN inbox /\ f = inbox[procs[w].event].fact
  BY <1>1, <1>2, <1>3 DEF Knows, Fact
<1>5. CASE i \in DOMAIN purchases /\ Identified(purchases[i], f)
  <2>1. PICK r : r = [procs[w] EXCEPT !.pc = "book", !.read = purchases[i]]
    OBVIOUS
  <2>2. procs' = [procs EXCEPT ![w] = r]
    BY <1>3, <1>5, <2>1 DEF ReadPurchase
  <2>3. /\ purchases[i] \in PurchaseRows /\ purchases[i].id = i
        /\ purchases[i].reversed <= purchases[i].credits
    BY <1>1, <1>5, PurchaseFields
  <2>4. /\ r \in ProcRows /\ r.pc = "book" /\ r.read = purchases[i]
        /\ r.event = procs[w].event /\ r.batch = procs[w].batch
    BY <1>1, <2>1, <2>3 DEF ProcRows
  <2>5. IsReadFor(purchases[i], f)
    <3>1. purchases[i].reversed <= ReversedFor(i)
      BY <1>5 DEF PayInv, PaymentsInv, RecordedIsTaken
    <3> QED BY <1>3, <1>5, <2>3, <3>1 DEF IsReadFor, Identified
  <2>6. Knows(r)
    BY <1>2, <1>4, <2>4, <2>5 DEF Knows
  <2> QED BY <1>1, <2>2, <2>4, <2>6, QuietInbox
<1>6. CASE ~(i \in DOMAIN purchases /\ Identified(purchases[i], f))
  <2>1. PICK r : r = [procs[w] EXCEPT !.pc = "fail"]
    OBVIOUS
  <2>2. procs' = [procs EXCEPT ![w] = r]
    BY <1>1, <1>3, <1>6, <2>1 DEF ReadPurchase, PaymentsTypeOK
  <2>3. /\ r \in ProcRows /\ r.pc = "fail"
        /\ r.event = procs[w].event /\ r.batch = procs[w].batch
    BY <1>1, <2>1 DEF ProcRows
  <2>4. Knows(r)
    BY <1>2, <1>4, <2>3 DEF Knows
  <2> QED BY <1>1, <2>2, <2>3, <2>4, QuietInbox
<1> QED BY <1>5, <1>6

(***************************************************************************)
(* A process that is done, has failed or has died.                         *)
(***************************************************************************)
LEMMA ReturnInv ==
  ASSUME PayInv, NEW w \in Procs, NEW r, r = Ready(w) \/ r = Returned(w),
         procs' = [procs EXCEPT ![w] = r],
         UNCHANGED <<vars, purchases, inbox, kind, deliveries, stale>>,
         reported' \subseteq DOMAIN inbox, faults' \in 0 .. MaxFaults
  PROVE  PayInv'
<1>1. r \in ProcRows /\ Knows(r)
  <2>1. /\ Ready(w) \in ProcRows /\ Returned(w) \in ProcRows
        /\ Knows(Ready(w)) /\ Knows(Returned(w))
    <3>1. {} \in SUBSET EventIds
      OBVIOUS
    <3> QED BY <3>1, ReadyFields, ReadyKnows
  <2>2. CASE r = Ready(w)
    BY <2>1, <2>2
  <2>3. CASE r = Returned(w)
    BY <2>1, <2>3
  <2> QED BY <2>2, <2>3
<1> QED BY <1>1, QuietInbox

(***************************************************************************)
(* A statement fails, and the event is going to be marked as failed.       *)
(***************************************************************************)
LEMMA BusyInv ==
  ASSUME PayInv, NEW w \in Procs, Busy(w)
  PROVE  PayInv'
<1>1. PaymentsTypeOK /\ procs[w] \in ProcRows /\ Knows(procs[w])
  BY ProcFields, AllKnow DEF PayInv, PaymentsInv
<1>2. /\ UNCHANGED <<vars, purchases, inbox, kind, deliveries, stale>>
      /\ reported' \subseteq DOMAIN inbox
  BY <1>1 DEF Busy, PaymentsTypeOK
<1>3. faults' \in 0 .. MaxFaults
  BY <1>1, PaymentsAssumption DEF Busy, PaymentsTypeOK
<1>4. CASE procs' = [procs EXCEPT ![w] = Returned(w)]
  <2>1. PICK r : r = Returned(w)
    OBVIOUS
  <2> QED BY <1>2, <1>3, <1>4, <2>1, ReturnInv
<1>5. CASE /\ procs[w].pc \in {"read", "book", "record"}
           /\ procs' = [procs EXCEPT ![w].pc = "fail"]
  <2>1. PICK r : r = [procs[w] EXCEPT !.pc = "fail"]
    OBVIOUS
  <2>2. procs' = [procs EXCEPT ![w] = r]
    BY <1>1, <1>5, <2>1 DEF PaymentsTypeOK
  <2>3. /\ r \in ProcRows /\ r.pc = "fail"
        /\ r.event = procs[w].event /\ r.batch = procs[w].batch
    BY <1>1, <2>1 DEF ProcRows
  <2>4. Knows(r)
    BY <1>1, <1>5, <2>3 DEF Knows
  <2> QED BY <1>2, <1>3, <2>2, <2>3, <2>4, QuietInbox
<1> QED BY <1>4, <1>5 DEF Busy

(***************************************************************************)
(* An event comes in: it is new, or the inbox has it.                      *)
(***************************************************************************)
LEMMA ReceiveInv ==
  ASSUME PayInv, NEW w \in Handlers, NEW f \in Facts, Receive(w, f)
  PROVE  PayInv'
<1>1. /\ PaymentsTypeOK /\ w \in Procs /\ procs[w] \in ProcRows
      /\ Knows(procs[w]) /\ procs[w].pc = "idle"
  BY ProcFields, AllKnow DEF PayInv, PaymentsInv, Receive, Procs
<1>2. /\ UNCHANGED <<vars, purchases, kind, reported, faults, stale>>
      /\ deliveries \in Nat /\ deliveries' = deliveries + 1
      /\ deliveries' \in 0 .. MaxDeliveries /\ faults' \in 0 .. MaxFaults
  BY <1>1, PaymentsAssumption DEF Receive, PaymentsTypeOK
<1>3. \A n \in 0 .. deliveries : n \in 0 .. deliveries' /\ n + 1 \in 0 .. deliveries'
  BY <1>2
<1>4. \A e \in DOMAIN inbox : inbox[e] \in InboxRows'
  BY <1>1, <1>3 DEF PaymentsTypeOK, InboxRows
<1>5. PICK r : \E pc \in {"start", "idle"} :
                  /\ r = [procs[w] EXCEPT !.pc = pc]
                  /\ procs' = [procs EXCEPT ![w] = r]
  BY <1>1 DEF Receive, PaymentsTypeOK
<1>6. /\ r \in ProcRows /\ r.batch = procs[w].batch /\ r.pc \in {"start", "idle"}
      /\ procs' = [procs EXCEPT ![w] = r]
  BY <1>1, <1>5 DEF ProcRows
<1>7. Knows(r)
  BY <1>1, <1>6 DEF Knows
<1>8. Forward => Knows(r)'
  BY <1>1, <1>7, KnowledgeStays
<1>9. CASE /\ EventId(f) \notin DOMAIN inbox
           /\ \E at \in {LastReceived, LastReceived + 1} :
                 inbox' = [e \in DOMAIN inbox \cup {EventId(f)} |->
                     IF e = EventId(f) THEN [fact |-> f, status |-> "received", attempts |-> 0,
                                       expired |-> FALSE, at |-> at]
                                 ELSE inbox[e]]
  <2>1. PICK at, row : /\ at \in {LastReceived, LastReceived + 1}
                       /\ row = [fact |-> f, status |-> "received", attempts |-> 0,
                                 expired |-> FALSE, at |-> at]
                       /\ inbox' = [e \in DOMAIN inbox \cup {EventId(f)} |->
                                       IF e = EventId(f) THEN row ELSE inbox[e]]
    BY <1>9
  <2>2. at \in 0 .. deliveries'
    BY <1>1, <1>3, <2>1, LastReceivedType
  <2>3. row \in InboxRows' /\ row.fact = f /\ row.status = "received"
    BY <2>1, <2>2, PaymentsAssumption DEF InboxRows
  <2>4. /\ DOMAIN inbox' = DOMAIN inbox \cup {EventId(f)} /\ inbox'[EventId(f)] = row
        /\ \A e \in DOMAIN inbox : inbox'[e] = inbox[e]
    BY <1>9, <2>1
  <2>5. inbox' \in [DOMAIN inbox' -> InboxRows']
    BY <1>4, <2>1, <2>3
  <2>6. \A e \in DOMAIN inbox' : EventId(inbox'[e].fact) = e
    BY <1>1, <2>3, <2>4 DEF PaymentsTypeOK
  <2>7. InboxGoesOn
    BY <2>3, <2>4 DEF InboxGoesOn, Receive
  <2>8. reported' \subseteq DOMAIN inbox'
    BY <1>1, <1>2, <2>4 DEF PaymentsTypeOK
  <2> QED BY <1>1, <1>2, <1>6, <1>8, <2>5, <2>6, <2>7, <2>8, QuietProcess
<1>10. CASE UNCHANGED inbox
  <2>1. InboxGoesOn
    BY <1>10 DEF InboxGoesOn
  <2>2. /\ inbox' \in [DOMAIN inbox' -> InboxRows']
        /\ \A e \in DOMAIN inbox' : EventId(inbox'[e].fact) = e
        /\ reported' \subseteq DOMAIN inbox'
    BY <1>1, <1>2, <1>4, <1>10 DEF PaymentsTypeOK
  <2> QED BY <1>1, <1>2, <1>6, <1>8, <2>1, <2>2, QuietProcess
<1> QED BY <1>9, <1>10 DEF Receive

(***************************************************************************)
(* A process changes the status of one event, not to applied.              *)
(***************************************************************************)
LEMMA EventMoves ==
  ASSUME PayInv, NEW e \in DOMAIN inbox, NEW row \in InboxRows,
         row.fact = inbox[e].fact, row.status # "applied",
         inbox' = [inbox EXCEPT ![e] = row],
         UNCHANGED <<vars, purchases, kind, reported, deliveries, faults, stale>>,
         NEW w \in Procs, NEW r \in ProcRows, procs' = [procs EXCEPT ![w] = r],
         Knows(r)
  PROVE  PayInv'
<1>1. PaymentsTypeOK
  BY DEF PayInv, PaymentsInv
<1>2. /\ DOMAIN inbox' = DOMAIN inbox /\ inbox'[e] = row
      /\ \A d \in DOMAIN inbox : d # e => inbox'[d] = inbox[d]
      /\ inbox' \in [DOMAIN inbox' -> InboxRows']
      /\ \A d \in DOMAIN inbox' : EventId(inbox'[d].fact) = d
  BY <1>1, InboxMoves
<1>3. InboxGoesOn
  BY <1>2 DEF InboxGoesOn
<1>4. /\ reported' \subseteq DOMAIN inbox' /\ deliveries' \in 0 .. MaxDeliveries
      /\ faults' \in 0 .. MaxFaults
  BY <1>1, <1>2 DEF PaymentsTypeOK
<1>5. Forward => Knows(r)'
  BY <1>1, KnowledgeStays
<1> QED BY <1>2, <1>3, <1>4, <1>5, QuietProcess

(***************************************************************************)
(* The claim of an event, or that it is skipped.                           *)
(***************************************************************************)
LEMMA ClaimInv ==
  ASSUME PayInv, NEW w \in Procs, Claim(w)
  PROVE  PayInv'
<1>1. PaymentsTypeOK /\ procs[w] \in ProcRows /\ Knows(procs[w])
  BY ProcFields, AllKnow DEF PayInv, PaymentsInv
<1>2. PICK e \in Oldest(procs[w].batch) :
           \/ /\ Claimable(e)
              /\ inbox' = [inbox EXCEPT ![e] = [inbox[e] EXCEPT
                    !.status = "processing", !.expired = FALSE,
                    !.attempts = IF inbox[e].attempts < MaxAttempts
                                 THEN inbox[e].attempts + 1 ELSE MaxAttempts]]
              /\ procs' = [procs EXCEPT ![w] = [procs[w] EXCEPT
                    !.pc = "read", !.event = e, !.batch = procs[w].batch \ {e}]]
           \/ /\ ~Claimable(e)
              /\ procs' = [procs EXCEPT ![w] = Continue(w, procs[w].batch \ {e})]
              /\ UNCHANGED inbox
  BY DEF Claim
<1>3. PICK B : B = procs[w].batch \ {e}
  OBVIOUS
<1>4. /\ e \in DOMAIN inbox /\ B \subseteq DOMAIN inbox
      /\ e \in EventIds /\ B \in SUBSET EventIds
  BY <1>1, <1>3, InboxFields, ProcFields DEF Oldest, Knows
<1>5. UNCHANGED <<vars, purchases, kind, reported, deliveries, faults, stale>>
  BY DEF Claim
<1>6. CASE /\ inbox' = [inbox EXCEPT ![e] = [inbox[e] EXCEPT
                    !.status = "processing", !.expired = FALSE,
                    !.attempts = IF inbox[e].attempts < MaxAttempts
                                 THEN inbox[e].attempts + 1 ELSE MaxAttempts]]
           /\ procs' = [procs EXCEPT ![w] = [procs[w] EXCEPT
                    !.pc = "read", !.event = e, !.batch = procs[w].batch \ {e}]]
  <2>1. PICK n : n = IF inbox[e].attempts < MaxAttempts
                     THEN inbox[e].attempts + 1 ELSE MaxAttempts
    OBVIOUS
  <2>2. n \in 0 .. MaxAttempts
    BY <1>1, <1>4, <2>1, InboxFields, PaymentsAssumption
  <2>3. PICK row : row = [inbox[e] EXCEPT !.status = "processing", !.expired = FALSE,
                                          !.attempts = n]
    OBVIOUS
  <2>4. row \in InboxRows /\ row.fact = inbox[e].fact /\ row.status # "applied"
    <3>1. inbox[e] \in InboxRows
      BY <1>1, <1>4, InboxFields
    <3> QED BY <2>2, <2>3, <3>1 DEF InboxRows
  <2>5. PICK r : r = [procs[w] EXCEPT !.pc = "read", !.event = e, !.batch = B]
    OBVIOUS
  <2>6. r \in ProcRows /\ r.pc = "read" /\ r.event = e /\ r.batch = B
    BY <1>1, <1>4, <2>5 DEF ProcRows
  <2>7. Knows(r)
    BY <1>4, <2>6 DEF Knows
  <2>8. inbox' = [inbox EXCEPT ![e] = row] /\ procs' = [procs EXCEPT ![w] = r]
    BY <1>3, <1>6, <2>1, <2>3, <2>5
  <2> QED BY <1>4, <1>5, <2>4, <2>6, <2>7, <2>8, EventMoves
<1>7. CASE /\ procs' = [procs EXCEPT ![w] = Continue(w, procs[w].batch \ {e})]
           /\ UNCHANGED inbox
  <2>1. PICK r : r = Continue(w, B)
    OBVIOUS
  <2>2. r \in ProcRows /\ Knows(r)
    BY <1>4, <2>1, ReadyFields, ReadyKnows
  <2>3. procs' = [procs EXCEPT ![w] = r]
    BY <1>3, <1>7, <2>1
  <2>4. reported' \subseteq DOMAIN inbox /\ faults' \in 0 .. MaxFaults
    BY <1>1, <1>5 DEF PaymentsTypeOK
  <2> QED BY <1>5, <1>7, <2>2, <2>3, <2>4, QuietInbox
<1> QED BY <1>2, <1>6, <1>7

(***************************************************************************)
(* An event is marked as failed.                                           *)
(***************************************************************************)
LEMMA FailInv ==
  ASSUME PayInv, NEW w \in Procs, Fail(w)
  PROVE  PayInv'
<1>1. PaymentsTypeOK /\ procs[w] \in ProcRows /\ Knows(procs[w])
  BY ProcFields, AllKnow DEF PayInv, PaymentsInv
<1>2. PICK e : e = procs[w].event
  OBVIOUS
<1>3. e \in DOMAIN inbox
  BY <1>1, <1>2 DEF Fail, Knows
<1>4. PICK row : row = [inbox[e] EXCEPT !.status = "failed", !.expired = FALSE]
  OBVIOUS
<1>5. row \in InboxRows /\ row.fact = inbox[e].fact /\ row.status # "applied"
  <2>1. inbox[e] \in InboxRows
    BY <1>1, <1>3, InboxFields
  <2> QED BY <1>4, <2>1 DEF InboxRows
<1>6. PICK r : r = Returned(w)
  OBVIOUS
<1>7. r \in ProcRows /\ Knows(r)
  <2>1. {} \in SUBSET EventIds
    OBVIOUS
  <2> QED BY <1>6, <2>1, ReadyFields, ReadyKnows
<1>8. /\ inbox' = [inbox EXCEPT ![e] = row] /\ procs' = [procs EXCEPT ![w] = r]
      /\ UNCHANGED <<vars, purchases, kind, reported, deliveries, faults, stale>>
  BY <1>2, <1>4, <1>6 DEF Fail
<1> QED BY <1>3, <1>5, <1>7, <1>8, EventMoves

(***************************************************************************)
(* Expired leases go back to the queue.                                    *)
(***************************************************************************)
LEMMA ExpireLeasesInv ==
  ASSUME PayInv, NEW w \in Procs, ExpireLeases(w)
  PROVE  PayInv'
<1>1. PaymentsTypeOK /\ procs[w] \in ProcRows /\ Knows(procs[w])
  BY ProcFields, AllKnow DEF PayInv, PaymentsInv
<1>2. /\ UNCHANGED <<vars, purchases, kind, reported, deliveries, faults, stale>>
      /\ InboxRows' = InboxRows
  BY DEF ExpireLeases, InboxRows
<1>3. /\ DOMAIN inbox' = DOMAIN inbox
      /\ \A e \in DOMAIN inbox :
            \/ inbox'[e] = inbox[e]
            \/ inbox'[e] = [inbox[e] EXCEPT !.status = "failed", !.expired = FALSE]
  BY DEF ExpireLeases
<1>4. ASSUME NEW e \in DOMAIN inbox
      PROVE  /\ inbox'[e] \in InboxRows /\ inbox'[e].fact = inbox[e].fact
             /\ inbox'[e].status = "applied" => inbox[e].status = "applied"
  <2>1. inbox[e] \in InboxRows
    BY <1>1, InboxFields
  <2> QED BY <1>3, <2>1 DEF InboxRows
<1>5. inbox' \in [DOMAIN inbox' -> InboxRows']
  BY <1>2, <1>3, <1>4 DEF ExpireLeases
<1>6. \A e \in DOMAIN inbox' : EventId(inbox'[e].fact) = e
  BY <1>1, <1>3, <1>4 DEF PaymentsTypeOK
<1>7. InboxGoesOn
  BY <1>3, <1>4 DEF InboxGoesOn
<1>8. PICK r : r = [procs[w] EXCEPT !.pc = "list"]
  OBVIOUS
<1>9. /\ r \in ProcRows /\ r.pc = "list" /\ r.batch = procs[w].batch
      /\ procs' = [procs EXCEPT ![w] = r]
  BY <1>1, <1>8 DEF ProcRows, ExpireLeases, PaymentsTypeOK
<1>10. Knows(r)
  BY <1>1, <1>9 DEF Knows
<1>11. Forward => Knows(r)'
  BY <1>1, <1>10, KnowledgeStays
<1>12. /\ reported' \subseteq DOMAIN inbox' /\ deliveries' \in 0 .. MaxDeliveries
       /\ faults' \in 0 .. MaxFaults
  BY <1>1, <1>2, <1>3 DEF PaymentsTypeOK
<1> QED BY <1>2, <1>5, <1>6, <1>7, <1>9, <1>11, <1>12, QuietProcess

(***************************************************************************)
(* A lease runs out, or nothing happens.                                   *)
(***************************************************************************)
LEMMA NobodyMoves ==
  ASSUME PayInv, UNCHANGED <<vars, purchases, procs, kind, reported, deliveries, faults, stale>>,
         InboxGoesOn, DOMAIN inbox' = DOMAIN inbox,
         \A e \in DOMAIN inbox : inbox'[e] \in InboxRows,
         inbox' = [e \in DOMAIN inbox' |-> inbox'[e]]
  PROVE  PayInv'
<1>1. PaymentsTypeOK /\ ProcsKnow
  BY DEF PayInv, PaymentsInv
<1>2. InboxRows' = InboxRows /\ ProcRows' = ProcRows /\ PurchaseRows' = PurchaseRows
  BY DEF InboxRows, ProcRows, PurchaseRows
<1>3. inbox' \in [DOMAIN inbox' -> InboxRows']
  BY <1>2
<1>4. PaymentsTypeOK'
  BY <1>1, <1>2, <1>3 DEF PaymentsTypeOK, InboxGoesOn
<1>5. /\ Forward /\ TypeOK' /\ AccountingInv' /\ KeysPayOnce'
      /\ EventsKnow' /\ RowsAreBooked' /\ RecordedIsTaken'
  BY <1>4, QuietPayments
<1>6. ProcsKnow'
  <2>1. ASSUME NEW v \in Procs PROVE Knows(procs[v])'
    <3>1. PICK s : s = procs[v]
      OBVIOUS
    <3>2. Knows(s)
      BY <1>1, <3>1, AllKnow
    <3>3. Knows(s)' /\ procs'[v] = s
      BY <1>1, <1>5, <3>1, <3>2, KnowledgeStays
    <3> QED BY <3>3 DEF Knows
  <2> QED BY <2>1 DEF ProcsKnow, Knows, Fact
<1> QED BY <1>4, <1>5, <1>6 DEF PayInv, PaymentsInv

(***************************************************************************)
(* A lease runs out.                                                       *)
(***************************************************************************)
LEMMA LeaseRunsOutInv ==
  ASSUME PayInv, NEW e \in DOMAIN inbox, LeaseRunsOut(e)
  PROVE  PayInv'
<1>1. PaymentsTypeOK /\ inbox[e] \in InboxRows
  BY InboxFields DEF PayInv, PaymentsInv
<1>2. PICK row : row = [inbox[e] EXCEPT !.expired = TRUE]
  OBVIOUS
<1>3. /\ row \in InboxRows /\ row.fact = inbox[e].fact
      /\ row.status = inbox[e].status
  BY <1>1, <1>2 DEF InboxRows
<1>4. /\ UNCHANGED <<vars, purchases, procs, kind, reported, deliveries, faults, stale>>
      /\ inbox' = [inbox EXCEPT ![e] = row]
  BY <1>1, <1>2 DEF LeaseRunsOut, PaymentsTypeOK
<1>5. /\ DOMAIN inbox' = DOMAIN inbox /\ inbox'[e] = row
      /\ \A d \in DOMAIN inbox : d # e => inbox'[d] = inbox[d]
      /\ inbox' \in [DOMAIN inbox' -> InboxRows']
  BY <1>1, <1>3, <1>4, InboxMoves
<1>6. InboxGoesOn
  BY <1>3, <1>5 DEF InboxGoesOn
<1>7. \A d \in DOMAIN inbox : inbox'[d] \in InboxRows
  BY <1>1, <1>3, <1>5, InboxFields
<1> QED BY <1>4, <1>5, <1>6, <1>7, NobodyMoves

-----------------------------------------------------------------------------
(***************************************************************************)
(* The steps that write purchases or the ledger.                           *)
(***************************************************************************)

(***************************************************************************)
(* A purchase is created: no event can have named it yet.                  *)
(***************************************************************************)
LEMMA CreatePurchaseInv ==
  ASSUME PayInv, NEW i \in PurchaseIds, NEW provider \in Providers, NEW u \in Users,
         NEW sku \in DOMAIN Catalog, CreatePurchase(i, provider, u, sku)
  PROVE  PayInv'
<1>1. TypeOK /\ AccountingInv /\ KeysPayOnce /\ PaymentsTypeOK /\ ProcsKnow
  BY DEF PayInv, PaymentsInv
<1>2. PICK row : row = [id |-> i, provider |-> provider, user |-> u,
                        credits |-> Catalog[sku].credits,
                        amount |-> Catalog[sku].amount,
                        payment |-> NULL, status |-> "pending", reversed |-> 0]
  OBVIOUS
<1>3. /\ row \in PurchaseRows /\ row.id = i /\ row.reversed = 0
      /\ row.credits \in Nat \ {0}
  BY <1>2, PaymentsAssumption DEF PurchaseRows
<1>4. /\ UNCHANGED <<vars, inbox, procs, kind, reported, deliveries, faults, stale>>
      /\ i \notin DOMAIN purchases
      /\ purchases' = [j \in DOMAIN purchases \cup {i} |-> IF j = i THEN row ELSE purchases[j]]
  BY <1>2 DEF CreatePurchase
<1>5. /\ DOMAIN purchases' = DOMAIN purchases \cup {i} /\ purchases'[i] = row
      /\ \A j \in DOMAIN purchases : purchases'[j] = purchases[j]
  BY <1>4
<1>6. PurchaseRows' = PurchaseRows /\ InboxRows' = InboxRows /\ ProcRows' = ProcRows
  BY <1>4 DEF PurchaseRows, InboxRows, ProcRows
<1>7. PaymentsTypeOK'
  <2>1. purchases' \in [DOMAIN purchases' -> PurchaseRows]
    BY <1>1, <1>3, <1>4 DEF PaymentsTypeOK
  <2>2. \A j \in DOMAIN purchases' :
           purchases'[j].id = j /\ purchases'[j].reversed <= purchases'[j].credits
    BY <1>1, <1>3, <1>5 DEF PaymentsTypeOK
  <2> QED BY <1>1, <1>4, <1>6, <2>1, <2>2 DEF PaymentsTypeOK
<1>8. TypeOK' /\ AccountingInv' /\ KeysPayOnce'
  BY <1>1, <1>4, TypeNext, AccountingNext, KeysNext
<1>9. TablesKeep
  BY <1>4, <1>5 DEF TablesKeep
<1>10. \A j \in DOMAIN purchases : ReversedFor(j) \in Int /\ ReversedFor(j)' = ReversedFor(j)
  BY <1>4, <1>7, <1>9, ReversedStays
<1>11. ledger' = ledger /\ UsedKeys' = UsedKeys /\ Received' = Received
  BY <1>4 DEF vars, UsedKeys, Received
<1>12. Forward
  BY <1>4, <1>9, <1>10, <1>11 DEF Forward
<1>13. ReversedFor(i)' = 0
  <2>1. ReceivedFor(i)' = {}
    BY <1>4, <1>11 DEF ReceivedFor, Received, PayInv, PaymentsInv, EventsKnow
  <2>2. KeySum(ledger', {}) = 0
    BY <1>8, KeySumNone DEF TypeOK
  <2>3. {ReversalKey(f) : f \in ReceivedFor(i)'} = {}
    BY <2>1
  <2> QED BY <2>2, <2>3 DEF ReversedFor
<1>14. RecordedIsTaken'
  <2> SUFFICES ASSUME NEW j \in DOMAIN purchases'
               PROVE  /\ purchases'[j].reversed <= ReversedFor(j)'
                      /\ kind' = "service" /\ ~stale' => ReversedFor(j)' = purchases'[j].reversed
    BY DEF RecordedIsTaken
  <2>1. CASE j = i
    BY <1>3, <1>5, <1>13, <2>1
  <2>2. CASE j \in DOMAIN purchases
    BY <1>4, <1>5, <1>10, <2>2 DEF PayInv, PaymentsInv, RecordedIsTaken
  <2> QED BY <1>5, <2>1, <2>2
<1>15. RowsAreBooked'
  <2>1. RowsAreBooked
    BY DEF PayInv, PaymentsInv
  <2> QED BY <1>5, <1>11, <2>1 DEF RowsAreBooked
<1>16. EventsKnow'
  <2> SUFFICES ASSUME NEW e \in DOMAIN inbox', NEW f, f = inbox'[e].fact
               PROVE  /\ f.purchase \in PurchaseIds => f.purchase \in DOMAIN purchases'
                      /\ inbox'[e].status = "applied" => IsBooked(f)'
                      /\ f.status # "paid" /\ ReversalKey(f) \in UsedKeys' => IsBooked(f)'
    BY DEF EventsKnow
  <2>1. e \in DOMAIN inbox /\ f = inbox[e].fact /\ f \in Facts /\ inbox' = inbox
    BY <1>1, <1>4, InboxFields
  <2>2. /\ f.purchase \in PurchaseIds => f.purchase \in DOMAIN purchases
        /\ inbox[e].status = "applied" => IsBooked(f)
        /\ f.status # "paid" /\ ReversalKey(f) \in UsedKeys => IsBooked(f)
    BY <2>1 DEF PayInv, PaymentsInv, EventsKnow
  <2>3. IsBooked(f) => IsBooked(f)'
    BY <1>1, <1>12, <2>1, BookedStays
  <2> QED BY <1>5, <1>11, <2>1, <2>2, <2>3
<1>17. ProcsKnow'
  <2>1. ASSUME NEW v \in Procs PROVE Knows(procs[v])'
    <3>1. PICK s : s = procs[v]
      OBVIOUS
    <3>2. Knows(s)
      BY <1>1, <3>1, AllKnow
    <3>3. Knows(s)' /\ procs'[v] = s
      BY <1>1, <1>4, <1>12, <3>1, <3>2, KnowledgeStays
    <3> QED BY <3>3 DEF Knows
  <2> QED BY <2>1 DEF ProcsKnow, Knows, Fact
<1> QED BY <1>7, <1>8, <1>14, <1>15, <1>16, <1>17 DEF PayInv, PaymentsInv

(***************************************************************************)
(* What the ledger's part of an event does, whether it is booked now or    *)
(* was before.                                                             *)
(***************************************************************************)
LedgerStep(p, f) ==
  /\ TypeOK' /\ AccountingInv' /\ KeysPayOnce'
  /\ UsedKeys \subseteq UsedKeys' /\ UsedKeys' \subseteq UsedKeys \cup {BookKey(f)}
  /\ f.status = "paid" => PaymentKey(f) \in UsedKeys'
  /\ \A k \in DOMAIN ledger' : \/ k \in DOMAIN ledger /\ ledger'[k] = ledger[k]
                               \/ IsRow(ledger'[k], p, f)
  /\ \A j \in DOMAIN purchases : \A K : K = KeysFor(j) =>
        /\ Taken(K) = ReversedFor(j) /\ Taken(K) \in Int /\ Taken(K)' \in Int
        /\ Taken(K) <= Taken(K)'
        /\ j # f.purchase \/ f.status = "paid" => Taken(K)' = Taken(K)
        /\ j = f.purchase /\ f.status # "paid" =>
              /\ Taken(K)' >= target(p, f)
              /\ p.reversed = ReversedFor(j) => Taken(K)' = NewReversed(p, f)

(***************************************************************************)
(* It does that.                                                           *)
(***************************************************************************)
LEMMA LedgerSteps ==
  ASSUME PayInv, NEW e \in DOMAIN inbox, NEW f, f = inbox[e].fact,
         NEW p, IsReadFor(p, f),
         Book(p, f) \/ (IsBooked(f) /\ UNCHANGED vars)
  PROVE  LedgerStep(p, f)
<1>1. CASE Book(p, f)
  <2>1. /\ TypeOK' /\ AccountingInv' /\ KeysPayOnce'
        /\ UsedKeys \subseteq UsedKeys' /\ UsedKeys' \subseteq UsedKeys \cup {BookKey(f)}
        /\ f.status = "paid" => PaymentKey(f) \in UsedKeys'
        /\ \A k \in DOMAIN ledger' : \/ k \in DOMAIN ledger /\ ledger'[k] = ledger[k]
                                     \/ IsRow(ledger'[k], p, f)
    BY <1>1, BookWrites
  <2>2. ASSUME NEW j \in DOMAIN purchases, NEW K, K = KeysFor(j)
        PROVE  /\ Taken(K) = ReversedFor(j) /\ Taken(K) \in Int /\ Taken(K)' \in Int
               /\ Taken(K) <= Taken(K)'
               /\ j # f.purchase \/ f.status = "paid" => Taken(K)' = Taken(K)
               /\ j = f.purchase /\ f.status # "paid" =>
                     /\ Taken(K)' >= target(p, f)
                     /\ p.reversed = ReversedFor(j) => Taken(K)' = NewReversed(p, f)
    BY <1>1, <2>2, BookTakes
  <2> QED BY <2>1, <2>2 DEF LedgerStep
<1>2. CASE IsBooked(f) /\ UNCHANGED vars
  <2>1. TypeOK /\ AccountingInv /\ KeysPayOnce /\ PaymentsTypeOK /\ f \in Facts
    BY InboxFields DEF PayInv, PaymentsInv
  <2>2. TypeOK' /\ AccountingInv' /\ KeysPayOnce'
    BY <1>2, <2>1, TypeNext, AccountingNext, KeysNext
  <2>3. ledger' = ledger /\ UsedKeys' = UsedKeys
    BY <1>2 DEF vars, UsedKeys
  <2>4. f.status = "paid" => PaymentKey(f) \in UsedKeys
    BY <1>2 DEF IsBooked
  <2>5. ASSUME NEW j \in DOMAIN purchases, NEW K, K = KeysFor(j)
        PROVE  /\ Taken(K) = ReversedFor(j) /\ Taken(K) \in Int /\ Taken(K)' = Taken(K)
               /\ j = f.purchase /\ f.status # "paid" =>
                     /\ Taken(K) >= target(p, f)
                     /\ p.reversed = ReversedFor(j) => Taken(K) = NewReversed(p, f)
    <3>1. Taken(K) = ReversedFor(j) /\ Taken(K) \in Int
      BY <2>1, <2>5, ReversedIsInt DEF Taken, ReversedFor, KeysFor
    <3>2. Taken(K)' = Taken(K)
      BY <2>3 DEF Taken
    <3>3. j = f.purchase /\ f.status # "paid" => Taken(K) >= target(p, f)
      <4>1. target(p, f) = target(purchases[f.purchase], f)
        BY TargetSame DEF IsReadFor
      <4> QED BY <1>2, <3>1, <4>1 DEF IsBooked
    <3>4. /\ p.reversed \in Nat /\ target(p, f) \in Nat
          /\ NewReversed(p, f) = IF target(p, f) > p.reversed THEN target(p, f) ELSE p.reversed
      BY <2>1, ReadFields
    <3> QED BY <3>1, <3>2, <3>3, <3>4
  <2>6. \A j \in DOMAIN purchases : \A K : K = KeysFor(j) =>
        /\ Taken(K) = ReversedFor(j) /\ Taken(K) \in Int /\ Taken(K)' \in Int
        /\ Taken(K) <= Taken(K)'
        /\ j # f.purchase \/ f.status = "paid" => Taken(K)' = Taken(K)
        /\ j = f.purchase /\ f.status # "paid" =>
              /\ Taken(K)' >= target(p, f)
              /\ p.reversed = ReversedFor(j) => Taken(K)' = NewReversed(p, f)
    BY <2>5
  <2> QED BY <2>2, <2>3, <2>4, <2>6 DEF LedgerStep
<1> QED BY <1>1, <1>2

(***************************************************************************)
(* What it does to what the tables say, when the tables keep their rows    *)
(* and no other event becomes applied.                                     *)
(***************************************************************************)
LEMMA AfterBooking ==
  ASSUME PayInv, NEW e \in DOMAIN inbox, NEW f, f = inbox[e].fact,
         NEW p, IsReadFor(p, f), LedgerStep(p, f), TablesKeep, PaymentsTypeOK',
         DOMAIN inbox' = DOMAIN inbox, kind' = kind,
         \A d \in DOMAIN inbox :
            inbox'[d].status = "applied" => inbox[d].status = "applied" \/ d = e
  PROVE  /\ Forward /\ IsBooked(f)' /\ EventsKnow' /\ RowsAreBooked'
         /\ \A j \in DOMAIN purchases :
               /\ ReversedFor(j) \in Int /\ ReversedFor(j)' \in Int
               /\ j # f.purchase \/ f.status = "paid" => ReversedFor(j)' = ReversedFor(j)
               /\ j = f.purchase /\ f.status # "paid" =>
                     /\ ReversedFor(j)' >= target(p, f)
                     /\ p.reversed = ReversedFor(j) => ReversedFor(j)' = NewReversed(p, f)
<1>1. PaymentsTypeOK /\ f \in Facts
  BY InboxFields DEF PayInv, PaymentsInv
<1>2. ASSUME NEW j \in DOMAIN purchases
      PROVE  /\ ReversedFor(j) \in Int /\ ReversedFor(j)' \in Int
             /\ ReversedFor(j) <= ReversedFor(j)'
             /\ j # f.purchase \/ f.status = "paid" => ReversedFor(j)' = ReversedFor(j)
             /\ j = f.purchase /\ f.status # "paid" =>
                   /\ ReversedFor(j)' >= target(p, f)
                   /\ p.reversed = ReversedFor(j) => ReversedFor(j)' = NewReversed(p, f)
  <2>1. PICK K : K = KeysFor(j)
    OBVIOUS
  <2>2. K = KeysFor(j)'
    BY <2>1, ReceivedStays
  <2>3. ReversedFor(j)' = Taken(K)'
    BY <2>2 DEF ReversedFor, Taken, KeysFor
  <2> QED BY <2>1, <2>3 DEF LedgerStep
<1>3. Forward
  BY <1>2 DEF Forward, LedgerStep
<1>4. IsBooked(f)'
  <2>1. PICK i, q : i = f.purchase /\ q = purchases'[i]
    OBVIOUS
  <2>2. /\ i \in DOMAIN purchases /\ i \in DOMAIN purchases' /\ q.provider = f.provider
        /\ q.credits = p.credits /\ q.amount = p.amount
    BY <2>1 DEF IsReadFor, TablesKeep
  <2>3. target(q, f) = target(p, f)
    BY <2>2, TargetSame
  <2>4. CASE f.status = "paid"
    BY <2>1, <2>2, <2>4 DEF IsBooked, LedgerStep
  <2>5. CASE f.status # "paid"
    BY <1>2, <2>1, <2>2, <2>3, <2>5 DEF IsBooked
  <2> QED BY <2>4, <2>5
<1>5. EventsKnow'
  <2> SUFFICES ASSUME NEW d \in DOMAIN inbox', NEW g, g = inbox'[d].fact
               PROVE  /\ g.purchase \in PurchaseIds => g.purchase \in DOMAIN purchases'
                      /\ inbox'[d].status = "applied" => IsBooked(g)'
                      /\ g.status # "paid" /\ ReversalKey(g) \in UsedKeys' => IsBooked(g)'
    BY DEF EventsKnow
  <2>1. d \in DOMAIN inbox /\ g = inbox[d].fact /\ g \in Facts
    BY <1>1, InboxFields DEF TablesKeep
  <2>2. /\ g.purchase \in PurchaseIds => g.purchase \in DOMAIN purchases
        /\ inbox[d].status = "applied" => IsBooked(g)
        /\ g.status # "paid" /\ ReversalKey(g) \in UsedKeys => IsBooked(g)
    BY <2>1 DEF PayInv, PaymentsInv, EventsKnow
  <2>3. IsBooked(g) => IsBooked(g)'
    BY <1>1, <1>3, <2>1, BookedStays
  <2>4. d = e => g = f
    BY <2>1
  <2>5. ReversalKey(g) \in UsedKeys' => ReversalKey(g) \in UsedKeys \/ g = f
    <3>1. ReversalKey(g) = BookKey(f) => g = f
      <4>1. ReversalKey(g) = BookKey(f) => EventId(g) = EventId(f)
        BY PaymentKeysDiffer DEF BookKey
      <4>2. EventId(g) = d /\ EventId(f) = e
        BY <1>1, <2>1, InboxFields
      <4> QED BY <2>4, <4>1, <4>2
    <3> QED BY <3>1 DEF LedgerStep
  <2>6. inbox'[d].status = "applied" => inbox[d].status = "applied" \/ d = e
    BY <2>1
  <2>7. g.purchase \in DOMAIN purchases => g.purchase \in DOMAIN purchases'
    BY DEF TablesKeep
  <2> QED BY <1>4, <2>2, <2>3, <2>4, <2>5, <2>6, <2>7
<1>6. RowsAreBooked'
  <2> SUFFICES ASSUME NEW k \in DOMAIN ledger'
               PROVE  \E g \in Received' :
                        /\ g.purchase \in DOMAIN purchases'
                        /\ purchases'[g.purchase].provider = g.provider
                        /\ ledger'[k].user = purchases'[g.purchase].user
                        /\ IF g.status = "paid"
                           THEN /\ ledger'[k].key = PaymentKey(g)
                                /\ ledger'[k].amount = purchases'[g.purchase].credits
                           ELSE ledger'[k].key = ReversalKey(g) /\ ledger'[k].amount < 0
    BY DEF RowsAreBooked
  <2>1. Received \subseteq Received'
    BY DEF Received, TablesKeep
  <2>2. CASE k \in DOMAIN ledger /\ ledger'[k] = ledger[k]
    <3>1. PICK g \in Received :
            /\ g.purchase \in DOMAIN purchases
            /\ purchases[g.purchase].provider = g.provider
            /\ ledger[k].user = purchases[g.purchase].user
            /\ IF g.status = "paid"
               THEN /\ ledger[k].key = PaymentKey(g)
                    /\ ledger[k].amount = purchases[g.purchase].credits
               ELSE ledger[k].key = ReversalKey(g) /\ ledger[k].amount < 0
      BY <2>2 DEF PayInv, PaymentsInv, RowsAreBooked
    <3>2. /\ g \in Received' /\ g.purchase \in DOMAIN purchases'
          /\ purchases'[g.purchase].provider = g.provider
          /\ purchases'[g.purchase].user = purchases[g.purchase].user
          /\ purchases'[g.purchase].credits = purchases[g.purchase].credits
      BY <2>1, <3>1 DEF TablesKeep
    <3> QED BY <2>2, <3>1, <3>2
  <2>3. CASE IsRow(ledger'[k], p, f)
    <3>1. f \in Received'
      BY <2>1 DEF Received
    <3>2. /\ f.purchase \in DOMAIN purchases' /\ purchases'[f.purchase].provider = f.provider
          /\ purchases'[f.purchase].user = p.user
          /\ purchases'[f.purchase].credits = p.credits
      BY DEF IsReadFor, TablesKeep
    <3>3. f.status # "paid" => ledger'[k].amount < 0
      <4>1. reversal(p, f) \in Int
        BY <1>1, ReadFields
      <4> QED BY <2>3, <4>1 DEF IsRow
    <3> QED BY <2>3, <3>1, <3>2, <3>3 DEF IsRow, BookKey
  <2> QED BY <2>2, <2>3 DEF LedgerStep
<1> QED BY <1>2, <1>3, <1>4, <1>5, <1>6

(***************************************************************************)
(* With another ledger the booking comes first: the process then knows     *)
(* that the event is booked.                                               *)
(***************************************************************************)
LEMMA BookFirstInv ==
  ASSUME PayInv, NEW w \in Procs, BookFirst(w)
  PROVE  PayInv'
<1>1. /\ PaymentsTypeOK /\ ProcsKnow /\ procs[w] \in ProcRows /\ Knows(procs[w])
      /\ procs[w].pc = "book" /\ kind = "other"
      /\ UNCHANGED <<purchases, inbox, kind, reported, deliveries, faults, stale>>
  BY ProcFields, AllKnow DEF PayInv, PaymentsInv, BookFirst
<1>2. PICK e, f, p : e = procs[w].event /\ f = inbox[e].fact /\ p = procs[w].read
  OBVIOUS
<1>3. e \in DOMAIN inbox /\ IsReadFor(p, f) /\ Book(p, f)
  BY <1>1, <1>2 DEF Knows, BookFirst, Fact
<1>4. LedgerStep(p, f)
  BY <1>2, <1>3, LedgerSteps
<1>5. PICK r : r = [procs[w] EXCEPT !.pc = "record"]
  OBVIOUS
<1>6. /\ r \in ProcRows /\ r.pc = "record" /\ r.event = e /\ r.read = p
      /\ r.batch = procs[w].batch /\ procs' = [procs EXCEPT ![w] = r]
  BY <1>1, <1>2, <1>5 DEF ProcRows, BookFirst, PaymentsTypeOK
<1>7. /\ procs' \in [Procs -> ProcRows] /\ procs'[w] = r
      /\ \A v \in Procs : v # w => procs'[v] = procs[v]
  BY <1>1, <1>6, ProcMoves
<1>8. PaymentsTypeOK'
  BY <1>1, <1>7 DEF PaymentsTypeOK, PurchaseRows, InboxRows, ProcRows
<1>9. TablesKeep
  BY <1>1 DEF TablesKeep
<1>10. /\ Forward /\ IsBooked(f)' /\ EventsKnow' /\ RowsAreBooked'
       /\ \A j \in DOMAIN purchases : ReversedFor(j) \in Int /\ ReversedFor(j)' \in Int
  BY <1>1, <1>2, <1>3, <1>4, <1>8, <1>9, AfterBooking
<1>11. RecordedIsTaken'
  <2> SUFFICES ASSUME NEW j \in DOMAIN purchases'
               PROVE  purchases'[j].reversed <= ReversedFor(j)'
    BY <1>1 DEF RecordedIsTaken
  <2>1. j \in DOMAIN purchases /\ purchases'[j].reversed = purchases[j].reversed
    BY <1>1
  <2>2. purchases[j].reversed \in Int /\ purchases[j].reversed <= ReversedFor(j)
    BY <1>1, <2>1, PurchaseFields DEF PayInv, PaymentsInv, RecordedIsTaken
  <2>3. ReversedFor(j) <= ReversedFor(j)'
    BY <1>10, <2>1 DEF Forward
  <2> QED BY <1>10, <2>1, <2>2, <2>3
<1>12. Knows(r)'
  <2>1. IsReadFor(p, f)'
    BY <1>3, <1>10, ReadStays
  <2>2. /\ r.batch \subseteq DOMAIN inbox' /\ e \in DOMAIN inbox' /\ inbox'[e].fact = f
        /\ kind' # "service"
    BY <1>1, <1>2, <1>3, <1>6 DEF Knows
  <2> QED BY <1>6, <1>10, <2>1, <2>2 DEF Knows
<1>13. ProcsKnow'
  BY <1>1, <1>7, <1>10, <1>12, ProcsGoOn
<1> QED BY <1>4, <1>8, <1>10, <1>11, <1>13 DEF PayInv, PaymentsInv, LedgerStep

(***************************************************************************)
(* The UPDATEs of the purchase and of the event.                           *)
(***************************************************************************)
LEMMA RecordWrites ==
  ASSUME PayInv, NEW w \in Procs, NEW e \in DOMAIN inbox, NEW f, f = inbox[e].fact,
         NEW p, IsReadFor(p, f), Record(w, p, f)
  PROVE  /\ PaymentsTypeOK' /\ TablesKeep
         /\ DOMAIN inbox' = DOMAIN inbox /\ DOMAIN purchases' = DOMAIN purchases
         /\ \A d \in DOMAIN inbox :
               inbox'[d].status = "applied" => inbox[d].status = "applied" \/ d = e
         /\ \A j \in DOMAIN purchases :
               purchases'[j].reversed = IF j = f.purchase /\ f.status # "paid"
                                        THEN NewReversed(p, f) ELSE purchases[j].reversed
         /\ procs'[w] = Continue(w, procs[w].batch)
         /\ \A v \in Procs : v # w => procs'[v] = procs[v]
<1>1. PaymentsTypeOK /\ f \in Facts /\ EventId(f) = e /\ inbox[e] \in InboxRows
  BY InboxFields DEF PayInv, PaymentsInv
<1>2. PICK i : i = f.purchase
  OBVIOUS
<1>3. /\ i \in DOMAIN purchases /\ p.id = i /\ p.credits = purchases[i].credits
  BY <1>2 DEF IsReadFor
<1>4. /\ purchases[i] \in PurchaseRows /\ purchases[i].id = i
      /\ purchases[i].reversed \in Nat /\ purchases[i].reversed <= purchases[i].credits
  BY <1>1, <1>3, PurchaseFields
<1>5. PICK n : n = IF f.status = "paid" THEN purchases[i].reversed ELSE NewReversed(p, f)
  OBVIOUS
<1>6. n \in Nat /\ n <= purchases[i].credits
  <2>1. NewReversed(p, f) \in Nat /\ NewReversed(p, f) <= p.credits
    BY <1>1, ReadFields
  <2> QED BY <1>3, <1>4, <1>5, <2>1
<1>7. PICK row : row = [purchases[i] EXCEPT !.payment = f.payment, !.status = f.status,
                                            !.reversed = n]
  OBVIOUS
<1>8. /\ row \in PurchaseRows /\ row.id = i /\ row.reversed = n
      /\ row.provider = purchases[i].provider /\ row.user = purchases[i].user
      /\ row.credits = purchases[i].credits /\ row.amount = purchases[i].amount
  <2>1. f.status \in {"paid", "refunded", "disputed"}
    BY <1>1, PaymentsAssumption
  <2> QED BY <1>1, <1>4, <1>6, <1>7, <2>1 DEF PurchaseRows
<1>9. purchases' = [purchases EXCEPT ![i] = row]
  BY <1>3, <1>5, <1>7 DEF Record
<1>10. /\ DOMAIN purchases' = DOMAIN purchases /\ purchases'[i] = row
       /\ \A j \in DOMAIN purchases : j # i => purchases'[j] = purchases[j]
       /\ purchases' \in [DOMAIN purchases -> PurchaseRows]
  BY <1>1, <1>3, <1>8, <1>9 DEF PaymentsTypeOK
<1>11. PICK ev : ev = [inbox[e] EXCEPT !.status = "applied", !.expired = FALSE]
  OBVIOUS
<1>12. ev \in InboxRows /\ ev.fact = inbox[e].fact
  BY <1>1, <1>11 DEF InboxRows
<1>13. inbox' = [inbox EXCEPT ![e] = ev] /\ UNCHANGED <<kind, reported, deliveries, faults>>
  BY <1>1, <1>11 DEF Record
<1>14. /\ DOMAIN inbox' = DOMAIN inbox /\ inbox'[e] = ev
       /\ \A d \in DOMAIN inbox : d # e => inbox'[d] = inbox[d]
       /\ inbox' \in [DOMAIN inbox' -> InboxRows']
       /\ \A d \in DOMAIN inbox' : EventId(inbox'[d].fact) = d
  BY <1>1, <1>12, <1>13, InboxMoves
<1>15. PICK r : r = Continue(w, procs[w].batch)
  OBVIOUS
<1>16. r \in ProcRows /\ procs' = [procs EXCEPT ![w] = r]
  BY <1>1, <1>15, ProcFields, ReadyFields DEF Record
<1>17. /\ procs' \in [Procs -> ProcRows] /\ procs'[w] = r
       /\ \A v \in Procs : v # w => procs'[v] = procs[v]
  BY <1>1, <1>16, ProcMoves
<1>18. PaymentsTypeOK'
  <2>1. PurchaseRows' = PurchaseRows /\ ProcRows' = ProcRows
    BY DEF PurchaseRows, ProcRows
  <2>2. \A j \in DOMAIN purchases' :
           purchases'[j].id = j /\ purchases'[j].reversed <= purchases'[j].credits
    BY <1>1, <1>6, <1>8, <1>10 DEF PaymentsTypeOK
  <2> QED BY <1>1, <1>10, <1>13, <1>14, <1>17, <2>1, <2>2 DEF PaymentsTypeOK
<1>19. TablesKeep
  BY <1>4, <1>8, <1>10, <1>12, <1>14 DEF TablesKeep
<1>20. \A j \in DOMAIN purchases :
          purchases'[j].reversed = IF j = f.purchase /\ f.status # "paid"
                                   THEN NewReversed(p, f) ELSE purchases[j].reversed
  BY <1>2, <1>5, <1>8, <1>10
<1> QED BY <1>10, <1>14, <1>15, <1>17, <1>18, <1>19, <1>20

(***************************************************************************)
(* An event is recorded, once it is booked: in the same transaction, or    *)
(* after it.                                                               *)
(***************************************************************************)
LEMMA RecordInv ==
  ASSUME PayInv, NEW w \in Procs, NEW e \in DOMAIN inbox, NEW f, f = inbox[e].fact,
         NEW p, IsReadFor(p, f), Record(w, p, f), LedgerStep(p, f)
  PROVE  PayInv'
<1>1. PaymentsTypeOK /\ ProcsKnow /\ Knows(procs[w]) /\ f \in Facts
  BY AllKnow, InboxFields DEF PayInv, PaymentsInv
<1>2. /\ PaymentsTypeOK' /\ TablesKeep
      /\ DOMAIN inbox' = DOMAIN inbox /\ DOMAIN purchases' = DOMAIN purchases
      /\ \A d \in DOMAIN inbox :
            inbox'[d].status = "applied" => inbox[d].status = "applied" \/ d = e
      /\ \A j \in DOMAIN purchases :
            purchases'[j].reversed = IF j = f.purchase /\ f.status # "paid"
                                     THEN NewReversed(p, f) ELSE purchases[j].reversed
      /\ procs'[w] = Continue(w, procs[w].batch)
      /\ \A v \in Procs : v # w => procs'[v] = procs[v]
  BY RecordWrites
<1>3. kind' = kind /\ stale' = (stale \/ p.reversed # purchases[f.purchase].reversed)
  BY DEF Record, IsReadFor
<1>4. /\ Forward /\ EventsKnow' /\ RowsAreBooked'
      /\ \A j \in DOMAIN purchases :
            /\ ReversedFor(j) \in Int /\ ReversedFor(j)' \in Int
            /\ j # f.purchase \/ f.status = "paid" => ReversedFor(j)' = ReversedFor(j)
            /\ j = f.purchase /\ f.status # "paid" =>
                  /\ ReversedFor(j)' >= target(p, f)
                  /\ p.reversed = ReversedFor(j) => ReversedFor(j)' = NewReversed(p, f)
  BY <1>2, <1>3, AfterBooking
<1>5. RecordedIsTaken'
  <2> SUFFICES ASSUME NEW j \in DOMAIN purchases'
               PROVE  /\ purchases'[j].reversed <= ReversedFor(j)'
                      /\ kind' = "service" /\ ~stale' => ReversedFor(j)' = purchases'[j].reversed
    BY DEF RecordedIsTaken
  <2>1. j \in DOMAIN purchases
    BY <1>2
  <2>2. PICK n, m : n = ReversedFor(j) /\ m = ReversedFor(j)'
    OBVIOUS
  <2>3. /\ n \in Int /\ m \in Int /\ n <= m
        /\ purchases[j].reversed \in Int /\ purchases[j].reversed <= n
        /\ kind = "service" /\ ~stale => n = purchases[j].reversed
    BY <1>1, <1>4, <2>1, <2>2, PurchaseFields DEF PayInv, PaymentsInv, RecordedIsTaken, Forward
  <2>4. CASE j # f.purchase \/ f.status = "paid"
    <3>1. m = n /\ purchases'[j].reversed = purchases[j].reversed
      BY <1>2, <1>4, <2>1, <2>2, <2>4
    <3> QED BY <1>3, <2>2, <2>3, <3>1
  <2>5. CASE j = f.purchase /\ f.status # "paid"
    <3>1. /\ purchases'[j].reversed = NewReversed(p, f) /\ m >= target(p, f)
          /\ p.reversed = n => m = NewReversed(p, f)
      BY <1>2, <1>4, <2>1, <2>2, <2>5
    <3>2. /\ p.reversed \in Nat /\ target(p, f) \in Nat
          /\ NewReversed(p, f) = IF target(p, f) > p.reversed THEN target(p, f) ELSE p.reversed
      BY <1>1, ReadFields
    <3>3. p.reversed <= n
      BY <2>2, <2>5 DEF IsReadFor
    <3>4. NewReversed(p, f) <= m
      BY <2>3, <3>1, <3>2, <3>3
    <3>5. kind' = "service" /\ ~stale' => n = p.reversed
      BY <1>3, <2>3, <2>5
    <3> QED BY <2>2, <3>1, <3>4, <3>5
  <2> QED BY <2>4, <2>5
<1>6. ProcsKnow'
  <2>1. PICK r : r = Continue(w, procs[w].batch)
    OBVIOUS
  <2>2. Knows(r)
    BY <1>1, <2>1, ProcFields, ReadyKnows DEF Knows
  <2>3. Knows(r)' /\ procs'[w] = r
    BY <1>1, <1>2, <1>4, <2>1, <2>2, KnowledgeStays
  <2> QED BY <1>1, <1>2, <1>4, <2>3, ProcsGoOn
<1> QED BY <1>2, <1>4, <1>5, <1>6 DEF PayInv, PaymentsInv, LedgerStep

(***************************************************************************)
(* Apply and RecordAfter.                                                  *)
(***************************************************************************)
LEMMA ApplyInv ==
  ASSUME PayInv, NEW w \in Procs, Apply(w) \/ RecordAfter(w)
  PROVE  PayInv'
<1>1. Knows(procs[w])
  BY AllKnow DEF PayInv, PaymentsInv
<1>2. PICK e, f, p : e = procs[w].event /\ f = inbox[e].fact /\ p = procs[w].read
  OBVIOUS
<1>3. CASE Apply(w)
  <2>1. e \in DOMAIN inbox /\ IsReadFor(p, f) /\ Book(p, f) /\ Record(w, p, f)
    BY <1>1, <1>2, <1>3 DEF Knows, Apply, Fact
  <2>2. LedgerStep(p, f)
    BY <1>2, <2>1, LedgerSteps
  <2> QED BY <1>2, <2>1, <2>2, RecordInv
<1>4. CASE RecordAfter(w)
  <2>1. /\ e \in DOMAIN inbox /\ IsReadFor(p, f) /\ IsBooked(f) /\ UNCHANGED vars
        /\ Record(w, p, f)
    BY <1>1, <1>2, <1>4 DEF Knows, RecordAfter, Fact
  <2>2. LedgerStep(p, f)
    BY <1>2, <2>1, LedgerSteps
  <2> QED BY <1>2, <2>1, <2>2, RecordInv
<1> QED BY <1>3, <1>4

-----------------------------------------------------------------------------
(***************************************************************************)
(* The initial state satisfies the invariant.                              *)
(***************************************************************************)
LEMMA PayInit == PaymentsInit => PayInv
<1> SUFFICES ASSUME PaymentsInit PROVE PayInv
  OBVIOUS
<1>1. TypeOK /\ AccountingInv
  BY TypeInit, AccountingInit DEF PaymentsInit
<1>2. DOMAIN purchases = {} /\ DOMAIN inbox = {} /\ ledger = << >> /\ DOMAIN ledger = {}
  BY DEF PaymentsInit, Init
<1>3. \A w \in Procs : procs[w] = Ready(w) /\ Ready(w) \in ProcRows
  <2>1. {} \in SUBSET EventIds
    OBVIOUS
  <2> QED BY <2>1, ReadyFields DEF PaymentsInit
<1>4. PaymentsTypeOK
  <2>1. procs \in [Procs -> ProcRows]
    BY <1>3 DEF PaymentsInit
  <2>2. deliveries \in 0 .. MaxDeliveries /\ faults \in 0 .. MaxFaults
    BY PaymentsAssumption DEF PaymentsInit
  <2>3. reported = {}
    BY DEF PaymentsInit
  <2>4. purchases \in [{} -> PurchaseRows] /\ inbox \in [{} -> InboxRows]
    BY DEF PaymentsInit
  <2> QED BY <1>2, <2>1, <2>2, <2>3, <2>4 DEF PaymentsTypeOK
<1>5. ProcsKnow
  <2>1. \A w \in Procs : Knows(procs[w])
    <3>1. {} \in SUBSET EventIds
      OBVIOUS
    <3> QED BY <1>3, <3>1, ReadyKnows
  <2> QED BY <2>1, AllKnow
<1>6. KeysPayOnce /\ EventsKnow /\ RowsAreBooked /\ RecordedIsTaken
  BY <1>2 DEF KeysPayOnce, EventsKnow, RowsAreBooked, RecordedIsTaken
<1> QED BY <1>1, <1>4, <1>5, <1>6 DEF PayInv, PaymentsInv

(***************************************************************************)
(* Every step keeps it.                                                    *)
(***************************************************************************)
LEMMA PayNext == PayInv /\ [PaymentsNext]_allVars => PayInv'
<1> SUFFICES ASSUME PayInv, [PaymentsNext]_allVars PROVE PayInv'
  OBVIOUS
<1>1. PaymentsTypeOK
  BY DEF PayInv, PaymentsInv
<1>2. ASSUME NEW w \in Procs, RecordConflict(w) PROVE PayInv'
  <2>1. PICK r : r = Returned(w)
    OBVIOUS
  <2>2. /\ procs' = [procs EXCEPT ![w] = r]
        /\ UNCHANGED <<vars, purchases, inbox, kind, deliveries, stale>>
        /\ reported' \subseteq DOMAIN inbox /\ faults' \in 0 .. MaxFaults
    BY <1>1, <1>2, <2>1 DEF RecordConflict, PaymentsTypeOK
  <2> QED BY <2>1, <2>2, ReturnInv
<1>3. ASSUME NEW w \in Procs, CheckDeadLetter(w) PROVE PayInv'
  <2>1. PICK r : r = Ready(w)
    OBVIOUS
  <2>2. /\ procs' = [procs EXCEPT ![w] = r]
        /\ UNCHANGED <<vars, purchases, inbox, kind, deliveries, stale>>
        /\ reported' \subseteq DOMAIN inbox /\ faults' \in 0 .. MaxFaults
    BY <1>1, <1>3, <2>1 DEF CheckDeadLetter, PaymentsTypeOK
  <2> QED BY <2>1, <2>2, ReturnInv
<1>4. ASSUME NEW w \in Procs, Crash(w) PROVE PayInv'
  <2>1. PICK r : r = Ready(w)
    OBVIOUS
  <2>2. /\ procs' = [procs EXCEPT ![w] = r]
        /\ UNCHANGED <<vars, purchases, inbox, kind, deliveries, stale>>
        /\ reported' \subseteq DOMAIN inbox
    BY <1>1, <1>4, <2>1 DEF Crash, PaymentsTypeOK
  <2>3. faults' \in 0 .. MaxFaults
    BY <1>1, <1>4, PaymentsAssumption DEF Crash, PaymentsTypeOK
  <2> QED BY <2>1, <2>2, <2>3, ReturnInv
<1>5. ASSUME NEW w \in Procs, Step(w) PROVE PayInv'
  BY <1>2, <1>3, <1>5, ExpireLeasesInv, ListPendingInv, ClaimInv, ReadPurchaseInv,
     ApplyInv, BookFirstInv, FailInv DEF Step
<1>6. CASE UNCHANGED allVars
  <2>1. UNCHANGED <<vars, purchases, inbox, procs, kind, reported, deliveries, faults, stale>>
    BY <1>6 DEF allVars, paymentVars
  <2>2. InboxGoesOn
    BY <2>1 DEF InboxGoesOn
  <2>3. \A e \in DOMAIN inbox : inbox'[e] \in InboxRows
    BY <1>1, <2>1, InboxFields
  <2>4. inbox' = [e \in DOMAIN inbox' |-> inbox'[e]]
    BY <1>1, <2>1 DEF PaymentsTypeOK
  <2> QED BY <2>1, <2>2, <2>3, <2>4, NobodyMoves
<1>7. CASE PaymentsNext
  BY <1>4, <1>5, <1>7, CreatePurchaseInv, ReceiveInv, BusyInv, LeaseRunsOutInv
     DEF PaymentsNext
<1> QED BY <1>6, <1>7

(***************************************************************************)
(* The invariant holds always.                                             *)
(***************************************************************************)
THEOREM PaymentsCorrect == PaymentsSpec => []PayInv
BY PayInit, PayNext, PTL DEF PaymentsSpec

(***************************************************************************)
(* The tables keep their shape, and no more of a purchase is recorded as   *)
(* taken back than it brought: whatever amounts events carry, and however  *)
(* old the reads are by which they are applied.                            *)
(***************************************************************************)
THEOREM PaymentsTypeCorrect == PaymentsSpec => []PaymentsTypeOK
<1>1. PayInv => PaymentsTypeOK
  BY DEF PayInv, PaymentsInv
<1> QED BY <1>1, PaymentsCorrect, PTL

(***************************************************************************)
(* A row under a payment's key is the grant of a purchase that the payment *)
(* was reported for.                                                       *)
(***************************************************************************)
LEMMA PaymentRows ==
  ASSUME PayInv, NEW k \in DOMAIN ledger, NEW f, ledger[k].key = PaymentKey(f)
  PROVE  \E g \in Received :
            /\ g.status = "paid" /\ g.purchase \in DOMAIN purchases
            /\ g.provider = f.provider /\ g.payment = f.payment
            /\ ledger[k].key = PaymentKey(g)
            /\ ledger[k].user = purchases[g.purchase].user
            /\ ledger[k].amount = purchases[g.purchase].credits
<1>1. PICK g \in Received :
         /\ g.purchase \in DOMAIN purchases
         /\ ledger[k].user = purchases[g.purchase].user
         /\ IF g.status = "paid"
            THEN /\ ledger[k].key = PaymentKey(g)
                 /\ ledger[k].amount = purchases[g.purchase].credits
            ELSE ledger[k].key = ReversalKey(g)
  BY DEF PayInv, PaymentsInv, RowsAreBooked
<1>2. g.status = "paid"
  BY <1>1, PaymentKeysDiffer
<1>3. g.provider = f.provider /\ g.payment = f.payment
  BY <1>1, <1>2, PaymentKeysDiffer
<1> QED BY <1>1, <1>2, <1>3

(***************************************************************************)
(* The invariant says that purchases are granted once.                     *)
(***************************************************************************)
LEMMA InvImpliesGrantOnce == PayInv => PurchasesGrantOnce
<1> SUFFICES ASSUME PayInv, NEW i \in DOMAIN purchases, NEW grants,
                    grants = {k \in DOMAIN ledger :
                                ledger[k].key \in {PaymentKey(f) : f \in ReceivedFor(i)}}
             PROVE  /\ (\A f, g \in ReceivedFor(i) : f.payment = g.payment)
                          => Cardinality(grants) <= 1
                    /\ \A k \in grants : \E f \in Received :
                          /\ f.status = "paid" /\ f.purchase \in DOMAIN purchases
                          /\ ledger[k].key = PaymentKey(f)
                          /\ ledger[k].user = purchases[f.purchase].user
                          /\ ledger[k].amount = purchases[f.purchase].credits
  BY DEF PurchasesGrantOnce
<1>1. ASSUME \A f, g \in ReceivedFor(i) : f.payment = g.payment
      PROVE  Cardinality(grants) <= 1
  <2>1. ASSUME NEW k \in grants, NEW m \in grants PROVE k = m
    <3>1. PICK f \in ReceivedFor(i) : ledger[k].key = PaymentKey(f)
      OBVIOUS
    <3>2. PICK g \in ReceivedFor(i) : ledger[m].key = PaymentKey(g)
      OBVIOUS
    <3>3. PaymentKey(f) = PaymentKey(g)
      BY <1>1, PaymentKeysDiffer DEF ReceivedFor
    <3>4. PaymentKey(f) # NULL
      BY PaymentKeysDiffer, InboxFields DEF ReceivedFor, Received, PayInv, PaymentsInv
    <3> QED BY <3>1, <3>2, <3>3, <3>4 DEF PayInv, PaymentsInv, KeysPayOnce
  <2> QED BY <2>1, AtMostOne
<1>2. ASSUME NEW k \in grants
      PROVE  \E f \in Received :
                /\ f.status = "paid" /\ f.purchase \in DOMAIN purchases
                /\ ledger[k].key = PaymentKey(f)
                /\ ledger[k].user = purchases[f.purchase].user
                /\ ledger[k].amount = purchases[f.purchase].credits
  <2>1. PICK f : ledger[k].key = PaymentKey(f) /\ k \in DOMAIN ledger
    OBVIOUS
  <2> QED BY <2>1, PaymentRows
<1> QED BY <1>1, <1>2

(***************************************************************************)
(* A purchase grants its credits once, and a payment brings the credits of *)
(* a purchase that it was reported for, for any deliveries, leases,        *)
(* retries and crashes.                                                    *)
(***************************************************************************)
THEOREM PurchaseIsGrantedOnce == PaymentsSpec => []PurchasesGrantOnce
BY PaymentsCorrect, InvImpliesGrantOnce, PTL

(***************************************************************************)
(* The invariant says that what is applied is in the ledger.               *)
(***************************************************************************)
LEMMA InvImpliesApplied == PayInv => AppliedIsBooked
<1> SUFFICES ASSUME PayInv, NEW e \in DOMAIN inbox, inbox[e].status = "applied",
                    NEW f, f = inbox[e].fact, NEW p, p = purchases[f.purchase]
             PROVE  /\ f.purchase \in DOMAIN purchases
                    /\ f.status # "paid" => ReversedFor(p.id) >= target(p, f)
                    /\ (/\ f.status = "paid"
                        /\ \A g \in Received : g.provider = f.provider /\ g.payment = f.payment
                                                  => g.purchase = f.purchase)
                       => \E k \in DOMAIN ledger :
                             /\ ledger[k].key = PaymentKey(f)
                             /\ ledger[k].user = p.user /\ ledger[k].amount = p.credits
  BY DEF AppliedIsBooked
<1>1. IsBooked(f) /\ PaymentsTypeOK
  BY DEF PayInv, PaymentsInv, EventsKnow
<1>2. f.purchase \in DOMAIN purchases
  BY <1>1 DEF IsBooked
<1>3. p.id = f.purchase
  BY <1>1, <1>2, PurchaseFields
<1>4. f.status # "paid" => ReversedFor(p.id) >= target(p, f)
  BY <1>1, <1>3 DEF IsBooked
<1>5. ASSUME f.status = "paid",
             \A g \in Received : g.provider = f.provider /\ g.payment = f.payment
                                    => g.purchase = f.purchase
      PROVE  \E k \in DOMAIN ledger :
                /\ ledger[k].key = PaymentKey(f)
                /\ ledger[k].user = p.user /\ ledger[k].amount = p.credits
  <2>1. PaymentKey(f) \in UsedKeys
    BY <1>1, <1>5 DEF IsBooked
  <2>2. PICK k \in DOMAIN ledger : ledger[k].key = PaymentKey(f)
    BY <2>1 DEF UsedKeys
  <2>3. PICK g \in Received :
           /\ g.provider = f.provider /\ g.payment = f.payment
           /\ ledger[k].user = purchases[g.purchase].user
           /\ ledger[k].amount = purchases[g.purchase].credits
    BY <2>2, PaymentRows
  <2>4. g.purchase = f.purchase
    BY <1>5, <2>3
  <2> QED BY <2>2, <2>3, <2>4
<1> QED BY <1>2, <1>4, <1>5

(***************************************************************************)
(* What an applied event says is in the ledger, also when the ledger is    *)
(* not the tables' and a crash came between the two, and also when another *)
(* process applied the event at the same time.                             *)
(***************************************************************************)
THEOREM AppliedStaysBooked == PaymentsSpec => []AppliedIsBooked
BY PaymentsCorrect, InvImpliesApplied, PTL

(***************************************************************************)
(* reversed_credits is what the ledger took back, and never more than was  *)
(* granted, as long as no process writes a purchase by an outdated read.   *)
(***************************************************************************)
THEOREM ReversalsAgree == PaymentsSpec => []ReversalsAddUp
<1>1. PayInv => ReversalsAddUp
  <2> SUFFICES ASSUME PayInv, kind = "service" /\ ~stale, NEW i \in DOMAIN purchases
               PROVE  /\ ReversedFor(i) = purchases[i].reversed
                      /\ ReversedFor(i) <= purchases[i].credits
    BY DEF ReversalsAddUp
  <2>1. ReversedFor(i) = purchases[i].reversed
    BY DEF PayInv, PaymentsInv, RecordedIsTaken
  <2>2. purchases[i].reversed <= purchases[i].credits
    BY PurchaseFields DEF PayInv, PaymentsInv
  <2> QED BY <2>1, <2>2
<1> QED BY <1>1, PaymentsCorrect, PTL
=============================================================================
