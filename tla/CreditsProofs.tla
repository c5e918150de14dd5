---------------------------- MODULE CreditsProofs ----------------------------
(***************************************************************************)
(* Proofs about the credit ledger, for any sets of users, requests, keys   *)
(* and amounts, any timeout and any number of Reconcile loops.             *)
(***************************************************************************)
EXTENDS CreditsImpl, WellFoundedInduction, FiniteSetTheorems, TLAPS

-----------------------------------------------------------------------------
(***************************************************************************)
(* What Total returns on the empty sequence and on a sequence extended by  *)
(* one element, for every sequence of integers.                            *)
(***************************************************************************)

(***************************************************************************)
(* Every nonempty set of naturals has a least element.                     *)
(***************************************************************************)
LEMMA LeastNat ==
  ASSUME NEW T, T \subseteq Nat, T # {}
  PROVE  \E x \in T : \A y \in T : x <= y
<1> DEFINE R == OpToRel(<, Nat)
<1>1. IsWellFoundedOn(R, Nat)
  BY NatLessThanWellFounded
<1>2. \A x, y \in Nat : x < y => <<x, y>> \in R
  BY DEF OpToRel
<1> HIDE DEF R
<1>3. PICK x \in T : \A y \in T : ~ (<<y, x>> \in R)
  BY <1>1, WFMin, Zenon
<1>4. ASSUME NEW y \in T PROVE x <= y
  <2>1. ~ (y < x)
    BY <1>2, <1>3
  <2> QED BY <2>1
<1> QED BY <1>4

(***************************************************************************)
(* A set of which any two members are equal has at most one member.        *)
(***************************************************************************)
LEMMA AtMostOne ==
  ASSUME NEW S, \A x, y \in S : x = y
  PROVE  Cardinality(S) <= 1
<1>1. CASE S = {}
  BY <1>1, FS_EmptySet
<1>2. CASE S # {}
  <2>1. PICK x : S = {x}
    BY <1>2
  <2> QED BY <2>1, FS_Singleton
<1> QED BY <1>1, <1>2

(***************************************************************************)
(* Induction over the naturals, with the induction hypothesis as a set.    *)
(***************************************************************************)
LEMMA SetInduction ==
  ASSUME NEW S, 0 \in S, \A n \in Nat : n \in S => n + 1 \in S
  PROVE  Nat \subseteq S
<1> SUFFICES ASSUME Nat \ S # {} PROVE FALSE
  OBVIOUS
<1>1. PICK x \in Nat \ S : \A y \in Nat \ S : x <= y
  BY LeastNat
<1>2. x - 1 \in Nat /\ x - 1 \in S
  BY <1>1
<1>3. (x - 1) + 1 \in S
  BY <1>2
<1> QED BY <1>1, <1>3

(***************************************************************************)
(* g lists the running totals of the first m elements of f.                *)
(***************************************************************************)
IsRun(g, f, m) ==
    g = [n \in 0 .. m |-> IF n = 0 THEN 0 ELSE g[n - 1] + f[n]]

(***************************************************************************)
(* Running totals exist, and are integers.                                 *)
(***************************************************************************)
LEMMA RunExists ==
  ASSUME NEW f \in Seq(Int)
  PROVE  \E g \in [0 .. Len(f) -> Int] : IsRun(g, f, Len(f))
<1> DEFINE S == {m \in Nat : m <= Len(f) =>
                      \E g \in [0 .. m -> Int] : IsRun(g, f, m)}
<1>1. 0 \in S
  <2> DEFINE g == [n \in 0 .. 0 |-> 0]
  <2>1. g \in [0 .. 0 -> Int] /\ IsRun(g, f, 0)
    BY DEF IsRun
  <2> QED BY <2>1
<1>2. ASSUME NEW m \in Nat, m \in S PROVE m + 1 \in S
  <2> SUFFICES ASSUME m + 1 <= Len(f)
               PROVE  \E h \in [0 .. m + 1 -> Int] : IsRun(h, f, m + 1)
    OBVIOUS
  <2>1. PICK g \in [0 .. m -> Int] : IsRun(g, f, m)
    BY <1>2
  <2> DEFINE h == [n \in 0 .. m + 1 |-> IF n = m + 1 THEN g[m] + f[m + 1]
                                                    ELSE g[n]]
  <2>2. f[m + 1] \in Int /\ g[m] \in Int
    OBVIOUS
  <2>3. h \in [0 .. m + 1 -> Int]
    BY <2>2
  <2>4. ASSUME NEW n \in 0 .. m + 1
        PROVE  h[n] = IF n = 0 THEN 0 ELSE h[n - 1] + f[n]
    BY <2>1, <2>2 DEF IsRun
  <2>5. IsRun(h, f, m + 1)
    BY <2>3, <2>4 DEF IsRun
  <2> QED BY <2>3, <2>5
<1> HIDE DEF S
<1>3. Nat \subseteq S
  BY <1>1, <1>2, SetInduction
<1>4. Len(f) \in S
  BY <1>3
<1> QED BY <1>4 DEF S

(***************************************************************************)
(* Running totals that start and grow alike agree.                         *)
(***************************************************************************)
LEMMA RunUnique ==
  ASSUME NEW f, NEW h, NEW k \in Nat, NEW m \in Nat, NEW c, NEW d,
         k <= m, IsRun(c, f, k), IsRun(d, h, m),
         \A i \in 1 .. k : f[i] = h[i]
  PROVE  \A n \in 0 .. k : c[n] = d[n]
<1> DEFINE S == {n \in Nat : n <= k => c[n] = d[n]}
<1>1. 0 \in S
  BY DEF IsRun
<1>2. ASSUME NEW n \in Nat, n \in S PROVE n + 1 \in S
  <2> SUFFICES ASSUME n + 1 <= k PROVE c[n + 1] = d[n + 1]
    OBVIOUS
  <2>1. c[n + 1] = c[n] + f[n + 1]
    BY DEF IsRun
  <2>2. d[n + 1] = d[n] + h[n + 1]
    BY DEF IsRun
  <2> QED BY <1>2, <2>1, <2>2
<1> HIDE DEF S
<1>3. Nat \subseteq S
  BY <1>1, <1>2, SetInduction
<1> QED BY <1>3 DEF S

(***************************************************************************)
(* Total is the last of the running totals, and an integer.                *)
(***************************************************************************)
LEMMA TotalIsRun ==
  ASSUME NEW f \in Seq(Int)
  PROVE  /\ \E g : IsRun(g, f, Len(f)) /\ Total(f) = g[Len(f)]
         /\ Total(f) \in Int
<1> DEFINE c == CHOOSE g : IsRun(g, f, Len(f))
<1>1. Total(f) = c[Len(f)]
  BY DEF Total, IsRun
<1>2. IsRun(c, f, Len(f))
  BY RunExists
<1>3. PICK g \in [0 .. Len(f) -> Int] : IsRun(g, f, Len(f))
  BY RunExists
<1>4. c[Len(f)] = g[Len(f)]
  <2>1. \A n \in 0 .. Len(f) : c[n] = g[n]
    <3> HIDE DEF c
    <3> QED BY <1>2, <1>3, RunUnique
  <2> QED BY <2>1
<1>5. Total(f) \in Int
  BY <1>1, <1>4
<1>6. \E a : IsRun(a, f, Len(f)) /\ Total(f) = a[Len(f)]
  <2> HIDE DEF c
  <2> QED BY <1>1, <1>2
<1> QED BY <1>5, <1>6

(***************************************************************************)
(* The sum over no rows is 0 (the COALESCE(SUM(...), 0) of the queries).   *)
(***************************************************************************)
LEMMA TotalEmpty == Total(<< >>) = 0
<1> DEFINE e == << >>
<1>1. e \in Seq(Int) /\ Len(e) = 0
  OBVIOUS
<1> HIDE DEF e
<1>2. PICK g : IsRun(g, e, Len(e)) /\ Total(e) = g[Len(e)]
  BY <1>1, TotalIsRun
<1>3. g[0] = 0
  BY <1>1, <1>2 DEF IsRun
<1> QED BY <1>1, <1>2, <1>3 DEF e

(***************************************************************************)
(* Inserting one row adds its amount to the sum.                           *)
(***************************************************************************)
LEMMA TotalAppend ==
  ASSUME NEW f \in Seq(Int), NEW x \in Int
  PROVE  Total(Append(f, x)) = Total(f) + x
<1> DEFINE h == Append(f, x)
           k == Len(f)
           m == k + 1
<1>1. h \in Seq(Int) /\ Len(h) = m /\ k \in Nat /\ h[m] = x
  OBVIOUS
<1>2. \A i \in 1 .. k : f[i] = h[i]
  OBVIOUS
<1>3. m \in Nat /\ k <= m
  OBVIOUS
<1> HIDE DEF h
<1>4. PICK c : IsRun(c, f, k) /\ Total(f) = c[k]
  BY TotalIsRun
<1>5. PICK d : IsRun(d, h, m) /\ Total(h) = d[m]
  BY <1>1, TotalIsRun
<1>6. d[m] = d[k] + x
  BY <1>1, <1>5 DEF IsRun
<1>7. c[k] = d[k]
  <2> HIDE DEF k, m
  <2>1. \A n \in 0 .. k : c[n] = d[n]
    BY <1>1, <1>2, <1>3, <1>4, <1>5, RunUnique
  <2> QED BY <1>1, <2>1
<1> QED BY <1>4, <1>5, <1>6, <1>7 DEF h

(***************************************************************************)
(* The same for a sequence g that is f and one more element.               *)
(***************************************************************************)
LEMMA TotalExtend ==
  ASSUME NEW f \in Seq(Int), NEW g \in Seq(Int), Len(g) = Len(f) + 1,
         \A i \in 1 .. Len(f) : g[i] = f[i]
  PROVE  Total(g) = Total(f) + g[Len(f) + 1]
<1> DEFINE x == g[Len(f) + 1]
<1>1. x \in Int
  OBVIOUS
<1>2. g = Append(f, x)
  OBVIOUS
<1> QED BY <1>1, <1>2, TotalAppend

(***************************************************************************)
(* A function from 1 .. n to the integers is a sequence of length n.       *)
(***************************************************************************)
LEMMA IntSequence ==
  ASSUME NEW n \in Nat, NEW f \in [1 .. n -> Int]
  PROVE  f \in Seq(Int) /\ Len(f) = n
OBVIOUS

-----------------------------------------------------------------------------
(***************************************************************************)
(* The ledger.                                                             *)
(***************************************************************************)

(***************************************************************************)
(* The amounts in the ledger are integers.                                 *)
(***************************************************************************)
LEMMA AmountsAreInts ==
  ASSUME NEW log \in Seq(Rows)
  PROVE  \A i \in 1 .. Len(log) : log[i].amount \in Int
<1> TAKE i \in 1 .. Len(log)
<1>1. log[i] \in Rows
  OBVIOUS
<1> QED BY <1>1 DEF Rows

(***************************************************************************)
(* How the three sums over the ledger change when a row is inserted.       *)
(***************************************************************************)
LEMMA LedgerSumAppend ==
  ASSUME NEW log \in Seq(Rows), NEW row \in Rows, NEW u
  PROVE  /\ LedgerSum(log, u) \in Int
         /\ LedgerSum(Append(log, row), u)
              = LedgerSum(log, u) + (IF row.user = u THEN row.amount ELSE 0)
<1> DEFINE ext == Append(log, row)
           f == [i \in 1 .. Len(log) |-> IF log[i].user = u THEN log[i].amount ELSE 0]
           g == [i \in 1 .. Len(ext) |-> IF ext[i].user = u THEN ext[i].amount ELSE 0]
<1> Len(log) \in Nat /\ ext \in Seq(Rows) /\ Len(ext) = Len(log) + 1
  OBVIOUS
<1>a. f \in [1 .. Len(log) -> Int] /\ g \in [1 .. Len(ext) -> Int]
  <2>1. /\ \A i \in 1 .. Len(log) : log[i].amount \in Int
        /\ \A i \in 1 .. Len(ext) : ext[i].amount \in Int
    BY AmountsAreInts
  <2> HIDE DEF ext
  <2> QED BY <2>1
<1>1. f \in Seq(Int) /\ Len(f) = Len(log)
  BY <1>a, IntSequence
<1>2. g \in Seq(Int) /\ Len(g) = Len(f) + 1
  BY <1>a, <1>1, IntSequence
<1>3. \A i \in 1 .. Len(f) : g[i] = f[i]
  BY <1>1
<1>4. g[Len(f) + 1] = IF row.user = u THEN row.amount ELSE 0
  BY <1>1
<1>5. LedgerSum(log, u) = Total(f) /\ LedgerSum(ext, u) = Total(g)
  BY DEF LedgerSum
<1> HIDE DEF f, g
<1>6. Total(g) = Total(f) + g[Len(f) + 1]
  BY <1>1, <1>2, <1>3, TotalExtend
<1> QED BY <1>1, <1>4, <1>5, <1>6, TotalIsRun

(***************************************************************************)
(* Appending a ledger row adds its amount to the sum of the request it     *)
(* refers to, and to no other.                                             *)
(***************************************************************************)
LEMMA RefSumAppend ==
  ASSUME NEW log \in Seq(Rows), NEW row \in Rows, NEW q
  PROVE  /\ RefSum(log, q) \in Int
         /\ RefSum(Append(log, row), q)
              = RefSum(log, q) + (IF row.ref = q THEN row.amount ELSE 0)
<1> DEFINE ext == Append(log, row)
           f == [i \in 1 .. Len(log) |-> IF log[i].ref = q THEN log[i].amount ELSE 0]
           g == [i \in 1 .. Len(ext) |-> IF ext[i].ref = q THEN ext[i].amount ELSE 0]
<1> Len(log) \in Nat /\ ext \in Seq(Rows) /\ Len(ext) = Len(log) + 1
  OBVIOUS
<1>a. f \in [1 .. Len(log) -> Int] /\ g \in [1 .. Len(ext) -> Int]
  <2>1. /\ \A i \in 1 .. Len(log) : log[i].amount \in Int
        /\ \A i \in 1 .. Len(ext) : ext[i].amount \in Int
    BY AmountsAreInts
  <2> HIDE DEF ext
  <2> QED BY <2>1
<1>1. f \in Seq(Int) /\ Len(f) = Len(log)
  BY <1>a, IntSequence
<1>2. g \in Seq(Int) /\ Len(g) = Len(f) + 1
  BY <1>a, <1>1, IntSequence
<1>3. \A i \in 1 .. Len(f) : g[i] = f[i]
  BY <1>1
<1>4. g[Len(f) + 1] = IF row.ref = q THEN row.amount ELSE 0
  BY <1>1
<1>5. RefSum(log, q) = Total(f) /\ RefSum(ext, q) = Total(g)
  BY DEF RefSum
<1> HIDE DEF f, g
<1>6. Total(g) = Total(f) + g[Len(f) + 1]
  BY <1>1, <1>2, <1>3, TotalExtend
<1> QED BY <1>1, <1>4, <1>5, <1>6, TotalIsRun

(***************************************************************************)
(* The sum of a request's rows is an integer.                              *)
(***************************************************************************)
LEMMA RefSumIsInt ==
  ASSUME NEW log \in Seq(Rows), NEW q
  PROVE  RefSum(log, q) \in Int
<1> DEFINE f == [i \in 1 .. Len(log) |-> IF log[i].ref = q THEN log[i].amount ELSE 0]
<1>1. f \in [1 .. Len(log) -> Int] /\ Len(log) \in Nat
  BY AmountsAreInts
<1>2. f \in Seq(Int)
  BY <1>1, IntSequence
<1> HIDE DEF f
<1>3. Total(f) \in Int
  BY <1>2, TotalIsRun
<1> QED BY <1>3 DEF f, RefSum

(***************************************************************************)
(* Appending a ledger row adds its amount to the sum of its user's rows of *)
(* its type.                                                               *)
(***************************************************************************)
LEMMA TypeSumAppend ==
  ASSUME NEW log \in Seq(Rows), NEW row \in Rows, NEW u, NEW typs
  PROVE  /\ TypeSum(log, u, typs) \in Int
         /\ TypeSum(Append(log, row), u, typs)
              = TypeSum(log, u, typs)
                  + (IF row.user = u /\ row.type \in typs THEN row.amount ELSE 0)
<1> DEFINE ext == Append(log, row)
           f == [i \in 1 .. Len(log) |-> IF log[i].user = u /\ log[i].type \in typs
                                         THEN log[i].amount ELSE 0]
           g == [i \in 1 .. Len(ext) |-> IF ext[i].user = u /\ ext[i].type \in typs
                                         THEN ext[i].amount ELSE 0]
<1> Len(log) \in Nat /\ ext \in Seq(Rows) /\ Len(ext) = Len(log) + 1
  OBVIOUS
<1>a. f \in [1 .. Len(log) -> Int] /\ g \in [1 .. Len(ext) -> Int]
  <2>1. /\ \A i \in 1 .. Len(log) : log[i].amount \in Int
        /\ \A i \in 1 .. Len(ext) : ext[i].amount \in Int
    BY AmountsAreInts
  <2> HIDE DEF ext
  <2> QED BY <2>1
<1>1. f \in Seq(Int) /\ Len(f) = Len(log)
  BY <1>a, IntSequence
<1>2. g \in Seq(Int) /\ Len(g) = Len(f) + 1
  BY <1>a, <1>1, IntSequence
<1>3. \A i \in 1 .. Len(f) : g[i] = f[i]
  BY <1>1
<1>4. g[Len(f) + 1] = IF row.user = u /\ row.type \in typs THEN row.amount ELSE 0
  BY <1>1
<1>5. TypeSum(log, u, typs) = Total(f) /\ TypeSum(ext, u, typs) = Total(g)
  BY DEF TypeSum
<1> HIDE DEF f, g
<1>6. Total(g) = Total(f) + g[Len(f) + 1]
  BY <1>1, <1>2, <1>3, TotalExtend
<1> QED BY <1>1, <1>4, <1>5, <1>6, TotalIsRun

(***************************************************************************)
(* The sums over an empty ledger.                                          *)
(***************************************************************************)
LEMMA SumsEmpty ==
  \A x, typs : /\ LedgerSum(<< >>, x) = 0
               /\ RefSum(<< >>, x) = 0
               /\ TypeSum(<< >>, x, typs) = 0
BY TotalEmpty DEF LedgerSum, RefSum, TypeSum

-----------------------------------------------------------------------------
(***************************************************************************)
(* The rows that the operations insert.                                    *)
(***************************************************************************)
LEMMA RowType ==
  ASSUME NEW u \in Users, NEW n \in Int, NEW typ \in LedgerTypes,
         NEW ref \in RequestIds \cup {NULL}, NEW key \in AllKeys \cup {NULL}
  PROVE  /\ Row(u, n, typ, ref, key) \in Rows
         /\ Row(u, n, typ, ref, key).user = u
         /\ Row(u, n, typ, ref, key).amount = n
         /\ Row(u, n, typ, ref, key).type = typ
         /\ Row(u, n, typ, ref, key).ref = ref
         /\ Row(u, n, typ, ref, key).key = key
BY DEF Row, Rows

(***************************************************************************)
(* What Settle and Release compute is well typed, and consistent: the hold *)
(* and the adjustment together are the captured cost.                      *)
(***************************************************************************)
LEMMA OutcomeType ==
  ASSUME NEW res \in Reservation, NEW c \in Int, NEW all \in BOOLEAN,
         all => c = 0
  PROVE  LET out == outcome(res, c, all) IN
         /\ out.returnAmt \in Int /\ out.adjust \in Int
         /\ out.status \in {"captured", "released"}
         /\ out.ledType \in {"reservation_release", "reservation_overage"}
         /\ out.adjust = res.amount - c
         /\ out.status = "released" => c = 0
         /\ res.amount >= 0 /\ out.adjust < 0 =>
                out.ledType = "reservation_overage"
<1> res.amount \in Int
  BY DEF Reservation
<1>1. CASE all
  BY <1>1 DEF outcome
<1>2. CASE ~ all /\ c > res.amount
  BY <1>2 DEF outcome
<1>3. CASE ~ all /\ ~ (c > res.amount)
  BY <1>3 DEF outcome
<1> QED BY <1>1, <1>2, <1>3

(***************************************************************************)
(* The variables of the service and of Reconcile are well typed.           *)
(***************************************************************************)
LEMMA TypeInit == Init => TypeOK
BY TimeAssumption DEF Init, TypeOK

(***************************************************************************)
(* Grant and Refund (adjust) keep the types.                               *)
(***************************************************************************)
LEMMA AdjustType ==
  ASSUME TypeOK, NEW u \in Users, NEW n \in Int, NEW k \in IdemKeys,
         NEW typ \in LedgerTypes, adjust(u, n, k, typ)
  PROVE  TypeOK'
<1> DEFINE row == Row(u, n, typ, NULL, k)
<1>1. row \in Rows
  BY RowType DEF AllKeys
<1>2. ledger' \in Seq(Rows)
  BY <1>1 DEF TypeOK, adjust
<1>3. DOMAIN accounts' \subseteq Users /\ accounts' \in [DOMAIN accounts' -> Int]
  BY DEF TypeOK, adjust, Balance
<1> QED BY <1>2, <1>3 DEF TypeOK, adjust

(***************************************************************************)
(* Reserve keeps the types.                                                *)
(***************************************************************************)
LEMMA ReserveType ==
  ASSUME TypeOK, NEW u \in Users, NEW q \in RequestIds, NEW n \in Int,
         Reserve(u, q, n)
  PROVE  TypeOK'
<1> USE DEF Reserve, debitReservation, Covers
<1> DEFINE row == Row(u, -n, "reservation", q, ReserveKey(q))
<1>1. row \in Rows
  <2>1. -n \in Int /\ "reservation" \in LedgerTypes /\ ReserveKey(q) \in AllKeys
    BY DEF AllKeys, LedgerTypes
  <2> QED BY <2>1, RowType
<1>2. ledger' \in Seq(Rows)
  BY <1>1 DEF TypeOK
<1>3. DOMAIN accounts' \subseteq Users /\ accounts' \in [DOMAIN accounts' -> Int]
  BY DEF TypeOK
<1>4. /\ DOMAIN reservations' \subseteq RequestIds
      /\ reservations' \in [DOMAIN reservations' -> Reservation]
  BY TimeAssumption DEF TypeOK, Reservation, Statuses
<1> QED BY <1>2, <1>3, <1>4 DEF TypeOK

(***************************************************************************)
(* writeReturn keeps the types of the ledger and the accounts.             *)
(***************************************************************************)
LEMMA WriteReturnType ==
  ASSUME TypeOK, NEW u \in Users, NEW q \in RequestIds, NEW n \in Int,
         NEW typ \in LedgerTypes, writeReturn(u, q, n, typ)
  PROVE  /\ ledger' \in Seq(Rows)
         /\ DOMAIN accounts' \subseteq Users
         /\ accounts' \in [DOMAIN accounts' -> Int]
<1>1. Row(u, n, typ, q, NULL) \in Rows
  BY RowType
<1>2. ledger' \in Seq(Rows)
  BY <1>1 DEF TypeOK, writeReturn
<1>3. accounts' = [accounts EXCEPT ![u] = @ + n]
  BY DEF writeReturn
<1>4. accounts' = [w \in DOMAIN accounts |->
                      IF w = u THEN accounts[w] + n ELSE accounts[w]]
  BY <1>3
<1>5. \A w \in DOMAIN accounts : accounts[w] \in Int /\ w \in Users
  BY DEF TypeOK
<1> QED BY <1>2, <1>4, <1>5

(***************************************************************************)
(* Settle and Release (finalize) keep the types.                           *)
(***************************************************************************)
LEMMA FinalizeType ==
  ASSUME TypeOK, NEW q \in RequestIds, NEW c \in Int, NEW all \in BOOLEAN,
         all => c = 0, finalize(q, c, all)
  PROVE  TypeOK'
<1> DEFINE res == reservations[q]
           out == outcome(res, c, all)
<1>1. res \in Reservation /\ res.user \in Users /\ q \in DOMAIN reservations
  BY DEF TypeOK, finalize, Reservation
<1>2. /\ out.returnAmt \in Int /\ out.adjust \in Int
      /\ out.status \in {"captured", "released"}
      /\ out.ledType \in LedgerTypes
  BY <1>1, OutcomeType DEF LedgerTypes
<1>3. /\ IF out.adjust # 0 THEN writeReturn(res.user, q, out.adjust, out.ledType)
                          ELSE UNCHANGED <<ledger, accounts>>
      /\ reservations' = [reservations EXCEPT ![q] =
             [@ EXCEPT !.captured = c, !.released = out.returnAmt,
                       !.status = out.status]]
      /\ UNCHANGED <<recon, aborts>>
  BY DEF finalize
<1> HIDE DEF res, out
<1>4. /\ ledger' \in Seq(Rows)
      /\ DOMAIN accounts' \subseteq Users
      /\ accounts' \in [DOMAIN accounts' -> Int]
  <2>1. CASE out.adjust # 0
    BY <1>1, <1>2, <1>3, <2>1, WriteReturnType
  <2>2. CASE out.adjust = 0
    BY <1>3, <2>2 DEF TypeOK
  <2> QED BY <2>1, <2>2
<1>5. /\ DOMAIN reservations' \subseteq RequestIds
      /\ reservations' \in [DOMAIN reservations' -> Reservation]
  BY <1>1, <1>2, <1>3 DEF TypeOK, Reservation, Statuses
<1> QED BY <1>3, <1>4, <1>5 DEF TypeOK

(***************************************************************************)
(* One transaction of Reconcile's loop (expireOne) keeps the types.        *)
(***************************************************************************)
LEMMA ExpireOneType ==
  ASSUME TypeOK, NEW r \in Reconcilers, NEW st \in recon[r].stales,
         expireOne(r, st)
  PROVE  TypeOK'
<1>1. st \in StaleRows
  BY DEF TypeOK
<1>2. st.id \in RequestIds /\ st.user \in Users /\ st.amount \in Int
  BY <1>1 DEF StaleRows
<1>3. recon' \in [Reconcilers -> [pc : {"idle", "expire"}, stales : SUBSET StaleRows,
                                 mismatches : SUBSET Users]]
  BY DEF TypeOK, expireOne, StillReserved
<1>4. CASE reservations[st.id].status = "reserved"
  <2>1. /\ reservations' = [reservations EXCEPT ![st.id].status = "expired"]
        /\ writeReturn(st.user, st.id, st.amount, "reservation_release")
    BY <1>4 DEF expireOne, StillReserved
  <2>2. /\ ledger' \in Seq(Rows)
        /\ DOMAIN accounts' \subseteq Users
        /\ accounts' \in [DOMAIN accounts' -> Int]
    BY <1>2, <2>1, WriteReturnType DEF LedgerTypes
  <2>3. /\ DOMAIN reservations' \subseteq RequestIds
        /\ reservations' \in [DOMAIN reservations' -> Reservation]
    BY <2>1 DEF TypeOK, Reservation, Statuses
  <2> QED BY <1>3, <2>2, <2>3 DEF TypeOK, expireOne, StillReserved
<1>5. CASE reservations[st.id].status # "reserved"
  BY <1>3, <1>5 DEF TypeOK, expireOne, StillReserved
<1> QED BY <1>4, <1>5

(***************************************************************************)
(* Every step of the service keeps the types.                              *)
(***************************************************************************)
LEMMA TypeNext == TypeOK /\ [Next]_vars => TypeOK'
<1> SUFFICES ASSUME TypeOK, [Next]_vars PROVE TypeOK'
  OBVIOUS
<1> USE AmountsAssumption
<1>1. ASSUME NEW u \in Users, NEW n \in Amounts, NEW k \in IdemKeys, Grant(u, n, k)
      PROVE  TypeOK'
  BY <1>1, AdjustType DEF Grant, LedgerTypes
<1>2. ASSUME NEW u \in Users, NEW n \in Amounts, NEW k \in IdemKeys, Refund(u, n, k)
      PROVE  TypeOK'
  <2>1. -n \in Int /\ adjust(u, -n, k, "refund") /\ "refund" \in LedgerTypes
    BY <1>2 DEF Refund, LedgerTypes
  <2> QED BY <2>1, AdjustType
<1>3. ASSUME NEW u \in Users, NEW q \in RequestIds, NEW n \in Amounts, Reserve(u, q, n)
      PROVE  TypeOK'
  BY <1>3, ReserveType
<1>4. ASSUME NEW q \in RequestIds, NEW c \in Costs, Settle(q, c)
      PROVE  TypeOK'
  <2>1. c \in Int /\ FALSE \in BOOLEAN /\ (FALSE => c = 0) /\ finalize(q, c, FALSE)
    BY <1>4 DEF Settle
  <2> QED BY <2>1, FinalizeType, Zenon
<1>5. ASSUME NEW q \in RequestIds, Release(q)
      PROVE  TypeOK'
  <2>1. finalize(q, 0, TRUE)
    BY <1>5, Zenon DEF Release
  <2>2. 0 \in Int /\ TRUE \in BOOLEAN /\ (TRUE => 0 = 0)
    OBVIOUS
  <2> QED BY <2>1, <2>2, FinalizeType, Zenon
<1>6. ASSUME NEW r \in Reconcilers, expireStale(r)
      PROVE  TypeOK'
  <2> DEFINE S == {[id |-> q, user |-> reservations[q].user,
                    amount |-> reservations[q].amount] :
                      q \in {p \in DOMAIN reservations : Stale(reservations[p])}}
  <2>1. S \subseteq StaleRows
    BY DEF TypeOK, StaleRows, Reservation
  <2>2. recon' = [recon EXCEPT ![r] = [pc |-> "expire", stales |-> S,
                                       mismatches |-> {}]]
    BY <1>6 DEF expireStale
  <2> HIDE DEF S
  <2>3. recon' \in [Reconcilers -> [pc : {"idle", "expire"}, stales : SUBSET StaleRows,
                                   mismatches : SUBSET Users]]
    BY <2>1, <2>2 DEF TypeOK
  <2> QED BY <1>6, <2>3 DEF TypeOK, expireStale
<1>7. ASSUME NEW r \in Reconcilers, NEW st \in recon[r].stales, expireOne(r, st)
      PROVE  TypeOK'
  BY <1>7, ExpireOneType
<1>8. ASSUME NEW r \in Reconcilers, detectDrift(r)
      PROVE  TypeOK'
  <2>1. Mismatches \subseteq Users
    <3>1. ASSUME NEW i \in DOMAIN ledger PROVE ledger[i].user \in Users
      <4>1. ledger[i] \in Rows
        BY DEF TypeOK
      <4> QED BY <4>1 DEF Rows
    <3> QED BY <3>1 DEF TypeOK, Mismatches
  <2>2. recon' \in [Reconcilers -> [pc : {"idle", "expire"}, stales : SUBSET StaleRows,
                                   mismatches : SUBSET Users]]
    BY <1>8, <2>1 DEF TypeOK, detectDrift
  <2> QED BY <1>8, <2>2 DEF TypeOK, detectDrift
<1>9. ASSUME NEW r \in Reconcilers, Abort(r)
      PROVE  TypeOK'
  <2>1. recon' \in [Reconcilers -> [pc : {"idle", "expire"}, stales : SUBSET StaleRows,
                                   mismatches : SUBSET Users]]
    BY <1>9 DEF TypeOK, Abort
  <2>2. aborts' \in 0 .. MaxAborts
    BY <1>9, TimeAssumption DEF TypeOK, Abort
  <2> QED BY <1>9, <2>1, <2>2 DEF TypeOK, Abort
<1>10. CASE Tick
  <2>1. /\ DOMAIN reservations' \subseteq RequestIds
        /\ reservations' \in [DOMAIN reservations' -> Reservation]
    <3>1. ASSUME NEW q \in DOMAIN reservations, reservations[q].age <= Timeout
          PROVE  [reservations[q] EXCEPT !.age = @ + 1] \in Reservation
      <4> DEFINE res == reservations[q]
      <4>1. res \in Reservation
        BY DEF TypeOK
      <4> HIDE DEF res
      <4>2. res.age \in 0 .. Timeout + 1 /\ Timeout \in Nat
        BY <4>1, TimeAssumption DEF Reservation
      <4>3. res.age <= Timeout
        BY <3>1 DEF res
      <4>4. res.age + 1 \in 0 .. Timeout + 1
        BY <4>2, <4>3
      <4>5. [res EXCEPT !.age = @ + 1] \in Reservation
        BY <4>1, <4>4 DEF Reservation
      <4> QED BY <4>5 DEF res
    <3> QED BY <1>10, <3>1 DEF TypeOK, Tick
  <2> QED BY <1>10, <2>1 DEF TypeOK, Tick
<1>11. CASE UNCHANGED vars
  BY <1>11 DEF TypeOK, vars
<1> QED BY <1>1, <1>2, <1>3, <1>4, <1>5, <1>6, <1>7, <1>8, <1>9, <1>10, <1>11
        DEF Next, Operation, Reconcile

(***************************************************************************)
(* TypeOK is an invariant of the service.                                  *)
(***************************************************************************)
THEOREM TypeCorrect == Spec => []TypeOK
BY TypeInit, TypeNext, PTL DEF Spec

-----------------------------------------------------------------------------
(***************************************************************************)
(* The accounting invariant.  First, what inserting a row does to the      *)
(* accounts when the balance changes with it.                              *)
(***************************************************************************)
Booked(row) ==
    /\ ledger' = Append(ledger, row)
    /\ \A u \in Users :
           Balance(u)' = Balance(u) + (IF row.user = u THEN row.amount ELSE 0)

(***************************************************************************)
(* Every balance is an integer, with or without an account row.            *)
(***************************************************************************)
LEMMA BalanceType == TypeOK => \A u \in Users : Balance(u) \in Int
BY DEF TypeOK, Balance

(***************************************************************************)
(* A step that books one row and changes its user's balance by the same    *)
(* amount keeps balances and ledger in agreement.                          *)
(***************************************************************************)
LEMMA BookedBalances ==
  ASSUME TypeOK, BalancesAgree, NEW row \in Rows, Booked(row)
  PROVE  BalancesAgree'
<1> SUFFICES ASSUME NEW u \in Users PROVE Balance(u)' = LedgerSum(ledger, u)'
  BY DEF BalancesAgree
<1>1. LedgerSum(ledger', u) = LedgerSum(ledger, u)
                               + (IF row.user = u THEN row.amount ELSE 0)
  BY LedgerSumAppend DEF Booked, TypeOK
<1>2. Balance(u) = LedgerSum(ledger, u)
  BY DEF BalancesAgree
<1>3. Balance(u)' = Balance(u) + (IF row.user = u THEN row.amount ELSE 0)
  BY DEF Booked
<1> QED BY <1>1, <1>2, <1>3

(***************************************************************************)
(* A step that books one row keeps the debt explained, if the row is a     *)
(* debt itself, or returns credits, or leaves the balance non-negative.    *)
(***************************************************************************)
LEMMA BookedDebts ==
  ASSUME TypeOK, DebtsAreDebits, DebtIsExplained,
         NEW row \in Rows, Booked(row),
         \/ row.type \notin DebtTypes /\ row.amount >= 0
         \/ row.type \notin DebtTypes /\ Balance(row.user)' >= 0
         \/ row.type \in DebtTypes /\ row.amount <= 0
  PROVE  DebtsAreDebits' /\ DebtIsExplained'
<1> SUFFICES ASSUME NEW u \in Users
             PROVE  /\ TypeSum(ledger', u, DebtTypes) <= 0
                    /\ Balance(u)' >= TypeSum(ledger', u, DebtTypes)
  BY DEF DebtsAreDebits, DebtIsExplained
<1> DEFINE old == TypeSum(ledger, u, DebtTypes)
           new == TypeSum(ledger', u, DebtTypes)
<1>1. /\ old \in Int
      /\ new = old + (IF row.user = u /\ row.type \in DebtTypes
                      THEN row.amount ELSE 0)
  BY TypeSumAppend DEF Booked, TypeOK
<1>2. old <= 0 /\ Balance(u) >= old
  BY DEF DebtsAreDebits, DebtIsExplained
<1>3. Balance(u)' = Balance(u) + (IF row.user = u THEN row.amount ELSE 0)
  BY DEF Booked
<1>4. Balance(u) \in Int /\ row.amount \in Int
  BY BalanceType DEF Rows
<1>5. new <= 0 /\ Balance(u)' >= new
  <2> HIDE DEF old, new
  <2>1. CASE row.user # u
    BY <1>1, <1>2, <1>3, <1>4, <2>1
  <2>2. CASE row.user = u /\ row.type \in DebtTypes
    BY <1>1, <1>2, <1>3, <1>4, <2>2
  <2>3. CASE row.user = u /\ row.type \notin DebtTypes
    BY <1>1, <1>2, <1>3, <1>4, <2>3
  <2> QED BY <2>1, <2>2, <2>3
<1> QED BY <1>5

(***************************************************************************)
(* A step that books one row leaves the sums of all requests but the one   *)
(* it refers to as they were.                                              *)
(***************************************************************************)
LEMMA BookedRefs ==
  ASSUME TypeOK, NEW row \in Rows, ledger' = Append(ledger, row), NEW q
  PROVE  /\ RefSum(ledger, q) \in Int
         /\ RefSum(ledger, q)' = RefSum(ledger, q)
                                  + (IF row.ref = q THEN row.amount ELSE 0)
BY RefSumAppend DEF TypeOK

(***************************************************************************)
(* What every step does to the reservations that exist: it keeps them,     *)
(* their user and their amount, never reopens one, and time does not run   *)
(* backwards.                                                              *)
(***************************************************************************)
Persists ==
    \A q \in DOMAIN reservations :
        /\ q \in DOMAIN reservations'
        /\ reservations'[q].user = reservations[q].user
        /\ reservations'[q].amount = reservations[q].amount
        /\ reservations'[q].status = "reserved" =>
               /\ reservations[q].status = "reserved"
               /\ reservations'[q].age >= reservations[q].age

(***************************************************************************)
(* What the Reconcile loops remember stays true in a step that keeps every *)
(* reservation's user and amount, reopens none and makes none younger.     *)
(***************************************************************************)
LEMMA SnapshotsKept ==
  ASSUME TypeOK, TypeOK', SnapshotsHold, Persists,
         \A r \in Reconcilers : recon'[r].stales \subseteq recon[r].stales
  PROVE  SnapshotsHold'
<1> SUFFICES ASSUME NEW r \in Reconcilers, NEW st \in recon'[r].stales
             PROVE  /\ st.id \in DOMAIN reservations'
                    /\ st.user = reservations'[st.id].user
                    /\ st.amount = reservations'[st.id].amount
                    /\ reservations'[st.id].status = "reserved" =>
                           reservations'[st.id].age > Timeout
  BY DEF SnapshotsHold
<1>1. /\ st.id \in DOMAIN reservations
      /\ st.user = reservations[st.id].user
      /\ st.amount = reservations[st.id].amount
      /\ reservations[st.id].status = "reserved" =>
             reservations[st.id].age > Timeout
  BY DEF SnapshotsHold
<1>2. /\ st.id \in DOMAIN reservations'
      /\ reservations'[st.id].user = reservations[st.id].user
      /\ reservations'[st.id].amount = reservations[st.id].amount
      /\ reservations'[st.id].status = "reserved" =>
             /\ reservations[st.id].status = "reserved"
             /\ reservations'[st.id].age >= reservations[st.id].age
  BY <1>1 DEF Persists
<1>3. reservations[st.id] \in Reservation /\ reservations'[st.id] \in Reservation
  BY <1>1, <1>2 DEF TypeOK
<1>4. reservations[st.id].age \in Int /\ reservations'[st.id].age \in Int
      /\ Timeout \in Int
  BY <1>3, TimeAssumption DEF Reservation
<1> QED BY <1>1, <1>2, <1>4

(***************************************************************************)
(* The empty tables satisfy the accounting invariant.                      *)
(***************************************************************************)
LEMMA AccountingInit == Init => AccountingInv
<1> SUFFICES ASSUME Init PROVE AccountingInv
  OBVIOUS
<1>1. /\ \A u \in Users : Balance(u) = 0
      /\ DOMAIN reservations = {}
      /\ \A r \in Reconcilers : recon[r].stales = {}
  BY DEF Init, Balance
<1>2. /\ \A u \in Users : LedgerSum(ledger, u) = 0
      /\ \A q \in RequestIds : RefSum(ledger, q) = 0
      /\ \A u \in Users : TypeSum(ledger, u, DebtTypes) = 0
  BY SumsEmpty DEF Init
<1> QED BY <1>1, <1>2 DEF AccountingInv, BalancesAgree, HoldsAreFunded,
          NothingOwedBefore, SnapshotsHold, ReservationsBalance,
          DebtsAreDebits, DebtIsExplained

(***************************************************************************)
(* Grant and Refund (adjust) keep the accounting invariant.                *)
(***************************************************************************)
LEMMA AdjustAccounting ==
  ASSUME TypeOK, TypeOK', AccountingInv,
         NEW u \in Users, NEW n \in Int, NEW k \in IdemKeys,
         NEW typ \in LedgerTypes, adjust(u, n, k, typ),
         \/ typ = "grant" /\ n > 0
         \/ typ = "refund" /\ n < 0
  PROVE  AccountingInv'
<1> DEFINE row == Row(u, n, typ, NULL, k)
<1>1. /\ row \in Rows /\ row.user = u /\ row.amount = n
      /\ row.type = typ /\ row.ref = NULL
  BY RowType DEF AllKeys
<1> HIDE DEF row
<1>2. /\ ledger' = Append(ledger, row)
      /\ UNCHANGED <<reservations, recon>>
      /\ DOMAIN accounts' = DOMAIN accounts \cup {u}
  BY DEF adjust, row
<1>3. Booked(row)
  <2>1. \A w \in Users : Balance(w)' = Balance(w) + (IF u = w THEN n ELSE 0)
    BY BalanceType DEF adjust, Balance, TypeOK
  <2> QED BY <1>1, <1>2, <2>1 DEF Booked
<1>4. BalancesAgree'
  BY <1>1, <1>3, BookedBalances DEF AccountingInv
<1>5. DebtsAreDebits' /\ DebtIsExplained'
  <2>1. \/ row.type \notin DebtTypes /\ row.amount >= 0
        \/ row.type \in DebtTypes /\ row.amount <= 0
    BY <1>1 DEF DebtTypes
  <2> QED BY <1>1, <1>3, <2>1, BookedDebts DEF AccountingInv
<1>6. \A q \in RequestIds : RefSum(ledger, q)' = RefSum(ledger, q)
  BY <1>1, <1>2, BookedRefs, NullAssumption
<1>7. NothingOwedBefore' /\ ReservationsBalance'
  BY <1>2, <1>6 DEF AccountingInv, NothingOwedBefore, ReservationsBalance, TypeOK
<1>8. HoldsAreFunded' /\ SnapshotsHold'
  BY <1>2 DEF AccountingInv, HoldsAreFunded, SnapshotsHold
<1> QED BY <1>4, <1>5, <1>7, <1>8 DEF AccountingInv

(***************************************************************************)
(* Reserve keeps the accounting invariant: the guard of the debit is what  *)
(* keeps the debt explained.                                               *)
(***************************************************************************)
LEMMA ReserveAccounting ==
  ASSUME TypeOK, TypeOK', AccountingInv,
         NEW u \in Users, NEW q \in RequestIds, NEW n \in Int, Reserve(u, q, n)
  PROVE  AccountingInv'
<1> DEFINE row == Row(u, -n, "reservation", q, ReserveKey(q))
<1>1. /\ row \in Rows /\ row.user = u /\ row.amount = -n
      /\ row.type = "reservation" /\ row.ref = q
  <2>1. -n \in Int /\ "reservation" \in LedgerTypes /\ ReserveKey(q) \in AllKeys
    BY DEF AllKeys, LedgerTypes
  <2> QED BY <2>1, RowType
<1> HIDE DEF row
<1>2. /\ ledger' = Append(ledger, row)
      /\ UNCHANGED recon
      /\ n >= 1 /\ q \notin DOMAIN reservations
      /\ u \in DOMAIN accounts /\ accounts[u] - n >= 0
      /\ accounts' = [accounts EXCEPT ![u] = @ - n]
      /\ DOMAIN accounts' = DOMAIN accounts
  BY DEF Reserve, debitReservation, Covers, row, TypeOK
<1>3. /\ DOMAIN reservations' = DOMAIN reservations \cup {q}
      /\ \A p \in DOMAIN reservations : reservations'[p] = reservations[p]
      /\ reservations'[q].user = u /\ reservations'[q].amount = n
      /\ reservations'[q].status = "reserved"
  BY <1>2 DEF Reserve, debitReservation, Covers
<1>4. Booked(row)
  <2>1. \A w \in Users : Balance(w)' = Balance(w) + (IF u = w THEN -n ELSE 0)
    BY <1>2, BalanceType DEF Balance, TypeOK
  <2> QED BY <1>1, <1>2, <2>1 DEF Booked
<1>5. BalancesAgree'
  BY <1>1, <1>4, BookedBalances DEF AccountingInv
<1>6. DebtsAreDebits' /\ DebtIsExplained'
  <2>1. row.type \notin DebtTypes /\ Balance(row.user)' >= 0
    BY <1>1, <1>2 DEF DebtTypes, Balance, TypeOK
  <2> QED BY <1>1, <1>4, <2>1, BookedDebts DEF AccountingInv
<1>7. \A p \in RequestIds : /\ RefSum(ledger, p) \in Int
                            /\ RefSum(ledger, p)' = RefSum(ledger, p)
                                  + (IF q = p THEN -n ELSE 0)
  BY <1>1, <1>2, BookedRefs
<1>8. NothingOwedBefore'
  BY <1>3, <1>7 DEF AccountingInv, NothingOwedBefore
<1>9. ReservationsBalance'
  <2> SUFFICES ASSUME NEW p \in DOMAIN reservations'
               PROVE  RefSum(ledger, p)' = - Owed(reservations'[p])
    BY DEF ReservationsBalance
  <2>1. CASE p = q
    <3>1. RefSum(ledger, q) = 0
      BY <1>2 DEF AccountingInv, NothingOwedBefore
    <3> QED BY <1>3, <1>7, <2>1, <3>1 DEF Owed
  <2>2. CASE p # q
    <3>1. p \in DOMAIN reservations /\ p \in RequestIds
      BY <1>3, <2>2 DEF TypeOK
    <3>2. RefSum(ledger, p) = - Owed(reservations[p])
      BY <3>1 DEF AccountingInv, ReservationsBalance
    <3> QED BY <1>3, <1>7, <2>2, <3>1, <3>2
  <2> QED BY <2>1, <2>2
<1>10. HoldsAreFunded'
  BY <1>2, <1>3 DEF AccountingInv, HoldsAreFunded
<1>11. SnapshotsHold'
  BY <1>2, <1>3 DEF AccountingInv, SnapshotsHold
<1> QED BY <1>5, <1>6, <1>8, <1>9, <1>10, <1>11 DEF AccountingInv

(***************************************************************************)
(* Closing the reservation q with the signed adjustment n, by Settle,      *)
(* Release or expiry.                                                      *)
(***************************************************************************)
Closes(q, n, typ) ==
    /\ q \in DOMAIN reservations
    /\ reservations[q].status = "reserved"
    /\ IF n # 0 THEN writeReturn(reservations[q].user, q, n, typ)
                ELSE UNCHANGED <<ledger, accounts>>
    /\ typ = IF n < 0 THEN "reservation_overage" ELSE "reservation_release"
    /\ DOMAIN reservations' = DOMAIN reservations
    /\ \A p \in DOMAIN reservations : p # q => reservations'[p] = reservations[p]
    /\ reservations'[q].user = reservations[q].user
    /\ reservations'[q].amount = reservations[q].amount
    /\ reservations'[q].status # "reserved"
    /\ Owed(reservations'[q]) = reservations[q].amount - n
    /\ \A r \in Reconcilers : recon'[r].stales \subseteq recon[r].stales

(***************************************************************************)
(* writeReturn books one row and changes the balance by its amount.        *)
(***************************************************************************)
LEMMA WriteReturnBooked ==
  ASSUME TypeOK, NEW u \in DOMAIN accounts, NEW q \in RequestIds, NEW n \in Int,
         NEW typ \in LedgerTypes, writeReturn(u, q, n, typ)
  PROVE  LET row == Row(u, n, typ, q, NULL)
         IN  /\ row \in Rows /\ row.user = u /\ row.amount = n
             /\ row.type = typ /\ row.ref = q
             /\ Booked(row)
             /\ DOMAIN accounts' = DOMAIN accounts
<1> DEFINE row == Row(u, n, typ, q, NULL)
<1>0. u \in Users
  BY DEF TypeOK
<1>1. /\ row \in Rows /\ row.user = u /\ row.amount = n
      /\ row.type = typ /\ row.ref = q
  BY <1>0, RowType
<1>2. ledger' = Append(ledger, row) /\ accounts' = [accounts EXCEPT ![u] = @ + n]
  BY DEF writeReturn
<1> HIDE DEF row
<1>3. \A w \in Users : Balance(w)' = Balance(w) + (IF u = w THEN n ELSE 0)
  BY <1>2, BalanceType DEF Balance, TypeOK
<1>4. Booked(row)
  BY <1>1, <1>2, <1>3 DEF Booked
<1> QED BY <1>1, <1>2, <1>4 DEF row, TypeOK

(***************************************************************************)
(* Closing a reservation with the adjustment that its outcome asks for     *)
(* keeps balances, debts and sums in order.                                *)
(***************************************************************************)
LEMMA CloseBooks ==
  ASSUME TypeOK, AccountingInv, NEW q, NEW n \in Int, NEW typ, Closes(q, n, typ)
  PROVE  /\ BalancesAgree' /\ DebtsAreDebits' /\ DebtIsExplained'
         /\ DOMAIN accounts' = DOMAIN accounts
         /\ \A p \in RequestIds :
                /\ RefSum(ledger, p) \in Int
                /\ RefSum(ledger, p)' = RefSum(ledger, p) + (IF q = p THEN n ELSE 0)
<1> DEFINE u == reservations[q].user
<1>a. /\ q \in DOMAIN reservations /\ q \in RequestIds
      /\ u \in DOMAIN accounts /\ u \in Users
  BY DEF Closes, AccountingInv, HoldsAreFunded, TypeOK, Reservation
<1>b. typ \in LedgerTypes
  BY DEF Closes, LedgerTypes
<1> HIDE DEF u
<1>1. CASE n # 0
  <2> DEFINE row == Row(u, n, typ, q, NULL)
  <2>1. writeReturn(u, q, n, typ)
    BY <1>1 DEF Closes, u
  <2>2. /\ row \in Rows /\ row.user = u /\ row.amount = n
        /\ row.type = typ /\ row.ref = q
        /\ Booked(row)
        /\ DOMAIN accounts' = DOMAIN accounts
    BY <1>a, <1>b, <2>1, WriteReturnBooked
  <2> HIDE DEF row
  <2>3. BalancesAgree'
    BY <2>2, BookedBalances DEF AccountingInv
  <2>4. \/ row.type \notin DebtTypes /\ row.amount >= 0
        \/ row.type \in DebtTypes /\ row.amount <= 0
    BY <2>2 DEF Closes, DebtTypes
  <2>5. DebtsAreDebits' /\ DebtIsExplained'
    BY <2>2, <2>4, BookedDebts DEF AccountingInv
  <2>6. \A p \in RequestIds :
           /\ RefSum(ledger, p) \in Int
           /\ RefSum(ledger, p)' = RefSum(ledger, p) + (IF q = p THEN n ELSE 0)
    BY <2>2, BookedRefs DEF Booked
  <2> QED BY <2>2, <2>3, <2>5, <2>6
<1>2. CASE n = 0
  <2>1. UNCHANGED <<ledger, accounts>>
    BY <1>2 DEF Closes
  <2>2. \A w \in Users : Balance(w)' = Balance(w)
    BY <2>1 DEF Balance
  <2>3. \A p \in RequestIds : RefSum(ledger, p) \in Int
    BY RefSumIsInt DEF TypeOK
  <2> QED BY <1>2, <2>1, <2>2, <2>3 DEF AccountingInv, BalancesAgree,
            DebtsAreDebits, DebtIsExplained
<1> QED BY <1>1, <1>2

(***************************************************************************)
(* Closing a reservation that is still reserved keeps the accounting       *)
(* invariant, whoever closes it.                                           *)
(***************************************************************************)
LEMMA CloseAccounting ==
  ASSUME TypeOK, TypeOK', AccountingInv, NEW q, NEW n \in Int, NEW typ,
         Closes(q, n, typ)
  PROVE  AccountingInv'
<1>1. /\ q \in DOMAIN reservations /\ q \in RequestIds
      /\ reservations[q].amount \in Int
  BY DEF Closes, TypeOK, Reservation
<1>3. /\ BalancesAgree' /\ DebtsAreDebits' /\ DebtIsExplained'
      /\ DOMAIN accounts' = DOMAIN accounts
      /\ \A p \in RequestIds :
             /\ RefSum(ledger, p) \in Int
             /\ RefSum(ledger, p)' = RefSum(ledger, p) + (IF q = p THEN n ELSE 0)
  BY CloseBooks
<1>4. NothingOwedBefore'
  BY <1>1, <1>3 DEF AccountingInv, NothingOwedBefore, Closes
<1>5. ReservationsBalance'
  <2> SUFFICES ASSUME NEW p \in DOMAIN reservations'
               PROVE  RefSum(ledger, p)' = - Owed(reservations'[p])
    BY DEF ReservationsBalance
  <2>1. p \in DOMAIN reservations /\ p \in RequestIds
    BY DEF Closes, TypeOK
  <2>2. RefSum(ledger, p) = - Owed(reservations[p])
    BY <2>1 DEF AccountingInv, ReservationsBalance
  <2>3. CASE p = q
    <3>1. /\ Owed(reservations[q]) = reservations[q].amount
          /\ Owed(reservations'[q]) = reservations[q].amount - n
      BY DEF Closes, Owed
    <3> QED BY <1>1, <1>3, <2>1, <2>2, <2>3, <3>1
  <2>4. CASE p # q
    BY <1>3, <2>1, <2>2, <2>4 DEF Closes
  <2> QED BY <2>3, <2>4
<1>6. Persists
  <2> SUFFICES ASSUME NEW p \in DOMAIN reservations
               PROVE  /\ p \in DOMAIN reservations'
                      /\ reservations'[p].user = reservations[p].user
                      /\ reservations'[p].amount = reservations[p].amount
                      /\ reservations'[p].status = "reserved" =>
                             /\ reservations[p].status = "reserved"
                             /\ reservations'[p].age >= reservations[p].age
    BY DEF Persists
  <2>1. reservations[p].age \in Int
    BY TimeAssumption DEF TypeOK, Reservation
  <2> QED BY <2>1 DEF Closes
<1>7. SnapshotsHold'
  BY <1>6, SnapshotsKept DEF Closes, AccountingInv
<1>8. HoldsAreFunded'
  BY <1>3 DEF Closes, AccountingInv, HoldsAreFunded
<1> QED BY <1>3, <1>4, <1>5, <1>7, <1>8 DEF AccountingInv

(***************************************************************************)
(* Settle and Release (finalize) close an open reservation with the        *)
(* adjustment that its outcome asks for.                                   *)
(***************************************************************************)
LEMMA FinalizeCloses ==
  ASSUME TypeOK, AccountingInv, NEW q \in RequestIds, NEW c \in Int,
         NEW all \in BOOLEAN, all => c = 0, finalize(q, c, all)
  PROVE  /\ reservations[q].amount - c \in Int
         /\ Closes(q, reservations[q].amount - c,
                   outcome(reservations[q], c, all).ledType)
<1> DEFINE res == reservations[q]
           out == outcome(res, c, all)
<1>1. /\ res \in Reservation /\ res.amount \in Int /\ res.amount >= 1
      /\ q \in DOMAIN reservations /\ res.status = "reserved"
  BY DEF TypeOK, finalize, Reservation, AccountingInv, HoldsAreFunded
<1>2. /\ out.adjust = res.amount - c
      /\ out.status \in {"captured", "released"}
      /\ out.status = "released" => c = 0
  BY <1>1, OutcomeType
<1>3. out.ledType = IF out.adjust < 0 THEN "reservation_overage"
                                      ELSE "reservation_release"
  BY <1>1 DEF outcome
<1>4. /\ IF out.adjust # 0 THEN writeReturn(res.user, q, out.adjust, out.ledType)
                          ELSE UNCHANGED <<ledger, accounts>>
      /\ reservations' = [reservations EXCEPT ![q] =
             [@ EXCEPT !.captured = c, !.released = out.returnAmt,
                       !.status = out.status]]
      /\ UNCHANGED recon
  BY DEF finalize
<1> HIDE DEF out
<1>5. /\ DOMAIN reservations' = DOMAIN reservations
      /\ \A p \in DOMAIN reservations : p # q => reservations'[p] = reservations[p]
      /\ reservations'[q] = [res EXCEPT !.captured = c, !.released = out.returnAmt,
                                        !.status = out.status]
  BY <1>1, <1>4
<1>6. /\ reservations'[q].user = res.user /\ reservations'[q].amount = res.amount
      /\ reservations'[q].status = out.status /\ reservations'[q].captured = c
  BY <1>1, <1>5 DEF Reservation
<1>7. Owed(reservations'[q]) = res.amount - (res.amount - c)
  BY <1>1, <1>2, <1>6 DEF Owed
<1> QED BY <1>1, <1>2, <1>3, <1>4, <1>5, <1>6, <1>7 DEF Closes, out

(***************************************************************************)
(* expireOne closes a reservation that is still reserved, and returns what *)
(* is held: the amount its scan read is the amount of the row.             *)
(***************************************************************************)
LEMMA ExpireOneCloses ==
  ASSUME TypeOK, AccountingInv, NEW r \in Reconcilers, NEW st \in recon[r].stales,
         expireOne(r, st), reservations[st.id].status = "reserved"
  PROVE  /\ st.amount \in Int
         /\ st.amount = reservations[st.id].amount
         /\ reservations'[st.id].status = "expired"
         /\ reservations[st.id].age > Timeout
         /\ Closes(st.id, st.amount, "reservation_release")
<1> DEFINE q == st.id
<1>1. /\ q \in DOMAIN reservations
      /\ st.user = reservations[q].user
      /\ st.amount = reservations[q].amount
      /\ reservations[q].age > Timeout
  BY DEF AccountingInv, SnapshotsHold
<1>2. reservations[q] \in Reservation /\ st.amount \in Int /\ st.amount >= 1
  BY <1>1 DEF TypeOK, Reservation, AccountingInv, HoldsAreFunded
<1>3. /\ reservations' = [reservations EXCEPT ![q].status = "expired"]
      /\ writeReturn(st.user, q, st.amount, "reservation_release")
      /\ recon' = [recon EXCEPT ![r].stales = @ \ {st}]
  BY DEF expireOne, StillReserved
<1>4. /\ DOMAIN reservations' = DOMAIN reservations
      /\ \A p \in DOMAIN reservations : p # q => reservations'[p] = reservations[p]
      /\ reservations'[q].user = reservations[q].user
      /\ reservations'[q].amount = reservations[q].amount
      /\ reservations'[q].status = "expired"
  BY <1>1, <1>2, <1>3 DEF Reservation
<1>5. Owed(reservations'[q]) = reservations[q].amount - st.amount
  BY <1>1, <1>2, <1>4 DEF Owed
<1>6. \A p \in Reconcilers : recon'[p].stales \subseteq recon[p].stales
  BY <1>3 DEF TypeOK
<1> QED BY <1>1, <1>2, <1>3, <1>4, <1>5, <1>6 DEF Closes

(***************************************************************************)
(* Steps that leave the tables alone but for the ages.                     *)
(***************************************************************************)
LEMMA QuietAccounting ==
  ASSUME TypeOK, TypeOK', AccountingInv, UNCHANGED <<accounts, ledger>>,
         DOMAIN reservations' = DOMAIN reservations,
         \A q \in DOMAIN reservations :
             /\ reservations'[q].user = reservations[q].user
             /\ reservations'[q].amount = reservations[q].amount
             /\ reservations'[q].captured = reservations[q].captured
             /\ reservations'[q].status = reservations[q].status,
         SnapshotsHold'
  PROVE  AccountingInv'
<1>1. \A w \in Users : Balance(w)' = Balance(w)
  BY DEF Balance
<1>2. \A q \in DOMAIN reservations : Owed(reservations'[q]) = Owed(reservations[q])
  BY DEF Owed
<1>3. ReservationsBalance'
  BY <1>2 DEF AccountingInv, ReservationsBalance
<1> QED BY <1>1, <1>3 DEF AccountingInv, BalancesAgree, HoldsAreFunded,
          NothingOwedBefore, DebtsAreDebits, DebtIsExplained

(***************************************************************************)
(* Every step of the service keeps the accounting invariant.               *)
(***************************************************************************)
LEMMA AccountingNext ==
  TypeOK /\ TypeOK' /\ AccountingInv /\ [Next]_vars => AccountingInv'
<1> SUFFICES ASSUME TypeOK, TypeOK', AccountingInv, [Next]_vars
             PROVE  AccountingInv'
  OBVIOUS
<1> USE AmountsAssumption
<1>1. ASSUME NEW u \in Users, NEW n \in Amounts, NEW k \in IdemKeys, Grant(u, n, k)
      PROVE  AccountingInv'
  BY <1>1, AdjustAccounting DEF Grant, LedgerTypes
<1>2. ASSUME NEW u \in Users, NEW n \in Amounts, NEW k \in IdemKeys, Refund(u, n, k)
      PROVE  AccountingInv'
  <2>1. /\ -n \in Int /\ -n < 0 /\ "refund" \in LedgerTypes
        /\ adjust(u, -n, k, "refund")
    BY <1>2 DEF Refund, LedgerTypes
  <2> QED BY <2>1, AdjustAccounting
<1>3. ASSUME NEW u \in Users, NEW q \in RequestIds, NEW n \in Amounts, Reserve(u, q, n)
      PROVE  AccountingInv'
  BY <1>3, ReserveAccounting
<1>4. ASSUME NEW q \in RequestIds, NEW c \in Costs, Settle(q, c)
      PROVE  AccountingInv'
  <2>1. c \in Int /\ FALSE \in BOOLEAN /\ (FALSE => c = 0) /\ finalize(q, c, FALSE)
    BY <1>4 DEF Settle
  <2>2. \E n \in Int : \E typ : Closes(q, n, typ)
    BY <2>1, FinalizeCloses, Zenon
  <2> QED BY <2>2, CloseAccounting
<1>5. ASSUME NEW q \in RequestIds, Release(q)
      PROVE  AccountingInv'
  <2>1. finalize(q, 0, TRUE)
    BY <1>5, Zenon DEF Release
  <2>2. 0 \in Int /\ TRUE \in BOOLEAN /\ (TRUE => 0 = 0)
    OBVIOUS
  <2>3. \E n \in Int : \E typ : Closes(q, n, typ)
    BY <2>1, <2>2, FinalizeCloses, Zenon
  <2> QED BY <2>3, CloseAccounting
<1>6. ASSUME NEW r \in Reconcilers, expireStale(r)
      PROVE  AccountingInv'
  <2>1. SnapshotsHold'
    BY <1>6 DEF expireStale, AccountingInv, SnapshotsHold, Stale, TypeOK
  <2> QED BY <1>6, <2>1, QuietAccounting DEF expireStale
<1>7. ASSUME NEW r \in Reconcilers, NEW st \in recon[r].stales, expireOne(r, st)
      PROVE  AccountingInv'
  <2>1. CASE reservations[st.id].status = "reserved"
    BY <1>7, <2>1, ExpireOneCloses, CloseAccounting
  <2>2. CASE reservations[st.id].status # "reserved"
    <3>1. UNCHANGED <<accounts, ledger, reservations>>
      BY <1>7, <2>2 DEF expireOne, StillReserved
    <3>2. SnapshotsHold'
      BY <1>7, <3>1 DEF expireOne, StillReserved, AccountingInv, SnapshotsHold, TypeOK
    <3> QED BY <3>1, <3>2, QuietAccounting
  <2> QED BY <2>1, <2>2
<1>8. ASSUME NEW r \in Reconcilers, detectDrift(r)
      PROVE  AccountingInv'
  <2>1. SnapshotsHold'
    BY <1>8 DEF detectDrift, AccountingInv, SnapshotsHold, TypeOK
  <2> QED BY <1>8, <2>1, QuietAccounting DEF detectDrift
<1>9. ASSUME NEW r \in Reconcilers, Abort(r)
      PROVE  AccountingInv'
  <2>1. SnapshotsHold'
    BY <1>9 DEF Abort, AccountingInv, SnapshotsHold, TypeOK
  <2> QED BY <1>9, <2>1, QuietAccounting DEF Abort
<1>10. CASE Tick
  <2>1. /\ DOMAIN reservations' = DOMAIN reservations
        /\ \A q \in DOMAIN reservations :
             /\ reservations'[q].user = reservations[q].user
             /\ reservations'[q].amount = reservations[q].amount
             /\ reservations'[q].captured = reservations[q].captured
             /\ reservations'[q].status = reservations[q].status
             /\ reservations'[q].age >= reservations[q].age
    BY <1>10, TimeAssumption DEF Tick, TypeOK, Reservation
  <2>2. Persists
    BY <2>1 DEF Persists
  <2>3. SnapshotsHold'
    BY <1>10, <2>2, SnapshotsKept DEF Tick, AccountingInv
  <2> QED BY <1>10, <2>1, <2>3, QuietAccounting DEF Tick
<1>11. CASE UNCHANGED vars
  <2>1. SnapshotsHold'
    BY <1>11 DEF vars, AccountingInv, SnapshotsHold
  <2> QED BY <1>11, <2>1, QuietAccounting DEF vars
<1> QED BY <1>1, <1>2, <1>3, <1>4, <1>5, <1>6, <1>7, <1>8, <1>9, <1>10, <1>11
        DEF Next, Operation, Reconcile

(***************************************************************************)
(* The accounting invariant holds in every reachable state.                *)
(***************************************************************************)
THEOREM AccountingCorrect == Spec => []AccountingInv
<1>1. Init => TypeOK /\ AccountingInv
  BY TypeInit, AccountingInit
<1>2. TypeOK /\ AccountingInv /\ [Next]_vars => (TypeOK /\ AccountingInv)'
  BY TypeNext, AccountingNext
<1> QED BY <1>1, <1>2, PTL DEF Spec

(***************************************************************************)
(* Reconcile never has drift to report: for every user the materialized    *)
(* balance is the sum of the ledger rows, in every reachable state.        *)
(***************************************************************************)
THEOREM NeverDrifts == Spec => []NoDrift
<1>1. TypeOK /\ AccountingInv => NoDrift
  <2> SUFFICES ASSUME TypeOK, AccountingInv, NEW u \in Mismatches PROVE FALSE
    BY DEF NoDrift
  <2>1. u \in DOMAIN accounts \cup {ledger[i].user : i \in DOMAIN ledger}
        /\ Balance(u) # LedgerSum(ledger, u)
    BY DEF Mismatches
  <2>2. \A i \in DOMAIN ledger : ledger[i] \in Rows
    BY DEF TypeOK
  <2>3. u \in Users
    BY <2>1, <2>2 DEF TypeOK, Rows
  <2> QED BY <2>1, <2>3 DEF AccountingInv, BalancesAgree
<1> QED BY <1>1, TypeCorrect, AccountingCorrect, PTL

(***************************************************************************)
(* The rows of a reservation add up to what it holds or has taken, however *)
(* Settle, Release and the expiry of Reconcile race for it.                *)
(***************************************************************************)
THEOREM HoldsReturnedOnce == Spec => []ReservationsBalance
<1>1. AccountingInv => ReservationsBalance
  BY DEF AccountingInv
<1> QED BY <1>1, AccountingCorrect, PTL

(***************************************************************************)
(* Nobody is overdrawn by more than refunds and overages took.             *)
(***************************************************************************)
THEOREM DebtExplained == Spec => []DebtIsExplained
<1>1. AccountingInv => DebtIsExplained
  BY DEF AccountingInv
<1> QED BY <1>1, AccountingCorrect, PTL

-----------------------------------------------------------------------------
(***************************************************************************)
(* What a step does to the reservations that exist, by its kind.           *)
(***************************************************************************)
LEMMA StepKinds ==
  ASSUME TypeOK, AccountingInv, Next
  PROVE  \/ \E q \in RequestIds \ DOMAIN reservations, row \in Rows :
                /\ row.ref = q /\ ledger' = Append(ledger, row)
                /\ \A p \in DOMAIN reservations : reservations'[p] = reservations[p]
         \/ \E row \in Rows :
                /\ row.ref = NULL /\ ledger' = Append(ledger, row)
                /\ reservations' = reservations
         \/ \E q \in DOMAIN reservations, n \in Int : \E typ :
                /\ Closes(q, n, typ)
                /\ reservations'[q].status = "expired" => reservations[q].age > Timeout
         \/ UNCHANGED <<ledger, reservations>>
         \/ Tick
<1> USE AmountsAssumption
<1> DEFINE Opens(q, row) ==
             /\ row.ref = q /\ ledger' = Append(ledger, row)
             /\ \A p \in DOMAIN reservations : reservations'[p] = reservations[p]
           Moves(row) == /\ row.ref = NULL /\ ledger' = Append(ledger, row)
                         /\ reservations' = reservations
           Ends(q, n, typ) ==
             /\ Closes(q, n, typ)
             /\ reservations'[q].status = "expired" => reservations[q].age > Timeout
           Goal == \/ \E q \in RequestIds \ DOMAIN reservations, row \in Rows : Opens(q, row)
                   \/ \E row \in Rows : Moves(row)
                   \/ \E q \in DOMAIN reservations, n \in Int : \E typ : Ends(q, n, typ)
                   \/ UNCHANGED <<ledger, reservations>>
                   \/ Tick
<1> SUFFICES Goal
  OBVIOUS
<1>1. ASSUME NEW u \in Users, NEW n \in Int, NEW k \in IdemKeys,
             NEW typ \in LedgerTypes, adjust(u, n, k, typ)
      PROVE  \E row \in Rows : Moves(row)
  <2> DEFINE row == Row(u, n, typ, NULL, k)
  <2>1. row \in Rows /\ row.ref = NULL
    BY <1>1, RowType DEF AllKeys
  <2>2. ledger' = Append(ledger, row) /\ reservations' = reservations
    BY <1>1 DEF adjust
  <2> HIDE DEF row
  <2> QED BY <2>1, <2>2
<1>2. ASSUME NEW u \in Users, NEW q \in RequestIds, NEW n \in Amounts, Reserve(u, q, n)
      PROVE  \E p \in RequestIds \ DOMAIN reservations, row \in Rows : Opens(p, row)
  <2> DEFINE row == Row(u, -n, "reservation", q, ReserveKey(q))
  <2>1. row \in Rows /\ row.ref = q
    <3>1. -n \in Int /\ "reservation" \in LedgerTypes /\ ReserveKey(q) \in AllKeys
      BY DEF AllKeys, LedgerTypes
    <3> QED BY <3>1, RowType
  <2>2. q \notin DOMAIN reservations /\ ledger' = Append(ledger, row)
        /\ \A p \in DOMAIN reservations : reservations'[p] = reservations[p]
    BY <1>2 DEF Reserve, debitReservation, Covers
  <2> HIDE DEF row
  <2> QED BY <2>1, <2>2
<1>3. ASSUME NEW q \in RequestIds, NEW c \in Int, NEW all \in BOOLEAN,
             all => c = 0, finalize(q, c, all)
      PROVE  \E p \in DOMAIN reservations, n \in Int : \E typ : Ends(p, n, typ)
  <2> DEFINE n == reservations[q].amount - c
             typ == outcome(reservations[q], c, all).ledType
  <2>1. n \in Int /\ Closes(q, n, typ)
    BY <1>3, FinalizeCloses
  <2>2. q \in DOMAIN reservations /\ reservations'[q].status # "expired"
    <3>1. q \in DOMAIN reservations /\ reservations[q] \in Reservation
      BY <1>3 DEF finalize, TypeOK
    <3>2. outcome(reservations[q], c, all).status \in {"captured", "released"}
      BY <1>3, <3>1, OutcomeType
    <3>3. reservations'[q].status = outcome(reservations[q], c, all).status
      BY <1>3, <3>1 DEF finalize, TypeOK, Reservation
    <3> QED BY <3>1, <3>2, <3>3
  <2> HIDE DEF n, typ
  <2> QED BY <2>1, <2>2
<1>4. ASSUME NEW r \in Reconcilers, NEW st \in recon[r].stales, expireOne(r, st)
      PROVE  Goal
  <2>1. CASE reservations[st.id].status = "reserved"
    BY <1>4, <2>1, ExpireOneCloses DEF Closes
  <2>2. CASE reservations[st.id].status # "reserved"
    BY <1>4, <2>2 DEF expireOne, StillReserved
  <2> QED BY <2>1, <2>2
<1>5. CASE \E r \in Reconcilers : expireStale(r) \/ detectDrift(r) \/ Abort(r)
  BY <1>5 DEF expireStale, detectDrift, Abort
<1>6. CASE Operation
  <2>1. ASSUME NEW u \in Users, NEW n \in Amounts, NEW k \in IdemKeys, Grant(u, n, k)
        PROVE  \E row \in Rows : Moves(row)
    BY <1>1, <2>1 DEF Grant, LedgerTypes
  <2>2. ASSUME NEW u \in Users, NEW n \in Amounts, NEW k \in IdemKeys, Refund(u, n, k)
        PROVE  \E row \in Rows : Moves(row)
    <3>1. -n \in Int /\ adjust(u, -n, k, "refund") /\ "refund" \in LedgerTypes
      BY <2>2 DEF Refund, LedgerTypes
    <3> QED BY <1>1, <3>1
  <2>3. ASSUME NEW q \in RequestIds, NEW c \in Costs, Settle(q, c)
        PROVE  \E p \in DOMAIN reservations, n \in Int : \E typ : Ends(p, n, typ)
    <3>1. c \in Int /\ FALSE \in BOOLEAN /\ (FALSE => c = 0) /\ finalize(q, c, FALSE)
      BY <2>3 DEF Settle
    <3> HIDE DEF Ends
    <3> QED BY <1>3, <3>1, Zenon
  <2>4. ASSUME NEW q \in RequestIds, Release(q)
        PROVE  \E p \in DOMAIN reservations, n \in Int : \E typ : Ends(p, n, typ)
    <3>1. finalize(q, 0, TRUE)
      BY <2>4, Zenon DEF Release
    <3>2. 0 \in Int /\ TRUE \in BOOLEAN /\ (TRUE => 0 = 0)
      OBVIOUS
    <3> HIDE DEF Ends
    <3> QED BY <1>3, <3>1, <3>2, Zenon
  <2> HIDE DEF Opens, Moves, Ends
  <2> QED BY <1>2, <1>6, <2>1, <2>2, <2>3, <2>4 DEF Operation
<1> HIDE DEF Goal
<1>7. UNCHANGED <<ledger, reservations>> \/ Tick => Goal
  BY DEF Goal
<1>8. CASE \E r \in Reconcilers : Reconcile(r)
  BY <1>4, <1>5, <1>8 DEF Reconcile
<1> QED BY <1>5, <1>6, <1>7, <1>8 DEF Next

(***************************************************************************)
(* No step touches a closed reservation or books a row that refers to it.  *)
(***************************************************************************)
LEMMA ClosedStep ==
  ASSUME TypeOK, AccountingInv, [Next]_vars,
         NEW q \in DOMAIN reservations, reservations[q].status # "reserved"
  PROVE  /\ reservations'[q] = reservations[q]
         /\ RefSum(ledger', q) = RefSum(ledger, q)
<1>0. q \in RequestIds /\ q # NULL
  BY NullAssumption DEF TypeOK
<1>1. ASSUME NEW row \in Rows, row.ref # q, ledger' = Append(ledger, row)
      PROVE  RefSum(ledger', q) = RefSum(ledger, q)
  BY <1>1, BookedRefs
<1>2. ASSUME NEW p \in RequestIds \ DOMAIN reservations, NEW row \in Rows,
             row.ref = p, ledger' = Append(ledger, row),
             \A o \in DOMAIN reservations : reservations'[o] = reservations[o]
      PROVE  /\ reservations'[q] = reservations[q]
             /\ RefSum(ledger', q) = RefSum(ledger, q)
  BY <1>1, <1>2
<1>3. ASSUME NEW row \in Rows, row.ref = NULL, ledger' = Append(ledger, row),
             reservations' = reservations
      PROVE  /\ reservations'[q] = reservations[q]
             /\ RefSum(ledger', q) = RefSum(ledger, q)
  BY <1>0, <1>1, <1>3
<1>4. ASSUME NEW p \in DOMAIN reservations, NEW n \in Int, NEW typ, Closes(p, n, typ)
      PROVE  /\ reservations'[q] = reservations[q]
             /\ RefSum(ledger', q) = RefSum(ledger, q)
  <2>1. p # q /\ reservations'[q] = reservations[q]
    BY <1>4 DEF Closes
  <2>2. RefSum(ledger, q) \in Int /\ RefSum(ledger, q)' = RefSum(ledger, q) + 0
    BY <1>0, <1>4, <2>1, CloseBooks
  <2> QED BY <2>1, <2>2
<1>5. CASE Tick
  BY <1>5 DEF Tick
<1>6. CASE UNCHANGED <<ledger, reservations>>
  BY <1>6
<1>7. CASE UNCHANGED vars
  BY <1>7 DEF vars
<1>8. CASE Next
  BY <1>2, <1>3, <1>4, <1>5, <1>6, <1>8, StepKinds
<1> QED BY <1>7, <1>8

(***************************************************************************)
(* A closed reservation stays as it is, and so does what the ledger says   *)
(* of it, whatever call or Reconcile comes late.                           *)
(***************************************************************************)
THEOREM ClosedStaysClosed == Spec => ClosedIsFinal
<1>1. TypeOK /\ AccountingInv /\ [Next]_vars =>
        [\A q \in DOMAIN reservations :
            reservations[q].status # "reserved" =>
                /\ reservations'[q] = reservations[q]
                /\ RefSum(ledger', q) = RefSum(ledger, q)]_vars
  BY ClosedStep
<1> QED BY <1>1, TypeCorrect, AccountingCorrect, PTL DEF Spec, ClosedIsFinal

(***************************************************************************)
(* A step that expires a reservation finds it older than the timeout.      *)
(***************************************************************************)
LEMMA ExpiryStep ==
  ASSUME TypeOK, AccountingInv, Next, NEW q \in DOMAIN reservations,
         reservations[q].status = "reserved", reservations'[q].status = "expired"
  PROVE  reservations[q].age > Timeout
<1>1. ASSUME NEW p \in DOMAIN reservations, NEW n \in Int, NEW typ, Closes(p, n, typ),
             reservations'[p].status = "expired" => reservations[p].age > Timeout
      PROVE  reservations[q].age > Timeout
  BY <1>1 DEF Closes
<1>2. ~ Tick
  <2> SUFFICES ASSUME Tick PROVE FALSE
    OBVIOUS
  <2>1. reservations'[q].status = reservations[q].status
    BY DEF Tick, TypeOK, Reservation
  <2> QED BY <2>1
<1>3. reservations'[q] # reservations[q]
  OBVIOUS
<1> QED BY <1>1, <1>2, <1>3, StepKinds

(***************************************************************************)
(* Only reservations older than the timeout are ever expired, however old  *)
(* the scan is that Reconcile acts on.                                     *)
(***************************************************************************)
THEOREM ExpiryIsNeverEarly == Spec => NeverExpiredEarly
<1>1. TypeOK /\ AccountingInv /\ [Next]_vars =>
        [\A q \in DOMAIN reservations :
            reservations[q].status = "reserved" /\ reservations'[q].status = "expired"
                => reservations[q].age > Timeout]_vars
  BY ExpiryStep
<1> QED BY <1>1, TypeCorrect, AccountingCorrect, PTL DEF Spec, NeverExpiredEarly

(***************************************************************************)
(* Appending a row without a key, or with one that no row has, leaves no   *)
(* key on two rows.                                                        *)
(***************************************************************************)
LEMMA KeysAppend ==
  ASSUME TypeOK, KeysPayOnce, NEW row, row.key = NULL \/ FreshKey(row.key),
         ledger' = Append(ledger, row)
  PROVE  KeysPayOnce'
<1>1. /\ Len(ledger) \in Nat /\ DOMAIN ledger = 1 .. Len(ledger)
      /\ DOMAIN ledger' = 1 .. Len(ledger) + 1
      /\ \A i \in DOMAIN ledger : ledger'[i] = ledger[i]
      /\ ledger'[Len(ledger) + 1] = row
  BY DEF TypeOK
<1>2. \A i \in DOMAIN ledger : ledger[i].key # NULL => ledger[i].key # row.key
  BY DEF FreshKey, UsedKeys
<1> SUFFICES ASSUME NEW i \in DOMAIN ledger', NEW j \in DOMAIN ledger',
                    ledger'[i].key = ledger'[j].key, ledger'[i].key # NULL
             PROVE  i = j
  BY DEF KeysPayOnce
<1>3. CASE i \in DOMAIN ledger /\ j \in DOMAIN ledger
  BY <1>1, <1>3 DEF KeysPayOnce
<1>4. CASE i \in DOMAIN ledger /\ j = Len(ledger) + 1
  BY <1>1, <1>2, <1>4
<1>5. CASE j \in DOMAIN ledger /\ i = Len(ledger) + 1
  BY <1>1, <1>2, <1>5
<1>6. CASE i = Len(ledger) + 1 /\ j = Len(ledger) + 1
  BY <1>6
<1> QED BY <1>1, <1>3, <1>4, <1>5, <1>6

(***************************************************************************)
(* Every step of the service books at most one row, and no key twice.      *)
(***************************************************************************)
LEMMA KeysNext == TypeOK /\ KeysPayOnce /\ [Next]_vars => KeysPayOnce'
<1> SUFFICES ASSUME TypeOK, KeysPayOnce, [Next]_vars
             PROVE  KeysPayOnce'
  OBVIOUS
<1>1. ASSUME NEW u, NEW n, NEW k, NEW typ, adjust(u, n, k, typ)
      PROVE  KeysPayOnce'
  <2>1. ledger' = Append(ledger, Row(u, n, typ, NULL, k)) /\ FreshKey(k)
    BY <1>1 DEF adjust
  <2>2. Row(u, n, typ, NULL, k).key = k
    BY DEF Row
  <2> QED BY <2>1, <2>2, KeysAppend
<1>2. ASSUME NEW u, NEW q, NEW n, Reserve(u, q, n)
      PROVE  KeysPayOnce'
  <2>1. /\ ledger' = Append(ledger, Row(u, -n, "reservation", q, ReserveKey(q)))
        /\ FreshKey(ReserveKey(q))
    BY <1>2 DEF Reserve, debitReservation
  <2>2. Row(u, -n, "reservation", q, ReserveKey(q)).key = ReserveKey(q)
    BY DEF Row
  <2> QED BY <2>1, <2>2, KeysAppend
<1>3. ASSUME NEW u, NEW q, NEW n, NEW typ, writeReturn(u, q, n, typ)
      PROVE  KeysPayOnce'
  <2>1. ledger' = Append(ledger, Row(u, n, typ, q, NULL))
    BY <1>3 DEF writeReturn
  <2>2. Row(u, n, typ, q, NULL).key = NULL
    BY DEF Row
  <2> QED BY <2>1, <2>2, KeysAppend
<1>4. ASSUME UNCHANGED ledger
      PROVE  KeysPayOnce'
  BY <1>4 DEF KeysPayOnce
<1>5. ASSUME NEW q, NEW c, NEW all, finalize(q, c, all)
      PROVE  KeysPayOnce'
  <2>1. \/ UNCHANGED ledger
        \/ \E u, n, typ : writeReturn(u, q, n, typ)
    BY <1>5 DEF finalize
  <2> QED BY <2>1, <1>3, <1>4
<1>6. ASSUME NEW r, NEW st, expireOne(r, st)
      PROVE  KeysPayOnce'
  <2>1. \/ UNCHANGED ledger
        \/ writeReturn(st.user, st.id, st.amount, "reservation_release")
    BY <1>6 DEF expireOne
  <2> QED BY <2>1, <1>3, <1>4
<1>7. CASE Operation
  BY <1>7, <1>1, <1>2, <1>5 DEF Operation, Grant, Refund, Settle, Release
<1>8. CASE \E r \in Reconcilers : Reconcile(r)
  BY <1>8, <1>4, <1>6 DEF Reconcile, expireStale, detectDrift
<1>9. CASE (\E r \in Reconcilers : Abort(r)) \/ Tick \/ UNCHANGED vars
  BY <1>9, <1>4 DEF Abort, Tick, vars
<1> QED BY <1>7, <1>8, <1>9 DEF Next

(***************************************************************************)
(* No idempotency key is paid twice, whether a caller chose it or Reserve  *)
(* derived it, in every run of adjust, Reserve, finalize and Reconcile.    *)
(***************************************************************************)
THEOREM KeysArePaidOnce == Spec => []KeysPayOnce
<1>1. Init => KeysPayOnce
  BY DEF Init, KeysPayOnce
<1> QED BY <1>1, KeysNext, TypeCorrect, PTL DEF Spec

-----------------------------------------------------------------------------
(***************************************************************************)
(* The credit service implements Escrow: the empty tables map to an empty  *)
(* escrow, and every step of the service to a step of the escrow or to     *)
(* none.                                                                   *)
(***************************************************************************)

(***************************************************************************)
(* Booking a row that no request is charged by spends its key.             *)
(***************************************************************************)
LEMMA SpentAppend ==
  ASSUME TypeOK, NEW row, ledger' = Append(ledger, row)
  PROVE  SpentKeys' = IF row.ref = NULL THEN SpentKeys \cup {row.key} ELSE SpentKeys
<1>1. /\ Len(ledger) \in Nat /\ DOMAIN ledger = 1 .. Len(ledger)
      /\ DOMAIN ledger' = 1 .. Len(ledger) + 1
      /\ \A i \in DOMAIN ledger : ledger'[i] = ledger[i]
      /\ ledger'[Len(ledger) + 1] = row
  BY DEF TypeOK
<1>2. \A k : k \in SpentKeys <=> \E i \in DOMAIN ledger : ledger[i].ref = NULL /\ ledger[i].key = k
  BY DEF SpentKeys
<1>3. \A k : k \in SpentKeys' <=> \E i \in DOMAIN ledger' : ledger'[i].ref = NULL /\ ledger'[i].key = k
  BY DEF SpentKeys
<1>4. \A i : i \in DOMAIN ledger' <=> i \in DOMAIN ledger \/ i = Len(ledger) + 1
  BY <1>1
<1>5. \A k : k \in SpentKeys' <=> k \in SpentKeys \/ (row.ref = NULL /\ row.key = k)
  BY <1>1, <1>2, <1>3, <1>4
<1> QED BY <1>5

(***************************************************************************)
(* Grant and Refund (adjust) transfer.                                     *)
(***************************************************************************)
LEMMA TransferStep ==
  ASSUME TypeOK, NEW u \in Users, NEW n \in Int, NEW k \in IdemKeys, NEW typ,
         adjust(u, n, k, typ)
  PROVE  Escrow!Transfer(u, n, k)
<1> DEFINE row == Row(u, n, typ, NULL, k)
<1>1. row.ref = NULL /\ row.key = k
  BY DEF Row
<1>2. ledger' = Append(ledger, row) /\ FreshKey(k)
  BY DEF adjust
<1> HIDE DEF row
<1>3. SpentKeys' = SpentKeys \cup {k}
  BY <1>1, <1>2, SpentAppend
<1>4. k \notin SpentKeys
  BY <1>2, NullAssumption DEF SpentKeys, FreshKey, UsedKeys
<1>5. \A w \in Users : Balance(w)' = IF w = u THEN Balance(u) + n ELSE Balance(w)
  BY DEF adjust, Balance
<1>6. [w \in Users |-> Balance(w)]' = [[w \in Users |-> Balance(w)] EXCEPT ![u] = @ + n]
  BY <1>5
<1>7. reservations' = reservations
  BY DEF adjust
<1> QED BY <1>3, <1>4, <1>6, <1>7 DEF Escrow!Transfer, HoldOf, ChargeOf, ClosedRequests

(***************************************************************************)
(* Reserve, of a request that has no reservation, holds.                   *)
(***************************************************************************)
LEMMA HoldStep ==
  ASSUME TypeOK, NEW u \in Users, NEW q \in RequestIds, NEW n \in Amounts,
         Reserve(u, q, n)
  PROVE  Escrow!Hold(u, q, n)
<1> DEFINE row == Row(u, -n, "reservation", q, ReserveKey(q))
           new == [user |-> u, amount |-> n, captured |-> 0, released |-> 0,
                   status |-> "reserved", age |-> 0]
<1>0. n \in Int /\ n > 0
  BY AmountsAssumption DEF Reserve
<1>1. row.ref = q /\ q # NULL
  BY NullAssumption DEF Row
<1>2. /\ ledger' = Append(ledger, row)
      /\ u \in DOMAIN accounts /\ accounts[u] - n >= 0
      /\ accounts' = [accounts EXCEPT ![u] = @ - n]
      /\ q \notin DOMAIN reservations
      /\ reservations' = [p \in DOMAIN reservations \cup {q} |->
                             IF p = q THEN new ELSE reservations[p]]
  BY DEF Reserve, debitReservation, Covers
<1> HIDE DEF row
<1>3. SpentKeys' = SpentKeys
  BY <1>1, <1>2, SpentAppend
<1>4. /\ \A w \in Users : Balance(w)' = IF w = u THEN Balance(u) - n ELSE Balance(w)
      /\ Balance(u) >= n
  BY <1>0, <1>2 DEF Balance, TypeOK
<1>5. [w \in Users |-> Balance(w)]' = [[w \in Users |-> Balance(w)] EXCEPT ![u] = @ - n]
  BY <1>4
<1>6. /\ new.user = u /\ new.amount = n /\ new.captured = 0 /\ new.status = "reserved"
      /\ DOMAIN reservations' = DOMAIN reservations \cup {q}
      /\ reservations'[q] = new
      /\ \A p \in DOMAIN reservations : reservations'[p] = reservations[p]
  BY <1>2
<1> HIDE DEF new
<1>7. /\ HoldOf(q) = {} /\ HoldOf(q)' = {[user |-> u, amount |-> n]}
      /\ \A p \in RequestIds : p # q => HoldOf(p)' = HoldOf(p)
  BY <1>2, <1>6 DEF HoldOf
<1>8. \A p \in RequestIds : ChargeOf(p)' = ChargeOf(p)
  BY <1>2, <1>6 DEF ChargeOf
<1>9. ClosedRequests' = ClosedRequests /\ q \notin ClosedRequests
  BY <1>2, <1>6 DEF ClosedRequests
<1>10. [p \in RequestIds |-> HoldOf(p)]' =
           [[p \in RequestIds |-> HoldOf(p)] EXCEPT ![q] = {[user |-> u, amount |-> n]}]
  BY <1>7
<1>11. [p \in RequestIds |-> ChargeOf(p)]' = [p \in RequestIds |-> ChargeOf(p)]
  BY <1>8
<1> QED BY <1>0, <1>3, <1>4, <1>5, <1>7, <1>9, <1>10, <1>11 DEF Escrow!Hold

(***************************************************************************)
(* Closing a reservation, by Settle, Release or expiry, ends its hold for  *)
(* what is captured.                                                       *)
(***************************************************************************)
LEMMA EndStep ==
  ASSUME TypeOK, AccountingInv, NEW q, NEW c \in Int, NEW typ, c >= 0,
         Closes(q, reservations[q].amount - c, typ),
         reservations'[q].captured = c
  PROVE  Escrow!End(q, [user |-> reservations[q].user,
                        amount |-> reservations[q].amount], c)
<1> DEFINE u == reservations[q].user
           m == reservations[q].amount
           n == m - c
           h == [user |-> u, amount |-> m]
<1>0. /\ q \in DOMAIN reservations /\ q \in RequestIds
      /\ u \in DOMAIN accounts /\ u \in Users /\ m \in Int
  BY DEF Closes, AccountingInv, HoldsAreFunded, TypeOK, Reservation
<1>1. /\ reservations[q].status = "reserved" /\ reservations'[q].status # "reserved"
      /\ DOMAIN reservations' = DOMAIN reservations
      /\ \A p \in DOMAIN reservations : p # q => reservations'[p] = reservations[p]
  BY DEF Closes
<1>2. IF n # 0 THEN writeReturn(u, q, n, typ) ELSE UNCHANGED <<ledger, accounts>>
  BY DEF Closes
<1>3. h.user = u /\ h.amount = m
  OBVIOUS
<1>4. HoldOf(q) = {h} /\ HoldOf(q)' = {}
  BY <1>0, <1>1 DEF HoldOf
<1> HIDE DEF u, m, h
<1>5. n \in Int /\ q # NULL
  BY <1>0, NullAssumption
<1>6. SpentKeys' = SpentKeys
  <2>1. CASE n # 0
    <3>1. ledger' = Append(ledger, Row(u, n, typ, q, NULL))
      BY <1>2, <2>1 DEF writeReturn
    <3>2. Row(u, n, typ, q, NULL).ref = q
      BY DEF Row
    <3> QED BY <1>5, <3>1, <3>2, SpentAppend
  <2>2. CASE n = 0
    BY <1>2, <2>2 DEF SpentKeys
  <2> QED BY <2>1, <2>2
<1>7. \A w \in Users : Balance(w)' = IF w = u THEN Balance(u) + m - c ELSE Balance(w)
  <2>1. CASE n # 0
    <3>1. accounts' = [accounts EXCEPT ![u] = @ + n]
      BY <1>2, <2>1 DEF writeReturn
    <3> QED BY <1>0, <3>1 DEF Balance, TypeOK
  <2>2. CASE n = 0
    BY <1>0, <1>2, <2>2 DEF Balance, TypeOK
  <2> QED BY <2>1, <2>2
<1>8. [w \in Users |-> Balance(w)]' =
          [[w \in Users |-> Balance(w)] EXCEPT ![u] = @ + m - c]
  BY <1>7
<1>9. [p \in RequestIds |-> HoldOf(p)]' = [[p \in RequestIds |-> HoldOf(p)] EXCEPT ![q] = {}]
  <2>1. \A p \in RequestIds : p # q => HoldOf(p)' = HoldOf(p)
    BY <1>1 DEF HoldOf
  <2> QED BY <1>4, <2>1
<1>10. [p \in RequestIds |-> ChargeOf(p)]' =
           [[p \in RequestIds |-> ChargeOf(p)] EXCEPT ![q] = c]
  <2>1. ChargeOf(q)' = c /\ \A p \in RequestIds : p # q => ChargeOf(p)' = ChargeOf(p)
    BY <1>0, <1>1 DEF ChargeOf
  <2> QED BY <2>1
<1>11. ClosedRequests' = ClosedRequests \cup {q}
  BY <1>0, <1>1 DEF ClosedRequests
<1>12. Escrow!End(q, h, c)
  BY <1>0, <1>3, <1>4, <1>6, <1>8, <1>9, <1>10, <1>11 DEF Escrow!End
<1> QED BY <1>12 DEF h, u, m

(***************************************************************************)
(* Settle and Release (finalize) end a hold for the cost they are given.   *)
(***************************************************************************)
LEMMA FinalizeEnds ==
  ASSUME TypeOK, AccountingInv, NEW q \in RequestIds, NEW c \in Int,
         NEW all \in BOOLEAN, all => c = 0, finalize(q, c, all)
  PROVE  Escrow!End(q, [user |-> reservations[q].user,
                        amount |-> reservations[q].amount], c)
<1>1. \E typ : Closes(q, reservations[q].amount - c, typ)
  BY FinalizeCloses
<1>2. q \in DOMAIN reservations /\ reservations[q] \in Reservation /\ c >= 0
  BY DEF finalize, TypeOK
<1>3. reservations'[q].captured = c
  BY <1>2 DEF finalize, TypeOK, Reservation
<1> QED BY <1>1, <1>2, <1>3, EndStep

(***************************************************************************)
(* An expiry ends a hold for nothing, or finds it ended.                   *)
(***************************************************************************)
LEMMA ExpireEnds ==
  ASSUME TypeOK, AccountingInv, OpenIsUncharged,
         NEW r \in Reconcilers, NEW st \in recon[r].stales, expireOne(r, st)
  PROVE  \/ st.id \in RequestIds
            /\ Escrow!End(st.id, [user |-> reservations[st.id].user,
                                  amount |-> reservations[st.id].amount], 0)
         \/ UNCHANGED <<accounts, ledger, reservations>>
<1>1. CASE reservations[st.id].status = "reserved"
  <2>1. /\ st.amount \in Int /\ st.amount = reservations[st.id].amount
        /\ Closes(st.id, st.amount, "reservation_release")
    BY <1>1, ExpireOneCloses
  <2>2. /\ st.id \in DOMAIN reservations /\ st.id \in RequestIds
        /\ reservations[st.id] \in Reservation
    BY <2>1 DEF Closes, TypeOK
  <2>3. reservations'[st.id].captured = 0
    BY <1>1, <2>2 DEF expireOne, StillReserved, OpenIsUncharged, Reservation
  <2>4. Closes(st.id, reservations[st.id].amount - 0, "reservation_release")
    BY <2>1
  <2> QED BY <2>2, <2>3, <2>4, EndStep
<1>2. CASE reservations[st.id].status # "reserved"
  BY <1>2 DEF expireOne, StillReserved
<1> QED BY <1>1, <1>2

(***************************************************************************)
(* No step gives an open reservation a captured amount.                    *)
(***************************************************************************)
LEMMA UnchargedNext ==
  ASSUME TypeOK, OpenIsUncharged, [Next]_vars
  PROVE  OpenIsUncharged'
<1> SUFFICES ASSUME NEW q \in DOMAIN reservations',
                    reservations'[q].status = "reserved"
             PROVE  reservations'[q].captured = 0
  BY DEF OpenIsUncharged
<1> DEFINE Same == /\ q \in DOMAIN reservations
                   /\ reservations'[q].status = reservations[q].status
                   /\ reservations'[q].captured = reservations[q].captured
<1>0. Same => reservations'[q].captured = 0
  BY DEF OpenIsUncharged
<1>1. ASSUME NEW u, NEW n, NEW k, NEW typ, adjust(u, n, k, typ)
      PROVE  Same
  BY <1>1 DEF adjust
<1>2. ASSUME NEW u, NEW p, NEW n, Reserve(u, p, n)
      PROVE  reservations'[q].captured = 0
  BY <1>2 DEF Reserve, debitReservation, OpenIsUncharged
<1>3. ASSUME NEW p, NEW c, NEW all \in BOOLEAN, finalize(p, c, all)
      PROVE  Same
  <2>1. reservations[p] \in Reservation /\ p \in DOMAIN reservations
    BY <1>3 DEF finalize, TypeOK
  <2>2. outcome(reservations[p], c, all).status \in {"captured", "released"}
    BY <1>3 DEF outcome
  <2>3. reservations'[p].status = outcome(reservations[p], c, all).status
    BY <1>3, <2>1 DEF finalize, TypeOK, Reservation
  <2>4. p # q
    BY <2>2, <2>3
  <2> QED BY <1>3, <2>4 DEF finalize, TypeOK
<1>4. ASSUME NEW r, NEW st, expireOne(r, st)
      PROVE  Same
  BY <1>4 DEF expireOne, TypeOK, Reservation
<1>5. CASE Tick
  BY <1>5 DEF Tick, TypeOK, Reservation, OpenIsUncharged
<1>6. CASE UNCHANGED reservations
  BY <1>6, <1>0
<1> HIDE DEF Same
<1>7. CASE Operation
  <2>1. ASSUME NEW p, NEW c, Settle(p, c)
        PROVE  Same
    <3>1. finalize(p, c, FALSE) /\ FALSE \in BOOLEAN
      BY <2>1, Zenon DEF Settle
    <3> QED BY <1>3, <3>1, Zenon
  <2>2. ASSUME NEW p, Release(p)
        PROVE  Same
    <3>1. finalize(p, 0, TRUE) /\ TRUE \in BOOLEAN
      BY <2>2, Zenon DEF Release
    <3> QED BY <1>3, <3>1, Zenon
  <2> QED BY <1>0, <1>1, <1>2, <1>7, <2>1, <2>2 DEF Operation, Grant, Refund
<1>8. CASE \E r \in Reconcilers : Reconcile(r) \/ Abort(r)
  BY <1>0, <1>4, <1>6, <1>8 DEF Reconcile, expireStale, detectDrift, Abort
<1> QED BY <1>5, <1>6, <1>7, <1>8 DEF Next, vars

(***************************************************************************)
(* A step that leaves accounts, ledger and the status and captured amount  *)
(* of every reservation alone is invisible in the escrow.                  *)
(***************************************************************************)
LEMMA QuietStep ==
  ASSUME UNCHANGED <<accounts, ledger>>,
         DOMAIN reservations' = DOMAIN reservations,
         \A q \in DOMAIN reservations :
             /\ reservations'[q].user = reservations[q].user
             /\ reservations'[q].amount = reservations[q].amount
             /\ reservations'[q].captured = reservations[q].captured
             /\ reservations'[q].status = reservations[q].status
  PROVE  UNCHANGED Escrow!vars
<1>1. [w \in Users |-> Balance(w)]' = [w \in Users |-> Balance(w)]
  BY DEF Balance
<1>2. \A q \in RequestIds : HoldOf(q)' = HoldOf(q) /\ ChargeOf(q)' = ChargeOf(q)
  BY DEF HoldOf, ChargeOf
<1>3. /\ [q \in RequestIds |-> HoldOf(q)]' = [q \in RequestIds |-> HoldOf(q)]
      /\ [q \in RequestIds |-> ChargeOf(q)]' = [q \in RequestIds |-> ChargeOf(q)]
  BY <1>2
<1>4. ClosedRequests' = ClosedRequests /\ SpentKeys' = SpentKeys
  BY DEF ClosedRequests, SpentKeys
<1> QED BY <1>1, <1>3, <1>4 DEF Escrow!vars

(***************************************************************************)
(* Every step of the service is a step of the escrow, or invisible.        *)
(***************************************************************************)
LEMMA EscrowStep ==
  ASSUME TypeOK, AccountingInv, OpenIsUncharged, [Next]_vars
  PROVE  [Escrow!Next]_Escrow!vars
<1>1. ASSUME NEW u \in Users, NEW n \in Amounts, NEW k \in IdemKeys,
             Grant(u, n, k) \/ Refund(u, n, k)
      PROVE  Escrow!Next
  <2>1. n \in Int /\ -n \in Int
    BY AmountsAssumption
  <2>2. Escrow!Transfer(u, n, k) \/ Escrow!Transfer(u, -n, k)
    BY <1>1, <2>1, TransferStep DEF Grant, Refund
  <2> QED BY <2>2 DEF Escrow!Next
<1>2. ASSUME NEW u \in Users, NEW q \in RequestIds, NEW n \in Amounts, Reserve(u, q, n)
      PROVE  Escrow!Next
  BY <1>2, HoldStep DEF Escrow!Next
<1>3. ASSUME NEW q \in RequestIds, NEW c \in Costs \cup {0}, NEW h, Escrow!End(q, h, c)
      PROVE  Escrow!Next
  <2>1. h \in [p \in RequestIds |-> HoldOf(p)][q]
    BY <1>3 DEF Escrow!End
  <2> QED BY <1>3, <2>1 DEF Escrow!Next
<1>4. ASSUME NEW q \in RequestIds, NEW c \in Costs, Settle(q, c)
      PROVE  Escrow!Next
  <2>1. finalize(q, c, FALSE) /\ FALSE \in BOOLEAN /\ (FALSE => c = 0)
    BY <1>4, Zenon DEF Settle
  <2>2. c \in Int /\ c \in Costs \cup {0}
    BY AmountsAssumption
  <2>3. \E h : Escrow!End(q, h, c)
    BY <2>1, <2>2, FinalizeEnds, Zenon
  <2> QED BY <1>3, <2>2, <2>3
<1>5. ASSUME NEW q \in RequestIds, Release(q)
      PROVE  Escrow!Next
  <2>1. finalize(q, 0, TRUE) /\ TRUE \in BOOLEAN /\ (TRUE => 0 = 0)
    BY <1>5, Zenon DEF Release
  <2>2. 0 \in Int /\ 0 \in Costs \cup {0}
    OBVIOUS
  <2>3. \E h : Escrow!End(q, h, 0)
    BY <2>1, <2>2, FinalizeEnds, Zenon
  <2> QED BY <1>3, <2>2, <2>3
<1>6. ASSUME NEW r \in Reconcilers, NEW st \in recon[r].stales, expireOne(r, st)
      PROVE  Escrow!Next \/ UNCHANGED Escrow!vars
  <2>1. \/ st.id \in RequestIds /\ \E h : Escrow!End(st.id, h, 0)
        \/ UNCHANGED <<accounts, ledger, reservations>>
    BY <1>6, ExpireEnds, Zenon
  <2>2. 0 \in Costs \cup {0}
    OBVIOUS
  <2> QED BY <1>3, <2>1, <2>2, QuietStep
<1>7. CASE Tick
  <2>1. /\ UNCHANGED <<accounts, ledger>>
        /\ DOMAIN reservations' = DOMAIN reservations
        /\ \A q \in DOMAIN reservations :
               /\ reservations'[q].user = reservations[q].user
               /\ reservations'[q].amount = reservations[q].amount
               /\ reservations'[q].captured = reservations[q].captured
               /\ reservations'[q].status = reservations[q].status
    BY <1>7 DEF Tick, TypeOK, Reservation
  <2> QED BY <2>1, QuietStep
<1>8. CASE UNCHANGED <<accounts, ledger, reservations>>
  BY <1>8, QuietStep
<1>9. CASE Operation
  BY <1>1, <1>2, <1>4, <1>5, <1>9 DEF Operation
<1>10. CASE \E r \in Reconcilers : Reconcile(r) \/ Abort(r)
  BY <1>6, <1>8, <1>10 DEF Reconcile, expireStale, detectDrift, Abort
<1> QED BY <1>7, <1>8, <1>9, <1>10 DEF Next, vars

(***************************************************************************)
(* The empty tables are an empty escrow.                                   *)
(***************************************************************************)
LEMMA EscrowInit == Init => Escrow!Init /\ OpenIsUncharged
BY DEF Init, Escrow!Init, OpenIsUncharged, Balance, HoldOf, ChargeOf,
       ClosedRequests, SpentKeys

(***************************************************************************)
(* Refinement: Grant, Refund, Reserve, Settle, Release and any number of   *)
(* interleaved and interrupted Reconcile loops implement an escrow.        *)
(***************************************************************************)
THEOREM ServiceIsEscrow == Spec => ImplementsEscrow
<1>1. TypeOK /\ OpenIsUncharged /\ [Next]_vars => OpenIsUncharged'
  BY UnchargedNext
<1>2. TypeOK /\ AccountingInv /\ OpenIsUncharged /\ [Next]_vars
        => [Escrow!Next]_Escrow!vars
  BY EscrowStep
<1> QED BY <1>1, <1>2, EscrowInit, TypeCorrect, AccountingCorrect, PTL
        DEF Spec, ImplementsEscrow, Escrow!Spec
=============================================================================
