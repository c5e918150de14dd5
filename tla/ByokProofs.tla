----------------------------- MODULE ByokProofs ------------------------------
(***************************************************************************)
(* Proofs about the store of users' keys and the relay, for any owners,    *)
(* instances, sealing keys, calls of Put, relayed calls, answers, bound of *)
(* the buffers and faults.                                                 *)
(***************************************************************************)
EXTENDS ByokRelay, FiniteSetTheorems, TLAPS

(***************************************************************************)
(* What the invariant is about; the count of faults is not.                *)
(***************************************************************************)
keyVars == <<credentials, writers, budget, history, disturbed, revoked>>

(***************************************************************************)
(* At the start: an empty table, and no Put under way.                     *)
(***************************************************************************)
LEMMA InitInv == RelayInit => StoreInv
<1> SUFFICES ASSUME RelayInit PROVE StoreInv
  OBVIOUS
<1> USE StoreAssumption
<1>1. StoreTypeOK
  BY DEF RelayInit, StoreInit, StoreTypeOK, NotWriting
<1>2. RotationsChain
  <2> SUFFICES ASSUME NEW o \in Owners \ disturbed
               PROVE  LET n == Len(history[o])
                      IN  /\ Stored(o).version = n
                          /\ Stored(o).key = (IF n > 0 THEN history[o][n] ELSE NULL)
                          /\ Stored(o).previous = (IF n > 1 THEN history[o][n - 1] ELSE NULL)
    BY DEF RotationsChain
  <2>1. Stored(o) = [key |-> NULL, version |-> 0, previous |-> NULL]
    BY DEF RelayInit, StoreInit, Stored
  <2>2. history[o] = << >> /\ Len(history[o]) = 0
    BY DEF RelayInit, StoreInit
  <2> QED BY <2>1, <2>2
<1>3. ReadsAreCurrent
  BY DEF RelayInit, StoreInit, ReadsAreCurrent, NotWriting
<1>4. KeysStayWithOwner
  BY DEF RelayInit, StoreInit, KeysStayWithOwner, NotWriting
<1> QED BY <1>1, <1>2, <1>3, <1>4 DEF StoreInv

(***************************************************************************)
(* A relayed call reads the store and leaves it alone.                     *)
(***************************************************************************)
LEMMA RelayLeavesStore ==
  ASSUME NEW c \in DOMAIN Calls, RelayStep(c)
  PROVE  UNCHANGED keyVars
BY DEF RelayStep, GetCurrent, GetPrevious, Answer, NoAnswer, Capture, Copied, HangUp,
       MeterTimesOut, Finish, storeVars, keyVars

(***************************************************************************)
(* Steps that leave the store alone keep the invariant.                    *)
(***************************************************************************)
LEMMA UnchangedInv == StoreInv /\ UNCHANGED keyVars => StoreInv'
BY DEF StoreInv, keyVars, StoreTypeOK, RotationsChain, ReadsAreCurrent, KeysStayWithOwner,
       Stored, Writing, Sealings

(***************************************************************************)
(* Put begins: the new key is sealed with a nonce of its own, and another  *)
(* Put of the same owner is noticed.                                       *)
(***************************************************************************)
LEMMA PutSealInv ==
  ASSUME StoreInv, NEW w \in Writers, NEW i \in Instances, NEW o \in Owners,
         NEW cred \in Creds, PutSeal(w, i, o, cred)
  PROVE  StoreInv'
<1> USE StoreAssumption
<1> DEFINE s == seal(i, o, cred, budget)
           x == [pc |-> "key", owner |-> o, sealed |-> s, prev |-> NULL, version |-> 0]
<1>0. StoreTypeOK /\ RotationsChain /\ ReadsAreCurrent /\ KeysStayWithOwner
  BY DEF StoreInv
<1>1. /\ writers[w].pc = "idle" /\ writers[w].owner = NULL
      /\ budget \in Nat /\ budget > 0 /\ budget' = budget - 1
      /\ credentials' = credentials /\ history' = history /\ revoked' = revoked
      /\ disturbed' = IF Writing(o) = {} THEN disturbed ELSE disturbed \cup {o}
  BY <1>0 DEF PutSeal, StoreTypeOK
<1>x. writers' = [writers EXCEPT ![w] = x]
  BY DEF PutSeal
<1>2. s \in Sealed /\ s.owner = o /\ s.nonce = budget
  BY <1>1 DEF seal, Sealed
<1>3. s \notin revoked /\ NULL \notin revoked
  BY <1>0, <1>1, <1>2 DEF KeysStayWithOwner
<1>4. \A v \in Writers : writers'[v] = IF v = w THEN x ELSE writers[v]
  BY <1>0, <1>x DEF StoreTypeOK
<1>5. StoreTypeOK'
  BY <1>0, <1>1, <1>x, <1>2, <1>4 DEF StoreTypeOK
<1>6. RotationsChain'
  BY <1>0, <1>1 DEF RotationsChain, Stored
<1>7. ReadsAreCurrent'
  <2> SUFFICES ASSUME NEW v \in Writers, NEW p \in Owners, p \notin disturbed',
                      writers'[v].owner = p
               PROVE  /\ Writing(p)' = {v}
                      /\ writers'[v].pc \in {"version", "write"} =>
                             writers'[v].prev = Stored(p)'.key
                      /\ writers'[v].pc = "write" =>
                             writers'[v].version = nextVersion(Stored(p)'.version)
    BY DEF ReadsAreCurrent, nextVersion
  <2>1. CASE v = w
    <3>1. p = o /\ Writing(o) = {}
      BY <2>1, <1>1, <1>4
    <3>2. Writing(o)' = {w}
      BY <3>1, <1>4 DEF Writing
    <3> QED BY <2>1, <3>1, <3>2, <1>4
  <2>2. CASE v # w
    <3>1. writers'[v] = writers[v] /\ p \in Owners \ disturbed
      BY <2>2, <1>1, <1>4
    <3>2. p # o
      BY <2>2, <3>1, <1>1 DEF Writing
    <3>3. Writing(p)' = Writing(p)
      BY <3>1, <3>2, <1>1, <1>4 DEF Writing
    <3>4. Stored(p)' = Stored(p)
      BY <1>1 DEF Stored
    <3> QED BY <3>1, <3>3, <3>4, <1>0 DEF ReadsAreCurrent
  <2> QED BY <2>1, <2>2
<1>8. \A p : Sealings(p) \subseteq Sealings(p)'
  BY <1>1 DEF Sealings, Sealed
<1>9. KeysStayWithOwner'
  <2>1. s \in Sealings(o)'
    BY <1>1, <1>2 DEF Sealings
  <2>2. {y \in Sealed : y.nonce > budget} \subseteq {y \in Sealed : y.nonce > budget'}
    BY <1>1 DEF Sealed
  <2>3. \A p \in DOMAIN credentials' :
            /\ credentials'[p].key \in Sealings(p)' \ revoked'
            /\ credentials'[p].previous \in (Sealings(p)' \cup {NULL}) \ revoked'
    BY <1>0, <1>1, <1>8 DEF KeysStayWithOwner
  <2>4. ASSUME NEW v \in Writers, NEW p \in Owners, writers'[v].owner = p
        PROVE  /\ writers'[v].sealed \in Sealings(p)' \ revoked'
               /\ writers'[v].prev \in (Sealings(p)' \cup {NULL}) \ revoked'
    <3>1. CASE v = w
      BY <3>1, <2>1, <2>4, <1>1, <1>3, <1>4
    <3>2. CASE v # w
      BY <3>2, <2>4, <1>0, <1>1, <1>4, <1>8 DEF KeysStayWithOwner
    <3> QED BY <3>1, <3>2
  <2>5. revoked' \subseteq {y \in Sealed : y.nonce > budget'} \ {NULL}
    BY <2>2, <1>0, <1>1 DEF KeysStayWithOwner
  <2> QED BY <2>3, <2>4, <2>5 DEF KeysStayWithOwner
<1> QED BY <1>5, <1>6, <1>7, <1>9 DEF StoreInv

(***************************************************************************)
(* The reads of a Put, and its failure, change the memory of that call     *)
(* only.  A Put that has read goes on with what is stored, or its owner    *)
(* counts as disturbed.                                                    *)
(***************************************************************************)
Reading(x, y) ==
    /\ y.owner = x.owner /\ y.sealed = x.sealed
    /\ y.pc \in {"version", "write"} /\ y.version \in Nat
    /\ y.prev \in {x.prev, Stored(x.owner).key}
    /\ \/ x.owner \in disturbed'
       \/ /\ y.prev = Stored(x.owner).key
          /\ y.pc = "write" => y.version = nextVersion(Stored(x.owner).version)

(***************************************************************************)
(* The local variables of a Put.                                           *)
(***************************************************************************)
Record == [pc : {"idle", "key", "version", "write"}, owner : Owners \cup {NULL},
           sealed : Sealed \cup {NULL}, prev : Sealed \cup {NULL}, version : Nat]

LEMMA WriterInv ==
  ASSUME StoreInv, NEW w \in Writers, writers[w].pc # "idle",
         writers' \in [Writers -> Record],
         \A v \in Writers \ {w} : writers'[v] = writers[v],
         writers'[w] = NotWriting \/ Reading(writers[w], writers'[w]),
         UNCHANGED <<credentials, budget, history, revoked>>,
         disturbed \subseteq disturbed'
  PROVE  StoreInv'
<1> USE StoreAssumption
<1> DEFINE o == writers[w].owner
<1>0. StoreTypeOK /\ RotationsChain /\ ReadsAreCurrent /\ KeysStayWithOwner
  BY DEF StoreInv
<1>1. o \in Owners /\ o # NULL
  BY <1>0 DEF StoreTypeOK
<1>2. /\ writers[w].sealed \in Sealings(o) \ revoked
      /\ writers[w].prev \in (Sealings(o) \cup {NULL}) \ revoked
      /\ NULL \notin revoked
  BY <1>0, <1>1 DEF KeysStayWithOwner
<1>3. Stored(o).key \in (Sealings(o) \cup {NULL}) \ revoked
  BY <1>0, <1>2 DEF KeysStayWithOwner, Stored
<1>4. \A p : Stored(p)' = Stored(p) /\ Sealings(p)' = Sealings(p)
  BY DEF Stored, Sealings
<1>5. StoreTypeOK'
  <2>1. writers'[w].pc = "idle" <=> writers'[w].owner = NULL
    BY <1>1 DEF NotWriting, Reading
  <2> QED BY <2>1, <1>0 DEF StoreTypeOK, Record
<1>6. RotationsChain'
  BY <1>0 DEF RotationsChain, Stored
<1>7. ReadsAreCurrent'
  <2> SUFFICES ASSUME NEW v \in Writers, NEW p \in Owners, p \notin disturbed',
                      writers'[v].owner = p
               PROVE  /\ Writing(p)' = {v}
                      /\ writers'[v].pc \in {"version", "write"} =>
                             writers'[v].prev = Stored(p)'.key
                      /\ writers'[v].pc = "write" =>
                             writers'[v].version = nextVersion(Stored(p)'.version)
    BY DEF ReadsAreCurrent, nextVersion
  <2>0. p # NULL /\ p \in Owners \ disturbed
    OBVIOUS
  <2>1. CASE v = w
    <3>1. Reading(writers[w], writers'[w]) /\ p = o
      BY <2>0, <2>1 DEF NotWriting, Reading
    <3>2. Writing(p) = {w}
      BY <3>1, <2>0, <1>0 DEF ReadsAreCurrent
    <3>3. Writing(p)' = {w}
      BY <2>1, <3>1, <3>2 DEF Writing
    <3> QED BY <2>1, <3>1, <3>3, <1>4 DEF Reading
  <2>2. CASE v # w
    <3>1. writers'[v] = writers[v]
      BY <2>2
    <3>2. Writing(p) = {v}
      BY <3>1, <2>0, <1>0 DEF ReadsAreCurrent
    <3>3. writers'[w].owner # p
      BY <2>0, <2>2, <3>2 DEF Writing, NotWriting, Reading
    <3>4. Writing(p)' = {v}
      BY <2>2, <3>1, <3>2, <3>3 DEF Writing
    <3> QED BY <2>0, <3>1, <3>4, <1>0, <1>4 DEF ReadsAreCurrent
  <2> QED BY <2>1, <2>2
<1>8. KeysStayWithOwner'
  <2>1. ASSUME NEW v \in Writers, NEW p \in Owners, writers'[v].owner = p
        PROVE  /\ writers'[v].sealed \in Sealings(p)' \ revoked'
               /\ writers'[v].prev \in (Sealings(p)' \cup {NULL}) \ revoked'
    <3>1. CASE v = w
      <4>1. Reading(writers[w], writers'[w]) /\ p = o
        BY <2>1, <3>1 DEF NotWriting, Reading
      <4> QED BY <3>1, <4>1, <1>2, <1>3, <1>4 DEF Reading
    <3>2. CASE v # w
      BY <3>2, <2>1, <1>0, <1>4 DEF KeysStayWithOwner
    <3> QED BY <3>1, <3>2
  <2>2. /\ \A p \in DOMAIN credentials' :
              /\ credentials'[p].key \in Sealings(p)' \ revoked'
              /\ credentials'[p].previous \in (Sealings(p)' \cup {NULL}) \ revoked'
        /\ revoked' \subseteq {y \in Sealed : y.nonce > budget'} \ {NULL}
    BY <1>0, <1>4 DEF KeysStayWithOwner
  <2> QED BY <2>1, <2>2 DEF KeysStayWithOwner
<1> QED BY <1>5, <1>6, <1>7, <1>8 DEF StoreInv

(***************************************************************************)
(* What the reads of Put find.                                             *)
(***************************************************************************)
LEMMA StoredKeyType ==
  ASSUME StoreInv, NEW o
  PROVE  /\ Stored(o).key \in Sealed \cup {NULL} /\ Stored(o).version \in Nat
         /\ nextVersion(Stored(o).version) \in Nat /\ nextVersion(0) \in Nat
BY DEF StoreInv, StoreTypeOK, KeysStayWithOwner, Stored, Sealings, nextVersion

(***************************************************************************)
(* The reads of Put, also when they fail, and a Put that gives up.         *)
(***************************************************************************)
LEMMA PutReadsInv ==
  ASSUME StoreInv, NEW w \in Writers, PutReadKey(w) \/ PutReadVersion(w) \/ PutFails(w)
  PROVE  StoreInv'
<1> USE StoreAssumption, StoredKeyType
<1>1. writers \in [Writers -> Record]
  BY DEF StoreInv, StoreTypeOK, Record
<1>2. CASE PutReadKey(w)
  <2>1. Reading(writers[w], writers'[w])
    BY <1>1, <1>2 DEF PutReadKey, Reading, Record
  <2>2. writers' \in [Writers -> Record]
    BY <1>1, <1>2 DEF PutReadKey, Record
  <2> QED BY <2>1, <2>2, <1>1, <1>2, WriterInv DEF PutReadKey
<1>3. CASE PutReadVersion(w)
  <2>1. Reading(writers[w], writers'[w])
    BY <1>1, <1>3 DEF PutReadVersion, Reading, Record, StoreInv, StoreTypeOK, ReadsAreCurrent
  <2>2. writers' \in [Writers -> Record]
    BY <1>1, <1>3 DEF PutReadVersion, Record
  <2> QED BY <2>1, <2>2, <1>1, <1>3, WriterInv DEF PutReadVersion
<1>4. CASE PutFails(w)
  <2>1. NotWriting \in Record
    BY DEF NotWriting, Record
  <2>2. writers'[w] = NotWriting /\ writers' \in [Writers -> Record]
    BY <2>1, <1>1, <1>4 DEF PutFails
  <2> QED BY <2>2, <1>1, <1>4, WriterInv DEF PutFails
<1> QED BY <1>2, <1>3, <1>4

(***************************************************************************)
(* Put writes.  Without overlap the key that becomes the previous one, and *)
(* the version, continue the chain.                                        *)
(***************************************************************************)
LEMMA PutWriteInv ==
  ASSUME StoreInv, NEW w \in Writers, PutWrite(w)
  PROVE  StoreInv'
<1> USE StoreAssumption
<1>0. StoreTypeOK /\ RotationsChain /\ ReadsAreCurrent /\ KeysStayWithOwner
  BY DEF StoreInv
<1>1. PICK o \in Owners, x \in Record : x = writers[w] /\ o = x.owner /\ x.pc = "write"
  BY <1>0 DEF PutWrite, StoreTypeOK, Record
<1>2. /\ DOMAIN credentials' = DOMAIN credentials \cup {o}
      /\ credentials'[o] = [key |-> x.sealed, version |-> x.version, previous |-> x.prev]
      /\ \A p \in DOMAIN credentials \ {o} : credentials'[p] = credentials[p]
  BY <1>1 DEF PutWrite, upsert
<1>3. /\ history' = [history EXCEPT ![o] = Append(@, x.sealed)]
      /\ writers' = [writers EXCEPT ![w] = NotWriting]
      /\ UNCHANGED <<budget, disturbed, revoked>>
  BY <1>1 DEF PutWrite
<1>4. /\ x.sealed \in Sealings(o) \ revoked
      /\ x.prev \in (Sealings(o) \cup {NULL}) \ revoked
  BY <1>0, <1>1 DEF KeysStayWithOwner
<1>5. \A v \in Writers : writers'[v] = IF v = w THEN NotWriting ELSE writers[v]
  BY <1>0, <1>3 DEF StoreTypeOK
<1>6. /\ Stored(o)' = [key |-> x.sealed, version |-> x.version, previous |-> x.prev]
      /\ \A p \in Owners \ {o} : Stored(p)' = Stored(p)
  BY <1>2 DEF Stored
<1>7. /\ \A p \in Owners : history[p] \in Seq(Sealed) /\ x.sealed \in Sealed
      /\ history'[o] = Append(history[o], x.sealed)
      /\ \A p \in Owners \ {o} : history'[p] = history[p]
  BY <1>0, <1>3, <1>4 DEF StoreTypeOK, Sealings
<1>8. StoreTypeOK'
  <2>1. Append(history[o], x.sealed) \in Seq(Sealed)
    BY <1>7
  <2>2. history' \in [Owners -> Seq(Sealed)]
    BY <2>1, <1>0, <1>3 DEF StoreTypeOK
  <2>3. writers' \in [Writers -> Record]
    BY <1>0, <1>3 DEF StoreTypeOK, Record, NotWriting
  <2>4. \A v \in Writers : writers'[v].pc = "idle" <=> writers'[v].owner = NULL
    BY <1>0, <1>5 DEF StoreTypeOK, NotWriting
  <2>5. \A p \in DOMAIN credentials' : credentials'[p].version \in Nat
    BY <1>0, <1>1, <1>2 DEF StoreTypeOK, Record
  <2> QED BY <2>2, <2>3, <2>4, <2>5, <1>0, <1>2, <1>3 DEF StoreTypeOK, Record
<1>9. RotationsChain'
  <2> SUFFICES ASSUME NEW p \in Owners \ disturbed
               PROVE  LET n == Len(history'[p])
                      IN  /\ Stored(p)'.version = n
                          /\ Stored(p)'.key = (IF n > 0 THEN history'[p][n] ELSE NULL)
                          /\ Stored(p)'.previous
                                = (IF n > 1 THEN history'[p][n - 1] ELSE NULL)
    BY <1>3 DEF RotationsChain
  <2>0. LET n == Len(history[p])
        IN  /\ Stored(p).version = n
            /\ Stored(p).key = (IF n > 0 THEN history[p][n] ELSE NULL)
            /\ Stored(p).previous = (IF n > 1 THEN history[p][n - 1] ELSE NULL)
    BY <1>0 DEF RotationsChain
  <2>1. CASE p = o
    <3> DEFINE n == Len(history[o])
               h == Append(history[o], x.sealed)
    <3>1. n \in Nat /\ Len(h) = n + 1 /\ h[n + 1] = x.sealed /\ (n > 0 => h[n] = history[o][n])
      BY <1>7
    <3>2. x.prev = Stored(o).key /\ x.version = nextVersion(Stored(o).version)
      BY <2>1, <1>0, <1>1 DEF ReadsAreCurrent
    <3>3. x.version = n + 1 /\ x.prev = (IF n > 0 THEN history[o][n] ELSE NULL)
      BY <2>0, <2>1, <3>1, <3>2 DEF nextVersion
    <3>4. history'[p] = h /\ Stored(p)'.version = n + 1 /\ Stored(p)'.key = x.sealed
          /\ Stored(p)'.previous = x.prev
      BY <2>1, <3>3, <1>6, <1>7
    <3> HIDE DEF n, h
    <3>5. Len(h) > 0 /\ (Len(h) > 1 <=> n > 0) /\ Len(h) - 1 = n
      BY <3>1
    <3> QED BY <3>1, <3>3, <3>4, <3>5 DEF n
  <2>2. CASE p # o
    BY <2>0, <2>2, <1>6, <1>7
  <2> QED BY <2>1, <2>2
<1>10. ReadsAreCurrent'
  <2> SUFFICES ASSUME NEW v \in Writers, NEW p \in Owners \ disturbed, writers'[v].owner = p
               PROVE  /\ Writing(p)' = {v}
                      /\ writers'[v].pc \in {"version", "write"} =>
                             writers'[v].prev = Stored(p)'.key
                      /\ writers'[v].pc = "write" =>
                             writers'[v].version = nextVersion(Stored(p)'.version)
    BY <1>3 DEF ReadsAreCurrent, nextVersion
  <2>1. v # w /\ writers'[v] = writers[v]
    BY <1>5 DEF NotWriting
  <2>2. Writing(p) = {v}
    BY <2>1, <1>0 DEF ReadsAreCurrent
  <2>3. p # o
    BY <2>1, <2>2, <1>1 DEF Writing
  <2>4. Writing(p)' = {v}
    BY <2>1, <2>2, <1>5 DEF Writing, NotWriting
  <2> QED BY <2>1, <2>3, <2>4, <1>0, <1>6 DEF ReadsAreCurrent
<1>11. KeysStayWithOwner'
  <2>1. \A p : Sealings(p)' = Sealings(p)
    BY <1>3 DEF Sealings
  <2>2. \A p \in DOMAIN credentials' :
            /\ credentials'[p].key \in Sealings(p)' \ revoked'
            /\ credentials'[p].previous \in (Sealings(p)' \cup {NULL}) \ revoked'
    BY <2>1, <1>0, <1>2, <1>3, <1>4 DEF KeysStayWithOwner
  <2>3. \A v \in Writers, p \in Owners : writers'[v].owner = p =>
            /\ writers'[v].sealed \in Sealings(p)' \ revoked'
            /\ writers'[v].prev \in (Sealings(p)' \cup {NULL}) \ revoked'
    BY <2>1, <1>0, <1>3, <1>5 DEF KeysStayWithOwner, NotWriting
  <2> QED BY <2>2, <2>3, <1>0, <1>3 DEF KeysStayWithOwner
<1> QED BY <1>8, <1>9, <1>10, <1>11 DEF StoreInv

(***************************************************************************)
(* Delete takes the row away; with no Put under way its keys are nowhere   *)
(* else.                                                                   *)
(***************************************************************************)
LEMMA DeleteInv ==
  ASSUME StoreInv, NEW i \in Instances, NEW o \in Owners, Delete(i, o)
  PROVE  StoreInv'
<1> USE StoreAssumption
<1>0. StoreTypeOK /\ RotationsChain /\ ReadsAreCurrent /\ KeysStayWithOwner
  BY DEF StoreInv
<1>1. /\ DOMAIN credentials' = DOMAIN credentials \ {o}
      /\ \A p \in DOMAIN credentials \ {o} : credentials'[p] = credentials[p]
      /\ o \in DOMAIN credentials
      /\ history' = [history EXCEPT ![o] = << >>]
      /\ writers' = writers /\ budget' = budget
  BY DEF Delete, remove, Without
<1>2. \/ /\ Writing(o) = {} /\ disturbed' = disturbed \ {o}
         /\ revoked' = revoked \cup ({credentials[o].key, credentials[o].previous} \ {NULL})
      \/ disturbed' = disturbed \cup {o} /\ revoked' = revoked
  BY <1>1 DEF Delete, Stored
<1>3. /\ Stored(o)' = [key |-> NULL, version |-> 0, previous |-> NULL]
      /\ \A p \in Owners \ {o} : Stored(p)' = Stored(p)
  BY <1>1 DEF Stored
<1>4. /\ history'[o] = << >> /\ Len(history'[o]) = 0
      /\ \A p \in Owners \ {o} : history'[p] = history[p]
  BY <1>0, <1>1 DEF StoreTypeOK
<1>5. StoreTypeOK'
  <2>1. history' \in [Owners -> Seq(Sealed)]
    BY <1>0, <1>1 DEF StoreTypeOK
  <2> QED BY <2>1, <1>0, <1>1 DEF StoreTypeOK
<1>6. RotationsChain'
  <2> SUFFICES ASSUME NEW p \in Owners, p \notin disturbed'
               PROVE  LET n == Len(history'[p])
                      IN  /\ Stored(p)'.version = n
                          /\ Stored(p)'.key = (IF n > 0 THEN history'[p][n] ELSE NULL)
                          /\ Stored(p)'.previous
                                = (IF n > 1 THEN history'[p][n - 1] ELSE NULL)
    BY DEF RotationsChain
  <2>1. CASE p = o
    BY <2>1, <1>3, <1>4
  <2>2. CASE p # o
    <3>1. p \in Owners \ disturbed
      BY <2>2, <1>2
    <3> QED BY <2>2, <3>1, <1>0, <1>3, <1>4 DEF RotationsChain
  <2> QED BY <2>1, <2>2
<1>7. ReadsAreCurrent'
  <2> SUFFICES ASSUME NEW v \in Writers, NEW p \in Owners, p \notin disturbed',
                      writers'[v].owner = p
               PROVE  /\ Writing(p)' = {v}
                      /\ writers'[v].pc \in {"version", "write"} =>
                             writers'[v].prev = Stored(p)'.key
                      /\ writers'[v].pc = "write" =>
                             writers'[v].version = nextVersion(Stored(p)'.version)
    BY DEF ReadsAreCurrent, nextVersion
  <2>1. p # o /\ p \in Owners \ disturbed
    BY <1>1, <1>2 DEF Writing
  <2>2. Writing(p)' = Writing(p)
    BY <1>1 DEF Writing
  <2> QED BY <2>1, <2>2, <1>0, <1>1, <1>3 DEF ReadsAreCurrent
<1>8. KeysStayWithOwner'
  <2>1. \A p : Sealings(p)' = Sealings(p)
    BY <1>1 DEF Sealings
  <2>2. CASE revoked' = revoked
    BY <2>1, <2>2, <1>0, <1>1 DEF KeysStayWithOwner
  <2>3. CASE /\ Writing(o) = {}
             /\ revoked' = revoked \cup
                             ({credentials[o].key, credentials[o].previous} \ {NULL})
    <3>1. \A y \in revoked' \ revoked : y \in Sealings(o) /\ y # NULL
      BY <2>3, <1>0, <1>1 DEF KeysStayWithOwner
    <3>2. \A p \in Owners \ {o} : \A y \in Sealings(p) : y \notin Sealings(o)
      BY DEF Sealings
    <3>3. \A p \in DOMAIN credentials' :
            /\ credentials'[p].key \in Sealings(p)' \ revoked'
            /\ credentials'[p].previous \in (Sealings(p)' \cup {NULL}) \ revoked'
      <4> SUFFICES ASSUME NEW p \in DOMAIN credentials'
                   PROVE  /\ credentials'[p].key \in Sealings(p)' \ revoked'
                          /\ credentials'[p].previous \in (Sealings(p)' \cup {NULL}) \ revoked'
        OBVIOUS
      <4>1. /\ p \in Owners \ {o} /\ p \in DOMAIN credentials
            /\ credentials'[p] = credentials[p]
        BY <1>0, <1>1 DEF StoreTypeOK
      <4>2. /\ credentials[p].key \in Sealings(p) \ revoked
            /\ credentials[p].previous \in (Sealings(p) \cup {NULL}) \ revoked
        BY <4>1, <1>0 DEF KeysStayWithOwner
      <4> QED BY <4>1, <4>2, <3>1, <3>2, <2>1
    <3>4. ASSUME NEW v \in Writers, NEW p \in Owners, writers'[v].owner = p
          PROVE  /\ writers'[v].sealed \in Sealings(p)' \ revoked'
                 /\ writers'[v].prev \in (Sealings(p)' \cup {NULL}) \ revoked'
      <4>1. p # o
        BY <2>3, <3>4, <1>1 DEF Writing
      <4>2. /\ writers[v].sealed \in Sealings(p) \ revoked
            /\ writers[v].prev \in (Sealings(p) \cup {NULL}) \ revoked
        BY <3>4, <1>0, <1>1 DEF KeysStayWithOwner
      <4> QED BY <4>1, <4>2, <3>1, <3>2, <2>1, <1>1
    <3>5. revoked' \subseteq {y \in Sealed : y.nonce > budget'} \ {NULL}
      BY <3>1, <1>0, <1>1 DEF KeysStayWithOwner, Sealings
    <3> QED BY <3>3, <3>4, <3>5 DEF KeysStayWithOwner
  <2> QED BY <2>2, <2>3, <1>2
<1> QED BY <1>5, <1>6, <1>7, <1>8 DEF StoreInv

(***************************************************************************)
(* Every step of the store and of the relay keeps the invariant.           *)
(***************************************************************************)
LEMMA NextInv == StoreInv /\ [ByokNext]_allVars => StoreInv'
<1> SUFFICES ASSUME StoreInv, [ByokNext]_allVars PROVE StoreInv'
  OBVIOUS
<1>1. CASE StoreStep
  BY <1>1, PutSealInv, PutReadsInv, PutWriteInv, DeleteInv DEF StoreStep
<1>2. CASE \E c \in DOMAIN Calls : RelayStep(c)
  BY <1>2, RelayLeavesStore, UnchangedInv
<1>3. CASE UNCHANGED allVars
  BY <1>3, UnchangedInv DEF allVars, storeVars, keyVars
<1> QED BY <1>1, <1>2, <1>3 DEF ByokNext

(***************************************************************************)
(* Puts that do not overlap and whose reads succeed form a chain.          *)
(***************************************************************************)
THEOREM ChainHolds == ByokSpec => []RotationsChain
<1>1. StoreInv => RotationsChain
  BY DEF StoreInv
<1> QED BY InitInv, NextInv, <1>1, PTL DEF ByokSpec

(***************************************************************************)
(* A key deleted while no Put of its owner was under way never comes back. *)
(***************************************************************************)
THEOREM RevokedStaysGone == ByokSpec => []RevokedIsGone
<1>1. StoreInv => RevokedIsGone
  BY DEF StoreInv, KeysStayWithOwner, RevokedIsGone, Stored
<1> QED BY InitInv, NextInv, <1>1, PTL DEF ByokSpec

(***************************************************************************)
(* A rotation takes the credential from no instance that could open it.    *)
(***************************************************************************)
THEOREM GraceHolds == ByokSpec => RotationKeepsServing
<1> DEFINE Keeps == \A i \in Instances, o \in Owners :
               (/\ open(i, o, Stored(o).key) # NULL
                /\ o \in DOMAIN credentials' /\ o \notin disturbed')
                  => Serves(i, o)'
<1>1. StoreInv /\ [ByokNext]_allVars => [Keeps]_storeVars
  <2> SUFFICES ASSUME StoreInv, [ByokNext]_allVars,
                      NEW i \in Instances, NEW o \in Owners,
                      open(i, o, Stored(o).key) # NULL,
                      o \in DOMAIN credentials', o \notin disturbed'
               PROVE  Serves(i, o)'
    OBVIOUS
  <2>1. CASE UNCHANGED credentials
    BY <2>1 DEF Serves, Stored, open
  <2>2. ASSUME NEW w \in Writers, PutWrite(w)
        PROVE  Serves(i, o)'
    <3>1. /\ credentials' = [p \in DOMAIN credentials \cup {writers[w].owner} |->
                 IF p = writers[w].owner THEN upsert(writers[w].owner, writers[w])
                 ELSE credentials[p]]
          /\ disturbed' = disturbed /\ writers[w].pc = "write"
      BY <2>2 DEF PutWrite
    <3>2. CASE writers[w].owner = o
      <4>1. writers[w].prev = Stored(o).key
        BY <3>1, <3>2 DEF StoreInv, ReadsAreCurrent
      <4>2. Stored(o)'.previous = Stored(o).key
        BY <3>1, <3>2, <4>1 DEF Stored, upsert
      <4> QED BY <4>2 DEF Serves, open
    <3>3. CASE writers[w].owner # o
      <4>1. Stored(o)' = Stored(o)
        BY <3>1, <3>3 DEF Stored
      <4> QED BY <4>1 DEF Serves, open
    <3> QED BY <3>2, <3>3
  <2>3. ASSUME NEW j \in Instances, NEW p \in Owners, Delete(j, p)
        PROVE  Serves(i, o)'
    <3>1. Stored(o)' = Stored(o)
      BY <2>3 DEF Delete, remove, Without, Stored
    <3> QED BY <3>1 DEF Serves, open
  <2>4. CASE \E c \in DOMAIN Calls : RelayStep(c)
    BY <2>1, <2>4, RelayLeavesStore DEF keyVars
  <2>5. CASE StoreStep
    BY <2>1, <2>2, <2>3, <2>5 DEF StoreStep, PutSeal, PutReadKey, PutReadVersion, PutFails
  <2>6. CASE UNCHANGED allVars
    BY <2>1, <2>6 DEF allVars, storeVars
  <2> QED BY <2>4, <2>5, <2>6 DEF ByokNext
<1> QED BY InitInv, NextInv, <1>1, PTL DEF ByokSpec, RotationKeepsServing

-----------------------------------------------------------------------------
(***************************************************************************)
(* The capture of usage.                                                   *)
(***************************************************************************)

(***************************************************************************)
(* What a relayed call knows of the answer that it copies.                 *)
(***************************************************************************)
CopyKnows(c, x) ==
  /\ IsAt(x) /\ Begins(c, x) /\ LineIsKept(c, x)
  /\ UsageIsLast(c, x) /\ BodyIsKept(c, x)

(***************************************************************************)
(* The lines of an answer.                                                 *)
(***************************************************************************)
LEMMA AnswerLines ==
  ASSUME NEW resp \in Responses \cup {<< >>}
  PROVE  /\ Len(resp) \in Nat /\ DOMAIN resp = 1 .. Len(resp)
         /\ \A k \in 1 .. Len(resp) :
               /\ resp[k].size \in Nat \ {0} /\ resp[k].feed \in BOOLEAN
               /\ k < Len(resp) => resp[k].feed
<1>1. CASE resp = << >>
  BY <1>1
<1>2. CASE resp \in Responses
  <2>1. resp \in Seq({resp[k] : k \in DOMAIN resp})
    BY <1>2, RelayAssumption
  <2>2. Len(resp) \in Nat /\ DOMAIN resp = 1 .. Len(resp)
    BY <2>1
  <2> QED BY <1>2, <2>2, RelayAssumption
<1> QED BY <1>1, <1>2

(***************************************************************************)
(* A buffer that is given n bytes: it stays within the bound, grows by at  *)
(* most n, and keeps all as long as all fits.                              *)
(***************************************************************************)
LEMMA GrowBounds ==
  ASSUME NEW len \in 0 .. MaxCapture, NEW n \in Nat
  PROVE  /\ grow(len, n) \in 0 .. MaxCapture
         /\ grow(len, n) <= len + n
         /\ len + n <= MaxCapture => grow(len, n) = len + n
<1>1. MaxCapture \in Nat
  BY RelayAssumption
<1> QED BY <1>1 DEF grow, fits

(***************************************************************************)
(* One piece of a line is captured, wherever the network cut it.           *)
(***************************************************************************)
LEMMA CapturedPiece ==
  ASSUME NEW c \in DOMAIN Calls, NEW x \in ConnRows, x.pc = "copy", CopyKnows(c, x),
         x.line <= Len(x.resp), NEW n \in 1 .. x.resp[x.line].size - x.off,
         NEW head \in BOOLEAN
  PROVE  /\ captured(x, n, head) \in ConnRows /\ captured(x, n, head).pc = "copy"
         /\ CopyKnows(c, captured(x, n, head))
<1> DEFINE line == x.resp[x.line]
           stream == x.stream \/ (head /\ x.off \in line.marks)
           body == IF stream THEN (IF x.stream THEN x.body ELSE 0) ELSE grow(x.body, n)
           buf == IF stream THEN grow(x.buf, n) ELSE x.buf
           ends == x.off + n = line.size
           fed == stream /\ ends /\ line.feed
           y == captured(x, n, head)
<1>1. /\ x.resp \in Responses \cup {<< >>} /\ x.stream \in BOOLEAN /\ x.line \in Nat
      /\ x.off \in Nat /\ x.body \in 0 .. MaxCapture /\ x.buf \in 0 .. MaxCapture
      /\ x.usage \in {NULL} \cup UNION {{resp[k].usage : k \in DOMAIN resp} : resp \in Responses}
      /\ MaxCapture \in Nat /\ Calls[c].stream \in BOOLEAN
  BY RelayAssumption DEF ConnRows
<1>2. /\ Len(x.resp) \in Nat /\ DOMAIN x.resp = 1 .. Len(x.resp)
      /\ \A k \in 1 .. Len(x.resp) :
            /\ x.resp[k].size \in Nat \ {0} /\ x.resp[k].feed \in BOOLEAN
            /\ k < Len(x.resp) => x.resp[k].feed
  BY <1>1, AnswerLines
<1>3. /\ x.line \in 1 .. Len(x.resp) /\ x.line >= 1 /\ x.off < line.size
      /\ line.size \in Nat \ {0} /\ line.feed \in BOOLEAN
      /\ x.line < Len(x.resp) => line.feed
  BY <1>1, <1>2 DEF CopyKnows, IsAt
<1>4. n \in Nat /\ n >= 1 /\ x.off + n <= line.size
  BY <1>1, <1>3
<1>5. stream \in BOOLEAN /\ ends \in BOOLEAN /\ fed \in BOOLEAN
  BY <1>1, <1>3
<1>6. body \in 0 .. MaxCapture
  <2>1. grow(x.body, n) \in 0 .. MaxCapture
    BY <1>1, <1>4, GrowBounds
  <2>2. 0 \in 0 .. MaxCapture
    BY <1>1
  <2> QED BY <1>1, <2>1, <2>2
<1>7. buf \in 0 .. MaxCapture /\ buf <= x.off + n /\ (~stream => buf = 0)
  <2>1. x.buf <= x.off /\ (~x.stream => x.buf = 0)
    BY DEF CopyKnows, LineIsKept
  <2>2. grow(x.buf, n) \in 0 .. MaxCapture /\ grow(x.buf, n) <= x.buf + n
    BY <1>1, <1>4, GrowBounds
  <2> QED BY <1>1, <1>4, <2>1, <2>2
<1>8. Calls[c].stream /\ x.off + n <= MaxCapture => buf = x.off + n
  <2> SUFFICES ASSUME Calls[c].stream, x.off + n <= MaxCapture PROVE buf = x.off + n
    OBVIOUS
  <2>1. x.buf = x.off /\ x.stream
    BY <1>1, <1>4 DEF CopyKnows, LineIsKept, UsageIsLast
  <2>2. grow(x.buf, n) = x.off + n
    BY <1>1, <1>4, <2>1, GrowBounds
  <2> QED BY <2>1, <2>2
<1>9. /\ y = [x EXCEPT !.stream = stream, !.body = body,
                       !.buf = IF fed THEN 0 ELSE buf,
                       !.usage = IF fed THEN parseLine(x.usage, line, buf) ELSE x.usage,
                       !.line = IF ends THEN x.line + 1 ELSE x.line,
                       !.off = IF ends THEN 0 ELSE x.off + n]
  BY DEF captured, ConnRows
<1>10. parseLine(x.usage, line, buf) \in
          {NULL} \cup UNION {{resp[k].usage : k \in DOMAIN resp} : resp \in Responses}
  <2>1. x.resp \in Responses
    BY <1>1, <1>2, <1>3
  <2>2. line.usage \in UNION {{resp[k].usage : k \in DOMAIN resp} : resp \in Responses}
    BY <1>2, <1>3, <2>1
  <2> QED BY <1>1, <2>2 DEF parseLine
<1> HIDE DEF line, stream, body, buf, ends, fed, y
<1>11. y \in ConnRows
  <2>1. PICK b, u, l, o :
           /\ b = (IF fed THEN 0 ELSE buf)
           /\ u = (IF fed THEN parseLine(x.usage, line, buf) ELSE x.usage)
           /\ l = (IF ends THEN x.line + 1 ELSE x.line)
           /\ o = (IF ends THEN 0 ELSE x.off + n)
    OBVIOUS
  <2>2. /\ b \in 0 .. MaxCapture /\ l \in Nat /\ o \in Nat
        /\ u \in {NULL} \cup UNION {{resp[k].usage : k \in DOMAIN resp} : resp \in Responses}
    <3>1. 0 \in 0 .. MaxCapture /\ x.line + 1 \in Nat /\ x.off + n \in Nat
      BY <1>1, <1>4
    <3> QED BY <1>1, <1>7, <1>10, <2>1, <3>1
  <2>3. y = [x EXCEPT !.stream = stream, !.body = body, !.buf = b, !.usage = u,
                      !.line = l, !.off = o]
    BY <1>9, <2>1
  <2> QED BY <1>5, <1>6, <2>2, <2>3 DEF ConnRows
<1>12. /\ y.pc = "copy" /\ y.resp = x.resp /\ y.stream = stream /\ y.body = body
       /\ y.buf = (IF fed THEN 0 ELSE buf)
       /\ y.usage = (IF fed THEN parseLine(x.usage, line, buf) ELSE x.usage)
       /\ y.line = (IF ends THEN x.line + 1 ELSE x.line)
       /\ y.off = (IF ends THEN 0 ELSE x.off + n)
  BY <1>9 DEF ConnRows
<1>13. IsAt(y)
  <2>1. CASE ends
    <3>1. y.line = x.line + 1 /\ y.off = 0
      BY <1>12, <2>1
    <3>2. y.line \in 1 .. Len(y.resp) + 1
      BY <1>1, <1>2, <1>3, <1>12, <3>1
    <3>3. y.line <= Len(y.resp) => y.off < y.resp[y.line].size
      BY <1>2, <1>12, <3>1, <3>2
    <3> QED BY <1>12, <3>1, <3>2, <3>3 DEF IsAt
  <2>2. CASE ~ends
    <3>1. y.line = x.line /\ y.off = x.off + n /\ x.off + n < line.size
      BY <1>1, <1>3, <1>4, <1>12, <2>2 DEF ends
    <3>2. y.line \in 1 .. Len(y.resp) + 1 /\ y.line <= Len(y.resp)
      BY <1>1, <1>2, <1>3, <1>12, <3>1
    <3> QED BY <1>12, <3>1, <3>2 DEF IsAt, line
  <2> QED BY <2>1, <2>2
<1>14. LineIsKept(c, y)
  <2>1. CASE fed
    <3>1. y.buf = 0 /\ y.off = 0
      BY <1>12, <2>1 DEF fed
    <3> QED BY <3>1 DEF LineIsKept
  <2>2. CASE ~fed /\ ends /\ stream
    <3>1. ~line.feed
      BY <2>2 DEF fed
    <3>2. y.line > Len(y.resp)
      BY <1>1, <1>2, <1>3, <1>12, <2>2, <3>1
    <3>3. ~(y.line <= Len(y.resp))
      BY <1>1, <1>2, <1>12, <3>2
    <3> QED BY <1>12, <2>2, <3>3 DEF LineIsKept
  <2>3. CASE ~fed /\ ends /\ ~stream
    <3>1. y.buf = 0 /\ y.off = 0
      BY <1>7, <1>12, <2>3
    <3> QED BY <3>1 DEF LineIsKept
  <2>4. CASE ~fed /\ ~ends
    <3>1. y.buf = buf /\ y.off = x.off + n /\ y.stream = stream
      BY <1>12, <2>4
    <3> QED BY <1>7, <1>8, <3>1 DEF LineIsKept
  <2> QED BY <2>1, <2>2, <2>3, <2>4
<1>15. UsageIsLast(c, y)
  <2>1. /\ x.usage # NULL => \E k \in 1 .. x.line - 1 : x.resp[k].usage = x.usage
        /\ 1 .. x.line - 1 \subseteq 1 .. y.line - 1
        /\ ends => x.line \in 1 .. y.line - 1 /\ y.line - 1 = x.line
    BY <1>1, <1>3, <1>12 DEF CopyKnows, UsageIsLast
  <2>2. y.usage # NULL => \E k \in 1 .. y.line - 1 : y.resp[k].usage = y.usage
    <3>1. CASE y.usage = x.usage
      BY <1>12, <2>1, <3>1
    <3>2. CASE y.usage # x.usage
      <4>1. ends /\ y.usage = line.usage
        BY <1>12, <3>2 DEF fed, parseLine
      <4> QED BY <1>12, <2>1, <4>1 DEF line
    <3> QED BY <3>1, <3>2
  <2>3. ASSUME Calls[c].stream
        PROVE  /\ y.stream
               /\ LET ks == {k \in 1 .. y.line - 1 : ReportsUsage(y.resp[k])}
                  IN  \/ ks = {} /\ y.usage = NULL
                      \/ \E k \in ks : (\A j \in ks : j <= k) /\ y.usage = y.resp[k].usage
    <3> DEFINE K == {k \in 1 .. x.line - 1 : ReportsUsage(x.resp[k])}
               L == {k \in 1 .. y.line - 1 : ReportsUsage(x.resp[k])}
    <3>1. /\ x.stream
          /\ \/ K = {} /\ x.usage = NULL
             \/ \E k \in K : (\A j \in K : j <= k) /\ x.usage = x.resp[k].usage
      BY <2>3 DEF CopyKnows, UsageIsLast
    <3>2. stream
      BY <3>1 DEF stream
    <3>3. CASE ~ends
      <4>1. L = K /\ y.usage = x.usage
        BY <1>12, <3>3 DEF fed
      <4> HIDE DEF K
      <4> QED BY <1>12, <3>1, <3>2, <4>1
    <3>4. CASE ends /\ ReportsUsage(line)
      <4>1. buf = line.size /\ line.feed /\ 0 \in line.marks /\ line.usage # NULL
        BY <1>8, <2>3, <3>4 DEF ReportsUsage, ends
      <4>2. y.usage = line.usage
        BY <1>12, <3>2, <3>4, <4>1 DEF fed, parseLine
      <4>3. x.line \in L /\ \A j \in L : j <= x.line
        BY <1>1, <2>1, <3>4 DEF line
      <4> HIDE DEF L
      <4> QED BY <1>12, <3>2, <4>2, <4>3 DEF L, line
    <3>5. CASE ends /\ ~ReportsUsage(line)
      <4>1. L = K
        <5>1. \A k \in L : k # x.line
          BY <3>5 DEF line
        <5>2. \A k \in 1 .. y.line - 1 : k # x.line => k \in 1 .. x.line - 1
          BY <1>1, <2>1, <3>5
        <5> QED BY <2>1, <5>1, <5>2
      <4>2. y.usage = x.usage
        <5> SUFFICES ASSUME y.usage # x.usage PROVE FALSE
          OBVIOUS
        <5>1. 0 \in line.marks /\ line.feed /\ line.usage # NULL /\ buf = line.size
          BY <1>12 DEF fed, parseLine
        <5>2. line.size <= MaxCapture
          BY <1>1, <1>7, <5>1
        <5> QED BY <3>5, <5>1, <5>2 DEF ReportsUsage
      <4> HIDE DEF K, L
      <4> QED BY <1>12, <3>1, <3>2, <4>1, <4>2 DEF L
    <3> QED BY <3>3, <3>4, <3>5
  <2> QED BY <2>2, <2>3 DEF UsageIsLast
<1>16. BodyIsKept(c, y)
  <2> SUFFICES ASSUME ~Calls[c].stream, Json(x.resp), x.resp[1].marks = {}
               PROVE  /\ ~stream
                      /\ LET total == IF y.line = 1 THEN y.off ELSE x.resp[1].size
                         IN  total <= MaxCapture => body = total
    BY <1>12 DEF BodyIsKept
  <2>1. Len(x.resp) = 1 /\ x.line = 1 /\ line = x.resp[1]
    BY <1>1, <1>2, <1>3 DEF Json, line
  <2>2. ~x.stream /\ (x.off <= MaxCapture => x.body = x.off)
    BY <2>1 DEF CopyKnows, BodyIsKept
  <2>3. ~stream
    BY <2>1, <2>2 DEF stream
  <2>4. (IF y.line = 1 THEN y.off ELSE x.resp[1].size) = x.off + n
    BY <1>12, <2>1 DEF ends
  <2>5. x.off + n <= MaxCapture => body = x.off + n
    <3> SUFFICES ASSUME x.off + n <= MaxCapture PROVE body = x.off + n
      OBVIOUS
    <3>1. x.body = x.off
      BY <1>1, <1>4, <2>2
    <3>2. grow(x.body, n) = x.off + n
      BY <1>1, <1>4, <3>1, GrowBounds
    <3> QED BY <2>3, <3>2 DEF body
  <2> QED BY <2>3, <2>4, <2>5
<1>17. Begins(c, y)
  BY <1>12 DEF Begins
<1> QED BY <1>11, <1>12, <1>13, <1>14, <1>15, <1>16, <1>17 DEF CopyKnows, y

(***************************************************************************)
(* What finish sees, once the answer was copied: what the answer reports,  *)
(* where that is defined, and in any case usage of this answer.            *)
(***************************************************************************)
LEMMA SeenIsReported ==
  ASSUME NEW c \in DOMAIN Calls, NEW x \in ConnRows, CopyKnows(c, x), x.pc = "finish",
         NEW rep,
         rep = ReportOf(c, x.resp)
  PROVE  /\ rep # NULL => Seen(x) = rep
         /\ Seen(x) # NULL =>
               /\ \E k \in DOMAIN x.resp : x.resp[k].usage = Seen(x)
               /\ rep \in {NULL, Seen(x)}
<1>1. /\ Len(x.resp) \in Nat /\ DOMAIN x.resp = 1 .. Len(x.resp)
      /\ \A k \in 1 .. Len(x.resp) : x.resp[k].size \in Nat \ {0}
      /\ x.stream \in BOOLEAN /\ Calls[c].stream \in BOOLEAN
      /\ MaxCapture \in Nat /\ x.body \in 0 .. MaxCapture
  BY AnswerLines, RelayAssumption DEF ConnRows
<1>2. x.line - 1 = Len(x.resp) /\ x.line = Len(x.resp) + 1
  <2>1. x.line = Len(x.resp) + 1
    BY DEF CopyKnows, IsAt
  <2> QED BY <1>1, <2>1
<1>3. Seen(x) # NULL => \E k \in DOMAIN x.resp : x.resp[k].usage = Seen(x)
  <2>1. CASE x.stream
    <3>1. Seen(x) = x.usage
      BY <2>1 DEF Seen
    <3> QED BY <1>1, <1>2, <3>1 DEF CopyKnows, UsageIsLast
  <2>2. CASE ~x.stream
    <3>1. Seen(x) # NULL => Len(x.resp) = 1 /\ Seen(x) = x.resp[1].usage
      BY <2>2 DEF Seen, Json
    <3>2. Len(x.resp) = 1 => 1 \in DOMAIN x.resp
      BY <1>1
    <3> QED BY <3>1, <3>2
  <2> QED BY <1>1, <2>1, <2>2
<1>4. CASE Calls[c].stream
  <2> DEFINE ks == {k \in DOMAIN x.resp : ReportsUsage(x.resp[k])}
  <2>1. ks = {k \in 1 .. x.line - 1 : ReportsUsage(x.resp[k])}
    BY <1>1, <1>2
  <2>2. /\ x.stream
        /\ \/ ks = {} /\ x.usage = NULL
           \/ \E k \in ks : (\A j \in ks : j <= k) /\ x.usage = x.resp[k].usage
    BY <1>4, <2>1 DEF CopyKnows, UsageIsLast
  <2>3. rep = IF ks = {} THEN NULL ELSE x.resp[CHOOSE k \in ks : \A j \in ks : j <= k].usage
    BY <1>4 DEF ReportOf
  <2>4. \A k \in ks : k \in Nat
    BY <1>1
  <2> HIDE DEF ks
  <2>5. rep = x.usage
    <3>1. CASE ks = {}
      BY <2>2, <2>3, <3>1
    <3>2. CASE ks # {}
      <4>1. PICK k \in ks : (\A j \in ks : j <= k) /\ x.usage = x.resp[k].usage
        BY <2>2, <3>2
      <4>2. PICK m : m = CHOOSE i \in ks : \A j \in ks : j <= i
        OBVIOUS
      <4>3. m \in ks /\ \A j \in ks : j <= m
        BY <4>1, <4>2
      <4>4. m = k
        BY <2>4, <4>1, <4>3
      <4> QED BY <2>3, <3>2, <4>1, <4>2, <4>4
    <3> QED BY <3>1, <3>2
  <2>6. Seen(x) = x.usage
    BY <2>2 DEF Seen
  <2> QED BY <1>3, <2>5, <2>6
<1>5. CASE ~Calls[c].stream
  <2>1. rep = IF Json(x.resp) /\ x.resp[1].marks = {} /\ x.resp[1].size <= MaxCapture
              THEN x.resp[1].usage ELSE NULL
    BY <1>5 DEF ReportOf
  <2>2. CASE Json(x.resp) /\ x.resp[1].marks = {} /\ x.resp[1].size <= MaxCapture
    <3>1. x.line # 1
      BY <1>1, <1>2, <2>2 DEF Json
    <3>2. ~x.stream /\ x.body = x.resp[1].size
      BY <1>5, <2>2, <3>1 DEF CopyKnows, BodyIsKept
    <3>3. Seen(x) = x.resp[1].usage
      BY <2>2, <3>2 DEF Seen
    <3> QED BY <1>3, <2>1, <2>2, <3>3
  <2>3. CASE ~(Json(x.resp) /\ x.resp[1].marks = {} /\ x.resp[1].size <= MaxCapture)
    BY <1>3, <2>1, <2>3
  <2> QED BY <2>2, <2>3
<1> QED BY <1>1, <1>4, <1>5

-----------------------------------------------------------------------------
(***************************************************************************)
(* The relay's steps.                                                      *)
(***************************************************************************)

(***************************************************************************)
(* What a relayed call looks like when it begins, is refused or is over,   *)
(* for any answer that it has had.                                         *)
(***************************************************************************)
LEMMA FreshRows ==
  ASSUME NEW c \in DOMAIN Calls, NEW x \in ConnRows,
         x.stream = Calls[c].stream, x.line = 1, x.off = 0, x.body = 0, x.buf = 0,
         x.usage = NULL,
         x.pc \in {"idle", "previous", "proxy", "finish"} => x.resp = << >>
  PROVE  CopyKnows(c, x)
<1>1. /\ Len(x.resp) \in Nat /\ DOMAIN x.resp = 1 .. Len(x.resp)
      /\ \A k \in 1 .. Len(x.resp) : x.resp[k].size \in Nat \ {0}
      /\ Calls[c].stream \in BOOLEAN /\ MaxCapture \in Nat
  BY AnswerLines, RelayAssumption DEF ConnRows
<1>2. IsAt(x)
  <2>1. x.line \in 1 .. Len(x.resp) + 1
    BY <1>1
  <2>2. x.line <= Len(x.resp) => x.off < x.resp[x.line].size
    BY <1>1
  <2>3. x.pc = "finish" => x.line = Len(x.resp) + 1
    OBVIOUS
  <2> QED BY <2>1, <2>2, <2>3 DEF IsAt
<1>3. LineIsKept(c, x)
  BY DEF LineIsKept
<1>4. UsageIsLast(c, x)
  <2>1. 1 .. x.line - 1 = {}
    OBVIOUS
  <2> QED BY <2>1 DEF UsageIsLast
<1>5. BodyIsKept(c, x)
  BY DEF BodyIsKept
<1>6. Begins(c, x)
  BY DEF Begins
<1> QED BY <1>2, <1>3, <1>4, <1>5, <1>6 DEF CopyKnows

(***************************************************************************)
(* The local variables of all calls.                                       *)
(***************************************************************************)
ConnsOK == conns \in [DOMAIN Calls -> ConnRows] /\ CopiesKnow

(***************************************************************************)
(* A step of one call leaves the others alone.                             *)
(***************************************************************************)
LEMMA ConnMoves ==
  ASSUME ConnsOK, NEW c \in DOMAIN Calls, NEW x \in ConnRows, CopyKnows(c, x),
         conns' = [conns EXCEPT ![c] = x]
  PROVE  /\ ConnsOK' /\ conns'[c] = x
         /\ \A d \in DOMAIN Calls : d # c => conns'[d] = conns[d]
<1>1. /\ conns'[c] = x /\ conns' \in [DOMAIN Calls -> ConnRows]
      /\ \A d \in DOMAIN Calls : d # c => conns'[d] = conns[d]
  BY DEF ConnsOK
<1>2. ConnRows' = ConnRows
  BY DEF ConnRows
<1>3. CopiesKnow'
  <2> SUFFICES ASSUME NEW d \in DOMAIN Calls, NEW z, z = conns'[d]
               PROVE  /\ IsAt(z) /\ Begins(d, z) /\ LineIsKept(d, z)
                      /\ UsageIsLast(d, z) /\ BodyIsKept(d, z)
    BY DEF CopiesKnow
  <2>1. CASE d = c
    BY <1>1, <2>1 DEF CopyKnows
  <2>2. CASE d # c
    BY <1>1, <2>2 DEF ConnsOK, CopiesKnow
  <2> QED BY <2>1, <2>2
<1> QED BY <1>1, <1>2, <1>3 DEF ConnsOK

(***************************************************************************)
(* The rows of llm_usage, the calls that are over, and the faults.         *)
(***************************************************************************)
UsageOK ==
  /\ \A q \in DOMAIN usage : usage[q].call \in DOMAIN Calls
  /\ faults \in 0 .. MaxFaults
  /\ RecordedIsTheirs
  /\ MeteredInTime

(***************************************************************************)
(* A step that leaves llm_usage alone, of a call that is over neither      *)
(* before nor after it.                                                    *)
(***************************************************************************)
LEMMA UsageStays ==
  ASSUME UsageOK, UNCHANGED usage, faults' \in 0 .. MaxFaults, faults' >= faults,
         NEW c \in DOMAIN Calls, NEW x,
         conns'[c] = x, \A d \in DOMAIN Calls : d # c => conns'[d] = conns[d],
         conns[c].pc # "done", x.pc # "done"
  PROVE  UsageOK'
<1>1. \A d \in DOMAIN Calls : At(d, "done")' => At(d, "done") /\ conns'[d] = conns[d]
  BY DEF At
<1>2. \A d \in DOMAIN Calls : At(d, "done") => conns'[d] = conns[d] /\ At(d, "done")'
  BY DEF At
<1>3. \A d \in DOMAIN Calls : conns'[d] = conns[d] => Reports(d)' = Reports(d)
  BY DEF Reports
<1>4. RecordedIsTheirs'
  BY <1>2, <1>3 DEF UsageOK, RecordedIsTheirs
<1>5. faults' = 0 => faults = 0
  BY StoreAssumption DEF UsageOK
<1>6. MeteredInTime'
  BY <1>1, <1>3, <1>5 DEF UsageOK, MeteredInTime
<1> QED BY <1>4, <1>6 DEF UsageOK

(***************************************************************************)
(* A call that has begun, has no answer yet, and moves on.                 *)
(***************************************************************************)
LEMMA BegunMoves ==
  ASSUME NEW c \in DOMAIN Calls, NEW x \in ConnRows, CopyKnows(c, x),
         x.pc \in {"idle", "previous", "proxy"},
         NEW y \in ConnRows, y.stream = x.stream, y.line = x.line, y.off = x.off,
         y.body = x.body, y.buf = x.buf, y.usage = x.usage,
         y.pc \in {"idle", "previous", "proxy", "finish"} => y.resp = x.resp
  PROVE  CopyKnows(c, y)
<1>1. /\ x.line = 1 /\ x.off = 0 /\ x.resp = << >> /\ x.stream = Calls[c].stream
      /\ x.body = 0 /\ x.buf = 0 /\ x.usage = NULL
  BY DEF CopyKnows, Begins, IsAt
<1> QED BY <1>1, FreshRows

(***************************************************************************)
(* A call that has its answer, copies nothing in this step, and moves on.  *)
(***************************************************************************)
LEMMA CopyMoves ==
  ASSUME NEW c \in DOMAIN Calls, NEW x \in ConnRows, CopyKnows(c, x),
         x.pc \in {"copy", "finish"},
         NEW y \in ConnRows, y.stream = x.stream, y.line = x.line, y.off = x.off,
         y.body = x.body, y.buf = x.buf, y.usage = x.usage, y.resp = x.resp,
         y.pc \in {"copy", "finish"},
         y.pc = "finish" /\ x.pc = "copy" => x.line = Len(x.resp) + 1
  PROVE  CopyKnows(c, y)
<1>1. IsAt(y)
  BY DEF CopyKnows, IsAt
<1>2. Begins(c, y)
  BY DEF Begins
<1>3. LineIsKept(c, y) /\ UsageIsLast(c, y) /\ BodyIsKept(c, y)
  BY DEF CopyKnows, LineIsKept, UsageIsLast, BodyIsKept
<1> QED BY <1>1, <1>2, <1>3 DEF CopyKnows

(***************************************************************************)
(* What the store has for an owner opens to a credential, or not at all.   *)
(***************************************************************************)
LEMMA OpenedType ==
  ASSUME StoreInv, NEW c \in DOMAIN Calls, NEW o \in Owners
  PROVE  /\ Opened(c, Stored(o).key) \in Creds \cup {NULL}
         /\ Opened(c, Stored(o).previous) \in Creds \cup {NULL}
<1>1. Stored(o).key \in Sealed \cup {NULL} /\ Stored(o).previous \in Sealed \cup {NULL}
  BY DEF StoreInv, KeysStayWithOwner, Sealings, Stored
<1>2. \A y \in Sealed \cup {NULL} : Opened(c, y) \in Creds \cup {NULL}
  BY DEF Opened, open, Sealed
<1> QED BY <1>1, <1>2

(***************************************************************************)
(* A call that is absent or aborted.                                       *)
(***************************************************************************)
LEMMA EndedRows ==
  ASSUME NEW c \in DOMAIN Calls, NEW pc \in {"absent", "aborted"}
  PROVE  /\ Ended(c, pc) \in ConnRows /\ CopyKnows(c, Ended(c, pc)) /\ Ended(c, pc).pc = pc
<1>1. 0 \in 0 .. MaxCapture /\ Calls[c].stream \in BOOLEAN
  BY RelayAssumption
<1>2. PICK x : x = Ended(c, pc)
  OBVIOUS
<1>3. /\ x \in ConnRows /\ x.pc = pc /\ x.stream = Calls[c].stream /\ x.line = 1 /\ x.off = 0
      /\ x.body = 0 /\ x.buf = 0 /\ x.usage = NULL /\ x.resp = << >>
  BY <1>1, <1>2 DEF Ended, Fresh, ConnRows
<1> QED BY <1>2, <1>3, FreshRows

(***************************************************************************)
(* The steps of a call before finish.                                      *)
(***************************************************************************)
Moves(c) ==
  \/ GetCurrent(c) \/ GetPrevious(c)
  \/ \E resp \in Responses : Answer(c, resp)
  \/ NoAnswer(c)
  \/ \E head \in BOOLEAN : Capture(c, head)
  \/ Copied(c) \/ HangUp(c) \/ MeterTimesOut(c)

(***************************************************************************)
(* They keep what the copies know, and end no call that is to be metered.  *)
(***************************************************************************)
LEMMA CallMoves ==
  ASSUME StoreInv, ConnsOK, NEW c \in DOMAIN Calls, Moves(c)
  PROVE  /\ ConnsOK' /\ UNCHANGED <<usage, faults>>
         /\ conns[c].pc # "done" /\ conns'[c].pc # "done"
         /\ \A d \in DOMAIN Calls : d # c => conns'[d] = conns[d]
<1>1. PICK x : x = conns[c]
  OBVIOUS
<1>2. /\ x \in ConnRows /\ CopyKnows(c, x) /\ conns \in [DOMAIN Calls -> ConnRows]
      /\ Calls[c].owner \in Owners
  BY <1>1, RelayAssumption DEF ConnsOK, CopiesKnow, CopyKnows
<1> DEFINE To(y) == /\ conns' = [conns EXCEPT ![c] = y]
                    /\ y \in ConnRows /\ CopyKnows(c, y) /\ y.pc # "done"
<1>3. SUFFICES x.pc # "done" /\ UNCHANGED <<usage, faults>> /\ \E y : To(y)
  BY <1>1, ConnMoves
<1>4. CASE GetCurrent(c)
  <2>1. PICK pc, cred :
           /\ pc \in {"refused", "previous", "proxy"} /\ cred = Opened(c, Stored(Calls[c].owner).key)
           /\ x.pc = "idle" /\ UNCHANGED <<usage, faults>>
           /\ conns' = [conns EXCEPT ![c].pc = pc, ![c].cred = cred]
    BY <1>1, <1>4 DEF GetCurrent, At, storeVars
  <2>2. cred \in Creds \cup {NULL}
    BY <1>2, <2>1, OpenedType
  <2>3. PICK y : y = [x EXCEPT !.pc = pc, !.cred = cred]
    OBVIOUS
  <2>4. /\ y \in ConnRows /\ y.pc = pc /\ y.resp = x.resp /\ y.stream = x.stream
        /\ y.line = x.line /\ y.off = x.off /\ y.body = x.body /\ y.buf = x.buf
        /\ y.usage = x.usage
    BY <1>2, <2>1, <2>2, <2>3 DEF ConnRows
  <2>5. CopyKnows(c, y)
    BY <1>2, <2>1, <2>4, BegunMoves
  <2>6. conns' = [conns EXCEPT ![c] = y]
    BY <1>1, <1>2, <2>1, <2>3
  <2> QED BY <2>1, <2>4, <2>5, <2>6
<1>5. CASE GetPrevious(c)
  <2>1. PICK pc, cred :
           /\ pc \in {"refused", "proxy"} /\ cred = Opened(c, Stored(Calls[c].owner).previous)
           /\ x.pc = "previous" /\ UNCHANGED <<usage, faults>>
           /\ conns' = [conns EXCEPT ![c].pc = pc, ![c].cred = cred]
    BY <1>1, <1>5 DEF GetPrevious, At, storeVars
  <2>2. cred \in Creds \cup {NULL}
    BY <1>2, <2>1, OpenedType
  <2>3. PICK y : y = [x EXCEPT !.pc = pc, !.cred = cred]
    OBVIOUS
  <2>4. /\ y \in ConnRows /\ y.pc = pc /\ y.resp = x.resp /\ y.stream = x.stream
        /\ y.line = x.line /\ y.off = x.off /\ y.body = x.body /\ y.buf = x.buf
        /\ y.usage = x.usage
    BY <1>2, <2>1, <2>2, <2>3 DEF ConnRows
  <2>5. CopyKnows(c, y)
    BY <1>2, <2>1, <2>4, BegunMoves
  <2>6. conns' = [conns EXCEPT ![c] = y]
    BY <1>1, <1>2, <2>1, <2>3
  <2> QED BY <2>1, <2>4, <2>5, <2>6
<1>6. ASSUME NEW resp \in Responses, Answer(c, resp)
      PROVE  x.pc # "done" /\ UNCHANGED <<usage, faults>> /\ \E y : To(y)
  <2>1. /\ x.pc = "proxy" /\ UNCHANGED <<usage, faults>>
        /\ conns' = [conns EXCEPT ![c].pc = "copy", ![c].resp = resp]
    BY <1>1, <1>6 DEF Answer, At, storeVars
  <2>2. PICK y : y = [x EXCEPT !.pc = "copy", !.resp = resp]
    OBVIOUS
  <2>3. /\ y \in ConnRows /\ y.pc = "copy" /\ y.stream = x.stream
        /\ y.line = x.line /\ y.off = x.off /\ y.body = x.body /\ y.buf = x.buf
        /\ y.usage = x.usage
    BY <1>2, <2>2 DEF ConnRows
  <2>4. CopyKnows(c, y)
    BY <1>2, <2>1, <2>3, BegunMoves
  <2>5. conns' = [conns EXCEPT ![c] = y]
    BY <1>1, <1>2, <2>1, <2>2
  <2> QED BY <2>1, <2>3, <2>4, <2>5
<1>7. CASE NoAnswer(c)
  <2>1. /\ x.pc = "proxy" /\ UNCHANGED <<usage, faults>>
        /\ conns' = [conns EXCEPT ![c].pc = "finish"]
    BY <1>1, <1>7 DEF NoAnswer, At, storeVars
  <2>2. PICK y : y = [x EXCEPT !.pc = "finish"]
    OBVIOUS
  <2>3. /\ y \in ConnRows /\ y.pc = "finish" /\ y.resp = x.resp /\ y.stream = x.stream
        /\ y.line = x.line /\ y.off = x.off /\ y.body = x.body /\ y.buf = x.buf
        /\ y.usage = x.usage
    BY <1>2, <2>2 DEF ConnRows
  <2>4. CopyKnows(c, y)
    BY <1>2, <2>1, <2>3, BegunMoves
  <2>5. conns' = [conns EXCEPT ![c] = y]
    BY <1>1, <1>2, <2>1, <2>2
  <2> QED BY <2>1, <2>3, <2>4, <2>5
<1>8. ASSUME NEW head \in BOOLEAN, Capture(c, head)
      PROVE  x.pc # "done" /\ UNCHANGED <<usage, faults>> /\ \E y : To(y)
  <2>1. PICK n \in 1 .. x.resp[x.line].size - x.off :
           /\ conns' = [conns EXCEPT ![c] = captured(x, n, head)]
           /\ x.pc = "copy" /\ x.line <= Len(x.resp) /\ UNCHANGED <<usage, faults>>
    BY <1>1, <1>8 DEF Capture, At, storeVars
  <2>2. /\ captured(x, n, head) \in ConnRows /\ captured(x, n, head).pc = "copy"
        /\ CopyKnows(c, captured(x, n, head))
    BY <1>2, <2>1, CapturedPiece
  <2> QED BY <2>1, <2>2
<1>9. CASE Copied(c)
  <2>1. /\ x.pc = "copy" /\ x.line > Len(x.resp) /\ UNCHANGED <<usage, faults>>
        /\ conns' = [conns EXCEPT ![c].pc = "finish"]
    BY <1>1, <1>9 DEF Copied, At, storeVars
  <2>2. PICK y : y = [x EXCEPT !.pc = "finish"]
    OBVIOUS
  <2>3. /\ y \in ConnRows /\ y.pc = "finish" /\ y.resp = x.resp /\ y.stream = x.stream
        /\ y.line = x.line /\ y.off = x.off /\ y.body = x.body /\ y.buf = x.buf
        /\ y.usage = x.usage
    BY <1>2, <2>2 DEF ConnRows
  <2>4. x.line = Len(x.resp) + 1
    <3>1. Len(x.resp) \in Nat
      BY <1>2, AnswerLines DEF ConnRows
    <3>2. x.line \in 1 .. Len(x.resp) + 1
      BY <1>2 DEF CopyKnows, IsAt
    <3> QED BY <2>1, <3>1, <3>2
  <2>5. CopyKnows(c, y)
    BY <1>2, <2>1, <2>3, <2>4, CopyMoves
  <2>6. conns' = [conns EXCEPT ![c] = y]
    BY <1>1, <1>2, <2>1, <2>2
  <2> QED BY <2>1, <2>3, <2>5, <2>6
<1>10. CASE HangUp(c)
  <2>1. /\ x.pc = "copy" /\ UNCHANGED <<usage, faults>>
        /\ conns' = [conns EXCEPT ![c] = Ended(c, "aborted")]
    BY <1>1, <1>10 DEF HangUp, At, storeVars
  <2>2. /\ Ended(c, "aborted") \in ConnRows /\ CopyKnows(c, Ended(c, "aborted"))
        /\ Ended(c, "aborted").pc = "aborted"
    BY EndedRows
  <2> QED BY <2>1, <2>2
<1>11. CASE MeterTimesOut(c)
  <2>1. /\ x.pc \in {"proxy", "copy", "finish"} /\ UNCHANGED <<usage, faults>>
        /\ conns' = [conns EXCEPT ![c].late = TRUE]
    BY <1>1, <1>11 DEF MeterTimesOut, storeVars
  <2>2. PICK y : y = [x EXCEPT !.late = TRUE]
    OBVIOUS
  <2>3. /\ y \in ConnRows /\ y.pc = x.pc /\ y.resp = x.resp /\ y.stream = x.stream
        /\ y.line = x.line /\ y.off = x.off /\ y.body = x.body /\ y.buf = x.buf
        /\ y.usage = x.usage
    BY <1>2, <2>2 DEF ConnRows
  <2>4. CopyKnows(c, y)
    BY <1>2, <2>1, <2>3, BegunMoves, CopyMoves
  <2>5. conns' = [conns EXCEPT ![c] = y]
    BY <1>1, <1>2, <2>1, <2>2
  <2> QED BY <2>1, <2>3, <2>4, <2>5
<1> HIDE DEF To
<1> QED BY <1>4, <1>5, <1>6, <1>7, <1>8, <1>9, <1>10, <1>11 DEF Moves

(***************************************************************************)
(* finish: the row that it adds is what the call's answer reports, and it  *)
(* adds one, or finds one, unless there is nothing to record, it is late,  *)
(* or the database is busy.                                                *)
(***************************************************************************)
LEMMA FinishMoves ==
  ASSUME ConnsOK, UsageOK, NEW c \in DOMAIN Calls, Finish(c)
  PROVE  ConnsOK' /\ UsageOK'
<1>1. PICK x, y, q, seen :
         /\ x = conns[c] /\ q = requestID(c) /\ seen = Seen(x)
         /\ y = [Ended(c, "done") EXCEPT !.resp = x.resp, !.late = x.late]
  OBVIOUS
<1>2. x \in ConnRows /\ CopyKnows(c, x) /\ x.pc = "finish"
  BY <1>1 DEF ConnsOK, CopiesKnow, CopyKnows, Finish, At
<1>3. /\ y \in ConnRows /\ y.pc = "done" /\ y.resp = x.resp /\ y.late = x.late
      /\ y.stream = Calls[c].stream /\ y.line = 1 /\ y.off = 0
      /\ y.body = 0 /\ y.buf = 0 /\ y.usage = NULL
  <2>1. 0 \in 0 .. MaxCapture /\ Calls[c].stream \in BOOLEAN
    BY RelayAssumption
  <2> QED BY <1>1, <1>2, <2>1 DEF Ended, Fresh, ConnRows
<1>4. CopyKnows(c, y)
  BY <1>3, FreshRows
<1>5. conns' = [conns EXCEPT ![c] = y]
  BY <1>1 DEF Finish
<1>6. /\ ConnsOK' /\ conns'[c] = y
      /\ \A d \in DOMAIN Calls : d # c => conns'[d] = conns[d]
  BY <1>3, <1>4, <1>5, ConnMoves
<1>7. PICK rep : rep = Reports(c)'
  OBVIOUS
<1>8. /\ rep # NULL => seen = rep
      /\ seen # NULL =>
            /\ \E k \in DOMAIN x.resp : x.resp[k].usage = seen
            /\ rep \in {NULL, seen}
  <2>1. rep = ReportOf(c, x.resp)
    BY <1>3, <1>6, <1>7 DEF Reports
  <2> QED BY <1>1, <1>2, <2>1, SeenIsReported
<1>9. \/ /\ seen # NULL /\ validateUsage(c, seen) /\ ~x.late /\ faults' = faults
         /\ usage' = IF q \in DOMAIN usage THEN usage
                     ELSE [p \in DOMAIN usage \cup {q} |->
                              IF p = q THEN [owner |-> Calls[c].owner, call |-> c,
                                             tokens |-> seen]
                                       ELSE usage[p]]
      \/ /\ seen = NULL \/ ~validateUsage(c, seen) \/ x.late
         /\ usage' = usage /\ faults' = faults
      \/ faults < MaxFaults /\ faults' = faults + 1 /\ usage' = usage
  BY <1>1 DEF Finish, Fault
<1>10. /\ faults' \in 0 .. MaxFaults /\ (faults' = 0 => faults = 0)
       /\ faults' = 0 => faults' = faults
  BY <1>9, StoreAssumption DEF UsageOK
<1>11. /\ DOMAIN usage \subseteq DOMAIN usage' /\ \A p \in DOMAIN usage : usage'[p] = usage[p]
       /\ \A p \in DOMAIN usage' \ DOMAIN usage :
             /\ p = q /\ seen # NULL
             /\ usage'[p] = [owner |-> Calls[c].owner, call |-> c, tokens |-> seen]
  BY <1>9
<1>12. \A d \in DOMAIN Calls : At(d, "done") => d # c /\ conns'[d] = conns[d]
  BY <1>1, <1>2, <1>6 DEF At
<1>13. \A d \in DOMAIN Calls : conns'[d] = conns[d] => Reports(d)' = Reports(d)
  BY DEF Reports
<1>14. RecordedIsTheirs'
  <2> SUFFICES ASSUME NEW p \in DOMAIN usage', NEW d, d = usage'[p].call
               PROVE  /\ conns'[d].pc = "done" /\ requestID(d) = p
                      /\ usage'[p].owner = Calls[d].owner
                      /\ \E k \in DOMAIN conns'[d].resp :
                            conns'[d].resp[k].usage = usage'[p].tokens
                      /\ Reports(d)' \in {NULL, usage'[p].tokens}
    BY DEF RecordedIsTheirs, At, requestID
  <2>1. CASE p \in DOMAIN usage
    <3>1. d \in DOMAIN Calls /\ usage'[p] = usage[p] /\ d = usage[p].call
      BY <1>11, <2>1 DEF UsageOK
    <3>2. /\ At(d, "done") /\ requestID(d) = p /\ usage[p].owner = Calls[d].owner
          /\ \E k \in DOMAIN conns[d].resp : conns[d].resp[k].usage = usage[p].tokens
          /\ Reports(d) \in {NULL, usage[p].tokens}
      BY <2>1, <3>1 DEF UsageOK, RecordedIsTheirs
    <3>3. conns'[d] = conns[d] /\ Reports(d)' = Reports(d)
      BY <1>12, <1>13, <3>1, <3>2
    <3> QED BY <3>1, <3>2, <3>3 DEF At
  <2>2. CASE p \notin DOMAIN usage
    <3>1. p = q /\ seen # NULL /\ d = c /\ usage'[p].owner = Calls[c].owner
          /\ usage'[p].tokens = seen
      BY <1>11, <2>2
    <3>2. Reports(d)' = rep /\ requestID(d) = q /\ conns'[d] = y
      BY <1>1, <1>6, <1>7, <3>1
    <3> QED BY <1>3, <1>8, <3>1, <3>2
  <2> QED BY <2>1, <2>2
<1>15. MeteredInTime'
  <2> SUFFICES ASSUME NEW d \in DOMAIN Calls, conns'[d].pc = "done", Reports(d)' # NULL,
                      ~conns'[d].late, validateUsage(d, Reports(d)'), faults' = 0
               PROVE  requestID(d) \in DOMAIN usage'
    BY DEF MeteredInTime, At, validateUsage, requestID
  <2>1. CASE d = c
    <3>1. seen # NULL /\ ~x.late /\ validateUsage(c, seen)
      BY <1>3, <1>6, <1>7, <1>8, <2>1
    <3>2. faults' = faults /\ faults # faults + 1
      BY <1>10, StoreAssumption DEF UsageOK
    <3>3. q \in DOMAIN usage'
      BY <1>9, <2>1, <3>1, <3>2
    <3> QED BY <1>1, <2>1, <3>3
  <2>2. CASE d # c
    <3>1. /\ At(d, "done") /\ Reports(d) # NULL /\ ~conns[d].late /\ faults = 0
          /\ validateUsage(d, Reports(d))
      BY <1>6, <1>10, <1>13, <2>2 DEF At
    <3> QED BY <1>11, <3>1 DEF UsageOK, MeteredInTime
  <2> QED BY <2>1, <2>2
<1>16. \A p \in DOMAIN usage' : usage'[p].call \in DOMAIN Calls
  BY <1>11 DEF UsageOK
<1> QED BY <1>6, <1>10, <1>14, <1>15, <1>16 DEF UsageOK

-----------------------------------------------------------------------------
(***************************************************************************)
(* The versions, overlapping writes included.                              *)
(***************************************************************************)

(***************************************************************************)
(* The calls of Put that are over can be counted.                          *)
(***************************************************************************)
LEMMA DoneIsFinite ==
  /\ IsFiniteSet(PutsDone) /\ Cardinality(PutsDone) \in Nat
  /\ Cardinality(PutsDone) <= MaxPuts
<1>1. IsFiniteSet(1 .. MaxPuts) /\ Cardinality(1 .. MaxPuts) = MaxPuts
  BY FS_Interval, StoreAssumption
<1>2. PutsDone \subseteq 1 .. MaxPuts
  BY DEF PutsDone
<1> QED BY <1>1, <1>2, FS_Subset, FS_CardinalityType

(***************************************************************************)
(* Put begins: its nonce is not yet among those that are over.             *)
(***************************************************************************)
LEMMA PutSealCounts ==
  ASSUME StoreInv, VersionsCount, NEW w \in Writers, NEW i \in Instances,
         NEW o \in Owners, NEW cred \in Creds, PutSeal(w, i, o, cred)
  PROVE  VersionsCount'
<1>1. /\ budget \in 1 .. MaxPuts /\ budget' = budget - 1 /\ writers[w].pc = "idle"
      /\ writers \in [Writers -> Record] /\ credentials' = credentials
      /\ writers' = [writers EXCEPT ![w] =
            [pc |-> "key", owner |-> o, sealed |-> seal(i, o, cred, budget),
             prev |-> NULL, version |-> 0]]
  BY StoreAssumption DEF VersionsCount, PutSeal, StoreInv, StoreTypeOK, Record
<1>2. /\ writers'[w].pc = "key" /\ writers'[w].sealed.nonce = budget
      /\ \A v \in Writers : v # w => writers'[v] = writers[v]
  BY <1>1 DEF seal
<1>3. \A v \in Writers : writers[v].pc # "idle" =>
         /\ writers[v].sealed.nonce \in 1 .. MaxPuts /\ writers[v].sealed.nonce > budget
         /\ v # w
  BY <1>1 DEF VersionsCount
<1>4. PutsDone' = PutsDone
  <2> SUFFICES ASSUME NEW n \in 1 .. MaxPuts
               PROVE  (n > budget' /\ \A v \in Writers :
                                        writers'[v].pc # "idle" => writers'[v].sealed.nonce # n)
                      <=> (n > budget /\ \A v \in Writers :
                                        writers[v].pc # "idle" => writers[v].sealed.nonce # n)
    BY DEF PutsDone
  <2>1. n > budget' /\ n # budget <=> n > budget
    BY <1>1
  <2> QED BY <1>1, <1>2, <1>3, <2>1
<1>5. budget' \in 0 .. MaxPuts
  BY <1>1, StoreAssumption
<1>6. ASSUME NEW v \in Writers, writers'[v].pc # "idle"
      PROVE  /\ writers'[v].sealed.nonce \in 1 .. MaxPuts /\ writers'[v].sealed.nonce > budget'
             /\ \A u \in Writers : writers'[u].pc # "idle" /\ u # v =>
                    writers'[u].sealed.nonce # writers'[v].sealed.nonce
             /\ writers'[v].pc = "write" =>
                    writers'[v].version \in 1 .. Cardinality(PutsDone) + 1
  <2>1. CASE v = w
    BY <1>1, <1>2, <1>3, <2>1
  <2>2. CASE v # w
    <3>1. writers'[v] = writers[v] /\ writers[v].pc # "idle"
      BY <1>2, <1>6, <2>2
    <3>2. writers[v].sealed.nonce > budget' /\ writers[v].sealed.nonce # budget
      BY <1>1, <1>3, <3>1
    <3> QED BY <1>2, <3>1, <3>2 DEF VersionsCount
  <2> QED BY <2>1, <2>2
<1> QED BY <1>1, <1>4, <1>5, <1>6 DEF VersionsCount

(***************************************************************************)
(* The reads: the next version is at most one more than what is over.      *)
(***************************************************************************)
LEMMA PutReadsCount ==
  ASSUME StoreInv, VersionsCount, NEW w \in Writers, PutReadKey(w) \/ PutReadVersion(w)
  PROVE  VersionsCount'
<1>1. PICK n : n = Cardinality(PutsDone)
  OBVIOUS
<1>2. n \in Nat
  BY <1>1, DoneIsFinite
<1>3. PICK y :
         /\ writers' = [writers EXCEPT ![w] = y] /\ writers[w].pc # "idle" /\ y.pc # "idle"
         /\ y.sealed = writers[w].sealed /\ budget' = budget /\ credentials' = credentials
         /\ y.pc = "write" => y.version \in 1 .. n + 1
  <2>1. writers \in [Writers -> Record]
    BY DEF StoreInv, StoreTypeOK, Record
  <2>2. CASE PutReadKey(w)
    <3>1. PICK prev : /\ \/ writers' = [writers EXCEPT ![w].pc = "version", ![w].prev = prev]
                         \/ writers' = [writers EXCEPT ![w].pc = "version"]
                      /\ writers[w].pc = "key" /\ budget' = budget /\ credentials' = credentials
      BY <2>2 DEF PutReadKey
    <3>2. CASE writers' = [writers EXCEPT ![w].pc = "version", ![w].prev = prev]
      <4>1. PICK y : y = [writers[w] EXCEPT !.pc = "version", !.prev = prev]
        OBVIOUS
      <4>2. y.pc = "version" /\ y.sealed = writers[w].sealed
        BY <2>1, <4>1 DEF Record
      <4>3. writers' = [writers EXCEPT ![w] = y]
        BY <2>1, <3>2, <4>1
      <4> QED BY <3>1, <4>2, <4>3
    <3>3. CASE writers' = [writers EXCEPT ![w].pc = "version"]
      <4>1. PICK y : y = [writers[w] EXCEPT !.pc = "version"]
        OBVIOUS
      <4>2. y.pc = "version" /\ y.sealed = writers[w].sealed
        BY <2>1, <4>1 DEF Record
      <4>3. writers' = [writers EXCEPT ![w] = y]
        BY <2>1, <3>3, <4>1
      <4> QED BY <3>1, <4>2, <4>3
    <3> QED BY <3>1, <3>2, <3>3
  <2>3. CASE PutReadVersion(w)
    <3>1. PICK version : /\ writers' = [writers EXCEPT ![w].pc = "write", ![w].version = version]
                         /\ \/ version = nextVersion(Stored(writers[w].owner).version)
                            \/ version = nextVersion(0)
                         /\ writers[w].pc = "version" /\ budget' = budget
                         /\ credentials' = credentials
      BY <2>3 DEF PutReadVersion
    <3>2. version \in 1 .. n + 1
      <4>1. Stored(writers[w].owner).version \in 0 .. n
        BY <1>1, <1>2 DEF VersionsCount, Stored
      <4> QED BY <1>2, <3>1, <4>1 DEF nextVersion
    <3>3. PICK y : y = [writers[w] EXCEPT !.pc = "write", !.version = version]
      OBVIOUS
    <3>4. y.pc = "write" /\ y.sealed = writers[w].sealed /\ y.version = version
      BY <2>1, <3>3 DEF Record
    <3>5. writers' = [writers EXCEPT ![w] = y]
      BY <2>1, <3>1, <3>3
    <3> QED BY <3>1, <3>2, <3>4, <3>5
  <2> QED BY <2>2, <2>3
<1>4. \A v \in Writers : /\ writers'[v].pc = "idle" <=> writers[v].pc = "idle"
                         /\ writers'[v].sealed = writers[v].sealed
                         /\ writers'[v].pc = "write" =>
                               writers'[v] = writers[v] \/ writers'[v].version \in 1 .. n + 1
  BY <1>3 DEF StoreInv, StoreTypeOK
<1>5. PutsDone' = PutsDone
  BY <1>3, <1>4 DEF PutsDone
<1>6. ASSUME NEW v \in Writers, writers'[v].pc # "idle"
      PROVE  /\ writers'[v].sealed.nonce \in 1 .. MaxPuts /\ writers'[v].sealed.nonce > budget'
             /\ \A u \in Writers : writers'[u].pc # "idle" /\ u # v =>
                    writers'[u].sealed.nonce # writers'[v].sealed.nonce
             /\ writers'[v].pc = "write" => writers'[v].version \in 1 .. n + 1
  BY <1>1, <1>3, <1>4, <1>6 DEF VersionsCount
<1> QED BY <1>1, <1>3, <1>5, <1>6 DEF VersionsCount

(***************************************************************************)
(* Put ends: there is one more that is over, which makes room for the      *)
(* version that it may have written.                                       *)
(***************************************************************************)
LEMMA PutEndsCounts ==
  ASSUME StoreInv, VersionsCount, NEW w \in Writers, PutWrite(w) \/ PutFails(w)
  PROVE  VersionsCount'
<1>1. PICK n, m : n = Cardinality(PutsDone) /\ m = writers[w].sealed.nonce
  OBVIOUS
<1>2. n \in Nat /\ IsFiniteSet(PutsDone)
  BY <1>1, DoneIsFinite
<1>3. /\ writers' = [writers EXCEPT ![w] = NotWriting] /\ writers[w].pc # "idle"
      /\ budget' = budget
      /\ \A o \in DOMAIN credentials' :
            credentials'[o].version \in 1 .. n \/ credentials'[o].version \in 1 .. n + 1
  <2>1. CASE PutFails(w)
    BY <1>1, <2>1 DEF PutFails, VersionsCount
  <2>2. CASE PutWrite(w)
    <3>1. /\ writers[w].pc = "write" /\ budget' = budget
          /\ writers' = [writers EXCEPT ![w] = NotWriting]
          /\ \A o \in DOMAIN credentials' :
                \/ credentials'[o].version = writers[w].version
                \/ o \in DOMAIN credentials /\ credentials'[o] = credentials[o]
      BY <2>2 DEF PutWrite, upsert
    <3>2. writers[w].version \in 1 .. n + 1
      BY <1>1, <3>1 DEF VersionsCount
    <3> QED BY <1>1, <3>1, <3>2 DEF VersionsCount
  <2> QED BY <2>1, <2>2
<1>4. /\ writers'[w].pc = "idle"
      /\ \A v \in Writers : v # w => writers'[v] = writers[v]
  BY <1>3 DEF StoreInv, StoreTypeOK, NotWriting
<1>5. /\ m \in 1 .. MaxPuts /\ m > budget
      /\ \A v \in Writers : writers[v].pc # "idle" /\ v # w => writers[v].sealed.nonce # m
  BY <1>1, <1>3 DEF VersionsCount
<1>6. m \notin PutsDone /\ PutsDone' = PutsDone \cup {m}
  <2>1. m \notin PutsDone
    BY <1>1, <1>3 DEF PutsDone
  <2>2. ASSUME NEW k \in 1 .. MaxPuts
        PROVE  (k > budget /\ \A v \in Writers :
                                 writers'[v].pc # "idle" => writers'[v].sealed.nonce # k)
               <=> \/ k = m
                   \/ k > budget /\ \A v \in Writers :
                                       writers[v].pc # "idle" => writers[v].sealed.nonce # k
    <3>1. CASE k = m
      BY <1>4, <1>5, <3>1
    <3>2. CASE k # m
      BY <1>1, <1>4, <3>2
    <3> QED BY <3>1, <3>2
  <2> QED BY <1>3, <1>5, <2>1, <2>2 DEF PutsDone
<1>7. Cardinality(PutsDone') = n + 1
  BY <1>1, <1>2, <1>6, FS_AddElement
<1>8. \A k : (k \in 1 .. n \/ k \in 1 .. n + 1) => k \in 1 .. n + 1 /\ k \in 1 .. (n + 1) + 1
  BY <1>2
<1>9. ASSUME NEW v \in Writers, writers'[v].pc # "idle"
      PROVE  /\ writers'[v].sealed.nonce \in 1 .. MaxPuts /\ writers'[v].sealed.nonce > budget'
             /\ \A u \in Writers : writers'[u].pc # "idle" /\ u # v =>
                    writers'[u].sealed.nonce # writers'[v].sealed.nonce
             /\ writers'[v].pc = "write" => writers'[v].version \in 1 .. (n + 1) + 1
  <2>1. v # w /\ writers'[v] = writers[v]
    BY <1>4, <1>9
  <2>2. writers[v].pc = "write" => writers[v].version \in 1 .. n + 1
    BY <1>1 DEF VersionsCount
  <2>3. \A u \in Writers : writers'[u].pc # "idle" => writers'[u] = writers[u]
    BY <1>4
  <2> QED BY <1>3, <1>8, <1>9, <2>1, <2>2, <2>3 DEF VersionsCount
<1>10. \A o \in DOMAIN credentials' : credentials'[o].version \in 1 .. n + 1
  BY <1>3, <1>8
<1>11. budget' \in 0 .. MaxPuts
  BY <1>3 DEF VersionsCount
<1> QED BY <1>7, <1>9, <1>10, <1>11 DEF VersionsCount

(***************************************************************************)
(* Every step keeps the count of the versions.                             *)
(***************************************************************************)
LEMMA NextCounts == StoreInv /\ VersionsCount /\ [ByokNext]_allVars => VersionsCount'
<1> SUFFICES ASSUME StoreInv, VersionsCount, [ByokNext]_allVars PROVE VersionsCount'
  OBVIOUS
<1>1. CASE UNCHANGED <<writers, budget>> /\ DOMAIN credentials' \subseteq DOMAIN credentials
           /\ \A o \in DOMAIN credentials' : credentials'[o] = credentials[o]
  <2>1. PutsDone' = PutsDone
    BY <1>1 DEF PutsDone
  <2> QED BY <1>1, <2>1 DEF VersionsCount
<1>2. CASE UNCHANGED keyVars
  BY <1>1, <1>2 DEF keyVars
<1>3. ASSUME NEW i \in Instances, NEW o \in Owners, Delete(i, o)
      PROVE  VersionsCount'
  BY <1>1, <1>3 DEF Delete, remove, Without
<1>4. CASE StoreStep
  BY <1>3, <1>4, PutSealCounts, PutReadsCount, PutEndsCounts DEF StoreStep
<1>5. CASE \E c \in DOMAIN Calls : RelayStep(c)
  BY <1>2, <1>5, RelayLeavesStore
<1>6. CASE UNCHANGED allVars
  BY <1>2, <1>6 DEF allVars, storeVars, keyVars
<1> QED BY <1>4, <1>5, <1>6 DEF ByokNext

-----------------------------------------------------------------------------
(***************************************************************************)
(* All of it.                                                              *)
(***************************************************************************)
ByokInv == StoreInv /\ VersionsCount /\ ConnsOK /\ UsageOK

(***************************************************************************)
(* At the start no call has an answer, and nothing is recorded.            *)
(***************************************************************************)
LEMMA InitByok == RelayInit => ByokInv
<1> SUFFICES ASSUME RelayInit PROVE ByokInv
  OBVIOUS
<1>1. VersionsCount
  BY DEF RelayInit, StoreInit, VersionsCount, NotWriting
<1>2. PICK load \in Workloads :
         conns = [c \in DOMAIN Calls |->
                    IF c \in load.calls THEN Fresh(c) ELSE Ended(c, "absent")]
  BY DEF RelayInit
<1>3. ASSUME NEW c \in DOMAIN Calls
      PROVE  conns[c] \in ConnRows /\ CopyKnows(c, conns[c]) /\ conns[c].pc # "done"
  <2>1. PICK x : x = Fresh(c)
    OBVIOUS
  <2>2. 0 \in 0 .. MaxCapture /\ Calls[c].stream \in BOOLEAN
    BY RelayAssumption
  <2>3. /\ x \in ConnRows /\ x.pc = "idle" /\ x.stream = Calls[c].stream
        /\ x.line = 1 /\ x.off = 0 /\ x.body = 0 /\ x.buf = 0 /\ x.usage = NULL
        /\ x.resp = << >>
    BY <2>1, <2>2 DEF Fresh, ConnRows
  <2>4. CopyKnows(c, x)
    BY <2>3, FreshRows
  <2> QED BY <1>2, <2>1, <2>3, <2>4, EndedRows
<1>4. ConnsOK
  <2>1. conns \in [DOMAIN Calls -> ConnRows]
    BY <1>2, <1>3
  <2> QED BY <1>3, <2>1 DEF ConnsOK, CopiesKnow, CopyKnows
<1>5. UsageOK
  BY <1>3, StoreAssumption DEF RelayInit, StoreInit, UsageOK, RecordedIsTheirs, MeteredInTime, At
<1> QED BY <1>1, <1>4, <1>5, InitInv DEF ByokInv

(***************************************************************************)
(* A step of the store, or none: the calls and their rows stay.            *)
(***************************************************************************)
LEMMA RelayStays ==
  ASSUME ConnsOK, UsageOK, UNCHANGED relayVars, faults' \in 0 .. MaxFaults,
         faults' = 0 => faults = 0
  PROVE  ConnsOK' /\ UsageOK'
<1>1. conns' = conns /\ usage' = usage
  BY DEF relayVars
<1>2. ConnsOK'
  BY <1>1 DEF ConnsOK, CopiesKnow
<1>3. RecordedIsTheirs'
  BY <1>1 DEF UsageOK, RecordedIsTheirs, At, Reports
<1>4. MeteredInTime'
  BY <1>1 DEF UsageOK, MeteredInTime, At, Reports
<1> QED BY <1>1, <1>2, <1>3, <1>4 DEF UsageOK

(***************************************************************************)
(* Every step of the store and of the relay keeps all of it.               *)
(***************************************************************************)
LEMMA NextByok == ByokInv /\ [ByokNext]_allVars => ByokInv'
<1> SUFFICES ASSUME ByokInv, [ByokNext]_allVars PROVE ByokInv'
  OBVIOUS
<1>1. StoreInv' /\ VersionsCount'
  BY NextInv, NextCounts DEF ByokInv
<1>2. faults \in 0 .. MaxFaults /\ MaxFaults \in Nat
  BY StoreAssumption DEF ByokInv, UsageOK
<1>3. CASE StoreStep /\ UNCHANGED relayVars
  <2>1. faults' = faults \/ (faults < MaxFaults /\ faults' = faults + 1)
    BY <1>3 DEF StoreStep, PutSeal, PutReadKey, PutReadVersion, PutWrite, PutFails, Delete, Fault
  <2>2. faults' \in 0 .. MaxFaults /\ (faults' = 0 => faults = 0)
    BY <1>2, <2>1
  <2> QED BY <1>1, <1>3, <2>2, RelayStays DEF ByokInv
<1>4. ASSUME NEW c \in DOMAIN Calls, RelayStep(c)
      PROVE  ByokInv'
  <2>1. CASE Finish(c)
    BY <1>1, <2>1, FinishMoves DEF ByokInv
  <2>2. CASE Moves(c)
    <3>1. /\ ConnsOK' /\ UNCHANGED <<usage, faults>>
          /\ conns[c].pc # "done" /\ conns'[c].pc # "done"
          /\ \A d \in DOMAIN Calls : d # c => conns'[d] = conns[d]
      BY <2>2, CallMoves DEF ByokInv
    <3>2. faults' \in 0 .. MaxFaults /\ faults' >= faults
      BY <1>2, <3>1
    <3>3. UsageOK'
      BY <3>1, <3>2, UsageStays DEF ByokInv
    <3> QED BY <1>1, <3>1, <3>3 DEF ByokInv
  <2> QED BY <1>4, <2>1, <2>2 DEF RelayStep, Moves
<1>5. CASE UNCHANGED allVars
  <2>1. UNCHANGED relayVars /\ faults' = faults
    BY <1>5 DEF allVars, storeVars
  <2> QED BY <1>1, <1>2, <2>1, RelayStays DEF ByokInv
<1> QED BY <1>3, <1>4, <1>5 DEF ByokNext

(***************************************************************************)
(* The store and the relay keep their invariant, RelayInv included.        *)
(***************************************************************************)
THEOREM ByokCorrect == ByokSpec => [](StoreInv /\ RelayInv)
<1>1. ByokInv => StoreInv /\ RelayInv
  BY DEF ByokInv, ConnsOK, UsageOK, RelayInv
<1> QED BY InitByok, NextByok, <1>1, PTL DEF ByokSpec

(***************************************************************************)
(* A row's key is its owner's, a version counts calls of Put, and neither  *)
(* buffer of a copy grows beyond maxUsageCaptureBytes.                     *)
(***************************************************************************)
THEOREM RelayTypeCorrect == ByokSpec => []RelayTypeOK
<1>1. ByokInv => RelayTypeOK
  <2> SUFFICES ASSUME ByokInv PROVE RelayTypeOK
    OBVIOUS
  <2>1. DOMAIN credentials \subseteq Owners
    BY DEF ByokInv, StoreInv, StoreTypeOK
  <2>2. \A o \in DOMAIN credentials : credentials[o].key.owner = o
    BY DEF ByokInv, StoreInv, KeysStayWithOwner, Sealings
  <2>3. \A o \in DOMAIN credentials : credentials[o].version \in 1 .. MaxPuts
    BY DoneIsFinite, StoreAssumption DEF ByokInv, VersionsCount
  <2>4. \A c \in DOMAIN Calls : /\ conns[c].cred \in Creds \cup {NULL}
                                /\ conns[c].body \in 0 .. MaxCapture
                                /\ conns[c].buf \in 0 .. MaxCapture
    BY DEF ByokInv, ConnsOK, ConnRows
  <2> QED BY <2>1, <2>2, <2>3, <2>4 DEF ByokInv, UsageOK, RelayTypeOK
<1> QED BY InitByok, NextByok, <1>1, PTL DEF ByokSpec

(***************************************************************************)
(* A row of llm_usage is about one call, its user and its own answer,      *)
(* however the network cut the answer.                                     *)
(***************************************************************************)
THEOREM RecordedStaysTheirs == ByokSpec => []RecordedIsTheirs
<1>1. ByokInv => RecordedIsTheirs
  BY DEF ByokInv, UsageOK
<1> QED BY InitByok, NextByok, <1>1, PTL DEF ByokSpec

(***************************************************************************)
(* A call that ends in time, without faults, leaves the row that its       *)
(* answer calls for.                                                       *)
(***************************************************************************)
THEOREM CallsAreMetered == ByokSpec => []MeteredInTime
<1>1. ByokInv => MeteredInTime
  BY DEF ByokInv, UsageOK
<1> QED BY InitByok, NextByok, <1>1, PTL DEF ByokSpec
=============================================================================
