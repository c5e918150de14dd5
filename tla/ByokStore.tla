------------------------------ MODULE ByokStore ------------------------------
(***************************************************************************)
(* The store of users' own provider keys (CredentialStore): the table      *)
(* byok_credentials, written and read by app instances that may have been  *)
(* given different sealing keys.                                           *)
(*                                                                         *)
(* Put is three statements: it reads the key that becomes the previous     *)
(* one, reads the version, and writes the row.  The errors of both reads   *)
(* are ignored.                                                            *)
(***************************************************************************)
EXTENDS Naturals, Sequences, FiniteSets

CONSTANTS
    Owners,         \* pairs of a user_id and a provider
    Creds,          \* the plain credentials that users store
    SealingKey,     \* app instance -> its sealing key, or NULL: disabled
    Writers,        \* calls of Put
    MaxPuts,        \* bound: calls of Put
    MaxFaults,      \* bound: failing statements and crashes
    NULL            \* no key

ASSUME StoreAssumption ==
    MaxPuts \in Nat /\ MaxFaults \in Nat /\ NULL \notin Creds /\ NULL \notin Owners

VARIABLES
    credentials,    \* byok_credentials: owner -> row
    writers,        \* the local variables of every Put
    budget,         \* bound: calls of Put to come
    faults,         \* faults so far
    history,        \* history: per owner, the keys written since its last Delete
    disturbed,      \* history: owners whose writes overlapped, or whose reads failed
    revoked         \* history: sealed keys deleted while no Put was under way

storeVars == <<credentials, writers, budget, faults, history, disturbed, revoked>>

Instances == DOMAIN SealingKey

keyed(i) == SealingKey[i] # NULL

(***************************************************************************)
(* A sealed credential (no two are equal: n stands for the nonce), and     *)
(* what an instance makes of it: it opens what was sealed with its key,    *)
(* for the owner that it asks for.                                         *)
(***************************************************************************)
seal(i, o, cred, n) == [by |-> SealingKey[i], owner |-> o, cred |-> cred, nonce |-> n]

open(i, o, sealed) ==
    IF sealed # NULL /\ sealed.by = SealingKey[i] /\ sealed.owner = o
    THEN sealed.cred ELSE NULL

NotWriting == [pc |-> "idle", owner |-> NULL, sealed |-> NULL, prev |-> NULL, version |-> 0]

StoreInit ==
    /\ credentials = [o \in {} |-> 0]
    /\ writers = [w \in Writers |-> NotWriting]
    /\ budget \in 0 .. MaxPuts /\ faults = 0
    /\ history = [o \in Owners |-> << >>]
    /\ disturbed = {} /\ revoked = {}

Fault == faults < MaxFaults /\ faults' = faults + 1

Stored(o) == IF o \in DOMAIN credentials THEN credentials[o]
             ELSE [key |-> NULL, version |-> 0, previous |-> NULL]

Writing(o) == {w \in Writers : writers[w].owner = o}

-----------------------------------------------------------------------------
(***************************************************************************)
(* Put (and Rotate, which is Put), from its checks to its return.          *)
(***************************************************************************)
PutSeal(w, i, o, cred) ==
    /\ writers[w].pc = "idle" /\ keyed(i) /\ budget > 0
    /\ budget' = budget - 1
    /\ writers' = [writers EXCEPT ![w] =
           [pc |-> "key", owner |-> o, sealed |-> seal(i, o, cred, budget), prev |-> NULL,
            version |-> 0]]
    /\ disturbed' = IF Writing(o) = {} THEN disturbed ELSE disturbed \cup {o}
    /\ UNCHANGED <<credentials, faults, history, revoked>>

PutReadKey(w) ==
    /\ writers[w].pc = "key"
    /\ \/ /\ writers' = [writers EXCEPT ![w].pc = "version",
                             ![w].prev = Stored(writers[w].owner).key]
          /\ UNCHANGED <<faults, disturbed>>
       \/ /\ Fault
          /\ writers' = [writers EXCEPT ![w].pc = "version"]
          /\ disturbed' = disturbed \cup {writers[w].owner}
    /\ UNCHANGED <<credentials, budget, history, revoked>>

(***************************************************************************)
(* The version of the new row.  Mutant: without a row it starts at zero.   *)
(***************************************************************************)
nextVersionFromZero(cur) == IF cur > 0 THEN cur + 1 ELSE 0

nextVersion(cur) == IF cur > 0 THEN cur + 1 ELSE 1

PutReadVersion(w) ==
    /\ writers[w].pc = "version"
    /\ \/ /\ writers' = [writers EXCEPT ![w].pc = "write",
                             ![w].version = nextVersion(Stored(writers[w].owner).version)]
          /\ UNCHANGED <<faults, disturbed>>
       \/ /\ Fault
          /\ writers' = [writers EXCEPT ![w].pc = "write", ![w].version = nextVersion(0)]
          /\ disturbed' = disturbed \cup {writers[w].owner}
    /\ UNCHANGED <<credentials, budget, history, revoked>>

(***************************************************************************)
(* Mutant: an existing row gets a new key and version only.                *)
(***************************************************************************)
upsertKeyOnly(o, x) ==
    [key |-> x.sealed, version |-> x.version,
     previous |-> IF o \in DOMAIN credentials THEN credentials[o].previous ELSE x.prev]

upsert(o, x) == [key |-> x.sealed, version |-> x.version, previous |-> x.prev]

PutWrite(w) ==
    /\ writers[w].pc = "write"
    /\ LET o == writers[w].owner
       IN  /\ credentials' = [p \in DOMAIN credentials \cup {o} |->
                  IF p = o THEN upsert(o, writers[w]) ELSE credentials[p]]
           /\ history' = [history EXCEPT ![o] = Append(@, writers[w].sealed)]
    /\ writers' = [writers EXCEPT ![w] = NotWriting]
    /\ UNCHANGED <<budget, faults, disturbed, revoked>>

PutFails(w) ==
    /\ writers[w].pc # "idle" /\ Fault
    /\ writers' = [writers EXCEPT ![w] = NotWriting]
    /\ UNCHANGED <<credentials, budget, history, disturbed, revoked>>

(***************************************************************************)
(* Delete.  Mutant: it brings back the key before the last rotation.       *)
(***************************************************************************)
Without(f, o) == [p \in DOMAIN f \ {o} |-> f[p]]

removeCurrent(o) ==
    IF Stored(o).previous = NULL THEN Without(credentials, o)
    ELSE [credentials EXCEPT ![o].key = credentials[o].previous, ![o].previous = NULL]

remove(o) == Without(credentials, o)

Delete(i, o) ==
    /\ keyed(i) /\ o \in DOMAIN credentials
    /\ credentials' = remove(o)
    /\ history' = [history EXCEPT ![o] = << >>]
    /\ IF Writing(o) = {}
       THEN /\ revoked' = revoked \cup ({Stored(o).key, Stored(o).previous} \ {NULL})
            /\ disturbed' = disturbed \ {o}
       ELSE /\ disturbed' = disturbed \cup {o}
            /\ UNCHANGED revoked
    /\ UNCHANGED <<writers, budget, faults>>

StoreStep ==
    \/ \E w \in Writers, i \in Instances, o \in Owners, c \in Creds : PutSeal(w, i, o, c)
    \/ \E w \in Writers : PutReadKey(w)
    \/ \E w \in Writers : PutReadVersion(w)
    \/ \E w \in Writers : PutWrite(w)
    \/ \E w \in Writers : PutFails(w)
    \/ \E i \in Instances, o \in Owners : Delete(i, o)

-----------------------------------------------------------------------------
(***************************************************************************)
(* Rotations that do not overlap, and whose reads succeed, form a chain:   *)
(* the version counts the keys since the last Delete, and the previous key *)
(* is the one before the current.                                          *)
(***************************************************************************)
RotationsChain ==
    \A o \in Owners \ disturbed :
        LET n == Len(history[o])
        IN  /\ Stored(o).version = n
            /\ Stored(o).key = (IF n > 0 THEN history[o][n] ELSE NULL)
            /\ Stored(o).previous = (IF n > 1 THEN history[o][n - 1] ELSE NULL)

(***************************************************************************)
(* A key that was deleted while no Put of its owner was under way is in no *)
(* row any more, as the current or as the previous key.                    *)
(***************************************************************************)
RevokedIsGone ==
    \A o \in Owners : Stored(o).key \notin revoked /\ Stored(o).previous \notin revoked

(***************************************************************************)
(* What Get gives to an instance: the current key, or the previous one if  *)
(* it cannot open the current.                                             *)
(***************************************************************************)
Serves(i, o) == open(i, o, Stored(o).key) # NULL \/ open(i, o, Stored(o).previous) # NULL

(***************************************************************************)
(* The grace of previous_key: while instances with an old and a new        *)
(* sealing key run side by side, one rotation takes the credential from no *)
(* instance that opened the current key, unless writes overlapped.  (One   *)
(* that was served by the previous key loses it.)                          *)
(***************************************************************************)
RotationKeepsServing ==
    [][\A i \in Instances, o \in Owners :
          (/\ open(i, o, Stored(o).key) # NULL
           /\ o \in DOMAIN credentials' /\ o \notin disturbed')
             => Serves(i, o)']_storeVars

-----------------------------------------------------------------------------
(***************************************************************************)
(* Why it holds.  What the calls of Put that are under way have in memory  *)
(* is part of the state: the key that will be the previous one, and the    *)
(* next version.                                                           *)
(***************************************************************************)
Sealed == [by : {SealingKey[i] : i \in Instances}, owner : Owners, cred : Creds,
           nonce : Nat]

StoreTypeOK ==
    /\ DOMAIN credentials \subseteq Owners
    /\ \A o \in DOMAIN credentials : credentials[o].version \in Nat
    /\ writers \in [Writers -> [pc : {"idle", "key", "version", "write"},
                                owner : Owners \cup {NULL}, sealed : Sealed \cup {NULL},
                                prev : Sealed \cup {NULL}, version : Nat]]
    /\ \A w \in Writers : writers[w].pc = "idle" <=> writers[w].owner = NULL
    /\ budget \in Nat
    /\ history \in [Owners -> Seq(Sealed)]

(***************************************************************************)
(* Of an owner whose writes do not overlap, one Put at most is under way,  *)
(* and what it has read is still so.                                       *)
(***************************************************************************)
ReadsAreCurrent ==
    \A w \in Writers, o \in Owners \ disturbed : writers[w].owner = o =>
        /\ Writing(o) = {w}
        /\ writers[w].pc \in {"version", "write"} => writers[w].prev = Stored(o).key
        /\ writers[w].pc = "write" => writers[w].version = nextVersion(Stored(o).version)

(***************************************************************************)
(* Keys stay with their owner, and none is sealed twice: nonces go down    *)
(* with the bound.                                                         *)
(***************************************************************************)
Sealings(o) == {x \in Sealed : x.owner = o /\ x.nonce > budget}

KeysStayWithOwner ==
    /\ \A o \in DOMAIN credentials :
           /\ credentials[o].key \in Sealings(o) \ revoked
           /\ credentials[o].previous \in (Sealings(o) \cup {NULL}) \ revoked
    /\ \A w \in Writers, o \in Owners : writers[w].owner = o =>
           /\ writers[w].sealed \in Sealings(o) \ revoked
           /\ writers[w].prev \in (Sealings(o) \cup {NULL}) \ revoked
    /\ revoked \subseteq {x \in Sealed : x.nonce > budget} \ {NULL}

(***************************************************************************)
(* The calls of Put that are over.  A version counts some of them, whether *)
(* or not writes overlapped.                                               *)
(***************************************************************************)
PutsDone == {n \in 1 .. MaxPuts :
                n > budget /\ \A w \in Writers : writers[w].pc # "idle" => writers[w].sealed.nonce # n}

VersionsCount ==
    /\ budget \in 0 .. MaxPuts
    /\ \A w \in Writers : writers[w].pc # "idle" =>
           /\ writers[w].sealed.nonce \in 1 .. MaxPuts /\ writers[w].sealed.nonce > budget
           /\ \A v \in Writers : writers[v].pc # "idle" /\ v # w =>
                  writers[v].sealed.nonce # writers[w].sealed.nonce
           /\ writers[w].pc = "write" => writers[w].version \in 1 .. Cardinality(PutsDone) + 1
    /\ \A o \in DOMAIN credentials :
           credentials[o].version \in 1 .. Cardinality(PutsDone)

StoreInv == StoreTypeOK /\ RotationsChain /\ ReadsAreCurrent /\ KeysStayWithOwner
=============================================================================
