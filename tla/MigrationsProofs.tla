-------------------------- MODULE MigrationsProofs ---------------------------
(***************************************************************************)
(* Proofs about EnsureSchema, for any number of processes, releases and    *)
(* migrations, and any sound database that they find.                      *)
(***************************************************************************)
EXTENDS Migrations, FiniteSetTheorems, TLAPS

Last == Cardinality(DOMAIN Adds)

(***************************************************************************)
(* The migrations are numbered from 1.                                     *)
(***************************************************************************)
LEMMA LastIsNat == Last \in Nat /\ DOMAIN Adds = 1 .. Last
BY MigrationsAssumption, FS_CardinalityType DEF Last

(***************************************************************************)
(* The recorded versions of a sound database are the first n, for some n,  *)
(* and a database with the first n versions and what they add is sound.    *)
(***************************************************************************)
LEMMA SoundMeans ==
  ASSUME NEW V, NEW O
  PROVE  Sound([versions |-> V, objects |-> O])
           <=> \E n \in 0 .. Last : V = 1 .. n /\ schemaSQL(n) \subseteq O
<1> DEFINE db == [versions |-> V, objects |-> O]
<1>1. ASSUME Sound(db)
      PROVE  \E n \in 0 .. Last : V = 1 .. n /\ schemaSQL(n) \subseteq O
  <2>1. /\ V = 1 .. Cardinality(V) /\ V \subseteq DOMAIN Adds
        /\ schemaSQL(Cardinality(V)) \subseteq O
    BY <1>1 DEF Sound
  <2>2. Cardinality(V) \in Nat /\ Cardinality(V) <= Last
    BY <2>1, MigrationsAssumption, FS_Subset, FS_CardinalityType DEF Last
  <2> QED BY <2>1, <2>2, LastIsNat
<1>2. ASSUME NEW n \in 0 .. Last, V = 1 .. n, schemaSQL(n) \subseteq O
      PROVE  Sound(db)
  <2>1. n \in Nat /\ 1 .. n \subseteq DOMAIN Adds
    BY LastIsNat
  <2>2. Cardinality(V) = n
    BY <1>2, <2>1, FS_Interval
  <2> QED BY <1>2, <2>1, <2>2 DEF Sound
<1> QED BY <1>1, <1>2

(***************************************************************************)
(* Releases only add to the schema, version by version.                    *)
(***************************************************************************)
LEMMA SchemaGrows ==
  ASSUME NEW m \in Nat, NEW n \in Nat, m <= n
  PROVE  schemaSQL(m) \subseteq schemaSQL(n)
BY DEF schemaSQL

LEMMA SchemaOfNext ==
  ASSUME NEW n \in Nat
  PROVE  schemaSQL(n + 1) = schemaSQL(n) \cup Adds[n + 1]
<1>1. 1 .. n + 1 = (1 .. n) \cup {n + 1}
  OBVIOUS
<1> QED BY <1>1 DEF schemaSQL

(***************************************************************************)
(* SELECT MAX(version).                                                    *)
(***************************************************************************)
LEMMA MaxOfFirst ==
  ASSUME NEW n \in Nat, versions = 1 .. n
  PROVE  MaxVersion = n
<1>1. CASE n = 0
  BY <1>1 DEF MaxVersion
<1>2. CASE n > 0
  <2>1. n \in versions /\ \A u \in versions : u <= n
    BY <1>2
  <2>2. \A v \in versions : (\A u \in versions : u <= v) => v = n
    BY <2>1
  <2> QED BY <2>1, <2>2 DEF MaxVersion
<1> QED BY <1>1, <1>2

(***************************************************************************)
(* The database that the first process finds is sound, and none has begun. *)
(***************************************************************************)
LEMMA InitInv == Init => MigrationsInv
<1> SUFFICES ASSUME Init PROVE MigrationsInv
  OBVIOUS
<1>1. PICK db \in Databases : versions = db.versions /\ objects = db.objects
  BY DEF Init
<1>2. Sound(db)
  BY <1>1, DatabasesAssumption
<1>3. VersionsAreSound
  BY <1>1, <1>2 DEF VersionsAreSound, Sound
<1>4. MigrationsTypeOK
  BY <1>1, <1>2, LastIsNat, MigrationsAssumption DEF Init, Sound, MigrationsTypeOK, Down, Last
<1>5. RunningHasSchema /\ StartsLagBehind
  BY DEF Init, RunningHasSchema, StartsLagBehind, At, Down
<1> QED BY <1>3, <1>4, <1>5 DEF MigrationsInv

(***************************************************************************)
(* Every step of EnsureSchema, and every stop and crash, keeps the         *)
(* invariant.                                                              *)
(***************************************************************************)
LEMMA NextInv == MigrationsInv /\ [Next]_vars => MigrationsInv'
<1> SUFFICES ASSUME MigrationsInv, [Next]_vars PROVE MigrationsInv'
  OBVIOUS
<1> USE LastIsNat, MigrationsAssumption
<1>0. PICK n \in 0 .. Last : versions = 1 .. n /\ schemaSQL(n) \subseteq objects
  BY SoundMeans DEF MigrationsInv, VersionsAreSound
<1>t. /\ procs \in [Procs -> [pc : {"down", "migrate", "ensure", "running"}, next : Nat]]
      /\ \A p \in Procs : schemaVersion[p] \in 1 .. Last
  BY DEF MigrationsInv, MigrationsTypeOK, Last
<1>1. ASSUME NEW p \in Procs, ReadVersion(p)
      PROVE  MigrationsInv'
  <2>1. MaxVersion = n
    BY <1>0, MaxOfFirst
  <2>2. /\ versions' = versions /\ objects' = objects /\ faults' = faults
        /\ procs' = [procs EXCEPT ![p] =
               IF n > schemaVersion[p] THEN Down ELSE Before(p, n + 1)]
    BY <1>1, <2>1 DEF ReadVersion, tooNew, firstMissing
  <2>3. VersionsAreSound'
    BY <2>2 DEF VersionsAreSound, MigrationsInv
  <2>4. MigrationsTypeOK'
    BY <1>t, <2>2 DEF MigrationsInv, MigrationsTypeOK, Down, Before
  <2>5. RunningHasSchema'
    BY <1>t, <2>2 DEF MigrationsInv, RunningHasSchema, At, Down, Before
  <2>6. StartsLagBehind'
    <3> SUFFICES ASSUME NEW q \in Procs
                 PROVE  /\ At(q, "migrate")' =>
                              /\ procs'[q].next \in 1 .. schemaVersion[q]
                              /\ 1 .. procs'[q].next - 1 \subseteq versions'
                        /\ At(q, "ensure")' => 1 .. schemaVersion[q] \subseteq versions'
      BY DEF StartsLagBehind
    <3>1. CASE q = p
      BY <3>1, <1>0, <1>t, <2>2 DEF At, Down, Before
    <3>2. CASE q # p
      BY <3>2, <1>t, <2>2 DEF MigrationsInv, StartsLagBehind, At
    <3> QED BY <3>1, <3>2
  <2> QED BY <2>3, <2>4, <2>5, <2>6 DEF MigrationsInv
<1>2. ASSUME NEW p \in Procs, applyMigration(p)
      PROVE  MigrationsInv'
  <2> DEFINE v == procs[p].next
  <2>1. /\ v \in 1 .. schemaVersion[p] /\ 1 .. v - 1 \subseteq versions
        /\ faults' = faults
    BY <1>2, <1>t DEF applyMigration, MigrationsInv, StartsLagBehind, At
  <2>2. CASE v \in versions
    <3>1. /\ versions' = versions /\ objects' = objects
          /\ procs' = [procs EXCEPT ![p] = Down]
      BY <1>2, <2>2 DEF applyMigration
    <3>2. VersionsAreSound'
      BY <3>1 DEF VersionsAreSound, MigrationsInv
    <3> QED BY <3>1, <3>2, <2>1, <1>t DEF MigrationsInv, MigrationsTypeOK, RunningHasSchema,
                                     StartsLagBehind, At, Down, Last
  <2>3. CASE v \notin versions
    <3>1. /\ versions' = versions \cup {v} /\ objects' = objects \cup Adds[v]
          /\ procs' = [procs EXCEPT ![p] = Before(p, v + 1)]
      BY <1>2, <2>3 DEF applyMigration
    <3>2. v = n + 1
      <4>1. v \in Nat /\ n \in Nat /\ v > n
        BY <2>1, <2>3, <1>0, <1>t
      <4>2. v - 1 \in 1 .. v - 1 \/ v - 1 = 0
        BY <4>1
      <4>3. v - 1 <= n
        BY <4>1, <4>2, <2>1, <1>0
      <4> QED BY <4>1, <4>3
    <3>3. versions' = 1 .. n + 1 /\ n + 1 \in 0 .. Last
      BY <3>1, <3>2, <2>1, <1>0, <1>t
    <3>4. schemaSQL(n + 1) \subseteq objects'
      BY <3>1, <3>2, <1>0, SchemaOfNext
    <3>5. VersionsAreSound'
      BY <3>3, <3>4, SoundMeans DEF VersionsAreSound
    <3>6. MigrationsTypeOK'
      <4>1. versions' \subseteq DOMAIN Adds
        BY <3>3
      <4>2. procs' \in [Procs -> [pc : {"down", "migrate", "ensure", "running"}, next : Nat]]
        BY <2>1, <3>1, <1>t DEF Before
      <4> QED BY <4>1, <4>2, <2>1 DEF MigrationsInv, MigrationsTypeOK
    <3>7. RunningHasSchema'
      BY <3>1, <1>t DEF MigrationsInv, RunningHasSchema, At, Before
    <3>8. StartsLagBehind'
      <4> SUFFICES ASSUME NEW q \in Procs
                   PROVE  /\ At(q, "migrate")' =>
                                /\ procs'[q].next \in 1 .. schemaVersion[q]
                                /\ 1 .. procs'[q].next - 1 \subseteq versions'
                          /\ At(q, "ensure")' => 1 .. schemaVersion[q] \subseteq versions'
        BY DEF StartsLagBehind
      <4>1. CASE q = p
        BY <4>1, <2>1, <3>1, <3>2, <3>3, <1>t DEF At, Before
      <4>2. CASE q # p
        BY <4>2, <3>1, <1>t DEF MigrationsInv, StartsLagBehind, At
      <4> QED BY <4>1, <4>2
    <3> QED BY <3>5, <3>6, <3>7, <3>8 DEF MigrationsInv
  <2> QED BY <2>2, <2>3
<1>3. ASSUME NEW p \in Procs, EnsureLatest(p)
      PROVE  MigrationsInv'
  <2>1. /\ versions' = versions /\ objects \subseteq objects' /\ faults' = faults
        /\ \/ procs' = [procs EXCEPT ![p].next = procs[p].next + 1]
           \/ procs' = [procs EXCEPT ![p] = [pc |-> "running", next |-> 0]]
        /\ At(p, "ensure")
    BY <1>3 DEF EnsureLatest
  <2>2. 1 .. schemaVersion[p] \subseteq versions
    BY <2>1 DEF MigrationsInv, StartsLagBehind
  <2>3. schemaVersion[p] \in Nat /\ n \in Nat /\ schemaVersion[p] <= n
    BY <2>2, <1>0, <1>t
  <2>4. schemaSQL(schemaVersion[p]) \subseteq objects'
    BY <2>1, <2>3, <1>0, SchemaGrows
  <2>5. VersionsAreSound'
    BY <1>0, <2>1, SoundMeans DEF VersionsAreSound
  <2>6. RunningHasSchema'
    BY <2>1, <2>4, <1>t DEF MigrationsInv, RunningHasSchema, At
  <2>7. MigrationsTypeOK' /\ StartsLagBehind'
    BY <2>1, <1>t DEF MigrationsInv, MigrationsTypeOK, StartsLagBehind, At
  <2> QED BY <2>5, <2>6, <2>7 DEF MigrationsInv
<1>4. ASSUME NEW p \in Procs, Stop(p) \/ Crash(p)
      PROVE  MigrationsInv'
  <2>1. /\ versions' = versions /\ objects' = objects /\ faults' \in 0 .. MaxFaults
        /\ procs' = [procs EXCEPT ![p] = Down]
    BY <1>4 DEF Stop, Crash, MigrationsInv, MigrationsTypeOK
  <2>2. VersionsAreSound'
    BY <2>1 DEF VersionsAreSound, MigrationsInv
  <2> QED BY <2>1, <2>2, <1>t DEF MigrationsInv, MigrationsTypeOK, RunningHasSchema,
                                 StartsLagBehind, At, Down, Last
<1>5. CASE UNCHANGED vars
  BY <1>5 DEF vars, MigrationsInv, MigrationsTypeOK, VersionsAreSound, RunningHasSchema,
              StartsLagBehind, At
<1> QED BY <1>1, <1>2, <1>3, <1>4, <1>5 DEF Next, EnsureSchema

(***************************************************************************)
(* However many processes start, migrate and die at once, the recorded     *)
(* versions have no gap and everything they add is there.                  *)
(***************************************************************************)
THEOREM VersionsStaySound == Spec => []VersionsAreSound
<1>1. MigrationsInv => VersionsAreSound
  BY DEF MigrationsInv
<1> QED BY InitInv, NextInv, <1>1, PTL DEF Spec

(***************************************************************************)
(* A process that EnsureSchema let start has the whole schema of its       *)
(* release.                                                                *)
(***************************************************************************)
THEOREM RunningIsComplete == Spec => []RunningHasSchema
<1>1. MigrationsInv => RunningHasSchema
  BY DEF MigrationsInv
<1> QED BY InitInv, NextInv, <1>1, PTL DEF Spec
=============================================================================
