----------------------------- MODULE Migrations ------------------------------
(***************************************************************************)
(* EnsureSchema, as the processes of a deployment run it when they start:  *)
(* several at once, of an older and a newer release, on a database that is *)
(* new, that an earlier release left behind, or that is older than the     *)
(* table of versions.  A process that fails to start is started again.     *)
(***************************************************************************)
EXTENDS Naturals, FiniteSets, Sequences

CONSTANTS
    Procs,          \* processes that call New
    schemaVersion,  \* process -> the schemaVersion of its release
    Adds,           \* version -> the tables, columns and indexes it adds
    Columns,        \* those that ALTER TABLE adds: column -> its table
    Order,          \* the tables and indexes, in the order of schemaSQL
    Databases,      \* what the processes may find: [versions, objects]
    MaxFaults       \* bound: crashes and failing statements

ASSUME MigrationsAssumption ==
    /\ MaxFaults \in Nat
    /\ IsFiniteSet(DOMAIN Adds) /\ DOMAIN Adds = 1 .. Cardinality(DOMAIN Adds)
    /\ \A p \in Procs : schemaVersion[p] \in DOMAIN Adds
    /\ Order \in Seq(UNION {Adds[v] : v \in DOMAIN Adds})

(***************************************************************************)
(* The tables that a release creates when they are missing, with all their *)
(* columns: the union of its migrations.                                   *)
(***************************************************************************)
schemaSQL(v) == UNION {Adds[m] : m \in 1 .. v}

(***************************************************************************)
(* A database whose versions are recorded without a gap and have what they *)
(* add.                                                                    *)
(***************************************************************************)
Sound(db) ==
    /\ db.versions = 1 .. Cardinality(db.versions)
    /\ db.versions \subseteq DOMAIN Adds
    /\ schemaSQL(Cardinality(db.versions)) \subseteq db.objects

ASSUME DatabasesAssumption == \A db \in Databases : Sound(db)

VARIABLES
    versions,       \* credits_schema_migrations
    objects,        \* the tables, columns and indexes of the database
    procs,          \* the local variables of every EnsureSchema
    faults          \* faults so far

vars == <<versions, objects, procs, faults>>

Down == [pc |-> "down", next |-> 0]

Init ==
    /\ \E db \in Databases : versions = db.versions /\ objects = db.objects
    /\ procs = [p \in Procs |-> Down]
    /\ faults = 0

At(p, pc) == procs[p].pc = pc

Current == Cardinality(versions)

MaxVersion == IF versions = {} THEN 0
              ELSE CHOOSE v \in versions : \A u \in versions : u <= v

(***************************************************************************)
(* Whether a release is too old for the database.  Mutant: it must be      *)
(* newer.                                                                  *)
(***************************************************************************)
tooNewOrEqual(current, p) == current >= schemaVersion[p]

tooNew(current, p) == current > schemaVersion[p]

(***************************************************************************)
(* What comes before migration v: the migration, or, once the loop is      *)
(* through, the first statement of schemaSQL.                              *)
(***************************************************************************)
Before(p, v) ==
    IF v <= schemaVersion[p] THEN [pc |-> "migrate", next |-> v]
    ELSE [pc |-> "ensure", next |-> 1]

(***************************************************************************)
(* The first migration that is not skipped.  Mutant: one too late.         *)
(***************************************************************************)
firstMissingButOne(current) == current + 2

firstMissing(current) == current + 1

(***************************************************************************)
(* The table of versions is created if need be, and the version read.      *)
(***************************************************************************)
ReadVersion(p) ==
    /\ At(p, "down")
    /\ procs' = [procs EXCEPT ![p] =
           IF tooNew(MaxVersion, p) THEN Down
           ELSE Before(p, firstMissing(MaxVersion))]
    /\ UNCHANGED <<versions, objects, faults>>

(***************************************************************************)
(* applyMigration, one transaction.  A table, index or column that exists  *)
(* is left as it is; a version that exists is an error                     *)
(* (isMigrationAlreadyApplied does not recognise it) and New fails.        *)
(* Mutant: somebody else is at it, so the rest is left to them.            *)
(***************************************************************************)
applyMigrationLeaves(p) ==
    /\ At(p, "migrate")
    /\ LET v == procs[p].next
       IN  IF v \in versions
           THEN /\ procs' = [procs EXCEPT ![p] = Before(p, schemaVersion[p] + 1)]
                /\ UNCHANGED <<versions, objects>>
           ELSE /\ versions' = versions \cup {v}
                /\ objects' = objects \cup Adds[v]
                /\ procs' = [procs EXCEPT ![p] = Before(p, v + 1)]
    /\ UNCHANGED faults

applyMigration(p) ==
    /\ At(p, "migrate")
    /\ LET v == procs[p].next
       IN  IF v \in versions
           THEN /\ procs' = [procs EXCEPT ![p] = Down]
                /\ UNCHANGED <<versions, objects>>
           ELSE /\ versions' = versions \cup {v}
                /\ objects' = objects \cup Adds[v]
                /\ procs' = [procs EXCEPT ![p] = Before(p, v + 1)]
    /\ UNCHANGED faults

(***************************************************************************)
(* schemaSQL, statement by statement and outside of any transaction: a     *)
(* table or index that is missing is created, a table with the columns it  *)
(* has in this release; a table that exists gets no columns.  After the    *)
(* last statement New returns.                                             *)
(***************************************************************************)
Statements(p) == SelectSeq(Order, LAMBDA x : x \in schemaSQL(schemaVersion[p]))

Creates(p, x) ==
    IF x \in objects THEN {}
    ELSE {x} \cup {c \in schemaSQL(schemaVersion[p]) \cap DOMAIN Columns : Columns[c] = x}

EnsureLatest(p) ==
    /\ At(p, "ensure")
    /\ LET k == procs[p].next
       IN  IF k <= Len(Statements(p))
           THEN /\ objects' = objects \cup Creates(p, Statements(p)[k])
                /\ procs' = [procs EXCEPT ![p].next = k + 1]
           ELSE /\ procs' = [procs EXCEPT ![p] = [pc |-> "running", next |-> 0]]
                /\ UNCHANGED objects
    /\ UNCHANGED <<versions, faults>>

(***************************************************************************)
(* A process dies while it starts, or one of its statements fails; one     *)
(* that runs may be stopped at any time.                                   *)
(***************************************************************************)
Stop(p) ==
    /\ At(p, "running")
    /\ procs' = [procs EXCEPT ![p] = Down]
    /\ UNCHANGED <<versions, objects, faults>>

Crash(p) ==
    /\ At(p, "migrate") \/ At(p, "ensure")
    /\ faults < MaxFaults /\ faults' = faults + 1
    /\ procs' = [procs EXCEPT ![p] = Down]
    /\ UNCHANGED <<versions, objects>>

EnsureSchema(p) == ReadVersion(p) \/ applyMigration(p) \/ EnsureLatest(p)

Next ==
    \/ \E p \in Procs : EnsureSchema(p)
    \/ \E p \in Procs : Stop(p)
    \/ \E p \in Procs : Crash(p)

Spec == Init /\ [][Next]_vars

(***************************************************************************)
(* Whoever starts the processes starts them again.                         *)
(***************************************************************************)
FairSpec == Spec /\ \A p \in Procs : WF_vars(EnsureSchema(p))

-----------------------------------------------------------------------------
MigrationsTypeOK ==
    /\ versions \subseteq DOMAIN Adds
    /\ procs \in [Procs -> [pc : {"down", "migrate", "ensure", "running"}, next : Nat]]
    /\ faults \in 0 .. MaxFaults

(***************************************************************************)
(* What the next start relies on, since it reads only the newest version:  *)
(* however many processes migrated, and died, at once, no version below it *)
(* is missing, and everything the recorded versions add is there.          *)
(***************************************************************************)
VersionsAreSound == Sound([versions |-> versions, objects |-> objects])

(***************************************************************************)
(* A process that New has returned a Service to has the whole schema of    *)
(* its release, whoever created it.                                        *)
(***************************************************************************)
RunningHasSchema ==
    \A p \in Procs : At(p, "running") => schemaSQL(schemaVersion[p]) \subseteq objects

(***************************************************************************)
(* Why: a process that migrates may lag behind the others, never run ahead *)
(* of the database; so a version that it adds is the next one, and the     *)
(* statements of schemaSQL find what the versions of the release add.      *)
(***************************************************************************)
StartsLagBehind ==
    \A p \in Procs :
        /\ At(p, "migrate") =>
               /\ procs[p].next \in 1 .. schemaVersion[p]
               /\ 1 .. procs[p].next - 1 \subseteq versions
        /\ At(p, "ensure") => 1 .. schemaVersion[p] \subseteq versions

MigrationsInv ==
    MigrationsTypeOK /\ VersionsAreSound /\ RunningHasSchema /\ StartsLagBehind

(***************************************************************************)
(* Processes that start at once make each other's New fail, but not for    *)
(* ever: with restarts, one of the newest release comes to run.            *)
(***************************************************************************)
EveryoneStarts ==
    \A p \in Procs :
        (\A q \in Procs : schemaVersion[q] <= schemaVersion[p]) =>
            [](Current <= schemaVersion[p] => <>At(p, "running"))
=============================================================================
