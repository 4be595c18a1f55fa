-------------------------- MODULE MigrationProofs --------------------------
(***************************************************************************)
(* Proofs about Migration, for any number of openers and any vault the     *)
(* schema versions left behind.                                            *)
(***************************************************************************)
EXTENDS Migration, SequenceTheorems, TLAPS

\* The table of upgrades, entry by entry.
LEMMA UpgradeTable ==
    /\ Len(Upgrades) = 4
    /\ Upgrades[1][1] = "sensitive" /\ Upgrades[2][1] = "allow_open"
    /\ Upgrades[3][1] = "key_scopes" /\ Upgrades[4][1] = "substitutions"
    /\ Len(Upgrades[1]) = 4
    /\ \A i \in 2..4 : Len(Upgrades[i]) = 1
    /\ \A i \in 1..4 : \A j \in 1..Len(Upgrades[i]) :
         Upgrades[i][j] \in Columns \ {"environment_id", "environment"}
BY DEF Upgrades, Columns, MetadataColumns

LEMMA Columned ==
    ASSUME NEW i \in 1..4
    PROVE  /\ Len(Upgrades[i]) \in 1..4
           /\ \A j \in 1..Len(Upgrades[i]) : /\ Upgrades[i][j] \in Items
                                             /\ Upgrades[i][j] # "environment_id"
                                             /\ Upgrades[i][j] \notin {"newer", "secrets"}
           /\ Upgrades[i][1] \in Items
<1>1. i = 1 \/ i \in 2..4
    OBVIOUS
<1> QED
    BY <1>1, UpgradeTable DEF Items, Columns, MetadataColumns

\* CREATE TABLE adds items of this build's schema.
LEMMA Created ==
    ASSUME NEW t \in {"schema_version", "projects", "environments", "audit_log", "secrets", "indexes"}
    PROVE  /\ With(t) \subseteq Items \ {"environment_id", "newer"}
           /\ t \in With(t)
           /\ "secrets" \in With(t) => "environment" \in With(t)
BY DEF With, Items, Tables, Columns, MetadataColumns

\* The tables a client of Create asks for.
LEMMA CreateItems ==
    /\ Len(BaseSchema) = 4 /\ Len(SecretsSchema) = 2
    /\ SecretsSchema[1] = "secrets" /\ SecretsSchema[2] = "indexes"
    /\ \A i \in 1..4 : BaseSchema[i] \in Tables
    /\ \A i \in 1..2 : SecretsSchema[i] \in Tables \cup {"indexes"}
BY DEF BaseSchema, SecretsSchema, Tables

LEMMA VersionType ==
    ASSUME NEW s \in Seq(Nat)
    PROVE  /\ VersionOf(s) \in Nat
           /\ s # <<>> => VersionOf(s) = s[1] /\ 1 \in DOMAIN s
<1>1. CASE s = <<>>
    BY <1>1 DEF VersionOf
<1>2. CASE s # <<>>
    <2>1. Len(s) \in Nat /\ Len(s) # 0 /\ DOMAIN s = 1..Len(s) /\ s \in [1..Len(s) -> Nat]
        BY <1>2, EmptySeq, LenProperties
    <2> QED
        BY <1>2, <2>1 DEF VersionOf
<1> QED
    BY <1>1, <1>2

LEMMA RebuiltRows ==
    ASSUME NEW rs \in SUBSET Row
    PROVE  Rebuilt(rs) \in SUBSET Row
<1> SUFFICES ASSUME NEW r \in rs
             PROVE  [key |-> r.key, env |-> IF r.env \in EnvIds THEN EnvName[r.env] ELSE None] \in Row
    BY DEF Rebuilt
<1>1. r.key \in Keys
    BY DEF Row
<1>2. (IF r.env \in EnvIds THEN EnvName[r.env] ELSE None)
        \in EnvIds \cup {EnvName[e] : e \in EnvIds} \cup {None}
    OBVIOUS
<1> QED
    BY <1>1, <1>2 DEF Row

Creating(p) ==
    /\ pc[p] \in {"base", "secrets"}
    /\ \E t \in Tables \cup {"indexes"} : schema' = schema \cup With(t)
    /\ UNCHANGED <<recorded, rows, snapshot, original, pc, stored, step, done>>

LEMMA CreateStep ==
    ASSUME NEW p \in Openers, CreateBase(p) \/ CreateSecrets(p)
    PROVE  \/ Creating(p)
           \/ /\ pc[p] = "base" /\ Goto(p, "legacy") /\ \A i \in 1..4 : BaseSchema[i] \in schema
              /\ UNCHANGED <<vault, snapshot, original, stored, step, done>>
           \/ /\ pc[p] = "secrets" /\ Goto(p, "check") /\ {"secrets", "indexes"} \subseteq schema
              /\ UNCHANGED <<vault, snapshot, original, stored, step, done>>
BY CreateItems DEF CreateBase, CreateSecrets, Create, Creating, vault

\* A step of one opener, with what it must show of its own locals.
Moves(p, s, v, n, d) ==
    /\ pc' = [pc EXCEPT ![p] = s] /\ stored' = [stored EXCEPT ![p] = v]
    /\ step' = [step EXCEPT ![p] = n] /\ done' = [done EXCEPT ![p] = d]

LEMMA TypeStep ==
    ASSUME TypeOK, NEW p \in Openers, NEW s \in Statements \cup {"idle", "open"},
           NEW v \in 0..5, NEW n \in 1..5, NEW d \in 0..3, Moves(p, s, v, n, d),
           s = "alter" => n <= 4 /\ d < Len(Upgrades[n]),
           s \in Snapshotting => v < 5,
           s = "copying" => snapshot'[v] # None,
           UNCHANGED original, schema' \subseteq Items, recorded' \in Seq(Nat), rows' \subseteq Row,
           snapshot' \in [0..4 -> Snapshot \cup {None}],
           \A w \in 0..4 : snapshot[w] # None => snapshot'[w] # None
    PROVE  TypeOK'
<1>1. Len(Upgrades) = 4
    BY UpgradeTable
<1>2. /\ pc' \in [Openers -> Statements \cup {"idle", "open"}] /\ stored' \in [Openers -> 0..5]
      /\ step' \in [Openers -> 1..5] /\ done' \in [Openers -> 0..3]
    BY <1>1 DEF TypeOK, Moves, Supported
<1>3. /\ pc'[p] = s /\ stored'[p] = v /\ step'[p] = n /\ done'[p] = d
      /\ \A o \in Openers : o # p => /\ pc'[o] = pc[o] /\ stored'[o] = stored[o]
                                     /\ step'[o] = step[o] /\ done'[o] = done[o]
    BY <1>1 DEF TypeOK, Moves, Supported
<1>4. ASSUME NEW o \in Openers
      PROVE  /\ pc'[o] = "alter" => step'[o] <= 4 /\ done'[o] < Len(Upgrades[step'[o]])
             /\ pc'[o] \in Snapshotting => stored'[o] < 5
             /\ pc'[o] = "copying" => snapshot'[stored'[o]] # None
    <2>1. CASE o = p
        BY <1>3, <2>1
    <2>2. CASE o # p
        BY <1>1, <1>3, <2>2 DEF TypeOK, Supported, Snapshotting
    <2> QED
        BY <2>1, <2>2
<1>5. original' \in Vaults
    BY DEF TypeOK
<1> QED
    BY <1>1, <1>2, <1>4, <1>5 DEF TypeOK, Supported

LEMMA Quits ==
    ASSUME TypeOK, NEW p \in Openers, Quit(p), UNCHANGED <<vault, snapshot, original>>
    PROVE  TypeOK'
<1>1. Moves(p, "idle", 0, 1, 0)
    BY DEF Quit, Moves
<1>2. /\ schema' \subseteq Items /\ recorded' \in Seq(Nat) /\ rows' \subseteq Row
      /\ snapshot' \in [0..4 -> Snapshot \cup {None}]
    BY DEF TypeOK, vault, Supported
<1> QED
    BY <1>1, <1>2, TypeStep DEF Snapshotting

\* A step that only goes on to another statement.
LEMMA GoesOn ==
    ASSUME TypeOK, NEW p \in Openers, NEW s \in Statements \cup {"open"}, Goto(p, s),
           UNCHANGED <<stored, step, done, original>>,
           s # "alter" /\ (s \in Snapshotting => pc[p] \in Snapshotting),
           s = "copying" => snapshot'[stored[p]] # None,
           schema' \subseteq Items, recorded' \in Seq(Nat), rows' \subseteq Row,
           snapshot' \in [0..4 -> Snapshot \cup {None}],
           \A w \in 0..4 : snapshot[w] # None => snapshot'[w] # None
    PROVE  TypeOK'
<1>1. Len(Upgrades) = 4
    BY UpgradeTable
<1>2. Moves(p, s, stored[p], step[p], done[p])
    BY DEF Moves, Goto, TypeOK
<1>3. stored[p] \in 0..5 /\ step[p] \in 1..5 /\ done[p] \in 0..3
      /\ (pc[p] \in Snapshotting => stored[p] < 5)
    BY <1>1 DEF TypeOK, Supported
<1> QED
    BY <1>2, <1>3, TypeStep

\* A step through the upgrades.
LEMMA Upgrading ==
    ASSUME TypeOK, NEW p \in Openers, NEW s \in {"check", "alter"}, NEW n \in 1..5, NEW d \in 0..3,
           Moves(p, s, stored[p], n, d), s = "alter" => n <= 4 /\ d < Len(Upgrades[n]),
           UNCHANGED <<recorded, rows, snapshot, original>>, schema' \subseteq Items
    PROVE  TypeOK'
<1>1. /\ recorded' \in Seq(Nat) /\ rows' \subseteq Row
      /\ snapshot' \in [0..4 -> Snapshot \cup {None}]
      /\ \A w \in 0..4 : snapshot[w] # None => snapshot'[w] # None
    BY DEF TypeOK, Supported
<1>2. stored[p] \in 0..5
    BY DEF TypeOK, Supported
<1>3. s \in Statements \cup {"idle", "open"} /\ s \notin Snapshotting /\ s # "copying"
    BY DEF Statements, Snapshotting
<1>4. UNCHANGED original
    OBVIOUS
<1> QED
    BY <1>1, <1>2, <1>3, <1>4, TypeStep

\* Type correctness (schema.go:93-176): no opener leaves the table of upgrades or
\* copies a vault that is not older than this build's.
THEOREM Typed == Spec => []TypeOK
<1>1. Init => TypeOK
    BY MigrationAssumption, UpgradeTable DEF Init, TypeOK, Vault, Supported, LeftBehind, Snapshotting
<1>2. TypeOK /\ [Next]_vars => TypeOK'
    <2> SUFFICES ASSUME TypeOK, [Next]_vars PROVE TypeOK'
        OBVIOUS
    <2>0. /\ schema \subseteq Items /\ recorded \in Seq(Nat) /\ rows \subseteq Row
          /\ snapshot \in [0..4 -> Snapshot \cup {None}] /\ Len(Upgrades) = 4
        BY UpgradeTable DEF TypeOK, Supported
    <2>1. CASE UNCHANGED vars
        BY <2>1 DEF vars, TypeOK
    <2>2. CASE NewerBuild
        <3>1. UNCHANGED <<rows, snapshot, original, locals>>
              /\ schema' \subseteq Items /\ recorded' \in Seq(Nat)
            BY <2>0, <2>2 DEF NewerBuild, Items, Newer, Supported
        <3> QED
            BY <3>1 DEF TypeOK, locals
    <2>3. ASSUME NEW p \in Openers, Start(p) \/ TableExists(p) \/ CheckLegacy(p) \/ CountVersions(p)
                                    \/ StatSnapshot(p)
          PROVE  TypeOK'
        BY <2>0, <2>3, GoesOn DEF Start, TableExists, CheckLegacy, CountVersions, StatSnapshot, vault,
           Statements, Snapshotting
    <2>4. ASSUME NEW p \in Openers, Stop(p) PROVE TypeOK'
        BY <2>4, Quits DEF Stop
    <2>5. ASSUME NEW p \in Openers, ReadVersion(p) PROVE TypeOK'
        <3>1. Version \in Nat
            BY <2>0, VersionType DEF Version
        <3>2. CASE Version > 5
            BY <2>5, <3>1, <3>2, Quits DEF ReadVersion, Supported
        <3>3. CASE Version <= 5
            <4> DEFINE s == IF Version < 5 THEN "stat" ELSE "base"
            <4>1. Moves(p, s, Version, step[p], done[p]) /\ UNCHANGED <<vault, snapshot, original>>
                BY <2>5, <3>1, <3>3 DEF ReadVersion, Moves, Goto, Supported, TypeOK
            <4>2. /\ s \in Statements /\ s # "alter" /\ s # "copying"
                  /\ s \in Snapshotting => Version < 5
                BY DEF Statements, Snapshotting
            <4>3. Version \in 0..5 /\ step[p] \in 1..5 /\ done[p] \in 0..3
                BY <2>0, <3>1, <3>3 DEF TypeOK
            <4> HIDE DEF s
            <4> QED
                BY <2>0, <4>1, <4>2, <4>3, TypeStep DEF vault
        <3> QED
            BY <3>1, <3>2, <3>3
    <2>6. ASSUME NEW p \in Openers, BeginCopy(p) PROVE TypeOK'
        <3>1. CASE snapshot[stored[p]] # None
            BY <2>6, <3>1, Quits DEF BeginCopy, vault
        <3>2. CASE snapshot[stored[p]] = None
            <4> DEFINE copy == [whole |-> FALSE, vault |-> Copy]
            <4>0. Copy \in Vault
                BY <2>0 DEF Copy, Vault
            <4>1. copy \in Snapshot
                BY <4>0 DEF Snapshot
            <4>5. copy # None
                BY <4>1, MigrationAssumption DEF Snapshot
            <4>2. stored[p] \in 0..4
                BY <2>6 DEF BeginCopy, TypeOK, Snapshotting, Supported
            <4>3. snapshot' = [snapshot EXCEPT ![stored[p]] = copy] /\ Goto(p, "copying")
                  /\ UNCHANGED <<vault, original, stored, step, done>> /\ pc[p] = "copy"
                BY <2>6, <3>2 DEF BeginCopy
            <4> HIDE DEF copy
            <4>4. /\ snapshot' \in [0..4 -> Snapshot \cup {None}] /\ snapshot'[stored[p]] # None
                  /\ \A w \in 0..4 : snapshot[w] # None => snapshot'[w] # None
                BY <2>0, <4>1, <4>2, <4>3, <4>5
            <4> QED
                BY <2>0, <4>3, <4>4, GoesOn DEF vault, Statements, Snapshotting
        <3> QED
            BY <3>1, <3>2
    <2>7. ASSUME NEW p \in Openers, EndCopy(p) PROVE TypeOK'
        <3> DEFINE whole == [whole |-> TRUE, vault |-> snapshot[stored[p]].vault]
        <3>1. stored[p] \in 0..4 /\ snapshot[stored[p]] \in Snapshot
            BY <2>0, <2>7 DEF EndCopy, TypeOK, Snapshotting, Supported
        <3>2. whole \in Snapshot
            BY <3>1 DEF Snapshot
        <3>5. whole # None
            BY <3>2, MigrationAssumption DEF Snapshot
        <3>3. snapshot' = [snapshot EXCEPT ![stored[p]] = whole] /\ Goto(p, "base")
              /\ UNCHANGED <<vault, original, stored, step, done>>
            BY <2>7 DEF EndCopy
        <3> HIDE DEF whole
        <3>4. /\ snapshot' \in [0..4 -> Snapshot \cup {None}]
              /\ \A w \in 0..4 : snapshot[w] # None => snapshot'[w] # None
            BY <2>0, <3>1, <3>2, <3>3, <3>5
        <3> QED
            BY <2>0, <3>3, <3>4, GoesOn DEF vault, Statements, Snapshotting
    <2>8. ASSUME NEW p \in Openers, CreateBase(p) \/ CreateSecrets(p) PROVE TypeOK'
        <3>1. CASE Creating(p)
            BY <2>0, <3>1, Created DEF Creating, Tables, TypeOK
        <3>2. CASE ~Creating(p)
            BY <2>0, <2>8, <3>2, CreateStep, GoesOn DEF vault, Statements, Snapshotting
        <3> QED
            BY <3>1, <3>2
    <2>9. ASSUME NEW p \in Openers, RebuildSecrets(p) PROVE TypeOK'
        <3>1. CASE "environment_id" \notin schema
            BY <2>9, <3>1, Quits DEF RebuildSecrets, vault
        <3>2. CASE "environment_id" \in schema
            <4>1. rows' \subseteq Row /\ schema' \subseteq Items
                BY <2>0, <2>9, <3>2, RebuiltRows DEF RebuildSecrets, Items, Columns
            <4> QED
                BY <2>0, <2>9, <3>2, <4>1, GoesOn DEF RebuildSecrets, Statements, Snapshotting
        <3> QED
            BY <3>1, <3>2
    <2>10. ASSUME NEW p \in Openers, CheckColumn(p) PROVE TypeOK'
        <3>1. /\ pc[p] = "check" /\ UNCHANGED <<schema, recorded, rows, snapshot, original, stored>>
              /\ step[p] \in 1..5 /\ done[p] \in 0..3
            BY <2>0, <2>10 DEF CheckColumn, TypeOK, vault
        <3>2. CASE Goto(p, "count") /\ UNCHANGED <<step, done>>
            BY <2>0, <3>1, <3>2, GoesOn DEF Statements, Snapshotting
        <3>3. CASE step[p] <= 4 /\ step' = [step EXCEPT ![p] = step[p] + 1] /\ UNCHANGED <<pc, done>>
            <4>1. Moves(p, "check", stored[p], step[p] + 1, done[p])
                BY <3>1, <3>3 DEF Moves, TypeOK
            <4>2. step[p] + 1 \in 1..5
                BY <3>1, <3>3
            <4> QED
                BY <2>0, <3>1, <4>1, <4>2, Upgrading
        <3>4. CASE /\ step[p] <= 4 /\ done' = [done EXCEPT ![p] = 0] /\ Goto(p, "alter")
                   /\ UNCHANGED step
            <4>1. 0 < Len(Upgrades[step[p]]) /\ 0 \in 0..3
                BY <3>1, <3>4, Columned
            <4>2. Moves(p, "alter", stored[p], step[p], 0)
                BY <3>1, <3>4 DEF Moves, TypeOK, Goto
            <4> QED
                BY <2>0, <3>1, <3>4, <4>1, <4>2, Upgrading
        <3> QED
            BY <2>0, <2>10, <3>2, <3>3, <3>4 DEF CheckColumn
    <2>11. ASSUME NEW p \in Openers, AddColumn(p) PROVE TypeOK'
        <3> DEFINE columns == Upgrades[step[p]]
        <3>1. /\ pc[p] = "alter" /\ step[p] \in 1..4 /\ done[p] \in 0..3 /\ done[p] < Len(columns)
              /\ UNCHANGED <<recorded, rows, snapshot, original>>
            BY <2>0, <2>11 DEF AddColumn, TypeOK
        <3>2. Len(columns) \in 1..4 /\ columns[done[p] + 1] \in Items
            BY <3>1, Columned
        <3>3. CASE Quit(p) /\ UNCHANGED schema
            BY <3>1, <3>3, Quits DEF vault
        <3>4. CASE /\ schema' = schema \cup {columns[done[p] + 1]} /\ UNCHANGED stored
                   /\ LastAlter(p) /\ Goto(p, "check")
                   /\ step' = [step EXCEPT ![p] = step[p] + 1] /\ done' = [done EXCEPT ![p] = 0]
            <4>1. Moves(p, "check", stored[p], step[p] + 1, 0)
                BY <3>1, <3>4 DEF Moves, TypeOK, Goto
            <4>2. schema' \subseteq Items
                BY <2>0, <3>2, <3>4
            <4>3. step[p] + 1 \in 1..5 /\ 0 \in 0..3
                BY <3>1
            <4> QED
                BY <3>1, <4>1, <4>2, <4>3, Upgrading
        <3>5. CASE /\ schema' = schema \cup {columns[done[p] + 1]} /\ UNCHANGED stored
                   /\ ~LastAlter(p) /\ done' = [done EXCEPT ![p] = done[p] + 1]
                   /\ UNCHANGED <<pc, step>>
            <4>0. done[p] + 1 # Len(columns)
                BY <3>5 DEF LastAlter
            <4>2. Moves(p, "alter", stored[p], step[p], done[p] + 1)
                BY <3>1, <3>5 DEF Moves, TypeOK
            <4>3. schema' \subseteq Items
                BY <2>0, <3>2, <3>5
            <4> DEFINE d == done[p]
                       size == Len(columns)
            <4>5. d \in 0..3 /\ d < size /\ size \in 1..4 /\ d + 1 # size
                BY <3>1, <3>2, <4>0
            <4> HIDE DEF d, size
            <4>6. d + 1 < size /\ d + 1 \in 0..3
                BY <4>5
            <4>1. done[p] + 1 < Len(columns) /\ done[p] + 1 \in 0..3
                BY <4>6 DEF d, size
            <4> HIDE DEF columns
            <4>4. step[p] \in 1..5 /\ step[p] <= 4 /\ done[p] + 1 < Len(Upgrades[step[p]])
                BY <3>1, <4>1 DEF columns
            <4> QED
                BY <3>1, <4>1, <4>2, <4>3, <4>4, Upgrading
        <3> QED
            BY <2>11, <3>3, <3>4, <3>5 DEF AddColumn
    <2>12. ASSUME NEW p \in Openers, InsertVersion(p) \/ AdvanceVersion(p) PROVE TypeOK'
        <3>1. recorded' \in Seq(Nat)
            <4>1. CASE InsertVersion(p)
                BY <2>0, <4>1 DEF InsertVersion, Supported
            <4>2. CASE AdvanceVersion(p)
                <5>1. /\ DOMAIN recorded = 1..Len(recorded) /\ Len(recorded) \in Nat
                      /\ \A i \in 1..Len(recorded) : recorded[i] \in Nat
                    BY <2>0, LenProperties
                <5>2. /\ recorded' = [i \in 1..Len(recorded) |->
                                         IF recorded[i] < 5 THEN 5 ELSE recorded[i]]
                    BY <4>2, <5>1 DEF AdvanceVersion, Advanced, Supported
                <5>3. recorded' \in [1..Len(recorded) -> Nat]
                    BY <5>1, <5>2
                <5> QED
                    BY <5>1, <5>3, SeqDef
            <4> QED
                BY <2>12, <4>1, <4>2
        <3> QED
            BY <2>0, <2>12, <3>1, GoesOn DEF InsertVersion, AdvanceVersion, Statements, Snapshotting
    <2> QED
        BY <2>1, <2>2, <2>3, <2>4, <2>5, <2>6, <2>7, <2>8, <2>9, <2>10, <2>11, <2>12
        DEF Next, Open
<1> QED
    BY <1>1, <1>2, PTL DEF Spec
-----------------------------------------------------------------------------
(***************************************************************************)
(* What any step does to the vault.                                        *)
(***************************************************************************)

\* A step that leaves the schema alone, or changes it in one of four ways.
LEMMA SchemaStep ==
    ASSUME TypeOK, [Next]_vars
    PROVE  /\ UNCHANGED original
           /\ \/ UNCHANGED schema
              \/ NewerBuild /\ schema' = schema \cup {"newer"}
              \/ \E p \in Openers : Creating(p)
              \/ \E p \in Openers : /\ RebuildSecrets(p) /\ "environment_id" \in schema
                                    /\ schema' = (schema \ {"environment_id", "indexes"}) \cup {"environment"}
              \/ \E p \in Openers :
                   /\ AddColumn(p) /\ step[p] \in 1..4 /\ done[p] + 1 \in 1..Len(Upgrades[step[p]])
                   /\ schema' = schema \cup {Upgrades[step[p]][done[p] + 1]}
<1>1. CASE UNCHANGED vars
    BY <1>1 DEF vars
<1>2. CASE NewerBuild
    BY <1>2 DEF NewerBuild
<1>3. ASSUME NEW p \in Openers, Open(p)
      PROVE  /\ UNCHANGED original
             /\ \/ UNCHANGED schema
                \/ Creating(p)
                \/ /\ RebuildSecrets(p) /\ "environment_id" \in schema
                   /\ schema' = (schema \ {"environment_id", "indexes"}) \cup {"environment"}
                \/ /\ AddColumn(p) /\ step[p] \in 1..4 /\ done[p] + 1 \in 1..Len(Upgrades[step[p]])
                   /\ schema' = schema \cup {Upgrades[step[p]][done[p] + 1]}
    <2>1. CASE CreateBase(p) \/ CreateSecrets(p)
        BY <2>1, CreateStep DEF Creating, vault
    <2>2. CASE RebuildSecrets(p)
        BY <2>2 DEF RebuildSecrets
    <2>3. CASE AddColumn(p)
        <3> DEFINE i == step[p]
                   d == done[p]
        <3>1. i \in 1..4 /\ d \in 0..3 /\ d < Len(Upgrades[i])
            BY <2>3, UpgradeTable DEF AddColumn, TypeOK
        <3>2. Len(Upgrades[i]) \in 1..4
            BY <3>1, Columned
        <3>3. d + 1 \in 1..Len(Upgrades[i])
            <4> DEFINE size == Len(Upgrades[i])
            <4> HIDE DEF i, d, size
            <4>1. d \in 0..3 /\ d < size /\ size \in 1..4
                BY <3>1, <3>2 DEF size
            <4>2. d + 1 \in 1..size
                BY <4>1
            <4> QED
                BY <4>2 DEF size
        <3> QED
            BY <2>3, <3>1, <3>3 DEF AddColumn
    <2>4. CASE \/ Start(p) \/ Stop(p) \/ TableExists(p) \/ ReadVersion(p)
               \/ StatSnapshot(p) \/ BeginCopy(p) \/ EndCopy(p) \/ CheckLegacy(p)
               \/ CheckColumn(p) \/ CountVersions(p) \/ InsertVersion(p) \/ AdvanceVersion(p)
        BY <2>4 DEF Start, Stop, TableExists, ReadVersion, StatSnapshot, BeginCopy, EndCopy,
           CheckLegacy, CheckColumn, CountVersions, InsertVersion, AdvanceVersion, vault
    <2> QED
        BY <1>3, <2>1, <2>2, <2>3, <2>4 DEF Open
<1> QED
    BY <1>1, <1>2, <1>3 DEF Next

\* Nothing but the version 1 table's column and indexes ever goes.
LEMMA SchemaGrows ==
    ASSUME TypeOK, [Next]_vars
    PROVE  /\ UNCHANGED original
           /\ schema \ {"environment_id", "indexes"} \subseteq schema'
           /\ "environment_id" \in schema' => "environment_id" \in schema
           /\ "newer" \in schema' => "newer" \in schema \/ NewerBuild
           /\ "indexes" \in schema /\ "environment_id" \notin schema => "indexes" \in schema'
<1>1. ASSUME NEW p \in Openers, Creating(p)
      PROVE  schema \subseteq schema' /\ \A x \in {"environment_id", "newer"} : x \in schema' => x \in schema
    <2>1. PICK t \in Tables \cup {"indexes"} : schema' = schema \cup With(t)
        BY <1>1 DEF Creating
    <2>2. With(t) \subseteq Items \ {"environment_id", "newer"}
        BY Created DEF Tables
    <2> QED
        BY <2>1, <2>2
<1>2. ASSUME NEW p \in Openers, step[p] \in 1..4, done[p] + 1 \in 1..Len(Upgrades[step[p]]),
             schema' = schema \cup {Upgrades[step[p]][done[p] + 1]}
      PROVE  schema \subseteq schema' /\ \A x \in {"environment_id", "newer"} : x \in schema' => x \in schema
    BY <1>2, Columned
<1> QED
    BY SchemaStep, <1>1, <1>2

\* The recorded version stays, or advances to this build's or beyond.
LEMMA RecordedStep ==
    ASSUME TypeOK, [Next]_vars
    PROVE  \/ UNCHANGED recorded
           \/ /\ recorded' # <<>> /\ Version' \in Nat /\ Version' >= Version
              /\ Version' = Version \/ Version' >= 5
<1>0. recorded \in Seq(Nat) /\ Version \in Nat
    BY VersionType DEF TypeOK, Version
<1>1. CASE UNCHANGED vars
    BY <1>1 DEF vars
<1>2. CASE NewerBuild
    <2>1. recorded # <<>> /\ 1 \in DOMAIN recorded
        BY <1>0, <1>2, VersionType DEF NewerBuild, Version, VersionOf, Supported
    <2>2. recorded' = [i \in DOMAIN recorded |-> 6]
        BY <1>2 DEF NewerBuild, Newer, Supported
    <2>3. recorded'[1] = 6 /\ DOMAIN recorded' = DOMAIN recorded
        BY <2>1, <2>2
    <2>4. recorded' # <<>>
        BY <2>1, <2>3
    <2>5. Version = 5 /\ Version' = 6
        BY <1>2, <2>3, <2>4 DEF NewerBuild, Version, VersionOf, Supported
    <2> QED
        BY <1>2, <2>4, <2>5
<1>3. ASSUME NEW p \in Openers, Open(p)
      PROVE  \/ UNCHANGED recorded
             \/ /\ recorded' # <<>> /\ Version' \in Nat /\ Version' >= Version
                /\ Version' = Version \/ Version' >= 5
    <2>1. CASE InsertVersion(p)
        <3>1. recorded' = Append(recorded, 5)
            BY <2>1 DEF InsertVersion, Supported
        <3>2. CASE recorded = <<>>
            <4>1. recorded' = <<5>>
                BY <3>1, <3>2
            <4>2. recorded' # <<>> /\ recorded'[1] = 5
                BY <4>1
            <4> QED
                BY <2>1, <3>2, <4>2 DEF Version, VersionOf
        <3>3. CASE recorded # <<>>
            <4>1. Len(recorded) \in Nat \ {0} /\ 1 \in 1..Len(recorded)
                BY <1>0, <3>3, EmptySeq
            <4>2. recorded' # <<>> /\ recorded'[1] = recorded[1]
                BY <1>0, <3>1, <4>1
            <4>3. Version' = Version
                BY <3>3, <4>2 DEF Version, VersionOf
            <4> QED
                BY <1>0, <4>2, <4>3
        <3> QED
            BY <3>2, <3>3
    <2>2. CASE AdvanceVersion(p)
        <3>1. recorded' = [i \in DOMAIN recorded |-> IF recorded[i] < 5 THEN 5 ELSE recorded[i]]
            BY <2>2 DEF AdvanceVersion, Advanced, Supported
        <3>2. CASE recorded = <<>>
            <4>1. DOMAIN recorded = {}
                BY <3>2
            <4>2. recorded' = recorded
                BY <3>1, <3>2, <4>1
            <4> QED
                BY <4>2
        <3>3. CASE recorded # <<>>
            <4>1. 1 \in DOMAIN recorded /\ Version = recorded[1]
                BY <1>0, <3>3, VersionType DEF Version
            <4>2. /\ recorded'[1] = (IF recorded[1] < 5 THEN 5 ELSE recorded[1])
                  /\ DOMAIN recorded' = DOMAIN recorded
                BY <3>1, <4>1
            <4>3. recorded' # <<>>
                BY <4>1, <4>2
            <4> QED
                BY <1>0, <4>1, <4>2, <4>3 DEF Version, VersionOf
        <3> QED
            BY <3>2, <3>3
    <2>3. CASE \/ Start(p) \/ Stop(p) \/ TableExists(p) \/ ReadVersion(p)
               \/ StatSnapshot(p) \/ BeginCopy(p) \/ EndCopy(p) \/ CheckLegacy(p)
               \/ CheckColumn(p) \/ CountVersions(p) \/ RebuildSecrets(p) \/ AddColumn(p)
        BY <2>3 DEF Start, Stop, TableExists, ReadVersion, StatSnapshot, BeginCopy, EndCopy,
           CheckLegacy, CheckColumn, CountVersions, RebuildSecrets, AddColumn, vault
    <2>4. CASE CreateBase(p) \/ CreateSecrets(p)
        BY <2>4 DEF CreateBase, CreateSecrets, Create
    <2> QED
        BY <1>3, <2>1, <2>2, <2>3, <2>4 DEF Open
<1> QED
    BY <1>1, <1>2, <1>3 DEF Next

\* The recorded version only advances, whatever openers and builds race
\* (recordSchemaVersion, schema.go:317-334).
THEOREM NeverLowered == Spec => VersionNeverLowered
<1>1. TypeOK /\ [Next]_vars => Version' >= Version
    <2> SUFFICES ASSUME TypeOK, [Next]_vars PROVE Version' >= Version
        OBVIOUS
    <2>1. Version \in Nat
        BY VersionType DEF TypeOK, Version
    <2>2. UNCHANGED recorded => Version' = Version
        BY DEF Version
    <2> QED
        BY <2>1, <2>2, RecordedStep
<1> QED
    BY <1>1, Typed, PTL DEF Spec, VersionNeverLowered
-----------------------------------------------------------------------------
(***************************************************************************)
(* A newer vault, the rows, the version.                                   *)
(***************************************************************************)

\* An opener moves nobody but itself.
LEMMA Others ==
    ASSUME TypeOK, NEW p \in Openers, Open(p), NEW q \in Openers, q # p
    PROVE  pc'[q] = pc[q] /\ stored'[q] = stored[q] /\ step'[q] = step[q] /\ done'[q] = done[q]
<1> USE DEF Goto, Quit, TypeOK
<1>1. CASE Start(p) \/ Stop(p) \/ TableExists(p)
    BY <1>1 DEF Start, Stop, TableExists
<1>2. CASE ReadVersion(p)
    BY <1>2 DEF ReadVersion
<1>3. CASE StatSnapshot(p) \/ BeginCopy(p) \/ EndCopy(p)
    BY <1>3 DEF StatSnapshot, BeginCopy, EndCopy
<1>4. CASE CreateBase(p) \/ CreateSecrets(p)
    BY <1>4 DEF CreateBase, CreateSecrets, Create
<1>5. CASE CheckLegacy(p) \/ RebuildSecrets(p)
    BY <1>5 DEF CheckLegacy, RebuildSecrets
<1>6. CASE CheckColumn(p)
    BY <1>6 DEF CheckColumn
<1>7. CASE AddColumn(p)
    BY <1>7 DEF AddColumn
<1>8. CASE CountVersions(p) \/ InsertVersion(p) \/ AdvanceVersion(p)
    BY <1>8 DEF CountVersions, InsertVersion, AdvanceVersion
<1> QED
    BY <1>1, <1>2, <1>3, <1>4, <1>5, <1>6, <1>7, <1>8 DEF Open

\* An opener is on its way to the snapshot because it read an older version.
LEMMA ToSnapshot ==
    ASSUME TypeOK, [Next]_vars, NEW q \in Openers, pc'[q] \in Snapshotting
    PROVE  \/ pc[q] \in Snapshotting /\ stored'[q] = stored[q]
           \/ pc[q] = "version" /\ stored'[q] = Version /\ Version < 5
<1> USE DEF TypeOK, Snapshotting
<1>1. CASE UNCHANGED vars
    BY <1>1 DEF vars
<1>2. CASE NewerBuild
    BY <1>2 DEF NewerBuild, locals
<1>3. ASSUME NEW p \in Openers, Open(p), q # p
      PROVE  pc[q] \in Snapshotting /\ stored'[q] = stored[q]
    BY <1>3, Others
<1>4. ASSUME Open(q)
      PROVE  \/ pc[q] \in Snapshotting /\ stored'[q] = stored[q]
             \/ pc[q] = "version" /\ stored'[q] = Version /\ Version < 5
    <2>1. CASE Start(q) \/ Stop(q) \/ TableExists(q) \/ StatSnapshot(q)
        BY <2>1 DEF Start, Stop, TableExists, StatSnapshot, Goto, Quit
    <2>2. CASE ReadVersion(q)
        BY <2>2 DEF ReadVersion, Goto, Quit, Supported
    <2>3. CASE BeginCopy(q) \/ EndCopy(q)
        BY <2>3 DEF BeginCopy, EndCopy, Goto, Quit
    <2>4. CASE CreateBase(q) \/ CreateSecrets(q)
        BY <2>4 DEF CreateBase, CreateSecrets, Create, Goto
    <2>5. CASE CheckLegacy(q) \/ RebuildSecrets(q)
        BY <2>5 DEF CheckLegacy, RebuildSecrets, Goto, Quit
    <2>6. CASE CheckColumn(q)
        BY <2>6 DEF CheckColumn, Goto
    <2>7. CASE AddColumn(q)
        BY <2>7 DEF AddColumn, Goto, Quit
    <2>8. CASE CountVersions(q) \/ InsertVersion(q) \/ AdvanceVersion(q)
        BY <2>8 DEF CountVersions, InsertVersion, AdvanceVersion, Goto
    <2> QED
        BY <1>4, <2>1, <2>2, <2>3, <2>4, <2>5, <2>6, <2>7, <2>8 DEF Open
<1> QED
    BY <1>1, <1>2, <1>3, <1>4 DEF Next

LEMMA Versioned == Spec => [](TypeOK /\ VersionInv)
<1>1. Init => VersionInv
    <2> SUFFICES ASSUME Init PROVE VersionInv
        OBVIOUS
    <2>1. LeftBehind(original)
        BY MigrationAssumption DEF Init
    <2> QED
        BY <2>1 DEF Init, VersionInv, Version, LeftBehind, Snapshotting
<1>2. TypeOK /\ VersionInv /\ [Next]_vars => VersionInv'
    <2> SUFFICES ASSUME TypeOK, VersionInv, [Next]_vars PROVE VersionInv'
        OBVIOUS
    <2>0. Version \in Nat /\ UNCHANGED original
        BY VersionType, SchemaGrows DEF TypeOK, Version
    <2>1. Version' = VersionOf(original.recorded) \/ Version' >= 5
        <3>1. CASE UNCHANGED recorded
            BY <3>1 DEF VersionInv, Version, Supported
        <3>2. CASE Version' \in Nat /\ Version' >= Version /\ (Version' = Version \/ Version' >= 5)
            BY <2>0, <3>2 DEF VersionInv, Supported
        <3> QED
            BY <3>1, <3>2, RecordedStep
    <2>2. original.recorded # <<>> => "schema_version" \in schema' /\ recorded' # <<>>
        BY RecordedStep, SchemaGrows DEF VersionInv
    <2>3. "newer" \in original.schema => "newer" \in schema'
        BY SchemaGrows DEF VersionInv
    <2>4. ASSUME NEW q \in Openers, pc'[q] \in Snapshotting
          PROVE  stored'[q] = VersionOf(original.recorded)
        BY <2>0, <2>4, ToSnapshot DEF VersionInv, Supported
    <2> QED
        BY <2>0, <2>1, <2>2, <2>3, <2>4 DEF VersionInv, Supported
<1> QED
    BY <1>1, <1>2, Typed, PTL DEF Spec

\* A newer build's vault is refused before anything of it changes, and not
\* copied (schema.go:111-120).
THEOREM RefusedUntouched == Spec => []NewerVaultUntouched
<1>1. Init => NewerInv
    BY MigrationAssumption DEF Init, NewerInv, Copy, Vault
<1>2. TypeOK /\ NewerInv /\ [Next]_vars => NewerInv'
    <2> SUFFICES ASSUME TypeOK, NewerInv, [Next]_vars, "newer" \in original.schema PROVE NewerInv'
        BY SchemaGrows DEF NewerInv
    <2>1. LeftBehind(original) /\ UNCHANGED original
        BY MigrationAssumption, SchemaGrows DEF TypeOK
    <2>2. Copy = original /\ Version = VersionOf(original.recorded)
        BY DEF NewerInv, Copy, Version
    <2>3. Version \in Nat /\ Version > 5 /\ "schema_version" \in schema
        <3>1. original.schema # {} /\ original.schema = schema
            BY <2>2 DEF Copy
        <3> QED
            BY <2>1, <2>2, <3>1, VersionType DEF LeftBehind, Supported, TypeOK, Version
    <2>4. CASE UNCHANGED vars
        BY <2>4 DEF vars, NewerInv, Copy
    <2>5. ~NewerBuild
        BY <2>3 DEF NewerBuild, Supported
    <2>6. ASSUME NEW p \in Openers, Open(p) PROVE NewerInv'
        <3>1. pc[p] \in {"idle", "exists", "version"}
            BY DEF NewerInv
        <3>2. \/ Start(p) \/ Stop(p) \/ TableExists(p) \/ ReadVersion(p)
            BY <2>6, <3>1 DEF Open, StatSnapshot, BeginCopy, EndCopy, CreateBase, CheckLegacy,
               RebuildSecrets, CreateSecrets, CheckColumn, AddColumn, CountVersions,
               InsertVersion, AdvanceVersion
        <3>3. UNCHANGED <<schema, recorded, rows, snapshot>>
            BY <3>2 DEF Start, Stop, TableExists, ReadVersion, vault
        <3>4. pc'[p] \in {"idle", "exists", "version"}
            BY <2>3, <3>2 DEF Start, Stop, TableExists, ReadVersion, Goto, Quit, TypeOK, Supported
        <3>5. \A q \in Openers : pc'[q] \in {"idle", "exists", "version"}
            BY <2>6, <3>4, Others DEF NewerInv
        <3> QED
            BY <2>1, <3>3, <3>5 DEF NewerInv, Copy
    <2> QED
        BY <2>4, <2>5, <2>6 DEF Next
<1>3. NewerInv => NewerVaultUntouched
    BY DEF NewerInv, NewerVaultUntouched
<1> QED
    BY <1>1, <1>2, <1>3, Typed, PTL DEF Spec

\* LEFT JOIN keeps every row, by the name of its environment.
LEMMA RebuiltDefinitions ==
    ASSUME NEW rs, \A r \in rs : r.env \in EnvIds \cup {None}
    PROVE  Definitions(Rebuilt(rs)) = Definitions(rs)
<1> DEFINE New(r) == [key |-> r.key, env |-> IF r.env \in EnvIds THEN EnvName[r.env] ELSE None]
           Def(r) == [key |-> r.key, env |-> NameOf(r.env)]
<1>1. \A r \in rs : Def(New(r)) = Def(r)
    BY MigrationAssumption DEF NameOf
<1>2. Rebuilt(rs) = {New(r) : r \in rs}
    BY DEF Rebuilt
<1>3. Definitions(rs) = {Def(r) : r \in rs} /\ Definitions(Rebuilt(rs)) = {Def(r) : r \in Rebuilt(rs)}
    BY DEF Definitions
<1> HIDE DEF New, Def
<1> QED
    BY <1>1, <1>2, <1>3

LEMMA RowsStep ==
    ASSUME [Next]_vars
    PROVE  \/ UNCHANGED rows
           \/ "environment_id" \in schema /\ "environment_id" \notin schema' /\ rows' = Rebuilt(rows)
<1>1. CASE UNCHANGED vars
    BY <1>1 DEF vars
<1>2. CASE NewerBuild
    BY <1>2 DEF NewerBuild
<1>3. ASSUME NEW p \in Openers, Open(p)
      PROVE  \/ UNCHANGED rows
             \/ "environment_id" \in schema /\ "environment_id" \notin schema' /\ rows' = Rebuilt(rows)
    <2>1. CASE RebuildSecrets(p)
        BY <2>1 DEF RebuildSecrets
    <2>2. CASE ~RebuildSecrets(p)
        BY <1>3, <2>2 DEF Open, Start, Stop, TableExists, ReadVersion, StatSnapshot, BeginCopy, EndCopy,
           CreateBase, CreateSecrets, Create, CheckLegacy, CheckColumn, AddColumn, CountVersions,
           InsertVersion, AdvanceVersion, vault
    <2> QED
        BY <2>1, <2>2
<1> QED
    BY <1>1, <1>2, <1>3 DEF Next

\* Rebuilding a version 1 table loses no definition and moves none to another
\* scope (migrateSecretsV1, schema.go:283-315).
THEOREM Kept == Spec => []DefinitionsKept
<1>1. Init => RowsInv
    <2> SUFFICES ASSUME Init PROVE RowsInv
        OBVIOUS
    <2>1. LeftBehind(original)
        BY MigrationAssumption DEF Init
    <2> QED
        BY <2>1 DEF Init, RowsInv, DefinitionsKept, LeftBehind
<1>2. TypeOK /\ RowsInv /\ [Next]_vars => RowsInv'
    <2> SUFFICES ASSUME TypeOK, RowsInv, [Next]_vars PROVE RowsInv'
        OBVIOUS
    <2>1. UNCHANGED original /\ ("environment_id" \in schema' => "environment_id" \in schema)
        BY SchemaGrows
    <2>2. CASE UNCHANGED rows
        BY <2>1, <2>2 DEF RowsInv, DefinitionsKept
    <2>3. CASE "environment_id" \in schema /\ "environment_id" \notin schema' /\ rows' = Rebuilt(rows)
        <3>1. Definitions(rows') = Definitions(rows)
            BY <2>3, RebuiltDefinitions DEF RowsInv
        <3> QED
            BY <2>1, <2>3, <3>1 DEF RowsInv, DefinitionsKept
    <2> QED
        BY <2>2, <2>3, RowsStep
<1>3. RowsInv => DefinitionsKept
    BY DEF RowsInv
<1> QED
    BY <1>1, <1>2, <1>3, Typed, PTL DEF Spec
-----------------------------------------------------------------------------
(***************************************************************************)
(* The snapshot.                                                           *)
(***************************************************************************)

\* How an opener gets past the snapshot.
LEMMA PastSnapshot ==
    ASSUME TypeOK, NEW q \in Openers, Open(q), pc'[q] \in Rebuilding \cup {"copying"}
    PROVE  \/ pc[q] \in Rebuilding \cup {"copying"}
           \/ pc[q] = "exists" /\ "schema_version" \notin schema
           \/ ReadVersion(q) /\ ~(Version < 5) /\ Version <= 5
           \/ pc[q] = "stat" /\ snapshot[stored[q]] # None
           \/ BeginCopy(q)
<1> USE DEF TypeOK, Rebuilding, Goto, Quit
<1>1. CASE Start(q) \/ Stop(q) \/ TableExists(q) \/ StatSnapshot(q)
    BY <1>1 DEF Start, Stop, TableExists, StatSnapshot
<1>2. CASE ReadVersion(q)
    BY <1>2 DEF ReadVersion, Supported
<1>3. CASE BeginCopy(q) \/ EndCopy(q)
    BY <1>3 DEF BeginCopy, EndCopy
<1>4. CASE \/ CreateBase(q) \/ CreateSecrets(q) \/ CheckLegacy(q) \/ RebuildSecrets(q)
           \/ CheckColumn(q) \/ AddColumn(q) \/ CountVersions(q) \/ InsertVersion(q) \/ AdvanceVersion(q)
    BY <1>4 DEF CreateBase, CreateSecrets, CheckLegacy, RebuildSecrets, CheckColumn, AddColumn,
       CountVersions, InsertVersion, AdvanceVersion
<1> QED
    BY <1>1, <1>2, <1>3, <1>4 DEF Open

\* Only an opener past the snapshot changes the vault; only the copying ones
\* touch the snapshots, and nothing else ends their statement.
LEMMA VaultAndSnapshot ==
    ASSUME NEW p \in Openers, Open(p), "copying" \notin Killable
    PROVE  /\ UNCHANGED <<schema, recorded, rows>> \/ pc[p] \in Rebuilding
           /\ BeginCopy(p) \/ EndCopy(p) \/ (UNCHANGED snapshot /\ pc[p] # "copying")
<1> USE DEF Rebuilding, vault
<1>1. CASE Start(p) \/ Stop(p) \/ TableExists(p) \/ ReadVersion(p) \/ StatSnapshot(p)
    BY <1>1 DEF Start, Stop, TableExists, ReadVersion, StatSnapshot
<1>2. CASE BeginCopy(p) \/ EndCopy(p)
    BY <1>2 DEF BeginCopy, EndCopy
<1>3. CASE CreateBase(p) \/ CreateSecrets(p)
    BY <1>3 DEF CreateBase, CreateSecrets, Create
<1>4. CASE CheckLegacy(p) \/ RebuildSecrets(p) \/ CheckColumn(p) \/ AddColumn(p)
    BY <1>4 DEF CheckLegacy, RebuildSecrets, CheckColumn, AddColumn
<1>5. CASE CountVersions(p) \/ InsertVersion(p) \/ AdvanceVersion(p)
    BY <1>5 DEF CountVersions, InsertVersion, AdvanceVersion
<1> QED
    BY <1>1, <1>2, <1>3, <1>4, <1>5 DEF Open

LEMMA SnapshotStep ==
    ASSUME TypeOK, VersionInv, [Next]_vars, "copying" \notin Killable, "newer" \notin schema',
           NEW v \in 1..4, v = VersionOf(original.recorded), SnapshotAt(v)
    PROVE  SnapshotAt(v)'
<1>1. CASE UNCHANGED vars
    BY <1>1 DEF vars, SnapshotAt, Copying, Copy
<1>2. ~NewerBuild
    BY DEF NewerBuild
<1>3. ASSUME NEW p \in Openers, Open(p) PROVE SnapshotAt(v)'
    <2>0. UNCHANGED original /\ Version \in Nat /\ snapshot \in [0..4 -> Snapshot \cup {None}] /\ v \in 0..4
        BY VersionType, SchemaGrows DEF TypeOK, Version, Supported
    <2>1. original.recorded # <<>> /\ "schema_version" \in schema
        BY DEF VersionInv, VersionOf
    <2>2. ASSUME pc[p] \in Snapshotting PROVE stored[p] = v
        BY <2>2 DEF VersionInv
    <2>3. CASE BeginCopy(p)
        <3>1. pc[p] = "copy" /\ stored[p] = v /\ UNCHANGED <<schema, recorded, rows>>
            BY <2>2, <2>3 DEF BeginCopy, Snapshotting, vault
        <3>2. CASE snapshot[v] # None
            <4>1. UNCHANGED snapshot
                BY <2>3, <3>1, <3>2 DEF BeginCopy
            <4>2. Copying(v) => Copying(v)'
                BY <1>3, <3>1, Others DEF Copying
            <4> QED
                BY <2>0, <3>1, <3>2, <4>1, <4>2 DEF SnapshotAt, Copy
        <3>3. CASE snapshot[v] = None
            <4> DEFINE copy == [whole |-> FALSE, vault |-> Copy]
            <4>1. Copy = original /\ UNCHANGED Copy
                BY <3>1, <3>3 DEF SnapshotAt, Copy
            <4>2. snapshot' = [snapshot EXCEPT ![v] = copy] /\ Goto(p, "copying") /\ UNCHANGED stored
                BY <2>3, <3>1, <3>3 DEF BeginCopy
            <4>3. copy \in Snapshot /\ copy.vault = original
                BY <2>0, <4>1, MigrationAssumption DEF Snapshot, TypeOK
            <4>4. copy # None
                BY <4>3, MigrationAssumption DEF Snapshot
            <4> HIDE DEF copy
            <4>5. snapshot'[v] = copy
                BY <2>0, <4>2
            <4>6. Copying(v)'
                BY <3>1, <4>2 DEF Copying, Goto, TypeOK
            <4> QED
                BY <2>0, <4>1, <4>3, <4>4, <4>5, <4>6 DEF SnapshotAt
        <3> QED
            BY <3>2, <3>3
    <2>4. CASE EndCopy(p)
        <3> DEFINE whole == [whole |-> TRUE, vault |-> snapshot[v].vault]
        <3>1. pc[p] = "copying" /\ stored[p] = v /\ UNCHANGED <<schema, recorded, rows>>
            BY <2>2, <2>4 DEF EndCopy, Snapshotting, vault
        <3>2. snapshot[v] # None /\ snapshot[v].vault = original
            BY <3>1 DEF SnapshotAt
        <3>3. whole \in Snapshot /\ whole.vault = original /\ whole.whole
            BY <3>2, MigrationAssumption DEF Snapshot, TypeOK
        <3>4. whole # None
            BY <3>3, MigrationAssumption DEF Snapshot
        <3>5. snapshot' = [snapshot EXCEPT ![v] = whole]
            BY <2>4, <3>1 DEF EndCopy
        <3> HIDE DEF whole
        <3>6. snapshot'[v] = whole
            BY <2>0, <3>5
        <3> QED
            BY <2>0, <3>3, <3>4, <3>6 DEF SnapshotAt
    <2>5. CASE UNCHANGED snapshot /\ pc[p] # "copying" /\ ~BeginCopy(p)
        <3>1. Copying(v) => Copying(v)'
            BY <1>3, <2>5, Others DEF Copying
        <3>2. Copy' # original => snapshot[v] # None
            BY <1>3, VaultAndSnapshot DEF SnapshotAt, Copy
        <3>3. ASSUME ReadVersion(p), ~(Version < 5), Version <= 5 PROVE snapshot[v] # None
            <4>1. Version # VersionOf(original.recorded)
                BY <2>0, <3>3
            <4>2. Copy # original
                BY <4>1 DEF Copy, Version
            <4> QED
                BY <4>2 DEF SnapshotAt
        <3>4. ASSUME NEW q \in Openers, pc'[q] \in Rebuilding \cup {"copying"}
              PROVE  snapshot[v] # None
            <4>1. CASE q # p
                BY <1>3, <3>4, <4>1, Others DEF SnapshotAt
            <4>2. CASE q = p
                <5>1. \/ pc[p] \in Rebuilding \cup {"copying"}
                      \/ ReadVersion(p) /\ ~(Version < 5) /\ Version <= 5
                      \/ pc[p] = "stat" /\ snapshot[stored[p]] # None
                    BY <1>3, <2>1, <2>5, <3>4, <4>2, PastSnapshot
                <5> QED
                    BY <2>2, <3>3, <5>1 DEF SnapshotAt, Snapshotting
            <4> QED
                BY <4>1, <4>2
        <3> QED
            BY <2>0, <2>5, <3>1, <3>2, <3>4 DEF SnapshotAt
    <2> QED
        BY <1>3, <2>3, <2>4, <2>5, VaultAndSnapshot
<1> QED
    BY <1>1, <1>2, <1>3 DEF Next

\* An older vault that has changed can be restored: its snapshot is the vault as
\* it was, through any number of openers that crash, if none of them does while
\* it copies (snapshotVault, schema.go:196-216).
THEOREM Snapshotted ==
    ASSUME "copying" \notin Killable
    PROVE  Spec => []SnapshotOfOriginal
<1>1. Init => SnapshotInv
    <2> DEFINE v == VersionOf(original.recorded)
    <2> SUFFICES ASSUME Init, v \in 1..4 PROVE SnapshotAt(v)
        BY DEF SnapshotInv, Supported
    <2>1. Copy = original
        BY MigrationAssumption DEF Init, Copy, Vault
    <2>2. snapshot[v] = None
        BY DEF Init, Supported
    <2> QED
        BY <2>1, <2>2 DEF Init, SnapshotAt, Rebuilding
<1>2. TypeOK /\ VersionInv /\ SnapshotInv /\ [Next]_vars => SnapshotInv'
    <2> DEFINE v == VersionOf(original.recorded)
    <2> SUFFICES ASSUME TypeOK, VersionInv, SnapshotInv, [Next]_vars, v' \in 1..4, "newer" \notin schema'
                 PROVE  SnapshotAt(v)'
        BY DEF SnapshotInv, Supported
    <2>1. UNCHANGED original /\ "newer" \notin schema
        BY SchemaGrows
    <2>2. v' = v /\ SnapshotAt(v)
        BY <2>1 DEF SnapshotInv, Supported
    <2> QED
        BY <2>1, <2>2, SnapshotStep
<1>3. SnapshotInv => SnapshotOfOriginal
    BY DEF SnapshotInv, SnapshotAt, SnapshotOfOriginal, Supported
<1> QED
    BY <1>1, <1>2, <1>3, Versioned, PTL DEF Spec

-----------------------------------------------------------------------------
(***************************************************************************)
(* The upgrades.                                                           *)
(***************************************************************************)

\* What the invariant keeps of the schema is never what a rebuild drops.
LEMMA Lasting ==
    ASSUME TypeOK, [Next]_vars
    PROVE  /\ \A i \in 1..4 : BaseSchema[i] \in schema => BaseSchema[i] \in schema'
           /\ \A i \in 1..4 : Upgrades[i][1] \in schema => Upgrades[i][1] \in schema'
           /\ "environment_id" \notin schema => "environment_id" \notin schema' /\ schema \subseteq schema'
<1>1. \A i \in 1..4 : BaseSchema[i] \notin {"environment_id", "indexes"}
    BY CreateItems DEF Tables
<1>2. \A i \in 1..4 : Upgrades[i][1] \notin {"environment_id", "indexes"}
    BY UpgradeTable DEF Columns, MetadataColumns
<1> QED
    BY <1>1, <1>2, SchemaGrows

LEMMA OpenerStays ==
    ASSUME TypeOK, [Next]_vars, NEW q \in Openers, OpenerInv(q),
           pc'[q] = pc[q] /\ step'[q] = step[q] /\ done'[q] = done[q]
    PROVE  OpenerInv(q)'
<1>1. step[q] \in 1..5 /\ (pc[q] = "alter" => step[q] \in 1..4)
    BY UpgradeTable DEF TypeOK
<1> QED
    BY <1>1, Lasting DEF OpenerInv, Indexed, Shaped

LEMMA OpenerMoves ==
    ASSUME TypeOK, NEW q \in Openers, Open(q), OpenerInv(q)
    PROVE  OpenerInv(q)'
<1>0. [Next]_vars
    BY DEF Next
<1>1. ASSUME Quit(q) PROVE OpenerInv(q)'
    BY <1>1 DEF Quit, OpenerInv, TypeOK, Seen, Shaped, Indexed, Recording
<1>2. CASE \/ Start(q) \/ TableExists(q) \/ StatSnapshot(q) \/ EndCopy(q)
    <2>1. /\ pc[q] \in {"idle", "exists", "stat", "copying"} /\ UNCHANGED step
          /\ pc'[q] \in {"exists", "version", "base", "copy"}
        BY <1>2 DEF Start, TableExists, StatSnapshot, EndCopy, Goto, TypeOK
    <2> QED
        BY <2>1 DEF OpenerInv, Seen, Shaped, Indexed, Recording
<1>3. CASE ReadVersion(q) /\ ~Quit(q)
    <2>1. pc[q] = "version" /\ UNCHANGED step /\ pc'[q] \in {"stat", "base"}
        BY <1>3 DEF ReadVersion, Goto, TypeOK
    <2> QED
        BY <2>1 DEF OpenerInv, Seen, Shaped, Indexed, Recording
<1>4. CASE BeginCopy(q) /\ ~Quit(q)
    <2>1. pc[q] = "copy" /\ UNCHANGED step /\ pc'[q] = "copying"
        BY <1>4 DEF BeginCopy, Goto, TypeOK
    <2> QED
        BY <2>1 DEF OpenerInv, Seen, Shaped, Indexed, Recording
<1>5. CASE CreateBase(q) \/ CreateSecrets(q)
    <2>1. CASE Creating(q)
        BY <1>0, <2>1, OpenerStays DEF Creating
    <2>2. CASE /\ pc[q] = "base" /\ Goto(q, "legacy") /\ \A i \in 1..4 : BaseSchema[i] \in schema
               /\ UNCHANGED <<vault, snapshot, original, stored, step, done>>
        BY <2>2 DEF OpenerInv, Goto, TypeOK, vault, Seen, Shaped, Indexed, Recording
    <2>3. CASE /\ pc[q] = "secrets" /\ Goto(q, "check") /\ {"secrets", "indexes"} \subseteq schema
               /\ UNCHANGED <<vault, snapshot, original, stored, step, done>>
        BY <2>3 DEF OpenerInv, Goto, TypeOK, vault, Seen, Shaped, Indexed, Recording
    <2> QED
        BY <1>5, <2>1, <2>2, <2>3, CreateStep
<1>6. CASE CheckLegacy(q)
    BY <1>6 DEF CheckLegacy, OpenerInv, Goto, TypeOK, vault, Seen, Shaped, Indexed, Recording
<1>7. CASE RebuildSecrets(q) /\ ~Quit(q)
    <2>1. /\ pc[q] = "rebuild" /\ "environment_id" \notin schema' /\ UNCHANGED step
          /\ pc'[q] = "secrets"
        BY <1>7 DEF RebuildSecrets, Goto, TypeOK
    <2> QED
        BY <1>0, <2>1, Lasting DEF OpenerInv, Seen, Shaped, Indexed, Recording
<1>8. CASE CheckColumn(q)
    <2>1. /\ pc[q] = "check" /\ UNCHANGED schema /\ step[q] \in 1..5 /\ Len(Upgrades) = 4
        BY <1>8, UpgradeTable DEF CheckColumn, vault, TypeOK
    <2>2. CASE step[q] > 4 /\ Goto(q, "count") /\ UNCHANGED <<step, done>>
        <3>1. pc'[q] = "count" /\ \A i \in 1..4 : i < step[q]
            BY <2>1, <2>2 DEF Goto, TypeOK
        <3> QED
            BY <2>1, <2>2, <3>1 DEF OpenerInv, Seen, Shaped, Indexed, Recording
    <2>3. CASE /\ step[q] <= 4 /\ Upgrades[step[q]][1] \in schema
               /\ step' = [step EXCEPT ![q] = step[q] + 1] /\ UNCHANGED <<pc, done>>
        <3>1. step'[q] = step[q] + 1 /\ \A i \in 1..4 : i < step'[q] => i < step[q] \/ i = step[q]
            BY <2>1, <2>3 DEF TypeOK
        <3> QED
            BY <2>1, <2>3, <3>1 DEF OpenerInv, Seen, Shaped, Indexed, Recording
    <2>4. CASE done' = [done EXCEPT ![q] = 0] /\ Goto(q, "alter") /\ UNCHANGED step
        BY <2>1, <2>4 DEF OpenerInv, Goto, TypeOK, Seen, Shaped, Indexed, Recording
    <2> QED
        BY <1>8, <2>1, <2>2, <2>3, <2>4 DEF CheckColumn
<1>9. CASE AddColumn(q) /\ ~Quit(q)
    <2>1. /\ pc[q] = "alter" /\ step[q] \in 1..4 /\ done[q] \in 0..3
          /\ Upgrades[step[q]][done[q] + 1] \in schema'
        BY <1>9, UpgradeTable DEF AddColumn, TypeOK
    <2>2. Upgrades[step[q]][1] \in schema'
        <3>1. CASE done[q] = 0
            BY <2>1, <3>1
        <3>2. CASE done[q] > 0
            BY <1>0, <2>1, <3>2, Lasting DEF OpenerInv
        <3> QED
            BY <2>1, <3>1, <3>2
    <2>3. /\ \A i \in 1..4 : BaseSchema[i] \in schema'
          /\ "environment_id" \notin schema' /\ {"secrets", "indexes"} \subseteq schema'
          /\ \A i \in 1..4 : i < step[q] => Upgrades[i][1] \in schema'
        BY <1>0, <2>1, Lasting DEF OpenerInv, Seen, Shaped, Indexed
    <2>4. CASE pc'[q] = "check" /\ step'[q] = step[q] + 1
        <3>1. \A i \in 1..4 : i < step'[q] => i < step[q] \/ i = step[q]
            BY <2>1, <2>4
        <3> QED
            BY <2>2, <2>3, <2>4, <3>1 DEF OpenerInv, Seen, Shaped, Indexed, Recording
    <2>5. CASE pc'[q] = "alter" /\ step'[q] = step[q]
        BY <2>1, <2>2, <2>3, <2>5 DEF OpenerInv, Seen, Shaped, Indexed, Recording
    <2> QED
        BY <1>9, <2>1, <2>4, <2>5 DEF AddColumn, Goto, TypeOK
<1>10. CASE CountVersions(q) \/ InsertVersion(q) \/ AdvanceVersion(q)
    <2>1. /\ pc[q] \in {"count", "insert", "advance"} /\ UNCHANGED schema
          /\ pc'[q] \in {"insert", "advance", "open"}
        BY <1>10 DEF CountVersions, InsertVersion, AdvanceVersion, Goto, TypeOK, vault
    <2> QED
        BY <2>1 DEF OpenerInv, Seen, Shaped, Indexed, Recording
<1> QED
    BY <1>1, <1>2, <1>3, <1>4, <1>5, <1>6, <1>7, <1>8, <1>9, <1>10 DEF Open, Stop

\* Who records a version.
LEMMA Records ==
    ASSUME [Next]_vars
    PROVE  \/ UNCHANGED recorded
           \/ NewerBuild
           \/ \E p \in Openers : pc[p] \in Recording /\ UNCHANGED schema
<1> USE DEF vault
<1>1. ASSUME NEW p \in Openers, Open(p)
      PROVE  UNCHANGED recorded \/ (pc[p] \in Recording /\ UNCHANGED schema)
    <2>1. CASE InsertVersion(p) \/ AdvanceVersion(p)
        BY <2>1 DEF InsertVersion, AdvanceVersion, Recording
    <2>2. CASE ~(InsertVersion(p) \/ AdvanceVersion(p))
        BY <1>1, <2>2 DEF Open, Start, Stop, TableExists, ReadVersion, StatSnapshot, BeginCopy, EndCopy,
           CreateBase, CreateSecrets, Create, CheckLegacy, RebuildSecrets, CheckColumn, AddColumn,
           CountVersions
    <2> QED
        BY <2>1, <2>2
<1> QED
    BY <1>1 DEF Next, vars

\* An opener that is to record a version has seen to every upgrade.
LEMMA Upgraded ==
    ASSUME NEW p \in Openers, OpenerInv(p), pc[p] \in Recording,
           "secrets" \in schema /\ "environment_id" \notin schema => "environment" \in schema
    PROVE  Current \ (MetadataColumns \ {"sensitive"}) \subseteq schema /\ "environment_id" \notin schema
<1>1. {"schema_version", "projects", "environments", "audit_log"} \subseteq schema
    <2>1. \A i \in 1..4 : BaseSchema[i] \in schema
        BY DEF OpenerInv, Recording, Shaped
    <2>2. /\ BaseSchema[1] = "schema_version" /\ BaseSchema[2] = "projects"
          /\ BaseSchema[3] = "environments" /\ BaseSchema[4] = "audit_log"
        BY DEF BaseSchema
    <2> QED
        BY <2>1, <2>2
<1>2. {"sensitive", "allow_open", "key_scopes", "substitutions"} \subseteq schema
    BY UpgradeTable DEF OpenerInv
<1>3. {"secrets", "indexes", "environment"} \subseteq schema /\ "environment_id" \notin schema
    BY DEF OpenerInv, Recording, Shaped, Indexed
<1> QED
    BY <1>1, <1>2, <1>3 DEF Current, Tables, Columns, MetadataColumns

\* A recorded version stands for every upgrade that is one statement, whichever
\* openers ran them and wherever they died (migrate, schema.go:93-176).
THEOREM UpgradesRecorded == Spec => []RecordedUpgrades
<1>1. Init => UpgradeInv
    <2> SUFFICES ASSUME Init PROVE UpgradeInv
        OBVIOUS
    <2>1. LeftBehind(original)
        BY MigrationAssumption DEF Init
    <2>2. \A p \in Openers : OpenerInv(p)
        BY DEF Init, OpenerInv, Seen, Shaped, Indexed, Recording
    <2> QED
        BY <2>1, <2>2 DEF Init, UpgradeInv, RecordedUpgrades, Version, VersionOf, LeftBehind, Supported
<1>2. TypeOK /\ UpgradeInv /\ [Next]_vars => UpgradeInv'
    <2> SUFFICES ASSUME TypeOK, UpgradeInv, [Next]_vars PROVE UpgradeInv'
        OBVIOUS
    <2>1. ASSUME NEW q \in Openers PROVE OpenerInv(q)'
        <3>1. OpenerInv(q)
            BY DEF UpgradeInv
        <3>2. CASE UNCHANGED vars \/ NewerBuild
            BY <3>1, <3>2, OpenerStays DEF vars, NewerBuild, locals
        <3>3. CASE Open(q)
            BY <3>1, <3>3, OpenerMoves
        <3>4. ASSUME NEW p \in Openers, Open(p), q # p PROVE OpenerInv(q)'
            BY <3>1, <3>4, Others, OpenerStays
        <3> QED
            BY <3>2, <3>3, <3>4 DEF Next
    <2>2. "secrets" \in schema' /\ "environment_id" \notin schema' => "environment" \in schema'
        <3>1. ASSUME NEW p \in Openers, Creating(p), "secrets" \in schema', "environment_id" \notin schema'
              PROVE  "environment" \in schema'
            <4>1. PICK t \in Tables \cup {"indexes"} : schema' = schema \cup With(t)
                BY <3>1 DEF Creating
            <4>2. "secrets" \in With(t) => "environment" \in With(t)
                BY Created DEF Tables
            <4> QED
                BY <3>1, <4>1, <4>2 DEF UpgradeInv
        <3>2. ASSUME NEW p \in Openers, step[p] \in 1..4, done[p] + 1 \in 1..Len(Upgrades[step[p]]),
                     schema' = schema \cup {Upgrades[step[p]][done[p] + 1]},
                     "secrets" \in schema', "environment_id" \notin schema'
              PROVE  "environment" \in schema'
            BY <3>2, Columned DEF UpgradeInv
        <3> QED
            BY <3>1, <3>2, SchemaStep DEF UpgradeInv
    <2>3. Version' = 5 => /\ Current \ (MetadataColumns \ {"sensitive"}) \subseteq schema'
                          /\ "environment_id" \notin schema'
        <3>1. CASE Version = 5
            BY <3>1, Lasting DEF UpgradeInv, RecordedUpgrades, Supported
        <3>2. CASE UNCHANGED recorded
            BY <3>2, <3>1 DEF Version
        <3>3. CASE NewerBuild
            BY <3>1, <3>3 DEF NewerBuild, Supported
        <3>4. ASSUME NEW p \in Openers, pc[p] \in Recording, UNCHANGED schema
              PROVE  /\ Current \ (MetadataColumns \ {"sensitive"}) \subseteq schema'
                     /\ "environment_id" \notin schema'
            BY <3>4, Upgraded DEF UpgradeInv
        <3> QED
            BY <3>1, <3>2, <3>3, <3>4, Records
    <2> QED
        BY <2>1, <2>2, <2>3 DEF UpgradeInv, RecordedUpgrades, Supported
<1>3. UpgradeInv => RecordedUpgrades
    BY DEF UpgradeInv
<1> QED
    BY <1>1, <1>2, <1>3, Typed, PTL DEF Spec
=============================================================================
