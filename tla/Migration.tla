----------------------------- MODULE Migration -----------------------------
(***************************************************************************)
(* Opening a vault (src/pkg/db/schema.go): every command, server and UI    *)
(* runs migrate before anything else, so several processes may migrate the *)
(* same file at once.  Each SQL statement commits on its own, except those *)
(* of migrateSecretsV1, which are one transaction; an action is one        *)
(* statement, and a process may die, or its statement fail, at any of      *)
(* them.  The schema is the set of tables, columns and indexes that are    *)
(* there ("indexes": the four unique indexes of secrets).                  *)
(***************************************************************************)
EXTENDS Naturals, Sequences, FiniteSets

CONSTANTS Openers,      \* processes that open the vault
          Keys,         \* secret keys, each of one project
          EnvIds,       \* ids in table environments
          EnvName,      \* the names of those environments
          None,         \* NULL, or no file
          Killable,     \* the statements an opener may die or fail at
          Vaults        \* the vaults there may be to begin with

Supported == 5          \* schemaVersion
Newer == Supported + 1  \* the version of a newer build

Tables == {"schema_version", "projects", "environments", "audit_log", "secrets"}
MetadataColumns == {"sensitive", "kind", "hint", "value_plain"}
Columns == MetadataColumns \cup {"environment_id", "environment", "key_scopes",
                                 "allow_open", "substitutions"}
Items == Tables \cup Columns \cup {"indexes", "newer"}
Row == [key : Keys, env : EnvIds \cup {EnvName[e] : e \in EnvIds} \cup {None}]

\* A vault file: its schema, the rows of schema_version and those of secrets.
Vault == [schema : SUBSET Items, recorded : Seq(Nat), rows : SUBSET Row]

\* What this build makes of a new vault, and what opening any other must reach.
Current == (Tables \cup Columns \cup {"indexes"}) \ {"environment_id"}

\* The rows of a vault, environments by name.
NameOf(env) == IF env \in EnvIds THEN EnvName[env] ELSE env
Definitions(rows) == {[key |-> r.key, env |-> NameOf(r.env)] : r \in rows}

VersionOf(recorded) == IF recorded = <<>> THEN 0 ELSE recorded[1]

\* A vault is new, or has what the build that left it there gave it; a newer
\* build may have dropped what this one would create.
LeftBehind(v) ==
    IF v.recorded = <<>> THEN v.schema = {} /\ v.rows = {}
    ELSE /\ VersionOf(v.recorded) >= 1 /\ "schema_version" \in v.schema
         /\ "newer" \in v.schema <=> VersionOf(v.recorded) > Supported
         /\ VersionOf(v.recorded) = Supported =>
              Current \subseteq v.schema /\ "environment_id" \notin v.schema
         /\ IF "environment_id" \in v.schema
            THEN \A r \in v.rows : r.env \in EnvIds \cup {None}
            ELSE "secrets" \in v.schema => "environment" \in v.schema

ASSUME MigrationAssumption ==
    /\ Vaults \subseteq Vault
    /\ \A v \in Vaults : LeftBehind(v)
    /\ None \notin EnvIds
    /\ \A e \in EnvIds : EnvName[e] \notin EnvIds
    /\ None \notin [whole : BOOLEAN, vault : Vault]

VARIABLES schema, recorded, rows, \* the vault file
          snapshot,   \* snapshot[v]: the copy beside it, vault.db.v<v>.bak
          original,   \* the vault there was to begin with
          pc,         \* the statement each opener runs next
          stored,     \* the version it read
          step, done  \* which upgrade it is at, how many of its ALTERs ran

vault == <<schema, recorded, rows>>
locals == <<pc, stored, step, done>>
vars == <<schema, recorded, rows, snapshot, original, pc, stored, step, done>>

Version == VersionOf(recorded)

-----------------------------------------------------------------------------
(***************************************************************************)
(* What the statements say.                                                *)
(***************************************************************************)
BaseSchema == <<"schema_version", "projects", "environments", "audit_log">>
SecretsSchema == <<"secrets", "indexes">>

\* CREATE TABLE brings the columns a table has in this build.
With(t) ==
    {t} \cup IF t = "projects" THEN {"allow_open"}
             ELSE IF t = "audit_log" THEN {"key_scopes", "substitutions"}
             ELSE IF t = "secrets" THEN MetadataColumns \cup {"environment"} ELSE {}

\* Variant: the schema-v5 column is forgotten.
Upgrades_NoSubstitutions ==
    << <<"sensitive", "kind", "hint", "value_plain">>, <<"allow_open">>, <<"key_scopes">> >>

\* Columns added to existing tables; an upgrade is due if its first is missing.
Upgrades ==
    << <<"sensitive", "kind", "hint", "value_plain">>, <<"allow_open">>, <<"key_scopes">>,
       <<"substitutions">> >>

\* Variant: INNER JOIN environments.
Rebuilt_InnerJoin(rs) == {[key |-> r.key, env |-> EnvName[r.env]] : r \in {x \in rs : x.env \in EnvIds}}

\* LEFT JOIN environments ON e.id = s.environment_id.
Rebuilt(rs) ==
    {[key |-> r.key, env |-> IF r.env \in EnvIds THEN EnvName[r.env] ELSE None] : r \in rs}

-----------------------------------------------------------------------------
Init ==
    /\ original \in Vaults
    /\ schema = original.schema /\ recorded = original.recorded /\ rows = original.rows
    /\ snapshot = [v \in 0..(Supported - 1) |-> None]
    /\ pc = [p \in Openers |-> "idle"]
    /\ stored = [p \in Openers |-> 0]
    /\ step = [p \in Openers |-> 1]
    /\ done = [p \in Openers |-> 0]

Goto(p, s) == pc' = [pc EXCEPT ![p] = s]

\* The opener fails: its process ends, and may be started again.
Quit(p) ==
    /\ pc' = [pc EXCEPT ![p] = "idle"]
    /\ stored' = [stored EXCEPT ![p] = 0]
    /\ step' = [step EXCEPT ![p] = 1]
    /\ done' = [done EXCEPT ![p] = 0]

Start(p) ==
    /\ pc[p] = "idle"
    /\ Goto(p, "exists")
    /\ UNCHANGED <<vault, snapshot, original, stored, step, done>>

\* A crash, a statement that fails, or the end of a process that opened.
Stop(p) ==
    /\ pc[p] \in Killable \cup {"open"}
    /\ Quit(p)
    /\ UNCHANGED <<vault, snapshot, original>>

\* A vault without schema_version is new: no version, no snapshot.
TableExists(p) ==
    /\ pc[p] = "exists"
    /\ Goto(p, IF "schema_version" \in schema THEN "version" ELSE "base")
    /\ UNCHANGED <<vault, snapshot, original, stored, step, done>>

\* Variant: a newer vault is not refused.
ReadVersion_Unchecked(p) ==
    /\ pc[p] = "version"
    /\ stored' = [stored EXCEPT ![p] = Version]
    /\ Goto(p, IF Version < Supported THEN "stat" ELSE "base")
    /\ UNCHANGED <<vault, snapshot, original, step, done>>

ReadVersion(p) ==
    /\ pc[p] = "version"
    /\ \/ /\ Version > Supported
          /\ Quit(p)
       \/ /\ Version <= Supported
          /\ stored' = [stored EXCEPT ![p] = Version]
          /\ Goto(p, IF Version < Supported THEN "stat" ELSE "base")
          /\ UNCHANGED <<step, done>>
    /\ UNCHANGED <<vault, snapshot, original>>

-----------------------------------------------------------------------------
(***************************************************************************)
(* snapshotVault.                                                          *)
(***************************************************************************)
Copy == [schema |-> schema, recorded |-> recorded, rows |-> rows]

StatSnapshot(p) ==
    /\ pc[p] = "stat"
    /\ Goto(p, IF snapshot[stored[p]] # None THEN "base" ELSE "copy")
    /\ UNCHANGED <<vault, snapshot, original, stored, step, done>>

\* Variant: the copy replaces the one that is there.
BeginCopy_Overwrites(p) ==
    /\ pc[p] = "copy"
    /\ snapshot' = [snapshot EXCEPT ![stored[p]] = [whole |-> FALSE, vault |-> Copy]]
    /\ Goto(p, "copying")
    /\ UNCHANGED <<vault, original, stored, step, done>>

\* VACUUM INTO refuses a file that exists, and copies the vault as it is when
\* the statement begins; until it ends the file is not whole.
BeginCopy(p) ==
    /\ pc[p] = "copy"
    /\ IF snapshot[stored[p]] # None
       THEN Quit(p) /\ UNCHANGED snapshot
       ELSE /\ snapshot' = [snapshot EXCEPT ![stored[p]] = [whole |-> FALSE, vault |-> Copy]]
            /\ Goto(p, "copying")
            /\ UNCHANGED <<stored, step, done>>
    /\ UNCHANGED <<vault, original>>

EndCopy(p) ==
    /\ pc[p] = "copying"
    /\ snapshot' = [snapshot EXCEPT ![stored[p]] = [whole |-> TRUE, vault |-> snapshot[stored[p]].vault]]
    /\ Goto(p, "base")
    /\ UNCHANGED <<vault, original, stored, step, done>>

-----------------------------------------------------------------------------
(***************************************************************************)
(* The schema, the version 1 table and the added columns.                  *)
(***************************************************************************)

\* CREATE ... IF NOT EXISTS, in order; then the next statement.
Create(p, items, next) ==
    /\ \/ \E i \in 1..Len(items) :
            /\ items[i] \notin schema
            /\ \A j \in 1..(i - 1) : items[j] \in schema
            /\ schema' = schema \cup With(items[i])
            /\ UNCHANGED pc
       \/ /\ \A i \in 1..Len(items) : items[i] \in schema
          /\ Goto(p, next)
          /\ UNCHANGED schema
    /\ UNCHANGED <<recorded, rows, snapshot, original, stored, step, done>>

CreateBase(p) == pc[p] = "base" /\ Create(p, BaseSchema, "legacy")
CreateSecrets(p) == pc[p] = "secrets" /\ Create(p, SecretsSchema, "check")

\* tableExists, then columnExists: a legacy table never appears later.
CheckLegacy(p) ==
    /\ pc[p] = "legacy"
    /\ Goto(p, IF "environment_id" \in schema THEN "rebuild" ELSE "secrets")
    /\ UNCHANGED <<vault, snapshot, original, stored, step, done>>

\* One transaction; it fails if another opener has rebuilt the table.
RebuildSecrets(p) ==
    /\ pc[p] = "rebuild"
    /\ IF "environment_id" \in schema
       THEN /\ schema' = (schema \ {"environment_id", "indexes"}) \cup {"environment"}
            /\ rows' = Rebuilt(rows)
            /\ Goto(p, "secrets")
            /\ UNCHANGED <<stored, step, done>>
       ELSE Quit(p) /\ UNCHANGED <<schema, rows>>
    /\ UNCHANGED <<recorded, snapshot, original>>

CheckColumn(p) ==
    /\ pc[p] = "check"
    /\ \/ /\ step[p] > Len(Upgrades)
          /\ Goto(p, "count")
          /\ UNCHANGED <<step, done>>
       \/ /\ step[p] <= Len(Upgrades)
          /\ Upgrades[step[p]][1] \in schema
          /\ step' = [step EXCEPT ![p] = step[p] + 1]
          /\ UNCHANGED <<pc, done>>
       \/ /\ step[p] <= Len(Upgrades)
          /\ Upgrades[step[p]][1] \notin schema
          /\ done' = [done EXCEPT ![p] = 0]
          /\ Goto(p, "alter")
          /\ UNCHANGED step
    /\ UNCHANGED <<vault, snapshot, original, stored>>

\* Variant: one turn of the loop too many.
LastAlter_Late(p) == done[p] = Len(Upgrades[step[p]])

LastAlter(p) == done[p] + 1 = Len(Upgrades[step[p]])

\* One ALTER TABLE ADD COLUMN; a column that is there by now is an error.
AddColumn(p) ==
    /\ pc[p] = "alter"
    /\ LET column == Upgrades[step[p]][done[p] + 1] IN
        \/ /\ column \in schema
           /\ Quit(p)
           /\ UNCHANGED schema
        \/ /\ column \notin schema
           /\ schema' = schema \cup {column}
           /\ IF LastAlter(p)
              THEN /\ Goto(p, "check")
                   /\ step' = [step EXCEPT ![p] = step[p] + 1]
                   /\ done' = [done EXCEPT ![p] = 0]
              ELSE done' = [done EXCEPT ![p] = done[p] + 1] /\ UNCHANGED <<pc, step>>
           /\ UNCHANGED stored
    /\ UNCHANGED <<recorded, rows, snapshot, original>>

-----------------------------------------------------------------------------
(***************************************************************************)
(* recordSchemaVersion.                                                    *)
(***************************************************************************)
CountVersions(p) ==
    /\ pc[p] = "count"
    /\ Goto(p, IF recorded = <<>> THEN "insert" ELSE "advance")
    /\ UNCHANGED <<vault, snapshot, original, stored, step, done>>

\* Openers that saw no row each add one.
InsertVersion(p) ==
    /\ pc[p] = "insert"
    /\ recorded' = Append(recorded, Supported)
    /\ Goto(p, "open")
    /\ UNCHANGED <<schema, rows, snapshot, original, stored, step, done>>

\* Variant: without WHERE version < ?.
Advanced_Always(versions) == [i \in DOMAIN versions |-> Supported]

Advanced(versions) ==
    [i \in DOMAIN versions |-> IF versions[i] < Supported THEN Supported ELSE versions[i]]

AdvanceVersion(p) ==
    /\ pc[p] = "advance"
    /\ recorded' = Advanced(recorded)
    /\ Goto(p, "open")
    /\ UNCHANGED <<schema, rows, snapshot, original, stored, step, done>>

\* Another, newer build upgrades the vault.
NewerBuild ==
    /\ Version = Supported
    /\ schema' = schema \cup {"newer"}
    /\ recorded' = [i \in DOMAIN recorded |-> Newer]
    /\ UNCHANGED <<rows, snapshot, original, locals>>

Open(p) ==
    \/ Start(p) \/ Stop(p) \/ TableExists(p) \/ ReadVersion(p)
    \/ StatSnapshot(p) \/ BeginCopy(p) \/ EndCopy(p)
    \/ CreateBase(p) \/ CheckLegacy(p) \/ RebuildSecrets(p) \/ CreateSecrets(p)
    \/ CheckColumn(p) \/ AddColumn(p)
    \/ CountVersions(p) \/ InsertVersion(p) \/ AdvanceVersion(p)

Next == NewerBuild \/ \E p \in Openers : Open(p)

Spec == Init /\ [][Next]_vars
-----------------------------------------------------------------------------
(***************************************************************************)
(* Correctness.                                                            *)
(***************************************************************************)
Statements == {"exists", "version", "stat", "copy", "copying", "base", "legacy",
               "rebuild", "secrets", "check", "alter", "count", "insert", "advance"}
Snapshotting == {"stat", "copy", "copying"}
Snapshot == [whole : BOOLEAN, vault : Vault]

\* An opener's place in the table of upgrades is always one of the table's, and
\* the snapshot it makes one of an older vault's.
TypeOK ==
    /\ schema \subseteq Items /\ recorded \in Seq(Nat) /\ rows \subseteq Row
    /\ original \in Vaults
    /\ snapshot \in [0..(Supported - 1) -> Snapshot \cup {None}]
    /\ pc \in [Openers -> Statements \cup {"idle", "open"}]
    /\ stored \in [Openers -> 0..Supported]
    /\ step \in [Openers -> 1..(Len(Upgrades) + 1)]
    /\ done \in [Openers -> 0..3]
    /\ \A p \in Openers : pc[p] = "alter" =>
         step[p] <= Len(Upgrades) /\ done[p] < Len(Upgrades[step[p]])
    /\ \A p \in Openers : pc[p] \in Snapshotting => stored[p] < Supported
    /\ \A p \in Openers : pc[p] = "copying" => snapshot[stored[p]] # None

\* A vault written by a newer build is refused without being touched, and no
\* copy of it is made.
NewerVaultUntouched ==
    "newer" \in original.schema =>
        Copy = original /\ \A v \in DOMAIN snapshot : snapshot[v] = None

\* The recorded version only advances, whatever builds race.
VersionNeverLowered == [][Version' >= Version]_vars

Copying(v) == \E p \in Openers : pc[p] = "copying" /\ stored[p] = v

\* Before an older vault changes it has been copied: the snapshot of its version
\* holds the vault as it was, through any number of interrupted upgrades, and it
\* is whole unless the opener that makes it is still at it.
SnapshotOfOriginal ==
    LET v == VersionOf(original.recorded) IN
    v \in 1..(Supported - 1) /\ Copy # original /\ "newer" \notin schema =>
        /\ snapshot[v] # None
        /\ snapshot[v].vault = original
        /\ snapshot[v].whole \/ Copying(v)

\* Migration keeps every definition, under the name of the environment it had.
DefinitionsKept == Definitions(rows) = Definitions(original.rows)

\* A recorded version stands for the schema it names, as far as an upgrade is a
\* single statement: no upgrade is skipped, whichever opener ran which.
RecordedUpgrades ==
    Version = Supported =>
        /\ Current \ (MetadataColumns \ {"sensitive"}) \subseteq schema
        /\ "environment_id" \notin schema

\* A recorded version stands for the whole schema it names.
MigrationComplete == Version = Supported => Current \subseteq schema

-----------------------------------------------------------------------------
(***************************************************************************)
(* The inductive invariants of the proofs.                                 *)
(***************************************************************************)
Rebuilding == {"base", "legacy", "rebuild", "secrets", "check", "alter", "count",
               "insert", "advance"}
Seen == {"legacy", "rebuild"}
Shaped == {"secrets", "check", "alter", "count", "insert", "advance"}
Indexed == Shaped \ {"secrets"}
Recording == {"count", "insert", "advance"}

\* Until a version is recorded the vault has the one it had; an opener on its
\* way to the snapshot read that one.
VersionInv ==
    /\ Version = VersionOf(original.recorded) \/ Version >= Supported
    /\ original.recorded # <<>> => "schema_version" \in schema /\ recorded # <<>>
    /\ "newer" \in original.schema => "newer" \in schema
    /\ \A p \in Openers : pc[p] \in Snapshotting => stored[p] = VersionOf(original.recorded)

\* Nothing starts on a newer vault.
NewerInv ==
    "newer" \in original.schema =>
        /\ Copy = original /\ \A v \in DOMAIN snapshot : snapshot[v] = None
        /\ \A p \in Openers : pc[p] \in {"idle", "exists", "version"}

\* Whoever is past the snapshot of an older vault, of version v, has one.
SnapshotAt(v) ==
    /\ snapshot[v] # None => snapshot[v].vault = original /\ (snapshot[v].whole \/ Copying(v))
    /\ Copy # original => snapshot[v] # None
    /\ \A p \in Openers : pc[p] \in Rebuilding \cup {"copying"} => snapshot[v] # None

SnapshotInv ==
    LET v == VersionOf(original.recorded) IN
    v \in 1..(Supported - 1) /\ "newer" \notin schema => SnapshotAt(v)

\* A version 1 table holds environment ids.
RowsInv ==
    /\ DefinitionsKept
    /\ "environment_id" \in schema => \A r \in rows : r.env \in EnvIds \cup {None}

\* What an opener has seen or done is still so, whoever else upgrades.
OpenerInv(p) ==
    /\ pc[p] \in Seen \cup Shaped => \A i \in 1..4 : BaseSchema[i] \in schema
    /\ pc[p] \in Shaped => "environment_id" \notin schema
    /\ pc[p] \in Indexed => {"secrets", "indexes"} \subseteq schema
    /\ pc[p] \notin Indexed \cup {"open"} => step[p] = 1
    /\ pc[p] \in {"check", "alter"} => \A i \in 1..4 : i < step[p] => Upgrades[i][1] \in schema
    /\ pc[p] = "alter" /\ done[p] > 0 => Upgrades[step[p]][1] \in schema
    /\ pc[p] \in Recording => \A i \in 1..4 : Upgrades[i][1] \in schema

UpgradeInv ==
    /\ RecordedUpgrades
    /\ "secrets" \in schema /\ "environment_id" \notin schema => "environment" \in schema
    /\ \A p \in Openers : OpenerInv(p)
=============================================================================
