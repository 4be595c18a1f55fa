---------------------------- MODULE MCMigration ----------------------------
(***************************************************************************)
(* Migration for TLC: the vaults each schema version left behind.          *)
(***************************************************************************)
EXTENDS Migration

CONSTANTS cli, mcp, k1, k2, staging

Name == <<staging>>

V1 == {"schema_version", "projects", "environments", "audit_log", "secrets", "environment_id"}
V2 == (V1 \ {"environment_id"}) \cup {"environment", "indexes", "key_scopes"}
V3 == V2 \cup MetadataColumns
V4 == V3 \cup {"allow_open"}
V5 == V4 \cup {"substitutions"}

ByName == {[key |-> k1, env |-> staging], [key |-> k2, env |-> None]}
ById == {[key |-> k1, env |-> 1], [key |-> k2, env |-> None]}

Left(version, s, rs) == [schema |-> s, recorded |-> <<version>>, rows |-> rs]

NewVault == [schema |-> {}, recorded |-> <<>>, rows |-> {}]
OldVaults == {NewVault, Left(1, V1, ById), Left(2, V2, ByName), Left(3, V3, ByName),
              Left(4, V4, ByName), Left(5, V5, ByName), Left(6, (V5 \ {"indexes", "substitutions"}) \cup {"newer"}, ByName)}

AnywhereButCopying == Statements \ {"copying"}
Anywhere == Statements
=============================================================================
