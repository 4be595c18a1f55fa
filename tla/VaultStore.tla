----------------------------- MODULE VaultStore -----------------------------
(***************************************************************************)
(* The vault's SQLite store (src/pkg/db/store.go) as its clients use it:   *)
(* web handlers, MCP handlers and CLI commands, in one process or in       *)
(* several, each running one operation of Store at a time.  An operation   *)
(* is a sequence of autocommitted SQL statements and an action below is    *)
(* one statement, so operations interleave between statements exactly      *)
(* where the program lets them.  DeleteEnvironment, the only operation     *)
(* that opens a transaction, is one action.                                *)
(*                                                                         *)
(* Ciphertexts are all made with the vault's own master key: enc = v       *)
(* stands for a valid AES-256-GCM blob of v, enc = None for the empty      *)
(* blob.  plain = None is SQL's NULL.  hint = v stands for any hint text   *)
(* that contains v, hint = None for a hint that contains no value.         *)
(***************************************************************************)
EXTENDS Naturals, FiniteSets

CONSTANTS Procs,        \* the goroutines and processes that call the store
          Slugs,        \* project slugs
          Envs,         \* environment names
          Keys,         \* secret keys
          Values,       \* secret values that are not empty
          Shared,       \* the empty project selector: the shared scopes
          AllEnvs,      \* the empty environment selector (SQL NULL)
          Empty,        \* the empty string
          None,         \* no value: NULL, an empty blob, an unused field
          Requests,     \* Requests[p]: the operations p may ask for
          MaxProjects   \* bound: projects ever created

Texts == Values \cup {Empty}
Kinds == {"text", "token"}  \* token stands for token and password
ScopeOps == {"Put", "SetMetadata", "DeleteSecret", "Resolve", "ScopeEntries"}
EnvOps == {"CreateEnvironment", "DeleteEnvironment"}
ProjectOps == {"CreateProject", "DeleteProject", "SetAllowExecute", "SetAllowOpen"}

Request == [op : ScopeOps \cup EnvOps \cup ProjectOps,
            slug : Slugs \cup {Shared}, env : Envs \cup {AllEnvs},
            key : Keys \cup {None}, value : Texts \cup {None},
            sensitive : BOOLEAN, kind : Kinds, hint : Values \cup {None},
            allow : BOOLEAN]

\* Names are checked before any statement: a project or environment operation
\* names one, a write or a delete names a key and a write carries a value.
WellNamed(r) ==
    /\ r.op \in ProjectOps \cup EnvOps => r.slug \in Slugs
    /\ r.op \in EnvOps => r.env \in Envs
    /\ r.op \in {"Put", "SetMetadata", "DeleteSecret"} => r.key \in Keys
    /\ r.op = "Put" => r.value \in Texts

ASSUME ConstantsAssumption ==
    /\ Shared \notin Slugs
    /\ AllEnvs \notin Envs
    /\ Empty \notin Values
    /\ None \notin Texts
    /\ MaxProjects \in Nat
    /\ Requests \in [Procs -> SUBSET Request]
    /\ \A p \in Procs : \A r \in Requests[p] : WellNamed(r)

VARIABLES projects,     \* rows of table projects
          nextId,       \* the AUTOINCREMENT counter of table projects
          environments, \* rows of table environments
          secrets,      \* rows of table secrets; pid 0 is a NULL project_id
          pc,           \* the statement each client runs next
          req,          \* the operation each client runs
          pid,          \* the project id its operation resolved
          value,        \* the value SetSecretMetadata read
          out,          \* what ResolveDetailed or ScopeEntries returns
          ret           \* how the operation ended

tables == <<projects, nextId, environments, secrets>>
locals == <<pc, req, pid, value, out, ret>>
vars == <<projects, nextId, environments, secrets, pc, req, pid, value, out, ret>>

Project == [id : Nat, slug : Slugs, exec : BOOLEAN, open : BOOLEAN]
Environment == [pid : Nat, name : Envs]
Row == [pid : Nat, env : Envs \cup {AllEnvs}, key : Keys,
        enc : Texts \cup {None}, plain : Texts \cup {None},
        sensitive : BOOLEAN, kind : Kinds, hint : Values \cup {None}]
Entry == [key : Keys, value : Texts, sensitive : BOOLEAN, kind : Kinds,
          hint : Values \cup {None}]

Statements == {"insertProject", "dropProject", "setAllow", "project",
               "environment", "insertEnv", "dropEnv", "read", "updateMeta",
               "update", "insert", "conflict", "delete", "select"}
Results == {"ok", "ErrProjectNotFound", "ErrEnvironmentNotFound",
            "ErrSecretNotFound", "ErrDuplicate", "ErrInvalidMetadata",
            "ErrInconsistentDefinition", "error"}

\* The request of a client that runs none.
NoRequest == [op |-> "Resolve", slug |-> Shared, env |-> AllEnvs, key |-> None,
              value |-> None, sensitive |-> TRUE, kind |-> "text",
              hint |-> None, allow |-> FALSE]

-----------------------------------------------------------------------------
(***************************************************************************)
(* The helpers of store.go.                                                *)
(***************************************************************************)

\* A token or a password is always sensitive.
MetaAccepted(kind, sensitive) == kind = "token" => sensitive

\* Variant: hints are not looked at.
HintAccepted_Any(hint, v) == TRUE

\* A hint may not contain the definition's value.
HintAccepted(hint, v) == hint # None => hint # v

\* The rows of exactly one scope, for one key.
At(r, id, env, key) == r.pid = id /\ r.env = env /\ r.key = key
Addressed(p, r) == At(r, pid[p], req[p].env, req[p].key)

\* Variant: the cleartext column is filled whatever the sensitivity.
Encode_KeepPlain(id, q, v) ==
    [pid |-> id, env |-> q.env, key |-> q.key,
     enc |-> IF q.sensitive THEN v ELSE None, plain |-> v,
     sensitive |-> q.sensitive, kind |-> q.kind, hint |-> q.hint]

\* The row writeSecret builds: one of the two value columns is filled.
Encode(id, q, v) ==
    [pid |-> id, env |-> q.env, key |-> q.key,
     enc |-> IF q.sensitive THEN v ELSE None,
     plain |-> IF q.sensitive THEN None ELSE v,
     sensitive |-> q.sensitive, kind |-> q.kind, hint |-> q.hint]

\* Variant: a NULL column is handed on.
ValueOf_Null(r) == IF r.sensitive THEN r.enc ELSE r.plain

\* What a reader gets from a row: a NULL column scans as the empty string.
ValueOf(r) == IF r.sensitive THEN r.enc
              ELSE IF r.plain = None THEN Empty ELSE r.plain

\* A row marked sensitive without a ciphertext is refused by every reader.
Inconsistent(r) == r.sensitive /\ r.enc = None

\* Variant: environment-global above project-global.
Priority_Swapped(r) ==
    IF r.pid # 0 THEN (IF r.env # AllEnvs THEN 4 ELSE 2)
                 ELSE (IF r.env # AllEnvs THEN 3 ELSE 1)

\* project+environment, project, environment-global, global.
Priority(r) ==
    IF r.pid # 0 THEN (IF r.env # AllEnvs THEN 4 ELSE 3)
                 ELSE (IF r.env # AllEnvs THEN 2 ELSE 1)

\* The definitions that apply to a project and environment, and the winners.
Applicable(id, env) ==
    {r \in secrets : r.pid \in {id, 0} /\ r.env \in {env, AllEnvs}}
Effective(id, env) ==
    {r \in Applicable(id, env) :
        \A s \in Applicable(id, env) : s.key = r.key => Priority(s) <= Priority(r)}

\* Variant: the broader scopes are served too.
InScope_Broader(id, env) == Applicable(id, env)

\* The definitions of exactly one scope.
InScope(id, env) == {r \in secrets : r.pid = id /\ r.env = env}

\* What a reader is given of a definition.
Served(r) == [key |-> r.key, value |-> ValueOf(r), sensitive |-> r.sensitive,
              kind |-> r.kind, hint |-> r.hint]

-----------------------------------------------------------------------------
Init ==
    /\ projects = {} /\ nextId = 1
    /\ environments = {} /\ secrets = {}
    /\ pc = [p \in Procs |-> "idle"]
    /\ req = [p \in Procs |-> NoRequest]
    /\ pid = [p \in Procs |-> 0]
    /\ value = [p \in Procs |-> None]
    /\ out = [p \in Procs |-> {}]
    /\ ret = [p \in Procs |-> "ok"]

Goto(p, s) == pc' = [pc EXCEPT ![p] = s] /\ UNCHANGED ret
Finish(p, r) == pc' = [pc EXCEPT ![p] = "done"] /\ ret' = [ret EXCEPT ![p] = r]

\* The statement an operation runs once its scope is resolved.
Body == [Put |-> "update", SetMetadata |-> "read", DeleteSecret |-> "delete",
         Resolve |-> "select", ScopeEntries |-> "select",
         CreateEnvironment |-> "insertEnv", DeleteEnvironment |-> "dropEnv"]

\* The project operations are one statement that finds the project by its slug.
BySlug == [CreateProject |-> "insertProject", DeleteProject |-> "dropProject",
           SetAllowExecute |-> "setAllow", SetAllowOpen |-> "setAllow"]

First(q) == IF q.op \in ProjectOps THEN BySlug[q.op]
            ELSE IF q.slug = Shared THEN Body[q.op] ELSE "project"

\* A request that fails validation returns before any statement.
Accepted(q) ==
    /\ q.op \in {"Put", "SetMetadata"} => MetaAccepted(q.kind, q.sensitive)
    /\ q.op = "Put" => HintAccepted(q.hint, q.value)

Call(p) ==
    /\ pc[p] = "idle"
    /\ \E q \in Requests[p] :
        /\ Accepted(q)
        /\ req' = [req EXCEPT ![p] = q]
        /\ value' = [value EXCEPT ![p] = q.value]
        /\ Goto(p, First(q))
    /\ UNCHANGED <<tables, pid, out>>

\* The caller takes the result; the operation's locals are gone.
Return(p) ==
    /\ pc[p] = "done"
    /\ pc' = [pc EXCEPT ![p] = "idle"]
    /\ req' = [req EXCEPT ![p] = NoRequest]
    /\ pid' = [pid EXCEPT ![p] = 0]
    /\ value' = [value EXCEPT ![p] = None]
    /\ out' = [out EXCEPT ![p] = {}]
    /\ ret' = [ret EXCEPT ![p] = "ok"]
    /\ UNCHANGED tables

\* Any statement may fail (lock not granted within busy_timeout, context
\* cancelled, the process killed); what earlier statements wrote stays.
Fail(p) ==
    /\ pc[p] \in Statements
    /\ Finish(p, "error")
    /\ UNCHANGED <<tables, req, pid, value, out>>

-----------------------------------------------------------------------------
(***************************************************************************)
(* The scope of an operation: projectID, then environmentID.               *)
(***************************************************************************)
AfterProject(q) ==
    IF q.op \notin EnvOps /\ q.env # AllEnvs THEN "environment" ELSE Body[q.op]

ReadProject(p) ==
    /\ pc[p] = "project"
    /\ \/ \E pr \in projects :
            /\ pr.slug = req[p].slug
            /\ pid' = [pid EXCEPT ![p] = pr.id]
            /\ Goto(p, AfterProject(req[p]))
       \/ /\ \A pr \in projects : pr.slug # req[p].slug
          /\ Finish(p, "ErrProjectNotFound")
          /\ UNCHANGED pid
    /\ UNCHANGED <<tables, req, value, out>>

EnvironmentExists(id, name) == [pid |-> id, name |-> name] \in environments

\* Variant: the environment of a write is not looked up.
ReadEnvironment_Unchecked(p) ==
    /\ pc[p] = "environment"
    /\ Goto(p, Body[req[p].op])
    /\ UNCHANGED <<tables, req, pid, value, out>>

ReadEnvironment(p) ==
    /\ pc[p] = "environment"
    /\ IF EnvironmentExists(pid[p], req[p].env)
       THEN Goto(p, Body[req[p].op])
       ELSE Finish(p, "ErrEnvironmentNotFound")
    /\ UNCHANGED <<tables, req, pid, value, out>>

-----------------------------------------------------------------------------
(***************************************************************************)
(* Projects and environments.                                              *)
(***************************************************************************)

\* Variant: INTEGER PRIMARY KEY without AUTOINCREMENT, the largest id plus one.
NewProjectId_Reused ==
    CHOOSE n \in 1..nextId : /\ \A pr \in projects : pr.id < n
                             /\ n = 1 \/ \E pr \in projects : pr.id = n - 1

\* AUTOINCREMENT never hands out an id twice, deleted rows included.
NewProjectId == nextId

InsertProject(p) ==
    /\ pc[p] = "insertProject"
    /\ IF \E pr \in projects : pr.slug = req[p].slug
       THEN Finish(p, "ErrDuplicate") /\ UNCHANGED <<projects, nextId>>
       ELSE /\ nextId <= MaxProjects
            /\ projects' = projects \cup {[id |-> NewProjectId, slug |-> req[p].slug,
                                           exec |-> FALSE, open |-> FALSE]}
            /\ nextId' = nextId + 1
            /\ Finish(p, "ok")
    /\ UNCHANGED <<environments, secrets, req, pid, value, out>>

\* Variant: the rows of a deleted project stay (foreign_keys off).
Cascade_None(ids, rows) == rows

\* ON DELETE CASCADE.
Cascade(ids, rows) == {r \in rows : r.pid \notin ids}

DropProject(p) ==
    /\ pc[p] = "dropProject"
    /\ LET ids == {pr.id : pr \in {x \in projects : x.slug = req[p].slug}} IN
        /\ projects' = {pr \in projects : pr.slug # req[p].slug}
        /\ environments' = Cascade(ids, environments)
        /\ secrets' = Cascade(ids, secrets)
        /\ Finish(p, IF ids = {} THEN "ErrProjectNotFound" ELSE "ok")
    /\ UNCHANGED <<nextId, req, pid, value, out>>

WithCapability(pr, q) ==
    IF q.op = "SetAllowExecute" THEN [pr EXCEPT !.exec = q.allow]
                                ELSE [pr EXCEPT !.open = q.allow]

SetAllow(p) ==
    /\ pc[p] = "setAllow"
    /\ projects' = {IF pr.slug = req[p].slug THEN WithCapability(pr, req[p]) ELSE pr :
                       pr \in projects}
    /\ Finish(p, IF \E pr \in projects : pr.slug = req[p].slug
                 THEN "ok" ELSE "ErrProjectNotFound")
    /\ UNCHANGED <<nextId, environments, secrets, req, pid, value, out>>

\* Variant: foreign keys are declared but not enforced.
ForeignKeyHolds_Off(id) == TRUE

\* A NULL project_id references nothing.
ForeignKeyHolds(id) == id = 0 \/ \E pr \in projects : pr.id = id

InsertEnvironment(p) ==
    /\ pc[p] = "insertEnv"
    /\ \/ /\ EnvironmentExists(pid[p], req[p].env)
          /\ Finish(p, "ErrDuplicate")
          /\ UNCHANGED environments
       \/ /\ ~EnvironmentExists(pid[p], req[p].env) /\ ~ForeignKeyHolds(pid[p])
          /\ Finish(p, "error")
          /\ UNCHANGED environments
       \/ /\ ~EnvironmentExists(pid[p], req[p].env) /\ ForeignKeyHolds(pid[p])
          /\ environments' = environments \cup {[pid |-> pid[p], name |-> req[p].env]}
          /\ Finish(p, "ok")
    /\ UNCHANGED <<projects, nextId, secrets, req, pid, value, out>>

\* One transaction, rolled back when the environment row is not there.
DropEnvironment(p) ==
    /\ pc[p] = "dropEnv"
    /\ IF EnvironmentExists(pid[p], req[p].env)
       THEN /\ secrets' = {r \in secrets : ~(r.pid = pid[p] /\ r.env = req[p].env)}
            /\ environments' = environments \ {[pid |-> pid[p], name |-> req[p].env]}
            /\ Finish(p, "ok")
       ELSE Finish(p, "ErrEnvironmentNotFound") /\ UNCHANGED <<environments, secrets>>
    /\ UNCHANGED <<projects, nextId, req, pid, value, out>>

-----------------------------------------------------------------------------
(***************************************************************************)
(* Secrets: SetSecretMetadata, then writeSecret, DeleteSecret, and the     *)
(* readers ResolveDetailed and ScopeEntries.                               *)
(***************************************************************************)
Definitions(p) == {r \in secrets : Addressed(p, r)}

\* Variant: a flip of sensitivity does not re-encode the value.
KeepsEncoding_Always(r, q) == TRUE

\* The value is re-encoded only when the sensitivity flips.
KeepsEncoding(r, q) == r.sensitive = q.sensitive

\* The row read is refused, or tells how the metadata will be written.
ReadRow(p) ==
    /\ pc[p] = "read"
    /\ \/ /\ Definitions(p) = {}
          /\ Finish(p, "ErrSecretNotFound")
          /\ UNCHANGED value
       \/ \E r \in Definitions(p) :
            \/ /\ Inconsistent(r)
               /\ Finish(p, "ErrInconsistentDefinition")
               /\ UNCHANGED value
            \/ /\ ~Inconsistent(r) /\ ~HintAccepted(req[p].hint, ValueOf(r))
               /\ Finish(p, "ErrInvalidMetadata")
               /\ UNCHANGED value
            \/ /\ ~Inconsistent(r) /\ HintAccepted(req[p].hint, ValueOf(r))
               /\ value' = [value EXCEPT ![p] = ValueOf(r)]
               /\ Goto(p, IF KeepsEncoding(r, req[p]) THEN "updateMeta" ELSE "update")
    /\ UNCHANGED <<tables, req, pid, out>>

WithMetadata(r, q) ==
    [r EXCEPT !.kind = q.kind, !.hint = q.hint, !.sensitive = q.sensitive]

\* kind, hint and sensitive are set; the rows matched are not counted.
UpdateMetadata(p) ==
    /\ pc[p] = "updateMeta"
    /\ secrets' = {IF Addressed(p, r) THEN WithMetadata(r, req[p]) ELSE r : r \in secrets}
    /\ Finish(p, "ok")
    /\ UNCHANGED <<projects, nextId, environments, req, pid, value, out>>

NewRow(p) == Encode(pid[p], req[p], value[p])
Overwrite(p) == {IF Addressed(p, r) THEN NewRow(p) ELSE r : r \in secrets}

UpdateRow(p) ==
    /\ pc[p] = "update"
    /\ secrets' = Overwrite(p)
    /\ IF Definitions(p) = {} THEN Goto(p, "insert") ELSE Finish(p, "ok")
    /\ UNCHANGED <<projects, nextId, environments, req, pid, value, out>>

\* Variant: one plain UNIQUE index, for which two NULLs are different.
UniqueViolation_NullsDiffer(p) ==
    Definitions(p) # {} /\ pid[p] # 0 /\ req[p].env # AllEnvs

\* The four partial unique indexes, one per scope.
UniqueViolation(p) == Definitions(p) # {}

InsertRow(p) ==
    /\ pc[p] = "insert"
    /\ \/ /\ UniqueViolation(p)
          /\ Goto(p, "conflict")
          /\ UNCHANGED secrets
       \/ /\ ~UniqueViolation(p) /\ ~ForeignKeyHolds(pid[p])
          /\ Finish(p, "error")
          /\ UNCHANGED secrets
       \/ /\ ~UniqueViolation(p) /\ ForeignKeyHolds(pid[p])
          /\ secrets' = secrets \cup {NewRow(p)}
          /\ Finish(p, "ok")
    /\ UNCHANGED <<projects, nextId, environments, req, pid, value, out>>

\* Variant: a conflict is taken for success.
UpdateAfterConflict_Skipped(p) ==
    /\ pc[p] = "conflict"
    /\ Finish(p, "ok")
    /\ UNCHANGED <<tables, req, pid, value, out>>

UpdateAfterConflict(p) ==
    /\ pc[p] = "conflict"
    /\ secrets' = Overwrite(p)
    /\ Finish(p, "ok")
    /\ UNCHANGED <<projects, nextId, environments, req, pid, value, out>>

DeleteRow(p) ==
    /\ pc[p] = "delete"
    /\ secrets' = secrets \ Definitions(p)
    /\ Finish(p, IF Definitions(p) = {} THEN "ErrSecretNotFound" ELSE "ok")
    /\ UNCHANGED <<projects, nextId, environments, req, pid, value, out>>

Selected(p) == IF req[p].op = "Resolve" THEN Effective(pid[p], req[p].env)
                                        ELSE InScope(pid[p], req[p].env)

\* One SELECT; a single unreadable row fails the whole read.
Select(p) ==
    /\ pc[p] = "select"
    /\ IF \E r \in Selected(p) : Inconsistent(r)
       THEN Finish(p, "ErrInconsistentDefinition") /\ UNCHANGED out
       ELSE /\ out' = [out EXCEPT ![p] = {Served(r) : r \in Selected(p)}]
            /\ Finish(p, "ok")
    /\ UNCHANGED <<tables, req, pid, value>>

-----------------------------------------------------------------------------
Statement(p) ==
    \/ ReadProject(p) \/ ReadEnvironment(p)
    \/ InsertProject(p) \/ DropProject(p) \/ SetAllow(p)
    \/ InsertEnvironment(p) \/ DropEnvironment(p)
    \/ ReadRow(p) \/ UpdateMetadata(p)
    \/ UpdateRow(p) \/ InsertRow(p) \/ UpdateAfterConflict(p)
    \/ DeleteRow(p) \/ Select(p)

Next == \E p \in Procs : Call(p) \/ Statement(p) \/ Fail(p) \/ Return(p)

Spec == Init /\ [][Next]_vars

-----------------------------------------------------------------------------
(***************************************************************************)
(* Correctness.                                                            *)
(***************************************************************************)

\* The shape of the tables and of a client's locals. Project ids in use or held
\* by a client lie below the AUTOINCREMENT counter, and what a reader returns is
\* always text, never a NULL column.
TypeOK ==
    /\ nextId \in Nat \ {0}
    /\ projects \subseteq Project
    /\ \A pr \in projects : pr.id \in 1..(nextId - 1)
    /\ environments \subseteq Environment
    /\ secrets \subseteq Row
    /\ pc \in [Procs -> {"idle", "done"} \cup Statements]
    /\ req \in [Procs -> Request]
    /\ pid \in [Procs -> 0..(nextId - 1)]
    /\ value \in [Procs -> Texts \cup {None}]
    /\ out \in [Procs -> SUBSET Entry]
    /\ ret \in [Procs -> Results]

\* However many clients upsert the same key at once (writeSecret: UPDATE,
\* INSERT, UPDATE again), a scope holds at most one definition of a key and a
\* slug or an id names one project.
OneDefinitionPerScope ==
    /\ \A r, s \in secrets : At(r, s.pid, s.env, s.key) => r = s
    /\ \A a, b \in projects : a.slug = b.slug \/ a.id = b.id => a = b

\* A project deleted while a write or CreateEnvironment still holds its id
\* leaves nothing behind: every row's project exists.
NoOrphanedProjectRows ==
    \A r \in secrets \cup environments : ForeignKeyHolds(r.pid)

\* Nothing but DeleteEnvironment, which no command or handler calls, can take
\* an environment away from a project's secrets.
NoEnvironmentDeletes ==
    \A p \in Procs : \A r \in Requests[p] : r.op # "DeleteEnvironment"
SecretsNameAnEnvironment ==
    \A r \in secrets :
        r.pid # 0 /\ r.env # AllEnvs => EnvironmentExists(r.pid, r.env)

\* A token or password is marked sensitive, whatever Put and SetSecretMetadata
\* calls overlap on it (normalizeMeta).
TokensAreSensitive == \A r \in secrets : r.kind = "token" => r.sensitive

\* For every project and environment, ResolveDetailed serves each key from the
\* first scope that defines it: project+environment, project, environment,
\* global; never from two scopes and never from another project's.
ScopesInOrder(id, env) ==
    <<<<id, env>>, <<id, AllEnvs>>, <<0, env>>, <<0, AllEnvs>>>>
DefinedIn(scope, key) == {r \in secrets : At(r, scope[1], scope[2], key)}
MostSpecificScopeWins ==
    \A id \in {pr.id : pr \in projects} \cup {0}, env \in Envs \cup {AllEnvs}, key \in Keys :
        LET scopes == ScopesInOrder(id, env)
            won    == {r \in Effective(id, env) : r.key = key} IN
        \/ /\ won = {}
           /\ \A i \in 1..4 : DefinedIn(scopes[i], key) = {}
        \/ \E i \in 1..4 :
              /\ won = DefinedIn(scopes[i], key) /\ Cardinality(won) = 1
              /\ \A j \in 1..(i - 1) : DefinedIn(scopes[j], key) = {}

\* The rows a step adds, changes or removes.
Touched == (secrets \ secrets') \cup (secrets' \ secrets)
               \cup (environments \ environments') \cup (environments' \ environments)

\* A row of the project that p named, or a shared row if it named none.
OfNamedProject(p, r) ==
    IF r.pid = 0 THEN req[p].slug = Shared
    ELSE \E pr \in projects : pr.id = r.pid /\ pr.slug = req[p].slug

\* An operation that resolved a project before it was deleted, and perhaps
\* created again, never touches a row of another project: every row it touches
\* belongs to the project that has the slug it was asked for, or is shared.
OnlyTheNamedProject ==
    [][\A p \in Procs : pc'[p] # pc[p] =>
         \A r \in Touched : OfNamedProject(p, r)]_vars

\* When PutSecretMeta reports success its own row is the scope's definition at
\* that moment, not that of the client it lost the INSERT to; the scope can be
\* empty only if that definition was deleted in between.
PutStoresItsRow ==
    [][\A p \in Procs :
         req[p].op = "Put" /\ pc[p] \in Statements /\ pc'[p] = "done" /\ ret'[p] = "ok" =>
            \/ Definitions(p)' = {NewRow(p)}
            \/ pc[p] = "conflict" /\ Definitions(p)' = {}]_vars

\* Two requests that may write the same definition.
Interferes(q, r) ==
    /\ q.slug = r.slug /\ q.env = r.env
    /\ \/ q.op \in {"Put", "SetMetadata", "DeleteSecret"} /\ q.key = r.key
       \/ q.op = "DeleteEnvironment"

\* No client writes a definition while another edits its metadata: the
\* condition under which SetSecretMetadata, which reads a row in one statement
\* and writes it in a later one, is safe.
EditsAlone ==
    \A p, o \in Procs : p # o =>
        \A r \in Requests[p], q \in Requests[o] : r.op = "SetMetadata" => ~Interferes(q, r)

\* A stored sensitive value is a ciphertext with no cleartext beside it, a
\* non-sensitive one is cleartext with no ciphertext.
SensitiveHoldsCiphertext ==
    \A r \in secrets : IF r.sensitive THEN r.enc # None /\ r.plain = None
                                      ELSE r.enc = None /\ r.plain # None

\* No stored hint contains the value it is stored beside (validateHint).
HintHidesValue == \A r \in secrets : r.hint # None => r.hint # ValueOf(r)

\* SetSecretMetadata updates only the metadata of an existing definition: it
\* neither changes a value nor adds or removes a definition.
Contents == {[pid |-> r.pid, env |-> r.env, key |-> r.key, value |-> ValueOf(r)] : r \in secrets}
MetadataEditKeepsContents ==
    [][\A p \in Procs :
         req[p].op = "SetMetadata" /\ pc[p] \in Statements /\ pc'[p] # pc[p] =>
            Contents' = Contents]_vars

-----------------------------------------------------------------------------
(***************************************************************************)
(* The inductive invariants of the proofs.                                 *)
(***************************************************************************)
Unscoped == {"insertProject", "dropProject", "setAllow", "project"}
Writing == {"update", "insert", "conflict"}
OnDefinition == Writing \cup {"read", "updateMeta", "delete"}

\* What a client knows at each statement: its request passed validation and is
\* one it may make, it holds a project id exactly when it named a project, and
\* as long as that project exists it has the slug that was named.
LocalInv(p) ==
    /\ pc[p] \in Statements =>
        /\ req[p] \in Requests[p] /\ Accepted(req[p])
        /\ req[p].op = "Put" => value[p] = req[p].value
    /\ pc[p] = "idle" => pid[p] = 0
    /\ pc[p] \in Unscoped => req[p].slug \in Slugs
    /\ pc[p] = "project" => req[p].op \notin ProjectOps
    /\ pc[p] \in Unscoped \ {"project"} => req[p].op \in ProjectOps
    /\ pc[p] = "environment" => req[p].op \in ScopeOps
    /\ pc[p] \in Statements \ Unscoped => (pid[p] = 0 <=> req[p].slug = Shared)
    /\ pc[p] \in {"insertEnv", "dropEnv", "environment"} => req[p].env \in Envs
    /\ pc[p] \in {"insertEnv", "dropEnv", "environment"} => pid[p] # 0
    /\ pc[p] \in OnDefinition => req[p].key \in Keys /\ req[p].op \in ScopeOps
    /\ pc[p] \in {"read", "updateMeta"} => req[p].op = "SetMetadata"
    /\ pc[p] = "delete" => req[p].op = "DeleteSecret"
    /\ pc[p] = "dropEnv" => req[p].op = "DeleteEnvironment"
    /\ pc[p] \in Statements \ (Writing \cup {"project", "environment"}) => req[p].op # "Put"
    /\ pc[p] \in Writing => req[p].op \in {"Put", "SetMetadata"} /\ value[p] \in Texts
    /\ \A pr \in projects : pr.id = pid[p] => pr.slug = req[p].slug

CoreInv ==
    /\ TypeOK
    /\ OneDefinitionPerScope
    /\ NoOrphanedProjectRows
    /\ TokensAreSensitive
    /\ \A p \in Procs : LocalInv(p)

\* What a metadata edit read is still what its definition holds.
EditInv(p) ==
    /\ pc[p] = "updateMeta" =>
        \A r \in Definitions(p) : /\ r.sensitive = req[p].sensitive
                                  /\ HintAccepted(req[p].hint, ValueOf(r))
    /\ pc[p] \in Writing => HintAccepted(req[p].hint, value[p])
    /\ pc[p] \in Writing /\ req[p].op = "SetMetadata" /\ ForeignKeyHolds(pid[p]) =>
        \E r \in Definitions(p) : ValueOf(r) = value[p]

SafeEditInv ==
    /\ SensitiveHoldsCiphertext
    /\ HintHidesValue
    /\ \A p \in Procs : EditInv(p)
=============================================================================
