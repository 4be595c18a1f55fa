---------------------------- MODULE MCVaultStore ----------------------------
(***************************************************************************)
(* VaultStore for TLC: what each client asks for, per run.                 *)
(***************************************************************************)
EXTENDS VaultRefinement

CONSTANTS ui, tab,        \* clients
          a, b,           \* slugs
          staging,        \* environment
          k,              \* key
          v, w            \* values

Ask(op, slug, env) ==
    [NoRequest EXCEPT !.op = op, !.slug = slug, !.env = env,
                      !.key = IF op \in ScopeOps \ {"Resolve", "ScopeEntries"} THEN k ELSE None]
Put(slug, env, val, sens, kind, hint) ==
    [Ask("Put", slug, env) EXCEPT !.value = val, !.sensitive = sens,
                                  !.kind = kind, !.hint = hint]
Edit(slug, env, sens, kind, hint) ==
    [Ask("SetMetadata", slug, env) EXCEPT !.sensitive = sens, !.kind = kind, !.hint = hint]
Allow(op, slug, allow) == [Ask(op, slug, AllEnvs) EXCEPT !.allow = allow]

\* Two clients overlap on the definitions of one project and one shared scope;
\* projects are deleted and created again, under the same slug or another.
CoreRequests == [p \in Procs |->
    CASE p = ui ->
            {Ask("CreateProject", a, AllEnvs), Ask("DeleteProject", a, AllEnvs),
             Ask("CreateProject", b, AllEnvs), Ask("CreateEnvironment", a, staging),
             Put(a, staging, v, TRUE, "token", None),
             Put(a, AllEnvs, v, FALSE, "text", None),
             Put(Shared, staging, w, TRUE, "text", v), Ask("Resolve", a, staging)}
      [] OTHER ->
            {Put(a, staging, w, FALSE, "token", None),
             Put(a, AllEnvs, w, FALSE, "text", None),
             Put(Shared, AllEnvs, v, TRUE, "token", None),
             Edit(a, staging, FALSE, "text", None),
             Ask("DeleteSecret", a, staging), Ask("DeleteSecret", Shared, AllEnvs)}]

\* One client edits the metadata of its own definitions; the other writes other
\* scopes, deletes and recreates the project and toggles its capabilities.
EditRequests == [p \in Procs |->
    IF p = ui
    THEN {Put(a, AllEnvs, v, TRUE, "text", None), Put(a, AllEnvs, w, FALSE, "text", v),
          Edit(a, AllEnvs, TRUE, "token", v), Edit(a, AllEnvs, TRUE, "text", None),
          Edit(a, AllEnvs, FALSE, "text", w), Edit(a, AllEnvs, FALSE, "text", None),
          Ask("DeleteSecret", a, AllEnvs), Ask("Resolve", a, AllEnvs),
          Put(Shared, AllEnvs, v, TRUE, "text", None)}
    ELSE {Ask("CreateProject", a, AllEnvs), Ask("DeleteProject", a, AllEnvs),
          Allow("SetAllowOpen", a, TRUE),
          Ask("CreateEnvironment", a, staging), Ask("DeleteEnvironment", a, staging),
          Put(a, staging, v, TRUE, "token", None), Put(Shared, AllEnvs, Empty, FALSE, "text", w),
          Ask("DeleteSecret", Shared, AllEnvs),
          Ask("ScopeEntries", a, AllEnvs)}]

\* A tab edits the metadata of the definition another tab writes.
RaceRequests == [p \in Procs |->
    IF p = ui THEN {Put(Shared, AllEnvs, v, TRUE, "text", None),
                    Put(Shared, AllEnvs, w, FALSE, "text", None)}
    ELSE {Edit(Shared, AllEnvs, TRUE, "text", None)}]
=============================================================================
