----------------------------- MODULE MCReaders -----------------------------
(***************************************************************************)
(* Backup and StateView for TLC: the two programs that read the whole      *)
(* vault call by call.  A behaviour has exports and imports, or one page   *)
(* of the web server; others write in both.                                *)
(***************************************************************************)
EXTENDS Backup, StateView

CONSTANTS a, b,          \* slugs
          staging, live, \* environments
          k, v, w,       \* key and values
          MaxCopied      \* bound: projects ever created in a vault that is copied

VARIABLE who             \* the program of the behaviour

Put(slug, env, sens, kind, hint) ==
    [Ask("Put", slug, env) EXCEPT !.key = k, !.value = v, !.sensitive = sens,
                                  !.kind = kind, !.hint = hint]

\* A project that may have an environment with a definition, one that stays
\* empty, and a shared definition in an environment no project need have.
VaultWrites ==
    {Ask("CreateProject", a, AllEnvs), Ask("CreateProject", b, AllEnvs),
     Ask("DeleteProject", a, AllEnvs), Allow("SetAllowOpen", a, TRUE),
     Ask("CreateEnvironment", a, staging), Put(a, staging, FALSE, "text", None),
     Put(Shared, staging, TRUE, "text", w),
     [Ask("DeleteSecret", Shared, staging) EXCEPT !.key = k]}

-----------------------------------------------------------------------------
\* While a page is read, the project is deleted and created again with or
\* without its environment, a shared definition goes, another becomes sensitive.
ViewEdits ==
    {Ask("DeleteProject", a, AllEnvs), Ask("CreateProject", a, AllEnvs),
     Ask("CreateEnvironment", a, staging),
     [Put(a, staging, TRUE, "text", None) EXCEPT !.value = w],
     [Ask("DeleteSecret", Shared, staging) EXCEPT !.key = k]}

\* A vault with a definition of the key in every scope of a project but one at
\* most, and in an environment that only the shared scope knows; the other
\* project is empty.
Scopes == {<<0, AllEnvs>>, <<0, staging>>, <<0, live>>, <<1, AllEnvs>>, <<1, staging>>}
Stored(scopes, open) ==
    {[pid |-> s[1], env |-> s[2], key |-> k, value |-> v, sensitive |-> s \notin open,
      kind |-> "text", hint |-> None] : s \in scopes}

FilledVault ==
    /\ projects = {[id |-> 1, slug |-> a, exec |-> FALSE, open |-> TRUE],
                   [id |-> 2, slug |-> b, exec |-> FALSE, open |-> FALSE]}
    /\ nextId = 3
    /\ environments = {[pid |-> 1, name |-> staging]}
    /\ \E open \in {{}, {<<1, staging>>}, Scopes}, scopes \in SUBSET Scopes :
          /\ Cardinality(Scopes \ scopes) <= 1
          /\ definitions = Stored(scopes, open)

-----------------------------------------------------------------------------
own_program == <<job, plan, draft, file, last, jobs, mine>>
own_view == <<answer, todo, checked, infos, page, listed>>

ReadersInit ==
    /\ \/ who = "backup" /\ VaultInit
       \/ who = "web" /\ FilledVault /\ VaultInv
    /\ ProgramInit /\ ViewInit

\* With who = "backup" the steps are those of Spec, with who = "web" of ViewSpec.
ReadersNext ==
    /\ \/ who = "backup" /\ Next /\ nextId' <= MaxCopied + 1 /\ UNCHANGED own_view
       \/ who = "web" /\ ViewNext /\ UNCHANGED own_program
    /\ UNCHANGED who

ReadersSpec == ReadersInit /\ [][ReadersNext]_<<vars, view_vars, who>>
=============================================================================
