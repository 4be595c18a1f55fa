----------------------------- MODULE VaultData -----------------------------
(***************************************************************************)
(* What the vault promises: projects, environments and definitions, and    *)
(* the operations of Store (src/pkg/db/store.go) as if each were one       *)
(* atomic step.  There are no statements, columns or encodings here: a     *)
(* definition has a value, whether it is stored encrypted or not.          *)
(*                                                                         *)
(* An operation is bound to a project when it looks up the slug it was     *)
(* given, and takes effect later, on that project: one deleted in between  *)
(* is gone for it, also when its slug has been taken again.                *)
(***************************************************************************)
EXTENDS Naturals, FiniteSets

CONSTANTS Slugs,        \* project slugs
          Envs,         \* environment names
          Keys,         \* secret keys
          Values,       \* secret values that are not empty
          Shared,       \* the empty project selector: the shared scopes
          AllEnvs,      \* the empty environment selector
          Empty,        \* the empty string
          None,         \* an unused field
          MaxProjects   \* bound: projects ever created

ScopeOps == {"Put", "SetMetadata", "DeleteSecret", "Resolve", "ScopeEntries"}
ProjectOps == {"CreateProject", "DeleteProject", "SetAllowExecute", "SetAllowOpen"}

VARIABLES projects,     \* [id, slug, exec, open]
          nextId,       \* the identity of the next project
          environments, \* [pid, name]
          definitions   \* [pid, env, key, value, sensitive, kind, hint]; pid 0 is shared

vault == <<projects, nextId, environments, definitions>>

VaultInit == projects = {} /\ nextId = 1 /\ environments = {} /\ definitions = {}

-----------------------------------------------------------------------------
Named(slug) == {pr \in projects : pr.slug = slug}
HasEnvironment(id, name) == [pid |-> id, name |-> name] \in environments

\* The project an operation was bound to has been deleted.
Gone(id) == id # 0 /\ \A pr \in projects : pr.id # id

\* The definitions of one scope, and of the key an operation names in it.
InScope(id, env) == {d \in definitions : d.pid = id /\ d.env = env}
Addressed(q, id) == {d \in InScope(id, q.env) : d.key = q.key}

\* A token or password is sensitive, and a hint does not give its value away.
MetaAccepted(q) == q.kind = "token" => q.sensitive
HintAccepted(q, v) == q.hint # None => q.hint # v
Accepted(q) ==
    /\ q.op \in {"Put", "SetMetadata"} => MetaAccepted(q)
    /\ q.op = "Put" => HintAccepted(q, q.value)

\* An operation is bound to the project that has its slug; project operations,
\* which look it up themselves, and those on a shared scope to none.
Binds(q, id) ==
    IF q.slug = Shared \/ q.op \in ProjectOps THEN id = 0
    ELSE \E pr \in Named(q.slug) : pr.id = id

\* The reasons to refuse an operation.
Refused(q, id, r) ==
    \/ /\ r = "ErrDuplicate"
       /\ \/ q.op = "CreateProject" /\ Named(q.slug) # {}
          \/ q.op = "CreateEnvironment" /\ HasEnvironment(id, q.env)
    \/ /\ r = "ErrProjectNotFound"
       /\ q.op \in ProjectOps \ {"CreateProject"} /\ Named(q.slug) = {}
    \/ /\ r = "ErrEnvironmentNotFound"
       /\ q.op \in ScopeOps \cup {"DeleteEnvironment"}
       /\ id # 0 /\ q.env # AllEnvs /\ ~HasEnvironment(id, q.env)
    \/ /\ r = "ErrSecretNotFound"
       /\ q.op \in {"SetMetadata", "DeleteSecret"} /\ Addressed(q, id) = {}
    \/ /\ r = "ErrInvalidMetadata"
       /\ q.op = "SetMetadata" /\ \E d \in Addressed(q, id) : ~HintAccepted(q, d.value)

Refusals == {"ErrDuplicate", "ErrProjectNotFound", "ErrEnvironmentNotFound",
             "ErrSecretNotFound", "ErrInvalidMetadata"}

\* Any operation may fail, and then has no effect.
Results == Refusals \cup {"ok", "error"}

-----------------------------------------------------------------------------
(***************************************************************************)
(* The effects.                                                            *)
(***************************************************************************)
CreateProject(q) ==
    /\ nextId <= MaxProjects
    /\ projects' = projects \cup
            {[id |-> nextId, slug |-> q.slug, exec |-> FALSE, open |-> FALSE]}
    /\ nextId' = nextId + 1
    /\ UNCHANGED <<environments, definitions>>

\* A project takes its environments and definitions with it.
DeleteProject(q) ==
    LET ids == {pr.id : pr \in Named(q.slug)} IN
    /\ projects' = projects \ Named(q.slug)
    /\ environments' = {e \in environments : e.pid \notin ids}
    /\ definitions' = {d \in definitions : d.pid \notin ids}
    /\ UNCHANGED nextId

WithCapability(pr, q) ==
    IF q.op = "SetAllowExecute" THEN [pr EXCEPT !.exec = q.allow]
                                ELSE [pr EXCEPT !.open = q.allow]
SetAllow(q) ==
    /\ projects' = (projects \ Named(q.slug)) \cup
                        {WithCapability(pr, q) : pr \in Named(q.slug)}
    /\ UNCHANGED <<nextId, environments, definitions>>

CreateEnvironment(q, id) ==
    /\ environments' = environments \cup {[pid |-> id, name |-> q.env]}
    /\ UNCHANGED <<projects, nextId, definitions>>

DeleteEnvironment(q, id) ==
    /\ environments' = environments \ {[pid |-> id, name |-> q.env]}
    /\ definitions' = definitions \ InScope(id, q.env)
    /\ UNCHANGED <<projects, nextId>>

Definition(q, id, v) ==
    [pid |-> id, env |-> q.env, key |-> q.key, value |-> v,
     sensitive |-> q.sensitive, kind |-> q.kind, hint |-> q.hint]

\* The scope's definition of the key becomes d.
Define(q, id, d) ==
    /\ definitions' = (definitions \ Addressed(q, id)) \cup d
    /\ UNCHANGED <<projects, nextId, environments>>

\* What an operation that is not refused does.
Apply(q, id) ==
    \/ q.op = "CreateProject" /\ CreateProject(q)
    \/ q.op = "DeleteProject" /\ DeleteProject(q)
    \/ q.op \in {"SetAllowExecute", "SetAllowOpen"} /\ SetAllow(q)
    \/ q.op = "CreateEnvironment" /\ CreateEnvironment(q, id)
    \/ q.op = "DeleteEnvironment" /\ DeleteEnvironment(q, id)
    \/ q.op = "Put" /\ Define(q, id, {Definition(q, id, q.value)})
    \/ /\ q.op = "SetMetadata"
       /\ Define(q, id, {Definition(q, id, d.value) : d \in Addressed(q, id)})
    \/ q.op = "DeleteSecret" /\ Define(q, id, {})
    \/ q.op \in {"Resolve", "ScopeEntries"} /\ UNCHANGED vault

\* A bound operation takes effect, whole; if its project is gone, a read finds
\* nothing in it and an edit of metadata nothing to edit.
TakesEffect(q, id) ==
    /\ \A r \in Refusals : ~Refused(q, id, r)
    /\ ~Gone(id)
    /\ Apply(q, id)
FindsNothing(q, id) ==
    /\ Gone(id)
    /\ q.op \in {"SetMetadata", "Resolve", "ScopeEntries"}
    /\ UNCHANGED vault

\* The operation q, bound to project id, ends with result r.
Ends(q, id, r) ==
    \/ r = "ok" /\ (TakesEffect(q, id) \/ FindsNothing(q, id))
    \/ (r = "error" \/ Refused(q, id, r)) /\ UNCHANGED vault

-----------------------------------------------------------------------------
(***************************************************************************)
(* What the readers answer.                                                *)
(***************************************************************************)
Entry(d) == [key |-> d.key, value |-> d.value, sensitive |-> d.sensitive,
             kind |-> d.kind, hint |-> d.hint]

\* The scopes that apply to a project and environment, the first to win.
ScopesInOrder(id, env) ==
    <<InScope(id, env), InScope(id, AllEnvs), InScope(0, env), InScope(0, AllEnvs)>>

Resolved(id, env) ==
    LET scopes == ScopesInOrder(id, env)
    IN  UNION {{d \in scopes[i] : \A j \in 1..(i - 1) :
                    \A e \in scopes[j] : e.key # d.key} : i \in 1..4}

Answer(q, id) ==
    CASE q.op = "Resolve" -> {Entry(d) : d \in Resolved(id, q.env)}
      [] q.op = "ScopeEntries" -> {Entry(d) : d \in InScope(id, q.env)}
      [] OTHER -> {}

-----------------------------------------------------------------------------
(***************************************************************************)
(* The vault by the names its clients use.                                 *)
(***************************************************************************)
SlugOf(id) == IF id = 0 THEN Shared ELSE (CHOOSE pr \in projects : pr.id = id).slug
View ==
    [projects |-> {[slug |-> pr.slug, exec |-> pr.exec, open |-> pr.open] : pr \in projects},
     environments |-> {[slug |-> SlugOf(e.pid), name |-> e.name] : e \in environments},
     definitions |-> {[slug |-> SlugOf(d.pid), env |-> d.env, key |-> d.key, value |-> d.value,
                       sensitive |-> d.sensitive, kind |-> d.kind, hint |-> d.hint] :
                          d \in definitions}]

Empties == [projects |-> {}, environments |-> {}, definitions |-> {}]
Joined(f, g) == [x \in DOMAIN f |-> f[x] \cup g[x]]
Common(f, g) == [x \in DOMAIN f |-> f[x] \cap g[x]]
Within(f, g) == \A x \in DOMAIN f : f[x] \subseteq g[x]

\* The names that projects or shared definitions use, and those of a project.
SharedEnvironments ==
    {e.name : e \in environments} \cup
    {d.env : d \in {x \in definitions : x.pid = 0 /\ x.env # AllEnvs}}

\* Variant: the names that could be used.
EnvironmentsOf_Shared(id) == SharedEnvironments

EnvironmentsOf(id) == {e.name : e \in {x \in environments : x.pid = id}}
=============================================================================
