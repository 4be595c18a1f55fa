------------------------------ MODULE Readers ------------------------------
(***************************************************************************)
(* What the two programs that read the whole vault have in common, Export  *)
(* of src/pkg/backup/backup.go and handleState of src/pkg/web/server.go:   *)
(* they make one call of the store after the other, a project is looked up *)
(* before it is read, and others use the vault in between.                 *)
(***************************************************************************)
EXTENDS VaultData, Sequences, SequencesExt

Metadata == [sensitive : BOOLEAN, kind : {"text", "token"}, hint : Values \cup {None}]

\* What the store checks of a request before anything else: a project or
\* environment operation names one.
WellNamed(q) ==
    /\ q.slug \in Slugs \cup {Shared} /\ q.env \in Envs \cup {AllEnvs}
    /\ q.op \in ProjectOps \cup {"CreateEnvironment", "DeleteEnvironment"} => q.slug \in Slugs
    /\ q.op \in {"CreateEnvironment", "DeleteEnvironment"} => q.env \in Envs
    /\ q.allow \in BOOLEAN
    /\ [sensitive |-> q.sensitive, kind |-> q.kind, hint |-> q.hint] \in Metadata

ASSUME ReadersAssumption ==
    /\ MaxProjects \in Nat
    /\ Shared \notin Slugs /\ AllEnvs \notin Envs /\ None \notin Metadata

VARIABLES bound,        \* the project the running call has looked up, 0 before
          meanwhile,    \* the others' writes since the program began
          seen,         \* what the vault held at some time since
          always        \* what it held all the time since

history == <<meanwhile, seen, always>>

-----------------------------------------------------------------------------
\* A request, and one for a switch.
Ask(op, slug, env) ==
    [op |-> op, slug |-> slug, env |-> env, key |-> None, value |-> None,
     sensitive |-> TRUE, kind |-> "text", hint |-> None, allow |-> FALSE]
Allow(op, slug, allow) == [Ask(op, slug, AllEnvs) EXCEPT !.allow = allow]

\* The calls that f gives for each element of a set, in some order of it.
Calls(set, f) == FlattenSeq([i \in 1..Cardinality(set) |-> f[SetToSeq(set)[i]]])

-----------------------------------------------------------------------------
(***************************************************************************)
(* What the schema guarantees of a vault (baseSchemaSQL, secretsSchemaSQL):*)
(* slugs and ids are unique, rows belong to projects that are there, a     *)
(* scope defines a key once; and what the store adds, that definitions in  *)
(* an environment of a project have it.                                    *)
(***************************************************************************)
ProjectInv ==
    /\ projects \subseteq [id : Nat \ {0}, slug : Slugs, exec : BOOLEAN, open : BOOLEAN]
    /\ IsFiniteSet(projects)
    /\ nextId \in Nat \ {0} /\ \A pr \in projects : pr.id < nextId
    /\ \A pr, po \in projects : pr.id = po.id \/ pr.slug = po.slug => pr = po

EnvironmentInv ==
    /\ environments \subseteq [pid : Nat \ {0}, name : Envs] /\ IsFiniteSet(environments)
    /\ \A e \in environments : ~Gone(e.pid)

MetaIn(d) == [sensitive |-> d.sensitive, kind |-> d.kind, hint |-> d.hint]

DefinitionInv ==
    /\ IsFiniteSet(definitions)
    /\ \A d \in definitions :
          /\ d.pid \in Nat /\ d.env \in Envs \cup {AllEnvs} /\ MetaIn(d) \in Metadata
          /\ ~Gone(d.pid)
          /\ d.pid # 0 /\ d.env # AllEnvs => HasEnvironment(d.pid, d.env)
    /\ \A d, o \in definitions : d.pid = o.pid /\ d.env = o.env /\ d.key = o.key => d = o

VaultInv == ProjectInv /\ EnvironmentInv /\ DefinitionInv
=============================================================================
