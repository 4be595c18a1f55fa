------------------------------- MODULE Backup -------------------------------
(***************************************************************************)
(* Export and Import (src/pkg/backup/backup.go) over a vault that another  *)
(* client goes on using.  Both are programs of store calls, without a      *)
(* transaction around them; a call is one step of VaultData, which         *)
(* VaultStore is shown to implement.  Any call may fail and ends the       *)
(* program where it is.                                                    *)
(*                                                                         *)
(* A backup names projects by their slugs.  Sealing it with a passphrase   *)
(* is left out: Import opens it before its first call.                     *)
(***************************************************************************)
EXTENDS Readers

CONSTANTS Writes,       \* what the other client may ask for
          MaxJobs,      \* bound: exports and imports started
          MaxMeanwhile  \* bound: the other client's writes while one runs

ASSUME BackupAssumption ==
    /\ MaxJobs \in Nat /\ MaxMeanwhile \in Nat
    /\ \A q \in Writes : WellNamed(q)

VARIABLES job,          \* "none", "export" or "import"
          plan,         \* its calls: a sequence of sets, each made in any order
          draft,        \* what Export has collected
          file,         \* the last backup made; None before the first
          last,         \* how the last job ended, until the vault changes
          jobs,         \* jobs started
          mine          \* the projects Import has created

program == <<job, plan, bound, draft, file, last, jobs, mine>>
vars == <<vault, program, history>>

-----------------------------------------------------------------------------
(***************************************************************************)
(* What a backup holds.                                                    *)
(***************************************************************************)

\* Variant: hints are forgotten.
MetaOf_NoHint(d) ==
    IF d.sensitive /\ d.kind = "text" THEN None
    ELSE [sensitive |-> d.sensitive, kind |-> d.kind, hint |-> d.hint]

\* Metadata is recorded only where it differs from the default.
MetaOf(d) ==
    IF d.sensitive /\ d.kind = "text" /\ d.hint = None THEN None
    ELSE [sensitive |-> d.sensitive, kind |-> d.kind, hint |-> d.hint]

\* What is not recorded is sensitive, a text, without a hint.
SecretMeta(m) ==
    IF m = None THEN [sensitive |-> TRUE, kind |-> "text", hint |-> None] ELSE m

\* The definitions of a scope, as they are written to a backup.
SplitEntries(slug, env, ds) ==
    {[slug |-> slug, env |-> env, key |-> d.key, value |-> d.value, meta |-> MetaOf(d)] : d \in ds}

\* What a backup says the vault held.
Meaning(f) ==
    [f EXCEPT !.definitions =
        {LET m == SecretMeta(d.meta)
         IN  [slug |-> d.slug, env |-> d.env, key |-> d.key, value |-> d.value,
              sensitive |-> m.sensitive, kind |-> m.kind, hint |-> m.hint] : d \in @}]

-----------------------------------------------------------------------------
ProgramInit ==
    /\ job = "none" /\ plan = <<>> /\ bound = 0
    /\ draft = Empties /\ file = None /\ last = "none" /\ jobs = 0 /\ mine = {}
    /\ meanwhile = 0 /\ seen = Empties /\ always = Empties
Init == VaultInit /\ ProgramInit

\* While a job runs every step adds what the vault holds after it to the history.
Observe(writes) ==
    IF job' = "none" /\ last' \in {"none", "failed"}
    THEN meanwhile' = 0 /\ seen' = Empties /\ always' = Empties
    ELSE /\ meanwhile' = meanwhile + writes
         /\ seen' = Joined(seen, View')
         /\ always' = Common(always, View')

Starts(j, calls) ==
    /\ job = "none" /\ jobs < MaxJobs
    /\ job' = j /\ jobs' = jobs + 1 /\ plan' = calls
    /\ bound' = 0 /\ mine' = {} /\ last' = "none"
    /\ meanwhile' = 0 /\ seen' = View /\ always' = View
    /\ UNCHANGED vault

\* What a job has collected or created is its own, and gone with it.
Ended(how) ==
    /\ job' = "none" /\ plan' = <<>> /\ last' = how /\ bound' = 0
    /\ draft' = Empties /\ mine' = {}

\* The call c has been made; it may have brought more calls about.
Rest(c) == IF Head(plan) = {c} THEN Tail(plan) ELSE <<Head(plan) \ {c}>> \o Tail(plan)
Proceeds(calls, how, collected, created) ==
    IF calls = <<>> THEN Ended(how)
    ELSE /\ job' = job /\ plan' = calls /\ last' = last /\ bound' = 0
         /\ draft' = collected /\ mine' = created

Fail ==
    /\ job # "none"
    /\ Ended("failed")
    /\ UNCHANGED <<vault, file, jobs>>
    /\ Observe(0)

-----------------------------------------------------------------------------
(***************************************************************************)
(* Export: ListProjects, and for each its project scope, its environments  *)
(* and their scopes; then the shared scopes.                               *)
(***************************************************************************)
ReadScope(slug, env) == [read |-> "scope", slug |-> slug, env |-> env]
ReadEnvs(slug) == [read |-> "environments", slug |-> slug, env |-> AllEnvs]

Single(c) == <<{c}>>

Export ==
    /\ Starts("export",
              Calls(projects, [pr \in projects |->
                                  <<{ReadScope(pr.slug, AllEnvs)}, {ReadEnvs(pr.slug)}>>])
                  \o <<{ReadScope(Shared, AllEnvs)}, {ReadEnvs(Shared)}>>)
    /\ draft' = [Empties EXCEPT !.projects = View.projects]
    /\ UNCHANGED file

\* A read of a project looks up its slug first.
Lookup ==
    /\ job = "export" /\ bound = 0
    /\ \E c \in Head(plan), pr \in projects :
        /\ c.slug = pr.slug
        /\ bound' = pr.id
    /\ UNCHANGED <<vault, history, job, plan, draft, file, last, jobs, mine>>

LookedUp(c) == c.slug = Shared <=> bound = 0

Read(c, found, calls) ==
    /\ Proceeds(calls \o Rest(c), "exported", Joined(draft, found), mine)
    /\ file' = IF calls \o Rest(c) = <<>> THEN Joined(draft, found) ELSE file
    /\ UNCHANGED <<vault, history, jobs>>

ReadDefinitions ==
    /\ job = "export"
    /\ \E c \in Head(plan) :
        /\ c.read = "scope" /\ LookedUp(c)
        /\ Read(c, [Empties EXCEPT !.definitions =
                        SplitEntries(c.slug, c.env, InScope(bound, c.env))], <<>>)

ReadEnvironments ==
    /\ job = "export"
    /\ \E c \in Head(plan) :
        /\ c.read = "environments" /\ LookedUp(c)
        /\ LET names == IF c.slug = Shared THEN SharedEnvironments
                        ELSE EnvironmentsOf(bound)
           IN  Read(c,
                    [Empties EXCEPT !.environments =
                        IF c.slug = Shared THEN {} ELSE {[slug |-> c.slug, name |-> n] : n \in names}],
                    Calls(names, [n \in names |-> <<{ReadScope(c.slug, n)}>>]))

-----------------------------------------------------------------------------
(***************************************************************************)
(* Import: no project of the backup may exist; then each is created and    *)
(* filled, and the shared definitions are written over those there are.    *)
(***************************************************************************)
PutOf(d) ==
    LET m == SecretMeta(d.meta)
    IN  [op |-> "Put", slug |-> d.slug, env |-> d.env, key |-> d.key, value |-> d.value,
         sensitive |-> m.sensitive, kind |-> m.kind, hint |-> m.hint, allow |-> FALSE]

\* The writes of one scope are made in the order of a map.
Filed(slug, env) == {d \in file.definitions : d.slug = slug /\ d.env = env}
Puts(slug, env) ==
    IF Filed(slug, env) = {} THEN <<>> ELSE <<{PutOf(d) : d \in Filed(slug, env)}>>

Names(slug) == {e.name : e \in {x \in file.environments : x.slug = slug}}

\* Variant: an environment without definitions is not created.
EnvironmentCalls_NotEmpty(slug, n) ==
    IF Puts(slug, n) = <<>> THEN <<>>
    ELSE <<{Ask("CreateEnvironment", slug, n)}>> \o Puts(slug, n)

EnvironmentCalls(slug, n) == <<{Ask("CreateEnvironment", slug, n)}>> \o Puts(slug, n)

ProjectCalls(p) ==
    <<{Ask("CreateProject", p.slug, AllEnvs)},
      {Allow("SetAllowExecute", p.slug, p.exec)},
      {Allow("SetAllowOpen", p.slug, p.open)}>>
    \o Puts(p.slug, AllEnvs)
    \o Calls(Names(p.slug), [n \in Names(p.slug) |-> EnvironmentCalls(p.slug, n)])

SharedNames == {d.env : d \in {x \in file.definitions : x.slug = Shared}} \ {AllEnvs}

ImportCalls ==
    Calls(file.projects, [p \in file.projects |-> <<{Ask("GetProject", p.slug, AllEnvs)}>>])
        \o Calls(file.projects, [p \in file.projects |-> ProjectCalls(p)])
        \o Puts(Shared, AllEnvs)
        \o Calls(SharedNames, [n \in SharedNames |-> Puts(Shared, n)])

Import ==
    /\ file # None /\ ImportCalls # <<>>
    /\ Starts("import", ImportCalls)
    /\ draft' = Empties
    /\ UNCHANGED file

CheckAbsent ==
    /\ job = "import"
    /\ \E q \in Head(plan) :
        /\ q.op = "GetProject"
        /\ IF Named(q.slug) = {} THEN Proceeds(Rest(q), "imported", draft, mine)
           ELSE Ended("failed")
    /\ UNCHANGED <<vault, file, jobs>>
    /\ Observe(0)

\* Variant: a project that exists by now is filled all the same.
Stops_NotOnDuplicates(q, r) == r # "ok" /\ ~(q.op = "CreateProject" /\ r = "ErrDuplicate")

\* Every error of the store stops the import.
Stops(q, r) == r # "ok"

ImportCall ==
    /\ job = "import"
    /\ \E q \in Head(plan), id \in 0..MaxProjects, r \in Results :
        /\ q.op # "GetProject" /\ Accepted(q) /\ Binds(q, id)
        /\ Ends(q, id, r)
        /\ IF Stops(q, r) THEN Ended("failed") ELSE Proceeds(Rest(q), "imported", draft,
                                                            mine \cup (nextId..(nextId' - 1)))
    /\ UNCHANGED <<file, jobs>>
    /\ Observe(0)

-----------------------------------------------------------------------------
\* The other client's operations.
Write ==
    /\ job # "none" => meanwhile < MaxMeanwhile
    /\ \E q \in Writes, id \in 0..MaxProjects :
        Accepted(q) /\ Binds(q, id) /\ TakesEffect(q, id)
    /\ last' = "none"
    /\ UNCHANGED <<job, plan, bound, draft, file, jobs, mine>>
    /\ Observe(1)

\* The backup is taken to another machine, with an empty vault.
NewVault ==
    /\ job = "none" /\ file # None
    /\ projects' = {} /\ nextId' = 1 /\ environments' = {} /\ definitions' = {}
    /\ last' = "none"
    /\ UNCHANGED <<job, plan, bound, draft, file, jobs, mine>>
    /\ Observe(1)

Next ==
    \/ Export \/ Lookup \/ ReadDefinitions \/ ReadEnvironments
    \/ Import \/ CheckAbsent \/ ImportCall
    \/ Fail \/ Write \/ NewVault

Spec == Init /\ [][Next]_vars

-----------------------------------------------------------------------------
(***************************************************************************)
(* Correctness.                                                            *)
(***************************************************************************)

\* A backup invents nothing and misses nothing that stayed: everything in it was
\* in the vault at some moment of the export, and everything that was there all
\* the time is in it, metadata, switches and environments without definitions
\* included. Without other writers it is the vault.
ExportRegular ==
    last = "exported" =>
        Within(Meaning(file), seen) /\ Within(always, Meaning(file))

\* When Import reports success, after whatever failed attempts and into whatever
\* vault, the projects of the backup are as they were, no more and no less, and
\* so is every shared definition of it, unless another client wrote meanwhile.
OfProject(f, slug) == [x \in DOMAIN f |-> {y \in f[x] : y.slug = slug}]
ImportRestores ==
    last = "imported" /\ meanwhile = 0 =>
        /\ \A p \in file.projects : OfProject(View, p.slug) = OfProject(Meaning(file), p.slug)
        /\ Within(OfProject(Meaning(file), Shared), OfProject(View, Shared))

\* An import changes no project it has not created itself, not even one that
\* came into being after it had looked; unless one it created is deleted under
\* it and created again by another client, which its slug then names.
OfId(id) ==
    <<{pr \in projects : pr.id = id}, {e \in environments : e.pid = id},
      {d \in definitions : d.pid = id}>>
ImportSparesOthers ==
    [][job = "import" /\ (plan' # plan \/ job' # job) /\ (\A id \in mine : ~Gone(id)) =>
         \A id \in 1..(nextId - 1) \ mine : OfId(id)' = OfId(id)]_vars
=============================================================================
