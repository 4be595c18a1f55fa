----------------------------- MODULE StateView -----------------------------
(***************************************************************************)
(* The state view of the web server (handleState in                        *)
(* src/pkg/web/server.go): one page read in many statements, while other   *)
(* tabs and processes change the vault.  A call of the store is as many    *)
(* steps as it has statements: the project is looked up, then the          *)
(* environment, then the call's own SELECT runs with what it found.  Any   *)
(* statement may fail, and the page is then not answered.                  *)
(*                                                                         *)
(* Definitions that cannot be decrypted are not part of this model, see    *)
(* VaultStore and VaultKeys.                                               *)
(***************************************************************************)
EXTENDS Readers

CONSTANTS Edits,        \* what others may ask for while the page is read
          MaxEdits      \* bound: how often they do

VARIABLES answer,       \* "none", "reading", "page", "not found" or "error"
          todo,         \* the calls still to make
          checked,      \* the running call has looked up the environment
          infos,        \* the metadata of the scope that is being read
          page,         \* what has been collected
          listed        \* the projects of the listing the page began with

call == <<todo, bound, checked>>
view == <<answer, call, infos, page, listed>>
view_vars == <<vault, view, history>>

ViewInit ==
    /\ answer = "none" /\ todo = <<>> /\ bound = 0 /\ checked = FALSE
    /\ meanwhile = 0 /\ seen = Empties /\ always = Empties
    /\ infos = {} /\ page = [projects |-> {}, environments |-> {}, items |-> {}] /\ listed = {}

-----------------------------------------------------------------------------
(***************************************************************************)
(* The calls.                                                              *)
(***************************************************************************)
Do(want, slug, env) == [want |-> want, slug |-> slug, env |-> env]

\* What the page asks of a project and of each of its environments. The metadata
\* of a scope, once read, is followed by its values.
ProjectViews(slug) == <<Do("secrets", slug, AllEnvs), Do("environments", slug, AllEnvs)>>
EnvironmentViews(slug, env) == <<Do("secrets", slug, env), Do("effective", slug, env)>>

\* Whether the scope [id, env] defines the key is asked once for each scope
\* that the definition of key may override.
Overridden(key, id, env, scope) ==
    [want |-> "overrides", slug |-> Shared, key |-> key, id |-> id, env |-> env, scope |-> scope]

InProject(id, env) == Overridden(None, id, env, "project")
InSharedEnvironment(env) == Overridden(None, 0, env, "environment")
InGlobal == Overridden(None, 0, AllEnvs, "global")

\* The broader scopes, in order; names are the environments of the project.
BroaderDefs(slug, id, env, names) ==
    CASE slug = Shared /\ env = AllEnvs -> <<>>
      [] slug = Shared /\ env # AllEnvs -> <<InGlobal>>
      [] slug # Shared /\ env = AllEnvs ->
            Calls(names, [n \in names |-> <<InSharedEnvironment(n)>>]) \o <<InGlobal>>
      [] OTHER -> <<InProject(id, AllEnvs), InSharedEnvironment(env), InGlobal>>

\* What is asked of every definition just read.
OverrideCalls(defs, broader) ==
    Calls(defs, [d \in defs |-> [i \in DOMAIN broader |-> [broader[i] EXCEPT !.key = d.key]]])

-----------------------------------------------------------------------------
(***************************************************************************)
(* A statement of the view changes nothing in the vault, which may have    *)
(* changed since the one before.                                           *)
(***************************************************************************)
Runs(want) == answer = "reading" /\ Head(todo).want = want /\ UNCHANGED <<vault, history, listed>>

NextCall(calls) ==
    /\ todo' = calls /\ bound' = 0 /\ checked' = FALSE
    /\ answer' = IF calls = <<>> THEN "page" ELSE "reading"

Answers(how) ==
    /\ answer' = how /\ todo' = <<>> /\ bound' = 0 /\ checked' = FALSE
    /\ UNCHANGED <<infos, page>>

\* ListProjects, and what there is to read because of it.
ListProjects ==
    /\ answer = "none"
    /\ NextCall(Calls(projects, [pr \in projects |-> ProjectViews(pr.slug)])
                  \o <<Do("secrets", Shared, AllEnvs), Do("names", Shared, AllEnvs)>>)
    /\ page' = [page EXCEPT !.projects = View.projects]
    /\ listed' = {pr.id : pr \in projects}
    /\ meanwhile' = 0 /\ seen' = View /\ always' = View
    /\ UNCHANGED <<vault, infos>>

\* resolveScope and projectID: a project is looked up by its slug.
LookupProject ==
    /\ answer = "reading" /\ Head(todo).slug # Shared /\ bound = 0
    /\ \/ /\ Named(Head(todo).slug) = {}
          /\ Answers("not found")
       \/ /\ \E pr \in Named(Head(todo).slug) : bound' = pr.id
          /\ UNCHANGED <<answer, todo, checked, infos, page>>
    /\ UNCHANGED <<vault, history, listed>>

\* An environment is looked up in its project; a shared scope is not.
NeedsEnvironment(t) ==
    t.want \in {"secrets", "values", "effective"} /\ t.env # AllEnvs /\ bound # 0

LookupEnvironment ==
    /\ answer = "reading" /\ NeedsEnvironment(Head(todo)) /\ ~checked
    /\ \/ ~HasEnvironment(bound, Head(todo).env) /\ Answers("not found")
       \/ /\ HasEnvironment(bound, Head(todo).env)
          /\ checked' = TRUE
          /\ UNCHANGED <<answer, todo, bound, infos, page>>
    /\ UNCHANGED <<vault, history, listed>>

Ready(t) == (t.slug = Shared \/ bound # 0) /\ (NeedsEnvironment(t) => checked)

-----------------------------------------------------------------------------
(***************************************************************************)
(* The statements that read.                                               *)
(***************************************************************************)
Info(d) == [key |-> d.key, sensitive |-> d.sensitive, kind |-> d.kind, hint |-> d.hint,
            overrides |-> {}]

\* ScopeSecrets; for a project's own scope it lists the environments next.
SelectSecrets ==
    LET t == Head(todo)
        broader == IF t.slug # Shared /\ t.env = AllEnvs THEN <<Do("broader", t.slug, AllEnvs)>>
                   ELSE OverrideCalls(infos', BroaderDefs(t.slug, bound, t.env, {}))
    IN  /\ Runs("secrets") /\ Ready(t)
        /\ infos' = {Info(d) : d \in InScope(bound, t.env)}
        /\ NextCall(broader \o <<Do("values", t.slug, t.env)>> \o Tail(todo))
        /\ UNCHANGED page

SelectBroader ==
    LET t == Head(todo)
    IN  /\ Runs("broader") /\ Ready(t)
        /\ NextCall(OverrideCalls(infos, BroaderDefs(t.slug, bound, t.env, EnvironmentsOf(bound)))
                      \o Tail(todo))
        /\ UNCHANGED <<infos, page>>

\* Variant: every scope that is asked is taken to define the key.
Defines_Always(t) == TRUE

Defines(t) == \E d \in InScope(t.id, t.env) : d.key = t.key

\* scopeDefines; a scope that has been found is not asked for again.
SelectDefines ==
    LET t == Head(todo)
        Skipped(u) == Defines(t) /\ u.want = "overrides" /\ u.key = t.key /\ u.scope = t.scope
    IN  /\ Runs("overrides")
        /\ infos' = {IF i.key = t.key /\ Defines(t)
                     THEN [i EXCEPT !.overrides = @ \cup {t.scope}] ELSE i : i \in infos}
        /\ \E n \in 1..(Len(todo) - 1) :
              /\ \A m \in 2..n : Skipped(todo[m])
              /\ ~Skipped(todo[n + 1])
              /\ NextCall(SubSeq(todo, n + 1, Len(todo)))
        /\ UNCHANGED page

Item(which, t, i, value, scopes) ==
    [which |-> which, slug |-> t.slug, env |-> t.env, key |-> i.key, sensitive |-> i.sensitive,
     kind |-> i.kind, hint |-> i.hint, value |-> value, scopes |-> scopes]

\* Variant: the value is shown with the metadata, whatever it is.
Shown_Always(sensitive, values) ==
    IF values = {} THEN None ELSE CHOOSE v \in values : TRUE

\* What a listing shows of a key's values: one if it is not sensitive.
Shown(sensitive, values) ==
    IF sensitive \/ values = {} THEN None ELSE CHOOSE v \in values : TRUE

\* ScopeValues and toSecretViews: the values read now, the metadata read before.
SelectValues ==
    LET t == Head(todo)
        ValuesOf(key) == {d.value : d \in {x \in InScope(bound, t.env) : x.key = key}}
    IN  /\ Runs("values") /\ Ready(t)
        /\ page' = [page EXCEPT !.items = @ \cup
              {Item("scope", t, i, Shown(i.sensitive, ValuesOf(i.key)), i.overrides) : i \in infos}]
        /\ infos' = {}
        /\ NextCall(Tail(todo))

SelectEnvironments ==
    LET t == Head(todo)
        names == EnvironmentsOf(bound)
    IN  /\ Runs("environments") /\ Ready(t)
        /\ page' = [page EXCEPT !.environments = @ \cup {[slug |-> t.slug, name |-> n] : n \in names}]
        /\ NextCall(Calls(names, [n \in names |-> EnvironmentViews(t.slug, n)]) \o Tail(todo))
        /\ UNCHANGED infos

ScopeOf(d) ==
    CASE d.pid # 0 /\ d.env # AllEnvs -> "project_environment"
      [] d.pid # 0 /\ d.env = AllEnvs -> "project"
      [] d.pid = 0 /\ d.env # AllEnvs -> "environment"
      [] OTHER -> "global"

\* ResolveDetailed and toEffectiveViews: one statement reads both.
SelectEffective ==
    LET t == Head(todo)
    IN  /\ Runs("effective") /\ Ready(t)
        /\ page' = [page EXCEPT !.items = @ \cup
              {Item("effective", t, d, Shown(d.sensitive, {d.value}), {ScopeOf(d)}) :
                  d \in Resolved(bound, t.env)}]
        /\ NextCall(Tail(todo))
        /\ UNCHANGED infos

SelectNames ==
    /\ Runs("names")
    /\ NextCall(Calls(SharedEnvironments, [n \in SharedEnvironments |-> <<Do("secrets", Shared, n)>>]) \o Tail(todo))
    /\ UNCHANGED <<infos, page>>

StatementFails ==
    /\ answer = "reading"
    /\ Answers("error")
    /\ UNCHANGED <<vault, history, listed>>

-----------------------------------------------------------------------------
\* What others do to the vault while the page is read.
Edit ==
    /\ answer = "reading" /\ meanwhile < MaxEdits
    /\ \E q \in Edits, id \in 0..MaxProjects :
        WellNamed(q) /\ Accepted(q) /\ Binds(q, id) /\ TakesEffect(q, id)
    /\ meanwhile' = meanwhile + 1
    /\ seen' = Joined(seen, View')
    /\ always' = Common(always, View')
    /\ UNCHANGED view

ViewNext ==
    \/ ListProjects \/ LookupProject \/ LookupEnvironment
    \/ SelectSecrets \/ SelectBroader \/ SelectDefines \/ SelectValues
    \/ SelectEnvironments \/ SelectEffective \/ SelectNames
    \/ StatementFails \/ Edit

\* The page is asked of any vault that the store can have made.
ViewSpec == VaultInv /\ ViewInit /\ [][ViewNext]_view_vars

-----------------------------------------------------------------------------
(***************************************************************************)
(* Correctness.                                                            *)
(***************************************************************************)
Items(which) == {i \in page.items : i.which = which}

\* The definitions in v of an item's key in one of the scopes that apply to what
\* is shown: for a project's own scope, in any of its environments.
At(v, i, scope) ==
    {d \in v.definitions :
        /\ d.key = i.key
        /\ d.slug = IF scope \in {"project", "project_environment"} THEN i.slug ELSE Shared
        /\ CASE scope \in {"project", "global"} -> d.env = AllEnvs
             [] scope \notin {"project", "global"} /\ i.env # AllEnvs -> d.env = i.env
             [] OTHER -> [slug |-> i.slug, name |-> d.env] \in v.environments}

\* The scope a listing is of.
Own(i) ==
    CASE i.slug # Shared /\ i.env # AllEnvs -> "project_environment"
      [] i.slug # Shared /\ i.env = AllEnvs -> "project"
      [] i.slug = Shared /\ i.env # AllEnvs -> "environment"
      [] OTHER -> "global"

Precedence == <<"project_environment", "project", "environment", "global">>
Narrower(scope) == {Precedence[n] : n \in {m \in 1..4 : \E l \in (m + 1)..4 : Precedence[l] = scope}}

SameMeta(i, d) == i.sensitive = d.sensitive /\ i.kind = d.kind /\ i.hint = d.hint

Source(i) == IF i.which = "scope" THEN Own(i) ELSE CHOOSE s \in i.scopes : TRUE

\* A page, once answered, shows nothing that was not in the vault at some moment
\* since it was asked for, and all that was there the whole time: projects with
\* their switches, environments, definitions with their metadata, in the effective
\* listing no wider one than the narrowest that stayed, and among what a
\* definition overrides every one that stayed.
PageRegular ==
    answer = "page" =>
        /\ always.projects \subseteq page.projects /\ page.projects \subseteq seen.projects
        /\ always.environments \subseteq page.environments
        /\ page.environments \subseteq seen.environments
        /\ \A i \in page.items : \E d \in At(seen, i, Source(i)) : SameMeta(i, d)
        /\ \A d \in always.definitions : \E i \in Items("scope") :
              i.slug = d.slug /\ i.env = d.env /\ i.key = d.key /\ SameMeta(i, d)
        /\ \A i \in Items("scope"), s \in {"global", "environment", "project"} :
              /\ s \in i.scopes => At(seen, i, s) # {}
              /\ Own(i) \in Narrower(s) /\ At(always, i, s) # {} => s \in i.scopes
        /\ \A i \in Items("effective") : \A s \in Narrower(Source(i)) :
              At(always, i, s) = {}

\* No listing shows a value of a definition that was sensitive as long as the
\* page was being read: where a value is shown, a definition that is not
\* sensitive has been seen.
SensitiveStaysHidden ==
    \A i \in page.items : i.value # None =>
        \E d \in At(seen, i, Source(i)) : ~d.sensitive

\* The page says that something is not there only if a project of its own
\* listing has been deleted since.
NotFoundMeansDeleted == answer = "not found" => \E id \in listed : Gone(id)

\* More than holds, though the comment on scopeSecretViews says so: the value
\* that is shown was, at some moment, the value of a definition that is not
\* sensitive. A write between SelectSecrets and SelectValues breaks it.
ShownValuesAreOpen ==
    \A i \in page.items : i.value # None =>
        \E d \in At(seen, i, Source(i)) : ~d.sensitive /\ d.value = i.value
=============================================================================
