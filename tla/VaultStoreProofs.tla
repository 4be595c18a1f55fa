-------------------------- MODULE VaultStoreProofs --------------------------
(***************************************************************************)
(* Proofs about VaultStore, for any clients, names, values and requests.   *)
(* The last part shows that it implements Vault, when metadata edits keep  *)
(* to themselves and no environment is deleted: every statement of         *)
(* store.go is, seen from outside, one atomic operation's step or none.    *)
(***************************************************************************)
EXTENDS VaultRefinement, FiniteSetTheorems, TLAPS

\* The row writeSecret builds is a row of the table, for a token a sensitive one.
LEMMA EncodedRow ==
    ASSUME NEW id \in Nat, NEW q \in Request, q.key \in Keys, NEW v \in Texts
    PROVE  /\ Encode(id, q, v) \in Row
           /\ At(Encode(id, q, v), id, q.env, q.key)
           /\ Encode(id, q, v).sensitive = q.sensitive
           /\ Encode(id, q, v).kind = q.kind
           /\ Encode(id, q, v).hint = q.hint
           /\ ValueOf(Encode(id, q, v)) = v
           /\ Encode(id, q, v).pid = id
BY ConstantsAssumption DEF Encode, Row, Request, At, ValueOf, Texts, Kinds

\* Setting a row's metadata keeps it a row of the same scope and key.
LEMMA MetadataRow ==
    ASSUME NEW r \in Row, NEW q \in Request
    PROVE  LET s == WithMetadata(r, q) IN
           /\ s \in Row /\ At(s, r.pid, r.env, r.key)
           /\ s.sensitive = q.sensitive /\ s.kind = q.kind /\ s.hint = q.hint
           /\ s.enc = r.enc /\ s.plain = r.plain
BY DEF WithMetadata, Row, Request, At, Kinds, Texts

\* A row no reader refuses gives text.
LEMMA ReadableRow ==
    ASSUME NEW r \in Row, ~Inconsistent(r)
    PROVE  ValueOf(r) \in Texts
BY DEF Row, Inconsistent, ValueOf, Texts

LEMMA CoreInit == Init => CoreInv
<1> SUFFICES ASSUME Init PROVE CoreInv
    OBVIOUS
<1>1. NoRequest \in Request
    BY DEF NoRequest, Request, ScopeOps, Kinds, Texts
<1>2. TypeOK
    BY <1>1, ConstantsAssumption DEF Init, TypeOK, Texts, Results, Project
<1>3. OneDefinitionPerScope /\ NoOrphanedProjectRows /\ TokensAreSensitive
    BY DEF Init, OneDefinitionPerScope, NoOrphanedProjectRows, TokensAreSensitive
<1>4. \A p \in Procs : LocalInv(p)
    BY DEF Init, LocalInv, Statements, Unscoped, OnDefinition, Writing
<1> QED
    BY <1>2, <1>3, <1>4 DEF CoreInv

\* A step that leaves the tables alone keeps what is said of them.
LEMMA TablesUnchanged ==
    ASSUME CoreInv, UNCHANGED tables
    PROVE  OneDefinitionPerScope' /\ NoOrphanedProjectRows' /\ TokensAreSensitive'
<1>1. OneDefinitionPerScope'
    BY DEF CoreInv, tables, OneDefinitionPerScope
<1>2. NoOrphanedProjectRows'
    BY DEF CoreInv, tables, NoOrphanedProjectRows, ForeignKeyHolds
<1>3. TokensAreSensitive'
    BY DEF CoreInv, tables, TokensAreSensitive
<1> QED
    BY <1>1, <1>2, <1>3

\* A client that takes no step knows what it knew, as long as a project that
\* appears has a new id.
LEMMA OtherClients ==
    ASSUME CoreInv, NEW p \in Procs, NEW o \in Procs, o # p,
           pc'[o] = pc[o], req'[o] = req[o], pid'[o] = pid[o], value'[o] = value[o],
           \A a \in projects' : a.id = nextId \/ \E b \in projects : b.id = a.id /\ b.slug = a.slug
    PROVE  LocalInv(o)'
<1>1. LocalInv(o) /\ pid[o] \in 0..(nextId - 1) /\ nextId \in Nat
    BY DEF CoreInv, TypeOK
<1>2. \A a \in projects' : a.id = pid'[o] => a.slug = req'[o].slug
    BY <1>1 DEF LocalInv
<1> QED
    BY <1>1, <1>2 DEF LocalInv

\* What a client that runs a statement may rely on.
LEMMA Running ==
    ASSUME CoreInv, NEW p \in Procs, pc[p] \in Statements
    PROVE  /\ LocalInv(p) /\ req[p] \in Request /\ req[p] \in Requests[p] /\ Accepted(req[p])
           /\ pid[p] \in Nat /\ pid[p] < nextId
BY DEF CoreInv, LocalInv, TypeOK

\* A step by p that ends its operation, or moves on with what it knows, keeps
\* what every client knows.
LEMMA KeepsLocals ==
    ASSUME CoreInv, NEW p \in Procs, TypeOK',
           \A o \in Procs : o # p => /\ pc'[o] = pc[o] /\ req'[o] = req[o]
                                     /\ pid'[o] = pid[o] /\ value'[o] = value[o],
           \A a \in projects' : a.id = nextId \/ \E b \in projects : b.id = a.id /\ b.slug = a.slug,
           LocalInv(p)'
    PROVE  \A o \in Procs : LocalInv(o)'
<1> SUFFICES ASSUME NEW o \in Procs, o # p PROVE LocalInv(o)'
    OBVIOUS
<1> QED
    BY OtherClients

\* Ending an operation: nothing is claimed of a finished client but that its
\* project, if it is still there, is the one it named.
LEMMA FinishedLocal ==
    ASSUME CoreInv, NEW p \in Procs, pc'[p] = "done",
           UNCHANGED <<req, pid, value>>,
           \A a \in projects' : a.id = nextId \/ \E b \in projects : b.id = a.id /\ b.slug = a.slug
    PROVE  LocalInv(p)'
<1>1. LocalInv(p) /\ pid[p] \in 0..(nextId - 1) /\ nextId \in Nat
    BY DEF CoreInv, TypeOK
<1>2. \A a \in projects' : a.id = pid'[p] => a.slug = req'[p].slug
    BY <1>1 DEF LocalInv
<1> QED
    BY <1>2 DEF LocalInv, Statements, Unscoped, OnDefinition, Writing

LEMMA StepCall ==
    ASSUME CoreInv, NEW p \in Procs, Call(p)
    PROVE  CoreInv'
<1>1. PICK q \in Requests[p] :
        /\ pc[p] = "idle" /\ Accepted(q)
        /\ req' = [req EXCEPT ![p] = q] /\ value' = [value EXCEPT ![p] = q.value]
        /\ pc' = [pc EXCEPT ![p] = First(q)] /\ UNCHANGED <<tables, pid, out, ret>>
    BY DEF Call, Goto
<1>2. q \in Request /\ WellNamed(q)
    BY ConstantsAssumption
<1>3. First(q) \in Statements
    BY <1>2 DEF First, Body, BySlug, Statements, Request, ScopeOps, EnvOps, ProjectOps
<1>4. q.value \in Texts \cup {None}
    BY <1>2 DEF Request
<1>5. TypeOK'
    BY <1>1, <1>2, <1>3, <1>4 DEF CoreInv, TypeOK, tables
<1>6. OneDefinitionPerScope' /\ NoOrphanedProjectRows' /\ TokensAreSensitive'
    BY <1>1, TablesUnchanged
<1>7. pc'[p] = First(q) /\ req'[p] = q /\ value'[p] = q.value /\ pid'[p] = pid[p]
    BY <1>1 DEF CoreInv, TypeOK
<1>8. pid[p] = 0
    BY <1>1 DEF CoreInv, LocalInv
<1>9. LocalInv(p)'
    <2>1. \A a \in projects' : a.id # pid'[p]
        BY <1>1, <1>7, <1>8 DEF CoreInv, TypeOK, tables
    <2>2. q.op \in ProjectOps => /\ First(q) \in Unscoped \ {"project"}
                                       /\ q.slug \in Slugs /\ q.op # "Put"
        BY <1>2 DEF First, BySlug, ProjectOps, Unscoped, WellNamed
    <2>3. q.op \notin ProjectOps /\ q.slug # Shared => First(q) = "project" /\ q.slug \in Slugs
        BY <1>2 DEF First, Request
    <2>4. q.op \notin ProjectOps /\ q.slug = Shared =>
            /\ First(q) = Body[q.op] /\ q.op \in ScopeOps
            /\ q.op \notin {"Resolve", "ScopeEntries"} => q.key \in Keys
            /\ q.op = "Put" => q.value \in Texts
        BY <1>2, ConstantsAssumption DEF First, Request, WellNamed, ScopeOps, EnvOps, ProjectOps
    <2> QED
        BY <1>1, <1>3, <1>7, <1>8, <2>1, <2>2, <2>3, <2>4
        DEF LocalInv, Body, ScopeOps, Statements, Unscoped, OnDefinition, Writing
<1>10. \A o \in Procs : LocalInv(o)'
    <2>1. \A o \in Procs : o # p => /\ pc'[o] = pc[o] /\ req'[o] = req[o]
                                    /\ pid'[o] = pid[o] /\ value'[o] = value[o]
        BY <1>1 DEF CoreInv, TypeOK
    <2> QED
        BY <1>1, <1>5, <1>9, <2>1, KeepsLocals DEF tables
<1> QED
    BY <1>5, <1>6, <1>10 DEF CoreInv

\* A step that ends p's operation and changes no table but out.
LEMMA StepEnd ==
    ASSUME CoreInv, NEW p \in Procs, NEW r \in Results, Finish(p, r),
           UNCHANGED <<tables, req, pid, value>>,
           out' \in [Procs -> SUBSET Entry]
    PROVE  CoreInv'
<1>1. TypeOK'
    BY DEF CoreInv, TypeOK, tables, Finish, Results
<1>2. OneDefinitionPerScope' /\ NoOrphanedProjectRows' /\ TokensAreSensitive'
    BY TablesUnchanged
<1>3. pc'[p] = "done" /\ \A o \in Procs : o # p => pc'[o] = pc[o]
    BY DEF CoreInv, TypeOK, Finish
<1>4. LocalInv(p)'
    BY <1>3, FinishedLocal DEF tables
<1>5. \A o \in Procs : LocalInv(o)'
    BY <1>1, <1>3, <1>4, KeepsLocals DEF tables
<1> QED
    BY <1>1, <1>2, <1>5 DEF CoreInv

LEMMA StepReturn ==
    ASSUME CoreInv, NEW p \in Procs, Return(p)
    PROVE  CoreInv'
<1>1. NoRequest \in Request
    BY DEF NoRequest, Request, ScopeOps, Kinds, Texts
<1>2. TypeOK'
    BY <1>1 DEF CoreInv, TypeOK, tables, Return, Results, Texts
<1>3. OneDefinitionPerScope' /\ NoOrphanedProjectRows' /\ TokensAreSensitive'
    BY TablesUnchanged DEF Return
<1>4. pc'[p] = "idle" /\ pid'[p] = 0
    BY DEF CoreInv, TypeOK, Return
<1>5. LocalInv(p)'
    BY <1>4 DEF CoreInv, TypeOK, Return, tables, LocalInv, Statements, Unscoped,
                OnDefinition, Writing
<1>6. \A o \in Procs : o # p => /\ pc'[o] = pc[o] /\ req'[o] = req[o]
                                /\ pid'[o] = pid[o] /\ value'[o] = value[o]
    BY DEF CoreInv, TypeOK, Return
<1>7. \A o \in Procs : LocalInv(o)'
    BY <1>2, <1>5, <1>6, KeepsLocals DEF Return, tables
<1> QED
    BY <1>2, <1>3, <1>7 DEF CoreInv

\* A step that moves p on to another statement and changes no table.
LEMMA StepOn ==
    ASSUME CoreInv, NEW p \in Procs, NEW s \in Statements, Goto(p, s),
           UNCHANGED <<tables, req, out>>,
           pid' \in [Procs -> 0..(nextId - 1)], value' \in [Procs -> Texts \cup {None}],
           \A o \in Procs : o # p => pid'[o] = pid[o] /\ value'[o] = value[o],
           LocalInv(p)'
    PROVE  CoreInv'
<1>1. TypeOK'
    BY DEF CoreInv, TypeOK, tables, Goto
<1>2. OneDefinitionPerScope' /\ NoOrphanedProjectRows' /\ TokensAreSensitive'
    BY TablesUnchanged
<1>3. \A o \in Procs : o # p => pc'[o] = pc[o]
    BY DEF CoreInv, TypeOK, Goto
<1>4. \A o \in Procs : LocalInv(o)'
    BY <1>1, <1>3, KeepsLocals DEF tables
<1> QED
    BY <1>1, <1>2, <1>4 DEF CoreInv

\* The statement after a resolved scope, and what its client knows.
LEMMA BodyOf ==
    ASSUME NEW p \in Procs, NEW q \in Requests[p], q.op \notin ProjectOps
    PROVE  /\ Body[q.op] \in Statements \ (Unscoped \cup {"environment", "updateMeta", "insert", "conflict"})
           /\ Body[q.op] \in {"insertEnv", "dropEnv"} <=> q.op \in EnvOps
           /\ Body[q.op] = "read" <=> q.op = "SetMetadata"
           /\ Body[q.op] = "update" <=> q.op = "Put"
           /\ Body[q.op] = "delete" => q.op = "DeleteSecret"
           /\ Body[q.op] = "dropEnv" => q.op = "DeleteEnvironment"
           /\ Body[q.op] \in OnDefinition => q.key \in Keys /\ q.op \in ScopeOps
           /\ q.op \in EnvOps => q.env \in Envs
           /\ q.op = "Put" => q.value \in Texts
<1>1. q \in Request /\ WellNamed(q)
    BY ConstantsAssumption
<1>2. q.op \in ScopeOps \cup EnvOps
    BY <1>1 DEF Request
<1> QED
    BY <1>1, <1>2 DEF Body, WellNamed, ScopeOps, EnvOps, ProjectOps, Statements, Unscoped,
                      OnDefinition, Writing

LEMMA StepReadProject ==
    ASSUME CoreInv, NEW p \in Procs, ReadProject(p)
    PROVE  CoreInv'
<1>0. pc[p] \in Statements /\ pc[p] = "project"
    BY DEF ReadProject, Statements
<1>1. /\ LocalInv(p) /\ req[p] \in Request /\ req[p] \in Requests[p] /\ Accepted(req[p])
      /\ pid[p] \in Nat /\ pid[p] < nextId
    BY <1>0, Running
<1>2. CASE Finish(p, "ErrProjectNotFound") /\ UNCHANGED pid
    BY <1>2, StepEnd DEF ReadProject, Results, CoreInv, TypeOK
<1>3. CASE \E pr \in projects : /\ pr.slug = req[p].slug
                                /\ pid' = [pid EXCEPT ![p] = pr.id]
                                /\ Goto(p, AfterProject(req[p]))
    <2>1. PICK pr \in projects : /\ pr.slug = req[p].slug
                                 /\ pid' = [pid EXCEPT ![p] = pr.id]
                                 /\ Goto(p, AfterProject(req[p]))
        BY <1>3
    <2>2. pr \in Project /\ pr.id \in 1..(nextId - 1) /\ nextId \in Nat
        BY DEF CoreInv, TypeOK
    <2>3. UNCHANGED <<tables, req, value, out>>
        BY DEF ReadProject
    <2>4. pid' \in [Procs -> 0..(nextId - 1)] /\ pid'[p] = pr.id
          /\ \A o \in Procs : o # p => pid'[o] = pid[o] /\ value'[o] = value[o]
        BY <2>1, <2>2, <2>3 DEF CoreInv, TypeOK
    <2>5. pc'[p] = AfterProject(req[p])
        BY <2>1 DEF Goto, CoreInv, TypeOK
    <2>6. req[p].op \notin ProjectOps /\ req[p].slug \in Slugs
        BY <1>0, <1>1 DEF LocalInv, Unscoped
    <2>7. AfterProject(req[p]) \in Statements
        BY <1>1, <2>6, BodyOf DEF AfterProject, Statements
    <2>8. LocalInv(p)'
        <3>1. \A a \in projects' : a.id = pid'[p] => a.slug = req'[p].slug
            BY <2>1, <2>3, <2>4 DEF tables, CoreInv, OneDefinitionPerScope
        <3>2. req[p].op \notin EnvOps /\ req[p].env # AllEnvs => req[p].env \in Envs
            BY <1>1 DEF Request
        <3>3. req[p].op = "Put" => value[p] = req[p].value
            BY <1>0, <1>1 DEF LocalInv
        <3>4. UNCHANGED <<req, value>> /\ pid'[p] # 0 /\ req[p].slug # Shared
            BY <2>2, <2>3, <2>4, <2>6, ConstantsAssumption
        <3>5. CASE req[p].op \notin EnvOps /\ req[p].env # AllEnvs
            <4>1. req[p].op \in ScopeOps
                BY <1>1, <2>6, <3>5 DEF Request
            <4>2. pc'[p] = "environment"
                BY <2>5, <3>5 DEF AfterProject
            <4> QED
                BY <1>1, <3>1, <3>2, <3>3, <3>4, <3>5, <4>1, <4>2
                DEF LocalInv, Unscoped, OnDefinition, Writing
        <3>6. CASE ~(req[p].op \notin EnvOps /\ req[p].env # AllEnvs)
            <4>1. pc'[p] = Body[req[p].op]
                BY <2>5, <3>6 DEF AfterProject
            <4> QED
                BY <1>1, <2>6, <3>1, <3>3, <3>4, <4>1, BodyOf
                DEF LocalInv, Statements, Unscoped, OnDefinition, Writing
        <3> QED
            BY <3>5, <3>6
    <2> QED
        BY <2>1, <2>3, <2>4, <2>7, <2>8, StepOn DEF CoreInv, TypeOK
<1> QED
    BY <1>2, <1>3 DEF ReadProject

LEMMA StepFail ==
    ASSUME CoreInv, NEW p \in Procs, Fail(p)
    PROVE  CoreInv'
BY StepEnd DEF Fail, Results, CoreInv, TypeOK

LEMMA StepReadEnvironment ==
    ASSUME CoreInv, NEW p \in Procs, ReadEnvironment(p)
    PROVE  CoreInv'
<1>1. pc[p] = "environment" /\ pc[p] \in Statements /\ pc[p] \notin Unscoped
    BY DEF ReadEnvironment, Statements, Unscoped
<1>2. /\ LocalInv(p) /\ req[p] \in Request /\ req[p] \in Requests[p] /\ Accepted(req[p])
    BY <1>1, Running
<1>3. CASE Finish(p, "ErrEnvironmentNotFound")
    BY <1>3, StepEnd DEF ReadEnvironment, Results, CoreInv, TypeOK
<1>4. CASE Goto(p, Body[req[p].op])
    <2>1. pc'[p] = Body[req[p].op] /\ UNCHANGED <<tables, req, pid, value, out>>
        BY <1>4 DEF Goto, CoreInv, TypeOK, ReadEnvironment
    <2>2. req[p].op \notin ProjectOps /\ req[p].op \notin EnvOps
        BY <1>1, <1>2 DEF LocalInv, ScopeOps, ProjectOps, EnvOps
    <2>3. /\ pid[p] # 0 /\ (pid[p] = 0 <=> req[p].slug = Shared)
          /\ req[p].op = "Put" => value[p] = req[p].value
          /\ \A pr \in projects : pr.id = pid[p] => pr.slug = req[p].slug
        BY <1>1, <1>2 DEF LocalInv
    <2>4. LocalInv(p)'
        BY <1>2, <2>1, <2>2, <2>3, BodyOf DEF LocalInv, Statements, Unscoped, OnDefinition, Writing, tables
    <2> QED
        BY <1>2, <1>4, <2>1, <2>2, <2>4, BodyOf, StepOn DEF CoreInv, TypeOK
<1> QED
    BY <1>3, <1>4 DEF ReadEnvironment

LEMMA StepSelect ==
    ASSUME CoreInv, NEW p \in Procs, Select(p)
    PROVE  CoreInv'
<1>1. CASE UNCHANGED out /\ Finish(p, "ErrInconsistentDefinition")
    BY <1>1, StepEnd DEF Select, Results, CoreInv, TypeOK
<1>2. CASE ~UNCHANGED out \/ ~Finish(p, "ErrInconsistentDefinition")
    <2>1. /\ \A r \in Selected(p) : ~Inconsistent(r)
          /\ out' = [out EXCEPT ![p] = {Served(r) : r \in Selected(p)}]
          /\ Finish(p, "ok") /\ UNCHANGED <<tables, req, pid, value>>
        BY <1>2 DEF Select
    <2>2. \A r \in Selected(p) : r \in Row
        BY DEF Selected, Effective, Applicable, InScope, CoreInv, TypeOK
    <2>3. \A r \in Selected(p) : Served(r) \in Entry
        <3> TAKE r \in Selected(p)
        <3>1. r \in Row /\ ValueOf(r) \in Texts
            BY <2>1, <2>2, ReadableRow
        <3> QED
            BY <3>1 DEF Row, Entry, Served
    <2>4. out' \in [Procs -> SUBSET Entry]
        BY <2>1, <2>3 DEF CoreInv, TypeOK
    <2> QED
        BY <2>1, <2>4, StepEnd DEF Results
<1> QED
    BY <1>1, <1>2

LEMMA StepInsertProject ==
    ASSUME CoreInv, NEW p \in Procs, InsertProject(p)
    PROVE  CoreInv'
<1>1. CASE Finish(p, "ErrDuplicate") /\ UNCHANGED <<projects, nextId>>
    BY <1>1, StepEnd DEF InsertProject, Results, CoreInv, TypeOK, tables
<1>2. CASE ~(Finish(p, "ErrDuplicate") /\ UNCHANGED <<projects, nextId>>)
    <2> DEFINE new == [id |-> nextId, slug |-> req[p].slug, exec |-> FALSE, open |-> FALSE]
    <2>1. /\ \A pr \in projects : pr.slug # req[p].slug
          /\ projects' = projects \cup {new} /\ nextId' = nextId + 1
          /\ Finish(p, "ok")
          /\ UNCHANGED <<environments, secrets, req, pid, value, out>>
        BY <1>2 DEF InsertProject, NewProjectId
    <2>2. pc[p] \in Statements /\ pc[p] \in Unscoped
        BY DEF InsertProject, Statements, Unscoped
    <2>3. new \in Project /\ new.id = nextId /\ new.slug = req[p].slug
        BY <2>2, Running DEF LocalInv, Project, CoreInv, TypeOK
    <2>4. \A pr \in projects : pr.id < nextId /\ pr.id \in Nat /\ nextId \in Nat \ {0}
        BY DEF CoreInv, TypeOK
    <2> HIDE DEF new
    <2>5. TypeOK'
        <3>1. nextId' \in Nat \ {0} /\ projects' \subseteq Project
              /\ \A pr \in projects' : pr.id \in 1..(nextId' - 1)
            BY <2>1, <2>3, <2>4 DEF CoreInv, TypeOK
        <3>2. pid' \in [Procs -> 0..(nextId' - 1)]
            BY <2>1, <2>4 DEF CoreInv, TypeOK
        <3> QED
            BY <2>1, <3>1, <3>2 DEF CoreInv, TypeOK, Finish, Results
    <2>6. OneDefinitionPerScope'
        BY <2>1, <2>3, <2>4 DEF CoreInv, OneDefinitionPerScope
    <2>7. NoOrphanedProjectRows'
        BY <2>1 DEF CoreInv, NoOrphanedProjectRows, ForeignKeyHolds
    <2>8. TokensAreSensitive'
        BY <2>1 DEF CoreInv, TokensAreSensitive
    <2>9. \A x \in projects' : x.id = nextId \/ \E y \in projects : y.id = x.id /\ y.slug = x.slug
        BY <2>1, <2>3
    <2>10. pc'[p] = "done" /\ \A o \in Procs : o # p => pc'[o] = pc[o]
        BY <2>1 DEF CoreInv, TypeOK, Finish
    <2>11. LocalInv(p)'
        BY <2>1, <2>9, <2>10, FinishedLocal
    <2>12. \A o \in Procs : LocalInv(o)'
        BY <2>1, <2>5, <2>9, <2>10, <2>11, KeepsLocals
    <2> QED
        BY <2>5, <2>6, <2>7, <2>8, <2>12 DEF CoreInv
<1> QED
    BY <1>1, <1>2

\* A step that ends p's operation with a write: what is left to show is what is
\* said of the tables alone.
LEMMA StepWrite ==
    ASSUME CoreInv, NEW p \in Procs, NEW r \in Results, Finish(p, r),
           UNCHANGED <<nextId, req, pid, value, out>>,
           \A x \in projects' : x \in Project /\ \E y \in projects : y.id = x.id /\ y.slug = x.slug,
           environments' \subseteq Environment, secrets' \subseteq Row,
           OneDefinitionPerScope', NoOrphanedProjectRows', TokensAreSensitive'
    PROVE  CoreInv'
<1>1. TypeOK'
    BY DEF CoreInv, TypeOK, Finish, Results
<1>2. pc'[p] = "done" /\ \A o \in Procs : o # p => pc'[o] = pc[o]
    BY DEF CoreInv, TypeOK, Finish
<1>3. LocalInv(p)'
    BY <1>2, FinishedLocal
<1>4. \A o \in Procs : LocalInv(o)'
    BY <1>1, <1>2, <1>3, KeepsLocals
<1> QED
    BY <1>1, <1>4 DEF CoreInv

LEMMA StepDropProject ==
    ASSUME CoreInv, NEW p \in Procs, DropProject(p)
    PROVE  CoreInv'
<1> DEFINE ids == {pr.id : pr \in {x \in projects : x.slug = req[p].slug}}
<1>1. /\ projects' = {pr \in projects : pr.slug # req[p].slug}
      /\ environments' = {r \in environments : r.pid \notin ids}
      /\ secrets' = {r \in secrets : r.pid \notin ids}
      /\ UNCHANGED <<nextId, req, pid, value, out>>
    BY DEF DropProject, Cascade
<1>2. \E r \in Results : Finish(p, r)
    BY DEF DropProject, Results
<1>3. \A pr \in projects : pr.id \notin ids => pr \in projects'
    BY <1>1
<1>4. OneDefinitionPerScope'
    BY <1>1 DEF CoreInv, OneDefinitionPerScope
<1>5. NoOrphanedProjectRows'
    BY <1>1, <1>3 DEF CoreInv, NoOrphanedProjectRows, ForeignKeyHolds
<1>6. TokensAreSensitive'
    BY <1>1 DEF CoreInv, TokensAreSensitive
<1>7. environments' \subseteq Environment /\ secrets' \subseteq Row
      /\ \A x \in projects' : x \in Project /\ x \in projects
    BY <1>1 DEF CoreInv, TypeOK
<1> HIDE DEF ids
<1> QED
    BY <1>1, <1>2, <1>4, <1>5, <1>6, <1>7, StepWrite

LEMMA StepSetAllow ==
    ASSUME CoreInv, NEW p \in Procs, SetAllow(p)
    PROVE  CoreInv'
<1> DEFINE new(pr) == IF pr.slug = req[p].slug THEN WithCapability(pr, req[p]) ELSE pr
<1>1. /\ projects' = {new(pr) : pr \in projects}
      /\ UNCHANGED <<nextId, environments, secrets, req, pid, value, out>>
      /\ \E r \in Results : Finish(p, r)
    BY DEF SetAllow, Results
<1>2. pc[p] \in Statements
    BY DEF SetAllow, Statements
<1>3. req[p] \in Request
    BY <1>2, Running
<1>4. \A pr \in projects : new(pr) \in Project /\ new(pr).id = pr.id /\ new(pr).slug = pr.slug
    BY <1>3 DEF WithCapability, Project, Request, CoreInv, TypeOK
<1> HIDE DEF new
<1>5. OneDefinitionPerScope'
    BY <1>1, <1>4 DEF CoreInv, OneDefinitionPerScope
<1>6. NoOrphanedProjectRows'
    BY <1>1, <1>4 DEF CoreInv, NoOrphanedProjectRows, ForeignKeyHolds
<1>7. TokensAreSensitive'
    BY <1>1 DEF CoreInv, TokensAreSensitive
<1> QED
    BY <1>1, <1>4, <1>5, <1>6, <1>7, StepWrite DEF CoreInv, TypeOK

LEMMA StepInsertEnvironment ==
    ASSUME CoreInv, NEW p \in Procs, InsertEnvironment(p)
    PROVE  CoreInv'
<1>1. \E r \in Results : Finish(p, r)
    BY DEF InsertEnvironment, Results
<1>2. UNCHANGED <<projects, nextId, secrets, req, pid, value, out>>
    BY DEF InsertEnvironment
<1>3. CASE UNCHANGED environments
    BY <1>1, <1>2, <1>3, StepEnd DEF tables, CoreInv, TypeOK
<1>4. CASE /\ ForeignKeyHolds(pid[p])
           /\ environments' = environments \cup {[pid |-> pid[p], name |-> req[p].env]}
    <2>1. pc[p] = "insertEnv" /\ pc[p] \in Statements
        BY DEF InsertEnvironment, Statements
    <2>2. pid[p] \in Nat /\ req[p].env \in Envs
        BY <2>1, Running DEF LocalInv
    <2>3. environments' \subseteq Environment
        BY <1>4, <2>2 DEF CoreInv, TypeOK, Environment
    <2>4. NoOrphanedProjectRows'
        BY <1>2, <1>4 DEF CoreInv, NoOrphanedProjectRows, ForeignKeyHolds
    <2>5. OneDefinitionPerScope' /\ TokensAreSensitive'
        BY <1>2 DEF CoreInv, OneDefinitionPerScope, TokensAreSensitive
    <2> QED
        BY <1>1, <1>2, <2>3, <2>4, <2>5, StepWrite DEF CoreInv, TypeOK
<1> QED
    BY <1>3, <1>4 DEF InsertEnvironment

\* Removing definitions or environments disturbs nothing that is said of those
\* that stay.
LEMMA StepRemove ==
    ASSUME CoreInv, NEW p \in Procs, NEW r \in Results, Finish(p, r),
           UNCHANGED <<projects, nextId, req, pid, value, out>>,
           environments' \subseteq environments, secrets' \subseteq secrets
    PROVE  CoreInv'
<1>1. OneDefinitionPerScope'
    BY DEF CoreInv, OneDefinitionPerScope
<1>2. NoOrphanedProjectRows'
    BY DEF CoreInv, NoOrphanedProjectRows, ForeignKeyHolds
<1>3. TokensAreSensitive'
    BY DEF CoreInv, TokensAreSensitive
<1> QED
    BY <1>1, <1>2, <1>3, StepWrite DEF CoreInv, TypeOK

LEMMA StepDropEnvironment ==
    ASSUME CoreInv, NEW p \in Procs, DropEnvironment(p)
    PROVE  CoreInv'
BY StepRemove DEF DropEnvironment, Results

LEMMA StepDeleteRow ==
    ASSUME CoreInv, NEW p \in Procs, DeleteRow(p)
    PROVE  CoreInv'
BY StepRemove DEF DeleteRow, Results

LEMMA StepReadRow ==
    ASSUME CoreInv, NEW p \in Procs, ReadRow(p)
    PROVE  CoreInv'
<1>1. pc[p] = "read" /\ pc[p] \in Statements /\ UNCHANGED <<tables, req, pid, out>>
    BY DEF ReadRow, Statements
<1>2. LocalInv(p) /\ req[p] \in Requests[p] /\ Accepted(req[p])
    BY <1>1, Running
<1>3. CASE UNCHANGED value /\ \E r \in Results : Finish(p, r)
    BY <1>1, <1>3, StepEnd DEF CoreInv, TypeOK
<1>4. CASE \E r \in Definitions(p) :
            /\ ~Inconsistent(r) /\ value' = [value EXCEPT ![p] = ValueOf(r)]
            /\ \E s \in {"updateMeta", "update"} : Goto(p, s)
    <2>1. PICK r \in Definitions(p), s \in {"updateMeta", "update"} :
            /\ ~Inconsistent(r) /\ value' = [value EXCEPT ![p] = ValueOf(r)] /\ Goto(p, s)
        BY <1>4
    <2>2. ValueOf(r) \in Texts
        BY <2>1, ReadableRow DEF Definitions, CoreInv, TypeOK
    <2>3. /\ pc'[p] = s /\ value'[p] = ValueOf(r)
          /\ value' \in [Procs -> Texts \cup {None}]
          /\ \A o \in Procs : o # p => value'[o] = value[o]
        BY <2>1, <2>2 DEF Goto, CoreInv, TypeOK
    <2>4. LocalInv(p)'
        BY <1>1, <1>2, <2>2, <2>3 DEF LocalInv, Unscoped, OnDefinition, Writing, Statements, tables
    <2> QED
        BY <1>1, <2>1, <2>3, <2>4, StepOn DEF Statements, CoreInv, TypeOK
<1> QED
    BY <1>3, <1>4 DEF ReadRow, Results

\* Replacing the addressed rows one by one keeps a scope's definitions apart.
LEMMA RowwiseUpdate ==
    ASSUME CoreInv, NEW f, secrets' = {f[r] : r \in secrets}, UNCHANGED projects,
           UNCHANGED environments,
           \A r \in secrets : /\ f[r] \in Row /\ At(f[r], r.pid, r.env, r.key)
                              /\ MetaAccepted(f[r].kind, f[r].sensitive)
    PROVE  /\ secrets' \subseteq Row /\ OneDefinitionPerScope'
           /\ NoOrphanedProjectRows' /\ TokensAreSensitive'
<1>1. secrets' \subseteq Row
    OBVIOUS
<1>2. OneDefinitionPerScope'
    BY DEF CoreInv, OneDefinitionPerScope, At
<1>3. NoOrphanedProjectRows'
    BY DEF CoreInv, NoOrphanedProjectRows, ForeignKeyHolds, At
<1>4. TokensAreSensitive'
    BY DEF CoreInv, TokensAreSensitive, MetaAccepted
<1> QED
    BY <1>1, <1>2, <1>3, <1>4

LEMMA StepUpdateMetadata ==
    ASSUME CoreInv, NEW p \in Procs, UpdateMetadata(p)
    PROVE  CoreInv'
<1> DEFINE f == [r \in secrets |-> IF Addressed(p, r) THEN WithMetadata(r, req[p]) ELSE r]
<1>1. pc[p] = "updateMeta" /\ pc[p] \in Statements
    BY DEF UpdateMetadata, Statements
<1>2. req[p] \in Request /\ Accepted(req[p]) /\ req[p].op = "SetMetadata"
    BY <1>1, Running DEF LocalInv
<1>3. /\ secrets' = {f[r] : r \in secrets} /\ Finish(p, "ok")
      /\ UNCHANGED <<projects, nextId, environments, req, pid, value, out>>
    BY DEF UpdateMetadata
<1>4. \A r \in secrets : /\ f[r] \in Row /\ At(f[r], r.pid, r.env, r.key)
                         /\ MetaAccepted(f[r].kind, f[r].sensitive)
    <2>1. SUFFICES ASSUME NEW r \in secrets
                   PROVE  /\ f[r] \in Row /\ At(f[r], r.pid, r.env, r.key)
                          /\ MetaAccepted(f[r].kind, f[r].sensitive)
        OBVIOUS
    <2>2. r \in Row /\ MetaAccepted(r.kind, r.sensitive)
        BY DEF CoreInv, TypeOK, TokensAreSensitive, MetaAccepted
    <2>3. CASE Addressed(p, r)
        BY <1>2, <2>2, <2>3, MetadataRow DEF Accepted, MetaAccepted
    <2>4. CASE ~Addressed(p, r)
        BY <2>2, <2>4 DEF At
    <2> QED
        BY <2>3, <2>4
<1> HIDE DEF f
<1>5. /\ secrets' \subseteq Row /\ OneDefinitionPerScope'
      /\ NoOrphanedProjectRows' /\ TokensAreSensitive'
    BY <1>3, <1>4, RowwiseUpdate
<1> QED
    BY <1>3, <1>5, StepWrite DEF Results, CoreInv, TypeOK

\* The row a client writes, and the two UPDATEs of writeSecret.
LEMMA WrittenRow ==
    ASSUME CoreInv, NEW p \in Procs, pc[p] \in Writing
    PROVE  /\ NewRow(p) \in Row /\ Addressed(p, NewRow(p))
           /\ MetaAccepted(NewRow(p).kind, NewRow(p).sensitive)
           /\ NewRow(p).sensitive = req[p].sensitive /\ NewRow(p).hint = req[p].hint
           /\ ValueOf(NewRow(p)) = value[p] /\ NewRow(p).pid = pid[p]
<1>1. pc[p] \in Statements /\ pc[p] \in OnDefinition
    BY DEF Writing, Statements, OnDefinition
<1>2. /\ req[p] \in Request /\ req[p].key \in Keys /\ pid[p] \in Nat /\ value[p] \in Texts
      /\ MetaAccepted(req[p].kind, req[p].sensitive)
    BY <1>1, Running DEF LocalInv, Accepted
<1> QED
    BY <1>2, EncodedRow DEF NewRow, Addressed

LEMMA Overwriting ==
    ASSUME CoreInv, NEW p \in Procs, pc[p] \in Writing, secrets' = Overwrite(p),
           UNCHANGED <<projects, environments>>
    PROVE  /\ secrets' \subseteq Row /\ OneDefinitionPerScope'
           /\ NoOrphanedProjectRows' /\ TokensAreSensitive'
<1> DEFINE f == [r \in secrets |-> IF Addressed(p, r) THEN NewRow(p) ELSE r]
<1>1. secrets' = {f[r] : r \in secrets}
    BY DEF Overwrite
<1>2. ASSUME NEW r \in secrets
      PROVE  /\ f[r] \in Row /\ At(f[r], r.pid, r.env, r.key)
             /\ MetaAccepted(f[r].kind, f[r].sensitive)
    <2>1. r \in Row /\ MetaAccepted(r.kind, r.sensitive)
        BY DEF CoreInv, TypeOK, TokensAreSensitive, MetaAccepted
    <2> QED
        BY <2>1, WrittenRow DEF Addressed, At
<1> HIDE DEF f
<1> QED
    BY <1>1, <1>2, RowwiseUpdate

LEMMA StepUpdateAfterConflict ==
    ASSUME CoreInv, NEW p \in Procs, UpdateAfterConflict(p)
    PROVE  CoreInv'
<1>1. pc[p] \in Writing
    BY DEF UpdateAfterConflict, Writing
<1> QED
    BY <1>1, Overwriting, StepWrite DEF UpdateAfterConflict, Results, CoreInv, TypeOK

LEMMA StepUpdateRow ==
    ASSUME CoreInv, NEW p \in Procs, UpdateRow(p)
    PROVE  CoreInv'
<1>1. pc[p] = "update" /\ pc[p] \in Writing /\ pc[p] \in Statements
    BY DEF UpdateRow, Writing, Statements
<1>2. CASE Finish(p, "ok")
    BY <1>1, <1>2, Overwriting, StepWrite DEF UpdateRow, Results, CoreInv, TypeOK
<1>3. CASE Definitions(p) = {} /\ Goto(p, "insert")
    <2>1. secrets' = secrets
        BY <1>3 DEF UpdateRow, Overwrite, Definitions
    <2>2. UNCHANGED <<tables, req, pid, value, out>> /\ pc'[p] = "insert"
        BY <1>3, <2>1 DEF UpdateRow, tables, Goto, CoreInv, TypeOK
    <2>3. LocalInv(p)'
        BY <1>1, <2>2, Running DEF LocalInv, Unscoped, OnDefinition, Writing, Statements, tables
    <2> QED
        BY <1>3, <2>2, <2>3, StepOn DEF Statements, CoreInv, TypeOK
<1> QED
    BY <1>2, <1>3 DEF UpdateRow

LEMMA StepInsertRow ==
    ASSUME CoreInv, NEW p \in Procs, InsertRow(p)
    PROVE  CoreInv'
<1>1. pc[p] = "insert" /\ pc[p] \in Writing /\ pc[p] \in Statements
      /\ UNCHANGED <<projects, nextId, environments, req, pid, value, out>>
    BY DEF InsertRow, Writing, Statements
<1>2. CASE Goto(p, "conflict") /\ UNCHANGED secrets
    <2>1. UNCHANGED <<tables, req, pid, value, out>> /\ pc'[p] = "conflict"
        BY <1>1, <1>2 DEF tables, Goto, CoreInv, TypeOK
    <2>2. LocalInv(p)'
        BY <1>1, <2>1, Running DEF LocalInv, Unscoped, OnDefinition, Writing, Statements, tables
    <2> QED
        BY <1>2, <2>1, <2>2, StepOn DEF Statements, CoreInv, TypeOK
<1>3. CASE Finish(p, "error") /\ UNCHANGED secrets
    BY <1>1, <1>3, StepEnd DEF tables, Results, CoreInv, TypeOK
<1>4. CASE /\ Definitions(p) = {} /\ ForeignKeyHolds(pid[p])
           /\ secrets' = secrets \cup {NewRow(p)} /\ Finish(p, "ok")
    <2>1. OneDefinitionPerScope'
        BY <1>1, <1>4, WrittenRow DEF CoreInv, OneDefinitionPerScope, Definitions, Addressed, At
    <2>2. NoOrphanedProjectRows'
        BY <1>1, <1>4, WrittenRow DEF CoreInv, NoOrphanedProjectRows, ForeignKeyHolds
    <2>3. TokensAreSensitive'
        BY <1>1, <1>4, WrittenRow DEF CoreInv, TokensAreSensitive, MetaAccepted
    <2>4. secrets' \subseteq Row
        BY <1>1, <1>4, WrittenRow DEF CoreInv, TypeOK
    <2> QED
        BY <1>1, <1>4, <2>1, <2>2, <2>3, <2>4, StepWrite DEF Results, CoreInv, TypeOK
<1> QED
    BY <1>2, <1>3, <1>4 DEF InsertRow, UniqueViolation

LEMMA CoreStep == CoreInv /\ [Next]_vars => CoreInv'
<1> SUFFICES ASSUME CoreInv, [Next]_vars PROVE CoreInv'
    OBVIOUS
<1>1. CASE UNCHANGED vars
    BY <1>1, TablesUnchanged DEF CoreInv, TypeOK, LocalInv, vars, tables
<1>2. ASSUME NEW p \in Procs, Call(p) \/ Fail(p) \/ Return(p) PROVE CoreInv'
    BY <1>2, StepCall, StepFail, StepReturn
<1>3. ASSUME NEW p \in Procs, Statement(p) PROVE CoreInv'
    BY <1>3, StepReadProject, StepReadEnvironment, StepInsertProject, StepDropProject,
       StepSetAllow, StepInsertEnvironment, StepDropEnvironment, StepReadRow,
       StepUpdateMetadata, StepUpdateRow, StepInsertRow, StepUpdateAfterConflict,
       StepDeleteRow, StepSelect
    DEF Statement
<1> QED
    BY <1>1, <1>2, <1>3 DEF Next

\* The core invariant, from which the theorems about the tables follow.
THEOREM CoreInvariant == Spec => []CoreInv
BY CoreInit, CoreStep, PTL DEF Spec

\* However the statements of any number of clients interleave, the tables and
\* every client's locals keep their types; no NULL reaches a reader.
THEOREM Typed == Spec => []TypeOK
<1>1. CoreInv => TypeOK
    BY DEF CoreInv
<1> QED
    BY <1>1, CoreInvariant, PTL

\* Concurrent upserts of one key never leave two definitions in a scope.
THEOREM UniqueDefinitions == Spec => []OneDefinitionPerScope
<1>1. CoreInv => OneDefinitionPerScope
    BY DEF CoreInv
<1> QED
    BY <1>1, CoreInvariant, PTL

\* A write that raced the deletion of its project leaves no row behind.
THEOREM NoOrphans == Spec => []NoOrphanedProjectRows
<1>1. CoreInv => NoOrphanedProjectRows
    BY DEF CoreInv
<1> QED
    BY <1>1, CoreInvariant, PTL

\* Tokens and passwords stay marked sensitive under overlapping edits.
THEOREM SensitiveTokens == Spec => []TokensAreSensitive
<1>1. CoreInv => TokensAreSensitive
    BY DEF CoreInv
<1> QED
    BY <1>1, CoreInvariant, PTL

-----------------------------------------------------------------------------
(***************************************************************************)
(* What a step may do, from the core invariant.                            *)
(***************************************************************************)

\* A project id that a client holds and that still exists is the named one.
LEMMA HeldId ==
    ASSUME CoreInv, NEW p \in Procs, pc[p] \in Statements, pc[p] \notin Unscoped,
           NEW r, r.pid = pid[p], ForeignKeyHolds(r.pid)
    PROVE  OfNamedProject(p, r)
BY Running DEF LocalInv, ForeignKeyHolds, OfNamedProject

\* Same, for a definition that is in the table.
LEMMA HeldRow ==
    ASSUME CoreInv, NEW p \in Procs, pc[p] \in Statements, pc[p] \notin Unscoped,
           NEW r \in Definitions(p)
    PROVE  OfNamedProject(p, r)
BY HeldId DEF Definitions, Addressed, At, CoreInv, NoOrphanedProjectRows

LEMMA NamedStatement ==
    ASSUME CoreInv, NEW p \in Procs, Statement(p), NEW r \in Touched
    PROVE  OfNamedProject(p, r)
<1>1. CASE ReadProject(p) \/ ReadEnvironment(p) \/ ReadRow(p) \/ Select(p)
    BY <1>1 DEF ReadProject, ReadEnvironment, ReadRow, Select, tables, Touched
<1>2. CASE InsertProject(p) \/ SetAllow(p)
    BY <1>2 DEF InsertProject, SetAllow, Touched
<1>3. CASE DropProject(p)
    <2>1. r.pid \in {pr.id : pr \in {x \in projects : x.slug = req[p].slug}}
        BY <1>3 DEF DropProject, Cascade, Touched
    <2> QED
        BY <2>1 DEF CoreInv, TypeOK, OfNamedProject
<1>4. CASE InsertEnvironment(p)
    <2>1. r.pid = pid[p] /\ ForeignKeyHolds(pid[p])
        BY <1>4 DEF InsertEnvironment, Touched
    <2> QED
        BY <1>4, <2>1, HeldId DEF InsertEnvironment, Statements, Unscoped
<1>5. CASE DropEnvironment(p)
    <2>1. r.pid = pid[p] /\ (r \in secrets \/ r \in environments)
        BY <1>5 DEF DropEnvironment, Touched
    <2> QED
        BY <1>5, <2>1, HeldId DEF DropEnvironment, Statements, Unscoped, CoreInv, NoOrphanedProjectRows
<1>6. CASE DeleteRow(p)
    <2>1. r \in Definitions(p)
        BY <1>6 DEF DeleteRow, Touched
    <2> QED
        BY <1>6, <2>1, HeldRow DEF DeleteRow, Statements, Unscoped
<1>7. CASE UpdateMetadata(p)
    <2>1. pc[p] \in Statements /\ pc[p] \notin Unscoped /\ req[p] \in Request
        BY <1>7, Running DEF UpdateMetadata, Statements, Unscoped
    <2>2. PICK s \in Definitions(p) : r = s \/ r = WithMetadata(s, req[p])
        BY <1>7 DEF UpdateMetadata, Touched, Definitions
    <2>3. s \in Row
        BY <2>2 DEF Definitions, CoreInv, TypeOK
    <2>4. r.pid = s.pid
        BY <2>1, <2>2, <2>3, MetadataRow DEF At
    <2> QED
        BY <2>1, <2>2, <2>4, HeldRow DEF OfNamedProject
<1>8. CASE UpdateRow(p) \/ UpdateAfterConflict(p)
    <2>1. pc[p] \in Statements /\ pc[p] \notin Unscoped /\ pc[p] \in Writing
        BY <1>8 DEF UpdateRow, UpdateAfterConflict, Statements, Unscoped, Writing
    <2>2. PICK s \in Definitions(p) : r = s \/ r = NewRow(p)
        BY <1>8 DEF UpdateRow, UpdateAfterConflict, Overwrite, Touched, Definitions
    <2>3. r.pid = s.pid
        BY <2>1, <2>2, WrittenRow DEF Definitions, Addressed, At
    <2> QED
        BY <2>1, <2>2, <2>3, HeldRow DEF OfNamedProject
<1>9. CASE InsertRow(p)
    <2>1. pc[p] \in Statements /\ pc[p] \notin Unscoped /\ pc[p] \in Writing
        BY <1>9 DEF InsertRow, Statements, Unscoped, Writing
    <2>2. r = NewRow(p) /\ ForeignKeyHolds(pid[p])
        BY <1>9 DEF InsertRow, Touched
    <2> QED
        BY <2>1, <2>2, WrittenRow, HeldId
<1> QED
    BY <1>1, <1>2, <1>3, <1>4, <1>5, <1>6, <1>7, <1>8, <1>9 DEF Statement

\* A step is one client's: the others stay at the statement they are at.
LEMMA WhoseStep ==
    ASSUME CoreInv, Next, NEW p \in Procs, pc'[p] # pc[p]
    PROVE  Call(p) \/ Statement(p) \/ Fail(p) \/ Return(p)
<1>1. PICK o \in Procs : Call(o) \/ Statement(o) \/ Fail(o) \/ Return(o)
    BY DEF Next
<1>2. pc' = [pc EXCEPT ![o] = pc'[o]] \/ pc' = pc
    BY <1>1 DEF Call, Fail, Return, Statement, ReadProject, ReadEnvironment, InsertProject,
       DropProject, SetAllow, InsertEnvironment, DropEnvironment, ReadRow, UpdateMetadata,
       UpdateRow, InsertRow, UpdateAfterConflict, DeleteRow, Select, Goto, Finish, CoreInv, TypeOK
<1> QED
    BY <1>1, <1>2 DEF CoreInv, TypeOK

\* No write or delete that raced a deletion and a re-creation of projects ever
\* lands in a project other than the one it named.
THEOREM NamedProjectOnly == Spec => OnlyTheNamedProject
<1>1. ASSUME CoreInv, [Next]_vars
      PROVE  [\A p \in Procs : pc'[p] # pc[p] => \A r \in Touched : OfNamedProject(p, r)]_vars
    <2> SUFFICES ASSUME Next, NEW p \in Procs, pc'[p] # pc[p], NEW r \in Touched
                 PROVE  OfNamedProject(p, r)
        BY <1>1
    <2>1. CASE Call(p) \/ Fail(p) \/ Return(p)
        BY <2>1 DEF Call, Fail, Return, tables, Touched
    <2>2. CASE Statement(p)
        BY <1>1, <2>2, NamedStatement
    <2> QED
        BY <1>1, <2>1, <2>2, WhoseStep
<1> QED
    BY <1>1, CoreInvariant, PTL DEF Spec, OnlyTheNamedProject

\* After an UPDATE that found rows, the written row is the only definition.
LEMMA OverwriteStores ==
    ASSUME CoreInv, NEW p \in Procs, pc[p] \in Writing, secrets' = Overwrite(p),
           UNCHANGED <<req, pid>>
    PROVE  Definitions(p)' = IF Definitions(p) = {} THEN {} ELSE {NewRow(p)}
<1>1. Addressed(p, NewRow(p))
    BY WrittenRow
<1>2. Definitions(p)' = {r \in secrets' : Addressed(p, r)}
    BY DEF Definitions, Addressed
<1>3. \A r \in secrets' : Addressed(p, r) => r = NewRow(p) /\ Definitions(p) # {}
    BY DEF Overwrite, Definitions
<1>4. Definitions(p) # {} => NewRow(p) \in secrets'
    BY DEF Overwrite, Definitions
<1> QED
    BY <1>1, <1>2, <1>3, <1>4

\* A Put that reports success has stored its row, through either UPDATE or the
\* INSERT of writeSecret.
THEOREM PutStores == Spec => PutStoresItsRow
<1>1. ASSUME CoreInv, [Next]_vars
      PROVE  [\A p \in Procs :
                req[p].op = "Put" /\ pc[p] \in Statements /\ pc'[p] = "done" /\ ret'[p] = "ok" =>
                   \/ Definitions(p)' = {NewRow(p)}
                   \/ pc[p] = "conflict" /\ Definitions(p)' = {}]_vars
    <2> SUFFICES ASSUME Next, NEW p \in Procs, req[p].op = "Put", pc[p] \in Statements,
                        pc'[p] = "done", ret'[p] = "ok"
                 PROVE  \/ Definitions(p)' = {NewRow(p)}
                        \/ pc[p] = "conflict" /\ Definitions(p)' = {}
        BY <1>1
    <2>1. pc[p] \in Writing \cup {"project", "environment"}
        BY <1>1, Running DEF LocalInv
    <2>2. pc'[p] # pc[p] /\ pc[p] # "idle" /\ pc[p] # "done"
        BY DEF Statements
    <2>3. ~Call(p) /\ ~Return(p) /\ ~Fail(p)
        BY <1>1, <2>2 DEF Call, Return, Fail, Finish, CoreInv, TypeOK
    <2>4. Statement(p)
        BY <1>1, <2>2, <2>3, WhoseStep
    <2>5. ~ReadProject(p) /\ ~ReadEnvironment(p)
        <3>1. ASSUME NEW r, Finish(p, r) PROVE r = "ok"
            BY <1>1, <3>1 DEF Finish, CoreInv, TypeOK
        <3>2. ASSUME NEW s, Goto(p, s) PROVE s = "done"
            BY <1>1, <3>2 DEF Goto, CoreInv, TypeOK
        <3>3. pc[p] = "project" => AfterProject(req[p]) # "done"
            BY <1>1, Running, BodyOf DEF LocalInv, AfterProject, Statements
        <3>4. pc[p] = "environment" => Body[req[p].op] # "done"
            BY <1>1, Running, BodyOf DEF LocalInv, ScopeOps, ProjectOps, Statements
        <3> QED
            BY <3>1, <3>2, <3>3, <3>4 DEF ReadProject, ReadEnvironment
    <2>6. UpdateRow(p) \/ InsertRow(p) \/ UpdateAfterConflict(p)
        BY <2>1, <2>4, <2>5 DEF Statement, Writing, InsertProject, DropProject, SetAllow,
           InsertEnvironment, DropEnvironment, ReadRow, UpdateMetadata, DeleteRow, Select
    <2>7. CASE UpdateRow(p)
        <3>1. Definitions(p) # {}
            BY <1>1, <2>7 DEF UpdateRow, Goto, CoreInv, TypeOK
        <3> QED
            BY <1>1, <2>7, <3>1, OverwriteStores DEF UpdateRow, Writing
    <2>8. CASE UpdateAfterConflict(p)
        BY <1>1, <2>8, OverwriteStores DEF UpdateAfterConflict, Writing
    <2>9. CASE InsertRow(p)
        <3>1. Definitions(p) = {} /\ secrets' = secrets \cup {NewRow(p)} /\ UNCHANGED <<req, pid>>
            BY <1>1, <2>9 DEF InsertRow, UniqueViolation, Goto, Finish, CoreInv, TypeOK
        <3>2. Addressed(p, NewRow(p))
            BY <1>1, <2>9, WrittenRow DEF InsertRow, Writing
        <3>3. Definitions(p)' = {r \in secrets' : Addressed(p, r)}
            BY <3>1 DEF Definitions, Addressed
        <3> QED
            BY <3>1, <3>2, <3>3 DEF Definitions
    <2> QED
        BY <2>6, <2>7, <2>8, <2>9
<1> QED
    BY <1>1, CoreInvariant, PTL DEF Spec, PutStoresItsRow

-----------------------------------------------------------------------------
(***************************************************************************)
(* SetSecretMetadata reads a row in one statement and writes it in later   *)
(* ones.  Proved here: as long as no other client may write the definition *)
(* being edited (EditsAlone), whatever else happens between the statements *)
(* (projects deleted and created again, other scopes written, the edit     *)
(* itself failing half way), an edit stores a well-formed row, a hint that *)
(* does not contain the value, and the value that was there.               *)
(***************************************************************************)

Editing(p) == pc[p] \in OnDefinition /\ req[p].op = "SetMetadata"

\* Two clients that address the same row of a live project, or the same shared
\* row, named the same project.
LEMMA SameSlug ==
    ASSUME CoreInv, NEW p \in Procs, NEW o \in Procs,
           pc[p] \in Statements \ Unscoped, pc[o] \in Statements \ Unscoped,
           pid[p] = pid[o], ForeignKeyHolds(pid[p])
    PROVE  req[p].slug = req[o].slug
BY Running DEF LocalInv, ForeignKeyHolds

\* So nobody else writes or deletes a row that is being edited.
LEMMA NobodyElse ==
    ASSUME EditsAlone, CoreInv, NEW p \in Procs, NEW o \in Procs, p # o, Editing(p),
           pc[o] \in OnDefinition, NEW r, Addressed(p, r), Addressed(o, r),
           ForeignKeyHolds(r.pid)
    PROVE  FALSE
<1>1. pc[p] \in Statements \ Unscoped /\ pc[o] \in Statements \ Unscoped
    BY DEF Editing, OnDefinition, Writing, Statements, Unscoped
<1>2. /\ req[p] \in Requests[p] /\ req[o] \in Requests[o]
      /\ req[o].op \in {"Put", "SetMetadata", "DeleteSecret"}
    BY <1>1, Running DEF LocalInv, OnDefinition
<1>3. req[p].slug = req[o].slug
    BY <1>1, SameSlug DEF Addressed, At
<1>4. Interferes(req[o], req[p])
    BY <1>2, <1>3 DEF Interferes, Addressed, At
<1> QED
    BY <1>2, <1>4 DEF EditsAlone, Editing

\* Another client's statement leaves the definition being edited as it is; only
\* the deletion of its project takes it away.
LEMMA DefinitionStays ==
    ASSUME EditsAlone, CoreInv, NEW p \in Procs, NEW o \in Procs, p # o, Editing(p),
           Statement(o), UNCHANGED <<pid[p], req[p]>>
    PROVE  /\ Definitions(p)' \subseteq Definitions(p)
           /\ ForeignKeyHolds(pid[p])' =>
                Definitions(p) \subseteq Definitions(p)' /\ ForeignKeyHolds(pid[p])
<1>0. Definitions(p)' = {r \in secrets' : Addressed(p, r)}
    BY DEF Definitions, Addressed
<1>1. pc[p] \in Statements \ Unscoped /\ pid[p] \in Nat /\ pid[p] < nextId /\ nextId \in Nat
    BY Running DEF Editing, OnDefinition, Writing, Statements, Unscoped, CoreInv, TypeOK
<1>2. \A r \in secrets : ForeignKeyHolds(r.pid)
    BY DEF CoreInv, NoOrphanedProjectRows
<1>3. CASE UNCHANGED <<projects, secrets>>
    BY <1>0, <1>3 DEF Definitions, ForeignKeyHolds
<1>4. CASE InsertProject(o)
    BY <1>0, <1>1, <1>4 DEF InsertProject, NewProjectId, Definitions, ForeignKeyHolds
<1>5. CASE DropProject(o)
    <2>1. /\ projects' \subseteq projects
          /\ secrets' = {r \in secrets : r.pid \notin {pr.id : pr \in {x \in projects : x.slug = req[o].slug}}}
          /\ projects' = {pr \in projects : pr.slug # req[o].slug}
        BY <1>5 DEF DropProject, Cascade
    <2>2. ASSUME ForeignKeyHolds(pid[p])', NEW r \in Definitions(p), r \notin secrets'
          PROVE  FALSE
        <3>1. PICK x \in projects : x.slug = req[o].slug /\ x.id = pid[p]
            BY <2>1, <2>2 DEF Definitions, Addressed, At
        <3>2. PICK y \in projects' : y.id = pid[p]
            BY <2>2, <3>1 DEF ForeignKeyHolds, CoreInv, TypeOK
        <3> QED
            BY <2>1, <3>1, <3>2 DEF CoreInv, OneDefinitionPerScope
    <2> QED
        BY <1>0, <2>1, <2>2 DEF Definitions, ForeignKeyHolds
<1>6. CASE SetAllow(o)
    <2>1. pc[o] \in Statements /\ req[o] \in Request
        BY <1>6, Running DEF SetAllow, Statements
    <2>2. \A pr \in projects : WithCapability(pr, req[o]).id = pr.id
        BY <2>1 DEF CoreInv, TypeOK, Project, Request, WithCapability
    <2>3. ForeignKeyHolds(pid[p])' => ForeignKeyHolds(pid[p])
        BY <1>6, <2>2 DEF SetAllow, ForeignKeyHolds
    <2> QED
        BY <1>0, <1>6, <2>3 DEF SetAllow, Definitions
<1>7. CASE DropEnvironment(o)
    <2>1. pc[o] \in Statements \ Unscoped /\ req[o].op = "DeleteEnvironment"
          /\ req[o] \in Requests[o] /\ req[p] \in Requests[p]
        BY <1>1, <1>7, Running DEF DropEnvironment, LocalInv, Statements, Unscoped
    <2>2. ASSUME NEW r \in Definitions(p), r.pid = pid[o], r.env = req[o].env
          PROVE  FALSE
        <3>1. req[p].slug = req[o].slug /\ req[p].env = req[o].env
            BY <1>1, <1>2, <2>1, <2>2, SameSlug DEF Definitions, Addressed, At
        <3> QED
            BY <2>1, <3>1 DEF EditsAlone, Interferes, Editing
    <2> QED
        BY <1>0, <1>7, <2>2 DEF DropEnvironment, Definitions, ForeignKeyHolds
<1>8. CASE DeleteRow(o)
    <2>1. ASSUME NEW r \in Definitions(p), r \in Definitions(o) PROVE FALSE
        BY <1>2, <1>8, <2>1, NobodyElse DEF DeleteRow, Definitions, OnDefinition
    <2> QED
        BY <1>0, <1>8, <2>1 DEF DeleteRow, Definitions, ForeignKeyHolds
<1>9. CASE UpdateMetadata(o)
    <2>1. req[o] \in Request
        BY <1>9, Running DEF UpdateMetadata, Statements
    <2>2. ASSUME NEW r \in secrets, Addressed(o, r), Addressed(p, r) PROVE FALSE
        BY <1>2, <1>9, <2>2, NobodyElse DEF UpdateMetadata, OnDefinition
    <2>3. ASSUME NEW r \in secrets
          PROVE  Addressed(p, WithMetadata(r, req[o])) <=> Addressed(p, r)
        BY <2>1, MetadataRow DEF CoreInv, TypeOK, At, Addressed
    <2> QED
        BY <1>0, <1>9, <2>2, <2>3 DEF UpdateMetadata, Definitions, ForeignKeyHolds
<1>10. CASE UpdateRow(o) \/ UpdateAfterConflict(o)
    <2>1. pc[o] \in Writing /\ pc[o] \in OnDefinition /\ secrets' = Overwrite(o)
          /\ UNCHANGED projects
        BY <1>10 DEF UpdateRow, UpdateAfterConflict, Writing, OnDefinition
    <2>2. ASSUME NEW r \in secrets, Addressed(o, r), Addressed(p, r) PROVE FALSE
        BY <1>2, <2>1, <2>2, NobodyElse
    <2>3. ASSUME NEW r \in secrets, Addressed(o, r)
          PROVE  ~Addressed(p, NewRow(o))
        BY <2>1, <2>2, <2>3, WrittenRow DEF Addressed, At
    <2> QED
        BY <1>0, <2>1, <2>2, <2>3 DEF Overwrite, Definitions, ForeignKeyHolds
<1>11. CASE InsertRow(o) /\ ~UNCHANGED secrets
    <2>1. pc[o] \in Writing /\ pc[o] \in OnDefinition /\ secrets' = secrets \cup {NewRow(o)}
          /\ UNCHANGED projects /\ ForeignKeyHolds(pid[o])
        BY <1>11 DEF InsertRow, Writing, OnDefinition
    <2>2. ~Addressed(p, NewRow(o))
        BY <2>1, WrittenRow, NobodyElse
    <2> QED
        BY <1>0, <2>1, <2>2 DEF Definitions, ForeignKeyHolds
<1> QED
    BY <1>3, <1>4, <1>5, <1>6, <1>7, <1>8, <1>9, <1>10, <1>11
    DEF Statement, ReadProject, ReadEnvironment, InsertEnvironment, ReadRow, Select, InsertRow, tables

-----------------------------------------------------------------------------
(***************************************************************************)
(* What a client editing a definition knows of it.                         *)
(***************************************************************************)

\* It is not disturbed by the steps of the others.
LEMMA OtherEdit ==
    ASSUME EditsAlone, CoreInv, NEW p \in Procs, NEW o \in Procs, p # o, EditInv(p),
           Statement(o) \/ UNCHANGED tables,
           UNCHANGED <<pc[p], req[p], pid[p], value[p]>>
    PROVE  EditInv(p)'
<1>1. ASSUME Editing(p)
      PROVE  /\ Definitions(p)' \subseteq Definitions(p)
             /\ ForeignKeyHolds(pid[p])' =>
                  Definitions(p) \subseteq Definitions(p)' /\ ForeignKeyHolds(pid[p])
    <2>1. CASE Statement(o)
        BY <1>1, <2>1, DefinitionStays
    <2>2. CASE UNCHANGED tables
        BY <2>2 DEF tables, Definitions, Addressed, ForeignKeyHolds
    <2> QED
        BY <2>1, <2>2
<1>2. pc[p] = "updateMeta" => Editing(p)
    BY Running DEF Editing, OnDefinition, LocalInv, Statements
<1>3. pc[p] \in Writing /\ req[p].op = "SetMetadata" => Editing(p)
    BY DEF Editing, OnDefinition
<1>4. (pc[p] = "updateMeta")' =>
        \A r \in Definitions(p)' : /\ r.sensitive = req'[p].sensitive
                                   /\ HintAccepted(req'[p].hint, ValueOf(r))
    BY <1>1, <1>2 DEF EditInv
<1>5. (pc[p] \in Writing)' => HintAccepted(req'[p].hint, value'[p])
    BY DEF EditInv
<1>6. (pc[p] \in Writing /\ req[p].op = "SetMetadata" /\ ForeignKeyHolds(pid[p]))' =>
        \E r \in Definitions(p)' : ValueOf(r) = value'[p]
    BY <1>1, <1>3 DEF EditInv
<1> QED
    BY <1>4, <1>5, <1>6 DEF EditInv

\* Nothing is claimed of a client that is at none of the statements in question.
LEMMA NoClaim ==
    ASSUME NEW p \in Procs, pc'[p] # "updateMeta", pc'[p] \notin Writing
    PROVE  EditInv(p)'
BY DEF EditInv

\* A Put has had its hint checked against its value by the time it writes.
LEMMA PutReady ==
    ASSUME NEW p \in Procs, NEW q \in Requests[p], Accepted(q), q.op \notin ProjectOps,
           pc'[p] = Body[q.op], req'[p] = q, q.op = "Put" => value'[p] = q.value
    PROVE  EditInv(p)'
<1>1. CASE q.op = "Put"
    BY <1>1, BodyOf DEF EditInv, Accepted, Writing, Statements
<1>2. CASE q.op # "Put"
    BY <1>2, BodyOf, NoClaim DEF Writing, Statements, Unscoped
<1> QED
    BY <1>1, <1>2

LEMMA EditCall ==
    ASSUME CoreInv, NEW p \in Procs, Call(p)
    PROVE  EditInv(p)'
<1>1. PICK q \in Requests[p] :
        /\ Accepted(q) /\ pc'[p] = First(q) /\ req'[p] = q /\ value'[p] = q.value
    BY DEF Call, Goto, CoreInv, TypeOK
<1>2. CASE q.op \in ProjectOps
    BY <1>1, <1>2, NoClaim DEF First, BySlug, ProjectOps, Writing
<1>3. CASE q.op \notin ProjectOps /\ q.slug # Shared
    BY <1>1, <1>3, NoClaim DEF First, Writing
<1>4. CASE q.op \notin ProjectOps /\ q.slug = Shared
    BY <1>1, <1>4, PutReady DEF First
<1> QED
    BY <1>2, <1>3, <1>4

\* What the steps of the editing client itself establish.
LEMMA EditStatement ==
    ASSUME CoreInv, SafeEditInv, NEW p \in Procs, Statement(p)
    PROVE  EditInv(p)'
<1>1. CASE pc'[p] = "done"
    BY <1>1, NoClaim DEF Writing
<1>2. CASE ReadProject(p) /\ pc'[p] # "done"
    <2>1. pc'[p] = AfterProject(req[p]) /\ UNCHANGED <<req, value>>
        BY <1>2 DEF ReadProject, Finish, Goto, CoreInv, TypeOK
    <2>2. /\ req[p] \in Requests[p] /\ Accepted(req[p]) /\ req[p].op \notin ProjectOps
          /\ req[p].op = "Put" => value[p] = req[p].value
        BY <1>2, Running DEF ReadProject, Statements, LocalInv
    <2>3. CASE AfterProject(req[p]) = "environment"
        BY <2>1, <2>3, NoClaim DEF Writing
    <2>4. CASE AfterProject(req[p]) = Body[req[p].op]
        BY <2>1, <2>2, <2>4, PutReady
    <2> QED
        BY <2>3, <2>4 DEF AfterProject
<1>3. CASE ReadEnvironment(p) /\ pc'[p] # "done"
    <2>1. pc'[p] = Body[req[p].op] /\ UNCHANGED <<req, value>>
        BY <1>3 DEF ReadEnvironment, Finish, Goto, CoreInv, TypeOK
    <2>2. /\ req[p] \in Requests[p] /\ Accepted(req[p]) /\ req[p].op \notin ProjectOps
          /\ req[p].op = "Put" => value[p] = req[p].value
        BY <1>3, Running DEF ReadEnvironment, Statements, LocalInv, ScopeOps, ProjectOps
    <2> QED
        BY <2>1, <2>2, PutReady
<1>4. CASE ReadRow(p) /\ pc'[p] # "done"
    <2>1. PICK r \in Definitions(p) :
            /\ HintAccepted(req[p].hint, ValueOf(r)) /\ value'[p] = ValueOf(r)
            /\ pc'[p] = IF KeepsEncoding(r, req[p]) THEN "updateMeta" ELSE "update"
        BY <1>4 DEF ReadRow, Finish, Goto, CoreInv, TypeOK
    <2>2. \A s \in Definitions(p) : s = r
        BY DEF Definitions, Addressed, At, CoreInv, OneDefinitionPerScope
    <2>3. UNCHANGED <<secrets, req, pid>> /\ Definitions(p)' = Definitions(p)
        BY <1>4 DEF ReadRow, tables, Definitions, Addressed
    <2> QED
        BY <2>1, <2>2, <2>3 DEF EditInv, KeepsEncoding, Writing
<1>5. CASE (UpdateRow(p) \/ InsertRow(p)) /\ pc'[p] # "done"
    <2>1. /\ pc[p] \in Writing /\ pc'[p] \in Writing /\ secrets' = secrets
          /\ UNCHANGED <<projects, req, pid, value>>
        <3>1. CASE UpdateRow(p)
            <4>1. Definitions(p) = {} /\ pc'[p] = "insert"
                BY <1>5, <3>1 DEF UpdateRow, Finish, Goto, CoreInv, TypeOK
            <4> QED
                BY <3>1, <4>1 DEF UpdateRow, Overwrite, Definitions, Writing
        <3>2. CASE InsertRow(p)
            <4>1. Goto(p, "conflict") /\ UNCHANGED secrets /\ pc'[p] = "conflict"
                BY <1>5, <3>2 DEF InsertRow, Finish, Goto, CoreInv, TypeOK
            <4> QED
                BY <3>2, <4>1 DEF InsertRow, Writing
        <3> QED
            BY <1>5, <3>1, <3>2
    <2>2. Definitions(p)' = Definitions(p) /\ (ForeignKeyHolds(pid[p])' <=> ForeignKeyHolds(pid[p]))
        BY <2>1 DEF Definitions, Addressed, ForeignKeyHolds
    <2>3. EditInv(p)
        BY DEF SafeEditInv
    <2> QED
        BY <2>1, <2>2, <2>3 DEF EditInv, Writing
<1>6. CASE /\ ~ReadProject(p) /\ ~ReadEnvironment(p) /\ ~ReadRow(p) /\ ~UpdateRow(p)
           /\ ~InsertRow(p)
    <2>1. \E r \in Results : Finish(p, r)
        BY <1>6 DEF Statement, InsertProject, DropProject, SetAllow, InsertEnvironment,
           DropEnvironment, UpdateMetadata, UpdateAfterConflict, DeleteRow, Select, Results
    <2> QED
        BY <1>1, <2>1 DEF Finish, CoreInv, TypeOK
<1> QED
    BY <1>1, <1>2, <1>3, <1>4, <1>5, <1>6

-----------------------------------------------------------------------------
(***************************************************************************)
(* The rows the statements store.                                          *)
(***************************************************************************)
GoodRow(r) ==
    /\ IF r.sensitive THEN r.enc # None /\ r.plain = None ELSE r.enc = None /\ r.plain # None
    /\ r.hint # None => r.hint # ValueOf(r)

LEMMA GoodNewRow ==
    ASSUME CoreInv, SafeEditInv, NEW p \in Procs, pc[p] \in Writing
    PROVE  GoodRow(NewRow(p))
<1>1. value[p] \in Texts /\ req[p] \in Request /\ HintAccepted(req[p].hint, value[p])
    BY Running DEF LocalInv, SafeEditInv, EditInv, Writing, Statements
<1>2. ValueOf(NewRow(p)) = value[p] /\ NewRow(p).hint = req[p].hint
    BY WrittenRow
<1>3. IF NewRow(p).sensitive THEN NewRow(p).enc # None /\ NewRow(p).plain = None
                             ELSE NewRow(p).enc = None /\ NewRow(p).plain # None
    BY <1>1, ConstantsAssumption DEF NewRow, Encode, Request
<1> QED
    BY <1>1, <1>2, <1>3 DEF GoodRow, HintAccepted

LEMMA GoodRows ==
    ASSUME CoreInv, SafeEditInv, NEW p \in Procs, Statement(p)
    PROVE  \A r \in secrets' : GoodRow(r)
<1>1. \A r \in secrets : GoodRow(r)
    BY DEF SafeEditInv, SensitiveHoldsCiphertext, HintHidesValue, GoodRow
<1>2. CASE UpdateMetadata(p)
    <2>1. pc[p] = "updateMeta" /\ req[p] \in Request /\ EditInv(p)
        BY <1>2, Running DEF UpdateMetadata, Statements, SafeEditInv
    <2>2. ASSUME NEW r \in secrets, Addressed(p, r)
          PROVE  GoodRow(WithMetadata(r, req[p]))
        <3>1. /\ r \in Row /\ GoodRow(r) /\ r.sensitive = req[p].sensitive
              /\ HintAccepted(req[p].hint, ValueOf(r))
            BY <1>1, <2>1, <2>2 DEF EditInv, Definitions, CoreInv, TypeOK
        <3> DEFINE s == WithMetadata(r, req[p])
        <3>2. s.sensitive = r.sensitive /\ s.enc = r.enc /\ s.plain = r.plain /\ s.hint = req[p].hint
            BY <2>1, <3>1, MetadataRow
        <3> HIDE DEF s
        <3>3. GoodRow(s)
            BY <3>1, <3>2 DEF GoodRow, ValueOf, HintAccepted
        <3> QED
            BY <3>3 DEF s
    <2> QED
        BY <1>1, <1>2, <2>2 DEF UpdateMetadata
<1>3. CASE UpdateRow(p) \/ UpdateAfterConflict(p)
    BY <1>1, <1>3, GoodNewRow DEF UpdateRow, UpdateAfterConflict, Overwrite, Writing
<1>4. CASE InsertRow(p)
    BY <1>1, <1>4, GoodNewRow DEF InsertRow, Writing
<1>5. CASE secrets' \subseteq secrets
    BY <1>1, <1>5
<1> QED
    BY <1>2, <1>3, <1>4, <1>5 DEF Statement, ReadProject, ReadEnvironment, InsertProject, DropProject,
       Cascade, SetAllow, InsertEnvironment, DropEnvironment, ReadRow, DeleteRow, Select, tables

LEMMA EditInit == Init => SafeEditInv
BY DEF Init, SafeEditInv, EditInv, SensitiveHoldsCiphertext, HintHidesValue, Writing

\* A step is by one client and leaves the locals of the others alone.
LEMMA OtherLocals ==
    ASSUME CoreInv, NEW o \in Procs, Call(o) \/ Statement(o) \/ Fail(o) \/ Return(o),
           NEW p \in Procs, p # o
    PROVE  UNCHANGED <<pc[p], req[p], pid[p], value[p]>>
BY DEF Call, Fail, Return, Statement, ReadProject, ReadEnvironment, InsertProject, DropProject,
   SetAllow, InsertEnvironment, DropEnvironment, ReadRow, UpdateMetadata, UpdateRow, InsertRow,
   UpdateAfterConflict, DeleteRow, Select, Goto, Finish, CoreInv, TypeOK

LEMMA EditStep ==
    ASSUME EditsAlone, CoreInv, SafeEditInv, [Next]_vars
    PROVE  SafeEditInv'
<1>1. CASE UNCHANGED vars
    BY <1>1 DEF vars, SafeEditInv, EditInv, SensitiveHoldsCiphertext, HintHidesValue, Definitions,
                Addressed, ForeignKeyHolds
<1>2. ASSUME NEW o \in Procs, Call(o) \/ Statement(o) \/ Fail(o) \/ Return(o)
      PROVE  SafeEditInv'
    <2>1. \A r \in secrets' : GoodRow(r)
        <3>1. CASE Statement(o)
            BY <3>1, GoodRows
        <3>2. CASE UNCHANGED tables
            BY <3>2 DEF tables, SafeEditInv, SensitiveHoldsCiphertext, HintHidesValue, GoodRow
        <3> QED
            BY <1>2, <3>1, <3>2 DEF Call, Fail, Return
    <2>2. EditInv(o)'
        <3>1. CASE Fail(o) \/ Return(o)
            BY <3>1, NoClaim DEF Fail, Return, Finish, Writing, CoreInv, TypeOK
        <3> QED
            BY <1>2, <3>1, EditCall, EditStatement
    <2>3. ASSUME NEW p \in Procs, p # o PROVE EditInv(p)'
        <3>1. Statement(o) \/ UNCHANGED tables
            BY <1>2 DEF Call, Fail, Return
        <3>2. EditInv(p)
            BY DEF SafeEditInv
        <3> QED
            BY <1>2, <2>3, <3>1, <3>2, OtherLocals, OtherEdit
    <2> QED
        BY <2>1, <2>2, <2>3 DEF SafeEditInv, SensitiveHoldsCiphertext, HintHidesValue, GoodRow
<1> QED
    BY <1>1, <1>2 DEF Next

LEMMA SafeEdits ==
    ASSUME EditsAlone
    PROVE  Spec => [](CoreInv /\ SafeEditInv)
<1>1. CoreInv /\ SafeEditInv /\ [Next]_vars => SafeEditInv'
    BY EditStep
<1> QED
    BY <1>1, EditInit, CoreInvariant, PTL DEF Spec

\* Where nobody writes a definition while another client edits it, no row marked
\* sensitive ever holds cleartext.
THEOREM EncryptedAtRest == EditsAlone => (Spec => []SensitiveHoldsCiphertext)
<1> SUFFICES ASSUME EditsAlone PROVE Spec => []SensitiveHoldsCiphertext
    OBVIOUS
<1>1. SafeEditInv => SensitiveHoldsCiphertext
    BY DEF SafeEditInv
<1>2. Spec => [](CoreInv /\ SafeEditInv)
    BY SafeEdits
<1> QED
    BY <1>1, <1>2, PTL

\* Under the same condition no stored hint contains the stored value.
THEOREM HintsHide == EditsAlone => (Spec => []HintHidesValue)
<1> SUFFICES ASSUME EditsAlone PROVE Spec => []HintHidesValue
    OBVIOUS
<1>1. SafeEditInv => HintHidesValue
    BY DEF SafeEditInv
<1>2. Spec => [](CoreInv /\ SafeEditInv)
    BY SafeEdits
<1> QED
    BY <1>1, <1>2, PTL

\* An edit writes back what the definition holds.
ContentOf(r) == [pid |-> r.pid, env |-> r.env, key |-> r.key, value |-> ValueOf(r)]

LEMMA EditContents ==
    ASSUME CoreInv, SafeEditInv, NEW p \in Procs, Statement(p), req[p].op = "SetMetadata",
           pc[p] \in Statements
    PROVE  Contents' = Contents
<1>1. /\ Contents = {ContentOf(r) : r \in secrets}
      /\ Contents' = {ContentOf(r) : r \in secrets'}
    BY DEF Contents, ContentOf
<1>2. CASE UNCHANGED secrets
    BY <1>1, <1>2
<1>3. CASE UpdateMetadata(p)
    <2>1. /\ pc[p] = "updateMeta" /\ req[p] \in Request /\ EditInv(p)
          /\ secrets' = {IF Addressed(p, r) THEN WithMetadata(r, req[p]) ELSE r : r \in secrets}
        BY <1>3, Running DEF UpdateMetadata, SafeEditInv
    <2>2. ASSUME NEW r \in secrets, Addressed(p, r)
          PROVE  ContentOf(WithMetadata(r, req[p])) = ContentOf(r)
        <3>1. r \in Row /\ r.sensitive = req[p].sensitive
            BY <2>1, <2>2 DEF EditInv, Definitions, CoreInv, TypeOK
        <3> QED
            BY <2>1, <3>1, MetadataRow DEF ContentOf, ValueOf, At
    <2> QED
        BY <1>1, <2>1, <2>2
<1>4. CASE UpdateRow(p) \/ UpdateAfterConflict(p)
    <2>1. pc[p] \in Writing /\ secrets' = Overwrite(p) /\ EditInv(p)
        BY <1>4 DEF UpdateRow, UpdateAfterConflict, Writing, SafeEditInv
    <2>2. ASSUME NEW r \in secrets, Addressed(p, r)
          PROVE  ContentOf(NewRow(p)) = ContentOf(r)
        <3>1. ForeignKeyHolds(pid[p])
            BY <2>2 DEF Addressed, At, CoreInv, NoOrphanedProjectRows
        <3>2. ValueOf(r) = value[p]
            BY <2>1, <2>2, <3>1 DEF EditInv, Definitions, Addressed, At, CoreInv, OneDefinitionPerScope
        <3> QED
            BY <2>1, <2>2, <3>2, WrittenRow DEF ContentOf, Addressed, At
    <2> QED
        BY <1>1, <2>1, <2>2 DEF Overwrite
<1>5. CASE InsertRow(p) /\ ~UNCHANGED secrets
    <2>1. pc[p] \in Writing /\ Definitions(p) = {} /\ ForeignKeyHolds(pid[p]) /\ EditInv(p)
        BY <1>5 DEF InsertRow, UniqueViolation, Writing, SafeEditInv
    <2> QED
        BY <2>1 DEF EditInv
<1>6. pc[p] \notin {"dropProject", "dropEnv", "delete"}
    BY Running DEF LocalInv, Unscoped, ProjectOps
<1> QED
    BY <1>2, <1>3, <1>4, <1>5, <1>6 DEF Statement, ReadProject, ReadEnvironment, InsertProject,
       DropProject, SetAllow, InsertEnvironment, DropEnvironment, ReadRow, DeleteRow, Select, tables

\* Under the same condition a metadata edit, with or without re-encoding, keeps
\* every value and adds no definition, even one that lost its row to the
\* deletion of the project.
THEOREM EditsKeepContents == EditsAlone => (Spec => MetadataEditKeepsContents)
<1> SUFFICES ASSUME EditsAlone PROVE Spec => MetadataEditKeepsContents
    OBVIOUS
<1>1. Spec => [](CoreInv /\ SafeEditInv)
    BY SafeEdits
<1>2. ASSUME CoreInv, SafeEditInv, [Next]_vars
      PROVE  [\A p \in Procs :
                req[p].op = "SetMetadata" /\ pc[p] \in Statements /\ pc'[p] # pc[p] =>
                   Contents' = Contents]_vars
    <2> SUFFICES ASSUME Next, NEW p \in Procs, req[p].op = "SetMetadata", pc[p] \in Statements,
                        pc'[p] # pc[p]
                 PROVE  Contents' = Contents
        BY <1>2
    <2>1. CASE Call(p) \/ Fail(p) \/ Return(p)
        BY <2>1 DEF Call, Fail, Return, tables, Contents
    <2>2. CASE Statement(p)
        BY <1>2, <2>2, EditContents
    <2> QED
        BY <1>2, <2>1, <2>2, WhoseStep
<1> QED
    BY <1>1, <1>2, PTL DEF Spec, MetadataEditKeepsContents

-----------------------------------------------------------------------------
(***************************************************************************)
(* Scopes and environments of VaultStore, proved for any number of clients *)
(* and any requests: where no environment is deleted a project's secrets   *)
(* never name one that is not there, although it is looked up statements   *)
(* before the write, and of the scopes that define a key the first one,    *)
(* and only that one, is served.                                           *)
(***************************************************************************)

\* The statements that run once the scope is resolved.
Scoped == OnDefinition \cup {"select"}

\* The environment that was looked up is still there, if its project is.
EnvInv(p) ==
    pc[p] \in Scoped /\ pid[p] # 0 /\ req[p].env # AllEnvs /\ ForeignKeyHolds(pid[p]) =>
        EnvironmentExists(pid[p], req[p].env)

EnvironmentInv == SecretsNameAnEnvironment /\ \A p \in Procs : EnvInv(p)

\* Environments go with their project only, and no project id comes back.
LEMMA EnvironmentsStay ==
    ASSUME NoEnvironmentDeletes, CoreInv, NEW o \in Procs, Statement(o) \/ UNCHANGED tables,
           NEW id \in 0..(nextId - 1), NEW name, ForeignKeyHolds(id)'
    PROVE  /\ ForeignKeyHolds(id)
           /\ EnvironmentExists(id, name) => EnvironmentExists(id, name)'
<1>1. CASE UNCHANGED <<projects, environments>>
    BY <1>1 DEF ForeignKeyHolds, EnvironmentExists
<1>2. CASE InsertProject(o)
    BY <1>2 DEF InsertProject, NewProjectId, ForeignKeyHolds, EnvironmentExists, CoreInv, TypeOK
<1>3. CASE DropProject(o)
    <2> DEFINE ids == {pr.id : pr \in {x \in projects : x.slug = req[o].slug}}
    <2>1. /\ projects' = {pr \in projects : pr.slug # req[o].slug}
          /\ environments' = {e \in environments : e.pid \notin ids}
        BY <1>3 DEF DropProject, Cascade
    <2>2. id \notin ids
        BY <2>1 DEF ForeignKeyHolds, CoreInv, TypeOK, OneDefinitionPerScope
    <2> QED
        BY <2>1, <2>2 DEF ForeignKeyHolds, EnvironmentExists
<1>4. CASE SetAllow(o)
    <2>1. pc[o] \in Statements /\ req[o] \in Request
        BY <1>4, Running DEF SetAllow, Statements
    <2>2. \A pr \in projects : WithCapability(pr, req[o]).id = pr.id
        BY <2>1 DEF CoreInv, TypeOK, Project, Request, WithCapability
    <2> QED
        BY <1>4, <2>2 DEF SetAllow, ForeignKeyHolds, EnvironmentExists
<1>5. CASE InsertEnvironment(o)
    BY <1>5 DEF InsertEnvironment, ForeignKeyHolds, EnvironmentExists
<1>6. ~DropEnvironment(o)
    <2>1. ASSUME pc[o] = "dropEnv" PROVE FALSE
        BY <2>1, Running DEF LocalInv, Statements, NoEnvironmentDeletes
    <2> QED
        BY <2>1 DEF DropEnvironment
<1> QED
    BY <1>1, <1>2, <1>3, <1>4, <1>5, <1>6
    DEF Statement, ReadProject, ReadEnvironment, ReadRow, UpdateMetadata, UpdateRow, InsertRow,
        UpdateAfterConflict, DeleteRow, Select, tables

\* Every row of secrets after a statement was there in its scope before it, or
\* is the row that a client stores in the scope it has resolved.
LEMMA RowsFrom ==
    ASSUME CoreInv, NEW o \in Procs, Statement(o), NEW r \in secrets'
    PROVE  \/ \E s \in secrets : s.pid = r.pid /\ s.env = r.env
           \/ /\ pc[o] \in Scoped /\ ForeignKeyHolds(pid[o])
              /\ r.pid = pid[o] /\ r.env = req[o].env
<1>1. CASE secrets' \subseteq secrets
    BY <1>1
<1>2. CASE UpdateMetadata(o)
    <2>1. req[o] \in Request
        BY <1>2, Running DEF UpdateMetadata, Statements
    <2>2. \A s \in secrets : At(WithMetadata(s, req[o]), s.pid, s.env, s.key)
        BY <2>1, MetadataRow DEF CoreInv, TypeOK
    <2> QED
        BY <1>2, <2>2 DEF UpdateMetadata, At
<1>3. CASE UpdateRow(o) \/ UpdateAfterConflict(o)
    <2>1. secrets' = Overwrite(o) /\ pc[o] \in Writing
        BY <1>3 DEF UpdateRow, UpdateAfterConflict, Writing
    <2> QED
        BY <2>1, WrittenRow DEF Overwrite, Addressed, At
<1>4. CASE InsertRow(o) /\ ~UNCHANGED secrets
    <2>1. secrets' = secrets \cup {NewRow(o)} /\ pc[o] \in Writing /\ ForeignKeyHolds(pid[o])
        BY <1>4 DEF InsertRow, Writing
    <2> QED
        BY <2>1, WrittenRow DEF Addressed, At, Scoped, OnDefinition
<1> QED
    BY <1>1, <1>2, <1>3, <1>4
    DEF Statement, ReadProject, ReadEnvironment, InsertProject, DropProject, SetAllow, Cascade,
        InsertEnvironment, DropEnvironment, ReadRow, DeleteRow, Select, InsertRow, tables

\* A client that gets past the lookups has found its environment.
LEMMA Scoping ==
    ASSUME NoEnvironmentDeletes, CoreInv, EnvironmentInv, NEW p \in Procs, Call(p) \/ Statement(p)
    PROVE  EnvInv(p)'
<1> SUFFICES ASSUME pc'[p] \in Scoped, pid'[p] # 0, req'[p].env # AllEnvs,
                    ForeignKeyHolds(pid[p])'
             PROVE  EnvironmentExists(pid[p], req[p].env)'
    BY DEF EnvInv
<1>0. pid' \in [Procs -> 0..(nextId' - 1)]
    <2>1. CoreInv'
        BY CoreStep DEF Next
    <2> QED
        BY <2>1 DEF CoreInv, TypeOK
<1>1. CASE Call(p)
    <2>1. PICK q \in Requests[p] : pc' = [pc EXCEPT ![p] = First(q)]
        BY <1>1 DEF Call, Goto
    <2>2. pid'[p] = 0
        BY <1>1 DEF Call, CoreInv, LocalInv
    <2> QED
        BY <2>2
<1>2. CASE ReadProject(p)
    <2>1. pc[p] = "project" /\ req[p] \in Requests[p] /\ req[p].op \notin ProjectOps
        BY <1>2, Running DEF ReadProject, LocalInv, Statements
    <2>2. pc'[p] = AfterProject(req[p]) /\ req' = req
        BY <1>2 DEF ReadProject, Goto, Finish, CoreInv, TypeOK, Scoped, OnDefinition, Writing
    <2>3. req[p].op \in EnvOps /\ pc'[p] = Body[req[p].op]
        BY <2>1, <2>2 DEF AfterProject, Scoped, OnDefinition, Writing
    <2> QED
        BY <2>1, <2>3, BodyOf DEF Scoped, OnDefinition, Writing
<1>3. CASE ReadEnvironment(p)
    BY <1>3 DEF ReadEnvironment, EnvironmentExists, tables, Finish, CoreInv, TypeOK, Scoped,
                OnDefinition, Writing
<1>4. CASE pc[p] \in Scoped /\ Statement(p)
    <2>1. UNCHANGED <<pid, req>> /\ pid[p] \in 0..(nextId - 1)
        BY <1>4 DEF Statement, ReadProject, ReadEnvironment, InsertProject, DropProject, SetAllow,
                    InsertEnvironment, DropEnvironment, ReadRow, UpdateMetadata, UpdateRow, InsertRow,
                    UpdateAfterConflict, DeleteRow, Select, Scoped, OnDefinition, Writing,
                    CoreInv, TypeOK
    <2>2. ForeignKeyHolds(pid[p])'  <=> (ForeignKeyHolds(pid[p]))'
        OBVIOUS
    <2> QED
        BY <1>4, <2>1, EnvironmentsStay DEF EnvironmentInv, EnvInv
<1>5. CASE InsertProject(p) \/ DropProject(p) \/ SetAllow(p) \/ InsertEnvironment(p) \/ DropEnvironment(p)
    <2>1. pc'[p] = "done"
        BY <1>5 DEF InsertProject, DropProject, SetAllow, InsertEnvironment, DropEnvironment, Finish,
                    CoreInv, TypeOK
    <2> QED
        BY <2>1 DEF Scoped, OnDefinition, Writing
<1> QED
    BY <1>1, <1>2, <1>3, <1>4, <1>5
    DEF Statement, ReadRow, UpdateMetadata, UpdateRow, InsertRow, UpdateAfterConflict, DeleteRow, Select,
        Scoped, OnDefinition, Writing

\* What another client looked up still holds after a step of o.
LEMMA EnvironmentUndisturbed ==
    ASSUME NoEnvironmentDeletes, CoreInv, NEW o \in Procs, Statement(o) \/ UNCHANGED tables,
           NEW p \in Procs, EnvInv(p), UNCHANGED <<pc[p], req[p], pid[p]>>
    PROVE  EnvInv(p)'
<1> SUFFICES ASSUME pc'[p] \in Scoped, pid'[p] # 0, req'[p].env # AllEnvs,
                    ForeignKeyHolds(pid[p])'
             PROVE  EnvironmentExists(pid[p], req[p].env)'
    BY DEF EnvInv
<1>1. pid[p] \in 0..(nextId - 1) /\ ForeignKeyHolds(pid[p])'
    BY DEF CoreInv, TypeOK
<1>2. ForeignKeyHolds(pid[p]) /\ pid[p] # 0 /\ pc[p] \in Scoped /\ req[p].env # AllEnvs
    BY <1>1, EnvironmentsStay DEF ForeignKeyHolds
<1>3. EnvironmentExists(pid[p], req[p].env)
    BY <1>2 DEF EnvInv
<1>4. [pid |-> pid[p], name |-> req[p].env] \in environments'
    <2> DEFINE id == pid[p]
    <2>1. (\E pr \in projects' : pr.id = id) \/ id = 0
        BY <1>1 DEF ForeignKeyHolds
    <2>2. id \in 0..(nextId - 1) /\ [pid |-> id, name |-> req[p].env] \in environments
        BY <1>1, <1>3 DEF EnvironmentExists
    <2> HIDE DEF id
    <2>3. [pid |-> id, name |-> req[p].env] \in environments'
        BY <2>1, <2>2, EnvironmentsStay DEF EnvironmentExists, ForeignKeyHolds
    <2> QED
        BY <2>3 DEF id
<1> QED
    BY <1>4 DEF EnvironmentExists

\* A step leaves no definition without its environment.
LEMMA EnvironmentNamed ==
    ASSUME NoEnvironmentDeletes, CoreInv, CoreInv', EnvironmentInv, NEW o \in Procs,
           Statement(o) \/ UNCHANGED tables
    PROVE  SecretsNameAnEnvironment'
<1> SUFFICES ASSUME NEW r \in secrets', r.pid # 0, r.env # AllEnvs
             PROVE  EnvironmentExists(r.pid, r.env)'
    BY DEF SecretsNameAnEnvironment, EnvironmentExists
<1>1. ForeignKeyHolds(r.pid)'
    BY DEF CoreInv, NoOrphanedProjectRows, ForeignKeyHolds
<1>2. ASSUME NEW s \in secrets, s.pid = r.pid, s.env = r.env
      PROVE  EnvironmentExists(r.pid, r.env)'
    <2>1. EnvironmentExists(r.pid, r.env)
        BY <1>2 DEF EnvironmentInv, SecretsNameAnEnvironment
    <2>2. r.pid \in 0..(nextId - 1)
        BY <1>2 DEF CoreInv, NoOrphanedProjectRows, ForeignKeyHolds, TypeOK
    <2> QED
        BY <1>1, <2>1, <2>2, EnvironmentsStay
<1>3. CASE UNCHANGED tables
    BY <1>2, <1>3 DEF tables
<1>4. ASSUME Statement(o), pc[o] \in Scoped, ForeignKeyHolds(pid[o]), r.pid = pid[o], r.env = req[o].env
      PROVE  EnvironmentExists(r.pid, r.env)'
    <2>1. EnvironmentExists(r.pid, r.env) /\ r.pid \in 0..(nextId - 1)
        BY <1>4 DEF EnvironmentInv, EnvInv, CoreInv, TypeOK
    <2> QED
        BY <1>1, <2>1, EnvironmentsStay
<1> QED
    BY <1>2, <1>3, <1>4, RowsFrom

\* A client that fails or returns looks nothing up, and the others keep theirs.
LEMMA EnvironmentStep ==
    ASSUME NoEnvironmentDeletes, CoreInv, EnvironmentInv, [Next]_vars
    PROVE  EnvironmentInv'
<1>1. CASE UNCHANGED vars
    BY <1>1 DEF vars, EnvironmentInv, EnvInv, SecretsNameAnEnvironment, EnvironmentExists, ForeignKeyHolds
<1>2. ASSUME NEW o \in Procs, Call(o) \/ Statement(o) \/ Fail(o) \/ Return(o)
      PROVE  EnvironmentInv'
    <2>1. Statement(o) \/ UNCHANGED tables
        BY <1>2 DEF Call, Fail, Return
    <2>2. SecretsNameAnEnvironment'
        BY <2>1, CoreStep, EnvironmentNamed
    <2>3. EnvInv(o)'
        <3>1. CASE Fail(o) \/ Return(o)
            BY <3>1 DEF EnvInv, Fail, Return, Finish, CoreInv, TypeOK, Scoped, OnDefinition, Writing
        <3> QED
            BY <1>2, <3>1, Scoping
    <2>4. ASSUME NEW p \in Procs, p # o PROVE EnvInv(p)'
        <3>1. UNCHANGED <<pc[p], req[p], pid[p]>>
            BY <1>2, <2>4
            DEF Call, Fail, Return, Statement, ReadProject, ReadEnvironment, InsertProject,
                DropProject, SetAllow, InsertEnvironment, DropEnvironment, ReadRow, UpdateMetadata,
                UpdateRow, InsertRow, UpdateAfterConflict, DeleteRow, Select, Goto, Finish,
                CoreInv, TypeOK
        <3> QED
            BY <2>1, <3>1, EnvironmentUndisturbed DEF EnvironmentInv
    <2> QED
        BY <2>2, <2>3, <2>4 DEF EnvironmentInv
<1> QED
    BY <1>1, <1>2 DEF Next

LEMMA Environments ==
    ASSUME NoEnvironmentDeletes
    PROVE  Spec => [](CoreInv /\ EnvironmentInv)
<1>1. Init => EnvironmentInv
    BY DEF Init, EnvironmentInv, EnvInv, SecretsNameAnEnvironment, Scoped, OnDefinition, Writing
<1>2. CoreInv /\ EnvironmentInv /\ [Next]_vars => EnvironmentInv'
    BY EnvironmentStep
<1> QED
    BY <1>1, <1>2, CoreInvariant, PTL DEF Spec

\* Where no environment is deleted, no client ever stores a definition in an
\* environment that is not there, although it looks the environment up several
\* statements before it writes.
THEOREM SecretsHaveEnvironments == NoEnvironmentDeletes => (Spec => []SecretsNameAnEnvironment)
<1> SUFFICES ASSUME NoEnvironmentDeletes PROVE Spec => []SecretsNameAnEnvironment
    OBVIOUS
<1>1. EnvironmentInv => SecretsNameAnEnvironment
    BY DEF EnvironmentInv
<1>2. Spec => [](CoreInv /\ EnvironmentInv)
    BY Environments
<1> QED
    BY <1>1, <1>2, PTL

-----------------------------------------------------------------------------
(***************************************************************************)
(* Which definition of a key is served.                                    *)
(***************************************************************************)

\* The first scope that defines a key wins, whether or not scopes coincide (as
\* they do for no project or no environment).
LEMMA FirstScopeWins ==
    ASSUME CoreInv, NEW id \in Nat, NEW env, NEW key, NEW i \in 1..4,
           DefinedIn(ScopesInOrder(id, env)[i], key) # {},
           \A j \in 1..(i - 1) : DefinedIn(ScopesInOrder(id, env)[j], key) = {}
    PROVE  \A r : r \in Effective(id, env) /\ r.key = key <=>
                        r \in DefinedIn(ScopesInOrder(id, env)[i], key)
<1> DEFINE D(k) == DefinedIn(ScopesInOrder(id, env)[k], key)
           A == {r \in Applicable(id, env) : r.key = key}
<1>1. /\ D(1) = {r \in secrets : r.pid = id /\ r.env = env /\ r.key = key}
      /\ D(2) = {r \in secrets : r.pid = id /\ r.env = AllEnvs /\ r.key = key}
      /\ D(3) = {r \in secrets : r.pid = 0 /\ r.env = env /\ r.key = key}
      /\ D(4) = {r \in secrets : r.pid = 0 /\ r.env = AllEnvs /\ r.key = key}
    BY DEF DefinedIn, ScopesInOrder, At
<1>2. A = D(1) \cup D(2) \cup D(3) \cup D(4)
    BY <1>1 DEF Applicable
<1>3. \A r : r \in Effective(id, env) /\ r.key = key <=> r \in {x \in A : \A s \in A : Priority(s) <= Priority(x)}
    BY DEF Effective
<1>4. D(i) # {} /\ \A j \in 1..(i - 1) : D(j) = {}
    OBVIOUS
<1> HIDE DEF D, A
<1>5. CASE i = 1
    <2>1. \A r \in D(1), s \in A : Priority(s) <= Priority(r)
        BY <1>1, <1>2 DEF Priority
    <2>2. \A r \in D(1), s \in A : Priority(r) <= Priority(s) => s \in D(1)
        BY <1>1, <1>2 DEF Priority
    <2>3. {r \in A : \A s \in A : Priority(s) <= Priority(r)} = D(1)
        BY <1>2, <1>4, <1>5, <2>1, <2>2
    <2> QED
        BY <1>3, <1>5, <2>3 DEF D
<1>6. CASE i = 2
    <2>0. D(1) = {}
        BY <1>4, <1>6
    <2>1. \A r \in D(2), s \in A : Priority(s) <= Priority(r)
        BY <1>1, <1>2, <2>0 DEF Priority
    <2>2. \A r \in D(2), s \in A : Priority(r) <= Priority(s) => s \in D(2)
        BY <1>1, <1>2, <2>0 DEF Priority
    <2>3. {r \in A : \A s \in A : Priority(s) <= Priority(r)} = D(2)
        BY <1>2, <1>4, <1>6, <2>1, <2>2
    <2> QED
        BY <1>3, <1>6, <2>3 DEF D
<1>7. CASE i = 3
    <2>0. D(1) = {} /\ D(2) = {}
        BY <1>4, <1>7
    <2>1. \A r \in D(3), s \in A : Priority(s) <= Priority(r)
        BY <1>1, <1>2, <2>0 DEF Priority
    <2>2. \A r \in D(3), s \in A : Priority(r) <= Priority(s) => s \in D(3)
        BY <1>1, <1>2, <2>0 DEF Priority
    <2>3. {r \in A : \A s \in A : Priority(s) <= Priority(r)} = D(3)
        BY <1>2, <1>4, <1>7, <2>1, <2>2
    <2> QED
        BY <1>3, <1>7, <2>3 DEF D
<1>8. CASE i = 4
    <2>0. D(1) = {} /\ D(2) = {} /\ D(3) = {}
        BY <1>4, <1>8
    <2>1. \A r \in A, s \in A : Priority(s) <= Priority(r)
        BY <1>1, <1>2, <2>0 DEF Priority
    <2>3. {r \in A : \A s \in A : Priority(s) <= Priority(r)} = D(4)
        BY <1>2, <2>0, <2>1
    <2> QED
        BY <1>3, <1>8, <2>3 DEF D
<1> QED
    BY <1>5, <1>6, <1>7, <1>8

LEMMA ScopeWins == CoreInv => MostSpecificScopeWins
<1> SUFFICES ASSUME CoreInv, NEW id \in {pr.id : pr \in projects} \cup {0},
                    NEW env \in Envs \cup {AllEnvs}, NEW key \in Keys
             PROVE  LET scopes == ScopesInOrder(id, env)
                        won    == {r \in Effective(id, env) : r.key = key} IN
                    \/ /\ won = {}
                       /\ \A i \in 1..4 : DefinedIn(scopes[i], key) = {}
                    \/ \E i \in 1..4 :
                          /\ won = DefinedIn(scopes[i], key) /\ Cardinality(won) = 1
                          /\ \A j \in 1..(i - 1) : DefinedIn(scopes[j], key) = {}
    BY DEF MostSpecificScopeWins
<1> DEFINE D(k) == DefinedIn(ScopesInOrder(id, env)[k], key)
           won == {r \in Effective(id, env) : r.key = key}
<1>1. id \in Nat
    BY DEF CoreInv, TypeOK
<1>2. \A i \in 1..4 : \A r, s \in D(i) : r = s
    BY DEF DefinedIn, CoreInv, OneDefinitionPerScope, At
<1>3. CASE \A i \in 1..4 : D(i) = {}
    <2>1. \A r \in Applicable(id, env) : r.key = key => \E i \in 1..4 : r \in D(i)
        BY DEF Applicable, DefinedIn, ScopesInOrder, At
    <2>2. won = {}
        BY <1>3, <2>1 DEF Effective
    <2> QED
        BY <1>3, <2>2
<1>4. ASSUME NEW i \in 1..4, D(i) # {}, \A j \in 1..(i - 1) : D(j) = {}
      PROVE  won = D(i) /\ Cardinality(won) = 1
    <2>0. /\ DefinedIn(ScopesInOrder(id, env)[i], key) # {}
          /\ \A j \in 1..(i - 1) : DefinedIn(ScopesInOrder(id, env)[j], key) = {}
        BY <1>4
    <2>1. \A r : r \in Effective(id, env) /\ r.key = key <=>
                     r \in DefinedIn(ScopesInOrder(id, env)[i], key)
        BY <1>1, <2>0, FirstScopeWins
    <2>2. PICK r \in D(i) : TRUE
        BY <1>4
    <2>3. D(i) = {r}
        BY <1>2, <2>2
    <2> QED
        BY <2>1, <2>3, FS_Singleton
<1>5. CASE \E i \in 1..4 : D(i) # {}
    <2>1. \E i \in 1..4 : D(i) # {} /\ \A j \in 1..(i - 1) : D(j) = {}
        <3> HIDE DEF D
        <3> QED
            BY <1>5
    <2>2. PICK i \in 1..4 : D(i) # {} /\ \A j \in 1..(i - 1) : D(j) = {}
        BY <2>1
    <2>3. won = D(i) /\ Cardinality(won) = 1
        BY <1>4, <2>2
    <2> QED
        BY <2>2, <2>3
<1> QED
    BY <1>3, <1>5

\* A reader is given each key from the first of its four scopes that defines it,
\* and never two definitions of one key, whatever the clients do meanwhile.
THEOREM NarrowestScopeServed == Spec => []MostSpecificScopeWins
BY ScopeWins, CoreInvariant, PTL

-----------------------------------------------------------------------------
(***************************************************************************)
(* The mapping.                                                            *)
(***************************************************************************)

\* A client's operation moves as its statements do.
LEMMA Moving ==
    ASSUME CoreInv, NEW p \in Procs, NEW s, pc' = [pc EXCEPT ![p] = s],
           NEW from, NEW to, Phase(p) = from, Phase(p)' = to
    PROVE  Atomic!Moves(p, from, to)
<1>1. \A o \in Procs : o # p => pc'[o] = pc[o]
    BY DEF CoreInv, TypeOK
<1>2. \A o \in Procs : o # p => Phase(o)' = Phase(o)
    BY <1>1 DEF Phase
<1> QED
    BY <1>2 DEF Atomic!Moves

\* A client that moves on within its operation does nothing that is seen.
LEMMA Within ==
    ASSUME CoreInv, NEW p \in Procs, NEW s \in Statements \ {"project", "conflict"},
           pc[p] \in Statements \ {"project", "conflict"}, pc' = [pc EXCEPT ![p] = s],
           UNCHANGED <<tables, req, pid, out, ret>>
    PROVE  UNCHANGED Atomic!vars
<1>1. \A o \in Procs : o # p => pc'[o] = pc[o]
    BY DEF CoreInv, TypeOK
<1>2. pc'[p] = s
    BY DEF CoreInv, TypeOK
<1>3. Phase(p) = "bound" /\ Phase(p)' = "bound"
    BY <1>2 DEF Phase, Statements
<1>4. \A o \in Procs : Phase(o)' = Phase(o)
    BY <1>1, <1>3 DEF Phase
<1> QED
    BY <1>4 DEF Atomic!vars, tables

\* The definitions a client's operation addresses, seen from outside.
LEMMA Seen ==
    ASSUME NEW p \in Procs
    PROVE  Atomic!Addressed(req[p], pid[p]) = {Decoded(r) : r \in Definitions(p)}
BY DEF Atomic!Addressed, Atomic!InScope, Definitions, Addressed, At, Decoded

LEMMA SameChecks ==
    ASSUME NEW q, NEW v
    PROVE  /\ Atomic!HintAccepted(q, v) <=> HintAccepted(q.hint, v)
           /\ Atomic!Accepted(q) <=> Accepted(q)
BY DEF Atomic!HintAccepted, HintAccepted, Atomic!Accepted, Accepted, MetaAccepted, Atomic!MetaAccepted

-----------------------------------------------------------------------------
(***************************************************************************)
(* What a client knows, beyond the invariants of the other proofs.         *)
(***************************************************************************)

\* The operation a statement belongs to; an edit that is about to write its
\* metadata still has its definition, one that is about to insert has lost its
\* project.
ReadyInv(p) ==
    /\ pc[p] = "insertProject" => req[p].op = "CreateProject"
    /\ pc[p] = "dropProject" => req[p].op = "DeleteProject"
    /\ pc[p] = "setAllow" => req[p].op \in {"SetAllowExecute", "SetAllowOpen"}
    /\ pc[p] = "insertEnv" => req[p].op = "CreateEnvironment"
    /\ pc[p] = "select" => req[p].op \in {"Resolve", "ScopeEntries"}
    /\ pc[p] = "conflict" => req[p].op = "Put"
    /\ pc[p] # "done" => out[p] = {}
    /\ pc[p] \in Unscoped => pid[p] = 0
    /\ pc[p] = "updateMeta" /\ ForeignKeyHolds(pid[p]) => Definitions(p) # {}
    /\ pc[p] = "insert" /\ req[p].op = "SetMetadata" => ~ForeignKeyHolds(pid[p])

RefinementInv ==
    /\ CoreInv /\ SafeEditInv /\ EnvironmentInv
    /\ \A p \in Procs : ReadyInv(p)

LEMMA ReadyUndisturbed ==
    ASSUME EditsAlone, CoreInv, NEW p \in Procs, NEW o \in Procs, p # o, ReadyInv(p),
           Statement(o) \/ UNCHANGED tables,
           UNCHANGED <<pc[p], req[p], pid[p], out[p]>>
    PROVE  ReadyInv(p)'
<1>1. ASSUME Editing(p)
      PROVE  ForeignKeyHolds(pid[p])' =>
                 Definitions(p) \subseteq Definitions(p)' /\ ForeignKeyHolds(pid[p])
    <2>1. CASE Statement(o)
        BY <1>1, <2>1, DefinitionStays
    <2>2. CASE UNCHANGED tables
        BY <2>2 DEF tables, Definitions, Addressed, ForeignKeyHolds
    <2> QED
        BY <2>1, <2>2
<1>2. pc[p] = "updateMeta" => Editing(p)
    BY Running DEF Editing, OnDefinition, LocalInv, Statements
<1>3. pc[p] = "insert" /\ req[p].op = "SetMetadata" => Editing(p)
    BY DEF Editing, OnDefinition, Writing
<1>4. (pc[p] = "updateMeta" /\ ForeignKeyHolds(pid[p]))' => Definitions(p)' # {}
    BY <1>1, <1>2 DEF ReadyInv
<1>5. (pc[p] = "insert" /\ req[p].op = "SetMetadata")' => ~ForeignKeyHolds(pid[p])'
    BY <1>1, <1>3 DEF ReadyInv
<1> QED
    BY <1>4, <1>5 DEF ReadyInv

\* A client at the first statement of its operation's body.
LEMMA ReadyForBody ==
    ASSUME NEW p \in Procs, NEW q \in Requests[p], q.op \notin ProjectOps,
           pc'[p] = Body[q.op], req'[p] = q, out'[p] = {}
    PROVE  ReadyInv(p)'
<1>1. q \in Request
    BY ConstantsAssumption
<1>2. Body[q.op] = "insertEnv" => q.op = "CreateEnvironment"
    BY <1>1 DEF Request, Body, ScopeOps, EnvOps, ProjectOps
<1>3. Body[q.op] = "select" => q.op \in {"Resolve", "ScopeEntries"}
    BY <1>1 DEF Request, Body, ScopeOps, EnvOps, ProjectOps
<1>4. Body[q.op] \notin Unscoped \cup {"environment", "updateMeta", "insert", "conflict", "done"}
    BY BodyOf DEF Statements
<1> QED
    BY <1>2, <1>3, <1>4 DEF ReadyInv, Unscoped

LEMMA ReadyCall ==
    ASSUME CoreInv, NEW p \in Procs, Call(p), ReadyInv(p)
    PROVE  ReadyInv(p)'
<1>1. PICK q \in Requests[p] : pc'[p] = First(q) /\ req'[p] = q
    BY DEF Call, Goto, CoreInv, TypeOK
<1>2. out'[p] = {} /\ pid'[p] = 0
    BY DEF Call, ReadyInv, CoreInv, LocalInv
<1>3. CASE q.op \in ProjectOps
    BY <1>1, <1>2, <1>3 DEF First, BySlug, ProjectOps, ReadyInv
<1>4. CASE q.op \notin ProjectOps /\ q.slug # Shared
    BY <1>1, <1>2, <1>4 DEF First, ReadyInv
<1>5. CASE q.op \notin ProjectOps /\ q.slug = Shared
    BY <1>1, <1>2, <1>5, ReadyForBody DEF First
<1> QED
    BY <1>3, <1>4, <1>5

LEMMA ReadyFinished ==
    ASSUME NEW p \in Procs, pc'[p] = "done"
    PROVE  ReadyInv(p)'
BY DEF ReadyInv, Unscoped

LEMMA ReadyStatement ==
    ASSUME CoreInv, SafeEditInv, NEW p \in Procs, Statement(p), ReadyInv(p)
    PROVE  ReadyInv(p)'
<1>1. CASE pc'[p] = "done"
    BY <1>1, ReadyFinished
<1> SUFFICES ASSUME pc'[p] # "done" PROVE ReadyInv(p)'
    BY <1>1
<1>2. CASE ReadProject(p)
    <2>1. /\ pc[p] = "project" /\ req[p] \in Requests[p] /\ req[p].op \notin ProjectOps
          /\ out'[p] = {} /\ req' = req
        BY <1>2, Running DEF ReadProject, LocalInv, Statements, ReadyInv
    <2>2. pc'[p] = AfterProject(req[p])
        BY <1>2 DEF ReadProject, Goto, Finish, CoreInv, TypeOK
    <2>3. CASE pc'[p] = "environment"
        BY <2>1, <2>3 DEF ReadyInv, Unscoped
    <2>4. CASE pc'[p] = Body[req[p].op]
        BY <2>1, <2>4, ReadyForBody
    <2> QED
        BY <2>2, <2>3, <2>4 DEF AfterProject
<1>3. CASE ReadEnvironment(p)
    <2>1. /\ pc[p] = "environment" /\ req[p] \in Requests[p] /\ req[p].op \notin ProjectOps
          /\ out'[p] = {} /\ req' = req
        BY <1>3, Running DEF ReadEnvironment, LocalInv, Statements, ReadyInv, ScopeOps, ProjectOps
    <2>2. pc'[p] = Body[req[p].op]
        BY <1>3 DEF ReadEnvironment, Goto, Finish, CoreInv, TypeOK
    <2> QED
        BY <2>1, <2>2, ReadyForBody
<1>4. CASE ReadRow(p)
    <2>1. pc[p] = "read" /\ out'[p] = {} /\ UNCHANGED <<tables, req, pid>>
        BY <1>4 DEF ReadRow, ReadyInv
    <2>2. Definitions(p)' = Definitions(p) /\ Definitions(p) # {}
          /\ pc'[p] \in {"updateMeta", "update"}
        BY <1>4, <2>1 DEF ReadRow, tables, Definitions, Addressed, Goto, Finish, CoreInv, TypeOK
    <2> QED
        BY <2>1, <2>2 DEF ReadyInv, Unscoped
<1>5. CASE UpdateRow(p)
    <2>1. /\ pc[p] = "update" /\ pc'[p] = "insert" /\ Definitions(p) = {}
          /\ out'[p] = {} /\ UNCHANGED <<projects, req, pid>>
        BY <1>5 DEF UpdateRow, ReadyInv, Goto, Finish, CoreInv, TypeOK
    <2>2. req[p].op = "SetMetadata" => ~ForeignKeyHolds(pid[p])
        BY <2>1 DEF SafeEditInv, EditInv, Writing
    <2> QED
        BY <2>1, <2>2 DEF ReadyInv, Unscoped, ForeignKeyHolds
<1>6. CASE InsertRow(p)
    <2>1. /\ pc[p] = "insert" /\ pc'[p] = "conflict" /\ Definitions(p) # {}
          /\ out'[p] = {} /\ UNCHANGED <<req, pid>>
        BY <1>6 DEF InsertRow, UniqueViolation, ReadyInv, Goto, Finish, CoreInv, TypeOK
    <2>2. ForeignKeyHolds(pid[p])
        BY <2>1 DEF Definitions, Addressed, At, CoreInv, NoOrphanedProjectRows
    <2>3. req[p].op \in {"Put", "SetMetadata"}
        BY <2>1, Running DEF LocalInv, Writing, Statements
    <2>4. req'[p].op = "Put"
        BY <2>1, <2>2, <2>3 DEF ReadyInv
    <2> QED
        BY <2>1, <2>4 DEF ReadyInv, Unscoped
<1> QED
    BY <1>2, <1>3, <1>4, <1>5, <1>6
    DEF Statement, InsertProject, DropProject, SetAllow, InsertEnvironment, DropEnvironment,
        UpdateMetadata, UpdateAfterConflict, DeleteRow, Select, Finish, CoreInv, TypeOK

LEMMA ReadyStep ==
    ASSUME EditsAlone, RefinementInv, [Next]_vars
    PROVE  \A p \in Procs : ReadyInv(p)'
<1>1. CASE UNCHANGED vars
    BY <1>1 DEF vars, RefinementInv, ReadyInv, Definitions, Addressed, ForeignKeyHolds
<1>2. ASSUME NEW o \in Procs, Call(o) \/ Statement(o) \/ Fail(o) \/ Return(o)
      PROVE  \A p \in Procs : ReadyInv(p)'
    <2>1. ReadyInv(o)'
        <3>1. CASE Fail(o)
            BY <3>1, ReadyFinished DEF Fail, Finish, RefinementInv, CoreInv, TypeOK
        <3>2. CASE Return(o)
            <4>1. pc'[o] = "idle" /\ out'[o] = {}
                BY <3>2 DEF Return, RefinementInv, CoreInv, TypeOK
            <4> QED
                BY <4>1 DEF ReadyInv, Unscoped
        <3> QED
            BY <1>2, <3>1, <3>2, ReadyCall, ReadyStatement DEF RefinementInv
    <2>2. ASSUME NEW p \in Procs, p # o PROVE ReadyInv(p)'
        <3>1. UNCHANGED <<pc[p], req[p], pid[p], value[p]>>
            BY <1>2, <2>2, OtherLocals DEF RefinementInv
        <3>2. UNCHANGED out[p]
            BY <1>2, <2>2
            DEF Call, Fail, Return, Statement, ReadProject, ReadEnvironment, InsertProject,
                DropProject, SetAllow, InsertEnvironment, DropEnvironment, ReadRow, UpdateMetadata,
                UpdateRow, InsertRow, UpdateAfterConflict, DeleteRow, Select, RefinementInv,
                CoreInv, TypeOK
        <3>3. Statement(o) \/ UNCHANGED tables
            BY <1>2 DEF Call, Fail, Return
        <3> QED
            BY <2>2, <3>1, <3>2, <3>3, ReadyUndisturbed DEF RefinementInv
    <2> QED
        BY <2>1, <2>2
<1> QED
    BY <1>1, <1>2 DEF Next

LEMMA RefinementInvariant ==
    ASSUME EditsAlone, NoEnvironmentDeletes
    PROVE  Spec => []RefinementInv
<1>1. Init => RefinementInv
    <2>1. Init => EnvironmentInv
        BY DEF Init, EnvironmentInv, EnvInv, SecretsNameAnEnvironment, Scoped, OnDefinition, Writing
    <2>2. Init => \A p \in Procs : ReadyInv(p)
        BY DEF Init, ReadyInv, Unscoped
    <2> QED
        BY <2>1, <2>2, CoreInit, EditInit DEF RefinementInv
<1>2. RefinementInv /\ [Next]_vars => RefinementInv'
    BY CoreStep, EditStep, EnvironmentStep, ReadyStep DEF RefinementInv
<1> QED
    BY <1>1, <1>2, PTL DEF Spec

-----------------------------------------------------------------------------
(***************************************************************************)
(* The statement that ends an operation is the step in which it takes      *)
(* effect.                                                                 *)
(***************************************************************************)
Bound == Statements \ {"project", "conflict"}
Readers == {"Resolve", "ScopeEntries"}

LEMMA Ending ==
    ASSUME CoreInv, NEW p \in Procs, pc[p] \in Bound, NEW r \in Atomic!Results, Finish(p, r),
           UNCHANGED <<req, pid>>, Atomic!Ends(req[p], pid[p], r),
           out' = [out EXCEPT ![p] = IF r = "ok" THEN Atomic!Answer(req[p], pid[p]) ELSE {}]
    PROVE  Atomic!Effect(p)
<1>1. pc' = [pc EXCEPT ![p] = "done"] /\ ret' = [ret EXCEPT ![p] = r] /\ pc'[p] = "done"
    BY DEF Finish, CoreInv, TypeOK
<1>2. Phase(p) = "bound" /\ Phase(p)' = "done"
    BY <1>1 DEF Phase, Bound, Statements
<1>3. Atomic!Moves(p, "bound", "done")
    BY <1>1, <1>2, Moving
<1> QED
    BY <1>1, <1>3 DEF Atomic!Effect

\* The tables as they are seen from outside.
LEMMA SameVault == UNCHANGED tables => UNCHANGED Atomic!vault
BY DEF tables, Atomic!vault

\* An operation that is refused, or fails.
LEMMA Refusing ==
    ASSUME RefinementInv, NEW p \in Procs, pc[p] \in Bound,
           NEW r \in Atomic!Refusals \cup {"error"}, Finish(p, r),
           UNCHANGED <<tables, req, pid, out>>,
           r = "error" \/ Atomic!Refused(req[p], pid[p], r)
    PROVE  Atomic!Effect(p)
<1>1. r \in Atomic!Results /\ r # "ok"
    BY DEF Atomic!Results, Atomic!Refusals
<1>2. Atomic!Ends(req[p], pid[p], r)
    BY SameVault DEF Atomic!Ends
<1>3. out[p] = {} /\ out \in [Procs -> SUBSET Entry]
    BY DEF RefinementInv, ReadyInv, CoreInv, TypeOK, Bound, Statements
<1>4. out' = [out EXCEPT ![p] = IF r = "ok" THEN Atomic!Answer(req[p], pid[p]) ELSE {}]
    BY <1>1, <1>3
<1> QED
    BY <1>1, <1>2, <1>4, Ending DEF RefinementInv

\* A write that takes effect, or whose project is gone.
LEMMA Applying ==
    ASSUME RefinementInv, NEW p \in Procs, pc[p] \in Bound, Finish(p, "ok"),
           UNCHANGED <<req, pid, out>>, req[p].op \notin Readers,
           \/ Atomic!TakesEffect(req[p], pid[p])
           \/ Atomic!FindsNothing(req[p], pid[p])
    PROVE  Atomic!Effect(p)
<1>1. "ok" \in Atomic!Results
    BY DEF Atomic!Results
<1>2. Atomic!Ends(req[p], pid[p], "ok")
    BY DEF Atomic!Ends
<1>3. out[p] = {} /\ out \in [Procs -> SUBSET Entry]
    BY DEF RefinementInv, ReadyInv, CoreInv, TypeOK, Bound, Statements
<1>4. Atomic!Answer(req[p], pid[p]) = {}
    BY DEF Atomic!Answer, Readers
<1>5. out' = [out EXCEPT ![p] = IF "ok" = "ok" THEN Atomic!Answer(req[p], pid[p]) ELSE {}]
    BY <1>3, <1>4
<1> QED
    BY <1>1, <1>2, <1>5, Ending DEF RefinementInv

\* A project is gone when a foreign key to it fails, and then nothing of it is
\* left.
LEMMA GoneMeans ==
    ASSUME CoreInv, NEW p \in Procs
    PROVE  /\ Atomic!Gone(pid[p]) <=> ~ForeignKeyHolds(pid[p])
           /\ Definitions(p) # {} => ForeignKeyHolds(pid[p])
BY DEF Atomic!Gone, ForeignKeyHolds, Definitions, Addressed, At, CoreInv, NoOrphanedProjectRows

\* Nothing refuses an operation on a definition that has its row, its hint and
\* its environment.
LEMMA NotRefused ==
    ASSUME RefinementInv, NEW p \in Procs, pc[p] \in Scoped, ForeignKeyHolds(pid[p]),
           req[p].op \in {"SetMetadata", "DeleteSecret"} => Definitions(p) # {},
           req[p].op = "SetMetadata" =>
               \A r \in Definitions(p) : HintAccepted(req[p].hint, ValueOf(r))
    PROVE  \A r \in Atomic!Refusals : ~Atomic!Refused(req[p], pid[p], r)
<1>1. req[p].op \in ScopeOps
    <2>1. pc[p] \in Statements
        BY DEF Scoped, OnDefinition, Writing, Statements
    <2> QED
        BY <2>1, Running DEF RefinementInv, ReadyInv, LocalInv, Scoped, ScopeOps
<1>2. pid[p] # 0 /\ req[p].env # AllEnvs => EnvironmentExists(pid[p], req[p].env)
    BY DEF RefinementInv, EnvironmentInv, EnvInv
<1>3. ~Atomic!Refused(req[p], pid[p], "ErrEnvironmentNotFound")
    BY <1>2 DEF Atomic!Refused, Atomic!HasEnvironment, EnvironmentExists
<1>4. ~Atomic!Refused(req[p], pid[p], "ErrSecretNotFound")
    BY Seen DEF Atomic!Refused
<1>5. ~Atomic!Refused(req[p], pid[p], "ErrInvalidMetadata")
    <2>1. ASSUME req[p].op = "SetMetadata", NEW d \in Atomic!Addressed(req[p], pid[p])
          PROVE  Atomic!HintAccepted(req[p], d.value)
        <3>1. PICK r \in Definitions(p) : d = Decoded(r)
            BY <2>1, Seen
        <3> QED
            BY <2>1, <3>1 DEF Decoded, Atomic!HintAccepted, HintAccepted
    <2> QED
        BY <2>1 DEF Atomic!Refused
<1>6. ~Atomic!Refused(req[p], pid[p], "ErrDuplicate")
      /\ ~Atomic!Refused(req[p], pid[p], "ErrProjectNotFound")
    BY <1>1 DEF Atomic!Refused, ScopeOps, Atomic!ProjectOps
<1> QED
    BY <1>3, <1>4, <1>5, <1>6 DEF Atomic!Refusals

-----------------------------------------------------------------------------
(***************************************************************************)
(* Calls, lookups and results.                                             *)
(***************************************************************************)
LEMMA AtomicCall ==
    ASSUME CoreInv, NEW p \in Procs, Call(p)
    PROVE  Atomic!Call(p)
<1>1. PICK q \in Requests[p] :
        /\ pc[p] = "idle" /\ Accepted(q)
        /\ req' = [req EXCEPT ![p] = q]
        /\ pc' = [pc EXCEPT ![p] = First(q)] /\ UNCHANGED <<tables, pid, out, ret>>
    BY DEF Call, Goto
<1>2. q \in Request /\ pc'[p] = First(q) /\ Phase(p) = "idle"
    BY <1>1, ConstantsAssumption DEF CoreInv, TypeOK, Phase
<1>3. Phase(p)' = IF Atomic!Binds(q, 0) THEN "bound" ELSE "called"
    <2>1. CASE q.op \in ProjectOps
        <3>1. pc'[p] \in Bound
            BY <1>2, <2>1 DEF First, BySlug, ProjectOps, Bound, Statements
        <3> QED
            BY <2>1, <3>1 DEF Atomic!Binds, Atomic!ProjectOps, ProjectOps, Phase, Bound, Statements
    <2>2. CASE q.op \notin ProjectOps /\ q.slug = Shared
        <3>1. pc'[p] \in Bound
            BY <1>2, <2>2, BodyOf DEF First, Bound, Unscoped
        <3> QED
            BY <2>2, <3>1 DEF Atomic!Binds, Phase, Bound, Statements
    <2>3. CASE q.op \notin ProjectOps /\ q.slug # Shared
        <3>1. pc'[p] = "project"
            BY <1>2, <2>3 DEF First
        <3>2. ~Atomic!Binds(q, 0)
            BY <2>3 DEF Atomic!Binds, Atomic!Named, Atomic!ProjectOps, ProjectOps, CoreInv, TypeOK
        <3> QED
            BY <3>1, <3>2 DEF Phase
    <2> QED
        BY <2>1, <2>2, <2>3
<1>4. Atomic!Moves(p, "idle", IF Atomic!Binds(q, 0) THEN "bound" ELSE "called")
    BY <1>1, <1>2, <1>3, Moving
<1> QED
    BY <1>1, <1>4, SameChecks, SameVault DEF Atomic!Call

LEMMA AtomicBind ==
    ASSUME CoreInv, NEW p \in Procs, ReadProject(p)
    PROVE  Atomic!Bind(p) \/ Atomic!FailToBind(p)
<1>1. pc[p] = "project" /\ UNCHANGED <<tables, req, out>> /\ Phase(p) = "called"
    BY DEF ReadProject, Phase
<1>2. req[p] \in Requests[p] /\ req[p].op \notin ProjectOps
    BY <1>1, Running DEF LocalInv, Statements
<1>3. ASSUME NEW pr \in projects, pr.slug = req[p].slug, pid' = [pid EXCEPT ![p] = pr.id],
             Goto(p, AfterProject(req[p]))
      PROVE  Atomic!Bind(p)
    <2>1. pc' = [pc EXCEPT ![p] = AfterProject(req[p])] /\ pc'[p] = AfterProject(req[p])
          /\ UNCHANGED ret
        BY <1>3 DEF Goto, CoreInv, TypeOK
    <2>2. pc'[p] \in Bound
        BY <1>2, <2>1, BodyOf DEF AfterProject, Bound, Unscoped, Statements
    <2>3. Phase(p)' = "bound"
        BY <2>2 DEF Phase, Bound, Statements
    <2>4. Atomic!Moves(p, "called", "bound")
        BY <1>1, <2>1, <2>3, Moving
    <2> QED
        BY <1>1, <1>3, <2>1, <2>4, SameVault DEF Atomic!Bind, Atomic!Named
<1>4. ASSUME \A pr \in projects : pr.slug # req[p].slug, Finish(p, "ErrProjectNotFound"),
             UNCHANGED pid
      PROVE  Atomic!FailToBind(p)
    <2>1. pc' = [pc EXCEPT ![p] = "done"] /\ ret' = [ret EXCEPT ![p] = "ErrProjectNotFound"]
          /\ pc'[p] = "done"
        BY <1>4 DEF Finish, CoreInv, TypeOK
    <2>2. Atomic!Moves(p, "called", "done")
        BY <1>1, <2>1, Moving DEF Phase
    <2>3. Atomic!Named(req[p].slug) = {}
        BY <1>4 DEF Atomic!Named
    <2> QED
        BY <1>1, <1>4, <2>1, <2>2, <2>3, SameVault DEF Atomic!FailToBind
<1> QED
    BY <1>3, <1>4 DEF ReadProject

LEMMA AtomicEnvironment ==
    ASSUME RefinementInv, NEW p \in Procs, ReadEnvironment(p)
    PROVE  Atomic!Effect(p) \/ UNCHANGED Atomic!vars
<1>1. /\ pc[p] = "environment" /\ pc[p] \in Bound
      /\ UNCHANGED <<tables, req, pid, out>>
    BY DEF ReadEnvironment, Bound, Statements
<1>2. /\ req[p] \in Requests[p] /\ req[p].op \in ScopeOps /\ pid[p] # 0
      /\ req[p].env \in Envs
    BY <1>1, Running DEF LocalInv, RefinementInv, Bound
<1>3. CASE EnvironmentExists(pid[p], req[p].env)
    <2>1. Goto(p, Body[req[p].op])
        BY <1>3 DEF ReadEnvironment
    <2>2. req[p].op \notin ProjectOps
        BY <1>2 DEF ScopeOps, ProjectOps
    <2>3. Body[req[p].op] \in Bound
        BY <1>2, <2>2, BodyOf DEF Bound, Unscoped
    <2> QED
        BY <1>1, <2>1, <2>3, Within DEF RefinementInv, Bound, Goto
<1>4. CASE ~EnvironmentExists(pid[p], req[p].env)
    <2>1. Finish(p, "ErrEnvironmentNotFound")
        BY <1>4 DEF ReadEnvironment
    <2>2. Atomic!Refused(req[p], pid[p], "ErrEnvironmentNotFound")
        BY <1>2, <1>4, ConstantsAssumption
        DEF Atomic!Refused, Atomic!HasEnvironment, EnvironmentExists, ScopeOps, Atomic!ScopeOps
    <2> QED
        BY <1>1, <2>1, <2>2, Refusing DEF Atomic!Refusals
<1> QED
    BY <1>3, <1>4

LEMMA AtomicFail ==
    ASSUME RefinementInv, NEW p \in Procs, Fail(p)
    PROVE  Atomic!FailToBind(p) \/ Atomic!Overwrites(p) \/ Atomic!Effect(p)
<1>1. pc[p] \in Statements /\ Finish(p, "error") /\ UNCHANGED <<tables, req, pid, out>>
    BY DEF Fail
<1>2. pc' = [pc EXCEPT ![p] = "done"] /\ ret' = [ret EXCEPT ![p] = "error"]
      /\ pc'[p] = "done" /\ Phase(p)' = "done"
    BY <1>1 DEF Finish, RefinementInv, CoreInv, TypeOK, Phase
<1>3. CASE pc[p] = "project"
    <2>1. Atomic!Moves(p, "called", "done")
        BY <1>2, <1>3, Moving DEF Phase, RefinementInv
    <2> QED
        BY <1>1, <1>2, <2>1, SameVault DEF Atomic!FailToBind
<1>4. CASE pc[p] = "conflict"
    <2>1. Atomic!Moves(p, "overtaken", "done")
        BY <1>2, <1>4, Moving DEF Phase, RefinementInv
    <2> QED
        BY <1>1, <1>2, <2>1, SameVault DEF Atomic!Overwrites
<1>5. CASE pc[p] \in Bound
    BY <1>1, <1>5, Refusing
<1> QED
    BY <1>1, <1>3, <1>4, <1>5 DEF Bound

LEMMA AtomicReturn ==
    ASSUME CoreInv, NEW p \in Procs, Return(p)
    PROVE  Atomic!Return(p)
<1>1. pc[p] = "done" /\ pc' = [pc EXCEPT ![p] = "idle"] /\ pc'[p] = "idle"
    BY DEF Return, CoreInv, TypeOK
<1>2. Atomic!Moves(p, "done", "idle")
    BY <1>1, Moving DEF Phase
<1> QED
    BY <1>2, SameVault DEF Return, Atomic!Return, NoRequest, Atomic!NoRequest

-----------------------------------------------------------------------------
(***************************************************************************)
(* Projects and environments.                                              *)
(***************************************************************************)

\* Project operations are bound to no project.
LEMMA ProjectOperation ==
    ASSUME RefinementInv, NEW p \in Procs, pc[p] \in {"insertProject", "dropProject", "setAllow"}
    PROVE  /\ pc[p] \in Bound /\ pid[p] = 0 /\ ~Atomic!Gone(pid[p])
           /\ req[p].op \in ProjectOps \ (ScopeOps \cup EnvOps) /\ req[p].op \notin Readers
<1>1. pc[p] \in Bound /\ pid[p] = 0
    BY DEF Bound, Statements, RefinementInv, ReadyInv, Unscoped
<1>2. req[p].op \in ProjectOps
    BY <1>1, Running DEF RefinementInv, LocalInv, Unscoped, Bound
<1> QED
    BY <1>1, <1>2 DEF Atomic!Gone, ProjectOps, ScopeOps, EnvOps, Readers

LEMMA AtomicInsertProject ==
    ASSUME RefinementInv, NEW p \in Procs, InsertProject(p)
    PROVE  Atomic!Effect(p)
<1>1. /\ pc[p] = "insertProject" /\ req[p].op = "CreateProject"
      /\ UNCHANGED <<environments, secrets, req, pid, out>>
    BY DEF InsertProject, RefinementInv, ReadyInv
<1>2. CASE Finish(p, "ErrDuplicate") /\ UNCHANGED <<projects, nextId>>
           /\ \E pr \in projects : pr.slug = req[p].slug
    <2>1. Atomic!Refused(req[p], pid[p], "ErrDuplicate")
        BY <1>1, <1>2 DEF Atomic!Refused, Atomic!Named
    <2> QED
        BY <1>1, <1>2, <2>1, ProjectOperation, Refusing DEF Atomic!Refusals, tables
<1>3. CASE Finish(p, "ok") /\ \A pr \in projects : pr.slug # req[p].slug
    <2>1. Atomic!CreateProject(req[p])
        BY <1>1, <1>3 DEF InsertProject, NewProjectId, Atomic!CreateProject
    <2>2. \A r \in Atomic!Refusals : ~Atomic!Refused(req[p], pid[p], r)
        BY <1>1, <1>3 DEF Atomic!Refused, Atomic!Named, Atomic!ProjectOps, Atomic!ScopeOps
    <2>3. Atomic!TakesEffect(req[p], pid[p])
        BY <1>1, <2>1, <2>2, ProjectOperation DEF Atomic!TakesEffect, Atomic!Apply
    <2> QED
        BY <1>1, <1>3, <2>3, ProjectOperation, Applying
<1> QED
    BY <1>2, <1>3 DEF InsertProject

\* A project operation that finds its project is not refused.
LEMMA ProjectFound ==
    ASSUME NEW q, NEW id, q.op \in {"DeleteProject", "SetAllowExecute", "SetAllowOpen"},
           Atomic!Named(q.slug) # {}
    PROVE  \A r \in Atomic!Refusals : ~Atomic!Refused(q, id, r)
BY DEF Atomic!Refused, Atomic!ProjectOps, Atomic!ScopeOps

LEMMA AtomicDropProject ==
    ASSUME RefinementInv, NEW p \in Procs, DropProject(p)
    PROVE  Atomic!Effect(p)
<1> DEFINE ids == {pr.id : pr \in {x \in projects : x.slug = req[p].slug}}
<1>1. /\ pc[p] = "dropProject" /\ req[p].op = "DeleteProject"
      /\ projects' = {pr \in projects : pr.slug # req[p].slug}
      /\ environments' = {e \in environments : e.pid \notin ids}
      /\ secrets' = {r \in secrets : r.pid \notin ids}
      /\ Finish(p, IF ids = {} THEN "ErrProjectNotFound" ELSE "ok")
      /\ UNCHANGED <<nextId, req, pid, out>>
    BY DEF DropProject, Cascade, RefinementInv, ReadyInv
<1>2. CASE Atomic!Named(req[p].slug) = {}
    <2>1. \A pr \in projects : pr.slug # req[p].slug
        BY <1>2 DEF Atomic!Named
    <2>2. ids = {}
        BY <2>1
    <2>3. UNCHANGED tables /\ Finish(p, "ErrProjectNotFound")
        <3> HIDE DEF ids
        <3> QED
            BY <1>1, <2>1, <2>2 DEF tables
    <2>4. Atomic!Refused(req[p], pid[p], "ErrProjectNotFound")
        BY <1>1, <1>2 DEF Atomic!Refused, Atomic!ProjectOps
    <2> QED
        BY <1>1, <2>3, <2>4, ProjectOperation, Refusing DEF Atomic!Refusals
<1>3. CASE Atomic!Named(req[p].slug) # {}
    <2>1. ids = {pr.id : pr \in Atomic!Named(req[p].slug)} /\ ids # {}
        BY <1>3 DEF Atomic!Named
    <2>2. Finish(p, "ok")
        BY <1>1, <2>1
    <2>3. {Decoded(r) : r \in secrets'} = {d \in {Decoded(r) : r \in secrets} : d.pid \notin ids}
        BY <1>1 DEF Decoded
    <2>4. projects' = projects \ Atomic!Named(req[p].slug)
        BY <1>1 DEF Atomic!Named
    <2>5. Atomic!DeleteProject(req[p])
        <3> HIDE DEF ids
        <3> QED
            BY <1>1, <2>1, <2>3, <2>4 DEF Atomic!DeleteProject
    <2>6. Atomic!TakesEffect(req[p], pid[p])
        <3>1. \A r \in Atomic!Refusals : ~Atomic!Refused(req[p], pid[p], r)
            BY <1>1, <1>3, ProjectFound
        <3>2. ~Atomic!Gone(pid[p])
            BY <1>1, ProjectOperation
        <3> QED
            BY <1>1, <2>5, <3>1, <3>2 DEF Atomic!TakesEffect, Atomic!Apply
    <2> QED
        BY <1>1, <2>2, <2>6, ProjectOperation, Applying
<1> QED
    BY <1>2, <1>3

LEMMA AtomicSetAllow ==
    ASSUME RefinementInv, NEW p \in Procs, SetAllow(p)
    PROVE  Atomic!Effect(p)
<1>1. /\ pc[p] = "setAllow" /\ req[p].op \in {"SetAllowExecute", "SetAllowOpen"}
      /\ projects' = {IF pr.slug = req[p].slug THEN WithCapability(pr, req[p]) ELSE pr :
                         pr \in projects}
      /\ UNCHANGED <<nextId, environments, secrets, req, pid, out>>
    BY DEF SetAllow, RefinementInv, ReadyInv
<1>2. CASE Atomic!Named(req[p].slug) = {}
    <2>1. \A pr \in projects : pr.slug # req[p].slug
        BY <1>2 DEF Atomic!Named
    <2>2. UNCHANGED tables /\ Finish(p, "ErrProjectNotFound")
        BY <1>1, <2>1 DEF SetAllow, tables
    <2>3. Atomic!Refused(req[p], pid[p], "ErrProjectNotFound")
        BY <1>1, <1>2 DEF Atomic!Refused, Atomic!ProjectOps
    <2> QED
        BY <1>1, <2>2, <2>3, ProjectOperation, Refusing DEF Atomic!Refusals
<1>3. CASE Atomic!Named(req[p].slug) # {}
    <2>1. Finish(p, "ok")
        BY <1>3 DEF SetAllow, Atomic!Named
    <2>2. projects' = (projects \ Atomic!Named(req[p].slug)) \cup
                          {WithCapability(pr, req[p]) : pr \in Atomic!Named(req[p].slug)}
        BY <1>1 DEF Atomic!Named
    <2>3. Atomic!SetAllow(req[p])
        BY <1>1, <2>2 DEF Atomic!SetAllow, WithCapability, Atomic!WithCapability
    <2>4. Atomic!TakesEffect(req[p], pid[p])
        <3>1. \A r \in Atomic!Refusals : ~Atomic!Refused(req[p], pid[p], r)
            BY <1>1, <1>3, ProjectFound
        <3>2. ~Atomic!Gone(pid[p])
            BY <1>1, ProjectOperation
        <3> QED
            BY <1>1, <2>3, <3>1, <3>2 DEF Atomic!TakesEffect, Atomic!Apply
    <2> QED
        BY <1>1, <2>1, <2>4, ProjectOperation, Applying
<1> QED
    BY <1>2, <1>3

LEMMA AtomicInsertEnvironment ==
    ASSUME RefinementInv, NEW p \in Procs, InsertEnvironment(p)
    PROVE  Atomic!Effect(p)
<1>1. /\ pc[p] \in Bound /\ req[p].op = "CreateEnvironment"
      /\ UNCHANGED <<projects, nextId, secrets, req, pid, out>>
    BY DEF InsertEnvironment, RefinementInv, ReadyInv, Bound, Statements
<1>2. CASE /\ EnvironmentExists(pid[p], req[p].env)
           /\ Finish(p, "ErrDuplicate") /\ UNCHANGED environments
    <2>1. Atomic!Refused(req[p], pid[p], "ErrDuplicate")
        BY <1>1, <1>2 DEF Atomic!Refused, Atomic!HasEnvironment, EnvironmentExists
    <2> QED
        BY <1>1, <1>2, <2>1, Refusing DEF tables, Atomic!Refusals
<1>3. CASE Finish(p, "error") /\ UNCHANGED environments
    BY <1>1, <1>3, Refusing DEF tables
<1>4. CASE /\ ~EnvironmentExists(pid[p], req[p].env) /\ ForeignKeyHolds(pid[p])
           /\ environments' = environments \cup {[pid |-> pid[p], name |-> req[p].env]}
           /\ Finish(p, "ok")
    <2>1. Atomic!CreateEnvironment(req[p], pid[p])
        BY <1>1, <1>4 DEF Atomic!CreateEnvironment
    <2>2. \A r \in Atomic!Refusals : ~Atomic!Refused(req[p], pid[p], r)
        BY <1>1, <1>4 DEF Atomic!Refused, Atomic!HasEnvironment, EnvironmentExists,
                          Atomic!ProjectOps, Atomic!ScopeOps
    <2>3. ~Atomic!Gone(pid[p])
        BY <1>4, GoneMeans DEF RefinementInv
    <2>4. Atomic!TakesEffect(req[p], pid[p])
        BY <1>1, <2>1, <2>2, <2>3 DEF Atomic!TakesEffect, Atomic!Apply
    <2> QED
        BY <1>1, <1>4, <2>4, Applying DEF Readers
<1> QED
    BY <1>2, <1>3, <1>4 DEF InsertEnvironment

-----------------------------------------------------------------------------
(***************************************************************************)
(* Definitions.                                                            *)
(***************************************************************************)
Defs == {Decoded(r) : r \in secrets}

\* Which definitions stay when those a client addresses are taken out.
LEMMA Others ==
    ASSUME NEW p \in Procs
    PROVE  Defs \ Atomic!Addressed(req[p], pid[p]) = {Decoded(r) : r \in secrets \ Definitions(p)}
<1>1. \A r \in secrets : Decoded(r) \in Atomic!Addressed(req[p], pid[p]) <=> r \in Definitions(p)
    BY DEF Atomic!Addressed, Atomic!InScope, Definitions, Addressed, At, Decoded
<1> QED
    BY <1>1 DEF Defs, Definitions

\* The row that is written, seen from outside.
LEMMA DecodedNewRow ==
    ASSUME CoreInv, NEW p \in Procs, pc[p] \in Writing
    PROVE  Decoded(NewRow(p)) = Atomic!Definition(req[p], pid[p], value[p])
<1>1. /\ req[p] \in Request /\ req[p].key \in Keys /\ value[p] \in Texts /\ pid[p] \in Nat
    BY Running DEF LocalInv, Writing, Statements, OnDefinition
<1>2. ValueOf(NewRow(p)) = value[p]
    BY <1>1, EncodedRow DEF NewRow
<1> QED
    BY <1>2 DEF Decoded, NewRow, Encode, Atomic!Definition

LEMMA Overwritten ==
    ASSUME CoreInv, NEW p \in Procs, pc[p] \in Writing, Definitions(p) # {},
           secrets' = Overwrite(p)
    PROVE  {Decoded(r) : r \in secrets'} =
              (Defs \ Atomic!Addressed(req[p], pid[p])) \cup
                  {Atomic!Definition(req[p], pid[p], value[p])}
<1>1. secrets' = (secrets \ Definitions(p)) \cup {NewRow(p)}
    BY DEF Overwrite, Definitions
<1>2. {Decoded(r) : r \in secrets'} = {Decoded(r) : r \in secrets \ Definitions(p)} \cup {Decoded(NewRow(p))}
    BY <1>1
<1> QED
    BY <1>2, Others, DecodedNewRow

\* A write that stores its row, in a scope that defines the key, is the whole of
\* a Put or of an edit of metadata.
LEMMA Writes ==
    ASSUME RefinementInv, NEW p \in Procs, pc[p] \in Writing, Definitions(p) # {},
           secrets' = Overwrite(p), UNCHANGED <<projects, nextId, environments>>
    PROVE  Atomic!Apply(req[p], pid[p])
<1>1. /\ req[p].op \in {"Put", "SetMetadata"}
      /\ req[p].op = "Put" => value[p] = req[p].value
    BY Running DEF RefinementInv, LocalInv, Writing, Statements
<1>2. {Decoded(r) : r \in secrets'} =
              (Defs \ Atomic!Addressed(req[p], pid[p])) \cup
                  {Atomic!Definition(req[p], pid[p], value[p])}
    BY Overwritten DEF RefinementInv
<1>3. CASE req[p].op = "Put"
    BY <1>1, <1>2, <1>3 DEF Atomic!Apply, Atomic!Define, Defs
<1>4. CASE req[p].op = "SetMetadata"
    <2>1. ForeignKeyHolds(pid[p])
        BY GoneMeans DEF RefinementInv
    <2>2. PICK r \in Definitions(p) : ValueOf(r) = value[p]
        BY <1>4, <2>1 DEF RefinementInv, SafeEditInv, EditInv
    <2>3. \A s \in Definitions(p) : s = r
        BY <2>2 DEF Definitions, Addressed, At, RefinementInv, CoreInv, OneDefinitionPerScope
    <2>4. Atomic!Addressed(req[p], pid[p]) = {Decoded(r)}
        BY <2>2, <2>3, Seen
    <2>5. Decoded(r).value = value[p]
        BY <2>2 DEF Decoded
    <2>6. {Atomic!Definition(req[p], pid[p], d.value) : d \in Atomic!Addressed(req[p], pid[p])} =
              {Atomic!Definition(req[p], pid[p], value[p])}
        BY <2>4, <2>5
    <2>7. Atomic!Define(req[p], pid[p],
              {Atomic!Definition(req[p], pid[p], d.value) : d \in Atomic!Addressed(req[p], pid[p])})
        BY <1>2, <2>6 DEF Atomic!Define, Defs
    <2> QED
        BY <1>4, <2>7 DEF Atomic!Apply
<1> QED
    BY <1>1, <1>3, <1>4

LEMMA AtomicReadRow ==
    ASSUME RefinementInv, NEW p \in Procs, ReadRow(p)
    PROVE  Atomic!Effect(p) \/ UNCHANGED Atomic!vars
<1>1. /\ pc[p] = "read" /\ pc[p] \in Bound /\ UNCHANGED <<tables, req, pid, out>>
    BY DEF ReadRow, Bound, Statements
<1>2. req[p].op = "SetMetadata"
    BY <1>1, Running DEF RefinementInv, LocalInv, Bound
<1>3. CASE Definitions(p) = {} /\ Finish(p, "ErrSecretNotFound")
    <2>1. Atomic!Refused(req[p], pid[p], "ErrSecretNotFound")
        BY <1>2, <1>3, Seen DEF Atomic!Refused
    <2> QED
        BY <1>1, <1>3, <2>1, Refusing DEF Atomic!Refusals
<1>4. ASSUME NEW r \in Definitions(p), ~HintAccepted(req[p].hint, ValueOf(r)),
             Finish(p, "ErrInvalidMetadata")
      PROVE  Atomic!Effect(p)
    <2>1. Decoded(r) \in Atomic!Addressed(req[p], pid[p]) /\ Decoded(r).value = ValueOf(r)
        BY Seen DEF Decoded
    <2>2. Atomic!Refused(req[p], pid[p], "ErrInvalidMetadata")
        BY <1>2, <1>4, <2>1 DEF Atomic!Refused, Atomic!HintAccepted, HintAccepted
    <2> QED
        BY <1>1, <1>4, <2>2, Refusing DEF Atomic!Refusals
<1>5. \A r \in Definitions(p) : ~Inconsistent(r)
    BY DEF Definitions, Inconsistent, RefinementInv, SafeEditInv, SensitiveHoldsCiphertext
<1>6. ASSUME NEW s \in {"updateMeta", "update"}, Goto(p, s)
      PROVE  UNCHANGED Atomic!vars
    BY <1>1, <1>6, Within DEF RefinementInv, Goto, Bound, Statements
<1> QED
    BY <1>3, <1>4, <1>5, <1>6 DEF ReadRow

LEMMA AtomicUpdateMetadata ==
    ASSUME RefinementInv, NEW p \in Procs, UpdateMetadata(p)
    PROVE  Atomic!Effect(p)
<1>1. /\ pc[p] = "updateMeta" /\ pc[p] \in Bound /\ pc[p] \in Scoped
      /\ secrets' = {IF Addressed(p, r) THEN WithMetadata(r, req[p]) ELSE r : r \in secrets}
      /\ Finish(p, "ok") /\ UNCHANGED <<projects, nextId, environments, req, pid, out>>
    BY DEF UpdateMetadata, Bound, Statements, Scoped, OnDefinition
<1>2. req[p].op = "SetMetadata" /\ req[p] \in Request
    BY <1>1, Running DEF RefinementInv, LocalInv, Bound
<1>3. CASE ~ForeignKeyHolds(pid[p])
    <2>1. Definitions(p) = {} /\ Atomic!Gone(pid[p])
        BY <1>3, GoneMeans DEF RefinementInv
    <2>2. secrets' = secrets
        BY <1>1, <2>1 DEF Definitions
    <2>3. Atomic!FindsNothing(req[p], pid[p])
        BY <1>1, <1>2, <2>1, <2>2, SameVault DEF Atomic!FindsNothing, tables
    <2> QED
        BY <1>1, <1>2, <2>3, Applying DEF Readers
<1>4. CASE ForeignKeyHolds(pid[p])
    <2>1. Definitions(p) # {}
        BY <1>1, <1>4 DEF RefinementInv, ReadyInv
    <2>2. \A r \in Definitions(p) : /\ r.sensitive = req[p].sensitive
                                    /\ HintAccepted(req[p].hint, ValueOf(r))
        BY <1>1 DEF RefinementInv, SafeEditInv, EditInv
    <2>3. ASSUME NEW r \in Definitions(p)
          PROVE  Decoded(WithMetadata(r, req[p])) =
                    Atomic!Definition(req[p], pid[p], Decoded(r).value)
        <3>1. r \in Row /\ r.pid = pid[p] /\ r.env = req[p].env /\ r.key = req[p].key
            BY DEF Definitions, Addressed, At, RefinementInv, CoreInv, TypeOK
        <3> DEFINE s == WithMetadata(r, req[p])
        <3>2. /\ s.pid = r.pid /\ s.env = r.env /\ s.key = r.key
              /\ s.sensitive = r.sensitive /\ s.enc = r.enc /\ s.plain = r.plain
              /\ s.sensitive = req[p].sensitive /\ s.kind = req[p].kind /\ s.hint = req[p].hint
            BY <1>2, <2>2, <3>1, MetadataRow DEF At
        <3> HIDE DEF s
        <3>3. ValueOf(s) = ValueOf(r)
            BY <3>2 DEF ValueOf
        <3>4. Decoded(s) = Atomic!Definition(req[p], pid[p], Decoded(r).value)
            BY <3>1, <3>2, <3>3 DEF Decoded, Atomic!Definition
        <3> QED
            BY <3>4 DEF s
    <2>4. secrets' = (secrets \ Definitions(p)) \cup {WithMetadata(r, req[p]) : r \in Definitions(p)}
        BY <1>1 DEF Definitions
    <2>5. {Decoded(r) : r \in secrets'} =
             {Decoded(r) : r \in secrets \ Definitions(p)} \cup
                {Decoded(WithMetadata(r, req[p])) : r \in Definitions(p)}
        BY <2>4
    <2>6. {Decoded(WithMetadata(r, req[p])) : r \in Definitions(p)} =
             {Atomic!Definition(req[p], pid[p], d.value) : d \in Atomic!Addressed(req[p], pid[p])}
        BY <2>3, Seen
    <2>7. Atomic!Define(req[p], pid[p],
              {Atomic!Definition(req[p], pid[p], d.value) : d \in Atomic!Addressed(req[p], pid[p])})
        BY <1>1, <2>5, <2>6, Others DEF Atomic!Define, Defs
    <2>8. \A r \in Atomic!Refusals : ~Atomic!Refused(req[p], pid[p], r)
        BY <1>1, <1>4, <2>1, <2>2, NotRefused
    <2>9. Atomic!TakesEffect(req[p], pid[p])
        BY <1>2, <1>4, <2>7, <2>8, GoneMeans DEF Atomic!TakesEffect, Atomic!Apply, RefinementInv
    <2> QED
        BY <1>1, <1>2, <2>9, Applying DEF Readers
<1> QED
    BY <1>3, <1>4

LEMMA AtomicUpdateRow ==
    ASSUME RefinementInv, NEW p \in Procs, UpdateRow(p)
    PROVE  Atomic!Effect(p) \/ UNCHANGED Atomic!vars
<1>1. /\ pc[p] = "update" /\ pc[p] \in Bound /\ pc[p] \in Scoped /\ pc[p] \in Writing
      /\ secrets' = Overwrite(p)
      /\ UNCHANGED <<projects, nextId, environments, req, pid, out>>
    BY DEF UpdateRow, Bound, Statements, Scoped, OnDefinition, Writing
<1>2. CASE Definitions(p) = {}
    <2>1. secrets' = secrets /\ Goto(p, "insert")
        BY <1>1, <1>2 DEF UpdateRow, Overwrite, Definitions
    <2> QED
        BY <1>1, <2>1, Within DEF RefinementInv, Goto, Bound, Statements, tables
<1>3. CASE Definitions(p) # {}
    <2>1. Finish(p, "ok")
        BY <1>3 DEF UpdateRow
    <2>2. ForeignKeyHolds(pid[p]) /\ ~Atomic!Gone(pid[p])
        BY <1>3, GoneMeans DEF RefinementInv
    <2>3. ASSUME req[p].op = "SetMetadata", NEW r \in Definitions(p)
          PROVE  HintAccepted(req[p].hint, ValueOf(r))
        <3>1. HintAccepted(req[p].hint, value[p]) /\ \E s \in Definitions(p) : ValueOf(s) = value[p]
            BY <1>1, <2>2, <2>3 DEF RefinementInv, SafeEditInv, EditInv
        <3>2. \A s \in Definitions(p) : s = r
            BY <2>3 DEF Definitions, Addressed, At, RefinementInv, CoreInv, OneDefinitionPerScope
        <3> QED
            BY <3>1, <3>2
    <2>4. \A r \in Atomic!Refusals : ~Atomic!Refused(req[p], pid[p], r)
        BY <1>1, <1>3, <2>2, <2>3, NotRefused
    <2>5. Atomic!Apply(req[p], pid[p])
        BY <1>1, <1>3, Writes
    <2>6. Atomic!TakesEffect(req[p], pid[p])
        BY <2>2, <2>4, <2>5 DEF Atomic!TakesEffect
    <2>7. req[p].op \notin Readers
        BY <1>1, Running DEF RefinementInv, LocalInv, Bound, Readers
    <2> QED
        BY <1>1, <2>1, <2>6, <2>7, Applying
<1> QED
    BY <1>2, <1>3

LEMMA AtomicInsertRow ==
    ASSUME RefinementInv, NEW p \in Procs, InsertRow(p)
    PROVE  Atomic!Effect(p) \/ Atomic!Overtaken(p)
<1>1. /\ pc[p] = "insert" /\ pc[p] \in Bound /\ pc[p] \in Scoped /\ pc[p] \in Writing
      /\ UNCHANGED <<projects, nextId, environments, req, pid, out>>
    BY DEF InsertRow, Bound, Statements, Scoped, OnDefinition, Writing
<1>2. /\ req[p].op \in {"Put", "SetMetadata"}
      /\ req[p].op = "Put" => value[p] = req[p].value
    BY <1>1, Running DEF RefinementInv, LocalInv, Bound
<1>3. CASE Definitions(p) # {} /\ Goto(p, "conflict") /\ UNCHANGED secrets
    <2>1. req[p].op = "Put"
        BY <1>1, <1>2, <1>3, GoneMeans DEF RefinementInv, ReadyInv
    <2>2. pc' = [pc EXCEPT ![p] = "conflict"] /\ UNCHANGED ret /\ pc'[p] = "conflict"
        BY <1>3 DEF Goto, RefinementInv, CoreInv, TypeOK
    <2>3. Phase(p) = "bound" /\ Phase(p)' = "overtaken"
        BY <1>1, <2>2 DEF Phase
    <2>4. Atomic!Moves(p, "bound", "overtaken")
        BY <2>2, <2>3, Moving DEF RefinementInv
    <2>5. Atomic!Addressed(req[p], pid[p]) # {}
        BY <1>3, Seen
    <2> QED
        BY <1>1, <1>3, <2>1, <2>2, <2>4, <2>5, SameVault DEF Atomic!Overtaken, tables
<1>4. CASE Finish(p, "error") /\ UNCHANGED secrets
    BY <1>1, <1>4, Refusing DEF tables
<1>5. CASE /\ Definitions(p) = {} /\ ForeignKeyHolds(pid[p])
           /\ secrets' = secrets \cup {NewRow(p)} /\ Finish(p, "ok")
    <2>1. req[p].op = "Put" /\ value[p] = req[p].value
        BY <1>1, <1>2, <1>5 DEF RefinementInv, ReadyInv
    <2>2. {Decoded(r) : r \in secrets'} = Defs \cup {Decoded(NewRow(p))}
        BY <1>5 DEF Defs
    <2>3. Atomic!Addressed(req[p], pid[p]) = {}
        BY <1>5, Seen
    <2>4. Atomic!Define(req[p], pid[p], {Atomic!Definition(req[p], pid[p], req[p].value)})
        BY <1>1, <2>1, <2>2, <2>3, DecodedNewRow DEF Atomic!Define, Defs, RefinementInv
    <2>5. \A r \in Atomic!Refusals : ~Atomic!Refused(req[p], pid[p], r)
        BY <1>1, <1>5, <2>1, NotRefused
    <2>6. Atomic!TakesEffect(req[p], pid[p])
        BY <1>5, <2>1, <2>4, <2>5, GoneMeans DEF Atomic!TakesEffect, Atomic!Apply, RefinementInv
    <2> QED
        BY <1>1, <1>5, <2>1, <2>6, Applying DEF Readers
<1> QED
    BY <1>3, <1>4, <1>5 DEF InsertRow, UniqueViolation

LEMMA AtomicUpdateAfterConflict ==
    ASSUME RefinementInv, NEW p \in Procs, UpdateAfterConflict(p)
    PROVE  Atomic!Overwrites(p)
<1>1. /\ pc[p] = "conflict" /\ pc[p] \in Writing /\ req[p].op = "Put"
      /\ secrets' = Overwrite(p)
      /\ pc' = [pc EXCEPT ![p] = "done"] /\ ret' = [ret EXCEPT ![p] = "ok"] /\ pc'[p] = "done"
      /\ UNCHANGED <<projects, nextId, environments, req, pid, out>>
    BY DEF UpdateAfterConflict, Finish, RefinementInv, ReadyInv, CoreInv, TypeOK, Writing
<1>2. Atomic!Moves(p, "overtaken", "done")
    BY <1>1, Moving DEF Phase, RefinementInv
<1>3. CASE Definitions(p) = {}
    <2>1. secrets' = secrets
        BY <1>1, <1>3 DEF Overwrite, Definitions
    <2>2. Atomic!Addressed(req[p], pid[p]) = {}
        BY <1>3, Seen
    <2> QED
        BY <1>1, <1>2, <2>1, <2>2, SameVault DEF Atomic!Overwrites, tables
<1>4. CASE Definitions(p) # {}
    <2>1. Atomic!Apply(req[p], pid[p])
        BY <1>1, <1>4, Writes
    <2>2. Atomic!Addressed(req[p], pid[p]) # {}
        BY <1>4, Seen
    <2> QED
        BY <1>1, <1>2, <2>1, <2>2 DEF Atomic!Overwrites
<1> QED
    BY <1>3, <1>4

LEMMA AtomicDeleteRow ==
    ASSUME RefinementInv, NEW p \in Procs, DeleteRow(p)
    PROVE  Atomic!Effect(p)
<1>1. /\ pc[p] = "delete" /\ pc[p] \in Bound /\ pc[p] \in Scoped
      /\ secrets' = secrets \ Definitions(p)
      /\ UNCHANGED <<projects, nextId, environments, req, pid, out>>
    BY DEF DeleteRow, Bound, Statements, Scoped, OnDefinition
<1>2. req[p].op = "DeleteSecret"
    BY <1>1, Running DEF RefinementInv, LocalInv, Bound
<1>3. CASE Definitions(p) = {}
    <2>1. Finish(p, "ErrSecretNotFound") /\ UNCHANGED tables
        BY <1>1, <1>3 DEF DeleteRow, tables
    <2>2. Atomic!Refused(req[p], pid[p], "ErrSecretNotFound")
        BY <1>2, <1>3, Seen DEF Atomic!Refused
    <2> QED
        BY <1>1, <2>1, <2>2, Refusing DEF Atomic!Refusals
<1>4. CASE Definitions(p) # {}
    <2>1. Finish(p, "ok")
        BY <1>4 DEF DeleteRow
    <2>2. ForeignKeyHolds(pid[p]) /\ ~Atomic!Gone(pid[p])
        BY <1>4, GoneMeans DEF RefinementInv
    <2>3. Atomic!Define(req[p], pid[p], {})
        BY <1>1, Others DEF Atomic!Define, Defs
    <2>4. \A r \in Atomic!Refusals : ~Atomic!Refused(req[p], pid[p], r)
        BY <1>1, <1>2, <1>4, <2>2, NotRefused
    <2>5. Atomic!TakesEffect(req[p], pid[p])
        BY <1>2, <2>2, <2>3, <2>4 DEF Atomic!TakesEffect, Atomic!Apply
    <2> QED
        BY <1>1, <1>2, <2>1, <2>5, Applying DEF Readers
<1> QED
    BY <1>3, <1>4

-----------------------------------------------------------------------------
(***************************************************************************)
(* Readers.                                                                *)
(***************************************************************************)
LEMMA ScopeSeen ==
    ASSUME NEW id, NEW env, NEW i \in 1..4, NEW d
    PROVE  d \in Atomic!ScopesInOrder(id, env)[i] <=>
               \E r \in secrets : d = Decoded(r) /\ r \in DefinedIn(ScopesInOrder(id, env)[i], r.key)
<1>1. \A e : d \in Atomic!InScope(id, e) <=>
                 \E r \in secrets : d = Decoded(r) /\ r.pid = id /\ r.env = e
    BY DEF Atomic!InScope, Decoded
<1>2. \A e : d \in Atomic!InScope(0, e) <=>
                 \E r \in secrets : d = Decoded(r) /\ r.pid = 0 /\ r.env = e
    BY DEF Atomic!InScope, Decoded
<1>3. CASE i = 1
    BY <1>1, <1>3 DEF Atomic!ScopesInOrder, ScopesInOrder, DefinedIn, At
<1>4. CASE i = 2
    BY <1>1, <1>4 DEF Atomic!ScopesInOrder, ScopesInOrder, DefinedIn, At
<1>5. CASE i = 3
    BY <1>2, <1>5 DEF Atomic!ScopesInOrder, ScopesInOrder, DefinedIn, At
<1>6. CASE i = 4
    BY <1>2, <1>6 DEF Atomic!ScopesInOrder, ScopesInOrder, DefinedIn, At
<1> QED
    BY <1>3, <1>4, <1>5, <1>6

\* The ORDER BY of the query and the scopes in their order pick the same
\* definitions.
LEMMA ResolvedRows ==
    ASSUME CoreInv, NEW id \in Nat, NEW env
    PROVE  Atomic!Resolved(id, env) = {Decoded(r) : r \in Effective(id, env)}
<1> DEFINE D(k, key) == DefinedIn(ScopesInOrder(id, env)[k], key)
           A(k) == Atomic!ScopesInOrder(id, env)[k]
           Won(d) == \E i \in 1..4 : /\ d \in A(i)
                                     /\ \A j \in 1..(i - 1) : \A e \in A(j) : e.key # d.key
<1>1. \A d : d \in Atomic!Resolved(id, env) <=> Won(d)
    BY DEF Atomic!Resolved
<1>2. \A i \in 1..4 : \A d : d \in A(i) <=> \E r \in secrets : d = Decoded(r) /\ r \in D(i, r.key)
    BY ScopeSeen
<1>3. \A i \in 1..4 : \A key : \A r \in D(i, key) : r \in secrets /\ r.key = key /\ r \in D(i, r.key)
    BY DEF DefinedIn, At
<1>4. \A r : Decoded(r).key = r.key
    BY DEF Decoded
<1>5. ASSUME NEW i \in 1..4, NEW key, D(i, key) # {}, \A j \in 1..(i - 1) : D(j, key) = {}
      PROVE  \A r : r \in Effective(id, env) /\ r.key = key <=> r \in D(i, key)
    BY <1>5, FirstScopeWins
<1>6. \A r \in Effective(id, env) : r \in secrets /\ \E k \in 1..4 : r \in D(k, r.key)
    BY DEF Effective, Applicable, DefinedIn, ScopesInOrder, At
<1> HIDE DEF D, A
<1>7. ASSUME NEW r \in Effective(id, env) PROVE Won(Decoded(r))
    <2>1. PICK i \in 1..4 : D(i, r.key) # {} /\ \A j \in 1..(i - 1) : D(j, r.key) = {}
        BY <1>6
    <2>2. r \in D(i, r.key)
        BY <1>5, <2>1
    <2>3. Decoded(r) \in A(i)
        BY <1>2, <1>6, <2>2
    <2>4. ASSUME NEW j \in 1..(i - 1), NEW e \in A(j) PROVE e.key # Decoded(r).key
        <3>1. j \in 1..4
            OBVIOUS
        <3>2. PICK s \in secrets : e = Decoded(s) /\ s \in D(j, s.key)
            BY <1>2, <2>4, <3>1
        <3> QED
            BY <1>4, <2>1, <2>4, <3>2
    <2> QED
        BY <2>3, <2>4
<1>8. ASSUME NEW d, Won(d) PROVE \E r \in Effective(id, env) : d = Decoded(r)
    <2>1. PICK i \in 1..4 : d \in A(i) /\ \A j \in 1..(i - 1) : \A e \in A(j) : e.key # d.key
        BY <1>8
    <2>2. PICK r \in secrets : d = Decoded(r) /\ r \in D(i, r.key)
        BY <1>2, <2>1
    <2>3. \A j \in 1..(i - 1) : D(j, r.key) = {}
        <3> SUFFICES ASSUME NEW j \in 1..(i - 1), NEW s \in D(j, r.key) PROVE FALSE
            OBVIOUS
        <3>1. j \in 1..4
            OBVIOUS
        <3>2. s \in secrets /\ s.key = r.key /\ s \in D(j, s.key)
            BY <1>3, <3>1
        <3>3. Decoded(s) \in A(j)
            BY <1>2, <3>1, <3>2
        <3> QED
            BY <1>4, <2>1, <2>2, <3>2, <3>3
    <2> QED
        BY <1>5, <2>2, <2>3
<1> HIDE DEF Won
<1> QED
    BY <1>1, <1>7, <1>8

LEMMA AtomicSelect ==
    ASSUME RefinementInv, NEW p \in Procs, Select(p)
    PROVE  Atomic!Effect(p)
<1>1. /\ pc[p] = "select" /\ pc[p] \in Bound /\ pc[p] \in Scoped
      /\ UNCHANGED <<tables, req, pid>>
    BY DEF Select, Bound, Statements, Scoped
<1>2. req[p].op \in {"Resolve", "ScopeEntries"} /\ pid[p] \in Nat
    BY <1>1, Running DEF RefinementInv, ReadyInv, Bound
<1>3. \A r \in Selected(p) : ~Inconsistent(r)
    BY DEF Selected, Effective, Applicable, InScope, Inconsistent, RefinementInv, SafeEditInv,
           SensitiveHoldsCiphertext
<1>4. /\ out' = [out EXCEPT ![p] = {Served(r) : r \in Selected(p)}]
      /\ Finish(p, "ok")
    BY <1>3 DEF Select
<1>5. \A r : Atomic!Entry(Decoded(r)) = Served(r)
    BY DEF Atomic!Entry, Decoded, Served
<1>6. {Served(r) : r \in Selected(p)} = Atomic!Answer(req[p], pid[p])
    <2>1. CASE req[p].op = "Resolve"
        <3>1. Atomic!Answer(req[p], pid[p]) =
                  {Atomic!Entry(d) : d \in Atomic!Resolved(pid[p], req[p].env)}
            BY <2>1 DEF Atomic!Answer
        <3>2. Selected(p) = Effective(pid[p], req[p].env)
            BY <2>1 DEF Selected
        <3>3. Atomic!Resolved(pid[p], req[p].env) = {Decoded(r) : r \in Effective(pid[p], req[p].env)}
            BY <1>2, ResolvedRows DEF RefinementInv
        <3> QED
            BY <1>5, <3>1, <3>2, <3>3
    <2>2. CASE req[p].op = "ScopeEntries"
        <3>1. Atomic!Answer(req[p], pid[p]) =
                  {Atomic!Entry(d) : d \in Atomic!InScope(pid[p], req[p].env)}
            BY <2>2 DEF Atomic!Answer
        <3>2. Selected(p) = InScope(pid[p], req[p].env)
            BY <2>2 DEF Selected
        <3>3. Atomic!InScope(pid[p], req[p].env) = {Decoded(r) : r \in InScope(pid[p], req[p].env)}
            BY DEF Atomic!InScope, InScope, Decoded
        <3> QED
            BY <1>5, <3>1, <3>2, <3>3
    <2> QED
        BY <1>2, <2>1, <2>2
<1>7. Atomic!TakesEffect(req[p], pid[p]) \/ Atomic!FindsNothing(req[p], pid[p])
    <2>1. CASE ForeignKeyHolds(pid[p])
        <3>1. \A r \in Atomic!Refusals : ~Atomic!Refused(req[p], pid[p], r)
            BY <1>1, <1>2, <2>1, NotRefused
        <3> QED
            BY <1>1, <1>2, <2>1, <3>1, GoneMeans, SameVault
            DEF Atomic!TakesEffect, Atomic!Apply, RefinementInv
    <2>2. CASE ~ForeignKeyHolds(pid[p])
        BY <1>1, <1>2, <2>2, GoneMeans, SameVault DEF Atomic!FindsNothing, RefinementInv
    <2> QED
        BY <2>1, <2>2
<1>8. "ok" \in Atomic!Results /\ Atomic!Ends(req[p], pid[p], "ok")
    BY <1>7 DEF Atomic!Results, Atomic!Ends
<1>9. out' = [out EXCEPT ![p] = IF "ok" = "ok" THEN Atomic!Answer(req[p], pid[p]) ELSE {}]
    BY <1>4, <1>6
<1> QED
    BY <1>1, <1>4, <1>8, <1>9, Ending DEF RefinementInv

-----------------------------------------------------------------------------
LEMMA AtomicInit == Init => Atomic!Init
<1> SUFFICES ASSUME Init PROVE Atomic!Init
    OBVIOUS
<1>1. \A p \in Procs : Phase(p) = "idle"
    BY DEF Init, Phase
<1> QED
    BY <1>1 DEF Init, Atomic!Init, Atomic!VaultInit, NoRequest, Atomic!NoRequest

LEMMA AtomicStep ==
    ASSUME NoEnvironmentDeletes, RefinementInv, [Next]_vars
    PROVE  [Atomic!Next]_(Atomic!vars)
<1>1. CASE UNCHANGED vars
    <2>1. \A p \in Procs : Phase(p)' = Phase(p)
        BY <1>1 DEF vars, Phase
    <2> QED
        BY <1>1, <2>1 DEF vars, Atomic!vars
<1>2. ASSUME NEW p \in Procs, Call(p) \/ Statement(p) \/ Fail(p) \/ Return(p)
      PROVE  \/ Atomic!Call(p) \/ Atomic!Bind(p) \/ Atomic!FailToBind(p)
             \/ Atomic!Effect(p) \/ Atomic!Overtaken(p) \/ Atomic!Overwrites(p) \/ Atomic!Return(p)
             \/ UNCHANGED Atomic!vars
    <2>1. ~DropEnvironment(p)
        <3>1. pc[p] # "dropEnv"
            BY Running DEF RefinementInv, LocalInv, Statements, NoEnvironmentDeletes
        <3> QED
            BY <3>1 DEF DropEnvironment
    <2> QED
        BY <1>2, <2>1, AtomicCall, AtomicBind, AtomicEnvironment, AtomicFail, AtomicReturn,
           AtomicInsertProject, AtomicDropProject, AtomicSetAllow, AtomicInsertEnvironment,
           AtomicReadRow, AtomicUpdateMetadata, AtomicUpdateRow, AtomicInsertRow,
           AtomicUpdateAfterConflict, AtomicDeleteRow, AtomicSelect
        DEF Statement, RefinementInv
<1> QED
    BY <1>1, <1>2 DEF Next, Atomic!Next

\* Where nobody writes a definition that another client is editing the metadata
\* of, and no environment is deleted, the store's operations are atomic: however
\* their statements interleave, every one takes effect at once, or not at all.
THEOREM StoreImplementsVault ==
    EditsAlone /\ NoEnvironmentDeletes => (Spec => ImplementsVault)
<1> SUFFICES ASSUME EditsAlone, NoEnvironmentDeletes PROVE Spec => ImplementsVault
    OBVIOUS
<1>1. RefinementInv /\ [Next]_vars => [Atomic!Next]_(Atomic!vars)
    BY AtomicStep
<1>2. Spec => []RefinementInv
    BY RefinementInvariant
<1> QED
    BY <1>1, <1>2, AtomicInit, PTL DEF Spec, ImplementsVault, Atomic!Spec
=============================================================================
