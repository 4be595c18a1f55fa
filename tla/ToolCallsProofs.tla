-------------------------- MODULE ToolCallsProofs --------------------------
(***************************************************************************)
(* The safety properties of ToolCalls, proved for every number of calls,   *)
(* keys and kinds of request, by the inductive invariant Inv.              *)
(***************************************************************************)
EXTENDS ToolCalls, TLAPS

\* What a step may not have touched of call d.
Same(d) ==
    /\ pc'[d] = pc[d] /\ req'[d] = req[d] /\ goal'[d] = goal[d]
    /\ secrets'[d] = secrets[d] /\ row'[d] = row[d] /\ reply'[d] = reply[d]
    /\ audit'[d] = audit[d] /\ lost'[d] = lost[d] /\ effect'[d] = effect[d]
    /\ child'[d] = child[d] /\ tree'[d] = tree[d] /\ fired'[d] = fired[d]

\* A call that a step leaves alone keeps its invariant, if the step turns no
\* capability on that the call does not see.
LEMMA LeftAlone ==
    ASSUME NEW d \in Calls, CallInv(d), Same(d),
           pc[d] # "idle" => seen[d] \subseteq seen'[d] /\ Allowed' \subseteq seen'[d]
    PROVE  CallInv(d)'
  BY DEF Same, CallInv, ProgressInv, AuditInv, SeenInv, ChildInv, Audited, Auditing, Using, KeysOf,
         Steps, Resolving

\* The initial states satisfy the invariant.
LEMMA InitInv == Init => Inv
<1> SUFFICES ASSUME Init PROVE Inv
  OBVIOUS
<1>1. TypeOK
  BY DEF Init, TypeOK, Request, NoRequest, Tools, AuditRow, NoRow, Secret, Scopes, Steps,
         Resolving, Replies, KeysOf, Project
<1>2. \A c \in Calls : CallInv(c)
  BY DEF Init, CallInv, ProgressInv, AuditInv, SeenInv, ChildInv, Audited, Auditing, Using,
         KeysOf, Steps, Resolving, NoRequest, NoRow
<1> QED
  BY <1>1, <1>2 DEF Inv

\* A step of the web UI: no call moves, and one that is under way sees what is on.
LEMMA UIInv == Inv /\ UI => Inv'
<1> SUFFICES ASSUME Inv, UI PROVE Inv'
  OBVIOUS
<1> USE DEF Inv
<1>1. \A d \in Calls : Same(d)
  BY DEF UI, Same, outside
<1>2. \A d \in Calls : pc[d] # "idle" => seen[d] \subseteq seen'[d] /\ Allowed' \subseteq seen'[d]
  <2>1. \A d \in Calls : pc[d] # "idle" => Allowed \subseteq seen[d]
    BY DEF CallInv, SeenInv
  <2>2. CASE Create
    BY <2>1, <2>2 DEF Create, Allowed, Allows
  <2>3. CASE CreateEnvironment
    <3>1. \A p \in project : Allows([p EXCEPT !.env = TRUE]) = Allows(p)
      BY DEF Allows, TypeOK, Project
    <3>2. Allowed' \subseteq Allowed
      BY <2>3, <3>1 DEF CreateEnvironment, Allowed
    <3> QED
      BY <2>1, <2>3, <3>2 DEF CreateEnvironment
  <2>4. CASE Delete
    BY <2>1, <2>4 DEF Delete, Allowed
  <2>5. ASSUME NEW tool \in {"execute", "open"}, NEW on \in BOOLEAN, SetAllow(tool, on)
        PROVE  \A d \in Calls :
                   pc[d] # "idle" => seen[d] \subseteq seen'[d] /\ Allowed' \subseteq seen'[d]
    BY <2>5 DEF SetAllow, Allowed, TypeOK
  <2>6. ASSUME NEW id \in 0..lastId, NEW k \in Keys, Edit(id, k)
        PROVE  \A d \in Calls :
                   pc[d] # "idle" => seen[d] \subseteq seen'[d] /\ Allowed' \subseteq seen'[d]
    BY <2>1, <2>6 DEF Edit, Allowed, Allows
  <2> QED
    BY <2>2, <2>3, <2>4, <2>5, <2>6 DEF UI
<1>3. \A d \in Calls : CallInv(d)'
  BY <1>1, <1>2, LeftAlone
<1>4. TypeOK'
  <2> DEFINE StoreTyped ==
               /\ project' \subseteq Project /\ \A p \in project' : p.id \in 1..lastId'
               /\ lastId' \in Nat
               /\ lastId \in 0..lastId'
               /\ defs' \subseteq (0..lastId') \X Keys
               /\ seen' \in [Calls -> SUBSET {"execute", "open"}]
  <2>1. StoreTyped
    <3>0. /\ project \subseteq Project /\ \A p \in project : p.id \in 1..lastId
          /\ lastId \in Nat
          /\ defs \subseteq (0..lastId) \X Keys
          /\ seen \in [Calls -> SUBSET {"execute", "open"}]
      BY DEF TypeOK
    <3>1. CASE Create
      <4>1. \A i \in 0..lastId : i \in 0..(lastId + 1)
        BY <3>0
      <4>2. (0..lastId) \X Keys \subseteq (0..(lastId + 1)) \X Keys
        BY <4>1
      <4>3. project' \subseteq Project
        BY <3>0, <3>1 DEF Create, Project
      <4>4. \A p \in project' : p.id \in 1..lastId'
        BY <3>0, <3>1 DEF Create
      <4> QED
        BY <3>0, <3>1, <4>1, <4>2, <4>3, <4>4 DEF Create
    <3>2. CASE CreateEnvironment
      <4>1. \A p \in project : [p EXCEPT !.env = TRUE] \in Project /\ [p EXCEPT !.env = TRUE].id = p.id
        BY <3>0 DEF Project
      <4>2. project' \subseteq Project /\ \A p \in project' : p.id \in 1..lastId
        BY <3>0, <3>2, <4>1 DEF CreateEnvironment
      <4> QED
        BY <3>0, <3>2, <4>2 DEF CreateEnvironment
    <3>3. CASE Delete
      BY <3>0, <3>3 DEF Delete
    <3>4. ASSUME NEW tool \in {"execute", "open"}, NEW on \in BOOLEAN, SetAllow(tool, on)
          PROVE  StoreTyped
      <4>1. \A p \in project : /\ [p EXCEPT !.execute = on] \in Project
                               /\ [p EXCEPT !.execute = on].id = p.id
                               /\ [p EXCEPT !.open = on] \in Project
                               /\ [p EXCEPT !.open = on].id = p.id
        BY <3>0 DEF Project
      <4>2. /\ project' \subseteq Project /\ \A p \in project' : p.id \in 1..lastId'
            /\ UNCHANGED <<lastId, defs>>
        BY <3>0, <3>4, <4>1 DEF SetAllow
      <4>3. \A p : Allows(p) \subseteq {"execute", "open"}
        BY DEF Allows
      <4>4. UNION {Allows(p) : p \in project'} \subseteq {"execute", "open"}
        BY <4>3
      <4>5. seen' \in [Calls -> SUBSET {"execute", "open"}]
        BY <3>0, <3>4, <4>4 DEF SetAllow
      <4> QED
        BY <3>0, <4>2, <4>5
    <3>5. ASSUME NEW id \in 0..lastId, NEW k \in Keys, Edit(id, k)
          PROVE  StoreTyped
      BY <3>0, <3>5 DEF Edit
    <3> QED
      BY <3>1, <3>2, <3>3, <3>4, <3>5 DEF UI
  <2>2. pid' \in [Calls -> 0..lastId']
    BY <2>1 DEF UI, TypeOK
  <2> QED
    BY <2>1, <2>2 DEF UI, TypeOK, outside
<1> QED
  BY <1>3, <1>4

\* What is handed out, and what the audit row says of it, is typed.
LEMMA Typing ==
    ASSUME TypeOK, NEW c \in Calls
    PROVE  /\ Effective(pid[c]) \subseteq Keys \X {"project", "shared"}
           /\ Using(c) \subseteq Keys
           /\ ScopesNow(c) \subseteq Secret
           /\ KeysOf(ScopesNow(c)) = row[c].keys
           /\ \A keys \in SUBSET Keys : [keys |-> keys, scopes |-> {}] \in AuditRow
           /\ [keys |-> row[c].keys, scopes |-> ScopesNow(c)] \in AuditRow
<1>1. \A id, k : ScopeOf(id, k) \in Scopes
  BY DEF ScopeOf, Scopes
<1>2. Effective(pid[c]) \subseteq Keys \X {"project", "shared"}
  BY <1>1 DEF Effective, Scopes
<1>3. Using(c) \subseteq Keys
  BY DEF TypeOK, Using, KeysOf
<1>4. row[c] \in AuditRow
  BY DEF TypeOK
<1>5. ScopesNow(c) \subseteq Secret
  BY <1>1, <1>4 DEF ScopesNow, Secret, AuditRow
<1>6. KeysOf(ScopesNow(c)) = row[c].keys
  <2>1. \A k \in row[c].keys : <<k, ScopeOf(pid[c], k)>> \in ScopesNow(c)
    BY DEF ScopesNow
  <2>2. \A e \in ScopesNow(c) : e[1] \in row[c].keys
    BY DEF ScopesNow
  <2>3. row[c].keys \subseteq KeysOf(ScopesNow(c))
    <3> SUFFICES ASSUME NEW k \in row[c].keys PROVE k \in KeysOf(ScopesNow(c))
      OBVIOUS
    <3>1. <<k, ScopeOf(pid[c], k)>>[1] = k
      OBVIOUS
    <3> QED
      BY <2>1, <3>1 DEF KeysOf
  <2> QED
    BY <2>2, <2>3 DEF KeysOf
<1> QED
  BY <1>2, <1>3, <1>4, <1>5, <1>6 DEF AuditRow

\* The variables a handler reports with.
Reporting ==
    /\ goal \in [Calls -> {"secrets", "scopes"}]
    /\ row \in [Calls -> AuditRow]
    /\ \A d \in Calls : KeysOf(row[d].scopes) \in {{}, row[d].keys}
    /\ reply \in [Calls -> Replies]
    /\ pc \in [Calls -> {"idle", "done"} \cup Steps]

LEMMA Audits ==
    ASSUME TypeOK, NEW c \in Calls, NEW keys \in SUBSET Keys, NEW r \in Replies, Audit(c, keys, r)
    PROVE  Reporting'
<1>1. [keys |-> keys, scopes |-> {}] \in AuditRow /\ KeysOf({}) = {}
  BY Typing DEF KeysOf
<1>2. row' \in [Calls -> AuditRow]
  BY <1>1 DEF TypeOK, Audit
<1>3. \A d \in Calls : KeysOf(row'[d].scopes) \in {{}, row'[d].keys}
  BY <1>1 DEF TypeOK, Audit
<1>4. pc' \in [Calls -> {"idle", "done"} \cup Steps]
  BY DEF TypeOK, Audit, Goto, Steps, Resolving
<1> QED
  BY <1>2, <1>3, <1>4 DEF TypeOK, Reporting, Audit, Reply

LEMMA AuditSets ==
    ASSUME TypeOK, NEW c \in Calls, NEW keys, NEW r, Audit(c, keys, r)
    PROVE  /\ row'[c].keys = keys /\ goal'[c] = "scopes" /\ reply'[c] = r
           /\ pc'[c] \in {"append", "find"}
  BY DEF TypeOK, Audit, Reply, Goto

LEMMA Returns ==
    ASSUME TypeOK, NEW c \in Calls, NEW r \in Replies, Return(c, r)
    PROVE  Reporting'
  BY DEF TypeOK, Reporting, Return, Goto, Reply

LEMMA GoesOn ==
    ASSUME TypeOK, NEW c \in Calls, NEW s \in Steps, Goto(c, s), UNCHANGED <<goal, row, reply>>
    PROVE  Reporting'
  BY DEF TypeOK, Reporting, Goto

\* A step of one call keeps the invariant if it keeps its own part and the types.
LEMMA OneCall ==
    ASSUME Inv, NEW c \in Calls, UNCHANGED project,
           \A d \in Calls \ {c} : Same(d) /\ seen'[d] = seen[d],
           TypeOK', CallInv(c)'
    PROVE  Inv'
<1>1. Allowed' = Allowed
  BY DEF Allowed
<1>2. \A d \in Calls \ {c} : CallInv(d)'
  BY <1>1, LeftAlone DEF Inv, CallInv, SeenInv
<1> QED
  BY <1>2 DEF Inv

\* A call begins.
LEMMA CallKeeps == ASSUME Inv, NEW c \in Calls, Call(c) PROVE Inv'
<1> USE DEF Call, Goto, Reply, Return, Audit, store, outside, history, NoRequest
<1>1. TypeOK
  BY DEF Inv
<1>2. CallInv(c)
  BY DEF Inv
<1>3. UNCHANGED project /\ \A d \in Calls \ {c} : Same(d) /\ seen'[d] = seen[d]
  BY <1>1 DEF TypeOK, Same
<1>4. TypeOK'
  <2>1. Allowed \subseteq {"execute", "open"}
    BY DEF Allowed, Allows
  <2>2. req' \in [Calls -> Request]
    BY <1>1, ToolAssumption DEF TypeOK
  <2>3. seen' \in [Calls -> SUBSET {"execute", "open"}]
    BY <1>1, <2>1 DEF TypeOK
  <2>4. Reporting'
    <3> HIDE DEF Goto, Return, Reply
    <3> QED
      BY <1>1, Returns, GoesOn DEF Steps, Resolving, Replies
  <2> HIDE DEF Goto, Return, Reply
  <2> QED
    BY <1>1, <2>2, <2>3, <2>4 DEF Reporting, TypeOK
<1>5. CallInv(c)'
  <2>1. Allowed' = Allowed
    BY <1>3 DEF Allowed
  <2>2. ProgressInv(c)'
    BY <1>1, <1>2 DEF TypeOK, CallInv, ProgressInv, Auditing, Steps, Resolving
  <2>3. AuditInv(c)'
    BY <1>1, <1>2 DEF TypeOK, CallInv, ProgressInv, AuditInv, Auditing, Audited, Using, KeysOf, Steps, Resolving
  <2>4. SeenInv(c)'
    BY <1>1, <1>2, <2>1 DEF TypeOK, CallInv, ProgressInv, SeenInv, Auditing, Steps, Resolving
  <2>5. ChildInv(c)'
    BY <1>1, <1>2 DEF TypeOK, CallInv, ProgressInv, ChildInv, Auditing, Steps, Resolving
  <2> QED
    BY <2>2, <2>3, <2>4, <2>5 DEF CallInv
<1> QED
  BY <1>3, <1>4, <1>5, OneCall

\* The project is read and its switch looked at.
LEMMA ReadProjectKeeps == ASSUME Inv, NEW c \in Calls, ReadProject(c) PROVE Inv'
<1> USE DEF ReadProject, Goto, Reply, Return, Audit, store, outside, history, Permitted
<1>1. TypeOK
  BY DEF Inv
<1>2. CallInv(c)
  BY DEF Inv
<1>3. UNCHANGED project /\ \A d \in Calls \ {c} : Same(d) /\ seen'[d] = seen[d]
  BY <1>1 DEF TypeOK, Same
<1>4. TypeOK'
  <2>1. Reporting'
    <3> HIDE DEF Goto, Return, Audit, Reply
    <3> QED
      BY <1>1, Audits, Returns, GoesOn, Typing DEF Steps, Resolving, Replies
  <2> HIDE DEF Goto, Return, Audit, Reply
  <2> QED
    BY <1>1, <2>1, Typing DEF Reporting, TypeOK
<1>5. CallInv(c)'
  <2>1. Allowed' = Allowed
    BY <1>3 DEF Allowed
  <2>2. ProgressInv(c)'
    BY <1>1, <1>2 DEF TypeOK, CallInv, ProgressInv, Auditing, Steps, Resolving
  <2>3. AuditInv(c)'
    BY <1>1, <1>2 DEF TypeOK, CallInv, ProgressInv, AuditInv, Auditing, Audited, Using, KeysOf, Steps, Resolving
  <2>4. SeenInv(c)'
    <3>1. \A p \in project : Permitted(p, req[c].tool) /\ req[c].tool \in {"execute", "open"}
              => req[c].tool \in Allowed
      BY DEF Allowed, Allows
    <3>2. Allowed \subseteq seen[c]
      BY <1>2 DEF CallInv, SeenInv
    <3> QED
      BY <1>1, <1>2, <2>1, <3>1, <3>2 DEF TypeOK, CallInv, ProgressInv, SeenInv, Auditing, Steps, Resolving
  <2>5. ChildInv(c)'
    BY <1>1, <1>2 DEF TypeOK, CallInv, ProgressInv, ChildInv, Auditing, Steps, Resolving
  <2> QED
    BY <2>2, <2>3, <2>4, <2>5 DEF CallInv
<1> QED
  BY <1>3, <1>4, <1>5, OneCall

\* The project id is resolved.
LEMMA FindKeeps == ASSUME Inv, NEW c \in Calls, Find(c) PROVE Inv'
<1> USE DEF Find, Goto, Reply, Return, Audit, store, outside, history, ResolveFails
<1>1. TypeOK
  BY DEF Inv
<1>2. CallInv(c)
  BY DEF Inv
<1>3. UNCHANGED project /\ \A d \in Calls \ {c} : Same(d) /\ seen'[d] = seen[d]
  BY <1>1 DEF TypeOK, Same
<1>4. TypeOK'
  <2>1. Reporting'
    <3> HIDE DEF Goto, Return, Audit, Reply
    <3> QED
      BY <1>1, Audits, Returns, GoesOn, Typing DEF Steps, Resolving, Replies
  <2>2. pid' \in [Calls -> 0..lastId]
    <3>1. \A p \in project : p.id \in 0..lastId
      BY <1>1 DEF TypeOK
    <3> QED
      BY <1>1, <3>1 DEF TypeOK
  <2> HIDE DEF Goto, Return, Audit, Reply
  <2> QED
    BY <1>1, <2>1, <2>2, Typing DEF Reporting, TypeOK
<1>5. CallInv(c)'
  <2>1. Allowed' = Allowed
    BY <1>3 DEF Allowed
  <2>2. ProgressInv(c)'
    BY <1>1, <1>2 DEF TypeOK, CallInv, ProgressInv, Auditing, Steps, Resolving
  <2>3. AuditInv(c)'
    BY <1>1, <1>2 DEF TypeOK, CallInv, ProgressInv, AuditInv, Auditing, Audited, Using, KeysOf, Steps, Resolving
  <2>4. SeenInv(c)'
    BY <1>1, <1>2, <2>1 DEF TypeOK, CallInv, ProgressInv, SeenInv, Auditing, Steps, Resolving
  <2>5. ChildInv(c)'
    BY <1>1, <1>2 DEF TypeOK, CallInv, ProgressInv, ChildInv, Auditing, Steps, Resolving
  <2> QED
    BY <2>2, <2>3, <2>4, <2>5 DEF CallInv
<1> QED
  BY <1>3, <1>4, <1>5, OneCall

\* The environment is looked up.
LEMMA FindEnvironmentKeeps == ASSUME Inv, NEW c \in Calls, FindEnvironment(c) PROVE Inv'
<1> USE DEF FindEnvironment, Goto, Reply, Return, Audit, store, outside, history, ResolveFails
<1>1. TypeOK
  BY DEF Inv
<1>2. CallInv(c)
  BY DEF Inv
<1>3. UNCHANGED project /\ \A d \in Calls \ {c} : Same(d) /\ seen'[d] = seen[d]
  BY <1>1 DEF TypeOK, Same
<1>4. TypeOK'
  <2>1. Reporting'
    <3> HIDE DEF Goto, Return, Audit, Reply
    <3> QED
      BY <1>1, Audits, Returns, GoesOn, Typing DEF Steps, Resolving, Replies
  <2> HIDE DEF Goto, Return, Audit, Reply
  <2> QED
    BY <1>1, <2>1, Typing DEF Reporting, TypeOK
<1>5. CallInv(c)'
  <2>1. Allowed' = Allowed
    BY <1>3 DEF Allowed
  <2>2. ProgressInv(c)'
    BY <1>1, <1>2 DEF TypeOK, CallInv, ProgressInv, Auditing, Steps, Resolving
  <2>3. AuditInv(c)'
    BY <1>1, <1>2 DEF TypeOK, CallInv, ProgressInv, AuditInv, Auditing, Audited, Using, KeysOf, Steps, Resolving
  <2>4. SeenInv(c)'
    BY <1>1, <1>2, <2>1 DEF TypeOK, CallInv, ProgressInv, SeenInv, Auditing, Steps, Resolving
  <2>5. ChildInv(c)'
    BY <1>1, <1>2 DEF TypeOK, CallInv, ProgressInv, ChildInv, Auditing, Steps, Resolving
  <2> QED
    BY <2>2, <2>3, <2>4, <2>5 DEF CallInv
<1> QED
  BY <1>3, <1>4, <1>5, OneCall

\* The secrets, or their scopes, are read.
LEMMA SelectKeeps == ASSUME Inv, NEW c \in Calls, Select(c) PROVE Inv'
<1> USE DEF Select, Goto, Reply, Return, Audit, store, outside, history, ResolveFails
<1>1. TypeOK
  BY DEF Inv
<1>2. CallInv(c)
  BY DEF Inv
<1>3. UNCHANGED project /\ \A d \in Calls \ {c} : Same(d) /\ seen'[d] = seen[d]
  BY <1>1 DEF TypeOK, Same
<1>4. TypeOK'
  <2>1. Reporting'
    <3>1. CASE goal[c] = "secrets"
      <4> HIDE DEF Goto, Return, Audit, Reply
      <4> QED
        BY <1>1, <3>1, Returns, GoesOn, Typing DEF Steps, Resolving, Replies
    <3>2. CASE goal[c] = "scopes"
      <4>1. /\ pc' = [pc EXCEPT ![c] = "append"] /\ UNCHANGED <<goal, reply>>
            /\ row' \in {row, [row EXCEPT ![c] = [keys |-> row[c].keys, scopes |-> ScopesNow(c)]]}
        BY <3>2
      <4>2. row' \in [Calls -> AuditRow]
        BY <1>1, <4>1, Typing DEF TypeOK
      <4>3. \A d \in Calls : KeysOf(row[d].scopes) \in {{}, row[d].keys}
        BY <1>1 DEF TypeOK
      <4>4. \A d \in Calls : \/ row'[d] = row[d]
                             \/ d = c /\ row'[d] = [keys |-> row[c].keys, scopes |-> ScopesNow(c)]
        BY <1>1, <4>1 DEF TypeOK
      <4>5. \A d \in Calls : KeysOf(row'[d].scopes) \in {{}, row'[d].keys}
        BY <1>1, <4>3, <4>4, Typing
      <4> QED
        BY <1>1, <4>1, <4>2, <4>5 DEF Reporting, TypeOK, Steps, Resolving
    <3> QED
      BY <1>1, <3>1, <3>2 DEF TypeOK
  <2>2. secrets' \in [Calls -> SUBSET (Keys \X {"project", "shared"})]
    <3>1. secrets' = secrets \/ secrets' = [secrets EXCEPT ![c] = Effective(pid[c])]
      OBVIOUS
    <3>2. secrets \in [Calls -> SUBSET (Keys \X {"project", "shared"})]
      BY <1>1 DEF TypeOK
    <3>3. Effective(pid[c]) \in SUBSET (Keys \X {"project", "shared"})
      BY <1>1, Typing
    <3> HIDE DEF Select
    <3> QED
      BY <3>1, <3>2, <3>3
  <2> HIDE DEF Select, Goto, Return, Audit, Reply
  <2>3. UNCHANGED <<store, audit, req, pid, outside, effect, history>>
    BY DEF Select
  <2> QED
    BY <1>1, <2>1, <2>2, <2>3 DEF Reporting, TypeOK
<1>5. CallInv(c)'
  <2>1. Allowed' = Allowed
    BY <1>3 DEF Allowed
  <2>2. ProgressInv(c)'
    BY <1>1, <1>2 DEF TypeOK, CallInv, ProgressInv, Auditing, Steps, Resolving
  <2>3. AuditInv(c)'
    <3>1. CASE goal[c] = "secrets"
      BY <1>1, <1>2, <3>1 DEF TypeOK, CallInv, ProgressInv, AuditInv, Auditing, Audited, Using, KeysOf, Steps, Resolving
    <3>2. CASE goal[c] = "scopes"
      BY <1>1, <1>2, <3>2 DEF TypeOK, CallInv, ProgressInv, AuditInv, Auditing, Audited, Using, KeysOf, Steps, Resolving
    <3> QED
      BY <1>1, <3>1, <3>2 DEF TypeOK
  <2>4. SeenInv(c)'
    BY <1>1, <1>2, <2>1 DEF TypeOK, CallInv, ProgressInv, SeenInv, Auditing, Steps, Resolving
  <2>5. ChildInv(c)'
    BY <1>1, <1>2 DEF TypeOK, CallInv, ProgressInv, ChildInv, Auditing, Steps, Resolving
  <2> QED
    BY <2>2, <2>3, <2>4, <2>5 DEF CallInv
<1> QED
  BY <1>3, <1>4, <1>5, OneCall

\* The audit row is stored or lost.
LEMMA InsertAuditKeeps == ASSUME Inv, NEW c \in Calls, InsertAudit(c) PROVE Inv'
<1> USE DEF InsertAudit, Goto, Reply, Return, Audit, store, outside, history
<1>1. TypeOK
  BY DEF Inv
<1>2. CallInv(c)
  BY DEF Inv
<1>3. UNCHANGED project /\ \A d \in Calls \ {c} : Same(d) /\ seen'[d] = seen[d]
  BY <1>1 DEF TypeOK, Same
<1>4. TypeOK'
  <2>1. row[c] \in AuditRow
    BY <1>1 DEF TypeOK
  <2>2. \A s \in Seq(AuditRow) : Append(s, row[c]) \in Seq(AuditRow)
    BY <2>1
  <2>3. audit \in [Calls -> Seq(AuditRow)] /\ audit[c] \in Seq(AuditRow)
    BY <1>1 DEF TypeOK
  <2>4. audit' \in [Calls -> Seq(AuditRow)]
    BY <2>2, <2>3
  <2> QED
    BY <1>1, <2>4 DEF TypeOK, Steps, Resolving
<1>5. CallInv(c)'
  <2>1. Allowed' = Allowed
    BY <1>3 DEF Allowed
  <2>2. ProgressInv(c)'
    BY <1>1, <1>2 DEF TypeOK, CallInv, ProgressInv, Auditing, Steps, Resolving
  <2>3. AuditInv(c)'
    BY <1>1, <1>2 DEF TypeOK, CallInv, ProgressInv, AuditInv, Auditing, Audited, Using, KeysOf, Steps, Resolving
  <2>4. SeenInv(c)'
    BY <1>1, <1>2, <2>1 DEF TypeOK, CallInv, ProgressInv, SeenInv, Auditing, Steps, Resolving
  <2>5. ChildInv(c)'
    BY <1>1, <1>2 DEF TypeOK, CallInv, ProgressInv, ChildInv, Auditing, Steps, Resolving
  <2> QED
    BY <2>2, <2>3, <2>4, <2>5 DEF CallInv
<1> QED
  BY <1>3, <1>4, <1>5, OneCall

\* The secrets are put to use.
LEMMA UseKeeps == ASSUME Inv, NEW c \in Calls, Use(c) PROVE Inv'
<1> USE DEF Use, Goto, Reply, Return, Audit, store, outside, history
<1>1. TypeOK
  BY DEF Inv
<1>2. CallInv(c)
  BY DEF Inv
<1>3. UNCHANGED project /\ \A d \in Calls \ {c} : Same(d) /\ seen'[d] = seen[d]
  BY <1>1 DEF TypeOK, Same
<1>4. TypeOK'
  <2>1. Reporting'
    <3> HIDE DEF Goto, Return, Audit, Reply
    <3> QED
      BY <1>1, Audits, Returns, GoesOn, Typing DEF Steps, Resolving, Replies
  <2> HIDE DEF Goto, Return, Audit, Reply
  <2> QED
    BY <1>1, <2>1, Typing DEF Reporting, TypeOK
<1>5. CallInv(c)'
  <2>1. Allowed' = Allowed
    BY <1>3 DEF Allowed
  <2>2. ProgressInv(c)'
    <3>1. pc[c] = "use" /\ goal[c] = "secrets" /\ effect[c] = "none" /\ reply[c] = "none"
      BY <1>1, <1>2 DEF TypeOK, CallInv, ProgressInv, Auditing, Resolving
    <3> HIDE DEF Goto, Reply, Return, Audit
    <3>2. \/ \E r \in {"error", "result"}, keys \in {Using(c), {}} : Audit(c, keys, r)
          \/ req[c].tool = "execute" /\ Goto(c, "start") /\ UNCHANGED <<goal, row, reply>>
          \/ req[c].tool = "open" /\ Audit(c, Using(c), "none")
          \/ req[c].tool = "proxy" /\ Goto(c, "request") /\ UNCHANGED <<goal, row, reply>>
      OBVIOUS
    <3>3. UNCHANGED <<req, effect>>
      OBVIOUS
    <3> HIDE DEF Use
    <3>10. CASE \E r \in {"error", "result"}, keys \in {Using(c), {}} : Audit(c, keys, r)
      BY <1>1, <3>1, <3>3, <3>10 DEF Audit, Goto, Reply, TypeOK, ProgressInv, Auditing, Steps, Resolving
    <3>11. CASE req[c].tool = "execute" /\ Goto(c, "start") /\ UNCHANGED <<goal, row, reply>>
      BY <1>1, <3>1, <3>3, <3>11 DEF Goto, TypeOK, ProgressInv, Auditing, Steps, Resolving
    <3>12. CASE req[c].tool = "open" /\ Audit(c, Using(c), "none")
      BY <1>1, <3>1, <3>3, <3>12 DEF Audit, Goto, Reply, TypeOK, ProgressInv, Auditing, Steps, Resolving
    <3>13. CASE req[c].tool = "proxy" /\ Goto(c, "request") /\ UNCHANGED <<goal, row, reply>>
      BY <1>1, <3>1, <3>3, <3>13 DEF Goto, TypeOK, ProgressInv, Auditing, Steps, Resolving
    <3> QED
      BY <3>2, <3>10, <3>11, <3>12, <3>13
  <2>3. AuditInv(c)'
    <3>1. Using(c)' = Using(c)
      BY DEF Using
    <3>2. UNCHANGED <<effect, audit, lost>> /\ effect[c] \in {"none"} /\ pc[c] = "use" /\ goal[c] = "secrets"
          /\ audit[c] = <<>> /\ ~lost[c]
      BY <1>1, <1>2 DEF TypeOK, CallInv, ProgressInv, AuditInv, Resolving
    <3>0. pc \in [Calls -> {"idle", "done"} \cup Steps]
      BY <1>1 DEF TypeOK
    <3>3. \/ \E r : Audit(c, Using(c), r)
          \/ pc' = [pc EXCEPT ![c] = "start"] /\ UNCHANGED goal
          \/ pc' = [pc EXCEPT ![c] = "request"] /\ UNCHANGED goal
          \/ Audit(c, {}, "result")
      <4> HIDE DEF Audit, Reply, Return
      <4> QED
        OBVIOUS
    <3>4. \/ row'[c].keys = Using(c) /\ pc'[c] \in {"append", "find"}
          \/ pc'[c] \in {"start", "request"} /\ goal'[c] = "secrets"
          \/ pc'[c] \in {"append", "find"} /\ reply'[c] = "result"
      <4> HIDE DEF Use, Audit
      <4> QED
        BY <1>1, <3>2, <3>3, <3>0, AuditSets
    <3> HIDE DEF Use, Using
    <3> QED
      BY <3>1, <3>2, <3>4 DEF AuditInv, Auditing, Audited, Resolving
  <2>4. SeenInv(c)'
    BY <1>1, <1>2, <2>1 DEF TypeOK, CallInv, ProgressInv, SeenInv, Auditing, Steps, Resolving
  <2>5. ChildInv(c)'
    BY <1>1, <1>2 DEF TypeOK, CallInv, ProgressInv, ChildInv, Auditing, Steps, Resolving
  <2> QED
    BY <2>2, <2>3, <2>4, <2>5 DEF CallInv
<1> QED
  BY <1>3, <1>4, <1>5, OneCall

\* The browser is opened.
LEMMA LaunchKeeps == ASSUME Inv, NEW c \in Calls, Launch(c) PROVE Inv'
<1> USE DEF Launch, Goto, Reply, Return, Audit, store, outside, history
<1>1. TypeOK
  BY DEF Inv
<1>2. CallInv(c)
  BY DEF Inv
<1>3. UNCHANGED project /\ \A d \in Calls \ {c} : Same(d) /\ seen'[d] = seen[d]
  BY <1>1 DEF TypeOK, Same
<1>4. TypeOK'
  BY <1>1, <1>2, Typing, ToolAssumption DEF TypeOK, Steps, Resolving, Replies, KeysOf
<1>5. CallInv(c)'
  <2>1. Allowed' = Allowed
    BY <1>3 DEF Allowed
  <2>2. ProgressInv(c)'
    BY <1>1, <1>2 DEF TypeOK, CallInv, ProgressInv, Auditing, Steps, Resolving
  <2>3. AuditInv(c)'
    BY <1>1, <1>2 DEF TypeOK, CallInv, ProgressInv, AuditInv, Auditing, Audited, Using, KeysOf, Steps, Resolving
  <2>4. SeenInv(c)'
    BY <1>1, <1>2, <2>1 DEF TypeOK, CallInv, ProgressInv, SeenInv, Auditing, Steps, Resolving
  <2>5. ChildInv(c)'
    BY <1>1, <1>2 DEF TypeOK, CallInv, ProgressInv, ChildInv, Auditing, Steps, Resolving
  <2> QED
    BY <2>2, <2>3, <2>4, <2>5 DEF CallInv
<1> QED
  BY <1>3, <1>4, <1>5, OneCall

\* The request is sent.
LEMMA SendKeeps == ASSUME Inv, NEW c \in Calls, Send(c) PROVE Inv'
<1> USE DEF Send, Goto, Reply, Return, Audit, store, outside, history
<1>1. TypeOK
  BY DEF Inv
<1>2. CallInv(c)
  BY DEF Inv
<1>3. UNCHANGED project /\ \A d \in Calls \ {c} : Same(d) /\ seen'[d] = seen[d]
  BY <1>1 DEF TypeOK, Same
<1>4. TypeOK'
  <2>1. Reporting'
    <3> HIDE DEF Goto, Return, Audit, Reply
    <3> QED
      BY <1>1, Audits, Returns, GoesOn, Typing DEF Steps, Resolving, Replies
  <2> HIDE DEF Goto, Return, Audit, Reply
  <2> QED
    BY <1>1, <2>1, Typing DEF Reporting, TypeOK
<1>5. CallInv(c)'
  <2>1. Allowed' = Allowed
    BY <1>3 DEF Allowed
  <2>2. ProgressInv(c)'
    BY <1>1, <1>2 DEF TypeOK, CallInv, ProgressInv, Auditing, Steps, Resolving
  <2>3. AuditInv(c)'
    <3>1. CASE Return(c, "error") /\ UNCHANGED effect
      BY <1>1, <1>2, <3>1 DEF TypeOK, CallInv, ProgressInv, AuditInv, Auditing, Audited, Using, KeysOf, Steps, Resolving
    <3>2. CASE Audit(c, Using(c), "error")
      BY <1>1, <1>2, <3>2 DEF TypeOK, CallInv, ProgressInv, AuditInv, Auditing, Audited, Using, KeysOf, Steps, Resolving
    <3>3. CASE Goto(c, "response") /\ UNCHANGED <<goal, row, reply>>
      BY <1>1, <1>2, <3>3 DEF TypeOK, CallInv, ProgressInv, AuditInv, Auditing, Audited, Using, KeysOf, Steps, Resolving
    <3> QED
      BY <3>1, <3>2, <3>3
  <2>4. SeenInv(c)'
    BY <1>1, <1>2, <2>1 DEF TypeOK, CallInv, ProgressInv, SeenInv, Auditing, Steps, Resolving
  <2>5. ChildInv(c)'
    BY <1>1, <1>2 DEF TypeOK, CallInv, ProgressInv, ChildInv, Auditing, Steps, Resolving
  <2> QED
    BY <2>2, <2>3, <2>4, <2>5 DEF CallInv
<1> QED
  BY <1>3, <1>4, <1>5, OneCall

\* The response is read.
LEMMA ReadResponseKeeps == ASSUME Inv, NEW c \in Calls, ReadResponse(c) PROVE Inv'
<1> USE DEF ReadResponse, Goto, Reply, Return, Audit, store, outside, history
<1>1. TypeOK
  BY DEF Inv
<1>2. CallInv(c)
  BY DEF Inv
<1>3. UNCHANGED project /\ \A d \in Calls \ {c} : Same(d) /\ seen'[d] = seen[d]
  BY <1>1 DEF TypeOK, Same
<1>4. TypeOK'
  <2>1. Reporting'
    <3> HIDE DEF Goto, Return, Audit, Reply
    <3> QED
      BY <1>1, Audits, Returns, GoesOn, Typing DEF Steps, Resolving, Replies
  <2> HIDE DEF Goto, Return, Audit, Reply
  <2> QED
    BY <1>1, <2>1, Typing DEF Reporting, TypeOK
<1>5. CallInv(c)'
  <2>1. Allowed' = Allowed
    BY <1>3 DEF Allowed
  <2>2. ProgressInv(c)'
    BY <1>1, <1>2 DEF TypeOK, CallInv, ProgressInv, Auditing, Steps, Resolving
  <2>3. AuditInv(c)'
    <3>1. CASE Return(c, "error")
      BY <1>1, <1>2, <3>1 DEF TypeOK, CallInv, ProgressInv, AuditInv, Auditing, Audited, Using, KeysOf, Steps, Resolving
    <3>2. CASE Audit(c, Using(c), "result")
      BY <1>1, <1>2, <3>2 DEF TypeOK, CallInv, ProgressInv, AuditInv, Auditing, Audited, Using, KeysOf, Steps, Resolving
    <3> QED
      BY <3>1, <3>2
  <2>4. SeenInv(c)'
    BY <1>1, <1>2, <2>1 DEF TypeOK, CallInv, ProgressInv, SeenInv, Auditing, Steps, Resolving
  <2>5. ChildInv(c)'
    BY <1>1, <1>2 DEF TypeOK, CallInv, ProgressInv, ChildInv, Auditing, Steps, Resolving
  <2> QED
    BY <2>2, <2>3, <2>4, <2>5 DEF CallInv
<1> QED
  BY <1>3, <1>4, <1>5, OneCall

\* The names of each scope are read.
LEMMA DiscoverKeeps == ASSUME Inv, NEW c \in Calls, Discover(c) PROVE Inv'
<1> USE DEF Discover, Goto, Reply, Return, Audit, store, outside, history
<1>1. TypeOK
  BY DEF Inv
<1>2. CallInv(c)
  BY DEF Inv
<1>3. UNCHANGED project /\ \A d \in Calls \ {c} : Same(d) /\ seen'[d] = seen[d]
  BY <1>1 DEF TypeOK, Same
<1>4. TypeOK'
  <2>1. Reporting'
    <3> HIDE DEF Goto, Return, Audit, Reply
    <3> QED
      BY <1>1, Audits, Returns, GoesOn, Typing DEF Steps, Resolving, Replies
  <2> HIDE DEF Goto, Return, Audit, Reply
  <2> QED
    BY <1>1, <2>1, Typing DEF Reporting, TypeOK
<1>5. CallInv(c)'
  <2>1. Allowed' = Allowed
    BY <1>3 DEF Allowed
  <2>2. ProgressInv(c)'
    BY <1>1, <1>2 DEF TypeOK, CallInv, ProgressInv, Auditing, Steps, Resolving
  <2>3. AuditInv(c)'
    BY <1>1, <1>2 DEF TypeOK, CallInv, ProgressInv, AuditInv, Auditing, Audited, Using, KeysOf, Steps, Resolving
  <2>4. SeenInv(c)'
    BY <1>1, <1>2, <2>1 DEF TypeOK, CallInv, ProgressInv, SeenInv, Auditing, Steps, Resolving
  <2>5. ChildInv(c)'
    BY <1>1, <1>2 DEF TypeOK, CallInv, ProgressInv, ChildInv, Auditing, Steps, Resolving
  <2> QED
    BY <2>2, <2>3, <2>4, <2>5 DEF CallInv
<1> QED
  BY <1>3, <1>4, <1>5, OneCall

\* The command is started.
LEMMA StartKeeps == ASSUME Inv, NEW c \in Calls, Start(c) PROVE Inv'
<1> USE DEF Start, Goto, Reply, Return, Audit, store, outside, history
<1>1. TypeOK
  BY DEF Inv
<1>2. CallInv(c)
  BY DEF Inv
<1>3. UNCHANGED project /\ \A d \in Calls \ {c} : Same(d) /\ seen'[d] = seen[d]
  BY <1>1 DEF TypeOK, Same
<1>4. TypeOK'
  <2>1. Reporting'
    <3> HIDE DEF Goto, Return, Audit, Reply
    <3> QED
      BY <1>1, Audits, Returns, GoesOn, Typing DEF Steps, Resolving, Replies
  <2>2. /\ child' \in [Calls -> {"none", "running", "exited", "killed"}]
        /\ tree' \in [Calls -> {"none", "group", "escaped"}]
        /\ effect' \in [Calls -> {"none", "started", "opened", "sent"}]
    <3>1. \/ UNCHANGED <<child, tree, effect>>
          \/ /\ child' = [child EXCEPT ![c] = "running"]
             /\ \E t \in {"none", "group", "escaped"} : tree' = [tree EXCEPT ![c] = t]
             /\ effect' = [effect EXCEPT ![c] = "started"]
      OBVIOUS
    <3>2. /\ child \in [Calls -> {"none", "running", "exited", "killed"}]
          /\ tree \in [Calls -> {"none", "group", "escaped"}]
          /\ effect \in [Calls -> {"none", "started", "opened", "sent"}]
      BY <1>1 DEF TypeOK
    <3> HIDE DEF Start
    <3> QED
      BY <3>1, <3>2
  <2> HIDE DEF Goto, Return, Audit, Reply
  <2> QED
    BY <1>1, <2>1, <2>2, Typing DEF Reporting, TypeOK
<1>5. CallInv(c)'
  <2>1. Allowed' = Allowed
    BY <1>3 DEF Allowed
  <2>2. ProgressInv(c)'
    BY <1>1, <1>2 DEF TypeOK, CallInv, ProgressInv, Auditing, Steps, Resolving
  <2>3. AuditInv(c)'
    <3>1. Using(c)' = Using(c)
      BY DEF Using
    <3>2. UNCHANGED <<audit, lost>> /\ pc[c] = "start" /\ goal[c] = "secrets"
          /\ audit[c] = <<>> /\ ~lost[c]
      BY <1>1, <1>2 DEF TypeOK, CallInv, ProgressInv, AuditInv, Resolving
    <3>0. /\ pc \in [Calls -> {"idle", "done"} \cup Steps]
          /\ effect \in [Calls -> {"none", "started", "opened", "sent"}]
      BY <1>1 DEF TypeOK
    <3>3. \/ Audit(c, Using(c), "error") /\ UNCHANGED effect
          \/ pc' = [pc EXCEPT ![c] = "wait"] /\ effect' = [effect EXCEPT ![c] = "started"]
      <4> HIDE DEF Audit
      <4> QED
        OBVIOUS
    <3>4. effect[c] = "none"
      BY <1>2, <3>2 DEF CallInv, ProgressInv
    <3>5. \/ row'[c].keys = Using(c) /\ pc'[c] \in {"append", "find"} /\ effect'[c] = "none"
          \/ pc'[c] = "wait" /\ effect'[c] = "started"
      <4> HIDE DEF Start, Audit
      <4> QED
        BY <1>1, <3>0, <3>3, <3>4, AuditSets
    <3> HIDE DEF Start, Using
    <3> QED
      BY <3>1, <3>2, <3>5 DEF AuditInv, Auditing, Audited, Resolving
  <2>4. SeenInv(c)'
    BY <1>1, <1>2, <2>1 DEF TypeOK, CallInv, ProgressInv, SeenInv, Auditing, Steps, Resolving
  <2>5. ChildInv(c)'
    BY <1>1, <1>2 DEF TypeOK, CallInv, ProgressInv, ChildInv, Auditing, Steps, Resolving
  <2> QED
    BY <2>2, <2>3, <2>4, <2>5 DEF CallInv
<1> QED
  BY <1>3, <1>4, <1>5, OneCall

\* The child has ended.
LEMMA WaitKeeps == ASSUME Inv, NEW c \in Calls, Wait(c) PROVE Inv'
<1> USE DEF Wait, Goto, Reply, Return, Audit, store, outside, history
<1>1. TypeOK
  BY DEF Inv
<1>2. CallInv(c)
  BY DEF Inv
<1>3. UNCHANGED project /\ \A d \in Calls \ {c} : Same(d) /\ seen'[d] = seen[d]
  BY <1>1 DEF TypeOK, Same
<1>4. TypeOK'
  BY <1>1, <1>2, Typing, ToolAssumption DEF TypeOK, Steps, Resolving, Replies, KeysOf
<1>5. CallInv(c)'
  <2>1. Allowed' = Allowed
    BY <1>3 DEF Allowed
  <2>2. ProgressInv(c)'
    BY <1>1, <1>2 DEF TypeOK, CallInv, ProgressInv, Auditing, Steps, Resolving
  <2>3. AuditInv(c)'
    BY <1>1, <1>2 DEF TypeOK, CallInv, ProgressInv, AuditInv, Auditing, Audited, Using, KeysOf, Steps, Resolving
  <2>4. SeenInv(c)'
    BY <1>1, <1>2, <2>1 DEF TypeOK, CallInv, ProgressInv, SeenInv, Auditing, Steps, Resolving
  <2>5. ChildInv(c)'
    BY <1>1, <1>2 DEF TypeOK, CallInv, ProgressInv, ChildInv, Auditing, Steps, Resolving
  <2> QED
    BY <2>2, <2>3, <2>4, <2>5 DEF CallInv
<1> QED
  BY <1>3, <1>4, <1>5, OneCall

\* The descendants are killed.
LEMMA TerminateKeeps == ASSUME Inv, NEW c \in Calls, Terminate(c) PROVE Inv'
<1> USE DEF Terminate, Goto, Reply, Return, Audit, store, outside, history, TreeAfterKill, GroupKilled
<1>1. TypeOK
  BY DEF Inv
<1>2. CallInv(c)
  BY DEF Inv
<1>3. UNCHANGED project /\ \A d \in Calls \ {c} : Same(d) /\ seen'[d] = seen[d]
  BY <1>1 DEF TypeOK, Same
<1>4. TypeOK'
  BY <1>1, <1>2, Typing, ToolAssumption DEF TypeOK, Steps, Resolving, Replies, KeysOf
<1>5. CallInv(c)'
  <2>1. Allowed' = Allowed
    BY <1>3 DEF Allowed
  <2>2. ProgressInv(c)'
    BY <1>1, <1>2 DEF TypeOK, CallInv, ProgressInv, Auditing, Steps, Resolving
  <2>3. AuditInv(c)'
    BY <1>1, <1>2 DEF TypeOK, CallInv, ProgressInv, AuditInv, Auditing, Audited, Using, KeysOf, Steps, Resolving
  <2>4. SeenInv(c)'
    BY <1>1, <1>2, <2>1 DEF TypeOK, CallInv, ProgressInv, SeenInv, Auditing, Steps, Resolving
  <2>5. ChildInv(c)'
    BY <1>1, <1>2 DEF TypeOK, CallInv, ProgressInv, ChildInv, Auditing, Steps, Resolving
  <2> QED
    BY <2>2, <2>3, <2>4, <2>5 DEF CallInv
<1> QED
  BY <1>3, <1>4, <1>5, OneCall

\* The outcome is reported.
LEMMA ResultKeeps == ASSUME Inv, NEW c \in Calls, Result(c) PROVE Inv'
<1> USE DEF Result, Goto, Reply, Return, Audit, store, outside, history, DeadlinePassed, TimedOut
<1>1. TypeOK
  BY DEF Inv
<1>2. CallInv(c)
  BY DEF Inv
<1>3. UNCHANGED project /\ \A d \in Calls \ {c} : Same(d) /\ seen'[d] = seen[d]
  BY <1>1 DEF TypeOK, Same
<1>4. TypeOK'
  <2>1. Reporting'
    <3> HIDE DEF Goto, Return, Audit, Reply
    <3> QED
      BY <1>1, Audits, Returns, GoesOn, Typing DEF Steps, Resolving, Replies
  <2> HIDE DEF Goto, Return, Audit, Reply
  <2> QED
    BY <1>1, <2>1, Typing DEF Reporting, TypeOK
<1>5. CallInv(c)'
  <2>1. Allowed' = Allowed
    BY <1>3 DEF Allowed
  <2>2. ProgressInv(c)'
    BY <1>1, <1>2 DEF TypeOK, CallInv, ProgressInv, Auditing, Steps, Resolving
  <2>3. AuditInv(c)'
    <3>1. Using(c)' = Using(c)
      BY DEF Using
    <3>2. UNCHANGED <<effect, audit, lost>> /\ effect[c] \in {"started"} /\ pc[c] = "result" /\ goal[c] = "secrets"
          /\ audit[c] = <<>> /\ ~lost[c]
      BY <1>1, <1>2 DEF TypeOK, CallInv, ProgressInv, AuditInv, Resolving
    <3>3. \E r : Audit(c, Using(c), r)
      <4> HIDE DEF Audit
      <4> QED
        OBVIOUS
    <3>4. row'[c].keys = Using(c) /\ pc'[c] \in {"append", "find"}
      <4> HIDE DEF Result, Audit
      <4> QED
        BY <1>1, <3>3, AuditSets
    <3> HIDE DEF Result, Using
    <3> QED
      BY <3>1, <3>2, <3>4 DEF AuditInv, Auditing, Audited, Resolving
  <2>4. SeenInv(c)'
    BY <1>1, <1>2, <2>1 DEF TypeOK, CallInv, ProgressInv, SeenInv, Auditing, Steps, Resolving
  <2>5. ChildInv(c)'
    BY <1>1, <1>2 DEF TypeOK, CallInv, ProgressInv, ChildInv, Auditing, Steps, Resolving
  <2> QED
    BY <2>2, <2>3, <2>4, <2>5 DEF CallInv
<1> QED
  BY <1>3, <1>4, <1>5, OneCall

\* The timeout fires.
LEMMA DeadlineKeeps == ASSUME Inv, NEW c \in Calls, Deadline(c) PROVE Inv'
<1> USE DEF Deadline, Goto, Reply, Return, Audit, store, outside, history, TreeAfterKill, GroupKilled
<1>1. TypeOK
  BY DEF Inv
<1>2. CallInv(c)
  BY DEF Inv
<1>3. UNCHANGED project /\ \A d \in Calls \ {c} : Same(d) /\ seen'[d] = seen[d]
  BY <1>1 DEF TypeOK, Same
<1>4. TypeOK'
  <2>1. /\ child' \in [Calls -> {"none", "running", "exited", "killed"}]
        /\ tree' \in [Calls -> {"none", "group", "escaped"}]
        /\ fired' \in [Calls -> BOOLEAN]
    BY <1>1 DEF TypeOK
  <2> QED
    BY <1>1, <2>1 DEF TypeOK
<1>5. CallInv(c)'
  <2>1. Allowed' = Allowed
    BY <1>3 DEF Allowed
  <2>2. ProgressInv(c)'
    BY <1>1, <1>2 DEF TypeOK, CallInv, ProgressInv, Auditing, Steps, Resolving
  <2>3. AuditInv(c)'
    BY <1>1, <1>2 DEF TypeOK, CallInv, ProgressInv, AuditInv, Auditing, Audited, Using, KeysOf, Steps, Resolving
  <2>4. SeenInv(c)'
    BY <1>1, <1>2, <2>1 DEF TypeOK, CallInv, ProgressInv, SeenInv, Auditing, Steps, Resolving
  <2>5. ChildInv(c)'
    BY <1>1, <1>2 DEF TypeOK, CallInv, ProgressInv, ChildInv, Auditing, Steps, Resolving
  <2> QED
    BY <2>2, <2>3, <2>4, <2>5 DEF CallInv
<1> QED
  BY <1>3, <1>4, <1>5, OneCall

\* A process ends by itself.
LEMMA ExitKeeps == ASSUME Inv, NEW c \in Calls, Exit(c) PROVE Inv'
<1> USE DEF Exit, Goto, Reply, Return, Audit, store, outside, history
<1>1. TypeOK
  BY DEF Inv
<1>2. CallInv(c)
  BY DEF Inv
<1>3. UNCHANGED project /\ \A d \in Calls \ {c} : Same(d) /\ seen'[d] = seen[d]
  BY <1>1 DEF TypeOK, Same
<1>4. TypeOK'
  BY <1>1, <1>2, Typing, ToolAssumption DEF TypeOK, Steps, Resolving, Replies, KeysOf
<1>5. CallInv(c)'
  <2>1. Allowed' = Allowed
    BY <1>3 DEF Allowed
  <2>2. ProgressInv(c)'
    BY <1>1, <1>2 DEF TypeOK, CallInv, ProgressInv, Auditing, Steps, Resolving
  <2>3. AuditInv(c)'
    BY <1>1, <1>2 DEF TypeOK, CallInv, ProgressInv, AuditInv, Auditing, Audited, Using, KeysOf, Steps, Resolving
  <2>4. SeenInv(c)'
    BY <1>1, <1>2, <2>1 DEF TypeOK, CallInv, ProgressInv, SeenInv, Auditing, Steps, Resolving
  <2>5. ChildInv(c)'
    BY <1>1, <1>2 DEF TypeOK, CallInv, ProgressInv, ChildInv, Auditing, Steps, Resolving
  <2> QED
    BY <2>2, <2>3, <2>4, <2>5 DEF CallInv
<1> QED
  BY <1>3, <1>4, <1>5, OneCall

\* The steps of the calls, and of the UI.
THEOREM CallInvariant == Spec => []Inv
<1>1. Inv /\ [Next]_vars => Inv'
  <2> SUFFICES ASSUME Inv, [Next]_vars PROVE Inv'
    OBVIOUS
  <2>1. CASE UI
    BY <2>1, UIInv
  <2>2. ASSUME NEW c \in Calls, Call(c) \/ Handler(c) \/ Deadline(c) \/ Exit(c)
        PROVE  Inv'
    BY <2>2, CallKeeps, ReadProjectKeeps, FindKeeps, FindEnvironmentKeeps, SelectKeeps,
       InsertAuditKeeps, UseKeeps, LaunchKeeps, SendKeeps, ReadResponseKeeps, StartKeeps, DiscoverKeeps,
       WaitKeeps, TerminateKeeps, ResultKeeps, DeadlineKeeps, ExitKeeps DEF Handler
  <2>3. CASE UNCHANGED vars
    <3> USE <2>3 DEF vars
    <3>1. TypeOK'
      BY DEF Inv, TypeOK
    <3>2. \A d \in Calls : Same(d) /\ seen'[d] = seen[d]
      BY DEF Same
    <3>3. Allowed' = Allowed
      BY DEF Allowed
    <3>4. \A d \in Calls : CallInv(d)'
      BY <3>2, <3>3, LeftAlone DEF Inv, CallInv, SeenInv
    <3> QED
      BY <3>1, <3>4 DEF Inv
  <2> QED
    BY <2>1, <2>2, <2>3 DEF Next
<1> QED
  BY InitInv, <1>1, PTL DEF Spec

\* The types are right for any number of calls, keys and requests.
THEOREM Typed == Spec => []TypeOK
<1>1. Inv => TypeOK
  BY DEF Inv
<1> QED
  BY <1>1, CallInvariant, PTL

\* A switch was on while the call that used it was under way, in every
\* interleaving with the UI.
THEOREM AllowedEffects == Spec => []EffectWasAllowed
<1>1. Inv => EffectWasAllowed
  BY DEF Inv, CallInv, SeenInv, EffectWasAllowed
<1> QED
  BY <1>1, CallInvariant, PTL

\* Commands and browsers are audited, once, with the keys that were handed out.
THEOREM AuditedCommands == Spec => []CommandsAudited
<1>1. Inv => CommandsAudited
  BY DEF Inv, CallInv, AuditInv, Audited, CommandsAudited
<1> QED
  BY <1>1, CallInvariant, PTL

\* No process of the group is left when the handler returns.
THEOREM ChildrenReaped == Spec => []NoSurvivors
<1>1. Inv => NoSurvivors
  BY DEF Inv, CallInv, ChildInv, NoSurvivors
<1> QED
  BY <1>1, CallInvariant, PTL

\* An exit code is only reported of a command that ended by itself.
THEOREM ResultsOfExited == Spec => []ResultMeansExited
<1>1. Inv => ResultMeansExited
  BY DEF Inv, CallInv, ChildInv, ResultMeansExited
<1> QED
  BY <1>1, CallInvariant, PTL
=============================================================================
