----------------------------- MODULE ToolCalls -----------------------------
(***************************************************************************)
(* The handlers of the MCP tools (src/pkg/mcp/exec.go, open.go, proxy.go,  *)
(* tools.go, server.go), called concurrently for one project and           *)
(* environment while the web UI creates and deletes the project, switches  *)
(* its capabilities and edits its secrets.  A handler's step is one store  *)
(* statement or one effect outside; an operation of the UI is one step     *)
(* here, VaultStore has its statements.  Of a secret only the key and the  *)
(* kind of scope it resolves from are kept; redaction is in Redaction.     *)
(***************************************************************************)
EXTENDS Naturals, Sequences, FiniteSets

CONSTANTS Calls,        \* tool calls
          Keys,         \* secret keys
          Requests,     \* what calls may ask for
          MaxProjects   \* bound: times the project is created

Tools == {"execute", "open", "proxy", "list", "context", "discover"}
Scopes == {"project", "shared", "unknown"}

\* tags: the {{NAME}} tags of a command; quoted: they stand where no shell
\* expands a reference, or no known shell is named.
Request == [tool : Tools, tags : SUBSET Keys, quoted : BOOLEAN]

ASSUME ToolAssumption ==
    /\ Requests \subseteq Request
    /\ MaxProjects \in Nat

VARIABLES project,      \* the project's row, if it is there
          lastId,       \* the last project id handed out
          defs,         \* <<project id, key>> of every definition; 0 is shared
          audit,        \* audit[c]: the rows of table audit_log that c wrote
          pc, req,      \* the step each call is at, its request
          goal,         \* why it resolves: "secrets", or "scopes" for the audit
          pid,          \* the project id it resolved
          secrets,      \* the effective keys, with their scopes
          row,          \* the audit row it is about to write
          reply,        \* what the client gets
          child,        \* the direct child of execute_with_secrets
          tree,         \* its descendants: in its process group, or escaped
          fired,        \* the execution timeout has fired
          effect,       \* what the call has done outside
          seen, lost    \* history: capabilities on since it began; row not stored

store == <<project, lastId, defs>>
outside == <<child, tree, fired>>
history == <<seen, lost>>
vars == <<project, lastId, defs, audit, pc, req, goal, pid, secrets, row, reply,
          child, tree, fired, effect, seen, lost>>

Project == [id : Nat, execute : BOOLEAN, open : BOOLEAN, env : BOOLEAN]
Secret == Keys \X Scopes
AuditRow == [keys : SUBSET Keys, scopes : SUBSET Secret]

Resolving == {"find", "environment", "select"}
Steps == Resolving \cup {"project", "use", "start", "wait", "terminate", "result",
                         "launch", "request", "response", "discover", "append"}
Replies == {"none", "error", "refused", "timeout", "result"}

NoRow == [keys |-> {}, scopes |-> {}]
NoRequest == [tool |-> "list", tags |-> {}, quoted |-> FALSE]

KeysOf(s) == {e[1] : e \in s}

\* The scope a key resolves from: the project with this id above the shared ones.
ScopeOf(id, k) == IF <<id, k>> \in defs THEN "project"
                  ELSE IF <<0, k>> \in defs THEN "shared" ELSE "unknown"

\* Variant: every key that is known, defined here or not.
Effective_Unfiltered(id) == {<<k, ScopeOf(id, k)>> : k \in Keys}

Effective(id) == {<<k, ScopeOf(id, k)>> : k \in {j \in Keys : ScopeOf(id, j) # "unknown"}}

Allows(p) == {t \in {"execute", "open"} : IF t = "execute" THEN p.execute ELSE p.open}
Allowed == UNION {Allows(p) : p \in project}

-----------------------------------------------------------------------------
Init ==
    /\ project = {} /\ lastId = 0 /\ defs = {}
    /\ audit = [c \in Calls |-> <<>>]
    /\ pc = [c \in Calls |-> "idle"]
    /\ req = [c \in Calls |-> NoRequest]
    /\ goal = [c \in Calls |-> "secrets"]
    /\ pid = [c \in Calls |-> 0]
    /\ secrets = [c \in Calls |-> {}]
    /\ row = [c \in Calls |-> NoRow]
    /\ reply = [c \in Calls |-> "none"]
    /\ child = [c \in Calls |-> "none"]
    /\ tree = [c \in Calls |-> "none"]
    /\ fired = [c \in Calls |-> FALSE]
    /\ effect = [c \in Calls |-> "none"]
    /\ seen = [c \in Calls |-> {}]
    /\ lost = [c \in Calls |-> FALSE]

-----------------------------------------------------------------------------
(***************************************************************************)
(* The web UI.                                                             *)
(***************************************************************************)
Create ==
    /\ project = {} /\ lastId < MaxProjects
    /\ lastId' = lastId + 1
    /\ project' = {[id |-> lastId + 1, execute |-> FALSE, open |-> FALSE, env |-> FALSE]}
    /\ UNCHANGED <<defs, seen>>

CreateEnvironment ==
    /\ project' = {[p EXCEPT !.env = TRUE] : p \in project}
    /\ UNCHANGED <<lastId, defs, seen>>

Delete ==
    /\ project' = {}
    /\ defs' = {d \in defs : \A p \in project : d[1] # p.id}
    /\ UNCHANGED <<lastId, seen>>

SetAllow(tool, on) ==
    /\ project' = {IF tool = "execute" THEN [p EXCEPT !.execute = on]
                                       ELSE [p EXCEPT !.open = on] : p \in project}
    /\ seen' = [c \in Calls |-> IF pc[c] = "idle" THEN {}
                                ELSE seen[c] \cup UNION {Allows(p) : p \in project'}]
    /\ UNCHANGED <<lastId, defs>>

Edit(id, k) ==
    /\ id = 0 \/ \E p \in project : p.id = id
    /\ defs' \in {defs \cup {<<id, k>>}, defs \ {<<id, k>>}}
    /\ UNCHANGED <<project, lastId, seen>>

UI ==
    /\ \/ Create \/ CreateEnvironment \/ Delete
       \/ \E tool \in {"execute", "open"}, on \in BOOLEAN : SetAllow(tool, on)
       \/ \E id \in 0..lastId, k \in Keys : Edit(id, k)
    /\ UNCHANGED <<audit, pc, req, goal, pid, secrets, row, reply, outside, effect, lost>>

-----------------------------------------------------------------------------
(***************************************************************************)
(* A call: the project, the secrets.                                       *)
(***************************************************************************)
Goto(c, s) == pc' = [pc EXCEPT ![c] = s]

Reply(c, r) == reply' = [reply EXCEPT ![c] = r]

\* The handler returns, without an audit row of what it returns.
Return(c, r) == Goto(c, "done") /\ Reply(c, r) /\ UNCHANGED <<goal, row>>

\* Server.audit: the scopes are read again, if there are keys; then one INSERT.
Audit(c, keys, r) ==
    /\ row' = [row EXCEPT ![c] = [keys |-> keys, scopes |-> {}]]
    /\ Reply(c, r)
    /\ goal' = [goal EXCEPT ![c] = "scopes"]
    /\ Goto(c, IF keys = {} THEN "append" ELSE "find")

\* A call with no project, no command or no url is refused at once, and so is one
\* that needs values when the master key did not match at unlock.
Call(c) ==
    /\ pc[c] = "idle"
    /\ \E q \in Requests :
        /\ req' = [req EXCEPT ![c] = q]
        /\ \/ /\ Goto(c, IF q.tool \in {"proxy", "list", "discover"} THEN "find" ELSE "project")
              /\ UNCHANGED <<goal, row, reply>>
           \/ Return(c, "error")
    /\ seen' = [seen EXCEPT ![c] = Allowed]
    /\ UNCHANGED <<store, audit, pid, secrets, outside, effect, lost>>

\* Variant: allow_open taken for allow_execute.
Permitted_Swapped(p, tool) ==
    (tool = "execute" => p.open) /\ (tool = "open" => p.open)

Permitted(p, tool) ==
    (tool = "execute" => p.execute) /\ (tool = "open" => p.open)

ReadProject(c) ==
    /\ pc[c] = "project"
    /\ \/ /\ \E p \in project : Permitted(p, req[c].tool)
          /\ Goto(c, "find")
          /\ UNCHANGED <<goal, row, reply>>
       \/ /\ \E p \in project : ~Permitted(p, req[c].tool)
          /\ Audit(c, {}, "refused")
       \/ Return(c, "error")
    /\ UNCHANGED <<store, audit, req, pid, secrets, outside, effect, history>>

\* An error of ResolveDetailed ends the call, one of EffectiveScopes only leaves
\* the scopes out of the audit row.
ResolveFails(c) ==
    IF goal[c] = "secrets" THEN Return(c, "error")
    ELSE Goto(c, "append") /\ UNCHANGED <<goal, row, reply>>

Find(c) ==
    /\ pc[c] = "find"
    /\ \/ \E p \in project :
            /\ pid' = [pid EXCEPT ![c] = p.id]
            /\ Goto(c, IF goal[c] = "secrets" /\ req[c].tool = "discover"
                       THEN "discover" ELSE "environment")
            /\ UNCHANGED <<goal, row, reply>>
       \/ ResolveFails(c) /\ UNCHANGED pid
    /\ UNCHANGED <<store, audit, req, secrets, outside, effect, history>>

FindEnvironment(c) ==
    /\ pc[c] = "environment"
    /\ \/ /\ \E p \in project : p.id = pid[c] /\ p.env
          /\ Goto(c, "select")
          /\ UNCHANGED <<goal, row, reply>>
       \/ ResolveFails(c)
    /\ UNCHANGED <<store, audit, req, pid, secrets, outside, effect, history>>

\* A key that has no definition any more gets the zero scope.
ScopesNow(c) == {<<k, ScopeOf(pid[c], k)>> : k \in row[c].keys}

Select(c) ==
    /\ pc[c] = "select"
    /\ \/ /\ goal[c] = "secrets"
          /\ secrets' = [secrets EXCEPT ![c] = Effective(pid[c])]
          /\ Goto(c, "use")
          /\ UNCHANGED <<goal, row, reply>>
       \/ /\ goal[c] = "scopes"
          /\ row' = [row EXCEPT ![c] = [keys |-> row[c].keys, scopes |-> ScopesNow(c)]]
          /\ Goto(c, "append")
          /\ UNCHANGED <<goal, reply, secrets>>
       \/ ResolveFails(c) /\ UNCHANGED secrets
    /\ UNCHANGED <<store, audit, req, pid, outside, effect, history>>

\* A row that cannot be stored is logged and forgotten.
InsertAudit(c) ==
    /\ pc[c] = "append"
    /\ \/ audit' = [audit EXCEPT ![c] = Append(audit[c], row[c])] /\ UNCHANGED lost
       \/ lost' = [lost EXCEPT ![c] = TRUE] /\ UNCHANGED audit
    /\ Goto(c, IF reply[c] = "none" THEN "launch" ELSE "done")
    /\ UNCHANGED <<store, req, goal, pid, secrets, row, reply, outside, effect, seen>>

\* discover_secrets: names and hints of each scope in turn, any of which may be
\* gone by then.  No key is recorded as used.
Discover(c) ==
    /\ pc[c] = "discover"
    /\ Return(c, "error") \/ Audit(c, {}, "result")
    /\ UNCHANGED <<store, audit, req, pid, secrets, outside, effect, history>>

Using(c) == KeysOf(secrets[c])

\* execute refuses a tag no shell would expand; open audits before it launches.
Use(c) ==
    /\ pc[c] = "use"
    /\ LET q == req[c] IN
        \/ /\ q.tool = "execute" /\ q.quoted /\ q.tags \cap Using(c) # {}
           /\ Audit(c, Using(c), "error")
        \/ /\ q.tool = "execute" /\ ~(q.quoted /\ q.tags \cap Using(c) # {})
           /\ Goto(c, "start") /\ UNCHANGED <<goal, row, reply>>
        \/ /\ q.tool = "open"
           /\ Audit(c, Using(c), "none")
        \/ /\ q.tool = "proxy"
           /\ Goto(c, "request") /\ UNCHANGED <<goal, row, reply>>
        \/ /\ q.tool = "list"
           /\ Audit(c, Using(c), "result")
        \/ /\ q.tool = "context"
           /\ Audit(c, {}, "result")
    /\ UNCHANGED <<store, audit, req, pid, secrets, outside, effect, history>>

-----------------------------------------------------------------------------
(***************************************************************************)
(* open_in_browser and proxy_http_request.                                 *)
(***************************************************************************)
Launch(c) ==
    /\ pc[c] = "launch"
    /\ \/ Return(c, "error") /\ UNCHANGED effect
       \/ Return(c, "result") /\ effect' = [effect EXCEPT ![c] = "opened"]
    /\ UNCHANGED <<store, audit, req, pid, secrets, outside, history>>

\* An invalid request is not sent; a sent one may get no response.
Send(c) ==
    /\ pc[c] = "request"
    /\ \/ Return(c, "error") /\ UNCHANGED effect
       \/ Audit(c, Using(c), "error") /\ effect' = [effect EXCEPT ![c] = "sent"]
       \/ /\ Goto(c, "response") /\ UNCHANGED <<goal, row, reply>>
          /\ effect' = [effect EXCEPT ![c] = "sent"]
    /\ UNCHANGED <<store, audit, req, pid, secrets, outside, history>>

\* A body that cannot be read to its end is an error that is not audited.
ReadResponse(c) ==
    /\ pc[c] = "response"
    /\ Return(c, "error") \/ Audit(c, Using(c), "result")
    /\ UNCHANGED <<store, audit, req, pid, secrets, outside, effect, history>>

-----------------------------------------------------------------------------
(***************************************************************************)
(* execute_with_secrets: the child and its descendants.                    *)
(***************************************************************************)
Start(c) ==
    /\ pc[c] = "start"
    /\ \/ /\ Audit(c, Using(c), "error")
          /\ UNCHANGED <<child, tree, effect>>
       \/ /\ child' = [child EXCEPT ![c] = "running"]
          /\ \E t \in {"none", "group", "escaped"} : tree' = [tree EXCEPT ![c] = t]
          /\ effect' = [effect EXCEPT ![c] = "started"]
          /\ Goto(c, "wait") /\ UNCHANGED <<goal, row, reply>>
    /\ UNCHANGED <<store, audit, req, pid, secrets, fired, history>>

\* A kill of the process group takes the descendants that are in it.
GroupKilled(t) == IF t = "group" THEN "none" ELSE t

\* Variant: only the direct child is killed.
TreeAfterKill_Direct(t) == t

TreeAfterKill(t) == GroupKilled(t)

\* The timeout kills what still runs (cmd.Cancel); afterwards it only marks
\* the context.
Deadline(c) ==
    /\ pc[c] \in {"wait", "terminate", "result"} /\ ~fired[c]
    /\ fired' = [fired EXCEPT ![c] = TRUE]
    /\ IF child[c] = "running"
       THEN /\ child' = [child EXCEPT ![c] = "killed"]
            /\ tree' = [tree EXCEPT ![c] = TreeAfterKill(tree[c])]
       ELSE UNCHANGED <<child, tree>>
    /\ UNCHANGED <<store, audit, pc, req, goal, pid, secrets, row, reply, effect, history>>

\* The child ends, or a descendant does.
Exit(c) ==
    /\ \/ /\ child[c] = "running"
          /\ child' = [child EXCEPT ![c] = "exited"]
          /\ UNCHANGED tree
       \/ /\ tree[c] # "none"
          /\ tree' = [tree EXCEPT ![c] = "none"]
          /\ UNCHANGED child
    /\ UNCHANGED <<store, audit, pc, req, goal, pid, secrets, row, reply, fired, effect, history>>

\* Variant: no WaitDelay, so descendants that hold the pipes are waited for.
PipesClosed_NoDelay(c) == tree[c] = "none"

\* Descendants hold the child's output pipes, but only until WaitDelay is over.
PipesClosed(c) == TRUE

Wait(c) ==
    /\ pc[c] = "wait"
    /\ child[c] \in {"exited", "killed"}
    /\ PipesClosed(c)
    /\ Goto(c, "terminate")
    /\ UNCHANGED <<store, audit, req, goal, pid, secrets, row, reply, outside, effect, history>>

\* TerminateProcessTree.
Terminate(c) ==
    /\ pc[c] = "terminate"
    /\ tree' = [tree EXCEPT ![c] = TreeAfterKill(tree[c])]
    /\ Goto(c, "result")
    /\ UNCHANGED <<store, audit, req, goal, pid, secrets, row, reply, child, fired, effect, history>>

\* Variant: a timeout returns at once.
TimedOut_Unaudited(c) == Return(c, "timeout")

TimedOut(c) == Audit(c, Using(c), "timeout")

\* Variant: the context is not asked.
DeadlinePassed_Ignored(c) == FALSE

DeadlinePassed(c) == fired[c]

\* The deadline is looked at first; then any error of Wait but an exit code.
Result(c) ==
    /\ pc[c] = "result"
    /\ \/ DeadlinePassed(c) /\ TimedOut(c)
       \/ ~DeadlinePassed(c) /\ \E r \in {"result", "error"} : Audit(c, Using(c), r)
    /\ UNCHANGED <<store, audit, req, pid, secrets, outside, effect, history>>

-----------------------------------------------------------------------------
Handler(c) ==
    \/ ReadProject(c) \/ Find(c) \/ FindEnvironment(c) \/ Select(c) \/ Discover(c) \/ Use(c)
    \/ Launch(c) \/ Send(c) \/ ReadResponse(c)
    \/ Start(c) \/ Wait(c) \/ Terminate(c) \/ Result(c) \/ InsertAudit(c)

Next == UI \/ \E c \in Calls : Call(c) \/ Handler(c) \/ Deadline(c) \/ Exit(c)

\* A handler goes on when it can: its statements end within the busy timeout,
\* its requests within the client's, Wait within WaitDelay; the timer fires.
\* Nothing makes the child end.
Spec == Init /\ [][Next]_vars /\ \A c \in Calls : WF_vars(Handler(c)) /\ WF_vars(Deadline(c))

-----------------------------------------------------------------------------
(***************************************************************************)
(* Correctness.                                                            *)
(***************************************************************************)

\* The shape of the rows and locals: what is handed out comes from a known scope,
\* and the row a call is about to store has a scope for each of its keys, or none
\* at all.
TypeOK ==
    /\ project \subseteq Project /\ \A p \in project : p.id \in 1..lastId
    /\ lastId \in Nat
    /\ defs \subseteq (0..lastId) \X Keys
    /\ audit \in [Calls -> Seq(AuditRow)]
    /\ pc \in [Calls -> {"idle", "done"} \cup Steps]
    /\ req \in [Calls -> Request]
    /\ goal \in [Calls -> {"secrets", "scopes"}]
    /\ pid \in [Calls -> 0..lastId]
    /\ secrets \in [Calls -> SUBSET (Keys \X {"project", "shared"})]
    /\ row \in [Calls -> AuditRow]
    /\ \A c \in Calls : KeysOf(row[c].scopes) \in {{}, row[c].keys}
    /\ reply \in [Calls -> Replies]
    /\ child \in [Calls -> {"none", "running", "exited", "killed"}]
    /\ tree \in [Calls -> {"none", "group", "escaped"}]
    /\ fired \in [Calls -> BOOLEAN]
    /\ effect \in [Calls -> {"none", "started", "opened", "sent"}]
    /\ seen \in [Calls -> SUBSET {"execute", "open"}]
    /\ lost \in [Calls -> BOOLEAN]

\* A command is started, or a browser opened, only if the project's switch for
\* it was on at some moment since the call began, however the project was
\* deleted, created again and switched meanwhile.
EffectWasAllowed ==
    \A c \in Calls : /\ effect[c] = "started" => "execute" \in seen[c]
                     /\ effect[c] = "opened" => "open" \in seen[c]

\* A call that started a command, and whichever way that ended, has one audit
\* row when it returns, so has one that hands out the response to a request it
\* sent, a browser has it before it is opened, and the row names the keys of
\* exactly the secrets that were used.
CommandsAudited ==
    \A c \in Calls :
        /\ ~lost[c]
        /\ \/ effect[c] = "opened"
           \/ effect[c] = "started" /\ pc[c] = "done"
           \/ effect[c] = "sent" /\ pc[c] = "done" /\ reply[c] = "result"
        => Len(audit[c]) = 1 /\ audit[c][1].keys = Using(c)

\* When execute_with_secrets returns, its child has ended and so has every
\* descendant in the child's process group.
NoSurvivors ==
    \A c \in Calls : effect[c] = "started" /\ pc[c] = "done" =>
        child[c] # "running" /\ tree[c] # "group"

\* An exit code is reported only of a command that ended by itself, and not of
\* one that the timeout killed while the handler was on its way.
ResultMeansExited ==
    \A c \in Calls : effect[c] = "started" /\ reply[c] = "result" => child[c] = "exited"

\* Every call returns, also if the command never ends or leaves a descendant
\* behind that holds its output open.
CallsReturn == \A c \in Calls : (pc[c] # "idle") ~> (pc[c] = "done")

-----------------------------------------------------------------------------
(***************************************************************************)
(* The inductive invariant of the proofs.                                  *)
(***************************************************************************)
Audited(c) == lost[c] \/ (Len(audit[c]) = 1 /\ audit[c][1].keys = Using(c))

\* On its way to the audit row.
Auditing(c) == goal[c] = "scopes" /\ pc[c] \in Resolving \cup {"append"}

\* Where a call is tells what it has done: nothing outside before its secrets
\* are resolved, no audit row before the last step but one, and then the row of
\* what it handed out.
ProgressInv(c) ==
    /\ pc[c] \in {"idle", "project", "use", "start", "wait", "terminate", "result",
                  "request", "response", "discover"} => goal[c] = "secrets"
    /\ pc[c] = "append" => goal[c] = "scopes"
    /\ pc[c] \in {"idle", "project", "use", "start", "request", "discover"} => effect[c] = "none"
    /\ pc[c] \in Resolving /\ goal[c] = "secrets" => effect[c] = "none"
    /\ pc[c] \in {"wait", "terminate", "result"} => effect[c] = "started"
    /\ effect[c] = "started" =>
         pc[c] \in {"wait", "terminate", "result", "done"} \/ Auditing(c)
    /\ effect[c] = "sent" => pc[c] \in {"response", "done"} \/ Auditing(c)
    /\ effect[c] = "opened" => pc[c] = "done"
    /\ pc[c] = "start" => req[c].tool = "execute"
    /\ reply[c] # "none" => pc[c] = "done" \/ Auditing(c)
    /\ Auditing(c) /\ reply[c] = "none" => req[c].tool = "open" /\ effect[c] = "none"
    /\ pc[c] = "launch" => req[c].tool = "open" /\ effect[c] = "none"

AuditInv(c) ==
    /\ pc[c] \notin {"launch", "done"} => audit[c] = <<>> /\ ~lost[c]
    /\ Auditing(c) /\ (effect[c] \in {"started", "sent"} \/ reply[c] = "none") => row[c].keys = Using(c)
    /\ pc[c] = "launch" \/ effect[c] = "opened" => Audited(c)
    /\ effect[c] = "started" /\ pc[c] = "done" => Audited(c)
    /\ effect[c] = "sent" /\ pc[c] = "done" /\ reply[c] = "result" => Audited(c)

\* A call past the check has seen its switch on.
SeenInv(c) ==
    /\ pc[c] # "idle" => Allowed \subseteq seen[c]
    /\ pc[c] \in Steps \ {"project", "append"} \/ (pc[c] = "append" /\ reply[c] = "none") =>
         (req[c].tool \in {"execute", "open"} => req[c].tool \in seen[c])
    /\ effect[c] = "started" => "execute" \in seen[c]
    /\ effect[c] = "opened" => "open" \in seen[c]

ChildInv(c) ==
    /\ effect[c] # "started" => child[c] = "none" /\ tree[c] = "none"
    /\ effect[c] = "started" => child[c] # "none"
    /\ effect[c] = "started" /\ pc[c] # "wait" => child[c] \in {"exited", "killed"}
    /\ effect[c] = "started" /\ pc[c] \notin {"wait", "terminate"} => tree[c] # "group"
    /\ child[c] = "killed" => fired[c]
    /\ effect[c] = "started" /\ reply[c] = "result" => child[c] = "exited"

CallInv(c) == ProgressInv(c) /\ AuditInv(c) /\ SeenInv(c) /\ ChildInv(c)

Inv == TypeOK /\ \A c \in Calls : CallInv(c)
=============================================================================
