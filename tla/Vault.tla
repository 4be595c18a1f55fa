------------------------------- MODULE Vault -------------------------------
(***************************************************************************)
(* The vault and its clients, each running one operation at a time: it is  *)
(* called, bound to the project it names, takes effect at once, and ends.  *)
(* This is the specification VaultStore is shown to implement, statement   *)
(* by statement (VaultRefinement).                                         *)
(***************************************************************************)
EXTENDS VaultData

CONSTANTS Procs,        \* the clients
          Requests      \* Requests[p]: the operations p may ask for

VARIABLES phase,        \* where each client's operation is
          req,          \* the operation
          pid,          \* the project it is bound to
          out,          \* what a reader answered
          ret           \* how the operation ended

clients == <<phase, req, pid, out, ret>>
vars == <<projects, nextId, environments, definitions, phase, req, pid, out, ret>>

NoRequest == [op |-> "Resolve", slug |-> Shared, env |-> AllEnvs, key |-> None,
              value |-> None, sensitive |-> TRUE, kind |-> "text",
              hint |-> None, allow |-> FALSE]

Init ==
    /\ VaultInit
    /\ phase = [p \in Procs |-> "idle"]
    /\ req = [p \in Procs |-> NoRequest]
    /\ pid = [p \in Procs |-> 0]
    /\ out = [p \in Procs |-> {}]
    /\ ret = [p \in Procs |-> "ok"]

Moves(p, from, to) == phase[p] = from /\ phase' = [phase EXCEPT ![p] = to]

\* Operations that name no project need no lookup.
Call(p) ==
    \E q \in Requests[p] :
        /\ Accepted(q)
        /\ Moves(p, "idle", IF Binds(q, 0) THEN "bound" ELSE "called")
        /\ req' = [req EXCEPT ![p] = q]
        /\ UNCHANGED <<vault, pid, out, ret>>

Bind(p) ==
    \E id \in {pr.id : pr \in Named(req[p].slug)} :
        /\ Moves(p, "called", "bound")
        /\ pid' = [pid EXCEPT ![p] = id]
        /\ UNCHANGED <<vault, req, out, ret>>

\* No project has the slug, or the lookup fails.
FailToBind(p) ==
    \E r \in {"error"} \cup {x \in {"ErrProjectNotFound"} : Named(req[p].slug) = {}} :
        /\ Moves(p, "called", "done")
        /\ ret' = [ret EXCEPT ![p] = r]
        /\ UNCHANGED <<vault, req, pid, out>>

Effect(p) ==
    \E r \in Results :
        /\ Moves(p, "bound", "done")
        /\ Ends(req[p], pid[p], r)
        /\ ret' = [ret EXCEPT ![p] = r]
        /\ out' = [out EXCEPT ![p] = IF r = "ok" THEN Answer(req[p], pid[p]) ELSE {}]
        /\ UNCHANGED <<req, pid>>

\* A write sees that another client has defined its key first.
Overtaken(p) ==
    /\ req[p].op = "Put" /\ Addressed(req[p], pid[p]) # {}
    /\ Moves(p, "bound", "overtaken")
    /\ UNCHANGED <<vault, req, pid, out, ret>>

\* It then replaces that definition; if it has been deleted meanwhile, the write
\* counts as having come before it.
Overwrites(p) ==
    \E r \in {"ok", "error"} :
        /\ Moves(p, "overtaken", "done")
        /\ IF r = "ok" /\ Addressed(req[p], pid[p]) # {}
           THEN Apply(req[p], pid[p]) ELSE UNCHANGED vault
        /\ ret' = [ret EXCEPT ![p] = r]
        /\ UNCHANGED <<req, pid, out>>

Return(p) ==
    /\ Moves(p, "done", "idle")
    /\ req' = [req EXCEPT ![p] = NoRequest]
    /\ pid' = [pid EXCEPT ![p] = 0]
    /\ out' = [out EXCEPT ![p] = {}]
    /\ ret' = [ret EXCEPT ![p] = "ok"]
    /\ UNCHANGED vault

Next == \E p \in Procs :
            \/ Call(p) \/ Bind(p) \/ FailToBind(p)
            \/ Effect(p) \/ Overtaken(p) \/ Overwrites(p) \/ Return(p)

Spec == Init /\ [][Next]_vars
=============================================================================
