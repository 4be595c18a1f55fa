-------------------------- MODULE VaultRefinement --------------------------
(***************************************************************************)
(* VaultStore implements Vault: what the statements of store.go do to the  *)
(* tables is, seen through Decoded and Phase, one atomic operation each.   *)
(***************************************************************************)
EXTENDS VaultStore

\* What a row of table secrets stands for.
Decoded(r) ==
    [pid |-> r.pid, env |-> r.env, key |-> r.key, value |-> ValueOf(r),
     sensitive |-> r.sensitive, kind |-> r.kind, hint |-> r.hint]

\* Looking up the project is a step of its own; all that follows is one.
Phase(p) ==
    CASE pc[p] = "project" -> "called"
      [] pc[p] = "conflict" -> "overtaken"
      [] pc[p] \in {"idle", "done"} -> pc[p]
      [] OTHER -> "bound"

Atomic == INSTANCE Vault WITH
    definitions <- {Decoded(r) : r \in secrets},
    phase <- [p \in Procs |-> Phase(p)]

\* However the statements of several clients interleave, and whichever fail,
\* every operation of the store takes effect whole, at one moment between its
\* call and its return, or not at all: what clients read and are answered is
\* what some atomic vault would give them. This holds as long as nobody writes
\* a definition while another edits its metadata, or deletes an environment
\* that another writes to or reads.
ImplementsVault == Atomic!Spec
=============================================================================
