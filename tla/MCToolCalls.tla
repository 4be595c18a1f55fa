---------------------------- MODULE MCToolCalls ----------------------------
(***************************************************************************)
(* ToolCalls for TLC: one request per tool, and a command whose tag cannot *)
(* be translated.                                                          *)
(***************************************************************************)
EXTENDS ToolCalls

CONSTANTS k, c         \* a key, a call

Ask(tool) == [tool |-> tool, tags |-> {k}, quoted |-> FALSE]
AllTools == {Ask(tool) : tool \in Tools} \cup {[Ask("execute") EXCEPT !.quoted = TRUE]}
=============================================================================
