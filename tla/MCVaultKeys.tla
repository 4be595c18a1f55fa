---------------------------- MODULE MCVaultKeys ----------------------------
(***************************************************************************)
(* VaultKeys for TLC: with every command but import, or with only one.     *)
(***************************************************************************)
EXTENDS VaultKeys

CONSTANTS a, b, p1, p2, d1, d2

Verified == {"ui", "mcp", "run", "export"}
Servers == {"mcp"}
=============================================================================
