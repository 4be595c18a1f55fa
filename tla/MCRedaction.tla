---------------------------- MODULE MCRedaction ----------------------------
(***************************************************************************)
(* Redaction for TLC: the values, per run.                                 *)
(***************************************************************************)
EXTENDS Redaction

CONSTANTS k1, k2, k3,   \* keys
          x, y, z       \* symbols

\* A value, one that is part of it and one too short to redact, which comes
\* first; none begins where another, or itself, ends.
ApartKeys == <<k1, k2, k3>>
Apart == (k1 :> <<y, z>>) @@ (k2 :> <<x, y, z>>) @@ (k3 :> <<z>>)
=============================================================================
