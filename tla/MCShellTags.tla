---------------------------- MODULE MCShellTags ----------------------------
(***************************************************************************)
(* ShellTags for TLC: commands put together from a few pieces.             *)
(***************************************************************************)
EXTENDS ShellTags

CONSTANTS K, x      \* a letter that is a key's name, and one that is not

Letters == {Single, Double, Escape, Open, Close, K, x}

\* Nothing keeps a quote out of a name.
Names == {<<K>>, <<Single>>}

\* A tag of each key, one that names no key, and all that changes how a tag is read.
Pieces == {<<Single>>, <<Double>>, <<Escape>>, <<Open>>, Tag(<<K>>), Tag(<<Single>>), Tag(<<x>>)}
UpTo(n) == {FlattenSeq(p) : p \in UNION {[1..m -> Pieces] : m \in 1..n}}

AllCommands == [s \in Kinds |->
    IF s = "unknown" THEN {<<c, d>> : c, d \in UpTo(2)}
    ELSE IF s = "cmd" THEN {<<c>> : c \in UpTo(4)}
    ELSE {<<c>> : c \in UpTo(5)}]
=============================================================================
