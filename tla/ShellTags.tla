----------------------------- MODULE ShellTags -----------------------------
(***************************************************************************)
(* How execute_with_secrets turns {{KEY}} tags into references that the    *)
(* shell expands from the child's environment (src/pkg/mcp/shell.go and    *)
(* translateCommand in exec.go): one scan of the command that follows the  *)
(* shell's quotes.  A text is a sequence of symbols, a reference to a key  *)
(* one element of the translated text.                                     *)
(***************************************************************************)
EXTENDS Naturals, Sequences, FiniteSets, SequencesExt

CONSTANTS Symbols,          \* what a text is made of
          Single, Double,   \* the quotes
          Escape,           \* the backslash of sh, the backtick of PowerShell
          Open, Close,      \* the braces
          Keys,             \* the names (sequences) of effective keys
          Commands,         \* Commands[kind]: the texts to translate, the
                            \* command and, without a shell, its arguments
          MaxUnmatched      \* maxUnmatchedTags

Kinds == {"posix", "powershell", "cmd", "unknown"}

Reference(name) == [reference |-> name]

\* The marks differ, a name may be any text, and no symbol is a reference.
ASSUME ShellAssumption ==
    /\ {Single, Double, Escape, Open, Close} \subseteq Symbols
    /\ Single # Double /\ Escape \notin {Single, Double}
    /\ Open \notin {Single, Double, Escape}
    /\ \A name \in Keys : name \in Seq(Symbols) /\ Reference(name) \notin Symbols
    /\ DOMAIN Commands = Kinds
    /\ \A kind \in Kinds : \A c \in Commands[kind] :
           c \in Seq(Seq(Symbols)) /\ c # <<>> /\ (kind # "unknown" => Len(c) = 1)
    /\ MaxUnmatched \in Nat

VARIABLES kind,         \* the shell; unknown also stands for none
          texts,        \* what is left to translate, its head being scanned
          at,           \* the symbols of it already scanned
          quote,        \* "none", "single" or "double"
          translated,   \* the texts translated so far
          out,          \* the translation of the head so far
          count,        \* tags rewritten
          unmatched,    \* names reported
          status        \* "scanning", "done" or "refused"

vars == <<kind, texts, at, quote, translated, out, count, unmatched, status>>

Text == Head(texts)

-----------------------------------------------------------------------------
(***************************************************************************)
(* consumeShellLiteral.                                                    *)
(***************************************************************************)

\* The symbol n places ahead, if there is one.
Ahead(n, c) == at + n <= Len(Text) /\ Text[at + n] = c

\* Variant: escapes are known outside quotes only.
Escapes_OutsideQuotes == kind \in {"posix", "powershell"} /\ quote = "none"

Escapes == kind \in {"posix", "powershell"} /\ quote # "single"

\* An escape and what it escapes, or PowerShell's doubled quote.
Pair ==
    /\ at + 2 <= Len(Text)
    /\ \/ Escapes /\ Ahead(1, Escape)
       \/ kind = "powershell" /\ quote = "single" /\ Ahead(1, Single) /\ Ahead(2, Single)

Opens(q) == quote = "none" /\ Ahead(1, IF q = "single" THEN Single ELSE Double)
Closes == \/ quote = "single" /\ Ahead(1, Single)
          \/ quote = "double" /\ Ahead(1, Double)

Quotes == kind \in {"posix", "powershell"} /\ (Opens("single") \/ Opens("double") \/ Closes)

\* Copies the next n symbols.
Copy(n) == out' = out \o SubSeq(Text, at + 1, at + n) /\ at' = at + n

CopyPair ==
    /\ status = "scanning" /\ Pair
    /\ Copy(2)
    /\ UNCHANGED <<kind, texts, quote, translated, count, unmatched, status>>

CopyQuote ==
    /\ status = "scanning" /\ ~Pair /\ Quotes
    /\ Copy(1)
    /\ quote' = IF Closes THEN "none" ELSE IF Opens("single") THEN "single" ELSE "double"
    /\ UNCHANGED <<kind, texts, translated, count, unmatched, status>>

-----------------------------------------------------------------------------
(***************************************************************************)
(* translateSecretTags.                                                    *)
(***************************************************************************)

\* A tag begins after the first i symbols of s and its name ends before e.
TagIn(s, i, e) ==
    /\ i + 2 <= Len(s) /\ s[i + 1] = Open /\ s[i + 2] = Open
    /\ e \in (i + 2)..(Len(s) - 2) /\ s[e + 1] = Close /\ s[e + 2] = Close
    /\ \A f \in (i + 2)..(e - 1) : ~(s[f + 1] = Close /\ s[f + 2] = Close)

NameIn(s, i, e) == SubSeq(s, i + 3, e)
KeyTagAt(s, i) == \E e \in 0..Len(s) : TagIn(s, i, e) /\ NameIn(s, i, e) \in Keys

\* Nothing of the shell's at this place.
Plain == status = "scanning" /\ at < Len(Text) /\ ~Pair /\ ~Quotes

\* Variant: quotes do not matter.
Refuses_UnknownOnly == kind = "unknown"

\* A tag that the shell would not expand.
Refuses == kind = "unknown" \/ quote = "single"

RewriteTag ==
    /\ Plain /\ ~Refuses
    /\ \E e \in 0..Len(Text) :
        /\ TagIn(Text, at, e) /\ NameIn(Text, at, e) \in Keys
        /\ out' = Append(out, Reference(NameIn(Text, at, e)))
        /\ at' = e + 2
    /\ count' = count + 1
    /\ UNCHANGED <<kind, texts, quote, translated, unmatched, status>>

Refuse ==
    /\ Plain /\ Refuses
    /\ KeyTagAt(Text, at)
    /\ status' = "refused"
    /\ UNCHANGED <<kind, texts, at, quote, translated, out, count, unmatched>>

\* A name is reported once, and only as long as there is room.
Reported(name) ==
    IF name = <<>> \/ Len(unmatched) >= MaxUnmatched \/ name \in Range(unmatched)
    THEN unmatched ELSE Append(unmatched, name)

\* Variant: a tag that names no key is copied as a whole.
PassOn_WholeTag ==
    /\ Plain /\ ~KeyTagAt(Text, at)
    /\ IF \E e \in 0..Len(Text) : TagIn(Text, at, e)
       THEN Copy((CHOOSE e \in 0..Len(Text) : TagIn(Text, at, e)) + 2 - at)
       ELSE Copy(1)
    /\ UNCHANGED <<kind, texts, quote, translated, count, unmatched, status>>

\* Of a tag that names no key one brace is copied: the next may begin one.
PassOn ==
    /\ Plain /\ ~KeyTagAt(Text, at)
    /\ Copy(1)
    /\ unmatched' = IF \E e \in 0..Len(Text) : TagIn(Text, at, e)
                    THEN Reported(NameIn(Text, at, CHOOSE e \in 0..Len(Text) : TagIn(Text, at, e)))
                    ELSE unmatched
    /\ UNCHANGED <<kind, texts, quote, translated, count, status>>

\* The next argument is scanned from the start; without one it is over.
EndText ==
    /\ status = "scanning" /\ at = Len(Text)
    /\ translated' = Append(translated, out)
    /\ out' = <<>>
    /\ IF Len(texts) = 1
       THEN status' = "done" /\ UNCHANGED <<texts, at, quote>>
       ELSE texts' = Tail(texts) /\ at' = 0 /\ quote' = "none" /\ UNCHANGED status
    /\ UNCHANGED <<kind, count, unmatched>>

-----------------------------------------------------------------------------
Init ==
    /\ kind \in Kinds
    /\ texts \in Commands[kind]
    /\ at = 0 /\ quote = "none" /\ translated = <<>> /\ out = <<>>
    /\ count = 0 /\ unmatched = <<>> /\ status = "scanning"

Next == CopyPair \/ CopyQuote \/ RewriteTag \/ Refuse \/ PassOn \/ EndText

Spec == Init /\ [][Next]_vars

-----------------------------------------------------------------------------
(***************************************************************************)
(* Correctness.  Lexed is how a shell reads a text, symbol by symbol: the  *)
(* quote it is in and whether the next symbol is escaped.                  *)
(***************************************************************************)
Unread == [quote |-> "none", escaped |-> FALSE]

Toggled(was, q) == [was EXCEPT !.quote = IF was.quote = "none" THEN q ELSE "none"]

Read(shell, was, c) ==
    IF was.escaped \/ shell \notin {"posix", "powershell"} THEN [was EXCEPT !.escaped = FALSE]
    ELSE IF c = Escape /\ was.quote # "single" THEN [was EXCEPT !.escaped = TRUE]
    ELSE IF c = Single /\ was.quote # "double" THEN Toggled(was, "single")
    ELSE IF c = Double /\ was.quote # "single" THEN Toggled(was, "double")
    ELSE was

Lexed(shell, s) ==
    LET after[n \in 0..Len(s)] == IF n = 0 THEN Unread ELSE Read(shell, after[n - 1], s[n])
    IN  after

IsReference(x) == \E name \in Keys : x = Reference(name)

\* The references in a text stand where its shell expands them.
Expands(shell, s) ==
    \A n \in DOMAIN s : IsReference(s[n]) =>
        LET was == Lexed(shell, s)[n - 1] IN
        shell # "unknown" /\ was.quote # "single" /\ ~was.escaped

\* Every reference put into a command stands where its shell expands it: not
\* between single quotes, not behind an escape, and never for an unknown shell.
RewritesExpand ==
    status = "done" => \A i \in DOMAIN translated : Expands(kind, translated[i])

\* A command is refused only for a key's tag that cannot be translated: without
\* a shell, or one that comes to stand between single quotes as the shell reads
\* what precedes it.
RefusedRightly ==
    status = "refused" =>
        /\ KeyTagAt(Text, at)
        /\ kind = "unknown" \/ Lexed(kind, out)[Len(out)].quote = "single"

\* A key's tag that is left in a text stands behind an escape.
LeftEscaped(shell, s) == \A n \in 0..Len(s) : KeyTagAt(s, n) => Lexed(shell, s)[n].escaped

Tag(name) == <<Open, Open>> \o name \o <<Close, Close>>
Origin(x) == IF IsReference(x) THEN Tag(x.reference) ELSE <<x>>
Restored(s) == FlattenSeq([n \in DOMAIN s |-> Origin(s[n])])
ReferencesIn(i, s) == {i} \X {n \in DOMAIN s : IsReference(s[n])}

\* What is not a tag is left as it was, tags that are counted are rewritten, and
\* a key's tag that is left stands behind an escape; the names reported are
\* names of no key, each once, and no more than the bound.
OnlyTagsChange ==
    /\ status = "done" =>
        /\ Restored(translated[Len(translated)]) = Text
        /\ count = Cardinality(UNION {ReferencesIn(i, translated[i]) : i \in DOMAIN translated})
        /\ \A i \in DOMAIN translated : LeftEscaped(kind, translated[i])
    /\ \A i, j \in DOMAIN unmatched : unmatched[i] = unmatched[j] => i = j
    /\ Range(unmatched) \cap Keys = {} /\ Len(unmatched) <= MaxUnmatched
=============================================================================
