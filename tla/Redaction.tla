----------------------------- MODULE Redaction -----------------------------
(***************************************************************************)
(* What becomes of a child's output.  `blindenv run' decodes it as it      *)
(* comes and writes it through a StreamRedactor; the execute_with_secrets  *)
(* tool retains a bounded prefix of it, decodes and redacts that when the  *)
(* child has ended and truncates the result (src/pkg/mcp/stream.go,        *)
(* capture.go, redact.go, exec.go).  Both sinks are fed the same writes    *)
(* here.                                                                   *)
(*                                                                         *)
(* Output is a sequence of bytes that encodes a text.  The text is made of *)
(* symbols: a symbol is one byte of UTF-8, and in UTF-16 that byte and a   *)
(* zero one.  A key's marker is a sequence of MarkerLen elements that occur*)
(* in no value.                                                            *)
(***************************************************************************)
EXTENDS Naturals, Sequences, FiniteSets, SequencesExt

CONSTANTS Symbols,      \* what output and values are made of
          Secrets,      \* the sensitive keys, in alphabetical order
          Value,        \* Value[k]: the value of key k
          MinLen,       \* MinSecretLength
          MarkerLen,    \* the length of a marker
          MaxOutput,    \* maxOutputBytes
          Cut,          \* truncatedSuffix
          Encodings,    \* what a child may write in, of the fields of Mark
          Zero,         \* the zero byte
          EF, BB, BF, FF, FE, \* the bytes of the marks
          Lost,         \* what half a unit may be decoded to
          Sample,       \* decide: the bytes that show what the encoding is
          MaxSent,      \* bound: the symbols a child writes
          MaxWrite      \* bound: the symbols of one write

Keys == Range(Secrets)
Marker(k) == [i \in 1..MarkerLen |-> <<k, i>>]

Markers == Keys \X (1..MarkerLen)

\* The sample is no shorter than a mark or two units of UTF-16.
ASSUME RedactionAssumption ==
    /\ Secrets \in Seq(Keys) /\ Value \in [Keys -> Seq(Symbols)]
    /\ MinLen \in Nat \ {0} /\ MarkerLen \in Nat \ {0}
    /\ MaxOutput \in Nat /\ MaxSent \in Nat /\ MaxWrite \in Nat
    /\ {Cut, Zero, Lost, EF, BB, BF, FF, FE} \cap Symbols = {}
    /\ Markers \cap (Symbols \cup {Zero, Lost, EF, BB, BF, FF, FE}) = {}
    /\ FF # FE /\ EF \notin {FF, FE}
    /\ Encodings \subseteq {"utf8", "utf8bom", "utf16le", "utf16lebom", "utf16bebom"}
    /\ Sample \in Nat /\ Sample >= 4

VARIABLES encoding, \* what the child writes in
          text,     \* the text it has begun to write
          raw,      \* the bytes it has written
          pending,  \* normalizingWriter: the bytes it has not decoded
          decoder,  \* its dec, as far as it has decided
          tail,     \* StreamRedactor: what it holds back
          out,      \* what it has written
          count,    \* the redactions it has counted
          broken,   \* its destination failed
          retained, \* boundedWriter: the prefix it keeps
          closed    \* the child has ended

stream == <<pending, decoder, tail, out, count, broken>>

vars == <<encoding, text, raw, stream, retained, closed>>

-----------------------------------------------------------------------------
(***************************************************************************)
(* Encodings.  What the child writes, and NormalizeUTF8.                   *)
(***************************************************************************)
Mark == [utf8       |-> <<>>,             utf16le    |-> <<>>,
         utf8bom    |-> <<EF, BB, BF>>,
         utf16lebom |-> <<FF, FE>>,   utf16bebom |-> <<FE, FF>>]

Unit(c) ==
    IF encoding = "utf16bebom" THEN <<Zero, c>>
    ELSE IF encoding \in {"utf16le", "utf16lebom"} THEN <<c, Zero>>
    ELSE <<c>>

Encoded(t) == Mark[encoding] \o FlattenSeq([i \in DOMAIN t |-> Unit(t[i])])

Even(bytes) == SubSeq(bytes, 1, Len(bytes) - (Len(bytes) % 2))

\* The bytes after the first n.
After(bytes, n) == SubSeq(bytes, n + 1, Len(bytes))

\* The units of UTF-16, half a unit at the end left out.
Units(order, bytes) ==
    [i \in 1..(Len(bytes) \div 2) |-> bytes[IF order = "le" THEN 2 * i - 1 ELSE 2 * i]]

LooksUTF16LE(bytes) ==
    LET pairs == Len(bytes) \div 2
    IN  /\ Len(bytes) >= 4 /\ Len(bytes) % 2 = 0
        /\ Cardinality({i \in 1..pairs : bytes[2 * i] = Zero}) * 100 >= 30 * pairs

NormalizeUTF8(bytes) ==
    CASE IsPrefix(Mark.utf8bom, bytes)    -> After(bytes, 3)
      [] IsPrefix(Mark.utf16lebom, bytes) -> Units("le", After(bytes, 2))
      [] IsPrefix(Mark.utf16bebom, bytes) -> Units("be", After(bytes, 2))
      [] OTHER -> IF LooksUTF16LE(bytes) THEN Units("le", bytes) ELSE bytes

-----------------------------------------------------------------------------
(***************************************************************************)
(* Redactor.                                                               *)
(***************************************************************************)
Long == {k \in Keys : Len(Value[k]) >= MinLen}

\* The place of a key among the keys.
Place(k) == CHOOSE i \in DOMAIN Secrets : Secrets[i] = k

\* The longest first, then by key.
Before(k, j) ==
    \/ Len(Value[k]) > Len(Value[j])
    \/ Len(Value[k]) = Len(Value[j]) /\ Place(k) < Place(j)

\* Variant: in the order of the keys.
Entries_Unsorted ==
    CHOOSE s \in SetToSeqs(Long) : \A i, j \in DOMAIN s : i < j => Place(s[i]) < Place(s[j])

\* The keys of values that are long enough.
Entries ==
    CHOOSE s \in SetToSeqs(Long) : \A i, j \in DOMAIN s : i < j => Before(s[i], s[j])

MaxValueLen == IF Entries = <<>> THEN 0 ELSE Len(Value[Entries[1]])

\* The value v stands in s behind its first i elements.
OccursAt(s, v, i) == i + Len(v) <= Len(s) /\ SubSeq(s, i + 1, i + Len(v)) = v

\* strings.ReplaceAll: from the left, occurrences that overlap one replaced stay.
Replaced(s, v, marker) ==
    LET from[i \in 0..Len(s)] ==
            IF i = Len(s) THEN <<>>
            ELSE IF OccursAt(s, v, i) THEN marker \o from[i + Len(v)]
                                      ELSE <<s[i + 1]>> \o from[i + 1]
    IN  from[0]

\* One value after the other is replaced in all of the text.
Redact(input) ==
    LET after[n \in 0..Len(Entries)] ==
            IF n = 0 THEN NormalizeUTF8(input)
            ELSE Replaced(after[n - 1], Value[Entries[n]], Marker(Entries[n]))
    IN  after[Len(Entries)]

\* The number of markers put in.
Redactions(input) ==
    LET s == Redact(input)
    IN  Cardinality({i \in DOMAIN s : \E k \in Keys : s[i] = <<k, 1>>})

-----------------------------------------------------------------------------
(***************************************************************************)
(* StreamRedactor.flush.                                                   *)
(***************************************************************************)

\* Variant: one symbol short.
Keep_Short == IF MaxValueLen < 2 THEN 0 ELSE MaxValueLen - 2

\* The window in which a value may have begun that is not all there.
Keep == IF MaxValueLen = 0 THEN 0 ELSE MaxValueLen - 1

\* Where the occurrences begin that the emit point would split.
Crossing(data, limit) ==
    {i \in 0..(limit - 1) : \E k \in Range(Entries) :
        OccursAt(data, Value[k], i) /\ i + Len(Value[k]) > limit}

\* Variant: held back from the first occurrence on, split or not.
EmitPoint_First(data) ==
    LET limit == Len(data) - Keep
    IN  Min({limit} \cup {i \in 0..(limit - 1) : \E k \in Range(Entries) :
                             OccursAt(data, Value[k], i)})

EmitPoint(data) ==
    LET limit == Len(data) - Keep IN Min({limit} \cup Crossing(data, limit))

\* Emitting n of the symbols held, which the destination may refuse for good.
Emit(data, n) ==
    \/ /\ out' = out \o Redact(SubSeq(data, 1, n))
       /\ count' = count + Redactions(SubSeq(data, 1, n))
       /\ tail' = SubSeq(data, n + 1, Len(data))
       /\ UNCHANGED broken
    \/ /\ broken' = TRUE
       /\ tail' = data
       /\ UNCHANGED <<out, count>>

Hold(data) == tail' = data /\ UNCHANGED <<out, count, broken>>

\* What a write emits of the symbols held.
Due(data) == IF Len(data) <= Keep THEN 0 ELSE EmitPoint(data)

\* The last symbols: they are written, and then Close emits what that held back.
\* The destination may refuse the first part, or the second.
EmitAll(data) ==
    LET first == SubSeq(data, 1, Due(data))
        rest  == SubSeq(data, Due(data) + 1, Len(data))
    IN  \/ /\ out' = out \o Redact(first) \o Redact(rest)
           /\ count' = count + Redactions(first) + Redactions(rest)
           /\ tail' = <<>>
           /\ UNCHANGED broken
        \/ /\ broken' = TRUE
           /\ tail' = data
           /\ UNCHANGED <<out, count>>
        \/ /\ rest # <<>>
           /\ broken' = TRUE
           /\ tail' = rest
           /\ out' = out \o Redact(first)
           /\ count' = count + Redactions(first)

Flush(data, final) ==
    IF final THEN (IF data = <<>> THEN Hold(data) ELSE EmitAll(data))
    ELSE IF Due(data) = 0 THEN Hold(data)
    ELSE Emit(data, Due(data))

-----------------------------------------------------------------------------
(***************************************************************************)
(* normalizingWriter: Write and Close, in front of the StreamRedactor.     *)
(***************************************************************************)

\* Variant: half a unit at the end of the sample is not left out.
Decided_Untrimmed(bytes, final) ==
    CASE IsPrefix(Mark.utf8bom, bytes)    -> "utf8"
      [] IsPrefix(Mark.utf16lebom, bytes) -> "le"
      [] IsPrefix(Mark.utf16bebom, bytes) -> "be"
      [] OTHER ->
            IF Len(bytes) >= Sample \/ (final /\ Len(bytes) >= 4)
            THEN IF LooksUTF16LE(bytes) THEN "le" ELSE "utf8"
            ELSE "undecided"

\* decide: what the decoder is, once these bytes are there.
Decided(bytes, final) ==
    CASE IsPrefix(Mark.utf8bom, bytes)    -> "utf8"
      [] IsPrefix(Mark.utf16lebom, bytes) -> "le"
      [] IsPrefix(Mark.utf16bebom, bytes) -> "be"
      [] OTHER ->
            IF Len(bytes) >= Sample \/ (final /\ Len(bytes) >= 4)
            THEN IF LooksUTF16LE(Even(bytes)) THEN "le" ELSE "utf8"
            ELSE "undecided"

\* The bytes after the mark that decide recognised.
Unmarked(bytes) ==
    IF IsPrefix(Mark.utf8bom, bytes) THEN After(bytes, 3)
    ELSE IF IsPrefix(Mark.utf16lebom, bytes) \/ IsPrefix(Mark.utf16bebom, bytes)
    THEN After(bytes, 2) ELSE bytes

\* Half a unit at the end of the output: the decoder's replacement, or as it is.
Halves(bytes) == IF Len(bytes) % 2 = 0 THEN {<<>>} ELSE {<<Lost>>, <<Last(bytes)>>}

\* decode: these bytes go to the StreamRedactor, and with the last of them
\* its tail.  Bytes that could not be written stay; after the end nothing reads
\* them.  Half a unit, which the code writes by itself, goes with the others.
Decode(bytes, dec, final) ==
    \/ /\ dec \notin {"le", "be"}
       /\ Flush(tail \o bytes, final)
       /\ pending' = <<>>
    \/ /\ dec \in {"le", "be"}
       /\ \E half \in IF final THEN Halves(bytes) ELSE {<<>>} :
             Flush(tail \o Units(dec, bytes) \o half, final)
       /\ pending' = IF broken' THEN bytes
                     ELSE IF final THEN <<>> ELSE After(bytes, Len(Even(bytes)))

Streamed(p, final) ==
    LET bytes == pending \o p
        dec   == IF decoder = "undecided" THEN Decided(bytes, final) ELSE decoder
    IN  IF broken THEN UNCHANGED stream
        ELSE /\ decoder' = dec
             /\ IF dec = "undecided" /\ ~final
                THEN pending' = bytes /\ UNCHANGED <<tail, out, count, broken>>
                ELSE Decode(IF decoder = dec THEN bytes ELSE Unmarked(bytes), dec, final)

-----------------------------------------------------------------------------
(***************************************************************************)
(* boundedWriter, and what handleExecute returns of it.                    *)
(***************************************************************************)

\* Variant: no room for a value that straddles the budget.
CaptureLimit_Tight == MaxOutput

CaptureLimit == MaxOutput + MaxValueLen

UpTo(s, n) == IF Len(s) <= n THEN s ELSE SubSeq(s, 1, n)

Truncate(s) == IF Len(s) <= MaxOutput THEN s ELSE Append(SubSeq(s, 1, MaxOutput), Cut)

Returned == Truncate(Redact(retained))

-----------------------------------------------------------------------------
Init ==
    /\ encoding \in Encodings /\ text = <<>> /\ raw = <<>>
    /\ pending = <<>> /\ decoder = "undecided"
    /\ tail = <<>> /\ out = <<>> /\ count = 0
    /\ broken = FALSE /\ retained = <<>> /\ closed = FALSE

\* A write may end within a unit, or within the mark.
Write(t) ==
    /\ ~closed
    /\ Len(text) + Len(t) <= MaxSent
    /\ text' = text \o t
    /\ LET all == Encoded(text \o t)
       IN  \E n \in (Len(raw) + 1)..Len(all) :
              /\ n >= Len(all) - 1 \/ text' = <<>>
              /\ raw' = SubSeq(all, 1, n)
              /\ Streamed(SubSeq(all, Len(raw) + 1, n), FALSE)
              /\ retained' = UpTo(retained \o SubSeq(all, Len(raw) + 1, n), CaptureLimit)
    /\ UNCHANGED <<encoding, closed>>

Close ==
    /\ ~closed
    /\ closed' = TRUE
    /\ Streamed(<<>>, TRUE)
    /\ UNCHANGED <<encoding, text, raw, retained>>

Writes == UNION {[1..n -> Symbols] : n \in 0..MaxWrite}

Next == Close \/ \E p \in Writes : Write(p)

Spec == Init /\ [][Next]_vars

-----------------------------------------------------------------------------
(***************************************************************************)
(* Correctness.                                                            *)
(***************************************************************************)

\* What is held back never grows with the output: less than a sample, and once
\* the encoding is known half a unit, before decoding; less than two of the
\* longest values after it; unless the destination failed.
TypeOK ==
    /\ encoding \in Encodings /\ text \in Seq(Symbols) /\ IsPrefix(raw, Encoded(text))
    /\ IsPrefix(retained, raw) /\ Len(retained) <= CaptureLimit
    /\ decoder \in {"undecided", "utf8", "le", "be"}
    /\ count \in Nat /\ broken \in BOOLEAN /\ closed \in BOOLEAN
    /\ ~broken => /\ Len(tail) <= 2 * Keep /\ IsSuffix(pending, raw)
                  /\ Len(pending) < IF decoder = "undecided" THEN Max({Sample, 4}) ELSE 2

\* No value begins where another, or itself, ends.
ValuesApart ==
    \A j, k \in Range(Entries) : \A n \in 1..(Len(Value[j]) - 1) :
        n < Len(Value[k]) =>
            SubSeq(Value[j], Len(Value[j]) - n + 1, Len(Value[j])) # SubSeq(Value[k], 1, n)

\* Streaming makes no difference: however the output was encoded and cut into
\* writes, within a unit and within the mark too, what was emitted and counted
\* is the redaction of all of it, decoded.  No value begins where another ends,
\* and the output is whole units.
StreamEqualsWhole ==
    closed /\ ~broken /\ raw = Encoded(text) => out = Redact(raw) /\ count = Redactions(raw)

\* The symbols of s that belong to no occurrence of a value.
Covered(s, j) ==
    \E k \in Range(Entries), i \in 0..(j - 1) :
        OccursAt(s, Value[k], i) /\ j <= i + Len(Value[k])
Uncovered(s) ==
    FlattenSeq([j \in 1..Len(s) |-> IF Covered(s, j) THEN <<>> ELSE <<s[j]>>])

InSymbols(s) ==
    FlattenSeq([i \in 1..Len(s) |-> IF s[i] \in Symbols THEN <<s[i]>> ELSE <<>>])

\* Of a value that occurs in the text the child wrote no symbol is left, also
\* when a shorter value is a part of it, and every other symbol is emitted,
\* once and in order, whatever the text was encoded in.
RemnantFree ==
    closed /\ ~broken /\ raw = Encoded(text) /\ Len(text) > 1 =>
        InSymbols(out) = Uncovered(text)

\* The first n symbols of the output make the answer: no value lies across
\* their end, and redacted they are over the budget.
Fills(n) == Crossing(raw, n) = {} /\ Len(Redact(SubSeq(raw, 1, n))) > MaxOutput

\* What the tool answers for UTF-8 output without a mark.  Output that is no
\* longer than the limit, or whose answer is made within the limit, is answered
\* as if all of it had been kept.  Else, that is, when markers are shorter than
\* the values they stand for, the answer may be another; but all that was kept,
\* except fewer symbols at its end than the longest value has, is redacted as
\* it would be in the whole.
CapturedAsIfWhole ==
    closed /\ encoding = "utf8" =>
        /\ Len(raw) <= MaxOutput + MaxValueLen \/ (\E n \in 0..(MaxOutput + MaxValueLen) : Fills(n))
              => Returned = Truncate(Redact(raw))
        /\ \E n \in 0..Len(retained) :
              LET first == Redact(SubSeq(raw, 1, n))
              IN  /\ Len(retained) - n <= Keep
                  /\ IsPrefix(first, Redact(raw))
                  /\ Redact(retained) = first \o Redact(After(retained, n))

\* Of a value that straddles the budget no symbol is left in the tool's answer,
\* whatever the output is encoded in, and however long markers are.
StraddlingRedacted ==
    closed /\ raw = Encoded(text) => IsPrefix(InSymbols(Returned), Uncovered(text))
=============================================================================
