--------------------------- MODULE ShellTagsProofs ---------------------------
(***************************************************************************)
(* What the runs of ShellTags check, for texts of any length over any      *)
(* symbols: Lexed and Restored are computed symbol by symbol, and the scan *)
(* keeps, with what it has put out, how a shell reads it and where it came *)
(* from.                                                                   *)
(***************************************************************************)
EXTENDS ShellTags, SequenceFacts

Cells == Symbols \cup {Reference(name) : name \in Keys}
QuoteStates == {"none", "single", "double"}
Readings == [quote : QuoteStates, escaped : BOOLEAN]

\* What is left of a text behind its first i symbols.
Rest(text, i) == SubSeq(text, i + 1, Len(text))

\* A key's tag that begins in s, with what follows s, stands behind an escape.
LeftBehind(shell, s, rest) ==
    \A n \in 0..(Len(s) - 1) : KeyTagAt(s \o rest, n) => Lexed(shell, s)[n].escaped

\* s is a translation of the first i symbols of text.
Scanned(shell, s, text, i) ==
    /\ s \in Seq(Cells) /\ text \in Seq(Symbols) /\ i \in 0..Len(text)
    /\ Restored(s) = SubSeq(text, 1, i)
    /\ Expands(shell, s)
    /\ LeftBehind(shell, s, Rest(text, i))

AllReferences ==
    (UNION {ReferencesIn(i, translated[i]) : i \in DOMAIN translated})
        \cup ReferencesIn(Len(translated) + 1, out)

TypeInv ==
    /\ kind \in Kinds /\ quote \in QuoteStates /\ status \in {"scanning", "done", "refused"}
    /\ texts \in Seq(Seq(Symbols)) /\ texts # <<>>
    /\ at \in 0..Len(Text)
    /\ translated \in Seq(Seq(Cells)) /\ out \in Seq(Cells)
    /\ count \in Nat /\ unmatched \in Seq(Seq(Symbols))

\* The scan's own idea of the quotes is the shell's reading of the translation.
\* An escape that ends the text is copied as it is.
ReadsAlike ==
    status = "scanning" /\ at < Len(Text) =>
        Lexed(kind, out)[Len(out)] = [quote |-> quote, escaped |-> FALSE]

TranslatedInv ==
    /\ \A i \in DOMAIN translated : Expands(kind, translated[i]) /\ LeftEscaped(kind, translated[i])
    /\ status = "done" =>
        /\ translated # <<>> /\ out = <<>>
        /\ Restored(translated[Len(translated)]) = Text

NamesInv ==
    /\ \A i, j \in DOMAIN unmatched : unmatched[i] = unmatched[j] => i = j
    /\ Range(unmatched) \cap Keys = {} /\ Len(unmatched) <= MaxUnmatched

Inv ==
    /\ TypeInv
    /\ status # "done" => Scanned(kind, out, Text, at)
    /\ ReadsAlike
    /\ TranslatedInv
    /\ IsFiniteSet(AllReferences) /\ count = Cardinality(AllReferences)
    /\ NamesInv
    /\ RefusedRightly

-----------------------------------------------------------------------------
\* A shell's reading is one of a few.
LEMMA ReadType ==
    ASSUME NEW shell, NEW was \in Readings, NEW c
    PROVE  Read(shell, was, c) \in Readings
BY DEF Read, Readings, QuoteStates, Toggled

\* Lexed starts unread and reads one symbol after the other.
LEMMA LexedSteps ==
    ASSUME NEW shell, NEW X, NEW s \in Seq(X)
    PROVE  /\ Lexed(shell, s) \in [0..Len(s) -> Readings]
           /\ Lexed(shell, s)[0] = Unread
           /\ \A i \in 1..Len(s) : Lexed(shell, s)[i] = Read(shell, Lexed(shell, s)[i - 1], s[i])
<1> DEFINE Solves(g) == g = [n \in 0..Len(s) |-> IF n = 0 THEN Unread ELSE Read(shell, g[n - 1], s[n])]
           g == CHOOSE x : Solves(x)
<1>1. PICK step \in [Nat -> [Readings -> Readings]] :
         \A was \in Readings, i \in Nat : step[i][was] = Read(shell, was, s[i])
    <2> DEFINE step == [i \in Nat |-> [was \in Readings |-> Read(shell, was, s[i])]]
    <2>1. step \in [Nat -> [Readings -> Readings]]
        BY ReadType
    <2>2. \A was \in Readings, i \in Nat : step[i][was] = Read(shell, was, s[i])
        OBVIOUS
    <2> HIDE DEF step
    <2> QED
        BY <2>1, <2>2
<1>2. Unread \in Readings
    BY DEF Unread, Readings, QuoteStates
<1>3. PICK f : Iterates(Readings, Unread, step, Len(s), f)
    <2>1. Len(s) \in Nat
        OBVIOUS
    <2> QED
        BY <1>1, <1>2, <2>1, Recursion
<1>4. f \in [0..Len(s) -> Readings] /\ f[0] = Unread
    BY <1>3 DEF Iterates
<1>5. ASSUME NEW i \in 1..Len(s) PROVE f[i] = Read(shell, f[i - 1], s[i])
    <2>1. i - 1 \in 0..Len(s) /\ i \in Nat
        OBVIOUS
    <2>2. f[i - 1] \in Readings
        BY <1>4, <2>1
    <2> QED
        BY <1>1, <1>3, <2>1, <2>2 DEF Iterates
<1>6. Solves(f)
    BY <1>4, <1>5
<1>7. Solves(g)
    <2> HIDE DEF Solves
    <2> QED
        BY <1>6
<1>8. Lexed(shell, s) = g
    BY DEF Lexed
<1> HIDE DEF g
<1>9. PICK n \in Nat : n = Len(s)
    OBVIOUS
<1>10. PICK T : T = {i \in Nat : g[i] = f[i]}
    OBVIOUS
<1>11. 0 \in T
    BY <1>4, <1>7, <1>10
<1>12. ASSUME NEW i \in 1..n, i - 1 \in T PROVE i \in T
    <2>1. i \in 0..Len(s) /\ i # 0
        BY <1>9
    <2>2. g[i] = Read(shell, g[i - 1], s[i])
        BY <2>1, <1>7
    <2> QED
        BY <2>2, <1>5, <1>9, <1>10, <1>12
<1>13. \A i \in 0..n : g[i] = f[i]
    <2>1. \A i \in 0..n : i \in T
        BY <1>11, <1>12, BoundedInduction
    <2> QED
        BY <1>10, <2>1
<1>14. g \in [0..n -> Readings]
    <2>1. g = [i \in 0..n |-> g[i]]
        BY <1>7, <1>9
    <2> QED
        BY <2>1, <1>4, <1>9, <1>13
<1>15. g[0] = Unread /\ \A i \in 1..n : g[i] = Read(shell, g[i - 1], s[i])
    BY <1>7, <1>9
<1> QED
    BY <1>8, <1>9, <1>14, <1>15

\* What a text is read as is not changed by what follows.
LEMMA LexedAppend ==
    ASSUME NEW shell, NEW X, NEW s \in Seq(X), NEW c \in X
    PROVE  /\ \A n \in 0..Len(s) : Lexed(shell, Append(s, c))[n] = Lexed(shell, s)[n]
           /\ Lexed(shell, Append(s, c))[Len(s) + 1] = Read(shell, Lexed(shell, s)[Len(s)], c)
<1>1. PICK t \in Seq(X) : t = Append(s, c)
    BY AppendProperties
<1>2. Len(t) = Len(s) + 1 /\ t[Len(s) + 1] = c /\ \A i \in 1..Len(s) : t[i] = s[i]
    BY <1>1
<1>3. PICK f : /\ f = Lexed(shell, s) /\ f[0] = Unread
               /\ \A i \in 1..Len(s) : f[i] = Read(shell, f[i - 1], s[i])
    BY LexedSteps
<1>4. PICK g : /\ g = Lexed(shell, t) /\ g[0] = Unread
               /\ \A i \in 1..Len(t) : g[i] = Read(shell, g[i - 1], t[i])
    BY LexedSteps
<1>5. PICK T : T = {i \in Nat : g[i] = f[i]}
    OBVIOUS
<1>6. 0 \in T
    BY <1>3, <1>4, <1>5
<1>7. PICK n \in Nat : n = Len(s)
    OBVIOUS
<1>8. ASSUME NEW i \in 1..n, i - 1 \in T PROVE i \in T
    <2>1. i \in 1..Len(s) /\ i \in 1..Len(t)
        BY <1>2, <1>7
    <2>2. g[i] = Read(shell, g[i - 1], s[i]) /\ f[i] = Read(shell, f[i - 1], s[i])
        BY <2>1, <1>2, <1>3, <1>4
    <2> QED
        BY <2>2, <1>5, <1>8
<1>9. \A i \in 0..n : g[i] = f[i]
    BY <1>5, <1>6, <1>7, <1>8, BoundedInduction
<1>10. g[Len(t)] = Read(shell, f[n], c)
    <2>1. Len(t) \in 1..Len(t) /\ Len(t) - 1 = n /\ n \in 0..n
        BY <1>2, <1>7
    <2>2. g[Len(t)] = Read(shell, g[n], t[Len(t)])
        BY <2>1, <1>4
    <2> QED
        BY <2>1, <2>2, <1>2, <1>9
<1> QED
    BY <1>1, <1>2, <1>3, <1>4, <1>7, <1>9, <1>10

-----------------------------------------------------------------------------
\* No symbol is a reference, and a cell is one or the other.
LEMMA CellFacts ==
    /\ \A c \in Symbols : ~IsReference(c) /\ Origin(c) = <<c>> /\ Origin(c) \in Seq(Symbols)
    /\ \A name \in Keys :
          /\ IsReference(Reference(name)) /\ Reference(name) \notin Symbols
          /\ name \in Seq(Symbols) /\ Tag(name) \in Seq(Symbols)
          /\ Origin(Reference(name)) = Tag(name)
    /\ \A x \in Cells : Origin(x) \in Seq(Symbols)
<1>1. ASSUME NEW c \in Symbols
      PROVE  ~IsReference(c) /\ Origin(c) = <<c>> /\ Origin(c) \in Seq(Symbols)
    BY ShellAssumption DEF IsReference, Origin
<1>2. ASSUME NEW name \in Keys
      PROVE  /\ IsReference(Reference(name)) /\ Reference(name) \notin Symbols
             /\ name \in Seq(Symbols) /\ Tag(name) \in Seq(Symbols)
             /\ Origin(Reference(name)) = Tag(name)
    <2>1. name \in Seq(Symbols) /\ Reference(name) \notin Symbols
        BY ShellAssumption
    <2>2. <<Open, Open>> \in Seq(Symbols) /\ <<Close, Close>> \in Seq(Symbols)
        BY ShellAssumption
    <2>3. Tag(name) \in Seq(Symbols)
        BY <2>1, <2>2, ConcatProperties DEF Tag
    <2>4. IsReference(Reference(name)) /\ Reference(name).reference = name
        BY DEF IsReference, Reference
    <2> QED
        BY <2>1, <2>3, <2>4 DEF Origin
<1> QED
    BY <1>1, <1>2 DEF Cells

\* What a cell adds to what a translation restores to: the text it stands for.
LEMMA RestoredAppend ==
    ASSUME NEW s \in Seq(Cells), NEW c \in Cells
    PROVE  Restored(s) \in Seq(Symbols) /\ Restored(Append(s, c)) = Restored(s) \o Origin(c)
<1> DEFINE Origins(t) == [n \in DOMAIN t |-> Origin(t[n])]
<1>1. \A t \in Seq(Cells) : Origins(t) \in Seq(Seq(Symbols))
    <2> SUFFICES ASSUME NEW t \in Seq(Cells) PROVE Origins(t) \in Seq(Seq(Symbols))
        OBVIOUS
    <2>1. DOMAIN t = 1..Len(t) /\ Len(t) \in Nat
        OBVIOUS
    <2>2. \A n \in 1..Len(t) : Origin(t[n]) \in Seq(Symbols)
        BY CellFacts, ElementOfSeq
    <2> QED
        BY <2>1, <2>2
<1>2. Origins(Append(s, c)) = Append(Origins(s), Origin(c))
    <2>1. /\ Append(s, c) \in Seq(Cells) /\ Len(Append(s, c)) = Len(s) + 1
          /\ Append(s, c)[Len(s) + 1] = c /\ \A n \in 1..Len(s) : Append(s, c)[n] = s[n]
        BY AppendProperties
    <2> QED
        BY <2>1
<1>3. Origin(c) \in Seq(Symbols)
    BY CellFacts
<1>4. FlattenSeq(Append(Origins(s), Origin(c))) = FlattenSeq(Origins(s)) \o Origin(c)
    <2> HIDE DEF Origins
    <2> QED
        BY <1>1, <1>3, FlattenAppend
<1>5. FlattenSeq(Origins(s)) \in Seq(Symbols)
    <2> HIDE DEF Origins
    <2> QED
        BY <1>1, FlattenType
<1> QED
    BY <1>2, <1>4, <1>5 DEF Restored

\* Of a text of symbols nothing is restored: an empty one is itself.
LEMMA RestoredEmpty == Restored(<<>>) = <<>>
<1>1. [n \in DOMAIN <<>> |-> Origin(<<>>[n])] = <<>>
    OBVIOUS
<1> QED
    BY <1>1, FlattenEmpty DEF Restored

-----------------------------------------------------------------------------
\* The n elements of s behind the first i.
LEMMA PartElements ==
    ASSUME NEW X, NEW s \in Seq(X), NEW i \in Nat, NEW n \in Nat, i + n <= Len(s)
    PROVE  /\ SubSeq(s, i + 1, i + n) \in Seq(X) /\ Len(SubSeq(s, i + 1, i + n)) = n
           /\ \A k \in 1..n : SubSeq(s, i + 1, i + n)[k] = s[i + k]
<1>1. i + 1 \in 1..(Len(s) + 1) /\ i + n \in ((i + 1) - 1)..Len(s) /\ (i + n) - (i + 1) + 1 = n
    OBVIOUS
<1>2. \A k \in 1..n : (i + 1) + k - 1 = i + k
    OBVIOUS
<1> QED
    BY <1>1, <1>2, SubSeqProperties

\* The n elements of s behind the first i.
Part(s, i, n) == SubSeq(s, i + 1, i + n)

\* The n elements of s behind the first i are those of t behind the first j.
SameParts(s, i, t, j, n) ==
    /\ i \in Nat /\ j \in Nat /\ n \in Nat
    /\ i + n <= Len(s) /\ j + n <= Len(t)
    /\ \A k \in 1..n : s[i + k] = t[j + k]

\* Parts of two sequences that agree element by element are equal.
LEMMA EqualParts ==
    ASSUME NEW s \in Seq(Cells), NEW t \in Seq(Cells),
           NEW i \in Nat, NEW j \in Nat, NEW n \in Nat, SameParts(s, i, t, j, n)
    PROVE  Part(s, i, n) = Part(t, j, n)
<1> USE DEF SameParts, Part
<1>1. PICK v \in Seq(Cells) : /\ v = SubSeq(s, i + 1, i + n) /\ Len(v) = n
                          /\ \A k \in 1..n : v[k] = s[i + k]
    <2>1. /\ SubSeq(s, i + 1, i + n) \in Seq(Cells) /\ Len(SubSeq(s, i + 1, i + n)) = n
          /\ \A k \in 1..n : SubSeq(s, i + 1, i + n)[k] = s[i + k]
        BY PartElements
    <2> QED
        BY <2>1
<1>2. PICK w \in Seq(Cells) : /\ w = SubSeq(t, j + 1, j + n) /\ Len(w) = n
                          /\ \A k \in 1..n : w[k] = t[j + k]
    <2>1. /\ SubSeq(t, j + 1, j + n) \in Seq(Cells) /\ Len(SubSeq(t, j + 1, j + n)) = n
          /\ \A k \in 1..n : SubSeq(t, j + 1, j + n)[k] = t[j + k]
        BY PartElements
    <2> QED
        BY <2>1
<1>3. v = w
    <2>1. Len(v) = Len(w) /\ \A k \in 1..Len(v) : v[k] = w[k]
        BY <1>1, <1>2
    <2> QED
        BY <2>1, SeqEqual
<1> QED
    BY <1>1, <1>2, <1>3

\* One symbol of a text as a part of it, and two.
LEMMA OneAndTwo ==
    ASSUME NEW X, NEW s \in Seq(X), NEW i \in Nat, i + 1 <= Len(s)
    PROVE  /\ SubSeq(s, i + 1, i + 1) = <<s[i + 1]>>
           /\ i + 2 <= Len(s) => SubSeq(s, i + 1, i + 2) = <<s[i + 1], s[i + 2]>>
<1>1. SubSeq(s, i + 1, i + 1) = <<s[i + 1]>>
    <2>1. /\ SubSeq(s, i + 1, i + 1) \in Seq(X) /\ Len(SubSeq(s, i + 1, i + 1)) = 1
          /\ \A k \in 1..1 : SubSeq(s, i + 1, i + 1)[k] = s[i + k]
        <3>1. PICK n \in Nat : n = 1
            OBVIOUS
        <3>2. /\ SubSeq(s, i + 1, i + n) \in Seq(X) /\ Len(SubSeq(s, i + 1, i + n)) = n
              /\ \A k \in 1..n : SubSeq(s, i + 1, i + n)[k] = s[i + k]
            BY <3>1, PartElements
        <3> QED
            BY <3>1, <3>2
    <2>2. PICK v \in Seq(X) : v = SubSeq(s, i + 1, i + 1)
        BY <2>1
    <2>3. Len(v) = 1 /\ v[1] = s[i + 1] /\ s[i + 1] \in X
        BY <2>1, <2>2, ElementOfSeq
    <2>4. PICK w \in Seq(X) : w = <<s[i + 1]>> /\ Len(w) = 1 /\ w[1] = s[i + 1]
        BY <2>3
    <2>5. v = w
        BY <2>3, <2>4, SeqEqual
    <2> QED
        BY <2>2, <2>4, <2>5
<1>2. ASSUME i + 2 <= Len(s) PROVE SubSeq(s, i + 1, i + 2) = <<s[i + 1], s[i + 2]>>
    <2>1. /\ SubSeq(s, i + 1, i + 2) \in Seq(X) /\ Len(SubSeq(s, i + 1, i + 2)) = 2
          /\ \A k \in 1..2 : SubSeq(s, i + 1, i + 2)[k] = s[i + k]
        BY <1>2, PartElements
    <2>2. PICK v \in Seq(X) : v = SubSeq(s, i + 1, i + 2)
        BY <2>1
    <2>3. Len(v) = 2 /\ v[1] = s[i + 1] /\ v[2] = s[i + 2] /\ s[i + 1] \in X /\ s[i + 2] \in X
        BY <1>2, <2>1, <2>2, ElementOfSeq
    <2>4. PICK w \in Seq(X) : w = <<s[i + 1], s[i + 2]>> /\ Len(w) = 2 /\ w[1] = s[i + 1] /\ w[2] = s[i + 2]
        BY <2>3
    <2>5. v = w
        BY <2>3, <2>4, SeqEqual
    <2> QED
        BY <2>2, <2>4, <2>5
<1> QED
    BY <1>1, <1>2

\* A translation with what is left of its text behind it, element by element.
LEMMA RestElements ==
    ASSUME NEW s \in Seq(Cells), NEW text \in Seq(Symbols), NEW i \in 0..Len(text)
    PROVE  LET u == s \o Rest(text, i) IN
           /\ u \in Seq(Cells) /\ Len(u) = Len(s) + (Len(text) - i)
           /\ \A k \in 1..Len(s) : u[k] = s[k]
           /\ \A k \in 1..(Len(text) - i) : u[Len(s) + k] = text[i + k]
<1>1. Rest(text, i) \in Seq(Cells) /\ text \in Seq(Cells)
    <2>1. text \in Seq(Cells)
        BY DEF Cells
    <2> QED
        BY <2>1 DEF Rest
<1>2. /\ Len(Rest(text, i)) = Len(text) - i
      /\ \A k \in 1..(Len(text) - i) : Rest(text, i)[k] = text[i + k]
    BY DEF Rest
<1>3. PICK r \in Seq(Cells) : r = Rest(text, i)
    BY <1>1
<1>4. PICK m \in Nat : m = Len(text) - i
    OBVIOUS
<1>5. Len(r) = m /\ \A k \in 1..m : r[k] = text[i + k]
    BY <1>2, <1>3, <1>4
<1>6. s \o r \in Seq(Cells) /\ Len(s \o r) = Len(s) + m /\ \A k \in 1..Len(s) : (s \o r)[k] = s[k]
    <2>1. s \o r \in Seq(Cells)
        OBVIOUS
    <2>2. Len(s \o r) = Len(s) + Len(r) /\ \A k \in 1..Len(s) : (s \o r)[k] = s[k]
        BY ConcatProperties
    <2> QED
        BY <1>5, <2>1, <2>2
<1>7. \A k \in 1..m : (s \o r)[Len(s) + k] = text[i + k]
    BY <1>5, ConcatProperties
<1> QED
    BY <1>3, <1>4, <1>6, <1>7

\* A tag behind a translation is one in what is left of the text.
LEMMA TagAhead ==
    ASSUME NEW s \in Seq(Cells), NEW text \in Seq(Symbols), NEW i \in 0..Len(text),
           KeyTagAt(s \o Rest(text, i), Len(s))
    PROVE  i < Len(text) /\ text[i + 1] = Open /\ KeyTagAt(text, i)
<1>1. PICK u : u = s \o Rest(text, i)
    OBVIOUS
<1>2. PICK n \in Nat, m \in Nat : n = Len(s) /\ m = Len(text) - i
    <2>1. Len(s) \in Nat /\ Len(text) - i \in Nat
        OBVIOUS
    <2> QED
        BY <2>1
<1>3. /\ u \in Seq(Cells) /\ Len(u) = n + m
      /\ \A k \in 1..m : u[n + k] = text[i + k]
    BY <1>1, <1>2, RestElements
<1>4. PICK e \in 0..Len(u) : TagIn(u, n, e) /\ NameIn(u, n, e) \in Keys
    BY <1>1, <1>2 DEF KeyTagAt
<1>5. PICK l \in Nat : e = n + 2 + l /\ l + 4 <= m
    <2>1. e \in (n + 2)..(Len(u) - 2)
        BY <1>4 DEF TagIn
    <2>2. e - (n + 2) \in Nat /\ e = n + 2 + (e - (n + 2)) /\ (e - (n + 2)) + 4 <= m
        BY <2>1, <1>3
    <2> QED
        BY <2>2
<1>6. text[i + 1] = Open /\ text[i + 2] = Open /\ text[i + l + 3] = Close /\ text[i + l + 4] = Close
    <2>1. u[n + 1] = Open /\ u[n + 2] = Open /\ u[n + (l + 3)] = Close /\ u[n + (l + 4)] = Close
        BY <1>4, <1>5 DEF TagIn
    <2>2. 1 \in 1..m /\ 2 \in 1..m /\ l + 3 \in 1..m /\ l + 4 \in 1..m
        BY <1>5
    <2>3. text[i + 1] = Open /\ text[i + 2] = Open /\ text[i + (l + 3)] = Close /\ text[i + (l + 4)] = Close
        BY <2>1, <2>2, <1>3, Zenon
    <2>4. i + (l + 3) = i + l + 3 /\ i + (l + 4) = i + l + 4
        OBVIOUS
    <2> QED
        BY <2>3, <2>4
<1>7. ASSUME NEW f \in (i + 2)..(i + 2 + l - 1), text[f + 1] = Close /\ text[f + 2] = Close PROVE FALSE
    <2>1. PICK k \in Nat : f = i + k
        <3>1. f - i \in Nat /\ f = i + (f - i)
            OBVIOUS
        <3> QED
            BY <3>1
    <2>2. k + 1 \in 1..m /\ k + 2 \in 1..m
        BY <2>1, <1>5
    <2>3. i + (k + 1) = f + 1 /\ i + (k + 2) = f + 2 /\ n + (k + 1) = (n + k) + 1 /\ n + (k + 2) = (n + k) + 2
        BY <2>1
    <2>4. u[(n + k) + 1] = Close /\ u[(n + k) + 2] = Close
        <3>1. u[n + (k + 1)] = text[i + (k + 1)] /\ u[n + (k + 2)] = text[i + (k + 2)]
            BY <2>2, <1>3, Zenon
        <3> QED
            BY <3>1, <2>3, <1>7
    <2>5. n + k \in (n + 2)..(e - 1)
        BY <2>1, <1>5
    <2>6. ~(u[(n + k) + 1] = Close /\ u[(n + k) + 2] = Close)
        BY <2>5, <1>4 DEF TagIn
    <2> QED
        BY <2>4, <2>6
<1>8. NameIn(text, i, i + 2 + l) = NameIn(u, n, e)
    <2>1. text \in Seq(Cells)
        BY DEF Cells
    <2>2. (i + 2) + l <= Len(text) /\ (n + 2) + l <= Len(u) /\ i + 2 \in Nat /\ n + 2 \in Nat
        BY <1>2, <1>3, <1>5
    <2>3. \A k \in 1..l : text[(i + 2) + k] = u[(n + 2) + k]
        <3> SUFFICES ASSUME NEW k \in 1..l PROVE text[(i + 2) + k] = u[(n + 2) + k]
            OBVIOUS
        <3>1. k + 2 \in 1..m
            BY <1>5
        <3>2. u[n + (k + 2)] = text[i + (k + 2)]
            BY <3>1, <1>3
        <3> QED
            BY <3>2
    <2>4. SubSeq(text, (i + 2) + 1, (i + 2) + l) = SubSeq(u, (n + 2) + 1, (n + 2) + l)
        <3>1. PICK b \in Nat, d \in Nat : b = i + 2 /\ d = n + 2
            BY <2>2
        <3>2. SameParts(text, b, u, d, l)
            BY <2>2, <2>3, <3>1 DEF SameParts
        <3>3. PICK v \in Seq(Cells) : v = text
            BY <2>1
        <3>4. u \in Seq(Cells) /\ l \in Nat /\ SameParts(v, b, u, d, l)
            BY <3>2, <3>3, <1>3, <1>5
        <3>5. Part(v, b, l) = Part(u, d, l)
            BY <3>1, <3>3, <3>4, EqualParts
        <3> QED
            BY <3>1, <3>3, <3>5 DEF Part
    <2>5. (i + 2) + 1 = i + 3 /\ (n + 2) + 1 = n + 3 /\ (i + 2) + l = i + 2 + l /\ (n + 2) + l = e
        BY <1>5
    <2> QED
        BY <2>4, <2>5 DEF NameIn
<1>9. TagIn(text, i, i + 2 + l) /\ i + 2 + l \in 0..Len(text)
    <2>1. i + 2 + l \in (i + 2)..(Len(text) - 2) /\ i + 2 <= Len(text) /\ i + 2 + l \in 0..Len(text)
        BY <1>2, <1>5
    <2>2. text[(i + 2 + l) + 1] = Close /\ text[(i + 2 + l) + 2] = Close
        BY <1>6
    <2> QED
        BY <2>1, <2>2, <1>6, <1>7 DEF TagIn
<1> QED
    BY <1>2, <1>4, <1>5, <1>6, <1>8, <1>9 DEF KeyTagAt

\* What a copied symbol adds to a translation.
LEMMA CopyOne ==
    ASSUME NEW shell, NEW s, NEW text, NEW i, Scanned(shell, s, text, i), i < Len(text),
           text[i + 1] # Open \/ ~KeyTagAt(text, i) \/ Lexed(shell, s)[Len(s)].escaped
    PROVE  Scanned(shell, Append(s, text[i + 1]), text, i + 1)
<1>1. /\ s \in Seq(Cells) /\ text \in Seq(Symbols) /\ i \in 0..Len(text)
      /\ Restored(s) = SubSeq(text, 1, i) /\ Expands(shell, s) /\ LeftBehind(shell, s, Rest(text, i))
    BY DEF Scanned
<1>2. PICK c \in Symbols : c = text[i + 1]
    BY <1>1, ElementOfSeq
<1>3. c \in Cells /\ ~IsReference(c) /\ Origin(c) = <<c>>
    BY CellFacts DEF Cells
<1>4. PICK t \in Seq(Cells) : t = Append(s, c)
    BY <1>1, <1>3, AppendProperties
<1>5. Len(t) = Len(s) + 1 /\ t[Len(s) + 1] = c /\ \A k \in 1..Len(s) : t[k] = s[k]
    BY <1>1, <1>4
<1>6. Len(s) \in Nat /\ Len(text) \in Nat /\ i \in Nat /\ i + 1 \in 0..Len(text)
    BY <1>1
<1>7. \A k \in 0..Len(s) : Lexed(shell, t)[k] = Lexed(shell, s)[k]
    BY <1>1, <1>3, <1>4, LexedAppend
<1>8. Restored(t) = SubSeq(text, 1, i + 1)
    <2>1. Restored(t) = SubSeq(text, 1, i) \o <<c>>
        BY <1>1, <1>3, <1>4, RestoredAppend
    <2>2. SubSeq(text, 1, i) \o <<c>> = SubSeq(text, 1, i + 1)
        BY <1>1, <1>2, <1>6
    <2> QED
        BY <2>1, <2>2
<1>9. Expands(shell, t)
    <2> SUFFICES ASSUME NEW n \in DOMAIN t, IsReference(t[n])
                 PROVE  LET was == Lexed(shell, t)[n - 1] IN
                        shell # "unknown" /\ was.quote # "single" /\ ~was.escaped
        BY DEF Expands
    <2>1. n \in 1..(Len(s) + 1) /\ n # Len(s) + 1
        BY <1>3, <1>5
    <2>2. n \in 1..Len(s) /\ n - 1 \in 0..Len(s)
        BY <2>1, <1>6
    <2>3. n \in DOMAIN s /\ t[n] = s[n]
        BY <2>2, <1>1, <1>5
    <2> QED
        BY <2>2, <2>3, <1>1, <1>7 DEF Expands
<1>10. t \o Rest(text, i + 1) = s \o Rest(text, i)
    <2>1. PICK u \in Seq(Cells) : /\ u = s \o Rest(text, i) /\ Len(u) = Len(s) + (Len(text) - i)
                                  /\ \A k \in 1..Len(s) : u[k] = s[k]
                                  /\ \A k \in 1..(Len(text) - i) : u[Len(s) + k] = text[i + k]
        <3>1. LET u == s \o Rest(text, i) IN
              /\ u \in Seq(Cells) /\ Len(u) = Len(s) + (Len(text) - i)
              /\ \A k \in 1..Len(s) : u[k] = s[k]
              /\ \A k \in 1..(Len(text) - i) : u[Len(s) + k] = text[i + k]
            BY <1>1, RestElements
        <3> QED
            BY <3>1
    <2>2. PICK w \in Seq(Cells) : /\ w = t \o Rest(text, i + 1) /\ Len(w) = Len(t) + (Len(text) - (i + 1))
                                  /\ \A k \in 1..Len(t) : w[k] = t[k]
                                  /\ \A k \in 1..(Len(text) - (i + 1)) : w[Len(t) + k] = text[(i + 1) + k]
        <3>1. LET w == t \o Rest(text, i + 1) IN
              /\ w \in Seq(Cells) /\ Len(w) = Len(t) + (Len(text) - (i + 1))
              /\ \A k \in 1..Len(t) : w[k] = t[k]
              /\ \A k \in 1..(Len(text) - (i + 1)) : w[Len(t) + k] = text[(i + 1) + k]
            BY <1>1, <1>4, <1>6, RestElements
        <3> QED
            BY <3>1
    <2>3. Len(u) = Len(w)
        <3>1. Len(s) + (Len(text) - i) = (Len(s) + 1) + (Len(text) - (i + 1))
            BY <1>6
        <3> QED
            BY <3>1, <2>1, <2>2, <1>5
    <2>4. ASSUME NEW k \in 1..Len(u) PROVE u[k] = w[k]
        <3>1. CASE k \in 1..Len(s)
            <4>1. k \in 1..Len(t)
                BY <3>1, <1>5
            <4> QED
                BY <3>1, <4>1, <2>1, <2>2, <1>5
        <3>2. CASE k = Len(s) + 1
            <4>1. 1 \in 1..(Len(text) - i) /\ Len(t) \in 1..Len(t)
                BY <1>5, <1>6
            <4>2. u[k] = text[i + 1]
                BY <3>2, <4>1, <2>1
            <4>3. w[k] = t[Len(t)]
                BY <3>2, <4>1, <2>2, <1>5
            <4> QED
                BY <4>2, <4>3, <1>2, <1>5
        <3>3. CASE k > Len(s) + 1
            <4>1. PICK j \in Nat : k = Len(s) + (j + 1) /\ j # 0
                <5>1. k - Len(s) - 1 \in Nat \ {0} /\ k = Len(s) + ((k - Len(s) - 1) + 1)
                    BY <3>3, <1>6, <2>1
                <5> QED
                    BY <5>1
            <4>2. j + 1 \in 1..(Len(text) - i) /\ j \in 1..(Len(text) - (i + 1)) /\ k = Len(t) + j
                BY <4>1, <2>1, <1>5, <1>6
            <4>3. u[k] = text[i + (j + 1)]
                BY <4>1, <4>2, <2>1
            <4>4. w[k] = text[(i + 1) + j]
                BY <4>2, <2>2
            <4>5. i + (j + 1) = (i + 1) + j
                BY <4>1, <1>6
            <4> QED
                BY <4>3, <4>4, <4>5
        <3>4. k \in 1..Len(s) \/ k = Len(s) + 1 \/ k > Len(s) + 1
            BY <1>6
        <3> QED
            BY <3>1, <3>2, <3>3, <3>4
    <2>5. u = w
        BY <2>1, <2>2, <2>3, <2>4, SeqEqual
    <2> QED
        BY <2>1, <2>2, <2>5
<1>11. LeftBehind(shell, t, Rest(text, i + 1))
    <2> SUFFICES ASSUME NEW n \in 0..(Len(t) - 1), KeyTagAt(s \o Rest(text, i), n)
                 PROVE  Lexed(shell, t)[n].escaped
        BY <1>10 DEF LeftBehind
    <2>1. CASE n = Len(s)
        <3>1. KeyTagAt(text, i) /\ text[i + 1] = Open
            BY <2>1, <1>1, TagAhead
        <3>2. Len(s) \in 0..Len(s)
            BY <1>6
        <3> QED
            BY <2>1, <3>1, <3>2, <1>7
    <2>2. CASE n # Len(s)
        <3>1. n \in 0..(Len(s) - 1) /\ n \in 0..Len(s)
            BY <2>2, <1>5, <1>6
        <3> QED
            BY <3>1, <1>1, <1>7 DEF LeftBehind
    <2> QED
        BY <2>1, <2>2
<1> QED
    BY <1>1, <1>2, <1>4, <1>6, <1>8, <1>9, <1>11 DEF Scanned

\* The elements of a tag.
LEMMA TagElements ==
    ASSUME NEW name \in Seq(Symbols), NEW l \in Nat, Len(name) = l,
           NEW v \in Seq(Symbols), v = Tag(name)
    PROVE  /\ Len(v) = l + 4 /\ v[1] = Open /\ v[2] = Open
           /\ v[l + 3] = Close /\ v[l + 4] = Close
           /\ \A k \in 3..(l + 2) : v[k] = name[k - 2]
<1>0. PICK X : X = Symbols
    OBVIOUS
<1>1. PICK a, b : /\ a = <<Open, Open>> /\ b = <<Close, Close>>
                  /\ a \in Seq(X) /\ b \in Seq(X) /\ name \in Seq(X)
    <2>1. Open \in X /\ Close \in X
        BY <1>0, ShellAssumption
    <2>2. <<Open, Open>> \in Seq(X) /\ <<Close, Close>> \in Seq(X)
        BY <2>1
    <2>3. name \in Seq(X)
        BY <1>0
    <2> QED
        BY <2>2, <2>3
<1>2. /\ Len(a) = 2 /\ a[1] = Open /\ a[2] = Open
      /\ Len(b) = 2 /\ b[1] = Close /\ b[2] = Close
    BY <1>1
<1>3. PICK u : u = a \o name
    OBVIOUS
<1>4. /\ Len(u) = l + 2 /\ u[1] = Open /\ u[2] = Open
      /\ u \in Seq(X) /\ \A k \in 1..l : u[2 + k] = name[k]
    <2>1. /\ u \in Seq(X) /\ Len(u) = Len(a) + Len(name)
          /\ \A k \in 1..Len(a) : u[k] = a[k]
          /\ \A k \in 1..Len(name) : u[Len(a) + k] = name[k]
        BY <1>1, <1>3, ConcatProperties
    <2>2. 1 \in 1..Len(a) /\ 2 \in 1..Len(a)
        BY <1>2
    <2> QED
        BY <1>2, <2>1, <2>2
<1>5. v = u \o b
    BY <1>1, <1>3 DEF Tag
<1>6. /\ Len(v) = (l + 2) + 2
      /\ \A k \in 1..(l + 2) : v[k] = u[k]
      /\ \A k \in 1..2 : v[(l + 2) + k] = b[k]
    <2>1. /\ Len(v) = Len(u) + Len(b)
          /\ \A k \in 1..Len(u) : v[k] = u[k]
          /\ \A k \in 1..Len(b) : v[Len(u) + k] = b[k]
        BY <1>1, <1>4, <1>5, ConcatProperties
    <2> QED
        BY <1>2, <1>4, <2>1
<1>7. v[(l + 2) + 1] = Close /\ v[(l + 2) + 2] = Close
    BY <1>2, <1>6
<1>8. (l + 2) + 1 = l + 3 /\ (l + 2) + 2 = l + 4 /\ 1 \in 1..(l + 2) /\ 2 \in 1..(l + 2)
    OBVIOUS
<1>9. ASSUME NEW k \in 3..(l + 2) PROVE v[k] = name[k - 2]
    <2>1. k \in 1..(l + 2) /\ k - 2 \in 1..l /\ 2 + (k - 2) = k
        OBVIOUS
    <2> QED
        BY <1>4, <1>6, <2>1
<1> QED
    BY <1>4, <1>6, <1>7, <1>8, <1>9

\* What a rewritten tag adds to a translation.
LEMMA RewriteOne ==
    ASSUME NEW shell, NEW s, NEW text, NEW i, NEW e \in 0..Len(text), NEW name,
           Scanned(shell, s, text, i), shell # "unknown",
           Lexed(shell, s)[Len(s)].quote # "single", ~Lexed(shell, s)[Len(s)].escaped,
           TagIn(text, i, e), name = NameIn(text, i, e), name \in Keys
    PROVE  Scanned(shell, Append(s, Reference(name)), text, e + 2) /\ e + 2 <= Len(text)
<1>1. /\ s \in Seq(Cells) /\ text \in Seq(Symbols) /\ i \in 0..Len(text)
      /\ Restored(s) = SubSeq(text, 1, i) /\ Expands(shell, s) /\ LeftBehind(shell, s, Rest(text, i))
    BY DEF Scanned
<1>2. PICK c \in Cells : /\ c = Reference(name) /\ IsReference(c) /\ c \notin Symbols
                         /\ Origin(c) = Tag(name) /\ Tag(name) \in Seq(Symbols)
    BY CellFacts DEF Cells
<1>3. PICK t \in Seq(Cells) : t = Append(s, c)
    BY <1>1, <1>2, AppendProperties
<1>4. Len(t) = Len(s) + 1 /\ t[Len(s) + 1] = c /\ \A k \in 1..Len(s) : t[k] = s[k]
    BY <1>1, <1>3
<1>5. /\ Len(s) \in Nat /\ Len(text) \in Nat /\ i \in Nat /\ e \in (i + 2)..(Len(text) - 2)
      /\ e + 2 \in 0..Len(text)
    BY <1>1 DEF TagIn
<1>6. \A k \in 0..Len(s) : Lexed(shell, t)[k] = Lexed(shell, s)[k]
    BY <1>1, <1>2, <1>3, LexedAppend
<1>7. Restored(t) = SubSeq(text, 1, e + 2)
    <2>1. Restored(t) = SubSeq(text, 1, i) \o Tag(name)
        BY <1>1, <1>2, <1>3, RestoredAppend
    <2>2. Tag(name) = SubSeq(text, i + 1, e + 2)
        <3>1. PICK l \in Nat : e = (i + 2) + l
            <4>1. e - (i + 2) \in Nat /\ e = (i + 2) + (e - (i + 2))
                BY <1>5
            <4> QED
                BY <4>1
        <3>2. /\ SubSeq(text, (i + 2) + 1, (i + 2) + l) \in Seq(Symbols)
              /\ Len(SubSeq(text, (i + 2) + 1, (i + 2) + l)) = l
              /\ \A k \in 1..l : SubSeq(text, (i + 2) + 1, (i + 2) + l)[k] = text[(i + 2) + k]
            <4>1. i + 2 \in Nat /\ (i + 2) + l <= Len(text)
                BY <3>1, <1>5
            <4> QED
                BY <4>1, <1>1, PartElements
        <3>3. name \in Seq(Symbols) /\ Len(name) = l /\ \A k \in 1..l : name[k] = text[(i + 2) + k]
            <4>1. (i + 2) + 1 = i + 3
                BY <1>5
            <4> QED
                BY <3>1, <3>2, <4>1 DEF NameIn
        <3>4. PICK w \in Seq(Symbols) : /\ w = SubSeq(text, i + 1, e + 2) /\ Len(w) = l + 4
                                        /\ \A k \in 1..(l + 4) : w[k] = text[i + k]
            <4>1. i + (l + 4) = e + 2 /\ i + (l + 4) <= Len(text)
                BY <3>1, <1>5
            <4>2. /\ SubSeq(text, i + 1, i + (l + 4)) \in Seq(Symbols)
                  /\ Len(SubSeq(text, i + 1, i + (l + 4))) = l + 4
                  /\ \A k \in 1..(l + 4) : SubSeq(text, i + 1, i + (l + 4))[k] = text[i + k]
                BY <4>1, <1>1, <1>5, PartElements
            <4> QED
                BY <4>1, <4>2
        <3>5. PICK v \in Seq(Symbols) : v = Tag(name)
            BY <1>2
        <3>6. /\ Len(v) = l + 4 /\ v[1] = Open /\ v[2] = Open
              /\ v[l + 3] = Close /\ v[l + 4] = Close
              /\ \A k \in 3..(l + 2) : v[k] = name[k - 2]
            BY <3>3, <3>5, TagElements
        <3>7. ASSUME NEW k \in 1..(l + 4) PROVE v[k] = w[k]
            <4>1. w[k] = text[i + k]
                BY <3>4
            <4>2. CASE k \in 1..2
                <5>1. text[i + 1] = Open /\ text[i + 2] = Open
                    BY DEF TagIn
                <5> QED
                    BY <4>1, <4>2, <5>1, <3>6
            <4>3. CASE k \in 3..(l + 2)
                <5>1. k - 2 \in 1..l /\ (i + 2) + (k - 2) = i + k
                    BY <4>3, <1>5
                <5>2. name[k - 2] = text[(i + 2) + (k - 2)]
                    BY <5>1, <3>3
                <5> QED
                    BY <4>1, <4>3, <5>1, <5>2, <3>6
            <4>4. CASE k \in (l + 3)..(l + 4)
                <5>1. text[e + 1] = Close /\ text[e + 2] = Close
                    BY DEF TagIn
                <5>2. i + (l + 3) = e + 1 /\ i + (l + 4) = e + 2
                    BY <3>1, <1>5
                <5>3. k = l + 3 \/ k = l + 4
                    BY <4>4
                <5> QED
                    BY <4>1, <5>1, <5>2, <5>3, <3>6
            <4>5. k \in 1..2 \/ k \in 3..(l + 2) \/ k \in (l + 3)..(l + 4)
                OBVIOUS
            <4> QED
                BY <4>2, <4>3, <4>4, <4>5
        <3>8. v = w
            BY <3>4, <3>6, <3>7, SeqEqual
        <3> QED
            BY <3>4, <3>5, <3>8
    <2>3. SubSeq(text, 1, i) \o SubSeq(text, i + 1, e + 2) = SubSeq(text, 1, e + 2)
        BY <1>1, <1>5
    <2> QED
        BY <2>1, <2>2, <2>3
<1>8. Expands(shell, t)
    <2> SUFFICES ASSUME NEW n \in DOMAIN t, IsReference(t[n])
                 PROVE  LET was == Lexed(shell, t)[n - 1] IN
                        shell # "unknown" /\ was.quote # "single" /\ ~was.escaped
        BY DEF Expands
    <2>1. n \in 1..(Len(s) + 1)
        BY <1>4
    <2>2. CASE n = Len(s) + 1
        <3>1. n - 1 = Len(s) /\ Len(s) \in 0..Len(s)
            BY <2>2, <1>5
        <3> QED
            BY <3>1, <1>6
    <2>3. CASE n # Len(s) + 1
        <3>1. n \in 1..Len(s) /\ n - 1 \in 0..Len(s)
            BY <2>1, <2>3, <1>5
        <3>2. n \in DOMAIN s /\ t[n] = s[n]
            BY <3>1, <1>1, <1>4
        <3> QED
            BY <3>1, <3>2, <1>1, <1>6 DEF Expands
    <2> QED
        BY <2>2, <2>3
<1>9. LeftBehind(shell, t, Rest(text, e + 2))
    <2> SUFFICES ASSUME NEW n \in 0..(Len(t) - 1), KeyTagAt(t \o Rest(text, e + 2), n)
                 PROVE  Lexed(shell, t)[n].escaped
        BY DEF LeftBehind
    <2>1. PICK u \in Seq(Cells) : /\ u = s \o Rest(text, i) /\ Len(u) = Len(s) + (Len(text) - i)
                                  /\ \A k \in 1..Len(s) : u[k] = s[k]
        <3>1. LET u == s \o Rest(text, i) IN
              /\ u \in Seq(Cells) /\ Len(u) = Len(s) + (Len(text) - i)
              /\ \A k \in 1..Len(s) : u[k] = s[k]
            BY <1>1, RestElements
        <3> QED
            BY <3>1
    <2>2. PICK w \in Seq(Cells) : /\ w = t \o Rest(text, e + 2) /\ \A k \in 1..Len(t) : w[k] = t[k]
        <3>1. LET w == t \o Rest(text, e + 2) IN w \in Seq(Cells) /\ \A k \in 1..Len(t) : w[k] = t[k]
            BY <1>1, <1>3, <1>5, RestElements
        <3> QED
            BY <3>1
    <2>3. PICK f \in 0..Len(w) : TagIn(w, n, f) /\ NameIn(w, n, f) \in Keys
        BY <2>2 DEF KeyTagAt
    <2>4. f \in (n + 2)..(Len(w) - 2) /\ n \in 0..Len(s)
        BY <2>3, <1>4, <1>5 DEF TagIn
    <2>5. \A k \in (n + 1)..(f + 2) : w[k] \in Symbols
        <3>1. Open \in Symbols /\ Close \in Symbols
            BY ShellAssumption
        <3>2. w[n + 1] = Open /\ w[n + 2] = Open /\ w[f + 1] = Close /\ w[f + 2] = Close
            BY <2>3 DEF TagIn
        <3>3. ASSUME NEW k \in (n + 3)..f PROVE w[k] \in Symbols
            <4>1. PICK l \in Nat : f = (n + 2) + l
                <5>1. f - (n + 2) \in Nat /\ f = (n + 2) + (f - (n + 2))
                    BY <2>4
                <5> QED
                    BY <5>1
            <4>2. (n + 2) + l <= Len(w) /\ n + 2 \in Nat /\ (n + 2) + 1 = n + 3
                BY <4>1, <2>4
            <4>3. /\ Len(SubSeq(w, (n + 2) + 1, (n + 2) + l)) = l
                  /\ \A j \in 1..l : SubSeq(w, (n + 2) + 1, (n + 2) + l)[j] = w[(n + 2) + j]
                BY <4>2, PartElements
            <4>4. PICK v \in Seq(Symbols) : v = SubSeq(w, (n + 2) + 1, (n + 2) + l)
                BY <4>1, <4>2, <2>3, CellFacts DEF NameIn
            <4>5. k - (n + 2) \in 1..l /\ (n + 2) + (k - (n + 2)) = k
                BY <3>3, <4>1, <2>4
            <4>6. v[k - (n + 2)] = w[k] /\ Len(v) = l
                BY <4>3, <4>4, <4>5
            <4> QED
                BY <4>5, <4>6, ElementOfSeq
        <3>4. \A k \in (n + 1)..(f + 2) : k = n + 1 \/ k = n + 2 \/ k \in (n + 3)..f \/ k = f + 1 \/ k = f + 2
            <4>1. n \in Int /\ f \in Int
                BY <2>4, <1>5
            <4> QED
                BY <4>1
        <3> QED
            BY <3>1, <3>2, <3>3, <3>4
    <2>6. f + 2 <= Len(s)
        <3>1. w[Len(s) + 1] = c
            <4>1. Len(s) + 1 \in 1..Len(t)
                BY <1>4, <1>5
            <4> QED
                BY <4>1, <2>2, <1>4
        <3>2. Len(s) + 1 \notin (n + 1)..(f + 2)
            BY <3>1, <2>5, <1>2
        <3> QED
            BY <3>2, <2>4, <1>5
    <2>7. \A k \in 1..(f + 2) : w[k] = u[k]
        <3> SUFFICES ASSUME NEW k \in 1..(f + 2) PROVE w[k] = u[k]
            OBVIOUS
        <3>1. k \in 1..Len(s) /\ k \in 1..Len(t)
            BY <2>4, <2>6, <1>4, <1>5
        <3> QED
            BY <3>1, <2>1, <2>2, <1>4
    <2>8. TagIn(u, n, f) /\ f \in 0..Len(u)
        <3>1. f \in (n + 2)..(Len(u) - 2) /\ n + 2 <= Len(u) /\ f \in 0..Len(u)
            <4>0. Len(u) \in Nat /\ Len(s) \in Nat /\ Len(u) = Len(s) + (Len(text) - i)
                BY <2>1
            <4>1. Len(u) \in Nat /\ Len(s) <= Len(u)
                BY <4>0, <1>5
            <4> QED
                BY <4>1, <2>4, <2>6, <1>5
        <3>2. \A k \in {n + 1, n + 2, f + 1, f + 2} : k \in 1..(f + 2)
            BY <2>4
        <3>3. \A k \in (n + 2)..(f - 1) : k + 1 \in 1..(f + 2) /\ k + 2 \in 1..(f + 2)
            BY <2>4
        <3> QED
            BY <3>1, <3>2, <3>3, <2>3, <2>7 DEF TagIn
    <2>9. NameIn(u, n, f) = NameIn(w, n, f)
        <3>1. PICK l \in Nat : f = (n + 2) + l
            <4>1. f - (n + 2) \in Nat /\ f = (n + 2) + (f - (n + 2))
                BY <2>4
            <4> QED
                BY <4>1
        <3>2. (n + 2) + l <= Len(u) /\ (n + 2) + l <= Len(w) /\ n + 2 \in Nat /\ (n + 2) + 1 = n + 3
            BY <3>1, <2>1, <2>4, <2>6, <1>5
        <3>3. \A k \in 1..l : u[(n + 2) + k] = w[(n + 2) + k]
            <4>1. \A k \in 1..l : (n + 2) + k \in 1..(f + 2)
                BY <3>1, <2>4
            <4> QED
                BY <4>1, <2>7
        <3>4. SubSeq(u, (n + 2) + 1, (n + 2) + l) = SubSeq(w, (n + 2) + 1, (n + 2) + l)
            <4>1. u \in Seq(Cells) /\ w \in Seq(Cells) /\ l \in Nat
                BY <2>1, <2>2, <3>1
            <4>2. PICK b \in Nat : b = n + 2
                BY <3>2
            <4>3. SameParts(u, b, w, b, l)
                BY <4>1, <4>2, <3>2, <3>3 DEF SameParts
            <4>4. Part(u, b, l) = Part(w, b, l)
                BY <4>1, <4>2, <4>3, EqualParts
            <4> QED
                BY <4>2, <4>4 DEF Part
        <3> QED
            BY <3>1, <3>2, <3>4 DEF NameIn
    <2>10. KeyTagAt(u, n)
        BY <2>3, <2>8, <2>9 DEF KeyTagAt
    <2>11. n \in 0..(Len(s) - 1) /\ n \in 0..Len(s)
        BY <2>4, <2>6, <1>5
    <2> QED
        BY <2>1, <2>10, <2>11, <1>1, <1>6 DEF LeftBehind
<1> QED
    BY <1>1, <1>2, <1>3, <1>5, <1>7, <1>8, <1>9 DEF Scanned

-----------------------------------------------------------------------------
\* The text being scanned is a sequence of symbols.
LEMMA TextType == ASSUME TypeInv PROVE Text \in Seq(Symbols) /\ Len(Text) \in Nat
<1>1. texts \in Seq(Seq(Symbols)) /\ texts # <<>>
    BY DEF TypeInv
<1>2. Head(texts) \in Seq(Symbols)
    BY <1>1
<1> QED
    BY <1>2 DEF Text

\* The references of a text that grows by a cell.
LEMMA ReferencesAppend ==
    ASSUME NEW k, NEW s \in Seq(Cells), NEW c \in Cells
    PROVE  ReferencesIn(k, Append(s, c)) =
               ReferencesIn(k, s) \cup (IF IsReference(c) THEN {<<k, Len(s) + 1>>} ELSE {})
<1>1. PICK t \in Seq(Cells) : t = Append(s, c)
    BY AppendProperties
<1>2. Len(t) = Len(s) + 1 /\ t[Len(s) + 1] = c /\ \A i \in 1..Len(s) : t[i] = s[i]
    BY <1>1
<1>3. DOMAIN s = 1..Len(s) /\ DOMAIN t = (1..Len(s)) \cup {Len(s) + 1}
    BY <1>2
<1>4. {n \in DOMAIN t : IsReference(t[n])} =
          {n \in DOMAIN s : IsReference(s[n])} \cup (IF IsReference(c) THEN {Len(s) + 1} ELSE {})
    BY <1>2, <1>3
<1> QED
    BY <1>1, <1>4 DEF ReferencesIn

\* A reference put at the end is a new one.
LEMMA NewReference ==
    ASSUME TypeInv
    PROVE  <<Len(translated) + 1, Len(out) + 1>> \notin AllReferences
<1>1. Len(translated) + 1 \notin DOMAIN translated
    BY DEF TypeInv
<1>2. Len(out) + 1 \notin DOMAIN out
    BY DEF TypeInv
<1> QED
    BY <1>1, <1>2 DEF AllReferences, ReferencesIn

\* Nothing translated is a translation of nothing.
LEMMA ScannedEmpty ==
    ASSUME NEW shell, NEW text \in Seq(Symbols)
    PROVE  /\ Scanned(shell, <<>>, text, 0)
           /\ Lexed(shell, <<>>)[Len(<<>>)] = [quote |-> "none", escaped |-> FALSE]
<1>1. Restored(<<>>) = SubSeq(text, 1, 0)
    <2>1. SubSeq(text, 1, 0) = <<>>
        BY SubSeqEmpty
    <2> QED
        BY <2>1, RestoredEmpty
<1>2. Expands(shell, <<>>) /\ LeftBehind(shell, <<>>, Rest(text, 0))
    BY DEF Expands, LeftBehind
<1>3. Lexed(shell, <<>>)[0] = Unread
    <2>1. <<>> \in Seq(Symbols)
        OBVIOUS
    <2> QED
        BY <2>1, LexedSteps
<1>4. <<>> \in Seq(Cells) /\ 0 \in 0..Len(text) /\ Len(<<>>) = 0
    OBVIOUS
<1> QED
    BY <1>1, <1>2, <1>3, <1>4 DEF Scanned, Unread

\* The invariant holds before the scan begins.
LEMMA InitInv == ASSUME Init PROVE Inv
<1>1. /\ kind \in Kinds /\ texts \in Seq(Seq(Symbols)) /\ texts # <<>>
      /\ at = 0 /\ quote = "none" /\ translated = <<>> /\ out = <<>> /\ count = 0
      /\ unmatched = <<>> /\ status = "scanning" /\ MaxUnmatched \in Nat
    BY ShellAssumption DEF Init
<1>2. Head(texts) \in Seq(Symbols)
    BY <1>1
<1>3. TypeInv
    BY <1>1, <1>2 DEF TypeInv, Text, QuoteStates
<1>4. Text \in Seq(Symbols) /\ Len(Text) \in Nat
    BY <1>3, TextType
<1>5. Scanned(kind, out, Text, at)
    BY <1>1, <1>4, ScannedEmpty
<1>6. ReadsAlike
    BY <1>1, <1>4, ScannedEmpty DEF ReadsAlike
<1>7. TranslatedInv
    BY <1>1 DEF TranslatedInv
<1>8. IsFiniteSet(AllReferences) /\ count = Cardinality(AllReferences)
    <2>1. AllReferences = {}
        BY <1>1 DEF AllReferences, ReferencesIn
    <2> QED
        BY <1>1, <2>1, FS_EmptySet
<1>9. NamesInv /\ RefusedRightly
    BY <1>1 DEF NamesInv, RefusedRightly, Range
<1> QED
    BY <1>1, <1>3, <1>5, <1>6, <1>7, <1>8, <1>9 DEF Inv

-----------------------------------------------------------------------------
\* A step within a text that goes on scanning.
LEMMA ScanStep ==
    ASSUME Inv, status = "scanning", UNCHANGED <<kind, texts, translated, status>>,
           Scanned(kind, out', Text, at'), quote' \in QuoteStates,
           unmatched' \in Seq(Seq(Symbols)), ReadsAlike', NamesInv',
           IsFiniteSet(AllReferences'), count' = Cardinality(AllReferences')
    PROVE  Inv'
<1>1. TypeInv /\ TranslatedInv
    BY DEF Inv
<1>2. Text' = Text
    BY DEF Text
<1>3. count' \in Nat
    BY FS_CardinalityType
<1>4. TypeInv'
    BY <1>1, <1>2, <1>3 DEF TypeInv, Scanned
<1>5. Scanned(kind', out', Text', at')
    BY <1>2
<1>6. TranslatedInv' /\ RefusedRightly'
    BY <1>1 DEF TranslatedInv, RefusedRightly
<1> QED
    BY <1>4, <1>5, <1>6 DEF Inv

\* The same when a symbol is copied: nothing is counted.
LEMMA CopiesKeepReferences ==
    ASSUME TypeInv, NEW c \in Symbols
    PROVE  /\ c \in Cells
           /\ \A k, s : s \in Seq(Cells) => ReferencesIn(k, Append(s, c)) = ReferencesIn(k, s)
<1>1. c \in Cells /\ ~IsReference(c)
    BY CellFacts DEF Cells
<1>2. ASSUME NEW k, NEW s \in Seq(Cells) PROVE ReferencesIn(k, Append(s, c)) = ReferencesIn(k, s)
    <2>1. ReferencesIn(k, Append(s, c)) =
              ReferencesIn(k, s) \cup (IF IsReference(c) THEN {<<k, Len(s) + 1>>} ELSE {})
        BY <1>1, ReferencesAppend
    <2> QED
        BY <1>1, <2>1
<1> QED
    BY <1>1, <1>2

\* What the steps within a text know of the place they are at.
LEMMA Place ==
    ASSUME Inv, status = "scanning", at < Len(Text)
    PROVE  /\ TypeInv /\ Scanned(kind, out, Text, at) /\ out \in Seq(Cells) /\ Len(out) \in Nat
           /\ Text \in Seq(Symbols) /\ Len(Text) \in Nat /\ at \in Nat
           /\ Text[at + 1] \in Symbols /\ at + 1 \in 0..Len(Text)
           /\ Lexed(kind, out)[Len(out)] = [quote |-> quote, escaped |-> FALSE]
           /\ quote \in QuoteStates
           /\ IsFiniteSet(AllReferences) /\ count = Cardinality(AllReferences)
           /\ unmatched \in Seq(Seq(Symbols)) /\ NamesInv
<1>1. TypeInv
    BY DEF Inv
<1>2. Text \in Seq(Symbols) /\ Len(Text) \in Nat /\ at \in Nat /\ at + 1 \in 1..Len(Text)
    BY <1>1, TextType DEF TypeInv
<1>3. Text[at + 1] \in Symbols
    BY <1>2, ElementOfSeq
<1> QED
    BY <1>1, <1>2, <1>3 DEF Inv, TypeInv, ReadsAlike

\* A symbol copied at the place of the scan: it is read next.
LEMMA CopyHere ==
    ASSUME Inv, status = "scanning", at < Len(Text),
           Text[at + 1] # Open \/ ~KeyTagAt(Text, at)
    PROVE  LET c == Text[at + 1] IN
           /\ Append(out, c) = out \o SubSeq(Text, at + 1, at + 1)
           /\ Append(out, c) \in Seq(Cells) /\ Len(Append(out, c)) = Len(out) + 1
           /\ Scanned(kind, Append(out, c), Text, at + 1)
           /\ Lexed(kind, Append(out, c))[Len(out) + 1] =
                  Read(kind, [quote |-> quote, escaped |-> FALSE], c)
           /\ ReferencesIn(Len(translated) + 1, Append(out, c)) = ReferencesIn(Len(translated) + 1, out)
<1>1. PICK c \in Symbols : c = Text[at + 1]
    BY Place
<1>2. c \in Cells
    BY Place, CopiesKeepReferences
<1>3. Append(out, c) \in Seq(Cells) /\ Len(Append(out, c)) = Len(out) + 1
    BY <1>2, Place
<1>4. Append(out, c) = out \o SubSeq(Text, at + 1, at + 1)
    <2>1. Text \in Seq(Symbols) /\ at + 1 \in 1..Len(Text) /\ out \in Seq(Cells)
        BY Place
    <2>2. SubSeq(Text, at + 1, at + 1) = <<c>>
        BY <2>1, <1>1, Place, OneAndTwo
    <2> QED
        BY <2>1, <2>2, <1>2, AppendIsConcat
<1>5. Scanned(kind, Append(out, c), Text, at + 1)
    BY <1>1, Place, CopyOne
<1>6. Lexed(kind, Append(out, c))[Len(out) + 1] = Read(kind, [quote |-> quote, escaped |-> FALSE], c)
    BY <1>2, Place, LexedAppend
<1>7. ReferencesIn(Len(translated) + 1, Append(out, c)) = ReferencesIn(Len(translated) + 1, out)
    BY Place, CopiesKeepReferences
<1> QED
    BY <1>1, <1>3, <1>4, <1>5, <1>6, <1>7

\* An escape and what it escapes are copied, and read as such.
LEMMA CopyPairInv == ASSUME Inv, CopyPair PROVE Inv'
<1>1. /\ status = "scanning" /\ at + 2 <= Len(Text) /\ out' = out \o SubSeq(Text, at + 1, at + 2)
      /\ at' = at + 2 /\ UNCHANGED <<kind, texts, translated, status>>
      /\ UNCHANGED <<quote, count, unmatched>>
    BY DEF CopyPair, Pair, Copy
<1>2. at < Len(Text) /\ at \in Nat /\ Len(Text) \in Nat
    <2>1. at \in Nat /\ Len(Text) \in Nat
        BY TextType DEF Inv, TypeInv
    <2> QED
        BY <1>1, <2>1
<1>3. PICK c : c = Text[at + 1]
    OBVIOUS
<1>4. PICK d : d = Text[at + 2]
    OBVIOUS
<1>5. c # Open /\ Escape # Single /\ Single # Double /\ Escape # Double
      /\ \/ c = Escape /\ kind \in {"posix", "powershell"} /\ quote # "single"
         \/ c = Single /\ d = Single /\ kind = "powershell" /\ quote = "single"
    BY <1>3, <1>4, ShellAssumption DEF CopyPair, Pair, Escapes, Ahead
<1>6. /\ Append(out, c) = out \o SubSeq(Text, at + 1, at + 1)
      /\ Append(out, c) \in Seq(Cells) /\ Len(Append(out, c)) = Len(out) + 1
      /\ Scanned(kind, Append(out, c), Text, at + 1)
      /\ Lexed(kind, Append(out, c))[Len(out) + 1] = Read(kind, [quote |-> quote, escaped |-> FALSE], c)
      /\ ReferencesIn(Len(translated) + 1, Append(out, c)) = ReferencesIn(Len(translated) + 1, out)
    BY <1>1, <1>2, <1>3, <1>5, CopyHere
<1>7. PICK t \in Seq(Cells) : t = Append(out, c)
    BY <1>6
<1>8. /\ TypeInv /\ Text \in Seq(Symbols) /\ out \in Seq(Cells) /\ Len(out) \in Nat
      /\ quote \in QuoteStates
    BY <1>1, <1>2, Place
<1>9. c \in Symbols /\ d \in Symbols /\ d \in Cells
    <2>1. at + 1 \in 1..Len(Text) /\ at + 2 \in 1..Len(Text)
        BY <1>1, <1>2
    <2> QED
        BY <2>1, <1>3, <1>4, <1>8, ElementOfSeq, CopiesKeepReferences
<1>10. Lexed(kind, t)[Len(t)].escaped \/ d # Open
    BY <1>5, <1>6, <1>7, ShellAssumption DEF Read
<1>11. Read(kind, Lexed(kind, t)[Len(t)], d) = [quote |-> quote, escaped |-> FALSE]
    <2>1. CASE c = Escape /\ kind \in {"posix", "powershell"} /\ quote # "single"
        <3>1. Lexed(kind, t)[Len(t)] = [quote |-> quote, escaped |-> TRUE]
            BY <2>1, <1>6, <1>7 DEF Read
        <3>2. Read(kind, [quote |-> quote, escaped |-> TRUE], d) = [quote |-> quote, escaped |-> FALSE]
            BY DEF Read
        <3> QED
            BY <3>1, <3>2
    <2>2. CASE c = Single /\ d = Single /\ kind = "powershell" /\ quote = "single"
        <3>1. Lexed(kind, t)[Len(t)] = [quote |-> "none", escaped |-> FALSE]
            BY <2>2, <1>5, <1>6, <1>7 DEF Read, Toggled
        <3>2. Read(kind, [quote |-> "none", escaped |-> FALSE], d) = [quote |-> "single", escaped |-> FALSE]
            BY <2>2, <1>5 DEF Read, Toggled
        <3> QED
            BY <2>2, <3>1, <3>2
    <2> QED
        BY <2>1, <2>2, <1>5
<1>12. out' = Append(t, d) /\ t \o <<d>> = Append(t, d)
    <2>1. SubSeq(Text, at + 1, at + 2) = <<c, d>>
        <3>1. at + 1 <= Len(Text)
            BY <1>2
        <3> QED
            BY <3>1, <1>1, <1>2, <1>3, <1>4, <1>8, OneAndTwo
    <2>2. out \o <<c, d>> = Append(Append(out, c), d)
        BY <1>8, <1>9, CopiesKeepReferences
    <2>3. t \o <<d>> = Append(t, d)
        BY <1>9, AppendIsConcat
    <2> QED
        BY <2>1, <2>2, <2>3, <1>1, <1>7
<1>13. Scanned(kind, out', Text, at')
    <2>1. at + 1 < Len(Text) /\ (at + 1) + 1 = at + 2
        BY <1>1, <1>2
    <2>2. Scanned(kind, t, Text, at + 1) /\ Text[(at + 1) + 1] = d
        BY <1>4, <1>6, <1>7, <2>1
    <2>3. Scanned(kind, Append(t, d), Text, (at + 1) + 1)
        BY <2>1, <2>2, <1>10, CopyOne
    <2> QED
        BY <2>1, <2>3, <1>1, <1>12
<1>14. ReadsAlike'
    <2>1. Lexed(kind, Append(t, d))[Len(t) + 1] = Read(kind, Lexed(kind, t)[Len(t)], d)
        BY <1>9, LexedAppend
    <2>2. Len(Append(t, d)) = Len(t) + 1
        BY <1>7
    <2> QED
        BY <2>1, <2>2, <1>1, <1>11, <1>12 DEF ReadsAlike
<1>15. AllReferences' = AllReferences
    <2>1. ReferencesIn(Len(translated) + 1, Append(t, d)) = ReferencesIn(Len(translated) + 1, t)
        BY <1>8, <1>9, CopiesKeepReferences
    <2> QED
        BY <2>1, <1>1, <1>6, <1>7, <1>12 DEF AllReferences
<1>16. /\ IsFiniteSet(AllReferences) /\ count = Cardinality(AllReferences) /\ NamesInv
       /\ unmatched \in Seq(Seq(Symbols))
    BY <1>1, <1>2, Place
<1>17. NamesInv'
    BY <1>1, <1>16 DEF NamesInv
<1>18. quote' \in QuoteStates /\ unmatched' \in Seq(Seq(Symbols))
    BY <1>1, <1>8, <1>16
<1>19. IsFiniteSet(AllReferences') /\ count' = Cardinality(AllReferences')
    BY <1>1, <1>15, <1>16
<1> QED
    BY <1>1, <1>13, <1>14, <1>17, <1>18, <1>19, ScanStep

\* A quote is copied, and the scan changes its state as the shell does.
LEMMA CopyQuoteInv == ASSUME Inv, CopyQuote PROVE Inv'
<1>1. /\ status = "scanning" /\ out' = out \o SubSeq(Text, at + 1, at + 1) /\ at' = at + 1
      /\ quote' = IF Closes THEN "none" ELSE IF Opens("single") THEN "single" ELSE "double"
      /\ UNCHANGED <<kind, texts, translated, status>> /\ UNCHANGED <<count, unmatched>>
      /\ kind \in {"posix", "powershell"} /\ (Opens("single") \/ Opens("double") \/ Closes)
    BY DEF CopyQuote, Quotes, Copy
<1>2. at < Len(Text)
    <2>1. at + 1 <= Len(Text)
        BY <1>1 DEF Opens, Closes, Ahead
    <2>2. at \in Nat /\ Len(Text) \in Nat
        BY TextType DEF Inv, TypeInv
    <2> QED
        BY <2>1, <2>2
<1>3. PICK c : c = Text[at + 1]
    OBVIOUS
<1>4. Escape # Single /\ Single # Double /\ Escape # Double /\ Open # Single /\ Open # Double
    BY ShellAssumption
<1>5. \/ quote = "none" /\ c = Single /\ quote' = "single"
      \/ quote = "none" /\ c = Double /\ quote' = "double"
      \/ quote = "single" /\ c = Single /\ quote' = "none"
      \/ quote = "double" /\ c = Double /\ quote' = "none"
    BY <1>1, <1>3, <1>4 DEF Opens, Closes, Ahead
<1>6. /\ Append(out, c) = out \o SubSeq(Text, at + 1, at + 1)
      /\ Len(Append(out, c)) = Len(out) + 1
      /\ Scanned(kind, Append(out, c), Text, at + 1)
      /\ Lexed(kind, Append(out, c))[Len(out) + 1] = Read(kind, [quote |-> quote, escaped |-> FALSE], c)
      /\ ReferencesIn(Len(translated) + 1, Append(out, c)) = ReferencesIn(Len(translated) + 1, out)
    BY <1>1, <1>2, <1>3, <1>4, <1>5, CopyHere
<1>7. Read(kind, [quote |-> quote, escaped |-> FALSE], c) = [quote |-> quote', escaped |-> FALSE]
    BY <1>1, <1>4, <1>5 DEF Read, Toggled
<1>8. Scanned(kind, out', Text, at')
    BY <1>1, <1>6
<1>9. ReadsAlike'
    BY <1>1, <1>6, <1>7 DEF ReadsAlike
<1>10. AllReferences' = AllReferences
    BY <1>1, <1>6 DEF AllReferences
<1>11. /\ IsFiniteSet(AllReferences) /\ count = Cardinality(AllReferences) /\ NamesInv
       /\ unmatched \in Seq(Seq(Symbols))
    BY <1>1, <1>2, Place
<1>12. NamesInv'
    BY <1>1, <1>11 DEF NamesInv
<1>13. quote' \in QuoteStates /\ unmatched' \in Seq(Seq(Symbols))
    BY <1>1, <1>5, <1>11 DEF QuoteStates
<1>14. IsFiniteSet(AllReferences') /\ count' = Cardinality(AllReferences')
    BY <1>1, <1>10, <1>11
<1> QED
    BY <1>1, <1>8, <1>9, <1>12, <1>13, <1>14, ScanStep

\* A tag of a key is rewritten where a shell expands it, and counted.
LEMMA RewriteTagInv == ASSUME Inv, RewriteTag PROVE Inv'
<1>1. /\ status = "scanning" /\ at < Len(Text) /\ kind # "unknown" /\ quote # "single"
      /\ count' = count + 1
      /\ UNCHANGED <<kind, texts, translated, status>> /\ UNCHANGED <<quote, unmatched>>
    BY DEF RewriteTag, Plain, Refuses
<1>2. PICK e \in 0..Len(Text) :
         /\ TagIn(Text, at, e) /\ NameIn(Text, at, e) \in Keys
         /\ out' = Append(out, Reference(NameIn(Text, at, e))) /\ at' = e + 2
    BY DEF RewriteTag
<1>3. PICK name \in Keys : name = NameIn(Text, at, e)
    BY <1>2
<1>4. PICK c \in Cells : c = Reference(name) /\ IsReference(c) /\ c \notin Symbols
    BY CellFacts DEF Cells
<1>5. /\ TypeInv /\ Scanned(kind, out, Text, at) /\ out \in Seq(Cells) /\ Len(out) \in Nat
      /\ Lexed(kind, out)[Len(out)] = [quote |-> quote, escaped |-> FALSE] /\ quote \in QuoteStates
      /\ IsFiniteSet(AllReferences) /\ count = Cardinality(AllReferences)
      /\ unmatched \in Seq(Seq(Symbols)) /\ NamesInv
    BY <1>1, Place
<1>6. Scanned(kind, out', Text, at')
    <2>1. Lexed(kind, out)[Len(out)].quote # "single" /\ ~Lexed(kind, out)[Len(out)].escaped
        BY <1>1, <1>5
    <2> QED
        BY <2>1, <1>1, <1>2, <1>3, <1>5, RewriteOne
<1>7. ReadsAlike'
    <2>1. Lexed(kind, Append(out, c))[Len(out) + 1] = Read(kind, [quote |-> quote, escaped |-> FALSE], c)
        BY <1>5, LexedAppend
    <2>2. Read(kind, [quote |-> quote, escaped |-> FALSE], c) = [quote |-> quote, escaped |-> FALSE]
        BY <1>4, ShellAssumption DEF Read
    <2>3. Len(Append(out, c)) = Len(out) + 1
        BY <1>5
    <2> QED
        BY <2>1, <2>2, <2>3, <1>1, <1>2, <1>3, <1>4 DEF ReadsAlike
<1>8. AllReferences' = AllReferences \cup {<<Len(translated) + 1, Len(out) + 1>>}
    <2>1. ReferencesIn(Len(translated) + 1, Append(out, c)) =
              ReferencesIn(Len(translated) + 1, out) \cup {<<Len(translated) + 1, Len(out) + 1>>}
        BY <1>4, <1>5, ReferencesAppend
    <2> QED
        BY <2>1, <1>1, <1>2, <1>3, <1>4 DEF AllReferences
<1>9. IsFiniteSet(AllReferences') /\ count' = Cardinality(AllReferences')
    <2>1. <<Len(translated) + 1, Len(out) + 1>> \notin AllReferences
        BY <1>5, NewReference
    <2>2. PICK S : S = AllReferences
        OBVIOUS
    <2>3. IsFiniteSet(S \cup {<<Len(translated) + 1, Len(out) + 1>>})
          /\ Cardinality(S \cup {<<Len(translated) + 1, Len(out) + 1>>}) = Cardinality(S) + 1
        BY <2>1, <2>2, <1>5, FS_AddElement
    <2> QED
        BY <2>2, <2>3, <1>1, <1>5, <1>8
<1>10. NamesInv'
    BY <1>1, <1>5 DEF NamesInv
<1>11. quote' \in QuoteStates /\ unmatched' \in Seq(Seq(Symbols))
    BY <1>1, <1>5
<1> QED
    BY <1>1, <1>6, <1>7, <1>9, <1>10, <1>11, ScanStep

\* What is refused is a tag that cannot be translated.
LEMMA RefuseInv == ASSUME Inv, Refuse PROVE Inv'
<1>1. /\ status = "scanning" /\ status' = "refused" /\ at < Len(Text) /\ KeyTagAt(Text, at)
      /\ kind = "unknown" \/ quote = "single"
      /\ UNCHANGED <<kind, texts, at, quote, translated, out, count, unmatched>>
    BY DEF Refuse, Plain, Refuses
<1>2. Text' = Text /\ AllReferences' = AllReferences
    BY <1>1 DEF Text, AllReferences
<1>3. /\ TypeInv /\ Scanned(kind, out, Text, at) /\ TranslatedInv /\ NamesInv
      /\ IsFiniteSet(AllReferences) /\ count = Cardinality(AllReferences)
    BY <1>1 DEF Inv
<1>4. RefusedRightly'
    <2>1. Lexed(kind, out)[Len(out)] = [quote |-> quote, escaped |-> FALSE]
        BY <1>1, Place
    <2> QED
        BY <2>1, <1>1, <1>2 DEF RefusedRightly
<1>5. TypeInv'
    BY <1>1, <1>2, <1>3 DEF TypeInv
<1>6. TranslatedInv' /\ ReadsAlike' /\ NamesInv'
    BY <1>1, <1>3 DEF TranslatedInv, ReadsAlike, NamesInv
<1> QED
    BY <1>1, <1>2, <1>3, <1>4, <1>5, <1>6 DEF Inv

\* A name is added at the end, when it is new, no key's, and there is room.
LEMMA ReportedNames ==
    ASSUME NamesInv, unmatched \in Seq(Seq(Symbols)), NEW name \in Seq(Symbols), name \notin Keys
    PROVE  LET r == Reported(name) IN
           /\ r \in Seq(Seq(Symbols)) /\ Range(r) \cap Keys = {} /\ Len(r) <= MaxUnmatched
           /\ \A i, j \in DOMAIN r : r[i] = r[j] => i = j
<1>1. CASE Reported(name) = unmatched
    BY <1>1 DEF NamesInv
<1>2. CASE Reported(name) # unmatched
    <2>1. /\ Reported(name) = Append(unmatched, name)
          /\ ~(Len(unmatched) >= MaxUnmatched) /\ name \notin Range(unmatched)
        BY <1>2 DEF Reported
    <2>2. PICK r \in Seq(Seq(Symbols)) : r = Append(unmatched, name)
        BY AppendProperties
    <2>3. /\ Len(r) = Len(unmatched) + 1 /\ r[Len(unmatched) + 1] = name
          /\ \A i \in 1..Len(unmatched) : r[i] = unmatched[i]
          /\ Len(unmatched) \in Nat /\ MaxUnmatched \in Nat
        BY <2>2, ShellAssumption
    <2>4. \A i \in DOMAIN r : i \in 1..Len(unmatched) \/ i = Len(unmatched) + 1
        BY <2>2, <2>3
    <2>5. \A i \in 1..Len(unmatched) : r[i] # name /\ r[i] \notin Keys
        <3>1. DOMAIN unmatched = 1..Len(unmatched)
            OBVIOUS
        <3>2. \A i \in 1..Len(unmatched) : unmatched[i] \in Range(unmatched)
            BY <3>1 DEF Range
        <3> QED
            BY <2>1, <2>3, <3>2 DEF NamesInv
    <2>6. \A i, j \in DOMAIN r : r[i] = r[j] => i = j
        <3>1. \A i, j \in 1..Len(unmatched) : unmatched[i] = unmatched[j] => i = j
            BY DEF NamesInv
        <3> QED
            BY <2>3, <2>4, <2>5, <3>1
    <2>7. Range(r) \cap Keys = {}
        BY <2>3, <2>4, <2>5 DEF Range
    <2>8. Len(r) <= MaxUnmatched
        BY <2>1, <2>3
    <2> QED
        BY <2>1, <2>2, <2>6, <2>7, <2>8
<1> QED
    BY <1>1, <1>2

\* A symbol that is nothing to the shell is copied, a tag's name reported.
LEMMA PassOnInv == ASSUME Inv, PassOn PROVE Inv'
<1>1. /\ status = "scanning" /\ at < Len(Text) /\ ~KeyTagAt(Text, at) /\ ~Pair /\ ~Quotes
      /\ out' = out \o SubSeq(Text, at + 1, at + 1) /\ at' = at + 1
      /\ UNCHANGED <<kind, texts, quote, translated, count, status>>
    BY DEF PassOn, Plain, Copy
<1>2. PICK c : c = Text[at + 1]
    OBVIOUS
<1>3. Escape # Single /\ Single # Double /\ Escape # Double
    BY ShellAssumption
<1>4. /\ Append(out, c) = out \o SubSeq(Text, at + 1, at + 1)
      /\ Len(Append(out, c)) = Len(out) + 1
      /\ Scanned(kind, Append(out, c), Text, at + 1)
      /\ Lexed(kind, Append(out, c))[Len(out) + 1] = Read(kind, [quote |-> quote, escaped |-> FALSE], c)
      /\ ReferencesIn(Len(translated) + 1, Append(out, c)) = ReferencesIn(Len(translated) + 1, out)
    BY <1>1, <1>2, CopyHere
<1>5. /\ TypeInv /\ quote \in QuoteStates /\ at \in Nat /\ Len(Text) \in Nat
      /\ IsFiniteSet(AllReferences) /\ count = Cardinality(AllReferences)
      /\ unmatched \in Seq(Seq(Symbols)) /\ NamesInv /\ Text \in Seq(Symbols)
    BY <1>1, Place
<1>6. Scanned(kind, out', Text, at')
    BY <1>1, <1>4
<1>7. ReadsAlike'
    <2> SUFFICES ASSUME at + 1 < Len(Text)
                 PROVE  Read(kind, [quote |-> quote, escaped |-> FALSE], c) = [quote |-> quote, escaped |-> FALSE]
        BY <1>1, <1>4 DEF ReadsAlike, Text
    <2>1. at + 1 <= Len(Text) /\ at + 2 <= Len(Text)
        BY <1>5
    <2>2. CASE kind \in {"posix", "powershell"}
        <3>1. ~(c = Escape /\ quote # "single")
            BY <2>1, <2>2, <1>1, <1>2 DEF Pair, Escapes, Ahead
        <3>2. ~(c = Single /\ quote # "double")
            BY <2>1, <2>2, <1>1, <1>2, <1>5 DEF Quotes, Opens, Closes, Ahead, QuoteStates
        <3>3. ~(c = Double /\ quote # "single")
            BY <2>1, <2>2, <1>1, <1>2, <1>5 DEF Quotes, Opens, Closes, Ahead, QuoteStates
        <3> QED
            BY <3>1, <3>2, <3>3 DEF Read
    <2>3. CASE kind \notin {"posix", "powershell"}
        BY <2>3 DEF Read
    <2> QED
        BY <2>2, <2>3
<1>8. AllReferences' = AllReferences
    BY <1>1, <1>4 DEF AllReferences
<1>9. IsFiniteSet(AllReferences') /\ count' = Cardinality(AllReferences')
    BY <1>1, <1>5, <1>8
<1>10. unmatched' \in Seq(Seq(Symbols)) /\ NamesInv'
    <2>1. CASE \E e \in 0..Len(Text) : TagIn(Text, at, e)
        <3>1. PICK e \in 0..Len(Text) : TagIn(Text, at, e) /\ unmatched' = Reported(NameIn(Text, at, e))
            BY <2>1 DEF PassOn
        <3>2. PICK name : name = NameIn(Text, at, e)
            OBVIOUS
        <3>3. name \notin Keys
            BY <3>1, <3>2, <1>1 DEF KeyTagAt
        <3>4. name \in Seq(Symbols)
            <4>1. e \in Nat /\ e <= Len(Text) /\ at + 3 \in Nat /\ at + 3 >= 1
                BY <1>5
            <4> QED
                BY <4>1, <3>2, <1>5 DEF NameIn
        <3> QED
            BY <3>1, <3>2, <3>3, <3>4, <1>5, ReportedNames DEF NamesInv
    <2>2. CASE ~\E e \in 0..Len(Text) : TagIn(Text, at, e)
        <3>1. unmatched' = unmatched
            BY <2>2 DEF PassOn
        <3> QED
            BY <3>1, <1>5 DEF NamesInv
    <2> QED
        BY <2>1, <2>2
<1>11. quote' \in QuoteStates
    BY <1>1, <1>5
<1> QED
    BY <1>1, <1>6, <1>7, <1>9, <1>10, <1>11, ScanStep

\* A translation of all of a text restores to it, and leaves only escaped tags.
LEMMA WholeText ==
    ASSUME NEW shell, NEW s, NEW text, Scanned(shell, s, text, Len(text))
    PROVE  Restored(s) = text /\ LeftEscaped(shell, s)
<1>1. /\ s \in Seq(Cells) /\ text \in Seq(Symbols) /\ Restored(s) = SubSeq(text, 1, Len(text))
      /\ LeftBehind(shell, s, Rest(text, Len(text)))
    BY DEF Scanned
<1>2. SubSeq(text, 1, Len(text)) = text
    BY <1>1, SubSeqFull
<1>3. s \o Rest(text, Len(text)) = s
    <2>1. Rest(text, Len(text)) = <<>>
        <3>1. Len(text) \in Int /\ Len(text) + 1 \in Int /\ Len(text) < Len(text) + 1
            BY <1>1
        <3> QED
            BY <3>1, SubSeqEmpty DEF Rest
    <2> QED
        BY <1>1, <2>1, ConcatEmptySeq
<1>4. ASSUME NEW n \in 0..Len(s), KeyTagAt(s, n) PROVE Lexed(shell, s)[n].escaped
    <2>1. n + 2 <= Len(s)
        BY <1>4 DEF KeyTagAt, TagIn
    <2>2. n \in 0..(Len(s) - 1)
        BY <2>1, <1>1
    <2> QED
        BY <2>2, <1>1, <1>3, <1>4 DEF LeftBehind
<1> QED
    BY <1>1, <1>2, <1>4 DEF LeftEscaped

\* A text is translated as a whole, and the next one begun afresh.
LEMMA EndTextInv == ASSUME Inv, EndText PROVE Inv'
<1>1. /\ status = "scanning" /\ at = Len(Text) /\ translated' = Append(translated, out) /\ out' = <<>>
      /\ UNCHANGED <<kind, count, unmatched>>
      /\ \/ Len(texts) = 1 /\ status' = "done" /\ UNCHANGED <<texts, at, quote>>
         \/ /\ Len(texts) # 1 /\ texts' = Tail(texts) /\ at' = 0 /\ quote' = "none"
            /\ UNCHANGED status
    BY DEF EndText
<1>2. /\ TypeInv /\ TranslatedInv /\ NamesInv /\ Scanned(kind, out, Text, at)
      /\ IsFiniteSet(AllReferences) /\ count = Cardinality(AllReferences)
    BY <1>1 DEF Inv
<1>3. /\ texts \in Seq(Seq(Symbols)) /\ texts # <<>> /\ out \in Seq(Cells)
      /\ translated \in Seq(Seq(Cells))
    BY <1>2 DEF TypeInv
<1>4. PICK tt \in Seq(Seq(Cells)) : tt = Append(translated, out)
    BY <1>3, AppendProperties
<1>5. /\ Len(tt) = Len(translated) + 1 /\ tt[Len(tt)] = out /\ Len(translated) \in Nat
      /\ \A i \in 1..Len(translated) : tt[i] = translated[i]
      /\ DOMAIN tt = (DOMAIN translated) \cup {Len(tt)} /\ DOMAIN translated = 1..Len(translated)
    BY <1>3, <1>4
<1>6. Restored(out) = Text /\ LeftEscaped(kind, out) /\ Expands(kind, out)
    BY <1>1, <1>2, WholeText DEF Scanned
<1>7. /\ texts' \in Seq(Seq(Symbols)) /\ texts' # <<>>
      /\ at' \in 0..Len(Text') /\ quote' \in QuoteStates /\ status' \in {"scanning", "done", "refused"}
      /\ Text' \in Seq(Symbols)
    <2>1. CASE status' = "done" /\ UNCHANGED <<texts, at, quote>>
        <3>1. Text' = Text
            BY <2>1 DEF Text
        <3> QED
            BY <2>1, <3>1, <1>2, <1>3, TextType DEF TypeInv
    <2>2. CASE Len(texts) # 1 /\ texts' = Tail(texts) /\ at' = 0 /\ quote' = "none" /\ UNCHANGED status
        <3>1. PICK uu : uu = Tail(texts)
            OBVIOUS
        <3>2. uu \in Seq(Seq(Symbols)) /\ Len(uu) = Len(texts) - 1 /\ Len(texts) \in Nat /\ Len(texts) # 0
            BY <3>1, <1>3
        <3>3. uu # <<>> /\ Head(uu) \in Seq(Symbols)
            BY <2>2, <3>2
        <3>4. Text' = Head(uu)
            BY <2>2, <3>1 DEF Text
        <3>5. 0 \in 0..Len(Head(uu))
            BY <3>3
        <3> QED
            BY <2>2, <3>1, <3>2, <3>3, <3>4, <3>5, <1>1 DEF QuoteStates
    <2> QED
        BY <1>1, <2>1, <2>2
<1>8. TypeInv'
    <2>1. out' \in Seq(Cells) /\ translated' \in Seq(Seq(Cells))
        BY <1>1, <1>4
    <2> QED
        BY <2>1, <1>1, <1>2, <1>7 DEF TypeInv
<1>9. status' # "done" => Scanned(kind', out', Text', at')
    BY <1>1, <1>7, ScannedEmpty
<1>10. ReadsAlike'
    BY <1>1, <1>7, ScannedEmpty DEF ReadsAlike
<1>11. TranslatedInv'
    <2>1. \A i \in DOMAIN tt : Expands(kind, tt[i]) /\ LeftEscaped(kind, tt[i])
        BY <1>2, <1>5, <1>6 DEF TranslatedInv
    <2>2. status' = "done" => Restored(tt[Len(tt)]) = Text'
        BY <1>1, <1>5, <1>6 DEF Text
    <2>3. tt # <<>>
        BY <1>5
    <2> QED
        BY <2>1, <2>2, <2>3, <1>1, <1>4 DEF TranslatedInv
<1>12. AllReferences' = AllReferences
    <2>1. UNION {ReferencesIn(i, tt[i]) : i \in DOMAIN tt} =
              (UNION {ReferencesIn(i, translated[i]) : i \in DOMAIN translated})
                  \cup ReferencesIn(Len(translated) + 1, out)
        BY <1>5
    <2>2. ReferencesIn(Len(tt) + 1, <<>>) = {}
        BY DEF ReferencesIn
    <2> QED
        BY <2>1, <2>2, <1>1, <1>4 DEF AllReferences
<1>13. NamesInv' /\ RefusedRightly'
    BY <1>1, <1>2 DEF NamesInv, RefusedRightly
<1> QED
    BY <1>1, <1>2, <1>8, <1>9, <1>10, <1>11, <1>12, <1>13 DEF Inv

-----------------------------------------------------------------------------
\* Every reachable state satisfies the invariant.
THEOREM ScanInvariant == Spec => []Inv
<1>1. Init => Inv
    BY InitInv
<1>2. Inv /\ [Next]_vars => Inv'
    <2> SUFFICES ASSUME Inv, [Next]_vars PROVE Inv'
        OBVIOUS
    <2>1. CASE UNCHANGED vars
        BY <2>1 DEF vars, Inv, TypeInv, ReadsAlike, TranslatedInv, NamesInv, RefusedRightly, AllReferences, Text
    <2> QED
        BY <2>1, CopyPairInv, CopyQuoteInv, RewriteTagInv, RefuseInv, PassOnInv, EndTextInv DEF Next
<1> QED
    BY <1>1, <1>2, PTL DEF Spec

\* The references put into a command stand where its shell expands them.
THEOREM ReferencesExpand == Spec => []RewritesExpand
<1>1. Inv => RewritesExpand
    BY DEF Inv, TranslatedInv, RewritesExpand
<1> QED
    BY <1>1, ScanInvariant, PTL

\* Only a tag that its shell would not expand is refused.
THEOREM OnlyUnsafeRefused == Spec => []RefusedRightly
<1>1. Inv => RefusedRightly
    BY DEF Inv
<1> QED
    BY <1>1, ScanInvariant, PTL

\* Nothing but tags of keys is changed, each counted, and what is reported is no key.
THEOREM TagsOnly == Spec => []OnlyTagsChange
<1>1. Inv => OnlyTagsChange
    <2> SUFFICES ASSUME Inv PROVE OnlyTagsChange
        OBVIOUS
    <2>1. TranslatedInv /\ NamesInv /\ count = Cardinality(AllReferences)
        BY DEF Inv
    <2>2. status = "done" =>
              AllReferences = UNION {ReferencesIn(i, translated[i]) : i \in DOMAIN translated}
        BY <2>1 DEF AllReferences, TranslatedInv, ReferencesIn
    <2> QED
        BY <2>1, <2>2 DEF OnlyTagsChange, TranslatedInv, NamesInv
<1> QED
    BY <1>1, ScanInvariant, PTL
=============================================================================
