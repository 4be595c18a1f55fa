--------------------------- MODULE SequenceFacts ---------------------------
(***************************************************************************)
(* What the sequence operators that the models use compute, for sequences  *)
(* of any length.  The library's induction theorems are about predicates;  *)
(* induction here is on sets of numbers, which the provers can instantiate.*)
(***************************************************************************)
EXTENDS SequencesExt, SequenceTheorems, FiniteSetTheorems, TLAPS

LessOnNat == {ss \in Nat \X Nat : ss[1] < ss[2]}

\* A set of numbers that has 0 and with a number the next one has them all.
LEMMA Induction ==
    ASSUME NEW T, 0 \in T, \A n \in Nat : n \in T => n + 1 \in T
    PROVE  \A n \in Nat : n \in T
<1> DEFINE U == {n \in Nat : n \notin T}
<1>1. SUFFICES ASSUME U # {} PROVE FALSE
    OBVIOUS
<1>2. PICK m \in U : \A n \in U : <<n, m>> \notin LessOnNat
    <2>1. IsWellFoundedOn(LessOnNat, Nat)
        BY NatLessThanWellFounded DEF OpToRel, LessOnNat
    <2>2. U \subseteq Nat
        OBVIOUS
    <2> HIDE DEF U
    <2> QED
        BY <1>1, <2>1, <2>2, WFMin
<1>3. m # 0 /\ m - 1 \in Nat
    OBVIOUS
<1>4. m - 1 \in U /\ <<m - 1, m>> \in LessOnNat
    BY <1>3 DEF LessOnNat
<1> QED
    BY <1>2, <1>4

\* The same up to a bound, and from there on down.
LEMMA BoundedInduction ==
    ASSUME NEW n \in Nat, NEW T, 0 \in T, \A i \in 1..n : i - 1 \in T => i \in T
    PROVE  \A i \in 0..n : i \in T
<1> DEFINE U == {i \in Nat : i <= n => i \in T}
<1>1. 0 \in U /\ \A i \in Nat : i \in U => i + 1 \in U
    <2> SUFFICES ASSUME NEW i \in Nat, i \in U, i + 1 <= n PROVE i + 1 \in T
        OBVIOUS
    <2>1. i + 1 \in 1..n /\ (i + 1) - 1 = i
        OBVIOUS
    <2> QED
        BY <2>1
<1> HIDE DEF U
<1>2. \A i \in Nat : i \in U
    BY <1>1, Induction
<1> QED
    BY <1>2 DEF U

\* f starts with x0 and computes each value from the one before.
Iterates(X, x0, step, n, f) ==
    /\ f \in [0..n -> X] /\ f[0] = x0
    /\ \A i \in 1..n : f[i] = step[i][f[i - 1]]

\* Such a function there is.
LEMMA Recursion ==
    ASSUME NEW X, NEW x0 \in X, NEW step \in [Nat -> [X -> X]], NEW n \in Nat
    PROVE  \E f : Iterates(X, x0, step, n, f)
<1>1. PICK T : T = {m \in Nat : \E f : Iterates(X, x0, step, m, f)}
    OBVIOUS
<1>2. 0 \in T
    <2>1. Iterates(X, x0, step, 0, [i \in 0..0 |-> x0])
        BY DEF Iterates
    <2> QED
        BY <2>1, <1>1
<1>3. ASSUME NEW m \in Nat, m \in T PROVE m + 1 \in T
    <2>1. PICK f : Iterates(X, x0, step, m, f)
        BY <1>1, <1>3
    <2> DEFINE g == [i \in 0..(m + 1) |-> IF i = m + 1 THEN step[m + 1][f[m]] ELSE f[i]]
    <2>2. f[m] \in X /\ step[m + 1][f[m]] \in X
        BY <2>1 DEF Iterates
    <2>3. g \in [0..(m + 1) -> X] /\ g[0] = x0
        BY <2>1, <2>2 DEF Iterates
    <2>4. ASSUME NEW i \in 1..(m + 1) PROVE g[i] = step[i][g[i - 1]]
        <3>1. CASE i = m + 1
            BY <3>1
        <3>2. CASE i # m + 1
            <4>1. i \in 1..m /\ i - 1 \in 0..m /\ i - 1 # m + 1
                BY <3>2
            <4>2. g[i] = f[i] /\ g[i - 1] = f[i - 1]
                BY <4>1
            <4> QED
                BY <4>1, <4>2, <2>1 DEF Iterates
        <3> QED
            BY <3>1, <3>2
    <2> HIDE DEF g
    <2>5. Iterates(X, x0, step, m + 1, g)
        BY <2>3, <2>4 DEF Iterates
    <2> QED
        BY <2>5, <1>1
<1>4. n \in T
    BY <1>2, <1>3, Induction
<1> QED
    BY <1>1, <1>4

-----------------------------------------------------------------------------
\* f[i] is the concatenation of the first i sequences of ss.
Sums(ss, f, X) ==
    /\ f \in [0..Len(ss) -> Seq(X)] /\ f[0] = <<>>
    /\ \A i \in 1..Len(ss) : f[i] = f[i - 1] \o ss[i]

\* One step of such a concatenation, with its types.
LEMMA SumsStep ==
    ASSUME NEW X, NEW ss \in Seq(Seq(X)), NEW f, Sums(ss, f, X), NEW i \in 1..Len(ss)
    PROVE  f[i - 1] \in Seq(X) /\ ss[i] \in Seq(X) /\ f[i] = f[i - 1] \o ss[i]
<1>1. i - 1 \in 0..Len(ss)
    OBVIOUS
<1>2. f[i - 1] \in Seq(X) /\ f[i] = f[i - 1] \o ss[i]
    BY <1>1 DEF Sums
<1>3. ss[i] \in Seq(X)
    BY ElementOfSeq
<1> QED
    BY <1>2, <1>3

\* FlattenSeq puts the sequences one behind the other.
LEMMA FlattenSums ==
    ASSUME NEW X, NEW ss \in Seq(Seq(X))
    PROVE  \E f : Sums(ss, f, X) /\ FlattenSeq(ss) = f[Len(ss)]
<1>1. PICK n \in Nat : n = Len(ss)
    OBVIOUS
<1>2. PICK Y : Y = Seq(X)
    OBVIOUS
<1>3. <<>> \in Y /\ (\A i \in 1..n : ss[i] \in Y) /\ \A s, t \in Y : s \o t \in Y
    BY <1>1, <1>2
<1>4. PICK f \in [0..n -> Y] : f[0] = <<>> /\ \A i \in 1..n : f[i] = f[i - 1] \o ss[i]
    <2>1. PICK step \in [Nat -> [Y -> Y]] :
             \A s \in Y, i \in Nat : step[i][s] = IF i \in 1..n THEN s \o ss[i] ELSE s
        <3> DEFINE step == [i \in Nat |-> [s \in Y |-> IF i \in 1..n THEN s \o ss[i] ELSE s]]
        <3>1. step \in [Nat -> [Y -> Y]]
            BY <1>3
        <3>2. \A s \in Y, i \in Nat : step[i][s] = IF i \in 1..n THEN s \o ss[i] ELSE s
            OBVIOUS
        <3> HIDE DEF step
        <3> QED
            BY <3>1, <3>2
    <2>2. PICK f : Iterates(Y, <<>>, step, n, f)
        BY <1>3, Recursion
    <2>3. ASSUME NEW i \in 1..n PROVE f[i] = f[i - 1] \o ss[i]
        <3>1. i - 1 \in 0..n /\ i \in Nat
            OBVIOUS
        <3>2. f[i - 1] \in Y
            BY <2>2, <3>1 DEF Iterates
        <3> QED
            BY <2>1, <2>2, <3>1, <3>2 DEF Iterates
    <2> QED
        BY <2>2, <2>3 DEF Iterates
<1>5. Sums(ss, f, X)
    BY <1>1, <1>2, <1>4 DEF Sums
<1>6. FlattenSeq(ss) = f[n]
    <2>1. CASE n = 0
        <3>1. ss = <<>>
            BY <2>1, <1>1
        <3> QED
            BY <2>1, <3>1, <1>4 DEF FlattenSeq
    <2>2. CASE n # 0
        <3> DEFINE Solves(g) == g = [i \in 1..n |-> IF i = 1 THEN ss[i] ELSE g[i - 1] \o ss[i]]
                   h == [i \in 1..n |-> f[i]]
                   g == CHOOSE x : Solves(x)
        <3>1. f[1] = ss[1]
            <4>1. f[1] = f[0] \o ss[1] /\ f[0] = <<>>
                <5>1. 1 \in 1..n /\ 1 - 1 = 0
                    BY <2>2
                <5> QED
                    BY <5>1, <1>4
            <4>2. ss[1] \in Seq(X)
                BY <1>2, <1>3, <2>2
            <4> QED
                BY <4>1, <4>2, ConcatEmptySeq
        <3>2. \A i \in 1..n : h[i] = IF i = 1 THEN ss[i] ELSE h[i - 1] \o ss[i]
            <4> SUFFICES ASSUME NEW i \in 1..n, i # 1 PROVE f[i] = h[i - 1] \o ss[i]
                BY <3>1
            <4>1. i - 1 \in 1..n
                OBVIOUS
            <4> QED
                BY <4>1, <1>4
        <3>3. Solves(h)
            BY <3>2
        <3> HIDE DEF h
        <3>4. Solves(g)
            <4> HIDE DEF Solves
            <4> QED
                BY <3>3
        <3>5. FlattenSeq(ss) = g[n]
            BY <1>1, <2>2 DEF FlattenSeq
        <3> HIDE DEF g
        <3>6. PICK T : T = {i \in Nat : i \in 1..n => g[i] = f[i]}
            OBVIOUS
        <3>7. 0 \in T
            BY <3>6
        <3>8. ASSUME NEW i \in 1..n, i - 1 \in T PROVE i \in T
            <4>1. g[i] = IF i = 1 THEN ss[i] ELSE g[i - 1] \o ss[i]
                BY <3>4
            <4>2. CASE i = 1
                BY <4>1, <4>2, <3>1, <3>6
            <4>3. CASE i # 1
                <5>1. i - 1 \in 1..n
                    BY <4>3
                <5> QED
                    BY <5>1, <4>1, <4>3, <1>4, <3>6, <3>8
            <4> QED
                BY <4>2, <4>3
        <3>9. \A i \in 0..n : i \in T
            BY <3>7, <3>8, BoundedInduction
        <3>10. n \in 0..n /\ n \in 1..n
            BY <2>2
        <3> QED
            BY <3>5, <3>6, <3>9, <3>10
    <2> QED
        BY <2>1, <2>2
<1> QED
    BY <1>1, <1>5, <1>6

\* ss and tt begin with the same n elements.
SameUpTo(n, ss, tt) ==
    n \in Nat /\ n <= Len(ss) /\ n <= Len(tt) /\ \A i \in 1..n : ss[i] = tt[i]

\* Equal beginnings have equal sums.
LEMMA SumsAgree ==
    ASSUME NEW X, NEW ss \in Seq(Seq(X)), NEW tt \in Seq(Seq(X)), NEW f, NEW g, NEW n,
           Sums(ss, f, X), Sums(tt, g, X), SameUpTo(n, ss, tt)
    PROVE  f[n] = g[n]
<1>1. PICK T : T = {i \in Nat : f[i] = g[i]}
    OBVIOUS
<1>2. 0 \in T
    BY <1>1 DEF Sums
<1>3. ASSUME NEW i \in 1..n, i - 1 \in T PROVE i \in T
    <2>1. i \in 1..Len(ss) /\ i \in 1..Len(tt)
        BY DEF SameUpTo
    <2>2. f[i] = f[i - 1] \o ss[i] /\ g[i] = g[i - 1] \o tt[i]
        BY <2>1 DEF Sums
    <2>3. f[i - 1] = g[i - 1] /\ ss[i] = tt[i]
        BY <1>1, <1>3 DEF SameUpTo
    <2>4. f[i] = g[i]
        BY <2>2, <2>3, Zenon
    <2> QED
        BY <2>4, <1>1
<1>4. \A i \in 0..n : i \in T
    BY <1>2, <1>3, BoundedInduction DEF SameUpTo
<1> QED
    BY <1>1, <1>4 DEF SameUpTo

\* The whole is a sequence over what the parts are sequences over.
LEMMA FlattenType ==
    ASSUME NEW X, NEW ss \in Seq(Seq(X))
    PROVE  FlattenSeq(ss) \in Seq(X)
<1>1. PICK f : Sums(ss, f, X) /\ FlattenSeq(ss) = f[Len(ss)]
    BY FlattenSums
<1>2. Len(ss) \in 0..Len(ss)
    OBVIOUS
<1> QED
    BY <1>1, <1>2 DEF Sums

\* No sequences make the empty one.
LEMMA FlattenEmpty == FlattenSeq(<<>>) = <<>>
    BY DEF FlattenSeq

\* What is put behind the last sequence is put behind the whole.
LEMMA FlattenAppend ==
    ASSUME NEW X, NEW ss \in Seq(Seq(X)), NEW s \in Seq(X)
    PROVE  FlattenSeq(Append(ss, s)) = FlattenSeq(ss) \o s
<1>1. PICK tt \in Seq(Seq(X)) : tt = Append(ss, s)
    BY AppendProperties
<1>2. /\ Len(tt) = Len(ss) + 1 /\ tt[Len(ss) + 1] = s
      /\ \A i \in 1..Len(ss) : ss[i] = tt[i]
    BY <1>1
<1>3. PICK f : Sums(ss, f, X) /\ FlattenSeq(ss) = f[Len(ss)]
    BY FlattenSums
<1>4. PICK g : Sums(tt, g, X) /\ FlattenSeq(tt) = g[Len(tt)]
    BY FlattenSums
<1>5. f[Len(ss)] = g[Len(ss)]
    <2>1. SameUpTo(Len(ss), ss, tt)
        BY <1>2 DEF SameUpTo
    <2> QED
        BY <1>3, <1>4, <2>1, SumsAgree
<1>6. Len(tt) \in 1..Len(tt) /\ Len(tt) - 1 = Len(ss)
    BY <1>2
<1>7. g[Len(tt)] = g[Len(ss)] \o s
    BY <1>2, <1>4, <1>6 DEF Sums
<1> QED
    BY <1>1, <1>3, <1>4, <1>5, <1>7

\* What is in the parts is in the whole, and nothing else.
LEMMA FlattenRange ==
    ASSUME NEW X, NEW ss \in Seq(Seq(X))
    PROVE  Range(FlattenSeq(ss)) = UNION {Range(ss[i]) : i \in 1..Len(ss)}
<1>1. PICK f : Sums(ss, f, X) /\ FlattenSeq(ss) = f[Len(ss)]
    BY FlattenSums
<1>2. PICK n \in Nat : n = Len(ss)
    OBVIOUS
<1>3. PICK T : T = {i \in 0..n : Range(f[i]) = UNION {Range(ss[j]) : j \in 1..i}}
    OBVIOUS
<1>4. 0 \in T
    <2>1. f[0] = <<>>
        BY <1>1 DEF Sums
    <2>2. Range(f[0]) = {}
        BY <2>1 DEF Range
    <2> QED
        BY <1>3, <2>2
<1>5. ASSUME NEW i \in 1..n, i - 1 \in T PROVE i \in T
    <2>1. f[i] = f[i - 1] \o ss[i] /\ f[i - 1] \in Seq(X) /\ ss[i] \in Seq(X)
        BY <1>1, <1>2, SumsStep
    <2>2. Range(f[i]) = Range(f[i - 1]) \cup Range(ss[i])
        BY <2>1, RangeConcatenation
    <2>3. Range(f[i - 1]) = UNION {Range(ss[j]) : j \in 1..(i - 1)}
        BY <1>3, <1>5
    <2>4. 1..i = (1..(i - 1)) \cup {i}
        OBVIOUS
    <2>5. Range(f[i]) = UNION {Range(ss[j]) : j \in 1..i}
        BY <2>2, <2>3, <2>4
    <2> QED
        BY <2>5, <1>3
<1>6. \A i \in 0..n : i \in T
    BY <1>4, <1>5, BoundedInduction
<1>7. n \in T
    BY <1>6
<1>8. Range(f[n]) = UNION {Range(ss[i]) : i \in 1..n}
    BY <1>3, <1>7
<1> QED
    BY <1>1, <1>2, <1>8

\* Each element of s is related by R to the ones behind it.
Follows(s, R) == \A i, j \in 1..Len(s) : i < j => <<s[i], s[j]>> \in R

\* Each element of s is related by R to each of t.
Joins(s, t, R) == \A i \in 1..Len(s), j \in 1..Len(t) : <<s[i], t[j]>> \in R

\* The order holds in two sequences joined, if in each and between them.
LEMMA ConcatFollows ==
    ASSUME NEW X, NEW s \in Seq(X), NEW t \in Seq(X), NEW R,
           Follows(s, R), Follows(t, R), Joins(s, t, R)
    PROVE  Follows(s \o t, R)
<1> SUFFICES ASSUME NEW i \in 1..Len(s \o t), NEW j \in 1..Len(s \o t), i < j
             PROVE  <<(s \o t)[i], (s \o t)[j]>> \in R
    BY DEF Follows
<1>1. /\ Len(s \o t) = Len(s) + Len(t)
      /\ \A k \in 1..(Len(s) + Len(t)) : (s \o t)[k] = IF k <= Len(s) THEN s[k] ELSE t[k - Len(s)]
      /\ Len(s) \in Nat /\ Len(t) \in Nat
    BY ConcatProperties
<1>2. CASE j <= Len(s)
    BY <1>1, <1>2 DEF Follows
<1>3. CASE i > Len(s)
    <2>1. i - Len(s) \in 1..Len(t) /\ j - Len(s) \in 1..Len(t) /\ i - Len(s) < j - Len(s)
        BY <1>1, <1>3
    <2>2. (s \o t)[i] = t[i - Len(s)] /\ (s \o t)[j] = t[j - Len(s)]
        BY <1>1, <1>3
    <2> QED
        BY <2>1, <2>2 DEF Follows
<1>4. CASE i <= Len(s) /\ j > Len(s)
    <2>1. i \in 1..Len(s) /\ j - Len(s) \in 1..Len(t)
        BY <1>1, <1>4
    <2>2. (s \o t)[i] = s[i] /\ (s \o t)[j] = t[j - Len(s)]
        BY <1>1, <1>4
    <2> QED
        BY <2>1, <2>2 DEF Joins
<1>5. i \in Int /\ j \in Int /\ Len(s) \in Int
    BY <1>1
<1>6. j <= Len(s) \/ i > Len(s) \/ (i <= Len(s) /\ j > Len(s))
    BY <1>5
<1> QED
    BY ONLY <1>2, <1>3, <1>4, <1>6

\* Two sequences that precede a third precede it joined.
LEMMA ConcatJoins ==
    ASSUME NEW X, NEW s \in Seq(X), NEW t \in Seq(X), NEW u, NEW R,
           Joins(s, u, R), Joins(t, u, R)
    PROVE  Joins(s \o t, u, R)
<1> SUFFICES ASSUME NEW i \in 1..Len(s \o t), NEW j \in 1..Len(u)
             PROVE  <<(s \o t)[i], u[j]>> \in R
    BY DEF Joins
<1>1. /\ Len(s \o t) = Len(s) + Len(t) /\ Len(s) \in Nat /\ Len(t) \in Nat
      /\ (s \o t)[i] = IF i <= Len(s) THEN s[i] ELSE t[i - Len(s)]
    BY ConcatProperties
<1>2. CASE i <= Len(s)
    BY <1>1, <1>2 DEF Joins
<1>3. CASE i > Len(s)
    <2>1. i - Len(s) \in 1..Len(t)
        BY <1>1, <1>3
    <2> QED
        BY <1>1, <1>3, <2>1 DEF Joins
<1> QED
    BY <1>1, <1>2, <1>3

\* The order holds in the whole, if in each part and between any two.
LEMMA FlattenFollows ==
    ASSUME NEW X, NEW ss \in Seq(Seq(X)), NEW R,
           \A i \in 1..Len(ss) : Follows(ss[i], R),
           \A i, j \in 1..Len(ss) : i < j => Joins(ss[i], ss[j], R)
    PROVE  Follows(FlattenSeq(ss), R)
<1>1. PICK f : Sums(ss, f, X) /\ FlattenSeq(ss) = f[Len(ss)]
    BY FlattenSums
<1>2. PICK n \in Nat : n = Len(ss)
    OBVIOUS
<1>3. PICK T : T = {i \in 0..n : Follows(f[i], R) /\ \A j \in (i + 1)..n : Joins(f[i], ss[j], R)}
    OBVIOUS
<1>4. 0 \in T
    <2>1. f[0] = <<>>
        BY <1>1 DEF Sums
    <2> QED
        BY <1>3, <2>1 DEF Follows, Joins
<1>5. ASSUME NEW i \in 1..n, i - 1 \in T PROVE i \in T
    <2>1. f[i] = f[i - 1] \o ss[i] /\ f[i - 1] \in Seq(X) /\ ss[i] \in Seq(X)
        BY <1>1, <1>2, SumsStep
    <2>2. /\ Follows(f[i - 1], R) /\ \A j \in i..n : Joins(f[i - 1], ss[j], R)
        BY <1>3, <1>5
    <2>3. Follows(ss[i], R) /\ Joins(f[i - 1], ss[i], R)
        BY <2>2, <1>2
    <2>4. Follows(f[i], R)
        BY <2>1, <2>2, <2>3, ConcatFollows
    <2>5. ASSUME NEW j \in (i + 1)..n PROVE Joins(f[i], ss[j], R)
        <3>1. Joins(f[i - 1], ss[j], R) /\ Joins(ss[i], ss[j], R)
            BY <2>2, <1>2
        <3> QED
            BY <2>1, <3>1, ConcatJoins
    <2> QED
        BY <2>4, <2>5, <1>3
<1>6. \A i \in 0..n : i \in T
    BY <1>4, <1>5, BoundedInduction
<1> QED
    BY <1>1, <1>2, <1>3, <1>6

-----------------------------------------------------------------------------
\* SetToSeq lists the elements of a finite set, each once.
LEMMA SetToSeqFacts ==
    ASSUME NEW S, IsFiniteSet(S)
    PROVE  /\ Cardinality(S) \in Nat
           /\ SetToSeq(S) \in [1..Cardinality(S) -> S]
           /\ \A i, j \in 1..Cardinality(S) : SetToSeq(S)[i] = SetToSeq(S)[j] => i = j
           /\ \A x \in S : \E i \in 1..Cardinality(S) : SetToSeq(S)[i] = x
<1>1. Cardinality(S) \in Nat /\ ExistsBijection(1..Cardinality(S), S)
    BY FS_CardinalityType
<1>2. PICK n \in Nat : n = Cardinality(S)
    BY <1>1
<1>3. \E f \in [1..n -> S] : IsInjective(f)
    BY <1>1, <1>2 DEF ExistsBijection, Bijection, Injection
<1>4. PICK f : f = SetToSeq(S)
    OBVIOUS
<1>5. f \in [1..n -> S] /\ IsInjective(f)
    BY <1>2, <1>3, <1>4 DEF SetToSeq
<1>6. f \in Injection(1..n, S)
    BY <1>5 DEF Injection
<1>7. IsFiniteSet(1..n) /\ Cardinality(1..n) = n
    BY FS_Interval
<1>8. f \in Surjection(1..n, S)
    BY <1>2, <1>6, <1>7, FS_Injection
<1> QED
    BY <1>2, <1>4, <1>5, <1>8 DEF Surjection, IsInjective
=============================================================================
