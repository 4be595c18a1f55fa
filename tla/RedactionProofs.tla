-------------------------- MODULE RedactionProofs --------------------------
(***************************************************************************)
(* Proofs of Redaction.  A text is redacted element by element: Piece says *)
(* what becomes of each when the values of the first n entries are         *)
(* replaced, and Whole(s, n) joins them.  When no value begins where       *)
(* another ends Redact is Whole for all the entries (RedactText), so a text*)
(* may be cut where no value lies across (PiecesThen), which is where the  *)
(* emit point and the capture limit cut it (SafePoint).  Encoded text is   *)
(* decoded unit by unit from any beginning of its bytes (WidePart,         *)
(* PlainPart).  The invariant says how much of the text is emitted, held   *)
(* and not decoded yet.                                                    *)
(***************************************************************************)
EXTENDS Redaction, SequenceFacts

-----------------------------------------------------------------------------
(***************************************************************************)
(* The entries: the long values, sorted.                                   *)
(***************************************************************************)
LEMMA PlaceOf ==
    ASSUME NEW k \in Keys
    PROVE  Place(k) \in 1..Len(Secrets) /\ Secrets[Place(k)] = k
<1>1. \E i \in DOMAIN Secrets : Secrets[i] = k
    BY DEF Keys, Range
<1>2. DOMAIN Secrets = 1..Len(Secrets)
    BY RedactionAssumption
<1> QED
    BY <1>1, <1>2 DEF Place

\* There are finitely many keys.
LEMMA KeysFinite == IsFiniteSet(Keys) /\ IsFiniteSet(Long)
<1>1. Len(Secrets) \in Nat /\ Secrets \in [1..Len(Secrets) -> Keys]
    BY RedactionAssumption
<1>2. \A k \in Keys : \E i \in 1..Len(Secrets) : Secrets[i] = k
    BY PlaceOf
<1>3. Secrets \in Surjection(1..Len(Secrets), Keys)
    BY <1>1, <1>2 DEF Surjection
<1>4. IsFiniteSet(1..Len(Secrets))
    BY <1>1, FS_Interval
<1>5. IsFiniteSet(Keys)
    BY <1>3, <1>4, FS_Surjection
<1>6. Long \in SUBSET Keys
    BY DEF Long
<1> QED
    BY <1>5, <1>6, FS_Subset

\* A long value is text and not empty.
LEMMA LongValue ==
    ASSUME NEW k \in Long
    PROVE  k \in Keys /\ Value[k] \in Seq(Symbols) /\ Len(Value[k]) \in Nat \ {0}
<1>1. k \in Keys /\ Len(Value[k]) >= MinLen
    BY DEF Long
<1>2. Value[k] \in Seq(Symbols) /\ MinLen \in Nat \ {0}
    BY <1>1, RedactionAssumption
<1>3. Len(Value[k]) \in Nat
    BY <1>2
<1> QED
    BY <1>1, <1>2, <1>3

\* Before orders the keys.
LEMMA BeforeOrders ==
    /\ \A k \in Long : ~Before(k, k)
    /\ \A j, k \in Long : j = k \/ Before(j, k) \/ Before(k, j)
    /\ \A i, j, k \in Long : Before(i, j) /\ Before(j, k) => Before(i, k)
<1>1. \A k \in Long : Len(Value[k]) \in Nat /\ Place(k) \in Nat /\ Secrets[Place(k)] = k
    BY LongValue, PlaceOf
<1>2. \A k \in Long : ~Before(k, k)
    BY <1>1 DEF Before
<1>3. \A j, k \in Long : j = k \/ Before(j, k) \/ Before(k, j)
    <2> SUFFICES ASSUME NEW j \in Long, NEW k \in Long, ~Before(j, k), ~Before(k, j)
                 PROVE  j = k
        OBVIOUS
    <2>1. Place(j) = Place(k)
        BY <1>1 DEF Before
    <2> QED
        BY <2>1, <1>1
<1>4. \A i, j, k \in Long : Before(i, j) /\ Before(j, k) => Before(i, k)
    BY <1>1 DEF Before
<1> QED
    BY <1>2, <1>3, <1>4

\* There is a sequence of the long values' keys that is sorted.
LEMMA SortedExists ==
    \E s \in SetToSeqs(Long) : \A i, j \in DOMAIN s : i < j => Before(s[i], s[j])
<1>1. PICK N \in Nat : N = Cardinality(Long) /\ IsFiniteSet(Long)
    BY KeysFinite, FS_CardinalityType
<1> DEFINE D(k) == {j \in Long : Before(j, k)}
           r == [k \in Long |-> Cardinality(D(k)) + 1]
<1>2. \A k \in Long : D(k) \in SUBSET Long /\ IsFiniteSet(D(k)) /\ Cardinality(D(k)) \in Nat
    BY <1>1, FS_Subset, FS_CardinalityType
<1>3. ASSUME NEW j \in Long, NEW k \in Long, Before(j, k) PROVE r[j] < r[k]
    <2>1. D(j) \in SUBSET D(k)
        BY <1>3, BeforeOrders
    <2>2. j \in D(k) /\ j \notin D(j)
        BY <1>3, BeforeOrders
    <2>3. Cardinality(D(j)) <= Cardinality(D(k)) /\ Cardinality(D(j)) # Cardinality(D(k))
        <3> HIDE DEF D
        <3> QED
            BY <2>1, <2>2, <1>2, FS_Subset
    <2> HIDE DEF D
    <2>4. r[j] = Cardinality(D(j)) + 1 /\ r[k] = Cardinality(D(k)) + 1
        OBVIOUS
    <2> QED
        BY <2>3, <2>4, <1>2
<1>4. ASSUME NEW k \in Long PROVE r[k] \in 1..N
    <2>1. k \in Long /\ k \notin D(k)
        BY <1>4, BeforeOrders
    <2>2. Cardinality(D(k)) <= N /\ Cardinality(D(k)) # N
        <3> HIDE DEF D
        <3> QED
            BY <2>1, <1>1, <1>2, FS_Subset
    <2> QED
        BY <2>2, <1>1, <1>2
<1> HIDE DEF D
<1>5. r \in [Long -> 1..N]
    BY <1>4
<1>6. \A j, k \in Long : r[j] < r[k] \/ r[k] < r[j] \/ j = k
    BY <1>3, BeforeOrders
<1>7. \A j, k \in Long : r[j] < r[k] => Before(j, k)
    <2> SUFFICES ASSUME NEW j \in Long, NEW k \in Long, r[j] < r[k], ~Before(j, k) PROVE FALSE
        OBVIOUS
    <2>1. j = k \/ Before(k, j)
        BY BeforeOrders
    <2>2. r[j] \in Nat /\ r[k] \in Nat
        BY <1>5
    <2> HIDE DEF r
    <2>3. CASE j = k
        BY <2>2, <2>3
    <2>4. CASE Before(k, j)
        BY <2>2, <2>4, <1>3
    <2> QED
        BY <2>1, <2>3, <2>4
<1> HIDE DEF r
<1>8. r \in Injection(Long, 1..N)
    BY <1>5, <1>6 DEF Injection, IsInjective
<1>9. IsFiniteSet(1..N) /\ Cardinality(1..N) = N
    BY FS_Interval, <1>1
<1>10. r \in Surjection(Long, 1..N)
    BY <1>1, <1>8, <1>9, FS_Injection
<1> DEFINE s == [n \in 1..N |-> CHOOSE k \in Long : r[k] = n]
<1>11. \A n \in 1..N : s[n] \in Long /\ r[s[n]] = n
    BY <1>10 DEF Surjection
<1>12. s \in [1..N -> Long] /\ DOMAIN s = 1..N
    BY <1>11
<1> HIDE DEF s
<1>13. s \in SetToSeqs(Long)
    BY <1>1, <1>11, <1>12 DEF SetToSeqs
<1>14. \A i, j \in 1..N : i < j => Before(s[i], s[j])
    BY <1>7, <1>11
<1> QED
    BY <1>12, <1>13, <1>14

\* The entries are the keys of the long values, each once, the longest first.
LEMMA EntriesFacts ==
    /\ Entries \in Seq(Long) /\ Len(Entries) \in Nat
    /\ \A i \in 1..Len(Entries) : Entries[i] \in Long
    /\ \A k \in Long : \E i \in 1..Len(Entries) : Entries[i] = k
    /\ \A i, j \in 1..Len(Entries) : i < j => Before(Entries[i], Entries[j])
<1>1. PICK N \in Nat : N = Cardinality(Long) /\ IsFiniteSet(Long)
    BY KeysFinite, FS_CardinalityType
<1>2. /\ Entries \in SetToSeqs(Long)
      /\ \A i, j \in DOMAIN Entries : i < j => Before(Entries[i], Entries[j])
    BY SortedExists DEF Entries
<1>3. Entries \in [1..N -> Long] /\ \A i, j \in 1..N : i # j => Entries[i] # Entries[j]
    BY <1>1, <1>2 DEF SetToSeqs
<1>4. Entries \in Injection(1..N, Long)
    BY <1>3 DEF Injection, IsInjective
<1>5. IsFiniteSet(1..N) /\ Cardinality(1..N) = N
    BY FS_Interval, <1>1
<1>6. Entries \in Surjection(1..N, Long)
    BY <1>1, <1>4, <1>5, FS_Injection
<1>7. Entries \in Seq(Long) /\ Len(Entries) = N /\ DOMAIN Entries = 1..N
    BY <1>3
<1>8. \A k \in Long : \E i \in 1..N : Entries[i] = k
    BY <1>6 DEF Surjection
<1> QED
    BY <1>1, <1>2, <1>3, <1>7, <1>8

\* What Range(Entries) is, and how long the values in it may be.
LEMMA LongestFirst ==
    /\ Range(Entries) = Long
    /\ MaxValueLen \in Nat /\ Keep \in Nat
    /\ \A k \in Long : Len(Value[k]) <= MaxValueLen /\ MaxValueLen = Keep + 1
    /\ \A i, j \in 1..Len(Entries) : i < j => Len(Value[Entries[j]]) <= Len(Value[Entries[i]])
<1>1. DOMAIN Entries = 1..Len(Entries)
    BY EntriesFacts
<1>2. Range(Entries) = Long
    BY <1>1, EntriesFacts DEF Range
<1>3. \A k \in Long : Len(Value[k]) \in Nat \ {0}
    BY LongValue
<1>4. \A i, j \in 1..Len(Entries) : i < j => Len(Value[Entries[j]]) <= Len(Value[Entries[i]])
    <2> SUFFICES ASSUME NEW i \in 1..Len(Entries), NEW j \in 1..Len(Entries), i < j
                 PROVE  Len(Value[Entries[j]]) <= Len(Value[Entries[i]])
        OBVIOUS
    <2>1. Before(Entries[i], Entries[j]) /\ Entries[i] \in Long /\ Entries[j] \in Long
        BY EntriesFacts
    <2> QED
        BY <2>1, <1>3 DEF Before
<1>5. CASE Entries = <<>>
    <2>1. Long = {}
        BY <1>5, EntriesFacts
    <2> QED
        BY <1>2, <1>4, <1>5, <2>1 DEF MaxValueLen, Keep
<1>6. CASE Entries # <<>>
    <2>1. 1 \in 1..Len(Entries) /\ Entries[1] \in Long
        BY <1>6, EntriesFacts
    <2>2. MaxValueLen = Len(Value[Entries[1]]) /\ MaxValueLen \in Nat \ {0}
        BY <1>3, <1>6, <2>1 DEF MaxValueLen
    <2>3. Keep = MaxValueLen - 1 /\ Keep \in Nat
        BY <2>2 DEF Keep
    <2>4. ASSUME NEW k \in Long PROVE Len(Value[k]) <= MaxValueLen
        <3>1. PICK i \in 1..Len(Entries) : Entries[i] = k
            BY EntriesFacts
        <3>2. i = 1 \/ 1 < i
            BY <3>1, EntriesFacts
        <3> QED
            BY <1>3, <1>4, <2>1, <2>2, <3>1, <3>2
    <2> QED
        BY <1>2, <1>4, <2>2, <2>3, <2>4
<1> QED
    BY <1>5, <1>6

\* There is a least number in a set of numbers.
LEMMA LeastNumber ==
    ASSUME NEW S, S \subseteq Nat, S # {}
    PROVE  \E n \in S : \A m \in S : n <= m
<1>1. IsWellFoundedOn(LessOnNat, Nat)
    BY NatLessThanWellFounded DEF OpToRel, LessOnNat
<1>2. PICK n \in S : \A m \in S : <<m, n>> \notin LessOnNat
    BY <1>1, WFMin
<1>3. ASSUME NEW m \in S PROVE n <= m
    <2>1. m \in Nat /\ n \in Nat
        OBVIOUS
    <2>2. m < n => <<m, n>> \in LessOnNat
        BY <2>1 DEF LessOnNat
    <2> QED
        BY <1>2, <2>1, <2>2
<1> QED
    BY <1>3

-----------------------------------------------------------------------------
(***************************************************************************)
(* Replacing one value, and one after the other.                           *)
(***************************************************************************)

\* f[i] is what becomes of s behind its first i elements.
Scans(s, v, m, X, f) ==
    /\ f \in [0..Len(s) -> Seq(X)]
    /\ \A i \in 0..Len(s) :
          f[i] = IF i = Len(s) THEN <<>>
                 ELSE IF OccursAt(s, v, i) THEN m \o f[i + Len(v)] ELSE <<s[i + 1]>> \o f[i + 1]

\* What a replacement makes is read off such a scan, from the left.
LEMMA ReplacedScan ==
    ASSUME NEW X, NEW s \in Seq(X), NEW v \in Seq(X), v # <<>>, NEW m \in Seq(X)
    PROVE  \E f : Scans(s, v, m, X, f) /\ Replaced(s, v, m) = f[0]
<1>1. PICK L \in Nat : L = Len(s)
    OBVIOUS
<1>2. PICK l \in Nat : l = Len(v) /\ l > 0
    BY EmptySeq
<1>3. PICK occ \in [0..L -> BOOLEAN] : \A i \in 0..L : occ[i] = OccursAt(s, v, i)
    <2> DEFINE occ == [i \in 0..L |-> OccursAt(s, v, i)]
    <2>1. occ \in [0..L -> BOOLEAN]
        BY DEF OccursAt
    <2> QED
        BY <2>1
<1>4. \A i \in 0..L : occ[i] => i + l <= L
    BY <1>1, <1>2, <1>3 DEF OccursAt
<1>5. PICK Y : Y = Seq(X)
    OBVIOUS
<1>6. /\ <<>> \in Y
      /\ \A t \in Y : m \o t \in Y
      /\ \A t \in Y, i \in 0..L : i < L => <<s[i + 1]>> \o t \in Y
    BY <1>1, <1>5
<1> DEFINE Body(f, i) == IF i = L THEN <<>>
                         ELSE IF occ[i] THEN m \o f[i + l] ELSE <<s[i + 1]>> \o f[i + 1]
           Solved(n) == \E f \in [(L - n)..L -> Y] : \A i \in (L - n)..L : f[i] = Body(f, i)
<1>7. PICK T : T = {n \in 0..L : Solved(n)}
    OBVIOUS
<1>8. 0 \in T
    <2> DEFINE f == [i \in (L - 0)..L |-> <<>>]
    <2>1. f \in [(L - 0)..L -> Y] /\ \A i \in (L - 0)..L : f[i] = Body(f, i)
        BY <1>6
    <2> HIDE DEF f
    <2>2. Solved(0)
        BY <2>1
    <2> QED
        BY <2>2, <1>7
<1>9. ASSUME NEW n \in 1..L, n - 1 \in T PROVE n \in T
    <2>1. PICK f \in [(L - (n - 1))..L -> Y] : \A i \in (L - (n - 1))..L : f[i] = Body(f, i)
        BY <1>7, <1>9
    <2>2. PICK b \in 0..L : b = L - n /\ b < L /\ L - (n - 1) = b + 1
        OBVIOUS
    <2>3. f \in [(b + 1)..L -> Y] /\ \A i \in (b + 1)..L : f[i] = Body(f, i)
        BY <2>1, <2>2
    <2> DEFINE g == [i \in b..L |-> IF i = b THEN Body(f, b) ELSE f[i]]
    <2>4. Body(f, b) \in Y
        <3>1. CASE occ[b]
            <4>1. b + l \in (b + 1)..L
                BY <1>2, <1>4, <2>2, <3>1
            <4> QED
                BY <4>1, <2>2, <2>3, <3>1, <1>6
        <3>2. CASE ~occ[b]
            <4>1. b + 1 \in (b + 1)..L
                BY <2>2
            <4> QED
                BY <4>1, <2>2, <2>3, <3>2, <1>6
        <3> QED
            BY <3>1, <3>2
    <2>5. g \in [b..L -> Y]
        BY <2>3, <2>4
    <2>6. ASSUME NEW i \in b..L PROVE g[i] = Body(g, i)
        <3>1. i \in 0..L /\ (i # L /\ occ[i] => i + l \in (b + 1)..L) /\ (i # L => i + 1 \in (b + 1)..L)
            BY <1>2, <1>4, <2>2
        <3>2. \A j \in (b + 1)..L : g[j] = f[j]
            BY <2>2
        <3>3. g[i] = Body(f, i)
            <4>1. i = b => g[i] = Body(f, b)
                OBVIOUS
            <4>2. i # b => i \in (b + 1)..L
                BY <2>2
            <4> HIDE DEF Body, g
            <4> QED
                BY <4>1, <4>2, <3>2, <2>3
        <3> HIDE DEF g
        <3> QED
            BY <3>1, <3>2, <3>3
    <2> HIDE DEF g
    <2>7. Solved(n)
        BY <2>2, <2>5, <2>6
    <2> HIDE DEF Solved
    <2> QED
        BY <2>7, <1>7
<1>10. \A n \in 0..L : n \in T
    <2> HIDE DEF Solved
    <2> QED
        BY <1>8, <1>9, BoundedInduction
<1>11. PICK h \in [0..L -> Y] : \A i \in 0..L : h[i] = Body(h, i)
    <2>1. L \in T /\ L - L = 0
        BY <1>10
    <2> QED
        BY <2>1, <1>7
<1> DEFINE Is(f) == f = [i \in 0..L |-> IF i = L THEN <<>>
                         ELSE IF OccursAt(s, v, i) THEN m \o f[i + l] ELSE <<s[i + 1]>> \o f[i + 1]]
           g == CHOOSE f : Is(f)
<1>12. Is(h)
    BY <1>3, <1>11
<1>13. Is(g)
    <2> HIDE DEF Is
    <2> QED
        BY <1>12
<1>14. Replaced(s, v, m) = g[0]
    BY <1>1, <1>2 DEF Replaced
<1> HIDE DEF g
<1>15. DOMAIN g = 0..L /\ \A i \in 0..L : g[i] = Body(g, i)
    BY <1>3, <1>13
<1>16. \A i \in 0..L : g[i] \in Y
    <2> DEFINE U == {n \in 0..L : \A i \in (L - n)..L : g[i] \in Y}
    <2>1. 0 \in U
        <3>1. g[L] = <<>>
            <4>1. L \in 0..L
                OBVIOUS
            <4>2. g[L] = Body(g, L)
                BY <4>1, <1>15
            <4> QED
                BY <4>2
        <3>2. \A i \in (L - 0)..L : i = L
            OBVIOUS
        <3> QED
            BY <3>1, <3>2, <1>6
    <2>2. ASSUME NEW n \in 1..L, n - 1 \in U PROVE n \in U
        <3>1. PICK b \in 0..L : b = L - n /\ b < L /\ L - (n - 1) = b + 1
            OBVIOUS
        <3>2. \A i \in (b + 1)..L : g[i] \in Y
            BY <2>2, <3>1
        <3>3. g[b] \in Y
            <4>1. g[b] = Body(g, b)
                BY <1>15
            <4>2. CASE occ[b]
                <5>1. b + l \in (b + 1)..L
                    BY <1>2, <1>4, <3>1, <4>2
                <5> QED
                    BY <5>1, <4>1, <3>1, <3>2, <4>2, <1>6
            <4>3. CASE ~occ[b]
                <5>1. b + 1 \in (b + 1)..L
                    BY <3>1
                <5> QED
                    BY <5>1, <4>1, <3>1, <3>2, <4>3, <1>6
            <4> QED
                BY <4>2, <4>3
        <3>4. \A i \in b..L : i = b \/ i \in (b + 1)..L
            OBVIOUS
        <3>5. \A i \in (L - n)..L : g[i] \in Y
            BY <3>1, <3>2, <3>3, <3>4
        <3> QED
            BY <3>5
    <2> HIDE DEF U
    <2>3. \A n \in 0..L : n \in U
        BY <2>1, <2>2, BoundedInduction
    <2>4. L \in U /\ L - L = 0
        BY <2>3
    <2> QED
        BY <2>4 DEF U
<1>17. Scans(s, v, m, X, g)
    <2>1. g \in [0..L -> Y]
        BY <1>13, <1>16
    <2> QED
        BY <2>1, <1>1, <1>2, <1>3, <1>5, <1>15 DEF Scans
<1> QED
    BY <1>14, <1>17

\* What output, decoded or not, and its redaction are made of.
Elements == Symbols \cup Markers \cup {Zero, Lost, EF, BB, BF, FF, FE}

\* A marker is MarkerLen elements of its own.
LEMMA MarkerFacts ==
    ASSUME NEW k \in Keys
    PROVE  /\ Marker(k) \in Seq(Markers) /\ Marker(k) \in Seq(Elements)
           /\ Len(Marker(k)) = MarkerLen /\ MarkerLen \in Nat \ {0}
           /\ \A i \in 1..MarkerLen : Marker(k)[i] = <<k, i>>
<1>1. MarkerLen \in Nat \ {0}
    BY RedactionAssumption
<1>2. Marker(k) \in [1..MarkerLen -> Markers]
    BY DEF Marker, Markers
<1>3. Marker(k) \in Seq(Markers) /\ Len(Marker(k)) = MarkerLen
    BY <1>1, <1>2
<1>4. Marker(k) \in Seq(Elements)
    BY <1>3, SeqMonotonic DEF Elements
<1> QED
    BY <1>1, <1>3, <1>4 DEF Marker

\* An entry has a value, which is text, and a marker.
LEMMA EntryFacts ==
    ASSUME NEW n \in 1..Len(Entries)
    PROVE  /\ Entries[n] \in Long /\ Entries[n] \in Keys
           /\ Value[Entries[n]] \in Seq(Symbols) /\ Value[Entries[n]] \in Seq(Elements)
           /\ Len(Value[Entries[n]]) \in Nat \ {0} /\ Value[Entries[n]] # <<>>
           /\ Marker(Entries[n]) \in Seq(Elements)
<1>1. Entries[n] \in Long
    BY EntriesFacts
<1>2. /\ Entries[n] \in Keys /\ Value[Entries[n]] \in Seq(Symbols)
      /\ Len(Value[Entries[n]]) \in Nat \ {0}
    BY <1>1, LongValue
<1>3. Value[Entries[n]] \in Seq(Elements)
    BY <1>2, SeqMonotonic DEF Elements
<1>4. Marker(Entries[n]) \in Seq(Elements)
    BY <1>2, MarkerFacts
<1> QED
    BY <1>1, <1>2, <1>3, <1>4

\* f[n] is what the first n entries make of s.
Chain(s, f) ==
    /\ f \in [0..Len(Entries) -> Seq(Elements)] /\ f[0] = s
    /\ \A n \in 1..Len(Entries) :
          f[n] = Replaced(f[n - 1], Value[Entries[n]], Marker(Entries[n]))

\* A replacement makes elements of elements.
LEMMA ReplacedType ==
    ASSUME NEW X, NEW s \in Seq(X), NEW v \in Seq(X), v # <<>>, NEW m \in Seq(X)
    PROVE  Replaced(s, v, m) \in Seq(X)
<1>1. PICK f : Scans(s, v, m, X, f) /\ Replaced(s, v, m) = f[0]
    BY ReplacedScan
<1>2. 0 \in 0..Len(s)
    OBVIOUS
<1> QED
    BY <1>1, <1>2 DEF Scans

\* A redaction is read off such a chain.
LEMMA RedactChain ==
    ASSUME NEW input, NormalizeUTF8(input) \in Seq(Elements)
    PROVE  \E f : Chain(NormalizeUTF8(input), f) /\ Redact(input) = f[Len(Entries)]
<1>1. PICK N \in Nat : N = Len(Entries)
    BY EntriesFacts
<1>2. PICK Y : Y = Seq(Elements)
    OBVIOUS
<1>3. PICK s \in Y : s = NormalizeUTF8(input)
    BY <1>2
<1> DEFINE R(n, t) == Replaced(t, Value[Entries[n]], Marker(Entries[n]))
<1>4. \A n \in 1..N, t \in Y : R(n, t) \in Y
    BY <1>1, <1>2, EntryFacts, ReplacedType
<1> HIDE DEF R
<1>5. PICK h \in [0..N -> Y] : h[0] = s /\ \A n \in 1..N : h[n] = R(n, h[n - 1])
    <2>1. PICK step \in [Nat -> [Y -> Y]] :
             \A t \in Y, i \in Nat : step[i][t] = IF i \in 1..N THEN R(i, t) ELSE t
        <3> DEFINE step == [i \in Nat |-> [t \in Y |-> IF i \in 1..N THEN R(i, t) ELSE t]]
        <3>1. step \in [Nat -> [Y -> Y]]
            BY <1>4
        <3>2. \A t \in Y, i \in Nat : step[i][t] = IF i \in 1..N THEN R(i, t) ELSE t
            OBVIOUS
        <3> HIDE DEF step
        <3> QED
            BY <3>1, <3>2
    <2>2. PICK h : Iterates(Y, s, step, N, h)
        BY Recursion
    <2>3. ASSUME NEW i \in 1..N PROVE h[i] = R(i, h[i - 1])
        <3>1. i - 1 \in 0..N /\ i \in Nat
            OBVIOUS
        <3>2. h[i - 1] \in Y
            BY <2>2, <3>1 DEF Iterates
        <3> QED
            BY <2>1, <2>2, <3>1, <3>2 DEF Iterates
    <2> QED
        BY <2>2, <2>3 DEF Iterates
<1> DEFINE Is(f) == f = [n \in 0..N |-> IF n = 0 THEN s ELSE R(n, f[n - 1])]
           g == CHOOSE f : Is(f)
<1>6. Is(h)
    <2>1. \A n \in 0..N : n # 0 => n \in 1..N
        OBVIOUS
    <2> QED
        BY <1>5, <2>1
<1>7. Is(g)
    <2> HIDE DEF Is
    <2> QED
        BY <1>6
<1>8. Redact(input) = g[N]
    BY <1>1, <1>3 DEF Redact, R
<1> HIDE DEF g
<1>9. DOMAIN g = 0..N /\ g[0] = s /\ \A n \in 1..N : g[n] = R(n, g[n - 1])
    BY <1>7
<1>10. PICK T : T = {n \in 0..N : g[n] \in Y}
    OBVIOUS
<1>11. 0 \in T
    BY <1>9, <1>10
<1>12. ASSUME NEW n \in 1..N, n - 1 \in T PROVE n \in T
    <2>1. g[n] = R(n, g[n - 1]) /\ g[n - 1] \in Y
        BY <1>9, <1>10, <1>12
    <2>2. g[n] \in Y /\ n \in 0..N
        BY <1>4, <2>1
    <2> QED
        BY <1>10, <2>2
<1>13. \A n \in 0..N : n \in T
    BY <1>11, <1>12, BoundedInduction
<1>14. g \in [0..N -> Y]
    BY <1>7, <1>10, <1>13
<1>15. Chain(s, g)
    BY <1>1, <1>2, <1>9, <1>14 DEF Chain, R
<1> QED
    BY <1>1, <1>3, <1>8, <1>15

-----------------------------------------------------------------------------
(***************************************************************************)
(* Where values stand in a text.                                           *)
(***************************************************************************)
LEMMA OccursMeans ==
    ASSUME NEW X, NEW s \in Seq(X), NEW v \in Seq(X), NEW i \in Nat
    PROVE  OccursAt(s, v, i) <=> /\ i + Len(v) <= Len(s)
                                 /\ \A x \in 1..Len(v) : s[i + x] = v[x]
<1> DEFINE l == Len(v)
<1>1. l \in Nat /\ Len(s) \in Nat
    OBVIOUS
<1>2. SUFFICES ASSUME i + l <= Len(s)
               PROVE  SubSeq(s, i + 1, i + l) = v <=> \A x \in 1..l : s[i + x] = v[x]
    BY DEF OccursAt
<1>3. /\ SubSeq(s, i + 1, i + l) \in Seq(X) /\ Len(SubSeq(s, i + 1, i + l)) = l
      /\ \A x \in 1..l : SubSeq(s, i + 1, i + l)[x] = s[i + x]
    <2>1. \A y \in (i + 1)..(i + l) : s[y] \in X
        BY <1>1, <1>2
    <2>2. (i + l) - (i + 1) + 1 = l /\ (i + 1 <= i + l <=> l # 0) /\ \A x \in 1..l : (i + 1) + x - 1 = i + x
        BY <1>1
    <2> QED
        BY <2>1, <2>2, <1>1, SubSeqProperties
<1> QED
    BY <1>1, <1>3, SeqEqual

V(i) == Value[Entries[i]]

\* One of the first n entries' values covers the element j of s.
Covers(s, n, j) ==
    \E i \in 1..n, b \in 0..(j - 1) : OccursAt(s, V(i), b) /\ j <= b + Len(V(i))

\* The value i begins at j and is not part of an earlier entry's.
Leads(s, i, j) == OccursAt(s, V(i), j - 1) /\ ~Covers(s, i - 1, j)

\* What becomes of the element j.
Piece(s, n, j) ==
    IF \E i \in 1..n : Leads(s, i, j) THEN Marker(Entries[CHOOSE i \in 1..n : Leads(s, i, j)])
    ELSE IF Covers(s, n, j) THEN <<>> ELSE <<s[j]>>

Pieces(s, n) == [j \in 1..Len(s) |-> Piece(s, n, j)]

\* The value of an entry is text and not empty.
LEMMA VFacts ==
    ASSUME NEW i \in 1..Len(Entries)
    PROVE  /\ V(i) \in Seq(Symbols) /\ V(i) \in Seq(Elements)
           /\ Len(V(i)) \in Nat \ {0} /\ V(i) # <<>>
    BY EntryFacts DEF V

\* A value stands in a text where its symbols do.
LEMMA OccursInText ==
    ASSUME NEW s \in Seq(Symbols), NEW i \in 1..Len(Entries), NEW b \in Nat
    PROVE  OccursAt(s, V(i), b) <=> /\ b + Len(V(i)) <= Len(s)
                                    /\ \A x \in 1..Len(V(i)) : s[b + x] = V(i)[x]
    BY VFacts, OccursMeans

\* A value that begins within another ends within it.
LEMMA NoOverlap ==
    ASSUME ValuesApart, NEW s \in Seq(Symbols), NEW i \in 1..Len(Entries),
           NEW h \in 1..Len(Entries), NEW b \in Nat, NEW c \in Nat,
           OccursAt(s, V(i), b), OccursAt(s, V(h), c), b < c, c < b + Len(V(i))
    PROVE  c + Len(V(h)) <= b + Len(V(i))
<1> DEFINE n == b + Len(V(i)) - c
<1>1. Len(V(i)) \in Nat /\ Len(V(h)) \in Nat
    BY VFacts
<1>2. SUFFICES ASSUME c + Len(V(h)) > b + Len(V(i)) PROVE FALSE
    BY <1>1
<1>3. n \in 1..(Len(V(i)) - 1) /\ n < Len(V(h))
    BY <1>1, <1>2
<1>4. Entries[i] \in Range(Entries) /\ Entries[h] \in Range(Entries)
    BY EntriesFacts, LongestFirst
<1>5. SubSeq(V(i), Len(V(i)) - n + 1, Len(V(i))) # SubSeq(V(h), 1, n)
    BY <1>3, <1>4 DEF ValuesApart, V
<1>6. /\ SubSeq(V(h), 1, n) \in Seq(Symbols) /\ Len(SubSeq(V(h), 1, n)) = n
      /\ \A x \in 1..n : SubSeq(V(h), 1, n)[x] = V(h)[x]
    <2>1. \A x \in 1..n : V(h)[x] \in Symbols
        BY <1>1, <1>3, VFacts
    <2> QED
        BY <2>1, <1>3, SubSeqProperties
<1>7. /\ SubSeq(V(i), Len(V(i)) - n + 1, Len(V(i))) \in Seq(Symbols)
      /\ Len(SubSeq(V(i), Len(V(i)) - n + 1, Len(V(i)))) = n
      /\ \A x \in 1..n : SubSeq(V(i), Len(V(i)) - n + 1, Len(V(i)))[x] = V(i)[Len(V(i)) - n + x]
    <2>1. \A x \in (Len(V(i)) - n + 1)..Len(V(i)) : V(i)[x] \in Symbols
        BY <1>1, <1>3, VFacts
    <2>2. \A x \in 1..n : (Len(V(i)) - n + 1) + x - 1 = Len(V(i)) - n + x
        BY <1>1, <1>3
    <2> HIDE DEF n
    <2> QED
        BY <2>1, <2>2, <1>1, <1>3, SubSeqProperties
<1>8. \A x \in 1..n : V(i)[Len(V(i)) - n + x] = V(h)[x]
    <2> SUFFICES ASSUME NEW x \in 1..n PROVE V(i)[Len(V(i)) - n + x] = V(h)[x]
        OBVIOUS
    <2>1. Len(V(i)) - n + x \in 1..Len(V(i)) /\ b + (Len(V(i)) - n + x) = c + x
        BY <1>1, <1>3
    <2>2. x \in 1..Len(V(h))
        BY <1>1, <1>3
    <2> HIDE DEF n
    <2>3. s[c + x] = V(h)[x]
        BY <2>2, OccursInText
    <2>4. s[b + (Len(V(i)) - n + x)] = V(i)[Len(V(i)) - n + x]
        BY <2>1, OccursInText
    <2> QED
        BY <2>1, <2>3, <2>4
<1> HIDE DEF n
<1> QED
    BY <1>3, <1>5, <1>6, <1>7, <1>8, SeqEqual

\* One entry at most has its value begin at an element, bare.
LEMMA LeadsOnce ==
    ASSUME NEW s \in Seq(Symbols), NEW j \in 1..Len(s), NEW n \in 0..Len(Entries),
           NEW i \in 1..n, Leads(s, i, j)
    PROVE  /\ Covers(s, n, j)
           /\ \A h \in 1..n : Leads(s, h, j) => h = i
<1>1. Len(Entries) \in Nat
    BY EntriesFacts
<1>2. ASSUME NEW g \in 1..n, Leads(s, g, j), NEW h \in g..n PROVE Covers(s, h, j)
    <2>1. j - 1 \in 0..(j - 1) /\ g \in 1..h /\ g \in 1..Len(Entries)
        BY <1>1
    <2>2. OccursAt(s, V(g), j - 1) /\ j <= (j - 1) + Len(V(g))
        BY <1>2, <2>1, VFacts DEF Leads
    <2> QED
        BY <2>1, <2>2 DEF Covers
<1>3. ASSUME NEW g \in 1..n, NEW h \in 1..n, g < h, Leads(s, g, j), Leads(s, h, j) PROVE FALSE
    <2>1. h - 1 \in g..n
        BY <1>1, <1>3
    <2> QED
        BY <2>1, <1>2, <1>3 DEF Leads
<1> QED
    BY <1>1, <1>2, <1>3

\* The first element of what is covered is where a value begins.
LEMMA CoverBegins ==
    ASSUME NEW s \in Seq(Symbols), NEW j \in 1..Len(s), NEW n \in 0..Len(Entries),
           Covers(s, n, j), j = 1 \/ ~Covers(s, n, j - 1)
    PROVE  \E i \in 1..n : Leads(s, i, j)
<1>1. Len(Entries) \in Nat
    BY EntriesFacts
<1> DEFINE G == {i \in 1..n : Covers(s, i, j)}
<1>2. G # {}
    <2>1. n # 0
        BY DEF Covers
    <2>2. n \in 1..n
        BY <1>1, <2>1
    <2> QED
        BY <2>2
<1>3. PICK i \in G : \A h \in G : i <= h
    <2>1. G \subseteq Nat
        OBVIOUS
    <2> HIDE DEF G
    <2> QED
        BY <1>2, <2>1, LeastNumber
<1>4. i \in 1..Len(Entries) /\ ~Covers(s, i - 1, j)
    <2>1. CASE i = 1
        BY <1>1, <2>1 DEF Covers
    <2>2. CASE i # 1
        <3>1. i - 1 \in 1..n /\ ~(i <= i - 1)
            BY <2>2
        <3> QED
            BY <3>1, <1>1, <1>3
    <2> QED
        BY <2>1, <2>2
<1>5. PICK b \in 0..(j - 1) : OccursAt(s, V(i), b) /\ j <= b + Len(V(i))
    <2>1. PICK h \in 1..i, b \in 0..(j - 1) : OccursAt(s, V(h), b) /\ j <= b + Len(V(h))
        BY DEF Covers
    <2>2. h = i
        <3>1. h \notin 1..(i - 1)
            BY <1>4, <2>1 DEF Covers
        <3> QED
            BY <3>1
    <2> QED
        BY <2>1, <2>2
<1>6. b = j - 1
    <2>1. SUFFICES ASSUME b < j - 1 PROVE FALSE
        OBVIOUS
    <2>2. b \in 0..((j - 1) - 1) /\ j - 1 <= b + Len(V(i)) /\ j # 1
        BY <2>1, <1>4, <1>5, VFacts
    <2>3. Covers(s, n, j - 1)
        BY <2>2, <1>5 DEF Covers
    <2> QED
        BY <2>2, <2>3
<1> QED
    BY <1>4, <1>5, <1>6 DEF Leads

\* A value that an earlier, longer one touches is part of it.
LEMMA Nested ==
    ASSUME ValuesApart, NEW s \in Seq(Symbols), NEW n \in 1..Len(Entries),
           NEW b \in Nat, OccursAt(s, V(n), b),
           NEW j \in (b + 1)..(b + Len(V(n))), Covers(s, n - 1, j)
    PROVE  \A g \in (b + 1)..(b + Len(V(n))) : Covers(s, n - 1, g)
<1>1. Len(Entries) \in Nat /\ Len(V(n)) \in Nat
    BY EntriesFacts, VFacts
<1>2. PICK i \in 1..(n - 1), c \in 0..(j - 1) : OccursAt(s, V(i), c) /\ j <= c + Len(V(i))
    BY DEF Covers
<1>3. i \in 1..Len(Entries) /\ i < n
    BY <1>1
<1>4. Len(V(i)) \in Nat /\ Len(V(n)) <= Len(V(i))
    BY <1>3, VFacts, LongestFirst DEF V
<1>5. c <= b
    <2>1. SUFFICES ASSUME b < c PROVE FALSE
        OBVIOUS
    <2>2. c < b + Len(V(n)) /\ c \in Nat
        BY <1>1
    <2>3. c + Len(V(i)) <= b + Len(V(n))
        BY <1>2, <1>3, <2>1, <2>2, NoOverlap
    <2> QED
        BY <1>1, <1>4, <2>1, <2>3
<1>6. b + Len(V(n)) <= c + Len(V(i))
    <2>1. CASE c = b
        BY <1>1, <1>4, <2>1
    <2>2. CASE c # b
        <3>1. c < b /\ b < c + Len(V(i)) /\ c \in Nat
            BY <1>1, <1>2, <1>4, <1>5, <2>2
        <3> QED
            BY <1>2, <1>3, <3>1, NoOverlap
    <2> QED
        BY <2>1, <2>2
<1> SUFFICES ASSUME NEW g \in (b + 1)..(b + Len(V(n))) PROVE Covers(s, n - 1, g)
    OBVIOUS
<1>7. c \in 0..(g - 1) /\ g <= c + Len(V(i))
    BY <1>1, <1>4, <1>5, <1>6
<1> QED
    BY <1>2, <1>7 DEF Covers

-----------------------------------------------------------------------------
(***************************************************************************)
(* A text as what becomes of each of its elements.                         *)
(***************************************************************************)
LEMMA PieceFacts ==
    ASSUME NEW s \in Seq(Symbols), NEW n \in 0..Len(Entries), NEW j \in 1..Len(s)
    PROVE  /\ Piece(s, n, j) \in Seq(Elements)
           /\ ~Covers(s, n, j) => Piece(s, n, j) = <<s[j]>>
           /\ \A i \in 1..n : Leads(s, i, j) => Piece(s, n, j) = Marker(Entries[i])
           /\ Covers(s, n, j) /\ (\A i \in 1..n : ~Leads(s, i, j)) => Piece(s, n, j) = <<>>
<1>1. Len(Entries) \in Nat /\ s[j] \in Elements
    BY EntriesFacts DEF Elements
<1>2. CASE \E i \in 1..n : Leads(s, i, j)
    <2>1. PICK i \in 1..n : Leads(s, i, j)
        BY <1>2
    <2>2. Covers(s, n, j) /\ \A h \in 1..n : Leads(s, h, j) => h = i
        BY <2>1, LeadsOnce
    <2>3. (CHOOSE h \in 1..n : Leads(s, h, j)) = i
        BY <2>1, <2>2
    <2>4. Piece(s, n, j) = Marker(Entries[i])
        BY <1>2, <2>3 DEF Piece
    <2>5. Marker(Entries[i]) \in Seq(Elements)
        BY <1>1, EntryFacts
    <2> QED
        BY <2>1, <2>2, <2>4, <2>5
<1>3. CASE ~\E i \in 1..n : Leads(s, i, j)
    BY <1>1, <1>3 DEF Piece
<1> QED
    BY <1>2, <1>3

\* What becomes of the elements is a sequence of sequences.
LEMMA PiecesType ==
    ASSUME NEW s \in Seq(Symbols), NEW n \in 0..Len(Entries)
    PROVE  /\ Pieces(s, n) \in Seq(Seq(Elements)) /\ Len(Pieces(s, n)) = Len(s)
           /\ Len(s) \in Nat
           /\ \A j \in 1..Len(s) : Pieces(s, n)[j] = Piece(s, n, j)
<1>1. Len(s) \in Nat
    OBVIOUS
<1>2. Pieces(s, n) \in [1..Len(s) -> Seq(Elements)]
    BY PieceFacts DEF Pieces
<1> QED
    BY <1>1, <1>2 DEF Pieces

\* The next entry's value begins somewhere, or changes nothing.
LEMMA PieceStep ==
    ASSUME NEW s \in Seq(Symbols), NEW n \in 1..Len(Entries), NEW j \in 1..Len(s)
    PROVE  /\ Covers(s, n - 1, j) => Covers(s, n, j) /\ Piece(s, n, j) = Piece(s, n - 1, j)
           /\ ~Covers(s, n - 1, j) =>
                 /\ Piece(s, n - 1, j) = <<s[j]>>
                 /\ OccursAt(s, V(n), j - 1) => Piece(s, n, j) = Marker(Entries[n])
                 /\ Covers(s, n, j) /\ ~OccursAt(s, V(n), j - 1) => Piece(s, n, j) = <<>>
                 /\ ~Covers(s, n, j) => Piece(s, n, j) = <<s[j]>>
<1>1. /\ Len(Entries) \in Nat /\ n - 1 \in 0..Len(Entries) /\ n \in 0..Len(Entries)
      /\ 1..n = (1..(n - 1)) \cup {n}
    BY EntriesFacts, SMTT(30)
<1>2. ASSUME Covers(s, n - 1, j)
      PROVE  Covers(s, n, j) /\ Piece(s, n, j) = Piece(s, n - 1, j)
    <2>1. Covers(s, n, j) /\ ~Leads(s, n, j)
        BY <1>1, <1>2 DEF Covers, Leads
    <2>2. CASE \E i \in 1..(n - 1) : Leads(s, i, j)
        <3>1. PICK i \in 1..(n - 1) : Leads(s, i, j)
            BY <2>2
        <3>2. i \in 1..n
            BY <1>1
        <3> QED
            BY <2>1, <3>1, <3>2, <1>1, PieceFacts
    <2>3. CASE \A i \in 1..(n - 1) : ~Leads(s, i, j)
        <3>1. \A i \in 1..n : ~Leads(s, i, j)
            BY <2>1, <2>3, <1>1
        <3> QED
            BY <1>1, <1>2, <2>1, <2>3, <3>1, PieceFacts
    <2> QED
        BY <2>2, <2>3
<1>3. ASSUME ~Covers(s, n - 1, j)
      PROVE  \A i \in 1..n : Leads(s, i, j) => i = n
    <2>1. \A i \in 1..(n - 1) : ~Leads(s, i, j)
        BY <1>1, <1>3, LeadsOnce
    <2> QED
        BY <2>1, <1>1
<1>4. ~Covers(s, n - 1, j) => (Leads(s, n, j) <=> OccursAt(s, V(n), j - 1))
    BY DEF Leads
<1>5. n \in 1..n
    BY <1>1
<1> QED
    BY <1>1, <1>2, <1>3, <1>4, <1>5, PieceFacts

\* The elements of two sequences joined.
LEMMA ConcatAt ==
    ASSUME NEW X, NEW s \in Seq(X), NEW t \in Seq(X)
    PROVE  /\ s \o t \in Seq(X) /\ Len(s) \in Nat /\ Len(t) \in Nat
           /\ Len(s \o t) = Len(s) + Len(t)
           /\ \A x \in 1..Len(s) : (s \o t)[x] = s[x]
           /\ \A x \in 1..Len(t) : (s \o t)[Len(s) + x] = t[x]
<1>1. Len(s) \in Nat /\ Len(t) \in Nat
    OBVIOUS
<1>2. ASSUME NEW x \in 1..Len(s) PROVE (s \o t)[x] = s[x]
    <2>1. x \in 1..(Len(s) + Len(t)) /\ x <= Len(s)
        BY <1>1
    <2> QED
        BY <2>1, ConcatProperties
<1>3. ASSUME NEW x \in 1..Len(t) PROVE (s \o t)[Len(s) + x] = t[x]
    <2>1. /\ Len(s) + x \in 1..(Len(s) + Len(t)) /\ ~(Len(s) + x <= Len(s))
          /\ (Len(s) + x) - Len(s) = x
        BY <1>1
    <2> QED
        BY <2>1, ConcatProperties
<1> QED
    BY <1>1, <1>2, <1>3, ConcatProperties

\* What the first j of the sequences in ss make together.
First(ss, X, j) == (CHOOSE f : Sums(ss, f, X))[j]

\* None make nothing and all make the whole.
LEMMA FirstFacts ==
    ASSUME NEW X, NEW ss \in Seq(Seq(X))
    PROVE  /\ First(ss, X, 0) = <<>> /\ Len(ss) \in Nat
           /\ FlattenSeq(ss) = First(ss, X, Len(ss))
           /\ \A j \in 0..Len(ss) : First(ss, X, j) \in Seq(X)
<1>1. PICK f : Sums(ss, f, X) /\ FlattenSeq(ss) = f[Len(ss)]
    BY FlattenSums
<1>2. PICK g : g = CHOOSE h : Sums(ss, h, X)
    OBVIOUS
<1>3. Sums(ss, g, X)
    BY <1>1, <1>2
<1>4. Len(ss) \in Nat
    OBVIOUS
<1>5. f[Len(ss)] = g[Len(ss)]
    <2>1. SameUpTo(Len(ss), ss, ss)
        BY <1>4 DEF SameUpTo
    <2> QED
        BY <2>1, <1>1, <1>3, SumsAgree
<1>6. \A j \in 0..Len(ss) : g[j] \in Seq(X)
    BY <1>3 DEF Sums
<1>7. g[0] = <<>>
    BY <1>3 DEF Sums
<1> QED
    BY <1>1, <1>2, <1>4, <1>5, <1>6, <1>7 DEF First

\* One more is joined behind.
LEMMA FirstStep ==
    ASSUME NEW X, NEW ss \in Seq(Seq(X)), NEW j \in 1..Len(ss)
    PROVE  \E t \in Seq(X) : t = ss[j] /\ First(ss, X, j) = First(ss, X, j - 1) \o t
<1>1. PICK f : Sums(ss, f, X)
    BY FlattenSums
<1>2. PICK g : g = CHOOSE h : Sums(ss, h, X)
    OBVIOUS
<1>3. Sums(ss, g, X)
    BY <1>1, <1>2
<1>4. PICK t \in Seq(X) : t = ss[j]
    BY <1>3, SumsStep
<1>5. PICK u \in Seq(X) : u = g[j - 1]
    BY <1>3, SumsStep
<1>6. g[j] = u \o t
    BY <1>3, <1>4, <1>5, SumsStep
<1>7. First(ss, X, j) = g[j] /\ First(ss, X, j - 1) = g[j - 1]
    BY <1>2 DEF First
<1> QED
    BY <1>4, <1>5, <1>6, <1>7

\* What the first ones make stands at the front of what more of them make.
LEMMA FirstPrefix ==
    ASSUME NEW X, NEW ss \in Seq(Seq(X)), NEW i \in 0..Len(ss), NEW k \in i..Len(ss)
    PROVE  /\ First(ss, X, i) \in Seq(X) /\ First(ss, X, k) \in Seq(X)
           /\ Len(First(ss, X, i)) \in Nat /\ Len(First(ss, X, k)) \in Nat
           /\ Len(First(ss, X, i)) <= Len(First(ss, X, k))
           /\ \A x \in 1..Len(First(ss, X, i)) : First(ss, X, k)[x] = First(ss, X, i)[x]
<1>1. Len(ss) \in Nat
    OBVIOUS
<1>2. \A h \in 0..Len(ss) : First(ss, X, h) \in Seq(X)
    BY FirstFacts
<1>3. PICK u \in Seq(X) : u = First(ss, X, i)
    BY <1>2
<1>4. Len(u) \in Nat
    OBVIOUS
<1> DEFINE Goes(h) == /\ Len(u) <= Len(First(ss, X, h))
                      /\ \A x \in 1..Len(u) : First(ss, X, h)[x] = u[x]
<1>5. PICK T : T = {d \in 0..(Len(ss) - i) : Goes(i + d)}
    OBVIOUS
<1>6. 0 \in T
    <2>1. i + 0 = i
        OBVIOUS
    <2>2. Goes(i)
        BY <1>3, <1>4
    <2> QED
        BY <2>1, <2>2, <1>1, <1>5
<1>7. ASSUME NEW d \in 1..(Len(ss) - i), d - 1 \in T PROVE d \in T
    <2>1. PICK c \in 1..Len(ss) : c = i + d /\ c - 1 = i + (d - 1)
        BY <1>1
    <2>2. Goes(c - 1)
        BY <1>5, <1>7, <2>1
    <2>3. PICK t \in Seq(X) : First(ss, X, c) = First(ss, X, c - 1) \o t
        BY FirstStep
    <2>4. PICK w \in Seq(X) : w = First(ss, X, c - 1)
        BY <1>1, <1>2
    <2>5. PICK z : z = First(ss, X, c)
        OBVIOUS
    <2>6. /\ Len(w) \in Nat /\ Len(t) \in Nat /\ Len(z) = Len(w) + Len(t)
          /\ \A x \in 1..Len(w) : z[x] = w[x]
        BY <2>3, <2>4, <2>5, ConcatAt
    <2>7. Len(u) <= Len(w) /\ \A x \in 1..Len(u) : w[x] = u[x]
        BY <2>2, <2>4
    <2>8. Len(u) <= Len(z)
        BY <2>6, <2>7, <1>4
    <2>9. \A x \in 1..Len(u) : z[x] = u[x]
        <3>1. ASSUME NEW x \in 1..Len(u) PROVE z[x] = u[x]
            <4>1. x \in 1..Len(w)
                BY <2>6, <2>7, <1>4
            <4> QED
                BY <4>1, <2>6, <2>7
        <3> QED
            BY <3>1
    <2>10. Goes(c)
        BY <2>5, <2>8, <2>9
    <2> HIDE DEF Goes
    <2> QED
        BY <2>1, <2>10, <1>5
<1>8. \A d \in 0..(Len(ss) - i) : d \in T
    <2> HIDE DEF Goes
    <2>1. Len(ss) - i \in Nat
        BY <1>1
    <2> QED
        BY <2>1, <1>6, <1>7, BoundedInduction
<1>9. k - i \in 0..(Len(ss) - i) /\ i + (k - i) = k
    BY <1>1
<1>10. Goes(k)
    <2> HIDE DEF Goes
    <2>1. k - i \in T
        BY <1>8, <1>9
    <2> QED
        BY <2>1, <1>5, <1>9
<1>11. k \in 0..Len(ss)
    BY <1>1
<1>12. First(ss, X, k) \in Seq(X)
    BY <1>2, <1>11
<1> QED
    BY <1>3, <1>4, <1>10, <1>12

\* Where the parts stand in the whole.
LEMMA FirstAt ==
    ASSUME NEW X, NEW ss \in Seq(Seq(X)), NEW j \in 1..Len(ss),
           NEW t \in Seq(X), t = ss[j]
    PROVE  /\ Len(First(ss, X, j)) = Len(First(ss, X, j - 1)) + Len(t)
           /\ OccursAt(FlattenSeq(ss), t, Len(First(ss, X, j - 1)))
<1>1. /\ Len(ss) \in Nat /\ j \in 0..Len(ss) /\ Len(ss) \in j..Len(ss)
      /\ j - 1 \in 0..Len(ss)
    OBVIOUS
<1>2. PICK z : z = FlattenSeq(ss)
    OBVIOUS
<1>3. z = First(ss, X, Len(ss)) /\ z \in Seq(X)
    BY <1>1, <1>2, FirstFacts
<1>4. First(ss, X, j) = First(ss, X, j - 1) \o t
    BY FirstStep
<1>5. PICK u \in Seq(X) : u = First(ss, X, j - 1)
    BY <1>1, FirstFacts
<1>6. PICK w \in Seq(X) : w = First(ss, X, j)
    BY <1>1, FirstFacts
<1>7. /\ Len(u) \in Nat /\ Len(t) \in Nat /\ Len(w) = Len(u) + Len(t)
      /\ \A x \in 1..Len(t) : w[Len(u) + x] = t[x]
    BY <1>4, <1>5, <1>6, ConcatAt
<1>8. Len(w) <= Len(z) /\ \A x \in 1..Len(w) : z[x] = w[x]
    BY <1>1, <1>3, <1>6, FirstPrefix
<1>9. \A x \in 1..Len(t) : z[Len(u) + x] = t[x]
    <2>1. ASSUME NEW x \in 1..Len(t) PROVE z[Len(u) + x] = t[x]
        <3>1. Len(u) + x \in 1..Len(w)
            BY <1>7
        <3> QED
            BY <3>1, <1>7, <1>8
    <2> QED
        BY <2>1
<1>10. Len(u) + Len(t) <= Len(z)
    BY <1>7, <1>8
<1>11. OccursAt(z, t, Len(u))
    BY <1>3, <1>7, <1>9, <1>10, OccursMeans
<1> QED
    BY <1>2, <1>5, <1>6, <1>7, <1>11

\* What the first n entries make of s, and of its first j elements.
Whole(s, n) == FlattenSeq(Pieces(s, n))
Made(s, n, j) == First(Pieces(s, n), Elements, j)

\* Nothing is made of no element, and the whole of all.
LEMMA MadeFacts ==
    ASSUME NEW s \in Seq(Symbols), NEW n \in 0..Len(Entries)
    PROVE  /\ Made(s, n, 0) = <<>> /\ Len(s) \in Nat
           /\ Made(s, n, Len(s)) = Whole(s, n) /\ Whole(s, n) \in Seq(Elements)
           /\ Len(Whole(s, n)) \in Nat
           /\ \A j \in 0..Len(s) : Made(s, n, j) \in Seq(Elements) /\ Len(Made(s, n, j)) \in Nat
<1>1. PICK ss \in Seq(Seq(Elements)) : ss = Pieces(s, n) /\ Len(ss) = Len(s)
    BY PiecesType
<1>2. /\ First(ss, Elements, 0) = <<>> /\ Len(ss) \in Nat
      /\ FlattenSeq(ss) = First(ss, Elements, Len(ss))
      /\ \A j \in 0..Len(ss) : First(ss, Elements, j) \in Seq(Elements)
    BY FirstFacts
<1>3. FlattenSeq(ss) \in Seq(Elements)
    BY <1>2
<1>4. Len(Whole(s, n)) \in Nat
    BY <1>1, <1>3 DEF Whole
<1>5. \A j \in 0..Len(s) : Made(s, n, j) \in Seq(Elements)
    BY <1>1, <1>2 DEF Made
<1>6. \A j \in 0..Len(s) : Len(Made(s, n, j)) \in Nat
    BY <1>5
<1> QED
    BY <1>1, <1>2, <1>3, <1>4, <1>5, <1>6 DEF Whole, Made

\* What becomes of the next element is joined behind.
LEMMA MadeStep ==
    ASSUME NEW s \in Seq(Symbols), NEW n \in 0..Len(Entries), NEW j \in 1..Len(s)
    PROVE  Made(s, n, j) = Made(s, n, j - 1) \o Piece(s, n, j)
<1>1. PICK ss \in Seq(Seq(Elements)) : ss = Pieces(s, n)
    BY PiecesType
<1>2. Len(ss) = Len(s) /\ ss[j] = Piece(s, n, j) /\ j \in 1..Len(ss)
    BY <1>1, PiecesType
<1>3. PICK t \in Seq(Elements) : t = ss[j] /\ First(ss, Elements, j) = First(ss, Elements, j - 1) \o t
    BY <1>2, FirstStep
<1>4. t = Piece(s, n, j)
    BY <1>2, <1>3
<1> QED
    BY <1>1, <1>3, <1>4 DEF Made

\* It stands in the whole behind what was made before it.
LEMMA MadeAt ==
    ASSUME NEW s \in Seq(Symbols), NEW n \in 0..Len(Entries), NEW j \in 1..Len(s)
    PROVE  /\ Len(Made(s, n, j)) = Len(Made(s, n, j - 1)) + Len(Piece(s, n, j))
           /\ OccursAt(Whole(s, n), Piece(s, n, j), Len(Made(s, n, j - 1)))
<1>1. PICK ss \in Seq(Seq(Elements)) : ss = Pieces(s, n)
    BY PiecesType
<1>2. Len(ss) = Len(s) /\ ss[j] = Piece(s, n, j) /\ j \in 1..Len(ss)
    BY <1>1, PiecesType
<1>3. PICK t \in Seq(Elements) : t = ss[j]
    BY <1>2, PieceFacts
<1>4. /\ Len(First(ss, Elements, j)) = Len(First(ss, Elements, j - 1)) + Len(t)
      /\ OccursAt(FlattenSeq(ss), t, Len(First(ss, Elements, j - 1)))
    BY <1>2, <1>3, FirstAt, ZenonT(60)
<1>5. t = Piece(s, n, j)
    BY <1>2, <1>3
<1> QED
    BY <1>1, <1>4, <1>5 DEF Whole, Made

\* Where nothing is covered the text is as it was.
LEMMA Singles ==
    ASSUME NEW s \in Seq(Symbols), NEW n \in 0..Len(Entries),
           NEW b \in Nat, NEW l \in Nat, b + l <= Len(s),
           \A x \in 1..l : ~Covers(s, n, b + x)
    PROVE  \A x \in 0..l : /\ Len(Made(s, n, b + x)) = Len(Made(s, n, b)) + x
                           /\ x # 0 => Whole(s, n)[Len(Made(s, n, b)) + x] = s[b + x]
<1>1. Len(s) \in Nat /\ b \in 0..Len(s)
    OBVIOUS
<1>2. Len(Made(s, n, b)) \in Nat
    BY <1>1, MadeFacts
<1> DEFINE Has(x) == /\ Len(Made(s, n, b + x)) = Len(Made(s, n, b)) + x
                     /\ x # 0 => Whole(s, n)[Len(Made(s, n, b)) + x] = s[b + x]
<1>3. PICK T : T = {x \in 0..l : Has(x)}
    OBVIOUS
<1>4. 0 \in T
    <2>1. Has(0)
        BY <1>2
    <2> QED
        BY <2>1, <1>3
<1>5. ASSUME NEW x \in 1..l, x - 1 \in T PROVE x \in T
    <2>1. PICK j \in 1..Len(s) : j = b + x /\ j - 1 = b + (x - 1)
        BY <1>1
    <2>2. Len(Made(s, n, j - 1)) = Len(Made(s, n, b)) + (x - 1)
        BY <1>3, <1>5, <2>1
    <2>3. Piece(s, n, j) = <<s[j]>>
        BY <2>1, PieceFacts
    <2>4. Len(Piece(s, n, j)) = 1 /\ 1 \in 1..Len(Piece(s, n, j)) /\ Piece(s, n, j)[1] = s[j]
        BY <2>3
    <2>5. /\ Len(Made(s, n, j)) = Len(Made(s, n, j - 1)) + 1
          /\ Whole(s, n)[Len(Made(s, n, j - 1)) + 1] = s[j]
        <3>1. PICK a \in Nat : a = Len(Made(s, n, j - 1))
            BY <1>1, <2>1, MadeFacts, SMTT(30)
        <3>2. PICK z \in Seq(Elements) : z = Whole(s, n)
            BY MadeFacts
        <3>3. PICK t \in Seq(Elements) : t = Piece(s, n, j)
            BY PieceFacts
        <3>4. OccursAt(z, t, a) /\ Len(Made(s, n, j)) = a + Len(t)
            BY <3>1, <3>2, <3>3, MadeAt
        <3>5. \A y \in 1..Len(t) : z[a + y] = t[y]
            BY <3>4, OccursMeans
        <3>6. Len(t) = 1 /\ t[1] = s[j]
            BY <2>4, <3>3
        <3> QED
            BY <3>1, <3>2, <3>4, <3>5, <3>6
    <2>6. Len(Made(s, n, j - 1)) + 1 = Len(Made(s, n, b)) + x
        BY <1>2, <2>2
    <2>7. Has(x)
        BY <2>1, <2>5, <2>6
    <2> HIDE DEF Has
    <2> QED
        BY <2>7, <1>3
<1>6. \A x \in 0..l : x \in T
    <2> HIDE DEF Has
    <2> QED
        BY <1>4, <1>5, BoundedInduction
<1> QED
    BY <1>3, <1>6

\* The same, up to a place.
LEMMA SinglesTo ==
    ASSUME NEW s \in Seq(Symbols), NEW n \in 0..Len(Entries),
           NEW b \in Nat, NEW e \in Nat, b <= e, e <= Len(s),
           \A g \in (b + 1)..e : ~Covers(s, n, g)
    PROVE  \A g \in b..e : /\ Len(Made(s, n, g)) = Len(Made(s, n, b)) + (g - b)
                           /\ g # b => Whole(s, n)[Len(Made(s, n, b)) + (g - b)] = s[g]
<1>1. PICK l \in Nat : l = e - b
    OBVIOUS
<1>2. \A x \in 1..l : ~Covers(s, n, b + x)
    <2>1. \A x \in 1..l : b + x \in (b + 1)..e
        BY <1>1
    <2> QED
        BY <2>1
<1>3. b + l <= Len(s)
    BY <1>1
<1>4. \A x \in 0..l : /\ Len(Made(s, n, b + x)) = Len(Made(s, n, b)) + x
                      /\ x # 0 => Whole(s, n)[Len(Made(s, n, b)) + x] = s[b + x]
    BY <1>2, <1>3, Singles
<1>5. SUFFICES ASSUME NEW g \in b..e
               PROVE  /\ Len(Made(s, n, g)) = Len(Made(s, n, b)) + (g - b)
                      /\ g # b => Whole(s, n)[Len(Made(s, n, b)) + (g - b)] = s[g]
    OBVIOUS
<1>6. PICK x \in 0..l : x = g - b /\ g = b + x
    BY <1>1
<1>7. Len(Made(s, n, b + x)) = Len(Made(s, n, b)) + x
    BY <1>4
<1>8. x # 0 => Whole(s, n)[Len(Made(s, n, b)) + x] = s[b + x]
    BY <1>4
<1>9. g # b => x # 0
    BY <1>6
<1> QED
    BY <1>6, <1>7, <1>8, <1>9

\* A value found in what was made stands in the text.
LEMMA ReadBack ==
    ASSUME NEW s \in Seq(Symbols), NEW n \in 0..Len(Entries), NEW b \in Nat,
           b < Len(s), ~Covers(s, n, b + 1),
           NEW v \in Seq(Symbols), v # <<>>, OccursAt(Whole(s, n), v, Len(Made(s, n, b)))
    PROVE  /\ OccursAt(s, v, b)
           /\ \A x \in 1..Len(v) : ~Covers(s, n, b + x)
<1>1. PICK a \in Nat : a = Len(Made(s, n, b))
    BY MadeFacts
<1>2. /\ Len(s) \in Nat /\ Len(v) \in Nat \ {0}
      /\ Whole(s, n) \in Seq(Elements) /\ Len(Whole(s, n)) \in Nat /\ v \in Seq(Elements)
    <2>1. v \in Seq(Elements)
        BY SeqMonotonic DEF Elements
    <2>2. Len(s) \in Nat /\ Len(v) \in Nat \ {0}
        BY EmptySeq
    <2> QED
        BY <2>1, <2>2, MadeFacts
<1>3. a + Len(v) <= Len(Whole(s, n)) /\ \A x \in 1..Len(v) : Whole(s, n)[a + x] = v[x]
    <2>1. PICK w \in Seq(Elements) : w = Whole(s, n)
        BY <1>2
    <2>2. OccursAt(w, v, a)
        BY <2>1, <1>1
    <2>3. a + Len(v) <= Len(w) /\ \A x \in 1..Len(v) : w[a + x] = v[x]
        BY <2>2, <1>2, OccursMeans
    <2> QED
        BY <2>1, <2>3
<1> DEFINE Bare(x) == b + x <= Len(s) /\ \A y \in 1..x : ~Covers(s, n, b + y)
<1>4. PICK T : T = {x \in 0..(Len(v) - 1) : Bare(x + 1)}
    OBVIOUS
<1>5. 0 \in T
    <2>1. \A y \in 1..(0 + 1) : b + y = b + 1
        OBVIOUS
    <2>2. b + (0 + 1) <= Len(s)
        BY <1>2
    <2>3. Bare(0 + 1)
        BY <2>1, <2>2
    <2> HIDE DEF Bare
    <2> QED
        BY <1>2, <1>4, <2>3
<1>6. ASSUME NEW x \in 1..(Len(v) - 1), x - 1 \in T PROVE x \in T
    <2>1. Bare(x)
        <3>1. (x - 1) + 1 = x
            OBVIOUS
        <3>2. Bare((x - 1) + 1)
            BY <1>4, <1>6
        <3> HIDE DEF Bare
        <3> QED
            BY <3>1, <3>2
    <2>2. x \in Nat /\ x \in 0..x /\ b + x <= Len(s) /\ \A y \in 1..x : ~Covers(s, n, b + y)
        BY <2>1
    <2> HIDE DEF Bare
    <2>3. Len(Made(s, n, b + x)) = a + x
        BY <2>2, <1>1, Singles, ZenonT(60)
    <2>4. b + x # Len(s)
        <3>1. SUFFICES ASSUME b + x = Len(s) PROVE FALSE
            OBVIOUS
        <3>2. Len(Whole(s, n)) = a + x
            BY <2>3, <3>1, MadeFacts
        <3> QED
            BY <3>2, <1>2, <1>3
    <2>5. PICK g \in 1..Len(s) : g = b + (x + 1) /\ g - 1 = b + x
        BY <2>2, <2>4, <1>2
    <2>6. ~Covers(s, n, g)
        <3>1. SUFFICES ASSUME Covers(s, n, g) PROVE FALSE
            OBVIOUS
        <3>2. ~Covers(s, n, g - 1)
            <4>1. ~Covers(s, n, b + x)
                BY <2>2
            <4> QED
                BY <4>1, <2>5
        <3>3. PICK i \in 1..n : Leads(s, i, g)
            BY <3>1, <3>2, CoverBegins
        <3>4. Piece(s, n, g) = Marker(Entries[i])
            BY <3>3, PieceFacts
        <3>5. PICK k \in Keys : k = Entries[i]
            <4>1. i \in 1..Len(Entries)
                BY EntriesFacts
            <4> QED
                BY <4>1, EntryFacts
        <3>6. 1 \in 1..Len(Piece(s, n, g)) /\ Piece(s, n, g)[1] = <<k, 1>>
            <4>1. PICK m : m = Marker(k)
                OBVIOUS
            <4>2. Len(m) = MarkerLen /\ 1 \in 1..MarkerLen /\ m[1] = <<k, 1>>
                BY <4>1, MarkerFacts
            <4> QED
                BY <4>1, <4>2, <3>4, <3>5
        <3>7. Whole(s, n)[Len(Made(s, n, g - 1)) + 1] = <<k, 1>>
            <4>1. PICK a1 \in Nat : a1 = Len(Made(s, n, g - 1))
                <5>1. g - 1 \in 0..Len(s)
                    BY <1>2
                <5> QED
                    BY <5>1, MadeFacts
            <4>2. PICK z \in Seq(Elements) : z = Whole(s, n)
                BY MadeFacts
            <4>3. PICK t \in Seq(Elements) : t = Piece(s, n, g)
                BY PieceFacts
            <4>4. OccursAt(z, t, a1)
                BY <4>1, <4>2, <4>3, MadeAt
            <4>5. \A y \in 1..Len(t) : z[a1 + y] = t[y]
                BY <4>4, OccursMeans
            <4> QED
                BY <3>6, <4>1, <4>2, <4>3, <4>5
        <3>8. Len(Made(s, n, g - 1)) + 1 = a + (x + 1)
            BY <2>3, <2>5
        <3>9. v[x + 1] = <<k, 1>>
            <4>1. x + 1 \in 1..Len(v)
                BY <1>2
            <4> QED
                BY <4>1, <1>3, <3>7, <3>8
        <3>10. v[x + 1] \in Symbols
            <4>1. x + 1 \in 1..Len(v)
                BY <1>2
            <4> QED
                BY <4>1, ElementOfSeq
        <3>11. <<k, 1>> \in Markers
            <4>1. 1 \in 1..MarkerLen
                BY MarkerFacts
            <4> QED
                BY <4>1 DEF Markers
        <3> QED
            BY <3>9, <3>10, <3>11, RedactionAssumption
    <2>7. b + (x + 1) <= Len(s)
        BY <2>5
    <2>8. \A y \in 1..(x + 1) : ~Covers(s, n, b + y)
        <3>1. ASSUME NEW y \in 1..(x + 1) PROVE ~Covers(s, n, b + y)
            <4>1. y \in 1..x \/ y = x + 1
                OBVIOUS
            <4> QED
                BY <4>1, <2>2, <2>5, <2>6
        <3> QED
            BY <3>1
    <2>9. Bare(x + 1)
        BY <2>7, <2>8 DEF Bare
    <2> QED
        BY <2>9, <1>4
<1>7. Len(v) - 1 \in T
    <2> HIDE DEF Bare
    <2>1. Len(v) - 1 \in Nat
        BY <1>2
    <2>2. \A x \in 0..(Len(v) - 1) : x \in T
        BY <2>1, <1>5, <1>6, BoundedInduction
    <2> QED
        BY <2>1, <2>2
<1>8. Bare(Len(v))
    <2>1. (Len(v) - 1) + 1 = Len(v)
        BY <1>2
    <2>2. Bare((Len(v) - 1) + 1)
        BY <1>4, <1>7
    <2> HIDE DEF Bare
    <2> QED
        BY <2>1, <2>2
<1>9. b + Len(v) <= Len(s) /\ \A y \in 1..Len(v) : ~Covers(s, n, b + y)
    BY <1>8
<1> HIDE DEF Bare
<1>10. \A x \in 0..Len(v) : x # 0 => Whole(s, n)[a + x] = s[b + x]
    <2>1. Len(v) \in Nat
        BY <1>2
    <2>2. \A x \in 0..Len(v) : x # 0 => Whole(s, n)[Len(Made(s, n, b)) + x] = s[b + x]
        BY <2>1, <1>9, Singles, ZenonT(60)
    <2> QED
        BY <2>2, <1>1
<1>11. \A x \in 1..Len(v) : s[b + x] = v[x]
    <2>1. \A x \in 1..Len(v) : x \in 0..Len(v) /\ x # 0
        BY <1>2
    <2> QED
        BY <2>1, <1>3, <1>10
<1>12. OccursAt(s, v, b)
    BY <1>9, <1>11, OccursMeans
<1> QED
    BY <1>9, <1>12

\* What becomes of s behind its first i elements.
Left(s, v, m, X, i) == (CHOOSE f : Scans(s, v, m, X, f) /\ Replaced(s, v, m) = f[0])[i]

\* What is left at the front and at the end of s.
LEMMA LeftFacts ==
    ASSUME NEW X, NEW s \in Seq(X), NEW v \in Seq(X), v # <<>>, NEW m \in Seq(X)
    PROVE  /\ Left(s, v, m, X, 0) = Replaced(s, v, m)
           /\ Left(s, v, m, X, Len(s)) = <<>>
           /\ \A i \in 0..Len(s) : Left(s, v, m, X, i) \in Seq(X)
<1>1. Len(s) \in Nat
    OBVIOUS
<1>2. PICK f : f = CHOOSE g : Scans(s, v, m, X, g) /\ Replaced(s, v, m) = g[0]
    OBVIOUS
<1>3. Scans(s, v, m, X, f) /\ Replaced(s, v, m) = f[0]
    BY <1>2, ReplacedScan
<1>4. f[Len(s)] = <<>> /\ \A i \in 0..Len(s) : f[i] \in Seq(X)
    <2>1. \A i \in 0..Len(s) : f[i] \in Seq(X)
        BY <1>3 DEF Scans
    <2>2. Len(s) \in 0..Len(s)
        BY <1>1
    <2>3. f[Len(s)] = <<>>
        BY <1>3, <2>2, Zenon DEF Scans
    <2> QED
        BY <2>1, <2>3
<1> QED
    BY <1>2, <1>3, <1>4 DEF Left

\* s and t behind it.
Then(s, t) == s \o t

\* A sequence and nothing, and the length of two.
LEMMA ThenFacts ==
    ASSUME NEW X, NEW s \in Seq(X), NEW t \in Seq(X)
    PROVE  /\ Then(s, t) \in Seq(X) /\ Then(<<>>, s) = s /\ Then(s, <<>>) = s
           /\ Len(Then(s, t)) = Len(s) + Len(t)
<1>1. s \o t \in Seq(X) /\ <<>> \o s = s /\ s \o <<>> = s /\ Len(s \o t) = Len(s) + Len(t)
    OBVIOUS
<1> QED
    BY <1>1, Zenon DEF Then

\* Of three sequences any two may be joined first.
LEMMA ThenThen ==
    ASSUME NEW X, NEW s \in Seq(X), NEW t \in Seq(X), NEW u \in Seq(X)
    PROVE  Then(Then(s, t), u) = Then(s, Then(t, u))
<1>1. (s \o t) \o u = s \o (t \o u)
    OBVIOUS
<1> QED
    BY <1>1, Zenon DEF Then

\* One element may be joined to what is before it or behind it.
LEMMA ThenOne ==
    ASSUME NEW X, NEW s \in Seq(X), NEW y \in X, NEW u \in Seq(X)
    PROVE  Then(s, Then(<<y>>, u)) = Then(Then(s, <<y>>), u)
<1>1. <<y>> \in Seq(X)
    OBVIOUS
<1>2. PICK c \in Seq(X) : c = <<y>>
    BY <1>1
<1>3. Then(s, Then(c, u)) = Then(Then(s, c), u)
    BY ThenThen
<1> QED
    BY <1>2, <1>3, Zenon

\* An occurrence becomes the marker and the scan goes on behind it.
LEMMA LeftFound ==
    ASSUME NEW X, NEW s \in Seq(X), NEW v \in Seq(X), v # <<>>, NEW m \in Seq(X),
           NEW i \in Nat, i < Len(s), OccursAt(s, v, i)
    PROVE  Left(s, v, m, X, i) = Then(m, Left(s, v, m, X, i + Len(v)))
<1>2. PICK f : f = CHOOSE g : Scans(s, v, m, X, g) /\ Replaced(s, v, m) = g[0]
    OBVIOUS
<1>3. Scans(s, v, m, X, f)
    BY <1>2, ReplacedScan
<1>4. i \in 0..Len(s) /\ i # Len(s)
    OBVIOUS
<1>5. f[i] = IF i = Len(s) THEN <<>>
             ELSE IF OccursAt(s, v, i) THEN m \o f[i + Len(v)] ELSE <<s[i + 1]>> \o f[i + 1]
    BY <1>3, <1>4, Zenon DEF Scans
<1>6. f[i] = m \o f[i + Len(v)]
    BY <1>4, <1>5, Zenon
<1> QED
    BY <1>2, <1>6, Zenon DEF Left, Then

\* Any other element stays and the scan goes on behind it.
LEMMA LeftPlain ==
    ASSUME NEW X, NEW s \in Seq(X), NEW v \in Seq(X), v # <<>>, NEW m \in Seq(X),
           NEW i \in Nat, i < Len(s), ~OccursAt(s, v, i)
    PROVE  Left(s, v, m, X, i) = Then(<<s[i + 1]>>, Left(s, v, m, X, i + 1))
<1>2. PICK f : f = CHOOSE g : Scans(s, v, m, X, g) /\ Replaced(s, v, m) = g[0]
    OBVIOUS
<1>3. Scans(s, v, m, X, f)
    BY <1>2, ReplacedScan
<1>4. i \in 0..Len(s) /\ i # Len(s)
    OBVIOUS
<1>5. f[i] = IF i = Len(s) THEN <<>>
             ELSE IF OccursAt(s, v, i) THEN m \o f[i + Len(v)] ELSE <<s[i + 1]>> \o f[i + 1]
    BY <1>3, <1>4, Zenon DEF Scans
<1>6. f[i] = <<s[i + 1]>> \o f[i + 1]
    BY <1>4, <1>5, Zenon
<1> QED
    BY <1>2, <1>6, Zenon DEF Left, Then

\* What stands in s behind its first a elements, up to the element b.
Part(s, a, b) == SubSeq(s, a + 1, b)

\* A part and the element behind it.
LEMMA PartGrows ==
    ASSUME NEW X, NEW s \in Seq(X), NEW a \in Nat, NEW b \in Nat, a <= b, b < Len(s)
    PROVE  /\ Part(s, a, b) \in Seq(X) /\ s[b + 1] \in X
           /\ Part(s, a, b + 1) = Then(Part(s, a, b), <<s[b + 1]>>)
<1>1. Len(s) \in Nat /\ b + 1 \in 1..Len(s)
    OBVIOUS
<1>2. s[b + 1] \in X
    BY <1>1, ElementOfSeq
<1>3. PICK t : t = SubSeq(s, a + 1, b)
    OBVIOUS
<1>4. /\ t \in Seq(X) /\ Len(t) = b - a
      /\ \A x \in 1..(b - a) : t[x] = s[a + x]
    <2>1. \A x \in (a + 1)..b : s[x] \in X
        BY <1>1, ElementOfSeq
    <2> QED
        BY <2>1, <1>1, <1>3
<1>5. PICK w : w = SubSeq(s, a + 1, b + 1)
    OBVIOUS
<1>6. /\ w \in Seq(X) /\ Len(w) = (b - a) + 1
      /\ \A x \in 1..((b - a) + 1) : w[x] = s[a + x]
    <2>1. \A x \in (a + 1)..(b + 1) : s[x] \in X
        BY <1>1, ElementOfSeq
    <2> QED
        BY <2>1, <1>1, <1>5
<1>7. PICK y \in X : y = s[b + 1]
    BY <1>2
<1>8. PICK l \in Nat : l = b - a
    OBVIOUS
<1>9. Len(t) = l /\ Len(w) = l + 1
    BY <1>4, <1>6, <1>8
<1>10. w[l + 1] = y
    <2>1. a + (l + 1) = b + 1 /\ l + 1 \in 1..((b - a) + 1)
        BY <1>8
    <2> QED
        BY <2>1, <1>6, <1>7
<1>11. \A x \in 1..l : w[x] = t[x]
    <2>1. ASSUME NEW x \in 1..l PROVE w[x] = t[x]
        <3>1. x \in 1..(b - a) /\ x \in 1..((b - a) + 1)
            BY <1>8
        <3>2. w[x] = s[a + x]
            BY <3>1, <1>6
        <3>3. t[x] = s[a + x]
            BY <3>1, <1>4
        <3> QED
            BY <3>2, <3>3
    <2> QED
        BY <2>1
<1>12. w = Append(t, y)
    BY <1>4, <1>6, <1>9, <1>10, <1>11
<1>13. Append(t, y) = t \o <<y>>
    BY <1>4
<1>14. w = Then(t, <<y>>)
    BY <1>12, <1>13, Zenon DEF Then
<1> QED
    BY <1>2, <1>3, <1>4, <1>5, <1>7, <1>14 DEF Part

\* Where the value does not stand all stays as it was.
LEMMA Skip ==
    ASSUME NEW X, NEW s \in Seq(X), NEW v \in Seq(X), v # <<>>, NEW m \in Seq(X),
           NEW a \in Nat, NEW e \in Nat, a <= e, e <= Len(s),
           \A i \in a..(e - 1) : ~OccursAt(s, v, i)
    PROVE  Left(s, v, m, X, a) = Then(Part(s, a, e), Left(s, v, m, X, e))
<1>1. Len(s) \in Nat
    OBVIOUS
<1>2. \A i \in 0..Len(s) : Left(s, v, m, X, i) \in Seq(X)
    BY LeftFacts
<1> DEFINE Same(b) == Left(s, v, m, X, a) = Then(Part(s, a, b), Left(s, v, m, X, b))
<1>3. PICK T : T = {x \in 0..(e - a) : Same(a + x)}
    OBVIOUS
<1>4. 0 \in T
    <2>1. Part(s, a, a) = <<>>
        BY <1>1 DEF Part
    <2>2. PICK r \in Seq(X) : r = Left(s, v, m, X, a)
        BY <1>1, <1>2
    <2>3. Then(<<>>, r) = r
        BY ThenFacts
    <2>4. Same(a)
        BY <2>1, <2>2, <2>3, Zenon
    <2>5. a + 0 = a
        OBVIOUS
    <2> HIDE DEF Same
    <2> QED
        BY <2>4, <2>5, <1>3
<1>5. ASSUME NEW x \in 1..(e - a), x - 1 \in T PROVE x \in T
    <2>1. PICK b \in Nat : b = a + (x - 1) /\ b + 1 = a + x
        OBVIOUS
    <2>2. b < Len(s) /\ a <= b /\ b \in a..(e - 1) /\ b \in 0..Len(s) /\ b + 1 \in 0..Len(s)
        BY <1>1, <2>1
    <2>3. ~OccursAt(s, v, b)
        BY <2>2
    <2>4. Left(s, v, m, X, b) = Then(<<s[b + 1]>>, Left(s, v, m, X, b + 1))
        BY <2>2, <2>3, LeftPlain
    <2>5. Same(b)
        <3> HIDE DEF Same
        <3>1. Same(a + (x - 1))
            BY <1>3, <1>5
        <3> QED
            BY <2>1, <3>1
    <2>6. PICK t \in Seq(X) : t = Part(s, a, b)
        BY <2>2, PartGrows
    <2>7. PICK y \in X : y = s[b + 1]
        BY <2>2, PartGrows
    <2>8. PICK r \in Seq(X) : r = Left(s, v, m, X, b + 1)
        BY <2>2, <1>2
    <2>9. Part(s, a, b + 1) = Then(t, <<y>>)
        BY <2>2, <2>6, <2>7, PartGrows
    <2>10. Left(s, v, m, X, a) = Then(t, Then(<<y>>, r))
        BY <2>4, <2>5, <2>6, <2>7, <2>8, Zenon
    <2>11. Then(t, Then(<<y>>, r)) = Then(Then(t, <<y>>), r)
        BY ThenOne
    <2>12. Same(b + 1)
        BY <2>8, <2>9, <2>10, <2>11, Zenon
    <2> HIDE DEF Same
    <2> QED
        BY <2>1, <2>12, <1>3
<1>6. e - a \in T
    <2> HIDE DEF Same
    <2>2. e - a \in Nat
        OBVIOUS
    <2>1. \A x \in 0..(e - a) : x \in T
        BY <2>2, <1>4, <1>5, BoundedInduction
    <2> QED
        BY <2>1
<1> HIDE DEF Same
<1>7. Same(a + (e - a)) /\ a + (e - a) = e
    BY <1>3, <1>6
<1>8. Same(e)
    BY <1>7
<1> QED
    BY <1>8 DEF Same

\* What the entry n makes of what the ones before it made.
Rest(s, n, i) == Left(Whole(s, n - 1), V(n), Marker(Entries[n]), Elements, i)

\* It is all the entry makes at the front, and nothing at the end.
LEMMA RestFacts ==
    ASSUME NEW s \in Seq(Symbols), NEW n \in 1..Len(Entries)
    PROVE  /\ Rest(s, n, 0) = Replaced(Whole(s, n - 1), V(n), Marker(Entries[n]))
           /\ Rest(s, n, Len(Whole(s, n - 1))) = <<>>
           /\ \A i \in 0..Len(Whole(s, n - 1)) : Rest(s, n, i) \in Seq(Elements)
<1>1. n - 1 \in 0..Len(Entries)
    BY EntriesFacts
<1>2. PICK w \in Seq(Elements) : w = Whole(s, n - 1)
    BY <1>1, MadeFacts
<1>3. PICK v \in Seq(Elements) : v = V(n) /\ v # <<>>
    BY VFacts
<1>4. PICK m \in Seq(Elements) : m = Marker(Entries[n])
    BY EntryFacts
<1>5. /\ Left(w, v, m, Elements, 0) = Replaced(w, v, m)
      /\ Left(w, v, m, Elements, Len(w)) = <<>>
      /\ \A i \in 0..Len(w) : Left(w, v, m, Elements, i) \in Seq(Elements)
    BY <1>2, <1>3, <1>4, LeftFacts
<1> QED
    BY <1>2, <1>3, <1>4, <1>5 DEF Rest

\* An occurrence becomes the marker, any other element stays.
LEMMA RestStep ==
    ASSUME NEW s \in Seq(Symbols), NEW n \in 1..Len(Entries),
           NEW i \in Nat, i < Len(Whole(s, n - 1))
    PROVE  /\ OccursAt(Whole(s, n - 1), V(n), i) =>
                 Rest(s, n, i) = Then(Marker(Entries[n]), Rest(s, n, i + Len(V(n))))
           /\ ~OccursAt(Whole(s, n - 1), V(n), i) =>
                 Rest(s, n, i) = Then(<<Whole(s, n - 1)[i + 1]>>, Rest(s, n, i + 1))
<1>1. n - 1 \in 0..Len(Entries)
    BY EntriesFacts
<1>2. PICK w \in Seq(Elements) : w = Whole(s, n - 1)
    BY <1>1, MadeFacts
<1>3. PICK v \in Seq(Elements) : v = V(n) /\ v # <<>>
    BY VFacts
<1>4. PICK m \in Seq(Elements) : m = Marker(Entries[n])
    BY EntryFacts
<1>5. v # <<>> /\ i < Len(w)
    BY <1>2, <1>3
<1>6. OccursAt(w, v, i) =>
          Left(w, v, m, Elements, i) = Then(m, Left(w, v, m, Elements, i + Len(v)))
    BY <1>5, LeftFound
<1>7. ~OccursAt(w, v, i) =>
          Left(w, v, m, Elements, i) = Then(<<w[i + 1]>>, Left(w, v, m, Elements, i + 1))
    BY <1>5, LeftPlain
<1> QED
    BY <1>2, <1>3, <1>4, <1>6, <1>7, Zenon DEF Rest

\* The marker of an earlier entry stays.
LEMMA RestMarker ==
    ASSUME NEW s \in Seq(Symbols), NEW n \in 1..Len(Entries), NEW a \in Nat,
           NEW k \in Keys, OccursAt(Whole(s, n - 1), Marker(k), a)
    PROVE  Rest(s, n, a) = Then(Marker(k), Rest(s, n, a + MarkerLen))
<1>1. n - 1 \in 0..Len(Entries)
    BY EntriesFacts
<1>2. PICK w \in Seq(Elements) : w = Whole(s, n - 1)
    BY <1>1, MadeFacts
<1>3. PICK v \in Seq(Elements) : v = V(n) /\ v # <<>> /\ v \in Seq(Symbols) /\ Len(v) \in Nat \ {0}
    BY VFacts
<1>4. PICK m \in Seq(Elements) : m = Marker(Entries[n])
    BY EntryFacts
<1>5. PICK q \in Seq(Elements) : /\ q = Marker(k) /\ Len(q) = MarkerLen /\ MarkerLen \in Nat
                                 /\ \A i \in 1..MarkerLen : q[i] = <<k, i>>
    BY MarkerFacts
<1>6. OccursAt(w, q, a)
    BY <1>2, <1>5
<1>7. a + MarkerLen <= Len(w) /\ \A x \in 1..MarkerLen : w[a + x] = <<k, x>>
    <2>1. a + Len(q) <= Len(w) /\ \A x \in 1..Len(q) : w[a + x] = q[x]
        BY <1>6, OccursMeans
    <2> QED
        BY <2>1, <1>5
<1>8. Part(w, a, a + MarkerLen) = q
    BY <1>5, <1>6 DEF OccursAt, Part
<1>9. \A b \in a..(a + MarkerLen - 1) : ~OccursAt(w, v, b)
    <2>1. SUFFICES ASSUME NEW b \in a..(a + MarkerLen - 1), OccursAt(w, v, b) PROVE FALSE
        OBVIOUS
    <2>2. PICK x \in 0..(MarkerLen - 1) : b = a + x /\ b \in Nat
        <3>1. b - a \in 0..(MarkerLen - 1) /\ b = a + (b - a) /\ b \in Nat
            BY <1>5
        <3> QED
            BY <3>1
    <2>3. \A y \in 1..Len(v) : w[b + y] = v[y]
        <3>1. OccursAt(w, v, b)
            BY <2>1, <2>2
        <3> QED
            BY <3>1, OccursMeans
    <2>4. 1 \in 1..Len(v)
        BY <1>3
    <2>5. w[b + 1] = v[1]
        BY <2>3, <2>4
    <2>6. v[1] \in Symbols
        BY <1>3, <2>4, ElementOfSeq
    <2>7. x + 1 \in 1..MarkerLen /\ a + (x + 1) = b + 1
        BY <1>5, <2>2
    <2>8. w[b + 1] = <<k, x + 1>>
        BY <1>7, <2>7
    <2>9. <<k, x + 1>> \in Markers
        BY <2>7 DEF Markers
    <2> QED
        BY <2>5, <2>6, <2>8, <2>9, RedactionAssumption
<1>10. Left(w, v, m, Elements, a) =
           Then(Part(w, a, a + MarkerLen), Left(w, v, m, Elements, a + MarkerLen))
    <2>1. PICK e \in Nat : e = a + MarkerLen
        BY <1>5
    <2>2. v # <<>> /\ a <= e /\ e <= Len(w) /\ \A i \in a..(e - 1) : ~OccursAt(w, v, i)
        BY <2>1, <1>3, <1>5, <1>7, <1>9
    <2>3. Left(w, v, m, Elements, a) = Then(Part(w, a, e), Left(w, v, m, Elements, e))
        BY <2>2, Skip
    <2> QED
        BY <2>1, <2>3
<1> QED
    BY <1>2, <1>3, <1>4, <1>5, <1>8, <1>10, Zenon DEF Rest

-----------------------------------------------------------------------------
\* The value n, where it is still there, does not lie across the place behind
\* the first g elements.
Clean(s, n, g) ==
    \A b \in 0..(g - 1) :
        OccursAt(s, V(n), b) /\ ~Covers(s, n - 1, b + 1) => b + Len(V(n)) <= g

\* Up to that place the entry n has made what it should.
Right(s, n, g) == Rest(s, n, 0) = Then(Made(s, n, g), Rest(s, n, Len(Made(s, n - 1, g))))

\* An occurrence that is not part of an earlier entry's is bare throughout.
LEMMA BareOccurrence ==
    ASSUME ValuesApart, NEW s \in Seq(Symbols), NEW n \in 1..Len(Entries), NEW b \in Nat,
           OccursAt(s, V(n), b),
           NEW h \in (b + 1)..(b + Len(V(n))), ~Covers(s, n - 1, h)
    PROVE  \A g \in (b + 1)..(b + Len(V(n))) : ~Covers(s, n - 1, g)
    BY Nested

\* There the value is found.
LEMMA BareFound ==
    ASSUME ValuesApart, NEW s \in Seq(Symbols), NEW n \in 1..Len(Entries), NEW b \in Nat,
           OccursAt(s, V(n), b), ~Covers(s, n - 1, b + 1)
    PROVE  /\ OccursAt(Whole(s, n - 1), V(n), Len(Made(s, n - 1, b)))
           /\ Len(Made(s, n - 1, b + Len(V(n)))) = Len(Made(s, n - 1, b)) + Len(V(n))
<1>1. n - 1 \in 0..Len(Entries)
    BY EntriesFacts
<1>2. PICK v \in Seq(Elements) : v = V(n) /\ v \in Seq(Symbols) /\ Len(v) \in Nat \ {0}
    BY VFacts
<1>3. Len(s) \in Nat /\ b + Len(v) <= Len(s) /\ \A x \in 1..Len(v) : s[b + x] = v[x]
    BY <1>2, OccursInText
<1>4. \A g \in (b + 1)..(b + Len(v)) : ~Covers(s, n - 1, g)
    <2>1. b + 1 \in (b + 1)..(b + Len(V(n)))
        BY <1>2
    <2> QED
        BY <2>1, <1>2, BareOccurrence
<1>5. \A x \in 1..Len(v) : ~Covers(s, n - 1, b + x)
    <2>1. \A x \in 1..Len(v) : b + x \in (b + 1)..(b + Len(v))
        BY <1>2
    <2> QED
        BY <2>1, <1>4
<1>6. PICK a \in Nat : a = Len(Made(s, n - 1, b))
    <2>1. b \in 0..Len(s)
        BY <1>2, <1>3
    <2> QED
        BY <1>1, <2>1, MadeFacts
<1>7. PICK w \in Seq(Elements) : w = Whole(s, n - 1) /\ Len(w) \in Nat
    BY <1>1, MadeFacts
<1>8. \A x \in 0..Len(v) : /\ Len(Made(s, n - 1, b + x)) = Len(Made(s, n - 1, b)) + x
                           /\ x # 0 => Whole(s, n - 1)[Len(Made(s, n - 1, b)) + x] = s[b + x]
    <2>1. Len(v) \in Nat /\ b + Len(v) <= Len(s)
        BY <1>2, <1>3
    <2> QED
        BY <1>1, <1>5, <2>1, Singles, Zenon
<1>9. Len(Made(s, n - 1, b + Len(v))) = a + Len(v)
    <2>1. Len(v) \in 0..Len(v)
        BY <1>2
    <2> QED
        BY <2>1, <1>6, <1>8
<1>10. \A x \in 1..Len(v) : w[a + x] = v[x]
    <2>1. ASSUME NEW x \in 1..Len(v) PROVE w[a + x] = v[x]
        <3>1. x \in 0..Len(v) /\ x # 0
            BY <1>2
        <3> QED
            BY <3>1, <1>3, <1>6, <1>7, <1>8
    <2> QED
        BY <2>1
<1>11. a + Len(v) <= Len(w)
    <2>1. PICK e \in 1..Len(s) : e = b + Len(v)
        BY <1>2, <1>3
    <2>2. PICK ss \in Seq(Seq(Elements)) : ss = Pieces(s, n - 1) /\ Len(ss) = Len(s)
        BY <1>1, PiecesType
    <2>3. e \in 0..Len(ss) /\ Len(ss) \in e..Len(ss)
        BY <2>2, <1>3
    <2>4. Len(First(ss, Elements, e)) <= Len(First(ss, Elements, Len(ss)))
        BY <2>3, FirstPrefix
    <2>5. Len(Made(s, n - 1, e)) <= Len(Made(s, n - 1, Len(s)))
        BY <2>2, <2>4 DEF Made
    <2>6. Made(s, n - 1, Len(s)) = w
        BY <1>1, <1>7, MadeFacts
    <2> QED
        BY <2>1, <2>5, <2>6, <1>9
<1>12. OccursAt(w, v, a)
    BY <1>10, <1>11, OccursMeans
<1> QED
    BY <1>2, <1>6, <1>7, <1>9, <1>12

\* What becomes of the next element is joined behind.
LEMMA MadeThen ==
    ASSUME NEW s \in Seq(Symbols), NEW n \in 0..Len(Entries), NEW j \in 1..Len(s)
    PROVE  Made(s, n, j) = Then(Made(s, n, j - 1), Piece(s, n, j))
    BY MadeStep, Zenon DEF Then

\* A value whose place no earlier one took becomes its marker.
LEMMA MadeOccurrence ==
    ASSUME ValuesApart, NEW s \in Seq(Symbols), NEW n \in 1..Len(Entries), NEW b \in Nat,
           OccursAt(s, V(n), b), ~Covers(s, n - 1, b + 1)
    PROVE  Made(s, n, b + Len(V(n))) = Then(Made(s, n, b), Marker(Entries[n]))
<1>1. n - 1 \in 0..Len(Entries) /\ n \in 0..Len(Entries) /\ n \in 1..n
    BY EntriesFacts
<1>2. PICK l \in Nat : l = Len(V(n)) /\ l # 0
    BY VFacts
<1>3. Len(s) \in Nat /\ b + l <= Len(s)
    BY <1>2, OccursInText
<1>4. \A g \in (b + 1)..(b + l) : ~Covers(s, n - 1, g)
    <2>1. b + 1 \in (b + 1)..(b + Len(V(n)))
        BY <1>2
    <2> QED
        BY <2>1, <1>2, BareOccurrence
<1>5. \A g \in (b + 1)..(b + l) : g \in 1..Len(s) /\ Covers(s, n, g)
    <2>1. SUFFICES ASSUME NEW g \in (b + 1)..(b + l) PROVE g \in 1..Len(s) /\ Covers(s, n, g)
        OBVIOUS
    <2>2. g \in 1..Len(s) /\ b \in 0..(g - 1) /\ g <= b + Len(V(n))
        BY <1>2, <1>3
    <2> QED
        BY <2>2, <1>1 DEF Covers
<1>6. PICK m \in Seq(Elements) : m = Marker(Entries[n])
    BY EntryFacts
<1>7. PICK u \in Seq(Elements) : u = Made(s, n, b)
    <2>1. b \in 0..Len(s)
        BY <1>3
    <2> QED
        BY <1>1, <2>1, MadeFacts
<1>8. Piece(s, n, b + 1) = m
    <2>1. b + 1 \in 1..Len(s) /\ ~Covers(s, n - 1, b + 1) /\ (b + 1) - 1 = b
        BY <1>2, <1>3
    <2>2. OccursAt(s, V(n), (b + 1) - 1)
        BY <2>1
    <2> QED
        BY <2>1, <2>2, <1>6, PieceStep
<1>9. \A g \in (b + 2)..(b + l) : Piece(s, n, g) = <<>>
    <2>1. SUFFICES ASSUME NEW g \in (b + 2)..(b + l) PROVE Piece(s, n, g) = <<>>
        OBVIOUS
    <2>2. g \in (b + 1)..(b + l)
        OBVIOUS
    <2>3. g \in 1..Len(s) /\ Covers(s, n, g) /\ ~Covers(s, n - 1, g)
        BY <2>2, <1>4, <1>5
    <2>4. ~OccursAt(s, V(n), g - 1)
        <3>1. SUFFICES ASSUME OccursAt(s, V(n), g - 1) PROVE FALSE
            OBVIOUS
        <3>2. PICK c \in Nat : c = g - 1
            OBVIOUS
        <3>3. OccursAt(s, V(n), c) /\ b < c /\ c < b + Len(V(n))
            BY <3>1, <3>2, <1>2
        <3>4. c + Len(V(n)) <= b + Len(V(n))
            BY <3>3, NoOverlap
        <3> QED
            BY <3>3, <3>4, <1>2
    <2> QED
        BY <2>3, <2>4, PieceStep
<1>10. PICK T : T = {x \in 0..(l - 1) : Made(s, n, (b + 1) + x) = Then(u, m)}
    OBVIOUS
<1>11. 0 \in T
    <2>1. b + 1 \in 1..Len(s) /\ (b + 1) - 1 = b /\ (b + 1) + 0 = b + 1 /\ 0 \in 0..(l - 1)
        BY <1>2, <1>3
    <2>2. Made(s, n, b + 1) = Then(Made(s, n, (b + 1) - 1), Piece(s, n, b + 1))
        BY <1>1, <2>1, MadeThen
    <2>3. Made(s, n, b + 1) = Then(u, m)
        BY <2>1, <2>2, <1>7, <1>8
    <2> QED
        BY <2>1, <2>3, <1>10
<1>12. ASSUME NEW x \in 1..(l - 1), x - 1 \in T PROVE x \in T
    <2>1. PICK g \in (b + 2)..(b + l) : g = (b + 1) + x /\ g - 1 = (b + 1) + (x - 1)
        OBVIOUS
    <2>2. g \in 1..Len(s) /\ Piece(s, n, g) = <<>>
        BY <1>3, <1>9
    <2>3. Made(s, n, g) = Then(Made(s, n, g - 1), Piece(s, n, g))
        BY <1>1, <2>2, MadeThen
    <2>4. Made(s, n, g - 1) = Then(u, m)
        BY <2>1, <1>10, <1>12
    <2>5. PICK w \in Seq(Elements) : w = Then(u, m)
        BY ThenFacts
    <2>6. Then(w, <<>>) = w
        BY ThenFacts
    <2>7. Made(s, n, g) = Then(u, m)
        BY <2>2, <2>3, <2>4, <2>5, <2>6
    <2> QED
        BY <2>1, <2>7, <1>10
<1>13. l - 1 \in T
    <2>1. l - 1 \in Nat
        BY <1>2
    <2>2. \A x \in 0..(l - 1) : x \in T
        BY <2>1, <1>11, <1>12, BoundedInduction
    <2> QED
        BY <2>1, <2>2
<1>14. (b + 1) + (l - 1) = b + l
    BY <1>2
<1> QED
    BY <1>2, <1>6, <1>7, <1>10, <1>13, <1>14

\* The entry n makes the right of an element that is in none of its values.
LEMMA RightElement ==
    ASSUME ValuesApart, NEW s \in Seq(Symbols), NEW n \in 1..Len(Entries),
           NEW j \in 1..Len(s), Clean(s, n, j),
           \A b \in 0..(j - 1) : ~(/\ OccursAt(s, V(n), b) /\ ~Covers(s, n - 1, b + 1)
                                   /\ b + Len(V(n)) = j)
    PROVE  Rest(s, n, Len(Made(s, n - 1, j - 1))) =
               Then(Piece(s, n, j), Rest(s, n, Len(Made(s, n - 1, j))))
<1>1. /\ n - 1 \in 0..Len(Entries) /\ n \in 0..Len(Entries) /\ 1..(n - 1) \subseteq 1..n
      /\ 1..n = 1..(n - 1) \cup {n}
    BY EntriesFacts, SMTT(30)
<1>2. Len(s) \in Nat /\ j - 1 \in 0..Len(s) /\ j \in 0..Len(s)
    OBVIOUS
<1>3. PICK a \in Nat : a = Len(Made(s, n - 1, j - 1))
    BY <1>1, <1>2, MadeFacts
<1>4. PICK e \in Nat : e = Len(Made(s, n - 1, j))
    BY <1>1, <1>2, MadeFacts
<1>5. PICK w \in Seq(Elements) : w = Whole(s, n - 1) /\ Len(w) \in Nat
    BY <1>1, MadeFacts
<1>6. PICK t \in Seq(Elements) : t = Piece(s, n - 1, j)
    BY <1>1, PieceFacts
<1>12. Len(t) \in Nat
    OBVIOUS
<1>7. OccursAt(w, t, a) /\ e = a + Len(t)
    BY <1>1, <1>3, <1>4, <1>5, <1>6, MadeAt
<1>8. a + Len(t) <= Len(w) /\ \A x \in 1..Len(t) : w[a + x] = t[x]
    <2>1. OccursAt(w, t, a)
        BY <1>7
    <2>2. OccursAt(w, t, a) <=> /\ a + Len(t) <= Len(w)
                                /\ \A x \in 1..Len(t) : w[a + x] = t[x]
        BY OccursMeans
    <2> QED
        BY <2>1, <2>2, Zenon
<1>9. Rest(s, n, e) \in Seq(Elements) /\ Rest(s, n, a) \in Seq(Elements)
    <2>1. e \in 0..Len(w) /\ a \in 0..Len(w)
        BY <1>12, <1>7, <1>8
    <2> QED
        BY <2>1, <1>5, RestFacts
<1>10. CASE Covers(s, n - 1, j)
    <2>1. Piece(s, n, j) = t
        BY <1>6, <1>10, PieceStep
    <2>2. CASE \E i \in 1..(n - 1) : Leads(s, i, j)
        <3>1. PICK i \in 1..(n - 1) : Leads(s, i, j)
            BY <2>2
        <3>2. PICK k \in Keys : k = Entries[i]
            <4>1. i \in 1..Len(Entries)
                BY <1>1
            <4> QED
                BY <4>1, EntryFacts
        <3>3. t = Marker(k)
            BY <1>1, <1>6, <3>1, <3>2, PieceFacts
        <3>4. Len(t) = MarkerLen
            BY <3>3, MarkerFacts
        <3>5. OccursAt(Whole(s, n - 1), Marker(k), a)
            BY <1>5, <1>7, <3>3
        <3>6. Rest(s, n, a) = Then(Marker(k), Rest(s, n, a + MarkerLen))
            BY <3>5, RestMarker
        <3> QED
            BY <2>1, <3>3, <3>4, <3>6, <1>3, <1>4, <1>7
    <2>3. CASE \A i \in 1..(n - 1) : ~Leads(s, i, j)
        <3>1. t = <<>>
            BY <1>1, <1>6, <1>10, <2>3, PieceFacts
        <3>2. e = a
            BY <3>1, <1>7
        <3>3. Then(<<>>, Rest(s, n, a)) = Rest(s, n, a)
            BY <1>9, ThenFacts
        <3> QED
            BY <2>1, <3>1, <3>2, <3>3, <1>3, <1>4
    <2> QED
        BY <2>2, <2>3
<1>11. CASE ~Covers(s, n - 1, j)
    <2>1. t = <<s[j]>> /\ Len(t) = 1 /\ t[1] = s[j]
        BY <1>6, <1>11, PieceStep
    <2>2. w[a + 1] = s[j] /\ a < Len(w) /\ e = a + 1
        BY <2>1, <1>7, <1>8
    <2>3. PICK b \in Nat : b = j - 1 /\ b < Len(s) /\ b + 1 = j
        BY <1>2
    <2>4. PICK l \in Nat : l = Len(V(n)) /\ l # 0
        BY VFacts
    <2>5. ~OccursAt(w, V(n), a)
        <3>1. SUFFICES ASSUME OccursAt(w, V(n), a) PROVE FALSE
            OBVIOUS
        <3>2. /\ ~Covers(s, n - 1, b + 1) /\ V(n) \in Seq(Symbols) /\ V(n) # <<>>
              /\ OccursAt(Whole(s, n - 1), V(n), Len(Made(s, n - 1, b)))
            BY <3>1, <2>3, <1>3, <1>5, <1>11, VFacts
        <3>3. OccursAt(s, V(n), b)
            BY <3>2, <1>1, <2>3, ReadBack
        <3>4. b \in 0..(j - 1)
            BY <2>3
        <3>5. b + Len(V(n)) <= j /\ b + Len(V(n)) # j
            BY <3>2, <3>3, <3>4 DEF Clean
        <3> QED
            BY <3>5, <2>3, <2>4
    <2>6. ~Covers(s, n, j)
        <3>1. SUFFICES ASSUME Covers(s, n, j) PROVE FALSE
            OBVIOUS
        <3>2. PICK i \in 1..n, c \in 0..(j - 1) : OccursAt(s, V(i), c) /\ j <= c + Len(V(i))
            BY <3>1 DEF Covers
        <3>3. i = n
            BY <3>2, <1>1, <1>11 DEF Covers
        <3>4. c \in Nat /\ OccursAt(s, V(n), c) /\ j <= c + l
            BY <3>2, <3>3, <2>4
        <3>5. j \in (c + 1)..(c + Len(V(n))) /\ c + 1 \in (c + 1)..(c + Len(V(n)))
            BY <3>4, <2>4
        <3>6. ~Covers(s, n - 1, c + 1)
            BY <3>4, <3>5, <1>11, BareOccurrence
        <3>7. c + Len(V(n)) <= j /\ c + Len(V(n)) # j
            BY <3>4, <3>6 DEF Clean
        <3> QED
            <4>1. PICK d \in Nat : d = c + l
                BY <3>4
            <4>2. j <= d /\ d <= j /\ d # j
                BY <3>4, <3>7, <2>4, <4>1
            <4> QED
                BY <4>2
    <2>7. Piece(s, n, j) = <<s[j]>>
        BY <2>6, <1>11, PieceStep
    <2>8. Rest(s, n, a) = Then(<<w[a + 1]>>, Rest(s, n, a + 1))
        BY <1>5, <2>2, <2>5, RestStep
    <2> QED
        BY <2>2, <2>7, <2>8, <1>3, <1>4
<1> QED
    BY <1>10, <1>11

\* Where an entry's value ends that no earlier one took, it is replaced.
LEMMA RightOccurrence ==
    ASSUME ValuesApart, NEW s \in Seq(Symbols), NEW n \in 1..Len(Entries), NEW b \in Nat,
           OccursAt(s, V(n), b), ~Covers(s, n - 1, b + 1), Right(s, n, b)
    PROVE  Right(s, n, b + Len(V(n)))
<1>1. n - 1 \in 0..Len(Entries) /\ n \in 0..Len(Entries)
    BY EntriesFacts
<1>2. PICK l \in Nat : l = Len(V(n)) /\ l # 0
    BY VFacts
<1>3. Len(s) \in Nat /\ b + l <= Len(s) /\ b \in 0..Len(s)
    BY <1>2, OccursInText
<1>4. PICK a \in Nat : a = Len(Made(s, n - 1, b))
    BY <1>1, <1>3, MadeFacts
<1>5. PICK w \in Seq(Elements) : w = Whole(s, n - 1)
    BY <1>1, MadeFacts
<1>12. Len(w) \in Nat
    OBVIOUS
<1>6. OccursAt(w, V(n), a) /\ Len(Made(s, n - 1, b + l)) = a + l
    BY <1>2, <1>4, <1>5, BareFound
<1>7. a + l <= Len(w)
    BY <1>2, <1>6 DEF OccursAt
<1>8. PICK u \in Seq(Elements) : u = Made(s, n, b)
    BY <1>1, <1>3, MadeFacts
<1>9. PICK m \in Seq(Elements) : m = Marker(Entries[n])
    BY EntryFacts
<1>10. PICK r \in Seq(Elements) : r = Rest(s, n, a + l)
    <2>1. a + l \in 0..Len(w)
        BY <1>7
    <2> QED
        BY <2>1, <1>5, RestFacts
<1>11. Rest(s, n, a) = Then(m, r)
    <2>1. a < Len(Whole(s, n - 1)) /\ OccursAt(Whole(s, n - 1), V(n), a)
        BY <1>2, <1>5, <1>6, <1>7, <1>12
    <2>2. Rest(s, n, a) = Then(Marker(Entries[n]), Rest(s, n, a + Len(V(n))))
        BY <2>1, RestStep
    <2> QED
        BY <2>2, <1>2, <1>9, <1>10
<1>13. Rest(s, n, 0) = Then(u, Then(m, r))
    BY <1>4, <1>8, <1>11 DEF Right
<1>14. Then(u, Then(m, r)) = Then(Then(u, m), r)
    BY ThenThen
<1>15. Made(s, n, b + l) = Then(u, m)
    BY <1>2, <1>8, <1>9, MadeOccurrence
<1> QED
    BY <1>2, <1>6, <1>10, <1>13, <1>14, <1>15 DEF Right

\* What is right up to an element is right behind it too.
LEMMA RightNext ==
    ASSUME ValuesApart, NEW s \in Seq(Symbols), NEW n \in 1..Len(Entries),
           NEW j \in 1..Len(s), Clean(s, n, j), Right(s, n, j - 1),
           \A b \in 0..(j - 1) : ~(/\ OccursAt(s, V(n), b) /\ ~Covers(s, n - 1, b + 1)
                                   /\ b + Len(V(n)) = j)
    PROVE  Right(s, n, j)
<1>1. n - 1 \in 0..Len(Entries) /\ n \in 0..Len(Entries)
    BY EntriesFacts
<1>2. Len(s) \in Nat /\ j - 1 \in 0..Len(s) /\ j \in 0..Len(s)
    OBVIOUS
<1>3. PICK u \in Seq(Elements) : u = Made(s, n, j - 1)
    BY <1>1, <1>2, MadeFacts
<1>4. PICK t \in Seq(Elements) : t = Piece(s, n, j)
    BY <1>1, PieceFacts
<1>5. PICK r \in Seq(Elements) : r = Rest(s, n, Len(Made(s, n - 1, j)))
    <2>1. PICK e \in Nat : e = Len(Made(s, n - 1, j))
        BY <1>1, <1>2, MadeFacts
    <2>2. e <= Len(Whole(s, n - 1)) /\ Len(Whole(s, n - 1)) \in Nat
        <3>1. PICK ss \in Seq(Seq(Elements)) : ss = Pieces(s, n - 1) /\ Len(ss) = Len(s)
            BY <1>1, PiecesType
        <3>2. j \in 0..Len(ss) /\ Len(ss) \in j..Len(ss)
            BY <3>1, <1>2
        <3>3. Len(First(ss, Elements, j)) <= Len(First(ss, Elements, Len(ss)))
            BY <3>2, FirstPrefix
        <3>4. Len(Made(s, n - 1, j)) <= Len(Made(s, n - 1, Len(s)))
            BY <3>1, <3>3 DEF Made
        <3> QED
            BY <2>1, <3>4, <1>1, MadeFacts
    <2>3. e \in 0..Len(Whole(s, n - 1))
        BY <2>2
    <2> QED
        BY <2>1, <2>3, RestFacts
<1>6. Rest(s, n, Len(Made(s, n - 1, j - 1))) = Then(t, r)
    BY <1>4, <1>5, RightElement
<1>7. Rest(s, n, 0) = Then(u, Then(t, r))
    BY <1>3, <1>6 DEF Right
<1>8. Then(u, Then(t, r)) = Then(Then(u, t), r)
    BY ThenThen
<1>9. Made(s, n, j) = Then(u, t)
    BY <1>1, <1>3, <1>4, MadeThen
<1> QED
    BY <1>5, <1>7, <1>8, <1>9 DEF Right

\* An entry makes of what the ones before it made what the entries up to it make.
LEMMA ReplacedPieces ==
    ASSUME ValuesApart, NEW s \in Seq(Symbols), NEW n \in 1..Len(Entries)
    PROVE  Replaced(Whole(s, n - 1), V(n), Marker(Entries[n])) = Whole(s, n)
<1>1. n - 1 \in 0..Len(Entries) /\ n \in 0..Len(Entries)
    BY EntriesFacts
<1>2. Len(s) \in Nat
    OBVIOUS
<1>3. PICK l \in Nat : l = Len(V(n)) /\ l # 0
    BY VFacts
<1>4. PICK U : U = {j \in 0..Len(s) : \A g \in 0..j : Clean(s, n, g) => Right(s, n, g)}
    OBVIOUS
<1>5. 0 \in U
    <2>1. Made(s, n, 0) = <<>> /\ Len(Made(s, n - 1, 0)) = 0
        BY <1>1, MadeFacts
    <2>2. PICK r \in Seq(Elements) : r = Rest(s, n, 0)
        <3>1. Len(Whole(s, n - 1)) \in Nat
            BY <1>1, MadeFacts
        <3>2. 0 \in 0..Len(Whole(s, n - 1))
            BY <3>1
        <3> QED
            BY <3>2, RestFacts
    <2>3. Then(<<>>, r) = r
        BY ThenFacts
    <2>4. Right(s, n, 0)
        BY <2>1, <2>2, <2>3 DEF Right
    <2>5. \A g \in 0..0 : g = 0
        OBVIOUS
    <2> QED
        BY <2>4, <2>5, <1>2, <1>4
<1>6. ASSUME NEW j \in 1..Len(s), j - 1 \in U PROVE j \in U
    <2>1. \A g \in 0..(j - 1) : Clean(s, n, g) => Right(s, n, g)
        BY <1>4, <1>6
    <2>2. ASSUME Clean(s, n, j) PROVE Right(s, n, j)
        <3>1. CASE \E b \in 0..(j - 1) : /\ OccursAt(s, V(n), b) /\ ~Covers(s, n - 1, b + 1)
                                         /\ b + Len(V(n)) = j
            <4>1. PICK b \in 0..(j - 1) : /\ OccursAt(s, V(n), b) /\ ~Covers(s, n - 1, b + 1)
                                          /\ b + Len(V(n)) = j
                BY <3>1
            <4>2. Clean(s, n, b)
                <5>1. SUFFICES ASSUME NEW c \in 0..(b - 1), OccursAt(s, V(n), c),
                                      ~(c + Len(V(n)) <= b)
                               PROVE  FALSE
                    BY DEF Clean
                <5>2. c \in Nat /\ b \in Nat /\ c < b /\ b < c + Len(V(n))
                    BY <5>1, <1>3
                <5>3. b + Len(V(n)) <= c + Len(V(n))
                    BY <4>1, <5>1, <5>2, NoOverlap
                <5> QED
                    BY <5>2, <5>3, <1>3
            <4>3. b \in Nat /\ Right(s, n, b)
                BY <2>1, <4>2
            <4> QED
                BY <4>1, <4>3, RightOccurrence
        <3>2. CASE \A b \in 0..(j - 1) : ~(/\ OccursAt(s, V(n), b) /\ ~Covers(s, n - 1, b + 1)
                                           /\ b + Len(V(n)) = j)
            <4>1. Clean(s, n, j - 1)
                <5>1. SUFFICES ASSUME NEW c \in 0..(j - 1 - 1), OccursAt(s, V(n), c),
                                      ~Covers(s, n - 1, c + 1)
                               PROVE  c + Len(V(n)) <= j - 1
                    BY DEF Clean
                <5>2. c \in 0..(j - 1)
                    OBVIOUS
                <5>3. c + Len(V(n)) <= j
                    BY <5>1, <5>2, <2>2 DEF Clean
                <5>4. c + Len(V(n)) # j
                    BY <5>1, <5>2, <3>2
                <5> QED
                    BY <5>3, <5>4, <1>3
            <4>2. Right(s, n, j - 1)
                <5>1. j - 1 \in 0..(j - 1)
                    OBVIOUS
                <5> QED
                    BY <5>1, <4>1, <2>1
            <4> QED
                BY <4>2, <2>2, <3>2, RightNext
        <3> QED
            BY <3>1, <3>2
    <2>3. \A g \in 0..j : g \in 0..(j - 1) \/ g = j
        OBVIOUS
    <2>4. \A g \in 0..j : Clean(s, n, g) => Right(s, n, g)
        BY <2>1, <2>2, <2>3
    <2> QED
        BY <2>4, <1>4
<1>7. Len(s) \in U
    <2>1. \A j \in 0..Len(s) : j \in U
        BY <1>2, <1>5, <1>6, BoundedInduction
    <2> QED
        BY <2>1, <1>2
<1>8. Clean(s, n, Len(s))
    <2>1. \A b \in 0..(Len(s) - 1) : OccursAt(s, V(n), b) => b + Len(V(n)) <= Len(s)
        BY DEF OccursAt
    <2> QED
        BY <2>1 DEF Clean
<1>9. Right(s, n, Len(s))
    BY <1>2, <1>4, <1>7, <1>8
<1>10. Rest(s, n, 0) = Then(Whole(s, n), <<>>)
    BY <1>1, <1>9, MadeFacts, RestFacts DEF Right
<1>11. PICK w \in Seq(Elements) : w = Whole(s, n)
    BY <1>1, MadeFacts
<1>12. Then(w, <<>>) = w
    BY ThenFacts
<1> QED
    BY <1>10, <1>11, <1>12, RestFacts

\* What no entry touches.
LEMMA WholeOfNone ==
    ASSUME NEW s \in Seq(Symbols)
    PROVE  Whole(s, 0) = s
<1>1. Len(s) \in Nat /\ 0 \in 0..Len(Entries)
    BY EntriesFacts
<1>2. \A g \in (0 + 1)..Len(s) : ~Covers(s, 0, g)
    BY DEF Covers
<1>3. Made(s, 0, 0) = <<>> /\ Made(s, 0, Len(s)) = Whole(s, 0)
    BY <1>1, MadeFacts
<1>4. \A g \in 0..Len(s) : /\ Len(Made(s, 0, g)) = Len(Made(s, 0, 0)) + (g - 0)
                           /\ g # 0 => Whole(s, 0)[Len(Made(s, 0, 0)) + (g - 0)] = s[g]
    BY <1>1, <1>2, SinglesTo
<1>5. Len(Made(s, 0, 0)) = 0
    BY <1>3
<1>6. PICK w \in Seq(Elements) : w = Whole(s, 0)
    BY <1>1, MadeFacts
<1>7. Len(w) = Len(s)
    BY <1>1, <1>3, <1>4, <1>5, <1>6
<1>8. \A x \in 1..Len(s) : w[x] = s[x]
    <2>1. ASSUME NEW x \in 1..Len(s) PROVE w[x] = s[x]
        <3>1. x \in 0..Len(s) /\ x # 0 /\ 0 + (x - 0) = x
            OBVIOUS
        <3> QED
            BY <3>1, <1>4, <1>5, <1>6
    <2> QED
        BY <2>1
<1> QED
    BY <1>6, <1>7, <1>8

\* The redaction of a text, all at once: each value becomes a marker where no
\* longer one was before it, and nothing else changes.
LEMMA RedactPieces ==
    ASSUME ValuesApart, NEW input, NormalizeUTF8(input) \in Seq(Symbols)
    PROVE  Redact(input) = Whole(NormalizeUTF8(input), Len(Entries))
<1>1. PICK s \in Seq(Symbols) : s = NormalizeUTF8(input)
    OBVIOUS
<1>2. s \in Seq(Elements)
    BY SeqMonotonic DEF Elements
<1>3. PICK f : Chain(s, f) /\ Redact(input) = f[Len(Entries)]
    BY <1>1, <1>2, RedactChain
<1>4. Len(Entries) \in Nat
    BY EntriesFacts
<1>5. PICK T : T = {n \in 0..Len(Entries) : f[n] = Whole(s, n)}
    OBVIOUS
<1>6. 0 \in T
    BY <1>3, <1>4, <1>5, WholeOfNone DEF Chain
<1>7. ASSUME NEW n \in 1..Len(Entries), n - 1 \in T PROVE n \in T
    <2>1. f[n - 1] = Whole(s, n - 1)
        BY <1>5, <1>7
    <2>2. f[n] = Replaced(f[n - 1], V(n), Marker(Entries[n]))
        BY <1>3 DEF Chain, V
    <2>3. f[n] = Whole(s, n)
        BY <2>1, <2>2, ReplacedPieces
    <2> QED
        BY <2>3, <1>5
<1>8. Len(Entries) \in T
    <2>1. \A n \in 0..Len(Entries) : n \in T
        BY <1>4, <1>6, <1>7, BoundedInduction
    <2> QED
        BY <2>1, <1>4
<1> QED
    BY <1>1, <1>3, <1>5, <1>8

\* Sequences of one length with the same elements are the same.
LEMMA SameSequence ==
    ASSUME NEW X, NEW s \in Seq(X), NEW t \in Seq(X), Len(s) = Len(t),
           \A i \in 1..Len(t) : s[i] = t[i]
    PROVE  s = t
    OBVIOUS

\* One more sequence is joined behind.
LEMMA FirstThen ==
    ASSUME NEW X, NEW ss \in Seq(Seq(X)), NEW j \in 1..Len(ss), NEW t \in Seq(X), t = ss[j]
    PROVE  First(ss, X, j) = Then(First(ss, X, j - 1), t)
<1>1. First(ss, X, j) = First(ss, X, j - 1) \o t
    BY FirstStep
<1> QED
    BY <1>1, Zenon DEF Then

\* Lists that agree on the first n make the same of them.
LEMMA FirstAgree ==
    ASSUME NEW X, NEW ss \in Seq(Seq(X)), NEW tt \in Seq(Seq(X)), NEW n,
           SameUpTo(n, ss, tt)
    PROVE  First(ss, X, n) = First(tt, X, n)
<1>1. PICK f : f = CHOOSE h : Sums(ss, h, X)
    OBVIOUS
<1>2. PICK g : g = CHOOSE h : Sums(tt, h, X)
    OBVIOUS
<1>3. Sums(ss, f, X)
    BY <1>1, FlattenSums
<1>4. Sums(tt, g, X)
    BY <1>2, FlattenSums
<1>5. f[n] = g[n]
    BY <1>3, <1>4, SumsAgree
<1> QED
    BY <1>1, <1>2, <1>5 DEF First

\* What two lists of sequences make is what the one and then the other make.
LEMMA FlattenThen ==
    ASSUME NEW X, NEW ss \in Seq(Seq(X)), NEW tt \in Seq(Seq(X))
    PROVE  /\ ss \o tt \in Seq(Seq(X))
           /\ FlattenSeq(ss \o tt) = Then(FlattenSeq(ss), FlattenSeq(tt))
<1>1. PICK a \in Nat : a = Len(ss)
    OBVIOUS
<1>2. PICK b \in Nat : b = Len(tt)
    OBVIOUS
<1>3. PICK zz \in Seq(Seq(X)) : zz = ss \o tt
    <2>1. PICK Y : Y = Seq(X)
        OBVIOUS
    <2>2. ss \in Seq(Y) /\ tt \in Seq(Y)
        BY <2>1
    <2>3. ss \o tt \in Seq(Y)
        BY <2>2, ConcatAt
    <2> QED
        BY <2>1, <2>3
<1>4. /\ Len(zz) = a + b
      /\ \A x \in 1..a : zz[x] = ss[x]
      /\ \A x \in 1..b : zz[a + x] = tt[x]
    <2>1. PICK Y : Y = Seq(X)
        OBVIOUS
    <2>2. ss \in Seq(Y) /\ tt \in Seq(Y)
        BY <2>1
    <2>3. /\ Len(ss \o tt) = Len(ss) + Len(tt)
          /\ \A x \in 1..Len(ss) : (ss \o tt)[x] = ss[x]
          /\ \A x \in 1..Len(tt) : (ss \o tt)[Len(ss) + x] = tt[x]
        BY <2>2, ConcatAt
    <2> QED
        BY <2>3, <1>1, <1>2, <1>3
<1>5. First(zz, X, a) = First(ss, X, a)
    <2>1. SameUpTo(a, ss, zz)
        BY <1>1, <1>4 DEF SameUpTo
    <2> QED
        BY <2>1, FirstAgree
<1>6. PICK u \in Seq(X) : u = First(ss, X, a) /\ u = FlattenSeq(ss)
    BY <1>1, FirstFacts
<1>7. PICK T : T = {j \in 0..b : First(zz, X, a + j) = Then(u, First(tt, X, j))}
    OBVIOUS
<1>8. 0 \in T
    <2>1. First(tt, X, 0) = <<>> /\ Then(u, <<>>) = u
        BY FirstFacts, ThenFacts
    <2> QED
        BY <2>1, <1>5, <1>6, <1>7
<1>9. ASSUME NEW j \in 1..b, j - 1 \in T PROVE j \in T
    <2>1. PICK h \in 1..Len(zz) : h = a + j /\ h - 1 = a + (j - 1)
        BY <1>4
    <2>2. j \in 1..Len(tt) /\ j - 1 \in 0..Len(tt)
        BY <1>2
    <2>3. PICK t \in Seq(X) : t = tt[j]
        BY <2>2, FirstStep
    <2>4. t = zz[h]
        BY <1>4, <2>1, <2>3
    <2>5. First(zz, X, h) = Then(First(zz, X, h - 1), t)
        BY <2>4, FirstThen
    <2>6. First(tt, X, j) = Then(First(tt, X, j - 1), t)
        BY <2>2, <2>3, FirstThen
    <2>7. PICK w \in Seq(X) : w = First(tt, X, j - 1)
        BY <2>2, FirstFacts
    <2>8. First(zz, X, h - 1) = Then(u, w)
        BY <2>1, <2>7, <1>7, <1>9
    <2>9. Then(Then(u, w), t) = Then(u, Then(w, t))
        BY ThenThen
    <2>10. First(zz, X, a + j) = Then(u, First(tt, X, j))
        BY <2>1, <2>5, <2>6, <2>7, <2>8, <2>9
    <2> QED
        BY <2>10, <1>7
<1>10. b \in T
    <2>1. \A j \in 0..b : j \in T
        BY <1>8, <1>9, BoundedInduction
    <2> QED
        BY <2>1
<1>11. First(zz, X, a + b) = FlattenSeq(zz) /\ First(tt, X, b) = FlattenSeq(tt)
    BY <1>2, <1>4, FirstFacts
<1> QED
    BY <1>3, <1>6, <1>7, <1>10, <1>11

\* The elements of two sequences joined.
LEMMA ThenAt ==
    ASSUME NEW X, NEW s \in Seq(X), NEW t \in Seq(X)
    PROVE  /\ Then(s, t) \in Seq(X) /\ Len(s) \in Nat /\ Len(t) \in Nat
           /\ Len(Then(s, t)) = Len(s) + Len(t)
           /\ \A x \in 1..Len(s) : Then(s, t)[x] = s[x]
           /\ \A x \in 1..Len(t) : Then(s, t)[Len(s) + x] = t[x]
    BY ConcatAt DEF Then

\* An element of the second of them.
LEMMA ThenBehind ==
    ASSUME NEW X, NEW s \in Seq(X), NEW t \in Seq(X), NEW x \in 1..Len(t)
    PROVE  Then(s, t)[Len(s) + x] = t[x]
    BY ThenAt

-----------------------------------------------------------------------------
\* No value lies across the place behind the first e elements of s.
Apart(s, e) ==
    \A i \in 1..Len(Entries) : \A b \in 0..(e - 1) : OccursAt(s, V(i), b) => b + Len(V(i)) <= e

\* Where no value lies across, what stands before and what stands behind is
\* redacted on its own.
LEMMA OccursBefore ==
    ASSUME NEW s \in Seq(Symbols), NEW t \in Seq(Symbols), Apart(Then(s, t), Len(s)),
           NEW i \in 1..Len(Entries), NEW b \in Nat, b < Len(s)
    PROVE  OccursAt(Then(s, t), V(i), b) <=> OccursAt(s, V(i), b)
<1>1. /\ Then(s, t) \in Seq(Symbols) /\ Len(s) \in Nat /\ Len(t) \in Nat
      /\ Len(Then(s, t)) = Len(s) + Len(t)
      /\ \A x \in 1..Len(s) : Then(s, t)[x] = s[x]
    BY ThenAt
<1>2. PICK l \in Nat : l = Len(V(i))
    BY VFacts
<1>3. ASSUME b + l <= Len(s) PROVE \A x \in 1..l : Then(s, t)[b + x] = s[b + x]
    <2>1. \A x \in 1..l : b + x \in 1..Len(s)
        BY <1>1, <1>3
    <2> QED
        BY <2>1, <1>1
<1>4. ASSUME OccursAt(Then(s, t), V(i), b) PROVE OccursAt(s, V(i), b)
    <2>1. b \in 0..(Len(s) - 1)
        BY <1>1
    <2>2. b + l <= Len(s)
        BY <2>1, <1>2, <1>4 DEF Apart
    <2>3. \A x \in 1..l : Then(s, t)[b + x] = V(i)[x]
        BY <1>1, <1>2, <1>4, OccursInText
    <2>4. \A x \in 1..l : s[b + x] = V(i)[x]
        BY <2>2, <2>3, <1>3
    <2> QED
        BY <2>2, <2>4, <1>2, OccursInText
<1>5. ASSUME OccursAt(s, V(i), b) PROVE OccursAt(Then(s, t), V(i), b)
    <2>1. b + l <= Len(s) /\ \A x \in 1..l : s[b + x] = V(i)[x]
        BY <1>2, <1>5, OccursInText
    <2>2. \A x \in 1..l : Then(s, t)[b + x] = V(i)[x]
        BY <2>1, <1>3
    <2>3. b + l <= Len(Then(s, t))
        BY <2>1, <1>1
    <2> QED
        BY <2>2, <2>3, <1>1, <1>2, OccursInText
<1> QED
    BY <1>4, <1>5

\* A value stands behind s where it stands in t.
LEMMA OccursBehind ==
    ASSUME NEW s \in Seq(Symbols), NEW t \in Seq(Symbols),
           NEW i \in 1..Len(Entries), NEW b \in Nat
    PROVE  OccursAt(Then(s, t), V(i), Len(s) + b) <=> OccursAt(t, V(i), b)
<1>1. /\ Then(s, t) \in Seq(Symbols) /\ Len(t) \in Nat
      /\ Len(Then(s, t)) = Len(s) + Len(t)
      /\ \A x \in 1..Len(t) : Then(s, t)[Len(s) + x] = t[x]
    BY ThenAt
<1>2. PICK l \in Nat : l = Len(V(i))
    BY VFacts
<1>3. PICK a \in Nat : a = Len(s)
    OBVIOUS
<1>4. PICK c \in Nat : c = a + b
    OBVIOUS
<1>5. c + l <= Len(Then(s, t)) <=> b + l <= Len(t)
    BY <1>1, <1>3, <1>4
<1>6. ASSUME b + l <= Len(t) PROVE \A x \in 1..l : Then(s, t)[c + x] = t[b + x]
    <2>1. ASSUME NEW x \in 1..l PROVE Then(s, t)[c + x] = t[b + x]
        <3>1. b + x \in 1..Len(t) /\ a + (b + x) = c + x
            BY <1>1, <1>4, <1>6
        <3> QED
            BY <3>1, <1>1, <1>3
    <2> QED
        BY <2>1
<1>7. OccursAt(Then(s, t), V(i), c) <=>
          /\ c + l <= Len(Then(s, t))
          /\ \A x \in 1..l : Then(s, t)[c + x] = V(i)[x]
    BY <1>1, <1>2, OccursInText
<1>8. OccursAt(t, V(i), b) <=> b + l <= Len(t) /\ \A x \in 1..l : t[b + x] = V(i)[x]
    BY <1>2, OccursInText
<1>9. OccursAt(Then(s, t), V(i), c) <=> OccursAt(t, V(i), b)
    BY <1>5, <1>6, <1>7, <1>8
<1> QED
    BY <1>3, <1>4, <1>9

\* Two places of two texts that are covered alike are treated alike.
LEMMA PieceAlike ==
    ASSUME NEW s \in Seq(Symbols), NEW t \in Seq(Symbols), NEW n \in 0..Len(Entries),
           NEW j \in 1..Len(s), NEW h \in 1..Len(t), s[j] = t[h],
           \A d \in 0..n : Covers(s, d, j) <=> Covers(t, d, h),
           \A i \in 1..n : OccursAt(s, V(i), j - 1) <=> OccursAt(t, V(i), h - 1)
    PROVE  Piece(s, n, j) = Piece(t, n, h)
<1>1. n \in 0..n /\ n \in Nat
    BY EntriesFacts
<1>2. \A i \in 1..n : Leads(s, i, j) <=> Leads(t, i, h)
    <2>1. \A i \in 1..n : i - 1 \in 0..n
        BY <1>1
    <2> QED
        BY <2>1 DEF Leads
<1>3. CASE \E i \in 1..n : Leads(s, i, j)
    <2>1. PICK i \in 1..n : Leads(s, i, j)
        BY <1>3
    <2>2. Leads(t, i, h)
        BY <2>1, <1>2
    <2>3. Piece(s, n, j) = Marker(Entries[i])
        BY <2>1, PieceFacts
    <2>4. Piece(t, n, h) = Marker(Entries[i])
        BY <2>2, PieceFacts
    <2> QED
        BY <2>3, <2>4
<1>4. CASE \A i \in 1..n : ~Leads(s, i, j)
    <2>1. \A i \in 1..n : ~Leads(t, i, h)
        BY <1>2, <1>4
    <2>2. Covers(s, n, j) <=> Covers(t, n, h)
        BY <1>1
    <2>3. CASE Covers(s, n, j)
        <3>1. Piece(s, n, j) = <<>>
            BY <2>3, <1>4, PieceFacts
        <3>2. Piece(t, n, h) = <<>>
            BY <2>1, <2>2, <2>3, PieceFacts
        <3> QED
            BY <3>1, <3>2
    <2>4. CASE ~Covers(s, n, j)
        <3>1. Piece(s, n, j) = <<s[j]>>
            BY <2>4, PieceFacts
        <3>2. Piece(t, n, h) = <<t[h]>>
            BY <2>2, <2>4, PieceFacts
        <3> QED
            BY <3>1, <3>2
    <2> QED
        BY <2>3, <2>4
<1> QED
    BY <1>3, <1>4

\* No element of s is covered by a value that ends in t.
LEMMA CoversBefore ==
    ASSUME NEW s \in Seq(Symbols), NEW t \in Seq(Symbols), Apart(Then(s, t), Len(s)),
           NEW n \in 0..Len(Entries), NEW j \in 1..Len(s)
    PROVE  Covers(Then(s, t), n, j) <=> Covers(s, n, j)
<1>1. Len(s) \in Nat /\ \A i \in 1..n : i \in 1..Len(Entries)
    BY EntriesFacts
<1>2. \A i \in 1..n : \A b \in 0..(j - 1) :
          OccursAt(Then(s, t), V(i), b) <=> OccursAt(s, V(i), b)
    <2>1. \A b \in 0..(j - 1) : b \in Nat /\ b < Len(s)
        BY <1>1
    <2> QED
        BY <2>1, <1>1, OccursBefore
<1> QED
    BY <1>2 DEF Covers

\* No element of t is covered by a value that begins in s.
LEMMA CoversBehind ==
    ASSUME NEW s \in Seq(Symbols), NEW t \in Seq(Symbols), Apart(Then(s, t), Len(s)),
           NEW n \in 0..Len(Entries), NEW j \in 1..Len(t)
    PROVE  Covers(Then(s, t), n, Len(s) + j) <=> Covers(t, n, j)
<1>1. Len(t) \in Nat /\ \A i \in 1..n : i \in 1..Len(Entries)
    BY EntriesFacts
<1>2. PICK a \in Nat : a = Len(s)
    OBVIOUS
<1>3. PICK h \in Nat : h = a + j
    OBVIOUS
<1>4. ASSUME Covers(Then(s, t), n, h) PROVE Covers(t, n, j)
    <2>1. PICK i \in 1..n, b \in 0..(h - 1) :
              OccursAt(Then(s, t), V(i), b) /\ h <= b + Len(V(i))
        BY <1>4 DEF Covers
    <2>2. i \in 1..Len(Entries)
        BY <1>1
    <2>3. PICK l \in Nat : l = Len(V(i))
        BY <2>2, VFacts
    <2>4. ~(b < a)
        <3>1. SUFFICES ASSUME b < a PROVE FALSE
            OBVIOUS
        <3>2. b \in 0..(Len(s) - 1)
            BY <3>1, <1>2
        <3>3. b + Len(V(i)) <= Len(s)
            BY <2>1, <2>2, <3>2 DEF Apart
        <3>4. b + l <= a /\ h <= b + l
            BY <3>3, <2>1, <2>3, <1>2
        <3> QED
            BY <3>4, <1>3
    <2>5. PICK c \in 0..(j - 1) : b = a + c /\ c \in Nat
        <3>1. b - a \in 0..(j - 1) /\ b = a + (b - a)
            BY <2>4, <1>3
        <3> QED
            BY <3>1
    <2>6. OccursAt(Then(s, t), V(i), Len(s) + c)
        BY <2>1, <2>5, <1>2
    <2>7. OccursAt(t, V(i), c)
        BY <2>2, <2>5, <2>6, OccursBehind
    <2>8. j <= c + Len(V(i))
        <3>1. h <= b + l
            BY <2>1, <2>3
        <3>2. j <= c + l
            BY <3>1, <2>5, <1>3
        <3> QED
            BY <3>2, <2>3
    <2> QED
        BY <2>7, <2>8 DEF Covers
<1>5. ASSUME Covers(t, n, j) PROVE Covers(Then(s, t), n, h)
    <2>1. PICK i \in 1..n, c \in 0..(j - 1) : OccursAt(t, V(i), c) /\ j <= c + Len(V(i))
        BY <1>5 DEF Covers
    <2>2. i \in 1..Len(Entries) /\ c \in Nat
        BY <1>1
    <2>3. PICK l \in Nat : l = Len(V(i))
        BY <2>2, VFacts
    <2>4. OccursAt(Then(s, t), V(i), Len(s) + c)
        BY <2>1, <2>2, OccursBehind
    <2>5. PICK b \in 0..(h - 1) : b = a + c
        <3>1. a + c \in 0..(h - 1)
            BY <1>3
        <3> QED
            BY <3>1
    <2>6. h <= b + l
        <3>1. j <= c + l
            BY <2>1, <2>3
        <3> QED
            BY <3>1, <2>5, <1>3
    <2>7. OccursAt(Then(s, t), V(i), b)
        BY <2>4, <2>5, <1>2
    <2> QED
        BY <2>3, <2>6, <2>7 DEF Covers
<1> QED
    BY <1>2, <1>3, <1>4, <1>5

\* Two texts that no value lies across are redacted apart.
LEMMA PiecesThen ==
    ASSUME NEW s \in Seq(Symbols), NEW t \in Seq(Symbols), Apart(Then(s, t), Len(s)),
           NEW n \in 0..Len(Entries)
    PROVE  Whole(Then(s, t), n) = Then(Whole(s, n), Whole(t, n))
<1>1. /\ Then(s, t) \in Seq(Symbols) /\ Len(s) \in Nat /\ Len(t) \in Nat
      /\ Len(Then(s, t)) = Len(s) + Len(t)
      /\ \A x \in 1..Len(s) : Then(s, t)[x] = s[x]
    BY ThenAt
<1>12. \A x \in 1..Len(t) : Then(s, t)[Len(s) + x] = t[x]
    <2> HIDE DEF Apart
    <2>1. ASSUME NEW x \in 1..Len(t) PROVE Then(s, t)[Len(s) + x] = t[x]
        BY ThenBehind
    <2> QED
        BY <2>1
<1>2. PICK z \in Seq(Symbols) : z = Then(s, t)
    BY <1>1
<1>3. \A i \in 1..n : i \in 1..Len(Entries)
    BY EntriesFacts
<1>4. \A d \in 0..n : d \in 0..Len(Entries)
    BY EntriesFacts
<1>5. ASSUME NEW j \in 1..Len(s) PROVE Piece(z, n, j) = Piece(s, n, j)
    <2>1. j \in 1..Len(z) /\ z[j] = s[j]
        BY <1>1, <1>2
    <2>2. \A d \in 0..n : Covers(z, d, j) <=> Covers(s, d, j)
        BY <1>2, <1>4, CoversBefore
    <2>3. \A i \in 1..n : OccursAt(z, V(i), j - 1) <=> OccursAt(s, V(i), j - 1)
        <3>1. PICK b \in Nat : b = j - 1 /\ b < Len(s)
            BY <1>1
        <3>2. \A i \in 1..n : OccursAt(Then(s, t), V(i), b) <=> OccursAt(s, V(i), b)
            BY <3>1, <1>3, OccursBefore
        <3> QED
            BY <3>1, <3>2, <1>2
    <2> QED
        BY <2>1, <2>2, <2>3, PieceAlike
<1>6. ASSUME NEW j \in 1..Len(t), NEW h \in Nat, h = Len(s) + j
      PROVE  h \in 1..Len(z) /\ Piece(z, n, h) = Piece(t, n, j)
    <2>1. h \in 1..Len(z) /\ z[h] = t[j]
        BY <1>1, <1>2, <1>6, <1>12
    <2>2. \A d \in 0..n : Covers(z, d, h) <=> Covers(t, d, j)
        BY <1>2, <1>4, <1>6, CoversBehind
    <2>3. \A i \in 1..n : OccursAt(z, V(i), h - 1) <=> OccursAt(t, V(i), j - 1)
        <3>1. PICK b \in Nat : b = j - 1 /\ Len(s) + b = h - 1
            BY <1>1, <1>6
        <3>2. \A i \in 1..n : OccursAt(Then(s, t), V(i), Len(s) + b) <=> OccursAt(t, V(i), b)
            BY <1>3, OccursBehind
        <3> QED
            BY <3>1, <3>2, <1>2
    <2>4. Piece(z, n, h) = Piece(t, n, j)
        BY <2>1, <2>2, <2>3, PieceAlike
    <2> QED
        BY <2>1, <2>4
<1>7. PICK ss \in Seq(Seq(Elements)) :
         /\ ss = Pieces(s, n) /\ Len(ss) = Len(s) /\ \A j \in 1..Len(s) : ss[j] = Piece(s, n, j)
    BY PiecesType
<1>8. PICK tt \in Seq(Seq(Elements)) :
         /\ tt = Pieces(t, n) /\ Len(tt) = Len(t) /\ \A j \in 1..Len(t) : tt[j] = Piece(t, n, j)
    BY PiecesType
<1>9. PICK zz \in Seq(Seq(Elements)) :
         /\ zz = Pieces(z, n) /\ Len(zz) = Len(z) /\ \A j \in 1..Len(z) : zz[j] = Piece(z, n, j)
    BY PiecesType
<1>10. zz = ss \o tt
    <2>1. PICK Y : Y = Seq(Elements)
        OBVIOUS
    <2>2. ss \in Seq(Y) /\ tt \in Seq(Y) /\ zz \in Seq(Y)
        BY <2>1
    <2>3. PICK q \in Seq(Y) : q = ss \o tt
        BY <2>2, ConcatAt
    <2>4. /\ Len(q) = Len(ss) + Len(tt)
          /\ \A x \in 1..Len(ss) : q[x] = ss[x]
          /\ \A x \in 1..Len(tt) : q[Len(ss) + x] = tt[x]
        BY <2>2, <2>3, ConcatAt
    <2>5. Len(q) = Len(zz) /\ Len(zz) \in Nat
        BY <2>4, <1>1, <1>2, <1>7, <1>8, <1>9
    <2>6. ASSUME NEW g \in 1..Len(zz) PROVE q[g] = zz[g]
        <3>1. CASE g \in 1..Len(s)
            <4>1. q[g] = Piece(s, n, g)
                BY <3>1, <2>4, <1>7
            <4>2. zz[g] = Piece(z, n, g)
                BY <1>9
            <4> QED
                BY <4>1, <4>2, <3>1, <1>5
        <3>2. CASE g \notin 1..Len(s)
            <4>1. PICK j \in 1..Len(t) : g = Len(s) + j
                <5>1. g - Len(s) \in 1..Len(t) /\ g = Len(s) + (g - Len(s))
                    BY <3>2, <1>1, <1>2, <1>9
                <5> QED
                    BY <5>1
            <4>2. q[Len(ss) + j] = tt[j]
                BY <2>4, <1>8
            <4>3. q[g] = Piece(t, n, j)
                BY <4>1, <4>2, <1>7, <1>8
            <4>4. zz[g] = Piece(z, n, g)
                BY <1>9
            <4>5. Piece(z, n, g) = Piece(t, n, j)
                BY <4>1, <1>6
            <4> QED
                BY <4>3, <4>4, <4>5
        <3> QED
            BY <3>1, <3>2
    <2>7. q = zz
        BY <2>2, <2>3, <2>5, <2>6, SameSequence
    <2> QED
        BY <2>3, <2>7
<1>11. FlattenSeq(zz) = Then(FlattenSeq(ss), FlattenSeq(tt))
    BY <1>10, FlattenThen
<1> QED
    BY <1>2, <1>7, <1>8, <1>9, <1>11 DEF Whole

(***************************************************************************)
(* Parts of a sequence.                                                    *)
(***************************************************************************)

\* A prefix has the elements of the sequence.
LEMMA PrefixMeans ==
    ASSUME NEW X, NEW s \in Seq(X), NEW t \in Seq(X)
    PROVE  IsPrefix(s, t) <=> /\ Len(s) <= Len(t)
                              /\ \A i \in 1..Len(s) : s[i] = t[i]
<1>1. Len(s) \in Nat /\ Len(t) \in Nat
    OBVIOUS
<1>2. CASE Len(s) <= Len(t)
    <2>1. PICK p : p = SubSeq(t, 1, Len(s))
        OBVIOUS
    <2>2. p \in Seq(X) /\ Len(p) = Len(s) /\ \A i \in 1..Len(s) : p[i] = t[i]
        BY <2>1, <1>1, <1>2
    <2>3. SubSeq(s, 1, Len(s)) = s
        BY <1>1
    <2>4. s = p <=> \A i \in 1..Len(s) : s[i] = t[i]
        <3>1. ASSUME \A i \in 1..Len(s) : s[i] = t[i] PROVE s = p
            <4>1. \A i \in 1..Len(p) : s[i] = p[i]
                BY <2>2, <3>1
            <4> QED
                BY <4>1, <2>2, SameSequence
        <3> QED
            BY <2>2, <3>1
    <2> QED
        BY <2>1, <2>3, <2>4, <1>2 DEF IsPrefix
<1>3. CASE ~(Len(s) <= Len(t))
    BY <1>3 DEF IsPrefix
<1> QED
    BY <1>2, <1>3

\* A part is a sequence of the same elements.
LEMMA PartFacts ==
    ASSUME NEW X, NEW s \in Seq(X), NEW a \in Nat, NEW b \in Nat, a <= b, b <= Len(s)
    PROVE  /\ Part(s, a, b) \in Seq(X) /\ Len(Part(s, a, b)) = b - a
           /\ \A i \in 1..(b - a) : Part(s, a, b)[i] = s[a + i]
    BY DEF Part

\* Its length.
LEMMA PartLen ==
    ASSUME NEW X, NEW s \in Seq(X), NEW a \in Nat, NEW b \in Nat, a <= b, b <= Len(s)
    PROVE  Len(Part(s, a, b)) = b - a
    BY PartFacts

\* Its elements.
LEMMA PartAt ==
    ASSUME NEW X, NEW s \in Seq(X), NEW a \in Nat, NEW b \in Nat, a <= b, b <= Len(s),
           NEW i \in 1..(b - a)
    PROVE  Part(s, a, b)[i] = s[a + i]
    BY PartFacts

\* All of a sequence, and none of it.
LEMMA PartAll ==
    ASSUME NEW X, NEW s \in Seq(X)
    PROVE  /\ Part(s, 0, Len(s)) = s /\ Part(s, 0, 0) = <<>> /\ Part(s, Len(s), Len(s)) = <<>>
           /\ \A a \in 0..Len(s) : Part(s, a, a) = <<>>
<1>1. Part(s, 0, Len(s)) = s
    BY DEF Part
<1>2. \A a \in 0..Len(s) : Part(s, a, a) = <<>>
    BY DEF Part
<1>3. 0 \in 0..Len(s) /\ Len(s) \in 0..Len(s)
    OBVIOUS
<1> QED
    BY <1>1, <1>2, <1>3

\* Two parts that meet make one.
LEMMA PartJoin ==
    ASSUME NEW X, NEW s \in Seq(X), NEW a \in Nat, NEW b \in Nat, NEW c \in Nat,
           a <= b, b <= c, c <= Len(s)
    PROVE  Then(Part(s, a, b), Part(s, b, c)) = Part(s, a, c)
<1>0. b <= Len(s) /\ a <= c
    OBVIOUS
<1>1. PICK p \in Seq(X) : p = Part(s, a, b)
    BY <1>0, PartFacts
<1>11. Len(p) = b - a /\ \A i \in 1..(b - a) : p[i] = s[a + i]
    <2>1. Len(p) = b - a
        BY <1>1, <1>0, PartFacts
    <2>2. \A i \in 1..(b - a) : p[i] = s[a + i]
        BY <1>1, <1>0, PartFacts
    <2> QED
        BY <2>1, <2>2
<1>2. PICK q \in Seq(X) : q = Part(s, b, c)
    BY <1>0, PartFacts
<1>21. Len(q) = c - b /\ \A i \in 1..(c - b) : q[i] = s[b + i]
    <2>1. Len(q) = c - b
        BY <1>2, <1>0, PartFacts
    <2>2. \A i \in 1..(c - b) : q[i] = s[b + i]
        BY <1>2, <1>0, PartFacts
    <2> QED
        BY <2>1, <2>2
<1>3. PICK r \in Seq(X) : r = Part(s, a, c)
    BY <1>0, PartFacts
<1>31. Len(r) = c - a /\ \A i \in 1..(c - a) : r[i] = s[a + i]
    <2>1. Len(r) = c - a
        BY <1>3, <1>0, PartFacts
    <2>2. \A i \in 1..(c - a) : r[i] = s[a + i]
        BY <1>3, <1>0, PartFacts
    <2> QED
        BY <2>1, <2>2
<1>4. PICK z \in Seq(X) : z = Then(p, q)
    BY ThenAt
<1>41. Len(z) = Len(p) + Len(q) /\ \A x \in 1..Len(p) : z[x] = p[x]
    BY <1>4, ThenAt
<1>42. \A x \in 1..Len(q) : z[Len(p) + x] = q[x]
    BY <1>4, ThenBehind
<1>5. Len(z) = Len(r)
    BY <1>11, <1>21, <1>31, <1>41
<1>6. ASSUME NEW i \in 1..Len(r) PROVE z[i] = r[i]
    <2>1. CASE i <= b - a
        BY <2>1, <1>11, <1>31, <1>41
    <2>2. CASE ~(i <= b - a)
        <3>1. PICK x \in 1..(c - b) : i = (b - a) + x /\ b + x = a + i
            <4>1. i - (b - a) \in 1..(c - b)
                BY <2>2, <1>31
            <4> QED
                BY <4>1
        <3>2. z[i] = q[x]
            BY <3>1, <1>11, <1>21, <1>42
        <3>3. q[x] = s[a + i]
            BY <3>1, <1>21
        <3> QED
            BY <3>2, <3>3, <1>31
    <2> QED
        BY <2>1, <2>2
<1>7. z = r
    BY <1>5, <1>6, SameSequence
<1> QED
    BY <1>1, <1>2, <1>3, <1>4, <1>7

\* A part of a part is a part of the whole.
LEMMA PartOfPart ==
    ASSUME NEW X, NEW s \in Seq(X), NEW a \in Nat, NEW b \in Nat, a <= b, b <= Len(s),
           NEW c \in Nat, NEW d \in Nat, c <= d, d <= b - a
    PROVE  Part(Part(s, a, b), c, d) = Part(s, a + c, a + d)
<1>1. PICK p \in Seq(X) : p = Part(s, a, b)
    BY PartFacts
<1>11. Len(p) = b - a /\ \A i \in 1..(b - a) : p[i] = s[a + i]
    <2>1. Len(p) = b - a
        BY <1>1, PartFacts
    <2>2. \A i \in 1..(b - a) : p[i] = s[a + i]
        BY <1>1, PartFacts
    <2> QED
        BY <2>1, <2>2
<1>12. d <= Len(p)
    BY <1>11
<1>2. PICK q \in Seq(X) : q = Part(p, c, d)
    BY <1>12, PartFacts
<1>21. Len(q) = d - c /\ \A i \in 1..(d - c) : q[i] = p[c + i]
    <2>1. Len(q) = d - c
        BY <1>12, <1>2, PartFacts
    <2>2. ASSUME NEW i \in 1..(d - c) PROVE q[i] = p[c + i]
        <3>1. Part(p, c, d)[i] = p[c + i]
            BY <1>12, PartAt
        <3> QED
            BY <3>1, <1>2
    <2> QED
        BY <2>1, <2>2
<1>3. PICK e \in Nat : e = a + c
    OBVIOUS
<1>4. PICK f \in Nat : f = a + d /\ e <= f /\ f <= Len(s) /\ f - e = d - c
    BY <1>3
<1>40. e <= f /\ f <= Len(s)
    BY <1>4
<1>5. PICK r \in Seq(X) : r = Part(s, e, f)
    BY <1>40, PartFacts
<1>51. Len(r) = f - e /\ \A i \in 1..(f - e) : r[i] = s[e + i]
    <2>1. Len(r) = f - e
        BY <1>40, <1>5, PartFacts
    <2>2. ASSUME NEW i \in 1..(f - e) PROVE r[i] = s[e + i]
        <3>1. Part(s, e, f)[i] = s[e + i]
            BY <1>40, PartFacts
        <3> QED
            BY <3>1, <1>5
    <2> QED
        BY <2>1, <2>2
<1>6. Len(q) = Len(r)
    BY <1>21, <1>4, <1>51
<1>7. ASSUME NEW i \in 1..Len(r) PROVE q[i] = r[i]
    <2>1. i \in 1..(d - c) /\ i \in 1..(f - e) /\ c + i \in 1..(b - a) /\ a + (c + i) = e + i
        BY <1>3, <1>4, <1>51
    <2>2. q[i] = p[c + i] /\ p[c + i] = s[a + (c + i)]
        BY <2>1, <1>11, <1>21
    <2>3. r[i] = s[e + i]
        BY <2>1, <1>4, <1>51
    <2> QED
        BY <2>1, <2>2, <2>3
<1>8. q = r
    BY <1>6, <1>7, SameSequence
<1> QED
    BY <1>1, <1>2, <1>3, <1>4, <1>5, <1>8

\* A part of what a sequence begins with is a part of it.
LEMMA PartOfThen ==
    ASSUME NEW X, NEW s \in Seq(X), NEW t \in Seq(X),
           NEW a \in Nat, NEW b \in Nat, a <= b, b <= Len(s)
    PROVE  Part(Then(s, t), a, b) = Part(s, a, b)
<1>1. PICK z \in Seq(X) : z = Then(s, t)
    BY ThenAt
<1>11. Len(z) = Len(s) + Len(t) /\ (\A x \in 1..Len(s) : z[x] = s[x])
    BY <1>1, ThenAt
<1>2. PICK p \in Seq(X) : p = Part(s, a, b)
    BY PartFacts
<1>21. Len(p) = b - a /\ \A i \in 1..(b - a) : p[i] = s[a + i]
    <2>1. Len(p) = b - a
        BY <1>2, PartFacts
    <2>2. \A i \in 1..(b - a) : p[i] = s[a + i]
        BY <1>2, PartFacts
    <2> QED
        BY <2>1, <2>2
<1>12. b <= Len(z)
    BY <1>11
<1>3. PICK q \in Seq(X) : q = Part(z, a, b)
    BY <1>12, PartFacts
<1>31. Len(q) = b - a /\ \A i \in 1..(b - a) : q[i] = z[a + i]
    <2>1. Len(q) = b - a
        BY <1>12, <1>3, PartFacts
    <2>2. \A i \in 1..(b - a) : q[i] = z[a + i]
        BY <1>12, <1>3, PartFacts
    <2> QED
        BY <2>1, <2>2
<1>4. ASSUME NEW i \in 1..Len(p) PROVE q[i] = p[i]
    <2>1. i \in 1..(b - a) /\ a + i \in 1..Len(s)
        BY <1>21
    <2> QED
        BY <2>1, <1>11, <1>21, <1>31
<1>5. q = p
    BY <1>21, <1>31, <1>4, SameSequence
<1> QED
    BY <1>1, <1>2, <1>3, <1>5

(***************************************************************************)
(* Redacting bytes, and text.                                              *)
(***************************************************************************)

\* What elements there are.
LEMMA ElementFacts ==
    /\ {Zero, EF, BB, BF, FF, FE, Lost} \subseteq Elements
    /\ Symbols \subseteq Elements /\ Markers \subseteq Elements
    /\ \A s \in Seq(Symbols) : s \in Seq(Elements)
<1>1. Symbols \subseteq Elements
    BY DEF Elements
<1>2. \A s \in Seq(Symbols) : s \in Seq(Elements)
    BY <1>1, SeqMonotonic
<1> QED
    BY <1>1, <1>2 DEF Elements

\* The marks of the encodings.
LEMMA MarkFacts ==
    /\ Mark.utf8 = <<>> /\ Mark.utf16le = <<>>
    /\ Mark.utf8bom = <<EF, BB, BF>> /\ Mark.utf16lebom = <<FF, FE>>
    /\ Mark.utf16bebom = <<FE, FF>>
    BY DEF Mark

\* What stands behind the first bytes is bytes.
LEMMA AfterType ==
    ASSUME NEW X, NEW b \in Seq(X), NEW n \in Nat, n <= Len(b)
    PROVE  After(b, n) \in Seq(X) /\ After(b, n) = Part(b, n, Len(b))
    BY DEF After, Part

\* Units are one of every two bytes.
LEMMA UnitsFacts ==
    ASSUME NEW X, NEW b \in Seq(X), NEW order
    PROVE  /\ Len(b) \div 2 \in Nat
           /\ Units(order, b) \in Seq(X) /\ Len(Units(order, b)) = Len(b) \div 2
           /\ \A i \in 1..(Len(b) \div 2) :
                 Units(order, b)[i] = b[IF order = "le" THEN 2 * i - 1 ELSE 2 * i]
<1>1. PICK h \in Nat : h = Len(b) \div 2 /\ 2 * h <= Len(b)
    <2>1. Len(b) \in Nat
        OBVIOUS
    <2>2. Len(b) \div 2 \in Nat /\ 2 * (Len(b) \div 2) <= Len(b)
        BY <2>1
    <2> QED
        BY <2>2
<1>2. \A i \in 1..h : 2 * i - 1 \in 1..Len(b) /\ 2 * i \in 1..Len(b)
    BY <1>1
<1>3. \A i \in 1..h : b[2 * i - 1] \in X /\ b[2 * i] \in X
    BY <1>2
<1>4. Units(order, b) \in [1..h -> X]
    BY <1>1, <1>3 DEF Units
<1> QED
    BY <1>1, <1>4 DEF Units

\* Decoding makes elements of elements.
LEMMA NormalizeType ==
    ASSUME NEW b \in Seq(Elements)
    PROVE  NormalizeUTF8(b) \in Seq(Elements)
<1>1. ASSUME IsPrefix(Mark.utf8bom, b) PROVE After(b, 3) \in Seq(Elements)
    <2>1. 3 <= Len(b)
        BY <1>1, MarkFacts DEF IsPrefix
    <2> QED
        BY <2>1, AfterType
<1>2. ASSUME Len(b) >= 2 PROVE After(b, 2) \in Seq(Elements)
    BY <1>2, AfterType
<1>3. ASSUME NEW c \in Seq(Elements), NEW order PROVE Units(order, c) \in Seq(Elements)
    BY UnitsFacts
<1>4. IsPrefix(Mark.utf16lebom, b) => Len(b) >= 2
    BY MarkFacts DEF IsPrefix
<1>5. IsPrefix(Mark.utf16bebom, b) => Len(b) >= 2
    BY MarkFacts DEF IsPrefix
<1> QED
    BY <1>1, <1>2, <1>3, <1>4, <1>5 DEF NormalizeUTF8

\* Bytes without a zero do not look like UTF-16.
LEMMA NoZero ==
    ASSUME NEW b, Len(b) \in Nat, \A i \in 1..Len(b) : b[i] # Zero
    PROVE  ~LooksUTF16LE(b)
<1>1. SUFFICES ASSUME LooksUTF16LE(b) PROVE FALSE
    OBVIOUS
<1>2. PICK h \in Nat : h = Len(b) \div 2 /\ 2 * h <= Len(b)
    <2>1. Len(b) \div 2 \in Nat /\ 2 * (Len(b) \div 2) <= Len(b)
        OBVIOUS
    <2> QED
        BY <2>1
<1>3. Len(b) >= 4 /\ Cardinality({i \in 1..h : b[2 * i] = Zero}) * 100 >= 30 * h
    BY <1>1, <1>2 DEF LooksUTF16LE
<1>4. {i \in 1..h : b[2 * i] = Zero} = {}
    <2>1. \A i \in 1..h : 2 * i \in 1..Len(b)
        BY <1>2
    <2> QED
        BY <2>1
<1>5. Cardinality({i \in 1..h : b[2 * i] = Zero}) = 0
    BY <1>4, FS_EmptySet
<1>6. h >= 2
    BY <1>2, <1>3
<1> QED
    BY <1>3, <1>5, <1>6

\* Nothing that begins with a symbol has a mark, and text has no zeros.
LEMMA SymbolFacts ==
    ASSUME NEW c \in Symbols
    PROVE  c # Zero /\ c # EF /\ c # BB /\ c # BF /\ c # FF /\ c # FE /\ c # Lost
    BY RedactionAssumption

\* What begins with a symbol has no mark.
LEMMA NoMark ==
    ASSUME NEW b \in Seq(Elements), Len(b) = 0 \/ b[1] \in Symbols
    PROVE  /\ ~IsPrefix(Mark.utf8bom, b) /\ ~IsPrefix(Mark.utf16lebom, b)
           /\ ~IsPrefix(Mark.utf16bebom, b)
<1>1. <<EF, BB, BF>> \in Seq(Elements) /\ <<FF, FE>> \in Seq(Elements)
      /\ <<FE, FF>> \in Seq(Elements)
    BY ElementFacts
<1>2. ASSUME NEW m \in Seq(Elements), Len(m) >= 1, m[1] \notin Symbols
      PROVE  ~IsPrefix(m, b)
    <2>1. SUFFICES ASSUME IsPrefix(m, b) PROVE FALSE
        OBVIOUS
    <2>2. Len(m) <= Len(b) /\ \A i \in 1..Len(m) : m[i] = b[i]
        BY <2>1, PrefixMeans
    <2>3. Len(b) >= 1 /\ m[1] = b[1]
        BY <1>2, <2>2
    <2> QED
        BY <1>2, <2>3
<1>3. EF \notin Symbols /\ FF \notin Symbols /\ FE \notin Symbols
    BY RedactionAssumption
<1>4. ~IsPrefix(<<EF, BB, BF>>, b)
    <2>1. PICK m \in Seq(Elements) : m = <<EF, BB, BF>>
        BY <1>1
    <2>2. Len(m) >= 1 /\ m[1] \notin Symbols
        BY <2>1, <1>3
    <2> QED
        BY <2>1, <2>2, <1>2
<1>5. ~IsPrefix(<<FF, FE>>, b)
    <2>1. PICK m \in Seq(Elements) : m = <<FF, FE>>
        BY <1>1
    <2>2. Len(m) >= 1 /\ m[1] \notin Symbols
        BY <2>1, <1>3
    <2> QED
        BY <2>1, <2>2, <1>2
<1>6. ~IsPrefix(<<FE, FF>>, b)
    <2>1. PICK m \in Seq(Elements) : m = <<FE, FF>>
        BY <1>1
    <2>2. Len(m) >= 1 /\ m[1] \notin Symbols
        BY <2>1, <1>3
    <2> QED
        BY <2>1, <2>2, <1>2
<1> QED
    BY <1>4, <1>5, <1>6, MarkFacts

\* Text that is UTF-8 is decoded to itself.
LEMMA NormalizeText ==
    ASSUME NEW s \in Seq(Symbols)
    PROVE  NormalizeUTF8(s) = s
<1>1. s \in Seq(Elements) /\ (Len(s) = 0 \/ s[1] \in Symbols)
    BY ElementFacts
<1>2. /\ ~IsPrefix(Mark.utf8bom, s) /\ ~IsPrefix(Mark.utf16lebom, s)
      /\ ~IsPrefix(Mark.utf16bebom, s)
    BY <1>1, NoMark
<1>3. ~LooksUTF16LE(s)
    <2>1. \A i \in 1..Len(s) : s[i] # Zero
        BY SymbolFacts
    <2> QED
        BY <2>1, NoZero
<1> QED
    BY <1>2, <1>3 DEF NormalizeUTF8

\* A redaction is made of elements.
LEMMA RedactType ==
    ASSUME NEW b \in Seq(Elements)
    PROVE  Redact(b) \in Seq(Elements)
<1>1. NormalizeUTF8(b) \in Seq(Elements)
    BY NormalizeType
<1>2. PICK f : Chain(NormalizeUTF8(b), f) /\ Redact(b) = f[Len(Entries)]
    BY <1>1, RedactChain
<1>3. Len(Entries) \in 0..Len(Entries)
    BY EntriesFacts
<1> QED
    BY <1>2, <1>3 DEF Chain

\* Text is redacted as a whole when its values are apart.
LEMMA RedactText ==
    ASSUME ValuesApart, NEW s \in Seq(Symbols)
    PROVE  /\ Redact(s) = Whole(s, Len(Entries)) /\ Redact(s) \in Seq(Elements)
<1>1. NormalizeUTF8(s) = s
    BY NormalizeText
<1>2. Redact(s) = Whole(s, Len(Entries))
    BY <1>1, RedactPieces
<1>3. s \in Seq(Elements)
    BY ElementFacts
<1> QED
    BY <1>2, <1>3, RedactType

(***************************************************************************)
(* The number of markers.                                                  *)
(***************************************************************************)
Begins(z) == {i \in DOMAIN z : \E k \in Keys : z[i] = <<k, 1>>}

\* Where a marker begins in a sequence.
LEMMA BeginsMeans ==
    ASSUME NEW X, NEW z \in Seq(X)
    PROVE  \A i : i \in Begins(z) <=> i \in 1..Len(z) /\ \E k \in Keys : z[i] = <<k, 1>>
    BY DEF Begins

\* There are finitely many such places.
LEMMA BeginsFacts ==
    ASSUME NEW X, NEW z \in Seq(X)
    PROVE  IsFiniteSet(Begins(z)) /\ Cardinality(Begins(z)) \in Nat
<1>1. IsFiniteSet(1..Len(z))
    BY FS_Interval
<1>2. Begins(z) \in SUBSET (1..Len(z))
    BY DEF Begins
<1>3. IsFiniteSet(Begins(z))
    BY <1>1, <1>2, FS_Subset
<1> QED
    BY <1>3, FS_CardinalityType

\* The markers of two sequences joined are those of both.
LEMMA BeginsThen ==
    ASSUME NEW X, NEW s \in Seq(X), NEW t \in Seq(X)
    PROVE  Cardinality(Begins(Then(s, t))) = Cardinality(Begins(s)) + Cardinality(Begins(t))
<1>1. PICK a \in Nat : a = Len(s)
    OBVIOUS
<1>2. PICK b \in Nat : b = Len(t)
    OBVIOUS
<1>3. PICK z \in Seq(X) : z = Then(s, t)
    BY ThenAt
<1>4. Len(z) = a + b /\ \A x \in 1..a : z[x] = s[x]
    BY <1>1, <1>2, <1>3, ThenAt
<1>5. \A x \in 1..b : z[a + x] = t[x]
    <2>1. \A x \in 1..Len(t) : z[Len(s) + x] = t[x]
        BY <1>3, ThenBehind
    <2> QED
        BY <2>1, <1>1, <1>2
<1> DEFINE T == {a + x : x \in Begins(t)}
<1>6. ExistsBijection(Begins(t), T)
    <2>1. PICK f : f = [x \in Begins(t) |-> a + x]
        OBVIOUS
    <2>2. \A x \in Begins(t) : x \in Nat
        BY <1>2, BeginsMeans
    <2>3. f \in [Begins(t) -> T]
        BY <2>1
    <2>4. \A x, y \in Begins(t) : f[x] = f[y] => x = y
        BY <2>1, <2>2
    <2>5. \A y \in T : \E x \in Begins(t) : f[x] = y
        BY <2>1
    <2>6. f \in Injection(Begins(t), T)
        BY <2>3, <2>4 DEF Injection, IsInjective
    <2>7. f \in Surjection(Begins(t), T)
        BY <2>3, <2>5 DEF Surjection
    <2> QED
        BY <2>6, <2>7 DEF ExistsBijection, Bijection
<1>7. IsFiniteSet(T) /\ Cardinality(T) = Cardinality(Begins(t))
    BY <1>6, BeginsFacts, FS_Bijection
<1>8. Begins(z) = Begins(s) \cup T
    <2>1. ASSUME NEW i \in Begins(z) PROVE i \in Begins(s) \cup T
        <3>1. i \in 1..(a + b) /\ \E k \in Keys : z[i] = <<k, 1>>
            BY <1>4, BeginsMeans
        <3>2. CASE i \in 1..a
            BY <3>1, <3>2, <1>1, <1>4, BeginsMeans
        <3>3. CASE i \notin 1..a
            <4>1. PICK x \in 1..b : i = a + x
                <5>1. i - a \in 1..b /\ i = a + (i - a)
                    BY <3>1, <3>3
                <5> QED
                    BY <5>1
            <4>2. x \in Begins(t)
                BY <3>1, <4>1, <1>2, <1>5, BeginsMeans
            <4> QED
                BY <4>1, <4>2
        <3> QED
            BY <3>2, <3>3
    <2>2. ASSUME NEW i \in Begins(s) PROVE i \in Begins(z)
        BY <1>1, <1>4, BeginsMeans, SMTT(30)
    <2>3. ASSUME NEW x \in Begins(t) PROVE a + x \in Begins(z)
        <3>1. x \in 1..b /\ \E k \in Keys : t[x] = <<k, 1>>
            BY <1>2, BeginsMeans
        <3>2. a + x \in 1..Len(z) /\ z[a + x] = t[x]
            BY <3>1, <1>4, <1>5
        <3> QED
            BY <3>1, <3>2, BeginsMeans
    <2> QED
        BY <2>1, <2>2, <2>3
<1>9. Begins(s) \cap T = {}
    <2>1. \A i \in Begins(s) : i <= a
        BY <1>1, BeginsMeans
    <2>2. \A x \in Begins(t) : x \in Nat /\ x >= 1
        BY <1>2, BeginsMeans
    <2>3. ASSUME NEW i \in Begins(s), i \in T PROVE FALSE
        <3>1. PICK x \in Begins(t) : i = a + x
            BY <2>3
        <3>2. i > a /\ i <= a
            BY <3>1, <2>1, <2>2
        <3>3. i \in Nat
            BY BeginsMeans
        <3> QED
            BY <3>2, <3>3
    <2> QED
        BY <2>3
<1> HIDE DEF T
<1>10. IsFiniteSet(Begins(s))
    BY BeginsFacts
<1>11. Cardinality(Begins(s) \cup T) =
           Cardinality(Begins(s)) + Cardinality(T) - Cardinality(Begins(s) \cap T)
    BY <1>7, <1>10, FS_Union
<1>12. Cardinality(Begins(s) \cap T) = 0
    BY <1>9, FS_EmptySet
<1>13. Cardinality(Begins(s)) \in Nat /\ Cardinality(Begins(t)) \in Nat
    BY BeginsFacts
<1> QED
    BY <1>3, <1>7, <1>8, <1>11, <1>12, <1>13

\* The redactions are counted where the markers begin.
LEMMA RedactionsCount ==
    ASSUME NEW b \in Seq(Elements)
    PROVE  /\ Redactions(b) = Cardinality(Begins(Redact(b)))
           /\ Redactions(b) \in Nat
<1>1. Redactions(b) = Cardinality(Begins(Redact(b)))
    BY DEF Redactions, Begins
<1> QED
    BY <1>1, RedactType, BeginsFacts

\* Text may be cut, for its redaction, where no value lies across the cut.
LEMMA SplitRedact ==
    ASSUME ValuesApart, NEW s \in Seq(Symbols), NEW t \in Seq(Symbols),
           Apart(Then(s, t), Len(s))
    PROVE  /\ Redact(Then(s, t)) = Then(Redact(s), Redact(t))
           /\ Redactions(Then(s, t)) = Redactions(s) + Redactions(t)
<1>1. PICK z \in Seq(Symbols) : z = Then(s, t)
    BY ThenAt
<1>2. Len(Entries) \in 0..Len(Entries)
    BY EntriesFacts
<1>3. Whole(Then(s, t), Len(Entries)) = Then(Whole(s, Len(Entries)), Whole(t, Len(Entries)))
    BY <1>2, PiecesThen
<1>4. Redact(z) = Whole(z, Len(Entries)) /\ Redact(s) = Whole(s, Len(Entries))
      /\ Redact(t) = Whole(t, Len(Entries))
    BY RedactText
<1>5. Redact(s) \in Seq(Elements) /\ Redact(t) \in Seq(Elements)
    BY RedactText
<1>6. Redact(z) = Then(Redact(s), Redact(t))
    BY <1>1, <1>3, <1>4
<1>7. Cardinality(Begins(Redact(z))) =
          Cardinality(Begins(Redact(s))) + Cardinality(Begins(Redact(t)))
    BY <1>5, <1>6, BeginsThen
<1>8. s \in Seq(Elements) /\ t \in Seq(Elements) /\ z \in Seq(Elements)
    BY ElementFacts
<1>9. Redactions(z) = Redactions(s) + Redactions(t)
    BY <1>7, <1>8, RedactionsCount
<1> QED
    BY <1>1, <1>6, <1>9

(***************************************************************************)
(* Where text may be cut.                                                  *)
(***************************************************************************)

\* A value that stands in a part stands in the text.
LEMMA OccursPart ==
    ASSUME NEW s \in Seq(Symbols), NEW i \in 1..Len(Entries),
           NEW a \in Nat, NEW f \in Nat, a <= f, f <= Len(s), NEW b \in Nat
    PROVE  OccursAt(Part(s, a, f), V(i), b) <=>
               OccursAt(s, V(i), a + b) /\ a + b + Len(V(i)) <= f
<1>1. PICK p \in Seq(Symbols) : p = Part(s, a, f)
    BY PartFacts
<1>2. Len(p) = f - a
    BY <1>1, PartFacts
<1>3. \A x \in 1..(f - a) : p[x] = s[a + x]
    BY <1>1, PartFacts
<1>4. PICK l \in Nat : l = Len(V(i))
    BY VFacts
<1>5. PICK c \in Nat : c = a + b
    OBVIOUS
<1>6. OccursAt(p, V(i), b) <=> b + l <= f - a /\ \A x \in 1..l : p[b + x] = V(i)[x]
    BY <1>2, <1>4, OccursInText
<1>7. OccursAt(s, V(i), c) <=> c + l <= Len(s) /\ \A x \in 1..l : s[c + x] = V(i)[x]
    BY <1>4, OccursInText
<1>8. ASSUME c + l <= f, NEW x \in 1..l PROVE p[b + x] = s[c + x]
    <2>1. PICK y \in 1..(f - a) : y = b + x /\ a + y = c + x
        <3>1. b + x \in 1..(f - a) /\ a + (b + x) = c + x
            BY <1>5, <1>8
        <3> QED
            BY <3>1
    <2>2. p[y] = s[a + y]
        BY <1>3
    <2> QED
        BY <2>1, <2>2
<1>9. b + l <= f - a <=> c + l <= f
    BY <1>5
<1>10. c + l <= f => c + l <= Len(s)
    OBVIOUS
<1>11. CASE c + l <= f
    <2>1. (\A x \in 1..l : p[b + x] = V(i)[x]) <=> (\A x \in 1..l : s[c + x] = V(i)[x])
        BY <1>8, <1>11
    <2> QED
        BY <2>1, <1>1, <1>4, <1>5, <1>6, <1>7, <1>9, <1>10, <1>11
<1>12. CASE ~(c + l <= f)
    BY <1>1, <1>4, <1>5, <1>6, <1>9, <1>12
<1> QED
    BY <1>11, <1>12

\* No value lies across the place in a part of the text either.
LEMMA ApartPart ==
    ASSUME NEW s \in Seq(Symbols), NEW e \in Nat, NEW f \in Nat, e <= f, f <= Len(s),
           Apart(s, e)
    PROVE  Apart(Part(s, 0, f), e)
<1>1. ASSUME NEW i \in 1..Len(Entries), NEW b \in 0..(e - 1),
             OccursAt(Part(s, 0, f), V(i), b)
      PROVE  b + Len(V(i)) <= e
    <2>1. OccursAt(s, V(i), 0 + b)
        BY <1>1, OccursPart
    <2>2. 0 + b = b
        OBVIOUS
    <2> QED
        BY <2>1, <2>2 DEF Apart
<1> QED
    BY <1>1 DEF Apart

\* What no value lies across stays so when the text goes on, as long as the
\* longest value that begins before it would be there.
LEMMA ApartGrows ==
    ASSUME NEW s \in Seq(Symbols), NEW e \in Nat, NEW f \in Nat, e + Keep <= f, f <= Len(s),
           Apart(Part(s, 0, f), e)
    PROVE  Apart(s, e)
<1>0. Keep \in Nat
    BY LongestFirst
<1>1. ASSUME NEW i \in 1..Len(Entries), NEW b \in 0..(e - 1), OccursAt(s, V(i), b)
      PROVE  b + Len(V(i)) <= e
    <2>1. PICK l \in Nat : l = Len(V(i)) /\ l <= Keep + 1
        <3>1. Entries[i] \in Long
            BY EntriesFacts
        <3>2. Len(V(i)) \in Nat /\ Len(V(i)) <= MaxValueLen /\ MaxValueLen = Keep + 1
            BY <3>1, LongestFirst, VFacts DEF V
        <3> QED
            BY <3>2
    <2>2. b + l <= f
        BY <2>1, <1>0
    <2>3. OccursAt(Part(s, 0, f), V(i), b)
        <3>1. 0 + b = b
            OBVIOUS
        <3> QED
            BY <3>1, <2>1, <2>2, <1>1, OccursPart
    <2> QED
        BY <2>3 DEF Apart
<1> QED
    BY <1>1 DEF Apart

\* A value lies across place l that begins at p.
Across(s, p, l) ==
    \E i \in 1..Len(Entries) : OccursAt(s, V(i), p) /\ p + Len(V(i)) > l

\* The first place where a value begins that lies across l is a place where text
\* may be cut, and so is l when there is none.
LEMMA SafePoint ==
    ASSUME ValuesApart, NEW s \in Seq(Symbols), NEW l \in Nat, l <= Len(s),
           NEW a \in Nat, NEW p \in Nat, a <= p, p <= l, Apart(s, a),
           p = l \/ Across(s, p, l),
           \A b \in a..(p - 1) : ~Across(s, b, l)
    PROVE  Apart(s, p)
<1>1. SUFFICES ASSUME NEW i \in 1..Len(Entries), NEW b \in 0..(p - 1), OccursAt(s, V(i), b),
                      ~(b + Len(V(i)) <= p)
               PROVE  FALSE
    BY DEF Apart
<1>2. PICK v \in Nat : v = Len(V(i))
    BY VFacts
<1>3. CASE b < a
    <2>1. b \in 0..(a - 1)
        BY <1>3
    <2>2. b + v <= a
        BY <2>1, <1>1, <1>2 DEF Apart
    <2> QED
        BY <2>2, <1>1, <1>2
<1>4. CASE ~(b < a)
    <2>1. b \in a..(p - 1)
        BY <1>4
    <2>2. b + v <= l
        BY <2>1, <1>1, <1>2 DEF Across
    <2>3. p # l
        BY <2>2, <1>1, <1>2
    <2>4. PICK h \in 1..Len(Entries) : OccursAt(s, V(h), p) /\ p + Len(V(h)) > l
        BY <2>3 DEF Across
    <2>5. b < p /\ p < b + Len(V(i)) /\ b \in Nat
        BY <1>1, <1>2
    <2>6. p + Len(V(h)) <= b + Len(V(i))
        BY <2>4, <2>5, <1>1, NoOverlap
    <2>7. PICK w \in Nat : w = Len(V(h))
        BY VFacts
    <2> QED
        BY <2>2, <2>4, <2>6, <2>7, <1>2
<1> QED
    BY <1>3, <1>4

(***************************************************************************)
(* What of the text is left.                                               *)
(***************************************************************************)

\* InSymbols, before the sequences are joined.
Shown(w) == [i \in 1..Len(w) |-> IF w[i] \in Symbols THEN <<w[i]>> ELSE <<>>]

\* Of each element at most one symbol is shown.
LEMMA ShownFacts ==
    ASSUME NEW X, NEW w \in Seq(X)
    PROVE  /\ Shown(w) \in Seq(Seq(Symbols)) /\ Len(Shown(w)) = Len(w)
           /\ \A i \in 1..Len(w) : Shown(w)[i] = IF w[i] \in Symbols THEN <<w[i]>> ELSE <<>>
           /\ InSymbols(w) = FlattenSeq(Shown(w))
<1>1. PICK n \in Nat : n = Len(w)
    OBVIOUS
<1>2. PICK Y : Y = Seq(Symbols)
    OBVIOUS
<1>3. \A i \in 1..n : (IF w[i] \in Symbols THEN <<w[i]>> ELSE <<>>) \in Y
    BY <1>2
<1>4. Shown(w) \in [1..n -> Y]
    BY <1>1, <1>3 DEF Shown
<1>5. Shown(w) \in Seq(Y) /\ Len(Shown(w)) = n
    BY <1>4
<1> QED
    BY <1>1, <1>2, <1>5 DEF Shown, InSymbols

\* The symbols of two sequences joined are those of both.
LEMMA InSymbolsThen ==
    ASSUME NEW X, NEW s \in Seq(X), NEW t \in Seq(X)
    PROVE  /\ InSymbols(Then(s, t)) = Then(InSymbols(s), InSymbols(t))
           /\ InSymbols(s) \in Seq(Symbols)
<1>1. PICK Y : Y = Seq(Symbols)
    OBVIOUS
<1>2. PICK a \in Seq(Y) : a = Shown(s)
    BY <1>1, ShownFacts
<1>3. PICK b \in Seq(Y) : b = Shown(t)
    BY <1>1, ShownFacts
<1>4. PICK z \in Seq(X) : z = Then(s, t)
    BY ThenAt
<1>5. Len(z) = Len(s) + Len(t) /\ \A x \in 1..Len(s) : z[x] = s[x]
    BY <1>4, ThenAt
<1>6. \A x \in 1..Len(t) : z[Len(s) + x] = t[x]
    BY <1>4, ThenBehind
<1>7. PICK c \in Seq(Y) : c = Shown(z)
    BY <1>1, ShownFacts
<1>8. Len(a) = Len(s) /\ Len(b) = Len(t) /\ Len(c) = Len(z)
    BY <1>2, <1>3, <1>7, ShownFacts
<1>9. \A x \in 1..Len(s) : a[x] = IF s[x] \in Symbols THEN <<s[x]>> ELSE <<>>
    BY <1>2, ShownFacts
<1>10. \A x \in 1..Len(t) : b[x] = IF t[x] \in Symbols THEN <<t[x]>> ELSE <<>>
    BY <1>3, ShownFacts
<1>11. \A x \in 1..Len(z) : c[x] = IF z[x] \in Symbols THEN <<z[x]>> ELSE <<>>
    BY <1>7, ShownFacts
<1>12. PICK q \in Seq(Y) : q = Then(a, b)
    BY ThenAt
<1>13. Len(q) = Len(a) + Len(b) /\ \A x \in 1..Len(a) : q[x] = a[x]
    BY <1>12, ThenAt
<1>14. \A x \in 1..Len(b) : q[Len(a) + x] = b[x]
    BY <1>12, ThenBehind
<1>15. Len(q) = Len(c)
    BY <1>5, <1>8, <1>13
<1>16. ASSUME NEW g \in 1..Len(c) PROVE q[g] = c[g]
    <2>1. CASE g \in 1..Len(s)
        <3>1. q[g] = a[g]
            BY <2>1, <1>8, <1>13
        <3>2. z[g] = s[g]
            BY <2>1, <1>5
        <3>3. g \in 1..Len(z)
            BY <1>8
        <3> QED
            BY <2>1, <3>1, <3>2, <3>3, <1>9, <1>11
    <2>2. CASE g \notin 1..Len(s)
        <3>1. PICK x \in 1..Len(t) : g = Len(s) + x
            <4>1. g - Len(s) \in 1..Len(t) /\ g = Len(s) + (g - Len(s))
                BY <2>2, <1>5, <1>8
            <4> QED
                BY <4>1
        <3>2. q[g] = b[x]
            BY <3>1, <1>8, <1>14
        <3>3. z[g] = t[x]
            BY <3>1, <1>6
        <3>4. g \in 1..Len(z)
            BY <1>8
        <3> QED
            BY <3>2, <3>3, <3>4, <1>10, <1>11
    <2> QED
        BY <2>1, <2>2
<1>17. q = c
    BY <1>15, <1>16, SameSequence
<1>18. a \o b = c
    BY <1>12, <1>17, Zenon DEF Then
<1>19. FlattenSeq(a \o b) = Then(FlattenSeq(a), FlattenSeq(b))
    BY <1>1, FlattenThen
<1>20. /\ InSymbols(s) = FlattenSeq(a) /\ InSymbols(t) = FlattenSeq(b)
       /\ InSymbols(z) = FlattenSeq(c)
    BY <1>2, <1>3, <1>7, ShownFacts
<1>21. FlattenSeq(a) \in Seq(Symbols)
    BY <1>1, FlattenType
<1> QED
    BY <1>4, <1>18, <1>19, <1>20, <1>21

\* Where there are no symbols none is shown.
LEMMA InSymbolsNone ==
    ASSUME NEW X, NEW w \in Seq(X), \A i \in 1..Len(w) : w[i] \notin Symbols
    PROVE  InSymbols(w) = <<>>
<1>1. PICK ss \in Seq(Seq(Symbols)) : ss = Shown(w)
    BY ShownFacts
<1>2. PICK n \in Nat : n = Len(ss)
    OBVIOUS
<1>3. \A i \in 1..n : ss[i] = <<>>
    BY <1>1, <1>2, ShownFacts
<1>4. PICK T : T = {i \in 0..n : First(ss, Symbols, i) = <<>>}
    OBVIOUS
<1>5. 0 \in T
    BY <1>4, FirstFacts
<1>6. ASSUME NEW i \in 1..n, i - 1 \in T PROVE i \in T
    <2>1. PICK t \in Seq(Symbols) : t = <<>>
        <3>1. <<>> \in Seq(Symbols)
            OBVIOUS
        <3> QED
            BY <3>1
    <2>2. t = ss[i] /\ i \in 1..Len(ss)
        BY <2>1, <1>2, <1>3
    <2>3. First(ss, Symbols, i) = Then(First(ss, Symbols, i - 1), t)
        BY <2>2, FirstThen
    <2>4. First(ss, Symbols, i - 1) = t /\ Then(t, t) = t
        BY <2>1, <1>4, <1>6, ThenFacts
    <2> QED
        BY <2>1, <2>3, <2>4, <1>4
<1>7. \A i \in 0..n : i \in T
    BY <1>5, <1>6, BoundedInduction
<1>8. First(ss, Symbols, n) = <<>>
    BY <1>4, <1>7
<1>9. FlattenSeq(ss) = <<>>
    BY <1>2, <1>8, FirstFacts
<1> QED
    BY <1>1, <1>9, ShownFacts

\* A symbol is shown as it is.
LEMMA InSymbolsOne ==
    ASSUME NEW c \in Symbols
    PROVE  InSymbols(<<c>>) = <<c>>
<1>1. PICK w \in Seq(Symbols) : w = <<c>>
    <2>1. <<c>> \in Seq(Symbols)
        OBVIOUS
    <2> QED
        BY <2>1
<1>2. PICK ss \in Seq(Seq(Symbols)) : ss = Shown(w)
    BY ShownFacts
<1>3. Len(w) = 1 /\ w[1] = c
    BY <1>1
<1>4. Len(ss) = 1 /\ ss[1] = w
    <2>1. Len(ss) = Len(w)
        BY <1>2, ShownFacts
    <2>2. \A i \in 1..Len(w) : ss[i] = IF w[i] \in Symbols THEN <<w[i]>> ELSE <<>>
        BY <1>2, ShownFacts
    <2> QED
        BY <2>1, <2>2, <1>1, <1>3
<1>5. First(ss, Symbols, 1) = Then(First(ss, Symbols, 1 - 1), w)
    BY <1>4, FirstThen
<1>6. First(ss, Symbols, 1 - 1) = <<>> /\ Then(<<>>, w) = w
    BY FirstFacts, ThenFacts
<1>7. FlattenSeq(ss) = w
    BY <1>4, <1>5, <1>6, FirstFacts
<1> QED
    BY <1>1, <1>2, <1>7, ShownFacts

\* To be covered is to be covered by one of all the entries.
LEMMA CoveredCovers ==
    ASSUME NEW s \in Seq(Symbols), NEW j \in 1..Len(s)
    PROVE  Covered(s, j) <=> Covers(s, Len(Entries), j)
<1>1. ASSUME Covered(s, j) PROVE Covers(s, Len(Entries), j)
    <2>1. PICK k \in Range(Entries), b \in 0..(j - 1) :
              OccursAt(s, Value[k], b) /\ j <= b + Len(Value[k])
        BY <1>1 DEF Covered
    <2>2. PICK i \in 1..Len(Entries) : Entries[i] = k
        BY EntriesFacts, LongestFirst
    <2> QED
        BY <2>1, <2>2 DEF Covers, V
<1>2. ASSUME Covers(s, Len(Entries), j) PROVE Covered(s, j)
    <2>1. PICK i \in 1..Len(Entries), b \in 0..(j - 1) :
              OccursAt(s, V(i), b) /\ j <= b + Len(V(i))
        BY <1>2 DEF Covers
    <2>2. Entries[i] \in Range(Entries)
        BY EntriesFacts, LongestFirst
    <2> QED
        BY <2>1, <2>2 DEF Covered, V
<1> QED
    BY <1>1, <1>2

\* Of text that is redacted as a whole the symbols that belong to no value are
\* left.
LEMMA RedactedRemnant ==
    ASSUME ValuesApart, NEW s \in Seq(Symbols)
    PROVE  InSymbols(Redact(s)) = Uncovered(s)
<1>1. PICK N \in Nat : N = Len(Entries) /\ N \in 0..Len(Entries)
    BY EntriesFacts
<1>2. PICK n \in Nat : n = Len(s)
    OBVIOUS
<1>3. PICK Y : Y = Seq(Symbols)
    OBVIOUS
<1>4. PICK ss : ss = [j \in 1..Len(s) |-> IF Covered(s, j) THEN <<>> ELSE <<s[j]>>]
    OBVIOUS
<1>5. ss \in Seq(Y) /\ Len(ss) = n
    <2>1. \A j \in 1..n : (IF Covered(s, j) THEN <<>> ELSE <<s[j]>>) \in Y
        BY <1>2, <1>3
    <2>2. ss \in [1..n -> Y]
        BY <2>1, <1>2, <1>4
    <2> QED
        BY <2>2
<1>6. ss \in Seq(Seq(Symbols))
    BY <1>3, <1>5
<1>7. PICK T : T = {j \in 0..n : InSymbols(Made(s, N, j)) = First(ss, Symbols, j)}
    OBVIOUS
<1>8. 0 \in T
    <2>1. Made(s, N, 0) = <<>> /\ First(ss, Symbols, 0) = <<>>
        BY <1>1, <1>6, MadeFacts, FirstFacts
    <2>2. InSymbols(<<>>) = <<>>
        <3>1. <<>> \in Seq(Symbols) /\ \A i \in 1..Len(<<>>) : <<>>[i] \notin Symbols
            OBVIOUS
        <3> QED
            BY <3>1, InSymbolsNone
    <2> QED
        BY <2>1, <2>2, <1>7
<1>9. ASSUME NEW j \in 1..n, j - 1 \in T PROVE j \in T
    <2>1. PICK p \in Seq(Elements) : p = Piece(s, N, j)
        BY <1>1, <1>2, PieceFacts
    <2>2. PICK m \in Seq(Elements) : m = Made(s, N, j - 1)
        BY <1>1, <1>2, MadeFacts
    <2>3. Made(s, N, j) = Then(m, p)
        BY <2>1, <2>2, <1>1, <1>2, MadeThen
    <2>4. InSymbols(Then(m, p)) = Then(InSymbols(m), InSymbols(p))
        BY InSymbolsThen
    <2>5. PICK t \in Seq(Symbols) : t = ss[j]
        BY <1>5, <1>6
    <2>6. First(ss, Symbols, j) = Then(First(ss, Symbols, j - 1), t)
        BY <2>5, <1>5, <1>6, FirstThen
    <2>7. InSymbols(p) = t
        <3>1. t = IF Covered(s, j) THEN <<>> ELSE <<s[j]>>
            BY <2>5, <1>2, <1>4
        <3>2. Covered(s, j) <=> Covers(s, N, j)
            BY <1>1, <1>2, CoveredCovers
        <3>3. CASE ~Covers(s, N, j)
            <4>1. p = <<s[j]>>
                BY <3>3, <2>1, <1>1, <1>2, PieceFacts
            <4>2. s[j] \in Symbols
                BY <1>2
            <4> QED
                BY <4>1, <4>2, <3>1, <3>2, <3>3, InSymbolsOne
        <3>4. CASE Covers(s, N, j)
            <4>1. \A i \in 1..Len(p) : p[i] \notin Symbols
                <5>1. CASE \E i \in 1..N : Leads(s, i, j)
                    <6>1. PICK i \in 1..N : Leads(s, i, j)
                        BY <5>1
                    <6>2. p = Marker(Entries[i])
                        BY <6>1, <2>1, <1>1, <1>2, PieceFacts
                    <6>3. Entries[i] \in Keys
                        BY <1>1, EntryFacts
                    <6>4. Marker(Entries[i]) \in Seq(Markers)
                        BY <6>3, MarkerFacts
                    <6>5. Markers \cap Symbols = {}
                        BY RedactionAssumption
                    <6> QED
                        BY <6>2, <6>4, <6>5
                <5>2. CASE \A i \in 1..N : ~Leads(s, i, j)
                    <6>1. p = <<>>
                        BY <5>2, <3>4, <2>1, <1>1, <1>2, PieceFacts
                    <6> QED
                        BY <6>1
                <5> QED
                    BY <5>1, <5>2
            <4>2. InSymbols(p) = <<>>
                BY <4>1, InSymbolsNone
            <4> QED
                BY <4>2, <3>1, <3>2, <3>4
        <3> QED
            BY <3>3, <3>4
    <2>8. InSymbols(m) = First(ss, Symbols, j - 1)
        BY <2>2, <1>7, <1>9
    <2> QED
        BY <2>3, <2>4, <2>6, <2>7, <2>8, <1>7
<1>10. \A j \in 0..n : j \in T
    BY <1>8, <1>9, BoundedInduction
<1>11. InSymbols(Made(s, N, n)) = First(ss, Symbols, n)
    BY <1>7, <1>10
<1>12. Made(s, N, n) = Redact(s)
    BY <1>1, <1>2, MadeFacts, RedactText
<1>13. First(ss, Symbols, n) = FlattenSeq(ss)
    BY <1>5, <1>6, FirstFacts
<1> QED
    BY <1>4, <1>11, <1>12, <1>13 DEF Uncovered

(***************************************************************************)
(* What a child writes, byte by byte.                                      *)
(***************************************************************************)
UnitIn(e, c) ==
    IF e = "utf16bebom" THEN <<Zero, c>>
    ELSE IF e \in {"utf16le", "utf16lebom"} THEN <<c, Zero>>
    ELSE <<c>>

UnitsIn(e, t) == [i \in DOMAIN t |-> UnitIn(e, t[i])]

\* The text t, encoded in e.
In(e, t) == Mark[e] \o FlattenSeq(UnitsIn(e, t))

Wide(e) == e \in {"utf16le", "utf16lebom", "utf16bebom"}
Width(e) == IF Wide(e) THEN 2 ELSE 1
Decoder(e) ==
    IF e = "utf16bebom" THEN "be" ELSE IF e \in {"utf16le", "utf16lebom"} THEN "le" ELSE "utf8"
Offset(e) ==
    IF e = "utf8bom" THEN 3 ELSE IF e \in {"utf16lebom", "utf16bebom"} THEN 2 ELSE 0

\* The child's encoding of a text.
LEMMA EncodedIn == \A t : Encoded(t) = In(encoding, t)
    BY DEF Encoded, In, Unit, UnitIn, UnitsIn

\* The encodings and their marks.
LEMMA EncodingCases ==
    ASSUME NEW e \in Encodings
    PROVE  /\ e \in {"utf8", "utf8bom", "utf16le", "utf16lebom", "utf16bebom"}
           /\ Mark[e] \in Seq(Elements) /\ Len(Mark[e]) = Offset(e)
           /\ Offset(e) \in 0..3 /\ Width(e) \in {1, 2}
<1>1. e \in {"utf8", "utf8bom", "utf16le", "utf16lebom", "utf16bebom"}
    BY RedactionAssumption
<1>2. <<EF, BB, BF>> \in Seq(Elements) /\ <<FF, FE>> \in Seq(Elements)
      /\ <<FE, FF>> \in Seq(Elements) /\ <<>> \in Seq(Elements)
    BY ElementFacts
<1>3. Mark[e] \in Seq(Elements)
    BY <1>1, <1>2, MarkFacts
<1>4. Len(Mark[e]) = Offset(e)
    <2>1. Len(<<EF, BB, BF>>) = 3 /\ Len(<<FF, FE>>) = 2 /\ Len(<<FE, FF>>) = 2 /\ Len(<<>>) = 0
        OBVIOUS
    <2> QED
        BY <2>1, <1>1, MarkFacts DEF Offset
<1>5. Offset(e) \in 0..3 /\ Width(e) \in {1, 2}
    BY DEF Offset, Width
<1> QED
    BY <1>1, <1>3, <1>4, <1>5

\* Sequences of one length, joined.
LEMMA Uniform ==
    ASSUME NEW X, NEW ss \in Seq(Seq(X)), NEW w \in Nat,
           \A j \in 1..Len(ss) : \E t \in Seq(X) : t = ss[j] /\ Len(t) = w
    PROVE  /\ FlattenSeq(ss) \in Seq(X) /\ Len(FlattenSeq(ss)) = w * Len(ss)
           /\ \A j \in 1..Len(ss) : \A t \in Seq(X) :
                 t = ss[j] => OccursAt(FlattenSeq(ss), t, w * (j - 1))
<1>1. PICK n \in Nat : n = Len(ss)
    OBVIOUS
<1>2. PICK T : T = {j \in 0..n : Len(First(ss, X, j)) = w * j}
    OBVIOUS
<1>3. 0 \in T
    <2>1. First(ss, X, 0) = <<>> /\ Len(<<>>) = 0 /\ w * 0 = 0
        BY FirstFacts
    <2> QED
        BY <2>1, <1>2
<1>4. ASSUME NEW j \in 1..n, j - 1 \in T PROVE j \in T
    <2>1. PICK t \in Seq(X) : t = ss[j] /\ Len(t) = w
        BY <1>1
    <2>2. Len(First(ss, X, j)) = Len(First(ss, X, j - 1)) + Len(t)
        BY <2>1, <1>1, FirstAt
    <2>3. Len(First(ss, X, j - 1)) = w * (j - 1)
        BY <1>2, <1>4
    <2>4. w * (j - 1) + w = w * j
        OBVIOUS
    <2>5. Len(First(ss, X, j)) = w * j
        BY <2>1, <2>2, <2>3, <2>4
    <2> QED
        BY <2>5, <1>2
<1>5. \A j \in 0..n : j \in T
    BY <1>3, <1>4, BoundedInduction
<1>6. \A j \in 0..n : Len(First(ss, X, j)) = w * j
    BY <1>2, <1>5
<1>7. FlattenSeq(ss) = First(ss, X, n) /\ First(ss, X, n) \in Seq(X)
    BY <1>1, FirstFacts
<1>8. ASSUME NEW j \in 1..Len(ss), NEW t \in Seq(X), t = ss[j]
      PROVE  OccursAt(FlattenSeq(ss), t, w * (j - 1))
    <2>1. OccursAt(FlattenSeq(ss), t, Len(First(ss, X, j - 1)))
        BY <1>8, FirstAt
    <2>2. j - 1 \in 0..n
        BY <1>1
    <2> QED
        BY <2>1, <2>2, <1>6
<1> QED
    BY <1>1, <1>6, <1>7, <1>8

\* Each symbol is as many bytes as the encoding is wide.
LEMMA UnitsInFacts ==
    ASSUME NEW e \in Encodings, NEW t \in Seq(Symbols)
    PROVE  /\ UnitsIn(e, t) \in Seq(Seq(Elements)) /\ Len(UnitsIn(e, t)) = Len(t)
           /\ \A j \in 1..Len(t) : \E u \in Seq(Elements) :
                 u = UnitsIn(e, t)[j] /\ u = UnitIn(e, t[j]) /\ Len(u) = Width(e)
<1>1. PICK n \in Nat : n = Len(t)
    OBVIOUS
<1>2. PICK Y : Y = Seq(Elements)
    OBVIOUS
<1>3. ASSUME NEW j \in 1..n PROVE UnitIn(e, t[j]) \in Y /\ Len(UnitIn(e, t[j])) = Width(e)
    <2>1. PICK c \in Elements : c = t[j]
        BY <1>1, ElementFacts
    <2>2. Zero \in Elements
        BY ElementFacts
    <2>3. <<Zero, c>> \in Seq(Elements) /\ <<c, Zero>> \in Seq(Elements) /\ <<c>> \in Seq(Elements)
        BY <2>2
    <2>4. UnitIn(e, c) \in Y
        BY <2>3, <1>2 DEF UnitIn
    <2>5. Len(UnitIn(e, c)) = Width(e)
        BY DEF UnitIn, Width, Wide
    <2> QED
        BY <2>1, <2>4, <2>5
<1>4. UnitsIn(e, t) = [j \in 1..n |-> UnitIn(e, t[j])]
    BY <1>1 DEF UnitsIn
<1>5. UnitsIn(e, t) \in [1..n -> Y]
    BY <1>3, <1>4
<1>6. UnitsIn(e, t) \in Seq(Y) /\ Len(UnitsIn(e, t)) = n
    BY <1>5
<1>7. \A j \in 1..n : UnitsIn(e, t)[j] = UnitIn(e, t[j])
    BY <1>4
<1> QED
    BY <1>1, <1>2, <1>3, <1>6, <1>7

\* Byte by byte: the mark, then the units.
LEMMA InAt ==
    ASSUME NEW e \in Encodings, NEW t \in Seq(Symbols)
    PROVE  /\ In(e, t) \in Seq(Elements) /\ Len(In(e, t)) = Offset(e) + Width(e) * Len(t)
           /\ \A i \in 1..Offset(e) : In(e, t)[i] = Mark[e][i]
           /\ \A j \in 1..Len(t) :
                 /\ ~Wide(e) => In(e, t)[Offset(e) + j] = t[j]
                 /\ Decoder(e) = "le" => /\ In(e, t)[Offset(e) + (2 * j - 1)] = t[j]
                                         /\ In(e, t)[Offset(e) + 2 * j] = Zero
                 /\ Decoder(e) = "be" => In(e, t)[Offset(e) + 2 * j] = t[j]
<1>1. PICK ss \in Seq(Seq(Elements)) : ss = UnitsIn(e, t)
    BY UnitsInFacts
<1>2. Len(ss) = Len(t)
    BY <1>1, UnitsInFacts
<1>3. \A j \in 1..Len(t) : \E u \in Seq(Elements) :
          u = ss[j] /\ u = UnitIn(e, t[j]) /\ Len(u) = Width(e)
    BY <1>1, UnitsInFacts
<1>4. PICK w \in Nat : w = Width(e)
    BY EncodingCases
<1>5. PICK z \in Seq(Elements) : z = FlattenSeq(ss)
    BY <1>2, <1>3, <1>4, Uniform
<1>6. \A j \in 1..Len(ss) : \E u \in Seq(Elements) : u = ss[j] /\ Len(u) = w
    BY <1>2, <1>3, <1>4
<1>7. Len(z) = w * Len(ss)
    BY <1>5, <1>6, Uniform
<1>8. \A j \in 1..Len(ss) : \A u \in Seq(Elements) : u = ss[j] => OccursAt(z, u, w * (j - 1))
    BY <1>5, <1>6, Uniform
<1>9. PICK m \in Seq(Elements) : m = Mark[e] /\ Len(m) = Offset(e)
    BY EncodingCases
<1>10. PICK q \in Seq(Elements) : q = In(e, t)
    <2>1. m \o z \in Seq(Elements)
        OBVIOUS
    <2> QED
        BY <2>1, <1>1, <1>5, <1>9 DEF In
<1>11. q = Then(m, z)
    BY <1>1, <1>5, <1>9, <1>10 DEF In, Then
<1>12. Len(q) = Len(m) + Len(z) /\ \A x \in 1..Len(m) : q[x] = m[x]
    BY <1>11, ThenAt
<1>13. \A x \in 1..Len(z) : q[Len(m) + x] = z[x]
    BY <1>11, ThenBehind
<1>14. ASSUME NEW j \in 1..Len(t) 
       PROVE  /\ ~Wide(e) => q[Offset(e) + j] = t[j]
              /\ Decoder(e) = "le" => /\ q[Offset(e) + (2 * j - 1)] = t[j]
                                      /\ q[Offset(e) + 2 * j] = Zero
              /\ Decoder(e) = "be" => q[Offset(e) + 2 * j] = t[j]
    <2>1. PICK u \in Seq(Elements) : u = ss[j] /\ u = UnitIn(e, t[j]) /\ Len(u) = w
        BY <1>3, <1>4
    <2>2. OccursAt(z, u, w * (j - 1))
        BY <2>1, <1>2, <1>8
    <2>3. PICK b \in Nat : b = w * (j - 1)
        <3>1. w \in {1, 2}
            BY <1>4, EncodingCases
        <3>2. w * (j - 1) \in Nat
            BY <3>1
        <3> QED
            BY <3>2
    <2>4. b + w <= Len(z) /\ \A x \in 1..w : z[b + x] = u[x]
        <3>1. OccursAt(z, u, b)
            BY <2>2, <2>3
        <3>2. b + Len(u) <= Len(z) /\ \A x \in 1..Len(u) : z[b + x] = u[x]
            BY <3>1, OccursMeans
        <3> QED
            BY <3>2, <2>1
    <2>5. ASSUME ~Wide(e) PROVE q[Offset(e) + j] = t[j]
        <3>1. w = 1 /\ u = <<t[j]>>
            BY <2>1, <2>5, <1>4 DEF Wide, Width, UnitIn
        <3>2. b + 1 = j /\ 1 \in 1..w /\ j \in 1..Len(z)
            BY <3>1, <2>3, <2>4
        <3>3. z[b + 1] = u[1] /\ u[1] = t[j]
            BY <3>1, <3>2, <2>4
        <3> QED
            BY <3>2, <3>3, <1>9, <1>13
    <2>6. ASSUME Wide(e)
          PROVE  /\ 2 * j - 1 \in 1..Len(z) /\ 2 * j \in 1..Len(z)
                 /\ z[2 * j - 1] = u[1] /\ z[2 * j] = u[2]
        <3>1. w = 2
            BY <2>6, <1>4 DEF Width
        <3>2. b + 1 = 2 * j - 1 /\ b + 2 = 2 * j /\ 1 \in 1..w /\ 2 \in 1..w
            BY <3>1, <2>3
        <3> QED
            BY <3>1, <3>2, <2>4
    <2>7. Wide(e) => /\ q[Offset(e) + (2 * j - 1)] = u[1]
                     /\ q[Offset(e) + 2 * j] = u[2]
        BY <2>6, <1>9, <1>13
    <2>8. Decoder(e) = "le" => Wide(e) /\ u = <<t[j], Zero>>
        BY <2>1 DEF Decoder, Wide, UnitIn
    <2>9. Decoder(e) = "be" => Wide(e) /\ u = <<Zero, t[j]>>
        BY <2>1 DEF Decoder, Wide, UnitIn
    <2> QED
        BY <2>5, <2>7, <2>8, <2>9
<1>15. Len(q) = Offset(e) + Width(e) * Len(t)
    BY <1>2, <1>4, <1>7, <1>9, <1>12
<1>16. \A i \in 1..Offset(e) : q[i] = Mark[e][i]
    BY <1>9, <1>12
<1> QED
    BY <1>10, <1>14, <1>15, <1>16

\* The bytes b are what encoding t in e begins with.
Begun(b, e, t) ==
    /\ b \in Seq(Elements) /\ Len(b) <= Len(In(e, t))
    /\ \A i \in 1..Len(b) : b[i] = In(e, t)[i]

\* The first byte is the first of the mark or of the text.
LEMMA FirstByte ==
    ASSUME NEW e \in Encodings, NEW t \in Seq(Symbols), NEW b, Begun(b, e, t), Len(b) # 0
    PROVE  /\ 1 \in 1..Len(b) /\ b \in Seq(Elements)
           /\ Offset(e) = 0 => b[1] \in Symbols
           /\ Offset(e) # 0 => b[1] = Mark[e][1]
<1>1. b \in Seq(Elements) /\ 1 \in 1..Len(b)
    BY DEF Begun
<1>2. b[1] = In(e, t)[1] /\ Len(b) <= Len(In(e, t))
    BY <1>1 DEF Begun
<1>3. Len(In(e, t)) = Offset(e) + Width(e) * Len(t)
    BY InAt
<1>4. ASSUME Offset(e) = 0 PROVE b[1] \in Symbols
    <2>1. PICK n \in Nat : n = Len(t)
        OBVIOUS
    <2>2. n # 0
        <3>1. Width(e) * 0 = 0
            BY EncodingCases
        <3>2. Len(b) \in Nat
            BY <1>1
        <3> QED
            BY <3>1, <3>2, <2>1, <1>1, <1>2, <1>3, <1>4
    <2>3. 1 \in 1..Len(t) /\ t[1] \in Symbols
        BY <2>1, <2>2
    <2>4. /\ ~Wide(e) => In(e, t)[Offset(e) + 1] = t[1]
          /\ Decoder(e) = "le" => In(e, t)[Offset(e) + (2 * 1 - 1)] = t[1]
        BY <2>3, InAt
    <2>5. Offset(e) + 1 = 1 /\ Offset(e) + (2 * 1 - 1) = 1
        BY <1>4
    <2>6. ~Wide(e) \/ Decoder(e) = "le"
        BY <1>4, EncodingCases DEF Offset, Wide, Decoder
    <2> QED
        BY <2>3, <2>4, <2>5, <2>6, <1>2
<1>5. ASSUME Offset(e) # 0 PROVE b[1] = Mark[e][1]
    <2>1. 1 \in 1..Offset(e)
        BY <1>5, EncodingCases
    <2> QED
        BY <2>1, <1>2, InAt
<1> QED
    BY <1>1, <1>4, <1>5

\* A mark is seen when it is the encoding's and all there.
LEMMA MarkSeen ==
    ASSUME NEW e \in Encodings, NEW t \in Seq(Symbols), NEW b, Begun(b, e, t)
    PROVE  /\ IsPrefix(Mark.utf8bom, b) <=> e = "utf8bom" /\ Len(b) >= 3
           /\ IsPrefix(Mark.utf16lebom, b) <=> e = "utf16lebom" /\ Len(b) >= 2
           /\ IsPrefix(Mark.utf16bebom, b) <=> e = "utf16bebom" /\ Len(b) >= 2
<1>1. b \in Seq(Elements) /\ Len(b) \in Nat
    BY DEF Begun
<1>2. e \in {"utf8", "utf8bom", "utf16le", "utf16lebom", "utf16bebom"}
    BY EncodingCases
<1>3. CASE e \in {"utf8", "utf16le"}
    <2>1. Offset(e) = 0
        BY <1>3 DEF Offset
    <2>2. Len(b) = 0 \/ b[1] \in Symbols
        BY <2>1, FirstByte
    <2> QED
        BY <2>2, <1>1, <1>3, NoMark
<1>4. CASE e \in {"utf8bom", "utf16lebom", "utf16bebom"}
    <2>1. PICK m \in Seq(Elements) : m = Mark[e] /\ Len(m) = Offset(e)
        BY EncodingCases
    <2>2. Offset(e) >= 1 /\ Offset(e) \in Nat
        BY <1>4 DEF Offset
    <2>3. IsPrefix(m, b) <=> Offset(e) <= Len(b)
        <3>1. IsPrefix(m, b) <=> Len(m) <= Len(b) /\ \A i \in 1..Len(m) : m[i] = b[i]
            BY <1>1, PrefixMeans
        <3>2. ASSUME Offset(e) <= Len(b), NEW i \in 1..Len(m) PROVE m[i] = b[i]
            <4>1. i \in 1..Len(b) /\ i \in 1..Offset(e)
                BY <3>2, <2>1, <2>2, <1>1
            <4>2. b[i] = In(e, t)[i]
                BY <4>1 DEF Begun
            <4>3. In(e, t)[i] = Mark[e][i]
                BY <4>1, InAt
            <4> QED
                BY <4>2, <4>3, <2>1
        <3> QED
            BY <3>1, <3>2, <2>1
    <2>4. ASSUME NEW o \in Seq(Elements), Len(o) >= 1, o[1] # m[1], IsPrefix(o, b) PROVE FALSE
        <3>1. Len(o) <= Len(b) /\ \A i \in 1..Len(o) : o[i] = b[i]
            BY <2>4, <1>1, PrefixMeans
        <3>2. Len(b) # 0 /\ o[1] = b[1]
            BY <3>1, <2>4, <1>1
        <3>3. b[1] = m[1]
            BY <3>2, <2>1, <2>2, FirstByte
        <3> QED
            BY <3>2, <3>3, <2>4
    <2>5. PICK p \in Seq(Elements) : p = Mark.utf8bom /\ Len(p) >= 1 /\ p[1] = EF
        <3>1. <<EF, BB, BF>> \in Seq(Elements)
            BY ElementFacts
        <3>2. Len(<<EF, BB, BF>>) >= 1 /\ <<EF, BB, BF>>[1] = EF
            OBVIOUS
        <3>3. Mark.utf8bom = <<EF, BB, BF>>
            BY MarkFacts
        <3> QED
            BY <3>1, <3>2, <3>3
    <2>6. PICK q \in Seq(Elements) : q = Mark.utf16lebom /\ Len(q) >= 1 /\ q[1] = FF
        <3>1. <<FF, FE>> \in Seq(Elements)
            BY ElementFacts
        <3>2. Len(<<FF, FE>>) >= 1 /\ <<FF, FE>>[1] = FF
            OBVIOUS
        <3>3. Mark.utf16lebom = <<FF, FE>>
            BY MarkFacts
        <3> QED
            BY <3>1, <3>2, <3>3
    <2>7. PICK r \in Seq(Elements) : r = Mark.utf16bebom /\ Len(r) >= 1 /\ r[1] = FE
        <3>1. <<FE, FF>> \in Seq(Elements)
            BY ElementFacts
        <3>2. Len(<<FE, FF>>) >= 1 /\ <<FE, FF>>[1] = FE
            OBVIOUS
        <3>3. Mark.utf16bebom = <<FE, FF>>
            BY MarkFacts
        <3> QED
            BY <3>1, <3>2, <3>3
    <2>8. FF # FE /\ EF # FF /\ EF # FE
        BY RedactionAssumption
    <2>9. CASE e = "utf8bom"
        <3>1. m = p /\ Offset(e) = 3
            BY <2>1, <2>5, <2>9 DEF Offset
        <3>2. ~IsPrefix(q, b) /\ ~IsPrefix(r, b)
            BY <3>1, <2>4, <2>5, <2>6, <2>7, <2>8
        <3> QED
            BY <3>1, <3>2, <2>3, <2>5, <2>6, <2>7, <2>9
    <2>10. CASE e = "utf16lebom"
        <3>1. m = q /\ Offset(e) = 2
            BY <2>1, <2>6, <2>10 DEF Offset
        <3>2. ~IsPrefix(p, b) /\ ~IsPrefix(r, b)
            BY <3>1, <2>4, <2>5, <2>6, <2>7, <2>8
        <3> QED
            BY <3>1, <3>2, <2>3, <2>5, <2>6, <2>7, <2>10
    <2>11. CASE e = "utf16bebom"
        <3>1. m = r /\ Offset(e) = 2
            BY <2>1, <2>7, <2>11 DEF Offset
        <3>2. ~IsPrefix(p, b) /\ ~IsPrefix(q, b)
            BY <3>1, <2>4, <2>5, <2>6, <2>7, <2>8
        <3> QED
            BY <3>1, <3>2, <2>3, <2>5, <2>6, <2>7, <2>11
    <2> QED
        BY <1>4, <2>9, <2>10, <2>11
<1> QED
    BY <1>2, <1>3, <1>4

\* A number is twice its half, or one more.
LEMMA HalfFacts ==
    ASSUME NEW n \in Nat
    PROVE  \E h \in Nat, r \in {0, 1} : h = n \div 2 /\ r = n % 2 /\ n = 2 * h + r
<1>1. n % 2 \in {0, 1}
    OBVIOUS
<1>2. n \div 2 \in Nat
    OBVIOUS
<1>3. PICK h \in Nat : h = n \div 2
    BY <1>2
<1>4. PICK r \in {0, 1} : n = 2 * h + r
    <2>1. n = 2 * (n \div 2) + 0 \/ n = 2 * (n \div 2) + 1
        OBVIOUS
    <2> QED
        BY <2>1, <1>3
<1>5. n % 2 = r
    BY <1>4
<1> QED
    BY <1>3, <1>4, <1>5

\* The bytes but for half a unit.
LEMMA EvenFacts ==
    ASSUME NEW b \in Seq(Elements)
    PROVE  /\ Even(b) \in Seq(Elements) /\ Len(Even(b)) = 2 * (Len(b) \div 2)
           /\ \A i \in 1..(2 * (Len(b) \div 2)) : Even(b)[i] = b[i]
           /\ Len(b) % 2 = 0 => Even(b) = b
           /\ Len(Even(b)) % 2 = 0 /\ Len(Even(b)) \div 2 = Len(b) \div 2
<1>1. PICK n \in Nat : n = Len(b)
    OBVIOUS
<1>2. PICK h \in Nat, r \in {0, 1} : h = n \div 2 /\ r = n % 2 /\ n = 2 * h + r
    BY HalfFacts
<1>3. h = n \div 2
    BY <1>2
<1>4. n - (n % 2) = 2 * h /\ 2 * h <= n
    <2>1. n - r = 2 * h /\ 2 * h <= n
        BY <1>2
    <2>2. r = n % 2
        BY <1>2
    <2> QED
        BY <2>1, <2>2
<1>5. Even(b) = SubSeq(b, 1, 2 * h)
    BY <1>1, <1>4 DEF Even
<1>6. SubSeq(b, 1, 2 * h) \in Seq(Elements) /\ Len(SubSeq(b, 1, 2 * h)) = 2 * h
      /\ \A i \in 1..(2 * h) : SubSeq(b, 1, 2 * h)[i] = b[i]
    BY <1>1, <1>4
<1>7. (2 * h) % 2 = 0 /\ (2 * h) \div 2 = h
    OBVIOUS
<1>8. n % 2 = 0 => SubSeq(b, 1, 2 * h) = b
    <2>1. n % 2 = 0 => 2 * h = n
        BY <1>2
    <2>2. SubSeq(b, 1, n) = b
        BY <1>1
    <2> QED
        BY <2>1, <2>2
<1>9. Even(b) \in Seq(Elements) /\ Len(Even(b)) = 2 * (Len(b) \div 2)
    BY <1>1, <1>3, <1>5, <1>6
<1>10. \A i \in 1..(2 * (Len(b) \div 2)) : Even(b)[i] = b[i]
    BY <1>1, <1>3, <1>5, <1>6
<1>11. Len(b) % 2 = 0 => Even(b) = b
    BY <1>1, <1>5, <1>8
<1>12. Len(Even(b)) % 2 = 0 /\ Len(Even(b)) \div 2 = Len(b) \div 2
    BY <1>1, <1>3, <1>5, <1>6, <1>7
<1> QED
    BY <1>9, <1>10, <1>11, <1>12

\* Two units or more whose second bytes are zero look like UTF-16.
LEMMA AllZero ==
    ASSUME NEW b, NEW h \in Nat, Len(b) = 2 * h, h >= 2, \A i \in 1..h : b[2 * i] = Zero
    PROVE  LooksUTF16LE(b)
<1>1. Len(b) \div 2 = h /\ Len(b) % 2 = 0 /\ Len(b) >= 4
    OBVIOUS
<1>2. {i \in 1..h : b[2 * i] = Zero} = 1..h
    OBVIOUS
<1>3. Cardinality(1..h) = h
    BY FS_Interval
<1>4. h * 100 >= 30 * h
    OBVIOUS
<1> QED
    BY <1>1, <1>2, <1>3, <1>4 DEF LooksUTF16LE

\* Output without a mark looks like UTF-16 when it is.
LEMMA Looks ==
    ASSUME NEW e \in Encodings, NEW t \in Seq(Symbols), NEW b, Begun(b, e, t)
    PROVE  /\ e = "utf8" => ~LooksUTF16LE(Even(b)) /\ ~LooksUTF16LE(b)
           /\ e = "utf16le" /\ Len(b) >= 4 => LooksUTF16LE(Even(b))
<1>1. b \in Seq(Elements) /\ Len(b) \in Nat /\ Len(b) <= Len(In(e, t))
    BY DEF Begun
<1>2. \A i \in 1..Len(b) : b[i] = In(e, t)[i]
    BY DEF Begun
<1>3. Len(In(e, t)) = Offset(e) + Width(e) * Len(t)
    BY InAt
<1>4. PICK n \in Nat : n = Len(t)
    OBVIOUS
<1>5. Even(b) \in Seq(Elements) /\ Len(Even(b)) = 2 * (Len(b) \div 2)
    BY <1>1, EvenFacts
<1>6. \A i \in 1..(2 * (Len(b) \div 2)) : Even(b)[i] = b[i]
    BY <1>1, EvenFacts
<1>7. PICK h \in Nat : h = Len(b) \div 2 /\ 2 * h <= Len(b) /\ Len(b) <= 2 * h + 1
    <2>1. PICK h \in Nat, r \in {0, 1} : h = Len(b) \div 2 /\ r = Len(b) % 2 /\ Len(b) = 2 * h + r
        BY <1>1, HalfFacts
    <2> QED
        BY <2>1
<1>8. ASSUME e = "utf8" PROVE ~LooksUTF16LE(Even(b)) /\ ~LooksUTF16LE(b)
    <2>1. ~Wide(e) /\ Offset(e) = 0 /\ Width(e) = 1
        BY <1>8 DEF Wide, Offset, Width
    <2>2. ASSUME NEW i \in 1..Len(b) PROVE b[i] # Zero
        <3>1. i \in 1..Len(t)
            BY <2>1, <1>1, <1>3, <1>4
        <3>2. In(e, t)[Offset(e) + i] = t[i]
            BY <3>1, <2>1, InAt
        <3>3. Offset(e) + i = i
            BY <2>1
        <3>4. t[i] \in Symbols /\ b[i] = t[i]
            BY <3>1, <3>2, <3>3, <1>2
        <3> QED
            BY <3>4, SymbolFacts
    <2>3. ~LooksUTF16LE(b)
        BY <2>2, <1>1, NoZero
    <2>4. \A i \in 1..Len(Even(b)) : Even(b)[i] # Zero
        BY <2>2, <1>5, <1>6, <1>7
    <2>5. Len(Even(b)) \in Nat
        BY <1>5
    <2>6. ~LooksUTF16LE(Even(b))
        BY <2>4, <2>5, NoZero
    <2> QED
        BY <2>3, <2>6
<1>9. ASSUME e = "utf16le", Len(b) >= 4 PROVE LooksUTF16LE(Even(b))
    <2>1. Decoder(e) = "le" /\ Offset(e) = 0 /\ Width(e) = 2
        BY <1>9 DEF Wide, Offset, Width, Decoder
    <2>2. ASSUME NEW i \in 1..h PROVE Even(b)[2 * i] = Zero
        <3>1. i \in 1..Len(t)
            BY <2>1, <1>1, <1>3, <1>4, <1>7
        <3>2. In(e, t)[Offset(e) + 2 * i] = Zero
            BY <3>1, <2>1, InAt
        <3>3. Offset(e) + 2 * i = 2 * i
            BY <2>1
        <3>4. 2 * i \in 1..Len(b) /\ 2 * i \in 1..(2 * (Len(b) \div 2))
            BY <1>7
        <3>5. b[2 * i] = Zero
            BY <3>2, <3>3, <3>4, <1>2
        <3> QED
            BY <3>4, <3>5, <1>6
    <2>3. h >= 2
        BY <1>7, <1>9
    <2>4. Len(Even(b)) = 2 * h
        BY <1>5, <1>7
    <2> QED
        BY <2>2, <2>3, <2>4, AllZero
<1> QED
    BY <1>8, <1>9

\* The bytes that decide needs.
Enough(e, final) ==
    IF e \in {"utf8bom", "utf16lebom", "utf16bebom"} THEN Offset(e)
    ELSE IF final THEN 4 ELSE Sample

\* decide recognises the encoding, as soon as it has enough bytes.
LEMMA DecidedFor ==
    ASSUME NEW e \in Encodings, NEW t \in Seq(Symbols), NEW b, Begun(b, e, t),
           NEW final \in BOOLEAN
    PROVE  Decided(b, final) = IF Len(b) >= Enough(e, final) THEN Decoder(e) ELSE "undecided"
<1>1. Len(b) \in Nat
    BY DEF Begun
<1>2. e \in {"utf8", "utf8bom", "utf16le", "utf16lebom", "utf16bebom"}
    BY EncodingCases
<1>3. Sample \in Nat /\ Sample >= 4
    BY RedactionAssumption
<1>4. PICK p \in BOOLEAN : p <=> IsPrefix(Mark.utf8bom, b)
    OBVIOUS
<1>5. PICK q \in BOOLEAN : q <=> IsPrefix(Mark.utf16lebom, b)
    OBVIOUS
<1>6. PICK r \in BOOLEAN : r <=> IsPrefix(Mark.utf16bebom, b)
    OBVIOUS
<1>7. PICK l \in BOOLEAN : l <=> LooksUTF16LE(Even(b))
    OBVIOUS
<1>8. PICK long \in BOOLEAN : long <=> Len(b) >= Sample \/ (final /\ Len(b) >= 4)
    OBVIOUS
<1>9. /\ p => Decided(b, final) = "utf8"
      /\ ~p /\ q => Decided(b, final) = "le"
      /\ ~p /\ ~q /\ r => Decided(b, final) = "be"
      /\ ~p /\ ~q /\ ~r /\ long /\ l => Decided(b, final) = "le"
      /\ ~p /\ ~q /\ ~r /\ long /\ ~l => Decided(b, final) = "utf8"
      /\ ~p /\ ~q /\ ~r /\ ~long => Decided(b, final) = "undecided"
    <2>1. ASSUME p PROVE ~q /\ ~r
        BY <2>1, <1>4, <1>5, <1>6, MarkSeen
    <2>2. ASSUME q PROVE ~r
        BY <2>2, <1>5, <1>6, MarkSeen
    <2> QED
        BY <2>1, <2>2, <1>4, <1>5, <1>6, <1>7, <1>8 DEF Decided
<1>10. /\ p <=> e = "utf8bom" /\ Len(b) >= 3
       /\ q <=> e = "utf16lebom" /\ Len(b) >= 2
       /\ r <=> e = "utf16bebom" /\ Len(b) >= 2
    BY <1>4, <1>5, <1>6, MarkSeen
<1>11. /\ e = "utf8" => ~l
       /\ e = "utf16le" /\ Len(b) >= 4 => l
    BY <1>7, Looks
<1>12. CASE e = "utf8"
    <2>1. Enough(e, final) = (IF final THEN 4 ELSE Sample) /\ Decoder(e) = "utf8"
        BY <1>12 DEF Enough, Decoder
    <2> QED
        BY <2>1, <1>1, <1>3, <1>8, <1>9, <1>10, <1>11, <1>12
<1>13. CASE e = "utf16le"
    <2>1. Enough(e, final) = (IF final THEN 4 ELSE Sample) /\ Decoder(e) = "le"
        BY <1>13 DEF Enough, Decoder
    <2> QED
        BY <2>1, <1>1, <1>3, <1>8, <1>9, <1>10, <1>11, <1>13
<1>14. CASE e = "utf8bom"
    <2>1. Enough(e, final) = 3 /\ Decoder(e) = "utf8"
        BY <1>14 DEF Enough, Decoder, Offset
    <2> QED
        BY <2>1, <1>1, <1>3, <1>8, <1>9, <1>10, <1>14
<1>15. CASE e = "utf16lebom"
    <2>1. Enough(e, final) = 2 /\ Decoder(e) = "le"
        BY <1>15 DEF Enough, Decoder, Offset
    <2> QED
        BY <2>1, <1>1, <1>3, <1>8, <1>9, <1>10, <1>15
<1>16. CASE e = "utf16bebom"
    <2>1. Enough(e, final) = 2 /\ Decoder(e) = "be"
        BY <1>16 DEF Enough, Decoder, Offset
    <2> QED
        BY <2>1, <1>1, <1>3, <1>8, <1>9, <1>10, <1>16
<1> QED
    BY <1>2, <1>12, <1>13, <1>14, <1>15, <1>16

\* What is left when decide has taken the mark away.
LEMMA UnmarkedFor ==
    ASSUME NEW e \in Encodings, NEW t \in Seq(Symbols), NEW b, Begun(b, e, t),
           Offset(e) <= Len(b)
    PROVE  Unmarked(b) = Part(b, Offset(e), Len(b))
<1>1. b \in Seq(Elements) /\ Len(b) \in Nat
    BY DEF Begun
<1>2. e \in {"utf8", "utf8bom", "utf16le", "utf16lebom", "utf16bebom"}
    BY EncodingCases
<1>3. /\ IsPrefix(Mark.utf8bom, b) <=> e = "utf8bom" /\ Len(b) >= 3
      /\ IsPrefix(Mark.utf16lebom, b) <=> e = "utf16lebom" /\ Len(b) >= 2
      /\ IsPrefix(Mark.utf16bebom, b) <=> e = "utf16bebom" /\ Len(b) >= 2
    BY MarkSeen
<1>4. Part(b, 0, Len(b)) = b
    BY <1>1, PartAll
<1>5. CASE e \in {"utf8", "utf16le"}
    <2>1. Offset(e) = 0
        BY <1>5 DEF Offset
    <2>2. Unmarked(b) = b
        BY <1>3, <1>5 DEF Unmarked
    <2> QED
        BY <2>1, <2>2, <1>4
<1>6. CASE e = "utf8bom"
    <2>1. Offset(e) = 3 /\ Len(b) >= 3
        BY <1>6 DEF Offset
    <2>2. Unmarked(b) = After(b, 3)
        BY <2>1, <1>3, <1>6 DEF Unmarked
    <2> QED
        BY <2>1, <2>2, <1>1, AfterType
<1>7. CASE e \in {"utf16lebom", "utf16bebom"}
    <2>1. Offset(e) = 2 /\ Len(b) >= 2
        BY <1>7 DEF Offset
    <2>2. Unmarked(b) = After(b, 2)
        BY <2>1, <1>3, <1>7 DEF Unmarked
    <2> QED
        BY <2>1, <2>2, <1>1, AfterType
<1> QED
    BY <1>2, <1>5, <1>6, <1>7

\* Bytes that are decoded one by one.
LEMMA PlainPart ==
    ASSUME NEW e \in Encodings, NEW t \in Seq(Symbols), NEW b, Begun(b, e, t), ~Wide(e),
           NEW k \in Nat, NEW g \in Nat, k <= g, Len(b) = Offset(e) + g
    PROVE  /\ g <= Len(t) /\ Part(b, Offset(e) + k, Len(b)) = Part(t, k, g)
<1>1. b \in Seq(Elements) /\ Len(b) \in Nat /\ Len(b) <= Len(In(e, t))
    BY DEF Begun
<1>2. PICK o \in Nat : o = Offset(e)
    BY EncodingCases
<1>3. g <= Len(t)
    <2>1. Len(In(e, t)) = Offset(e) + Width(e) * Len(t) /\ Width(e) = 1
        BY InAt DEF Width
    <2> QED
        BY <2>1, <1>1, <1>2
<1>4. PICK p \in Seq(Elements) : p = Part(b, o + k, o + g)
    <2>1. o + k \in Nat /\ o + g \in Nat /\ o + k <= o + g /\ o + g <= Len(b)
        BY <1>2
    <2> QED
        BY <2>1, <1>1, PartFacts
<1>5. Len(p) = g - k /\ \A i \in 1..(g - k) : p[i] = b[(o + k) + i]
    <2>1. PICK x \in Nat : x = o + k
        OBVIOUS
    <2>2. PICK y \in Nat : y = o + g /\ x <= y /\ y <= Len(b) /\ y - x = g - k
        BY <2>1, <1>2, SMTT(30)
    <2>3. p = Part(b, x, y)
        BY <2>1, <2>2, <1>4
    <2>6. x <= y /\ y <= Len(b) /\ b \in Seq(Elements)
        BY <2>2, <1>1
    <2>4. Len(p) = y - x
        BY <2>3, <2>6, PartLen
    <2>5. ASSUME NEW i \in 1..(y - x) PROVE p[i] = b[x + i]
        <3>1. Part(b, x, y)[i] = b[x + i]
            BY <2>6, PartAt
        <3> QED
            BY <3>1, <2>3
    <2> QED
        BY <2>1, <2>2, <2>4, <2>5
<1>6. PICK q \in Seq(Symbols) : q = Part(t, k, g)
    BY <1>3, PartFacts
<1>7. Len(q) = g - k /\ \A i \in 1..(g - k) : q[i] = t[k + i]
    <2>1. Len(q) = g - k
        BY <1>3, <1>6, PartFacts
    <2>2. ASSUME NEW i \in 1..(g - k) PROVE q[i] = t[k + i]
        <3>1. Part(t, k, g)[i] = t[k + i]
            BY <1>3, PartAt
        <3> QED
            BY <3>1, <1>6
    <2> QED
        BY <2>1, <2>2
<1>8. ASSUME NEW i \in 1..(g - k) PROVE p[i] = q[i]
    <2>1. PICK j \in 1..Len(t) : j = k + i /\ o + j = (o + k) + i /\ o + j \in 1..Len(b)
        <3>1. k + i \in 1..Len(t) /\ o + (k + i) = (o + k) + i /\ o + (k + i) \in 1..Len(b)
            BY <1>2, <1>3
        <3> QED
            BY <3>1
    <2>2. b[o + j] = In(e, t)[o + j]
        BY <2>1 DEF Begun
    <2>3. In(e, t)[o + j] = t[j]
        BY <1>2, InAt
    <2> QED
        BY <2>1, <2>2, <2>3, <1>5, <1>7
<1>9. q \in Seq(Elements)
    BY ElementFacts
<1>10. p = q
    BY <1>5, <1>7, <1>8, <1>9, SameSequence
<1> QED
    BY <1>2, <1>3, <1>4, <1>6, <1>10

\* Bytes that are decoded two by two.
LEMMA WidePart ==
    ASSUME NEW e \in Encodings, NEW t \in Seq(Symbols), NEW b, Begun(b, e, t), Wide(e),
           NEW k \in Nat, NEW g \in Nat, k <= g, NEW r \in {0, 1},
           Len(b) = Offset(e) + 2 * g + r
    PROVE  /\ g <= Len(t)
           /\ \E c \in Seq(Elements) :
                 /\ c = Part(b, Offset(e) + 2 * k, Len(b)) /\ Len(c) = 2 * (g - k) + r
                 /\ Units(Decoder(e), c) = Part(t, k, g)
                 /\ After(c, Len(Even(c))) = Part(b, Offset(e) + 2 * g, Len(b))
<1>1. b \in Seq(Elements) /\ Len(b) \in Nat /\ Len(b) <= Len(In(e, t))
    BY DEF Begun
<1>2. PICK o \in Nat : o = Offset(e)
    BY EncodingCases
<1>3. g <= Len(t)
    <2>1. Len(In(e, t)) = Offset(e) + Width(e) * Len(t) /\ Width(e) = 2
        BY InAt DEF Width
    <2> QED
        BY <2>1, <1>1, <1>2
<1>4. PICK x \in Nat : x = o + 2 * k
    OBVIOUS
<1>5. PICK n \in Nat : n = Len(b) /\ x <= n /\ n - x = 2 * (g - k) + r
    <2>1. PICK n \in Nat : n = Len(b)
        BY <1>1
    <2>2. n = o + 2 * g + r
        BY <2>1, <1>2
    <2>3. r \in Nat /\ 2 * k <= 2 * g
        OBVIOUS
    <2>4. x <= n /\ n - x = 2 * (g - k) + r
        BY <2>2, <2>3, <1>4
    <2> QED
        BY <2>1, <2>4
<1>7. x <= n /\ n <= Len(b) /\ b \in Seq(Elements)
    BY <1>5, <1>1
<1>6. PICK c \in Seq(Elements) : c = Part(b, x, n)
    BY <1>7, PartFacts
<1>8. Len(c) = n - x
    BY <1>6, <1>7, PartLen
<1>9. ASSUME NEW i \in 1..(n - x) PROVE c[i] = b[x + i]
    <2>1. Part(b, x, n)[i] = b[x + i]
        BY <1>7, PartAt, SMTT(30)
    <2> QED
        BY <2>1, <1>6
<1>10. PICK h \in Nat : h = g - k
    OBVIOUS
<1>11. Len(c) = 2 * h + r
    BY <1>5, <1>8, <1>10
<1>12. Len(c) \div 2 = h
    BY <1>11
<1>13. PICK u \in Seq(Elements) : u = Units(Decoder(e), c)
    BY UnitsFacts
<1>14. Len(u) = h /\ \A i \in 1..h :
           u[i] = c[IF Decoder(e) = "le" THEN 2 * i - 1 ELSE 2 * i]
    <2>1. Len(u) = Len(c) \div 2
        BY <1>13, UnitsFacts
    <2>2. \A i \in 1..(Len(c) \div 2) :
              u[i] = c[IF Decoder(e) = "le" THEN 2 * i - 1 ELSE 2 * i]
        BY <1>13, UnitsFacts
    <2> QED
        BY <2>1, <2>2, <1>12
<1>15. PICK q \in Seq(Symbols) : q = Part(t, k, g)
    BY <1>3, PartFacts
<1>16. Len(q) = h /\ \A i \in 1..h : q[i] = t[k + i]
    <2>1. Len(q) = g - k
        BY <1>3, <1>15, PartLen
    <2>2. ASSUME NEW i \in 1..(g - k) PROVE q[i] = t[k + i]
        <3>1. Part(t, k, g)[i] = t[k + i]
            BY <1>3, PartAt
        <3> QED
            BY <3>1, <1>15
    <2> QED
        BY <2>1, <2>2, <1>10
<1>17. ASSUME NEW i \in 1..h PROVE u[i] = q[i]
    <2>1. PICK j \in 1..Len(t) : j = k + i
        <3>1. k + i \in 1..Len(t)
            BY <1>3, <1>10
        <3> QED
            BY <3>1
    <2>2. CASE Decoder(e) = "le"
        <3>1. PICK y \in 1..(n - x) : y = 2 * i - 1 /\ x + y = o + (2 * j - 1)
            <4>1. 2 * i - 1 \in 1..(n - x) /\ x + (2 * i - 1) = o + (2 * j - 1)
                BY <2>1, <1>4, <1>5, <1>10
            <4> QED
                BY <4>1
        <3>2. u[i] = c[y]
            BY <3>1, <2>2, <1>14
        <3>3. c[y] = b[x + y]
            BY <1>9
        <3>4. x + y \in 1..Len(b)
            BY <1>5
        <3>5. b[x + y] = In(e, t)[x + y]
            BY <3>4 DEF Begun
        <3>6. In(e, t)[o + (2 * j - 1)] = t[j]
            BY <2>2, <1>2, InAt
        <3> QED
            BY <3>1, <3>2, <3>3, <3>5, <3>6, <2>1, <1>16
    <2>3. CASE Decoder(e) # "le"
        <3>1. Decoder(e) = "be"
            BY <2>3 DEF Decoder, Wide
        <3>2. PICK y \in 1..(n - x) : y = 2 * i /\ x + y = o + 2 * j
            <4>1. 2 * i \in 1..(n - x) /\ x + 2 * i = o + 2 * j
                BY <2>1, <1>4, <1>5, <1>10
            <4> QED
                BY <4>1
        <3>3. u[i] = c[y]
            BY <3>2, <2>3, <1>14
        <3>4. c[y] = b[x + y]
            BY <1>9
        <3>5. x + y \in 1..Len(b)
            BY <1>5
        <3>6. b[x + y] = In(e, t)[x + y]
            BY <3>5 DEF Begun
        <3>7. In(e, t)[o + 2 * j] = t[j]
            BY <3>1, <1>2, InAt
        <3> QED
            BY <3>2, <3>3, <3>4, <3>6, <3>7, <2>1, <1>16
    <2> QED
        BY <2>2, <2>3
<1>18. u = q
    <2>1. q \in Seq(Elements)
        BY ElementFacts
    <2> QED
        BY <2>1, <1>14, <1>16, <1>17, SameSequence
<1>19. After(c, Len(Even(c))) = Part(b, o + 2 * g, n)
    <2>1. PICK m \in Nat : m = 2 * h /\ m <= Len(c) /\ x + m = o + 2 * g /\ Len(c) = n - x
        BY <1>4, <1>5, <1>8, <1>10, <1>11
    <2>2. Len(Even(c)) = m
        BY <2>1, <1>12, EvenFacts
    <2>3. After(c, m) = Part(c, m, Len(c))
        BY <2>1, AfterType
    <2>4. PICK w \in Nat : w = Len(c) /\ m <= w /\ w <= n - x /\ x + w = n
        <3>1. Len(c) \in Nat /\ m <= Len(c) /\ Len(c) <= n - x /\ x + Len(c) = n
            BY <2>1, <1>7
        <3> QED
            BY <3>1
    <2>6. m <= w /\ w <= n - x
        BY <2>4
    <2>5. Part(Part(b, x, n), m, w) = Part(b, x + m, x + w)
        BY <2>6, <1>7, PartOfPart
    <2> QED
        BY <2>1, <2>2, <2>3, <2>4, <2>5, <1>6
<1> QED
    BY <1>2, <1>3, <1>4, <1>5, <1>6, <1>8, <1>13, <1>15, <1>18, <1>19

\* The whole of an encoding is a beginning of it.
LEMMA InBegun ==
    ASSUME NEW e \in Encodings, NEW t \in Seq(Symbols)
    PROVE  Begun(In(e, t), e, t)
    BY InAt DEF Begun

\* The length of an encoded text.
LEMMA TextLength ==
    ASSUME NEW e \in Encodings, NEW t \in Seq(Symbols)
    PROVE  /\ ~Wide(e) => Len(In(e, t)) = Offset(e) + Len(t)
           /\ Wide(e) => Len(In(e, t)) = Offset(e) + 2 * Len(t) + 0
<1>1. PICK n \in Nat : n = Len(t)
    OBVIOUS
<1>2. PICK o \in Nat : o = Offset(e)
    BY EncodingCases
<1>3. Len(In(e, t)) = o + Width(e) * n
    BY <1>1, <1>2, InAt
<1> QED
    BY <1>1, <1>2, <1>3 DEF Width

\* What NormalizeUTF8 makes of encoded text: of UTF-16 without a mark it takes
\* two symbols to tell.
LEMMA NormalizeEncoded ==
    ASSUME NEW e \in Encodings, NEW t \in Seq(Symbols), e # "utf16le" \/ Len(t) >= 2
    PROVE  NormalizeUTF8(In(e, t)) = t
<1>1. PICK b \in Seq(Elements) : b = In(e, t) /\ Begun(b, e, t)
    BY InAt, InBegun
<1>2. PICK n \in Nat : n = Len(t)
    OBVIOUS
<1>3. e \in {"utf8", "utf8bom", "utf16le", "utf16lebom", "utf16bebom"}
    BY EncodingCases
<1>4. /\ IsPrefix(Mark.utf8bom, b) <=> e = "utf8bom" /\ Len(b) >= 3
      /\ IsPrefix(Mark.utf16lebom, b) <=> e = "utf16lebom" /\ Len(b) >= 2
      /\ IsPrefix(Mark.utf16bebom, b) <=> e = "utf16bebom" /\ Len(b) >= 2
    BY <1>1, MarkSeen
<1>5. ~Wide(e) => Len(b) = Offset(e) + n
    BY <1>1, <1>2, TextLength
<1>6. Wide(e) => Len(b) = Offset(e) + 2 * n + 0
    BY <1>1, <1>2, TextLength
<1>7. Part(t, 0, n) = t
    BY <1>2, PartAll
<1>8. Offset(e) \in Nat
    BY EncodingCases
<1>9. ASSUME ~Wide(e) PROVE Part(b, Offset(e), Len(b)) = t
    <2>1. Len(b) = Offset(e) + n /\ 0 <= n
        BY <1>5, <1>9
    <2>2. Part(b, Offset(e) + 0, Len(b)) = Part(t, 0, n)
        BY <2>1, <1>1, <1>9, PlainPart
    <2>3. Offset(e) + 0 = Offset(e)
        BY <1>8
    <2> QED
        BY <2>2, <2>3, <1>7
<1>10. ASSUME Wide(e) PROVE Units(Decoder(e), Part(b, Offset(e), Len(b))) = t
    <2>1. Len(b) = Offset(e) + 2 * n + 0 /\ 0 <= n /\ 0 \in {0, 1}
        BY <1>6, <1>10
    <2>2. PICK k \in Nat : k = 0 /\ k <= n
        OBVIOUS
    <2>3. PICK r \in {0, 1} : r = 0 /\ Len(b) = Offset(e) + 2 * n + r
        BY <2>1
    <2>4. k <= n /\ Len(b) = Offset(e) + 2 * n + r
        BY <2>2, <2>3
    <2>5. PICK c \in Seq(Elements) : /\ c = Part(b, Offset(e) + 2 * k, Len(b))
                                     /\ Units(Decoder(e), c) = Part(t, k, n)
        BY <2>4, <1>1, <1>10, WidePart
    <2>6. Offset(e) + 2 * k = Offset(e)
        BY <2>2, <1>8
    <2> QED
        BY <2>2, <2>5, <2>6, <1>7
<1>11. CASE e = "utf8"
    <2>1. ~LooksUTF16LE(b) /\ ~Wide(e) /\ Offset(e) = 0
        BY <1>1, <1>11, Looks DEF Wide, Offset
    <2>2. NormalizeUTF8(b) = b
        BY <2>1, <1>4, <1>11 DEF NormalizeUTF8
    <2>3. Part(b, 0, Len(b)) = b
        BY PartAll
    <2> QED
        BY <2>1, <2>2, <2>3, <1>1, <1>9
<1>12. CASE e = "utf8bom"
    <2>1. ~Wide(e) /\ Offset(e) = 3
        BY <1>12 DEF Wide, Offset
    <2>2. Len(b) >= 3
        BY <2>1, <1>5
    <2>3. NormalizeUTF8(b) = After(b, 3)
        BY <2>2, <1>4, <1>12 DEF NormalizeUTF8
    <2>4. After(b, 3) = Part(b, 3, Len(b))
        BY <2>2, AfterType
    <2> QED
        BY <2>1, <2>3, <2>4, <1>1, <1>9
<1>13. CASE e = "utf16lebom"
    <2>1. Wide(e) /\ Offset(e) = 2 /\ Decoder(e) = "le"
        BY <1>13 DEF Wide, Offset, Decoder
    <2>2. Len(b) >= 2
        BY <2>1, <1>6
    <2>3. NormalizeUTF8(b) = Units("le", After(b, 2))
        BY <2>2, <1>4, <1>13 DEF NormalizeUTF8
    <2>4. After(b, 2) = Part(b, 2, Len(b))
        BY <2>2, AfterType
    <2> QED
        BY <2>1, <2>3, <2>4, <1>1, <1>10
<1>14. CASE e = "utf16bebom"
    <2>1. Wide(e) /\ Offset(e) = 2 /\ Decoder(e) = "be"
        BY <1>14 DEF Wide, Offset, Decoder
    <2>2. Len(b) >= 2
        BY <2>1, <1>6
    <2>3. NormalizeUTF8(b) = Units("be", After(b, 2))
        BY <2>2, <1>4, <1>14 DEF NormalizeUTF8
    <2>4. After(b, 2) = Part(b, 2, Len(b))
        BY <2>2, AfterType
    <2> QED
        BY <2>1, <2>3, <2>4, <1>1, <1>10
<1>15. CASE e = "utf16le"
    <2>1. Wide(e) /\ Offset(e) = 0 /\ Decoder(e) = "le" /\ n >= 2
        BY <1>2, <1>15 DEF Wide, Offset, Decoder
    <2>2. Len(b) = 2 * n
        BY <2>1, <1>6
    <2>3. Len(b) % 2 = 0 /\ Len(b) >= 4
        BY <2>1, <2>2
    <2>4. LooksUTF16LE(b)
        BY <2>3, <1>1, <1>15, EvenFacts, Looks
    <2>5. NormalizeUTF8(b) = Units("le", b)
        BY <2>4, <1>4, <1>15 DEF NormalizeUTF8
    <2>6. Part(b, 0, Len(b)) = b
        BY PartAll
    <2> QED
        BY <2>1, <2>5, <2>6, <1>1, <1>10
<1> QED
    BY <1>3, <1>11, <1>12, <1>13, <1>14, <1>15

\* More text is encoded behind what was encoded before it.
LEMMA InThen ==
    ASSUME NEW e \in Encodings, NEW s \in Seq(Symbols), NEW t \in Seq(Symbols)
    PROVE  \E z \in Seq(Elements) : In(e, Then(s, t)) = Then(In(e, s), z)
<1>1. PICK Y : Y = Seq(Elements)
    OBVIOUS
<1>2. PICK a \in Seq(Y) : a = UnitsIn(e, s)
    BY <1>1, UnitsInFacts
<1>3. PICK b \in Seq(Y) : b = UnitsIn(e, t)
    BY <1>1, UnitsInFacts
<1>4. PICK u \in Seq(Symbols) : u = Then(s, t)
    BY ThenAt
<1>5. PICK c \in Seq(Y) : c = UnitsIn(e, u)
    BY <1>1, UnitsInFacts
<1>6. Len(a) = Len(s) /\ Len(b) = Len(t) /\ Len(c) = Len(u)
    BY <1>2, <1>3, <1>5, UnitsInFacts
<1>7. \A j \in 1..Len(s) : a[j] = UnitIn(e, s[j])
    BY <1>2, UnitsInFacts
<1>8. \A j \in 1..Len(t) : b[j] = UnitIn(e, t[j])
    BY <1>3, UnitsInFacts
<1>9. \A j \in 1..Len(u) : c[j] = UnitIn(e, u[j])
    BY <1>5, UnitsInFacts
<1>10. Len(u) = Len(s) + Len(t) /\ \A x \in 1..Len(s) : u[x] = s[x]
    BY <1>4, ThenAt
<1>11. \A x \in 1..Len(t) : u[Len(s) + x] = t[x]
    BY <1>4, ThenBehind
<1>12. PICK q \in Seq(Y) : q = Then(a, b)
    BY ThenAt
<1>13. Len(q) = Len(a) + Len(b) /\ \A x \in 1..Len(a) : q[x] = a[x]
    BY <1>12, ThenAt
<1>14. \A x \in 1..Len(b) : q[Len(a) + x] = b[x]
    BY <1>12, ThenBehind
<1>15. Len(q) = Len(c)
    BY <1>6, <1>10, <1>13
<1>16. ASSUME NEW g \in 1..Len(c) PROVE q[g] = c[g]
    <2>1. CASE g \in 1..Len(s)
        <3>1. q[g] = a[g] /\ u[g] = s[g] /\ g \in 1..Len(u)
            BY <2>1, <1>6, <1>10, <1>13
        <3> QED
            BY <2>1, <3>1, <1>7, <1>9
    <2>2. CASE g \notin 1..Len(s)
        <3>1. PICK x \in 1..Len(t) : g = Len(s) + x
            <4>1. g - Len(s) \in 1..Len(t) /\ g = Len(s) + (g - Len(s))
                BY <2>2, <1>6, <1>10
            <4> QED
                BY <4>1
        <3>2. q[g] = b[x]
            BY <3>1, <1>6, <1>14
        <3>3. u[g] = t[x] /\ g \in 1..Len(u)
            BY <3>1, <1>6, <1>11
        <3> QED
            BY <3>2, <3>3, <1>8, <1>9
    <2> QED
        BY <2>1, <2>2
<1>17. q = c
    BY <1>15, <1>16, SameSequence
<1>18. a \o b = c
    BY <1>12, <1>17, Zenon DEF Then
<1>19. PICK f \in Seq(Elements) : f = FlattenSeq(a)
    BY <1>1, FlattenType
<1>20. PICK z \in Seq(Elements) : z = FlattenSeq(b)
    BY <1>1, FlattenType
<1>21. FlattenSeq(c) = Then(f, z)
    BY <1>1, <1>18, <1>19, <1>20, FlattenThen
<1>22. PICK m \in Seq(Elements) : m = Mark[e]
    BY EncodingCases
<1>23. In(e, s) = Then(m, f)
    BY <1>2, <1>19, <1>22, Zenon DEF In, Then
<1>24. In(e, u) = Then(m, Then(f, z))
    <2>1. In(e, u) = m \o FlattenSeq(c)
        BY <1>5, <1>22, Zenon DEF In
    <2> QED
        BY <2>1, <1>21, Zenon DEF Then
<1>25. Then(Then(m, f), z) = Then(m, Then(f, z))
    BY ThenThen
<1> QED
    BY <1>4, <1>23, <1>24, <1>25

\* What begins a text also begins one that goes on.
LEMMA BegunThen ==
    ASSUME NEW e \in Encodings, NEW s \in Seq(Symbols), NEW t \in Seq(Symbols), NEW b,
           Begun(b, e, s)
    PROVE  Begun(b, e, Then(s, t)) /\ Len(In(e, s)) <= Len(In(e, Then(s, t)))
<1>1. PICK z \in Seq(Elements) : In(e, Then(s, t)) = Then(In(e, s), z)
    BY InThen
<1>2. PICK i \in Seq(Elements) : i = In(e, s)
    BY InAt
<1>3. PICK j \in Seq(Elements) : j = Then(i, z)
    BY ThenAt
<1>4. Len(j) = Len(i) + Len(z) /\ \A x \in 1..Len(i) : j[x] = i[x]
    BY <1>3, ThenAt
<1>5. Len(i) <= Len(j)
    BY <1>4
<1>6. b \in Seq(Elements) /\ Len(b) <= Len(i) /\ \A x \in 1..Len(b) : b[x] = i[x]
    BY <1>2 DEF Begun
<1>7. \A x \in 1..Len(b) : b[x] = j[x]
    BY <1>4, <1>6
<1>8. Len(b) <= Len(j)
    BY <1>5, <1>6
<1>9. j = In(e, Then(s, t))
    BY <1>1, <1>2, <1>3
<1> QED
    BY <1>2, <1>5, <1>6, <1>7, <1>8, <1>9 DEF Begun

(***************************************************************************)
(* Where the StreamRedactor, and the cut of the answer, part the text.     *)
(***************************************************************************)
Cuts(s, l) == {b \in 0..l : b = l \/ Across(s, b, l)}

\* The place for the cut is within the window before l, and the first there.
LEMMA CutFacts ==
    ASSUME NEW s \in Seq(Symbols), NEW l \in Nat
    PROVE  \E p \in 0..l : /\ p = Min(Cuts(s, l)) /\ (p = l \/ Across(s, p, l))
                           /\ l - p <= Keep
                           /\ \A b \in 0..(p - 1) : ~Across(s, b, l)
<1>1. Cuts(s, l) \subseteq Nat /\ l \in Cuts(s, l)
    BY DEF Cuts
<1>2. \E n \in Cuts(s, l) : \A m \in Cuts(s, l) : n <= m
    BY <1>1, LeastNumber
<1>3. PICK p : p = Min(Cuts(s, l))
    OBVIOUS
<1>4. p \in Cuts(s, l) /\ \A m \in Cuts(s, l) : p <= m
    BY <1>2, <1>3 DEF Min
<1>5. p \in 0..l /\ (p = l \/ Across(s, p, l))
    BY <1>4 DEF Cuts
<1>6. ASSUME NEW b \in 0..(p - 1), Across(s, b, l) PROVE FALSE
    <2>1. b \in 0..l /\ b < p
        BY <1>5
    <2>2. b \in Cuts(s, l)
        BY <2>1, <1>6 DEF Cuts
    <2>3. p <= b
        BY <2>2, <1>4
    <2> QED
        BY <2>1, <2>3, <1>5
<1>7. l - p <= Keep
    <2>1. Keep \in Nat
        BY LongestFirst
    <2>2. CASE p = l
        BY <2>1, <2>2
    <2>3. CASE Across(s, p, l)
        <3>1. PICK i \in 1..Len(Entries) : p + Len(V(i)) > l
            BY <2>3 DEF Across
        <3>2. Entries[i] \in Long
            BY EntriesFacts
        <3>3. Len(V(i)) \in Nat /\ Len(V(i)) <= MaxValueLen /\ MaxValueLen = Keep + 1
            BY <3>2, LongestFirst, VFacts DEF V
        <3> QED
            BY <3>1, <3>3, <2>1, <1>5
    <2> QED
        BY <1>5, <2>2, <2>3
<1> QED
    BY <1>3, <1>5, <1>6, <1>7

\* The emit point is such a place, a window before the end.
LEMMA EmitPointCut ==
    ASSUME NEW s \in Seq(Symbols), NEW l \in Nat, l = Len(s) - Keep
    PROVE  EmitPoint(s) = Min(Cuts(s, l))
<1>1. ASSUME NEW b \in 0..(l - 1)
      PROVE  Across(s, b, l) <=> \E k \in Range(Entries) :
                 OccursAt(s, Value[k], b) /\ b + Len(Value[k]) > l
    <2>1. ASSUME Across(s, b, l)
          PROVE  \E k \in Range(Entries) : OccursAt(s, Value[k], b) /\ b + Len(Value[k]) > l
        <3>1. PICK i \in 1..Len(Entries) : OccursAt(s, V(i), b) /\ b + Len(V(i)) > l
            BY <2>1 DEF Across
        <3>2. Entries[i] \in Range(Entries)
            BY EntriesFacts, LongestFirst
        <3> QED
            BY <3>1, <3>2 DEF V
    <2>2. ASSUME NEW k \in Range(Entries), OccursAt(s, Value[k], b), b + Len(Value[k]) > l
          PROVE  Across(s, b, l)
        <3>1. PICK i \in 1..Len(Entries) : Entries[i] = k
            BY EntriesFacts, LongestFirst
        <3> QED
            BY <3>1, <2>2 DEF Across, V
    <2> QED
        BY <2>1, <2>2
<1>2. {l} \cup Crossing(s, l) = Cuts(s, l)
    <2>1. ASSUME NEW b \in {l} \cup Crossing(s, l) PROVE b \in Cuts(s, l)
        <3>1. CASE b = l
            BY <3>1 DEF Cuts
        <3>2. CASE b # l
            <4>1. /\ b \in 0..(l - 1)
                  /\ \E k \in Range(Entries) : OccursAt(s, Value[k], b) /\ b + Len(Value[k]) > l
                BY <3>2 DEF Crossing
            <4>2. b \in 0..l /\ Across(s, b, l)
                BY <4>1, <1>1
            <4> QED
                BY <4>2 DEF Cuts
        <3> QED
            BY <3>1, <3>2
    <2>2. ASSUME NEW b \in Cuts(s, l), b # l PROVE b \in Crossing(s, l)
        <3>1. b \in 0..(l - 1) /\ Across(s, b, l)
            BY <2>2 DEF Cuts
        <3>2. \E k \in Range(Entries) : OccursAt(s, Value[k], b) /\ b + Len(Value[k]) > l
            BY <3>1, <1>1
        <3> QED
            BY <3>1, <3>2 DEF Crossing
    <2> QED
        BY <2>1, <2>2
<1> QED
    BY <1>2 DEF EmitPoint

(***************************************************************************)
(* What the StreamRedactor has done with the first k symbols of the text t:*)
(* the first c are emitted and the rest is held.                           *)
(***************************************************************************)
Streaming(t, k, c, held, emitted, n) ==
    /\ held = Part(t, c, k) /\ k - c <= 2 * Keep /\ (c = 0 \/ c + Keep <= k)
    /\ ValuesApart => /\ Apart(Part(t, 0, k), c)
                      /\ emitted = Redact(Part(t, 0, c)) /\ n = Redactions(Part(t, 0, c))

\* Before the first symbol nothing is held or emitted.
LEMMA StreamingBegins ==
    ASSUME NEW t \in Seq(Symbols)
    PROVE  Streaming(t, 0, 0, <<>>, <<>>, 0)
<1>1. Part(t, 0, 0) = <<>>
    BY PartAll
<1>2. 0 - 0 <= 2 * Keep
    BY LongestFirst
<1>3. ASSUME ValuesApart
      PROVE  Apart(<<>>, 0) /\ <<>> = Redact(<<>>) /\ 0 = Redactions(<<>>)
    <2>1. Apart(<<>>, 0)
        BY DEF Apart
    <2>2. PICK s \in Seq(Symbols) : s = <<>>
        <3>1. <<>> \in Seq(Symbols)
            OBVIOUS
        <3> QED
            BY <3>1
    <2>3. Redact(s) = Whole(s, Len(Entries)) /\ Len(Entries) \in 0..Len(Entries)
        BY <1>3, RedactText, EntriesFacts
    <2>4. Made(s, Len(Entries), 0) = <<>> /\ Made(s, Len(Entries), Len(s)) = Whole(s, Len(Entries))
        BY <2>3, MadeFacts
    <2>5. Redact(s) = <<>>
        BY <2>2, <2>3, <2>4
    <2>6. s \in Seq(Elements)
        BY ElementFacts
    <2>7. Redactions(s) = Cardinality(Begins(<<>>))
        BY <2>5, <2>6, RedactionsCount
    <2>8. Begins(<<>>) = {}
        BY DEF Begins
    <2>9. Redactions(s) = 0
        BY <2>7, <2>8, FS_EmptySet
    <2> QED
        BY <2>1, <2>2, <2>5, <2>9
<1> QED
    BY <1>1, <1>2, <1>3 DEF Streaming

\* A text that goes on is streamed alike as far as it went.
LEMMA StreamingThen ==
    ASSUME NEW t \in Seq(Symbols), NEW u \in Seq(Symbols), NEW k \in 0..Len(t), NEW c \in 0..k,
           NEW held, NEW emitted, NEW n, Streaming(t, k, c, held, emitted, n)
    PROVE  Streaming(Then(t, u), k, c, held, emitted, n)
<1>1. k \in Nat /\ c \in Nat /\ 0 \in Nat /\ 0 <= k /\ 0 <= c /\ c <= k /\ k <= Len(t) /\ c <= Len(t)
    OBVIOUS
<1>2. Part(Then(t, u), c, k) = Part(t, c, k)
    BY <1>1, PartOfThen
<1>3. Part(Then(t, u), 0, k) = Part(t, 0, k)
    BY <1>1, PartOfThen
<1>4. Part(Then(t, u), 0, c) = Part(t, 0, c)
    BY <1>1, PartOfThen
<1> QED
    BY <1>2, <1>3, <1>4 DEF Streaming

\* A part of the beginning is a part of the whole.
LEMMA PartFromStart ==
    ASSUME NEW X, NEW s \in Seq(X), NEW b \in Nat, b <= Len(s),
           NEW c \in Nat, NEW d \in Nat, c <= d, d <= b
    PROVE  Part(Part(s, 0, b), c, d) = Part(s, c, d)
<1>1. PICK a \in Nat : a = 0 /\ a <= b /\ d <= b - a
    OBVIOUS
<1>2. a <= b /\ d <= b - a
    BY <1>1
<1>3. Part(Part(s, a, b), c, d) = Part(s, a + c, a + d)
    BY <1>2, PartOfPart
<1>4. a + c = c /\ a + d = d
    BY <1>1
<1> QED
    BY <1>1, <1>3, <1>4

\* Redacting up to c and from there on, where no value lies across c.
LEMMA RedactJoin ==
    ASSUME ValuesApart, NEW t \in Seq(Symbols), NEW c \in Nat, NEW d \in Nat, NEW k \in Nat,
           c <= d, d <= k, k <= Len(t), Apart(Part(t, 0, k), c)
    PROVE  /\ Redact(Part(t, 0, d)) = Then(Redact(Part(t, 0, c)), Redact(Part(t, c, d)))
           /\ Redactions(Part(t, 0, d)) = Redactions(Part(t, 0, c)) + Redactions(Part(t, c, d))
<1>1. c <= k /\ d <= Len(t) /\ c <= Len(t) /\ 0 \in Nat /\ 0 <= c /\ 0 <= d /\ 0 <= k
    OBVIOUS
<1>2. PICK u \in Seq(Symbols) : u = Part(t, 0, c)
    BY <1>1, PartFacts
<1>3. PICK v \in Seq(Symbols) : v = Part(t, c, d)
    BY <1>1, PartFacts
<1>4. PICK w \in Seq(Symbols) : w = Part(t, 0, k)
    BY <1>1, PartFacts
<1>5. Len(u) = c
    BY <1>1, <1>2, PartLen
<1>6. d <= Len(w)
    BY <1>1, <1>4, PartLen
<1>7. Then(u, v) = Part(t, 0, d)
    BY <1>1, <1>2, <1>3, PartJoin
<1>8. Part(w, 0, d) = Part(t, 0, d)
    BY <1>1, <1>4, PartFromStart
<1>9. Apart(w, c)
    BY <1>4
<1>10. Apart(Part(w, 0, d), c)
    BY <1>6, <1>9, ApartPart
<1>11. Apart(Then(u, v), Len(u))
    BY <1>5, <1>7, <1>8, <1>10
<1>12. Redact(Then(u, v)) = Then(Redact(u), Redact(v))
    BY <1>11, SplitRedact
<1>13. Redactions(Then(u, v)) = Redactions(u) + Redactions(v)
    BY <1>11, SplitRedact
<1> QED
    BY <1>2, <1>3, <1>7, <1>12, <1>13

\* Symbols that are decoded join what is held.
LEMMA Grown ==
    ASSUME NEW t \in Seq(Symbols), NEW c \in Nat, NEW k \in Nat, NEW g \in Nat,
           c <= k, k <= g, g <= Len(t), NEW held, NEW emitted, NEW n,
           Streaming(t, k, c, held, emitted, n)
    PROVE  /\ held \o Part(t, k, g) = Part(t, c, g) /\ Part(t, c, g) \in Seq(Symbols)
           /\ ValuesApart => Apart(Part(t, 0, g), c)
<1>1. c <= g /\ k <= Len(t) /\ 0 \in Nat /\ 0 <= g /\ 0 <= k
    OBVIOUS
<1>2. Then(Part(t, c, k), Part(t, k, g)) = Part(t, c, g)
    BY <1>1, PartJoin
<1>3. held = Part(t, c, k)
    BY DEF Streaming
<1>4. held \o Part(t, k, g) = Part(t, c, g)
    BY <1>2, <1>3, Zenon DEF Then
<1>5. Part(t, c, g) \in Seq(Symbols)
    BY <1>1, PartFacts
<1>6. ASSUME ValuesApart PROVE Apart(Part(t, 0, g), c)
    <2>1. CASE c = 0
        BY <2>1 DEF Apart
    <2>2. CASE c # 0
        <3>1. c + Keep <= k
            BY <2>2 DEF Streaming
        <3>2. Apart(Part(t, 0, k), c)
            BY <1>6 DEF Streaming
        <3>3. PICK w \in Seq(Symbols) : w = Part(t, 0, g)
            BY <1>1, PartFacts
        <3>4. k <= Len(w)
            BY <1>1, <3>3, PartLen
        <3>5. Part(w, 0, k) = Part(t, 0, k)
            BY <1>1, <3>3, PartFromStart
        <3>6. Apart(Part(w, 0, k), c)
            BY <3>2, <3>5
        <3>7. Apart(w, c)
            BY <3>1, <3>4, <3>6, ApartGrows
        <3> QED
            BY <3>3, <3>7
    <2> QED
        BY <2>1, <2>2
<1> QED
    BY <1>4, <1>5, <1>6

\* The emit point of what is held is a place where the text may be cut.
LEMMA EmitPointSafe ==
    ASSUME NEW t \in Seq(Symbols), NEW c \in Nat, NEW g \in Nat,
           c <= g, g <= Len(t), g - c > Keep
    PROVE  \E p \in 0..(g - c) :
              /\ p = EmitPoint(Part(t, c, g)) /\ c + p + Keep <= g /\ g - (c + p) <= 2 * Keep
              /\ ValuesApart /\ Apart(Part(t, 0, g), c) => Apart(Part(t, 0, g), c + p)
<1>1. Keep \in Nat /\ 0 \in Nat /\ 0 <= g /\ 0 <= c
    BY LongestFirst
<1>2. PICK d \in Seq(Symbols) : d = Part(t, c, g)
    BY PartFacts
<1>3. Len(d) = g - c
    BY <1>2, PartLen
<1>4. PICK l \in Nat : l = Len(d) - Keep
    <2>1. Len(d) - Keep \in Nat
        BY <1>1, <1>3
    <2> QED
        BY <2>1
<1>5. PICK p \in 0..l : /\ p = Min(Cuts(d, l)) /\ (p = l \/ Across(d, p, l))
                        /\ l - p <= Keep
                        /\ \A b \in 0..(p - 1) : ~Across(d, b, l)
    BY CutFacts
<1>6. p = EmitPoint(d)
    <2>1. EmitPoint(d) = Min(Cuts(d, l))
        BY <1>4, EmitPointCut, Zenon
    <2>2. p = Min(Cuts(d, l))
        BY <1>5
    <2> QED
        BY <2>1, <2>2, Zenon
<1>7. p \in 0..(g - c) /\ c + p + Keep <= g /\ g - (c + p) <= 2 * Keep
    BY <1>1, <1>3, <1>4, <1>5, SMTT(30)
<1>8. ASSUME ValuesApart, Apart(Part(t, 0, g), c) PROVE Apart(Part(t, 0, g), c + p)
    <2>1. PICK w \in Seq(Symbols) : w = Part(t, 0, g)
        BY <1>1, PartFacts
    <2>2. Len(w) = g
        BY <1>1, <2>1, PartLen
    <2>3. d = Part(w, c, g)
        BY <1>1, <1>2, <2>1, PartFromStart
    <2>4. PICK m \in Nat : m = c + l /\ m <= g
        <3>1. c + l \in Nat /\ c + l <= g
            BY <1>1, <1>3, <1>4
        <3> QED
            BY <3>1
    <2>5. ASSUME NEW b \in Nat, NEW h \in Nat, h = c + b
          PROVE  Across(d, b, l) <=> Across(w, h, m)
        <3>1. ASSUME NEW i \in 1..Len(Entries)
              PROVE  OccursAt(d, V(i), b) /\ b + Len(V(i)) > l <=>
                         OccursAt(w, V(i), h) /\ h + Len(V(i)) > m
            <4>1. g <= Len(w)
                BY <2>2
            <4>2. OccursAt(Part(w, c, g), V(i), b) <=>
                      OccursAt(w, V(i), c + b) /\ c + b + Len(V(i)) <= g
                BY <4>1, OccursPart
            <4>3. PICK v \in Nat : v = Len(V(i))
                BY VFacts
            <4>4. OccursAt(w, V(i), h) => h + v <= g
                BY <4>3, <2>2 DEF OccursAt
            <4>5. b + v > l <=> h + v > m
                BY <2>4, <2>5
            <4> QED
                BY <4>2, <4>3, <4>4, <4>5, <2>3, <2>5
        <3> QED
            BY <3>1 DEF Across
    <2>6. PICK h \in Nat : h = c + p
        OBVIOUS
    <2>7. h = m \/ Across(w, h, m)
        <3>1. p \in Nat
            BY <1>5
        <3>2. Across(d, p, l) <=> Across(w, h, m)
            BY <3>1, <2>5, <2>6
        <3> QED
            BY <3>2, <2>4, <2>6, <1>5
    <2>8. ASSUME NEW y \in c..(h - 1) PROVE ~Across(w, y, m)
        <3>1. PICK b \in 0..(p - 1) : y = c + b
            <4>1. y - c \in 0..(p - 1) /\ y = c + (y - c)
                BY <2>6
            <4> QED
                BY <4>1
        <3>2. ~Across(d, b, l) /\ b \in Nat /\ y \in Nat
            BY <1>5
        <3> QED
            BY <3>1, <3>2, <2>5
    <2>9. c <= h /\ h <= m /\ m <= Len(w)
        BY <2>2, <2>4, <2>6, <1>5
    <2>10. Apart(w, c)
        BY <2>1, <1>8
    <2>11. Apart(w, h)
        BY <2>7, <2>8, <2>9, <2>10, <1>8, SafePoint
    <2> QED
        BY <2>1, <2>6, <2>11
<1> QED
    BY <1>2, <1>6, <1>7, <1>8

\* The StreamRedactor is given symbols that are not the last.
LEMMA FlushStep ==
    ASSUME NEW t \in Seq(Symbols), NEW c \in Nat, NEW k \in Nat, NEW g \in Nat,
           c <= k, k <= g, g <= Len(t), Streaming(t, k, c, tail, out, count), count \in Nat,
           broken = FALSE, Flush(tail \o Part(t, k, g), FALSE)
    PROVE  /\ count' \in Nat /\ broken' \in BOOLEAN
           /\ ~broken' => \E m \in 0..g : Streaming(t, g, m, tail', out', count')
<1>1. Keep \in Nat /\ c <= g /\ 0 \in Nat /\ 0 <= g /\ 0 <= c /\ c <= Len(t)
    BY LongestFirst
<1>2. PICK d \in Seq(Symbols) : d = Part(t, c, g)
    BY <1>1, PartFacts
<1>3. tail \o Part(t, k, g) = d
    BY <1>2, Grown
<1>4. ValuesApart => Apart(Part(t, 0, g), c)
    BY Grown
<1>5. Len(d) = g - c
    BY <1>1, <1>2, PartLen
<1>6. IF Len(d) <= Keep \/ EmitPoint(d) = 0 THEN Hold(d) ELSE Emit(d, EmitPoint(d))
    BY <1>3 DEF Flush, Due
<1>7. c \in 0..g
    BY <1>1
<1>8. CASE Hold(d) /\ (Len(d) <= Keep \/ EmitPoint(d) = 0)
    <2>1. tail' = d /\ out' = out /\ count' = count /\ broken' = FALSE
        BY <1>8 DEF Hold
    <2>2. g - c <= 2 * Keep
        <3>1. CASE g - c <= Keep
            BY <3>1, <1>1
        <3>2. CASE g - c > Keep
            <4>1. PICK p \in 0..(g - c) :
                      p = EmitPoint(Part(t, c, g)) /\ g - (c + p) <= 2 * Keep
                BY <3>2, <1>1, EmitPointSafe
            <4>2. p = 0
                BY <4>1, <3>2, <1>1, <1>2, <1>5, <1>8
            <4> QED
                BY <4>1, <4>2
        <3> QED
            BY <3>1, <3>2, <1>1
    <2>3. c = 0 \/ c + Keep <= g
        BY <1>1 DEF Streaming
    <2>4. ValuesApart => out' = Redact(Part(t, 0, c)) /\ count' = Redactions(Part(t, 0, c))
        BY <2>1 DEF Streaming
    <2>5. Streaming(t, g, c, tail', out', count')
        BY <2>1, <2>2, <2>3, <2>4, <1>2, <1>4 DEF Streaming
    <2> QED
        BY <2>1, <2>5, <1>7
<1>9. CASE Emit(d, EmitPoint(d)) /\ ~(Len(d) <= Keep \/ EmitPoint(d) = 0)
    <2>1. g - c > Keep
        BY <1>1, <1>5, <1>9
    <2>2. PICK p \in 0..(g - c) :
              /\ p = EmitPoint(Part(t, c, g)) /\ c + p + Keep <= g /\ g - (c + p) <= 2 * Keep
              /\ ValuesApart /\ Apart(Part(t, 0, g), c) => Apart(Part(t, 0, g), c + p)
        BY <2>1, EmitPointSafe
    <2>3. Emit(d, p)
        BY <2>2, <1>2, <1>9
    <2>4. PICK m \in 0..g : m = c + p /\ c <= m
        <3>1. c + p \in 0..g /\ c <= c + p
            BY <1>1
        <3> QED
            BY <3>1
    <2>5. PICK v \in Seq(Symbols) : v = Part(t, c, m)
        <3>1. m \in Nat /\ c <= m /\ m <= Len(t)
            BY <2>4
        <3> QED
            BY <3>1, PartFacts
    <2>6. SubSeq(d, 1, p) = v
        <3>1. PICK a \in Nat : a = 0 /\ a <= p /\ p <= g - c
            BY <1>1
        <3>2. a <= p /\ p <= g - c /\ p \in Nat
            BY <3>1
        <3>3. Part(Part(t, c, g), a, p) = Part(t, c + a, c + p)
            BY <3>2, <1>1, PartOfPart
        <3>4. c + a = c /\ a + 1 = 1
            BY <3>1
        <3>5. Part(d, a, p) = v
            BY <3>3, <3>4, <2>4, <2>5, <1>2
        <3> QED
            BY <3>4, <3>5 DEF Part
    <2>7. SubSeq(d, p + 1, Len(d)) = Part(t, m, g)
        <3>1. PICK w \in Nat : w = g - c /\ p <= w /\ w <= g - c /\ c + w = g
            <4>1. g - c \in Nat /\ c + (g - c) = g /\ p <= g - c
                BY <1>1
            <4> QED
                BY <4>1
        <3>2. p <= w /\ w <= g - c /\ p \in Nat
            BY <3>1
        <3>3. Part(Part(t, c, g), p, w) = Part(t, c + p, c + w)
            BY <3>2, <1>1, PartOfPart
        <3>4. Part(d, p, Len(d)) = Part(t, m, g)
            BY <3>1, <3>3, <2>4, <1>2, <1>5
        <3> QED
            BY <3>4 DEF Part
    <2>8. v \in Seq(Elements)
        BY ElementFacts
    <2>9. Redactions(v) \in Nat
        BY <2>8, RedactionsCount
    <2>10. CASE /\ out' = out \o Redact(SubSeq(d, 1, p))
                /\ count' = count + Redactions(SubSeq(d, 1, p))
                /\ tail' = SubSeq(d, p + 1, Len(d)) /\ UNCHANGED broken
        <3>1. /\ out' = out \o Redact(v) /\ count' = count + Redactions(v)
              /\ tail' = Part(t, m, g) /\ broken' = FALSE
            BY <2>6, <2>7, <2>10
        <3>2. count' \in Nat
            BY <3>1, <2>9
        <3>3. ASSUME ValuesApart
              PROVE  /\ Apart(Part(t, 0, g), m) /\ out' = Redact(Part(t, 0, m))
                     /\ count' = Redactions(Part(t, 0, m))
            <4>1. Apart(Part(t, 0, g), c) /\ Apart(Part(t, 0, g), m)
                BY <3>3, <1>4, <2>2, <2>4
            <4>2. m \in Nat /\ c <= m /\ m <= g /\ g <= Len(t)
                BY <2>4
            <4>3. Redact(Part(t, 0, m)) = Then(Redact(Part(t, 0, c)), Redact(Part(t, c, m)))
                BY <4>1, <4>2, <3>3, RedactJoin
            <4>4. Redactions(Part(t, 0, m)) = Redactions(Part(t, 0, c)) + Redactions(Part(t, c, m))
                BY <4>1, <4>2, <3>3, RedactJoin
            <4>5. out = Redact(Part(t, 0, c)) /\ count = Redactions(Part(t, 0, c))
                BY <3>3 DEF Streaming
            <4>6. out' = Redact(Part(t, 0, m))
                BY <4>3, <4>5, <3>1, <2>5, Zenon DEF Then
            <4>7. count' = Redactions(Part(t, 0, m))
                BY <4>4, <4>5, <3>1, <2>5
            <4> QED
                BY <4>1, <4>6, <4>7
        <3>4. g - m <= 2 * Keep /\ m + Keep <= g
            BY <2>2, <2>4
        <3>5. Streaming(t, g, m, tail', out', count')
            BY <3>1, <3>3, <3>4 DEF Streaming
        <3> QED
            BY <3>1, <3>2, <3>5
    <2>11. CASE broken' = TRUE /\ tail' = d /\ UNCHANGED <<out, count>>
        BY <2>11
    <2> QED
        BY <2>3, <2>10, <2>11 DEF Emit
<1> QED
    BY <1>6, <1>8, <1>9

\* The bytes b of t in e are k symbols, and r is a byte of the next one.
Holds(b, e, k, r) ==
    /\ Len(b) = Offset(e) + Width(e) * k + r
    /\ k \in Nat /\ r \in {0, 1} /\ (r = 1 => Wide(e))

\* Where the bytes of symbol k + 1 begin.
Spot(e, k) == Offset(e) + Width(e) * k

\* Where symbols begin, in the encodings of one width and the other.
LEMMA SpotFacts ==
    ASSUME NEW e \in Encodings, NEW k \in Nat
    PROVE  /\ Spot(e, k) \in Nat /\ Offset(e) \in Nat
           /\ Wide(e) => Spot(e, k) = Offset(e) + 2 * k
           /\ ~Wide(e) => Spot(e, k) = Offset(e) + k
           /\ Spot(e, 0) = Offset(e)
<1>1. Offset(e) \in Nat
    BY EncodingCases
<1>2. Wide(e) => Width(e) = 2
    BY DEF Width
<1>3. ~Wide(e) => Width(e) = 1
    BY DEF Width
<1> QED
    BY <1>1, <1>2, <1>3 DEF Spot

\* All but at most one of the bytes are whole symbols.
LEMMA HoldsExists ==
    ASSUME NEW e \in Encodings, NEW t \in Seq(Symbols), NEW b, Begun(b, e, t),
           NEW k \in Nat, Spot(e, k) <= Len(b)
    PROVE  \E g \in Nat, r \in {0, 1} : k <= g /\ g <= Len(t) /\ Holds(b, e, g, r)
<1>1. b \in Seq(Elements) /\ Len(b) \in Nat
    BY DEF Begun
<1>2. PICK o \in Nat : o = Offset(e)
    BY EncodingCases
<1>3. CASE Wide(e)
    <2>1. Spot(e, k) = o + 2 * k
        BY <1>2, <1>3, SpotFacts
    <2>2. PICK x \in Nat : x = Len(b) - o
        <3>1. Len(b) - o \in Nat
            BY <2>1, <1>1
        <3> QED
            BY <3>1
    <2>3. PICK g \in Nat, r \in {0, 1} : x = 2 * g + r
        <3>1. PICK g \in Nat, r \in {0, 1} : g = x \div 2 /\ r = x % 2 /\ x = 2 * g + r
            BY HalfFacts
        <3> QED
            BY <3>1
    <2>4. Len(b) = o + 2 * g + r
        BY <2>2, <2>3, <1>1
    <2>5. k <= g
        BY <2>1, <2>4
    <2>6. Len(b) = Offset(e) + 2 * g + r /\ g <= g
        BY <2>4, <1>2
    <2>7. g <= Len(t)
        BY <2>6, <1>3, WidePart
    <2>8. Holds(b, e, g, r)
        BY <2>6, <1>3 DEF Holds, Width
    <2> QED
        BY <2>5, <2>7, <2>8
<1>4. CASE ~Wide(e)
    <2>1. Spot(e, k) = o + k
        BY <1>2, <1>4, SpotFacts
    <2>2. PICK g \in Nat : g = Len(b) - o /\ k <= g
        <3>1. Len(b) - o \in Nat /\ k <= Len(b) - o
            BY <2>1, <1>1
        <3> QED
            BY <3>1
    <2>3. Len(b) = Offset(e) + g /\ k <= g
        BY <2>2, <1>1, <1>2
    <2>4. g <= Len(t)
        BY <2>3, <1>4, PlainPart
    <2>5. Len(b) = Offset(e) + 1 * g + 0
        BY <2>3, <1>2
    <2>6. Holds(b, e, g, 0)
        BY <2>5, <1>4 DEF Holds, Width
    <2> QED
        BY <2>2, <2>4, <2>6
<1> QED
    BY <1>3, <1>4

\* Bytes that are not the last are decoded.
LEMMA DecodeStep ==
    ASSUME NEW e \in Encodings, NEW t \in Seq(Symbols), NEW b, Begun(b, e, t),
           NEW c \in Nat, NEW k \in Nat, c <= k, Spot(e, k) <= Len(b),
           Streaming(t, k, c, tail, out, count), count \in Nat, broken = FALSE,
           Decode(Part(b, Spot(e, k), Len(b)), Decoder(e), FALSE)
    PROVE  /\ count' \in Nat /\ broken' \in BOOLEAN
           /\ ~broken' => \E g \in 0..Len(t), r \in {0, 1} : \E m \in 0..g :
                 /\ Holds(b, e, g, r) /\ pending' = Part(b, Spot(e, g), Len(b))
                 /\ Streaming(t, g, m, tail', out', count')
<1>1. PICK g \in Nat, r \in {0, 1} : k <= g /\ g <= Len(t) /\ Holds(b, e, g, r)
    BY HoldsExists
<1>2. k <= g /\ g <= Len(t) /\ g \in 0..Len(t) /\ Len(b) = Offset(e) + Width(e) * g + r
    BY <1>1 DEF Holds
<1>3. b \in Seq(Elements)
    BY DEF Begun
<1>4. ASSUME Flush(tail \o Part(t, k, g), FALSE),
             ~broken' => pending' = Part(b, Spot(e, g), Len(b))
      PROVE  /\ count' \in Nat /\ broken' \in BOOLEAN
             /\ ~broken' => \E h \in 0..Len(t), x \in {0, 1} : \E m \in 0..h :
                 /\ Holds(b, e, h, x) /\ pending' = Part(b, Spot(e, h), Len(b))
                 /\ Streaming(t, h, m, tail', out', count')
    <2>1. /\ count' \in Nat /\ broken' \in BOOLEAN
          /\ ~broken' => \E m \in 0..g : Streaming(t, g, m, tail', out', count')
        BY <1>2, <1>4, FlushStep
    <2> QED
        BY <2>1, <1>1, <1>2, <1>4
<1>5. CASE Wide(e)
    <2>1. /\ Spot(e, k) = Offset(e) + 2 * k /\ Spot(e, g) = Offset(e) + 2 * g
          /\ Len(b) = Offset(e) + 2 * g + r
        BY <1>2, <1>5, SpotFacts DEF Width
    <2>2. PICK y \in Seq(Elements) :
              /\ y = Part(b, Offset(e) + 2 * k, Len(b))
              /\ Units(Decoder(e), y) = Part(t, k, g)
              /\ After(y, Len(Even(y))) = Part(b, Offset(e) + 2 * g, Len(b))
        BY <2>1, <1>2, <1>5, WidePart
    <2>3. Decoder(e) \in {"le", "be"}
        BY <1>5 DEF Wide, Decoder
    <2>4. Part(b, Spot(e, k), Len(b)) = y
        BY <2>1, <2>2
    <2>5. /\ \E half \in {<<>>} : Flush(tail \o Units(Decoder(e), y) \o half, FALSE)
          /\ pending' = IF broken' THEN y ELSE After(y, Len(Even(y)))
        BY <2>3, <2>4 DEF Decode
    <2>6. Flush(tail \o Part(t, k, g) \o <<>>, FALSE)
        BY <2>2, <2>5
    <2>7. tail \o Part(t, k, g) \o <<>> = tail \o Part(t, k, g)
        <3>1. PICK d \in Seq(Symbols) : d = Part(t, c, g)
            BY <1>2, Grown
        <3>2. tail \o Part(t, k, g) = d
            BY <3>1, <1>2, Grown, SMTT(30)
        <3>3. Then(d, <<>>) = d
            BY ThenFacts
        <3> QED
            BY <3>2, <3>3, Zenon DEF Then
    <2>8. Flush(tail \o Part(t, k, g), FALSE)
        BY <2>6, <2>7
    <2>9. ~broken' => pending' = Part(b, Spot(e, g), Len(b))
        BY <2>1, <2>2, <2>5
    <2> QED
        BY <2>8, <2>9, <1>4
<1>6. CASE ~Wide(e)
    <2>1. /\ Spot(e, k) = Offset(e) + k /\ Spot(e, g) = Offset(e) + g
          /\ r = 0 /\ Len(b) = Offset(e) + g
        <3>1. r = 0
            BY <1>1, <1>6 DEF Holds
        <3>2. Width(e) = 1 /\ Offset(e) \in Nat
            BY <1>6, EncodingCases DEF Width
        <3>3. Spot(e, k) = Offset(e) + k /\ Spot(e, g) = Offset(e) + g
            BY <1>6, SpotFacts
        <3> QED
            BY <3>1, <3>2, <3>3, <1>2
    <2>2. Part(b, Offset(e) + k, Len(b)) = Part(t, k, g)
        BY <2>1, <1>2, <1>6, PlainPart
    <2>3. Decoder(e) \notin {"le", "be"}
        BY <1>6, EncodingCases DEF Wide, Decoder
    <2>4. /\ Flush(tail \o Part(b, Spot(e, k), Len(b)), FALSE)
          /\ pending' = <<>>
        BY <2>3 DEF Decode
    <2>5. Flush(tail \o Part(t, k, g), FALSE)
        BY <2>1, <2>2, <2>4
    <2>6. Part(b, Len(b), Len(b)) = <<>>
        BY <1>3, PartAll
    <2>7. pending' = Part(b, Spot(e, g), Len(b))
        BY <2>1, <2>4, <2>6
    <2> QED
        BY <2>5, <2>7, <1>4
<1> QED
    BY <1>5, <1>6

(***************************************************************************)
(* The last flush is two: what the window lets through, and the rest.      *)
(***************************************************************************)

\* What is emitted in two parts is redacted as it would be in one.
InTwo(d) ==
    /\ Redact(d) = Then(Redact(Part(d, 0, Due(d))), Redact(Part(d, Due(d), Len(d))))
    /\ Redactions(d) = Redactions(Part(d, 0, Due(d))) + Redactions(Part(d, Due(d), Len(d)))

\* The first part is a part.
LEMMA DueFacts ==
    ASSUME NEW d \in Seq(Elements)
    PROVE  Due(d) \in 0..Len(d)
<1>1. Keep \in Nat /\ Len(d) \in Nat
    BY LongestFirst
<1>2. CASE Len(d) <= Keep
    BY <1>1, <1>2 DEF Due
<1>3. CASE ~(Len(d) <= Keep)
    <2>1. PICK l \in Nat : l = Len(d) - Keep /\ l <= Len(d)
        <3>1. Len(d) - Keep \in Nat /\ Len(d) - Keep <= Len(d)
            BY <1>1, <1>3
        <3> QED
            BY <3>1
    <2>2. PICK C : C = {l} \cup Crossing(d, l)
        OBVIOUS
    <2>3. C \subseteq 0..l /\ C # {}
        BY <2>2 DEF Crossing
    <2>4. C \subseteq Nat
        BY <2>3
    <2>5. \E n \in C : \A m \in C : n <= m
        BY <2>3, <2>4, LeastNumber
    <2>6. PICK n : n = Min(C)
        OBVIOUS
    <2>7. n \in C
        BY <2>5, <2>6 DEF Min
    <2>8. EmitPoint(d) = n
        BY <2>1, <2>2, <2>6, Zenon DEF EmitPoint
    <2>9. Due(d) = n
        BY <2>8, <1>3, Zenon DEF Due
    <2> QED
        BY <2>1, <2>3, <2>7, <2>9, <1>1
<1> QED
    BY <1>2, <1>3

\* Text may be emitted in two parts.
LEMMA TextInTwo ==
    ASSUME ValuesApart, NEW d \in Seq(Symbols)
    PROVE  InTwo(d)
<1>1. PICK g \in Nat : g = Len(d) /\ 0 \in Nat /\ 0 <= g /\ g <= Len(d)
    OBVIOUS
<1>2. Part(d, 0, g) = d
    BY <1>1, PartAll
<1>3. PICK p \in Nat : p = Due(d) /\ p <= g
    <2>1. d \in Seq(Elements)
        BY ElementFacts
    <2>2. Due(d) \in 0..Len(d)
        BY <2>1, DueFacts
    <2> QED
        BY <2>2, <1>1
<1>4. Apart(Part(d, 0, g), p)
    <2>1. Apart(d, 0)
        BY DEF Apart
    <2>2. CASE g <= Keep
        <3>1. Due(d) = 0
            BY <2>2, <1>1 DEF Due
        <3> QED
            BY <3>1, <2>1, <1>2, <1>3
    <2>3. CASE ~(g <= Keep)
        <3>1. Keep \in Nat
            BY LongestFirst
        <3>2. PICK z \in Nat : z = 0 /\ z <= g /\ g - z > Keep
            BY <3>1, <2>3
        <3>3. z <= g /\ g <= Len(d) /\ g - z > Keep
            BY <3>2, <1>1
        <3>4. PICK q \in 0..(g - z) :
                  /\ q = EmitPoint(Part(d, z, g))
                  /\ ValuesApart /\ Apart(Part(d, 0, g), z) => Apart(Part(d, 0, g), z + q)
            BY <3>3, EmitPointSafe
        <3>5. Apart(Part(d, 0, g), z + q)
            BY <3>2, <3>4, <2>1, <1>2
        <3>6. Due(d) = EmitPoint(d)
            BY <2>3, <1>1 DEF Due
        <3>7. p = q /\ z + q = q
            BY <3>2, <3>4, <3>6, <1>2, <1>3
        <3> QED
            BY <3>5, <3>7
    <2> QED
        BY <2>2, <2>3
<1>5. p <= g /\ g <= g /\ g <= Len(d)
    BY <1>1, <1>3
<1>6. Redact(Part(d, 0, g)) = Then(Redact(Part(d, 0, p)), Redact(Part(d, p, g)))
    BY <1>4, <1>5, RedactJoin
<1>7. Redactions(Part(d, 0, g)) = Redactions(Part(d, 0, p)) + Redactions(Part(d, p, g))
    BY <1>4, <1>5, RedactJoin
<1> QED
    BY <1>1, <1>2, <1>3, <1>6, <1>7 DEF InTwo

\* A zero behind the text takes part in no value.
LEMMA ReplacedZero ==
    ASSUME NEW w \in Seq(Elements), NEW v \in Seq(Symbols), v # <<>>,
           NEW m \in Seq(Elements)
    PROVE  Replaced(Then(w, <<Zero>>), v, m) = Then(Replaced(w, v, m), <<Zero>>)
<1>1. PICK n \in Nat : n = Len(w)
    OBVIOUS
<1>2. PICK l \in Nat : l = Len(v) /\ l >= 1
    OBVIOUS
<1>3. v \in Seq(Elements) /\ Zero \in Elements
    BY ElementFacts
<1>4. PICK o \in Seq(Elements) : o = <<Zero>> /\ Len(o) = 1 /\ o[1] = Zero
    <2>1. <<Zero>> \in Seq(Elements)
        BY <1>3
    <2> QED
        BY <2>1
<1>5. PICK z \in Seq(Elements) : z = Then(w, o)
    BY ThenFacts
<1>6. Len(z) = n + 1 /\ z[n + 1] = Zero /\ \A i \in 1..n : z[i] = w[i]
    <2>1. Len(z) = Len(w) + Len(o)
        BY <1>5, ThenAt
    <2>2. \A i \in 1..Len(w) : z[i] = w[i]
        BY <1>5, ThenAt
    <2>3. 1 \in 1..Len(o)
        BY <1>4
    <2>4. z[Len(w) + 1] = o[1]
        BY <2>3, <1>5, ThenBehind
    <2> QED
        BY <2>1, <2>2, <2>4, <1>1, <1>4
<1>7. ASSUME NEW i \in 0..n
      PROVE  OccursAt(z, v, i) <=> OccursAt(w, v, i)
    <2>0. i \in Nat /\ Len(v) = l /\ Len(z) = n + 1 /\ Len(w) = n
        BY <1>1, <1>2, <1>6
    <2>1. OccursAt(z, v, i) <=> i + l <= n + 1 /\ \A x \in 1..l : z[i + x] = v[x]
        <3>1. \A e \in Seq(Elements) :
                  OccursAt(z, e, i) <=> /\ i + Len(e) <= Len(z)
                                        /\ \A x \in 1..Len(e) : z[i + x] = e[x]
            BY <2>0, OccursMeans
        <3>2. OccursAt(z, v, i) <=> /\ i + Len(v) <= Len(z)
                                    /\ \A x \in 1..Len(v) : z[i + x] = v[x]
            BY <3>1, <1>3
        <3> QED
            BY <3>2, <2>0
    <2>2. OccursAt(w, v, i) <=> i + l <= n /\ \A x \in 1..l : w[i + x] = v[x]
        <3>1. \A e \in Seq(Elements) :
                  OccursAt(w, e, i) <=> /\ i + Len(e) <= Len(w)
                                        /\ \A x \in 1..Len(e) : w[i + x] = e[x]
            BY <2>0, OccursMeans
        <3>2. OccursAt(w, v, i) <=> /\ i + Len(v) <= Len(w)
                                    /\ \A x \in 1..Len(v) : w[i + x] = v[x]
            BY <3>1, <1>3
        <3> QED
            BY <3>2, <2>0
    <2>3. CASE i + l <= n
        <3>1. \A x \in 1..l : i + x \in 1..n
            BY <2>3
        <3>2. \A x \in 1..l : z[i + x] = w[i + x]
            BY <3>1, <1>6
        <3>3. (\A x \in 1..l : z[i + x] = v[x]) <=> (\A x \in 1..l : w[i + x] = v[x])
            BY <3>2
        <3>4. i + l <= n + 1
            BY <2>3
        <3> QED
            BY <3>3, <3>4, <2>1, <2>2, <2>3
    <2>4. CASE i + l = n + 1
        <3>1. l \in 1..l /\ z[i + l] = Zero
            BY <2>4, <1>2, <1>6
        <3>2. v[l] \in Symbols
            BY <1>2
        <3>3. z[i + l] # v[l]
            BY <3>1, <3>2, SymbolFacts
        <3>4. ~(i + l <= n)
            BY <2>4
        <3> QED
            BY <3>1, <3>3, <3>4, <2>1, <2>2
    <2>5. CASE ~(i + l <= n + 1)
        BY <2>1, <2>2, <2>5
    <2> QED
        BY <2>3, <2>4, <2>5
<1>8. PICK T : T = {d \in 0..n : \A i \in (n - d)..n :
                       Left(z, v, m, Elements, i) = Then(Left(w, v, m, Elements, i), o)}
    OBVIOUS
<1>9. 0 \in T
    <2>1. ~OccursAt(z, v, n)
        <3>1. ~OccursAt(w, v, n)
            BY <1>1, <1>2 DEF OccursAt
        <3> QED
            BY <3>1, <1>7
    <2>2. n < Len(z) /\ Len(z) = n + 1
        BY <1>6
    <2>3. Left(z, v, m, Elements, n) = Then(<<z[n + 1]>>, Left(z, v, m, Elements, n + 1))
        BY <2>1, <2>2, <1>3, LeftPlain
    <2>4. Left(z, v, m, Elements, n + 1) = <<>>
        BY <2>2, <1>3, LeftFacts
    <2>5. Left(w, v, m, Elements, n) = <<>>
        BY <1>1, <1>3, LeftFacts
    <2>6. Then(o, <<>>) = o /\ Then(<<>>, o) = o
        BY ThenFacts
    <2>7. Left(z, v, m, Elements, n) = Then(Left(w, v, m, Elements, n), o)
        BY <2>3, <2>4, <2>5, <2>6, <1>4, <1>6
    <2>8. \A i \in (n - 0)..n : i = n
        OBVIOUS
    <2> QED
        BY <2>7, <2>8, <1>8
<1>10. ASSUME NEW d \in 1..n, d - 1 \in T PROVE d \in T
    <2>1. PICK i \in Nat : i = n - d /\ i < n /\ i \in 0..n
        <3>1. n - d \in Nat /\ n - d < n /\ n - d \in 0..n
            OBVIOUS
        <3> QED
            BY <3>1
    <2>2. \A j \in (i + 1)..n : Left(z, v, m, Elements, j) = Then(Left(w, v, m, Elements, j), o)
        BY <2>1, <1>8, <1>10
    <2>3. i < Len(w) /\ i < Len(z)
        BY <2>1, <1>1, <1>6
    <2>4. Left(z, v, m, Elements, i) = Then(Left(w, v, m, Elements, i), o)
        <3>1. CASE OccursAt(w, v, i)
            <4>1. PICK j \in (i + 1)..n : j = i + Len(v)
                <5>1. i + l \in (i + 1)..n
                    BY <3>1, <1>1, <1>2 DEF OccursAt
                <5> QED
                    BY <5>1, <1>2
            <4>2. j \in 0..Len(w)
                BY <1>1
            <4>3. PICK u \in Seq(Elements) : u = Left(w, v, m, Elements, j)
                BY <4>2, <1>3, LeftFacts
            <4>4. Left(w, v, m, Elements, i) = Then(m, Left(w, v, m, Elements, i + Len(v)))
                BY <3>1, <2>3, <1>3, LeftFound
            <4>5. OccursAt(z, v, i)
                BY <3>1, <2>1, <1>7
            <4>6. Left(z, v, m, Elements, i) = Then(m, Left(z, v, m, Elements, i + Len(v)))
                BY <4>5, <2>3, <1>3, LeftFound
            <4>7. Then(Then(m, u), o) = Then(m, Then(u, o))
                BY ThenThen
            <4> QED
                BY <4>1, <4>3, <4>4, <4>6, <4>7, <2>2
        <3>2. CASE ~OccursAt(w, v, i)
            <4>1. PICK j \in (i + 1)..n : j = i + 1
                <5>1. i + 1 \in (i + 1)..n
                    BY <2>1
                <5> QED
                    BY <5>1
            <4>2. j \in 0..Len(w) /\ i + 1 \in 1..n
                BY <4>1, <1>1
            <4>3. PICK u \in Seq(Elements) : u = Left(w, v, m, Elements, j)
                BY <4>2, <1>3, LeftFacts
            <4>4. Left(w, v, m, Elements, i) = Then(<<w[i + 1]>>, Left(w, v, m, Elements, i + 1))
                BY <3>2, <2>3, <1>3, LeftPlain
            <4>5. ~OccursAt(z, v, i)
                BY <3>2, <2>1, <1>7
            <4>6. Left(z, v, m, Elements, i) = Then(<<z[i + 1]>>, Left(z, v, m, Elements, i + 1))
                BY <4>5, <2>3, <1>3, LeftPlain
            <4>7. z[i + 1] = w[i + 1]
                BY <4>2, <1>6
            <4>8. PICK c \in Seq(Elements) : c = <<w[i + 1]>>
                <5>1. w[i + 1] \in Elements
                    BY <4>2, <1>1
                <5>2. <<w[i + 1]>> \in Seq(Elements)
                    BY <5>1
                <5> QED
                    BY <5>2
            <4>9. Then(Then(c, u), o) = Then(c, Then(u, o))
                BY ThenThen
            <4>10. Left(z, v, m, Elements, j) = Then(u, o)
                BY <4>3, <2>2
            <4>11. Left(z, v, m, Elements, i) = Then(c, Then(u, o))
                BY <4>1, <4>6, <4>7, <4>8, <4>10
            <4>12. Left(w, v, m, Elements, i) = Then(c, u)
                BY <4>1, <4>3, <4>4, <4>8
            <4> QED
                BY <4>9, <4>11, <4>12
        <3> QED
            BY <3>1, <3>2
    <2>5. ASSUME NEW j \in (n - d)..n
          PROVE  Left(z, v, m, Elements, j) = Then(Left(w, v, m, Elements, j), o)
        <3>1. CASE j = i
            BY <3>1, <2>4
        <3>2. CASE j # i
            <4>1. j \in (i + 1)..n
                BY <3>2, <2>1
            <4> QED
                BY <4>1, <2>2
        <3> QED
            BY <3>1, <3>2
    <2> QED
        BY <2>5, <1>8
<1>11. \A d \in 0..n : d \in T
    BY <1>9, <1>10, BoundedInduction
<1>12. Left(z, v, m, Elements, 0) = Then(Left(w, v, m, Elements, 0), o)
    <2>1. n \in T /\ 0 \in (n - n)..n
        BY <1>11
    <2> QED
        BY <2>1, <1>8
<1>13. Left(z, v, m, Elements, 0) = Replaced(z, v, m)
    BY <1>3, LeftFacts
<1>14. Left(w, v, m, Elements, 0) = Replaced(w, v, m)
    BY <1>3, LeftFacts
<1> QED
    BY <1>4, <1>5, <1>12, <1>13, <1>14

\* Nor does it in the redaction of bytes that are taken as they are.
LEMMA RedactZero ==
    ASSUME NEW s \in Seq(Elements), NEW z \in Seq(Elements), z = Then(s, <<Zero>>),
           NormalizeUTF8(s) = s, NormalizeUTF8(z) = z
    PROVE  Redact(z) = Then(Redact(s), <<Zero>>)
<1>1. PICK N \in Nat : N = Len(Entries)
    BY EntriesFacts
<1>2. PICK f : Chain(s, f) /\ Redact(s) = f[Len(Entries)]
    BY RedactChain
<1>3. PICK g : Chain(z, g) /\ Redact(z) = g[Len(Entries)]
    BY RedactChain
<1>4. PICK T : T = {n \in 0..N : g[n] = Then(f[n], <<Zero>>)}
    OBVIOUS
<1>5. 0 \in T
    BY <1>2, <1>3, <1>4 DEF Chain
<1>6. ASSUME NEW n \in 1..N, n - 1 \in T PROVE n \in T
    <2>1. PICK u \in Seq(Elements) : u = f[n - 1]
        <3>1. n - 1 \in 0..N /\ f \in [0..N -> Seq(Elements)]
            BY <1>1, <1>2 DEF Chain
        <3>2. f[n - 1] \in Seq(Elements)
            BY <3>1
        <3> QED
            BY <3>2
    <2>2. PICK v \in Seq(Symbols) : v = Value[Entries[n]] /\ v # <<>>
        BY <1>1, EntryFacts
    <2>3. PICK m \in Seq(Elements) : m = Marker(Entries[n])
        BY <1>1, EntryFacts, MarkerFacts
    <2>4. f[n] = Replaced(u, v, m)
        BY <2>1, <2>2, <2>3, <1>1, <1>2 DEF Chain
    <2>5. g[n - 1] = Then(u, <<Zero>>)
        BY <2>1, <1>4, <1>6
    <2>6. g[n] = Replaced(Then(u, <<Zero>>), v, m)
        BY <2>2, <2>3, <2>5, <1>1, <1>3 DEF Chain
    <2>7. g[n] = Then(f[n], <<Zero>>)
        <3>1. Replaced(Then(u, <<Zero>>), v, m) = Then(Replaced(u, v, m), <<Zero>>)
            BY <2>2, ReplacedZero
        <3> QED
            BY <3>1, <2>4, <2>6, Zenon
    <2> QED
        BY <2>7, <1>4
<1>7. \A n \in 0..N : n \in T
    BY <1>5, <1>6, BoundedInduction
<1>8. N \in T
    BY <1>7
<1> QED
    BY <1>1, <1>2, <1>3, <1>4, <1>8

\* One symbol of UTF-16, too little to be decoded, may be emitted in two parts.
LEMMA HalfInTwo ==
    ASSUME NEW c \in Symbols, NEW d, d = <<c, Zero>>
    PROVE  InTwo(d)
<1>1. c \in Elements /\ Zero \in Elements
    BY ElementFacts
<1>2. PICK o \in Seq(Elements) : o = <<Zero>> /\ Len(o) = 1 /\ o[1] = Zero
    <2>1. <<Zero>> \in Seq(Elements)
        BY <1>1
    <2> QED
        BY <2>1
<1>3. PICK y \in Seq(Symbols) : y = <<c>> /\ Len(y) = 1 /\ y[1] = c
    <2>1. <<c>> \in Seq(Symbols)
        OBVIOUS
    <2> QED
        BY <2>1
<1>4. PICK e \in Seq(Elements) : e = <<>> /\ e \in Seq(Symbols) /\ Len(e) = 0
    <2>1. <<>> \in Seq(Elements) /\ <<>> \in Seq(Symbols) /\ Len(<<>>) = 0
        OBVIOUS
    <2> QED
        BY <2>1
<1>5. d \in Seq(Elements) /\ Len(d) = 2 /\ d[1] = c /\ d[2] = Zero
    BY <1>1
<1>6. y \in Seq(Elements) /\ d = Then(y, o) /\ o = Then(e, o)
    <2>1. y \in Seq(Elements)
        BY ElementFacts
    <2>2. PICK z \in Seq(Elements) : z = Then(y, o)
        BY <2>1, ThenFacts
    <2>3. Len(z) = Len(y) + Len(o) /\ \A i \in 1..Len(y) : z[i] = y[i]
        BY <2>1, <2>2, ThenAt
    <2>4. 1 \in 1..Len(o) /\ 1 \in 1..Len(y)
        BY <1>2, <1>3
    <2>5. z[Len(y) + 1] = o[1]
        BY <2>1, <2>2, <2>4, ThenBehind
    <2>6. Len(z) = 2 /\ z[1] = c /\ z[2] = Zero
        BY <2>3, <2>4, <2>5, <1>2, <1>3
    <2>7. \A i \in 1..Len(d) : z[i] = d[i]
        BY <2>6, <1>5
    <2>8. z = d
        BY <2>6, <2>7, <1>5, SameSequence
    <2>9. Then(<<>>, o) = o
        BY ThenFacts
    <2> QED
        BY <2>1, <2>2, <2>8, <2>9, <1>4
<1>7. NormalizeUTF8(d) = d
    <2>1. /\ ~IsPrefix(Mark.utf8bom, d) /\ ~IsPrefix(Mark.utf16lebom, d)
          /\ ~IsPrefix(Mark.utf16bebom, d)
        BY <1>5, NoMark
    <2>2. ~LooksUTF16LE(d)
        BY <1>5 DEF LooksUTF16LE
    <2> QED
        BY <2>1, <2>2 DEF NormalizeUTF8
<1>8. NormalizeUTF8(o) = o
    <2>1. /\ ~IsPrefix(Mark.utf8bom, o) /\ ~IsPrefix(Mark.utf16lebom, o)
          /\ ~IsPrefix(Mark.utf16bebom, o)
        <3>1. Len(Mark.utf8bom) = 3 /\ Len(Mark.utf16lebom) = 2 /\ Len(Mark.utf16bebom) = 2
            BY MarkFacts
        <3> QED
            BY <3>1, <1>2 DEF IsPrefix
    <2>2. ~LooksUTF16LE(o)
        BY <1>2 DEF LooksUTF16LE
    <2> QED
        BY <2>1, <2>2 DEF NormalizeUTF8
<1>9. NormalizeUTF8(y) = y /\ NormalizeUTF8(e) = e
    BY <1>4, NormalizeText
<1>10. Redact(d) = Then(Redact(y), o)
    BY <1>2, <1>5, <1>6, <1>7, <1>9, RedactZero
<1>11. Redact(o) = Then(Redact(e), o)
    BY <1>2, <1>4, <1>6, <1>8, <1>9, RedactZero
<1>12. Redact(e) = e /\ Redactions(e) = 0
    <2>1. PICK f : Chain(e, f) /\ Redact(e) = f[Len(Entries)]
        BY <1>4, <1>9, RedactChain
    <2>2. PICK N \in Nat : N = Len(Entries)
        BY EntriesFacts
    <2>3. PICK T : T = {n \in 0..N : f[n] = e}
        OBVIOUS
    <2>4. 0 \in T
        BY <2>1, <2>3 DEF Chain
    <2>5. ASSUME NEW n \in 1..N, n - 1 \in T PROVE n \in T
        <3>1. PICK v \in Seq(Elements) : v = Value[Entries[n]] /\ v # <<>>
            BY <2>2, EntryFacts
        <3>2. PICK m \in Seq(Elements) : m = Marker(Entries[n])
            BY <2>2, EntryFacts, MarkerFacts
        <3>3. f[n] = Replaced(e, v, m)
            BY <3>1, <3>2, <2>1, <2>2, <2>3, <2>5 DEF Chain
        <3>4. Left(e, v, m, Elements, 0) = Replaced(e, v, m)
            BY <3>1, LeftFacts
        <3>5. Left(e, v, m, Elements, Len(e)) = <<>>
            BY <3>1, LeftFacts
        <3>6. Len(e) = 0
            BY <1>4
        <3> QED
            BY <3>3, <3>4, <3>5, <3>6, <2>3, <1>4
    <2>6. \A n \in 0..N : n \in T
        BY <2>4, <2>5, BoundedInduction
    <2>7. Redact(e) = e
        BY <2>1, <2>2, <2>3, <2>6
    <2>8. Redactions(e) = Cardinality(Begins(e))
        BY <2>7, RedactionsCount
    <2>9. Begins(e) = {}
        BY <1>4 DEF Begins
    <2> QED
        BY <2>7, <2>8, <2>9, FS_EmptySet
<1>13. /\ Redact(y) \in Seq(Elements) /\ Redact(o) = o
       /\ Redact(d) = Then(Redact(y), Redact(o))
    BY <1>4, <1>6, <1>10, <1>11, <1>12, RedactType
<1>14. Redactions(d) = Redactions(y) + Redactions(o)
    <2>1. /\ Redactions(d) = Cardinality(Begins(Redact(d)))
          /\ Redactions(y) = Cardinality(Begins(Redact(y)))
          /\ Redactions(o) = Cardinality(Begins(Redact(o)))
        BY <1>5, <1>6, RedactionsCount
    <2>2. PICK q \in Seq(Elements) : q = Redact(y)
        BY <1>13
    <2>3. Cardinality(Begins(Then(q, o))) = Cardinality(Begins(q)) + Cardinality(Begins(o))
        BY BeginsThen
    <2> QED
        BY <2>1, <2>2, <2>3, <1>13
<1>15. Redact(d) \in Seq(Elements) /\ Redactions(d) \in Nat
    BY <1>5, RedactType, RedactionsCount
<1>16. Then(e, Redact(d)) = Redact(d) /\ Then(Redact(d), e) = Redact(d)
    BY <1>4, <1>15, ThenFacts
<1>17. /\ Part(d, 0, 0) = e /\ Part(d, 0, 2) = d /\ Part(d, 2, 2) = e
       /\ Part(d, 0, 1) = y /\ Part(d, 1, 2) = o
    <2>1. Part(d, 0, Len(d)) = d /\ Part(d, Len(d), Len(d)) = <<>> /\ Part(d, 0, 0) = <<>>
        BY <1>5, PartAll
    <2>2. PICK a \in Nat, b \in Nat, l \in Nat : a = 0 /\ b = 1 /\ l = 2
        OBVIOUS
    <2>3. a <= b /\ b <= l /\ b <= Len(d) /\ l <= Len(d) /\ b - a = 1 /\ l - b = 1 /\ a + 1 = 1
          /\ b + 1 = 2
        BY <2>2, <1>5
    <2>4. PICK g \in Seq(Elements) : g = Part(d, a, b)
        BY <2>3, <1>5, PartFacts
    <2>5. PICK h \in Seq(Elements) : h = Part(d, b, l)
        BY <2>3, <1>5, PartFacts
    <2>6. 1 \in 1..(b - a) /\ 1 \in 1..(l - b)
        BY <2>3
    <2>7. Len(g) = 1 /\ g[1] = c
        <3>1. Len(Part(d, a, b)) = b - a
            BY <2>3, <1>5, PartLen
        <3>2. Part(d, a, b)[1] = d[a + 1]
            BY <2>3, <2>6, <1>5, PartAt
        <3> QED
            BY <3>1, <3>2, <2>3, <2>4, <1>5
    <2>8. Len(h) = 1 /\ h[1] = Zero
        <3>1. Len(Part(d, b, l)) = l - b
            BY <2>3, <1>5, PartLen
        <3>2. Part(d, b, l)[1] = d[b + 1]
            BY <2>3, <2>6, <1>5, PartAt
        <3> QED
            BY <3>1, <3>2, <2>3, <2>5, <1>5
    <2>9. g = y
        <3>1. Len(g) = Len(y) /\ \A i \in 1..Len(y) : g[i] = y[i]
            BY <2>7, <1>3
        <3> QED
            BY <3>1, <1>6, SameSequence
    <2>10. h = o
        <3>1. Len(h) = Len(o) /\ \A i \in 1..Len(o) : h[i] = o[i]
            BY <2>8, <1>2
        <3> QED
            BY <3>1, SameSequence
    <2> QED
        BY <2>1, <2>2, <2>4, <2>5, <2>9, <2>10, <1>4, <1>5
<1>18. Due(d) = 0 \/ Due(d) = 1 \/ Due(d) = 2
    <2>1. Due(d) \in 0..2
        BY <1>5, DueFacts
    <2> QED
        BY <2>1
<1>19. CASE Due(d) = 0
    <2>1. Part(d, 0, Due(d)) = e /\ Part(d, Due(d), Len(d)) = d
        BY <1>5, <1>17, <1>19
    <2>2. Redact(d) = Then(Redact(e), Redact(d)) /\ Redactions(d) = Redactions(e) + Redactions(d)
        BY <1>12, <1>15, <1>16
    <2> QED
        BY <2>1, <2>2, Zenon DEF InTwo
<1>20. CASE Due(d) = 1
    <2>1. Part(d, 0, Due(d)) = y /\ Part(d, Due(d), Len(d)) = o
        BY <1>5, <1>17, <1>20
    <2> QED
        BY <2>1, <1>13, <1>14, Zenon DEF InTwo
<1>21. CASE Due(d) = 2
    <2>1. Part(d, 0, Due(d)) = d /\ Part(d, Due(d), Len(d)) = e
        BY <1>5, <1>17, <1>21
    <2>2. Redact(d) = Then(Redact(d), Redact(e)) /\ Redactions(d) = Redactions(d) + Redactions(e)
        BY <1>12, <1>15, <1>16
    <2> QED
        BY <2>1, <2>2, Zenon DEF InTwo
<1> QED
    BY <1>18, <1>19, <1>20, <1>21

\* UTF-8 without a mark is text.
LEMMA PlainText ==
    ASSUME NEW e \in Encodings, NEW t \in Seq(Symbols), NEW b, Begun(b, e, t), e = "utf8"
    PROVE  b \in Seq(Symbols)
<1>1. PICK g \in Nat : g = Len(b) /\ b \in Seq(Elements)
    BY DEF Begun
<1>2. Offset(e) = 0 /\ ~Wide(e)
    BY DEF Offset, Wide
<1>3. Len(b) = Offset(e) + g /\ 0 \in Nat /\ 0 <= g
    BY <1>1, <1>2
<1>4. g <= Len(t) /\ Part(b, Offset(e) + 0, Len(b)) = Part(t, 0, g)
    BY <1>2, <1>3, PlainPart
<1>5. Part(b, 0, Len(b)) = b
    BY <1>1, PartAll
<1>6. Part(t, 0, g) \in Seq(Symbols)
    BY <1>3, <1>4, PartFacts
<1>7. Offset(e) + 0 = 0
    BY <1>2
<1> QED
    BY <1>4, <1>5, <1>6, <1>7

\* What is too little to decide what the encoding is may be emitted in two parts.
LEMMA UndecidedInTwo ==
    ASSUME ValuesApart, NEW e \in Encodings, NEW t \in Seq(Symbols), NEW b, b = In(e, t),
           b # <<>>, ~(Len(b) >= Enough(e, TRUE))
    PROVE  InTwo(b)
<1>1. Begun(b, e, t) /\ b \in Seq(Elements)
    BY InBegun, InAt
<1>2. PICK n \in Nat : n = Len(t)
    OBVIOUS
<1>3. PICK o \in Nat : o = Offset(e)
    BY EncodingCases
<1>4. ~Wide(e) => Len(b) = o + n
    BY <1>2, <1>3, TextLength
<1>5. Wide(e) => Len(b) = o + 2 * n + 0
    BY <1>2, <1>3, TextLength
<1>6. e \in {"utf8", "utf8bom", "utf16le", "utf16lebom", "utf16bebom"}
    BY EncodingCases
<1>7. CASE e \in {"utf8bom", "utf16lebom", "utf16bebom"}
    <2>1. Enough(e, TRUE) = o
        BY <1>3, <1>7, Zenon DEF Enough
    <2>2. Len(b) >= o
        BY <1>4, <1>5
    <2> QED
        BY <2>1, <2>2
<1>8. CASE e = "utf8"
    <2>1. b \in Seq(Symbols)
        BY <1>1, <1>8, PlainText
    <2> QED
        BY <2>1, TextInTwo
<1>9. CASE e = "utf16le"
    <2>1. Wide(e) /\ Enough(e, TRUE) = 4 /\ o = 0 /\ Decoder(e) = "le" /\ Width(e) = 2
        BY <1>3, <1>9 DEF Wide, Enough, Offset, Decoder, Width
    <2>2. Len(b) = 2 * n /\ Len(b) # 0 /\ ~(Len(b) >= 4)
        <3>1. Len(b) # 0
            BY <1>1
        <3>2. Len(b) = 2 * n
            BY <2>1, <1>5
        <3> QED
            BY <3>1, <3>2, <2>1
    <2>3. n = 1
        BY <2>2
    <2>4. 1 \in 1..Len(t)
        BY <2>3, <1>2
    <2>5. PICK c \in Symbols : c = t[1]
        BY <2>4
    <2>6. /\ In(e, t)[Offset(e) + (2 * 1 - 1)] = t[1]
          /\ In(e, t)[Offset(e) + 2 * 1] = Zero
        BY <2>1, <2>4, InAt
    <2>7. b[1] = c /\ b[2] = Zero /\ Len(b) = 2
        BY <2>1, <2>2, <2>3, <2>5, <2>6, <1>3
    <2>8. b = <<c, Zero>>
        <3>1. c \in Elements /\ Zero \in Elements
            BY ElementFacts
        <3>2. PICK a \in Seq(Elements) : a = <<c, Zero>> /\ Len(a) = 2 /\ a[1] = c /\ a[2] = Zero
            <4>1. <<c, Zero>> \in Seq(Elements)
                BY <3>1
            <4> QED
                BY <4>1
        <3>3. \A i \in 1..Len(a) : b[i] = a[i]
            BY <3>2, <2>7
        <3>4. Len(b) = Len(a)
            BY <3>2, <2>7
        <3> QED
            BY <3>2, <3>3, <3>4, <1>1, SameSequence
    <2> QED
        BY <2>8, HalfInTwo
<1> QED
    BY <1>6, <1>7, <1>8, <1>9

\* The last bytes are decoded and everything is emitted.
LEMMA FinalFlush ==
    ASSUME NEW d \in Seq(Elements), count \in Nat, broken = FALSE, Flush(d, TRUE)
    PROVE  /\ count' \in Nat /\ broken' \in BOOLEAN
           /\ ~broken' => /\ tail' = <<>>
                          /\ d = <<>> => out' = out /\ count' = count
                          /\ d # <<>> /\ out \in Seq(Elements) /\ InTwo(d) =>
                                 /\ out' = out \o Redact(d)
                                 /\ count' = count + Redactions(d)
<1>1. PICK p \in Nat : p = Due(d) /\ p <= Len(d)
    BY DueFacts
<1>2. PICK x \in Seq(Elements) : x = Part(d, 0, p)
    <2>1. 0 \in Nat /\ 0 <= p
        OBVIOUS
    <2> QED
        BY <2>1, <1>1, PartFacts
<1>3. PICK y \in Seq(Elements) : y = Part(d, p, Len(d))
    <2>1. Len(d) \in Nat /\ Len(d) <= Len(d)
        OBVIOUS
    <2> QED
        BY <2>1, <1>1, PartFacts
<1>4. SubSeq(d, 1, Due(d)) = x /\ SubSeq(d, Due(d) + 1, Len(d)) = y
    BY <1>1, <1>2, <1>3 DEF Part
<1>5. Redactions(x) \in Nat /\ Redactions(y) \in Nat
    BY RedactionsCount
<1>6. PICK q \in Seq(Elements) : q = Redact(x)
    BY RedactType
<1>7. PICK r \in Seq(Elements) : r = Redact(y)
    BY RedactType
<1>8. CASE d = <<>>
    BY <1>8 DEF Flush, Hold
<1>9. CASE d # <<>>
    <2>1. EmitAll(d)
        BY <1>9 DEF Flush
    <2>2. \/ /\ out' = out \o q \o r /\ count' = count + Redactions(x) + Redactions(y)
             /\ tail' = <<>> /\ broken' = broken
          \/ broken' = TRUE /\ count' = count
          \/ broken' = TRUE /\ count' = count + Redactions(x)
        BY <2>1, <1>4, <1>6, <1>7 DEF EmitAll
    <2>3. CASE /\ out' = out \o q \o r /\ count' = count + Redactions(x) + Redactions(y)
               /\ tail' = <<>> /\ broken' = broken
        <3>1. count' \in Nat
            BY <2>3, <1>5
        <3>2. broken' \in BOOLEAN
            BY <2>3
        <3>3. ASSUME out \in Seq(Elements), InTwo(d)
              PROVE  out' = out \o Redact(d) /\ count' = count + Redactions(d)
            <4>1. Redact(d) = Then(q, r) /\ Redactions(d) = Redactions(x) + Redactions(y)
                BY <3>3, <1>1, <1>2, <1>3, <1>6, <1>7 DEF InTwo
            <4>2. Then(Then(out, q), r) = Then(out, Then(q, r))
                BY <3>3, ThenThen
            <4>3. out' = out \o Redact(d)
                BY <4>1, <4>2, <2>3, Zenon DEF Then
            <4>4. count' = count + Redactions(d)
                BY <4>1, <2>3, <1>5
            <4> QED
                BY <4>3, <4>4
        <3> QED
            BY <3>1, <3>2, <3>3, <2>3, <1>9, Zenon
    <2>4. CASE broken' = TRUE /\ count' = count
        BY <2>4
    <2>5. CASE broken' = TRUE /\ count' = count + Redactions(x)
        BY <2>5, <1>5
    <2> QED
        BY <2>2, <2>3, <2>4, <2>5, Zenon
<1> QED
    BY <1>8, <1>9

\* When all of the text is decoded and emitted the whole is redacted.
LEMMA FinalWhole ==
    ASSUME NEW t \in Seq(Symbols), NEW c \in Nat, NEW k \in Nat, c <= k, k <= Len(t),
           Streaming(t, k, c, tail, out, count), count \in Nat, broken = FALSE,
           Flush(tail \o Part(t, k, Len(t)), TRUE), ~broken', ValuesApart
    PROVE  out' = Redact(t) /\ count' = Redactions(t)
<1>1. PICK n \in Nat : n = Len(t) /\ k <= n /\ c <= n
    OBVIOUS
<1>2. k <= n /\ n <= Len(t) /\ c <= n /\ 0 \in Nat /\ 0 <= n /\ 0 <= c
    BY <1>1
<1>3. PICK d \in Seq(Symbols) : d = Part(t, c, n)
    BY <1>2, PartFacts
<1>4. tail \o Part(t, k, n) = d
    BY <1>2, <1>3, Grown, SMTT(30)
<1>5. Apart(Part(t, 0, n), c)
    BY <1>2, Grown
<1>6. n <= n
    OBVIOUS
<1>7. Redact(Part(t, 0, n)) = Then(Redact(Part(t, 0, c)), Redact(Part(t, c, n)))
    BY <1>2, <1>5, <1>6, RedactJoin
<1>8. Redactions(Part(t, 0, n)) = Redactions(Part(t, 0, c)) + Redactions(Part(t, c, n))
    BY <1>2, <1>5, <1>6, RedactJoin
<1>9. out = Redact(Part(t, 0, c)) /\ count = Redactions(Part(t, 0, c))
    BY DEF Streaming
<1>10. Part(t, 0, n) = t
    BY <1>1, PartAll
<1>11. d \in Seq(Elements)
    BY ElementFacts
<1>12. Flush(d, TRUE)
    BY <1>1, <1>4
<1>13. CASE d # <<>>
    <2>1. out' = out \o Redact(d) /\ count' = count + Redactions(d)
        <3>1. Part(t, 0, c) \in Seq(Symbols)
            <4>1. 0 \in Nat /\ 0 <= c /\ c <= Len(t)
                BY <1>2
            <4> QED
                BY <4>1, PartFacts
        <3>2. out \in Seq(Elements)
            BY <3>1, <1>9, RedactText
        <3>3. InTwo(d)
            BY TextInTwo
        <3> QED
            BY <3>2, <3>3, <1>11, <1>12, <1>13, FinalFlush
    <2>2. out' = Redact(t)
        BY <2>1, <1>3, <1>7, <1>9, <1>10, Zenon DEF Then
    <2>3. count' = Redactions(t)
        BY <2>1, <1>3, <1>8, <1>9, <1>10
    <2> QED
        BY <2>2, <2>3
<1>14. CASE d = <<>>
    <2>1. out' = out /\ count' = count
        BY <1>11, <1>12, <1>14, FinalFlush
    <2>2. c = n
        <3>1. Len(d) = n - c
            BY <1>2, <1>3, PartLen
        <3> QED
            BY <3>1, <1>2, <1>14
    <2> QED
        BY <2>1, <2>2, <1>9, <1>10
<1> QED
    BY <1>13, <1>14

\* Half a unit is one element, or none when there is none.
LEMMA HalvesFacts ==
    ASSUME NEW y \in Seq(Elements), NEW h \in Nat, NEW r \in {0, 1}, Len(y) = 2 * h + r,
           NEW half \in Halves(y)
    PROVE  half \in Seq(Elements) /\ (r = 0 => half = <<>>)
<1>1. CASE r = 0
    <2>1. Len(y) % 2 = 0
        BY <1>1
    <2>2. half = <<>>
        BY <2>1 DEF Halves
    <2> QED
        BY <2>2
<1>2. CASE r = 1
    <2>1. Len(y) \in 1..Len(y)
        BY <1>2
    <2>2. y[Len(y)] \in Elements /\ Lost \in Elements
        BY <2>1, ElementFacts
    <2>3. <<y[Len(y)]>> \in Seq(Elements) /\ <<Lost>> \in Seq(Elements) /\ <<>> \in Seq(Elements)
        BY <2>2
    <2>4. Last(y) = y[Len(y)]
        BY DEF Last
    <2>5. half \in {<<>>, <<Lost>>, <<Last(y)>>}
        BY DEF Halves
    <2>6. half = <<>> \/ half = <<Lost>> \/ half = <<y[Len(y)]>>
        BY <2>4, <2>5, Zenon
    <2>7. half \in Seq(Elements)
        BY <2>3, <2>6, Zenon
    <2> QED
        BY <2>7, <1>2
<1> QED
    BY <1>1, <1>2

\* The last of the bytes are decoded.
LEMMA DecodeLast ==
    ASSUME NEW e \in Encodings, NEW t \in Seq(Symbols), NEW b, Begun(b, e, t),
           NEW c \in Nat, NEW k \in Nat, c <= k, Spot(e, k) <= Len(b),
           Len(b) >= Enough(e, TRUE),
           Streaming(t, k, c, tail, out, count), count \in Nat, broken = FALSE,
           Decode(Part(b, Spot(e, k), Len(b)), Decoder(e), TRUE)
    PROVE  /\ count' \in Nat /\ broken' \in BOOLEAN
           /\ ~broken' => /\ tail' = <<>> /\ pending' = <<>>
                          /\ ValuesApart /\ b = In(e, t) =>
                                out' = Redact(b) /\ count' = Redactions(b)
<1>1. PICK g \in Nat, r \in {0, 1} : k <= g /\ g <= Len(t) /\ Holds(b, e, g, r)
    BY HoldsExists
<1>2. k <= g /\ g <= Len(t) /\ Len(b) = Offset(e) + Width(e) * g + r
    BY <1>1 DEF Holds
<1>3. b \in Seq(Elements)
    BY DEF Begun
<1>4. PICK d \in Seq(Elements) : d = tail \o Part(t, k, g)
    <2>1. Part(t, c, g) \in Seq(Symbols) /\ tail \o Part(t, k, g) = Part(t, c, g)
        BY <1>2, Grown
    <2> QED
        BY <2>1, ElementFacts
<1>5. ASSUME b = In(e, t) PROVE g = Len(t) /\ r = 0
    <2>1. PICK o \in Nat : o = Offset(e)
        BY EncodingCases
    <2>2. PICK n \in Nat : n = Len(t)
        OBVIOUS
    <2>3. CASE Wide(e)
        <3>1. Len(b) = o + 2 * n + 0
            BY <2>1, <2>2, <2>3, <1>5, TextLength
        <3>2. Len(b) = o + 2 * g + r
            BY <2>1, <2>3, <1>2 DEF Width
        <3> QED
            BY <3>1, <3>2, <2>2
    <2>4. CASE ~Wide(e)
        <3>1. Len(b) = o + n
            BY <2>1, <2>2, <2>4, <1>5, TextLength
        <3>2. Len(b) = o + 1 * g + r /\ r = 0
            BY <2>1, <2>4, <1>1, <1>2 DEF Width, Holds
        <3> QED
            BY <3>1, <3>2, <2>2
    <2> QED
        BY <2>3, <2>4
<1>6. ASSUME ValuesApart, b = In(e, t), out' = Redact(t), count' = Redactions(t)
      PROVE  out' = Redact(b) /\ count' = Redactions(b)
    <2>1. e # "utf16le" \/ Len(t) >= 2
        <3>1. ASSUME e = "utf16le" PROVE Len(t) >= 2
            <4>1. Wide(e) /\ Offset(e) = 0 /\ Enough(e, TRUE) = 4
                BY <3>1 DEF Wide, Offset, Enough
            <4>2. PICK o \in Nat : o = Offset(e)
                BY EncodingCases
            <4>3. PICK n \in Nat : n = Len(t)
                OBVIOUS
            <4>4. Len(b) = o + 2 * n + 0
                BY <4>1, <4>2, <4>3, <1>6, TextLength
            <4>5. Len(b) >= 4 /\ o = 0
                BY <4>1, <4>2
            <4>6. n >= 2
                BY <4>4, <4>5
            <4> QED
                BY <4>3, <4>6
        <3> QED
            BY <3>1
    <2>2. NormalizeUTF8(b) = t
        BY <2>1, <1>6, NormalizeEncoded
    <2>3. Redact(b) = Whole(t, Len(Entries)) /\ Redact(t) = Whole(t, Len(Entries))
        BY <2>2, <1>6, RedactPieces, RedactText
    <2>4. t \in Seq(Elements)
        BY ElementFacts
    <2>5. Redactions(b) = Redactions(t)
        BY <2>3, <2>4, <1>3, RedactionsCount
    <2> QED
        BY <2>3, <2>5, <1>6
<1>7. ASSUME NEW half \in Seq(Elements), b = In(e, t) => half = <<>>,
             Flush(d \o half, TRUE), ~broken' => pending' = <<>>
      PROVE  /\ count' \in Nat /\ broken' \in BOOLEAN
             /\ ~broken' => /\ tail' = <<>> /\ pending' = <<>>
                            /\ ValuesApart /\ b = In(e, t) =>
                                  out' = Redact(b) /\ count' = Redactions(b)
    <2>1. PICK f \in Seq(Elements) : f = d \o half
        <3>1. d \o half \in Seq(Elements)
            BY <1>7
        <3> QED
            BY <3>1
    <2>2. count' \in Nat /\ broken' \in BOOLEAN /\ (~broken' => tail' = <<>>)
        BY <2>1, <1>7, FinalFlush
    <2>3. ASSUME ~broken', ValuesApart, b = In(e, t)
          PROVE  out' = Redact(b) /\ count' = Redactions(b)
        <3>1. Then(d, half) = d
            BY <2>3, <1>7, ThenFacts
        <3>2. d \o half = d
            BY <3>1, Zenon DEF Then
        <3>3. g = Len(t)
            BY <2>3, <1>5
        <3>4. Flush(tail \o Part(t, k, Len(t)), TRUE)
            BY <3>2, <3>3, <1>4, <1>7
        <3>5. k <= Len(t)
            BY <3>3, <1>2
        <3>6. out' = Redact(t) /\ count' = Redactions(t)
            BY <3>4, <3>5, <2>3, FinalWhole
        <3> QED
            BY <3>6, <2>3, <1>6
    <2> QED
        BY <2>2, <2>3, <1>7
<1>8. CASE Wide(e)
    <2>1. Spot(e, k) = Offset(e) + 2 * k /\ Len(b) = Offset(e) + 2 * g + r
        BY <1>2, <1>8, SpotFacts DEF Width
    <2>2. PICK y \in Seq(Elements) :
              /\ y = Part(b, Offset(e) + 2 * k, Len(b))
              /\ Units(Decoder(e), y) = Part(t, k, g)
              /\ After(y, Len(Even(y))) = Part(b, Offset(e) + 2 * g, Len(b))
        BY <2>1, <1>2, <1>8, WidePart
    <2>3. Decoder(e) \in {"le", "be"}
        BY <1>8 DEF Wide, Decoder
    <2>4. Part(b, Spot(e, k), Len(b)) = y
        BY <2>1, <2>2
    <2>5. PICK half \in Halves(y) : Flush(tail \o Units(Decoder(e), y) \o half, TRUE)
        BY <2>3, <2>4 DEF Decode
    <2>6. pending' = IF broken' THEN y ELSE <<>>
        BY <2>3, <2>4 DEF Decode
    <2>7. Flush(d \o half, TRUE)
        BY <2>2, <2>5, <1>4
    <2>8. PICK h \in Nat : h = g - k /\ Len(y) = 2 * h + r
        <3>1. PICK o \in Nat : o = Offset(e)
            BY EncodingCases
        <3>2. PICK h \in Nat : h = g - k
            <4>1. g - k \in Nat
                BY <1>2
            <4> QED
                BY <4>1
        <3>3. PICK w \in Nat : w = o + 2 * k
            <4>1. o + 2 * k \in Nat
                OBVIOUS
            <4> QED
                BY <4>1
        <3>4. PICK l \in Nat : l = Len(b)
            BY <1>3
        <3>5. w <= l /\ l - w = 2 * h + r /\ l <= Len(b)
            <4>1. l = o + 2 * g + r
                BY <3>1, <3>4, <2>1
            <4>2. g = k + h
                BY <3>2
            <4>3. l = w + 2 * h + r
                BY <4>1, <4>2, <3>3
            <4>4. l <= Len(b)
                BY <3>4
            <4>5. w <= l /\ l - w = 2 * h + r
                BY <4>3
            <4> QED
                BY <4>4, <4>5
        <3>6. y = Part(b, w, l)
            BY <3>1, <3>3, <3>4, <2>2
        <3>7. Len(Part(b, w, l)) = l - w
            BY <3>5, <1>3, PartLen
        <3>8. Len(y) = 2 * h + r
            BY <3>5, <3>6, <3>7
        <3> QED
            BY <3>2, <3>8
    <2>9. half \in Seq(Elements) /\ (r = 0 => half = <<>>)
        BY <2>8, HalvesFacts
    <2> QED
        BY <2>6, <2>7, <2>9, <1>5, <1>7
<1>9. CASE ~Wide(e)
    <2>1. Spot(e, k) = Offset(e) + k /\ r = 0 /\ Len(b) = Offset(e) + g
        <3>1. r = 0
            BY <1>1, <1>9 DEF Holds
        <3>2. Width(e) = 1 /\ Offset(e) \in Nat
            BY <1>9, EncodingCases DEF Width
        <3>3. Spot(e, k) = Offset(e) + k
            BY <1>9, SpotFacts
        <3> QED
            BY <3>1, <3>2, <3>3, <1>2
    <2>2. Part(b, Offset(e) + k, Len(b)) = Part(t, k, g)
        BY <2>1, <1>2, <1>9, PlainPart
    <2>3. Decoder(e) \notin {"le", "be"}
        BY <1>9, EncodingCases DEF Wide, Decoder
    <2>4. Flush(tail \o Part(b, Spot(e, k), Len(b)), TRUE) /\ pending' = <<>>
        BY <2>3 DEF Decode
    <2>5. PICK half \in Seq(Elements) : half = <<>>
        <3>1. <<>> \in Seq(Elements)
            OBVIOUS
        <3> QED
            BY <3>1
    <2>6. d \o half = d
        <3>1. Then(d, half) = d
            BY <2>5, ThenFacts
        <3> QED
            BY <3>1, Zenon DEF Then
    <2>7. Flush(d \o half, TRUE)
        BY <2>1, <2>2, <2>4, <2>6, <1>4
    <2> QED
        BY <2>4, <2>5, <2>7, <1>7
<1> QED
    BY <1>8, <1>9

Decoders == {"undecided", "utf8", "le", "be"}

\* Of the bytes b too few are there to tell the encoding.
Waiting(e, b, dec, bytes, held, emitted, n) ==
    /\ dec = "undecided" /\ Len(b) < Enough(e, FALSE) /\ bytes = b
    /\ held = <<>> /\ emitted = <<>> /\ n = 0

\* Of the bytes b of the text t all but half a unit are decoded.
Decoding(e, t, b, dec, bytes, held, emitted, n) ==
    /\ dec = Decoder(e) /\ Len(b) >= Enough(e, TRUE)
    /\ \E g \in 0..Len(t), r \in {0, 1} : \E m \in 0..g :
          /\ Holds(b, e, g, r) /\ bytes = Part(b, Spot(e, g), Len(b))
          /\ Streaming(t, g, m, held, emitted, n)

\* What is enough to decide includes the mark and is at most a sample.
LEMMA EnoughFacts ==
    ASSUME NEW e \in Encodings
    PROVE  /\ Enough(e, TRUE) \in Nat /\ Enough(e, FALSE) \in Nat
           /\ Enough(e, TRUE) <= Enough(e, FALSE) /\ Offset(e) <= Enough(e, TRUE)
           /\ Enough(e, FALSE) <= Sample
           /\ Decoder(e) \in Decoders /\ Decoder(e) # "undecided"
<1>1. e \in {"utf8", "utf8bom", "utf16lebom", "utf16bebom", "utf16le"}
    BY EncodingCases
<1>2. Sample \in Nat /\ Sample >= 4
    BY RedactionAssumption
<1>3. Decoder(e) \in Decoders /\ Decoder(e) # "undecided"
    BY <1>1 DEF Decoder, Decoders
<1>4. PICK x \in Nat, y \in Nat, o \in Nat :
          /\ x = Enough(e, TRUE) /\ y = Enough(e, FALSE) /\ o = Offset(e)
          /\ x <= y /\ o <= x /\ y <= Sample
    <2>1. CASE e \in {"utf8bom", "utf16lebom", "utf16bebom"}
        <3>1. PICK o \in Nat : o = Offset(e) /\ o <= 3
            BY EncodingCases
        <3>2. Enough(e, TRUE) = o /\ Enough(e, FALSE) = o
            BY <3>1, <2>1, Zenon DEF Enough
        <3>3. o <= o /\ o <= Sample
            BY <3>1, <1>2
        <3> QED
            BY <3>1, <3>2, <3>3, Zenon
    <2>2. CASE e \in {"utf8", "utf16le"}
        <3>1. Offset(e) = 0
            BY <2>2 DEF Offset
        <3>2. e \notin {"utf8bom", "utf16lebom", "utf16bebom"}
            BY <2>2
        <3>3. Enough(e, TRUE) = 4 /\ Enough(e, FALSE) = Sample
            BY <3>2, Zenon DEF Enough
        <3>4. 4 \in Nat /\ 0 \in Nat /\ 4 <= Sample /\ 0 <= 4 /\ Sample <= Sample
            BY <1>2
        <3> QED
            BY <3>1, <3>3, <3>4, <1>2, Zenon
    <2> QED
        BY <1>1, <2>1, <2>2
<1> QED
    BY <1>3, <1>4, Zenon

\* Write leaves the two writers with the text as far as it is there.
LEMMA DecodedWrite ==
    ASSUME NEW e \in Encodings, NEW t \in Seq(Symbols), NEW b, Begun(b, e, t),
           NEW a \in Nat, a <= Len(b), broken = FALSE, count \in Nat,
           \/ Waiting(e, Part(b, 0, a), decoder, pending, tail, out, count)
           \/ Decoding(e, t, Part(b, 0, a), decoder, pending, tail, out, count),
           Streamed(Part(b, a, Len(b)), FALSE)
    PROVE  /\ decoder' \in Decoders /\ count' \in Nat /\ broken' \in BOOLEAN
           /\ ~broken' => \/ Waiting(e, b, decoder', pending', tail', out', count')
                          \/ Decoding(e, t, b, decoder', pending', tail', out', count')
<1>1. b \in Seq(Elements) /\ Len(b) \in Nat
    BY DEF Begun
<1>2. PICK l \in Nat : l = Len(b) /\ a <= l /\ l <= Len(b)
    BY <1>1
<1>3. Len(Part(b, 0, a)) = a
    BY <1>1, PartLen
<1>4. ASSUME NEW k \in Nat, NEW c \in Nat, c <= k, Spot(e, k) <= Len(b),
             Streaming(t, k, c, tail, out, count), Len(b) >= Enough(e, TRUE),
             decoder' = Decoder(e), Decode(Part(b, Spot(e, k), Len(b)), Decoder(e), FALSE)
      PROVE  /\ decoder' \in Decoders /\ count' \in Nat /\ broken' \in BOOLEAN
             /\ ~broken' => Decoding(e, t, b, decoder', pending', tail', out', count')
    <2>1. /\ count' \in Nat /\ broken' \in BOOLEAN
          /\ ~broken' => \E g \in 0..Len(t), r \in {0, 1} : \E m \in 0..g :
                 /\ Holds(b, e, g, r) /\ pending' = Part(b, Spot(e, g), Len(b))
                 /\ Streaming(t, g, m, tail', out', count')
        BY <1>4, DecodeStep
    <2>2. decoder' \in Decoders
        BY <1>4, EnoughFacts
    <2> QED
        BY <2>1, <2>2, <1>4 DEF Decoding
<1>5. CASE Waiting(e, Part(b, 0, a), decoder, pending, tail, out, count)
    <2>1. /\ decoder = "undecided" /\ pending = Part(b, 0, a)
          /\ tail = <<>> /\ out = <<>> /\ count = 0
        BY <1>5 DEF Waiting
    <2>2. pending \o Part(b, a, Len(b)) = b
        <3>1. Then(Part(b, 0, a), Part(b, a, l)) = Part(b, 0, l)
            BY <1>1, <1>2, PartJoin
        <3>2. Part(b, 0, l) = b
            BY <1>1, <1>2, PartAll
        <3> QED
            BY <3>1, <3>2, <2>1, <1>2, Zenon DEF Then
    <2>3. Decided(b, FALSE) = IF Len(b) >= Enough(e, FALSE) THEN Decoder(e) ELSE "undecided"
        BY DecidedFor
    <2>4. CASE ~(Len(b) >= Enough(e, FALSE))
        <3>1. /\ decoder' = "undecided" /\ pending' = b
              /\ UNCHANGED <<tail, out, count, broken>>
            BY <2>1, <2>2, <2>3, <2>4 DEF Streamed
        <3>2. Len(b) < Enough(e, FALSE)
            <4>1. PICK x \in Nat : x = Enough(e, FALSE)
                BY EnoughFacts
            <4>2. ~(l >= x)
                BY <4>1, <2>4, <1>2, Zenon
            <4>3. l < x
                BY <4>2
            <4> QED
                BY <4>1, <4>3, <1>2, Zenon
        <3>3. Waiting(e, b, decoder', pending', tail', out', count')
            BY <3>1, <3>2, <2>1 DEF Waiting
        <3> QED
            BY <3>1, <3>3 DEF Decoders
    <2>5. CASE Len(b) >= Enough(e, FALSE)
        <3>1. Decided(b, FALSE) = Decoder(e) /\ Decoder(e) # "undecided"
            BY <2>3, <2>5, EnoughFacts
        <3>2. decoder' = Decoder(e) /\ Decode(Unmarked(b), Decoder(e), FALSE)
            BY <2>1, <2>2, <3>1 DEF Streamed
        <3>3. Offset(e) <= Len(b) /\ Len(b) >= Enough(e, TRUE)
            <4>1. PICK x \in Nat : x = Enough(e, TRUE)
                BY EnoughFacts
            <4>2. PICK y \in Nat : y = Enough(e, FALSE)
                BY EnoughFacts
            <4>3. PICK o \in Nat : o = Offset(e)
                BY EncodingCases
            <4>4. x <= y /\ o <= x /\ l >= y
                BY <4>1, <4>2, <4>3, <1>2, <2>5, EnoughFacts
            <4>5. o <= l /\ l >= x
                BY <4>4
            <4> QED
                BY <4>1, <4>3, <4>5, <1>2
        <3>4. Spot(e, 0) = Offset(e)
            BY SpotFacts
        <3>5. Unmarked(b) = Part(b, Spot(e, 0), Len(b))
            BY <3>3, <3>4, UnmarkedFor
        <3>6. Streaming(t, 0, 0, tail, out, count)
            BY <2>1, StreamingBegins
        <3>7. Spot(e, 0) <= Len(b) /\ 0 \in Nat /\ 0 <= 0
            BY <3>3, <3>4
        <3>8. Decode(Part(b, Spot(e, 0), Len(b)), Decoder(e), FALSE)
            BY <3>2, <3>5
        <3> QED
            BY <3>2, <3>3, <3>6, <3>7, <3>8, <1>4
    <2> QED
        BY <2>4, <2>5
<1>6. CASE Decoding(e, t, Part(b, 0, a), decoder, pending, tail, out, count)
    <2>1. decoder = Decoder(e) /\ Len(Part(b, 0, a)) >= Enough(e, TRUE)
        BY <1>6 DEF Decoding
    <2>2. PICK g \in 0..Len(t), r \in {0, 1} : \E m \in 0..g :
              /\ Holds(Part(b, 0, a), e, g, r)
              /\ pending = Part(Part(b, 0, a), Spot(e, g), Len(Part(b, 0, a)))
              /\ Streaming(t, g, m, tail, out, count)
        BY <1>6, Zenon DEF Decoding
    <2>11. PICK m \in 0..g : Streaming(t, g, m, tail, out, count)
        BY <2>2
    <2>3. g \in Nat /\ m \in Nat /\ m <= g
        OBVIOUS
    <2>4. PICK w \in Nat : w = Spot(e, g)
        BY <2>3, SpotFacts
    <2>5. w <= a
        <3>1. a = Offset(e) + Width(e) * g + r
            BY <2>2, <1>3 DEF Holds
        <3>2. a = w + r
            BY <3>1, <2>4 DEF Spot
        <3> QED
            BY <3>2
    <2>6. pending = Part(b, w, a)
        <3>1. Part(Part(b, 0, a), w, a) = Part(b, w, a)
            <4>1. a <= a
                OBVIOUS
            <4> QED
                BY <4>1, <2>5, <1>1, PartFromStart
        <3> QED
            BY <3>1, <2>2, <2>4, <1>3
    <2>7. pending \o Part(b, a, Len(b)) = Part(b, Spot(e, g), Len(b))
        <3>1. Then(Part(b, w, a), Part(b, a, l)) = Part(b, w, l)
            BY <1>1, <1>2, <2>5, PartJoin
        <3> QED
            BY <3>1, <2>4, <2>6, <1>2, Zenon DEF Then
    <2>8. Decoder(e) # "undecided"
        BY EnoughFacts
    <2>9. decoder' = Decoder(e) /\ Decode(Part(b, Spot(e, g), Len(b)), Decoder(e), FALSE)
        BY <2>1, <2>7, <2>8 DEF Streamed
    <2>10. Spot(e, g) <= Len(b) /\ Len(b) >= Enough(e, TRUE)
        <3>1. PICK x \in Nat : x = Enough(e, TRUE)
            BY EnoughFacts
        <3>2. a >= x
            BY <3>1, <2>1, <1>3
        <3>3. w <= l /\ l >= x
            BY <3>2, <2>5, <1>2
        <3> QED
            BY <3>1, <3>3, <2>4, <1>2
    <2> QED
        BY <2>11, <2>3, <2>9, <2>10, <1>4
<1> QED
    BY <1>5, <1>6

\* Close emits all there is.
LEMMA DecodedClose ==
    ASSUME NEW e \in Encodings, NEW t \in Seq(Symbols), NEW b, Begun(b, e, t),
           broken = FALSE, count \in Nat,
           \/ Waiting(e, b, decoder, pending, tail, out, count)
           \/ Decoding(e, t, b, decoder, pending, tail, out, count),
           Streamed(<<>>, TRUE)
    PROVE  /\ decoder' \in Decoders /\ count' \in Nat /\ broken' \in BOOLEAN
           /\ ~broken' => /\ tail' = <<>> /\ pending' = <<>>
                          /\ ValuesApart /\ b = In(e, t) =>
                                out' = Redact(b) /\ count' = Redactions(b)
<1>1. b \in Seq(Elements) /\ Len(b) \in Nat
    BY DEF Begun
<1>2. ASSUME NEW k \in Nat, NEW c \in Nat, c <= k, Spot(e, k) <= Len(b),
             Streaming(t, k, c, tail, out, count), Len(b) >= Enough(e, TRUE),
             decoder' = Decoder(e), Decode(Part(b, Spot(e, k), Len(b)), Decoder(e), TRUE)
      PROVE  /\ decoder' \in Decoders /\ count' \in Nat /\ broken' \in BOOLEAN
             /\ ~broken' => /\ tail' = <<>> /\ pending' = <<>>
                            /\ ValuesApart /\ b = In(e, t) =>
                                  out' = Redact(b) /\ count' = Redactions(b)
    <2>1. decoder' \in Decoders
        BY <1>2, EnoughFacts
    <2>2. /\ count' \in Nat /\ broken' \in BOOLEAN
          /\ ~broken' => /\ tail' = <<>> /\ pending' = <<>>
                         /\ ValuesApart /\ b = In(e, t) =>
                               out' = Redact(b) /\ count' = Redactions(b)
        BY <1>2, DecodeLast
    <2> QED
        BY <2>1, <2>2
<1>3. Then(b, <<>>) = b
    BY <1>1, ThenFacts
<1>4. CASE Waiting(e, b, decoder, pending, tail, out, count)
    <2>1. /\ decoder = "undecided" /\ pending = b
          /\ tail = <<>> /\ out = <<>> /\ count = 0
        BY <1>4 DEF Waiting
    <2>2. pending \o <<>> = b
        BY <2>1, <1>3, Zenon DEF Then
    <2>3. Decided(b, TRUE) = IF Len(b) >= Enough(e, TRUE) THEN Decoder(e) ELSE "undecided"
        BY DecidedFor
    <2>4. CASE ~(Len(b) >= Enough(e, TRUE))
        <3>1. decoder' = "undecided" /\ Decode(b, "undecided", TRUE)
            BY <2>1, <2>2, <2>3, <2>4 DEF Streamed
        <3>2. Flush(tail \o b, TRUE) /\ pending' = <<>>
            BY <3>1 DEF Decode
        <3>3. Then(<<>>, b) = b
            BY <1>1, ThenFacts
        <3>4. tail \o b = b
            BY <3>3, <2>1, Zenon DEF Then
        <3>5. Flush(b, TRUE)
            BY <3>2, <3>4
        <3>6. /\ count' \in Nat /\ broken' \in BOOLEAN
              /\ ~broken' => /\ tail' = <<>>
                             /\ b = <<>> => out' = out /\ count' = count
                             /\ b # <<>> /\ out \in Seq(Elements) /\ InTwo(b) =>
                                    /\ out' = out \o Redact(b)
                                    /\ count' = count + Redactions(b)
            BY <3>5, <1>1, FinalFlush
        <3>7. ASSUME ~broken', ValuesApart, b = In(e, t)
              PROVE  out' = Redact(b) /\ count' = Redactions(b)
            <4>1. CASE b = <<>>
                <5>1. Streaming(t, 0, 0, <<>>, <<>>, 0) /\ Part(t, 0, 0) = <<>>
                    BY StreamingBegins, PartAll
                <5>2. <<>> = Redact(<<>>) /\ 0 = Redactions(<<>>)
                    BY <5>1, <3>7 DEF Streaming
                <5> QED
                    BY <5>2, <4>1, <3>6, <3>7, <2>1
            <4>2. CASE b # <<>>
                <5>1. out' = out \o Redact(b) /\ count' = count + Redactions(b)
                    <6>1. InTwo(b)
                        BY <4>2, <3>7, <2>4, UndecidedInTwo
                    <6>2. <<>> \in Seq(Elements)
                        OBVIOUS
                    <6> QED
                        BY <6>1, <6>2, <4>2, <3>6, <3>7, <2>1
                <5>2. Redact(b) \in Seq(Elements) /\ Redactions(b) \in Nat
                    BY <1>1, RedactType, RedactionsCount
                <5>3. Then(<<>>, Redact(b)) = Redact(b)
                    BY <5>2, ThenFacts
                <5>4. out' = Redact(b)
                    BY <5>1, <5>3, <2>1, Zenon DEF Then
                <5>5. count' = Redactions(b)
                    BY <5>1, <5>2, <2>1
                <5> QED
                    BY <5>4, <5>5
            <4> QED
                BY <4>1, <4>2
        <3> QED
            BY <3>1, <3>2, <3>6, <3>7 DEF Decoders
    <2>5. CASE Len(b) >= Enough(e, TRUE)
        <3>1. Decided(b, TRUE) = Decoder(e) /\ Decoder(e) # "undecided"
            BY <2>3, <2>5, EnoughFacts
        <3>2. decoder' = Decoder(e) /\ Decode(Unmarked(b), Decoder(e), TRUE)
            BY <2>1, <2>2, <3>1 DEF Streamed
        <3>3. Offset(e) <= Len(b)
            <4>1. PICK x \in Nat : x = Enough(e, TRUE)
                BY EnoughFacts
            <4>2. PICK o \in Nat : o = Offset(e)
                BY EncodingCases
            <4>3. o <= x /\ Len(b) >= x
                BY <4>1, <4>2, <2>5, EnoughFacts
            <4> QED
                BY <4>2, <4>3, <1>1
        <3>4. Spot(e, 0) = Offset(e)
            BY SpotFacts
        <3>5. Unmarked(b) = Part(b, Spot(e, 0), Len(b))
            BY <3>3, <3>4, UnmarkedFor
        <3>6. Streaming(t, 0, 0, tail, out, count)
            BY <2>1, StreamingBegins
        <3>7. Spot(e, 0) <= Len(b) /\ 0 \in Nat /\ 0 <= 0
            BY <3>3, <3>4
        <3>8. Decode(Part(b, Spot(e, 0), Len(b)), Decoder(e), TRUE)
            BY <3>2, <3>5
        <3> QED
            BY <3>2, <3>6, <3>7, <3>8, <2>5, <1>2
    <2> QED
        BY <2>4, <2>5
<1>5. CASE Decoding(e, t, b, decoder, pending, tail, out, count)
    <2>1. decoder = Decoder(e) /\ Len(b) >= Enough(e, TRUE)
        BY <1>5 DEF Decoding
    <2>2. PICK g \in 0..Len(t), r \in {0, 1} : \E m \in 0..g :
              /\ Holds(b, e, g, r) /\ pending = Part(b, Spot(e, g), Len(b))
              /\ Streaming(t, g, m, tail, out, count)
        BY <1>5 DEF Decoding
    <2>11. PICK m \in 0..g : Streaming(t, g, m, tail, out, count)
        BY <2>2
    <2>3. g \in Nat /\ m \in Nat /\ m <= g
        OBVIOUS
    <2>4. PICK w \in Nat : w = Spot(e, g)
        BY <2>3, SpotFacts
    <2>5. w <= Len(b)
        <3>1. Len(b) = Offset(e) + Width(e) * g + r
            BY <2>2 DEF Holds
        <3>2. Len(b) = w + r
            BY <3>1, <2>4 DEF Spot
        <3> QED
            BY <3>2
    <2>6. PICK p \in Seq(Elements) : p = Part(b, w, Len(b))
        BY <2>5, <1>1, PartFacts
    <2>7. pending \o <<>> = p
        <3>1. Then(p, <<>>) = p
            BY ThenFacts
        <3> QED
            BY <3>1, <2>2, <2>4, <2>6, Zenon DEF Then
    <2>8. Decoder(e) # "undecided"
        BY EnoughFacts
    <2>9. decoder' = Decoder(e) /\ Decode(p, Decoder(e), TRUE)
        BY <2>1, <2>7, <2>8 DEF Streamed
    <2>10. Spot(e, g) <= Len(b) /\ Decode(Part(b, Spot(e, g), Len(b)), Decoder(e), TRUE)
        BY <2>4, <2>5, <2>6, <2>9
    <2> QED
        BY <2>1, <2>11, <2>3, <2>9, <2>10, <1>2
<1> QED
    BY <1>4, <1>5

\* What boundedWriter keeps is the same as if it were given all at once.
LEMMA UpToThen ==
    ASSUME NEW X, NEW s \in Seq(X), NEW t \in Seq(X), NEW n \in Nat
    PROVE  UpTo(UpTo(s, n) \o t, n) = UpTo(Then(s, t), n)
<1>1. ASSUME NEW u \in Seq(X), Len(u) >= n PROVE UpTo(u, n) = Part(u, 0, n)
    <2>1. SubSeq(u, 1, n) = Part(u, 0, n)
        BY DEF Part
    <2>2. CASE Len(u) = n
        <3>1. Part(u, 0, Len(u)) = u
            BY PartAll
        <3> QED
            BY <3>1, <2>2 DEF UpTo
    <2>3. CASE Len(u) # n
        <3>1. ~(Len(u) <= n)
            BY <2>3, <1>1
        <3> QED
            BY <3>1, <2>1 DEF UpTo
    <2> QED
        BY <2>2, <2>3
<1>2. CASE Len(s) <= n
    <2>1. UpTo(s, n) = s
        BY <1>2 DEF UpTo
    <2> QED
        BY <2>1, Zenon DEF Then
<1>3. CASE ~(Len(s) <= n)
    <2>1. n <= Len(s) /\ Len(s) >= n /\ 0 \in Nat /\ 0 <= n
        BY <1>3
    <2>2. PICK p \in Seq(X) : p = Part(s, 0, n)
        BY <2>1, PartFacts
    <2>3. Len(p) = n
        <3>1. Len(Part(s, 0, n)) = n - 0
            BY <2>1, PartLen
        <3> QED
            BY <3>1, <2>2
    <2>4. UpTo(s, n) = p
        BY <2>1, <2>2, <1>1
    <2>5. PICK u \in Seq(X) : u = Then(p, t)
        BY ThenFacts
    <2>6. PICK v \in Seq(X) : v = Then(s, t)
        BY ThenFacts
    <2>7. Len(u) >= n
        <3>1. Len(u) = Len(p) + Len(t)
            BY <2>5, ThenFacts
        <3> QED
            BY <3>1, <2>3
    <2>8. Len(v) >= n
        <3>1. Len(v) = Len(s) + Len(t)
            BY <2>6, ThenFacts
        <3> QED
            BY <3>1, <2>1
    <2>9. Part(u, 0, n) = Part(p, 0, n)
        <3>1. n <= Len(p)
            BY <2>3
        <3> QED
            BY <3>1, <2>1, <2>5, PartOfThen
    <2>10. Part(v, 0, n) = Part(s, 0, n)
        BY <2>1, <2>6, PartOfThen
    <2>11. Part(p, 0, n) = p
        BY <2>3, PartAll
    <2>12. UpTo(u, n) = p /\ UpTo(v, n) = p
        BY <2>2, <2>7, <2>8, <2>9, <2>10, <2>11, <1>1
    <2> QED
        BY <2>4, <2>5, <2>6, <2>12, Zenon DEF Then
<1> QED
    BY <1>2, <1>3

\* A text that goes on is decoded alike as far as it went.
LEMMA DecodingThen ==
    ASSUME NEW e \in Encodings, NEW s \in Seq(Symbols), NEW u \in Seq(Symbols), NEW b,
           NEW dec, NEW bytes, NEW held, NEW emitted, NEW n,
           Decoding(e, s, b, dec, bytes, held, emitted, n)
    PROVE  Decoding(e, Then(s, u), b, dec, bytes, held, emitted, n)
<1>1. dec = Decoder(e) /\ Len(b) >= Enough(e, TRUE)
    BY DEF Decoding
<1>2. PICK g \in 0..Len(s), r \in {0, 1} : \E m \in 0..g :
          /\ Holds(b, e, g, r) /\ bytes = Part(b, Spot(e, g), Len(b))
          /\ Streaming(s, g, m, held, emitted, n)
    BY DEF Decoding
<1>3. PICK m \in 0..g : Streaming(s, g, m, held, emitted, n)
    BY <1>2
<1>4. Streaming(Then(s, u), g, m, held, emitted, n)
    BY <1>3, StreamingThen
<1>5. g \in 0..Len(Then(s, u))
    <2>1. Len(Then(s, u)) = Len(s) + Len(u)
        BY ThenFacts
    <2> QED
        BY <2>1
<1> QED
    BY <1>1, <1>2, <1>4, <1>5 DEF Decoding

-----------------------------------------------------------------------------
(***************************************************************************)
(* The inductive invariant.                                                *)
(***************************************************************************)

\* The child's bytes begin the text's, and the tool keeps their prefix.
Kept ==
    /\ encoding \in Encodings /\ text \in Seq(Symbols) /\ Begun(raw, encoding, text)
    /\ retained = UpTo(raw, CaptureLimit)

\* The two writers, while the child runs.
Underway ==
    ~closed /\ ~broken =>
        \/ Waiting(encoding, raw, decoder, pending, tail, out, count)
        \/ Decoding(encoding, text, raw, decoder, pending, tail, out, count)

\* When it has ended all of it is redacted.
Finished ==
    closed /\ ~broken =>
        /\ tail = <<>> /\ pending = <<>>
        /\ ValuesApart /\ raw = In(encoding, text) =>
              out = Redact(raw) /\ count = Redactions(raw)

Inv ==
    /\ Kept /\ Underway /\ Finished
    /\ decoder \in Decoders /\ count \in Nat /\ broken \in BOOLEAN /\ closed \in BOOLEAN

\* The limit of what the tool keeps is a number.
LEMMA CaptureLimitFacts == CaptureLimit \in Nat
    BY LongestFirst, RedactionAssumption DEF CaptureLimit

\* Nothing is written at the start.
LEMMA InvInit == Init => Inv
<1> SUFFICES ASSUME Init PROVE Inv
    OBVIOUS
<1>1. /\ encoding \in Encodings /\ text = <<>> /\ raw = <<>>
      /\ pending = <<>> /\ decoder = "undecided"
      /\ tail = <<>> /\ out = <<>> /\ count = 0
      /\ broken = FALSE /\ retained = <<>> /\ closed = FALSE
    BY DEF Init
<1>2. text \in Seq(Symbols)
    BY <1>1
<1>3. PICK z \in Seq(Elements) : z = In(encoding, text)
    BY <1>1, <1>2, InAt
<1>4. Begun(raw, encoding, text)
    <2>1. raw \in Seq(Elements) /\ Len(raw) = 0
        BY <1>1
    <2>2. Len(raw) <= Len(z)
        BY <2>1
    <2>3. \A i \in 1..Len(raw) : raw[i] = z[i]
        BY <2>1
    <2> QED
        BY <2>1, <2>2, <2>3, <1>3 DEF Begun
<1>5. retained = UpTo(raw, CaptureLimit)
    <2>1. Len(raw) <= CaptureLimit
        BY <1>1, CaptureLimitFacts
    <2> QED
        BY <2>1, <1>1 DEF UpTo
<1>6. Waiting(encoding, raw, decoder, pending, tail, out, count)
    <2>1. Len(raw) = 0
        BY <1>1
    <2>2. PICK x \in {2, 3, 4, Sample} : x = Enough(encoding, FALSE)
        <3>1. encoding \in {"utf8", "utf8bom", "utf16lebom", "utf16bebom", "utf16le"}
            BY <1>1, EncodingCases
        <3>2. CASE encoding \in {"utf8bom", "utf16lebom", "utf16bebom"}
            BY <3>2 DEF Enough, Offset
        <3>3. CASE encoding \in {"utf8", "utf16le"}
            BY <3>3 DEF Enough
        <3> QED
            BY <3>1, <3>2, <3>3
    <2>3. 0 < x
        BY RedactionAssumption
    <2>4. Len(raw) < Enough(encoding, FALSE)
        BY <2>1, <2>2, <2>3, Zenon
    <2> QED
        BY <2>4, <1>1 DEF Waiting
<1> QED
    BY <1>1, <1>2, <1>4, <1>5, <1>6 DEF Inv, Kept, Underway, Finished, Decoders

\* A write keeps the invariant.
LEMMA InvWrite == ASSUME Inv, NEW t \in Seq(Symbols), Write(t) PROVE Inv'
<1>1. /\ encoding \in Encodings /\ text \in Seq(Symbols) /\ Begun(raw, encoding, text)
      /\ retained = UpTo(raw, CaptureLimit) /\ raw \in Seq(Elements)
    BY DEF Inv, Kept, Begun
<1>2. /\ closed = FALSE /\ text' = text \o t /\ encoding' = encoding /\ closed' = closed
    BY DEF Inv, Write
<1>3. PICK s \in Seq(Symbols) : s = Then(text, t)
    BY <1>1, ThenFacts
<1>4. text' = s /\ s = text \o t
    BY <1>2, <1>3, Zenon DEF Then
<1>5. PICK z \in Seq(Elements) : z = In(encoding, s)
    BY <1>1, InAt
<1>6. Encoded(text \o t) = z
    BY <1>4, <1>5, EncodedIn
<1>7. PICK l \in Nat : l = Len(raw)
    BY <1>1
<1>8. PICK n \in (l + 1)..Len(z) :
          /\ raw' = SubSeq(z, 1, n)
          /\ Streamed(SubSeq(z, l + 1, n), FALSE)
          /\ retained' = UpTo(retained \o SubSeq(z, l + 1, n), CaptureLimit)
    BY <1>6, <1>7 DEF Write
<1>9. n \in Nat /\ l <= n /\ n <= Len(z) /\ 0 \in Nat /\ 0 <= n /\ 0 <= l /\ l <= Len(z) /\ n <= n
    OBVIOUS
<1>10. PICK b \in Seq(Elements) : b = Part(z, 0, n)
    BY <1>9, PartFacts
<1>11. raw' = b
    <2>1. SubSeq(z, 0 + 1, n) = b
        BY <1>10 DEF Part
    <2>2. 0 + 1 = 1
        OBVIOUS
    <2> QED
        BY <2>1, <2>2, <1>8
<1>12. Len(b) = n
    <2>1. Len(Part(z, 0, n)) = n - 0
        BY <1>9, PartLen
    <2> QED
        BY <2>1, <1>10
<1>13. Begun(b, encoding, s)
    <2>1. ASSUME NEW i \in 1..Len(b) PROVE b[i] = z[i]
        <3>1. i \in 1..(n - 0)
            BY <1>12
        <3>2. Part(z, 0, n)[i] = z[0 + i]
            BY <3>1, <1>9, PartAt
        <3>3. 0 + i = i
            OBVIOUS
        <3> QED
            BY <3>2, <3>3, <1>10
    <2>2. \A i \in 1..Len(b) : b[i] = z[i]
        BY <2>1
    <2>3. Len(b) <= Len(z)
        BY <1>9, <1>12
    <2> QED
        BY <2>2, <2>3, <1>5 DEF Begun
<1>14. Begun(raw, encoding, s)
    BY <1>1, <1>3, BegunThen
<1>15. raw = Part(b, 0, l)
    <2>1. Part(b, 0, l) = Part(z, 0, l)
        BY <1>9, <1>10, PartFromStart
    <2>2. PICK p \in Seq(Elements) : p = Part(z, 0, l)
        BY <1>9, PartFacts
    <2>3. Len(p) = l
        <3>1. Len(Part(z, 0, l)) = l - 0
            BY <1>9, PartLen
        <3> QED
            BY <3>1, <2>2
    <2>4. ASSUME NEW i \in 1..Len(p) PROVE raw[i] = p[i]
        <3>1. i \in 1..(l - 0)
            BY <2>3
        <3>2. Part(z, 0, l)[i] = z[0 + i]
            BY <3>1, <1>9, PartAt
        <3>3. 0 + i = i
            OBVIOUS
        <3>4. i \in 1..Len(raw)
            BY <2>3, <1>7
        <3>5. raw[i] = In(encoding, s)[i]
            BY <3>4, <1>14, Zenon DEF Begun
        <3> QED
            BY <3>2, <3>3, <3>5, <2>2, <1>5
    <2>5. \A i \in 1..Len(p) : raw[i] = p[i]
        BY <2>4
    <2>6. Len(raw) = Len(p)
        BY <2>3, <1>7
    <2>7. raw = p
        BY <2>5, <2>6, <1>1, SameSequence
    <2> QED
        BY <2>1, <2>2, <2>7
<1>16. SubSeq(z, l + 1, n) = Part(b, l, Len(b))
    <2>1. Part(b, l, n) = Part(z, l, n)
        BY <1>9, <1>10, PartFromStart
    <2>2. SubSeq(z, l + 1, n) = Part(z, l, n)
        BY DEF Part
    <2> QED
        BY <2>1, <2>2, <1>12
<1>17. retained' = UpTo(b, CaptureLimit)
    <2>1. l <= Len(b) /\ Len(b) <= Len(b) /\ Len(b) \in Nat
        BY <1>9, <1>12
    <2>2. PICK p \in Seq(Elements) : p = Part(b, l, Len(b))
        BY <2>1, PartFacts
    <2>3. UpTo(UpTo(raw, CaptureLimit) \o p, CaptureLimit) = UpTo(Then(raw, p), CaptureLimit)
        BY <1>1, UpToThen, CaptureLimitFacts
    <2>4. Then(Part(b, 0, l), Part(b, l, Len(b))) = Part(b, 0, Len(b))
        BY <2>1, <1>9, PartJoin
    <2>5. Part(b, 0, Len(b)) = b
        BY PartAll
    <2>6. Then(raw, p) = b
        BY <2>2, <2>4, <2>5, <1>15
    <2> QED
        BY <2>2, <2>3, <2>6, <1>1, <1>8, <1>16
<1>18. Kept'
    BY <1>1, <1>2, <1>4, <1>11, <1>13, <1>17 DEF Kept, CaptureLimit
<1>19. Finished'
    BY <1>2 DEF Finished
<1>20. /\ decoder' \in Decoders /\ count' \in Nat /\ broken' \in BOOLEAN
       /\ ~broken' => \/ Waiting(encoding, b, decoder', pending', tail', out', count')
                      \/ Decoding(encoding, s, b, decoder', pending', tail', out', count')
    <2>1. CASE broken
        <3>1. UNCHANGED stream
            BY <2>1, <1>8 DEF Streamed
        <3> QED
            BY <3>1, <2>1 DEF Inv, stream
    <2>2. CASE ~broken
        <3>1. broken = FALSE /\ count \in Nat
            BY <2>2 DEF Inv
        <3>2. \/ Waiting(encoding, Part(b, 0, l), decoder, pending, tail, out, count)
              \/ Decoding(encoding, text, Part(b, 0, l), decoder, pending, tail, out, count)
            BY <3>1, <1>2, <1>15 DEF Inv, Underway
        <3>3. \/ Waiting(encoding, Part(b, 0, l), decoder, pending, tail, out, count)
              \/ Decoding(encoding, s, Part(b, 0, l), decoder, pending, tail, out, count)
            BY <3>2, <1>1, <1>3, DecodingThen
        <3>4. Streamed(Part(b, l, Len(b)), FALSE)
            BY <1>8, <1>16
        <3>5. l <= Len(b)
            BY <1>9, <1>12
        <3> QED
            BY <3>1, <3>3, <3>4, <3>5, <1>1, <1>13, DecodedWrite
    <2> QED
        BY <2>1, <2>2
<1>21. Underway'
    BY <1>2, <1>4, <1>11, <1>20 DEF Underway
<1> QED
    BY <1>2, <1>18, <1>19, <1>20, <1>21 DEF Inv

\* The end of the child keeps the invariant.
LEMMA InvClose == ASSUME Inv, Close PROVE Inv'
<1>1. /\ encoding \in Encodings /\ text \in Seq(Symbols) /\ Begun(raw, encoding, text)
      /\ count \in Nat /\ decoder \in Decoders /\ broken \in BOOLEAN
    BY DEF Inv, Kept
<1>2. /\ closed = FALSE /\ closed' = TRUE /\ Streamed(<<>>, TRUE)
      /\ UNCHANGED <<encoding, text, raw, retained>>
    BY DEF Inv, Close
<1>3. /\ decoder' \in Decoders /\ count' \in Nat /\ broken' \in BOOLEAN
      /\ ~broken' => /\ tail' = <<>> /\ pending' = <<>>
                     /\ ValuesApart /\ raw = In(encoding, text) =>
                           out' = Redact(raw) /\ count' = Redactions(raw)
    <2>1. CASE broken
        <3>1. UNCHANGED stream
            BY <2>1, <1>2 DEF Streamed
        <3> QED
            BY <3>1, <2>1, <1>1 DEF stream
    <2>2. CASE ~broken
        <3>1. broken = FALSE
            BY <2>2, <1>1
        <3>2. \/ Waiting(encoding, raw, decoder, pending, tail, out, count)
              \/ Decoding(encoding, text, raw, decoder, pending, tail, out, count)
            BY <3>1, <1>2 DEF Inv, Underway
        <3> QED
            BY <3>1, <3>2, <1>1, <1>2, DecodedClose
    <2> QED
        BY <2>1, <2>2
<1>4. Kept'
    <2>1. encoding' = encoding /\ text' = text /\ raw' = raw /\ retained' = retained
        BY <1>2
    <2> QED
        BY <2>1 DEF Inv, Kept
<1>5. Underway'
    BY <1>2 DEF Underway
<1>6. Finished'
    BY <1>2, <1>3 DEF Finished
<1> QED
    BY <1>2, <1>3, <1>4, <1>5, <1>6 DEF Inv

\* Stage of a step: every action keeps the invariant.
LEMMA InvNext == Inv /\ [Next]_vars => Inv'
<1> SUFFICES ASSUME Inv, [Next]_vars PROVE Inv'
    OBVIOUS
<1>1. CASE Close
    BY <1>1, InvClose
<1>2. ASSUME NEW p \in Writes, Write(p) PROVE Inv'
    <2>1. p \in Seq(Symbols)
        BY DEF Writes
    <2> QED
        BY <2>1, <1>2, InvWrite
<1>3. CASE UNCHANGED vars
    BY <1>3 DEF vars, stream, Inv, Kept, Underway, Finished
<1> QED
    BY <1>1, <1>2, <1>3 DEF Next

\* However the output is encoded and cut into writes, the writers hold the text as
\* far as it is there, and when the child has ended all of it is redacted
\* (normalizingWriter.Write and Close, StreamRedactor.flush, boundedWriter.Write).
THEOREM RedactionInvariant == Spec => []Inv
    BY InvInit, InvNext, PTL DEF Spec

\* What stands behind the first bytes is a suffix.
LEMMA SuffixPart ==
    ASSUME NEW X, NEW s \in Seq(X), NEW a \in Nat, a <= Len(s)
    PROVE  IsSuffix(Part(s, a, Len(s)), s)
<1>1. PICK l \in Nat : l = Len(s) /\ a <= l /\ l <= Len(s)
    OBVIOUS
<1>2. PICK p \in Seq(X) : p = Part(s, a, l)
    BY <1>1, PartFacts
<1>3. Len(p) = l - a
    <2>1. Len(Part(s, a, l)) = l - a
        BY <1>1, PartLen
    <2> QED
        BY <2>1, <1>2
<1>4. PICK m \in Nat : m = Len(p) /\ m = l - a
    BY <1>3
<1>5. PICK x : x = [i \in 1..m |-> p[(m - i) + 1]]
    OBVIOUS
<1>6. PICK y : y = [i \in 1..l |-> s[(l - i) + 1]]
    OBVIOUS
<1>7. Reverse(p) = x /\ Reverse(s) = y
    BY <1>1, <1>4, <1>5, <1>6, Zenon DEF Reverse
<1>8. ASSUME NEW i \in 1..m PROVE (m - i) + 1 \in 1..m
    OBVIOUS
<1>9. ASSUME NEW i \in 1..l PROVE (l - i) + 1 \in 1..l
    OBVIOUS
<1>10. \A i \in 1..m : p[i] \in X
    <2>1. \A i \in 1..Len(p) : p[i] \in X
        OBVIOUS
    <2> QED
        BY <2>1, <1>4, Zenon
<1>11. \A i \in 1..l : s[i] \in X
    BY <1>1
<1>12. x \in Seq(X) /\ Len(x) = m
    <2>1. x \in [1..m -> X]
        BY <1>5, <1>8, <1>10
    <2> QED
        BY <2>1
<1>13. y \in Seq(X) /\ Len(y) = l
    <2>1. y \in [1..l -> X]
        BY <1>6, <1>9, <1>11
    <2> QED
        BY <2>1
<1>14. ASSUME NEW i \in 1..m PROVE x[i] = y[i]
    <2>1. PICK j \in 1..m : j = (m - i) + 1
        BY <1>8
    <2>2. Part(s, a, l)[j] = s[a + j]
        <3>1. j \in 1..(l - a)
            BY <1>4
        <3> QED
            BY <3>1, <1>1, PartAt
    <2>3. a + j = (l - i) + 1 /\ i \in 1..l
        BY <2>1, <1>1, <1>4
    <2>4. x[i] = p[j]
        BY <2>1, <1>5
    <2>5. y[i] = s[a + j]
        BY <2>3, <1>6
    <2> QED
        BY <2>2, <2>4, <2>5, <1>2
<1>15. \A i \in 1..Len(x) : x[i] = y[i]
    BY <1>12, <1>14
<1>16. Len(x) <= Len(y)
    BY <1>1, <1>4, <1>12, <1>13
<1>17. IsPrefix(x, y)
    BY <1>12, <1>13, <1>15, <1>16, PrefixMeans
<1>18. IsSuffix(p, s)
    BY <1>7, <1>17, Zenon DEF IsSuffix
<1> QED
    BY <1>1, <1>2, <1>18

\* The bytes kept are a prefix within the limit.
LEMMA UpToFacts ==
    ASSUME NEW X, NEW s \in Seq(X), NEW n \in Nat
    PROVE  IsPrefix(UpTo(s, n), s) /\ Len(UpTo(s, n)) <= n
<1>1. CASE Len(s) <= n
    <2>1. UpTo(s, n) = s
        BY <1>1 DEF UpTo
    <2>2. IsPrefix(s, s)
        BY PrefixMeans
    <2> QED
        BY <2>1, <2>2, <1>1
<1>2. CASE ~(Len(s) <= n)
    <2>1. n <= Len(s) /\ 0 \in Nat /\ 0 <= n
        BY <1>2
    <2>2. PICK p \in Seq(X) : p = Part(s, 0, n)
        BY <2>1, PartFacts
    <2>3. SubSeq(s, 1, n) = p
        BY <2>2 DEF Part
    <2>4. UpTo(s, n) = p
        BY <2>3, <1>2 DEF UpTo
    <2>5. Len(p) = n
        <3>1. Len(Part(s, 0, n)) = n - 0
            BY <2>1, PartLen
        <3> QED
            BY <3>1, <2>2
    <2>6. ASSUME NEW i \in 1..Len(p) PROVE p[i] = s[i]
        <3>1. i \in 1..(n - 0) /\ 0 + i = i
            BY <2>5
        <3>2. Part(s, 0, n)[i] = s[0 + i]
            BY <3>1, <2>1, PartAt
        <3> QED
            BY <3>1, <3>2, <2>2
    <2>7. \A i \in 1..Len(p) : p[i] = s[i]
        BY <2>6
    <2>8. Len(p) <= Len(s)
        BY <2>1, <2>5
    <2>9. IsPrefix(p, s)
        BY <2>7, <2>8, PrefixMeans
    <2> QED
        BY <2>4, <2>5, <2>9
<1> QED
    BY <1>1, <1>2

\* The sample is not less than two units.
LEMMA SampleIsMax == Max({Sample, 4}) = Sample
<1>1. Sample \in Nat /\ Sample >= 4
    BY RedactionAssumption
<1>2. Sample \in {Sample, 4} /\ \A y \in {Sample, 4} : Sample >= y
    BY <1>1
<1>3. PICK m : m = Max({Sample, 4})
    OBVIOUS
<1>4. m \in {Sample, 4} /\ \A y \in {Sample, 4} : m >= y
    BY <1>2, <1>3, Zenon DEF Max
<1>5. m >= Sample /\ m >= 4
    BY <1>4
<1>6. m = Sample
    BY <1>1, <1>4, <1>5
<1> QED
    BY <1>3, <1>6

\* The invariant bounds what is held back.
LEMMA InvTyped == Inv => TypeOK
<1> SUFFICES ASSUME Inv PROVE TypeOK
    OBVIOUS
<1>1. /\ encoding \in Encodings /\ text \in Seq(Symbols) /\ Begun(raw, encoding, text)
      /\ retained = UpTo(raw, CaptureLimit) /\ raw \in Seq(Elements)
    BY DEF Inv, Kept, Begun
<1>2. IsPrefix(raw, Encoded(text))
    <2>1. PICK z \in Seq(Elements) : z = In(encoding, text)
        BY <1>1, InAt
    <2>2. Len(raw) <= Len(z) /\ \A i \in 1..Len(raw) : raw[i] = z[i]
        BY <1>1, <2>1 DEF Begun
    <2>3. IsPrefix(raw, z)
        BY <2>2, <1>1, PrefixMeans
    <2> QED
        BY <2>1, <2>3, EncodedIn
<1>3. IsPrefix(retained, raw) /\ Len(retained) <= CaptureLimit
    BY <1>1, UpToFacts, CaptureLimitFacts
<1>4. Keep \in Nat /\ Sample \in Nat /\ Sample >= 4
    BY LongestFirst, RedactionAssumption
<1>5. Part(raw, Len(raw), Len(raw)) = <<>>
    BY <1>1, PartAll
<1>6. PICK l \in Nat : l = Len(raw) /\ l <= Len(raw)
    BY <1>1
<1>7. ASSUME ~broken
      PROVE  /\ Len(tail) <= 2 * Keep /\ IsSuffix(pending, raw)
             /\ Len(pending) < IF decoder = "undecided" THEN Sample ELSE 2
    <2>1. CASE closed
        <3>1. tail = <<>> /\ pending = <<>>
            BY <2>1, <1>7 DEF Inv, Finished
        <3>2. IsSuffix(Part(raw, l, Len(raw)), raw)
            BY <1>1, <1>6, SuffixPart
        <3>3. IsSuffix(pending, raw)
            BY <3>1, <3>2, <1>5, <1>6
        <3>4. Len(tail) = 0 /\ Len(pending) = 0 /\ 0 <= 2 * Keep /\ 0 < Sample /\ 0 < 2
            BY <3>1, <1>4
        <3> QED
            BY <3>3, <3>4
    <2>2. CASE ~closed /\ Waiting(encoding, raw, decoder, pending, tail, out, count)
        <3>1. /\ decoder = "undecided" /\ Len(raw) < Enough(encoding, FALSE)
              /\ pending = raw /\ tail = <<>>
            BY <2>2 DEF Waiting
        <3>2. PICK x \in Nat : x = Enough(encoding, FALSE)
            BY <1>1, EnoughFacts
        <3>3. x <= Sample
            BY <3>2, <1>1, EnoughFacts
        <3>4. l < x
            BY <3>1, <3>2, <1>6, Zenon
        <3>5. l < Sample
            BY <3>3, <3>4, <1>4
        <3>6. Part(raw, 0, Len(raw)) = raw
            BY <1>1, PartAll
        <3>7. IsSuffix(Part(raw, 0, Len(raw)), raw)
            <4>1. 0 \in Nat /\ 0 <= Len(raw)
                BY <1>1
            <4> QED
                BY <4>1, <1>1, SuffixPart
        <3>8. Len(tail) = 0 /\ 0 <= 2 * Keep
            BY <3>1, <1>4
        <3> QED
            BY <3>1, <3>5, <3>6, <3>7, <3>8, <1>6
    <2>3. CASE ~closed /\ Decoding(encoding, text, raw, decoder, pending, tail, out, count)
        <3>1. decoder = Decoder(encoding) /\ Decoder(encoding) # "undecided"
            BY <2>3, <1>1, EnoughFacts DEF Decoding
        <3>2. PICK g \in 0..Len(text), r \in {0, 1} : \E m \in 0..g :
                  /\ Holds(raw, encoding, g, r)
                  /\ pending = Part(raw, Spot(encoding, g), Len(raw))
                  /\ Streaming(text, g, m, tail, out, count)
            BY <2>3 DEF Decoding
        <3>3. PICK m \in 0..g : Streaming(text, g, m, tail, out, count)
            BY <3>2
        <3>4. tail = Part(text, m, g) /\ g - m <= 2 * Keep
            BY <3>3 DEF Streaming
        <3>5. g \in Nat /\ m \in Nat /\ m <= g /\ g <= Len(text)
            BY <1>1
        <3>6. Len(Part(text, m, g)) = g - m
            BY <3>5, <1>1, PartLen
        <3>7. Len(tail) <= 2 * Keep
            BY <3>4, <3>6
        <3>8. PICK w \in Nat : w = Spot(encoding, g)
            BY <3>5, <1>1, SpotFacts
        <3>9. l = w + r
            <4>1. Len(raw) = Offset(encoding) + Width(encoding) * g + r
                BY <3>2 DEF Holds
            <4> QED
                BY <4>1, <3>8, <1>6 DEF Spot
        <3>10. w <= l /\ l - w = r
            BY <3>9
        <3>11. Len(Part(raw, w, l)) = l - w
            BY <3>10, <1>1, <1>6, PartLen
        <3>12. pending = Part(raw, w, l)
            BY <3>2, <3>8, <1>6
        <3>13. Len(pending) < 2
            BY <3>10, <3>11, <3>12
        <3>14. IsSuffix(pending, raw)
            <4>1. w <= Len(raw)
                BY <3>10, <1>6
            <4>2. IsSuffix(Part(raw, w, Len(raw)), raw)
                BY <4>1, <1>1, SuffixPart
            <4> QED
                BY <4>2, <3>12, <1>6
        <3> QED
            BY <3>1, <3>7, <3>13, <3>14
    <2> QED
        BY <2>1, <2>2, <2>3, <1>7 DEF Inv, Underway
<1>8. /\ decoder \in {"undecided", "utf8", "le", "be"}
      /\ count \in Nat /\ broken \in BOOLEAN /\ closed \in BOOLEAN
    BY DEF Inv, Decoders
<1> QED
    BY <1>1, <1>2, <1>3, <1>7, <1>8, SampleIsMax DEF TypeOK

\* What is held back never grows with the output: less than a sample or half a unit
\* before decoding, less than two of the longest values after it, and the tool keeps
\* a prefix within its limit (maxDetectBytes, StreamRedactor.flush, boundedWriter).
THEOREM RedactionTyped == Spec => []TypeOK
    BY InvTyped, RedactionInvariant, PTL

\* At the end all is redacted as the whole would be.
LEMMA InvWhole == ValuesApart /\ Inv => StreamEqualsWhole
<1> SUFFICES ASSUME ValuesApart, Inv, closed, ~broken, raw = Encoded(text)
             PROVE  out = Redact(raw) /\ count = Redactions(raw)
    BY DEF StreamEqualsWhole
<1>1. raw = In(encoding, text)
    BY EncodedIn
<1> QED
    BY <1>1 DEF Inv, Finished

\* When no value begins where another ends, what `blindenv run' emits and counts is
\* the redaction of all of the output, however it is encoded and cut into writes
\* (NewOutputWriter, StreamRedactor.emitPoint).
THEOREM StreamingMakesNoDifference ==
    ASSUME ValuesApart
    PROVE  Spec => []StreamEqualsWhole
<1>1. Inv => StreamEqualsWhole
    BY InvWhole
<1> QED
    BY <1>1, RedactionInvariant, PTL

\* At the end no symbol of a value is left.
LEMMA InvRemnant == ValuesApart /\ Inv => RemnantFree
<1> SUFFICES ASSUME ValuesApart, Inv, closed, ~broken, raw = Encoded(text), Len(text) > 1
             PROVE  InSymbols(out) = Uncovered(text)
    BY DEF RemnantFree
<1>1. raw = In(encoding, text) /\ encoding \in Encodings /\ text \in Seq(Symbols)
    BY EncodedIn DEF Inv, Kept
<1>2. out = Redact(raw)
    BY <1>1 DEF Inv, Finished
<1>3. NormalizeUTF8(raw) = text
    <2>1. Len(text) >= 2
        BY <1>1
    <2> QED
        BY <2>1, <1>1, NormalizeEncoded
<1>4. Redact(raw) = Whole(text, Len(Entries)) /\ Redact(text) = Whole(text, Len(Entries))
    BY <1>1, <1>3, RedactPieces, RedactText
<1>5. InSymbols(Redact(text)) = Uncovered(text)
    BY <1>1, RedactedRemnant
<1> QED
    BY <1>2, <1>4, <1>5

\* When no value begins where another ends, no symbol of a value that occurs in the
\* output is emitted and every other one is, once and in order (Redactor.Redact,
\* which replaces the longest values first).
THEOREM NoRemnantLeft ==
    ASSUME ValuesApart
    PROVE  Spec => []RemnantFree
<1>1. Inv => RemnantFree
    BY InvRemnant
<1> QED
    BY <1>1, RedactionInvariant, PTL

\* Whatever stands behind them, the first symbols make the same answer once their
\* redaction is over the budget.
LEMMA TruncateThen ==
    ASSUME NEW X, NEW r \in Seq(X), NEW s \in Seq(X), NEW t \in Seq(X), Len(r) > MaxOutput
    PROVE  Truncate(Then(r, s)) = Truncate(Then(r, t))
<1>1. MaxOutput \in Nat
    BY RedactionAssumption
<1>2. ASSUME NEW u \in Seq(X)
      PROVE  Truncate(Then(r, u)) = Append(Part(r, 0, MaxOutput), Cut)
    <2>1. PICK z \in Seq(X) : z = Then(r, u)
        BY ThenFacts
    <2>2. Len(z) = Len(r) + Len(u)
        BY <2>1, ThenFacts
    <2>3. ~(Len(z) <= MaxOutput)
        BY <2>2, <1>1
    <2>4. MaxOutput <= Len(r) /\ 0 \in Nat /\ 0 <= MaxOutput
        BY <1>1
    <2>5. Part(z, 0, MaxOutput) = Part(r, 0, MaxOutput)
        BY <2>1, <2>4, <1>1, PartOfThen
    <2>6. SubSeq(z, 1, MaxOutput) = Part(z, 0, MaxOutput)
        BY DEF Part
    <2>7. Truncate(z) = Append(SubSeq(z, 1, MaxOutput), Cut)
        BY <2>3, Zenon DEF Truncate
    <2> QED
        BY <2>1, <2>5, <2>6, <2>7
<1> QED
    BY <1>2

\* Where no occurrence crosses, the text may be cut.
LEMMA NoCrossing ==
    ASSUME NEW s, NEW n \in Nat, Crossing(s, n) = {}
    PROVE  Apart(s, n)
<1> SUFFICES ASSUME NEW i \in 1..Len(Entries), NEW b \in 0..(n - 1), OccursAt(s, V(i), b)
             PROVE  b + Len(V(i)) <= n
    BY DEF Apart
<1>1. Entries[i] \in Range(Entries)
    BY EntriesFacts, LongestFirst
<1>2. OccursAt(s, Value[Entries[i]], b)
    BY DEF V
<1>3. ~(b + Len(Value[Entries[i]]) > n)
    BY <1>1, <1>2 DEF Crossing
<1>4. PICK v \in Nat : v = Len(V(i))
    BY VFacts
<1> QED
    BY <1>3, <1>4 DEF V

\* Cut in a safe place, the text and a prefix of it are redacted alike up to there.
LEMMA CutAlike ==
    ASSUME ValuesApart, NEW s \in Seq(Symbols), NEW n \in Nat, NEW m \in Nat,
           n <= m, m <= Len(s), Apart(s, n)
    PROVE  /\ Redact(s) = Then(Redact(Part(s, 0, n)), Redact(Part(s, n, Len(s))))
           /\ Redact(Part(s, 0, m)) = Then(Redact(Part(s, 0, n)), Redact(Part(s, n, m)))
           /\ Redact(Part(s, 0, n)) \in Seq(Elements)
           /\ Redact(Part(s, n, Len(s))) \in Seq(Elements)
           /\ Redact(Part(s, n, m)) \in Seq(Elements)
<1>1. PICK l \in Nat : l = Len(s) /\ n <= l /\ l <= l /\ m <= l
    OBVIOUS
<1>2. Part(s, 0, l) = s
    BY <1>1, PartAll
<1>3. Apart(Part(s, 0, l), n)
    BY <1>2
<1>4. Redact(Part(s, 0, l)) = Then(Redact(Part(s, 0, n)), Redact(Part(s, n, l)))
    BY <1>1, <1>3, RedactJoin
<1>5. Redact(Part(s, 0, m)) = Then(Redact(Part(s, 0, n)), Redact(Part(s, n, m)))
    BY <1>1, <1>3, RedactJoin
<1>6. /\ Part(s, 0, n) \in Seq(Symbols) /\ Part(s, n, l) \in Seq(Symbols)
      /\ Part(s, n, m) \in Seq(Symbols)
    <2>1. 0 \in Nat /\ 0 <= n /\ n <= Len(s) /\ l <= Len(s)
        BY <1>1
    <2> QED
        BY <2>1, <1>1, PartFacts
<1>7. /\ Redact(Part(s, 0, n)) \in Seq(Elements) /\ Redact(Part(s, n, l)) \in Seq(Elements)
      /\ Redact(Part(s, n, m)) \in Seq(Elements)
    BY <1>6, RedactText
<1> QED
    BY <1>1, <1>2, <1>4, <1>5, <1>7

\* When the symbols before a safe place fill the answer, those behind the limit
\* change nothing.
LEMMA FilledAnswer ==
    ASSUME ValuesApart, NEW s \in Seq(Symbols), NEW n \in Nat, NEW m \in Nat,
           n <= m, m <= Len(s), Apart(s, n), Len(Redact(Part(s, 0, n))) > MaxOutput
    PROVE  Truncate(Redact(Part(s, 0, m))) = Truncate(Redact(s))
<1>1. PICK r \in Seq(Elements) : r = Redact(Part(s, 0, n))
    BY CutAlike
<1>2. PICK x \in Seq(Elements) : x = Redact(Part(s, n, Len(s)))
    BY CutAlike
<1>3. PICK y \in Seq(Elements) : y = Redact(Part(s, n, m))
    BY CutAlike
<1>4. Redact(s) = Then(r, x) /\ Redact(Part(s, 0, m)) = Then(r, y)
    BY <1>1, <1>2, <1>3, CutAlike
<1>5. Truncate(Then(r, x)) = Truncate(Then(r, y))
    BY <1>1, TruncateThen
<1> QED
    BY <1>4, <1>5

\* What is kept of the text is redacted as in the whole, but for fewer symbols than
\* the longest value has.
LEMMA KeptAlike ==
    ASSUME ValuesApart, NEW s \in Seq(Symbols), NEW m \in Nat, m <= Len(s)
    PROVE  \E n \in 0..m :
              /\ m - n <= Keep
              /\ IsPrefix(Redact(Part(s, 0, n)), Redact(s))
              /\ Redact(Part(s, 0, m)) = Then(Redact(Part(s, 0, n)), Redact(Part(s, n, m)))
<1>1. PICK n \in 0..m : /\ n = m \/ Across(s, n, m)
                        /\ m - n <= Keep
                        /\ \A b \in 0..(n - 1) : ~Across(s, b, m)
    BY CutFacts
<1>2. n \in Nat /\ 0 \in Nat /\ 0 <= n /\ n <= m
    OBVIOUS
<1>3. Apart(s, 0)
    BY DEF Apart
<1>4. Apart(s, n)
    BY <1>1, <1>2, <1>3, SafePoint
<1>5. PICK r \in Seq(Elements) : r = Redact(Part(s, 0, n))
    BY <1>2, <1>4, CutAlike
<1>6. PICK x \in Seq(Elements) : x = Redact(Part(s, n, Len(s)))
    BY <1>2, <1>4, CutAlike
<1>7. Redact(s) = Then(r, x)
    BY <1>2, <1>4, <1>5, <1>6, CutAlike
<1>8. IsPrefix(r, Then(r, x))
    <2>1. PICK z \in Seq(Elements) : z = Then(r, x) /\ Len(z) = Len(r) + Len(x)
                                     /\ \A i \in 1..Len(r) : z[i] = r[i]
        BY ThenAt, ThenFacts
    <2>2. Len(r) <= Len(z)
        BY <2>1
    <2> QED
        BY <2>1, <2>2, PrefixMeans
<1>9. Redact(Part(s, 0, m)) = Then(Redact(Part(s, 0, n)), Redact(Part(s, n, m)))
    BY <1>2, <1>4, CutAlike
<1> QED
    BY <1>1, <1>5, <1>7, <1>8, <1>9

\* So is what the tool keeps.
LEMMA InvCaptured == ValuesApart /\ Inv => CapturedAsIfWhole
<1> SUFFICES ASSUME ValuesApart, Inv, encoding = "utf8"
             PROVE  CapturedAsIfWhole
    BY DEF CapturedAsIfWhole
<1>1. /\ encoding \in Encodings /\ text \in Seq(Symbols) /\ Begun(raw, encoding, text)
      /\ retained = UpTo(raw, CaptureLimit) /\ raw \in Seq(Elements)
    BY DEF Inv, Kept, Begun
<1>2. PICK m \in Nat : m = CaptureLimit /\ m = MaxOutput + MaxValueLen
    BY CaptureLimitFacts DEF CaptureLimit
<1>3. raw \in Seq(Symbols)
    BY <1>1, PlainText
<1>4. PICK h \in Nat : /\ h <= Len(raw) /\ retained = Part(raw, 0, h)
                       /\ Len(raw) <= m \/ h = m
    <2>1. CASE Len(raw) <= m
        <3>1. retained = raw
            BY <2>1, <1>1, <1>2 DEF UpTo
        <3>2. Part(raw, 0, Len(raw)) = raw
            BY <1>3, PartAll
        <3>3. Len(raw) \in Nat /\ Len(raw) <= Len(raw)
            BY <1>3
        <3> QED
            BY <3>1, <3>2, <3>3, <2>1
    <2>2. CASE ~(Len(raw) <= m)
        <3>1. retained = SubSeq(raw, 1, m)
            BY <1>1, <1>2, <2>2, Zenon DEF UpTo
        <3>2. retained = Part(raw, 0, m)
            BY <3>1 DEF Part
        <3> QED
            BY <3>2, <2>2, <1>3
    <2> QED
        BY <2>1, <2>2
<1>5. ASSUME Len(raw) <= m \/ \E n \in 0..m : Fills(n)
      PROVE  Returned = Truncate(Redact(raw))
    <2>1. CASE Len(raw) <= m
        <3>1. retained = raw
            BY <2>1, <1>1, <1>2 DEF UpTo
        <3> QED
            BY <3>1 DEF Returned
    <2>2. CASE ~(Len(raw) <= m)
        <3>1. PICK n \in 0..m : Fills(n)
            BY <2>2, <1>5
        <3>2. n \in Nat /\ n <= m /\ m <= Len(raw)
            BY <2>2, <1>3
        <3>3. Apart(raw, n)
            BY <3>1, <3>2, NoCrossing DEF Fills
        <3>4. Part(raw, 0, n) = SubSeq(raw, 1, n)
            BY DEF Part
        <3>5. Len(Redact(Part(raw, 0, n))) > MaxOutput
            BY <3>1, <3>4 DEF Fills
        <3>6. Truncate(Redact(Part(raw, 0, m))) = Truncate(Redact(raw))
            BY <3>2, <3>3, <3>5, <1>3, FilledAnswer
        <3>7. h = m
            BY <2>2, <1>3, <1>4
        <3> QED
            BY <3>6, <3>7, <1>4 DEF Returned
    <2> QED
        BY <2>1, <2>2
<1>6. \E n \in 0..Len(retained) :
          LET first == Redact(SubSeq(raw, 1, n))
          IN  /\ Len(retained) - n <= Keep
              /\ IsPrefix(first, Redact(raw))
              /\ Redact(retained) = first \o Redact(After(retained, n))
    <2>1. PICK n \in 0..h :
              /\ h - n <= Keep
              /\ IsPrefix(Redact(Part(raw, 0, n)), Redact(raw))
              /\ Redact(Part(raw, 0, h)) = Then(Redact(Part(raw, 0, n)), Redact(Part(raw, n, h)))
        BY <1>3, <1>4, KeptAlike
    <2>2. Len(retained) = h
        <3>1. 0 \in Nat /\ 0 <= h
            OBVIOUS
        <3>2. Len(Part(raw, 0, h)) = h - 0
            BY <3>1, <1>3, <1>4, PartLen
        <3> QED
            BY <3>2, <1>4
    <2>3. Part(raw, 0, n) = SubSeq(raw, 1, n)
        BY DEF Part
    <2>4. After(retained, n) = Part(raw, n, h)
        <3>1. n \in Nat /\ 0 \in Nat /\ 0 <= n /\ n <= h /\ h <= h
            OBVIOUS
        <3>2. After(retained, n) = Part(retained, n, h)
            BY <2>2 DEF After, Part
        <3>3. PICK w \in Seq(Symbols) : w = raw
            BY <1>3
        <3>4. Part(Part(raw, 0, h), n, h) = Part(raw, n, h)
            BY <3>1, <1>3, <1>4, PartFromStart
        <3> QED
            BY <3>2, <3>4, <1>4
    <2>5. Redact(retained) = Redact(SubSeq(raw, 1, n)) \o Redact(After(retained, n))
        BY <2>1, <2>3, <2>4, <1>4, Zenon DEF Then
    <2> QED
        BY <2>1, <2>2, <2>3, <2>5
<1> QED
    BY <1>2, <1>5, <1>6 DEF CapturedAsIfWhole

\* When no value begins where another ends, execute_with_secrets answers UTF-8
\* output without a mark as if it had kept all of it, whenever that answer is made
\* within the capture limit; and whenever it is not, fewer symbols than the longest
\* value has, at the end of what it kept, are redacted in another way (captureLimit,
\* handleExecute).  Nothing is assumed of the lengths of markers.
THEOREM CaptureLosesNothing ==
    ASSUME ValuesApart
    PROVE  Spec => []CapturedAsIfWhole
<1>1. Inv => CapturedAsIfWhole
    BY InvCaptured
<1> QED
    BY <1>1, RedactionInvariant, PTL
=============================================================================
