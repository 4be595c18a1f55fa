---------------------------- MODULE ReadersProofs ----------------------------
(***************************************************************************)
(* What the runs of Backup and of StateView check, for any vault and any   *)
(* writes of another client: first a backup, then the page, of which the   *)
(* same is shown.  A job is followed by the calls it has still to make:    *)
(* they are distinct, and made in an order that the relation r of a plan   *)
(* allows; the page makes its calls in a row.                              *)
(***************************************************************************)
EXTENDS Backup, StateView, SequenceFacts

-----------------------------------------------------------------------------
(***************************************************************************)
(* Plans: sequences of sets of calls.                                      *)
(***************************************************************************)
Pending(p) == UNION {p[i] : i \in 1..Len(p)}

\* Pairs of sets of F whose calls the relation r lets be made one after the other.
Before(F, r) == {ss \in F \X F : \A c \in ss[1], d \in ss[2] : <<c, d>> \in r}
Free(S, r) == \A c, d \in S : c # d => <<c, d>> \in r

\* The sets of p are of F, and whatever is made earlier may be, as r has it.
Ordered(p, F, r) == p \in Seq(F) /\ Follows(p, Before(F, r))

\* Every call of p may be made before every one of q.
Precedes(p, q, r) == \A c \in Pending(p), d \in Pending(q) : <<c, d>> \in r

\* The sets of F may be made in any order, and what is left of one is of F.
Steady(F, r) ==
    /\ \A S \in F : Free(S, r) /\ \A c : S \ {c} \in F
    /\ \A c : <<c, c>> \notin r

\* A call of a plan is in one of its sets.
LEMMA PendingFacts ==
    ASSUME NEW F, NEW p \in Seq(F)
    PROVE  /\ Pending(p) \subseteq UNION F
           /\ \A i \in 1..Len(p) : p[i] \in F /\ p[i] \subseteq Pending(p)
<1>1. \A i \in 1..Len(p) : p[i] \in F
    BY ElementOfSeq
<1> QED
    BY <1>1 DEF Pending

\* Nothing is pending in the empty plan, a set of calls in the plan of it alone.
LEMMA SmallPlans ==
    /\ Pending(<<>>) = {}
    /\ \A F, r : Ordered(<<>>, F, r)
    /\ \A S : Pending(<<S>>) = S
    /\ \A F, r : \A S \in F : Ordered(<<S>>, F, r)
<1>1. Pending(<<>>) = {}
    BY DEF Pending
<1>2. ASSUME NEW F, NEW r PROVE Ordered(<<>>, F, r)
    BY DEF Ordered, Follows
<1>3. ASSUME NEW S PROVE Pending(<<S>>) = S
    <2>1. Len(<<S>>) = 1 /\ <<S>>[1] = S
        OBVIOUS
    <2> QED
        BY <2>1 DEF Pending
<1>4. ASSUME NEW F, NEW r, NEW S \in F PROVE Ordered(<<S>>, F, r)
    <2>1. <<S>> \in Seq(F) /\ Len(<<S>>) = 1 /\ <<S>>[1] = S
        BY <1>4
    <2>2. Follows(<<S>>, Before(F, r))
        BY <2>1 DEF Follows
    <2> QED
        BY <2>1, <2>2 DEF Ordered
<1> QED
    BY <1>1, <1>2, <1>3, <1>4

\* Between the sets of two plans the order is that of their calls.
LEMMA PrecedesJoins ==
    ASSUME NEW F, NEW r, NEW p \in Seq(F), NEW q \in Seq(F), Precedes(p, q, r)
    PROVE  Joins(p, q, Before(F, r))
<1> SUFFICES ASSUME NEW i \in 1..Len(p), NEW j \in 1..Len(q)
             PROVE  <<p[i], q[j]>> \in Before(F, r)
    BY DEF Joins
<1>1. p[i] \in F /\ p[i] \subseteq Pending(p) /\ q[j] \in F /\ q[j] \subseteq Pending(q)
    BY PendingFacts
<1> QED
    BY <1>1 DEF Before, Precedes

\* Two plans that can be put one behind the other.
Composes(p, q, F, r) == Ordered(p, F, r) /\ Ordered(q, F, r) /\ Precedes(p, q, r)

\* What is put behind a plan keeps its order, and what is pending in it.
LEMMA OrderedConcat ==
    ASSUME NEW F, NEW r, NEW p, NEW q, Composes(p, q, F, r)
    PROVE  Ordered(p \o q, F, r) /\ Pending(p \o q) = Pending(p) \cup Pending(q)
<1> USE DEF Composes
<1>1. p \in Seq(F) /\ q \in Seq(F)
    BY DEF Ordered
<1>2. PICK u \in Seq(F) : u = p \o q
    <2>1. PICK X : X = F
        OBVIOUS
    <2>2. p \o q \in Seq(X)
        BY <1>1, <2>1, ConcatProperties
    <2> QED
        BY <2>1, <2>2
<1>3. /\ Len(u) = Len(p) + Len(q) /\ Len(p) \in Nat /\ Len(q) \in Nat
      /\ \A i \in 1..Len(p) : u[i] = p[i]
      /\ \A i \in 1..Len(q) : u[Len(p) + i] = q[i]
    BY <1>1, <1>2
<1>4. Follows(u, Before(F, r))
    BY <1>1, <1>2, PrecedesJoins, ConcatFollows DEF Ordered
<1>5. \A i \in 1..Len(u) : i \in 1..Len(p) \/ \E j \in 1..Len(q) : i = Len(p) + j
    <2> SUFFICES ASSUME NEW i \in 1..Len(u), i \notin 1..Len(p)
                 PROVE  \E j \in 1..Len(q) : i = Len(p) + j
        OBVIOUS
    <2>1. i - Len(p) \in 1..Len(q) /\ i = Len(p) + (i - Len(p))
        BY <1>3
    <2> QED
        BY <2>1
<1>7. Pending(u) = Pending(p) \cup Pending(q)
    <2>1. Pending(u) \subseteq Pending(p) \cup Pending(q)
        <3> SUFFICES ASSUME NEW i \in 1..Len(u) PROVE u[i] \subseteq Pending(p) \cup Pending(q)
            BY DEF Pending
        <3>1. CASE i \in 1..Len(p)
            BY <3>1, <1>3 DEF Pending
        <3>2. CASE \E j \in 1..Len(q) : i = Len(p) + j
            BY <3>2, <1>3 DEF Pending
        <3> QED
            BY <3>1, <3>2, <1>5
    <2>2. \A i \in 1..Len(p) : i \in 1..Len(u)
        BY <1>3
    <2>3. \A i \in 1..Len(q) : Len(p) + i \in 1..Len(u)
        BY <1>3
    <2>4. Pending(p) \subseteq Pending(u)
        BY <2>2, <1>3 DEF Pending
    <2>5. Pending(q) \subseteq Pending(u)
        BY <2>3, <1>3 DEF Pending
    <2> QED
        BY <2>1, <2>4, <2>5
<1> QED
    BY <1>2, <1>4, <1>7 DEF Ordered

\* The plans of a set's elements can be put one behind the other.
Compatible(S, f, F, r) ==
    /\ IsFiniteSet(S)
    /\ \A x \in S : Ordered(f[x], F, r)
    /\ \A x, y \in S : x # y => Precedes(f[x], f[y], r)

\* So are the plans that Calls makes, and nothing else is pending in them.
LEMMA OrderedCalls ==
    ASSUME NEW F, NEW r, NEW S, NEW f, Compatible(S, f, F, r)
    PROVE  Ordered(Calls(S, f), F, r) /\ Pending(Calls(S, f)) = UNION {Pending(f[x]) : x \in S}
<1>0. PICK n \in Nat : n = Cardinality(S)
    BY SetToSeqFacts DEF Compatible
<1>1. PICK g \in [1..n -> S] :
         /\ g = SetToSeq(S)
         /\ \A i, j \in 1..n : g[i] = g[j] => i = j
         /\ \A x \in S : \E i \in 1..n : g[i] = x
    BY <1>0, SetToSeqFacts DEF Compatible
<1>2. PICK ss : ss = [i \in 1..n |-> f[g[i]]]
    OBVIOUS
<1>3. Calls(S, f) = FlattenSeq(ss)
    BY <1>0, <1>1, <1>2 DEF Calls
<1>4. ss \in Seq(Seq(F)) /\ Len(ss) = n /\ \A i \in 1..n : ss[i] = f[g[i]] /\ g[i] \in S
    <2>1. \A i \in 1..n : g[i] \in S /\ f[g[i]] \in Seq(F)
        BY <1>1 DEF Compatible, Ordered
    <2> QED
        BY <1>1, <1>2, <2>1
<1>5. Follows(FlattenSeq(ss), Before(F, r))
    <2>1. \A i \in 1..Len(ss) : Follows(ss[i], Before(F, r))
        BY <1>4 DEF Compatible, Ordered
    <2>2. ASSUME NEW i \in 1..Len(ss), NEW j \in 1..Len(ss), i < j
          PROVE  Joins(ss[i], ss[j], Before(F, r))
        <3>1. g[i] # g[j]
            BY <1>1, <1>4, <2>2
        <3>2. Precedes(ss[i], ss[j], r)
            BY <1>4, <3>1 DEF Compatible
        <3>3. ss[i] \in Seq(F) /\ ss[j] \in Seq(F)
            BY <1>4 DEF Compatible, Ordered
        <3> QED
            BY <3>2, <3>3, PrecedesJoins
    <2> QED
        BY <1>4, <2>1, <2>2, FlattenFollows
<1>6. PICK u \in Seq(F) : u = FlattenSeq(ss)
    BY <1>4, FlattenType
<1>7. DOMAIN u = 1..Len(u) /\ Range(u) = UNION {Range(ss[i]) : i \in 1..n}
    <2>1. PICK X : X = F
        OBVIOUS
    <2>2. Range(FlattenSeq(ss)) = UNION {Range(ss[i]) : i \in 1..Len(ss)}
        BY <1>4, <2>1, FlattenRange
    <2> QED
        BY <2>2, <1>4, <1>6
<1>8. \A i \in 1..n : DOMAIN ss[i] = 1..Len(ss[i])
    BY <1>4 DEF Compatible, Ordered
<1>10. Pending(u) = UNION Range(u)
    BY <1>7 DEF Pending, Range
<1>11. \A i \in 1..n : Pending(ss[i]) = UNION Range(ss[i])
    BY <1>8 DEF Pending, Range
<1>12. Pending(u) = UNION {Pending(f[x]) : x \in S}
    <2>1. Pending(u) = UNION {Pending(ss[i]) : i \in 1..n}
        BY <1>7, <1>10, <1>11
    <2>2. {Pending(ss[i]) : i \in 1..n} = {Pending(f[x]) : x \in S}
        BY <1>1, <1>4
    <2> QED
        BY <2>1, <2>2
<1> QED
    BY <1>3, <1>5, <1>6, <1>12 DEF Ordered

\* A call of the first set has been made: it is no longer pending, the others are.
LEMMA OrderedRest ==
    ASSUME NEW F, NEW r, Ordered(plan, F, r), Steady(F, r), plan # <<>>, NEW c \in Head(plan)
    PROVE  /\ Ordered(Rest(c), F, r) /\ Pending(Rest(c)) = Pending(plan) \ {c}
           /\ c \in Pending(plan)
           /\ \A d \in Pending(plan) : d # c => <<c, d>> \in r
<1>1. plan \in Seq(F)
    BY DEF Ordered
<1>2. PICK h \in F, t \in Seq(F) : h = Head(plan) /\ t = Tail(plan)
    <2>1. PICK X : X = F
        OBVIOUS
    <2>2. Head(plan) \in X /\ Tail(plan) \in Seq(X)
        BY <1>1, <2>1
    <2> QED
        BY <2>1, <2>2
<1>3. /\ Len(plan) \in Nat /\ Len(plan) # 0 /\ h = plan[1] /\ Len(t) = Len(plan) - 1
      /\ \A i \in 1..Len(t) : t[i] = plan[i + 1]
    BY <1>1, <1>2
<1>4. h \in F /\ h \subseteq Pending(plan) /\ 1 \in 1..Len(plan)
    BY <1>1, <1>3, PendingFacts
<1>5. \A i \in 1..Len(t) : i + 1 \in 1..Len(plan)
    BY <1>3
<1>6. Ordered(t, F, r)
    <2>1. Follows(t, Before(F, r))
        <3> SUFFICES ASSUME NEW i \in 1..Len(t), NEW j \in 1..Len(t), i < j
                     PROVE  <<t[i], t[j]>> \in Before(F, r)
            BY DEF Follows
        <3>1. i + 1 \in 1..Len(plan) /\ j + 1 \in 1..Len(plan) /\ i + 1 < j + 1
            BY <1>5
        <3> QED
            BY <3>1, <1>3 DEF Ordered, Follows
    <2> QED
        BY <1>2, <2>1 DEF Ordered
<1>7. Free(h, r)
    BY <1>2 DEF Steady
<1>8. ASSUME NEW a \in h, NEW d \in Pending(t) PROVE <<a, d>> \in r
    <2>1. PICK i \in 1..Len(t) : d \in t[i]
        BY <1>8 DEF Pending
    <2>2. i + 1 \in 1..Len(plan) /\ 1 < i + 1 /\ t[i] = plan[i + 1]
        BY <2>1, <1>3, <1>5
    <2>3. <<plan[1], plan[i + 1]>> \in Before(F, r)
        BY <2>2, <1>4 DEF Ordered, Follows
    <2> QED
        BY <2>1, <2>2, <2>3, <1>3, <1>8 DEF Before
<1>9. Pending(plan) = h \cup Pending(t)
    <2>1. \A i \in 1..Len(plan) : i = 1 \/ (i - 1 \in 1..Len(t) /\ plan[i] = t[i - 1])
        <3> SUFFICES ASSUME NEW i \in 1..Len(plan), i # 1 PROVE i - 1 \in 1..Len(t) /\ plan[i] = t[i - 1]
            OBVIOUS
        <3>1. i - 1 \in 1..Len(t) /\ (i - 1) + 1 = i
            BY <1>3
        <3> QED
            BY <3>1, <1>3
    <2>2. Pending(plan) \subseteq h \cup Pending(t)
        BY <2>1, <1>3 DEF Pending
    <2>3. Pending(t) \subseteq Pending(plan)
        BY <1>3, <1>5 DEF Pending
    <2> QED
        BY <2>2, <2>3, <1>4
<1>10. \A d \in Pending(plan) : d # c => <<c, d>> \in r
    BY <1>2, <1>7, <1>8, <1>9 DEF Free
<1>11. c \notin Pending(t)
    BY <1>2, <1>8 DEF Steady
<1>12. CASE h = {c}
    <2>1. Rest(c) = t
        BY <1>2, <1>12 DEF Rest
    <2> QED
        BY <2>1, <1>2, <1>4, <1>6, <1>9, <1>10, <1>11, <1>12
<1>13. CASE h # {c}
    <2>1. PICK k : k = h \ {c}
        OBVIOUS
    <2>2. Rest(c) = <<k>> \o t
        BY <2>1, <1>2, <1>13 DEF Rest
    <2>3. Ordered(<<k>>, F, r) /\ Pending(<<k>>) = k
        <3>1. k \in F
            BY <2>1, <1>2 DEF Steady
        <3> QED
            BY <3>1, SmallPlans
    <2>4. Precedes(<<k>>, t, r)
        BY <2>1, <2>3, <1>8 DEF Precedes
    <2>5. Ordered(Rest(c), F, r) /\ Pending(Rest(c)) = k \cup Pending(t)
        <3>1. PICK q : q = <<k>>
            OBVIOUS
        <3>2. Ordered(q, F, r) /\ Precedes(q, t, r) /\ Pending(q) = k
            BY <3>1, <2>3, <2>4
        <3>3. Ordered(q \o t, F, r) /\ Pending(q \o t) = Pending(q) \cup Pending(t)
            <4>1. Composes(q, t, F, r)
                BY <3>2, <1>6 DEF Composes
            <4> QED
                BY <4>1, OrderedConcat
        <3> QED
            BY <3>1, <3>2, <3>3, <2>2
    <2> QED
        BY <2>1, <2>5, <1>2, <1>4, <1>9, <1>10, <1>11
<1> QED
    BY <1>12, <1>13

-----------------------------------------------------------------------------
(***************************************************************************)
(* The vault, whoever writes.                                              *)
(***************************************************************************)
\* Every project there is after an operation is new or was there, by its slug; and
\* an operation that makes one removes none.
Descends ==
    /\ nextId' \in Nat /\ nextId <= nextId' /\ (nextId' = nextId \/ projects \subseteq projects')
    /\ \A po \in projects' :
          \/ po.id \in nextId..(nextId' - 1)
          \/ \E pr \in projects : pr.id = po.id /\ pr.slug = po.slug

\* The images of the elements of a finite set are finite.
LEMMA ImageFinite ==
    ASSUME NEW S, IsFiniteSet(S), NEW f
    PROVE  IsFiniteSet({f[x] : x \in S})
<1>1. PICK T : T = {f[x] : x \in S}
    OBVIOUS
<1>2. PICK g : g = [x \in S |-> f[x]]
    OBVIOUS
<1>3. g \in Surjection(S, T)
    BY <1>1, <1>2 DEF Surjection
<1> QED
    BY <1>1, <1>3, FS_Surjection

\* A new project has an identity of its own and nothing in it.
LEMMA CreateProjectKeeps ==
    ASSUME VaultInv, NEW q, WellNamed(q), q.op = "CreateProject", Named(q.slug) = {}, CreateProject(q)
    PROVE  VaultInv' /\ Descends
<1>1. PICK np : np = [id |-> nextId, slug |-> q.slug, exec |-> FALSE, open |-> FALSE]
    OBVIOUS
<1>2. /\ projects' = projects \cup {np} /\ nextId' = nextId + 1
      /\ environments' = environments /\ definitions' = definitions
      /\ np.id = nextId /\ np.slug = q.slug
    BY <1>1 DEF CreateProject
<1>3. q.slug \in Slugs /\ \A pr \in projects : pr.slug # q.slug
    BY DEF WellNamed, Named, ProjectOps
<1>4. ProjectInv'
    <2>1. nextId \in Nat \ {0} /\ np \in [id : Nat \ {0}, slug : Slugs, exec : BOOLEAN, open : BOOLEAN]
        BY <1>1, <1>3 DEF VaultInv, ProjectInv
    <2>2. IsFiniteSet(projects')
        BY <1>2, FS_AddElement DEF VaultInv, ProjectInv
    <2>3. \A pr \in projects : pr.id < nextId /\ pr.id \in Nat
        BY DEF VaultInv, ProjectInv
    <2>4. nextId' \in Nat \ {0} /\ \A pr \in projects' : pr.id < nextId'
        BY <1>2, <2>1, <2>3
    <2>5. \A pr, po \in projects' : pr.id = po.id \/ pr.slug = po.slug => pr = po
        <3>1. \A pr \in projects : pr.id # np.id /\ pr.slug # np.slug
            BY <1>2, <1>3, <2>1, <2>3
        <3> QED
            BY <3>1, <1>2 DEF VaultInv, ProjectInv
    <2> QED
        BY <1>2, <2>1, <2>2, <2>4, <2>5 DEF VaultInv, ProjectInv
<1>5. \A id : ~Gone(id) => ~Gone(id)'
    BY <1>2 DEF Gone
<1>6. EnvironmentInv' /\ DefinitionInv'
    BY <1>2, <1>5 DEF VaultInv, EnvironmentInv, DefinitionInv, HasEnvironment
<1>7. Descends
    <2>1. nextId \in Nat
        BY DEF VaultInv, ProjectInv
    <2> QED
        BY <1>2, <2>1 DEF Descends
<1> QED
    BY <1>4, <1>6, <1>7 DEF VaultInv

\* A project goes with its environments and definitions.
LEMMA DeleteProjectKeeps ==
    ASSUME VaultInv, NEW q, DeleteProject(q)
    PROVE  VaultInv' /\ Descends
<1>1. PICK ids : ids = {pr.id : pr \in Named(q.slug)}
    OBVIOUS
<1>2. /\ projects' = projects \ Named(q.slug) /\ nextId' = nextId
      /\ environments' = {e \in environments : e.pid \notin ids}
      /\ definitions' = {d \in definitions : d.pid \notin ids}
    BY <1>1 DEF DeleteProject
<1>3. ProjectInv'
    BY <1>2, FS_Subset DEF VaultInv, ProjectInv
<1>4. \A id : ~Gone(id) /\ id \notin ids => ~Gone(id)'
    BY <1>1, <1>2 DEF Gone
<1>5. EnvironmentInv'
    BY <1>2, <1>4, FS_Subset DEF VaultInv, EnvironmentInv
<1>6. DefinitionInv'
    <2>1. \A id, n : id \notin ids /\ HasEnvironment(id, n) => HasEnvironment(id, n)'
        BY <1>2 DEF HasEnvironment
    <2>2. IsFiniteSet(definitions')
        BY <1>2, FS_Subset DEF VaultInv, DefinitionInv
    <2> QED
        BY <1>2, <1>4, <2>1, <2>2 DEF VaultInv, DefinitionInv
<1>7. Descends
    BY <1>2 DEF Descends, VaultInv, ProjectInv
<1> QED
    BY <1>3, <1>5, <1>6, <1>7 DEF VaultInv

\* A switch changes neither a project's identity nor its slug.
LEMMA SwitchFacts ==
    ASSUME ProjectInv, NEW q, q.allow \in BOOLEAN, NEW pr \in projects
    PROVE  /\ WithCapability(pr, q) \in [id : Nat \ {0}, slug : Slugs, exec : BOOLEAN, open : BOOLEAN]
           /\ WithCapability(pr, q).id = pr.id /\ WithCapability(pr, q).slug = pr.slug
<1>1. pr \in [id : Nat \ {0}, slug : Slugs, exec : BOOLEAN, open : BOOLEAN]
    BY DEF ProjectInv
<1> QED
    BY <1>1 DEF WithCapability

\* A switch is set in place.
LEMMA SetAllowKeeps ==
    ASSUME VaultInv, NEW q, WellNamed(q), SetAllow(q)
    PROVE  VaultInv' /\ Descends
<1>1. PICK sw : sw = [pr \in projects |-> WithCapability(pr, q)]
    OBVIOUS
<1>2. /\ projects' = (projects \ Named(q.slug)) \cup {sw[pr] : pr \in Named(q.slug)}
      /\ nextId' = nextId /\ environments' = environments /\ definitions' = definitions
    BY <1>1 DEF SetAllow, Named
<1>3. \A pr \in projects :
         /\ sw[pr] \in [id : Nat \ {0}, slug : Slugs, exec : BOOLEAN, open : BOOLEAN]
         /\ sw[pr].id = pr.id /\ sw[pr].slug = pr.slug
    BY <1>1, SwitchFacts DEF VaultInv, WellNamed
<1>4. \A po \in projects' : \E pr \in projects :
         pr.id = po.id /\ pr.slug = po.slug /\ po = IF pr \in Named(q.slug) THEN sw[pr] ELSE pr
    BY <1>2, <1>3 DEF Named
<1>5. ProjectInv'
    <2>1. IsFiniteSet(projects')
        <3>1. IsFiniteSet(projects) /\ IsFiniteSet(Named(q.slug))
            BY FS_Subset DEF VaultInv, ProjectInv, Named
        <3>2. IsFiniteSet({sw[pr] : pr \in Named(q.slug)})
            BY <3>1, ImageFinite
        <3> QED
            BY <1>2, <3>1, <3>2, FS_Union, FS_Subset
    <2>2. projects' \subseteq [id : Nat \ {0}, slug : Slugs, exec : BOOLEAN, open : BOOLEAN]
        BY <1>2, <1>3 DEF VaultInv, ProjectInv, Named
    <2>3. \A pr, po \in projects' : pr.id = po.id \/ pr.slug = po.slug => pr = po
        <3> SUFFICES ASSUME NEW pr \in projects', NEW po \in projects', pr.id = po.id \/ pr.slug = po.slug
                     PROVE  pr = po
            OBVIOUS
        <3>1. PICK a \in projects :
                 a.id = pr.id /\ a.slug = pr.slug /\ pr = IF a \in Named(q.slug) THEN sw[a] ELSE a
            BY <1>4
        <3>2. PICK b \in projects :
                 b.id = po.id /\ b.slug = po.slug /\ po = IF b \in Named(q.slug) THEN sw[b] ELSE b
            BY <1>4
        <3>3. a = b
            BY <3>1, <3>2 DEF VaultInv, ProjectInv
        <3> QED
            BY <3>1, <3>2, <3>3
    <2>4. \A po \in projects' : po.id < nextId'
        BY <1>2, <1>4 DEF VaultInv, ProjectInv
    <2> QED
        BY <1>2, <2>1, <2>2, <2>3, <2>4 DEF VaultInv, ProjectInv
<1>6. \A id : ~Gone(id) => ~Gone(id)'
    <2> SUFFICES ASSUME NEW id, ~Gone(id), id # 0 PROVE \E po \in projects' : po.id = id
        BY DEF Gone
    <2>1. PICK pr \in projects : pr.id = id
        BY DEF Gone
    <2>2. CASE pr \in Named(q.slug)
        BY <2>1, <2>2, <1>2, <1>3
    <2>3. CASE pr \notin Named(q.slug)
        BY <2>1, <2>3, <1>2
    <2> QED
        BY <2>2, <2>3
<1>7. EnvironmentInv' /\ DefinitionInv'
    BY <1>2, <1>6 DEF VaultInv, EnvironmentInv, DefinitionInv, HasEnvironment
<1>8. Descends
    BY <1>2, <1>4 DEF Descends, VaultInv, ProjectInv
<1> QED
    BY <1>5, <1>7, <1>8 DEF VaultInv

\* What leaves the projects alone keeps them.
LEMMA ProjectsStay ==
    ASSUME ProjectInv, UNCHANGED <<projects, nextId>>
    PROVE  ProjectInv' /\ Descends /\ \A id : Gone(id)' <=> Gone(id)
BY DEF ProjectInv, Descends, Gone

\* An environment is added to a project that there is.
LEMMA CreateEnvironmentKeeps ==
    ASSUME VaultInv, NEW q, NEW id, WellNamed(q), q.op = "CreateEnvironment", Binds(q, id), ~Gone(id),
           CreateEnvironment(q, id)
    PROVE  VaultInv' /\ Descends
<1>1. q.env \in Envs /\ id \in Nat \ {0}
    BY ReadersAssumption DEF WellNamed, Binds, Named, VaultInv, ProjectInv, ProjectOps
<1>2. PICK e : e = [pid |-> id, name |-> q.env]
    OBVIOUS
<1>3. environments' = environments \cup {e} /\ UNCHANGED <<projects, nextId, definitions>>
    BY <1>2 DEF CreateEnvironment
<1>4. ProjectInv' /\ Descends /\ \A x : Gone(x)' <=> Gone(x)
    BY <1>3, ProjectsStay DEF VaultInv
<1>5. EnvironmentInv'
    <2>1. IsFiniteSet(environments')
        BY <1>3, FS_AddElement DEF VaultInv, EnvironmentInv
    <2>2. e \in [pid : Nat \ {0}, name : Envs] /\ e.pid = id
        BY <1>1, <1>2
    <2> QED
        BY <1>3, <1>4, <2>1, <2>2 DEF VaultInv, EnvironmentInv
<1>6. DefinitionInv'
    BY <1>3, <1>4 DEF VaultInv, DefinitionInv, HasEnvironment
<1> QED
    BY <1>4, <1>5, <1>6 DEF VaultInv

\* An environment takes its definitions with it.
LEMMA DeleteEnvironmentKeeps ==
    ASSUME VaultInv, NEW q, NEW id, DeleteEnvironment(q, id)
    PROVE  VaultInv' /\ Descends
<1>1. /\ environments' = environments \ {[pid |-> id, name |-> q.env]}
      /\ definitions' = definitions \ InScope(id, q.env) /\ UNCHANGED <<projects, nextId>>
    BY DEF DeleteEnvironment
<1>2. ProjectInv' /\ Descends /\ \A x : Gone(x)' <=> Gone(x)
    BY <1>1, ProjectsStay DEF VaultInv
<1>3. EnvironmentInv'
    <2>1. IsFiniteSet(environments')
        BY <1>1, FS_Subset DEF VaultInv, EnvironmentInv
    <2> QED
        BY <1>1, <1>2, <2>1 DEF VaultInv, EnvironmentInv
<1>4. DefinitionInv'
    <2>1. IsFiniteSet(definitions')
        BY <1>1, FS_Subset DEF VaultInv, DefinitionInv
    <2>2. \A d \in definitions' : HasEnvironment(d.pid, d.env) => HasEnvironment(d.pid, d.env)'
        BY <1>1 DEF HasEnvironment, InScope
    <2> QED
        BY <1>1, <1>2, <2>1, <2>2 DEF VaultInv, DefinitionInv
<1> QED
    BY <1>2, <1>3, <1>4 DEF VaultInv

\* At most one definition takes the place of those of a key in a scope.
LEMMA DefineKeeps ==
    ASSUME VaultInv, NEW q, NEW id, WellNamed(q), Binds(q, id), ~Gone(id), q.op \in ScopeOps,
           ~Refused(q, id, "ErrEnvironmentNotFound"),
           NEW ds, IsFiniteSet(ds), Define(q, id, ds),
           \A d \in ds : \E v : d = Definition(q, id, v), \A d, o \in ds : d = o
    PROVE  VaultInv' /\ Descends
<1>1. /\ definitions' = (definitions \ Addressed(q, id)) \cup ds
      /\ UNCHANGED <<projects, nextId, environments>>
    BY DEF Define
<1>2. ProjectInv' /\ Descends /\ \A x : Gone(x)' <=> Gone(x)
    BY <1>1, ProjectsStay DEF VaultInv
<1>3. EnvironmentInv'
    BY <1>1, <1>2 DEF VaultInv, EnvironmentInv
<1>4. id \in Nat /\ q.env \in Envs \cup {AllEnvs} /\ MetaIn(q) \in Metadata
      /\ (id # 0 /\ q.env # AllEnvs => HasEnvironment(id, q.env))
    BY DEF Binds, Named, WellNamed, MetaIn, Refused, VaultInv, ProjectInv
<1>5. \A d \in ds : d.pid = id /\ d.env = q.env /\ d.key = q.key /\ MetaIn(d) = MetaIn(q)
    BY DEF Definition, MetaIn
<1>6. IsFiniteSet(definitions')
    BY <1>1, FS_Subset, FS_Union DEF VaultInv, DefinitionInv
<1>7. ASSUME NEW d \in definitions'
      PROVE  /\ d.pid \in Nat /\ d.env \in Envs \cup {AllEnvs} /\ MetaIn(d) \in Metadata
             /\ ~Gone(d.pid)'
             /\ d.pid # 0 /\ d.env # AllEnvs => HasEnvironment(d.pid, d.env)'
    <2>1. CASE d \in ds
        BY <2>1, <1>1, <1>2, <1>4, <1>5 DEF HasEnvironment
    <2>2. CASE d \in definitions
        BY <2>2, <1>1, <1>2 DEF HasEnvironment, VaultInv, DefinitionInv
    <2> QED
        BY <2>1, <2>2, <1>1
<1>8. ASSUME NEW d \in definitions', NEW o \in definitions', d.pid = o.pid /\ d.env = o.env /\ d.key = o.key
      PROVE  d = o
    <2>1. \A x \in definitions \ Addressed(q, id) : ~(x.pid = id /\ x.env = q.env /\ x.key = q.key)
        BY DEF Addressed, InScope
    <2>2. CASE d \in ds /\ o \in ds
        BY <2>2
    <2>3. CASE d \notin ds /\ o \notin ds
        BY <2>3, <1>1, <1>8 DEF VaultInv, DefinitionInv
    <2>4. CASE d \in ds /\ o \notin ds
        BY <2>4, <2>1, <1>1, <1>5, <1>8
    <2>5. CASE d \notin ds /\ o \in ds
        BY <2>5, <2>1, <1>1, <1>5, <1>8
    <2> QED
        BY <2>2, <2>3, <2>4, <2>5
<1>9. DefinitionInv'
    BY <1>6, <1>7, <1>8 DEF DefinitionInv
<1> QED
    BY <1>2, <1>3, <1>9 DEF VaultInv

\* An operation that takes effect keeps the vault's invariant.
LEMMA EffectKeeps ==
    ASSUME VaultInv, NEW q, NEW id, WellNamed(q), Binds(q, id), TakesEffect(q, id)
    PROVE  VaultInv' /\ Descends
<1>1. (\A r \in Refusals : ~Refused(q, id, r)) /\ ~Gone(id) /\ Apply(q, id)
    BY DEF TakesEffect
<1>2. ~Refused(q, id, "ErrEnvironmentNotFound") /\ ~Refused(q, id, "ErrDuplicate")
    BY <1>1 DEF Refusals
<1>3. CASE q.op = "CreateProject" /\ CreateProject(q)
    <2>1. Named(q.slug) = {}
        BY <1>2, <1>3 DEF Refused
    <2> QED
        BY <1>3, <2>1, CreateProjectKeeps
<1>4. CASE q.op = "DeleteProject" /\ DeleteProject(q)
    BY <1>4, DeleteProjectKeeps
<1>5. CASE q.op \in {"SetAllowExecute", "SetAllowOpen"} /\ SetAllow(q)
    BY <1>5, SetAllowKeeps
<1>6. CASE q.op = "CreateEnvironment" /\ CreateEnvironment(q, id)
    BY <1>1, <1>6, CreateEnvironmentKeeps
<1>7. CASE q.op = "DeleteEnvironment" /\ DeleteEnvironment(q, id)
    BY <1>7, DeleteEnvironmentKeeps
<1>8. CASE q.op = "Put" /\ Define(q, id, {Definition(q, id, q.value)})
    <2>1. PICK ds : ds = {Definition(q, id, q.value)}
        OBVIOUS
    <2>2. IsFiniteSet(ds) /\ Define(q, id, ds) /\ q.op \in ScopeOps
        BY <2>1, <1>8, FS_Singleton DEF ScopeOps
    <2>3. (\A d \in ds : \E v : d = Definition(q, id, v)) /\ \A d, o \in ds : d = o
        BY <2>1
    <2> QED
        BY <1>1, <1>2, <2>2, <2>3, DefineKeeps
<1>9. CASE /\ q.op = "SetMetadata"
           /\ Define(q, id, {Definition(q, id, d.value) : d \in Addressed(q, id)})
    <2>0. PICK f : f = [d \in Addressed(q, id) |-> Definition(q, id, d.value)]
        OBVIOUS
    <2>1. PICK ds : ds = {Definition(q, id, d.value) : d \in Addressed(q, id)}
        OBVIOUS
    <2>2. IsFiniteSet(Addressed(q, id))
        BY FS_Subset DEF Addressed, InScope, VaultInv, DefinitionInv
    <2>3. IsFiniteSet(ds) /\ Define(q, id, ds) /\ q.op \in ScopeOps
        <3>1. ds = {f[d] : d \in Addressed(q, id)}
            BY <2>0, <2>1
        <3>2. IsFiniteSet(ds)
            BY <2>2, <3>1, ImageFinite
        <3> QED
            BY <2>1, <3>2, <1>9 DEF ScopeOps
    <2>4. \A d, o \in Addressed(q, id) : d = o
        BY DEF Addressed, InScope, VaultInv, DefinitionInv
    <2>5. (\A d \in ds : \E v : d = Definition(q, id, v)) /\ \A d, o \in ds : d = o
        BY <2>1, <2>4
    <2> QED
        BY <1>1, <1>2, <2>3, <2>5, DefineKeeps
<1>10. CASE q.op = "DeleteSecret" /\ Define(q, id, {})
    <2>1. PICK ds : ds = {}
        OBVIOUS
    <2>2. IsFiniteSet(ds) /\ Define(q, id, ds) /\ q.op \in ScopeOps
        BY <2>1, <1>10, FS_EmptySet DEF ScopeOps
    <2>3. (\A d \in ds : \E v : d = Definition(q, id, v)) /\ \A d, o \in ds : d = o
        BY <2>1
    <2> QED
        BY <1>1, <1>2, <2>2, <2>3, DefineKeeps
<1>11. CASE q.op \in {"Resolve", "ScopeEntries"} /\ UNCHANGED vault
    BY <1>11 DEF vault, VaultInv, ProjectInv, EnvironmentInv, DefinitionInv, Gone, HasEnvironment, Descends
<1> QED
    BY <1>1, <1>3, <1>4, <1>5, <1>6, <1>7, <1>8, <1>9, <1>10, <1>11 DEF Apply

\* What changes nothing keeps it as well.
LEMMA StutterKeeps ==
    ASSUME VaultInv, UNCHANGED vault
    PROVE  VaultInv' /\ Descends
BY DEF vault, VaultInv, ProjectInv, EnvironmentInv, DefinitionInv, Gone, HasEnvironment, Descends

\* Nor does an operation that fails, or finds nothing, harm it.
LEMMA EndsKeeps ==
    ASSUME VaultInv, NEW q, NEW id, NEW r, WellNamed(q), Binds(q, id), Ends(q, id, r)
    PROVE  VaultInv' /\ Descends
BY EffectKeeps, StutterKeeps DEF Ends, FindsNothing
-----------------------------------------------------------------------------
(***************************************************************************)
(* A backup that an import can restore.                                    *)
(***************************************************************************)
Picture(f) == DOMAIN f = {"projects", "environments", "definitions"}

ListedProjects(f) ==
    /\ IsFiniteSet(f.projects) /\ f.projects \subseteq [slug : Slugs, exec : BOOLEAN, open : BOOLEAN]
    /\ \A p, o \in f.projects : p.slug = o.slug => p = o

ListedEnvironments(f) ==
    /\ IsFiniteSet(f.environments) /\ f.environments \subseteq [slug : Slugs, name : Envs]
    /\ \A e \in f.environments : \E p \in f.projects : p.slug = e.slug

\* Every definition belongs to a scope that is in the backup, once.
ListedDefinitions(f) ==
    /\ IsFiniteSet(f.definitions)
    /\ \A d \in f.definitions :
          /\ d.env \in Envs \cup {AllEnvs} /\ SecretMeta(d.meta) \in Metadata
          /\ d.slug = Shared \/ \E p \in f.projects : p.slug = d.slug
          /\ d.slug # Shared /\ d.env # AllEnvs => [slug |-> d.slug, name |-> d.env] \in f.environments
    /\ \A d, o \in f.definitions : d.slug = o.slug /\ d.env = o.env /\ d.key = o.key => d = o

Restorable(f) == Picture(f) /\ ListedProjects(f) /\ ListedEnvironments(f) /\ ListedDefinitions(f)

-----------------------------------------------------------------------------
(***************************************************************************)
(* Export.                                                                 *)
(***************************************************************************)
Reads == [read : {"scope", "environments"}, slug : Slugs \cup {Shared}, env : Envs \cup {AllEnvs}]
OneRead == {S \in SUBSET Reads : \A c, d \in S : c = d}
Apart == {cd \in Reads \X Reads : cd[1] # cd[2]}

\* What is still to be read is not in the draft f, but its scope is.
ReadsAhead(f, P) ==
    /\ \A c \in P : c.slug = Shared \/ \E p \in f.projects : p.slug = c.slug
    /\ \A c \in P : c.read = "scope" =>
          /\ \A d \in f.definitions : d.slug # c.slug \/ d.env # c.env
          /\ c.slug # Shared /\ c.env # AllEnvs => [slug |-> c.slug, name |-> c.env] \in f.environments
    /\ \A c \in P : c.read = "environments" =>
          /\ c.env = AllEnvs
          /\ \A d \in f.definitions : d.slug = c.slug => d.env = AllEnvs
          /\ \A o \in P : o.slug = c.slug => o.env = AllEnvs

\* What the picture a shows is in the draft or will be.
Covers(a, f, P) ==
    /\ a.projects \subseteq f.projects
    /\ \A e \in a.environments : e \in f.environments \/ ReadEnvs(e.slug) \in P
    /\ \A d \in a.definitions :
          \/ d \in Meaning(f).definitions
          \/ ReadScope(d.slug, d.env) \in P
          \/ d.env # AllEnvs /\ ReadEnvs(d.slug) \in P

\* A draft with the calls of P before it.
Drafted(f, P) ==
    Restorable(f) /\ Within(Meaning(f), seen) /\ ReadsAhead(f, P) /\ Covers(always, f, P)

\* The project id is known by the slug s, unless it has been deleted since: then
\* nothing of that slug has been there all the time.
Home(id, s) ==
    \/ \E pr \in projects : pr.id = id /\ pr.slug = s
    \/ /\ Gone(id)
       /\ \A e \in always.environments : e.slug # s
       /\ \A d \in always.definitions : d.slug # s

\* The read has looked up the project it names.
AtHome(c) == Home(bound, c.slug)

Exporting ==
    /\ Ordered(plan, OneRead, Apart) /\ plan # <<>>
    /\ last = "none"
    /\ Drafted(draft, Pending(plan))
    /\ bound \in 0..(nextId - 1)
    /\ bound # 0 => \A c \in Head(plan) : c.slug # Shared /\ AtHome(c)

HistoryInv ==
    /\ Picture(seen) /\ Picture(always)
    /\ job # "none" => Within(View, seen) /\ Within(always, View)

-----------------------------------------------------------------------------
(***************************************************************************)
(* Import.                                                                 *)
(***************************************************************************)
GetCall(p) == Ask("GetProject", p.slug, AllEnvs)
CreateCall(p) == Ask("CreateProject", p.slug, AllEnvs)
ExecCall(p) == Allow("SetAllowExecute", p.slug, p.exec)
OpenCall(p) == Allow("SetAllowOpen", p.slug, p.open)
EnvironmentCall(e) == Ask("CreateEnvironment", e.slug, e.name)

\* The calls that a backup asks for.
FileCalls(f) ==
    {GetCall(p) : p \in f.projects} \cup {CreateCall(p) : p \in f.projects}
    \cup {ExecCall(p) : p \in f.projects} \cup {OpenCall(p) : p \in f.projects}
    \cup {EnvironmentCall(e) : e \in f.environments} \cup {PutOf(d) : d \in f.definitions}

\* A project is created before anything is done to it.
Creates(d, c) == d.op = "CreateProject" /\ d.slug = c.slug /\ c.op # "GetProject"
CallOrder(f) == {cd \in FileCalls(f) \X FileCalls(f) : cd[1] # cd[2] /\ ~Creates(cd[2], cd[1])}
CallSets(f) == {S \in SUBSET FileCalls(f) : Free(S, CallOrder(f))}

\* A project whose creation is behind is one of the import's own.
Owned(P) ==
    \A c \in P : c.op \notin {"GetProject", "CreateProject"} /\ c.slug # Shared =>
        \/ \E d \in P : Creates(d, c)
        \/ \E id \in mine : \A pr \in projects : pr.id = id => pr.slug = c.slug

Importing ==
    /\ Restorable(file)
    /\ Ordered(plan, CallSets(file), CallOrder(file)) /\ plan # <<>>
    /\ last = "none"
    /\ mine \subseteq 1..(nextId - 1)
    /\ Owned(Pending(plan))

\* The project pr has what the backup says of p, but for the calls of P.
Filled(p, pr, P) ==
    /\ pr.slug = p.slug
    /\ ExecCall(p) \in P \/ pr.exec = p.exec
    /\ OpenCall(p) \in P \/ pr.open = p.open
    /\ {e.name : e \in {x \in environments : x.pid = pr.id}} =
          {e.name : e \in {x \in file.environments : x.slug = p.slug /\ EnvironmentCall(x) \notin P}}
    /\ {d \in definitions : d.pid = pr.id} =
          {Definition(PutOf(d), pr.id, d.value) :
              d \in {x \in file.definitions : x.slug = p.slug /\ PutOf(x) \notin P}}

Untouched(p, P) ==
    /\ CreateCall(p) \in P /\ ExecCall(p) \in P /\ OpenCall(p) \in P
    /\ \A e \in file.environments : e.slug = p.slug => EnvironmentCall(e) \in P
    /\ \A d \in file.definitions : d.slug = p.slug => PutOf(d) \in P

\* The import is as far as what is left of it says.
Restoring(P) ==
    /\ \A p \in file.projects : Untouched(p, P) \/ \E pr \in projects : Filled(p, pr, P)
    /\ \A d \in file.definitions : d.slug = Shared =>
          PutOf(d) \in P \/ Definition(PutOf(d), 0, d.value) \in definitions

-----------------------------------------------------------------------------
(***************************************************************************)
(* Together.                                                               *)
(***************************************************************************)
FileInv == file # None => Restorable(file)

ExportInv == 
    /\ job = "export" => Exporting
    /\ last = "exported" => job = "none" /\ Within(Meaning(file), seen) /\ Within(always, Meaning(file))

ImportInv ==
    /\ job = "import" => Importing /\ (meanwhile = 0 => Restoring(Pending(plan)))
    /\ last = "imported" => job = "none" /\ Restorable(file) /\ (meanwhile = 0 => Restoring({}))

JobInv == job \in {"none", "export", "import"} /\ meanwhile \in Nat

Inv == VaultInv /\ JobInv /\ HistoryInv /\ FileInv /\ ExportInv /\ ImportInv
-----------------------------------------------------------------------------
(***************************************************************************)
(* The vault as a backup shows it.                                         *)
(***************************************************************************)
ViewItem(s, d) ==
    [slug |-> s, env |-> d.env, key |-> d.key, value |-> d.value,
     sensitive |-> d.sensitive, kind |-> d.kind, hint |-> d.hint]

\* A project's identity stands for its slug, and no slug is that of the shared scopes.
LEMMA SlugFacts ==
    ASSUME VaultInv
    PROVE  /\ SlugOf(0) = Shared
           /\ \A pr \in projects : /\ SlugOf(pr.id) = pr.slug /\ pr.slug \in Slugs
                                   /\ pr.slug # Shared /\ pr.id # 0
<1>1. ASSUME NEW pr \in projects PROVE SlugOf(pr.id) = pr.slug /\ pr.slug \in Slugs /\ pr.id # 0
    <2>1. pr.id # 0 /\ pr.slug \in Slugs
        BY DEF VaultInv, ProjectInv
    <2>2. (CHOOSE po \in projects : po.id = pr.id) = pr
        BY DEF VaultInv, ProjectInv
    <2> QED
        BY <2>1, <2>2 DEF SlugOf
<1> QED
    BY <1>1, ReadersAssumption DEF SlugOf

\* What is in the vault is in the view, under the slug of its project.
InView(id, s) ==
    /\ \A e \in environments : e.pid = id => [slug |-> s, name |-> e.name] \in View.environments
    /\ \A d \in definitions : d.pid = id => ViewItem(s, d) \in View.definitions
    /\ \A x \in View.environments : x.slug = s =>
          \E e \in environments : e.pid = id /\ x = [slug |-> s, name |-> e.name]
    /\ \A x \in View.definitions : x.slug = s =>
          \E d \in definitions : d.pid = id /\ x = ViewItem(s, d)

\* An element of the view of a slug is that of its project, or shared.
LEMMA ViewFacts ==
    ASSUME VaultInv
    PROVE  /\ Picture(View)
           /\ View.projects = {[slug |-> pr.slug, exec |-> pr.exec, open |-> pr.open] : pr \in projects}
           /\ InView(0, Shared)
           /\ \A pr \in projects : InView(pr.id, pr.slug)
           /\ \A e \in View.environments : \E pr \in projects : pr.slug = e.slug
           /\ \A d \in View.definitions : d.slug # Shared => \E pr \in projects : pr.slug = d.slug
<1>1. Picture(View)
    BY DEF View, Picture
<1>2. View.projects = {[slug |-> pr.slug, exec |-> pr.exec, open |-> pr.open] : pr \in projects}
    BY DEF View
<1>3. View.environments = {[slug |-> SlugOf(e.pid), name |-> e.name] : e \in environments}
    BY DEF View
<1>4. View.definitions = {ViewItem(SlugOf(d.pid), d) : d \in definitions}
    BY DEF View, ViewItem
<1>5. \A e \in environments : e.pid # 0 /\ \E pr \in projects : pr.id = e.pid /\ SlugOf(e.pid) = pr.slug
    <2> SUFFICES ASSUME NEW e \in environments
                 PROVE  e.pid # 0 /\ \E pr \in projects : pr.id = e.pid /\ SlugOf(e.pid) = pr.slug
        OBVIOUS
    <2>1. e.pid # 0 /\ ~Gone(e.pid)
        BY DEF VaultInv, EnvironmentInv
    <2> QED
        BY <2>1, SlugFacts DEF Gone
<1>6. \A d \in definitions : d.pid # 0 => \E pr \in projects : pr.id = d.pid /\ SlugOf(d.pid) = pr.slug
    BY SlugFacts DEF VaultInv, DefinitionInv, Gone
<1>7. ASSUME NEW id, NEW s, SlugOf(id) = s,
             \A e \in environments : SlugOf(e.pid) = s => e.pid = id,
             \A d \in definitions : SlugOf(d.pid) = s => d.pid = id
      PROVE  InView(id, s)
    <2>1. \A e \in environments : e.pid = id => [slug |-> s, name |-> e.name] \in View.environments
        BY <1>3, <1>7
    <2>2. \A d \in definitions : d.pid = id => ViewItem(s, d) \in View.definitions
        BY <1>4, <1>7
    <2>3. ASSUME NEW x \in View.environments, x.slug = s
          PROVE  \E e \in environments : e.pid = id /\ x = [slug |-> s, name |-> e.name]
        <3>1. PICK e \in environments : x = [slug |-> SlugOf(e.pid), name |-> e.name]
            BY <1>3
        <3>2. SlugOf(e.pid) = s
            BY <2>3, <3>1
        <3> QED
            BY <3>1, <3>2, <1>7
    <2>4. ASSUME NEW x \in View.definitions, x.slug = s
          PROVE  \E d \in definitions : d.pid = id /\ x = ViewItem(s, d)
        <3>1. PICK d \in definitions : x = ViewItem(SlugOf(d.pid), d)
            BY <1>4
        <3>2. SlugOf(d.pid) = s
            BY <2>4, <3>1 DEF ViewItem
        <3> QED
            BY <3>1, <3>2, <1>7
    <2> QED
        BY <2>1, <2>2, <2>3, <2>4 DEF InView
<1>8. InView(0, Shared)
    <2>1. SlugOf(0) = Shared
        BY SlugFacts
    <2>2. \A e \in environments : SlugOf(e.pid) = Shared => e.pid = 0
        BY <1>5, SlugFacts
    <2>3. \A d \in definitions : SlugOf(d.pid) = Shared => d.pid = 0
        BY <1>6, SlugFacts
    <2> QED
        BY <1>7, <2>1, <2>2, <2>3
<1>9. ASSUME NEW pr \in projects PROVE InView(pr.id, pr.slug)
    <2>1. SlugOf(pr.id) = pr.slug /\ pr.slug # Shared
        BY SlugFacts
    <2>2. \A po \in projects : po.slug = pr.slug => po.id = pr.id
        BY DEF VaultInv, ProjectInv
    <2>3. \A e \in environments : SlugOf(e.pid) = pr.slug => e.pid = pr.id
        BY <1>5, <2>2
    <2>4. \A d \in definitions : SlugOf(d.pid) = pr.slug => d.pid = pr.id
        BY <1>6, <2>1, <2>2, SlugFacts
    <2>5. PICK id, s : id = pr.id /\ s = pr.slug
        OBVIOUS
    <2>6. InView(id, s)
        BY <1>7, <2>1, <2>3, <2>4, <2>5
    <2> QED
        BY <2>5, <2>6
<1>10. \A e \in View.environments : \E pr \in projects : pr.slug = e.slug
    BY <1>3, <1>5
<1>11. ASSUME NEW x \in View.definitions, x.slug # Shared PROVE \E pr \in projects : pr.slug = x.slug
    <2>1. PICK d \in definitions : x = ViewItem(SlugOf(d.pid), d)
        BY <1>4
    <2>2. x.slug = SlugOf(d.pid)
        BY <2>1 DEF ViewItem
    <2> QED
        BY <2>2, <1>6, <1>11, SlugFacts
<1> QED
    BY <1>1, <1>2, <1>8, <1>9, <1>10, <1>11

-----------------------------------------------------------------------------
(***************************************************************************)
(* What a backup means.                                                    *)
(***************************************************************************)
\* An import understands the metadata that a backup has recorded or not.
Restored(d) ==
    LET m == SecretMeta(d.meta)
    IN  [slug |-> d.slug, env |-> d.env, key |-> d.key, value |-> d.value,
         sensitive |-> m.sensitive, kind |-> m.kind, hint |-> m.hint]

\* A backup means the projects and environments it lists, and each entry with its metadata.
LEMMA MeaningFields ==
    ASSUME NEW f, Picture(f)
    PROVE  /\ Picture(Meaning(f)) /\ Meaning(f).projects = f.projects
           /\ Meaning(f).environments = f.environments
           /\ Meaning(f).definitions = {Restored(d) : d \in f.definitions}
BY DEF Meaning, Picture, Restored

\* The metadata that is not written down is the one that an import supplies.
LEMMA MetadataRestored ==
    ASSUME NEW d, MetaIn(d) \in Metadata
    PROVE  SecretMeta(MetaOf(d)) = MetaIn(d)
<1>1. CASE d.sensitive /\ d.kind = "text" /\ d.hint = None
    <2>1. d.sensitive \in BOOLEAN
        BY DEF MetaIn, Metadata
    <2>2. d.sensitive = TRUE
        BY <1>1, <2>1
    <2> QED
        BY <1>1, <2>2 DEF MetaOf, MetaIn, SecretMeta
<1>2. CASE ~(d.sensitive /\ d.kind = "text" /\ d.hint = None)
    <2>1. MetaOf(d) = MetaIn(d)
        BY <1>2 DEF MetaOf, MetaIn
    <2>2. MetaIn(d) # None
        BY ReadersAssumption
    <2> QED
        BY <2>1, <2>2 DEF SecretMeta
<1> QED
    BY <1>1, <1>2

\* The entries of a scope mean its definitions.
LEMMA EntriesRestored ==
    ASSUME NEW s, NEW n, NEW ds, \A d \in ds : d.env = n /\ MetaIn(d) \in Metadata
    PROVE  {Restored(x) : x \in SplitEntries(s, n, ds)} = {ViewItem(s, d) : d \in ds}
<1>1. ASSUME NEW d \in ds,
             NEW x, x = [slug |-> s, env |-> n, key |-> d.key, value |-> d.value, meta |-> MetaOf(d)]
      PROVE  Restored(x) = ViewItem(s, d)
    <2>1. SecretMeta(x.meta) = MetaIn(d)
        BY <1>1, MetadataRestored
    <2> QED
        BY <1>1, <2>1 DEF Restored, ViewItem, MetaIn
<1>2. PICK f : f = [d \in ds |->
                       [slug |-> s, env |-> n, key |-> d.key, value |-> d.value, meta |-> MetaOf(d)]]
    OBVIOUS
<1>3. SplitEntries(s, n, ds) = {f[d] : d \in ds}
    BY <1>2 DEF SplitEntries
<1>4. \A d \in ds : Restored(f[d]) = ViewItem(s, d)
    BY <1>1, <1>2
<1> QED
    BY <1>3, <1>4
-----------------------------------------------------------------------------
(***************************************************************************)
(* Export: its plan.                                                       *)
(***************************************************************************)

\* Two sets of calls, one made after the other.
LEMMA TwoSteps ==
    ASSUME NEW F, NEW r, NEW S \in F, NEW T \in F, \A c \in S, d \in T : <<c, d>> \in r
    PROVE  Ordered(<<S, T>>, F, r) /\ Pending(<<S, T>>) = S \cup T
<1>1. PICK p, q : p = <<S>> /\ q = <<T>>
    OBVIOUS
<1>2. Ordered(p, F, r) /\ Ordered(q, F, r) /\ Pending(p) = S /\ Pending(q) = T
    BY <1>1, SmallPlans
<1>3. Composes(p, q, F, r)
    BY <1>2 DEF Composes, Precedes
<1>4. p \o q = <<S, T>>
    <2>0. p \in Seq(F) /\ q \in Seq(F)
        BY <1>1
    <2>1. p \in Seq(F) /\ q \in Seq(F) /\ Len(p) = 1 /\ Len(q) = 1 /\ p[1] = S /\ q[1] = T
        BY <1>1
    <2>2. PICK u \in Seq(F) : u = p \o q
        BY <2>1, ConcatProperties
    <2>3. Len(u) = 2 /\ u[1] = S /\ u[2] = T
        <3>1. /\ Len(u) = Len(p) + Len(q) /\ \A i \in 1..Len(p) : u[i] = p[i]
              /\ \A i \in 1..Len(q) : u[Len(p) + i] = q[i]
            BY ONLY <2>0, <2>2
        <3>2. 1 \in 1..1 /\ 1 + 1 = 2
            OBVIOUS
        <3> QED
            BY <2>1, <3>1, <3>2
    <2>4. u = <<S, T>>
        BY <2>3
    <2> QED
        BY <2>2, <2>4
<1>5. Ordered(p \o q, F, r) /\ Pending(p \o q) = Pending(p) \cup Pending(q)
    BY <1>3, OrderedConcat
<1> QED
    BY <1>2, <1>4, <1>5

\* Reads are made one at a time and none twice.
LEMMA ReadsSteady ==
    /\ Steady(OneRead, Apart)
    /\ \A s \in Slugs \cup {Shared}, n \in Envs \cup {AllEnvs} :
          {ReadScope(s, n)} \in OneRead /\ {ReadEnvs(s)} \in OneRead
<1>1. Steady(OneRead, Apart)
    BY DEF Steady, OneRead, Apart, Free
<1>2. ASSUME NEW s \in Slugs \cup {Shared}, NEW n \in Envs \cup {AllEnvs}
      PROVE  ReadScope(s, n) \in Reads /\ ReadEnvs(s) \in Reads
    BY DEF ReadScope, ReadEnvs, Reads
<1> QED
    BY <1>1, <1>2 DEF OneRead

\* A slug's own reads: its scope without environment, and its environments.
SlugReads(s) == {ReadScope(s, AllEnvs), ReadEnvs(s)}

\* These two reads, one after the other, are a plan of an export.
LEMMA SlugPlan ==
    ASSUME NEW s \in Slugs \cup {Shared}
    PROVE  LET p == <<{ReadScope(s, AllEnvs)}, {ReadEnvs(s)}>>
           IN  Ordered(p, OneRead, Apart) /\ Pending(p) = SlugReads(s)
<1>1. PICK S, T : S = {ReadScope(s, AllEnvs)} /\ T = {ReadEnvs(s)}
    OBVIOUS
<1>2. S \in OneRead /\ T \in OneRead
    BY <1>1, ReadsSteady
<1>3. \A c \in S, d \in T : <<c, d>> \in Apart
    BY <1>1, <1>2 DEF Apart, OneRead, ReadScope, ReadEnvs
<1>4. Ordered(<<S, T>>, OneRead, Apart) /\ Pending(<<S, T>>) = S \cup T
    BY <1>2, <1>3, TwoSteps
<1> QED
    BY <1>1, <1>4 DEF SlugReads

\* Plans of reads of different scopes can be put one behind the other.
LEMMA ReadsApart ==
    ASSUME NEW p, NEW q, Ordered(p, OneRead, Apart), Ordered(q, OneRead, Apart),
           \A c \in Pending(p) : c \notin Pending(q)
    PROVE  Precedes(p, q, Apart)
<1>1. Pending(p) \subseteq UNION OneRead /\ Pending(q) \subseteq UNION OneRead
    BY PendingFacts DEF Ordered
<1>2. UNION OneRead \subseteq Reads
    BY DEF OneRead
<1> QED
    BY <1>1, <1>2 DEF Precedes, Apart

ExportCalls ==
    Calls(projects, [pr \in projects |-> <<{ReadScope(pr.slug, AllEnvs)}, {ReadEnvs(pr.slug)}>>])
    \o <<{ReadScope(Shared, AllEnvs)}, {ReadEnvs(Shared)}>>

ProjectReads == UNION {SlugReads(pr.slug) : pr \in projects}

\* Export starts with the reads of every project there is and of the shared scopes.
LEMMA ExportPlan ==
    ASSUME VaultInv
    PROVE  /\ Ordered(ExportCalls, OneRead, Apart) /\ ExportCalls # <<>>
           /\ Pending(ExportCalls) = ProjectReads \cup SlugReads(Shared)
<1>1. PICK f : f = [pr \in projects |-> <<{ReadScope(pr.slug, AllEnvs)}, {ReadEnvs(pr.slug)}>>]
    OBVIOUS
<1>2. ASSUME NEW pr \in projects
      PROVE  Ordered(f[pr], OneRead, Apart) /\ Pending(f[pr]) = SlugReads(pr.slug)
    <2>1. PICK s \in Slugs : s = pr.slug
        BY SlugFacts
    <2>2. f[pr] = <<{ReadScope(s, AllEnvs)}, {ReadEnvs(s)}>>
        BY <1>1, <2>1
    <2> QED
        BY <2>1, <2>2, SlugPlan
<1>3. \A s, t : s # t => \A c \in SlugReads(s) : c \notin SlugReads(t)
    BY DEF SlugReads, ReadScope, ReadEnvs
<1>4. Compatible(projects, f, OneRead, Apart)
    <2>1. ASSUME NEW pr \in projects, NEW po \in projects, pr # po
          PROVE  Precedes(f[pr], f[po], Apart)
        <3>1. pr.slug # po.slug
            BY <2>1 DEF VaultInv, ProjectInv
        <3>2. PICK p, q : p = f[pr] /\ q = f[po]
            OBVIOUS
        <3>3. /\ Ordered(p, OneRead, Apart) /\ Ordered(q, OneRead, Apart)
              /\ \A c \in Pending(p) : c \notin Pending(q)
            BY <1>2, <1>3, <3>1, <3>2
        <3> QED
            BY <3>2, <3>3, ReadsApart
    <2> QED
        BY <1>2, <2>1 DEF Compatible, VaultInv, ProjectInv
<1>5. PICK p, q : p = Calls(projects, f) /\ q = <<{ReadScope(Shared, AllEnvs)}, {ReadEnvs(Shared)}>>
    OBVIOUS
<1>6. Ordered(p, OneRead, Apart) /\ Pending(p) = ProjectReads
    <2>1. Ordered(p, OneRead, Apart) /\ Pending(p) = UNION {Pending(f[pr]) : pr \in projects}
        BY <1>4, <1>5, OrderedCalls
    <2>2. {Pending(f[pr]) : pr \in projects} = {SlugReads(pr.slug) : pr \in projects}
        BY <1>2
    <2> QED
        BY <2>1, <2>2 DEF ProjectReads
<1>7. Ordered(q, OneRead, Apart) /\ Pending(q) = SlugReads(Shared)
    BY <1>5, SlugPlan
<1>8. \A c \in Pending(p) : c \notin Pending(q)
    BY <1>3, <1>6, <1>7, SlugFacts DEF ProjectReads
<1>9. Composes(p, q, OneRead, Apart)
    BY <1>6, <1>7, <1>8, ReadsApart DEF Composes
<1>10. ExportCalls = p \o q
    BY <1>1, <1>5 DEF ExportCalls
<1>11. Ordered(p \o q, OneRead, Apart) /\ Pending(p \o q) = Pending(p) \cup Pending(q)
    BY <1>9, OrderedConcat
<1>12. SlugReads(Shared) # {}
    BY DEF SlugReads
<1>13. Pending(ExportCalls) = ProjectReads \cup SlugReads(Shared)
    BY ONLY <1>6, <1>7, <1>10, <1>11
<1>14. ExportCalls # <<>>
    <2>1. Pending(ExportCalls) # {}
        BY <1>7, <1>10, <1>11, <1>12
    <2> QED
        BY <2>1, SmallPlans
<1> QED
    BY <1>10, <1>11, <1>13, <1>14

\* A project's environments bring about the reads of their scopes.
LEMMA NamesPlan ==
    ASSUME NEW s \in Slugs \cup {Shared}, NEW names \in SUBSET Envs, IsFiniteSet(names)
    PROVE  LET p == Calls(names, [n \in names |-> <<{ReadScope(s, n)}>>])
           IN  Ordered(p, OneRead, Apart) /\ Pending(p) = {ReadScope(s, n) : n \in names}
<1>1. PICK f : f = [n \in names |-> <<{ReadScope(s, n)}>>]
    OBVIOUS
<1>2. ASSUME NEW n \in names
      PROVE  Ordered(f[n], OneRead, Apart) /\ Pending(f[n]) = {ReadScope(s, n)}
    <2>1. PICK S : S = {ReadScope(s, n)}
        OBVIOUS
    <2>2. S \in OneRead /\ f[n] = <<S>>
        BY <1>1, <2>1, ReadsSteady
    <2>3. Ordered(<<S>>, OneRead, Apart) /\ Pending(<<S>>) = S
        BY <2>2, SmallPlans
    <2> QED
        BY <2>1, <2>2, <2>3
<1>3. Compatible(names, f, OneRead, Apart)
    <2>1. ASSUME NEW n \in names, NEW m \in names, n # m PROVE Precedes(f[n], f[m], Apart)
        <3>1. PICK p, q : p = f[n] /\ q = f[m]
            OBVIOUS
        <3>2. \A c \in Pending(p) : c \notin Pending(q)
            BY <1>2, <2>1, <3>1 DEF ReadScope
        <3> QED
            BY <1>2, <3>1, <3>2, ReadsApart
    <2> QED
        BY <1>2, <2>1 DEF Compatible
<1>4. PICK p : p = Calls(names, f)
    OBVIOUS
<1>5. Ordered(p, OneRead, Apart) /\ Pending(p) = UNION {Pending(f[n]) : n \in names}
    BY <1>3, <1>4, OrderedCalls
<1>6. UNION {Pending(f[n]) : n \in names} = {ReadScope(s, n) : n \in names}
    BY <1>2
<1> QED
    BY <1>1, <1>4, <1>5, <1>6

\* A read takes the place of one that it follows from.
LEMMA ReadAgain ==
    ASSUME Ordered(plan, OneRead, Apart), plan # <<>>, NEW c \in Head(plan),
           NEW calls, Ordered(calls, OneRead, Apart), \A d \in Pending(calls) : d \notin Pending(plan)
    PROVE  /\ Ordered(calls \o Rest(c), OneRead, Apart)
           /\ Pending(calls \o Rest(c)) = Pending(calls) \cup (Pending(plan) \ {c})
           /\ c \in Pending(plan) /\ c \in Reads
<1>1. Ordered(Rest(c), OneRead, Apart) /\ Pending(Rest(c)) = Pending(plan) \ {c} /\ c \in Pending(plan)
    BY OrderedRest, ReadsSteady
<1>2. PICK p, q : p = calls /\ q = Rest(c)
    OBVIOUS
<1>3. Composes(p, q, OneRead, Apart)
    BY <1>1, <1>2, ReadsApart DEF Composes
<1>4. Ordered(p \o q, OneRead, Apart) /\ Pending(p \o q) = Pending(p) \cup Pending(q)
    BY <1>3, OrderedConcat
<1>5. c \in UNION OneRead
    BY <1>1, PendingFacts DEF Ordered
<1> QED
    BY <1>1, <1>2, <1>4, <1>5 DEF OneRead

\* The reads of the plan and of its first set.
LEMMA HeadFacts ==
    ASSUME Ordered(plan, OneRead, Apart), plan # <<>>
    PROVE  Head(plan) \in OneRead /\ \A c \in Head(plan) : c \in Reads
<1>1. Head(plan) \in OneRead
    <2>1. PICK F : F = OneRead
        OBVIOUS
    <2>2. Head(plan) \in F
        BY <2>1 DEF Ordered
    <2> QED
        BY <2>1, <2>2
<1> QED
    BY <1>1 DEF OneRead
-----------------------------------------------------------------------------
(***************************************************************************)
(* Export: what a read adds.                                               *)
(***************************************************************************)

\* The parts of pictures that are put together.
LEMMA PictureFields ==
    /\ Picture(Empties) /\ Empties.projects = {} /\ Empties.environments = {} /\ Empties.definitions = {}
    /\ \A f, g : Picture(f) =>
          /\ Picture(Joined(f, g)) /\ Joined(f, g).projects = f.projects \cup g.projects
          /\ Joined(f, g).environments = f.environments \cup g.environments
          /\ Joined(f, g).definitions = f.definitions \cup g.definitions
    /\ \A f, g : Picture(f) =>
          /\ Picture(Common(f, g)) /\ Common(f, g).projects = f.projects \cap g.projects
          /\ Common(f, g).environments = f.environments \cap g.environments
          /\ Common(f, g).definitions = f.definitions \cap g.definitions
    /\ \A f, g : Picture(f) =>
          (Within(f, g) <=> /\ f.projects \subseteq g.projects /\ f.environments \subseteq g.environments
                            /\ f.definitions \subseteq g.definitions)
<1>1. Picture(Empties) /\ Empties.projects = {} /\ Empties.environments = {} /\ Empties.definitions = {}
    BY DEF Empties, Picture
<1>2. ASSUME NEW f, NEW g, Picture(f)
      PROVE  /\ Picture(Joined(f, g)) /\ Joined(f, g).projects = f.projects \cup g.projects
             /\ Joined(f, g).environments = f.environments \cup g.environments
             /\ Joined(f, g).definitions = f.definitions \cup g.definitions
    BY <1>2 DEF Joined, Picture
<1>3. ASSUME NEW f, NEW g, Picture(f)
      PROVE  /\ Picture(Common(f, g)) /\ Common(f, g).projects = f.projects \cap g.projects
             /\ Common(f, g).environments = f.environments \cap g.environments
             /\ Common(f, g).definitions = f.definitions \cap g.definitions
    BY <1>3 DEF Common, Picture
<1>4. ASSUME NEW f, NEW g, Picture(f)
      PROVE  Within(f, g) <=> /\ f.projects \subseteq g.projects /\ f.environments \subseteq g.environments
                              /\ f.definitions \subseteq g.definitions
    BY <1>4 DEF Within, Picture
<1> QED
    BY <1>1, <1>2, <1>3, <1>4

\* A picture with one part filled.
LEMMA FilledFields ==
    ASSUME NEW S
    PROVE  /\ [Empties EXCEPT !.definitions = S].projects = {}
           /\ [Empties EXCEPT !.definitions = S].environments = {}
           /\ [Empties EXCEPT !.definitions = S].definitions = S
           /\ [Empties EXCEPT !.environments = S].projects = {}
           /\ [Empties EXCEPT !.environments = S].environments = S
           /\ [Empties EXCEPT !.environments = S].definitions = {}
           /\ Picture([Empties EXCEPT !.projects = S])
           /\ [Empties EXCEPT !.projects = S].projects = S
           /\ [Empties EXCEPT !.projects = S].environments = {}
           /\ [Empties EXCEPT !.projects = S].definitions = {}
BY DEF Empties, Picture

\* What a read of the slug s finds in project id: nothing that was not there, and
\* everything that stayed.
Shows(id, s) ==
    /\ \A e \in environments : e.pid = id => [slug |-> s, name |-> e.name] \in seen.environments
    /\ \A d \in definitions : d.pid = id => ViewItem(s, d) \in seen.definitions
    /\ \A x \in always.environments : x.slug = s =>
          \E e \in environments : e.pid = id /\ x = [slug |-> s, name |-> e.name]
    /\ \A x \in always.definitions : x.slug = s =>
          \E d \in definitions : d.pid = id /\ x = ViewItem(s, d)

\* Of the project that a read has looked up, or of the shared scopes, it sees what there is.
LEMMA ReadShows ==
    ASSUME VaultInv, HistoryInv, job = "export", Exporting, NEW c \in Head(plan), LookedUp(c)
    PROVE  Shows(bound, c.slug)
<1>1. /\ View.environments \subseteq seen.environments /\ View.definitions \subseteq seen.definitions
      /\ always.environments \subseteq View.environments /\ always.definitions \subseteq View.definitions
    BY PictureFields, ViewFacts DEF HistoryInv
<1>2. PICK id, s : id = bound /\ s = c.slug
    OBVIOUS
<1>3. CASE InView(id, s)
    BY <1>1, <1>2, <1>3 DEF InView, Shows
<1>4. CASE c.slug = Shared
    BY <1>2, <1>3, <1>4, ViewFacts DEF LookedUp
<1>5. CASE c.slug # Shared /\ \E pr \in projects : pr.id = bound /\ pr.slug = c.slug
    BY <1>2, <1>3, <1>5, ViewFacts
<1>6. CASE /\ Gone(bound)
           /\ \A e \in always.environments : e.slug # c.slug
           /\ \A d \in always.definitions : d.slug # c.slug
    BY <1>6 DEF Shows, VaultInv, EnvironmentInv, DefinitionInv
<1> QED
    BY <1>4, <1>5, <1>6 DEF Exporting, AtHome, Home, LookedUp

\* Export starts with the projects, and with all the rest to be read.
Begun(f) == f = [Empties EXCEPT !.projects = View.projects]
StartReads == ProjectReads \cup SlugReads(Shared)

\* The draft that an export begins with is in order, with all of these reads ahead.
LEMMA ExportBegins ==
    ASSUME VaultInv, NEW f, Begun(f)
    PROVE  /\ Restorable(f) /\ Within(Meaning(f), View) /\ ReadsAhead(f, StartReads)
           /\ Covers(View, f, StartReads)
<1>1. Picture(f) /\ f.projects = View.projects /\ f.environments = {} /\ f.definitions = {}
    BY FilledFields DEF Begun
<1>2. ListedProjects(f)
    <2>1. PICK g : g = [pr \in projects |-> [slug |-> pr.slug, exec |-> pr.exec, open |-> pr.open]]
        OBVIOUS
    <2>2. f.projects = {g[pr] : pr \in projects}
        BY <1>1, <2>1, ViewFacts
    <2>3. IsFiniteSet(f.projects)
        BY <2>2, ImageFinite DEF VaultInv, ProjectInv
    <2>4. \A pr \in projects : g[pr] \in [slug : Slugs, exec : BOOLEAN, open : BOOLEAN] /\ g[pr].slug = pr.slug
        <3>1. \A pr \in projects : pr.slug \in Slugs /\ pr.exec \in BOOLEAN /\ pr.open \in BOOLEAN
            BY DEF VaultInv, ProjectInv
        <3> QED
            BY <2>1, <3>1
    <2>5. \A p, o \in f.projects : p.slug = o.slug => p = o
        BY <2>2, <2>4 DEF VaultInv, ProjectInv
    <2> QED
        BY <2>2, <2>3, <2>4, <2>5 DEF ListedProjects
<1>3. Restorable(f)
    BY <1>1, <1>2, FS_EmptySet DEF Restorable, ListedEnvironments, ListedDefinitions
<1>4. Within(Meaning(f), View)
    BY <1>1, MeaningFields, PictureFields
<1>5. \A c \in StartReads : /\ c.env = AllEnvs
                            /\ c.slug = Shared \/ \E pr \in projects : pr.slug = c.slug
    BY DEF StartReads, ProjectReads, SlugReads, ReadScope, ReadEnvs
<1>6. ASSUME NEW pr \in projects PROVE \E p \in f.projects : p.slug = pr.slug
    <2>1. PICK p : p = [slug |-> pr.slug, exec |-> pr.exec, open |-> pr.open]
        OBVIOUS
    <2>2. p \in f.projects /\ p.slug = pr.slug
        BY <1>1, <2>1, ViewFacts
    <2> QED
        BY <2>2
<1>7. ReadsAhead(f, StartReads)
    BY <1>1, <1>5, <1>6 DEF ReadsAhead
<1>8. \A s : s = Shared \/ (\E pr \in projects : pr.slug = s) =>
          ReadScope(s, AllEnvs) \in StartReads /\ ReadEnvs(s) \in StartReads
    BY DEF StartReads, ProjectReads, SlugReads
<1>9. Covers(View, f, StartReads)
    BY <1>1, <1>8, ViewFacts DEF Covers
<1> QED
    BY <1>3, <1>4, <1>7, <1>9

\* A scope has been read.
ScopeRead(c) ==
    Joined(draft, [Empties EXCEPT !.definitions = SplitEntries(c.slug, c.env, InScope(bound, c.env))])

\* The draft stays in order when the entries of a scope join it.
LEMMA ReadScopeDrafts ==
    ASSUME VaultInv, HistoryInv, job = "export", Exporting,
           NEW c \in Head(plan), LookedUp(c), c \in Reads, c \in Pending(plan), c.read = "scope"
    PROVE  Drafted(ScopeRead(c), Pending(plan) \ {c})
<1>1. PICK f, ds, P :
         /\ f = ScopeRead(c) /\ ds = SplitEntries(c.slug, c.env, InScope(bound, c.env))
         /\ P = Pending(plan)
    OBVIOUS
<1>2. Drafted(draft, P) /\ Picture(draft) /\ c \in P
    BY <1>1 DEF Exporting, Drafted, Restorable
<1>3. /\ Picture(f) /\ f.projects = draft.projects /\ f.environments = draft.environments
      /\ f.definitions = draft.definitions \cup ds
    <2>1. PICK g : g = [Empties EXCEPT !.definitions = ds]
        OBVIOUS
    <2>2. g.projects = {} /\ g.environments = {} /\ g.definitions = ds
        BY <2>1, FilledFields
    <2>3. f = Joined(draft, g)
        BY <1>1, <2>1 DEF ScopeRead
    <2>4. /\ Picture(Joined(draft, g)) /\ Joined(draft, g).projects = draft.projects \cup g.projects
          /\ Joined(draft, g).environments = draft.environments \cup g.environments
          /\ Joined(draft, g).definitions = draft.definitions \cup g.definitions
        BY ONLY <1>2, PictureFields
    <2> QED
        BY <2>2, <2>3, <2>4
<1>4. \A d \in InScope(bound, c.env) : d \in definitions /\ d.pid = bound /\ d.env = c.env /\ MetaIn(d) \in Metadata
    BY DEF InScope, VaultInv, DefinitionInv
<1>5. {Restored(x) : x \in ds} = {ViewItem(c.slug, d) : d \in InScope(bound, c.env)}
    BY <1>1, <1>4, EntriesRestored
<1>6. \A x \in ds : /\ x.slug = c.slug /\ x.env = c.env
                    /\ \E d \in InScope(bound, c.env) : x.key = d.key /\ x.meta = MetaOf(d)
    BY <1>1 DEF SplitEntries
<1>7. /\ \A d \in draft.definitions : d.slug # c.slug \/ d.env # c.env
      /\ c.slug # Shared /\ c.env # AllEnvs => [slug |-> c.slug, name |-> c.env] \in draft.environments
      /\ c.slug = Shared \/ \E p \in draft.projects : p.slug = c.slug
      /\ c.env \in Envs \cup {AllEnvs}
    BY <1>2 DEF Drafted, ReadsAhead, Reads
<1>8. ListedDefinitions(f)
    <2>1. ListedDefinitions(draft)
        BY <1>2 DEF Drafted, Restorable
    <2>2. IsFiniteSet(ds)
        <3>1. PICK g : g = [d \in InScope(bound, c.env) |->
                               [slug |-> c.slug, env |-> c.env, key |-> d.key, value |-> d.value, meta |-> MetaOf(d)]]
            OBVIOUS
        <3>2. ds = {g[d] : d \in InScope(bound, c.env)}
            BY <1>1, <3>1 DEF SplitEntries
        <3>3. IsFiniteSet(InScope(bound, c.env))
            BY FS_Subset DEF InScope, VaultInv, DefinitionInv
        <3> QED
            BY <3>2, <3>3, ImageFinite
    <2>3. IsFiniteSet(f.definitions)
        <3>1. PICK D : D = draft.definitions
            OBVIOUS
        <3>2. IsFiniteSet(D \cup ds)
            BY <2>1, <2>2, <3>1, FS_Union DEF ListedDefinitions
        <3> QED
            BY <1>3, <3>1, <3>2
    <2>4. \A x \in ds : SecretMeta(x.meta) \in Metadata
        BY <1>4, <1>6, MetadataRestored
    <2>5. \A x, y \in ds : x.key = y.key => x = y
        <3>1. \A d, o \in InScope(bound, c.env) : d.key = o.key => d = o
            BY DEF InScope, VaultInv, DefinitionInv
        <3> QED
            BY <1>1, <3>1 DEF SplitEntries
    <2>6. ASSUME NEW d \in f.definitions
          PROVE  /\ d.env \in Envs \cup {AllEnvs} /\ SecretMeta(d.meta) \in Metadata
                 /\ d.slug = Shared \/ \E p \in f.projects : p.slug = d.slug
                 /\ d.slug # Shared /\ d.env # AllEnvs => [slug |-> d.slug, name |-> d.env] \in f.environments
        <3>1. CASE d \in draft.definitions
            BY <3>1, <1>3, <2>1 DEF ListedDefinitions
        <3>2. CASE d \in ds
            BY <3>2, <1>3, <1>6, <1>7, <2>4
        <3> QED
            BY <3>1, <3>2, <1>3
    <2>7. ASSUME NEW d \in f.definitions, NEW o \in f.definitions,
                 d.slug = o.slug, d.env = o.env, d.key = o.key
          PROVE  d = o
        BY <2>7, <1>3, <1>6, <1>7, <2>1, <2>5 DEF ListedDefinitions
    <2> QED
        BY <2>3, <2>6, <2>7 DEF ListedDefinitions
<1>9. Restorable(f)
    BY <1>2, <1>3, <1>8 DEF Drafted, Restorable, ListedProjects, ListedEnvironments
<1>10. Shows(bound, c.slug)
    BY ReadShows
<1>11. /\ Picture(Meaning(f)) /\ Meaning(f).projects = draft.projects
       /\ Meaning(f).environments = draft.environments
       /\ Meaning(f).definitions = Meaning(draft).definitions \cup {ViewItem(c.slug, d) : d \in InScope(bound, c.env)}
    <2>1. Meaning(f).definitions = {Restored(d) : d \in draft.definitions \cup ds}
        BY <1>3, MeaningFields
    <2>2. Meaning(draft).definitions = {Restored(d) : d \in draft.definitions}
        BY <1>2, MeaningFields
    <2>3. {Restored(d) : d \in draft.definitions \cup ds} =
              {Restored(d) : d \in draft.definitions} \cup {Restored(d) : d \in ds}
        OBVIOUS
    <2> QED
        BY <1>3, <1>5, <2>1, <2>2, <2>3, MeaningFields
<1>12. Within(Meaning(f), seen)
    <2>1. Within(Meaning(draft), seen) /\ Picture(Meaning(draft))
        BY <1>2, MeaningFields DEF Drafted
    <2>2. \A d \in InScope(bound, c.env) : ViewItem(c.slug, d) \in seen.definitions
        BY <1>4, <1>10 DEF Shows
    <2>3. /\ draft.projects \subseteq seen.projects /\ draft.environments \subseteq seen.environments
          /\ Meaning(draft).definitions \subseteq seen.definitions
        BY <1>2, <2>1, PictureFields, MeaningFields
    <2> QED
        BY <1>11, <2>2, <2>3, PictureFields
<1>13. c = ReadScope(c.slug, c.env)
    BY DEF Reads, ReadScope
<1>14. ReadsAhead(f, P \ {c})
    <2>1. ASSUME NEW o \in P \ {c}, o.read = "scope", NEW x \in ds PROVE x.slug # o.slug \/ x.env # o.env
        <3>1. o \in Reads
            BY <1>1, PendingFacts DEF Exporting, Ordered, OneRead
        <3>2. o = ReadScope(o.slug, o.env)
            BY <2>1, <3>1 DEF Reads, ReadScope
        <3> QED
            BY <1>6, <1>13, <2>1, <3>2
    <2>2. ASSUME NEW o \in P \ {c}, o.read = "environments", NEW x \in ds, x.slug = o.slug PROVE x.env = AllEnvs
        BY <2>2, <1>2, <1>6 DEF Drafted, ReadsAhead
    <2> QED
        BY <1>2, <1>3, <2>1, <2>2 DEF Drafted, ReadsAhead
<1>15. Covers(always, f, P \ {c})
    <2>1. \A e \in always.environments : ReadEnvs(e.slug) # c
        BY <1>13 DEF ReadEnvs, ReadScope
    <2>2. \A d \in always.definitions : ReadEnvs(d.slug) # c
        BY <1>13 DEF ReadEnvs, ReadScope
    <2>3. ASSUME NEW x \in always.definitions, ReadScope(x.slug, x.env) = c PROVE x \in Meaning(f).definitions
        <3>1. x.slug = c.slug /\ x.env = c.env
            BY <2>3, <1>13 DEF ReadScope
        <3>2. PICK d \in definitions : d.pid = bound /\ x = ViewItem(c.slug, d)
            BY <1>10, <3>1 DEF Shows
        <3>3. d.env = c.env
            BY <3>1, <3>2 DEF ViewItem
        <3>4. d \in InScope(bound, c.env)
            BY <3>2, <3>3 DEF InScope
        <3> QED
            BY <3>2, <3>4, <1>11
    <2> QED
        BY <1>2, <1>3, <1>11, <2>1, <2>2, <2>3 DEF Drafted, Covers
<1> QED
    BY <1>1, <1>9, <1>12, <1>14, <1>15 DEF Drafted

\* The environments of a project, or of all, have been read.
NamesOf(c) == IF c.slug = Shared THEN SharedEnvironments ELSE EnvironmentsOf(bound)
NamesRead(c) ==
    Joined(draft, [Empties EXCEPT !.environments =
                       IF c.slug = Shared THEN {} ELSE {[slug |-> c.slug, name |-> n] : n \in NamesOf(c)}])
ScopeReads(c) == {ReadScope(c.slug, n) : n \in NamesOf(c)}

\* The names are finitely many, and every definition that has one is in one of them.
LEMMA VaultNames ==
    ASSUME VaultInv
    PROVE  /\ IsFiniteSet(SharedEnvironments) /\ SharedEnvironments \subseteq Envs
           /\ \A d \in definitions : d.pid = 0 /\ d.env # AllEnvs => d.env \in SharedEnvironments
           /\ \A id : /\ IsFiniteSet(EnvironmentsOf(id)) /\ EnvironmentsOf(id) \subseteq Envs
                      /\ \A n \in EnvironmentsOf(id) : \E e \in environments : e.pid = id /\ e.name = n
                      /\ \A e \in environments : e.pid = id => e.name \in EnvironmentsOf(id)
                      /\ id # 0 => \A d \in definitions :
                            d.pid = id /\ d.env # AllEnvs => d.env \in EnvironmentsOf(id)
<1>1. environments \subseteq [pid : Nat \ {0}, name : Envs] /\ IsFiniteSet(environments)
    BY DEF VaultInv, EnvironmentInv
<1>2. PICK g, h : g = [e \in environments |-> e.name] /\ h = [d \in definitions |-> d.env]
    OBVIOUS
<1>3. /\ IsFiniteSet(SharedEnvironments) /\ SharedEnvironments \subseteq Envs
      /\ \A d \in definitions : d.pid = 0 /\ d.env # AllEnvs => d.env \in SharedEnvironments
    <2>1. PICK D : D = {x \in definitions : x.pid = 0 /\ x.env # AllEnvs}
        OBVIOUS
    <2>2. SharedEnvironments = {g[e] : e \in environments} \cup {h[d] : d \in D}
        BY <1>2, <2>1 DEF SharedEnvironments
    <2>3. IsFiniteSet(D)
        BY <2>1, FS_Subset DEF VaultInv, DefinitionInv
    <2>4. IsFiniteSet({g[e] : e \in environments}) /\ IsFiniteSet({h[d] : d \in D})
        BY <1>1, <2>3, ImageFinite
    <2>5. IsFiniteSet(SharedEnvironments)
        BY <2>2, <2>4, FS_Union
    <2>6. \A d \in D : d.env \in Envs
        BY <2>1 DEF VaultInv, DefinitionInv
    <2>7. SharedEnvironments \subseteq Envs
        BY <1>1, <2>1, <2>6 DEF SharedEnvironments
    <2> QED
        BY <2>5, <2>7 DEF SharedEnvironments
<1>4. ASSUME NEW id
      PROVE  /\ IsFiniteSet(EnvironmentsOf(id)) /\ EnvironmentsOf(id) \subseteq Envs
             /\ \A n \in EnvironmentsOf(id) : \E e \in environments : e.pid = id /\ e.name = n
             /\ \A e \in environments : e.pid = id => e.name \in EnvironmentsOf(id)
             /\ id # 0 => \A d \in definitions :
                   d.pid = id /\ d.env # AllEnvs => d.env \in EnvironmentsOf(id)
    <2>1. PICK E : E = {x \in environments : x.pid = id}
        OBVIOUS
    <2>2. EnvironmentsOf(id) = {g[e] : e \in E}
        BY <1>2, <2>1 DEF EnvironmentsOf
    <2>3. IsFiniteSet(E)
        BY <1>1, <2>1, FS_Subset
    <2>4. IsFiniteSet(EnvironmentsOf(id))
        BY <2>2, <2>3, ImageFinite
    <2>5. ASSUME id # 0, NEW d \in definitions, d.pid = id, d.env # AllEnvs
          PROVE  d.env \in EnvironmentsOf(id)
        <3>1. PICK e \in environments : e = [pid |-> id, name |-> d.env]
            BY <2>5 DEF VaultInv, DefinitionInv, HasEnvironment
        <3>2. e.pid = id /\ e.name = d.env
            BY <3>1
        <3> QED
            BY <3>2 DEF EnvironmentsOf
    <2> QED
        BY <1>1, <2>4, <2>5 DEF EnvironmentsOf
<1> QED
    BY <1>3, <1>4

\* They are finitely many names, and every definition that stayed is in one of them.
LEMMA NamesFacts ==
    ASSUME VaultInv, HistoryInv, job = "export", Exporting, NEW c \in Head(plan), LookedUp(c)
    PROVE  /\ IsFiniteSet(NamesOf(c)) /\ NamesOf(c) \subseteq Envs
           /\ c.slug # Shared => \A n \in NamesOf(c) : \E e \in environments : e.pid = bound /\ e.name = n
           /\ c.slug # Shared => \A e \in environments : e.pid = bound => e.name \in NamesOf(c)
           /\ \A d \in definitions : d.pid = bound /\ d.env # AllEnvs => d.env \in NamesOf(c)
<1>1. CASE c.slug = Shared
    <2>1. bound = 0 /\ NamesOf(c) = SharedEnvironments
        BY <1>1 DEF LookedUp, NamesOf
    <2> QED
        BY <1>1, <2>1, VaultNames
<1>2. CASE c.slug # Shared
    <2>1. bound # 0 /\ NamesOf(c) = EnvironmentsOf(bound)
        BY <1>2 DEF LookedUp, NamesOf
    <2>2. PICK id : id = bound
        OBVIOUS
    <2>3. /\ IsFiniteSet(EnvironmentsOf(id)) /\ EnvironmentsOf(id) \subseteq Envs
          /\ \A n \in EnvironmentsOf(id) : \E e \in environments : e.pid = id /\ e.name = n
          /\ \A e \in environments : e.pid = id => e.name \in EnvironmentsOf(id)
          /\ \A d \in definitions : d.pid = id /\ d.env # AllEnvs => d.env \in EnvironmentsOf(id)
        BY <2>1, <2>2, VaultNames
    <2> QED
        BY <1>2, <2>1, <2>2, <2>3
<1> QED
    BY <1>1, <1>2

\* The draft stays in order when environments join it and their scopes are still to be read.
LEMMA ReadEnvsDrafts ==
    ASSUME VaultInv, HistoryInv, job = "export", Exporting,
           NEW c \in Head(plan), LookedUp(c), c \in Reads, c \in Pending(plan), c.read = "environments"
    PROVE  Drafted(NamesRead(c), ScopeReads(c) \cup (Pending(plan) \ {c}))
<1>1. PICK f, es, P, Q :
          /\ f = NamesRead(c) /\ P = Pending(plan) /\ Q = ScopeReads(c) \cup (P \ {c})
          /\ es = IF c.slug = Shared THEN {} ELSE {[slug |-> c.slug, name |-> n] : n \in NamesOf(c)}
    OBVIOUS
<1>2. Drafted(draft, P) /\ Picture(draft) /\ c \in P
    BY <1>1 DEF Exporting, Drafted, Restorable
<1>3. /\ Picture(f) /\ f.projects = draft.projects /\ f.environments = draft.environments \cup es
      /\ f.definitions = draft.definitions
    <2>1. PICK g : g = [Empties EXCEPT !.environments = es]
        OBVIOUS
    <2>2. g.projects = {} /\ g.environments = es /\ g.definitions = {}
        BY <2>1, FilledFields
    <2>3. f = Joined(draft, g)
        BY <1>1, <2>1 DEF NamesRead
    <2>4. /\ Picture(Joined(draft, g)) /\ Joined(draft, g).projects = draft.projects \cup g.projects
          /\ Joined(draft, g).environments = draft.environments \cup g.environments
          /\ Joined(draft, g).definitions = draft.definitions \cup g.definitions
        BY ONLY <1>2, PictureFields
    <2> QED
        BY <2>2, <2>3, <2>4
<1>4. /\ c.slug = Shared \/ \E p \in draft.projects : p.slug = c.slug
      /\ c.env = AllEnvs
      /\ \A d \in draft.definitions : d.slug = c.slug => d.env = AllEnvs
      /\ \A o \in P : o.slug = c.slug => o.env = AllEnvs
    BY <1>2 DEF Drafted, ReadsAhead
<1>5. \A e \in es : c.slug # Shared /\ \E n \in NamesOf(c) : e = [slug |-> c.slug, name |-> n]
    BY <1>1
<1>6. \A n \in NamesOf(c) : n \in Envs /\ n # AllEnvs
    BY NamesFacts, ReadersAssumption
<1>7. c.slug \in Slugs \cup {Shared} /\ c = ReadEnvs(c.slug)
    BY <1>4 DEF Reads, ReadEnvs
<1>8. Restorable(f)
    <2>1. IsFiniteSet(es)
        <3>1. CASE c.slug = Shared
            BY <1>1, <3>1, FS_EmptySet
        <3>2. CASE c.slug # Shared
            <4>1. PICK g : g = [n \in NamesOf(c) |-> [slug |-> c.slug, name |-> n]]
                OBVIOUS
            <4>2. es = {g[n] : n \in NamesOf(c)}
                BY <1>1, <3>2, <4>1
            <4> QED
                BY <4>2, NamesFacts, ImageFinite
        <3> QED
            BY <3>1, <3>2
    <2>2. IsFiniteSet(f.environments)
        <3>1. PICK E : E = draft.environments
            OBVIOUS
        <3>2. IsFiniteSet(E \cup es)
            BY <1>2, <2>1, <3>1, FS_Union DEF Drafted, Restorable, ListedEnvironments
        <3> QED
            BY <1>3, <3>1, <3>2
    <2>3. \A e \in es : e \in [slug : Slugs, name : Envs] /\ \E p \in f.projects : p.slug = e.slug
        BY <1>3, <1>4, <1>5, <1>6, <1>7
    <2>4. ListedEnvironments(f)
        BY <1>2, <1>3, <2>2, <2>3 DEF Drafted, Restorable, ListedEnvironments
    <2>5. ListedProjects(f) /\ ListedDefinitions(f)
        BY <1>2, <1>3 DEF Drafted, Restorable, ListedProjects, ListedDefinitions
    <2> QED
        BY <1>3, <2>4, <2>5 DEF Restorable
<1>9. Shows(bound, c.slug)
    BY ReadShows
<1>10. /\ Picture(Meaning(f)) /\ Meaning(f).projects = draft.projects
       /\ Meaning(f).environments = draft.environments \cup es
       /\ Meaning(f).definitions = Meaning(draft).definitions
    BY <1>2, <1>3, MeaningFields
<1>11. Within(Meaning(f), seen)
    <2>1. Within(Meaning(draft), seen) /\ Picture(Meaning(draft))
        BY <1>2, MeaningFields DEF Drafted
    <2>2. \A e \in es : e \in seen.environments
        <3> SUFFICES ASSUME NEW e \in es PROVE e \in seen.environments
            OBVIOUS
        <3>1. PICK n \in NamesOf(c) : e = [slug |-> c.slug, name |-> n] /\ c.slug # Shared
            BY <1>5
        <3>2. PICK x \in environments : x.pid = bound /\ x.name = n
            BY <3>1, NamesFacts
        <3> QED
            BY <1>9, <3>1, <3>2 DEF Shows
    <2>3. /\ draft.projects \subseteq seen.projects /\ draft.environments \subseteq seen.environments
          /\ Meaning(draft).definitions \subseteq seen.definitions
        BY <1>2, <2>1, PictureFields, MeaningFields
    <2> QED
        BY <1>10, <2>2, <2>3, PictureFields
<1>12. ASSUME NEW o \in Q
       PROVE  \/ o \in P /\ o # c
              \/ \E n \in NamesOf(c) : o.read = "scope" /\ o.slug = c.slug /\ o.env = n /\ n # AllEnvs
    BY <1>1, <1>6 DEF ScopeReads, ReadScope
<1>13. ReadsAhead(f, Q)
    <2>1. ASSUME NEW o \in Q PROVE o.slug = Shared \/ \E p \in f.projects : p.slug = o.slug
        BY <1>2, <1>3, <1>4, <1>12 DEF Drafted, ReadsAhead
    <2>2. ASSUME NEW o \in Q, o.read = "scope"
          PROVE  /\ \A d \in f.definitions : d.slug # o.slug \/ d.env # o.env
                 /\ o.slug # Shared /\ o.env # AllEnvs => [slug |-> o.slug, name |-> o.env] \in f.environments
        <3>1. CASE o \in P
            BY <1>2, <1>3, <2>2, <3>1 DEF Drafted, ReadsAhead
        <3>2. CASE \E n \in NamesOf(c) : o.slug = c.slug /\ o.env = n /\ n # AllEnvs
            <4>1. c.slug # Shared => [slug |-> c.slug, name |-> o.env] \in es
                BY <1>1, <3>2
            <4> QED
                BY <1>3, <1>4, <3>2, <4>1
        <3> QED
            BY <1>12, <3>1, <3>2
    <2>3. ASSUME NEW o \in Q, o.read = "environments"
          PROVE  /\ o.env = AllEnvs
                 /\ \A d \in f.definitions : d.slug = o.slug => d.env = AllEnvs
                 /\ \A x \in Q : x.slug = o.slug => x.env = AllEnvs
        <3>1. o \in P /\ o # c
            BY <1>12, <2>3
        <3>2. /\ o.env = AllEnvs
              /\ \A d \in f.definitions : d.slug = o.slug => d.env = AllEnvs
              /\ \A x \in P : x.slug = o.slug => x.env = AllEnvs
            BY <1>2, <1>3, <2>3, <3>1 DEF Drafted, ReadsAhead
        <3>3. o.slug # c.slug
            <4>1. o \in Reads
                BY <1>1, <3>1, PendingFacts DEF Exporting, Ordered, OneRead
            <4>2. o = ReadEnvs(o.slug)
                BY <2>3, <3>2, <4>1 DEF Reads, ReadEnvs
            <4> QED
                BY <1>7, <3>1, <4>2
        <3> QED
            BY <1>12, <3>2, <3>3
    <2> QED
        BY <2>1, <2>2, <2>3 DEF ReadsAhead
<1>14. Covers(always, f, Q)
    <2>1. ASSUME NEW e \in always.environments
          PROVE  e \in f.environments \/ ReadEnvs(e.slug) \in Q
        <3>1. CASE e.slug = c.slug
            <4>1. PICK x \in environments : x.pid = bound /\ e = [slug |-> c.slug, name |-> x.name]
                BY <1>9, <3>1 DEF Shows
            <4>2. c.slug # Shared
                BY <4>1 DEF LookedUp, VaultInv, EnvironmentInv
            <4>3. x.name \in NamesOf(c)
                BY <4>1, <4>2, NamesFacts
            <4> QED
                BY <1>1, <1>3, <4>1, <4>2, <4>3
        <3>2. CASE e.slug # c.slug
            <4>1. ReadEnvs(e.slug) # c
                BY <1>7, <3>2 DEF ReadEnvs
            <4> QED
                BY <1>1, <1>2, <1>3, <4>1 DEF Drafted, Covers
        <3> QED
            BY <3>1, <3>2
    <2>2. ASSUME NEW x \in always.definitions
          PROVE  \/ x \in Meaning(f).definitions
                 \/ ReadScope(x.slug, x.env) \in Q
                 \/ x.env # AllEnvs /\ ReadEnvs(x.slug) \in Q
        <3>1. ReadScope(x.slug, x.env) # c
            BY <1>7 DEF ReadScope, ReadEnvs
        <3>2. CASE x.slug = c.slug /\ x.env # AllEnvs
            <4>1. PICK d \in definitions : d.pid = bound /\ x = ViewItem(c.slug, d)
                BY <1>9, <3>2 DEF Shows
            <4>2. d.env = x.env
                BY <4>1 DEF ViewItem
            <4>3. x.env \in NamesOf(c)
                BY <3>2, <4>1, <4>2, NamesFacts
            <4> QED
                BY <1>1, <3>2, <4>3 DEF ScopeReads
        <3>3. CASE x.slug # c.slug
            <4>1. ReadEnvs(x.slug) # c
                BY <1>7, <3>3 DEF ReadEnvs
            <4> QED
                BY <1>1, <1>2, <1>10, <3>1, <4>1 DEF Drafted, Covers
        <3>4. CASE x.env = AllEnvs
            BY <1>1, <1>2, <1>10, <3>1, <3>4 DEF Drafted, Covers
        <3> QED
            BY <3>2, <3>3, <3>4
    <2>3. always.projects \subseteq f.projects
        BY <1>2, <1>3 DEF Drafted, Covers
    <2> QED
        BY <2>1, <2>2, <2>3 DEF Covers
<1> QED
    BY <1>1, <1>8, <1>11, <1>13, <1>14 DEF Drafted
-----------------------------------------------------------------------------
(***************************************************************************)
(* Export: its steps.                                                      *)
(***************************************************************************)

\* What is read from a vault that stays the same leaves its history.
LEMMA HistoryStays ==
    ASSUME VaultInv, HistoryInv, UNCHANGED <<vault, history>>
    PROVE  VaultInv' /\ Picture(seen') /\ Picture(always') /\ (job # "none" => HistoryInv')
<1>1. View' = View
    BY DEF View, SlugOf, vault
<1>2. seen' = seen /\ always' = always
    BY DEF history
<1> QED
    BY <1>1, <1>2, StutterKeeps DEF HistoryInv

\* No project is 0, and the identities given stay below the next one.
LEMMA Identities ==
    \A n, m \in Nat : /\ n # 0 => 0 \in 0..(n - 1)
                      /\ n <= m => \A i \in 0..(n - 1) : i \in 0..(m - 1)
                      /\ n <= m => 1..(n - 1) \subseteq 1..(m - 1)
                      /\ n..(m - 1) \subseteq 0..(m - 1)
                      /\ n # 0 => n..(m - 1) \subseteq 1..(m - 1)
                      /\ \A i \in 1..(n - 1) : i \notin n..(m - 1)
OBVIOUS

\* A read that keeps the draft in order keeps the invariant.
Continues(c, found, calls) ==
    /\ Ordered(calls, OneRead, Apart) /\ \A d \in Pending(calls) : d \notin Pending(plan)
    /\ Drafted(Joined(draft, found), Pending(calls) \cup (Pending(plan) \ {c}))

\* Such a read, whether it is the last one or not, keeps the invariant.
LEMMA ReadKeeps ==
    ASSUME Inv, job = "export", NEW c \in Head(plan), NEW found, NEW calls,
           Continues(c, found, calls), Read(c, found, calls)
    PROVE  Inv'
<1>1. PICK f, p : f = Joined(draft, found) /\ p = calls \o Rest(c)
    OBVIOUS
<1>2. Exporting /\ last = "none" /\ VaultInv /\ JobInv /\ HistoryInv /\ FileInv
    BY DEF Inv, ExportInv, Exporting
<1>3. Ordered(p, OneRead, Apart) /\ Pending(p) = Pending(calls) \cup (Pending(plan) \ {c})
    BY <1>1, <1>2, ReadAgain DEF Exporting, Continues
<1>4. Drafted(f, Pending(p))
    BY <1>1, <1>3 DEF Continues
<1>5. VaultInv' /\ HistoryInv' /\ seen' = seen /\ always' = always /\ meanwhile' = meanwhile
    BY <1>2, HistoryStays DEF Read, history
<1>6. CASE p = <<>>
    <2>1. job' = "none" /\ last' = "exported" /\ file' = f
        BY <1>1, <1>6 DEF Read, Proceeds, Ended
    <2>2. Pending(p) = {}
        BY <1>6, SmallPlans
    <2>3. Restorable(f) /\ Within(Meaning(f), seen) /\ Covers(always, f, {})
        BY <1>4, <2>2 DEF Drafted
    <2>4. Within(always, Meaning(f))
        <3>1. Picture(f) /\ Picture(always)
            BY <1>2, <2>3 DEF HistoryInv, Restorable
        <3> QED
            BY <2>3, <3>1, MeaningFields, PictureFields DEF Covers
    <2>5. FileInv' /\ ExportInv' /\ ImportInv' /\ JobInv'
        BY <1>2, <1>5, <2>1, <2>3, <2>4 DEF FileInv, ExportInv, ImportInv, JobInv
    <2> QED
        BY <1>5, <2>5 DEF Inv
<1>7. CASE p # <<>>
    <2>1. job' = "export" /\ last' = "none" /\ file' = file /\ plan' = p /\ draft' = f /\ bound' = 0
        BY <1>1, <1>2, <1>7 DEF Read, Proceeds
    <2>2. Drafted(draft', Pending(plan'))
        BY <1>4, <2>1
    <2>3. Drafted(draft, Pending(plan))'
        BY <1>5, <2>2 DEF Drafted, Covers
    <2>4. Exporting'
        <3>1. 0 \in 0..(nextId' - 1)
            <4>1. nextId' \in Nat /\ nextId' # 0
                BY <1>5 DEF VaultInv, ProjectInv
            <4> QED
                BY <4>1, Identities
        <3> QED
            BY <1>3, <1>7, <2>1, <2>3, <3>1 DEF Exporting
    <2>5. FileInv' /\ ExportInv' /\ ImportInv' /\ JobInv'
        BY <1>2, <1>5, <2>1, <2>4 DEF FileInv, ExportInv, ImportInv, JobInv
    <2> QED
        BY <1>5, <2>5 DEF Inv
<1> QED
    BY <1>6, <1>7

\* The definitions of a scope are read once, and all of them.
LEMMA ReadDefinitionsKeeps ==
    ASSUME Inv, ReadDefinitions PROVE Inv'
<1>1. PICK c \in Head(plan) :
         /\ job = "export" /\ c.read = "scope" /\ LookedUp(c)
         /\ Read(c, [Empties EXCEPT !.definitions = SplitEntries(c.slug, c.env, InScope(bound, c.env))], <<>>)
    BY DEF ReadDefinitions
<1>2. PICK found : found = [Empties EXCEPT !.definitions = SplitEntries(c.slug, c.env, InScope(bound, c.env))]
    OBVIOUS
<1>3. VaultInv /\ HistoryInv /\ Exporting
    BY <1>1 DEF Inv, ExportInv
<1>4. c \in Reads /\ c \in Pending(plan)
    BY <1>3, HeadFacts, OrderedRest, ReadsSteady DEF Exporting
<1>5. Drafted(ScopeRead(c), Pending(plan) \ {c})
    BY <1>1, <1>3, <1>4, ReadScopeDrafts
<1>6. ScopeRead(c) = Joined(draft, found)
    BY <1>2 DEF ScopeRead
<1>7. Continues(c, found, <<>>)
    <2>1. Pending(<<>>) = {} /\ Ordered(<<>>, OneRead, Apart)
        BY SmallPlans
    <2>2. Pending(<<>>) \cup (Pending(plan) \ {c}) = Pending(plan) \ {c}
        BY <2>1
    <2> QED
        BY <1>5, <1>6, <2>1, <2>2 DEF Continues
<1>8. Read(c, found, <<>>)
    BY <1>1, <1>2
<1> QED
    BY <1>1, <1>7, <1>8, ReadKeeps

\* The environments of a project are read once, and bring about the reads of their scopes.
LEMMA ReadEnvironmentsKeeps ==
    ASSUME Inv, ReadEnvironments PROVE Inv'
<1>1. PICK c \in Head(plan) :
         /\ job = "export" /\ c.read = "environments" /\ LookedUp(c)
         /\ Read(c, [Empties EXCEPT !.environments =
                         IF c.slug = Shared THEN {} ELSE {[slug |-> c.slug, name |-> n] : n \in NamesOf(c)}],
                 Calls(NamesOf(c), [n \in NamesOf(c) |-> <<{ReadScope(c.slug, n)}>>]))
    BY DEF ReadEnvironments, NamesOf
<1>2. PICK found, calls :
         /\ found = [Empties EXCEPT !.environments =
                        IF c.slug = Shared THEN {} ELSE {[slug |-> c.slug, name |-> n] : n \in NamesOf(c)}]
         /\ calls = Calls(NamesOf(c), [n \in NamesOf(c) |-> <<{ReadScope(c.slug, n)}>>])
    OBVIOUS
<1>3. VaultInv /\ HistoryInv /\ Exporting
    BY <1>1 DEF Inv, ExportInv
<1>4. c \in Reads /\ c \in Pending(plan)
    BY <1>3, HeadFacts, OrderedRest, ReadsSteady DEF Exporting
<1>5. Drafted(NamesRead(c), ScopeReads(c) \cup (Pending(plan) \ {c}))
    BY <1>1, <1>3, <1>4, ReadEnvsDrafts
<1>6. NamesRead(c) = Joined(draft, found)
    BY <1>2 DEF NamesRead
<1>7. Ordered(calls, OneRead, Apart) /\ Pending(calls) = ScopeReads(c)
    <2>1. PICK s \in Slugs \cup {Shared}, names \in SUBSET Envs :
             s = c.slug /\ names = NamesOf(c) /\ IsFiniteSet(names)
        BY <1>1, <1>3, <1>4, NamesFacts DEF Reads
    <2>2. calls = Calls(names, [n \in names |-> <<{ReadScope(s, n)}>>])
        BY <1>2, <2>1
    <2> QED
        BY <2>1, <2>2, NamesPlan DEF ScopeReads
<1>8. \A d \in ScopeReads(c) : d \notin Pending(plan)
    <2>1. \A o \in Pending(plan) : o.slug = c.slug => o.env = AllEnvs
        BY <1>1, <1>3, <1>4 DEF Exporting, Drafted, ReadsAhead
    <2>2. \A n \in NamesOf(c) : n # AllEnvs
        BY <1>1, <1>3, NamesFacts, ReadersAssumption
    <2> QED
        BY <2>1, <2>2 DEF ScopeReads, ReadScope
<1>9. Continues(c, found, calls)
    BY <1>5, <1>6, <1>7, <1>8 DEF Continues
<1>10. Read(c, found, calls)
    BY <1>1, <1>2
<1> QED
    BY <1>1, <1>9, <1>10, ReadKeeps

\* The project that a read looks up is the one that its slug names.
LEMMA LookupKeeps ==
    ASSUME Inv, Lookup PROVE Inv'
<1>1. PICK c \in Head(plan), pr \in projects : job = "export" /\ c.slug = pr.slug /\ bound' = pr.id
    BY DEF Lookup
<1>2. UNCHANGED <<vault, history, job, plan, draft, file, last, mine>>
    BY DEF Lookup
<1>3. Exporting /\ VaultInv /\ HistoryInv /\ JobInv /\ FileInv /\ last = "none"
    BY <1>1 DEF Inv, ExportInv, Exporting
<1>4. /\ VaultInv' /\ HistoryInv' /\ seen' = seen /\ always' = always
      /\ meanwhile' = meanwhile /\ projects' = projects
    BY <1>1, <1>2, <1>3, HistoryStays DEF history, vault
<1>5. \A d \in Head(plan) : d = c
    BY <1>3, HeadFacts DEF Exporting, OneRead
<1>6. \A d \in Head(plan)' : d.slug # Shared /\ AtHome(d)'
    BY <1>1, <1>2, <1>3, <1>4, <1>5, SlugFacts DEF AtHome, Home
<1>7. Drafted(draft, Pending(plan))'
    BY <1>2, <1>3, <1>4 DEF Exporting, Drafted, Covers
<1>8. Exporting'
    <2>1. pr.id \in 0..(nextId - 1) /\ nextId' = nextId
        BY <1>1, <1>2, <1>3 DEF VaultInv, ProjectInv, vault
    <2> QED
        BY <1>1, <1>2, <1>3, <1>6, <1>7, <2>1 DEF Exporting
<1>9. FileInv' /\ ExportInv' /\ ImportInv' /\ JobInv'
    BY <1>1, <1>2, <1>3, <1>4, <1>8 DEF FileInv, ExportInv, ImportInv, JobInv
<1> QED
    BY <1>4, <1>9 DEF Inv

\* Export starts with a draft of the projects and the reads that give the rest.
LEMMA ExportKeeps ==
    ASSUME Inv, Export PROVE Inv'
<1>1. /\ job = "none" /\ job' = "export" /\ plan' = ExportCalls /\ bound' = 0 /\ last' = "none"
      /\ meanwhile' = 0 /\ seen' = View /\ always' = View /\ UNCHANGED <<vault, file>>
      /\ Begun(draft')
    BY DEF Export, Starts, ExportCalls, Begun
<1>2. VaultInv /\ JobInv /\ FileInv
    BY DEF Inv
<1>3. VaultInv' /\ View' = View
    BY <1>1, <1>2, StutterKeeps DEF View, SlugOf, vault
<1>4. HistoryInv'
    BY <1>1, <1>2, <1>3, ViewFacts DEF HistoryInv, Within
<1>5. Ordered(plan', OneRead, Apart) /\ plan' # <<>> /\ Pending(plan') = StartReads
    BY <1>1, <1>2, ExportPlan DEF StartReads
<1>6. PICK f : f = draft' /\ Begun(f)
    BY <1>1
<1>7. /\ Restorable(f) /\ Within(Meaning(f), View) /\ ReadsAhead(f, StartReads)
      /\ Covers(View, f, StartReads)
    BY <1>2, <1>6, ExportBegins
<1>8. Drafted(draft, Pending(plan))'
    BY <1>1, <1>5, <1>6, <1>7 DEF Drafted
<1>9. Exporting'
    <2>1. 0 \in 0..(nextId' - 1)
        <3>1. nextId' \in Nat /\ nextId' # 0
            BY <1>3 DEF VaultInv, ProjectInv
        <3> QED
            BY <3>1, Identities
    <2> QED
        BY <1>1, <1>5, <1>8, <2>1 DEF Exporting
<1>10. FileInv' /\ ExportInv' /\ ImportInv' /\ JobInv'
    BY <1>1, <1>2, <1>9 DEF FileInv, ExportInv, ImportInv, JobInv
<1> QED
    BY <1>3, <1>4, <1>10 DEF Inv

\* A step of the vault adds to what was seen, and takes from what was always there.
LEMMA ObserveKeeps ==
    ASSUME HistoryInv, NEW n, Observe(n)
    PROVE  /\ HistoryInv'
           /\ job' # "none" \/ last' \notin {"none", "failed"} =>
                 /\ \A f : Within(f, seen) /\ Picture(f) => Within(f, seen')
                 /\ always'.projects \subseteq always.projects
                 /\ always'.environments \subseteq always.environments \cap View'.environments
                 /\ always'.definitions \subseteq always.definitions \cap View'.definitions
<1>1. CASE job' = "none" /\ last' \in {"none", "failed"}
    BY <1>1, PictureFields DEF HistoryInv, Observe
<1>2. CASE ~(job' = "none" /\ last' \in {"none", "failed"})
    <2>1. seen' = Joined(seen, View') /\ always' = Common(always, View')
        BY <1>2 DEF Observe
    <2>2. PICK v : v = View'
        OBVIOUS
    <2>3. Picture(seen) /\ Picture(always) /\ Picture(v)
        BY <2>2 DEF HistoryInv, View, Picture
    <2>4. /\ Picture(seen') /\ seen'.projects = seen.projects \cup v.projects
          /\ seen'.environments = seen.environments \cup v.environments
          /\ seen'.definitions = seen.definitions \cup v.definitions
        BY <2>1, <2>2, <2>3, PictureFields
    <2>5. /\ Picture(always') /\ always'.projects = always.projects \cap v.projects
          /\ always'.environments = always.environments \cap v.environments
          /\ always'.definitions = always.definitions \cap v.definitions
        BY <2>1, <2>2, <2>3, PictureFields
    <2>6. \A f : Within(f, seen) /\ Picture(f) => Within(f, seen')
        BY <2>4, PictureFields
    <2>7. Within(v, seen') /\ Within(always', v)
        BY <2>3, <2>4, <2>5, PictureFields
    <2> QED
        BY <2>2, <2>4, <2>5, <2>6, <2>7 DEF HistoryInv
<1> QED
    BY <1>1, <1>2

\* After a step, too, a slug in the view is that of a project.
ViewSlugs ==
    /\ \A e \in View.environments : \E pr \in projects : pr.slug = e.slug
    /\ \A d \in View.definitions : d.slug # Shared => \E pr \in projects : pr.slug = d.slug

\* That the vault is well formed after a step is enough for it.
LEMMA ViewSlugsNext == VaultInv' => ViewSlugs'
<1>1. VaultInv => ViewSlugs
    BY ViewFacts DEF ViewSlugs
<1> QED
    BY <1>1, PTL

\* A project keeps its slug, and one that is deleted takes what had that slug along.
LEMMA HomeNext ==
    ASSUME VaultInv, VaultInv', Descends, NEW id \in 1..(nextId - 1), NEW s, s # Shared, Home(id, s),
           always'.environments \subseteq always.environments \cap View'.environments,
           always'.definitions \subseteq always.definitions \cap View'.definitions
    PROVE  Home(id, s)'
<1>1. \A po \in projects' : po.id = id => \E pr \in projects : pr.id = id /\ pr.slug = po.slug
    BY DEF Descends, VaultInv, ProjectInv
<1>2. CASE \E pr \in projects : pr.id = id /\ pr.slug = s
    <2>1. PICK pr \in projects : pr.id = id /\ pr.slug = s
        BY <1>2
    <2>2. CASE \E po \in projects' : po.id = id
        <3>1. \A po \in projects' : po.id = id => po.slug = s
            BY <1>1, <2>1 DEF VaultInv, ProjectInv
        <3> QED
            BY <2>2, <3>1 DEF Home
    <2>3. CASE \A po \in projects' : po.id # id
        <3>1. nextId' = nextId /\ nextId \in Nat
            BY <2>1, <2>3 DEF Descends, VaultInv, ProjectInv
        <3>2. \A po \in projects' : po.slug # s
            <4> SUFFICES ASSUME NEW po \in projects', po.slug = s PROVE FALSE
                OBVIOUS
            <4>1. PICK x \in projects : x.id = po.id /\ x.slug = po.slug
                BY <3>1 DEF Descends
            <4>2. x = pr
                BY <2>1, <4>1 DEF VaultInv, ProjectInv
            <4> QED
                BY <2>1, <2>3, <4>1, <4>2
        <3>3. /\ \A e \in View'.environments : e.slug # s
              /\ \A d \in View'.definitions : d.slug # s
            <4>1. /\ \A e \in View'.environments : \E po \in projects' : po.slug = e.slug
                  /\ \A d \in View'.definitions : d.slug # Shared => \E po \in projects' : po.slug = d.slug
                BY ViewSlugsNext DEF ViewSlugs
            <4> QED
                BY <3>2, <4>1
        <3> QED
            BY <2>3, <3>3 DEF Home, Gone
    <2> QED
        BY <2>2, <2>3
<1>3. CASE /\ Gone(id)
           /\ \A e \in always.environments : e.slug # s
           /\ \A d \in always.definitions : d.slug # s
    BY <1>1, <1>3 DEF Home, Gone
<1> QED
    BY <1>2, <1>3 DEF Home

\* An operation of another client while a read is bound to a project.
LEMMA WriteAtHome ==
    ASSUME VaultInv, VaultInv', Descends, bound' = bound, bound \in 0..(nextId - 1), bound # 0,
           NEW c, c.slug # Shared, AtHome(c),
           always'.environments \subseteq always.environments \cap View'.environments,
           always'.definitions \subseteq always.definitions \cap View'.definitions
    PROVE  AtHome(c)'
<1>1. PICK id, s : id = bound /\ s = c.slug
    OBVIOUS
<1>2. nextId \in Nat /\ id \in 1..(nextId - 1)
    BY <1>1 DEF VaultInv, ProjectInv
<1>3. Home(id, s)'
    BY <1>1, <1>2, HomeNext DEF AtHome
<1> QED
    BY <1>1, <1>3 DEF AtHome
\* Another client's operation during an export.
LEMMA WriteExporting ==
    ASSUME VaultInv, VaultInv', Descends, HistoryInv, Exporting, job = "export",
           UNCHANGED <<job, plan, bound, draft>>, last' = "none", Observe(1)
    PROVE  Exporting'
<1>1. /\ \A f : Within(f, seen) /\ Picture(f) => Within(f, seen')
      /\ always'.projects \subseteq always.projects
      /\ always'.environments \subseteq always.environments \cap View'.environments
      /\ always'.definitions \subseteq always.definitions \cap View'.definitions
    BY ObserveKeeps
<1>2. Covers(always, draft, Pending(plan)) /\ Restorable(draft) /\ Within(Meaning(draft), seen)
      /\ ReadsAhead(draft, Pending(plan))
    BY DEF Exporting, Drafted
<1>3. Covers(always', draft, Pending(plan))
    BY <1>1, <1>2 DEF Covers
<1>4. Within(Meaning(draft), seen')
    BY <1>1, <1>2, MeaningFields DEF Restorable
<1>5. Drafted(draft, Pending(plan))'
    BY <1>2, <1>3, <1>4 DEF Drafted
<1>6. bound' \in 0..(nextId' - 1)
    <2>1. nextId \in Nat /\ nextId' \in Nat /\ nextId <= nextId' /\ bound' = bound /\ bound \in 0..(nextId - 1)
        BY DEF Exporting, Descends, VaultInv, ProjectInv
    <2> QED
        BY <2>1, Identities
<1>7. bound # 0 => \A c \in Head(plan) : c.slug # Shared /\ AtHome(c)'
    BY <1>1, WriteAtHome DEF Exporting
<1> QED
    BY <1>5, <1>6, <1>7 DEF Exporting
-----------------------------------------------------------------------------
(***************************************************************************)
(* Import: its plan.                                                       *)
(***************************************************************************)

\* What the calls name.
LEMMA CallFields ==
    /\ \A p : /\ GetCall(p).op = "GetProject" /\ GetCall(p).slug = p.slug /\ GetCall(p).env = AllEnvs
              /\ CreateCall(p).op = "CreateProject" /\ CreateCall(p).slug = p.slug /\ CreateCall(p).env = AllEnvs
              /\ ExecCall(p).op = "SetAllowExecute" /\ ExecCall(p).slug = p.slug /\ ExecCall(p).env = AllEnvs
              /\ OpenCall(p).op = "SetAllowOpen" /\ OpenCall(p).slug = p.slug /\ OpenCall(p).env = AllEnvs
              /\ ExecCall(p).allow = p.exec /\ OpenCall(p).allow = p.open
    /\ \A e : /\ EnvironmentCall(e).op = "CreateEnvironment"
              /\ EnvironmentCall(e).slug = e.slug /\ EnvironmentCall(e).env = e.name
    /\ \A d : /\ PutOf(d).op = "Put" /\ PutOf(d).slug = d.slug /\ PutOf(d).env = d.env
              /\ PutOf(d).key = d.key /\ PutOf(d).value = d.value
              /\ PutOf(d).sensitive = SecretMeta(d.meta).sensitive
              /\ PutOf(d).kind = SecretMeta(d.meta).kind /\ PutOf(d).hint = SecretMeta(d.meta).hint
BY DEF GetCall, CreateCall, ExecCall, OpenCall, EnvironmentCall, PutOf, Ask, Allow

\* The calls of a backup are those of its projects, environments and definitions.
LEMMA CallForms ==
    ASSUME NEW f
    PROVE  /\ \A p \in f.projects :
                 /\ GetCall(p) \in FileCalls(f) /\ CreateCall(p) \in FileCalls(f)
                 /\ ExecCall(p) \in FileCalls(f) /\ OpenCall(p) \in FileCalls(f)
           /\ \A e \in f.environments : EnvironmentCall(e) \in FileCalls(f)
           /\ \A d \in f.definitions : PutOf(d) \in FileCalls(f)
           /\ \A c \in FileCalls(f) :
                 \/ c.op = "GetProject" /\ \E p \in f.projects : c = GetCall(p)
                 \/ c.op = "CreateProject" /\ \E p \in f.projects : c = CreateCall(p)
                 \/ c.op = "SetAllowExecute" /\ \E p \in f.projects : c = ExecCall(p)
                 \/ c.op = "SetAllowOpen" /\ \E p \in f.projects : c = OpenCall(p)
                 \/ c.op = "CreateEnvironment" /\ \E e \in f.environments : c = EnvironmentCall(e)
                 \/ c.op = "Put" /\ \E d \in f.definitions : c = PutOf(d)
<1>1. ASSUME NEW c \in FileCalls(f)
      PROVE  \/ \E p \in f.projects : c \in {GetCall(p), CreateCall(p), ExecCall(p), OpenCall(p)}
             \/ \E e \in f.environments : c = EnvironmentCall(e)
             \/ \E d \in f.definitions : c = PutOf(d)
    BY DEF FileCalls
<1>2. /\ \A p \in f.projects :
            /\ GetCall(p) \in FileCalls(f) /\ CreateCall(p) \in FileCalls(f)
            /\ ExecCall(p) \in FileCalls(f) /\ OpenCall(p) \in FileCalls(f)
      /\ \A e \in f.environments : EnvironmentCall(e) \in FileCalls(f)
      /\ \A d \in f.definitions : PutOf(d) \in FileCalls(f)
    BY DEF FileCalls
<1>3. ASSUME NEW c \in FileCalls(f)
      PROVE  \/ c.op = "GetProject" /\ \E p \in f.projects : c = GetCall(p)
             \/ c.op = "CreateProject" /\ \E p \in f.projects : c = CreateCall(p)
             \/ c.op = "SetAllowExecute" /\ \E p \in f.projects : c = ExecCall(p)
             \/ c.op = "SetAllowOpen" /\ \E p \in f.projects : c = OpenCall(p)
             \/ c.op = "CreateEnvironment" /\ \E e \in f.environments : c = EnvironmentCall(e)
             \/ c.op = "Put" /\ \E d \in f.definitions : c = PutOf(d)
    <2>1. CASE \E p \in f.projects : c \in {GetCall(p), CreateCall(p), ExecCall(p), OpenCall(p)}
        <3>1. PICK p \in f.projects : c \in {GetCall(p), CreateCall(p), ExecCall(p), OpenCall(p)}
            BY <2>1
        <3>2. /\ GetCall(p).op = "GetProject" /\ CreateCall(p).op = "CreateProject"
              /\ ExecCall(p).op = "SetAllowExecute" /\ OpenCall(p).op = "SetAllowOpen"
            BY CallFields
        <3> QED
            BY <3>1, <3>2
    <2>2. CASE \E e \in f.environments : c = EnvironmentCall(e)
        BY <2>2, CallFields
    <2>3. CASE \E d \in f.definitions : c = PutOf(d)
        BY <2>3, CallFields
    <2> QED
        BY <1>3, <1>1, <2>1, <2>2, <2>3
<1> QED
    BY <1>2, <1>3

\* Calls may be made in any order, unless one creates the project of the other.
LEMMA CallsSteady ==
    ASSUME NEW f PROVE Steady(CallSets(f), CallOrder(f))
BY DEF Steady, CallSets, CallOrder, Free

\* The calls of S, in an order that they may be made in.
Planned(p, S) == Ordered(p, CallSets(file), CallOrder(file)) /\ Pending(p) = S

\* No call of T is one of S or creates a project for one.
Behind(T, S) == \A c \in S, d \in T : c # d /\ ~Creates(d, c)

\* Only calls of the backup are planned.
LEMMA PlannedCallsOnly ==
    ASSUME NEW p, NEW S, Planned(p, S)
    PROVE  S \subseteq FileCalls(file)
<1>1. S \subseteq UNION CallSets(file)
    BY PendingFacts DEF Planned, Ordered
<1> QED
    BY <1>1 DEF CallSets

\* Calls of the backup none of which creates a project for another form a plan.
LEMMA PlannedSet ==
    ASSUME NEW S, S \subseteq FileCalls(file), \A c, d \in S : c # d => ~Creates(d, c)
    PROVE  Planned(<<S>>, S)
<1>1. S \in CallSets(file)
    BY DEF CallSets, Free, CallOrder
<1> QED
    BY <1>1, SmallPlans DEF Planned

\* Plans can be joined when no call of the second has to come before one of the first.
LEMMA PlannedJoins ==
    ASSUME NEW p, NEW q, NEW S, NEW T, Planned(p, S), Planned(q, T), Behind(T, S)
    PROVE  Precedes(p, q, CallOrder(file))
<1>1. S \subseteq FileCalls(file) /\ T \subseteq FileCalls(file)
    BY PlannedCallsOnly
<1> QED
    BY <1>1 DEF Planned, Precedes, Behind, CallOrder

\* Two plans of which the second may follow the first.
Chained(p, q, S, T) == Planned(p, S) /\ Planned(q, T) /\ Behind(T, S)

\* Joined, they plan the calls of both.
LEMMA PlannedConcat ==
    ASSUME NEW p, NEW q, NEW S, NEW T, Chained(p, q, S, T)
    PROVE  Planned(p \o q, S \cup T)
<1>1. PICK F, r : F = CallSets(file) /\ r = CallOrder(file)
    OBVIOUS
<1>2. Precedes(p, q, r)
    BY <1>1, PlannedJoins DEF Chained
<1>3. Composes(p, q, F, r)
    BY <1>1, <1>2 DEF Chained, Planned, Composes
<1>4. Ordered(p \o q, F, r) /\ Pending(p \o q) = Pending(p) \cup Pending(q)
    BY <1>3, OrderedConcat
<1> QED
    BY <1>1, <1>4 DEF Chained, Planned

\* A plan for each element of X, none of which has to come before another.
Scattered(X, f, g) ==
    /\ IsFiniteSet(X)
    /\ \A x \in X : Planned(f[x], g[x])
    /\ \A x, y \in X : x # y => Behind(g[y], g[x])

\* The plans of a set's elements, joined in any order, plan the calls of all.
LEMMA PlannedCalls ==
    ASSUME NEW X, NEW f, NEW g, Scattered(X, f, g)
    PROVE  Planned(Calls(X, f), UNION {g[x] : x \in X})
<1>1. PICK F, r : F = CallSets(file) /\ r = CallOrder(file)
    OBVIOUS
<1>2. ASSUME NEW x \in X, NEW y \in X, x # y PROVE Precedes(f[x], f[y], r)
    <2>1. PICK p, q, S, T : p = f[x] /\ q = f[y] /\ S = g[x] /\ T = g[y]
        OBVIOUS
    <2>2. Planned(p, S) /\ Planned(q, T) /\ Behind(T, S)
        BY <1>2, <2>1 DEF Scattered
    <2> QED
        BY <1>1, <2>1, <2>2, PlannedJoins
<1>3. Compatible(X, f, F, r)
    BY <1>1, <1>2 DEF Compatible, Scattered, Planned
<1>4. Ordered(Calls(X, f), F, r) /\ Pending(Calls(X, f)) = UNION {Pending(f[x]) : x \in X}
    BY <1>3, OrderedCalls
<1>5. UNION {Pending(f[x]) : x \in X} = UNION {g[x] : x \in X}
    BY DEF Scattered, Planned
<1> QED
    BY <1>1, <1>4, <1>5 DEF Planned

\* The calls of a scope, of an environment, of a project.
ScopePuts(s, n) == {c \in FileCalls(file) : c.op = "Put" /\ c.slug = s /\ c.env = n}
EnvironmentPart(s, n) == {c \in FileCalls(file) : c.slug = s /\ c.env = n}
ProjectPart(s) == {c \in FileCalls(file) : c.slug = s /\ c.op # "GetProject"}

\* Puts plans the writes of one scope.
LEMMA PutsPlanned ==
    ASSUME NEW s, NEW n PROVE Planned(Puts(s, n), ScopePuts(s, n))
<1>1. PICK S : S = {PutOf(d) : d \in Filed(s, n)}
    OBVIOUS
<1>2. S = ScopePuts(s, n)
    <2>1. ASSUME NEW d \in Filed(s, n) PROVE PutOf(d) \in ScopePuts(s, n)
        <3>1. d \in file.definitions /\ d.slug = s /\ d.env = n
            BY <2>1 DEF Filed
        <3>2. PICK c \in FileCalls(file) : c = PutOf(d)
            BY <3>1, CallForms
        <3> QED
            BY <3>1, <3>2, CallFields DEF ScopePuts
    <2>2. ASSUME NEW c \in ScopePuts(s, n) PROVE c \in S
        <3>1. PICK d \in file.definitions : c = PutOf(d)
            BY CallForms DEF ScopePuts
        <3>2. d \in Filed(s, n)
            BY <3>1, CallFields DEF ScopePuts, Filed
        <3> QED
            BY <1>1, <3>1, <3>2
    <2> QED
        BY <1>1, <2>1, <2>2
<1>3. CASE Filed(s, n) = {}
    <2>1. Puts(s, n) = <<>> /\ S = {}
        BY <1>1, <1>3 DEF Puts
    <2> QED
        BY <1>2, <2>1, SmallPlans DEF Planned
<1>4. CASE Filed(s, n) # {}
    <2>1. Puts(s, n) = <<S>>
        BY <1>1, <1>4 DEF Puts
    <2>2. S \subseteq FileCalls(file) /\ \A c, d \in S : ~Creates(d, c)
        BY <1>2 DEF ScopePuts, Creates
    <2> QED
        BY <1>2, <2>1, <2>2, PlannedSet
<1> QED
    BY <1>3, <1>4

\* An environment is created before its definitions are written.
LEMMA EnvironmentPlanned ==
    ASSUME Restorable(file), NEW e \in file.environments
    PROVE  Planned(EnvironmentCalls(e.slug, e.name), EnvironmentPart(e.slug, e.name))
<1>1. PICK s, n, S, T :
         s = e.slug /\ n = e.name /\ S = {EnvironmentCall(e)} /\ T = ScopePuts(s, n)
    OBVIOUS
<1>2. e \in [slug : Slugs, name : Envs] /\ n # AllEnvs
    BY <1>1, ReadersAssumption DEF Restorable, ListedEnvironments
<1>3. S \subseteq FileCalls(file) /\ \A c \in S : c.op = "CreateEnvironment"
    <2>1. PICK c \in FileCalls(file) : c = EnvironmentCall(e)
        BY CallForms
    <2> QED
        BY <1>1, <2>1, CallFields
<1>4. Planned(<<S>>, S)
    BY <1>3, PlannedSet DEF Creates
<1>5. Planned(Puts(s, n), T)
    BY <1>1, PutsPlanned
<1>6. Behind(T, S)
    BY <1>1, <1>3 DEF Behind, ScopePuts, Creates
<1>7. PICK p, q : p = <<S>> /\ q = Puts(s, n)
    OBVIOUS
<1>8. Planned(p \o q, S \cup T)
    <2>1. Chained(p, q, S, T)
        BY <1>4, <1>5, <1>6, <1>7 DEF Chained
    <2> QED
        BY <2>1, PlannedConcat
<1>9. S \cup T = EnvironmentPart(s, n)
    <2>1. ASSUME NEW c \in EnvironmentPart(s, n) PROVE c \in S \cup T
        <3>1. CASE c.op = "Put"
            BY <1>1, <3>1 DEF EnvironmentPart, ScopePuts
        <3>2. CASE c.op # "Put"
            <4>1. PICK x \in file.environments : c = EnvironmentCall(x)
                <5>1. c \in FileCalls(file) /\ c.env # AllEnvs
                    BY <1>2 DEF EnvironmentPart
                <5>2. \A po : c \notin {GetCall(po), CreateCall(po), ExecCall(po), OpenCall(po)}
                    <6> SUFFICES ASSUME NEW po
                                 PROVE  c \notin {GetCall(po), CreateCall(po), ExecCall(po), OpenCall(po)}
                        OBVIOUS
                    <6>1. /\ GetCall(po).env = AllEnvs /\ CreateCall(po).env = AllEnvs
                          /\ ExecCall(po).env = AllEnvs /\ OpenCall(po).env = AllEnvs
                        BY CallFields
                    <6> QED
                        BY <5>1, <6>1
                <5> QED
                    BY <3>2, <5>1, <5>2, CallForms
            <4>2. x.slug = s /\ x.name = n /\ x \in [slug : Slugs, name : Envs]
                BY <4>1, CallFields DEF EnvironmentPart, Restorable, ListedEnvironments
            <4>3. x = e
                BY <1>1, <1>2, <4>2
            <4> QED
                BY <1>1, <4>1, <4>3
        <3> QED
            BY <3>1, <3>2
    <2>2. S \subseteq EnvironmentPart(s, n)
        BY <1>1, <1>3, CallFields DEF EnvironmentPart
    <2> QED
        BY <1>1, <2>1, <2>2 DEF EnvironmentPart, ScopePuts
<1>10. EnvironmentCalls(s, n) = p \o q
    BY <1>1, <1>7 DEF EnvironmentCalls, EnvironmentCall
<1> QED
    BY <1>1, <1>8, <1>9, <1>10

\* A plan of one call.
LEMMA OneCallPlanned ==
    ASSUME NEW c \in FileCalls(file) PROVE Planned(<<{c}>>, {c})
<1>1. PICK S : S = {c}
    OBVIOUS
<1>2. S \subseteq FileCalls(file) /\ \A a, b \in S : a = b
    BY <1>1
<1>3. Planned(<<S>>, S)
    BY <1>2, PlannedSet
<1> QED
    BY <1>1, <1>3

\* The environments of a project, one after the other.
EnvironmentsPart(s) == {c \in FileCalls(file) : c.slug = s /\ c.env # AllEnvs}

\* Import plans every environment of a project and the writes into it.
LEMMA EnvironmentsPlanned ==
    ASSUME Restorable(file), NEW s \in Slugs
    PROVE  Planned(Calls(Names(s), [n \in Names(s) |-> EnvironmentCalls(s, n)]), EnvironmentsPart(s))
<1>1. PICK X, f, g :
         /\ X = Names(s) /\ f = [n \in Names(s) |-> EnvironmentCalls(s, n)]
         /\ g = [n \in Names(s) |-> EnvironmentPart(s, n)]
    OBVIOUS
<1>2. \A n \in X : \E e \in file.environments : e.slug = s /\ e.name = n
    BY <1>1 DEF Names
<1>3. ASSUME NEW n \in X PROVE Planned(f[n], g[n])
    <2>1. PICK e \in file.environments : e.slug = s /\ e.name = n
        BY <1>2
    <2>2. Planned(EnvironmentCalls(e.slug, e.name), EnvironmentPart(e.slug, e.name))
        BY EnvironmentPlanned
    <2> QED
        BY <1>1, <2>1, <2>2
<1>4. ASSUME NEW n \in X, NEW m \in X, n # m PROVE Behind(g[m], g[n])
    <2>1. g[n] = EnvironmentPart(s, n) /\ g[m] = EnvironmentPart(s, m)
        BY <1>1
    <2>2. \A c \in EnvironmentPart(s, n), d \in EnvironmentPart(s, m) : c # d
        BY <1>4 DEF EnvironmentPart
    <2>3. m # AllEnvs
        BY <1>2, ReadersAssumption DEF Restorable, ListedEnvironments
    <2>4. \A d \in EnvironmentPart(s, m) : d.op # "CreateProject"
        <3> SUFFICES ASSUME NEW d \in FileCalls(file), d.env = m, d.op = "CreateProject" PROVE FALSE
            BY DEF EnvironmentPart
        <3>1. PICK p \in file.projects : d = CreateCall(p)
            BY CallForms
        <3> QED
            BY <2>3, <3>1, CallFields
    <2> QED
        BY <2>1, <2>2, <2>4 DEF Behind, Creates
<1>5. IsFiniteSet(X)
    <2>1. PICK E, h : E = {x \in file.environments : x.slug = s} /\ h = [e \in E |-> e.name]
        OBVIOUS
    <2>2. IsFiniteSet(E)
        BY <2>1, FS_Subset DEF Restorable, ListedEnvironments
    <2>3. X = {h[e] : e \in E}
        BY <1>1, <2>1 DEF Names
    <2> QED
        BY <2>2, <2>3, ImageFinite
<1>6. Planned(Calls(X, f), UNION {g[n] : n \in X})
    <2>1. Scattered(X, f, g)
        BY <1>3, <1>4, <1>5 DEF Scattered
    <2> QED
        BY <2>1, PlannedCalls
<1>7. UNION {g[n] : n \in X} = EnvironmentsPart(s)
    <2>1. \A n \in X : g[n] = EnvironmentPart(s, n) /\ n # AllEnvs
        BY <1>1, <1>2, ReadersAssumption DEF Restorable, ListedEnvironments
    <2>2. ASSUME NEW c \in EnvironmentsPart(s) PROVE c.env \in X /\ c \in EnvironmentPart(s, c.env)
        <3>1. c \in FileCalls(file) /\ c.slug = s /\ c.env # AllEnvs
            BY DEF EnvironmentsPart
        <3>2. CASE \E e \in file.environments : c = EnvironmentCall(e)
            <4>1. PICK e \in file.environments : c = EnvironmentCall(e)
                BY <3>2
            <4>2. e.slug = s /\ e.name = c.env
                BY <3>1, <4>1, CallFields
            <4> QED
                BY <1>1, <3>1, <4>2 DEF EnvironmentPart, Names
        <3>3. CASE \E d \in file.definitions : c = PutOf(d)
            <4>1. PICK d \in file.definitions : c = PutOf(d)
                BY <3>3
            <4>2. d.slug = s /\ d.env # AllEnvs /\ d.env = c.env
                BY <3>1, <4>1, CallFields
            <4>3. PICK e \in file.environments : e = [slug |-> s, name |-> c.env]
                BY <4>2, ReadersAssumption DEF Restorable, ListedDefinitions
            <4>4. e.slug = s /\ e.name = c.env
                BY <4>3
            <4> QED
                BY <1>1, <3>1, <4>4 DEF EnvironmentPart, Names
        <3>4. \A p : /\ GetCall(p).env = AllEnvs /\ CreateCall(p).env = AllEnvs
                     /\ ExecCall(p).env = AllEnvs /\ OpenCall(p).env = AllEnvs
            BY CallFields
        <3> QED
            BY <3>1, <3>2, <3>3, <3>4, CallForms
    <2>3. \A n \in X : EnvironmentPart(s, n) \subseteq EnvironmentsPart(s)
        BY <2>1 DEF EnvironmentPart, EnvironmentsPart
    <2> QED
        BY <2>1, <2>2, <2>3
<1> QED
    BY <1>1, <1>6, <1>7

\* Three sequences of one element, one behind the other.
LEMMA ThreeInRow ==
    ASSUME NEW x, NEW y, NEW z PROVE (<<x>> \o <<y>>) \o <<z>> = <<x, y, z>>
<1>1. PICK F : F = {x, y, z}
    OBVIOUS
<1>2. PICK p \in Seq(F), q \in Seq(F), o \in Seq(F) : p = <<x>> /\ q = <<y>> /\ o = <<z>>
    <2>1. x \in F /\ y \in F /\ z \in F
        BY <1>1
    <2>2. <<x>> \in Seq(F) /\ <<y>> \in Seq(F) /\ <<z>> \in Seq(F)
        BY <2>1
    <2> QED
        BY <2>2
<1>3. PICK u \in Seq(F) : u = p \o q
    BY ConcatProperties
<1>4. /\ Len(u) = Len(p) + Len(q) /\ \A i \in 1..Len(p) : u[i] = p[i]
      /\ \A i \in 1..Len(q) : u[Len(p) + i] = q[i]
    BY ONLY <1>3, p \in Seq(F), q \in Seq(F)
<1>5. Len(p) = 1 /\ Len(q) = 1 /\ Len(o) = 1 /\ p[1] = x /\ q[1] = y /\ o[1] = z
    BY <1>2
<1>6. Len(u) = 2 /\ u[1] = x /\ u[2] = y
    <2>1. 1 \in 1..1 /\ 1 + 1 = 2
        OBVIOUS
    <2> QED
        BY <1>4, <1>5, <2>1
<1>7. PICK v \in Seq(F) : v = u \o o
    BY ConcatProperties
<1>8. /\ Len(v) = Len(u) + Len(o) /\ \A i \in 1..Len(u) : v[i] = u[i]
      /\ \A i \in 1..Len(o) : v[Len(u) + i] = o[i]
    BY ONLY <1>7, u \in Seq(F), o \in Seq(F)
<1>9. Len(v) = 3 /\ v[1] = x /\ v[2] = y /\ v[3] = z
    <2>1. 1 \in 1..1 /\ 1 \in 1..2 /\ 2 \in 1..2 /\ 2 + 1 = 3
        OBVIOUS
    <2> QED
        BY <1>5, <1>6, <1>8, <2>1
<1>10. v = <<x, y, z>>
    BY <1>9
<1> QED
    BY <1>2, <1>3, <1>7, <1>10

\* A project is created, then it is given its switches and filled.
LEMMA ProjectPlanned ==
    ASSUME Restorable(file), NEW p \in file.projects
    PROVE  Planned(ProjectCalls(p), ProjectPart(p.slug))
<1>1. PICK s \in Slugs : s = p.slug
    BY DEF Restorable, ListedProjects
<1>2. \A o \in file.projects : o.slug = s => o = p
    BY <1>1 DEF Restorable, ListedProjects
<1>3. PICK a \in FileCalls(file), b \in FileCalls(file), c \in FileCalls(file) :
         a = CreateCall(p) /\ b = ExecCall(p) /\ c = OpenCall(p)
    BY CallForms
<1>4. /\ a.op = "CreateProject" /\ a.slug = s /\ a.env = AllEnvs
      /\ b.op = "SetAllowExecute" /\ b.slug = s /\ b.env = AllEnvs
      /\ c.op = "SetAllowOpen" /\ c.slug = s /\ c.env = AllEnvs
    BY <1>1, <1>3, CallFields
<1>5. PICK pa, pb, pc, pd, pe :
         /\ pa = <<{a}>> /\ pb = <<{b}>> /\ pc = <<{c}>> /\ pd = Puts(s, AllEnvs)
         /\ pe = Calls(Names(s), [n \in Names(s) |-> EnvironmentCalls(s, n)])
    OBVIOUS
<1>6. Planned(pa, {a}) /\ Planned(pb, {b}) /\ Planned(pc, {c}) /\ Planned(pd, ScopePuts(s, AllEnvs))
      /\ Planned(pe, EnvironmentsPart(s))
    BY <1>5, OneCallPlanned, PutsPlanned, EnvironmentsPlanned
<1>7. \A d \in EnvironmentsPart(s) : d.op # "CreateProject"
    <2> SUFFICES ASSUME NEW d \in FileCalls(file), d.env # AllEnvs, d.op = "CreateProject" PROVE FALSE
        BY DEF EnvironmentsPart
    <2>1. PICK o \in file.projects : d = CreateCall(o)
        BY CallForms
    <2> QED
        BY <2>1, CallFields
<1>8. Planned(pa \o pb, {a} \cup {b})
    <2>1. Chained(pa, pb, {a}, {b})
        BY <1>4, <1>6 DEF Chained, Behind, Creates
    <2> QED
        BY <2>1, PlannedConcat
<1>9. PICK q, Q : q = pa \o pb /\ Q = {a} \cup {b}
    OBVIOUS
<1>10. Planned(q \o pc, Q \cup {c})
    <2>1. Chained(q, pc, Q, {c})
        BY <1>4, <1>6, <1>8, <1>9 DEF Chained, Behind, Creates
    <2> QED
        BY <2>1, PlannedConcat
<1>11. PICK t, T, U : t = q \o pc /\ T = Q \cup {c} /\ U = ScopePuts(s, AllEnvs)
    OBVIOUS
<1>12. Planned(t \o pd, T \cup U)
    <2>1. \A d \in U : d.op = "Put"
        BY <1>11 DEF ScopePuts
    <2>2. Chained(t, pd, T, U)
        BY <1>4, <1>6, <1>9, <1>10, <1>11, <2>1 DEF Chained, Behind, Creates
    <2> QED
        BY <2>2, PlannedConcat
<1>13. PICK u, V, W : u = t \o pd /\ V = T \cup U /\ W = EnvironmentsPart(s)
    OBVIOUS
<1>14. Planned(u \o pe, V \cup W)
    <2>1. \A d \in V : d.env = AllEnvs
        BY <1>4, <1>9, <1>11, <1>13 DEF ScopePuts
    <2>2. \A d \in W : d.env # AllEnvs /\ d.op # "CreateProject"
        BY <1>7, <1>13 DEF EnvironmentsPart
    <2>3. Chained(u, pe, V, W)
        BY <1>6, <1>12, <1>13, <2>1, <2>2 DEF Chained, Behind, Creates
    <2> QED
        BY <2>3, PlannedConcat
<1>15. V \cup W = ProjectPart(s)
    <2>1. ASSUME NEW d \in ProjectPart(s) PROVE d \in V \cup W
        <3>1. d \in FileCalls(file) /\ d.slug = s /\ d.op # "GetProject"
            BY DEF ProjectPart
        <3>2. CASE d.env # AllEnvs
            BY <1>13, <3>1, <3>2 DEF EnvironmentsPart
        <3>3. CASE d.op = "Put" /\ d.env = AllEnvs
            BY <1>11, <1>13, <3>1, <3>3 DEF ScopePuts
        <3>4. CASE \E o \in file.projects : d \in {CreateCall(o), ExecCall(o), OpenCall(o)}
            <4>1. PICK o \in file.projects : d \in {CreateCall(o), ExecCall(o), OpenCall(o)}
                BY <3>4
            <4>2. o.slug = s
                BY <3>1, <4>1, CallFields
            <4>3. o = p
                BY <1>2, <4>2
            <4> QED
                BY <1>3, <1>9, <1>11, <1>13, <4>1, <4>3
        <3>5. CASE \E e \in file.environments : d = EnvironmentCall(e)
            <4>1. d.env # AllEnvs
                <5>1. PICK e \in file.environments : d = EnvironmentCall(e)
                    BY <3>5
                <5>2. e.name # AllEnvs
                    BY ReadersAssumption DEF Restorable, ListedEnvironments
                <5> QED
                    BY <5>1, <5>2, CallFields
            <4> QED
                BY <3>2, <4>1
        <3> QED
            BY <3>1, <3>2, <3>3, <3>4, <3>5, CallForms
    <2>2. \A d \in W : d.op # "GetProject"
        <3> SUFFICES ASSUME NEW d \in FileCalls(file), d.env # AllEnvs, d.op = "GetProject" PROVE FALSE
            BY <1>13 DEF EnvironmentsPart
        <3>1. PICK o \in file.projects : d = GetCall(o)
            BY CallForms
        <3> QED
            BY <3>1, CallFields
    <2>3. V \cup W \subseteq ProjectPart(s)
        BY <1>4, <1>9, <1>11, <1>13, <2>2 DEF ProjectPart, ScopePuts, EnvironmentsPart
    <2> QED
        BY <2>1, <2>3
<1>16. ProjectCalls(p) = u \o pe
    <2>1. <<{a}, {b}, {c}>> = t
        BY <1>5, <1>9, <1>11, ThreeInRow
    <2> QED
        BY <1>1, <1>3, <1>5, <1>13, <2>1 DEF ProjectCalls, CreateCall, ExecCall, OpenCall
<1> QED
    BY <1>1, <1>13, <1>14, <1>15, <1>16

\* The calls of every kind that an import makes, in the order it makes them.
LEMMA ImportPlanned ==
    ASSUME Restorable(file)
    PROVE  Planned(ImportCalls, FileCalls(file))
<1>1. PICK X, Y : X = file.projects /\ Y = SharedNames
    OBVIOUS
<1>2. PICK fa, ga, fb, gb, fd, gd :
         /\ fa = [p \in X |-> <<{GetCall(p)}>>] /\ ga = [p \in X |-> {GetCall(p)}]
         /\ fb = [p \in X |-> ProjectCalls(p)] /\ gb = [p \in X |-> ProjectPart(p.slug)]
         /\ fd = [n \in Y |-> Puts(Shared, n)] /\ gd = [n \in Y |-> ScopePuts(Shared, n)]
    OBVIOUS
<1>3. IsFiniteSet(X) /\ \A p, o \in X : p # o => p.slug # o.slug
    BY <1>1 DEF Restorable, ListedProjects
<1>4. Scattered(X, fa, ga)
    <2>1. ASSUME NEW p \in X PROVE Planned(fa[p], ga[p])
        <3>1. PICK c \in FileCalls(file) : c = GetCall(p)
            BY <1>1, CallForms
        <3>2. Planned(<<{c}>>, {c})
            BY OneCallPlanned
        <3> QED
            BY <1>2, <3>1, <3>2
    <2>2. ASSUME NEW p \in X, NEW o \in X, p # o PROVE Behind(ga[o], ga[p])
        <3>1. p.slug # o.slug
            BY <1>3, <2>2
        <3>2. GetCall(p).slug = p.slug /\ GetCall(o).slug = o.slug /\ GetCall(o).op = "GetProject"
            BY CallFields
        <3>3. ga[p] = {GetCall(p)} /\ ga[o] = {GetCall(o)}
            BY <1>2
        <3> QED
            BY <3>1, <3>2, <3>3 DEF Behind, Creates
    <2> QED
        BY <1>3, <2>1, <2>2 DEF Scattered
<1>5. Scattered(X, fb, gb)
    <2>1. ASSUME NEW p \in X PROVE Planned(fb[p], gb[p])
        BY <1>1, <1>2, ProjectPlanned
    <2>2. ASSUME NEW p \in X, NEW o \in X, p # o PROVE Behind(gb[o], gb[p])
        <3>1. p.slug # o.slug
            BY <1>3, <2>2
        <3>2. gb[p] = ProjectPart(p.slug) /\ gb[o] = ProjectPart(o.slug)
            BY <1>2
        <3> QED
            BY <3>1, <3>2 DEF Behind, Creates, ProjectPart
    <2> QED
        BY <1>3, <2>1, <2>2 DEF Scattered
<1>6. Scattered(Y, fd, gd)
    <2>1. ASSUME NEW n \in Y PROVE Planned(fd[n], gd[n])
        BY <1>2, PutsPlanned
    <2>2. ASSUME NEW n \in Y, NEW m \in Y, n # m PROVE Behind(gd[m], gd[n])
        BY <1>2, <2>2 DEF Behind, Creates, ScopePuts
    <2>3. IsFiniteSet(Y)
        <3>1. PICK D : D = {x \in file.definitions : x.slug = Shared}
            OBVIOUS
        <3>2. PICK h : h = [d \in D |-> d.env]
            OBVIOUS
        <3>3. IsFiniteSet(D)
            BY <3>1, FS_Subset DEF Restorable, ListedDefinitions
        <3>4. IsFiniteSet({h[d] : d \in D})
            BY <3>3, ImageFinite
        <3>5. Y \subseteq {h[d] : d \in D}
            BY <1>1, <3>1, <3>2 DEF SharedNames
        <3> QED
            BY <3>4, <3>5, FS_Subset
    <2> QED
        BY <2>1, <2>2, <2>3 DEF Scattered
<1>7. PICK pa, pb, pc, pd, A, B, C, D :
         /\ pa = Calls(X, fa) /\ pb = Calls(X, fb) /\ pc = Puts(Shared, AllEnvs) /\ pd = Calls(Y, fd)
         /\ A = UNION {ga[p] : p \in X} /\ B = UNION {gb[p] : p \in X}
         /\ C = ScopePuts(Shared, AllEnvs) /\ D = UNION {gd[n] : n \in Y}
    OBVIOUS
<1>8. Planned(pa, A) /\ Planned(pb, B) /\ Planned(pc, C) /\ Planned(pd, D)
    BY <1>4, <1>5, <1>6, <1>7, PlannedCalls, PutsPlanned
<1>9. \A c \in FileCalls(file) : c \in A <=> c.op = "GetProject"
    <2>1. ASSUME NEW c \in FileCalls(file), c.op = "GetProject" PROVE c \in A
        <3>1. PICK p \in X : c = GetCall(p)
            BY <1>1, <2>1, CallForms
        <3>2. c \in ga[p]
            BY <1>2, <3>1
        <3> QED
            BY <1>7, <3>2
    <2>2. ASSUME NEW c \in A PROVE c.op = "GetProject"
        <3>1. PICK p \in X : c \in ga[p]
            BY <1>7
        <3> QED
            BY <1>2, <3>1, CallFields
    <2> QED
        BY <2>1, <2>2
<1>10. \A c \in FileCalls(file) : c \in B <=> c.op # "GetProject" /\ \E p \in X : p.slug = c.slug
    <2>1. \A p \in X : gb[p] = ProjectPart(p.slug)
        BY <1>2
    <2> QED
        BY <1>7, <2>1 DEF ProjectPart
<1>11. \A c \in FileCalls(file) : c \in C \cup D <=> c.op = "Put" /\ c.slug = Shared
    <2>1. \A n \in Y : gd[n] = ScopePuts(Shared, n)
        BY <1>2
    <2>2. ASSUME NEW c \in FileCalls(file), c.op = "Put", c.slug = Shared PROVE c.env = AllEnvs \/ c.env \in Y
        <3>1. PICK d \in file.definitions : c = PutOf(d)
            BY <2>2, CallForms
        <3>2. d.slug = Shared /\ d.env = c.env
            BY <2>2, <3>1, CallFields
        <3> QED
            BY <1>1, <3>2 DEF SharedNames
    <2> QED
        BY <1>7, <2>1, <2>2 DEF ScopePuts
<1>12. /\ A \subseteq FileCalls(file) /\ B \subseteq FileCalls(file)
       /\ C \subseteq FileCalls(file) /\ D \subseteq FileCalls(file)
    BY <1>8, PlannedCallsOnly
<1>13. \A c \in C \cup D : c.slug = Shared /\ c.op = "Put"
    BY <1>11, <1>12
<1>14. Planned(pa \o pb, A \cup B)
    <2>1. Behind(B, A)
        BY <1>9, <1>10, <1>12 DEF Behind, Creates
    <2>2. Chained(pa, pb, A, B)
        BY <1>8, <2>1 DEF Chained
    <2> QED
        BY <2>2, PlannedConcat
<1>15. PICK q, Q : q = pa \o pb /\ Q = A \cup B
    OBVIOUS
<1>16. \A p \in X : p.slug # Shared
    BY <1>1, ReadersAssumption DEF Restorable, ListedProjects
<1>17. \A c \in Q : c.op = "GetProject" \/ c.slug # Shared
    BY <1>9, <1>10, <1>12, <1>15, <1>16
<1>18. Planned(q \o pc, Q \cup C)
    <2>1. Chained(q, pc, Q, C)
        BY <1>8, <1>13, <1>14, <1>15, <1>17 DEF Chained, Behind, Creates
    <2> QED
        BY <2>1, PlannedConcat
<1>19. PICK t, T : t = q \o pc /\ T = Q \cup C
    OBVIOUS
<1>20. Planned(t \o pd, T \cup D)
    <2>1. \A c \in C, d \in D : c # d
        <3>1. \A n \in Y : gd[n] = ScopePuts(Shared, n) /\ n # AllEnvs
            BY <1>1, <1>2 DEF SharedNames
        <3> QED
            BY <1>7, <3>1 DEF ScopePuts
    <2>2. Behind(D, T)
        BY <1>13, <1>17, <1>19, <2>1 DEF Behind, Creates
    <2>3. Chained(t, pd, T, D)
        BY <1>8, <1>18, <1>19, <2>2 DEF Chained
    <2> QED
        BY <2>3, PlannedConcat
<1>21. T \cup D = FileCalls(file)
    <2>1. ASSUME NEW c \in FileCalls(file), c.op # "GetProject", \A p \in X : p.slug # c.slug
          PROVE  c.op = "Put" /\ c.slug = Shared
        <3>1. \A p \in X : c \notin {GetCall(p), CreateCall(p), ExecCall(p), OpenCall(p)}
            <4> SUFFICES ASSUME NEW p \in X
                         PROVE  c \notin {GetCall(p), CreateCall(p), ExecCall(p), OpenCall(p)}
                OBVIOUS
            <4>1. /\ GetCall(p).slug = p.slug /\ CreateCall(p).slug = p.slug
                  /\ ExecCall(p).slug = p.slug /\ OpenCall(p).slug = p.slug
                BY CallFields
            <4> QED
                BY <2>1, <4>1
        <3>2. \A e \in file.environments : c # EnvironmentCall(e)
            <4> SUFFICES ASSUME NEW e \in file.environments PROVE c # EnvironmentCall(e)
                OBVIOUS
            <4>1. \E p \in X : p.slug = e.slug
                BY <1>1 DEF Restorable, ListedEnvironments
            <4>2. EnvironmentCall(e).slug = e.slug
                BY CallFields
            <4> QED
                BY <2>1, <4>1, <4>2
        <3>3. PICK d \in file.definitions : c = PutOf(d)
            BY <1>1, <3>1, <3>2, CallForms
        <3>4. d.slug = Shared
            <4>1. d.slug = Shared \/ \E p \in X : p.slug = d.slug
                BY <1>1 DEF Restorable, ListedDefinitions
            <4>2. c.slug = d.slug
                BY <3>3, CallFields
            <4> QED
                BY <2>1, <4>1, <4>2
        <3> QED
            BY <3>3, <3>4, CallFields
    <2> QED
        BY <1>9, <1>10, <1>11, <1>12, <1>15, <1>19, <2>1
<1>22. ImportCalls = t \o pd
    <2>1. fa = [p \in file.projects |-> <<{Ask("GetProject", p.slug, AllEnvs)}>>]
        BY <1>1, <1>2 DEF GetCall
    <2> QED
        BY <1>1, <1>2, <1>7, <1>15, <1>19, <2>1 DEF ImportCalls
<1> QED
    BY <1>20, <1>21, <1>22
-----------------------------------------------------------------------------
(***************************************************************************)
(* Import: what a call changes.                                            *)
(***************************************************************************)
Fillers == {"CreateProject", "SetAllowExecute", "SetAllowOpen", "CreateEnvironment", "Put"}

\* The store accepts the names that a backup has.
LEMMA CallsNamed ==
    ASSUME NEW f, Restorable(f), NEW c \in FileCalls(f), c.op # "GetProject"
    PROVE  WellNamed(c) /\ c.op \in Fillers
<1>1. CASE \E p \in f.projects : c \in {CreateCall(p), ExecCall(p), OpenCall(p)}
    <2>1. PICK p \in f.projects : c \in {CreateCall(p), ExecCall(p), OpenCall(p)}
        BY <1>1
    <2>2. p.slug \in Slugs /\ p.exec \in BOOLEAN /\ p.open \in BOOLEAN
        BY DEF Restorable, ListedProjects
    <2>3. /\ c.slug = p.slug /\ c.env = AllEnvs /\ c.allow \in BOOLEAN
          /\ c.sensitive = TRUE /\ c.kind = "text" /\ c.hint = None
          /\ c.op \in {"CreateProject", "SetAllowExecute", "SetAllowOpen"}
        <3>1. CASE c = CreateCall(p)
            BY <2>2, <3>1 DEF CreateCall, Ask
        <3>2. CASE c = ExecCall(p)
            BY <2>2, <3>2 DEF ExecCall, Ask, Allow
        <3>3. CASE c = OpenCall(p)
            BY <2>2, <3>3 DEF OpenCall, Ask, Allow
        <3> QED
            BY <2>1, <3>1, <3>2, <3>3
    <2> QED
        BY <2>2, <2>3 DEF WellNamed, Metadata, Fillers
<1>2. CASE \E e \in f.environments : c = EnvironmentCall(e)
    <2>1. PICK e \in f.environments : c = EnvironmentCall(e)
        BY <1>2
    <2>2. e.slug \in Slugs /\ e.name \in Envs
        BY DEF Restorable, ListedEnvironments
    <2>3. /\ c.slug = e.slug /\ c.env = e.name /\ c.allow \in BOOLEAN
          /\ c.sensitive = TRUE /\ c.kind = "text" /\ c.hint = None /\ c.op = "CreateEnvironment"
        BY <2>1 DEF EnvironmentCall, Ask
    <2> QED
        BY <2>2, <2>3 DEF WellNamed, Metadata, Fillers
<1>3. CASE \E d \in f.definitions : c = PutOf(d)
    <2>1. PICK d \in f.definitions : c = PutOf(d)
        BY <1>3
    <2>2. PICK m \in Metadata : m = SecretMeta(d.meta)
        BY DEF Restorable, ListedDefinitions
    <2>3. /\ c.slug = d.slug /\ c.env = d.env /\ c.allow = FALSE /\ c.op = "Put"
          /\ c.sensitive = m.sensitive /\ c.kind = m.kind /\ c.hint = m.hint
        BY <2>1, <2>2 DEF PutOf
    <2>4. c.slug \in Slugs \cup {Shared} /\ c.env \in Envs \cup {AllEnvs}
        BY <2>3 DEF Restorable, ListedDefinitions, ListedProjects
    <2>5. [sensitive |-> c.sensitive, kind |-> c.kind, hint |-> c.hint] = m
        BY <2>2, <2>3 DEF Metadata
    <2> QED
        BY <2>3, <2>4, <2>5 DEF WellNamed, Fillers, ProjectOps
<1> QED
    BY <1>1, <1>2, <1>3, CallForms

\* A call that takes effect does what its operation does, where it is allowed.
LEMMA FillerEffects ==
    ASSUME NEW c, NEW id, c.op \in Fillers, TakesEffect(c, id)
    PROVE  \/ c.op = "CreateProject" /\ CreateProject(c) /\ Named(c.slug) = {}
           \/ c.op \in {"SetAllowExecute", "SetAllowOpen"} /\ SetAllow(c)
           \/ c.op = "CreateEnvironment" /\ CreateEnvironment(c, id)
           \/ c.op = "Put" /\ Define(c, id, {Definition(c, id, c.value)})
BY DEF TakesEffect, Apply, Refused, Refusals, Fillers

\* A call changes no project but the one it names.
LEMMA FillersSpare ==
    ASSUME VaultInv, NEW c, NEW id, c.op \in Fillers, Binds(c, id), TakesEffect(c, id),
           NEW i \in 1..(nextId - 1), \A pr \in projects : pr.id = i => pr.slug # c.slug
    PROVE  /\ {pr \in projects' : pr.id = i} = {pr \in projects : pr.id = i}
           /\ {e \in environments' : e.pid = i} = {e \in environments : e.pid = i}
           /\ {d \in definitions' : d.pid = i} = {d \in definitions : d.pid = i}
<1>1. i # nextId /\ i # 0
    BY DEF VaultInv, ProjectInv
<1>2. CASE c.op = "CreateProject" /\ CreateProject(c)
    BY <1>1, <1>2 DEF CreateProject
<1>3. CASE c.op \in {"SetAllowExecute", "SetAllowOpen"} /\ SetAllow(c)
    <2>1. /\ projects' = (projects \ Named(c.slug)) \cup {WithCapability(pr, c) : pr \in Named(c.slug)}
          /\ UNCHANGED <<environments, definitions>>
        BY <1>3 DEF SetAllow
    <2>2. \A pr \in Named(c.slug) : WithCapability(pr, c).id = pr.id /\ pr.id # i
        <3>1. \A pr \in projects : pr \in [id : Nat \ {0}, slug : Slugs, exec : BOOLEAN, open : BOOLEAN]
            BY DEF VaultInv, ProjectInv
        <3> QED
            BY <3>1 DEF WithCapability, Named
    <2> QED
        BY <2>1, <2>2
<1>4. CASE c.op \in {"CreateEnvironment", "Put"}
    <2>1. id # i
        BY <1>1, <1>4 DEF Binds, Named, ProjectOps
    <2>2. CASE CreateEnvironment(c, id)
        BY <2>1, <2>2 DEF CreateEnvironment
    <2>3. CASE Define(c, id, {Definition(c, id, c.value)})
        BY <2>1, <2>3 DEF Define, Definition, Addressed, InScope
    <2> QED
        BY <1>4, <2>2, <2>3, FillerEffects
<1> QED
    BY <1>2, <1>3, <1>4, FillerEffects

\* What the plan of an import says of the call that is made next.
LEMMA NextFiller ==
    ASSUME Importing, NEW c \in Head(plan)
    PROVE  /\ Ordered(Rest(c), CallSets(file), CallOrder(file))
           /\ Pending(Rest(c)) = Pending(plan) \ {c} /\ c \in Pending(plan)
           /\ Pending(plan) \subseteq FileCalls(file)
           /\ \A d \in Pending(plan) : d # c => ~Creates(d, c)
<1>1. PICK F, r : F = CallSets(file) /\ r = CallOrder(file)
    OBVIOUS
<1>2. Ordered(plan, F, r) /\ plan # <<>> /\ Steady(F, r)
    BY <1>1, CallsSteady DEF Importing
<1>3. /\ Ordered(Rest(c), F, r) /\ Pending(Rest(c)) = Pending(plan) \ {c} /\ c \in Pending(plan)
      /\ \A d \in Pending(plan) : d # c => <<c, d>> \in r
    BY <1>2, OrderedRest
<1>4. Pending(plan) \subseteq FileCalls(file)
    BY <1>1, <1>2, PendingFacts DEF Ordered, CallSets
<1> QED
    BY <1>1, <1>3, <1>4 DEF CallOrder

\* What the import created stays its own, and a project it creates becomes so.
LEMMA OwnedKeeps ==
    ASSUME VaultInv, Descends, mine \subseteq 1..(nextId - 1), mine \subseteq mine',
           NEW P, NEW Q \in SUBSET P, Owned(P),
           \A c \in P \ Q : c.op = "CreateProject" =>
               \E id \in mine' : \A pr \in projects' : pr.id = id => pr.slug = c.slug
    PROVE  \A c \in Q : c.op \notin {"GetProject", "CreateProject"} /\ c.slug # Shared =>
               \/ \E d \in Q : Creates(d, c)
               \/ \E id \in mine' : \A pr \in projects' : pr.id = id => pr.slug = c.slug
<1> SUFFICES ASSUME NEW c \in Q, c.op \notin {"GetProject", "CreateProject"}, c.slug # Shared,
                    \A d \in Q : ~Creates(d, c)
             PROVE  \E id \in mine' : \A pr \in projects' : pr.id = id => pr.slug = c.slug
    OBVIOUS
<1>1. CASE \E d \in P : Creates(d, c)
    BY <1>1 DEF Creates
<1>2. CASE \E id \in mine : \A pr \in projects : pr.id = id => pr.slug = c.slug
    <2>1. PICK id \in mine : \A pr \in projects : pr.id = id => pr.slug = c.slug
        BY <1>2
    <2>2. id \in 1..(nextId - 1) /\ id \in mine'
        OBVIOUS
    <2>3. id \notin nextId..(nextId' - 1)
        BY <2>2, Identities DEF VaultInv, ProjectInv, Descends
    <2>4. ASSUME NEW po \in projects', po.id = id PROVE po.slug = c.slug
        <3>1. PICK pr \in projects : pr.id = po.id /\ pr.slug = po.slug
            BY <2>3, <2>4 DEF Descends
        <3> QED
            BY <2>1, <2>4, <3>1
    <2> QED
        BY <2>2, <2>4
<1> QED
    BY <1>1, <1>2 DEF Owned

\* The vault holds what the backup says, but for the calls of P: the parts of Restoring.
LEMMA FilledStays ==
    ASSUME VaultInv, NEW c, NEW id, c.op \in Fillers, Binds(c, id), TakesEffect(c, id),
           NEW p, NEW pr \in projects, NEW P, Filled(p, pr, P), p.slug # c.slug, file' = file
    PROVE  pr \in projects' /\ Filled(p, pr, P \ {c})'
<1>1. pr.id \in 1..(nextId - 1) /\ \A po \in projects : po.id = pr.id => po.slug # c.slug
    BY DEF Filled, VaultInv, ProjectInv
<1>2. PICK i \in 1..(nextId - 1) : i = pr.id
    BY <1>1
<1>3. /\ {po \in projects' : po.id = i} = {po \in projects : po.id = i}
      /\ {e \in environments' : e.pid = i} = {e \in environments : e.pid = i}
      /\ {d \in definitions' : d.pid = i} = {d \in definitions : d.pid = i}
    BY <1>1, <1>2, FillersSpare
<1>4. pr \in projects'
    BY <1>2, <1>3
<1>5. /\ c # ExecCall(p) /\ c # OpenCall(p)
      /\ \A e \in file.environments : e.slug = p.slug => c # EnvironmentCall(e)
      /\ \A d \in file.definitions : d.slug = p.slug => c # PutOf(d)
    <2>1. /\ ExecCall(p).slug = p.slug /\ OpenCall(p).slug = p.slug
          /\ \A e : EnvironmentCall(e).slug = e.slug
        BY CallFields
    <2>2. \A d : PutOf(d).slug = d.slug
        BY CallFields
    <2> QED
        BY <2>1, <2>2
<1>6. PICK Q : Q = P \ {c}
    OBVIOUS
<1>7. /\ {x \in file.environments : x.slug = p.slug /\ EnvironmentCall(x) \notin Q} =
             {x \in file.environments : x.slug = p.slug /\ EnvironmentCall(x) \notin P}
      /\ {x \in file.definitions : x.slug = p.slug /\ PutOf(x) \notin Q} =
             {x \in file.definitions : x.slug = p.slug /\ PutOf(x) \notin P}
    BY <1>5, <1>6
<1>8. Filled(p, pr, Q)'
    BY <1>2, <1>3, <1>5, <1>6, <1>7 DEF Filled
<1> QED
    BY <1>4, <1>6, <1>8

\* The one project with a slug is the one that an operation on the slug is bound to.
LEMMA BoundTo ==
    ASSUME VaultInv, NEW c, NEW pr \in projects, pr.slug = c.slug
    PROVE  /\ Named(c.slug) = {pr}
           /\ \A id : c.op \notin ProjectOps /\ Binds(c, id) => id = pr.id
<1>1. c.slug # Shared
    BY SlugFacts
<1>2. Named(c.slug) = {pr}
    BY DEF Named, VaultInv, ProjectInv
<1> QED
    BY <1>1, <1>2 DEF Binds

\* A switch of the project is set.
LEMMA FilledSwitches ==
    ASSUME VaultInv, Restorable(file), NEW p \in file.projects, NEW c, SetAllow(c),
           c \in {ExecCall(p), OpenCall(p)}, NEW pr \in projects, NEW P, Filled(p, pr, P), file' = file
    PROVE  \E po \in projects' : Filled(p, po, P \ {c})'
<1>1. PICK po, Q : po = WithCapability(pr, c) /\ Q = P \ {c}
    OBVIOUS
<1>2. /\ ExecCall(p).op = "SetAllowExecute" /\ OpenCall(p).op = "SetAllowOpen" /\ c.slug = p.slug
      /\ ExecCall(p).allow = p.exec /\ OpenCall(p).allow = p.open
    BY CallFields
<1>3. pr.slug = c.slug /\ Named(c.slug) = {pr}
    BY <1>2, BoundTo DEF Filled
<1>4. /\ projects' = (projects \ {pr}) \cup {po}
      /\ environments' = environments /\ definitions' = definitions
    BY <1>1, <1>3 DEF SetAllow
<1>5. /\ po.id = pr.id /\ po.slug = pr.slug
      /\ IF c = ExecCall(p) THEN po.exec = p.exec /\ po.open = pr.open
                            ELSE po.open = p.open /\ po.exec = pr.exec
    <2>1. pr \in [id : Nat \ {0}, slug : Slugs, exec : BOOLEAN, open : BOOLEAN]
        BY DEF VaultInv, ProjectInv
    <2> QED
        BY <1>1, <1>2, <2>1 DEF WithCapability
<1>6. ExecCall(p) # OpenCall(p)
    BY <1>2
<1>7. /\ ExecCall(p) \in Q \/ po.exec = p.exec
      /\ OpenCall(p) \in Q \/ po.open = p.open
    BY <1>1, <1>5, <1>6 DEF Filled
<1>8. (\A e : EnvironmentCall(e) # c) /\ \A d : PutOf(d) # c
    <2>1. \A e : EnvironmentCall(e).op = "CreateEnvironment"
        BY CallFields
    <2>2. \A d : PutOf(d).op = "Put"
        BY CallFields
    <2> QED
        BY <1>2, <2>1, <2>2
<1>9. /\ {x \in file.environments : x.slug = p.slug /\ EnvironmentCall(x) \notin Q} =
             {x \in file.environments : x.slug = p.slug /\ EnvironmentCall(x) \notin P}
      /\ {x \in file.definitions : x.slug = p.slug /\ PutOf(x) \notin Q} =
             {x \in file.definitions : x.slug = p.slug /\ PutOf(x) \notin P}
    BY <1>1, <1>8
<1>10. Filled(p, po, Q)'
    <2>1. {e.name : e \in {x \in environments : x.pid = po.id}} =
              {e.name : e \in {x \in file.environments : x.slug = p.slug /\ EnvironmentCall(x) \notin Q}}
        BY <1>5, <1>9 DEF Filled
    <2>2. {d \in definitions : d.pid = po.id} =
              {Definition(PutOf(d), po.id, d.value) :
                  d \in {x \in file.definitions : x.slug = p.slug /\ PutOf(x) \notin Q}}
        BY <1>5, <1>9 DEF Filled
    <2>3. po.slug = p.slug
        BY <1>5 DEF Filled
    <2> QED
        BY <1>4, <1>7, <2>1, <2>2, <2>3 DEF Filled
<1> QED
    BY <1>1, <1>4, <1>10

\* An environment of the project is created.
LEMMA FilledEnvironments ==
    ASSUME VaultInv, Restorable(file), NEW p \in file.projects, NEW e \in file.environments, e.slug = p.slug,
           NEW c, c = EnvironmentCall(e), NEW id, Binds(c, id), CreateEnvironment(c, id),
           NEW pr \in projects, NEW P, Filled(p, pr, P), file' = file
    PROVE  \E po \in projects' : Filled(p, po, P \ {c})'
<1>1. PICK Q : Q = P \ {c}
    OBVIOUS
<1>2. c.slug = p.slug /\ c.env = e.name /\ c.op = "CreateEnvironment"
    BY CallFields
<1>3. id = pr.id
    BY <1>2, BoundTo DEF Filled, ProjectOps
<1>4. /\ environments' = environments \cup {[pid |-> id, name |-> e.name]}
      /\ projects' = projects /\ definitions' = definitions
    BY <1>2 DEF CreateEnvironment
<1>5. {x.name : x \in {y \in environments' : y.pid = pr.id}} =
          {x.name : x \in {y \in environments : y.pid = pr.id}} \cup {e.name}
    <2>1. PICK n : n = [pid |-> id, name |-> e.name]
        OBVIOUS
    <2>2. n.pid = pr.id /\ n.name = e.name /\ environments' = environments \cup {n}
        BY <1>3, <1>4, <2>1
    <2>3. {y \in environments' : y.pid = pr.id} = {y \in environments : y.pid = pr.id} \cup {n}
        BY <2>2
    <2> QED
        BY <2>2, <2>3
<1>6. \A x \in file.environments : EnvironmentCall(x) = c => x.slug = p.slug /\ x.name = e.name
    <2>1. \A x : EnvironmentCall(x).slug = x.slug /\ EnvironmentCall(x).env = x.name
        BY CallFields
    <2> QED
        BY <1>2, <2>1
<1>7. {x.name : x \in {y \in file.environments : y.slug = p.slug /\ EnvironmentCall(y) \notin Q}} =
          {x.name : x \in {y \in file.environments : y.slug = p.slug /\ EnvironmentCall(y) \notin P}}
              \cup {e.name}
    BY <1>1, <1>6
<1>8. ExecCall(p) # c /\ OpenCall(p) # c /\ \A d : PutOf(d) # c
    <2>1. ExecCall(p).op = "SetAllowExecute" /\ OpenCall(p).op = "SetAllowOpen" /\ \A d : PutOf(d).op = "Put"
        BY CallFields
    <2> QED
        BY <1>2, <2>1
<1>9. {x \in file.definitions : x.slug = p.slug /\ PutOf(x) \notin Q} =
          {x \in file.definitions : x.slug = p.slug /\ PutOf(x) \notin P}
    BY <1>1, <1>8
<1>10. Filled(p, pr, Q)'
    BY <1>1, <1>4, <1>5, <1>7, <1>8, <1>9 DEF Filled
<1> QED
    BY <1>1, <1>4, <1>10

\* A definition of the project is written.
LEMMA FilledDefinitions ==
    ASSUME VaultInv, Restorable(file), NEW p \in file.projects, NEW d \in file.definitions, d.slug = p.slug,
           NEW c, c = PutOf(d), NEW id, Binds(c, id), Define(c, id, {Definition(c, id, c.value)}),
           NEW pr \in projects, NEW P, c \in P, Filled(p, pr, P), file' = file
    PROVE  \E po \in projects' : Filled(p, po, P \ {c})'
<1>1. PICK Q, nd : Q = P \ {c} /\ nd = Definition(c, id, c.value)
    OBVIOUS
<1>2. c.slug = p.slug /\ c.env = d.env /\ c.key = d.key /\ c.value = d.value /\ c.op = "Put"
    BY CallFields
<1>3. id = pr.id
    BY <1>2, BoundTo DEF Filled, ProjectOps
<1>4. /\ definitions' = (definitions \ Addressed(c, id)) \cup {nd}
      /\ projects' = projects /\ environments' = environments
    BY <1>1 DEF Define
<1>5. PICK Old, New, K :
         /\ K = {y \in file.definitions : y.slug = p.slug /\ PutOf(y) \notin P}
         /\ Old = {Definition(PutOf(x), pr.id, x.value) : x \in K}
         /\ New = {Definition(PutOf(x), pr.id, x.value) :
                      x \in {y \in file.definitions : y.slug = p.slug /\ PutOf(y) \notin Q}}
    OBVIOUS
<1>6. {y \in definitions : y.pid = pr.id} = Old
    BY <1>5 DEF Filled
<1>7. ASSUME NEW x \in Old PROVE x \notin Addressed(c, id)
    <2>1. PICK y \in K : x = Definition(PutOf(y), pr.id, y.value)
        BY <1>5
    <2>2. x.env = y.env /\ x.key = y.key
        BY <2>1, CallFields DEF Definition
    <2>3. y # d /\ y \in file.definitions /\ y.slug = d.slug
        BY <1>5
    <2>4. y.env # d.env \/ y.key # d.key
        BY <2>3 DEF Restorable, ListedDefinitions
    <2> QED
        BY <1>2, <2>2, <2>4 DEF Addressed, InScope
<1>8. {y \in definitions' : y.pid = pr.id} = Old \cup {nd}
    <2>1. nd.pid = pr.id
        BY <1>1, <1>3 DEF Definition
    <2> QED
        BY <1>4, <1>6, <1>7, <2>1
<1>9. New = Old \cup {nd}
    <2>1. \A x \in file.definitions : PutOf(x) = c => x = d
        <3>1. \A x : PutOf(x).slug = x.slug /\ PutOf(x).env = x.env /\ PutOf(x).key = x.key
            BY CallFields
        <3> QED
            BY <3>1 DEF Restorable, ListedDefinitions
    <2>2. {y \in file.definitions : y.slug = p.slug /\ PutOf(y) \notin Q} = K \cup {d}
        BY <1>1, <1>5, <2>1
    <2>3. nd = Definition(PutOf(d), pr.id, d.value)
        BY <1>1, <1>2, <1>3
    <2> QED
        BY <1>5, <2>2, <2>3
<1>10. ExecCall(p) # c /\ OpenCall(p) # c /\ \A x : EnvironmentCall(x) # c
    <2>1. /\ ExecCall(p).op = "SetAllowExecute" /\ OpenCall(p).op = "SetAllowOpen"
          /\ \A x : EnvironmentCall(x).op = "CreateEnvironment"
        BY CallFields
    <2> QED
        BY <1>2, <2>1
<1>11. {x \in file.environments : x.slug = p.slug /\ EnvironmentCall(x) \notin Q} =
           {x \in file.environments : x.slug = p.slug /\ EnvironmentCall(x) \notin P}
    BY <1>1, <1>10
<1>12. Filled(p, pr, Q)'
    BY <1>1, <1>4, <1>5, <1>8, <1>9, <1>10, <1>11 DEF Filled
<1> QED
    BY <1>1, <1>4, <1>12

\* A project of the backup is created, with nothing in it.
LEMMA FilledCreated ==
    ASSUME VaultInv, NEW p \in file.projects, NEW c, c = CreateCall(p), CreateProject(c),
           NEW P, Untouched(p, P), file' = file
    PROVE  \E po \in projects' : Filled(p, po, P \ {c})'
<1>1. PICK Q, po : Q = P \ {c} /\ po = [id |-> nextId, slug |-> c.slug, exec |-> FALSE, open |-> FALSE]
    OBVIOUS
<1>2. c.slug = p.slug /\ c.op = "CreateProject"
    BY CallFields
<1>3. /\ po \in projects' /\ po.id = nextId /\ po.slug = p.slug
      /\ environments' = environments /\ definitions' = definitions
    BY <1>1, <1>2 DEF CreateProject
<1>4. Gone(nextId)
    BY DEF Gone, VaultInv, ProjectInv
<1>5. (\A e \in environments : e.pid # nextId) /\ \A d \in definitions : d.pid # nextId
    BY <1>4 DEF VaultInv, EnvironmentInv, DefinitionInv
<1>6. /\ ExecCall(p) \in Q /\ OpenCall(p) \in Q
      /\ \A e \in file.environments : e.slug = p.slug => EnvironmentCall(e) \in Q
      /\ \A d \in file.definitions : d.slug = p.slug => PutOf(d) \in Q
    <2>1. /\ ExecCall(p).op = "SetAllowExecute" /\ OpenCall(p).op = "SetAllowOpen"
          /\ \A x : EnvironmentCall(x).op = "CreateEnvironment"
        BY CallFields
    <2>2. \A x : PutOf(x).op = "Put"
        BY CallFields
    <2> QED
        BY <1>1, <1>2, <2>1, <2>2 DEF Untouched
<1>7. Filled(p, po, Q)'
    BY <1>3, <1>5, <1>6 DEF Filled
<1> QED
    BY <1>1, <1>3, <1>7

\* A call that takes effect brings the vault one call nearer to the backup.
LEMMA RestoringCall ==
    ASSUME VaultInv, Restorable(file), file' = file, NEW P \in SUBSET FileCalls(file), NEW c \in P,
           \A d \in P : d # c => ~Creates(d, c), Restoring(P),
           c.op # "GetProject", NEW id, Binds(c, id), TakesEffect(c, id)
    PROVE  Restoring(P \ {c})'
<1>1. PICK Q : Q = P \ {c}
    OBVIOUS
<1>2. c \in FileCalls(file) /\ c.op \in Fillers
    BY CallsNamed
<1>3. ASSUME NEW p \in file.projects, p.slug # c.slug
      PROVE  Untouched(p, Q)' \/ \E pr \in projects' : Filled(p, pr, Q)'
    <2>1. CASE Untouched(p, P)
        <3>1. /\ CreateCall(p).slug = p.slug /\ ExecCall(p).slug = p.slug /\ OpenCall(p).slug = p.slug
              /\ \A e : EnvironmentCall(e).slug = e.slug
            BY CallFields
        <3>2. \A d : PutOf(d).slug = d.slug
            BY CallFields
        <3> QED
            BY <1>1, <1>3, <2>1, <3>1, <3>2 DEF Untouched
    <2>2. CASE \E pr \in projects : Filled(p, pr, P)
        <3>1. PICK pr \in projects : Filled(p, pr, P)
            BY <2>2
        <3>2. pr \in projects' /\ Filled(p, pr, P \ {c})'
            BY <1>2, <1>3, <3>1, FilledStays
        <3> QED
            BY <1>1, <3>2
    <2> QED
        BY <2>1, <2>2 DEF Restoring
<1>4. ASSUME NEW p \in file.projects, p.slug = c.slug
      PROVE  \E pr \in projects' : Filled(p, pr, Q)'
    <2>1. \A o \in file.projects : o.slug = c.slug => o = p
        BY <1>4 DEF Restorable, ListedProjects
    <2>2. CASE c.op = "CreateProject"
        <3>1. c = CreateCall(p)
            <4>1. PICK o \in file.projects : c = CreateCall(o)
                BY <1>2, <2>2, CallForms
            <4> QED
                BY <2>1, <4>1, CallFields
        <3>2. CreateProject(c) /\ Named(c.slug) = {}
            BY <1>2, <2>2, FillerEffects
        <3>3. Untouched(p, P)
            BY <1>4, <3>2 DEF Restoring, Filled, Named
        <3> QED
            BY <1>1, <3>1, <3>2, <3>3, FilledCreated
    <2>3. CASE c.op # "CreateProject"
        <3>1. PICK pr \in projects : Filled(p, pr, P)
            <4>1. CreateCall(p) \notin P
                BY <1>2, <1>4, <2>3, CallFields DEF Creates
            <4> QED
                BY <4>1 DEF Restoring, Untouched
        <3>2. CASE c.op \in {"SetAllowExecute", "SetAllowOpen"}
            <4>1. PICK o \in file.projects : c \in {ExecCall(o), OpenCall(o)}
                BY <1>2, <3>2, CallForms
            <4>2. o = p
                <5>1. ExecCall(o).slug = o.slug /\ OpenCall(o).slug = o.slug
                    BY CallFields
                <5> QED
                    BY <2>1, <4>1, <5>1
            <4>3. SetAllow(c)
                BY <1>2, <3>2, FillerEffects
            <4> QED
                BY <1>1, <3>1, <4>1, <4>2, <4>3, FilledSwitches
        <3>3. CASE c.op = "CreateEnvironment"
            <4>1. PICK e \in file.environments : c = EnvironmentCall(e)
                BY <1>2, <3>3, CallForms
            <4>2. e.slug = p.slug
                BY <1>4, <4>1, CallFields
            <4>3. CreateEnvironment(c, id)
                BY <1>2, <3>3, FillerEffects
            <4> QED
                BY <1>1, <3>1, <4>1, <4>2, <4>3, FilledEnvironments
        <3>4. CASE c.op = "Put"
            <4>1. PICK d \in file.definitions : c = PutOf(d)
                BY <1>2, <3>4, CallForms
            <4>2. d.slug = p.slug
                BY <1>4, <4>1, CallFields
            <4>3. Define(c, id, {Definition(c, id, c.value)})
                BY <1>2, <3>4, FillerEffects
            <4> QED
                BY <1>1, <3>1, <4>1, <4>2, <4>3, FilledDefinitions
        <3> QED
            BY <1>2, <2>3, <3>2, <3>3, <3>4 DEF Fillers
    <2> QED
        BY <2>2, <2>3
<1>5. ASSUME NEW d \in file.definitions, d.slug = Shared, PutOf(d) \notin Q
      PROVE  Definition(PutOf(d), 0, d.value) \in definitions'
    <2>1. /\ PutOf(d).op = "Put" /\ PutOf(d).slug = Shared /\ PutOf(d).env = d.env /\ PutOf(d).key = d.key
          /\ PutOf(d).value = d.value
        BY <1>5, CallFields
    <2>2. PICK x : x = Definition(PutOf(d), 0, d.value)
        OBVIOUS
    <2>3. x.pid = 0 /\ x.env = d.env /\ x.key = d.key
        BY <2>1, <2>2 DEF Definition
    <2>4. CASE c = PutOf(d)
        <3>1. id = 0 /\ Define(c, id, {Definition(c, id, c.value)})
            BY <1>2, <2>1, <2>4, FillerEffects DEF Binds
        <3> QED
            BY <2>1, <2>4, <3>1 DEF Define
    <2>5. CASE c # PutOf(d)
        <3>1. x \in definitions
            BY <1>1, <1>5, <2>2, <2>5 DEF Restoring
        <3>2. CASE c.op = "Put"
            <4>1. PICK y \in file.definitions : c = PutOf(y)
                BY <1>2, <3>2, CallForms
            <4>2. y.slug = c.slug /\ y.env = c.env /\ y.key = c.key
                BY <4>1, CallFields
            <4>3. Define(c, id, {Definition(c, id, c.value)})
                BY <1>2, <3>2, FillerEffects
            <4>4. x \notin Addressed(c, id)
                <5> SUFFICES ASSUME id = 0, d.env = c.env, d.key = c.key PROVE FALSE
                    BY <2>3 DEF Addressed, InScope
                <5>1. c.slug = Shared
                    BY <3>2 DEF Binds, Named, ProjectOps, VaultInv, ProjectInv
                <5>2. y = d
                    BY <1>5, <4>2, <5>1 DEF Restorable, ListedDefinitions
                <5> QED
                    BY <2>5, <4>1, <5>2
            <4> QED
                BY <2>2, <3>1, <4>3, <4>4 DEF Define
        <3>3. CASE c.op # "Put"
            <4>1. definitions' = definitions
                BY <1>2, <3>3, FillerEffects DEF CreateProject, SetAllow, CreateEnvironment
            <4> QED
                BY <2>2, <3>1, <4>1
        <3> QED
            BY <3>2, <3>3
    <2> QED
        BY <2>4, <2>5
<1>6. Restoring(Q)'
    <2>1. \A p \in file'.projects : Untouched(p, Q)' \/ \E pr \in projects' : Filled(p, pr, Q)'
        BY <1>3, <1>4
    <2> QED
        BY <1>5, <2>1 DEF Restoring
<1> QED
    BY <1>1, <1>6
-----------------------------------------------------------------------------
(***************************************************************************)
(* Import: its steps.                                                      *)
(***************************************************************************)

\* An import starts with every call of the backup before it.
LEMMA ImportKeeps ==
    ASSUME Inv, Import PROVE Inv'
<1>1. /\ file # None /\ ImportCalls # <<>> /\ job' = "import" /\ plan' = ImportCalls
      /\ mine' = {} /\ last' = "none" /\ meanwhile' = 0 /\ seen' = View /\ always' = View
      /\ UNCHANGED <<vault, file>>
    BY DEF Import, Starts
<1>2. VaultInv /\ FileInv /\ Restorable(file)
    BY <1>1 DEF Inv, FileInv
<1>3. VaultInv' /\ View' = View
    BY <1>1, <1>2, StutterKeeps DEF View, SlugOf, vault
<1>4. HistoryInv'
    BY <1>1, <1>2, <1>3, ViewFacts DEF HistoryInv, Within
<1>5. Ordered(plan', CallSets(file), CallOrder(file)) /\ Pending(plan') = FileCalls(file)
    BY <1>1, <1>2, ImportPlanned DEF Planned
<1>6. ASSUME NEW c \in FileCalls(file), c.op \notin {"GetProject", "CreateProject"}, c.slug # Shared
      PROVE  \E d \in FileCalls(file) : Creates(d, c)
    <2>1. PICK p \in file.projects : p.slug = c.slug
        <3>1. CASE \E p \in file.projects : c \in {ExecCall(p), OpenCall(p)}
            <4>1. PICK p \in file.projects : c \in {ExecCall(p), OpenCall(p)}
                BY <3>1
            <4>2. ExecCall(p).slug = p.slug /\ OpenCall(p).slug = p.slug
                BY CallFields
            <4> QED
                BY <4>1, <4>2
        <3>2. CASE \E e \in file.environments : c = EnvironmentCall(e)
            <4>1. PICK e \in file.environments : c = EnvironmentCall(e)
                BY <3>2
            <4>2. \E p \in file.projects : p.slug = e.slug
                BY <1>2 DEF Restorable, ListedEnvironments
            <4> QED
                BY <4>1, <4>2, CallFields
        <3>3. CASE \E d \in file.definitions : c = PutOf(d)
            <4>1. PICK d \in file.definitions : c = PutOf(d)
                BY <3>3
            <4>2. d.slug = c.slug
                BY <4>1, CallFields
            <4>3. \E p \in file.projects : p.slug = d.slug
                BY <1>2, <1>6, <4>2 DEF Restorable, ListedDefinitions
            <4> QED
                BY <4>2, <4>3
        <3> QED
            BY <1>6, <3>1, <3>2, <3>3, CallForms
    <2>2. PICK d \in FileCalls(file) : d = CreateCall(p)
        BY CallForms
    <2>3. d.op = "CreateProject" /\ d.slug = c.slug
        BY <2>1, <2>2, CallFields
    <2> QED
        BY <1>6, <2>3 DEF Creates
<1>7. Owned(Pending(plan))'
    BY <1>5, <1>6 DEF Owned
<1>8. Importing'
    BY <1>1, <1>2, <1>5, <1>7 DEF Importing
<1>9. Restoring(Pending(plan))'
    <2>1. \A p \in file.projects : Untouched(p, FileCalls(file))
        BY CallForms DEF Untouched
    <2>2. \A d \in file.definitions : PutOf(d) \in FileCalls(file)
        BY CallForms
    <2>3. \A p \in file.projects : Untouched(p, Pending(plan))'
        BY <1>1, <1>5, <2>1 DEF Untouched
    <2> QED
        BY <1>1, <1>5, <2>2, <2>3 DEF Restoring
<1>10. FileInv' /\ ExportInv' /\ ImportInv' /\ JobInv'
    BY <1>1, <1>2, <1>8, <1>9 DEF FileInv, ExportInv, ImportInv, JobInv
<1> QED
    BY <1>3, <1>4, <1>10 DEF Inv

\* After the call q the import is as far as the calls of Q that are left say.
Advances(q, created, Q) ==
    /\ Proceeds(Rest(q), "imported", draft, created)
    /\ mine \subseteq created /\ created \subseteq 1..(nextId' - 1)
    /\ q.op = "CreateProject" => \E id \in created : \A pr \in projects' : pr.id = id => pr.slug = q.slug
    /\ meanwhile = 0 => Restoring(Q)'

\* Then it keeps the invariant.
LEMMA CallProceeds ==
    ASSUME Inv, job = "import", NEW q \in Head(plan), NEW created,
           NEW Q, Q = Pending(plan) \ {q}, Advances(q, created, Q),
           VaultInv', Descends, Observe(0), file' = file
    PROVE  Inv'
<1>1. VaultInv /\ Importing /\ HistoryInv /\ FileInv /\ JobInv
    BY DEF Inv, ImportInv
<1>2. PICK P : P = Pending(plan)
    OBVIOUS
<1>3. /\ Ordered(Rest(q), CallSets(file), CallOrder(file)) /\ Pending(Rest(q)) = Q
      /\ \A d \in P : d # q => ~Creates(d, q)
    BY <1>1, <1>2, NextFiller
<1>4. HistoryInv'
    BY <1>1, ObserveKeeps
<1>5. job' # "none" \/ last' = "imported" => meanwhile' = meanwhile
    BY <1>1 DEF Observe, JobInv
<1>6. meanwhile' \in Nat
    BY <1>1 DEF Observe, JobInv
<1>7. meanwhile = 0 => Restoring(Q)'
    BY DEF Advances
<1>8. CASE Rest(q) = <<>>
    <2>1. job' = "none" /\ last' = "imported"
        BY <1>8 DEF Advances, Proceeds, Ended
    <2>2. Q = {}
        BY <1>3, <1>8, SmallPlans
    <2>3. Restorable(file')
        BY <1>1 DEF Importing
    <2>4. meanwhile' = 0 => Restoring({})'
        BY <1>5, <1>7, <2>1, <2>2
    <2>5. FileInv' /\ ExportInv' /\ ImportInv' /\ JobInv'
        BY <1>6, <2>1, <2>3, <2>4 DEF FileInv, ExportInv, ImportInv, JobInv
    <2> QED
        BY <1>4, <2>5 DEF Inv
<1>9. CASE Rest(q) # <<>>
    <2>1. job' = "import" /\ last' = "none" /\ plan' = Rest(q) /\ mine' = created
        BY <1>1, <1>9 DEF Advances, Proceeds, Importing
    <2>2. Pending(plan') = Q
        BY <1>3, <2>1
    <2>3. Owned(Pending(plan))'
        <3>1. /\ mine \subseteq 1..(nextId - 1) /\ mine \subseteq mine' /\ Owned(P) /\ Q \subseteq P
              /\ \A c \in P \ Q : c = q
            BY <1>1, <1>2, <2>1 DEF Importing, Advances
        <3>2. \A c \in P \ Q : c.op = "CreateProject" =>
                  \E id \in mine' : \A pr \in projects' : pr.id = id => pr.slug = c.slug
            BY <2>1, <3>1 DEF Advances
        <3>3. \A c \in Q : c.op \notin {"GetProject", "CreateProject"} /\ c.slug # Shared =>
                  \/ \E d \in Q : Creates(d, c)
                  \/ \E id \in mine' : \A pr \in projects' : pr.id = id => pr.slug = c.slug
            BY <1>1, <3>1, <3>2, OwnedKeeps
        <3> QED
            BY <2>2, <3>3 DEF Owned
    <2>4. Importing'
        BY <1>1, <1>3, <1>9, <2>1, <2>3 DEF Importing, Advances
    <2>5. meanwhile' = 0 => Restoring(Pending(plan))'
        <3>1. meanwhile' = 0 => meanwhile = 0
            BY <1>5, <1>6, <2>1, <1>1 DEF Observe, JobInv
        <3>2. ASSUME Restoring(Q)' PROVE Restoring(Pending(plan))'
            <4>1. \A p \in file'.projects : Untouched(p, Q)' => Untouched(p, Pending(plan))'
                BY <2>2 DEF Untouched
            <4>2. ASSUME NEW p, NEW pr, Filled(p, pr, Q)' PROVE Filled(p, pr, Pending(plan))'
                BY <2>2, <4>2 DEF Filled
            <4>3. \A d \in file'.definitions : PutOf(d) \in Q => PutOf(d) \in Pending(plan')
                BY <2>2
            <4> QED
                BY <3>2, <4>1, <4>2, <4>3 DEF Restoring
        <3> QED
            BY <1>7, <3>1, <3>2
    <2>6. FileInv' /\ ExportInv' /\ ImportInv' /\ JobInv'
        BY <1>1, <1>6, <2>1, <2>4, <2>5 DEF FileInv, ExportInv, ImportInv, JobInv
    <2> QED
        BY <1>4, <2>6 DEF Inv
<1> QED
    BY <1>8, <1>9

\* A job that ends without success leaves the invariant of the vault.
LEMMA FailureKeeps ==
    ASSUME Inv, VaultInv', Observe(0), Ended("failed"), file' = file
    PROVE  Inv'
<1>1. HistoryInv' /\ meanwhile' = 0 /\ job' = "none" /\ last' = "failed"
    BY ObserveKeeps DEF Inv, Observe, Ended
<1>2. FileInv' /\ ExportInv' /\ ImportInv' /\ JobInv'
    BY <1>1 DEF Inv, FileInv, ExportInv, ImportInv, JobInv
<1> QED
    BY <1>1, <1>2 DEF Inv

\* A look at a project brings the vault no nearer to the backup, nor is it missed.
LEMMA LookRestores ==
    ASSUME NEW P, NEW q, q.op = "GetProject", Restoring(P), UNCHANGED <<vault, file>>
    PROVE  Restoring(P \ {q})'
<1>1. PICK Q : Q = P \ {q}
    OBVIOUS
<1>2. \A p : q # CreateCall(p) /\ q # ExecCall(p) /\ q # OpenCall(p)
    BY CallFields
<1>3. (\A e : q # EnvironmentCall(e)) /\ \A d : q # PutOf(d)
    BY CallFields
<1>4. projects' = projects /\ environments' = environments /\ definitions' = definitions /\ file' = file
    BY DEF vault
<1>5. \A p \in file.projects : Untouched(p, P) => Untouched(p, Q)'
    BY <1>1, <1>2, <1>3, <1>4 DEF Untouched
<1>6. ASSUME NEW p \in file.projects, NEW pr \in projects, Filled(p, pr, P)
      PROVE  Filled(p, pr, Q)'
    <2>1. /\ {x \in file.environments : x.slug = p.slug /\ EnvironmentCall(x) \notin Q} =
                 {x \in file.environments : x.slug = p.slug /\ EnvironmentCall(x) \notin P}
          /\ {x \in file.definitions : x.slug = p.slug /\ PutOf(x) \notin Q} =
                 {x \in file.definitions : x.slug = p.slug /\ PutOf(x) \notin P}
        BY <1>1, <1>3
    <2>2. (ExecCall(p) \in P <=> ExecCall(p) \in Q) /\ (OpenCall(p) \in P <=> OpenCall(p) \in Q)
        BY <1>1, <1>2
    <2> QED
        BY <1>4, <1>6, <2>1, <2>2 DEF Filled
<1>7. Restoring(Q)'
    <2>1. \A p \in file'.projects : Untouched(p, Q)' \/ \E pr \in projects' : Filled(p, pr, Q)'
        BY <1>4, <1>5, <1>6 DEF Restoring
    <2> QED
        BY <1>1, <1>3, <1>4, <2>1 DEF Restoring
<1> QED
    BY <1>1, <1>7

\* A project of the backup that is not there lets the import go on.
LEMMA CheckAbsentKeeps ==
    ASSUME Inv, CheckAbsent PROVE Inv'
<1>1. PICK q \in Head(plan) :
         /\ job = "import" /\ q.op = "GetProject"
         /\ Proceeds(Rest(q), "imported", draft, mine) \/ Ended("failed")
    BY DEF CheckAbsent
<1>2. UNCHANGED <<vault, file>> /\ Observe(0)
    BY DEF CheckAbsent
<1>3. VaultInv /\ VaultInv' /\ Descends
    BY <1>2, StutterKeeps DEF Inv
<1>4. CASE Ended("failed")
    BY <1>2, <1>3, <1>4, FailureKeeps
<1>5. CASE Proceeds(Rest(q), "imported", draft, mine)
    <2>1. mine \subseteq 1..(nextId' - 1)
        BY <1>1, <1>2 DEF Inv, ImportInv, Importing, vault
    <2>0. PICK P, Q : P = Pending(plan) /\ Q = Pending(plan) \ {q}
        OBVIOUS
    <2>2. meanwhile = 0 => Restoring(Q)'
        <3>1. meanwhile = 0 => Restoring(P)
            BY <1>1, <2>0 DEF Inv, ImportInv
        <3> QED
            BY <1>1, <1>2, <2>0, <3>1, LookRestores
    <2>3. Advances(q, mine, Q)
        BY <1>1, <1>5, <2>1, <2>2 DEF Advances
    <2> QED
        BY <1>1, <1>2, <1>3, <2>0, <2>3, CallProceeds
<1> QED
    BY <1>1, <1>4, <1>5

\* A call of the import that the store carries out is one of those it can.
LEMMA CallEffect ==
    ASSUME Inv, job = "import", NEW q \in Head(plan), q.op # "GetProject",
           NEW id, Binds(q, id), Ends(q, id, "ok")
    PROVE  /\ VaultInv /\ Importing /\ q \in Pending(plan) /\ Pending(plan) \subseteq FileCalls(file)
           /\ \A d \in Pending(plan) : d # q => ~Creates(d, q)
           /\ WellNamed(q) /\ q.op \in Fillers /\ TakesEffect(q, id)
<1>1. VaultInv /\ Importing /\ Restorable(file)
    BY DEF Inv, ImportInv, Importing
<1>2. /\ q \in Pending(plan) /\ Pending(plan) \subseteq FileCalls(file)
      /\ \A d \in Pending(plan) : d # q => ~Creates(d, q)
    BY <1>1, NextFiller
<1>3. WellNamed(q) /\ q.op \in Fillers
    BY <1>1, <1>2, CallsNamed
<1>4. ~FindsNothing(q, id)
    BY <1>3 DEF FindsNothing, Fillers
<1>5. ~Refused(q, id, "ok")
    BY DEF Refused
<1>6. TakesEffect(q, id)
    BY <1>4, <1>5 DEF Ends
<1> QED
    BY <1>1, <1>2, <1>3, <1>6

\* A call of the import keeps the invariant, whatever its result.
LEMMA ImportCallKeeps ==
    ASSUME Inv, ImportCall PROVE Inv'
<1>1. PICK q \in Head(plan), id \in 0..MaxProjects, r \in Results :
         /\ q.op # "GetProject" /\ Binds(q, id) /\ Ends(q, id, r)
         /\ IF Stops(q, r) THEN Ended("failed")
            ELSE Proceeds(Rest(q), "imported", draft, mine \cup (nextId..(nextId' - 1)))
    BY DEF ImportCall
<1>2. job = "import" /\ file' = file /\ Observe(0)
    BY DEF ImportCall
<1>3. VaultInv /\ Importing /\ Restorable(file)
    BY <1>2 DEF Inv, ImportInv, Importing
<1>4. /\ q \in Pending(plan) /\ Pending(plan) \subseteq FileCalls(file)
      /\ \A d \in Pending(plan) : d # q => ~Creates(d, q)
    BY <1>3, NextFiller
<1>5. WellNamed(q) /\ q.op \in Fillers
    BY <1>1, <1>3, <1>4, CallsNamed
<1>6. VaultInv' /\ Descends
    BY <1>1, <1>3, <1>5, EndsKeeps
<1>7. CASE r # "ok"
    BY <1>1, <1>2, <1>6, <1>7, FailureKeeps DEF Stops
<1>8. CASE r = "ok"
    <2>1. TakesEffect(q, id)
        BY <1>1, <1>2, <1>8, CallEffect
    <2>2. PICK P, Q, new : P = Pending(plan) /\ Q = Pending(plan) \ {q} /\ new = nextId..(nextId' - 1)
        OBVIOUS
    <2>3. Proceeds(Rest(q), "imported", draft, mine \cup new)
        BY <1>1, <1>8, <2>2 DEF Stops
    <2>4. mine \cup new \subseteq 1..(nextId' - 1)
        <3>1. nextId \in Nat /\ nextId' \in Nat /\ nextId # 0 /\ nextId <= nextId'
            BY <1>3, <1>6 DEF VaultInv, ProjectInv, Descends
        <3>2. 1..(nextId - 1) \subseteq 1..(nextId' - 1)
            BY <3>1, Identities
        <3>3. new \subseteq 1..(nextId' - 1)
            BY <2>2, <3>1, Identities
        <3> QED
            BY <1>3, <3>2, <3>3 DEF Importing
    <2>5. ASSUME q.op = "CreateProject"
          PROVE  \E i \in mine \cup new : \A pr \in projects' : pr.id = i => pr.slug = q.slug
        <3>1. CreateProject(q)
            BY <1>5, <2>1, <2>5, FillerEffects
        <3>2. /\ projects' = projects \cup {[id |-> nextId, slug |-> q.slug, exec |-> FALSE, open |-> FALSE]}
              /\ nextId' = nextId + 1
            BY <3>1 DEF CreateProject
        <3>3. nextId \in Nat /\ \A pr \in projects : pr.id < nextId /\ pr.id \in Nat
            BY <1>3 DEF VaultInv, ProjectInv
        <3>4. nextId \in new
            BY <2>2, <3>2, <3>3
        <3>5. \A pr \in projects' : pr.id = nextId => pr.slug = q.slug
            BY <3>2, <3>3
        <3> QED
            BY <3>4, <3>5
    <2>6. meanwhile = 0 => Restoring(Q)'
        <3>1. meanwhile = 0 => Restoring(P)
            BY <1>2, <2>2 DEF Inv, ImportInv
        <3>2. P \in SUBSET FileCalls(file) /\ q \in P
            BY <1>4, <2>2
        <3> QED
            BY <1>1, <1>2, <1>3, <1>4, <2>1, <2>2, <3>1, <3>2, RestoringCall
    <2>7. Advances(q, mine \cup new, Q)
        BY <2>3, <2>4, <2>5, <2>6 DEF Advances
    <2>8. PICK created : created = mine \cup new
        OBVIOUS
    <2>9. Advances(q, created, Q)
        BY <2>7, <2>8
    <2> QED
        BY <1>2, <1>6, <2>2, <2>9, CallProceeds
<1> QED
    BY <1>7, <1>8

-----------------------------------------------------------------------------
(***************************************************************************)
(* The other client, and the end of a job.                                 *)
(***************************************************************************)

\* A job that fails has changed what it has changed.
LEMMA FailKeeps ==
    ASSUME Inv, Fail PROVE Inv'
<1>1. Ended("failed") /\ UNCHANGED <<vault, file>> /\ Observe(0)
    BY DEF Fail
<1>2. VaultInv'
    BY <1>1, StutterKeeps DEF Inv
<1> QED
    BY <1>1, <1>2, FailureKeeps

\* A write of the other client takes nothing from what a job relies on.
LEMMA WriteKeeps ==
    ASSUME Inv, Write PROVE Inv'
<1>1. PICK q \in Writes, id \in 0..MaxProjects : Binds(q, id) /\ TakesEffect(q, id)
    BY DEF Write
<1>2. last' = "none" /\ UNCHANGED <<job, plan, bound, draft, file, mine>> /\ Observe(1)
    BY DEF Write
<1>3. VaultInv /\ HistoryInv /\ FileInv /\ JobInv
    BY DEF Inv
<1>4. VaultInv' /\ Descends
    BY <1>1, <1>3, EffectKeeps, BackupAssumption
<1>5. HistoryInv'
    BY <1>2, <1>3, ObserveKeeps
<1>6. JobInv' /\ (job # "none" => meanwhile' # 0)
    BY <1>2, <1>3 DEF JobInv, Observe
<1>7. job = "export" => Exporting'
    BY <1>2, <1>3, <1>4, WriteExporting DEF Inv, ExportInv
<1>8. ASSUME job = "import" PROVE Importing'
    <2>1. Importing
        BY <1>8 DEF Inv, ImportInv
    <2>2. PICK P : P = Pending(plan)
        OBVIOUS
    <2>3. mine \subseteq 1..(nextId - 1) /\ mine \subseteq mine' /\ Owned(P) /\ P \in SUBSET P
        BY <1>2, <2>1, <2>2 DEF Importing
    <2>4. \A c \in P : c.op \notin {"GetProject", "CreateProject"} /\ c.slug # Shared =>
              \/ \E d \in P : Creates(d, c)
              \/ \E i \in mine' : \A pr \in projects' : pr.id = i => pr.slug = c.slug
        <3>1. \A c \in P \ P : c.op = "CreateProject" =>
                  \E i \in mine' : \A pr \in projects' : pr.id = i => pr.slug = c.slug
            OBVIOUS
        <3> QED
            BY <1>3, <1>4, <2>3, <3>1, OwnedKeeps
    <2>5. Owned(Pending(plan))'
        BY <1>2, <2>2, <2>4 DEF Owned
    <2>6. mine' \subseteq 1..(nextId' - 1)
        <3>1. 1..(nextId - 1) \subseteq 1..(nextId' - 1)
            BY <1>3, <1>4, Identities DEF VaultInv, ProjectInv, Descends
        <3> QED
            BY <1>2, <2>1, <3>1 DEF Importing
    <2> QED
        BY <1>2, <2>1, <2>5, <2>6 DEF Importing
<1>9. FileInv' /\ ExportInv' /\ ImportInv'
    BY <1>2, <1>3, <1>6, <1>7, <1>8 DEF FileInv, ExportInv, ImportInv
<1> QED
    BY <1>4, <1>5, <1>6, <1>9 DEF Inv

\* The invariant holds of an empty vault.
LEMMA EmptyVault ==
    (projects = {} /\ nextId = 1 /\ environments = {} /\ definitions = {}) => VaultInv
BY FS_EmptySet DEF VaultInv, ProjectInv, EnvironmentInv, DefinitionInv

\* So does the rest of it when the backup moves to one.
LEMMA NewVaultKeeps ==
    ASSUME Inv, NewVault PROVE Inv'
<1>1. /\ projects' = {} /\ nextId' = 1 /\ environments' = {} /\ definitions' = {}
      /\ job = "none" /\ last' = "none" /\ UNCHANGED <<job, plan, bound, draft, file, mine>> /\ Observe(1)
    BY DEF NewVault
<1>2. VaultInv'
    BY <1>1, FS_EmptySet DEF VaultInv, ProjectInv, EnvironmentInv, DefinitionInv
<1>3. HistoryInv'
    BY <1>1, ObserveKeeps DEF Inv
<1>4. FileInv' /\ ExportInv' /\ ImportInv' /\ JobInv'
    BY <1>1 DEF Inv, FileInv, ExportInv, ImportInv, JobInv, Observe
<1> QED
    BY <1>2, <1>3, <1>4 DEF Inv

-----------------------------------------------------------------------------
(***************************************************************************)
(* The theorems.                                                           *)
(***************************************************************************)

\* It holds before anything has happened.
LEMMA InitInv == Init => Inv
<1> SUFFICES ASSUME Init PROVE Inv
    OBVIOUS
<1>1. VaultInv
    BY EmptyVault DEF Init, VaultInit
<1>2. Picture(seen) /\ Picture(always) /\ HistoryInv
    BY DEF Init, ProgramInit, HistoryInv, Picture, Empties
<1>3. FileInv /\ ExportInv /\ ImportInv /\ JobInv
    BY DEF Init, ProgramInit, FileInv, ExportInv, ImportInv, JobInv
<1> QED
    BY <1>1, <1>2, <1>3 DEF Inv

\* Whatever the other client does and whenever a job fails: the vault is one the
\* store can have made, a job is followed by the calls it has still to make, every
\* backup can be restored, and an import is as far as what is left of it says.
THEOREM BackupInvariant == Spec => []Inv
<1>1. ASSUME Inv, [Next]_vars PROVE Inv'
    <2>1. CASE Export
        BY <1>1, <2>1, ExportKeeps
    <2>2. CASE Lookup
        BY <1>1, <2>2, LookupKeeps
    <2>3. CASE ReadDefinitions
        BY <1>1, <2>3, ReadDefinitionsKeeps
    <2>4. CASE ReadEnvironments
        BY <1>1, <2>4, ReadEnvironmentsKeeps
    <2>5. CASE Import
        BY <1>1, <2>5, ImportKeeps
    <2>6. CASE CheckAbsent
        BY <1>1, <2>6, CheckAbsentKeeps
    <2>7. CASE ImportCall
        BY <1>1, <2>7, ImportCallKeeps
    <2>8. CASE Fail
        BY <1>1, <2>8, FailKeeps
    <2>9. CASE Write
        BY <1>1, <2>9, WriteKeeps
    <2>10. CASE NewVault
        BY <1>1, <2>10, NewVaultKeeps
    <2>11. CASE UNCHANGED vars
        <3>1. UNCHANGED <<vault, program, history>>
            BY <2>11 DEF vars
        <3>2. UNCHANGED <<projects, nextId, environments, definitions>>
            BY <3>1 DEF vault
        <3>3. UNCHANGED <<job, plan, bound, draft, file, last, jobs, mine, meanwhile, seen, always>>
            BY <3>1 DEF program, history
        <3>4. Inv <=> Inv'
            BY <3>2, <3>3 DEF Inv, VaultInv, ProjectInv, EnvironmentInv, DefinitionInv, Gone, HasEnvironment,
                  JobInv, HistoryInv, View, SlugOf, FileInv, ExportInv, Exporting, Drafted, AtHome, Home,
                  ImportInv, Importing, Owned, Restoring, Untouched, Filled
        <3> QED
            BY <1>1, <3>4
    <2> QED
        BY <1>1, <2>1, <2>2, <2>3, <2>4, <2>5, <2>6, <2>7, <2>8, <2>9, <2>10, <2>11 DEF Next
<1> QED
    BY <1>1, InitInv, PTL DEF Spec

\* A backup holds nothing that was not in the vault at some moment of the export, and
\* everything that was there all the time.
THEOREM ExportPicture == Spec => []ExportRegular
<1>1. Inv => ExportRegular
    BY DEF Inv, ExportInv, ExportRegular
<1> QED
    BY <1>1, BackupInvariant, PTL

\* What the projects and the definitions of a project become in the view.
LEMMA ProjectRestored ==
    ASSUME VaultInv, Restorable(file), NEW p \in file.projects, NEW pr \in projects, Filled(p, pr, {})
    PROVE  /\ {y \in View.projects : y.slug = p.slug} = {y \in file.projects : y.slug = p.slug}
           /\ {y \in View.environments : y.slug = p.slug} = {y \in file.environments : y.slug = p.slug}
           /\ {y \in View.definitions : y.slug = p.slug} =
                 {y \in {Restored(d) : d \in file.definitions} : y.slug = p.slug}
<1>1. PICK s : s = p.slug /\ s = pr.slug
    BY DEF Filled
<1>2. InView(pr.id, s) /\ s # Shared
    <2>1. InView(pr.id, pr.slug) /\ pr.slug # Shared
        BY ViewFacts, SlugFacts
    <2> QED
        BY <1>1, <2>1
<1>3. {y \in View.projects : y.slug = s} = {y \in file.projects : y.slug = s}
    <2>1. p \in [slug : Slugs, exec : BOOLEAN, open : BOOLEAN]
        BY DEF Restorable, ListedProjects
    <2>2. pr.exec = p.exec /\ pr.open = p.open
        BY DEF Filled
    <2>3. p = [slug |-> pr.slug, exec |-> pr.exec, open |-> pr.open]
        BY <1>1, <2>1, <2>2
    <2>4. {y \in file.projects : y.slug = s} = {p}
        BY <1>1 DEF Restorable, ListedProjects
    <2>5. View.projects = {[slug |-> x.slug, exec |-> x.exec, open |-> x.open] : x \in projects}
        BY ViewFacts
    <2>6. \A x \in projects : x.slug = s => x = pr
        BY <1>1 DEF VaultInv, ProjectInv
    <2>7. {y \in View.projects : y.slug = s} = {p}
        BY <1>1, <2>3, <2>5, <2>6
    <2> QED
        BY <2>4, <2>7
<1>4. {y \in View.environments : y.slug = s} = {y \in file.environments : y.slug = s}
    <2>1. {e.name : e \in {x \in environments : x.pid = pr.id}} =
             {e.name : e \in {x \in file.environments : x.slug = s}}
        BY <1>1 DEF Filled
    <2>2. \A y \in file.environments : y = [slug |-> y.slug, name |-> y.name]
        BY DEF Restorable, ListedEnvironments
    <2>3. ASSUME NEW x \in View.environments, x.slug = s PROVE x \in file.environments
        <3>1. PICK e \in environments : e.pid = pr.id /\ x = [slug |-> s, name |-> e.name]
            BY <1>2, <2>3 DEF InView
        <3>2. PICK y \in file.environments : y.slug = s /\ y.name = e.name
            BY <2>1, <3>1
        <3> QED
            BY <2>2, <3>1, <3>2
    <2>4. ASSUME NEW y \in file.environments, y.slug = s PROVE y \in View.environments
        <3>1. PICK e \in environments : e.pid = pr.id /\ e.name = y.name
            BY <2>1, <2>4
        <3> QED
            BY <1>2, <2>2, <2>4, <3>1 DEF InView
    <2> QED
        BY <2>3, <2>4
<1>5. {y \in View.definitions : y.slug = s} = {y \in {Restored(d) : d \in file.definitions} : y.slug = s}
    <2>1. {d \in definitions : d.pid = pr.id} =
             {Definition(PutOf(d), pr.id, d.value) : d \in {x \in file.definitions : x.slug = s}}
        BY <1>1 DEF Filled
    <2>2. \A d : d.slug = s => ViewItem(s, Definition(PutOf(d), pr.id, d.value)) = Restored(d)
        BY DEF ViewItem, Definition, PutOf, Restored
    <2>3. \A d : Restored(d).slug = d.slug
        BY DEF Restored
    <2>4. ASSUME NEW x \in View.definitions, x.slug = s PROVE \E d \in file.definitions : x = Restored(d)
        <3>1. PICK e \in definitions : e.pid = pr.id /\ x = ViewItem(s, e)
            BY <1>2, <2>4 DEF InView
        <3>2. PICK d \in file.definitions : d.slug = s /\ e = Definition(PutOf(d), pr.id, d.value)
            BY <2>1, <3>1
        <3> QED
            BY <2>2, <3>1, <3>2
    <2>5. ASSUME NEW d \in file.definitions, d.slug = s PROVE Restored(d) \in View.definitions
        <3>1. PICK e \in definitions : e.pid = pr.id /\ e = Definition(PutOf(d), pr.id, d.value)
            BY <2>1, <2>5 
        <3> QED
            BY <1>2, <2>2, <2>5, <3>1 DEF InView
    <2> QED
        BY <2>3, <2>4, <2>5
<1> QED
    BY <1>1, <1>3, <1>4, <1>5

\* When an import that nobody wrote beside reports success, the projects of the backup
\* are as they were, no more and no less, and so is every shared definition of it.
THEOREM ImportRoundTrip == Spec => []ImportRestores
<1>1. ASSUME Inv, last = "imported", meanwhile = 0
      PROVE  /\ \A p \in file.projects : OfProject(View, p.slug) = OfProject(Meaning(file), p.slug)
             /\ Within(OfProject(Meaning(file), Shared), OfProject(View, Shared))
    <2>1. VaultInv /\ Restorable(file) /\ Restoring({})
        BY <1>1 DEF Inv, ImportInv
    <2>2. Picture(View) /\ InView(0, Shared)
        BY <2>1, ViewFacts
    <2>3. /\ Picture(Meaning(file)) /\ Meaning(file).projects = file.projects
          /\ Meaning(file).environments = file.environments
          /\ Meaning(file).definitions = {Restored(d) : d \in file.definitions}
        BY <2>1, MeaningFields DEF Restorable
    <2>4. ASSUME NEW p \in file.projects
          PROVE  OfProject(View, p.slug) = OfProject(Meaning(file), p.slug)
        <3>1. PICK pr \in projects : Filled(p, pr, {})
            BY <2>1 DEF Restoring, Untouched
        <3> QED
            BY <2>1, <2>2, <2>3, <3>1, ProjectRestored DEF OfProject, Picture
    <2>5. Within(OfProject(Meaning(file), Shared), OfProject(View, Shared))
        <3>1. \A p \in file.projects : p.slug # Shared
            BY <2>1, ReadersAssumption DEF Restorable, ListedProjects
        <3>2. \A e \in file.environments : e.slug # Shared
            BY <2>1, <3>1 DEF Restorable, ListedEnvironments
        <3>3. ASSUME NEW d \in file.definitions, Restored(d).slug = Shared
              PROVE  Restored(d) \in View.definitions
            <4>1. d.slug = Shared
                BY <3>3 DEF Restored
            <4>2. PICK x \in definitions : x = Definition(PutOf(d), 0, d.value)
                BY <2>1, <4>1 DEF Restoring
            <4>3. x.pid = 0 /\ ViewItem(Shared, x) = Restored(d)
                BY <4>1, <4>2 DEF ViewItem, Definition, PutOf, Restored
            <4> QED
                BY <2>2, <4>2, <4>3 DEF InView
        <3> QED
            BY <2>2, <2>3, <3>1, <3>2, <3>3 DEF Within, OfProject, Picture
    <2> QED
        BY <2>4, <2>5
<1>2. Inv => ImportRestores
    BY <1>1 DEF ImportRestores
<1> QED
    BY <1>2, BackupInvariant, PTL

\* What a call of an import may change is a project that the import has created.
LEMMA CallsSpare ==
    ASSUME Inv, job = "import", NEW q \in Head(plan), q.op # "GetProject",
           NEW id, Binds(q, id), Ends(q, id, "ok"), \A m \in mine : ~Gone(m),
           NEW i \in 1..(nextId - 1), i \notin mine
    PROVE  OfId(i)' = OfId(i)
<1>1. /\ VaultInv /\ Importing /\ q \in Pending(plan) /\ \A d \in Pending(plan) : d # q => ~Creates(d, q)
      /\ q.op \in Fillers /\ TakesEffect(q, id)
    BY CallEffect
<1>2. ASSUME NEW pr \in projects, pr.id = i, pr.slug = q.slug PROVE FALSE
    <2>1. q.slug # Shared
        BY <1>1, <1>2, SlugFacts
    <2>2. q.op # "CreateProject"
        BY <1>1, <1>2, FillerEffects DEF Named
    <2>3. \A d \in Pending(plan) : ~Creates(d, q)
        BY <1>1, <2>2 DEF Creates
    <2>4. PICK m \in mine : \A po \in projects : po.id = m => po.slug = q.slug
        BY <1>1, <2>1, <2>2, <2>3 DEF Importing, Owned
    <2>5. m # 0
        BY <1>1 DEF Importing
    <2>6. PICK po \in projects : po.id = m
        BY <2>5 DEF Gone
    <2>7. po = pr
        BY <1>1, <1>2, <2>4, <2>6 DEF VaultInv, ProjectInv
    <2> QED
        BY <1>2, <2>6, <2>7
<1>3. /\ {pr \in projects' : pr.id = i} = {pr \in projects : pr.id = i}
      /\ {e \in environments' : e.pid = i} = {e \in environments : e.pid = i}
      /\ {d \in definitions' : d.pid = i} = {d \in definitions : d.pid = i}
    BY <1>1, <1>2, FillersSpare
<1> QED
    BY <1>3 DEF OfId

\* An import changes no project but those it has created, as long as they are there.
THEOREM ImportHarmless == Spec => ImportSparesOthers
<1>1. ASSUME Inv, [Next]_vars, job = "import", plan' # plan \/ job' # job, \A id \in mine : ~Gone(id),
             NEW i \in 1..(nextId - 1) \ mine
      PROVE  OfId(i)' = OfId(i)
    <2>1. UNCHANGED vault => OfId(i)' = OfId(i)
        BY DEF OfId, vault
    <2>2. CASE CheckAbsent
        BY <2>1, <2>2 DEF CheckAbsent
    <2>3. CASE Fail
        BY <2>1, <2>3 DEF Fail
    <2>4. CASE ImportCall
        <3>1. PICK q \in Head(plan), id \in 0..MaxProjects, r \in Results :
                 q.op # "GetProject" /\ Binds(q, id) /\ Ends(q, id, r)
            BY <2>4 DEF ImportCall
        <3>2. CASE r = "ok"
            BY <1>1, <3>1, <3>2, CallsSpare
        <3>3. CASE r # "ok"
            BY <2>1, <3>1, <3>3 DEF Ends
        <3> QED
            BY <3>2, <3>3
    <2>5. CASE Write
        BY <1>1, <2>5 DEF Write
    <2>6. CASE Export \/ Import
        BY <1>1, <2>6 DEF Export, Import, Starts
    <2>7. CASE Lookup
        BY <1>1, <2>7 DEF Lookup
    <2>8. CASE ReadDefinitions \/ ReadEnvironments
        BY <1>1, <2>8 DEF ReadDefinitions, ReadEnvironments
    <2>9. CASE NewVault
        BY <1>1, <2>9 DEF NewVault
    <2>10. CASE UNCHANGED vars
        BY <1>1, <2>10 DEF vars, program
    <2> QED
        BY <1>1, <2>2, <2>3, <2>4, <2>5, <2>6, <2>7, <2>8, <2>9, <2>10 DEF Next
<1>2. Inv /\ [Next]_vars =>
        [job = "import" /\ (plan' # plan \/ job' # job) /\ (\A id \in mine : ~Gone(id)) =>
            \A id \in 1..(nextId - 1) \ mine : OfId(id)' = OfId(id)]_vars
    BY <1>1
<1> QED
    BY <1>2, BackupInvariant, PTL DEF Spec, ImportSparesOthers

-----------------------------------------------------------------------------
(***************************************************************************)
(* The page: the invariant.                                                *)
(***************************************************************************)

\* The calls of the page, those that stand between the metadata and the values of
\* a scope, and an order in which they can: such a call belongs to the scope that is
\* being read, whose values are the first to come.
Outer == {"secrets", "effective", "environments", "names"}
Inner == {"broader", "overrides"}
Sorted(p) == \A i, j \in 1..Len(p) : i < j /\ p[j].want \notin Outer => p[i].want \in Inner

\* The scope that is being read.
Opened(P) == {c \in P : c.want = "values"}

Wide == {"project", "environment", "global"}

\* The call c asks what a definition of the scope o overrides.
AsksFor(c, o) ==
    /\ c.slug = Shared /\ c.scope \in Wide
    /\ c.scope = "global" => c.id = 0 /\ c.env = AllEnvs
    /\ c.scope = "environment" =>
          /\ c.id = 0 /\ c.env # AllEnvs /\ o.slug # Shared
          /\ IF o.env # AllEnvs THEN c.env = o.env
                                ELSE [slug |-> o.slug, name |-> c.env] \in seen.environments
    /\ c.scope = "project" =>
          /\ c.env = AllEnvs /\ o.slug # Shared /\ o.env # AllEnvs
          /\ c.id \in 1..(nextId - 1) /\ Home(c.id, o.slug)

\* A call is one of those that the page makes, in P.
CallOk(c, P) ==
    /\ c.want \in Outer \cup Inner \cup {"values"} /\ c.slug \in Slugs \cup {Shared}
    /\ c.want # "overrides" => c = Do(c.want, c.slug, c.env)
    /\ c.want \in {"environments", "effective", "broader"} => c.slug # Shared
    /\ c.want \in {"environments", "broader"} => c.env = AllEnvs
    /\ c.want = "effective" => c.env # AllEnvs
    /\ c.want = "names" => c = Do("names", Shared, AllEnvs)
    /\ c.want \in Inner => Opened(P) # {}
    /\ c.want = "broader" => \A o \in Opened(P) : o.slug = c.slug /\ o.env = AllEnvs
    /\ c.want = "overrides" => \A o \in Opened(P) : AsksFor(c, o)

\* A definition in the scope o, as far as it is known where it is.
Spot(i, o) == [key |-> i.key, slug |-> o.slug, env |-> o.env]

\* The call c of P is still to find that i overrides d of the scope s.
Awaits(P, i, s, d) ==
    \E c \in P : \/ c.want = "broader"
                 \/ c.want = "overrides" /\ c.key = i.key /\ c.scope = s /\ c.env = d.env

\* What has been read of a definition was in the vault at some time, and the wider
\* definitions that stayed are among what it overrides, or will be.
InfoOk(i, P) ==
    /\ DOMAIN i = {"key", "sensitive", "kind", "hint", "overrides"}
    /\ \A o \in Opened(P) :
          /\ \E d \in seen.definitions :
                d.slug = o.slug /\ d.env = o.env /\ d.key = i.key /\ SameMeta(i, d)
          /\ \A s \in Wide :
                /\ s \in i.overrides => At(seen, Spot(i, o), s) # {}
                /\ Own(Spot(i, o)) \in Narrower(s) =>
                      \A d \in At(always, Spot(i, o), s) : s \in i.overrides \/ Awaits(P, i, s, d)

\* What the page shows of a definition.
ItemOk(i) ==
    /\ i.which \in {"scope", "effective"}
    /\ i.value # None => ~i.sensitive
    /\ \E d \in At(seen, i, Source(i)) : SameMeta(i, d)
    /\ i.which = "scope" =>
          \A s \in Wide :
              /\ s \in i.scopes => At(seen, i, s) # {}
              /\ Own(i) \in Narrower(s) /\ At(always, i, s) # {} => s \in i.scopes
    /\ i.which = "effective" => \A s \in Narrower(Source(i)) : At(always, i, s) = {}

\* The definition d is on the page pg, or among the metadata I just read, or in a scope
\* that will be read.
OnPage(d, pg) ==
    \E i \in pg.items : /\ i.which = "scope" /\ i.slug = d.slug /\ i.env = d.env
                        /\ i.key = d.key /\ SameMeta(i, d)
InHand(d, P, I) ==
    \E i \in I, o \in Opened(P) : /\ o.slug = d.slug /\ o.env = d.env
                                  /\ i.key = d.key /\ SameMeta(i, d)
Ahead(d, P) ==
    \/ Do("secrets", d.slug, d.env) \in P
    \/ /\ d.env # AllEnvs
       /\ Do(IF d.slug = Shared THEN "names" ELSE "environments", d.slug, AllEnvs) \in P

\* What stayed is on the page, or will be.
Presents(pg, P, I) ==
    /\ \A e \in always.environments : e \in pg.environments \/ Do("environments", e.slug, AllEnvs) \in P
    /\ \A d \in always.definitions : OnPage(d, pg) \/ InHand(d, P, I) \/ Ahead(d, P)

ViewHistory ==
    /\ Picture(seen) /\ Picture(always)
    /\ answer # "none" => Within(View, seen) /\ Within(always, View)

\* The plan of the page.
TodoInv ==
    /\ todo \in Seq(Range(todo)) /\ Sorted(todo)
    /\ \A c \in Range(todo) : CallOk(c, Range(todo))
    /\ answer = "reading" <=> todo # <<>>

BoundInv ==
    /\ bound \in 0..(nextId - 1)
    /\ bound # 0 => todo # <<>> /\ Head(todo).slug # Shared /\ Home(bound, Head(todo).slug)

InfosInv == IsFiniteSet(infos) /\ \A i \in infos : InfoOk(i, Range(todo))

PageInv ==
    /\ answer = "none" => page = [projects |-> {}, environments |-> {}, items |-> {}]
    /\ DOMAIN page = {"projects", "environments", "items"}
    /\ \A i \in page.items : ItemOk(i)
    /\ page.environments \subseteq seen.environments
    /\ answer # "none" =>
          always.projects \subseteq page.projects /\ page.projects \subseteq seen.projects
    /\ answer \in {"reading", "page"} => Presents(page, Range(todo), infos)

ViewInv == VaultInv /\ ViewHistory /\ TodoInv /\ BoundInv /\ InfosInv /\ PageInv

-----------------------------------------------------------------------------
(***************************************************************************)
(* The page: its plan as a sequence.                                       *)
(***************************************************************************)

\* A sequence of some calls, without saying of which.
Listing(p) == p \in Seq(Range(p))

\* An element of a sequence is at one of its places.
LEMMA RangeFacts ==
    ASSUME NEW X, NEW p \in Seq(X)
    PROVE  /\ Listing(p) /\ Range(p) = {p[i] : i \in 1..Len(p)}
           /\ \A i \in 1..Len(p) : p[i] \in Range(p)
           /\ p = <<>> <=> Range(p) = {}
<1>1. Range(p) = {p[i] : i \in 1..Len(p)}
    BY DEF Range
<1>2. Listing(p)
    <2>1. PICK Y : Y = Range(p)
        OBVIOUS
    <2>2. p \in Seq(Y)
        BY <1>1, <2>1
    <2> QED
        BY <2>1, <2>2 DEF Listing
<1>3. p = <<>> <=> Range(p) = {}
    <2>1. CASE p = <<>>
        BY <1>1, <2>1
    <2>2. CASE p # <<>>
        <3>1. 1 \in 1..Len(p)
            BY <2>2
        <3> QED
            BY <1>1, <2>2, <3>1
    <2> QED
        BY <2>1, <2>2
<1> QED
    BY <1>1, <1>2, <1>3

\* What has an order keeps it behind calls about the scope that is read.
LEMMA ListingConcat ==
    ASSUME NEW p, NEW q, Listing(p), Listing(q)
    PROVE  /\ Listing(p \o q) /\ Range(p \o q) = Range(p) \cup Range(q)
           /\ (\A c \in Range(p) : c.want \in Inner) /\ Sorted(q) => Sorted(p \o q)
<1>1. PICK X : X = Range(p) \cup Range(q)
    OBVIOUS
<1>2. p \in Seq(X) /\ q \in Seq(X)
    <2>1. PICK Y, Z : Y = Range(p) /\ Z = Range(q)
        OBVIOUS
    <2>2. p \in Seq(Y) /\ q \in Seq(Z) /\ Y \subseteq X /\ Z \subseteq X
        BY <1>1, <2>1 DEF Listing
    <2> QED
        BY <2>2
<1>3. PICK u : u = p \o q
    OBVIOUS
<1>4. /\ u \in Seq(X) /\ Len(u) = Len(p) + Len(q)
      /\ \A i \in 1..Len(p) + Len(q) : u[i] = IF i <= Len(p) THEN p[i] ELSE q[i - Len(p)]
    BY <1>2, <1>3, ConcatProperties
<1>5. Range(u) = Range(p) \cup Range(q)
    BY <1>2, <1>3, RangeConcatenation
<1>6. Listing(u)
    BY <1>4, RangeFacts
<1>7. ASSUME \A c \in Range(p) : c.want \in Inner, Sorted(q) PROVE Sorted(u)
    <2> SUFFICES ASSUME NEW i \in 1..Len(u), NEW j \in 1..Len(u), i < j, u[j].want \notin Outer,
                        u[i].want \notin Inner
                 PROVE  FALSE
        BY DEF Sorted
    <2>1. i > Len(p)
        <3> SUFFICES ASSUME i <= Len(p) PROVE FALSE
            BY <1>2
        <3>1. i \in 1..Len(p) /\ u[i] = p[i]
            BY <1>2, <1>4
        <3> QED
            BY <1>2, <1>7, <3>1, RangeFacts
    <2>2. PICK k \in 1..Len(q), l \in 1..Len(q) : k < l /\ u[i] = q[k] /\ u[j] = q[l]
        <3>1. i - Len(p) \in 1..Len(q) /\ j - Len(p) \in 1..Len(q) /\ i - Len(p) < j - Len(p)
            BY <1>2, <1>4, <2>1
        <3>2. u[i] = q[i - Len(p)] /\ u[j] = q[j - Len(p)]
            BY <1>2, <1>4, <2>1
        <3> QED
            BY <3>1, <3>2
    <2> QED
        BY <1>7, <2>2 DEF Sorted
<1> QED
    BY <1>3, <1>5, <1>6, <1>7

\* The first call of a plan in order; unless it is about the scope that is read, all
\* others are about something else.
LEMMA ListingHead ==
    ASSUME NEW p, Listing(p), p # <<>>, Sorted(p)
    PROVE  /\ Listing(Tail(p)) /\ Range(p) = {Head(p)} \cup Range(Tail(p)) /\ Sorted(Tail(p))
           /\ Head(p).want \in Inner \/ \A c \in Range(Tail(p)) : c.want \in Outer
<1>1. PICK X : X = Range(p)
    OBVIOUS
<1>2. p \in Seq(X)
    BY <1>1 DEF Listing
<1>3. PICK q, t, n : q = Tail(p) /\ t = Head(p) /\ n = Len(q)
    OBVIOUS
<1>4. /\ q \in Seq(X) /\ n \in Nat /\ Len(p) = n + 1 /\ p[1] = t
      /\ \A i \in 1..n : q[i] = p[i + 1]
    BY <1>2, <1>3
<1>5. Range(q) = {q[i] : i \in 1..n} /\ Range(p) = {p[i] : i \in 1..(n + 1)} /\ Listing(q)
    <2>1. Range(q) = {q[i] : i \in 1..Len(q)} /\ Listing(q)
        BY <1>4, RangeFacts
    <2>2. Range(p) = {p[i] : i \in 1..Len(p)}
        BY <1>2, RangeFacts
    <2>3. Len(q) = n /\ Len(p) = n + 1
        BY <1>3, <1>4
    <2> QED
        BY <2>1, <2>2, <2>3
<1>6. Range(p) = {t} \cup Range(q)
    <2>1. \A i \in 1..(n + 1) : i = 1 \/ (i - 1 \in 1..n /\ q[i - 1] = p[i])
        BY <1>4
    <2>2. Range(p) \subseteq {t} \cup Range(q)
        BY <1>4, <1>5, <2>1
    <2>3. 1 \in 1..(n + 1) /\ \A i \in 1..n : i + 1 \in 1..(n + 1)
        BY <1>4
    <2>4. {t} \cup Range(q) \subseteq Range(p)
        BY <1>4, <1>5, <2>3
    <2> QED
        BY <2>2, <2>4
<1>7. Sorted(q)
    <2> SUFFICES ASSUME NEW i \in 1..n, NEW j \in 1..n, i < j, q[j].want \notin Outer
                 PROVE  q[i].want \in Inner
        BY <1>3 DEF Sorted
    <2>1. i + 1 \in 1..Len(p) /\ j + 1 \in 1..Len(p) /\ i + 1 < j + 1
        BY <1>4
    <2>2. p[j + 1].want \notin Outer => p[i + 1].want \in Inner
        BY <2>1 DEF Sorted
    <2> QED
        BY <1>4, <2>2
<1>8. ASSUME t.want \notin Inner, NEW c \in Range(q) PROVE c.want \in Outer
    <2>1. PICK i \in 1..n : c = q[i]
        BY <1>5
    <2>2. 1 \in 1..Len(p) /\ i + 1 \in 1..Len(p) /\ 1 < i + 1
        BY <1>4
    <2>3. p[i + 1].want \notin Outer => p[1].want \in Inner
        BY <2>2 DEF Sorted
    <2> QED
        BY <1>4, <1>8, <2>1, <2>3
<1> QED
    BY <1>3, <1>5, <1>6, <1>7, <1>8

\* What is left of a plan when its first n calls are dropped.
LEMMA ListingRest ==
    ASSUME NEW p, Listing(p), p # <<>>, Sorted(p), NEW n \in 1..(Len(p) - 1)
    PROVE  LET q == SubSeq(p, n + 1, Len(p))
           IN  /\ Listing(q) /\ Sorted(q) /\ q # <<>> /\ Range(q) \subseteq Range(p)
               /\ \A c \in Range(p) : c \in {Head(p)} \cup {p[m] : m \in 2..n} \cup Range(q)
<1>1. PICK X : X = Range(p)
    OBVIOUS
<1>2. p \in Seq(X) /\ Len(p) \in Nat
    BY <1>1 DEF Listing
<1>3. PICK q, l : q = SubSeq(p, n + 1, Len(p)) /\ l = Len(p) - n
    OBVIOUS
<1>4. l \in Nat \ {0} /\ Len(p) = n + l /\ n \in Nat \ {0}
    BY <1>2, <1>3
<1>5. q \in Seq(X) /\ Len(q) = l /\ \A i \in 1..l : q[i] = p[n + i]
    BY <1>2, <1>3, <1>4
<1>6. Range(q) = {q[i] : i \in 1..l} /\ Range(p) = {p[i] : i \in 1..Len(p)} /\ Listing(q) /\ q # <<>>
    BY <1>2, <1>4, <1>5, RangeFacts
<1>7. \A i \in 1..l : n + i \in 1..Len(p)
    BY <1>4
<1>8. Range(q) \subseteq Range(p)
    BY <1>5, <1>6, <1>7
<1>9. Sorted(q)
    <2> SUFFICES ASSUME NEW i \in 1..l, NEW j \in 1..l, i < j, q[j].want \notin Outer
                 PROVE  q[i].want \in Inner
        BY <1>5 DEF Sorted
    <2>1. n + i \in 1..Len(p) /\ n + j \in 1..Len(p) /\ n + i < n + j
        BY <1>4
    <2>2. p[n + j].want \notin Outer => p[n + i].want \in Inner
        BY <2>1 DEF Sorted
    <2> QED
        BY <1>5, <2>2
<1>10. ASSUME NEW c \in Range(p) PROVE c \in {Head(p)} \cup {p[m] : m \in 2..n} \cup Range(q)
    <2>1. PICK i \in 1..Len(p) : c = p[i]
        BY <1>6
    <2>2. CASE i = 1
        BY <1>2, <2>1, <2>2
    <2>3. CASE i \in 2..n
        BY <2>1, <2>3
    <2>4. CASE i > n
        <3>1. i - n \in 1..l /\ n + (i - n) = i
            BY <1>4, <2>4
        <3> QED
            BY <1>5, <1>6, <2>1, <3>1
    <2> QED
        BY <1>4, <2>2, <2>3, <2>4
<1> QED
    BY <1>3, <1>6, <1>8, <1>9, <1>10

\* The calls that f gives for the elements of a set.
LEMMA ListingCalls ==
    ASSUME NEW S, IsFiniteSet(S), NEW f, \A x \in S : Listing(f[x])
    PROVE  Listing(Calls(S, f)) /\ Range(Calls(S, f)) = UNION {Range(f[x]) : x \in S}
<1>1. PICK X : X = UNION {Range(f[x]) : x \in S}
    OBVIOUS
<1>2. PICK n, g : /\ n = Cardinality(S) /\ g = SetToSeq(S) /\ n \in Nat /\ g \in [1..n -> S]
                  /\ \A x \in S : \E i \in 1..n : g[i] = x
    BY SetToSeqFacts
<1>3. PICK ss : ss = [i \in 1..n |-> f[g[i]]]
    OBVIOUS
<1>4. Calls(S, f) = FlattenSeq(ss)
    BY <1>2, <1>3 DEF Calls
<1>5. \A x \in S : f[x] \in Seq(X)
    <2> SUFFICES ASSUME NEW x \in S PROVE f[x] \in Seq(X)
        OBVIOUS
    <2>1. PICK Y : Y = Range(f[x])
        OBVIOUS
    <2>2. f[x] \in Seq(Y) /\ Y \subseteq X
        BY <1>1, <2>1 DEF Listing
    <2> QED
        BY <2>2
<1>6. ss \in Seq(Seq(X)) /\ Len(ss) = n
    <2>1. PICK Z : Z = Seq(X)
        OBVIOUS
    <2>2. \A i \in 1..n : ss[i] \in Z
        BY <1>2, <1>3, <1>5, <2>1
    <2>3. ss \in Seq(Z) /\ Len(ss) = n
        BY <1>2, <1>3, <2>2
    <2> QED
        BY <2>1, <2>3
<1>7. FlattenSeq(ss) \in Seq(X) /\ Range(FlattenSeq(ss)) = UNION {Range(ss[i]) : i \in 1..n}
    BY <1>6, FlattenType, FlattenRange
<1>8. UNION {Range(ss[i]) : i \in 1..n} = X
    BY <1>1, <1>2, <1>3
<1> QED
    BY <1>1, <1>4, <1>7, <1>8, RangeFacts

\* Short plans.
LEMMA ShortListings ==
    /\ Listing(<<>>) /\ Range(<<>>) = {}
    /\ \A c : Listing(<<c>>) /\ Range(<<c>>) = {c}
    /\ \A c, d : Listing(<<c, d>>) /\ Range(<<c, d>>) = {c, d}
    /\ \A c, d, e : Listing(<<c, d, e>>) /\ Range(<<c, d, e>>) = {c, d, e}
<1>1. ASSUME NEW p, NEW X, p \in Seq(X), \A x \in X : \E i \in 1..Len(p) : p[i] = x
      PROVE  Listing(p) /\ Range(p) = X
    <2>1. Listing(p) /\ Range(p) = {p[i] : i \in 1..Len(p)}
        BY <1>1, RangeFacts
    <2>2. \A i \in 1..Len(p) : p[i] \in X
        BY <1>1, ElementOfSeq
    <2> QED
        BY <1>1, <2>1, <2>2
<1>2. Listing(<<>>) /\ Range(<<>>) = {}
    <2>1. PICK X, p : X = {} /\ p = <<>>
        OBVIOUS
    <2>2. p \in Seq(X) /\ \A x \in X : \E i \in 1..Len(p) : p[i] = x
        BY <2>1
    <2> QED
        BY <1>1, <2>1, <2>2
<1>3. ASSUME NEW c PROVE Listing(<<c>>) /\ Range(<<c>>) = {c}
    <2>1. PICK p, X : p = <<c>> /\ X = {c}
        OBVIOUS
    <2>2. p \in Seq(X) /\ Len(p) = 1 /\ p[1] = c
        BY <2>1
    <2>3. 1 \in 1..Len(p)
        BY <2>2
    <2>4. \A x \in X : \E i \in 1..Len(p) : p[i] = x
        BY <2>1, <2>2, <2>3
    <2>5. Listing(p) /\ Range(p) = X
        BY ONLY <1>1, <2>2, <2>4
    <2> QED
        BY <2>1, <2>5
<1>4. ASSUME NEW c, NEW d PROVE Listing(<<c, d>>) /\ Range(<<c, d>>) = {c, d}
    <2>1. PICK p, X : p = <<c, d>> /\ X = {c, d}
        OBVIOUS
    <2>2. p \in Seq(X) /\ Len(p) = 2 /\ p[1] = c /\ p[2] = d
        BY <2>1
    <2>3. 1 \in 1..Len(p) /\ 2 \in 1..Len(p)
        BY <2>2
    <2>4. \A x \in X : \E i \in 1..Len(p) : p[i] = x
        BY <2>1, <2>2, <2>3
    <2>5. Listing(p) /\ Range(p) = X
        BY ONLY <1>1, <2>2, <2>4
    <2> QED
        BY <2>1, <2>5
<1>5. ASSUME NEW c, NEW d, NEW e PROVE Listing(<<c, d, e>>) /\ Range(<<c, d, e>>) = {c, d, e}
    <2>1. PICK p, X : p = <<c, d, e>> /\ X = {c, d, e}
        OBVIOUS
    <2>2. p \in Seq(X) /\ Len(p) = 3 /\ p[1] = c /\ p[2] = d /\ p[3] = e
        BY <2>1
    <2>3. 1 \in 1..Len(p) /\ 2 \in 1..Len(p) /\ 3 \in 1..Len(p)
        BY <2>2
    <2>4. \A x \in X : \E i \in 1..Len(p) : p[i] = x
        BY <2>1, <2>2, <2>3
    <2>5. Listing(p) /\ Range(p) = X
        BY ONLY <1>1, <2>2, <2>4
    <2> QED
        BY <2>1, <2>5
<1> QED
    BY <1>2, <1>3, <1>4, <1>5

\* Calls that are about something else are in order, also behind one that is not.
LEMMA OuterSorted ==
    ASSUME NEW p, Listing(p), \A c \in Range(p) : c.want \in Outer
    PROVE  Sorted(p) /\ \A c : Sorted(<<c>> \o p)
<1>1. PICK X : X = Range(p)
    OBVIOUS
<1>2. p \in Seq(X)
    BY <1>1 DEF Listing
<1>3. \A i \in 1..Len(p) : p[i].want \in Outer
    BY <1>2, RangeFacts
<1>4. Sorted(p)
    BY <1>3 DEF Sorted
<1>5. ASSUME NEW c PROVE Sorted(<<c>> \o p)
    <2>1. PICK Y, u : Y = X \cup {c} /\ u = <<c>> \o p
        OBVIOUS
    <2>2. <<c>> \in Seq(Y) /\ p \in Seq(Y) /\ Len(<<c>>) = 1 /\ Len(p) \in Nat
        BY <1>2, <2>1
    <2>3. /\ Len(u) = 1 + Len(p)
          /\ \A i \in 1..(1 + Len(p)) : u[i] = IF i <= 1 THEN <<c>>[i] ELSE p[i - 1]
        BY <2>1, <2>2, ConcatProperties
    <2>4. \A j \in 1..Len(u) : 1 < j => u[j].want \in Outer
        <3> SUFFICES ASSUME NEW j \in 1..Len(u), 1 < j PROVE u[j].want \in Outer
            OBVIOUS
        <3>1. j - 1 \in 1..Len(p) /\ u[j] = p[j - 1]
            BY <2>2, <2>3
        <3> QED
            BY <1>3, <3>1
    <2> QED
        BY <2>1, <2>2, <2>3, <2>4 DEF Sorted
<1> QED
    BY <1>4, <1>5

-----------------------------------------------------------------------------
(***************************************************************************)
(* The page: what a statement sees.                                        *)
(***************************************************************************)

\* The page bound to a project that is still of that slug, or to none, sees what there is.
LEMMA HomeShows ==
    ASSUME VaultInv, ViewHistory, answer # "none", NEW id, NEW s,
           (id = 0 /\ s = Shared) \/ (id # 0 /\ s # Shared /\ Home(id, s))
    PROVE  Shows(id, s)
<1>1. /\ View.environments \subseteq seen.environments /\ View.definitions \subseteq seen.definitions
      /\ always.environments \subseteq View.environments /\ always.definitions \subseteq View.definitions
    BY PictureFields, ViewFacts DEF ViewHistory
<1>2. CASE InView(id, s)
    BY <1>1, <1>2 DEF InView, Shows
<1>3. CASE id = 0 /\ s = Shared
    BY <1>2, <1>3, ViewFacts
<1>4. CASE \E pr \in projects : pr.id = id /\ pr.slug = s
    BY <1>2, <1>4, ViewFacts
<1>5. CASE /\ Gone(id)
           /\ \A e \in always.environments : e.slug # s
           /\ \A d \in always.definitions : d.slug # s
    BY <1>5 DEF Shows, VaultInv, EnvironmentInv, DefinitionInv
<1> QED
    BY <1>3, <1>4, <1>5 DEF Home

\* The parts of the definitions in it that the view shows.
LEMMA ViewItemFields ==
    \A s, d : /\ ViewItem(s, d).slug = s /\ ViewItem(s, d).env = d.env /\ ViewItem(s, d).key = d.key
              /\ ViewItem(s, d).value = d.value /\ ViewItem(s, d).sensitive = d.sensitive
              /\ ViewItem(s, d).kind = d.kind /\ ViewItem(s, d).hint = d.hint
BY DEF ViewItem

\* The call that is made, and what is behind it.
LEMMA FrontFacts ==
    ASSUME ViewInv, answer = "reading", NEW t, t = Head(todo)
    PROVE  /\ Listing(Tail(todo)) /\ Sorted(Tail(todo)) /\ Range(todo) = {t} \cup Range(Tail(todo))
           /\ CallOk(t, Range(todo)) /\ todo # <<>>
           /\ \A c \in Range(Tail(todo)) : CallOk(c, Range(todo))
           /\ t.want \in Inner \/ \A c \in Range(Tail(todo)) : c.want \in Outer
<1>1. todo # <<>> /\ Listing(todo) /\ Sorted(todo) /\ \A c \in Range(todo) : CallOk(c, Range(todo))
    BY DEF ViewInv, TodoInv, Listing
<1>2. /\ Listing(Tail(todo)) /\ Sorted(Tail(todo)) /\ Range(todo) = {t} \cup Range(Tail(todo))
      /\ t.want \in Inner \/ \A c \in Range(Tail(todo)) : c.want \in Outer
    BY <1>1, ListingHead
<1> QED
    BY <1>1, <1>2

\* What it sees.
LEMMA ReadyShows ==
    ASSUME ViewInv, answer = "reading", NEW t, t = Head(todo), Ready(t)
    PROVE  /\ Shows(bound, t.slug)
           /\ t.slug = Shared => bound = 0
           /\ t.slug # Shared => bound # 0 /\ bound \in 1..(nextId - 1) /\ Home(bound, t.slug)
<1>1. (bound = 0 /\ t.slug = Shared) \/ (bound # 0 /\ t.slug # Shared /\ Home(bound, t.slug))
    BY DEF ViewInv, BoundInv, Ready
<1>2. nextId \in Nat \ {0} /\ bound \in 0..(nextId - 1)
    BY DEF ViewInv, VaultInv, ProjectInv, BoundInv
<1>3. bound # 0 => bound \in 1..(nextId - 1)
    BY <1>2
<1>4. Shows(bound, t.slug)
    <2>1. PICK id, s : id = bound /\ s = t.slug
        OBVIOUS
    <2>2. Shows(id, s)
        BY <1>1, <2>1, HomeShows DEF ViewInv
    <2> QED
        BY <2>1, <2>2
<1> QED
    BY <1>1, <1>3, <1>4

\* What is said of calls and of what has been read does not change with the program.
LEMMA SaidStays ==
    ASSUME UNCHANGED <<vault, history>>
    PROVE  /\ \A id, s : Home(id, s)' <=> Home(id, s)
           /\ \A c, P : CallOk(c, P)' <=> CallOk(c, P)
           /\ \A i, P : InfoOk(i, P)' <=> InfoOk(i, P)
           /\ \A i : ItemOk(i)' <=> ItemOk(i)
           /\ \A pg, P, I : Presents(pg, P, I)' <=> Presents(pg, P, I)
<1>1. UNCHANGED <<projects, nextId, seen, always>>
    BY DEF vault, history
<1>2. \A id, s : Home(id, s)' <=> Home(id, s)
    BY <1>1 DEF Home, Gone
<1>3. \A c, o : AsksFor(c, o)' <=> AsksFor(c, o)
    BY <1>1, <1>2 DEF AsksFor
<1>4. \A c, P : CallOk(c, P)' <=> CallOk(c, P)
    BY <1>3 DEF CallOk
<1>5. \A i, P : InfoOk(i, P)' <=> InfoOk(i, P)
    BY <1>1 DEF InfoOk
<1>6. \A i : ItemOk(i)' <=> ItemOk(i)
    BY <1>1 DEF ItemOk
<1>7. \A pg, P, I : Presents(pg, P, I)' <=> Presents(pg, P, I)
    BY <1>1 DEF Presents
<1> QED
    BY <1>2, <1>4, <1>5, <1>6, <1>7

\* The page can go on with the calls of Q, the metadata I and what it shows, pg.
Continued(Q, I, pg) ==
    /\ \A c \in Q : CallOk(c, Q)
    /\ IsFiniteSet(I) /\ \A i \in I : InfoOk(i, Q)
    /\ DOMAIN pg = {"projects", "environments", "items"} /\ pg.projects = page.projects
    /\ \A i \in pg.items : ItemOk(i)
    /\ pg.environments \subseteq seen.environments
    /\ Presents(pg, Q, I)

\* A statement that leaves all of this in order keeps the invariant.
LEMMA NextCallKeeps ==
    ASSUME ViewInv, answer = "reading", UNCHANGED <<vault, history>>,
           NEW calls, NextCall(calls), Listing(calls), Sorted(calls),
           Continued(Range(calls), infos', page')
    PROVE  ViewInv'
<1>1. todo' = calls /\ bound' = 0 /\ answer' \in {"page", "reading"} /\ (answer' = "reading" <=> calls # <<>>)
    BY DEF NextCall
<1>2. PICK Q, I, pg : Q = Range(calls) /\ I = infos' /\ pg = page'
    OBVIOUS
<1>3. Continued(Q, I, pg)
    BY <1>2
<1>4. VaultInv' /\ ViewHistory'
    <2>1. View' = View
        BY DEF vault, View, SlugOf
    <2> QED
        BY <1>1, <2>1, StutterKeeps DEF ViewInv, ViewHistory, history
<1>5. TodoInv'
    BY <1>1, <1>2, <1>3, SaidStays DEF TodoInv, Continued, Listing
<1>6. BoundInv'
    <2>1. nextId' \in Nat \ {0}
        BY <1>4 DEF VaultInv, ProjectInv
    <2>2. 0 \in 0..(nextId' - 1)
        BY <2>1, Identities
    <2> QED
        BY <1>1, <2>2 DEF BoundInv
<1>7. InfosInv'
    BY <1>1, <1>2, <1>3, SaidStays DEF InfosInv, Continued
<1>8. PageInv'
    BY <1>1, <1>2, <1>3, SaidStays DEF PageInv, ViewInv, Continued, history
<1> QED
    BY <1>4, <1>5, <1>6, <1>7, <1>8 DEF ViewInv

-----------------------------------------------------------------------------
(***************************************************************************)
(* The page: the statements that bring something.                          *)
(***************************************************************************)
\* The parts of a call.
LEMMA DoFields ==
    \A w, s, n : Do(w, s, n).want = w /\ Do(w, s, n).slug = s /\ Do(w, s, n).env = n
BY DEF Do

\* No scope is being read in calls about something else, which are as they were then.
LEMMA OuterCalls ==
    ASSUME NEW R, \A c \in R : c.want \in Outer
    PROVE  /\ Opened(R) = {} /\ \A c \in R : c.want \notin Inner
           /\ \A c \in R : \A P, Q : CallOk(c, P) => CallOk(c, Q)
<1>1. \A c \in R : c.want \notin Inner /\ c.want # "values"
    BY DEF Outer, Inner
<1>2. \A c \in R : \A P, Q : CallOk(c, P) => CallOk(c, Q)
    BY <1>1 DEF CallOk, Inner
<1> QED
    BY <1>1, <1>2 DEF Opened

\* What the call t was to bring is there when it has been made.
LEMMA PresentsOn ==
    ASSUME NEW t, NEW R, Presents(page, {t} \cup R, infos),
           NEW Q, NEW I, NEW pg,
           R \subseteq Q, page.environments \subseteq pg.environments, page.items \subseteq pg.items,
           \A e \in always.environments : t = Do("environments", e.slug, AllEnvs) => e \in pg.environments,
           \A d \in always.definitions : InHand(d, {t} \cup R, infos) => OnPage(d, pg) \/ InHand(d, Q, I),
           \A d \in always.definitions : t = Do("secrets", d.slug, d.env) => InHand(d, Q, I),
           \A d \in always.definitions :
               d.env # AllEnvs /\ t = Do(IF d.slug = Shared THEN "names" ELSE "environments", d.slug, AllEnvs)
               => Ahead(d, Q)
    PROVE  Presents(pg, Q, I)
<1>1. ASSUME NEW e \in always.environments
      PROVE  e \in pg.environments \/ Do("environments", e.slug, AllEnvs) \in Q
    BY <1>1 DEF Presents
<1>2. ASSUME NEW d \in always.definitions
      PROVE  OnPage(d, pg) \/ InHand(d, Q, I) \/ Ahead(d, Q)
    <2>1. OnPage(d, page) \/ InHand(d, {t} \cup R, infos) \/ Ahead(d, {t} \cup R)
        BY <1>2 DEF Presents
    <2>2. CASE OnPage(d, page)
        BY <2>2 DEF OnPage
    <2>3. CASE InHand(d, {t} \cup R, infos)
        BY <2>3
    <2>4. CASE Ahead(d, {t} \cup R)
        BY <2>4 DEF Ahead
    <2> QED
        BY <2>1, <2>2, <2>3, <2>4
<1> QED
    BY <1>1, <1>2 DEF Presents

\* What overrides what depends on the key and the scope only.
LEMMA AtFields ==
    \A x, y : x.key = y.key /\ x.slug = y.slug /\ x.env = y.env =>
        Own(x) = Own(y) /\ \A v, s : At(v, x, s) = At(v, y, s)
BY DEF At, Own

\* An item that shows the metadata i of the scope t.
LEMMA ScopeItemOk ==
    ASSUME NEW P, NEW t \in Opened(P), \A c \in P : c.want \notin Inner,
           NEW i, InfoOk(i, P), NEW v, v # None => ~i.sensitive
    PROVE  ItemOk(Item("scope", t, i, v, i.overrides))
<1>1. PICK x, y : x = Item("scope", t, i, v, i.overrides) /\ y = Spot(i, t)
    OBVIOUS
<1>2. /\ x.which = "scope" /\ x.slug = t.slug /\ x.env = t.env /\ x.key = i.key /\ x.value = v
      /\ x.sensitive = i.sensitive /\ x.kind = i.kind /\ x.hint = i.hint /\ x.scopes = i.overrides
    BY <1>1 DEF Item
<1>3. y.key = i.key /\ y.slug = t.slug /\ y.env = t.env
    BY <1>1 DEF Spot
<1>4. Own(x) = Own(y) /\ \A w, s : At(w, x, s) = At(w, y, s)
    BY <1>2, <1>3, AtFields
<1>5. /\ \E d \in seen.definitions : d.slug = t.slug /\ d.env = t.env /\ d.key = i.key /\ SameMeta(i, d)
      /\ \A s \in Wide :
            /\ s \in i.overrides => At(seen, y, s) # {}
            /\ Own(y) \in Narrower(s) => \A d \in At(always, y, s) : s \in i.overrides \/ Awaits(P, i, s, d)
    BY <1>1 DEF InfoOk
<1>6. \E d \in At(seen, x, Source(x)) : SameMeta(x, d)
    <2>1. PICK d \in seen.definitions :
              d.slug = t.slug /\ d.env = t.env /\ d.key = i.key /\ SameMeta(i, d)
        BY <1>5
    <2>2. SameMeta(x, d)
        BY <1>2, <2>1 DEF SameMeta
    <2>3. d \in At(seen, x, Own(x))
        BY <1>2, <2>1 DEF At, Own
    <2> QED
        BY <1>2, <2>2, <2>3 DEF Source
<1>7. \A s, d : ~Awaits(P, i, s, d)
    BY DEF Awaits, Inner
<1>8. \A s \in Wide : /\ s \in x.scopes => At(seen, x, s) # {}
                      /\ Own(x) \in Narrower(s) /\ At(always, x, s) # {} => s \in x.scopes
    BY <1>2, <1>4, <1>5, <1>7
<1> QED
    BY <1>1, <1>2, <1>6, <1>8 DEF ItemOk

\* The values of a scope, and with them its items.
LEMMA SelectValuesKeeps ==
    ASSUME ViewInv, SelectValues
    PROVE  ViewInv'
<1> DEFINE Of(i) ==
               LET ofKey == {x \in InScope(bound, Head(todo).env) : x.key = i.key}
               IN  Shown(i.sensitive, {d.value : d \in ofKey})
           Lists(t) == {Item("scope", t, i, Of(i), i.overrides) : i \in infos}
<1>1. PICK t, R, P : t = Head(todo) /\ R = Range(Tail(todo)) /\ P = Range(todo)
    OBVIOUS
<1>2. /\ answer = "reading" /\ t.want = "values" /\ UNCHANGED <<vault, history>>
      /\ infos' = {} /\ NextCall(Tail(todo))
      /\ page' = [page EXCEPT !.items = @ \cup Lists(t)]
    BY <1>1 DEF SelectValues, Runs
<1>3. \A i \in infos : Of(i) # None => ~i.sensitive
    BY DEF Shown
<1> HIDE DEF Of
<1>4. /\ Listing(Tail(todo)) /\ Sorted(Tail(todo)) /\ P = {t} \cup R
      /\ \A c \in R : CallOk(c, P)
      /\ \A c \in R : c.want \in Outer
    <2>1. t.want \notin Inner
        BY <1>2 DEF Inner
    <2> QED
        BY <1>1, <1>2, <2>1, FrontFacts
<1>5. /\ Opened(R) = {} /\ (\A c \in R : CallOk(c, R)) /\ \A c \in R : c.want \notin Inner
    BY <1>4, OuterCalls
<1>6. Opened(P) = {t} /\ t \in Opened(P) /\ \A c \in P : c.want \notin Inner
    BY <1>2, <1>4, <1>5 DEF Opened, Inner
<1>7. DOMAIN page = {"projects", "environments", "items"} /\ (\A i \in page.items : ItemOk(i))
      /\ page.environments \subseteq seen.environments /\ Presents(page, P, infos)
      /\ \A i \in infos : InfoOk(i, P)
    BY <1>1, <1>2 DEF ViewInv, PageInv, InfosInv
<1>8. /\ DOMAIN page' = {"projects", "environments", "items"} /\ page'.projects = page.projects
      /\ page'.environments = page.environments /\ page'.items = page.items \cup Lists(t)
    BY <1>2, <1>7
<1>9. \A i \in infos : ItemOk(Item("scope", t, i, Of(i), i.overrides))
    BY <1>3, <1>6, <1>7, ScopeItemOk
<1>10. \A x \in page'.items : ItemOk(x)
    BY <1>7, <1>8, <1>9
<1>11. PICK pg : pg = page'
    OBVIOUS
<1>12. ASSUME NEW d, InHand(d, {t} \cup R, infos) PROVE OnPage(d, pg)
    <2>1. PICK i \in infos : t.slug = d.slug /\ t.env = d.env /\ i.key = d.key /\ SameMeta(i, d)
        BY <1>4, <1>6, <1>12 DEF InHand
    <2>2. PICK x : x = Item("scope", t, i, Of(i), i.overrides)
        OBVIOUS
    <2>3. /\ x.which = "scope" /\ x.slug = t.slug /\ x.env = t.env /\ x.key = i.key
          /\ x.sensitive = i.sensitive /\ x.kind = i.kind /\ x.hint = i.hint
        BY <2>2 DEF Item
    <2>4. x \in pg.items
        BY <1>8, <1>11, <2>2
    <2>5. SameMeta(x, d)
        BY <2>1, <2>3 DEF SameMeta
    <2> QED
        BY <2>1, <2>3, <2>4, <2>5 DEF OnPage
<1>13. Presents(pg, R, {})
    <2>1. t.want # "environments" /\ t.want # "secrets" /\ t.want # "names"
        BY <1>2
    <2>2. Presents(page, {t} \cup R, infos)
        BY <1>4, <1>7
    <2>3. page.environments \subseteq pg.environments /\ page.items \subseteq pg.items
        BY <1>8, <1>11
    <2>4. \A d : t # Do("environments", d.slug, AllEnvs) /\ t # Do("secrets", d.slug, d.env)
        BY <2>1, DoFields
    <2>5. \A d : t # Do(IF d.slug = Shared THEN "names" ELSE "environments", d.slug, AllEnvs)
        BY <2>1, DoFields
    <2> QED
        BY ONLY <1>12, <2>2, <2>3, <2>4, <2>5, PresentsOn
<1>14. Continued(R, infos', page')
    BY <1>2, <1>5, <1>7, <1>8, <1>10, <1>11, <1>13, FS_EmptySet DEF Continued
<1> QED
    BY <1>1, <1>2, <1>4, <1>14, NextCallKeeps

\* The scopes that a narrower one wins over.
LEMMA NarrowerScopes ==
    /\ Narrower("project_environment") = {}
    /\ Narrower("project") = {"project_environment"}
    /\ Narrower("environment") = {"project_environment", "project"}
    /\ Narrower("global") = {"project_environment", "project", "environment"}
<1>1. PICK p : p = Precedence
    OBVIOUS
<1>2. p[1] = "project_environment" /\ p[2] = "project" /\ p[3] = "environment" /\ p[4] = "global"
    BY <1>1 DEF Precedence
<1>3. \A m \in 1..4 : m = 1 \/ m = 2 \/ m = 3 \/ m = 4
    OBVIOUS
<1>4. ASSUME NEW k \in 1..4 PROVE Narrower(p[k]) = {p[m] : m \in 1..(k - 1)}
    <2>1. ASSUME NEW l \in 1..4, p[l] = p[k] PROVE l = k
        BY <1>2, <1>3, <2>1
    <2>2. ASSUME NEW m \in 1..4 PROVE (\E l \in (m + 1)..4 : p[l] = p[k]) <=> m \in 1..(k - 1)
        <3>1. ASSUME NEW l \in (m + 1)..4, p[l] = p[k] PROVE m \in 1..(k - 1)
            <4>1. l \in 1..4
                OBVIOUS
            <4>2. l = k
                BY <2>1, <3>1, <4>1
            <4> QED
                BY <4>2
        <3>2. m \in 1..(k - 1) => k \in (m + 1)..4
            OBVIOUS
        <3> QED
            BY <3>1, <3>2
    <2>3. {m \in 1..4 : \E l \in (m + 1)..4 : p[l] = p[k]} = 1..(k - 1)
        <3>1. \A m : m \in 1..(k - 1) => m \in 1..4
            OBVIOUS
        <3> QED
            BY <2>2, <3>1
    <2> QED
        BY <1>1, <2>3 DEF Narrower
<1>5. 1..(1 - 1) = {} /\ 1..(2 - 1) = {1} /\ 1..(3 - 1) = {1, 2} /\ 1..(4 - 1) = {1, 2, 3}
    OBVIOUS
<1>6. /\ Narrower(p[1]) = {p[m] : m \in 1..(1 - 1)} /\ Narrower(p[2]) = {p[m] : m \in 1..(2 - 1)}
      /\ Narrower(p[3]) = {p[m] : m \in 1..(3 - 1)} /\ Narrower(p[4]) = {p[m] : m \in 1..(4 - 1)}
    BY <1>4
<1>7. /\ Narrower(p[1]) = {} /\ Narrower(p[2]) = {p[1]} /\ Narrower(p[3]) = {p[1], p[2]}
      /\ Narrower(p[4]) = {p[1], p[2], p[3]}
    BY <1>5, <1>6
<1> QED
    BY <1>2, <1>7

\* A definition that stayed is found in its scope, one that is found has been seen.
LEMMA ScopeShows ==
    ASSUME NEW id, NEW s, Shows(id, s)
    PROVE  /\ \A d \in always.definitions : d.slug = s =>
                 \E e \in InScope(id, d.env) : e.key = d.key /\ SameMeta(e, d)
           /\ \A n : \A e \in InScope(id, n) :
                 \E d \in seen.definitions : d.slug = s /\ d.env = n /\ d.key = e.key /\ SameMeta(e, d)
<1>1. ASSUME NEW d \in always.definitions, d.slug = s
      PROVE  \E e \in InScope(id, d.env) : e.key = d.key /\ SameMeta(e, d)
    <2>1. PICK e \in definitions : e.pid = id /\ d = ViewItem(s, e)
        BY <1>1 DEF Shows
    <2> QED
        BY <2>1, ViewItemFields DEF InScope, SameMeta
<1>2. ASSUME NEW n, NEW e \in InScope(id, n)
      PROVE  \E d \in seen.definitions : d.slug = s /\ d.env = n /\ d.key = e.key /\ SameMeta(e, d)
    <2>1. ViewItem(s, e) \in seen.definitions /\ e.env = n
        BY DEF Shows, InScope
    <2> QED
        BY <2>1, ViewItemFields DEF SameMeta
<1> QED
    BY <1>1, <1>2

\* No definition of the scope has the key of d.
Lacks(id, n, d) == \A e \in InScope(id, n) : e.key # d.key

\* A definition that applies is in one of the scopes, and none before has its key.
LEMMA ResolvedCases ==
    ASSUME NEW id, NEW n, NEW d \in Resolved(id, n)
    PROVE  \/ d \in InScope(id, n)
           \/ d \in InScope(id, AllEnvs) /\ Lacks(id, n, d)
           \/ d \in InScope(0, n) /\ Lacks(id, n, d) /\ Lacks(id, AllEnvs, d)
           \/ d \in InScope(0, AllEnvs) /\ Lacks(id, n, d) /\ Lacks(id, AllEnvs, d) /\ Lacks(0, n, d)
<1>1. PICK ss : ss = ScopesInOrder(id, n)
    OBVIOUS
<1>2. /\ ss[1] = InScope(id, n) /\ ss[2] = InScope(id, AllEnvs) /\ ss[3] = InScope(0, n)
      /\ ss[4] = InScope(0, AllEnvs)
    BY <1>1 DEF ScopesInOrder
<1>3. PICK i \in 1..4 : d \in ss[i] /\ \A j \in 1..(i - 1) : \A e \in ss[j] : e.key # d.key
    BY <1>1 DEF Resolved
<1>4. CASE i = 1
    BY <1>2, <1>3, <1>4
<1>5. CASE i = 2
    <2>1. 1 \in 1..(i - 1)
        BY <1>5
    <2> QED
        BY <1>2, <1>3, <1>5, <2>1 DEF Lacks
<1>6. CASE i = 3
    <2>1. 1 \in 1..(i - 1) /\ 2 \in 1..(i - 1)
        BY <1>6
    <2> QED
        BY <1>2, <1>3, <1>6, <2>1 DEF Lacks
<1>7. CASE i = 4
    <2>1. 1 \in 1..(i - 1) /\ 2 \in 1..(i - 1) /\ 3 \in 1..(i - 1)
        BY <1>7
    <2> QED
        BY <1>2, <1>3, <1>7, <2>1 DEF Lacks
<1> QED
    BY <1>4, <1>5, <1>6, <1>7

\* An item that shows the definition d that applies in a project and environment.
LEMMA EffectiveItemOk ==
    ASSUME NEW id, id # 0, NEW t, t.slug # Shared, t.env # AllEnvs,
           Shows(id, t.slug), Shows(0, Shared),
           NEW d \in Resolved(id, t.env), NEW v, v # None => ~d.sensitive
    PROVE  ItemOk(Item("effective", t, d, v, {ScopeOf(d)}))
<1>1. PICK x : x = Item("effective", t, d, v, {ScopeOf(d)})
    OBVIOUS
<1>2. /\ x.which = "effective" /\ x.slug = t.slug /\ x.env = t.env /\ x.key = d.key /\ x.value = v
      /\ x.sensitive = d.sensitive /\ x.kind = d.kind /\ x.hint = d.hint /\ x.scopes = {ScopeOf(d)}
    BY <1>1 DEF Item
<1>3. Source(x) = ScopeOf(d)
    BY <1>2 DEF Source
<1>4. ASSUME Lacks(id, t.env, d) PROVE At(always, x, "project_environment") = {}
    <2> SUFFICES ASSUME NEW y \in At(always, x, "project_environment") PROVE FALSE
        OBVIOUS
    <2>1. y \in always.definitions /\ y.key = d.key /\ y.slug = t.slug /\ y.env = t.env
        BY <1>2 DEF At
    <2>2. \E e \in InScope(id, t.env) : e.key = d.key
        BY <2>1, ScopeShows
    <2> QED
        BY <1>4, <2>2 DEF Lacks
<1>5. ASSUME Lacks(id, AllEnvs, d) PROVE At(always, x, "project") = {}
    <2> SUFFICES ASSUME NEW y \in At(always, x, "project") PROVE FALSE
        OBVIOUS
    <2>1. y \in always.definitions /\ y.key = d.key /\ y.slug = t.slug /\ y.env = AllEnvs
        BY <1>2 DEF At
    <2>2. \E e \in InScope(id, AllEnvs) : e.key = d.key
        BY <2>1, ScopeShows
    <2> QED
        BY <1>5, <2>2 DEF Lacks
<1>6. ASSUME Lacks(0, t.env, d) PROVE At(always, x, "environment") = {}
    <2> SUFFICES ASSUME NEW y \in At(always, x, "environment") PROVE FALSE
        OBVIOUS
    <2>1. y \in always.definitions /\ y.key = d.key /\ y.slug = Shared /\ y.env = t.env
        BY <1>2 DEF At
    <2>2. \E e \in InScope(0, t.env) : e.key = d.key
        BY <2>1, ScopeShows
    <2> QED
        BY <1>6, <2>2 DEF Lacks
<1>7. /\ \A s \in Narrower(Source(x)) : At(always, x, s) = {}
      /\ \E y \in At(seen, x, Source(x)) : SameMeta(x, y)
    <2>1. ASSUME NEW y \in seen.definitions, SameMeta(d, y) PROVE SameMeta(x, y)
        BY <1>2, <2>1 DEF SameMeta
    <2>2. CASE d \in InScope(id, t.env)
        <3>1. Source(x) = "project_environment"
            BY <1>3, <2>2 DEF InScope, ScopeOf
        <3>2. PICK y \in seen.definitions :
                  y.slug = t.slug /\ y.env = t.env /\ y.key = d.key /\ SameMeta(d, y)
            BY <2>2, ScopeShows
        <3>3. y \in At(seen, x, "project_environment")
            BY <1>2, <3>2 DEF At
        <3> QED
            BY <2>1, <3>1, <3>2, <3>3, NarrowerScopes
    <2>3. CASE d \in InScope(id, AllEnvs) /\ Lacks(id, t.env, d)
        <3>1. Source(x) = "project"
            BY <1>3, <2>3 DEF InScope, ScopeOf
        <3>2. PICK y \in seen.definitions :
                  y.slug = t.slug /\ y.env = AllEnvs /\ y.key = d.key /\ SameMeta(d, y)
            BY <2>3, ScopeShows
        <3>3. y \in At(seen, x, "project")
            BY <1>2, <3>2 DEF At
        <3> QED
            BY <1>4, <2>1, <2>3, <3>1, <3>2, <3>3, NarrowerScopes
    <2>4. CASE d \in InScope(0, t.env) /\ Lacks(id, t.env, d) /\ Lacks(id, AllEnvs, d)
        <3>1. Source(x) = "environment"
            BY <1>3, <2>4 DEF InScope, ScopeOf
        <3>2. PICK y \in seen.definitions :
                  y.slug = Shared /\ y.env = t.env /\ y.key = d.key /\ SameMeta(d, y)
            BY <2>4, ScopeShows
        <3>3. y \in At(seen, x, "environment")
            BY <1>2, <3>2 DEF At
        <3> QED
            BY <1>4, <1>5, <2>1, <2>4, <3>1, <3>2, <3>3, NarrowerScopes
    <2>5. CASE d \in InScope(0, AllEnvs) /\ Lacks(id, t.env, d) /\ Lacks(id, AllEnvs, d) /\ Lacks(0, t.env, d)
        <3>1. Source(x) = "global"
            BY <1>3, <2>5 DEF InScope, ScopeOf
        <3>2. PICK y \in seen.definitions :
                  y.slug = Shared /\ y.env = AllEnvs /\ y.key = d.key /\ SameMeta(d, y)
            BY <2>5, ScopeShows
        <3>3. y \in At(seen, x, "global")
            BY <1>2, <3>2 DEF At
        <3> QED
            BY <1>4, <1>5, <1>6, <2>1, <2>5, <3>1, <3>2, <3>3, NarrowerScopes
    <2> QED
        BY <2>2, <2>3, <2>4, <2>5, ResolvedCases
<1> QED
    BY <1>1, <1>2, <1>7 DEF ItemOk

\* The page goes on with what is behind the call t, about something else, and what it brings.
LEMMA OuterFront ==
    ASSUME ViewInv, answer = "reading", NEW t, t = Head(todo), t.want \in Outer
    PROVE  /\ Listing(Tail(todo)) /\ Range(todo) = {t} \cup Range(Tail(todo)) /\ CallOk(t, Range(todo))
           /\ \A c \in Range(Tail(todo)) : c.want \in Outer /\ \A P : CallOk(c, P)
           /\ Opened(Range(todo)) = {} /\ Opened(Range(Tail(todo))) = {}
           /\ Sorted(Tail(todo))
<1>1. PICK P, R : P = Range(todo) /\ R = Range(Tail(todo))
    OBVIOUS
<1>2. /\ Listing(Tail(todo)) /\ Sorted(Tail(todo)) /\ P = {t} \cup R /\ CallOk(t, P)
      /\ (\A c \in R : CallOk(c, P)) /\ \A c \in R : c.want \in Outer
    BY <1>1, FrontFacts DEF Inner, Outer
<1>3. \A c \in P : c.want \in Outer
    BY <1>2
<1>4. Opened(P) = {} /\ Opened(R) = {} /\ \A c \in R : \A Q : CallOk(c, Q)
    BY <1>2, <1>3, OuterCalls
<1> QED
    BY <1>1, <1>2, <1>4

\* The definitions that win in an environment.
LEMMA SelectEffectiveKeeps ==
    ASSUME ViewInv, SelectEffective
    PROVE  ViewInv'
<1> DEFINE Of(d) == Shown(d.sensitive, {d.value})
           Lists(t) == {Item("effective", t, d, Of(d), {ScopeOf(d)}) : d \in Resolved(bound, t.env)}
<1>1. PICK t, R, P : t = Head(todo) /\ R = Range(Tail(todo)) /\ P = Range(todo)
    OBVIOUS
<1>2. /\ answer = "reading" /\ t.want = "effective" /\ UNCHANGED <<vault, history>>
      /\ infos' = infos /\ NextCall(Tail(todo)) /\ Ready(t)
      /\ page' = [page EXCEPT !.items = @ \cup Lists(t)]
    BY <1>1 DEF SelectEffective, Runs
<1>3. \A d : Of(d) # None => ~d.sensitive
    BY DEF Shown
<1> HIDE DEF Of
<1>4. /\ Listing(Tail(todo)) /\ P = {t} \cup R /\ CallOk(t, P) /\ Sorted(Tail(todo))
      /\ \A c \in R : c.want \in Outer /\ \A Q : CallOk(c, Q)
      /\ Opened(P) = {} /\ Opened(R) = {}
    BY <1>1, <1>2, OuterFront DEF Outer
<1>5. t.slug # Shared /\ t.env # AllEnvs
    BY <1>2, <1>4 DEF CallOk
<1>6. bound # 0 /\ Shows(bound, t.slug)
    BY <1>1, <1>2, <1>5, ReadyShows
<1>7. Shows(0, Shared)
    BY <1>2, HomeShows DEF ViewInv
<1>8. DOMAIN page = {"projects", "environments", "items"} /\ (\A i \in page.items : ItemOk(i))
      /\ page.environments \subseteq seen.environments /\ Presents(page, P, infos)
      /\ IsFiniteSet(infos)
    BY <1>1, <1>2 DEF ViewInv, PageInv, InfosInv
<1>9. /\ DOMAIN page' = {"projects", "environments", "items"} /\ page'.projects = page.projects
      /\ page'.environments = page.environments /\ page'.items = page.items \cup Lists(t)
    BY <1>2, <1>8
<1>10. \A d \in Resolved(bound, t.env) : ItemOk(Item("effective", t, d, Of(d), {ScopeOf(d)}))
    <2>1. PICK id : id = bound
        OBVIOUS
    <2>2. id # 0 /\ Shows(id, t.slug)
        BY <1>6, <2>1
    <2>3. \A d \in Resolved(id, t.env) : ItemOk(Item("effective", t, d, Of(d), {ScopeOf(d)}))
        BY <1>3, <1>5, <1>7, <2>2, EffectiveItemOk
    <2> QED
        BY <2>1, <2>3
<1>11. \A x \in page'.items : ItemOk(x)
    BY <1>8, <1>9, <1>10
<1>12. PICK pg : pg = page'
    OBVIOUS
<1>13. Presents(pg, R, infos)
    <2>1. Presents(page, {t} \cup R, infos)
        BY <1>4, <1>8
    <2>2. page.environments \subseteq pg.environments /\ page.items \subseteq pg.items
        BY <1>9, <1>12
    <2>3. \A d : ~InHand(d, {t} \cup R, infos)
        BY <1>4 DEF InHand
    <2>4. \A d : t # Do("environments", d.slug, AllEnvs) /\ t # Do("secrets", d.slug, d.env)
        BY <1>2, DoFields
    <2>5. \A d : t # Do(IF d.slug = Shared THEN "names" ELSE "environments", d.slug, AllEnvs)
        BY <1>2, DoFields
    <2> QED
        BY ONLY <2>1, <2>2, <2>3, <2>4, <2>5, PresentsOn
<1>14. \A i \in infos : InfoOk(i, R)
    BY <1>4 DEF ViewInv, InfosInv, InfoOk
<1>15. Continued(R, infos', page')
    BY <1>2, <1>4, <1>8, <1>9, <1>11, <1>12, <1>13, <1>14 DEF Continued
<1> QED
    BY <1>1, <1>2, <1>4, <1>15, NextCallKeeps

\* The page goes on with the calls more, about something else, before what is behind t.
LEMMA OuterJoined ==
    ASSUME NEW more, Listing(more), NEW rest, Listing(rest),
           \A c \in Range(more) : c.want \in Outer, \A c \in Range(rest) : c.want \in Outer
    PROVE  /\ Listing(more \o rest) /\ Sorted(more \o rest)
           /\ Range(more \o rest) = Range(more) \cup Range(rest)
           /\ Opened(Range(more \o rest)) = {}
<1>1. Listing(more \o rest) /\ Range(more \o rest) = Range(more) \cup Range(rest)
    BY ListingConcat
<1>2. \A c \in Range(more \o rest) : c.want \in Outer
    BY <1>1
<1> QED
    BY <1>1, <1>2, OuterSorted, OuterCalls

\* The environments of a project, which lead to what is asked of each.
LEMMA SelectEnvironmentsKeeps ==
    ASSUME ViewInv, SelectEnvironments
    PROVE  ViewInv'
<1>1. PICK t, R, P, names, more :
          /\ t = Head(todo) /\ R = Range(Tail(todo)) /\ P = Range(todo) /\ names = EnvironmentsOf(bound)
          /\ more = Calls(names, [n \in names |-> EnvironmentViews(t.slug, n)])
    OBVIOUS
<1> DEFINE Listed == {[slug |-> t.slug, name |-> n] : n \in names}
           Both(n) == {Do("secrets", t.slug, n), Do("effective", t.slug, n)}
<1>2. /\ answer = "reading" /\ t.want = "environments" /\ UNCHANGED <<vault, history>>
      /\ infos' = infos /\ NextCall(more \o Tail(todo)) /\ Ready(t)
      /\ page' = [page EXCEPT !.environments = @ \cup Listed]
    BY <1>1 DEF SelectEnvironments, Runs
<1>3. /\ Listing(Tail(todo)) /\ P = {t} \cup R /\ CallOk(t, P)
      /\ \A c \in R : c.want \in Outer /\ \A Q : CallOk(c, Q)
      /\ Opened(P) = {}
    BY <1>1, <1>2, OuterFront DEF Outer
<1>4. t.slug \in Slugs /\ t.slug # Shared
    BY <1>2, <1>3 DEF CallOk
<1>5. bound # 0 /\ Shows(bound, t.slug)
    BY <1>1, <1>2, <1>4, ReadyShows
<1>6. /\ IsFiniteSet(names) /\ names \subseteq Envs
      /\ \A n \in names : \E e \in environments : e.pid = bound /\ e.name = n
      /\ \A e \in environments : e.pid = bound => e.name \in names
      /\ \A d \in definitions : d.pid = bound /\ d.env # AllEnvs => d.env \in names
    BY <1>1, <1>5, VaultNames DEF ViewInv
<1>7. Listing(more) /\ Range(more) = UNION {Both(n) : n \in names}
    <2>1. PICK f : f = [n \in names |-> EnvironmentViews(t.slug, n)]
        OBVIOUS
    <2>2. \A n \in names : Listing(f[n]) /\ Range(f[n]) = Both(n)
        BY <2>1, ShortListings DEF EnvironmentViews
    <2>3. Listing(Calls(names, f)) /\ Range(Calls(names, f)) = UNION {Range(f[n]) : n \in names}
        BY <1>6, <2>2, ListingCalls
    <2> QED
        BY <1>1, <2>1, <2>2, <2>3
<1>8. \A c \in Range(more) : c.want \in Outer /\ \A Q : CallOk(c, Q)
    <2> SUFFICES ASSUME NEW n \in names, NEW c \in Both(n) PROVE c.want \in Outer /\ \A Q : CallOk(c, Q)
        BY <1>7
    <2>1. c.want \in {"secrets", "effective"} /\ c.slug = t.slug /\ c.env = n /\ c = Do(c.want, c.slug, c.env)
        BY DoFields
    <2>2. n # AllEnvs
        BY <1>6, ReadersAssumption
    <2> QED
        BY <1>4, <2>1, <2>2 DEF CallOk, Outer, Inner
<1>9. PICK Q : Q = Range(more \o Tail(todo))
    OBVIOUS
<1>10. Listing(more \o Tail(todo)) /\ Sorted(more \o Tail(todo)) /\ Q = Range(more) \cup R /\ Opened(Q) = {}
    BY <1>1, <1>3, <1>7, <1>8, <1>9, OuterJoined
<1>11. DOMAIN page = {"projects", "environments", "items"} /\ (\A i \in page.items : ItemOk(i))
       /\ page.environments \subseteq seen.environments /\ Presents(page, P, infos)
       /\ IsFiniteSet(infos)
    BY <1>1, <1>2 DEF ViewInv, PageInv, InfosInv
<1>12. /\ DOMAIN page' = {"projects", "environments", "items"} /\ page'.projects = page.projects
       /\ page'.environments = page.environments \cup Listed /\ page'.items = page.items
    BY <1>2, <1>11
<1>13. Listed \subseteq seen.environments
    <2> SUFFICES ASSUME NEW n \in names PROVE [slug |-> t.slug, name |-> n] \in seen.environments
        OBVIOUS
    <2>1. PICK e \in environments : e.pid = bound /\ e.name = n
        BY <1>6
    <2> QED
        BY <1>5, <2>1 DEF Shows
<1>14. PICK pg : pg = page'
    OBVIOUS
<1>15. Presents(pg, Q, infos)
    <2>1. Presents(page, {t} \cup R, infos) /\ R \subseteq Q
        BY <1>3, <1>10, <1>11
    <2>2. page.environments \subseteq pg.environments /\ page.items \subseteq pg.items
        BY <1>12, <1>14
    <2>3. ASSUME NEW e \in always.environments, t = Do("environments", e.slug, AllEnvs)
          PROVE  e \in pg.environments
        <3>1. e.slug = t.slug
            BY <2>3, DoFields
        <3>2. PICK x \in environments : x.pid = bound /\ e = [slug |-> t.slug, name |-> x.name]
            BY <1>5, <3>1 DEF Shows
        <3>3. e \in Listed
            BY <1>6, <3>2
        <3> QED
            BY <1>12, <1>14, <3>3
    <2>4. \A d : ~InHand(d, {t} \cup R, infos)
        BY <1>3 DEF InHand
    <2>5. \A d : t # Do("secrets", d.slug, d.env)
        BY <1>2, DoFields
    <2>6. ASSUME NEW d \in always.definitions, d.env # AllEnvs,
                 t = Do(IF d.slug = Shared THEN "names" ELSE "environments", d.slug, AllEnvs)
          PROVE  Ahead(d, Q)
        <3>1. d.slug = t.slug
            BY <2>6, DoFields
        <3>2. PICK x \in definitions : x.pid = bound /\ d = ViewItem(t.slug, x)
            BY <1>5, <3>1 DEF Shows
        <3>3. d.env \in names
            BY <1>6, <2>6, <3>2, ViewItemFields
        <3>4. Do("secrets", d.slug, d.env) \in Range(more)
            BY <1>7, <3>1, <3>3
        <3> QED
            BY <1>10, <3>4 DEF Ahead
    <2> QED
        BY ONLY <2>1, <2>2, <2>3, <2>4, <2>5, <2>6, PresentsOn
<1>16. \A i \in infos : InfoOk(i, Q)
    BY <1>10 DEF ViewInv, InfosInv, InfoOk
<1>17. Continued(Q, infos', page')
    <2>1. \A c \in Q : CallOk(c, Q)
        BY <1>3, <1>8, <1>10
    <2>2. pg.environments \subseteq seen.environments
        BY <1>11, <1>12, <1>13, <1>14
    <2> QED
        BY <1>2, <1>11, <1>12, <1>14, <1>15, <1>16, <2>1, <2>2 DEF Continued
<1> QED
    BY <1>2, <1>9, <1>10, <1>17, NextCallKeeps

\* The names that a shared scope can have, which lead to those scopes.
LEMMA SelectNamesKeeps ==
    ASSUME ViewInv, SelectNames
    PROVE  ViewInv'
<1>1. PICK t, R, P, names, more :
          /\ t = Head(todo) /\ R = Range(Tail(todo)) /\ P = Range(todo) /\ names = SharedEnvironments
          /\ more = Calls(names, [n \in names |-> <<Do("secrets", Shared, n)>>])
    OBVIOUS
<1>2. /\ answer = "reading" /\ t.want = "names" /\ UNCHANGED <<vault, history>>
      /\ infos' = infos /\ NextCall(more \o Tail(todo)) /\ page' = page
    BY <1>1 DEF SelectNames, Runs
<1>3. /\ Listing(Tail(todo)) /\ P = {t} \cup R /\ CallOk(t, P)
      /\ \A c \in R : c.want \in Outer /\ \A Q : CallOk(c, Q)
      /\ Opened(P) = {}
    BY <1>1, <1>2, OuterFront DEF Outer
<1>4. Shows(0, Shared)
    BY <1>2, HomeShows DEF ViewInv
<1>5. IsFiniteSet(names) /\ \A d \in definitions : d.pid = 0 /\ d.env # AllEnvs => d.env \in names
    BY <1>1, VaultNames DEF ViewInv
<1>6. Listing(more) /\ Range(more) = {Do("secrets", Shared, n) : n \in names}
    <2>1. PICK f : f = [n \in names |-> <<Do("secrets", Shared, n)>>]
        OBVIOUS
    <2>2. \A n \in names : Listing(f[n]) /\ Range(f[n]) = {Do("secrets", Shared, n)}
        BY <2>1, ShortListings
    <2>3. Listing(Calls(names, f)) /\ Range(Calls(names, f)) = UNION {Range(f[n]) : n \in names}
        BY <1>5, <2>2, ListingCalls
    <2>4. UNION {Range(f[n]) : n \in names} = {Do("secrets", Shared, n) : n \in names}
        BY <2>2
    <2> QED
        BY <1>1, <2>1, <2>3, <2>4
<1>7. \A c \in Range(more) : c.want \in Outer /\ \A Q : CallOk(c, Q)
    <2> SUFFICES ASSUME NEW n \in names, NEW c, c = Do("secrets", Shared, n)
                 PROVE  c.want \in Outer /\ \A Q : CallOk(c, Q)
        BY <1>6
    <2>1. c.want = "secrets" /\ c.slug = Shared /\ c = Do(c.want, c.slug, c.env)
        BY DoFields
    <2> QED
        BY <2>1 DEF CallOk, Outer, Inner
<1>8. PICK Q : Q = Range(more \o Tail(todo))
    OBVIOUS
<1>9. Listing(more \o Tail(todo)) /\ Sorted(more \o Tail(todo)) /\ Q = Range(more) \cup R /\ Opened(Q) = {}
    BY <1>1, <1>3, <1>6, <1>7, <1>8, OuterJoined
<1>10. DOMAIN page = {"projects", "environments", "items"} /\ (\A i \in page.items : ItemOk(i))
       /\ page.environments \subseteq seen.environments /\ Presents(page, P, infos)
       /\ IsFiniteSet(infos)
    BY <1>1, <1>2 DEF ViewInv, PageInv, InfosInv
<1>11. Presents(page, Q, infos)
    <2>1. Presents(page, {t} \cup R, infos) /\ R \subseteq Q
        BY <1>3, <1>9, <1>10
    <2>2. \A d : ~InHand(d, {t} \cup R, infos)
        BY <1>3 DEF InHand
    <2>3. \A d : t # Do("environments", d.slug, AllEnvs) /\ t # Do("secrets", d.slug, d.env)
        BY <1>2, DoFields
    <2>4. ASSUME NEW d \in always.definitions, d.env # AllEnvs,
                 t = Do(IF d.slug = Shared THEN "names" ELSE "environments", d.slug, AllEnvs)
          PROVE  Ahead(d, Q)
        <3>1. d.slug = Shared
            BY <1>2, <2>4, DoFields
        <3>2. PICK x \in definitions : x.pid = 0 /\ d = ViewItem(Shared, x)
            BY <1>4, <3>1 DEF Shows
        <3>3. d.env \in names
            BY <1>5, <2>4, <3>2, ViewItemFields
        <3>4. Do("secrets", d.slug, d.env) \in Range(more)
            BY <1>6, <3>1, <3>3
        <3> QED
            BY <1>9, <3>4 DEF Ahead
    <2> QED
        BY ONLY <2>1, <2>2, <2>3, <2>4, PresentsOn
<1>12. \A i \in infos : InfoOk(i, Q)
    BY <1>9 DEF ViewInv, InfosInv, InfoOk
<1>13. Continued(Q, infos', page')
    <2>1. \A c \in Q : CallOk(c, Q)
        BY <1>3, <1>7, <1>9
    <2> QED
        BY <1>2, <1>10, <1>11, <1>12, <2>1 DEF Continued
<1> QED
    BY <1>2, <1>8, <1>9, <1>13, NextCallKeeps

-----------------------------------------------------------------------------
(***************************************************************************)
(* The page: how it begins, what it looks up, and when it is not answered. *)
(***************************************************************************)

\* What is asked of a project, as a set.
ProjectPlan(s) == {Do("secrets", s, AllEnvs), Do("environments", s, AllEnvs)}

\* The listing that the page begins with.
LEMMA ListProjectsKeeps ==
    ASSUME ViewInv, ListProjects
    PROVE  ViewInv'
<1>1. PICK a, b, Q : /\ a = Calls(projects, [pr \in projects |-> ProjectViews(pr.slug)])
                     /\ b = <<Do("secrets", Shared, AllEnvs), Do("names", Shared, AllEnvs)>>
                     /\ Q = Range(a \o b)
    OBVIOUS
<1>2. /\ answer = "none" /\ NextCall(a \o b) /\ page' = [page EXCEPT !.projects = View.projects]
      /\ seen' = View /\ always' = View /\ UNCHANGED vault /\ infos' = infos
    BY <1>1 DEF ListProjects
<1>3. Listing(a) /\ Range(a) = UNION {ProjectPlan(pr.slug) : pr \in projects}
    <2>1. PICK f : f = [pr \in projects |-> ProjectViews(pr.slug)]
        OBVIOUS
    <2>2. \A pr \in projects : Listing(f[pr]) /\ Range(f[pr]) = ProjectPlan(pr.slug)
        BY <2>1, ShortListings DEF ProjectViews, ProjectPlan
    <2>3. IsFiniteSet(projects)
        BY DEF ViewInv, VaultInv, ProjectInv
    <2>4. Listing(Calls(projects, f)) /\ Range(Calls(projects, f)) = UNION {Range(f[pr]) : pr \in projects}
        BY <2>2, <2>3, ListingCalls
    <2> QED
        BY <1>1, <2>1, <2>2, <2>4
<1>4. Listing(b) /\ Range(b) = {Do("secrets", Shared, AllEnvs), Do("names", Shared, AllEnvs)}
    BY <1>1, ShortListings
<1>5. \A c \in Range(a) \cup Range(b) : c.want \in Outer /\ CallOk(c, Q)'
    <2>1. ASSUME NEW pr \in projects, NEW c \in ProjectPlan(pr.slug) PROVE c.want \in Outer /\ CallOk(c, Q)'
        <3>1. c.want \in {"secrets", "environments"} /\ c.slug = pr.slug /\ c.env = AllEnvs
              /\ c = Do(c.want, c.slug, c.env)
            BY DoFields DEF ProjectPlan
        <3>2. pr.slug \in Slugs /\ pr.slug # Shared
            BY SlugFacts DEF ViewInv
        <3> QED
            BY <3>1, <3>2 DEF CallOk, Outer, Inner
    <2>2. ASSUME NEW c \in Range(b) PROVE c.want \in Outer /\ CallOk(c, Q)'
        <3>1. c.want \in {"secrets", "names"} /\ c.slug = Shared /\ c = Do(c.want, Shared, AllEnvs)
            BY <1>4, DoFields
        <3> QED
            BY <3>1, DoFields DEF CallOk, Outer, Inner
    <2> QED
        BY <1>3, <2>1, <2>2
<1>6. /\ Listing(a \o b) /\ Sorted(a \o b) /\ Q = Range(a) \cup Range(b) /\ Opened(Q) = {}
      /\ a \o b # <<>>
    <2>1. Listing(a \o b) /\ Sorted(a \o b) /\ Q = Range(a) \cup Range(b) /\ Opened(Q) = {}
        BY <1>1, <1>3, <1>4, <1>5, OuterJoined
    <2>2. Q # {}
        BY <1>4, <2>1
    <2> QED
        BY <1>1, <2>1, <2>2, ShortListings
<1>7. todo' = a \o b /\ bound' = 0 /\ answer' = "reading" /\ Range(todo') = Q
    BY <1>1, <1>2, <1>6 DEF NextCall
<1>8. View' = View /\ Picture(View) /\ VaultInv'
    BY <1>2, ViewFacts, StutterKeeps DEF ViewInv, vault, View, SlugOf
<1>9. ViewHistory'
    BY <1>2, <1>8, PictureFields DEF ViewHistory
<1>10. TodoInv'
    BY <1>5, <1>6, <1>7 DEF TodoInv, Listing
<1>11. BoundInv'
    <2>1. nextId' \in Nat \ {0}
        BY <1>8 DEF VaultInv, ProjectInv
    <2>2. 0 \in 0..(nextId' - 1)
        BY <2>1, Identities
    <2> QED
        BY <1>7, <2>2 DEF BoundInv
<1>12. InfosInv'
    BY <1>2, <1>6, <1>7 DEF ViewInv, InfosInv, InfoOk
<1>13. PICK pg, w : pg = page' /\ w = View
    OBVIOUS
<1>14. /\ DOMAIN pg = {"projects", "environments", "items"} /\ pg.projects = w.projects
       /\ pg.environments = {} /\ pg.items = {}
    BY <1>2, <1>13 DEF ViewInv, PageInv
<1>15. Presents(pg, Q, infos)'
    <2>1. ASSUME NEW e \in w.environments PROVE Do("environments", e.slug, AllEnvs) \in Q
        <3>1. PICK pr \in projects : pr.slug = e.slug
            BY <1>13, ViewFacts DEF ViewInv
        <3> QED
            BY <1>3, <1>6, <3>1 DEF ProjectPlan
    <2>2. ASSUME NEW d \in w.definitions PROVE Ahead(d, Q)
        <3>1. CASE d.slug = Shared
            BY <1>4, <1>6, <3>1 DEF Ahead
        <3>2. CASE d.slug # Shared
            <4>1. PICK pr \in projects : pr.slug = d.slug
                BY <1>13, <3>2, ViewFacts DEF ViewInv
            <4> QED
                BY <1>3, <1>6, <3>2, <4>1 DEF ProjectPlan, Ahead
        <3> QED
            BY <3>1, <3>2
    <2>3. always' = w
        BY <1>2, <1>13
    <2> QED
        BY <2>1, <2>2, <2>3 DEF Presents
<1>16. PageInv'
    BY <1>2, <1>7, <1>13, <1>14, <1>15 DEF PageInv
<1> QED
    BY <1>8, <1>9, <1>10, <1>11, <1>12, <1>16 DEF ViewInv

\* What a page that is not answered has collected is as it was.
LEMMA AnswersKeeps ==
    ASSUME ViewInv, answer = "reading", UNCHANGED <<vault, history>>,
           NEW how \in {"not found", "error"}, Answers(how)
    PROVE  ViewInv'
<1>1. todo' = <<>> /\ bound' = 0 /\ answer' = how /\ infos' = infos /\ page' = page
    BY DEF Answers
<1>2. Range(todo') = {} /\ Listing(todo')
    BY <1>1, ShortListings
<1>3. View' = View /\ VaultInv' /\ seen' = seen /\ always' = always
    BY StutterKeeps DEF ViewInv, vault, View, SlugOf, history
<1>4. ViewHistory'
    BY <1>1, <1>3 DEF ViewInv, ViewHistory
<1>5. TodoInv'
    <2>1. Sorted(<<>>)
        BY ShortListings, OuterSorted
    <2>2. answer' # "reading"
        BY <1>1
    <2> QED
        BY <1>1, <1>2, <2>1, <2>2 DEF TodoInv, Listing
<1>6. BoundInv'
    <2>1. nextId' \in Nat \ {0}
        BY <1>3 DEF VaultInv, ProjectInv
    <2>2. 0 \in 0..(nextId' - 1)
        BY <2>1, Identities
    <2> QED
        BY <1>1, <2>2 DEF BoundInv
<1>7. InfosInv'
    BY <1>1, <1>2 DEF ViewInv, InfosInv, InfoOk, Opened
<1>8. PageInv'
    BY <1>1, <1>3, SaidStays DEF ViewInv, PageInv
<1> QED
    BY <1>3, <1>4, <1>5, <1>6, <1>7, <1>8 DEF ViewInv

\* A lookup that finds what it looks for changes the running call only.
LEMMA LookedUpKeeps ==
    ASSUME ViewInv, answer = "reading", UNCHANGED <<vault, history, answer, todo, infos, page>>, BoundInv'
    PROVE  ViewInv'
<1>1. View' = View /\ VaultInv' /\ seen' = seen /\ always' = always
    BY StutterKeeps DEF ViewInv, vault, View, SlugOf, history
<1>2. ViewHistory'
    BY <1>1 DEF ViewInv, ViewHistory
<1>3. TodoInv'
    BY SaidStays DEF ViewInv, TodoInv
<1>4. InfosInv'
    BY SaidStays DEF ViewInv, InfosInv
<1>5. PageInv'
    BY <1>1, SaidStays DEF ViewInv, PageInv
<1> QED
    BY <1>1, <1>2, <1>3, <1>4, <1>5 DEF ViewInv

\* The project a call names is looked up.
LEMMA LookupProjectKeeps ==
    ASSUME ViewInv, LookupProject
    PROVE  ViewInv'
<1>1. answer = "reading" /\ Head(todo).slug # Shared /\ UNCHANGED <<vault, history>>
    BY DEF LookupProject
<1>2. CASE Answers("not found")
    BY <1>1, <1>2, AnswersKeeps
<1>3. CASE /\ \E pr \in Named(Head(todo).slug) : bound' = pr.id
           /\ UNCHANGED <<answer, todo, checked, infos, page>>
    <2>1. PICK pr \in projects : pr.slug = Head(todo).slug /\ bound' = pr.id
        BY <1>3 DEF Named
    <2>2. pr.id \in 0..(nextId - 1) /\ todo # <<>>
        BY <1>1 DEF ViewInv, VaultInv, ProjectInv, TodoInv
    <2>3. nextId' = nextId /\ projects' = projects /\ todo' = todo
        BY <1>1, <1>3 DEF vault
    <2>4. PICK s, id : s = Head(todo).slug /\ id = pr.id
        OBVIOUS
    <2>5. Home(id, s)'
        BY <2>1, <2>3, <2>4 DEF Home
    <2>6. BoundInv'
        BY <1>1, <2>1, <2>2, <2>3, <2>4, <2>5 DEF BoundInv
    <2> QED
        BY <1>1, <1>3, <2>6, LookedUpKeeps
<1> QED
    BY <1>2, <1>3 DEF LookupProject

\* So is the environment.
LEMMA LookupEnvironmentKeeps ==
    ASSUME ViewInv, LookupEnvironment
    PROVE  ViewInv'
<1>1. answer = "reading" /\ UNCHANGED <<vault, history>>
    BY DEF LookupEnvironment
<1>2. CASE Answers("not found")
    BY <1>1, <1>2, AnswersKeeps
<1>3. CASE UNCHANGED <<answer, todo, bound, infos, page>>
    <2>1. BoundInv'
        BY <1>1, <1>3, SaidStays DEF ViewInv, BoundInv, vault
    <2> QED
        BY <1>1, <1>3, <2>1, LookedUpKeeps
<1> QED
    BY <1>2, <1>3 DEF LookupEnvironment

\* A statement fails, and there is no page.
LEMMA StatementFailsKeeps ==
    ASSUME ViewInv, StatementFails
    PROVE  ViewInv'
BY AnswersKeeps DEF StatementFails

-----------------------------------------------------------------------------
(***************************************************************************)
(* The page: what a definition overrides.                                  *)
(***************************************************************************)

\* The parts of a question.
LEMMA OverriddenFields ==
    \A k, id, n, s : /\ Overridden(k, id, n, s).want = "overrides" /\ Overridden(k, id, n, s).slug = Shared
                     /\ Overridden(k, id, n, s).key = k /\ Overridden(k, id, n, s).id = id
                     /\ Overridden(k, id, n, s).env = n /\ Overridden(k, id, n, s).scope = s
BY DEF Overridden

\* What is asked of the key k, for the broader scope b.
Asked(k, b) == Overridden(k, b.id, b.env, b.scope)

\* The broader scopes of a scope are asked for each definition in it.
LEMMA OverridesListed ==
    ASSUME NEW defs, IsFiniteSet(defs), NEW broader, Listing(broader),
           \A b \in Range(broader) : b = Asked(None, b)
    PROVE  /\ Listing(OverrideCalls(defs, broader))
           /\ Range(OverrideCalls(defs, broader)) = {Asked(d.key, b) : d \in defs, b \in Range(broader)}
<1>1. PICK f : f = [d \in defs |-> [i \in DOMAIN broader |-> [broader[i] EXCEPT !.key = d.key]]]
    OBVIOUS
<1>2. PICK B, n : B = Range(broader) /\ n = Len(broader)
    OBVIOUS
<1>3. broader \in Seq(B) /\ n \in Nat /\ DOMAIN broader = 1..n /\ B = {broader[i] : i \in 1..n}
    <2>1. broader \in Seq(B)
        BY <1>2 DEF Listing
    <2> QED
        BY <1>2, <2>1, RangeFacts
<1>4. ASSUME NEW d \in defs
      PROVE  Listing(f[d]) /\ Range(f[d]) = {Asked(d.key, b) : b \in B}
    <2>1. PICK X : X = {Asked(d.key, b) : b \in B}
        OBVIOUS
    <2>2. f[d] = [i \in 1..n |-> [broader[i] EXCEPT !.key = d.key]]
        BY <1>1, <1>3
    <2>3. \A b \in B : [b EXCEPT !.key = d.key] = Asked(d.key, b)
        <3> SUFFICES ASSUME NEW b \in B PROVE [b EXCEPT !.key = d.key] = Asked(d.key, b)
            OBVIOUS
        <3>1. b = Overridden(None, b.id, b.env, b.scope)
            BY <1>2 DEF Asked
        <3>2. PICK id, e, s : id = b.id /\ e = b.env /\ s = b.scope
            OBVIOUS
        <3>3. b = [want |-> "overrides", slug |-> Shared, key |-> None, id |-> id, env |-> e, scope |-> s]
            BY <3>1, <3>2 DEF Overridden
        <3>4. [b EXCEPT !.key = d.key] = Overridden(d.key, id, e, s)
            BY <3>3 DEF Overridden
        <3> QED
            BY <3>2, <3>4 DEF Asked
    <2>4. \A i \in 1..n : broader[i] \in B
        BY <1>3
    <2>5. f[d] = [i \in 1..n |-> Asked(d.key, broader[i])]
        BY <2>2, <2>3, <2>4
    <2>6. PICK q : q = f[d]
        OBVIOUS
    <2>7. \A i \in 1..n : q[i] = Asked(d.key, broader[i]) /\ q[i] \in X
        BY <2>1, <2>4, <2>5, <2>6
    <2>8. q \in Seq(X) /\ Len(q) = n
        BY <1>3, <2>5, <2>6, <2>7
    <2>9. Listing(q) /\ Range(q) = {q[i] : i \in 1..n}
        BY <2>8, RangeFacts
    <2>10. Range(q) = {Asked(d.key, b) : b \in B}
        BY <1>3, <2>7, <2>9
    <2> QED
        BY <2>6, <2>9, <2>10
<1>5. Listing(Calls(defs, f)) /\ Range(Calls(defs, f)) = UNION {Range(f[d]) : d \in defs}
    BY <1>4, ListingCalls
<1>6. UNION {Range(f[d]) : d \in defs} = {Asked(d.key, b) : d \in defs, b \in B}
    BY <1>4
<1>7. OverrideCalls(defs, broader) = Calls(defs, f)
    BY <1>1 DEF OverrideCalls
<1> QED
    BY <1>2, <1>5, <1>6, <1>7

\* The broader scopes of [slug, env]; the names are those of the project.
BroaderSet(slug, id, env, names) ==
    {b \in {InGlobal} \cup {InSharedEnvironment(n) : n \in names \cup {env}} \cup {InProject(id, AllEnvs)} :
        /\ b = InGlobal => slug # Shared \/ env # AllEnvs
        /\ b # InGlobal => slug # Shared
        /\ b.scope = "project" => env # AllEnvs
        /\ b.scope = "environment" => IF env = AllEnvs THEN b.env \in names ELSE b.env = env}

\* They are asked in a row.
LEMMA BroaderListed ==
    ASSUME NEW slug, NEW id, NEW env, NEW names, IsFiniteSet(names), AllEnvs \notin names
    PROVE  /\ Listing(BroaderDefs(slug, id, env, names))
           /\ Range(BroaderDefs(slug, id, env, names)) = BroaderSet(slug, id, env, names)
           /\ \A b \in BroaderSet(slug, id, env, names) : b = Asked(None, b)
<1>1. /\ InGlobal.scope = "global" /\ InGlobal.env = AllEnvs
      /\ \A n : InSharedEnvironment(n).scope = "environment" /\ InSharedEnvironment(n).env = n
      /\ InProject(id, AllEnvs).scope = "project"
    BY OverriddenFields DEF InGlobal, InSharedEnvironment, InProject
<1>2. /\ InGlobal # InProject(id, AllEnvs)
      /\ \A n : InSharedEnvironment(n) # InGlobal /\ InSharedEnvironment(n) # InProject(id, AllEnvs)
    BY <1>1
<1>3. \A b \in BroaderSet(slug, id, env, names) : b = Asked(None, b)
    BY OverriddenFields DEF BroaderSet, Asked, InGlobal, InSharedEnvironment, InProject
<1>4. CASE slug = Shared /\ env = AllEnvs
    <2>1. BroaderDefs(slug, id, env, names) = <<>>
        BY <1>4 DEF BroaderDefs
    <2>2. BroaderSet(slug, id, env, names) = {}
        BY <1>4 DEF BroaderSet
    <2> QED
        BY <1>3, <2>1, <2>2, ShortListings
<1>5. CASE slug = Shared /\ env # AllEnvs
    <2>1. BroaderDefs(slug, id, env, names) = <<InGlobal>>
        BY <1>5 DEF BroaderDefs
    <2>2. BroaderSet(slug, id, env, names) = {InGlobal}
        BY <1>1, <1>2, <1>5 DEF BroaderSet
    <2> QED
        BY <1>3, <2>1, <2>2, ShortListings
<1>6. CASE slug # Shared /\ env = AllEnvs
    <2>1. PICK f, p : f = [n \in names |-> <<InSharedEnvironment(n)>>] /\ p = Calls(names, f)
        OBVIOUS
    <2>2. BroaderDefs(slug, id, env, names) = p \o <<InGlobal>>
        BY <1>6, <2>1 DEF BroaderDefs
    <2>3. \A n \in names : Listing(f[n]) /\ Range(f[n]) = {InSharedEnvironment(n)}
        BY <2>1, ShortListings
    <2>4. Listing(p) /\ Range(p) = {InSharedEnvironment(n) : n \in names}
        <3>1. \A n \in names : Listing(f[n])
            BY <2>3
        <3>2. Listing(Calls(names, f)) /\ Range(Calls(names, f)) = UNION {Range(f[n]) : n \in names}
            BY ONLY <3>1, IsFiniteSet(names), ListingCalls
        <3>3. UNION {Range(f[n]) : n \in names} = {InSharedEnvironment(n) : n \in names}
            BY <2>3
        <3>4. p = Calls(names, f)
            BY <2>1
        <3> QED
            BY <3>2, <3>3, <3>4
    <2>5. /\ Listing(p \o <<InGlobal>>)
          /\ Range(p \o <<InGlobal>>) = {InSharedEnvironment(n) : n \in names} \cup {InGlobal}
        BY <2>4, ShortListings, ListingConcat
    <2>6. BroaderSet(slug, id, env, names) = {InSharedEnvironment(n) : n \in names} \cup {InGlobal}
        BY <1>1, <1>2, <1>6 DEF BroaderSet
    <2> QED
        BY <1>3, <2>2, <2>5, <2>6
<1>7. CASE slug # Shared /\ env # AllEnvs
    <2>1. BroaderDefs(slug, id, env, names) = <<InProject(id, AllEnvs), InSharedEnvironment(env), InGlobal>>
        BY <1>7 DEF BroaderDefs
    <2>2. BroaderSet(slug, id, env, names) = {InProject(id, AllEnvs), InSharedEnvironment(env), InGlobal}
        BY <1>1, <1>2, <1>7 DEF BroaderSet
    <2> QED
        BY <1>3, <2>1, <2>2, ShortListings
<1> QED
    BY <1>4, <1>5, <1>6, <1>7

\* The page asks for the scopes B of definitions in the scope o.
LEMMA AsksForBroader ==
    ASSUME NEW o, NEW id, NEW names, AllEnvs \notin names,
           o.slug # Shared => id \in 1..(nextId - 1) /\ Home(id, o.slug),
           o.env = AllEnvs => \A n \in names : [slug |-> o.slug, name |-> n] \in seen.environments,
           NEW b \in BroaderSet(o.slug, id, o.env, names), NEW k
    PROVE  AsksFor(Asked(k, b), o) /\ Asked(k, b).want = "overrides" /\ Asked(k, b).slug = Shared
<1>1. PICK c : c = Asked(k, b)
    OBVIOUS
<1>2. c.want = "overrides" /\ c.slug = Shared /\ c.id = b.id /\ c.env = b.env /\ c.scope = b.scope
    BY <1>1, OverriddenFields DEF Asked
<1>3. CASE b = InGlobal
    BY <1>1, <1>2, <1>3, OverriddenFields DEF AsksFor, InGlobal, Wide
<1>4. CASE \E n : b = InSharedEnvironment(n)
    <2>1. b.scope = "environment" /\ b.id = 0
        BY <1>4, OverriddenFields DEF InSharedEnvironment
    <2>2. o.slug # Shared /\ IF o.env = AllEnvs THEN b.env \in names ELSE b.env = o.env
        BY <2>1, OverriddenFields DEF BroaderSet, InGlobal
    <2> QED
        BY <1>1, <1>2, <2>1, <2>2 DEF AsksFor, Wide
<1>5. CASE b = InProject(id, AllEnvs)
    <2>1. b.scope = "project" /\ b.id = id /\ b.env = AllEnvs
        BY <1>5, OverriddenFields DEF InProject
    <2>2. o.slug # Shared /\ o.env # AllEnvs
        BY <2>1, OverriddenFields DEF BroaderSet, InGlobal
    <2> QED
        BY <1>1, <1>2, <2>1, <2>2 DEF AsksFor, Wide
<1> QED
    BY <1>3, <1>4, <1>5 DEF BroaderSet

\* When these have been asked for, none that stayed is missed.
LEMMA BroaderAwaits ==
    ASSUME NEW o, NEW i, NEW id, NEW names, NEW Q,
           o.env = AllEnvs => \A n : [slug |-> o.slug, name |-> n] \in always.environments => n \in names,
           \A b \in BroaderSet(o.slug, id, o.env, names) : Asked(i.key, b) \in Q,
           NEW s \in Wide, Own(Spot(i, o)) \in Narrower(s), NEW d \in At(always, Spot(i, o), s)
    PROVE  Awaits(Q, i, s, d)
<1>1. PICK x : x = Spot(i, o)
    OBVIOUS
<1>2. x.key = i.key /\ x.slug = o.slug /\ x.env = o.env
    BY <1>1 DEF Spot
<1>3. ASSUME NEW b \in BroaderSet(o.slug, id, o.env, names), b.scope = s, b.env = d.env
      PROVE  Awaits(Q, i, s, d)
    <2>1. PICK c : c = Asked(i.key, b)
        OBVIOUS
    <2>2. c \in Q /\ c.want = "overrides" /\ c.key = i.key /\ c.scope = s /\ c.env = d.env
        BY <1>3, <2>1, OverriddenFields DEF Asked
    <2> QED
        BY <2>2 DEF Awaits
<1>4. ~(o.slug = Shared /\ o.env = AllEnvs)
    <2> SUFFICES ASSUME o.slug = Shared, o.env = AllEnvs PROVE FALSE
        OBVIOUS
    <2>1. Own(x) = "global"
        BY <1>2 DEF Own
    <2> QED
        BY <1>1, <2>1, NarrowerScopes DEF Wide
<1>5. CASE s = "global"
    <2>1. d.env = AllEnvs
        BY <1>5 DEF At
    <2>2. InGlobal.scope = "global" /\ InGlobal.env = AllEnvs
        BY OverriddenFields DEF InGlobal
    <2>3. InGlobal \in BroaderSet(o.slug, id, o.env, names)
        BY <1>4, <2>2 DEF BroaderSet
    <2> QED
        BY <1>3, <1>5, <2>1, <2>2, <2>3
<1>6. CASE s = "environment"
    <2>1. o.slug # Shared
        <3>1. Own(x) # "environment"
            BY <1>1, <1>6, NarrowerScopes
        <3> QED
            BY <1>2, <1>4, <3>1 DEF Own
    <2>2. PICK b : b = InSharedEnvironment(d.env)
        OBVIOUS
    <2>3. b.scope = "environment" /\ b.env = d.env
        BY <2>2, OverriddenFields DEF InSharedEnvironment
    <2>4. b # InGlobal
        BY <2>3, OverriddenFields DEF InGlobal
    <2>5. IF o.env = AllEnvs THEN d.env \in names ELSE d.env = o.env
        BY <1>1, <1>2, <1>6 DEF At
    <2>6. b \in BroaderSet(o.slug, id, o.env, names)
        BY <2>1, <2>2, <2>3, <2>4, <2>5 DEF BroaderSet
    <2> QED
        BY <1>3, <1>6, <2>3, <2>6
<1>7. CASE s = "project"
    <2>1. Own(x) = "project_environment"
        BY <1>1, <1>7, NarrowerScopes
    <2>2. o.slug # Shared /\ o.env # AllEnvs
        BY <1>2, <2>1 DEF Own
    <2>3. d.env = AllEnvs
        BY <1>7 DEF At
    <2>4. PICK b : b = InProject(id, AllEnvs)
        OBVIOUS
    <2>5. b.scope = "project" /\ b.env = AllEnvs
        BY <2>4, OverriddenFields DEF InProject
    <2>6. b # InGlobal
        BY <2>5, OverriddenFields DEF InGlobal
    <2>7. b \in BroaderSet(o.slug, id, o.env, names)
        BY <2>2, <2>4, <2>5, <2>6 DEF BroaderSet
    <2> QED
        BY <1>3, <1>7, <2>3, <2>5, <2>7
<1> QED
    BY <1>5, <1>6, <1>7 DEF Wide

\* The plan while a scope is read: what is about it, its values, and the rest.
LEMMA ScopePlan ==
    ASSUME NEW front, Listing(front), \A c \in Range(front) : c.want \in Inner,
           NEW rest, Listing(rest), \A c \in Range(rest) : c.want \in Outer,
           NEW v, v.want = "values"
    PROVE  LET calls == front \o <<v>> \o rest
           IN  /\ Listing(calls) /\ Sorted(calls)
               /\ Range(calls) = Range(front) \cup {v} \cup Range(rest)
               /\ Opened(Range(calls)) = {v}
<1>1. Listing(<<v>>) /\ Range(<<v>>) = {v}
    BY ShortListings
<1>2. PICK back : back = <<v>> \o rest
    OBVIOUS
<1>3. Listing(back) /\ Range(back) = {v} \cup Range(rest) /\ Sorted(back)
    BY <1>1, <1>2, ListingConcat, OuterSorted
<1>4. front \o <<v>> \o rest = front \o back
    <2>1. PICK X : X = Range(front) \cup {v} \cup Range(rest)
        OBVIOUS
    <2>2. PICK F, R : F = Range(front) /\ R = Range(rest)
        OBVIOUS
    <2>3. front \in Seq(F) /\ rest \in Seq(R) /\ F \subseteq X /\ R \subseteq X /\ v \in X
        BY <2>1, <2>2 DEF Listing
    <2>4. front \in Seq(X) /\ <<v>> \in Seq(X) /\ rest \in Seq(X)
        BY <2>3
    <2> QED
        BY <1>2, <2>4, ConcatAssociative
<1>5. PICK calls : calls = front \o back
    OBVIOUS
<1>6. Listing(calls) /\ Range(calls) = Range(front) \cup Range(back) /\ Sorted(calls)
    BY <1>3, <1>5, ListingConcat
<1>7. Opened(Range(calls)) = {v}
    <2>1. \A c \in Range(front) \cup Range(rest) : c.want # "values"
        BY DEF Inner, Outer
    <2> QED
        BY <1>3, <1>6, <2>1 DEF Opened
<1> QED
    BY <1>3, <1>4, <1>5, <1>6, <1>7

\* The metadata just read is in order, once what it overrides is asked for.
LEMMA FreshInfo ==
    ASSUME NEW id, NEW t, Shows(id, t.slug), NEW o, o.slug = t.slug, o.env = t.env,
           NEW Q, Opened(Q) = {o}, NEW e \in InScope(id, t.env), NEW i, i = Info(e),
           \A s \in Wide : Own(Spot(i, o)) \in Narrower(s) =>
               \A d \in At(always, Spot(i, o), s) : Awaits(Q, i, s, d)
    PROVE  InfoOk(i, Q)
<1>1. /\ DOMAIN i = {"key", "sensitive", "kind", "hint", "overrides"}
      /\ i.key = e.key /\ i.overrides = {} /\ \A d : SameMeta(e, d) => SameMeta(i, d)
    BY DEF Info, SameMeta
<1>2. \E d \in seen.definitions : d.slug = o.slug /\ d.env = o.env /\ d.key = i.key /\ SameMeta(i, d)
    BY <1>1, ScopeShows
<1> QED
    BY <1>1, <1>2 DEF InfoOk

\* While the scope o is read, what is asked of its definitions.
Inquiries(id, o, names, I) == {Asked(i.key, b) : i \in I, b \in BroaderSet(o.slug, id, o.env, names)}

\* A scope that is read: its values come next, but for what its definitions override.
LEMMA ScopeContinues ==
    ASSUME VaultInv, NEW t, t.want = "secrets", t.slug \in Slugs \cup {Shared},
           Shows(bound, t.slug), t.slug # Shared => bound \in 1..(nextId - 1) /\ Home(bound, t.slug),
           NEW R, \A c \in R : c.want \in Outer /\ \A Q : CallOk(c, Q),
           NEW I, I = {Info(d) : d \in InScope(bound, t.env)},
           DOMAIN page = {"projects", "environments", "items"}, \A i \in page.items : ItemOk(i),
           page.environments \subseteq seen.environments, Presents(page, {t} \cup R, infos),
           NEW o, o = Do("values", t.slug, t.env),
           NEW Q, NEW front, Q = front \cup {o} \cup R, Opened(Q) = {o},
           IF t.slug # Shared /\ t.env = AllEnvs THEN front = {Do("broader", t.slug, AllEnvs)}
                                                 ELSE front = Inquiries(bound, o, {}, I)
    PROVE  Continued(Q, I, page)
<1>1. o.want = "values" /\ o.slug = t.slug /\ o.env = t.env
    BY DoFields
<1>2. ASSUME NEW c \in front PROVE CallOk(c, Q)
    <2>1. CASE t.slug # Shared /\ t.env = AllEnvs
        <3>1. c = Do("broader", t.slug, AllEnvs) /\ c.want = "broader" /\ c.slug = t.slug /\ c.env = AllEnvs
            BY <2>1, DoFields
        <3>2. c.slug \in Slugs \cup {Shared} /\ c.slug # Shared /\ c = Do(c.want, c.slug, c.env)
            BY <2>1, <3>1
        <3>3. c.want \in Outer \cup Inner \cup {"values"} /\ c.want \in {"environments", "broader"}
              /\ c.want # "overrides" /\ c.want # "effective" /\ c.want # "names"
            BY <3>1 DEF Inner
        <3> QED
            BY <1>1, <2>1, <3>1, <3>2, <3>3 DEF CallOk
    <2>2. CASE ~(t.slug # Shared /\ t.env = AllEnvs)
        <3>1. PICK i \in I, b \in BroaderSet(o.slug, bound, o.env, {}) : c = Asked(i.key, b)
            BY <2>2 DEF Inquiries
        <3>2. PICK id, k : id = bound /\ k = i.key
            OBVIOUS
        <3>3. /\ b \in BroaderSet(o.slug, id, o.env, {}) /\ c = Asked(k, b)
              /\ o.slug # Shared => id \in 1..(nextId - 1) /\ Home(id, o.slug)
            BY <1>1, <3>1, <3>2
        <3>4. AsksFor(c, o) /\ c.want = "overrides" /\ c.slug = Shared
            BY ONLY <3>3, AsksForBroader
        <3> QED
            BY <3>4 DEF CallOk, Inner
    <2> QED
        BY <2>1, <2>2
<1>3. o.want \notin Inner /\ CallOk(o, Q)
    BY <1>1 DEF CallOk, Inner, Outer
<1>4. \A c \in Q : CallOk(c, Q)
    BY <1>2, <1>3
<1>5. IsFiniteSet(I)
    <2>1. PICK f, S : f = [d \in definitions |-> Info(d)] /\ S = InScope(bound, t.env)
        OBVIOUS
    <2>2. S \subseteq definitions /\ IsFiniteSet(S)
        BY <2>1, FS_Subset DEF InScope, VaultInv, DefinitionInv
    <2>3. IsFiniteSet({f[d] : d \in S})
        BY <2>2, ImageFinite
    <2>4. {f[d] : d \in S} = I
        BY <2>1, <2>2
    <2> QED
        BY <2>3, <2>4
<1>6. ASSUME NEW e \in InScope(bound, t.env), NEW i, i = Info(e) PROVE InfoOk(i, Q)
    <2>1. ASSUME NEW s \in Wide, Own(Spot(i, o)) \in Narrower(s), NEW d \in At(always, Spot(i, o), s)
          PROVE  Awaits(Q, i, s, d)
        <3>1. CASE t.slug # Shared /\ t.env = AllEnvs
            BY <3>1, DoFields DEF Awaits
        <3>2. CASE ~(t.slug # Shared /\ t.env = AllEnvs)
            <4>1. \A b \in BroaderSet(o.slug, bound, o.env, {}) : Asked(i.key, b) \in Q
                BY <1>6, <3>2 DEF Inquiries
            <4>2. CASE o.env = AllEnvs
                <5>1. Own(Spot(i, o)) = "global"
                    BY <1>1, <3>2, <4>2 DEF Own, Spot
                <5> QED
                    BY <2>1, <5>1, NarrowerScopes DEF Wide
            <4>3. CASE o.env # AllEnvs
                BY <2>1, <4>1, <4>3, BroaderAwaits
            <4> QED
                BY <4>2, <4>3
        <3> QED
            BY <3>1, <3>2
    <2>2. PICK id : id = bound
        OBVIOUS
    <2>3. Shows(id, t.slug) /\ e \in InScope(id, t.env)
        BY <2>2
    <2> QED
        BY <1>1, <1>6, <2>1, <2>3, FreshInfo
<1>7. Presents(page, Q, I)
    <2>1. R \subseteq Q /\ Opened({t} \cup R) = {}
        BY DEF Opened, Outer
    <2>2. \A d : ~InHand(d, {t} \cup R, infos)
        BY <2>1 DEF InHand
    <2>3. \A d : t # Do("environments", d.slug, AllEnvs)
        BY DoFields
    <2>4. \A d : t # Do(IF d.slug = Shared THEN "names" ELSE "environments", d.slug, AllEnvs)
        BY DoFields
    <2>5. ASSUME NEW d \in always.definitions, t = Do("secrets", d.slug, d.env) PROVE InHand(d, Q, I)
        <3>1. d.slug = t.slug /\ d.env = t.env
            BY <2>5, DoFields
        <3>2. PICK e \in InScope(bound, d.env) : e.key = d.key /\ SameMeta(e, d)
            BY <3>1, ScopeShows
        <3>3. PICK i : i = Info(e)
            OBVIOUS
        <3>4. i \in I /\ i.key = d.key /\ SameMeta(i, d)
            BY <3>1, <3>2, <3>3 DEF Info, SameMeta
        <3> QED
            BY <1>1, <3>1, <3>4 DEF InHand
    <2> QED
        BY <2>1, <2>2, <2>3, <2>4, <2>5, PresentsOn
<1> QED
    BY <1>4, <1>5, <1>6, <1>7 DEF Continued

\* The calls that stand between the metadata of a scope and its values.
LEMMA ScopeAsks ==
    ASSUME NEW t, NEW id, NEW I, IsFiniteSet(I), NEW o, o = Do("values", t.slug, t.env),
           NEW front, front = IF t.slug # Shared /\ t.env = AllEnvs
                              THEN <<Do("broader", t.slug, AllEnvs)>>
                              ELSE OverrideCalls(I, BroaderDefs(t.slug, id, t.env, {}))
    PROVE  /\ Listing(front) /\ \A c \in Range(front) : c.want \in Inner
           /\ IF t.slug # Shared /\ t.env = AllEnvs
              THEN Range(front) = {Do("broader", t.slug, AllEnvs)}
              ELSE Range(front) = Inquiries(id, o, {}, I)
<1>1. CASE t.slug # Shared /\ t.env = AllEnvs
    BY <1>1, ShortListings, DoFields DEF Inner
<1>2. CASE ~(t.slug # Shared /\ t.env = AllEnvs)
    <2>1. PICK b, B : b = BroaderDefs(t.slug, id, t.env, {}) /\ B = BroaderSet(t.slug, id, t.env, {})
        OBVIOUS
    <2>2. Listing(b) /\ Range(b) = B /\ \A x \in B : x = Asked(None, x)
        BY <2>1, BroaderListed, FS_EmptySet
    <2>3. Listing(OverrideCalls(I, b)) /\ Range(OverrideCalls(I, b)) = {Asked(d.key, x) : d \in I, x \in B}
        BY <2>2, OverridesListed
    <2>4. front = OverrideCalls(I, b)
        BY <1>2, <2>1
    <2>5. Inquiries(id, o, {}, I) = {Asked(d.key, x) : d \in I, x \in B}
        BY <2>1, DoFields DEF Inquiries
    <2>6. \A d, x : Asked(d, x).want \in Inner
        BY OverriddenFields DEF Asked, Inner
    <2>7. \A c \in Range(OverrideCalls(I, b)) : c.want \in Inner
        BY <2>3, <2>6
    <2>8. PICK r, X : r = Range(OverrideCalls(I, b)) /\ X = Inquiries(id, o, {}, I)
        OBVIOUS
    <2>9. r = X
        BY <2>3, <2>5, <2>8
    <2>10. Range(front) = X /\ Listing(front) /\ \A c \in Range(front) : c.want \in Inner
        BY <2>3, <2>4, <2>7, <2>8, <2>9
    <2> QED
        BY <1>2, <2>8, <2>10
<1> QED
    BY <1>1, <1>2

\* The metadata of a scope, which leads to what it overrides and to its values.
LEMMA SelectSecretsKeeps ==
    ASSUME ViewInv, SelectSecrets
    PROVE  ViewInv'
<1>1. PICK t, R, P, I, o :
          /\ t = Head(todo) /\ R = Range(Tail(todo)) /\ P = Range(todo)
          /\ I = infos' /\ o = Do("values", t.slug, t.env)
    OBVIOUS
<1> DEFINE front == IF t.slug # Shared /\ t.env = AllEnvs THEN <<Do("broader", t.slug, AllEnvs)>>
                    ELSE OverrideCalls(I, BroaderDefs(t.slug, bound, t.env, {}))
           calls == front \o <<o>> \o Tail(todo)
<1>2. /\ answer = "reading" /\ t.want = "secrets" /\ UNCHANGED <<vault, history>> /\ Ready(t)
      /\ I = {Info(d) : d \in InScope(bound, t.env)} /\ page' = page /\ NextCall(calls)
    BY <1>1 DEF SelectSecrets, Runs
<1>3. /\ Listing(Tail(todo)) /\ P = {t} \cup R /\ CallOk(t, P)
      /\ \A c \in R : c.want \in Outer /\ \A Q : CallOk(c, Q)
    BY <1>1, <1>2, OuterFront DEF Outer
<1>4. t.slug \in Slugs \cup {Shared}
    BY <1>3 DEF CallOk
<1>5. Shows(bound, t.slug) /\ (t.slug # Shared => bound \in 1..(nextId - 1) /\ Home(bound, t.slug))
    BY <1>1, <1>2, ReadyShows
<1>6. /\ VaultInv /\ DOMAIN page = {"projects", "environments", "items"} /\ (\A i \in page.items : ItemOk(i))
      /\ page.environments \subseteq seen.environments /\ Presents(page, P, infos)
    BY <1>1, <1>2 DEF ViewInv, PageInv
<1>7. IsFiniteSet(I)
    <2>1. PICK f, S : f = [d \in definitions |-> Info(d)] /\ S = InScope(bound, t.env)
        OBVIOUS
    <2>2. S \subseteq definitions /\ IsFiniteSet(S)
        BY <1>6, <2>1, FS_Subset DEF InScope, VaultInv, DefinitionInv
    <2>3. IsFiniteSet({f[d] : d \in S})
        BY <2>2, ImageFinite
    <2>4. {f[d] : d \in S} = I
        BY <1>2, <2>1, <2>2
    <2> QED
        BY <2>3, <2>4
<1>8. o.want = "values" /\ o.slug = t.slug /\ o.env = t.env
    BY <1>1, DoFields
<1>9. /\ Listing(front) /\ \A c \in Range(front) : c.want \in Inner
      /\ IF t.slug # Shared /\ t.env = AllEnvs THEN Range(front) = {Do("broader", t.slug, AllEnvs)}
                                               ELSE Range(front) = Inquiries(bound, o, {}, I)
    <2>1. PICK f : /\ f = front
                   /\ f = IF t.slug # Shared /\ t.env = AllEnvs
                           THEN <<Do("broader", t.slug, AllEnvs)>>
                           ELSE OverrideCalls(I, BroaderDefs(t.slug, bound, t.env, {}))
        OBVIOUS
    <2> HIDE DEF front
    <2>2. /\ Listing(f) /\ \A c \in Range(f) : c.want \in Inner
          /\ IF t.slug # Shared /\ t.env = AllEnvs
             THEN Range(f) = {Do("broader", t.slug, AllEnvs)}
             ELSE Range(f) = Inquiries(bound, o, {}, I)
        BY <1>1, <1>7, <2>1, ScopeAsks
    <2> QED
        BY <2>1, <2>2
<1> HIDE DEF front
<1>10. /\ Listing(calls) /\ Sorted(calls) /\ Range(calls) = Range(front) \cup {o} \cup R
       /\ Opened(Range(calls)) = {o}
    BY <1>1, <1>3, <1>8, <1>9, ScopePlan
<1>11. Continued(Range(calls), I, page)
    <2>1. PICK Q, F : Q = Range(calls) /\ F = Range(front)
        OBVIOUS
    <2>2. Q = F \cup {o} \cup R /\ Opened(Q) = {o} /\ Presents(page, {t} \cup R, infos)
        BY <1>3, <1>6, <1>10, <2>1
    <2>3. IF t.slug # Shared /\ t.env = AllEnvs THEN F = {Do("broader", t.slug, AllEnvs)}
                                                ELSE F = Inquiries(bound, o, {}, I)
        BY <1>9, <2>1
    <2>4. o = Do("values", t.slug, t.env) /\ t.want = "secrets" /\ I = {Info(d) : d \in InScope(bound, t.env)}
          /\ \A c \in R : c.want \in Outer /\ \A S : CallOk(c, S)
        BY <1>1, <1>2, <1>3
    <2>5. Continued(Q, I, page)
        BY ONLY <1>4, <1>5, <1>6, <2>2, <2>3, <2>4, ScopeContinues
    <2> QED
        BY <2>1, <2>5
<1> HIDE DEF calls
<1> QED
    BY <1>1, <1>2, <1>10, <1>11, NextCallKeeps

\* The environments of the project whose scope is read, which lead to what is asked of each.
LEMMA SelectBroaderKeeps ==
    ASSUME ViewInv, SelectBroader
    PROVE  ViewInv'
<1>1. PICK t, R, P, names :
          /\ t = Head(todo) /\ R = Range(Tail(todo)) /\ P = Range(todo) /\ names = EnvironmentsOf(bound)
    OBVIOUS
<1>2. PICK asked : asked = OverrideCalls(infos, BroaderDefs(t.slug, bound, t.env, names))
    OBVIOUS
<1>3. /\ answer = "reading" /\ t.want = "broader" /\ UNCHANGED <<vault, history>> /\ Ready(t)
      /\ infos' = infos /\ page' = page /\ NextCall(asked \o Tail(todo))
    BY <1>1, <1>2 DEF SelectBroader, Runs
<1>4. /\ Listing(Tail(todo)) /\ Sorted(Tail(todo)) /\ P = {t} \cup R /\ CallOk(t, P)
      /\ \A c \in R : CallOk(c, P)
    BY <1>1, <1>3, FrontFacts
<1>5. /\ t.slug # Shared /\ t.env = AllEnvs /\ Opened(P) # {}
      /\ \A o \in Opened(P) : o.slug = t.slug /\ o.env = AllEnvs
    BY <1>3, <1>4 DEF CallOk, Inner
<1>6. Shows(bound, t.slug) /\ bound # 0 /\ bound \in 1..(nextId - 1) /\ Home(bound, t.slug)
    BY <1>1, <1>3, <1>5, ReadyShows
<1>7. /\ DOMAIN page = {"projects", "environments", "items"} /\ (\A i \in page.items : ItemOk(i))
      /\ page.environments \subseteq seen.environments /\ Presents(page, P, infos)
      /\ IsFiniteSet(infos) /\ \A i \in infos : InfoOk(i, P)
    BY <1>1, <1>3 DEF ViewInv, PageInv, InfosInv
<1>8. /\ IsFiniteSet(names) /\ AllEnvs \notin names
      /\ \A n \in names : \E e \in environments : e.pid = bound /\ e.name = n
      /\ \A e \in environments : e.pid = bound => e.name \in names
    BY <1>1, VaultNames, ReadersAssumption DEF ViewInv
<1>9. \A n \in names : [slug |-> t.slug, name |-> n] \in seen.environments
    <2> SUFFICES ASSUME NEW n \in names PROVE [slug |-> t.slug, name |-> n] \in seen.environments
        OBVIOUS
    <2>1. PICK e \in environments : e.pid = bound /\ e.name = n
        BY <1>8
    <2> QED
        BY <1>6, <2>1 DEF Shows
<1>10. \A n : [slug |-> t.slug, name |-> n] \in always.environments => n \in names
    <2> SUFFICES ASSUME NEW n, [slug |-> t.slug, name |-> n] \in always.environments PROVE n \in names
        OBVIOUS
    <2>1. PICK e \in environments :
              e.pid = bound /\ [slug |-> t.slug, name |-> n] = [slug |-> t.slug, name |-> e.name]
        BY <1>6 DEF Shows
    <2>2. n = e.name
        BY <2>1
    <2> QED
        BY <1>8, <2>1, <2>2
<1>11. PICK B, id : B = BroaderSet(t.slug, id, AllEnvs, names) /\ id = bound
    OBVIOUS
<1>12. Listing(asked) /\ Range(asked) = {Asked(i.key, b) : i \in infos, b \in B}
    <2>1. PICK b : b = BroaderDefs(t.slug, id, AllEnvs, names)
        OBVIOUS
    <2>2. Listing(b) /\ Range(b) = B /\ \A x \in B : x = Asked(None, x)
        BY <1>8, <1>11, <2>1, BroaderListed
    <2>3. /\ Listing(OverrideCalls(infos, b))
          /\ Range(OverrideCalls(infos, b)) = {Asked(i.key, x) : i \in infos, x \in B}
        BY <1>7, <2>2, OverridesListed
    <2> QED
        BY <1>2, <1>5, <1>11, <2>1, <2>3
<1>13. \A c \in Range(asked) : c.want = "overrides" /\ c.want \in Inner
    BY <1>12, OverriddenFields DEF Asked, Inner
<1>14. PICK Q : Q = Range(asked \o Tail(todo))
    OBVIOUS
<1>15. /\ Listing(asked \o Tail(todo)) /\ Sorted(asked \o Tail(todo)) /\ Q = Range(asked) \cup R
    BY <1>1, <1>4, <1>12, <1>13, <1>14, ListingConcat
<1>16. Opened(Q) = Opened(P)
    BY <1>3, <1>4, <1>13, <1>15 DEF Opened
<1>17. ASSUME NEW c \in Q PROVE CallOk(c, Q)
    <2>1. CASE c \in R
        <3>1. CallOk(c, P)
            BY <1>4, <2>1
        <3> QED
            BY <1>16, <3>1 DEF CallOk
    <2>2. CASE c \in Range(asked)
        <3>1. PICK i \in infos, b \in B : c = Asked(i.key, b)
            BY <1>12, <2>2
        <3>2. ASSUME NEW o \in Opened(Q) PROVE AsksFor(c, o)
            <4>1. o.slug = t.slug /\ o.env = AllEnvs
                BY <1>5, <1>16
            <4>2. b \in BroaderSet(o.slug, id, o.env, names)
                BY <1>11, <3>1, <4>1
            <4>3. id \in 1..(nextId - 1) /\ Home(id, o.slug)
                BY <1>6, <1>11, <4>1
            <4>4. \A n \in names : [slug |-> o.slug, name |-> n] \in seen.environments
                BY <1>9, <4>1
            <4> QED
                BY <1>8, <3>1, <4>2, <4>3, <4>4, AsksForBroader
        <3>3. c.want = "overrides" /\ c.slug = Shared
            BY <3>1, OverriddenFields DEF Asked
        <3> QED
            BY <1>5, <1>16, <3>2, <3>3 DEF CallOk, Inner
    <2> QED
        BY <1>15, <2>1, <2>2
<1>18. ASSUME NEW i \in infos PROVE InfoOk(i, Q)
    <2> SUFFICES ASSUME NEW o \in Opened(Q), NEW s \in Wide, Own(Spot(i, o)) \in Narrower(s),
                        NEW d \in At(always, Spot(i, o), s)
                 PROVE  Awaits(Q, i, s, d)
        BY <1>7, <1>16 DEF InfoOk
    <2>1. o.slug = t.slug /\ o.env = AllEnvs
        BY <1>5, <1>16
    <2>2. \A b \in BroaderSet(o.slug, id, o.env, names) : Asked(i.key, b) \in Q
        BY <1>11, <1>12, <1>15, <2>1
    <2>3. \A n : [slug |-> o.slug, name |-> n] \in always.environments => n \in names
        BY <1>10, <2>1
    <2> QED
        BY <2>2, <2>3, BroaderAwaits
<1>19. Presents(page, Q, infos)
    <2>1. Presents(page, {t} \cup R, infos) /\ R \subseteq Q
        BY <1>4, <1>7, <1>15
    <2>2. \A d : InHand(d, {t} \cup R, infos) => InHand(d, Q, infos)
        BY <1>4, <1>16 DEF InHand
    <2>3. \A d : t # Do("environments", d.slug, AllEnvs) /\ t # Do("secrets", d.slug, d.env)
        BY <1>3, DoFields
    <2>4. \A d : t # Do(IF d.slug = Shared THEN "names" ELSE "environments", d.slug, AllEnvs)
        BY <1>3, DoFields
    <2> QED
        BY ONLY <2>1, <2>2, <2>3, <2>4, PresentsOn
<1>20. Continued(Q, infos', page')
    BY <1>3, <1>7, <1>17, <1>18, <1>19 DEF Continued
<1> QED
    BY <1>3, <1>14, <1>15, <1>20, NextCallKeeps

\* What the page asks of a wider scope is what has been there, and what stayed there.
LEMMA AskedFinds ==
    ASSUME VaultInv, ViewHistory, answer # "none",
           NEW t, NEW o, AsksFor(t, o), NEW i, i.key = t.key
    PROVE  /\ Defines(t) => At(seen, Spot(i, o), t.scope) # {}
           /\ \A d \in At(always, Spot(i, o), t.scope) : d.env = t.env => Defines(t)
<1>1. PICK id, s, x : id = t.id /\ s = (IF t.scope = "project" THEN o.slug ELSE Shared) /\ x = Spot(i, o)
    OBVIOUS
<1>2. t.scope \in Wide /\ x.key = t.key /\ x.slug = o.slug /\ x.env = o.env
    BY <1>1 DEF AsksFor, Spot
<1>3. (id = 0 /\ s = Shared) \/ (id # 0 /\ s # Shared /\ Home(id, s))
    <2>1. CASE t.scope = "project"
        <3>1. o.slug # Shared /\ t.id \in 1..(nextId - 1) /\ Home(t.id, o.slug)
            BY <2>1 DEF AsksFor
        <3>2. t.id # 0
            BY <3>1
        <3>3. Home(id, s)
            BY <1>1, <2>1, <3>1
        <3> QED
            BY <1>1, <2>1, <3>1, <3>2, <3>3
    <2>2. CASE t.scope # "project"
        BY <1>1, <1>2, <2>2 DEF AsksFor, Wide
    <2> QED
        BY <2>1, <2>2
<1>4. Shows(id, s)
    BY <1>3, HomeShows
<1>5. ASSUME Defines(t) PROVE At(seen, x, t.scope) # {}
    <2>1. PICK e \in InScope(id, t.env) : e.key = t.key
        BY <1>1, <1>5 DEF Defines
    <2>2. PICK d \in seen.definitions : d.slug = s /\ d.env = t.env /\ d.key = t.key
        BY <1>4, <2>1, ScopeShows
    <2>3. CASE t.scope = "project"
        <3>1. d.env = AllEnvs
            BY <2>2, <2>3 DEF AsksFor
        <3>2. d \in At(seen, x, "project")
            BY <1>1, <1>2, <2>2, <2>3, <3>1 DEF At
        <3> QED
            BY <2>3, <3>2
    <2>4. CASE t.scope = "global"
        <3>1. d.env = AllEnvs
            BY <2>2, <2>4 DEF AsksFor
        <3>2. d \in At(seen, x, "global")
            BY <1>1, <1>2, <2>2, <2>4, <3>1 DEF At
        <3> QED
            BY <2>4, <3>2
    <2>5. CASE t.scope = "environment"
        <3>1. IF o.env # AllEnvs THEN d.env = o.env
                                 ELSE [slug |-> o.slug, name |-> d.env] \in seen.environments
            BY <2>2, <2>5 DEF AsksFor
        <3>2. d \in At(seen, x, "environment")
            BY <1>1, <1>2, <2>2, <2>5, <3>1 DEF At
        <3> QED
            BY <2>5, <3>2
    <2> QED
        BY <1>2, <2>3, <2>4, <2>5 DEF Wide
<1>6. ASSUME NEW d \in At(always, x, t.scope), d.env = t.env PROVE Defines(t)
    <2>1. d \in always.definitions /\ d.slug = s /\ d.key = t.key
        BY <1>1, <1>2, <1>6 DEF At, Wide
    <2>2. PICK e \in InScope(id, d.env) : e.key = d.key
        BY <1>4, <2>1, ScopeShows
    <2> QED
        BY <1>1, <1>6, <2>1, <2>2 DEF Defines
<1> QED
    BY <1>1, <1>5, <1>6

\* A scope that has been asked is among what its definitions override if it has the key.
LEMMA SelectDefinesKeeps ==
    ASSUME ViewInv, SelectDefines
    PROVE  ViewInv'
<1>1. PICK t, P, I : t = Head(todo) /\ P = Range(todo) /\ I = infos'
    OBVIOUS
<1> DEFINE Skipped(u) == Defines(t) /\ u.want = "overrides" /\ u.key = t.key /\ u.scope = t.scope
           Now(i) == IF i.key = t.key /\ Defines(t)
                     THEN [i EXCEPT !.overrides = @ \cup {t.scope}] ELSE i
<1>2. PICK n \in 1..(Len(todo) - 1) :
          (\A m \in 2..n : Skipped(todo[m])) /\ NextCall(SubSeq(todo, n + 1, Len(todo)))
    BY <1>1 DEF SelectDefines
<1>3. /\ answer = "reading" /\ t.want = "overrides" /\ UNCHANGED <<vault, history>>
      /\ I = {Now(i) : i \in infos} /\ page' = page
    BY <1>1 DEF SelectDefines, Runs
<1>4. todo # <<>> /\ Listing(todo) /\ Sorted(todo) /\ CallOk(t, P) /\ \A c \in P : CallOk(c, P)
    BY <1>1, <1>3, FrontFacts DEF ViewInv, TodoInv, Listing
<1>5. PICK q, Q : q = SubSeq(todo, n + 1, Len(todo)) /\ Q = Range(q)
    OBVIOUS
<1>6. /\ Listing(q) /\ Sorted(q) /\ Q \subseteq P
      /\ \A c \in P : c = t \/ Skipped(c) \/ c \in Q
    <2>1. /\ Listing(q) /\ Sorted(q) /\ Q \subseteq P
          /\ \A c \in P : c \in {t} \cup {todo[m] : m \in 2..n} \cup Q
        BY <1>1, <1>4, <1>5, ListingRest
    <2>2. \A c \in {todo[m] : m \in 2..n} : Skipped(c)
        BY <1>2
    <2> QED
        BY <2>1, <2>2
<1>7. \A c \in P : c.want # "overrides" => c \in Q
    BY <1>3, <1>6
<1>8. Opened(Q) = Opened(P)
    BY <1>6, <1>7 DEF Opened
<1>9. \A o \in Opened(P) : AsksFor(t, o)
    BY <1>3, <1>4 DEF CallOk
<1>10. VaultInv /\ ViewHistory /\ answer # "none" /\ IsFiniteSet(infos) /\ \A i \in infos : InfoOk(i, P)
    BY <1>1, <1>3 DEF ViewInv, InfosInv
<1>11. ASSUME NEW i \in infos
       PROVE  /\ Now(i).key = i.key /\ (\A d : SameMeta(i, d) => SameMeta(Now(i), d))
              /\ DOMAIN Now(i) = DOMAIN i
              /\ Now(i).overrides = IF i.key = t.key /\ Defines(t) THEN i.overrides \cup {t.scope}
                                                                  ELSE i.overrides
    <2>1. DOMAIN i = {"key", "sensitive", "kind", "hint", "overrides"}
        BY <1>10 DEF InfoOk
    <2> QED
        BY <2>1 DEF SameMeta
<1> HIDE DEF Now
<1>12. IsFiniteSet(I)
    <2>1. PICK f : f = [i \in infos |-> Now(i)]
        OBVIOUS
    <2>2. I = {f[i] : i \in infos}
        BY <1>3, <2>1
    <2> QED
        BY <1>10, <2>2, ImageFinite
<1>13. ASSUME NEW i \in infos PROVE InfoOk(Now(i), Q)
    <2>1. PICK x : x = Now(i)
        OBVIOUS
    <2>2. /\ DOMAIN x = DOMAIN i /\ x.key = i.key /\ (\A d : SameMeta(i, d) => SameMeta(x, d))
          /\ x.overrides = IF i.key = t.key /\ Defines(t) THEN i.overrides \cup {t.scope}
                                                          ELSE i.overrides
        BY <1>11, <2>1
    <2>3. InfoOk(i, P)
        BY <1>10
    <2>4. ASSUME NEW o \in Opened(Q) PROVE Spot(x, o) = Spot(i, o)
        BY <2>2 DEF Spot
    <2>5. ASSUME NEW o \in Opened(Q), NEW s \in Wide, s \in x.overrides
          PROVE  At(seen, Spot(x, o), s) # {}
        <3>1. CASE s \in i.overrides
            BY <1>8, <2>3, <2>4, <2>5, <3>1 DEF InfoOk
        <3>2. CASE s \notin i.overrides
            <4>1. i.key = t.key /\ Defines(t) /\ s = t.scope
                BY <2>2, <2>5, <3>2
            <4>2. AsksFor(t, o)
                BY <1>8, <1>9
            <4>3. At(seen, Spot(i, o), t.scope) # {}
                BY <1>10, <4>1, <4>2, AskedFinds
            <4> QED
                BY <2>4, <4>1, <4>3
        <3> QED
            BY <3>1, <3>2
    <2>6. ASSUME NEW o \in Opened(Q), NEW s \in Wide, Own(Spot(x, o)) \in Narrower(s),
                 NEW d \in At(always, Spot(x, o), s)
          PROVE  s \in x.overrides \/ Awaits(Q, x, s, d)
        <3>1. d \in At(always, Spot(i, o), s)
            BY <2>4
        <3>2. s \in i.overrides \/ Awaits(P, i, s, d)
            BY <1>8, <2>3, <2>4, <2>6, <3>1 DEF InfoOk
        <3>3. CASE s \in i.overrides
            BY <2>2, <3>3
        <3>4. CASE Awaits(P, i, s, d)
            <4>1. PICK c \in P : \/ c.want = "broader"
                                 \/ c.want = "overrides" /\ c.key = i.key /\ c.scope = s /\ c.env = d.env
                BY <3>4 DEF Awaits
            <4>2. CASE c \in Q
                BY <2>2, <4>1, <4>2 DEF Awaits
            <4>3. CASE c \notin Q /\ Defines(t)
                <5>1. c.key = t.key /\ c.scope = t.scope /\ c.want = "overrides"
                    BY <1>3, <1>6, <4>3
                <5>2. i.key = t.key /\ s = t.scope
                    BY <4>1, <5>1
                <5> QED
                    BY <2>2, <4>3, <5>2
            <4>4. CASE c \notin Q /\ ~Defines(t)
                <5>1. c = t
                    BY <1>6, <4>4
                <5>2. i.key = t.key /\ s = t.scope /\ d.env = t.env
                    BY <1>3, <4>1, <5>1
                <5>3. AsksFor(t, o)
                    BY <1>8, <1>9
                <5>4. Defines(t)
                    BY <1>10, <3>1, <5>2, <5>3, AskedFinds
                <5> QED
                    BY <4>4, <5>4
            <4> QED
                BY <4>2, <4>3, <4>4
        <3> QED
            BY <3>2, <3>3, <3>4
    <2>7. ASSUME NEW o \in Opened(Q)
          PROVE  \E d \in seen.definitions :
                    d.slug = o.slug /\ d.env = o.env /\ d.key = x.key /\ SameMeta(x, d)
        BY <1>8, <2>2, <2>3 DEF InfoOk
    <2>8. DOMAIN x = {"key", "sensitive", "kind", "hint", "overrides"}
        BY <2>2, <2>3 DEF InfoOk
    <2> QED
        BY <2>1, <2>5, <2>6, <2>7, <2>8 DEF InfoOk
<1>14. Presents(page, Q, I)
    <2>1. Presents(page, P, infos)
        BY <1>1, <1>3 DEF ViewInv, PageInv
    <2>2. \A w, s, e : w \in Outer /\ Do(w, s, e) \in P => Do(w, s, e) \in Q
        BY <1>7, DoFields DEF Outer
    <2>3. ASSUME NEW d \in always.definitions, InHand(d, P, infos) PROVE InHand(d, Q, I)
        <3>1. PICK i \in infos, o \in Opened(P) :
                  o.slug = d.slug /\ o.env = d.env /\ i.key = d.key /\ SameMeta(i, d)
            BY <2>3 DEF InHand
        <3>2. Now(i) \in I /\ Now(i).key = d.key /\ SameMeta(Now(i), d)
            BY <1>3, <1>11, <3>1
        <3> QED
            BY <1>8, <3>1, <3>2 DEF InHand
    <2>4. ASSUME NEW d \in always.definitions, Ahead(d, P) PROVE Ahead(d, Q)
        BY <2>2, <2>4 DEF Ahead, Outer
    <2>5. ASSUME NEW e \in always.environments, Do("environments", e.slug, AllEnvs) \in P
          PROVE  Do("environments", e.slug, AllEnvs) \in Q
        BY <2>2, <2>5 DEF Outer
    <2> QED
        BY <2>1, <2>3, <2>4, <2>5 DEF Presents
<1>15. \A c \in Q : CallOk(c, Q)
    <2> SUFFICES ASSUME NEW c \in Q PROVE CallOk(c, Q)
        OBVIOUS
    <2>1. CallOk(c, P)
        BY <1>4, <1>6
    <2> QED
        BY <1>8, <2>1 DEF CallOk
<1>16. Continued(Q, I, page)
    <2>1. \A i \in I : InfoOk(i, Q)
        BY <1>3, <1>13
    <2>2. /\ DOMAIN page = {"projects", "environments", "items"} /\ (\A i \in page.items : ItemOk(i))
          /\ page.environments \subseteq seen.environments
        BY <1>3 DEF ViewInv, PageInv
    <2> QED
        BY <1>12, <1>14, <1>15, <2>1, <2>2 DEF Continued
<1> QED
    BY <1>1, <1>2, <1>3, <1>5, <1>6, <1>16, NextCallKeeps

-----------------------------------------------------------------------------
(***************************************************************************)
(* The page: what others do while it is read.                              *)
(***************************************************************************)

\* The page has seen more, and less has stayed.
Later ==
    /\ seen.environments \subseteq seen'.environments /\ seen.definitions \subseteq seen'.definitions
    /\ seen.projects \subseteq seen'.projects /\ always'.projects \subseteq always.projects
    /\ always'.environments \subseteq always.environments \cap View'.environments
    /\ always'.definitions \subseteq always.definitions \cap View'.definitions

\* What overrides what: more has been seen to, and less does all the time.
LEMMA AtLater ==
    ASSUME Later
    PROVE  \A i, s : /\ At(seen, i, s) \subseteq At(seen', i, s)
                     /\ At(always', i, s) \subseteq At(always, i, s)
<1> SUFFICES ASSUME NEW i, NEW s
             PROVE  At(seen, i, s) \subseteq At(seen', i, s) /\ At(always', i, s) \subseteq At(always, i, s)
    OBVIOUS
<1>1. ASSUME NEW f, NEW g, f.environments \subseteq g.environments, f.definitions \subseteq g.definitions
      PROVE  At(f, i, s) \subseteq At(g, i, s)
    BY <1>1 DEF At
<1> QED
    BY <1>1 DEF Later

\* What is said of calls and of what has been read stays true when others write.
LEMMA SaidLater ==
    ASSUME VaultInv, VaultInv', Descends, Later
    PROVE  /\ \A c, P : CallOk(c, P) => CallOk(c, P)'
           /\ \A i, P : InfoOk(i, P) => InfoOk(i, P)'
           /\ \A i : ItemOk(i) => ItemOk(i)'
           /\ \A pg, P, I : Presents(pg, P, I) => Presents(pg, P, I)'
<1>1. nextId \in Nat /\ nextId' \in Nat /\ nextId <= nextId'
    BY DEF VaultInv, ProjectInv, Descends
<1>2. 1..(nextId - 1) \subseteq 1..(nextId' - 1)
    BY <1>1, Identities
<1>3. ASSUME NEW c, NEW o, AsksFor(c, o) PROVE AsksFor(c, o)'
    <2>1. PICK id, s : id = c.id /\ s = o.slug
        OBVIOUS
    <2>2. CASE c.scope = "project"
        <3>1. id \in 1..(nextId - 1) /\ s # Shared /\ Home(id, s)
            BY <1>3, <2>1, <2>2 DEF AsksFor
        <3>2. Home(id, s)'
            BY <3>1, HomeNext DEF Later
        <3>3. c.id \in 1..(nextId' - 1) /\ Home(c.id, o.slug)'
            BY <1>2, <2>1, <3>1, <3>2
        <3> QED
            BY <1>3, <2>2, <3>3 DEF AsksFor
    <2>3. CASE c.scope # "project"
        BY <1>3, <2>3 DEF AsksFor, Later
    <2> QED
        BY <2>2, <2>3
<1>4. ASSUME NEW c, NEW P, CallOk(c, P) PROVE CallOk(c, P)'
    BY <1>3, <1>4 DEF CallOk
<1>5. ASSUME NEW i, NEW P, InfoOk(i, P) PROVE InfoOk(i, P)'
    <2>1. ASSUME NEW o \in Opened(P)
          PROVE  /\ \E d \in seen'.definitions :
                        d.slug = o.slug /\ d.env = o.env /\ d.key = i.key /\ SameMeta(i, d)
                 /\ \A s \in Wide :
                       /\ s \in i.overrides => At(seen', Spot(i, o), s) # {}
                       /\ Own(Spot(i, o)) \in Narrower(s) =>
                             \A d \in At(always', Spot(i, o), s) : s \in i.overrides \/ Awaits(P, i, s, d)
        <3>1. \E d \in seen'.definitions :
                  d.slug = o.slug /\ d.env = o.env /\ d.key = i.key /\ SameMeta(i, d)
            BY <1>5, <2>1 DEF InfoOk, Later
        <3>2. ASSUME NEW s \in Wide
              PROVE  /\ s \in i.overrides => At(seen', Spot(i, o), s) # {}
                     /\ Own(Spot(i, o)) \in Narrower(s) =>
                           \A d \in At(always', Spot(i, o), s) : s \in i.overrides \/ Awaits(P, i, s, d)
            <4>1. PICK x : x = Spot(i, o)
                OBVIOUS
            <4>2. At(seen, x, s) \subseteq At(seen', x, s) /\ At(always', x, s) \subseteq At(always, x, s)
                BY AtLater
            <4>3. /\ s \in i.overrides => At(seen, x, s) # {}
                  /\ Own(x) \in Narrower(s) =>
                        \A d \in At(always, x, s) : s \in i.overrides \/ Awaits(P, i, s, d)
                BY <1>5, <2>1, <3>2, <4>1 DEF InfoOk
            <4> QED
                BY <4>1, <4>2, <4>3
        <3> QED
            BY <3>1, <3>2
    <2>2. DOMAIN i = {"key", "sensitive", "kind", "hint", "overrides"}
        BY <1>5 DEF InfoOk
    <2> QED
        BY <2>1, <2>2 DEF InfoOk
<1>6. ASSUME NEW i, ItemOk(i) PROVE ItemOk(i)'
    <2>1. /\ i.which \in {"scope", "effective"} /\ (i.value # None => ~i.sensitive)
          /\ \E d \in At(seen, i, Source(i)) : SameMeta(i, d)
          /\ i.which = "scope" =>
                \A s \in Wide :
                    /\ s \in i.scopes => At(seen, i, s) # {}
                    /\ Own(i) \in Narrower(s) /\ At(always, i, s) # {} => s \in i.scopes
          /\ i.which = "effective" => \A s \in Narrower(Source(i)) : At(always, i, s) = {}
        BY <1>6 DEF ItemOk
    <2>2. \A s : At(seen, i, s) \subseteq At(seen', i, s) /\ At(always', i, s) \subseteq At(always, i, s)
        BY AtLater
    <2>3. \E d \in At(seen', i, Source(i)) : SameMeta(i, d)
        BY <2>1, <2>2
    <2>4. i.which = "scope" =>
              \A s \in Wide :
                  /\ s \in i.scopes => At(seen', i, s) # {}
                  /\ Own(i) \in Narrower(s) /\ At(always', i, s) # {} => s \in i.scopes
        BY <2>1, <2>2
    <2>5. i.which = "effective" => \A s \in Narrower(Source(i)) : At(always', i, s) = {}
        BY <2>1, <2>2
    <2> QED
        BY <2>1, <2>3, <2>4, <2>5 DEF ItemOk
<1>7. ASSUME NEW pg, NEW P, NEW I, Presents(pg, P, I) PROVE Presents(pg, P, I)'
    BY <1>7 DEF Presents, Later
<1> QED
    BY <1>4, <1>5, <1>6, <1>7

\* What others do while the page is read.
LEMMA EditKeeps ==
    ASSUME ViewInv, Edit
    PROVE  ViewInv'
<1>1. PICK q, id : WellNamed(q) /\ Binds(q, id) /\ TakesEffect(q, id)
    BY DEF Edit
<1>2. /\ answer = "reading" /\ UNCHANGED view
      /\ seen' = Joined(seen, View') /\ always' = Common(always, View')
    BY DEF Edit
<1>3. UNCHANGED <<answer, todo, bound, infos, page>>
    BY <1>2 DEF view, call
<1>4. VaultInv' /\ Descends
    BY <1>1, EffectKeeps DEF ViewInv
<1>5. Later /\ ViewHistory'
    <2>1. PICK v : v = View'
        OBVIOUS
    <2>2. Picture(seen) /\ Picture(always) /\ Picture(v)
        BY <2>1 DEF ViewInv, ViewHistory, View, Picture
    <2>3. /\ Picture(seen') /\ seen'.projects = seen.projects \cup v.projects
          /\ seen'.environments = seen.environments \cup v.environments
          /\ seen'.definitions = seen.definitions \cup v.definitions
        BY <1>2, <2>1, <2>2, PictureFields
    <2>4. /\ Picture(always') /\ always'.projects = always.projects \cap v.projects
          /\ always'.environments = always.environments \cap v.environments
          /\ always'.definitions = always.definitions \cap v.definitions
        BY <1>2, <2>1, <2>2, PictureFields
    <2>5. Within(v, seen') /\ Within(always', v)
        BY <2>2, <2>3, <2>4, PictureFields
    <2> QED
        BY <2>1, <2>3, <2>4, <2>5 DEF ViewHistory, Later
<1>6. TodoInv'
    BY <1>3, <1>4, <1>5, SaidLater DEF ViewInv, TodoInv
<1>7. BoundInv'
    <2>1. nextId \in Nat /\ nextId' \in Nat /\ nextId <= nextId' /\ bound \in 0..(nextId - 1)
        BY <1>4 DEF Descends, ViewInv, VaultInv, ProjectInv, BoundInv
    <2>2. bound' \in 0..(nextId' - 1)
        BY <1>3, <2>1, Identities
    <2>3. ASSUME bound # 0
          PROVE  todo # <<>> /\ Head(todo).slug # Shared /\ Home(bound, Head(todo).slug)'
        <3>1. PICK i, s : i = bound /\ s = Head(todo).slug
            OBVIOUS
        <3>2. todo # <<>> /\ i \in 1..(nextId - 1) /\ s # Shared /\ Home(i, s)
            BY <2>1, <2>3, <3>1 DEF ViewInv, BoundInv
        <3>3. Home(i, s)'
            BY <1>4, <1>5, <3>2, HomeNext DEF ViewInv, Later
        <3> QED
            BY <1>3, <3>1, <3>2, <3>3
    <2> QED
        BY <1>3, <2>2, <2>3 DEF BoundInv
<1>8. InfosInv'
    BY <1>3, <1>4, <1>5, SaidLater DEF ViewInv, InfosInv
<1>9. PageInv'
    BY <1>2, <1>3, <1>4, <1>5, SaidLater DEF ViewInv, PageInv, Later
<1> QED
    BY <1>4, <1>5, <1>6, <1>7, <1>8, <1>9 DEF ViewInv

-----------------------------------------------------------------------------
(***************************************************************************)
(* The page: the theorems.                                                 *)
(***************************************************************************)

\* Before the page is asked for, there is none.
LEMMA ViewInitInv == VaultInv /\ ViewInit => ViewInv
<1> SUFFICES ASSUME VaultInv, ViewInit PROVE ViewInv
    OBVIOUS
<1> USE DEF ViewInit
<1>1. Listing(todo) /\ Range(todo) = {} /\ Sorted(todo)
    BY ShortListings, OuterSorted
<1>2. ViewHistory
    BY PictureFields DEF ViewHistory
<1>3. TodoInv
    BY <1>1 DEF TodoInv, Listing
<1>4. BoundInv
    BY Identities DEF BoundInv, VaultInv, ProjectInv
<1>5. InfosInv
    BY FS_EmptySet DEF InfosInv
<1>6. PageInv
    BY DEF PageInv
<1> QED
    BY <1>2, <1>3, <1>4, <1>5, <1>6 DEF ViewInv

\* Whatever the page has read, and whatever others have made of the vault since, what it
\* holds is accounted for: what it shows was there, and what stayed is shown or is still
\* to be read (handleState, the calls of the store that it makes, and their statements).
THEOREM ViewInvariant == ViewSpec => []ViewInv
<1>1. ViewInv /\ [ViewNext]_view_vars => ViewInv'
    <2> SUFFICES ASSUME ViewInv, [ViewNext]_view_vars PROVE ViewInv'
        OBVIOUS
    <2>1. CASE ListProjects
        BY <2>1, ListProjectsKeeps
    <2>2. CASE LookupProject
        BY <2>2, LookupProjectKeeps
    <2>3. CASE LookupEnvironment
        BY <2>3, LookupEnvironmentKeeps
    <2>4. CASE SelectSecrets
        BY <2>4, SelectSecretsKeeps
    <2>5. CASE SelectBroader
        BY <2>5, SelectBroaderKeeps
    <2>6. CASE SelectDefines
        BY <2>6, SelectDefinesKeeps
    <2>7. CASE SelectValues
        BY <2>7, SelectValuesKeeps
    <2>8. CASE SelectEnvironments
        BY <2>8, SelectEnvironmentsKeeps
    <2>9. CASE SelectEffective
        BY <2>9, SelectEffectiveKeeps
    <2>10. CASE SelectNames
        BY <2>10, SelectNamesKeeps
    <2>11. CASE StatementFails
        BY <2>11, StatementFailsKeeps
    <2>12. CASE Edit
        BY <2>12, EditKeeps
    <2>13. CASE UNCHANGED view_vars
        <3>1. UNCHANGED <<vault, history, answer, todo, bound, infos, page>>
            BY <2>13 DEF view_vars, view, call
        <3>2. View' = View /\ VaultInv' /\ seen' = seen /\ always' = always
            BY <3>1, StutterKeeps DEF ViewInv, vault, View, SlugOf, history
        <3>3. ViewHistory'
            BY <3>1, <3>2 DEF ViewInv, ViewHistory
        <3>4. TodoInv'
            BY <3>1, SaidStays DEF ViewInv, TodoInv
        <3>5. BoundInv'
            BY <3>1, SaidStays DEF ViewInv, BoundInv, vault
        <3>6. InfosInv'
            BY <3>1, SaidStays DEF ViewInv, InfosInv
        <3>7. PageInv'
            BY <3>1, <3>2, SaidStays DEF ViewInv, PageInv
        <3> QED
            BY <3>2, <3>3, <3>4, <3>5, <3>6, <3>7 DEF ViewInv
    <2> QED
        BY <2>1, <2>2, <2>3, <2>4, <2>5, <2>6, <2>7, <2>8, <2>9, <2>10, <2>11, <2>12, <2>13 DEF ViewNext
<1> QED
    BY <1>1, ViewInitInv, PTL DEF ViewSpec

\* What ItemOk says of the items of a page is what its readers are promised.
LEMMA PagePromised == ViewInv => PageRegular /\ SensitiveStaysHidden
<1> SUFFICES ASSUME ViewInv PROVE PageRegular /\ SensitiveStaysHidden
    OBVIOUS
<1>1. \A i \in page.items : ItemOk(i)
    BY DEF ViewInv, PageInv
<1>2. SensitiveStaysHidden
    BY <1>1 DEF SensitiveStaysHidden, ItemOk, SameMeta
<1>3. ASSUME answer = "page"
      PROVE  /\ always.projects \subseteq page.projects /\ page.projects \subseteq seen.projects
             /\ always.environments \subseteq page.environments
             /\ page.environments \subseteq seen.environments
             /\ \A i \in page.items : \E d \in At(seen, i, Source(i)) : SameMeta(i, d)
             /\ \A d \in always.definitions : \E i \in Items("scope") :
                   i.slug = d.slug /\ i.env = d.env /\ i.key = d.key /\ SameMeta(i, d)
             /\ \A i \in Items("scope"), s \in {"global", "environment", "project"} :
                   /\ s \in i.scopes => At(seen, i, s) # {}
                   /\ Own(i) \in Narrower(s) /\ At(always, i, s) # {} => s \in i.scopes
             /\ \A i \in Items("effective") : \A s \in Narrower(Source(i)) :
                   At(always, i, s) = {}
    <2>1. todo = <<>> /\ Range(todo) = {}
        BY <1>3, ShortListings DEF ViewInv, TodoInv
    <2>2. /\ always.projects \subseteq page.projects /\ page.projects \subseteq seen.projects
          /\ page.environments \subseteq seen.environments /\ Presents(page, {}, infos)
        BY <1>3, <2>1 DEF ViewInv, PageInv
    <2>3. \A d : ~InHand(d, {}, infos) /\ ~Ahead(d, {})
        BY DEF InHand, Ahead, Opened
    <2>4. /\ always.environments \subseteq page.environments
          /\ \A d \in always.definitions : OnPage(d, page)
        BY <2>2, <2>3 DEF Presents
    <2>5. \A d \in always.definitions : \E i \in Items("scope") :
              i.slug = d.slug /\ i.env = d.env /\ i.key = d.key /\ SameMeta(i, d)
        BY <2>4 DEF OnPage, Items
    <2>6. \A i \in page.items : \E d \in At(seen, i, Source(i)) : SameMeta(i, d)
        BY <1>1 DEF ItemOk
    <2>7. \A i \in Items("scope"), s \in {"global", "environment", "project"} :
              /\ s \in i.scopes => At(seen, i, s) # {}
              /\ Own(i) \in Narrower(s) /\ At(always, i, s) # {} => s \in i.scopes
        BY <1>1 DEF ItemOk, Items, Wide
    <2>8. \A i \in Items("effective") : \A s \in Narrower(Source(i)) : At(always, i, s) = {}
        BY <1>1 DEF ItemOk, Items
    <2> QED
        BY <2>2, <2>4, <2>5, <2>6, <2>7, <2>8
<1>4. PageRegular
    BY <1>3 DEF PageRegular
<1> QED
    BY <1>2, <1>4

\* A page that is answered shows what was there, and all that stayed, however many others
\* write while handleState reads it statement by statement.
THEOREM PageTrue == ViewSpec => []PageRegular
BY ViewInvariant, PagePromised, PTL

\* A value is on the page only with a definition that was open when it was read, whatever
\* happens between ScopeSecrets and ScopeValues (toSecretViews).
THEOREM SensitiveHidden == ViewSpec => []SensitiveStaysHidden
BY ViewInvariant, PagePromised, PTL

-----------------------------------------------------------------------------
(***************************************************************************)
(* The page: what it does not find.                                        *)
(***************************************************************************)

\* A project of the listing has the slug s, and in it the environment n, unless it has
\* been deleted.
Known(s) == \E id \in listed : \A pr \in projects : pr.id = id => pr.slug = s
KnownEnvironment(s, n) ==
    \E id \in listed : \/ Gone(id)
                       \/ HasEnvironment(id, n) /\ \E pr \in projects : pr.id = id /\ pr.slug = s

\* The calls of P ask for what the listing led to.
KnownCalls(P) ==
    \A c \in P : c.slug # Shared =>
        Known(c.slug) /\ (c.env # AllEnvs => KnownEnvironment(c.slug, c.env))

ListedInv ==
    /\ listed \subseteq 1..(nextId - 1)
    /\ KnownCalls(Range(todo))
    /\ bound # 0 => \A pr \in projects : pr.id \in listed /\ pr.slug = Head(todo).slug => pr.id = bound
    /\ answer = "not found" => \E id \in listed : Gone(id)

\* What is known does not change with the program.
LEMMA KnownStays ==
    ASSUME UNCHANGED <<vault, listed>>
    PROVE  /\ \A P : KnownCalls(P)' <=> KnownCalls(P)
           /\ \A id : Gone(id)' <=> Gone(id)
BY DEF vault, KnownCalls, Known, KnownEnvironment, Gone, HasEnvironment

\* The page goes on with calls that ask for what is known.
LEMMA ListedGoesOn ==
    ASSUME ListedInv, UNCHANGED <<vault, listed>>, NEW calls, NextCall(calls), KnownCalls(Range(calls))
    PROVE  ListedInv'
<1>1. todo' = calls /\ bound' = 0 /\ answer' # "not found" /\ nextId' = nextId /\ listed' = listed
    BY DEF NextCall, vault
<1>2. PICK P : P = Range(calls)
    OBVIOUS
<1>3. KnownCalls(P)'
    BY <1>2, KnownStays
<1> QED
    BY <1>1, <1>2, <1>3 DEF ListedInv

\* A lookup leads to the project of the listing, or finds that one is gone.
LEMMA LookupProjectListed ==
    ASSUME ViewInv, ListedInv, LookupProject
    PROVE  ListedInv'
<1>1. /\ answer = "reading" /\ Head(todo).slug # Shared /\ UNCHANGED <<vault, listed>>
      /\ nextId \in Nat \ {0} /\ listed \subseteq 1..(nextId - 1) /\ KnownCalls(Range(todo))
    BY DEF LookupProject, ListedInv, ViewInv, VaultInv, ProjectInv
<1>2. nextId' = nextId /\ projects' = projects /\ listed' = listed
    BY <1>1 DEF vault
<1>3. CASE Named(Head(todo).slug) = {} /\ Answers("not found")
    <2>1. KnownCalls(Range(todo)) /\ Head(todo) \in Range(todo)
        BY <1>1, FrontFacts
    <2>2. PICK id \in listed : \A pr \in projects : pr.id = id => pr.slug = Head(todo).slug
        BY <1>1, <2>1 DEF KnownCalls, Known
    <2>3. id \in 1..(nextId - 1)
        BY <1>1, <2>2
    <2>4. id # 0
        BY <2>3
    <2>5. Gone(id)
        BY <1>3, <2>2, <2>4 DEF Gone, Named
    <2>6. Gone(id)'
        BY <1>1, <2>5, KnownStays
    <2>7. todo' = <<>> /\ bound' = 0
        BY <1>3 DEF Answers
    <2>8. KnownCalls({})'
        BY DEF KnownCalls
    <2> QED
        BY <1>1, <1>2, <2>2, <2>6, <2>7, <2>8, ShortListings DEF ListedInv
<1>4. CASE /\ \E pr \in Named(Head(todo).slug) : bound' = pr.id
           /\ UNCHANGED <<answer, todo, checked, infos, page>>
    <2>1. PICK pr \in projects : pr.slug = Head(todo).slug /\ bound' = pr.id
        BY <1>4 DEF Named
    <2>2. \A po \in projects : po.slug = Head(todo).slug => po = pr
        BY <2>1 DEF ViewInv, VaultInv, ProjectInv
    <2>3. KnownCalls(Range(todo))'
        BY <1>1, <1>4, KnownStays
    <2> QED
        BY <1>1, <1>2, <1>4, <2>1, <2>2, <2>3 DEF ListedInv
<1> QED
    BY <1>3, <1>4 DEF LookupProject

\* So does one of an environment.
LEMMA LookupEnvironmentListed ==
    ASSUME ViewInv, ListedInv, LookupEnvironment
    PROVE  ListedInv'
<1>1. PICK t, s, n : t = Head(todo) /\ s = t.slug /\ n = t.env
    OBVIOUS
<1>2. /\ answer = "reading" /\ NeedsEnvironment(t) /\ UNCHANGED <<vault, listed>>
      /\ KnownCalls(Range(todo)) /\ t \in Range(todo)
    BY <1>1, FrontFacts DEF LookupEnvironment, ListedInv
<1>3. nextId' = nextId /\ projects' = projects /\ listed' = listed
    BY <1>2 DEF vault
<1>4. CASE ~HasEnvironment(bound, n) /\ Answers("not found")
    <2>1. bound # 0 /\ n # AllEnvs /\ s # Shared
        BY <1>1, <1>2 DEF NeedsEnvironment, ViewInv, BoundInv
    <2>2. KnownEnvironment(s, n)
        BY <1>1, <1>2, <2>1 DEF KnownCalls
    <2>3. PICK id \in listed : \/ Gone(id)
                               \/ HasEnvironment(id, n) /\ \E pr \in projects : pr.id = id /\ pr.slug = s
        BY <2>2 DEF KnownEnvironment
    <2>4. \A pr \in projects : pr.id \in listed /\ pr.slug = s => pr.id = bound
        BY <1>1, <2>1 DEF ListedInv
    <2>5. Gone(id)
        BY <1>4, <2>3, <2>4
    <2>6. Gone(id)'
        BY <1>2, <2>5, KnownStays
    <2>7. todo' = <<>> /\ bound' = 0
        BY <1>4 DEF Answers
    <2>8. KnownCalls({})'
        BY DEF KnownCalls
    <2> QED
        BY <1>3, <2>3, <2>6, <2>7, <2>8, ShortListings DEF ListedInv
<1>5. CASE UNCHANGED <<answer, todo, bound, infos, page>>
    <2>1. KnownCalls(Range(todo))'
        BY <1>2, <1>5, KnownStays
    <2> QED
        BY <1>2, <1>3, <1>5, <2>1 DEF ListedInv
<1> QED
    BY <1>1, <1>4, <1>5 DEF LookupEnvironment

\* The statements ask for the environments that the project has, otherwise for nothing new.
LEMMA SelectListed ==
    ASSUME ViewInv, ListedInv,
           \/ SelectSecrets \/ SelectBroader \/ SelectDefines \/ SelectValues
           \/ SelectEnvironments \/ SelectEffective \/ SelectNames
    PROVE  ListedInv'
<1>1. PICK t, R : t = Head(todo) /\ R = Range(Tail(todo))
    OBVIOUS
<1>2. answer = "reading" /\ UNCHANGED <<vault, listed>>
    BY DEF SelectSecrets, SelectBroader, SelectDefines, SelectValues, SelectEnvironments,
           SelectEffective, SelectNames, Runs
<1>3. /\ Listing(Tail(todo)) /\ Range(todo) = {t} \cup R /\ Listing(todo) /\ Sorted(todo) /\ todo # <<>>
      /\ VaultInv
    BY <1>1, <1>2, FrontFacts DEF ViewInv, TodoInv, Listing
<1>4. /\ KnownCalls(R)
      /\ t.slug # Shared => Known(t.slug) /\ (t.env # AllEnvs => KnownEnvironment(t.slug, t.env))
    BY <1>3 DEF ListedInv, KnownCalls
<1>5. ASSUME NEW C, NEW calls, Range(calls) = C \cup R, NextCall(calls), KnownCalls(C)
      PROVE  ListedInv'
    <2>1. KnownCalls(Range(calls))
        BY <1>4, <1>5 DEF KnownCalls
    <2> QED
        BY <1>2, <1>5, <2>1, ListedGoesOn
<1>6. CASE SelectSecrets
    <2>0. PICK I, id : I = {Info(d) : d \in InScope(bound, t.env)} /\ id = bound
        OBVIOUS
    <2>1. PICK o, front :
              /\ o = Do("values", t.slug, t.env)
              /\ front = IF t.slug # Shared /\ t.env = AllEnvs THEN <<Do("broader", t.slug, AllEnvs)>>
                         ELSE OverrideCalls(I, BroaderDefs(t.slug, id, t.env, {}))
        OBVIOUS
    <2>2. NextCall(front \o <<o>> \o Tail(todo))
        BY <1>1, <1>6, <2>0, <2>1 DEF SelectSecrets
    <2>3. IsFiniteSet(I)
        <3>1. PICK f, S : f = [d \in definitions |-> Info(d)] /\ S = InScope(bound, t.env)
            OBVIOUS
        <3>2. S \subseteq definitions /\ IsFiniteSet(S)
            BY <1>3, <3>1, FS_Subset DEF InScope, VaultInv, DefinitionInv
        <3>3. IsFiniteSet({f[d] : d \in S})
            BY <3>2, ImageFinite
        <3>4. {f[d] : d \in S} = I
            BY <2>0, <3>1, <3>2
        <3> QED
            BY <3>3, <3>4
    <2>4. /\ Listing(front)
          /\ IF t.slug # Shared /\ t.env = AllEnvs THEN Range(front) = {Do("broader", t.slug, AllEnvs)}
                                                   ELSE Range(front) = Inquiries(id, o, {}, I)
        BY ONLY <2>1, <2>3, ScopeAsks
    <2>5. \A c \in Range(front) : c.slug = Shared \/ (c.slug = t.slug /\ c.env = AllEnvs)
        BY <2>4, DoFields, OverriddenFields DEF Inquiries, Asked
    <2>6. Range(front \o <<o>> \o Tail(todo)) = (Range(front) \cup {o}) \cup R
        BY <1>1, <1>3, <2>4, ShortListings, ListingConcat
    <2>7. o.slug = t.slug /\ o.env = t.env
        BY <2>1, DoFields
    <2>8. KnownCalls(Range(front) \cup {o})
        BY <1>4, <2>5, <2>7 DEF KnownCalls
    <2> QED
        BY <1>5, <2>2, <2>6, <2>8
<1>7. CASE SelectBroader
    <2>1. PICK b, names, asked :
              /\ names = EnvironmentsOf(bound) /\ b = BroaderDefs(t.slug, bound, t.env, names)
              /\ asked = OverrideCalls(infos, b)
        OBVIOUS
    <2>2. NextCall(asked \o Tail(todo))
        BY <1>1, <1>7, <2>1 DEF SelectBroader
    <2>3. IsFiniteSet(names) /\ AllEnvs \notin names
        BY <1>3, <2>1, VaultNames, ReadersAssumption
    <2>4. PICK B : B = BroaderSet(t.slug, bound, t.env, names)
        OBVIOUS
    <2>5. Listing(b) /\ Range(b) = B /\ \A x \in B : x = Asked(None, x)
        BY <2>1, <2>3, <2>4, BroaderListed
    <2>6. Listing(asked) /\ Range(asked) = {Asked(i.key, x) : i \in infos, x \in B}
        BY <2>1, <2>5, OverridesListed DEF ViewInv, InfosInv
    <2>7. \A c \in Range(asked) : c.slug = Shared
        BY <2>6, OverriddenFields DEF Asked
    <2>8. Range(asked \o Tail(todo)) = Range(asked) \cup R
        BY <1>1, <1>3, <2>6, ListingConcat
    <2>9. KnownCalls(Range(asked))
        BY <2>7 DEF KnownCalls
    <2> QED
        BY <1>5, <2>2, <2>8, <2>9
<1>8. CASE SelectDefines
    <2>1. PICK n \in 1..(Len(todo) - 1) : NextCall(SubSeq(todo, n + 1, Len(todo)))
        BY <1>8 DEF SelectDefines
    <2>2. PICK q : q = SubSeq(todo, n + 1, Len(todo))
        OBVIOUS
    <2>3. Range(q) \subseteq Range(todo)
        BY <1>3, <2>2, ListingRest
    <2>4. KnownCalls(Range(q))
        BY <2>3 DEF ListedInv, KnownCalls
    <2> QED
        BY <1>2, <2>1, <2>2, <2>4, ListedGoesOn
<1>9. CASE SelectValues \/ SelectEffective
    <2>1. NextCall(Tail(todo))
        BY <1>9 DEF SelectValues, SelectEffective
    <2> QED
        BY <1>1, <1>2, <1>4, <2>1, ListedGoesOn
<1>10. CASE SelectEnvironments
    <2>1. PICK names, f, more :
              /\ names = EnvironmentsOf(bound)
              /\ f = [n \in names |-> EnvironmentViews(t.slug, n)] /\ more = Calls(names, f)
        OBVIOUS
    <2>2. NextCall(more \o Tail(todo)) /\ t.want = "environments" /\ Ready(t)
        BY <1>1, <1>10, <2>1 DEF SelectEnvironments, Runs
    <2>3. t.slug # Shared /\ bound # 0
        BY <1>1, <1>2, <2>2, FrontFacts DEF CallOk, Ready
    <2>4. \A n \in names :
              /\ Listing(f[n])
              /\ Range(f[n]) = {Do("secrets", t.slug, n), Do("effective", t.slug, n)}
        BY <2>1, ShortListings DEF EnvironmentViews
    <2>5. IsFiniteSet(names)
        BY <1>3, <2>1, VaultNames
    <2>6. Listing(Calls(names, f)) /\ Range(Calls(names, f)) = UNION {Range(f[n]) : n \in names}
        BY <2>4, <2>5, ListingCalls
    <2>7. \A n \in names : KnownEnvironment(t.slug, n)
        <3> SUFFICES ASSUME NEW n \in names PROVE KnownEnvironment(t.slug, n)
            OBVIOUS
        <3>1. PICK e \in environments : e.pid = bound /\ e.name = n
            BY <1>3, <2>1, VaultNames
        <3>2. HasEnvironment(bound, n)
            BY <1>3, <3>1 DEF HasEnvironment, VaultInv, EnvironmentInv
        <3>3. PICK id \in listed : \A pr \in projects : pr.id = id => pr.slug = t.slug
            BY <1>4, <2>3 DEF Known
        <3>4. CASE Gone(id)
            BY <3>3, <3>4 DEF KnownEnvironment
        <3>5. CASE ~Gone(id)
            <4>1. id \in 1..(nextId - 1) /\ nextId \in Nat
                BY <1>3, <3>3 DEF ListedInv, VaultInv, ProjectInv
            <4>2. id # 0
                BY <4>1
            <4>3. PICK pr \in projects : pr.id = id
                BY <3>5, <4>2 DEF Gone
            <4>4. pr.slug = t.slug
                BY <3>3, <4>3
            <4>5. id = bound
                BY <1>1, <2>3, <3>3, <4>3, <4>4 DEF ListedInv
            <4> QED
                BY <3>2, <3>3, <4>3, <4>4, <4>5 DEF KnownEnvironment
        <3> QED
            BY <3>4, <3>5
    <2>8. Range(more \o Tail(todo)) = Range(more) \cup R
        BY <1>1, <1>3, <2>1, <2>6, ListingConcat
    <2>9. \A c \in Range(more) : c.slug = t.slug /\ c.env \in names
        BY <2>1, <2>4, <2>6, DoFields
    <2>10. KnownCalls(Range(more))
        BY <1>4, <2>3, <2>7, <2>9 DEF KnownCalls
    <2> QED
        BY <1>5, <2>2, <2>8, <2>10
<1>11. CASE SelectNames
    <2>1. PICK names, f, more :
              /\ names = SharedEnvironments
              /\ f = [n \in names |-> <<Do("secrets", Shared, n)>>] /\ more = Calls(names, f)
        OBVIOUS
    <2>2. NextCall(more \o Tail(todo))
        BY <1>11, <2>1 DEF SelectNames
    <2>3. \A n \in names : Listing(f[n]) /\ Range(f[n]) = {Do("secrets", Shared, n)}
        BY <2>1, ShortListings
    <2>4. IsFiniteSet(names)
        BY <1>3, <2>1, VaultNames
    <2>5. Listing(Calls(names, f)) /\ Range(Calls(names, f)) = UNION {Range(f[n]) : n \in names}
        BY <2>3, <2>4, ListingCalls
    <2>6. Range(more \o Tail(todo)) = Range(more) \cup R
        BY <1>1, <1>3, <2>1, <2>5, ListingConcat
    <2>7. ASSUME NEW c \in Range(more) PROVE c.slug = Shared
        <3>1. PICK n \in names : c \in Range(f[n])
            BY <2>1, <2>5
        <3>2. c = Do("secrets", Shared, n)
            BY <2>3, <3>1
        <3> QED
            BY <3>2, DoFields
    <2>8. KnownCalls(Range(more))
        BY <2>7 DEF KnownCalls
    <2> QED
        BY <1>5, <2>2, <2>6, <2>8
<1> QED
    BY <1>6, <1>7, <1>8, <1>9, <1>10, <1>11

\* Others take a project and its environments away together.
LEMMA EnvironmentsLeft ==
    ASSUME VaultInv, NEW q, NEW id, q.op # "DeleteEnvironment", TakesEffect(q, id)
    PROVE  \A e \in environments : e \in environments' \/ Gone(e.pid)'
<1> SUFFICES ASSUME NEW e \in environments, e \notin environments' PROVE Gone(e.pid)'
    OBVIOUS
<1>1. q.op = "DeleteProject" /\ DeleteProject(q)
    BY DEF TakesEffect, Apply, CreateProject, SetAllow, CreateEnvironment, Define, vault
<1>2. e.pid \in {pr.id : pr \in Named(q.slug)} /\ projects' = projects \ Named(q.slug)
    BY <1>1 DEF DeleteProject
<1>3. e.pid # 0
    BY DEF VaultInv, EnvironmentInv
<1>4. \A pr, po \in projects : pr.id = po.id => pr = po
    BY DEF VaultInv, ProjectInv
<1> QED
    BY <1>2, <1>3, <1>4 DEF Gone, Named

\* What others do, short of taking an environment away, leaves what is known.
LEMMA EditListed ==
    ASSUME ViewInv, ListedInv, \A q \in Edits : q.op # "DeleteEnvironment", Edit
    PROVE  ListedInv'
<1>1. PICK q \in Edits, x \in 0..MaxProjects : WellNamed(q) /\ Binds(q, x) /\ TakesEffect(q, x)
    BY DEF Edit
<1>2. answer = "reading" /\ UNCHANGED <<answer, todo, bound, listed>>
    BY DEF Edit, view, call
<1>3. VaultInv /\ VaultInv' /\ Descends
    BY <1>1, EffectKeeps DEF ViewInv
<1>4. /\ nextId \in Nat /\ nextId' \in Nat /\ nextId <= nextId'
      /\ listed \subseteq 1..(nextId - 1) /\ listed \subseteq 1..(nextId' - 1)
    <2>1. nextId \in Nat /\ nextId' \in Nat /\ nextId <= nextId' /\ listed \subseteq 1..(nextId - 1)
        BY <1>3 DEF VaultInv, ProjectInv, Descends, ListedInv
    <2>2. 1..(nextId - 1) \subseteq 1..(nextId' - 1)
        BY <2>1, Identities
    <2> QED
        BY <2>1, <2>2
<1>5. \A id \in listed : \A po \in projects' : po.id = id =>
          \E pr \in projects : pr.id = id /\ pr.slug = po.slug
    <2> SUFFICES ASSUME NEW id \in listed, NEW po \in projects', po.id = id
                 PROVE  \E pr \in projects : pr.id = id /\ pr.slug = po.slug
        OBVIOUS
    <2>1. id \notin nextId..(nextId' - 1)
        BY <1>4, Identities
    <2> QED
        BY <1>3, <2>1 DEF Descends
<1>6. \A id \in listed : Gone(id) => Gone(id)'
    BY <1>5 DEF Gone
<1>7. ASSUME NEW s, Known(s) PROVE Known(s)'
    BY <1>2, <1>5, <1>7 DEF Known
<1>8. ASSUME NEW s, NEW n, KnownEnvironment(s, n) PROVE KnownEnvironment(s, n)'
    <2>1. PICK id \in listed : \/ Gone(id)
                               \/ HasEnvironment(id, n) /\ \E pr \in projects : pr.id = id /\ pr.slug = s
        BY <1>8 DEF KnownEnvironment
    <2>2. CASE Gone(id)'
        BY <1>2, <2>2 DEF KnownEnvironment
    <2>3. CASE ~Gone(id)'
        <3>1. PICK pr \in projects : pr.id = id /\ pr.slug = s
            BY <1>6, <2>1, <2>3
        <3>2. HasEnvironment(id, n)
            BY <1>6, <2>1, <2>3
        <3>3. HasEnvironment(id, n)'
            <4>1. \A e \in environments : e \in environments' \/ Gone(e.pid)'
                BY <1>1, <1>3, EnvironmentsLeft
            <4>2. [pid |-> id, name |-> n] \in environments
                BY <3>2 DEF HasEnvironment
            <4> QED
                BY <2>3, <4>1, <4>2 DEF HasEnvironment
        <3>4. PICK po \in projects' : po.id = id
            BY <1>4, <2>1, <2>3 DEF Gone
        <3>5. PICK pp \in projects : pp.id = id /\ pp.slug = po.slug
            BY <1>5, <2>1, <3>4
        <3>6. pp = pr
            BY <1>3, <3>1, <3>5 DEF VaultInv, ProjectInv
        <3>7. po.slug = s
            BY <3>1, <3>5, <3>6
        <3> QED
            BY <1>2, <2>1, <3>3, <3>4, <3>7 DEF KnownEnvironment
    <2> QED
        BY <2>2, <2>3
<1>9. KnownCalls(Range(todo))'
    BY <1>2, <1>7, <1>8 DEF ListedInv, KnownCalls
<1>10. bound # 0 => \A po \in projects' : po.id \in listed /\ po.slug = Head(todo).slug => po.id = bound
    <2> SUFFICES ASSUME bound # 0, NEW po \in projects', po.id \in listed, po.slug = Head(todo).slug
                 PROVE  po.id = bound
        OBVIOUS
    <2>1. PICK pr \in projects : pr.id = po.id /\ pr.slug = po.slug
        BY <1>5
    <2> QED
        BY <2>1 DEF ListedInv
<1> QED
    BY <1>2, <1>4, <1>9, <1>10 DEF ListedInv

\* The page begins with the projects that it lists.
LEMMA ListProjectsListed ==
    ASSUME ViewInv, ListProjects
    PROVE  ListedInv'
<1>1. PICK f, a, b : /\ f = [pr \in projects |-> ProjectViews(pr.slug)] /\ a = Calls(projects, f)
                     /\ b = <<Do("secrets", Shared, AllEnvs), Do("names", Shared, AllEnvs)>>
    OBVIOUS
<1>2. NextCall(a \o b) /\ listed' = {pr.id : pr \in projects} /\ UNCHANGED vault
    BY <1>1 DEF ListProjects
<1>3. \A pr \in projects : Listing(f[pr]) /\ Range(f[pr]) = ProjectPlan(pr.slug)
    BY <1>1, ShortListings DEF ProjectViews, ProjectPlan
<1>4. IsFiniteSet(projects)
    BY DEF ViewInv, VaultInv, ProjectInv
<1>5. Listing(Calls(projects, f)) /\ Range(Calls(projects, f)) = UNION {Range(f[pr]) : pr \in projects}
    BY <1>3, <1>4, ListingCalls
<1>6. Range(a \o b) = Range(a) \cup {Do("secrets", Shared, AllEnvs), Do("names", Shared, AllEnvs)}
    BY <1>1, <1>5, ShortListings, ListingConcat
<1>7. ASSUME NEW c \in Range(a \o b)
      PROVE  c.env = AllEnvs /\ (c.slug = Shared \/ \E pr \in projects : c.slug = pr.slug)
    <2>1. CASE c \in Range(a)
        <3>1. PICK pr \in projects : c \in Range(f[pr])
            BY <1>1, <1>5, <2>1
        <3>2. c \in {Do("secrets", pr.slug, AllEnvs), Do("environments", pr.slug, AllEnvs)}
            BY <1>3, <3>1 DEF ProjectPlan
        <3> QED
            BY <3>2, DoFields
    <2>2. CASE c \notin Range(a)
        BY <1>6, <2>2, DoFields
    <2> QED
        BY <2>1, <2>2
<1>8. todo' = a \o b /\ bound' = 0 /\ answer' # "not found" /\ projects' = projects /\ nextId' = nextId
    BY <1>2 DEF NextCall, vault
<1>9. \A pr \in projects : Known(pr.slug)'
    <2>1. \A pr, po \in projects : po.id = pr.id => po.slug = pr.slug
        BY DEF ViewInv, VaultInv, ProjectInv
    <2>2. ASSUME NEW s, NEW pr \in projects, s = pr.slug PROVE Known(s)'
        <3>1. pr.id \in listed' /\ \A po \in projects' : po.id = pr.id => po.slug = s
            BY <1>2, <1>8, <2>1, <2>2
        <3> QED
            BY <3>1 DEF Known
    <2> QED
        BY <2>2
<1>10. KnownCalls(Range(todo))'
    BY <1>7, <1>8, <1>9 DEF KnownCalls
<1>11. listed' \subseteq 1..(nextId' - 1)
    <2>1. nextId \in Nat /\ \A pr \in projects : pr.id \in Nat \ {0} /\ pr.id < nextId
        BY DEF ViewInv, VaultInv, ProjectInv
    <2>2. \A pr \in projects : pr.id \in 1..(nextId - 1)
        BY <2>1
    <2> QED
        BY <1>2, <1>8, <2>2
<1> QED
    BY <1>8, <1>10, <1>11 DEF ListedInv

\* The page says that something is not there only if a project it has listed was deleted,
\* provided that nobody deletes an environment alone, which no command of the program does.
THEOREM NotFoundDeleted ==
    ASSUME \A q \in Edits : q.op # "DeleteEnvironment"
    PROVE  ViewSpec => []NotFoundMeansDeleted
<1>1. VaultInv /\ ViewInit => ListedInv
    <2> SUFFICES ASSUME VaultInv, ViewInit PROVE ListedInv
        OBVIOUS
    <2>1. todo = <<>> /\ listed = {} /\ bound = 0 /\ answer = "none"
        BY DEF ViewInit
    <2>2. KnownCalls({})
        BY DEF KnownCalls
    <2> QED
        BY <2>1, <2>2, ShortListings DEF ListedInv
<1>2. ViewInv /\ ListedInv /\ [ViewNext]_view_vars => ListedInv'
    <2> SUFFICES ASSUME ViewInv, ListedInv, [ViewNext]_view_vars PROVE ListedInv'
        OBVIOUS
    <2>1. CASE ListProjects
        BY <2>1, ListProjectsListed
    <2>2. CASE LookupProject
        BY <2>2, LookupProjectListed
    <2>3. CASE LookupEnvironment
        BY <2>3, LookupEnvironmentListed
    <2>4. CASE \/ SelectSecrets \/ SelectBroader \/ SelectDefines \/ SelectValues
               \/ SelectEnvironments \/ SelectEffective \/ SelectNames
        BY <2>4, SelectListed
    <2>5. CASE StatementFails
        <3>1. todo' = <<>> /\ bound' = 0 /\ answer' # "not found" /\ nextId' = nextId /\ listed' = listed
            BY <2>5 DEF StatementFails, Answers, vault
        <3>2. KnownCalls({})'
            BY DEF KnownCalls
        <3> QED
            BY <3>1, <3>2, ShortListings DEF ListedInv
    <2>6. CASE Edit
        BY <2>6, EditListed
    <2>7. CASE UNCHANGED view_vars
        <3>1. UNCHANGED <<vault, listed, answer, todo, bound>> /\ nextId' = nextId /\ projects' = projects
            BY <2>7 DEF view_vars, view, call, vault
        <3>2. KnownCalls(Range(todo))'
            BY <3>1, KnownStays DEF ListedInv
        <3>3. \A id : Gone(id)' <=> Gone(id)
            BY <3>1, KnownStays
        <3> QED
            BY <3>1, <3>2, <3>3 DEF ListedInv
    <2> QED
        BY <2>1, <2>2, <2>3, <2>4, <2>5, <2>6, <2>7 DEF ViewNext
<1>3. ListedInv => NotFoundMeansDeleted
    BY DEF ListedInv, NotFoundMeansDeleted
<1> QED
    BY <1>1, <1>2, <1>3, ViewInvariant, PTL DEF ViewSpec
=============================================================================
