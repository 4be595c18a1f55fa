--------------------------- MODULE VaultKeysProofs ---------------------------
(***************************************************************************)
(* Proofs about VaultKeys, for any passphrases, definitions and number of  *)
(* keys.  What a process holds is proved for any processes and commands;   *)
(* that a vault has one key, and keeps it, for the runs of one process at  *)
(* a time that verify their key before they write: it may die after any    *)
(* step and be started again with another command and another passphrase.  *)
(***************************************************************************)
EXTENDS VaultKeys, TLAPS

\* A process that has its key holds one of its own source.
Keyed == {"salt", "open", "verify", "serve"}
KeyInv(p) ==
    /\ pc[p] \in Keyed => key[p] \in Keys /\ key[p].by = source[p]
    /\ pc[p] = "salt" => key[p].of \in 1..made /\ source[p] # Keyring

HoldsInv == TypeOK /\ \A p \in Processes : KeyInv(p)

LEMMA HoldsInit == Init => HoldsInv
<1> SUFFICES ASSUME Init PROVE HoldsInv
    OBVIOUS
<1>1. \A p \in Processes : key[p] = None /\ key[p].by # Keyring
    BY DEF Init, None, Keyring
<1>2. TypeOK
    <2>1. keyring \in {{}} \cup {{n} : n \in 1..made} /\ salt \in {{}} \cup {{n} : n \in 0..made}
        BY DEF Init
    <2>2. made \in 0..MaxMade
        BY KeysAssumption DEF Init
    <2>4. vault \in BOOLEAN
        BY Zenon DEF Init
    <2>3. sealed \in [Definitions -> Keys \cup {None, Broken}] /\ key \in [Processes -> Keys \cup {None}]
        BY DEF Init
    <2> QED
        BY <1>1, <2>1, <2>2, <2>3, <2>4 DEF Init, TypeOK, Sources, Steps, Reports
<1>3. \A p \in Processes : KeyInv(p)
    BY DEF Init, KeyInv, Keyed
<1> QED
    BY <1>2, <1>3 DEF HoldsInv

LEMMA VerdictReported == ASSUME NEW p \in Processes PROVE Verdict(p) \in Reports
BY DEF Verdict, Reports

LEMMA HoldsStep == HoldsInv /\ [Next]_vars => HoldsInv'
<1> SUFFICES ASSUME HoldsInv, [Next]_vars PROVE HoldsInv'
    OBVIOUS
<1>1. CASE UNCHANGED vars
    BY <1>1 DEF vars, stored, HoldsInv, TypeOK, KeyInv
<1> USE KeysAssumption DEF HoldsInv, TypeOK, KeyInv, Keyed, Goto, End, stored
<1>2. ASSUME NEW p \in Processes, Start(p) PROVE HoldsInv'
    BY <1>2 DEF Start, Keys, None, Keyring, Steps, Reports
<1>3. ASSUME NEW p \in Processes, Die(p) PROVE HoldsInv'
    BY <1>3 DEF Die, Steps
<1>4. ASSUME NEW p \in Processes, Resolve(p) PROVE HoldsInv'
    BY <1>4 DEF Resolve, Steps, Reports
<1>5. ASSUME NEW p \in Processes, Stat(p) PROVE HoldsInv'
    BY <1>5 DEF Stat, Steps
<1>6. ASSUME NEW p \in Processes, ReadKey(p) PROVE HoldsInv'
    <2>1. CASE \E n \in Stored(source[p]) :
                  /\ key' = [key EXCEPT ![p] = [by |-> source[p], of |-> n]]
                  /\ Goto(p, "open") /\ UNCHANGED report
        <3>1. PICK n \in Stored(source[p]) :
                  /\ key' = [key EXCEPT ![p] = [by |-> source[p], of |-> n]]
                  /\ Goto(p, "open") /\ UNCHANGED report
            BY <2>1
        <3>2. n \in 0..made /\ (source[p] = Keyring => n \in 1..made)
            BY <3>1 DEF Stored
        <3>3. [by |-> source[p], of |-> n] \in Keys
            BY <3>2 DEF Keys
        <3> QED
            BY <1>6, <3>1, <3>2, <3>3 DEF ReadKey, Steps
    <2>2. CASE UNCHANGED key /\ (End(p, "locked") \/ (Goto(p, "make") /\ UNCHANGED report))
        BY <1>6, <2>2 DEF ReadKey, Steps, Reports
    <2> QED
        BY <1>6, <2>1, <2>2 DEF ReadKey
<1>7. ASSUME NEW p \in Processes, MakeKey(p) PROVE HoldsInv'
    <2>1. /\ made' = made + 1 /\ made' \in 0..MaxMade /\ made' \in 1..made' /\ made \in Nat
          /\ key' = [key EXCEPT ![p] = [by |-> source[p], of |-> made']]
          /\ UNCHANGED <<vault, sealed, cmd, source, existed, report>>
        BY <1>7 DEF MakeKey
    <2>2. [by |-> source[p], of |-> made'] \in Keys
        BY <2>1 DEF Keys
    <2>3. CASE source[p] = Keyring
        BY <1>7, <2>1, <2>2, <2>3 DEF MakeKey, Steps
    <2>4. CASE source[p] # Keyring
        BY <1>7, <2>1, <2>2, <2>4 DEF MakeKey, Steps
    <2> QED
        BY <2>3, <2>4
<1>8. ASSUME NEW p \in Processes, WriteSalt(p) PROVE HoldsInv'
    BY <1>8 DEF WriteSalt, Steps
<1>9. ASSUME NEW p \in Processes, OpenStore(p) PROVE HoldsInv'
    BY <1>9 DEF OpenStore, Steps
<1>10. ASSUME NEW p \in Processes, Verify(p) PROVE HoldsInv'
    BY <1>10, VerdictReported DEF Verify, Steps
<1>11. ASSUME NEW p \in Processes, Write(p) PROVE HoldsInv'
    BY <1>11 DEF Write
<1>12. ASSUME NEW p \in Processes, Serve(p) PROVE HoldsInv'
    BY <1>12 DEF Serve, Reports
<1> QED
    BY <1>1, <1>2, <1>3, <1>4, <1>5, <1>6, <1>7, <1>8, <1>9, <1>10, <1>11, <1>12 DEF Next

THEOREM HoldsInvariant == Spec => []HoldsInv
BY HoldsInit, HoldsStep, PTL DEF Spec

\* However many processes fetch and make keys at once, and wherever they die:
\* nobody works with a key of the keyring that was never in it, and nothing is
\* sealed with anything but a key that was made or a salt cut short.
THEOREM KeysTyped == Spec => []TypeOK
<1>1. HoldsInv => TypeOK
    BY DEF HoldsInv
<1> QED
    BY <1>1, HoldsInvariant, PTL

-----------------------------------------------------------------------------
(***************************************************************************)
(* One process at a time, none of which skips the verification and writes. *)
(***************************************************************************)
OneProcess == \A p, q \in Processes : p = q
NoImport == "import" \notin Commands

\* The key a process took is still the one that is stored, a key is made only
\* for a vault that is not there, and who may write has the key of all there is.
AloneKeyInv(p) ==
    /\ pc[p] \in {"key", "make", "salt"} /\ ~existed[p] => ~vault
    /\ pc[p] \in {"make", "salt"} => ~existed[p]
    /\ pc[p] \in {"open", "verify", "serve"} => key[p].of \in Stored(source[p])
    /\ pc[p] \in {"verify", "serve"} => vault
    /\ pc[p] = "serve" /\ cmd[p] = "ui" => \A d \in Ciphertexts : sealed[d] = key[p]

AloneInv ==
    /\ OneKey /\ StillReadable
    /\ ~vault => Ciphertexts = {}
    /\ \A p \in Processes : AloneKeyInv(p)

\* A key of a source is neither of the marks for no key.
LEMMA KeyIsKey ==
    ASSUME HoldsInv, NEW p \in Processes, pc[p] \in Keyed
    PROVE  key[p] \notin {None, Broken} /\ key[p].by = source[p]
<1>1. key[p].by = source[p] /\ source[p] \in Sources
    BY DEF HoldsInv, KeyInv, TypeOK
<1>2. source[p] # "none" /\ source[p] # "broken"
    BY <1>1, KeysAssumption DEF Sources, Keyring
<1> QED
    BY <1>1, <1>2 DEF None, Broken

\* A definition that is sealed with the key of a process is a ciphertext.
LEMMA SealedWithKey ==
    ASSUME HoldsInv, NEW p \in Processes, pc[p] \in Keyed, NEW d \in Definitions, sealed[d] = key[p]
    PROVE  d \in Ciphertexts
BY KeyIsKey DEF Ciphertexts

LEMMA AloneInit == Init => AloneInv
BY DEF Init, AloneInv, AloneKeyInv, OneKey, StillReadable, Ciphertexts

\* A verified process has the key of all there is.
LEMMA Verified ==
    ASSUME HoldsInv, OneKey, NEW p \in Processes, pc[p] = "verify", Verdict(p) = "served"
    PROVE  \A d \in Ciphertexts : sealed[d] = key[p]
<1>1. Defined = {} \/ \E d \in Defined : sealed[d] = key[p]
    BY DEF Verdict
<1>2. CASE Defined = {}
    BY <1>2 DEF Defined, Ciphertexts
<1>3. CASE \E d \in Defined : sealed[d] = key[p]
    <2>1. PICK d \in Defined : sealed[d] = key[p]
        BY <1>3
    <2>2. d \in Ciphertexts
        BY <2>1, SealedWithKey DEF Defined, Keyed
    <2> QED
        BY <2>1, <2>2 DEF OneKey
<1> QED
    BY <1>1, <1>2, <1>3

LEMMA AloneStep ==
    ASSUME OneProcess, NoImport, HoldsInv, AloneInv, [Next]_vars
    PROVE  AloneInv'
<1>1. CASE UNCHANGED vars
    BY <1>1 DEF vars, stored, AloneInv, AloneKeyInv, OneKey, StillReadable, Ciphertexts, Stored
<1>2. ASSUME NEW p \in Processes,
             \/ Start(p) \/ Die(p) \/ Resolve(p) \/ Stat(p) \/ ReadKey(p) \/ MakeKey(p)
             \/ WriteSalt(p) \/ OpenStore(p) \/ Verify(p) \/ Write(p) \/ Serve(p)
      PROVE  AloneInv'
    <2>0. Processes = {p}
        BY DEF OneProcess
    <2>1. ASSUME UNCHANGED stored, AloneKeyInv(p)' PROVE AloneInv'
        BY <2>0, <2>1 DEF stored, AloneInv, OneKey, StillReadable, Ciphertexts, Stored
    <2> USE DEF Goto, End
    <2>2. CASE Start(p) \/ Die(p) \/ Resolve(p) \/ Stat(p)
        <3>1. AloneKeyInv(p)'
            <4>1. CASE Start(p) \/ Die(p) \/ Resolve(p)
                <5>1. pc'[p] \in {"provider", "off", "stat"}
                    BY <4>1 DEF Start, Die, Resolve, HoldsInv, TypeOK
                <5> QED
                    BY <5>1 DEF AloneKeyInv
            <4>2. CASE Stat(p)
                <5>1. pc'[p] = "key" /\ existed'[p] = vault /\ vault' = vault
                    BY <4>2 DEF Stat, HoldsInv, TypeOK, stored
                <5> QED
                    BY <5>1, Zenon DEF AloneKeyInv
            <4> QED
                BY <2>2, <4>1, <4>2
        <3> QED
            BY <2>1, <2>2, <3>1 DEF Start, Die, Resolve, Stat
    <2>3. CASE ReadKey(p)
        <3>1. pc[p] = "key" /\ AloneKeyInv(p)
            BY <2>3 DEF ReadKey, AloneInv
        <3>2. AloneKeyInv(p)'
            BY <2>3, <3>1 DEF ReadKey, MakesKey, Stored, HoldsInv, TypeOK, AloneKeyInv, stored
        <3> QED
            BY <2>1, <2>3, <3>2 DEF ReadKey
    <2>4. CASE MakeKey(p) \/ WriteSalt(p)
        <3>1. ~vault /\ Ciphertexts = {} /\ ~existed[p]
            BY <2>4 DEF MakeKey, WriteSalt, AloneInv, AloneKeyInv
        <3>2. UNCHANGED <<vault, sealed>>
            BY <2>4 DEF MakeKey, WriteSalt
        <3>3. OneKey' /\ StillReadable' /\ Ciphertexts' = {}
            BY <3>1, <3>2 DEF OneKey, StillReadable, Ciphertexts
        <3>4. AloneKeyInv(p)'
            <4>1. CASE MakeKey(p)
                BY <3>1, <4>1 DEF MakeKey, Stored, HoldsInv, TypeOK, AloneKeyInv
            <4>2. CASE WriteSalt(p)
                BY <3>1, <4>2 DEF WriteSalt, Stored, HoldsInv, TypeOK, KeyInv, AloneKeyInv
            <4> QED
                BY <2>4, <4>1, <4>2
        <3> QED
            BY <2>0, <3>3, <3>4 DEF AloneInv
    <2>5. CASE OpenStore(p)
        <3>1. UNCHANGED <<keyring, salt, sealed, source, key, cmd, existed>> /\ vault'
              /\ pc[p] = "open" /\ pc'[p] \in {"verify", "serve"}
              /\ (pc'[p] = "serve" => cmd[p] # "ui")
            BY <2>5 DEF OpenStore, Verifies, HoldsInv, TypeOK
        <3>2. OneKey' /\ StillReadable'
            BY <3>1 DEF AloneInv, OneKey, StillReadable, Ciphertexts, Stored
        <3>3. AloneKeyInv(p)'
            BY <3>1 DEF AloneInv, AloneKeyInv, Stored
        <3> QED
            BY <2>0, <3>1, <3>2, <3>3 DEF AloneInv
    <2>6. CASE Verify(p)
        <3>1. UNCHANGED <<stored, source, key, cmd, existed>> /\ pc[p] = "verify"
              /\ pc'[p] \in {"serve", "off"} /\ (pc'[p] = "serve" => Verdict(p) = "served")
            BY <2>6 DEF Verify, HoldsInv, TypeOK
        <3>2. pc'[p] = "serve" => \A d \in Ciphertexts : sealed[d] = key[p]
            BY <3>1, Verified DEF AloneInv
        <3>3. AloneKeyInv(p)'
            BY <3>1, <3>2 DEF AloneInv, AloneKeyInv, Stored, Ciphertexts, stored
        <3> QED
            BY <2>1, <3>1, <3>3
    <2>7. CASE Write(p)
        <3>1. cmd[p] = "ui" /\ pc[p] = "serve"
            BY <2>7 DEF Write, NoImport, HoldsInv, TypeOK
        <3>2. /\ UNCHANGED <<keyring, salt, vault, source, key, cmd, existed, pc>>
              /\ \E d \in Definitions :
                    sealed' \in {[sealed EXCEPT ![d] = key[p]], [sealed EXCEPT ![d] = None],
                                 [sealed EXCEPT ![d] = Broken]}
            BY <2>7 DEF Write
        <3>3. \A d \in Ciphertexts : sealed[d] = key[p]
            BY <3>1 DEF AloneInv, AloneKeyInv
        <3>4. \A d \in Ciphertexts' : sealed'[d] = key[p]
            BY <3>2, <3>3 DEF Ciphertexts, HoldsInv, TypeOK
        <3>5. key[p].of \in Stored(key[p].by)
            BY <3>1, KeyIsKey DEF AloneInv, AloneKeyInv, Keyed
        <3>6. OneKey' /\ StillReadable'
            BY <3>2, <3>4, <3>5 DEF OneKey, StillReadable, Stored
        <3>7. vault
            BY <3>1 DEF AloneInv, AloneKeyInv
        <3>8. AloneKeyInv(p)'
            BY <3>1, <3>2, <3>4 DEF AloneInv, AloneKeyInv, Stored
        <3> QED
            BY <2>0, <3>2, <3>6, <3>7, <3>8 DEF AloneInv
    <2>8. CASE Serve(p)
        <3>1. AloneKeyInv(p)'
            BY <2>8 DEF Serve, AloneInv, AloneKeyInv, Stored, Ciphertexts, stored
        <3> QED
            BY <2>1, <2>8, <3>1 DEF Serve
    <2> QED
        BY <1>2, <2>2, <2>3, <2>4, <2>5, <2>6, <2>7, <2>8
<1> QED
    BY <1>1, <1>2 DEF Next

LEMMA Alone ==
    ASSUME OneProcess, NoImport
    PROVE  Spec => [](HoldsInv /\ AloneInv)
<1>1. HoldsInv /\ AloneInv /\ [Next]_vars => AloneInv'
    BY AloneStep
<1> QED
    BY <1>1, AloneInit, HoldsInvariant, PTL DEF Spec

\* Processes that run one after the other seal everything with one key, whatever
\* passphrases they are started with and wherever they die.
THEOREM SealedWithOneKey == OneProcess /\ NoImport => (Spec => []OneKey)
<1> SUFFICES ASSUME OneProcess, NoImport PROVE Spec => []OneKey
    OBVIOUS
<1>1. AloneInv => OneKey
    BY DEF AloneInv
<1>2. Spec => [](HoldsInv /\ AloneInv)
    BY Alone
<1> QED
    BY <1>1, <1>2, PTL

\* Nor do they ever lose the key: it stays in the keyring, or its salt on disk.
THEOREM KeyStaysStored == OneProcess /\ NoImport => (Spec => []StillReadable)
<1> SUFFICES ASSUME OneProcess, NoImport PROVE Spec => []StillReadable
    OBVIOUS
<1>1. AloneInv => StillReadable
    BY DEF AloneInv
<1>2. Spec => [](HoldsInv /\ AloneInv)
    BY Alone
<1> QED
    BY <1>1, <1>2, PTL

\* What fails to decrypt is sealed with another key than the process has; with
\* one key in the vault so is the rest.
LEMMA MismatchIsReal ==
    ASSUME HoldsInv, OneKey, NEW p \in Processes, Verify(p) \/ Serve(p),
           report'[p] = "mismatch", report[p] # "mismatch"
    PROVE  \A d \in Definitions : sealed[d] # key[p]
<1>0. pc[p] \in Keyed
    BY DEF Verify, Serve, Keyed
<1> SUFFICES ASSUME NEW d \in Definitions, sealed[d] = key[p] PROVE FALSE
    OBVIOUS
<1>1. d \in Ciphertexts /\ d \in Defined
    BY <1>0, SealedWithKey DEF Ciphertexts, Defined
<1>2. CASE Verify(p)
    <2>1. Verdict(p) = "mismatch"
        BY <1>2 DEF Verify, Goto, End, HoldsInv, TypeOK
    <2>2. Verdict(p) \in {"served", "inconsistent"}
        BY <1>1 DEF Verdict
    <2> QED
        BY <2>1, <2>2
<1>3. CASE Serve(p)
    <2>1. PICK ds \in SUBSET Defined : /\ ~(\A e \in ds : sealed[e] = key[p])
                                       /\ Undecryptable(p, ds) = ds
        BY <1>3 DEF Serve, HoldsInv, TypeOK
    <2>2. PICK e \in ds : sealed[e] # key[p]
        BY <2>1
    <2>3. sealed[e] \notin {key[p], Broken} /\ e \in Ciphertexts
        BY <2>1, <2>2 DEF Undecryptable, Ciphertexts, Defined
    <2> QED
        BY <1>1, <2>2, <2>3 DEF OneKey
<1> QED
    BY <1>2, <1>3

\* So who is told that the key does not fit could not have read anything.
THEOREM MismatchRefusesNobody == OneProcess /\ NoImport => (Spec => MismatchMeansOtherKey)
<1> SUFFICES ASSUME OneProcess, NoImport PROVE Spec => MismatchMeansOtherKey
    OBVIOUS
<1>1. ASSUME HoldsInv, AloneInv, [Next]_vars
      PROVE  [\A p \in Processes : report'[p] = "mismatch" /\ report[p] # "mismatch" =>
                 \A d \in Definitions : sealed[d] # key[p]]_vars
    <2> SUFFICES ASSUME Next, NEW p \in Processes, report'[p] = "mismatch", report[p] # "mismatch"
                 PROVE  \A d \in Definitions : sealed[d] # key[p]
        BY <1>1
    <2>1. PICK o \in Processes :
              \/ Start(o) \/ Die(o) \/ Resolve(o) \/ Stat(o) \/ ReadKey(o) \/ MakeKey(o)
              \/ WriteSalt(o) \/ OpenStore(o) \/ Verify(o) \/ Write(o) \/ Serve(o)
        BY DEF Next
    <2>2. o = p
        BY DEF OneProcess
    <2>3. Verify(p) \/ Serve(p)
        BY <1>1, <2>1, <2>2 DEF Start, Die, Resolve, Stat, ReadKey, MakeKey, WriteSalt, OpenStore, Write,
                                Goto, End, HoldsInv, TypeOK
    <2> QED
        BY <1>1, <2>3, MismatchIsReal DEF AloneInv
<1>2. Spec => [](HoldsInv /\ AloneInv)
    BY Alone
<1> QED
    BY <1>1, <1>2, PTL DEF Spec, MismatchMeansOtherKey
=============================================================================
