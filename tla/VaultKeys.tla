----------------------------- MODULE VaultKeys -----------------------------
(***************************************************************************)
(* The master key: how a process gets it, makes it on first use, and finds *)
(* out whether it fits the vault (src/pkg/crypto/keyprovider.go, openVault *)
(* and the commands of src/cmd/blindenv, Store.VerifyMasterKey and         *)
(* Store.ResolveDetailed).  The keyring, the salt file and the vault are   *)
(* read and written one at a time, by processes that may die in between.   *)
(* Of the vault only its sensitive definitions are kept.                   *)
(***************************************************************************)
EXTENDS Integers, FiniteSets

CONSTANTS Processes,    \* processes of the program, each started many times
          Passphrases,  \* values of BLINDENV_PASSPHRASE
          Commands,     \* the subcommands that are run
          Definitions,  \* sensitive definitions, effective somewhere
          MaxMade       \* bound: keys and salts that are generated

\* Where a process takes its key from: no passphrase is the keyring.
Keyring == "keyring"
Sources == {Keyring} \cup Passphrases

ASSUME KeysAssumption ==
    /\ {Keyring, "none", "broken"} \cap Passphrases = {}
    /\ Commands \subseteq {"ui", "mcp", "run", "export", "import"}
    /\ MaxMade \in Nat

VARIABLES keyring,      \* the key in the OS keyring: {} or {n}
          salt,         \* the salt file: {} or {n}; 0 is a file without content
          vault,        \* the vault file is there
          sealed,       \* what holds a definition: a key it is sealed with
          made,         \* keys and salts generated so far
          pc, cmd, source,
          existed,      \* the vault was there when the process looked
          key,          \* the master key: its source, and the key or salt it is of
          report        \* how the process ended: served, refused with an error

stored == <<keyring, salt, vault, sealed, made>>
vars == <<keyring, salt, vault, sealed, made, pc, cmd, source, existed, key, report>>

Keys == [by : Sources, of : 0..MaxMade]

\* A definition that is not there, and one that is marked sensitive but holds no
\* ciphertext: metadata edits that overlap with a write leave those (VaultStore).
None == [by |-> "none", of |-> 0]
Broken == [by |-> "broken", of |-> 0]

Reports == {"none", "locked", "mismatch", "inconsistent", "unreadable", "served"}
Steps == {"off", "provider", "stat", "key", "make", "salt", "open", "verify", "serve"}

Defined == {d \in Definitions : sealed[d] # None}
Ciphertexts == {d \in Definitions : sealed[d] \notin {None, Broken}}

Init ==
    /\ keyring = {} /\ salt = {} /\ vault = FALSE /\ made = 0
    /\ sealed = [d \in Definitions |-> None]
    /\ pc = [p \in Processes |-> "off"]
    /\ cmd = [p \in Processes |-> "ui"]
    /\ source = [p \in Processes |-> Keyring]
    /\ existed = [p \in Processes |-> FALSE]
    /\ key = [p \in Processes |-> None]
    /\ report = [p \in Processes |-> "none"]

-----------------------------------------------------------------------------
Goto(p, s) == pc' = [pc EXCEPT ![p] = s]

\* The process ends, with this report.
End(p, r) == Goto(p, "off") /\ report' = [report EXCEPT ![p] = r]

Start(p) ==
    /\ pc[p] = "off"
    /\ \E c \in Commands, s \in Sources :
        /\ cmd' = [cmd EXCEPT ![p] = c]
        /\ source' = [source EXCEPT ![p] = s]
    /\ key' = [key EXCEPT ![p] = None]
    /\ report' = [report EXCEPT ![p] = "none"]
    /\ Goto(p, "provider")
    /\ UNCHANGED <<stored, existed>>

\* The process is done, is killed, or fails on something else than its key.
Die(p) ==
    /\ pc[p] # "off"
    /\ Goto(p, "off")
    /\ UNCHANGED <<stored, cmd, source, existed, key, report>>

\* ResolveProvider: without a passphrase the keyring must answer.
Resolve(p) ==
    /\ pc[p] = "provider"
    /\ \/ Goto(p, "stat") /\ UNCHANGED report
       \/ source[p] = Keyring /\ End(p, "locked")
    /\ UNCHANGED <<stored, cmd, source, existed, key>>

Stat(p) ==
    /\ pc[p] = "stat"
    /\ existed' = [existed EXCEPT ![p] = vault]
    /\ Goto(p, "key")
    /\ UNCHANGED <<stored, cmd, source, key, report>>

\* Only a process that found no vault makes a key it misses.
MakesKey(p) == ~existed[p]

\* Variant: the salt file is read for every source.
Stored_SaltOnly(s) == salt

\* The key or salt that a source has.
Stored(s) == IF s = Keyring THEN keyring ELSE salt

\* MasterKey, and the first half of EnsureMasterKey.
ReadKey(p) ==
    /\ pc[p] = "key"
    /\ \/ \E n \in Stored(source[p]) :
            /\ key' = [key EXCEPT ![p] = [by |-> source[p], of |-> n]]
            /\ Goto(p, "open")
            /\ UNCHANGED report
       \/ /\ Stored(source[p]) = {} /\ MakesKey(p)
          /\ Goto(p, "make") /\ UNCHANGED <<key, report>>
       \/ /\ Stored(source[p]) = {} /\ ~MakesKey(p)
          /\ End(p, "locked") /\ UNCHANGED key
       \/ source[p] = Keyring /\ End(p, "locked") /\ UNCHANGED key
    /\ UNCHANGED <<stored, cmd, source, existed>>

\* The second half: one write to the keyring, or a file that is first emptied.
MakeKey(p) ==
    /\ pc[p] = "make" /\ made < MaxMade
    /\ made' = made + 1
    /\ key' = [key EXCEPT ![p] = [by |-> source[p], of |-> made + 1]]
    /\ IF source[p] = Keyring
       THEN keyring' = {made + 1} /\ UNCHANGED salt /\ Goto(p, "open")
       ELSE salt' = {0} /\ UNCHANGED keyring /\ Goto(p, "salt")
    /\ UNCHANGED <<vault, sealed, cmd, source, existed, report>>

\* Variant: the process goes on when the salt could not be written.
WriteSalt_ErrorIgnored(p) ==
    /\ pc[p] = "salt"
    /\ salt' \in {salt, {key[p].of}}
    /\ Goto(p, "open")
    /\ UNCHANGED <<keyring, vault, sealed, made, cmd, source, existed, key, report>>

WriteSalt(p) ==
    /\ pc[p] = "salt"
    /\ salt' = {key[p].of}
    /\ Goto(p, "open")
    /\ UNCHANGED <<keyring, vault, sealed, made, cmd, source, existed, key, report>>

\* backup goes on without verification.
Verifies == {"ui", "mcp", "run"}

\* db.Open: Migration has its steps.
OpenStore(p) ==
    /\ pc[p] = "open"
    /\ vault' = TRUE
    /\ Goto(p, IF cmd[p] \in Verifies THEN "verify" ELSE "serve")
    /\ UNCHANGED <<keyring, salt, sealed, made, cmd, source, existed, key, report>>

\* Variant: a value that cannot be tried counts as one that decrypts.
Verdict_UntriedFits(p) ==
    IF Defined = {} \/ \E d \in Defined : sealed[d] \in {key[p], Broken} THEN "served"
    ELSE "mismatch"

\* What VerifyMasterKey returns: one value that decrypts is enough, and those
\* that hold no ciphertext are passed over.
Verdict(p) ==
    CASE Defined = {} -> "served"
      [] \E d \in Defined : sealed[d] = key[p] -> "served"
      [] Ciphertexts # {} /\ (\A d \in Defined : sealed[d] # key[p]) -> "mismatch"
      [] OTHER -> "inconsistent"

\* ui and run fail; mcp keeps the error and answers every call with it.
Verify(p) ==
    /\ pc[p] = "verify"
    /\ IF Verdict(p) = "served" THEN Goto(p, "serve") /\ UNCHANGED report
       ELSE End(p, Verdict(p))
    /\ UNCHANGED <<stored, cmd, source, existed, key>>

-----------------------------------------------------------------------------
(***************************************************************************)
(* An unlocked vault.                                                      *)
(***************************************************************************)

\* The web UI and an import store what they seal; a definition is deleted, or
\* left without ciphertext.
Write(p) ==
    /\ pc[p] = "serve" /\ cmd[p] \in {"ui", "import"}
    /\ \E d \in Definitions :
        \/ sealed' = [sealed EXCEPT ![d] = key[p]]
        \/ /\ cmd[p] = "ui"
           /\ sealed' \in {[sealed EXCEPT ![d] = None], [sealed EXCEPT ![d] = Broken]}
    /\ UNCHANGED <<keyring, salt, vault, made, pc, cmd, source, existed, key, report>>

\* Variant: values without ciphertext count as values of another key.
Undecryptable_Any(p, ds) == {d \in ds : sealed[d] # key[p]}

\* What of these does not decrypt, though it might.
Undecryptable(p, ds) == {d \in ds : sealed[d] \notin {key[p], Broken}}

\* ResolveDetailed, of the definitions that are effective where it is called;
\* export reads all there are, and reports the first that it cannot read.
Serve(p) ==
    /\ pc[p] = "serve" /\ cmd[p] # "import"
    /\ \E ds \in SUBSET Defined :
        /\ cmd[p] = "export" => ds = Defined
        /\ report' = [report EXCEPT ![p] =
             IF \A d \in ds : sealed[d] = key[p] THEN "served"
             ELSE IF Undecryptable(p, ds) = ds /\ cmd[p] # "export" THEN "mismatch"
             ELSE "unreadable"]
    /\ UNCHANGED <<stored, pc, cmd, source, existed, key>>

Next == \E p \in Processes :
    \/ Start(p) \/ Die(p) \/ Resolve(p) \/ Stat(p) \/ ReadKey(p) \/ MakeKey(p)
    \/ WriteSalt(p) \/ OpenStore(p) \/ Verify(p) \/ Write(p) \/ Serve(p)

Spec == Init /\ [][Next]_vars

-----------------------------------------------------------------------------
(***************************************************************************)
(* Correctness.                                                            *)
(***************************************************************************)

\* At most one key and one salt are stored; a definition is sealed with a key that
\* was made, or with what a passphrase gives for a salt that was cut short, and
\* nobody works with a key of the keyring that was never in it.
TypeOK ==
    /\ keyring \in {{}} \cup {{n} : n \in 1..made}
    /\ salt \in {{}} \cup {{n} : n \in 0..made}
    /\ vault \in BOOLEAN
    /\ made \in 0..MaxMade
    /\ sealed \in [Definitions -> Keys \cup {None, Broken}]
    /\ pc \in [Processes -> Steps]
    /\ cmd \in [Processes -> Commands \cup {"ui"}]
    /\ source \in [Processes -> Sources]
    /\ existed \in [Processes -> BOOLEAN]
    /\ key \in [Processes -> Keys \cup {None}]
    /\ \A p \in Processes : key[p].by = Keyring => key[p].of \in 1..made
    /\ report \in [Processes -> Reports]

\* All ciphertexts of a vault are sealed with one key, whatever the processes
\* took their keys from and wherever they died.
OneKey == \A d, e \in Ciphertexts : sealed[d] = sealed[e]

\* What is sealed can still be read: a source yields the key it is sealed with.
StillReadable ==
    \A d \in Ciphertexts : sealed[d].of \in Stored(sealed[d].by)

\* Who is told that the master key does not fit the vault could not have read
\* any value of it: at unlock, or when some of its definitions are resolved.
MismatchMeansOtherKey ==
    [][\A p \in Processes : report'[p] = "mismatch" /\ report[p] # "mismatch" =>
          \A d \in Definitions : sealed[d] # key[p]]_vars

\* A process that has opened the vault works with the key that is stored.
WorksWithStoredKey ==
    \A p \in Processes : pc[p] \in {"verify", "serve"} => key[p].of \in Stored(source[p])
=============================================================================
