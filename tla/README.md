# A verification of blindenv

blindenv keeps secrets in an encrypted SQLite vault and lets a coding agent *use*
them through an MCP server without *seeing* them. This directory holds TLA+ models
of that program, TLC runs that check them on small instances, and TLAPS proofs of
the theorems that hold for every instance. Paths below are relative to the
repository; `PROJECT.json` gives, for every definition, the lines it models.

To check a run: `tlc -config store_core.cfg MCVaultStore`. To check the proofs of a
module: `tlapm VaultStoreProofs.tla`.

## 1. The system

One binary, five commands (`ui`, `mcp`, `run`, `backup`, `version`), one vault file,
any number of processes and, inside the two servers, any number of goroutines. They
share no memory that matters: they meet in the SQLite file (`vault.db`), in the OS
keyring or the salt file, and in the snapshot files beside the vault. There is no
lock above SQLite's. `busy_timeout` makes each *statement* wait for its turn; nearly
every operation consists of several autocommitted statements, and that is where most
of the hard behaviour comes from.

| Component | State | Operations | Meets | Hard behaviour | What makes it correct |
|---|---|---|---|---|---|
| **Vault store** `pkg/db/store.go`, `models.go` | tables `projects`, `environments`, `secrets` | create and delete projects and environments, capability switches, `PutSecretMeta`, `SetSecretMetadata`, `DeleteSecret`, `ResolveDetailed` | all other components, through SQL | operations of several clients interleave between statements; ids outlive the rows they name; a statement may fail; SQL NULL | one definition per scope; rows belong to existing projects and to the one that was named; precedence; a sensitive value is stored encrypted |
| **Master key and unlock** `pkg/crypto/keyprovider.go`, `cmd/blindenv`, `VerifyMasterKey` | keyring entry, salt file, the process's key | get or make the key, verify it, serve | vault (existence, ciphertexts) | first run: check, then generate, then store; processes that die in between; several sources of keys | all ciphertexts have one key, which can be had again; a mismatch is reported only if it is one |
| **Value cipher** `pkg/crypto/cipher.go` | none | seal, open | store | none (pure) | a value opens with the key that sealed it |
| **Schema migration** `pkg/db/schema.go` | schema, recorded version, snapshot files | `migrate`, run by every open | other openers, older and newer builds | DDL outside transactions, crash and retry, two builds at once | versions only advance and stand for their schema; definitions survive; a snapshot of the original exists |
| **Redaction and capture** `pkg/mcp/redact.go`, `capture.go` | held-back tail, counters, bounded prefix | `Redact`, `StreamRedactor.Write/Close`, `boundedWriter.Write` | child output, destination | a value across two writes or across the budget; values inside one another; a failing destination | streaming and bounding give what redacting the whole would |
| **UTF-16 writer** `pkg/mcp/stream.go` | undecided bytes, decoder | `Write`, `Close` | feeds the StreamRedactor | encoding decided from a first write of any size | same text as decoding the whole |
| **MCP handlers** `pkg/mcp/exec.go`, `open.go`, `proxy.go`, `tools.go`, `server.go`, `process_unix.go` | per call: project id, secrets, audit row, child, process group, timer | `execute_with_secrets`, `open_in_browser`, `proxy_http_request`, `list_secret_keys`, `get_context`, `discover_secrets` | store (read, audit), child processes, browser, network | the UI changes the project between two statements of a call; child, kill, timer and wait delay race; each error path has its own audit call | nothing runs without its switch; what was used is logged; nothing survives a call; every call returns |
| **Shell tag translation** `pkg/mcp/shell.go` | quoting state of one scan | `translateSecretTags` | `execute_with_secrets` | quotes of three shells | what is rewritten the shell expands, what is refused it could not, nothing else changes |
| **Windows process tree** `pkg/mcp/process_windows.go` | job object | create, assign, close | `execute_with_secrets`, `run` | a child that starts others before it is assigned | as on Unix |
| **Backup** `pkg/backup/backup.go` | none of its own | `Export`, `Import` | store, operation by operation | many statements without a transaction, other clients in between | a backup holds what stayed and nothing that never was; a successful import restores it, whatever failed before; an import fills only projects it created |
| **Web server** `pkg/web/server.go` | session token | one route per store operation, state view | store, backup | concurrent tabs; a page read in many statements | the store's properties, with tabs as clients; a page shows what stayed, nothing that never was and no value that stayed sensitive |
| **Web page** `web/` | drawn state | calls the routes | web server | stale pages | a page that acts on what it last saw is a client of the store |
| **Version** `pkg/version` | none | `Resolve` | none | none | none |

## 2. Modules

| Module | Models | Checked by | Proved in |
|---|---|---|---|
| `VaultStore` | the store's changing operations and the resolver, one action per SQL statement | `store_core`, `store_edits`, `store_race` | `VaultStoreProofs` |
| `VaultData`, `Vault` | what the store promises: each operation one atomic step | through `ImplementsVault` in `store_edits`; `VaultData` in `readers` too | |
| `VaultRefinement` | the mapping from `VaultStore` to `Vault` | `store_edits` | `VaultStoreProofs` |
| `Readers` | what the next two share: the vault's requests and guarantees (`VaultInv`), the calls for a set, the history variables | `readers` | `ReadersProofs` |
| `Backup` | `Export` and `Import` as programs of store calls over `VaultData` | `readers` | `ReadersProofs` |
| `StateView` | the web server's state view, statement by statement, over `VaultData` | `readers` | `ReadersProofs` |
| `Migration` | `migrate`, one action per statement, crashes, a newer build | `migration`, `migration_cut` | `MigrationProofs` |
| `VaultKeys` | key providers, `openVault`, the order of steps in each command, `VerifyMasterKey` | `keys`, `keys_race` | `VaultKeysProofs` |
| `Redaction` | `normalizingWriter`, `NormalizeUTF8`, `Redactor`, `StreamRedactor`, `boundedWriter`, `truncate` | `redaction`, `capture_cut` | `RedactionProofs` |
| `ShellTags` | `translateSecretTags`, `translateCommand` | `shell` | `ShellTagsProofs` |
| `ToolCalls` | the six tools, with audit, child, group, timer and the UI | `tool_calls` | `ToolCallsProofs` |

`SequenceFacts` holds what the proofs of `ShellTags`, `Redaction` and the readers need
about sequences in general: induction, prefixes, concatenation, `FlattenSeq`, `SetToSeq`.

Each `MC...` module extends the module in its name and gives values to its constants;
`MCReaders` composes `Backup` and `StateView`, each behaviour being of one of them, and
chooses the vaults that a page is read from. Definitions named
`X_Variant` are mutated forms of `X`, beside it; they are how each property was shown to
depend on the code, and no action uses them.

### VaultStore

`projects`, `nextId`, `environments` and `secrets` are the tables; `pc`, `req`,
`pid`, `value`, `out` and `ret` are the locals of each client's running operation.
A client (`Procs`) is a goroutine or a process: `Call` starts an operation, each
action between is one statement, `Fail` is an error of any statement, `Return` ends
it. `ReadProject` is `resolveScope` and the other lookups of a slug,
`ReadEnvironment` the check that an environment exists, `UpdateRow`, `InsertRow` and
`UpdateAfterConflict` the upsert of `writeSecret`, `ReadRow` and `UpdateMetadata`
the two halves of `SetSecretMetadata`, whose other way out is the upsert.
`DeleteEnvironment` is one action because it is the one operation with a
transaction. Foreign keys cascade in `DropProject` and refuse an insert;
AUTOINCREMENT keeps ids from coming back. A ciphertext is `enc = v`; which key made
it is `VaultKeys`' business. A hint either contains a value or contains none.

### Vault, VaultData and the refinement

`VaultData` is the vault without statements, columns and encodings: a definition has a
value, and each operation of `store.go` is one operator that says what it changes and
why it may be refused. `Vault` adds clients: an operation is called, bound to the
project it names, takes effect at once, and ends. Binding is a step of its own because it
can be told apart: a project deleted after it was looked up, and created again under its
slug, is not the one the operation works on. There is one more visible step, `Overtaken`:
a `Put` whose key another client defines first replaces that definition when it gets
to it, and if that has been deleted meanwhile counts as having come before it.

`VaultRefinement` maps the tables to `Vault`: a row is decoded to the definition it
stands for, and a client between looking up its project and its effect is `bound`.
`ImplementsVault` is the whole of `Vault`'s specification, and holds under two conditions,
which are hypotheses of its proof and choices of the run's requests: nobody writes a
definition while another client edits its metadata (`EditsAlone`; otherwise the
two statements of `SetSecretMetadata` are seen, `store_race`), and no environment is
deleted (no caller in the program does; otherwise an operation that has looked it up
writes to an environment that is gone).

### Backup and StateView

Both extend `Readers` and are programs of many reads over a `VaultData` that another
client goes on changing (`Write`, `Edit`), which is what the refinement entitles them
to. In `Backup` a call is a step (a lookup and a read, for those that can be told
apart); `plan` is the calls still to make, which `Import` knows from the beginning and
`Export` finds as it goes. Every call may fail (`Fail`), a backup may be carried to an
empty vault (`NewVault`), and a failed import may be tried again. In `StateView` a step
is one SQL statement, because the page reads the metadata of a scope and its values by
separate calls: `LookupProject` and `LookupEnvironment` are `resolveScope`,
`SelectSecrets`, `SelectBroader` and `SelectDefines` are `ScopeSecrets`, `SelectValues`
is `ScopeValues` with `toSecretViews`, `SelectEffective` is `ResolveDetailed`. It begins
from any vault that satisfies `VaultInv`, what the schema and the store guarantee.
`seen` and `always` are history variables: what the vault held at some moment, and all
the time, since the program began.

### Migration

The schema is the set of tables, columns and indexes that are there; `recorded` is
`schema_version`; `rows` are the definitions, with environment ids in a version 1
vault and names in later ones. The actions of an opener follow `migrate` statement
by statement: look for `schema_version`, read it, refuse a newer vault, look for a
snapshot, `VACUUM INTO` (begin and end, since a process may die in it; `BeginCopy` is
SQLite's creation of the file and the start of its read transaction at once), base schema,
the rebuild of a version 1 table (one transaction), the secrets schema, the table of
added columns, the record of the version. `Stop` is a crash, or the failure of any
statement in `Killable`. `NewerBuild` upgrades the vault underneath.

### VaultKeys

`keyring` and `salt` hold at most one generated thing, identified by a number; a
salt cut short is 0. A process starts with a command and a source, looks whether
the vault exists, reads or makes the key, writes it, opens the vault, verifies (all
commands but `backup`) and serves: writes definitions, or resolves some. It may die
at any step. A master key is a pair of source and the key or salt it derives from.

### Redaction

The child writes a text in one of five encodings, cut anywhere. `Write` feeds one
write to both sinks: to the `normalizingWriter` (`pending`, `decoder`) in front of the
`StreamRedactor` of `run` (`tail`, `out`, `count`, `broken`), and to the `boundedWriter`
of `execute_with_secrets` (`retained`). `Decided` and `Decode` are the decision and the
decoding, `Flush`, `EmitPoint` and `Crossing` are `flush`. When the child has ended, the
last bytes are written and then the `StreamRedactor` is closed: two calls of `flush`, of
which the first emits what a write does (`Due`) and the second all the rest. `EmitAll` is
both, in one step because nothing happens between them, and either may be refused by the
destination. `Returned` is what the tool answers, decoded and redacted only when the
child has ended.

### ShellTags

A command is a sequence of symbols (quotes, the shell's escape, braces, letters). The
name of a key may be any text, one with a quote in it too. Each
action is one turn of the scan: copy a pair that escapes something, copy a quote and
follow it, rewrite a tag, refuse, or pass one symbol on. The properties compare it with
`Lexed`, an independent reading of the output by the shell's own rules, one symbol at
a time: where a symbol stands, between which quotes and whether it is escaped.

### ToolCalls

A handler's step is one store statement or one effect outside; an operation of the
UI is one step here, since `VaultStore` already has its statements. `project` is the
row of the one project a server is configured for, with its id, so that a deletion
and a new creation are visible; `defs` are definitions by project id. Every call has an
environment: the tools that use secrets refuse without one before they resolve anything
(`resolveContextForSecrets`, `server.go:99-107`), and the tools that list keys, which also
work without, then read fewer definitions. `goal` says
why a call resolves: for its secrets, or, again after the effect, for the scopes of
its audit row. `child` and `tree` are the direct child and its descendants, in the
process group or escaped from it; `Deadline` is the timer with its kill, `Exit` the
child's or a descendant's end at any moment. `seen` and `lost` are history
variables: the switches that were on since the call began, and an audit row that
could not be stored.

### How the modules fit together

They share no variables; each abstracts the others to what it needs, and the seams are
these. `ToolCalls.UI` and `Effective` stand for operations of `VaultStore`
(`MostSpecificScopeWins` and `OnlyTheNamedProject` are why one key has one scope and an
id names one project). `Backup` and `StateView` call `VaultData`, which `VaultStore` is
shown to implement. `VaultKeys.Broken` stands for the rows that `store_race` shows.
`VaultStore` starts from a vault of the current schema, which is what `Migration`
reaches. `ShellTags` is what `ToolCalls` does with a command before it starts the child,
and `Redaction` is what lies between that child and the answer.

## 3. The runs

All passing runs exhaust their state space. Each property of a passing run has a
mutant in `PROJECT.json` that violates it.

**store_core** (2 clients, 2 slugs, 1 environment, 1 key, 2 values, 3 projects ever
created; 650 thousand states). One client creates and deletes projects and writes; the
other writes, edits and deletes the same definitions of the project and of the shared
scope, and both resolve. `OneDefinitionPerScope`, `NoOrphanedProjectRows`,
`SecretsNameAnEnvironment`, `MostSpecificScopeWins`, and the action properties
`OnlyTheNamedProject` (an id that outlived its project hits nothing else) and
`PutStoresItsRow` (the loser of an INSERT race ends with its own value stored).

**store_edits** (2 clients, 1 slug, 2 projects; 650 thousand states). One client edits its
definition's metadata while the other does everything but write that definition:
`SensitiveHoldsCiphertext`, `HintHidesValue`, `MetadataEditKeepsContents`, and the
refinement `ImplementsVault`. Together the two store runs execute every action.

**store_race** drops that condition: a `Put` between the two halves of
`SetSecretMetadata` leaves a row marked sensitive that holds cleartext. `vault/spec.md`
says a stored sensitive value is always a valid blob.

**readers** (670 thousand states). Either up to 3 exports and imports, of 2 projects,
with up to 2 writes of another client while one runs: `ExportRegular` (a backup holds
what was there all the time and nothing that never was), `ImportRestores`,
`ImportSparesOthers`. Or one page of the web server over a vault with a definition in
every scope, or in all but one, with up to 3 writes while it is read: `PageRegular` (the
same of a page, with what overrides what and what is in effect), `SensitiveStaysHidden`,
`NotFoundMeansDeleted`. The number of jobs is bounded and a page is answered once, so
deadlock is not checked.

**migration** (2 openers; a new vault and one of each version 1 to 6, where this build
supports 5). `NewerVaultUntouched`, `SnapshotOfOriginal`, `DefinitionsKept`,
`RecordedUpgrades`, `VersionNeverLowered`, with openers that die anywhere but inside
the copy and start again, and a newer build that upgrades at any moment.

**migration_cut** asks for more than `RecordedUpgrades` does, the whole schema: the
four ALTERs of `migrateSecretsMetadata` are not atomic and the first is taken as the
sign of all.

**keys** (1 process at a time, keyring or 2 passphrases, 2 definitions, 3 keys or
salts generated; 18 thousand states). `OneKey`, `StillReadable`,
`MismatchMeansOtherKey`, wherever processes die, in the write of the salt too.
**keys_race**: two MCP servers started at once on an empty machine; one keeps a key that
is not stored.

**redaction** (3 symbols, values `yz`, `xyz` and the too short `z`, texts up to 7
symbols in 5 encodings, writes of up to 3 symbols cut anywhere; 1.2 million states).
`StreamEqualsWhole`, `RemnantFree`, and `CapturedAsIfWhole`, on the tool's answer for plain
UTF-8: if the answer is made within the capture limit (`Fills`) it is the one that the whole
output would give, and in any case all that was kept, but for fewer symbols at its end than
the longest value has, is redacted as in the whole. The run stops when the output has
ended, so deadlock is not checked.

**capture_cut** asks of the same instance, in UTF-8 alone, what the comment at
`exec.go:78-79` promises, that a value cut by the capture limit is not shown, and TLC finds
that it is: where a value is longer than its marker, its redaction shortens the prefix,
and the first characters of a later value, which the limit has cut, move inside the budget.

**shell** (every command of up to 5 pieces for `sh` and PowerShell, 4 for `cmd`, pairs
of texts without a shell; one key is a letter, another a single quote; 400 thousand
states). `RewritesExpand`, `RefusedRightly`,
`OnlyTagsChange`. A scan ends, so deadlock is not checked.

**tool_calls** (1 call of any tool, 1 key, 2 creations of the project; 91 thousand
states). `EffectWasAllowed`, `CommandsAudited`, `NoSurvivors`, `ResultMeansExited` and
the liveness property `CallsReturn`.

### Bounds, and why they are enough

- `VaultStore`: the store has no state beyond its rows and each client's locals, so
  what two clients can do to one definition needs two clients, one key and one
  environment. `MaxProjects` = 3 allows: a project is resolved, deleted, created
  again under the same slug, and under another. All the properties of both runs, the
  refinement included, are proved without these bounds.
- `Backup`: two projects let an import fail between them; three jobs are an export, a
  failed import and its retry; two writes delete a project and create it again under
  a running job. `NewVault` is the other machine. The properties are proved without these
  bounds.
- `StateView`: the vault it starts from has a definition of one key in each of the four
  kinds of scope, or in all but one, and in an environment of the shared scope alone,
  all sensitive, all not, or one not; reads of other keys are the same reads. Three
  writes delete the project, create it again, and give it its environment back. Its
  properties too are proved without these bounds.
- `Migration`: two openers show every pair of overlapping steps, and each may die and
  start again without limit; two rows, one of them in an environment, are the two
  cases of the rebuild. No counter is bounded; all passing properties are proved.
- `VaultKeys`: `MaxMade` = 3 is a key for the keyring, a salt and one more of either.
  Processes run one after another on purpose: overlapping first runs are
  `keys_race`, and two UIs with different passphrases on a vault without ciphertexts
  would both pass verification and seal with different keys. `import` is left out of
  `Commands`: it does not verify the key, and with it TLC finds `OneKey` violated by
  a single process that takes its key from a second source. Both conditions are the
  hypotheses of the proofs, which hold for any number of sources, definitions and keys.
- `Redaction`: a text of 7 symbols holds two occurrences of the longest value with text
  between, and every cut into writes; the window, the budget and the sample the encoding
  is decided from (`Sample` = 5 for the code's 64) are crossed at each offset.
  `MarkerLen` = 1 is shorter than both values, as the code's marker, 20 characters and
  the key's, is shorter than a JWT or a PEM key: what was kept then shrinks when it is
  redacted, which makes `capture_cut`'s violation and bounds what `CapturedAsIfWhole`
  can say. Longer markers leave less of the prefix in the answer; the proofs are for
  any. The values are such that none begins where another ends (`ValuesApart`); with
  values that overlap so `StreamEqualsWhole` does not hold (section 5). Under this
  condition the properties are proved without the bounds. Characters have a zero high
  byte in UTF-16 and texts contain no NUL, which is what the code's heuristic for
  unmarked UTF-16 looks for; with others it may decide differently for the sample than
  for the whole.
- `ShellTags`: five pieces are two quotes, an escape and two tags in any order; the
  state of the scan is a quote and a position, so nothing longer reaches another state.
- `ToolCalls`: calls share the store, which they only read apart from appending audit
  rows of their own, so calls do not see one another and one call is every call; the
  proofs are for any number. `MaxProjects` = 2: the project the call resolved and its
  successor.

### Fairness

Only `ToolCalls` has a liveness property. Its fairness is weak fairness of each
handler's next step and of its timer. A store statement ends, with an error if need
be, within `busy_timeout`; a proxied request within the client's 30 seconds; `Wait`
within `WaitDelay` of the child's end, whatever holds the pipes; a goroutine that can
run does. The timer is the runtime's. No fairness is assumed of the child or its
descendants: they may run for ever, and of the UI: it may never do anything again.

## 4. The proofs

Every step is machine-checked down to its last leaf, and nothing is assumed but the
named assumptions on the constants and the hypotheses a theorem states. The arguments,
in short:

**VaultStoreProofs**, from `ConstantsAssumption` (names checked, `None` is no text).
None of the store's invariants is inductive alone: that an INSERT violates no
uniqueness is only known of a client that holds the right project id. `CoreInv` adds,
for every client, `LocalInv`: at each statement its request is validated, a project id
is held exactly when a project was named, and as long as that project exists it has
the slug that was named (ids are never reused). From `CoreInv`: `Typed`,
`UniqueDefinitions`, `NoOrphans`, `SensitiveTokens` (a token or password is marked
sensitive, after edits too), and the action properties `NamedProjectOnly` and
`PutStores`, statement by statement.

Its second part has the hypothesis `EditsAlone`: no client may write a definition that
another's `SetSecretMetadata` may edit. `SafeEditInv` says that what
an edit has read is still what its definition holds; `EncryptedAtRest`, `HintsHide`
and `EditsKeepContents` follow. `store_race` shows that the hypothesis is needed.

Its third part is about scopes. `SecretsHaveEnvironments`, if no environment is deleted:
a client past its lookup knows that the environment is still there if its project is
(`EnvInv`), since environments go with their project only and ids do not come back; and
rows are stored by such clients alone. `NarrowestScopeServed`: what the resolver answers
is, for each key, the row with the highest priority among those that apply, one row only
because a scope holds one definition of a key.

Its fourth part is the refinement. `StoreImplementsVault`: under `EditsAlone`, and with no
environment deleted, `Spec => ImplementsVault`. The invariant is `RefinementInv`:
`CoreInv`, `SafeEditInv`, `EnvironmentInv`, and `ReadyInv`: which operation a statement
belongs to, and, of an edit of metadata, that its definition is still there when it is
about to update it and its project gone when it is about to insert one. Each statement is
then the abstract step that its `Phase` shows, or none that is seen; there is one lemma
per statement, and under it one step per operation that runs it.

**MigrationProofs**, from `MigrationAssumption` (what builds of each version leave
behind; for the unknown newer build only that it says so). Layers, each proved on
the ones before: `VersionInv` (the version is the original's until it is this build's
or a newer), `NewerInv`, `SnapshotInv`, `RowsInv`, and `UpgradeInv` with `OpenerInv`
(what an opener has seen or done is still so, because no step of another drops it).
`Snapshotted` has the hypothesis that no opener dies while it copies; without it a
partial copy is taken for the snapshot (section 5).

**VaultKeysProofs**, from `KeysAssumption` (the keyring and the marks are no
passphrases). `HoldsInv` is `TypeOK` with, for each process, that the key it works with is
of its own source and was made or is a salt cut short; `KeysTyped` follows for any
processes that overlap in any way. The other three have the hypotheses `OneProcess`
(processes run one after another; each may die after any step) and `NoImport`, and the
invariant `AloneInv`: a key is made only for a vault that is not there, the key a process
took is still what its source stores, and a process that may write has the key of every
ciphertext there is. From it:
`SealedWithOneKey`, `KeyStaysStored`, `MismatchRefusesNobody`. `keys_race` shows what
happens to processes that overlap.

**ToolCallsProofs**, from `ToolAssumption`. `Inv` is `TypeOK` with four parts for each
call: `ProgressInv` (where it is tells what it has done), `AuditInv` (which row it
carries and stored), `SeenInv` (which switch it has seen), `ChildInv` (what is left of
the child). `CallInvariant` proves it inductive, with one lemma per action, and a lemma
that the other calls' actions leave a call alone; the four safety properties follow.

**SequenceFacts**. Induction over numbers, in the form that the provers can apply: a *set*
of numbers that holds 0 and with each the next holds them all (`Induction`, from the
well-foundedness of `<` and `WFMin`). With it, what `FlattenSeq` and `SetToSeq` give: the
elements, and the order of a concatenation from the orders inside its parts and between
them (`Follows`, `Joins`).

**ShellTagsProofs**, from `ShellAssumption` (the quotes, the escape and the opening
brace are different symbols, and no symbol is a reference). `ScanInvariant`: at every
step, `out` restores to what has been scanned; at each of its places the shell stands
where the scan believes it does (`Lexed` follows `quote`); its references are exactly
those the scan counted, and stand where the shell expands; a key's tag that is left in
it is escaped, also one that the next symbols might complete. From it
`ReferencesExpand`, `OnlyUnsafeRefused` and `TagsOnly`, for texts of any length, any
alphabet and any keys. The proof found the run too small: with names of letters only, no
tag that the scan rewrites can contain a quote, and the question what the scan makes of
one does not come up. The run now has such a key.

**ReadersProofs**, from `ReadersAssumption` (the names of the shared scope, of all
environments and of no metadata are no others') and `BackupAssumption` (the other
client's requests are ones the store takes up). `VaultInv` is what the operations of
the other client preserve, one lemma for each.

Its first part is `Backup`. The plan of a job is a sequence of sets of calls.
`Ordered(plan, F, r)` says that its sets are of `F` and that whatever comes earlier may,
as `r` has it; `Pending(plan)` is the set of calls left. From these two, and no longer
from the sequence itself, follows what the invariant says of a job:

- of an export (`Exporting`): `Drafted(draft, Pending(plan))`. What was in the vault all the
  time is in the draft or its call is pending (`Covers`); what is in the draft was in the
  vault at some time; a pending call's scope is not in the draft (`ReadsAhead`). A read that
  has looked up its project is `AtHome`: the project is there under that slug, or is gone
  and nothing of that slug stayed. With an empty plan this is `ExportPicture`.
- of an import (`Importing`, `Restoring(Pending(plan))`): each project of the backup is
  untouched and all its calls are pending, or there is one project that has exactly what
  the backup says of it but for the calls that are pending (`Filled`). With an empty
  plan this is `ImportRoundTrip`. `Owned`: a call whose project's creation is no longer
  pending names a project in `mine`, or one deleted since; from it `ImportHarmless`.

`Restorable` says of every backup that each definition has its scope in it, once; it makes
`Import`'s plan a plan (`ImportPlanned`: the calls of the file, each project's creation
before the rest of it, and nothing else).

Its second part is `StateView`, from any vault with `VaultInv`. The calls left are a
sequence, of which the proof knows the set and that it is `Sorted`: what is asked about a
scope that is being read comes before that scope's values, and they before all else.
`ViewInvariant` is about `ViewInv`, `VaultInv` with

- `TodoInv`: each call left is one the page makes, and what it asks about the scope that is
  being read is one of the wider scopes that apply there (`AsksFor`);
- `BoundInv`: a call that has looked up its project has a `Home`, as in an export;
- `InfosInv`: what has been read of a definition was in the vault at some time, and each
  wider definition that stayed is among what it overrides, or `Awaits` its question;
- `PageInv`: what is on the page is right (`ItemOk`), and each definition that stayed is
  `OnPage`, `InHand`, or `Ahead` (a call left will read its scope).

With no calls left these are `PageTrue` and `SensitiveHidden`. `NotFoundDeleted` has the
hypothesis that no environment is deleted by itself (no caller in the program does) and
the invariant `ListedInv`: what a call left asks for is a project that was listed, with an
environment it had, unless it has been deleted since; one that is created again under its
slug has another id. The proof found two arms of the `CASE` in `At` that overlapped, of
which TLC takes the first while TLA+ leaves open which; they now exclude one another.

**RedactionProofs**, from `RedactionAssumption` (a marker's elements, the symbols and the
bytes of the byte order marks are told apart; the sample is at least the four bytes that
the heuristic for unmarked UTF-16 looks at; the code's is 64). All but
`RedactionInvariant` and `RedactionTyped` have the hypothesis `ValuesApart`: no proper
ending of a value is the beginning of another or of itself; without it the code does
something else (section 5). They bound neither texts, values, writes, budget nor encodings.

- Redaction is done value by value, each with one scan. The first part proves what that
  comes to: under `ValuesApart`, a text is redacted piece by piece, each occurrence becoming
  its marker and everything else staying (`RedactPieces`, `RedactText`). So it may be cut at
  any place where no value lies across, and the parts redacted one by one (`RedactJoin`).
- The second part is the window of `StreamRedactor`: the place up to which `flush` emits is
  one where no value lies across now or after any more text (`EmitPointSafe`), although its
  backing off considers one occurrence at a time.
- The third part is the decoding: what `normalizingWriter` decides from a sample is what
  `NormalizeUTF8` decides from the whole (`DecidedFor`, `NormalizeEncoded`), and what it
  has given on is that prefix of the text whose bytes were complete.
- The invariant, `Inv`, has `Kept` (the bytes written begin those of the text, and the
  tool keeps their prefix), `Underway` (until the child ends the writer is `Waiting` for
  enough bytes, or `Decoding`: what was decoded is cut, at a place where no value lies
  across, into a part that is redacted in `out` and the `tail`, `Streaming`) and
  `Finished` (then there is nothing left, and `out` is the whole redacted). From it follow
  `TypeOK` (`RedactionTyped`), `StreamingMakesNoDifference` and `NoRemnantLeft`, for which
  a redacted text is shown to hold no value (`RedactedRemnant`), however markers and text
  meet.
- `CaptureLosesNothing` is about what the tool answers from the prefix alone, and assumes
  nothing of the markers' lengths. A cut after the kept prefix and the cut of the whole
  output leave the same redacted text before any place where no value lies across
  (`CutAlike`): if what stands there is already over the budget, the answers are the same
  (`FilledAnswer`). And the last such place in the prefix is less than a value from its end,
  so all before it is redacted as in the whole (`KeptAlike`).
- At the end what is held is emitted in two parts, by the last write and by `Close`.
  Redacted one by one they give and count what the whole does, whatever is held: text
  (`TextInTwo`), or the undecoded beginning of one (`HalfInTwo`, `UndecidedInTwo`).

**Only model-checked**: `CallsReturn`, as liveness is out of the prover's reach.

## 5. Where the code and its documents differ

Each of these has a run that shows it, and an entry with quotations in `PROJECT.json`.

- `SetSecretMetadata` against a concurrent `Put`: cleartext marked sensitive (`store_race`).
- Two first runs: a process works with a key that is not stored (`keys_race`).
- An interrupted or overlapped `migrateSecretsMetadata`: the version is recorded,
  columns are missing (`migration_cut`).
- Output of `execute_with_secrets` in which values are longer than their markers: the
  capture limit cuts a value whose first part is answered (`capture_cut`).

Met while modelling, without a run of their own:

- UTF-16 output of `execute_with_secrets` shows the same with markers of any length: the
  capture limit counts encoded bytes, so the prefix ends long before the budget of the
  decoded text. With `Encodings` = `{"utf16le", "utf16lebom"}` and `MarkerLen` = 3 in
  `capture_cut.cfg` TLC finds `StraddlingRedacted` violated too.
- The state view reads a scope's metadata and its values by two calls
  (`server.go:282-286`). A non-sensitive definition that is replaced by a sensitive one in
  between has its new, sensitive, value in the page, where the comment on
  `scopeSecretViews` promises "the values of its non-sensitive definitions" and
  `web-ui/spec.md:101` that the UI "MUST NOT display the values of sensitive secrets in
  listings". `StateView!ShownValuesAreOpen` says so, and TLC finds it violated by one
  write; `SensitiveStaysHidden` is what does hold.
- A process that is killed while `VACUUM INTO` writes leaves a partial file, which the
  next open takes for the snapshot of the original (`schema.go:201`). With
  `Killable <- Anywhere` TLC finds `SnapshotOfOriginal` violated.
- Values of which one begins where another ends: `StreamRedactor` backs off from an
  occurrence that crosses its window and so may cut one that lies before it, which is then
  emitted whole (`capture.go:118`). With the values `xy`, `yz`, `zxx` TLC finds
  `StreamEqualsWhole` violated.
- A proxied request whose response cannot be read to its end returns without an audit
  row, though the request was sent with its secrets (`proxy.go:177`).
- With no redactable value the retained prefix is exactly the budget, so a cut output
  carries no truncation indicator (`exec.go:142`, `mcp-server/spec.md:176`).
- `backup import` does not verify the master key; see `keys` above.
- A call that read its project's `allow_execute` and then finds the project deleted and
  created again resolves the new project's secrets. `EffectWasAllowed` is stated so
  that this is within it.
- The scopes in an audit row are resolved after the effect (`server.go:123` of `pkg/mcp`)
  and may be those of other definitions than the ones used; no property claims otherwise.
- Whether a failed value means a wrong key or a broken row is judged, when resolving,
  over the effective definitions alone.

## 6. What is not modelled

- **Windows process tree**: the job object's semantics are the operating system's.
- **`ListKeys`, `ListSecrets`, `EffectiveScopes`, `ListScopedKeys`, `ListAudit`** as
  operations of the store: they only read, in one or a few statements, and nothing is
  decided from what they answer but the scopes of an audit row, which `ToolCalls` has.
- **The web server's token and origin checks, its reveal and audit views, assets**: each
  a single check or read.
- **Substitution in URLs, headers and bodies, redirects; cancellation by the client;
  shutdown of a server**: no state that a property here is about.
- **The backup file**: sealing it with a passphrase, its two formats, JSON. `Import` opens
  and parses it before its first call.
- **UTF-16 beyond a zero high byte, texts with NULs**: see the bounds of `Redaction`.
- **AES-GCM, argon2, SQLite, the OS keyring**: taken as what they promise. SQLite's
  promises used are atomic statements and transactions, uniqueness, foreign keys.
- **Web page, version, flags, wording**: no behaviour of the kind checked here.

## 7. Plan

Done, in order: `VaultStore` and its proofs, `Migration` and its proofs, `Redaction`,
`ToolCalls` and its proofs, `VaultKeys`; then `Vault` and the refinement with its proof,
`Backup`, `ShellTags`, the encodings of `Redaction`, `discover_secrets`, the proofs of
`VaultKeys`, `StateView`; then the proofs of `ShellTags`, of `Backup`, of `Redaction` and
of `StateView`.

What could come next:

1. `run` of the command line as a second client of the child model of `ToolCalls`: it has
   no timeout and forwards exit codes.
2. The proxy's substitution and its redirects, if a property beyond `CommandsAudited` is
   asked of them.
