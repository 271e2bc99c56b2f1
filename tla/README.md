# Verification of can-lang

TLA+ models of the concurrent core of can-lang, checked with TLC, and proofs
about them checked with TLAPS. Everything is stated about the code under
`src/`; `PROJECT.json` names, for every definition that models code, the lines
it stands for.

## 1. The system

can-lang is a compiler (Go, `compiler/`) from `.can` programs to TypeScript, a
private runtime those programs run on (TypeScript on Bun, `runtime/`), and the
tools around them. The compiler's passes are sequential functions of source
text. State that several actors share, and that can fail half way, is in the
runtime and in three corners of the compiler.

### Inventory

Modelled:

| Component | State | Operations | Interacts with |
|---|---|---|---|
| Token ledger service, `runtime/outbound/ledger.ts` | one `LedgerState`: schedules, epoch rows, invocations, quarantine, version | `reserve`, `fence`, `settle`, `releaseUndispatched`, `reconcile`, `configurePool`, `transitionPool`, each through `runTransaction` | a `LedgerStore` (load and conditional commit) |
| Epoch schedules, `runtime/outbound/epoch.ts` | none | `epochContaining`, `transitionSchedule` | the ledger |
| AI budget guard, `runtime/ai/budget.ts` | IDs in flight, reports | `dispatch`, `settleUsage`, `releaseReservation` | the ledger; a provider |
| File ledger backend, `runtime/outbound/file-ledger.ts` | ledger file, lockfile, temporary files | `load`, `commit` | the file system, other processes |
| SQL ledger backend, `runtime/outbound/sql-ledger.ts`, `ledger-schema.ts` | version row and four tables, the mutex of an SQLite handle | `open`, `load`, `commit` | a database server |
| Resource ownership, `runtime/owner-core.ts` | scopes, resources, leases, groups, callbacks, close promises, shutdown timers | register, use, close, launch, publish, settle, `withScope`, `guardCallback`, `drain`, roots | every runtime component that holds a native handle |
| Coordination, `runtime/coordination.ts` | completions observed so far | selection of `all`, `settled`, `any`, `race` | groups of the owner |
| Operation boundary, `runtime/transport/operation-budget.ts`, `request-scope.ts` | done flag and timer of a race, expiry of a scope, escalations and late records | `raceBoundary`, `expire` | handlers, the server's stop |
| Event pump and sessions, `runtime/platform/websocket.ts`, `transport/stream/` | queue, waiters, terminal, drain flag; the registry of sessions | hooks of a socket, `accept`, `close`, `readMany`, `cancelReader`, `closeReader` | the server, Bun's sockets |
| HTTP server, `runtime/platform/server.ts` | the server token, live request scopes | serve, respond-then-drain, `stop`, signals | ownership, boundaries, sessions |
| Output store, `compiler/internal/driver/output.go`, `output_assets.go` | generations, `current.json`, stages, retained assets, leases | `Stage`, `SelectCurrent`, `Recover`, `DiscardGeneration`, leases, clean | commands of several processes, the file system |
| Language server loop, `compiler/lsp_scheduler.go` | buffers, revision, queue, dirty roots, one running job | document and workspace notifications, requests, cancellation, shutdown, completion | its worker, the client, the disk |

Not modelled, with concurrent state of their own:

| Component | What is hard | What would make it correct |
|---|---|---|
| SQL transactions, `runtime/platform/sql/transaction.ts` | native commit rejects after the decision to commit | owned work drains before commit; an unknown outcome is reported as such |
| Assertion barrier, `runtime/assert/barrier.ts` | answers requested in any order | delivery in canonical order, only at quiescence |
| Supervisor, `compiler/internal/driver/supervise.go` | a worker exits as its budget ends | ordered reports, timeout wins at equality |
| Install and update, `distribution/` | a crash between rename and link swap | `current` always names a complete version |

Not planned: the front end and back end of the compiler, the catalogue, codecs,
collections, HTML and form handling, the small platform adapters, tools,
examples and editor client. They are sequential functions of text or documents
(small instances of which say little), generated tables, or thin wrappers of
host calls. `PROJECT.json` lists each with its reason.

## 2. The modules

```
LedgerOps          operators: one ledger operation on one state (ledger.ts, epoch.ts)
  AtomicLedger     abstract: every operation takes effect at one instant, fails,
                   or is in doubt and takes effect later or never
  LedgerService    runTransaction of racing callers; implements AtomicLedger
  BudgetGuard      dispatch on top of AtomicLedger's contract
FileLedger         a LedgerStore in a file
SqlLedger          a LedgerStore in a database
Owner              scopes, resources, groups, draining, and selection
EventPump          operators: the event queue of a session
  Serving          requests, boundaries, sessions and stop of a server
OutputStore        generations of compiled programs under crashes
LspScheduler       the language server's loop and its worker
LedgerOpsProofs, LedgerServiceProofs, BudgetGuardProofs, OwnerProofs,
ServingProofs, OutputStoreProofs, LspSchedulerProofs
LedgerStoreProofs  FileLedger and SqlLedger, as two LedgerStores
MC*                instances for TLC
```

The chain BudgetGuard – AtomicLedger – LedgerService – store is the
composition: BudgetGuard uses the ledger only through the contract that
LedgerService is proved to implement, and LedgerService assumes of its store
only load and compare-and-swap, which SqlLedger is proved to provide, and
FileLedger until a lockfile is stolen from a writer that is still in the critical
section. Serving composes the
server with boundaries, sessions and readers, and takes from Owner when a
resource may be used and closed.

**LedgerOps.** A `LedgerState` is a record of functions. Each `...Apply` or
`...Known` operator is the `apply` function the service gives to
`runTransaction`: it returns the next state, whether it writes and the answer.
Tokens, times and bounds are integers up to `MaxSafe` (the safe-integer
checks of the code); names are model values; provider, model and version of a
profile are its identity.

**LedgerService.** One action per await: load, then reply or go on to commit;
commit succeeds, loses the race and retries, or throws. A throw leaves the
write in `inDoubt`, from where it may still land while its expected version is
current. Callers crash anywhere. `base` and `attempt` record the races lost,
`overtaken` the pools in which an edit took effect inside or before an epoch that
already had a row.

**BudgetGuard.** `dispatch` as the sequence reserve, fence, send, response,
settle with a step per await and every early way out; the in-flight set per
guard; operators that settle and release; crashes of a guard. A provider call
consumes tokens when it is sent, whatever becomes of the answer.

**FileLedger.** The lock loop of `acquireLock` statement by statement (create,
find, stat, steal, give up), then compare, open with truncation, write, sync,
rename, sync the directory, release, one step per await. Writers are transactions
and belong to processes; the temporary file's name belongs to the process, and a
handle keeps its file when the name is renamed, so two transactions of a process
may write, truncate and rename one file. `ledger` is the file the name refers to
now, `durable` the one after a power loss. A clock appears only as the moment a
lockfile is older than `LOCK_STALE_MS`, which comes to every lockfile, its holder
dead, slow or neither. Two histories record what breaks the promises: `robbed`, a
lockfile was stolen from a writer in the section, and `shared`, a temporary was
opened while another writer used it. Its names (`FileInit`, `FileNext`, `phase`)
differ from SqlLedger's, so that one module of proofs extends both.

**SqlLedger.** Every statement of the load and the commit transaction is a
step. The database is external: visibility at commit, a row lock from the bump
to the end, a snapshot exactly at REPEATABLE READ or above. The three dialects
and both server defaults are initial states.

**Owner.** What a function does up to its next await is one action. An actor is
the root's body or a task (participant or callback). A lease belongs to an
owner key: a group's, a callback's or the base of a scope. `closer` is the
close promise, `drain` the progress of `drain(root, scope)`, whose loop
iteration (arm timers, test for live work, leave) is one action. A scope s is
inside t (`Inside`) if the walk along the parents of s comes to t: t is in every
set that holds s and the parents of its members. The sweep's `todo` is the set of
resources still to close, of which it takes the latest registered. Several roots,
resource kinds, the traversal that finds captures and the delivery of
diagnostics are left out, every failure is its own occurrence, and a waiter is
awake whenever its condition holds, so signals themselves are not modelled.

**EventPump, Serving.** A pump is a record and its functions are operators that
return the new pump and what each waiting reader is told. In Serving a step is
what runs between two awaits. Each request has a main task, its handler, and may
have a side task, a participant of a race the handler did not wait for, which
outlives the response. `told` and `taken` are histories of the hooks' events and
of the readers'. The leases of tasks are implied by where they are; how they are
counted is Owner's. A native operation keeps its own lease until it settles,
whatever became of its boundary: `op[t].on` says whether it is on a resource of
the request's own scope (a transaction's handle, a pool the handler opened),
which the request's drain then waits for, or of an outer one. Left out: sends,
the native socket, client sockets, reports, the revocation of a drained request
and the deadline with which a caller of `stop` gives up (Owner has close
deadlines). Handler work outside a boundary is assumed to end.

**OutputStore.** Commands (build, run, assert, clean) as sequences of the file
system's effects, under the project lock except for what runs under a lease. A
command may die between any two effects, and any effect may meet an I/O error,
handled as the code handles it (`Refused`) or ignored where it ignores it
(`FaultIgnored`); `Recover` is the first thing the next command does. `forfeited`
is a history: the digests of a publication that met an I/O error after the
selection moved or the ledger was rewritten, where the code cannot take back what
it did. A directory is a set of entries with the manifest told
apart; contents are digests.

**LspScheduler.** The top of the loop's iteration, each message, the worker's end
and the receipt of its result are actions; the result waits in its channel while
messages are handled. A text is the revision that wrote it. `screen` and `told`
hold what the client shows, as the inputs it was computed from. `initialize` is
the initial state, since clients send it first. Decoding, framing, versions that
do not advance (ignored, so no step), dependencies between roots and roots that
move with a manifest are left out. A finding of a closed document is a choice.

## 3. What is checked

| Run | Shows | Bounds |
|---|---|---|
| `ledger_service` | no over-admission, no write from a stale load, tokens of rows add up, history is final, holds lifted only for usage or proof, retries paid by commits, pinned epochs of a pool apart until an edit is overtaken, implements AtomicLedger, every call answered | 2 callers, 2 invocation IDs, 1 write in doubt, 2 attempts, times to 6, 2 versions of a schedule; one of three workloads per behaviour |
| `budget_guard` | tokens really consumed are covered by the ledger, no send without a durable fence, in-flight IDs exact, reports true | 3 tasks in 2 processes, 1 ID (so that every retry meets the first attempt), 1 operator, 2 sends, 1 operation in doubt |
| `file_serial` | serialized, durable compare and swap until a lockfile is stolen from a writer in the section; never torn until a temporary is shared | 3 writers, so two waiters race to steal, in 2 processes, so two share a temporary |
| `sql_store` | atomic loads, true answers, nothing dropped, connection not shared, every call ends | 3 callers, 2 stores, 1 fault, 3 dialects |
| `owner_leases` | no close while leased, exact leases, late failures reported exactly | 2 tasks, 1 nested scope, 1 resource, 1 native operation; all, race, settled, native |
| `owner_drain` | scopes die empty, one close per resource, cleanup told, the root ends | the same, any-groups, a resource closed repeatedly |
| `output_store` | the selected generation is whole, replaced assets stay servable unless forfeited, interrupted stages and metadata writes are found again, clean spares leased generations | 3 commands, 2 sources, 2 edits, 2 deaths, 2 I/O errors |
| `serving` | one true outcome per operation, events in order and none lost, a stop ends but for two waits it names | 2 requests (a session; operations beside a plain one), queue of 1, 2 hook events and a close, 2 prompts |
| `lsp` | every request answered once, no finding lost or stale, the loop ends | 3 documents, 2 roots, 2 requests on a queue of 1, 2 invalidations, 2 retries |

Two racing actors are what lost updates, double releases and early closes
need; a third (SQL, budget) lets a commit fall between two reads, or a retry
meet both a crash and an operator. A queue of one makes the second of two events or
requests meet its limit; two invalidations suffice for an edit during a job and
another before its result is received (three were checked once, with two
documents, in the same way). One write in doubt suffices because a write
in doubt interferes with one version. Bounds on attempts and schedules only
shorten loops; `RetriesPaidByCommits` counts relative to them.
In `ledger_service` the callers of a behaviour keep to one workload
(`MCLedgerService`): mixing them multiplies states without a new kind of conflict,
since operations on invocations meet edits only through reservations, which are in
both. The theorems of section 4 have no such restriction.
`budget_guard` tells states apart by a view (`Relevant`) that leaves out what
finished dispatches returned, which no step or property reads.
Deadlock is off where the system may stop: commits used up, all callers
answered, the root ended.

Each property has a mutant in `PROJECT.json`: a plausible slip in one mapped
definition (the `Faulty variant` operators) that makes TLC report it.

That the spend stays within the limit follows from `SpendCovered` together with
the theorem `BudgetKept`.

### Disagreements with the repository's own statements

Three runs expect a violation; each is described under `findings`. Beside each
stands the property that says what the code does keep.

- `budget_resend`: a retry with the ID of an uncertain attempt is sent again on
  the same reservation (`budget.ts:433` against `ledger.ts:474`). `SpendCovered`
  excepts rows with such a call.
- `output_discard`: a build or run whose publication fails deletes the generation
  that a program started by `run` has leased (`output.go:541` against `run.go:9`).
  `CleanSparesLeases` is what does hold: clean takes the locks.
- `output_retention`: an I/O error between the replacement of `current.json` and
  the end of `SelectCurrent` (`output.go:513`, `516`) abandons the retention while
  the new generation stays selected; one while the store is swept or the intent
  removed (`output_assets.go:260`, `264`) selects the prior generation again over
  a ledger that has dropped its digests. Either way assets are lost, against
  `output_assets.go:105`. `AssetsKeptUnlessForfeited` says that these are the only
  steps, and which digests they cost.

### Limits of the code the properties name

These are states the models reach; the properties are stated around them, and
where they are, it is by a history variable or an exception with a name. The
first four also disagree with a statement of the repository.

- An edit made at the first instant of an epoch that already has a row is
  accepted, and the next reservation can pin an epoch inside that one, which
  gives its instants a second allowance (`epoch.ts:102` accepts `nowMs` itself as
  the boundary and looks at no row; `epoch.ts:79` says "overlapping or retroactive
  transitions are TypeErrors", and `docs/implementation/outbound-policy.md:89`
  agrees). So does an edit that reservations have overtaken when it commits.
  `overtaken` marks the pool and `EpochsApartUntilOvertaken` stops there; without
  the exception TLC reports it on the workload `EditRequests`.
- A live holder slower than `LOCK_STALE_MS` is robbed of its lockfile and two
  writers are in the section (`file-ledger.ts:79`; its header says that writers
  serialize). The same happens when two waiters steal one stale lockfile
  (`file-ledger.ts:80`). An acknowledged write can then be overwritten. `robbed`
  marks it; `SerializedUntilRobbed`, `ComparedStillCurrent` and `AckedWritesKept`
  hold until then, and `WritersSerialize` without the exception is violated.
- After such a theft two transactions of one process use one temporary file, and
  a rename installs a file the other has just truncated (`file-ledger.ts:126`; its
  header says "atomic rename and fsync"). `shared` marks it and
  `IntactUntilShared` holds until then; `LedgerIntact` by itself is violated.
- A queued drain counts toward the data cap of the pump, so a message can overrun
  a queue that holds no data (`websocket.ts:139`; `websocket.ts:145` says that a
  drain "bypasses the data cap"). `PumpFaithful` bounds the data only from above.
- Two edits inside an epoch produce equal anchors, which the SQL primary key
  refuses (`ledger-schema.ts:49`).
- A deletion that dies between the manifest and its directory leaves a directory
  without one, which staging the same inputs and clean refuse for ever
  (`output.go:673`).
- A session accepted after the prompt of a stop is failed by nobody, so its
  reader may wait for its peer (`websocket.ts:258`). A scope that ends without
  `stop` does not prompt its sessions either.
- A native operation that never settles keeps its lease after its boundary has
  given up (`sql/pool.ts:166`), and the drain of the request that owns the leased
  resource waits for it (`owner-core.ts:646`): a query of a transaction that hangs
  keeps its request from draining, though not the server from closing. This and
  the session above are the two exceptions of `StopEnds`.
- The root of an untitled buffer can be dirty when the buffer closes; it is then
  diagnosed as a project that does not exist, and its status reported
  (`lsp_scheduler.go:256`, `lsp.go:273`). No document shows findings for it.

### Fairness

`LedgerService!Fairness` and `SqlLedger!FairSpec` assume weak fairness of each
caller's steps: a promise the runtime awaits settles, and a database answers.
`EveryCallEnds` needs no more because a lost race means another caller's commit
and each caller commits once. `Owner!FairSpec` assumes weak fairness of what
the event loop runs (wakes, continuations, the sweep) and of native operations
ending, and strong fairness of a body returning: a program may close the same
resource again and again, but does not do so for ever. No fairness is assumed
of close deadlines and shutdown timers, of callbacks, or of anything being
registered. `RootEnds` allows one way to hang: actors that wait for one another
(`Tangled`), such as a participant that closes, without a deadline, a resource
it captured. The code has no detection of that and the docs say deadlines bound
only the wait of the caller. `Serving!FairSpec` assumes weak fairness of the
runtime's reactions, of ingress (Bun's idle timeout ends a stalled request) and
of handlers and participants that wait for nothing; peers and native operations
need never do anything, which is why `StopEnds` says something.
`LspScheduler!FairSpec` assumes that the loop runs, that an analysis ends and
that Go's `select`, which chooses at random, takes a waiting result sooner or
later; the disk may change under every analysis.

## 4. What is proved

All theorems hold for any number of actors and any values of the constants.

**LedgerOpsProofs.** `ApplySound`: from a state that is typed, within its limits
and whose breached invocations are settled (`LedgerInv`), each operation either
replies and changes nothing, or writes version + 1 and keeps `LedgerInv`. One
lemma per operation (`ReserveSound`, `FenceSound`, `SettleSound`,
`ReleaseSound`, `ConfigureSound`, `TransitionSound`); `FitsBounds` is the
arithmetic of admission; `ResolveInv` is shared by settle and release.
`ApplyLawful` is the same for pairs of states (`Lawful`): history is kept, a
hold goes down only by the bound of an invocation that was settled with usage or
released unfenced, and the chart of a pool is kept unless the operation edits
the pool too late. The chart is what `EpochsApartUntilOvertaken` rests on: each
version of a pool begins on the grid of the one before it (`Chained`), and each
pinned epoch lies on the grid of one version and ends before the next begins
(`Charted`). Two different epochs of such a chart do not overlap
(`ChartedApart`). It also says that a row stays equal to its invocations
(`Conserved`): what is held is the sum of the bounds of those pending, what is
committed the sum of the debits of those settled. A sum (`Total`) is the number
of pairs <<invocation, token>>, so the lemmas about it (`TotalAdd`,
`TotalCovered`, `SameTotal`) are facts about the cardinality of finite sets and
need no induction. `UndefinedIsNoUsage` says that the absent usage is not a
number.

**LedgerServiceProofs.** `TypeCorrect`, `BudgetKept` (`NoOverAdmission`),
`WritesAreFresh` (`NoStaleWrite`), `RacesConverge` (`RetriesPaidByCommits`) and
`ServiceIsAtomic` (`IsAtomic`, a refinement). `NoOverAdmission` is not inductive
by itself: a client holds a state it will write later. `IInv` adds that the
state a client or a doubt will write from has `LedgerInv`, is not newer than the
store, and is the store if it has the store's version. A version names one
state because every write advances it. The two action properties
(`HoldsNeedProof`, `HistoryKeptForever`), `TokensAccounted` (`TokensConserved`)
and `EpochsStayApart` (`EpochsApartUntilOvertaken`) follow: by `IInv`
every step that changes the store, a write out of doubt included, is one
operation applied to the store itself, and `ApplyLawful` says what that may do.

**BudgetGuardProofs.** `FencedBeforeSent` (`SentUnderFence`), `FlightsExact`
(`InflightExact`), `ReportsHold` (`ReportsTruthful`) and `ConsumptionCovered`
(`SpendCovered`). What a task knows of the
ledger is old when it acts on it; it is still true because a fence stays and a
settled or released invocation is final, which is `ApplyLawful` again. `IInv`
says what a task knows at each await, that every operation in doubt is an
admissible call, and which IDs each guard's set holds. For `SpendCovered`,
`SpendInv` adds that every usage on its way to the ledger (a task's, one in
doubt) or arrived there accounts for the call it was reported for. Then each
invocation covers its own call, by its bound while it is held and by its debit
once it is settled, and `Conserved` turns that into the row's sums.
`UndefinedIsNoReason` says that no reason for a refusal is the absent one.

**LedgerStoreProofs.** Of the SQL backend `LoadsAtomic`, `CommitTruthful`,
`ConnectionExclusive`, `CommitsAdd` and the type invariant, for every dialect and
default isolation. `IInv` says what has been read and staged statement by
statement (`ReadInv`, `StageInv`), where a caller's mark is (`MarkInv`), that the
history ends in the database (`LogInv`), that open handles have repeatable loads
(`HandleInv`) and that the mutex queue is exact (`MutexInv`). Of the file backend
`SerializedTillTheft` (`SerializedUntilRobbed`), `CommitIsCas`
(`ComparedStillCurrent`) and `AckedIsDurable` (`AckedWritesKept`), up to the moment
a lockfile is stolen from a writer in the section, and `LedgerNeverTorn`
(`IntactUntilShared`), through any thefts, up to the moment a writer opens the
temporary file another one uses; the properties say so themselves. `FileInv` has a
part for each: `LockInv`, that the lockfile of whoever is in the section is its
own, what each program point implies of the ledger, and that a version names one
content among the writers under way; and `TempInv`, that no file has two names and
that whoever is about to rename one has written and synced it.

**OwnerProofs.** Six theorems, from two invariants. `IInv` is about leases,
closes and groups: an initial lease belongs to a live task, an awaited actor is
where its waker expects it, groups share no member and the leases of a resource
are counted exactly (a cardinality, which is why `TasksAssumption` makes the tasks
finite). From it: `NeverClosedInUse` (`NotClosedInUse`), `LeasesNeverDrift`
(`LeasesExact`), `LateFailuresTold` (`LateFailuresReported`) and
`ResourcesClosedOnce` (`ClosedOnce`, an action property). `SInv` is about the tree
of scopes and takes `IInv` for granted: a live actor has come to its scope through
scopes it runs itself (`PlaceInv`), so when nothing is busy inside a draining
scope only the actor that waits for the drain is left in it; and what the sweep
has gone past is closed and stays so (`DrainInv`). From it: `ScopesAlwaysDieEmpty`
(`ScopesDieEmpty`) and `CleanupAlwaysTold` (`CleanupTold`).

**ServingProofs.** `BoundariesHonest` (`BoundaryHonest`) and `PumpsFaithful`
(`PumpFaithful`), for any number of requests, sessions, messages and prompts.
`BoundaryHonest` is not inductive: that a prompt reaches every race needs
`LivePart` (a request is in `liveScopes` from arrival to the end of its drain, and
tasks race only meanwhile) and that none begins after it needs `StopPart` (after a
prompt the server admits nothing and every live scope has expired). For pumps,
`Follows` relates one pump to what it was told and what was taken: the queue is
the rest of what was told, or empty for good once the pump failed or was disposed
of; whoever waits finds it empty; a drain is pending exactly while one is queued;
data is queued only at positions within the bound. There is one lemma per
operation of the pump (`PushKeeps`, `PushDrainKeeps`, `PushCloseKeeps`,
`TakeKeeps`, `SettleKeeps`, `InterruptKeeps`, `DisposeKeeps`); the actions of
Serving only choose the operation.

**OutputStoreProofs.** `CurrentAlwaysWhole` (`CurrentWhole`),
`ReplacedAssetsKept` (`AssetsKeptUnlessForfeited`), `LitterAlwaysRecovered`
(`LitterRecovered`) and `CleanNeverTouchesLeased` (`CleanSparesLeases`, an
action property), for any number of generations, programs, crashes, errors and
edits, under `IdsAssumption` and `NoneAssumption` (build IDs of test and
production generations differ, and the absent value is none of the others).
`IInv` says for each step which phase it can belong to (`FlowInv`) and what then
is on disk: the stage (`StageInv`) and temporaries (`TempsInv`), what is
selected and deleted (`SelectInv`), whose intent is on record (`IntentInv`), and
where each replaced digest can be had (`KeptInv`). The last is the heart: until
the ledger is rewritten every digest `Due`, owed and not forfeited, can be had
*without* the new selection, so that taking it back loses nothing, and from then
on without the prior one, so that deleting it loses nothing. A clean that died
leaves ledger rows without bytes (`Bare`); none of them is a digest the replaced
generation serves, so retention never takes such a row for one that is stored
already. `RefusedInv` carries every error path whose failure can be taken back
(`TakenBack`), `ForfeitInv` and `UnsyncedInv` the three that cannot,
`IgnoredInv` the ignored errors, and `FinishInv` every end and death of a
command.

**LspSchedulerProofs.** `FindingsStayCurrent` (`FindingsCurrent`), for any
documents, roots, requests and retries. `IInv` adds `JobInv`, that a job's clone
of documents and publications is the server's as long as the revision is current
(a publication is computed from the clone), and `ScreenInv`, that the client
shows findings only of documents on record (an invalidation marks roots from the
records). `InvalidateInv`, `QuietInv` and `LastWordInv` each carry the actions of
one shape: those that mark roots, those that leave the screen, and those that
have the last word on a root. `RequestsAnsweredOnce` (`AnsweredOnce`) counts the
places of a request (its answers, the worker's job, the queue); the lemmas say how
the count of the queue changes when its head is taken, an entry appended or
cancelled, or all of it drained.

**Only model-checked.** Liveness (`EveryCallAnswered`, `EveryCallEnds`,
`RootEnds`, `StopEnds`, `WorkEnds`): fairness is out of the prover's reach. Every
invariant and action property that a passing run checks is also proved.

## 5. Not modelled, and the plan

Done: the ledger with its backends and the guard; ownership with selection;
boundaries, sessions and the server's stop; the output store; the language
server's loop.

Left, in order:

1. SQL transactions and the assertion barrier, as clients of Owner.
2. Supervisor; install and update.

Everything else (Inventory, "Not planned") is sequential code over text, values
or host calls. Most of the repository's lines are there: the generated catalogue
alone is larger than all modelled code, and recorded evidence under `docs/` larger
still.
