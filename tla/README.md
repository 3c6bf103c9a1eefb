# Formal models of TOPTOPDuck

TOPTOPDuck is a desktop agent for data analysis: a Tauri application whose Rust
core (`src-tauri/src`) keeps *sessions*. A session owns an embedded DuckDB engine,
a working set of sources and results, a conversation timeline, and a directory on
disk. A *turn* sends the user's question to a provider or to an external agent
runtime, which calls tools: SQL runs in a sandbox, and what it computes is
*promoted* to a `result_N` table. A React frontend (`src`) drives the core through
Tauri commands.

The models here follow the Rust core. They cover what is hard to test in it: the
threads that share a session's cancel token, the life of sessions and their
single-writer keys, the approval gate, the files of a session directory across
failures and restarts, the two drivers of a turn (an external agent behind the
gateway, and the built-in loop with its sub-agents), the MCP servers a turn connects
to, and the configuration file. `PROJECT.json` maps every definition to its source
lines.

## Inventory

Paths are relative to `src-tauri/src` unless they start with `src` or `crates`.

| Component | State | Operations | What makes it hard | What makes it correct |
|---|---|---|---|---|
| Cancel token (`cancel.rs`) | one atomic word (generation, request flag); in-flight flag; interrupt slot; clock slot | `begin_turn`, guard drop, `request`, `request_if`, `clear_stale_request`, `set_interrupt` | turns, row pulls, resumes, clicks and watchdogs touch it with no common lock | a stop ends the command it was meant for and no other |
| Progress watchdog (`session/progress.rs`) | per-turn clock: last event, freeze depth, reason | `arm`, `touch`, `freeze`, poll, fire | its thread outlives the turn it watches | fires inside its own turn or stands down; a hung turn ends |
| Turn entry and worker (`session/turn_entry.rs`, `turn_runner.rs`) | the session mutex, the turn's outcome | lock, guard, drive, record, discard on close | closes and panics during a turn | a closed turn is never recorded |
| Sandbox (`sandbox_sql.rs`, `session/sandbox.rs`) | connection, interrupt handle | check, register, run, install | a stop beside the registration | no result is half installed |
| Session store (`session/store.rs`) | map of handles; closing and resuming flags; drop-signal slots | create, detach, fire cancel, close-wait | references outlive the map entry | every closed session goes, once, and signals its waiter |
| Commands (`commands.rs`) | none of their own | `open_recipe`, `close_session`, close-and-wait, `delete_session`, `rename`, turns, edits, many queries | gates are checks that another command may invalidate | commands keep the gates' promises |
| Single-writer registry (`persistence/registry.rs`) | process-wide set of canonical recipe paths | `try_acquire`, `release` | released by guards, drops and commands | one writer per recipe |
| Approval gate (`approval`) | mode, trust list, pending slot, two latches | `gate`, `respond`, `set_auth_mode`, `revoke`, `reset`, `interrupt_pending`, `abandon_pending` | an answer, a stop, a reset and an echo race | no call without consent; an accepted answer decides |
| Recipe persister (`session/recipe_persister.rs`, `persistence/io.rs`) | baseline hash, pending conflict, persist error | `save_if_bound`, `take_*`, `adopt_resumed` | failed writes, other programs | recorded history is never lost, drift is told |
| Companion (`session/companion.rs`) | `_meta` row beside the result tables | `stamp`, `probe`, `discard` | two files, no atomicity | a hit is as good as a replay |
| Resume (`session/resume.rs`) | the recipe read, the session being built | read, probe, restore or replay, degrade, save | a replay may break in the middle | nothing recorded is dropped |
| Sources (`session/source_lifecycle.rs`, `session/ingest.rs`, `ingest`) | descriptors, snapshot files | ingest, rename, remove, replace | file swaps before the recipe is saved | snapshot, descriptor and recipe agree |
| Working set and results (`workingset.rs`, `session/materializer.rs`, `outcome_merge.rs`) | datasets, provenance, stale marks, number floor | register, resolve, mint, install, cascade | a failed turn leaves tables and registrations | a number names one result for ever |
| Tool dispatch (`session/turn_dispatch.rs`) | freeze guard, ghost snapshot | gate, run, roll back after a panic | unwinding | no orphan result |
| Agent loop (`session/loop_contract.rs`, `loop_runtime`) | step count, loop detector, sub-agent depth | step, truncate, nest | limits | it ends, within its caps |
| Turn window (`turn_window.rs`) | none | select turns for a budget | boundaries | newest turns first, budget kept |
| MCP gateway (`runtime/gateway`, `crates/acp-bridge`, `crates/bounded-line`) | connection, keep-alive slot, collected promotions | serve, frame, park, answer | a companion thread writes into the same funnel | no frame behind its answer |
| ACP engine (`runtime/acp`) | child process, event fold | handshake, prompt, permission, cancel | events out of order, dead processes | each call settles once |
| MCP client and aggregator (`mcp`) | connections, kill slots | connect, call, tear down | a cancel beside a connect; servers that fall silent or outlive their kill | an expired connect keeps no live transport, a fire misses one server at most, no wait is for ever |
| Configuration (`app_config`, `provider/live_config.rs`) | the settings file and its snapshot | load, modify, save | concurrent writers | no lost update |
| Shared datasets (`workspace`, `session/shared_datasets.rs`) | registry of datasets several sessions attach | promote, attach, delete | sessions share files | nothing attached disappears |
| Listing and organization (`persistence/listing.rs`, `organization.rs`, `migration.rs`) | the organization sidecar | list, archive, move, delete | a sidecar beside the directories | entries and directories agree |
| Providers and prompts (`provider`) | HTTP requests | stream, retry, keychain | network | - |
| Skills, agents, tools (`skills`, `agents`, `cli_tools`, `analysis_tools`) | registries of files | load, import, run | external processes | - |
| Frontend session state (`src/session`, `src/shell`) | busy flag, composer queue, turn flow | open, close, delete, queue, send | asynchronous answers | one operation at a time per session |
| Shell (`lib.rs`, `tray.rs`, `updater.rs`, `window.rs`) | windows, tray | platform glue | - | - |

How they interact: a command finds the session's *handle* in the store and keeps a
reference to it. `ask` takes the session mutex, begins a turn on the cancel token,
arms a watchdog and drives the provider or the external runtime; each tool call
passes the approval gate and runs in the sandbox, whose interrupt handle sits in
the token. When the turn settles, the session saves its recipe and stamps the
companion. `cancel` and `close_session` need no lock: they raise the token's flag,
interrupt the running query and wake the gate. `open_recipe` builds a new session
from a directory and swaps it into the handle. The session's destructor gives the
recipe key back and signals a delete that waits for it.

## Modules

| Module | Models |
|---|---|
| `TurnCancel` | cancel token, watchdog, turn entry, sandbox registration, row pulls and resumes as users of the token |
| `TurnCancel_proofs` | theorems about it |
| `ExternalTurn` | a turn of an external agent: the engine, the agent's bridge, the gateway's spine and reader, the keep-alive companion, and the merge of the two accounts of its calls |
| `ExternalTurn_proofs` | theorems about it |
| `AgentLoop` | a turn of the built-in loop: the driver with its event folds, the sub-agents, the dispatch server, stops |
| `AgentLoop_proofs` | theorems about it |
| `McpFleet` | the external MCP servers of a turn: connects, requests with their budget, tool calls, the watcher that kills them on a stop |
| `McpFleet_proofs` | theorems about it |
| `ConfigStore` | the configuration file, its setters and reads, the window's copy and its commits |
| `ConfigStore_proofs` | theorems about it |
| `PathWriters` | abstract: what the single-writer registry promises |
| `SessionLifecycle` | store, handles, registry, drop, and the commands that create, close, open, rename and delete; shown to implement `PathWriters` |
| `SessionLifecycle_proofs` | theorems about it |
| `ApprovalGate` | gate, policy, answers, stops, resets, and the echo thread of an external runtime |
| `ApprovalGate_proofs` | theorems about it |
| `SessionTree` | recipe, companion, snapshot and working set of one session, saves, failures, the end of the process and the resume |
| `SessionTree_proofs` | theorems about it |
| `MC*` | the instances that TLC checks |

### TurnCancel

State: `gen` and `req` are the halves of the token's atomic word; `slot`,
`clockSlot` and `inFlight` its three separately locked cells; `lock` the session
mutex and `resuming` the handle's flag. `pc` walks each command through its own
accesses to them, and each access is one action, so that anything may come between
two. `dog`, `silent`, `frozen` and `timedOut` are the clock and its watchdog
thread; `silent` counts polls without an event up to `Cap`. `begin_turn` is
`BeginLoad` and then `BeginSwap`, two separate accesses with no retry when the word
has changed in between; the guard's drop is `DropInFlight`, `DropSlot`, `DropClock`, `RetireLoad`,
`RetireSwap`; `request_if` followed by its interrupt is `DogFire`, `DogInterrupt`.
A tool is in `calling` where no interrupt reaches it (it runs no query, or its sandbox
is being set up) and passes the sandbox's mid-check on its way out; then a query is
registered (`SetInterrupt`), started (`StartQuery`, where an interrupt that came first
may be lost) and ends by itself or by an interrupt. `ArmClock` may fail to spawn the
watchdog, and the turn runs unwatched. `hit`, `missed` (an interrupt was fired before
the query began) and `killers` are history variables of the properties.

`FreshTarget` states the shell's discipline: a resume goes into a session created
for it, with nothing else running there. The backend alone does not enforce it.

### SessionLifecycle and PathWriters

A handle is in `map` from creation to detach; a `Session` object has a `stage`
from `live` over `released` and `signalled` to `gone`, which are the steps of its
destructor; the destructor runs when no command `Holds` the handle. `held` is the
registry. Every command that is started runs through its own steps: `open_recipe`
acquires the key, reads, adopts, re-arms the drop signal and swaps; a delete
detaches, waits for the signal or gives up after its timeout, takes the key,
erases and frees. `ShellGuards` adds the frontend's busy flag to the guards,
`LateFailures` lets an open fail after the new session took the key.

`Writers(p)` names whoever may write the recipe at `p`, and is the refinement
mapping: under it every step of `SessionLifecycle` is a claim, hand-over, release,
record, erase or discard of `PathWriters` or leaves it alone.

### ApprovalGate

One action per lock or atomic of `gate`: the policy is read, the two latches are
cleared one after the other, the slot is filled, the card is announced, the wait
ends on an answer or on a stop, the slot is emptied, and the call settles. The
user's commands, the stops (`fire_cancel`: token, then latch), the resets of a
resume and the echo thread (compare the parked call, then latch) run at any time.
The 200 ms poll of the wait is why `HearStop` may also read the token.

### SessionTree

`mem` is the working set, timeline and attached snapshot of the running session;
`file`, `snapshot`, `tables` and `stamp` are what the directory holds. A result is
its number and what its SQL reads: the source (0) or an earlier result. A
fingerprint, hash or digest is the value it is taken over; `Digest` leaves out the
label because `chain_digest` does. A save is `SaveChecks`, `Write`,
`RefreshBaseline`, `ClearStamp`, `InsertStamp`, each of which may fail where the
code handles a failure, and `Stop` may come between any two. A resume is
`ReadRecipe`, `SeedBaseline`, then `RestoreHit`, or `DiscardCompanion` and
`Replay(k)`, where `k` is the recorded promotion at which the replay breaks.
`EditRecipe` is another program at work in the same directory; `EditAt` says when.

### ExternalTurn

One group of variables per thread, and one action per step between two places
where threads meet: the token's flag, the socket, the funnel's lock, the keep-alive
slot, the gate's latch. `eng` walks `run_external_turn`'s engine thread through
handshake, prompt windows, settle, kill, the drop of the guard and the flag that
tells the serve; `rows` and `pending` are the engine's fold. `spine` is
`serve_connection` on the session's thread with its call in `call` and its account
in `gtrace`; `reader` is the task that hands it frames from `socket`; `slot`,
`keeper` and `progress` are the keep-alive companion, where `progress` is the last
frame on the wire if that is a progress frame. `running` and `completed` are what the live
rail was told, by the gateway for its own calls and by the engine for the agent's.
`Merged` is `merge_outcomes`, one engine row after the other. The agent and its bridge are environment:
they may send any call once, report any call, cut the connection within a frame,
fall silent or die at any moment; `failed` and `cut` keep apart an error that
follows the engine's own kill.

### AgentLoop

`driver` is the thread that polls the streams, `server` the session's thread that
executes what it is asked in `request` and answers in `reply`. Each *family*, the
main loop and the sub-agent of the running delegation, has its stream (`rig`), its
window's steps, the calls of its batch that have not returned (`todo`), the results
that have not surfaced, its `fold`, and the `queue` of rows the server has recorded
and no result has landed yet. The operators `OpenCall`, `Park`, `ConfirmBatch`,
`FinalResponse`, `Finish` and `Drain` are the functions of `fold.rs`; a piece of
prose is the member `"text"` of a round. A stop travels from the token's `flag` over
the watcher's `notified`; the driver, which polls the notification first, then drops
its futures, and a delegation that is dropped lands what it has. `made`, `ran`,
`issuer` and `spoke` are history: the rows, executions, issuers and prose that the
properties compare the outcome with.

### McpFleet

`at` is where the session's thread is, `nth` the server whose connect is next, and
`cur`, `job`, `page` the request under way: the handshake, a page of the tool list or
a call. One request is `Entry`, `Posted`, `Check` and a read, with the outcome in
`Answered` or `Fails`, for all three transports; `Stopped`, `Severed` and the stored
wake in `permit` are where they differ. `slots`, `marked` and `handle` are the
registry of connects with their kill slots, `up`, `killed` and `resists` (children
that outlive their kill) the transports. The watcher takes a pass over the slots in
two steps each, flag and kill, beside `Publish` and `Recheck`, which store the handle
and read the flag. `engine` is the guard of the turn: the session's thread begins it
after the connects when the runtime is built in, the engine's thread at any time when
it is external, and both its ends clear the token's request. `corpse`, `revived` and
`wiped` are history. The servers are environment.

### ConfigStore

Files are inodes: `disk` and `tmp` are directory entries, `content` what an inode
holds, so a writer that lost its temp file to another's rename goes on writing into
the target. A document is a value per section, and each operation writes its own
section. `pc` takes a thread through lock, read, migration, change, create, fill and
rename. The main thread takes the window's requests one after the other from `ipc`;
`front` is the window's copy, `prev` what a failing settings commit goes back to.
A value may be out of its section's domain: the operations in `Malformed` send such a
value, and a hand edit writes `Raw` into one of the `Spoilt` sections. `Normalize`,
through which every write goes (`store_inner`), repairs every section, `Sanitize`, what
every read does (`parse_at`), the engine's alone; a repair is `Repair`, whose outcome is
one value whatever it repaired. The window repairs nothing and keeps what it sent.
`Crash` ends the process at any point and starts the next one, which scans and
loads again. Simplified: `set_sessions_dir`, which is asynchronous, takes its turn
in the main queue; a hand edit comes while no setter holds the lock; the scan and
the creation of builtin agents are one setter; the two refs in which the frontend
keeps its copy are one.

## Runs

| Run | Question | Bounds and why they are enough |
|---|---|---|
| `cancel_safety` | does every interleaving keep a stop with its command? | two turns, a row pull, a resume, one click: a predecessor, a successor and every kind of user of the token; a second click raises the same flag |
| `cancel_liveness` | do stopped and hung turns end, with nothing assumed of tools, queries and providers? | two turns, one click; a turn's end depends on itself and its predecessor |
| `sessions_shell` | under the shell's discipline: the refinement, deletes find the gate open, closed sessions go and resumes end unless a turn or a replay never does | two sessions, a turn, a close, a delete and an open that may fail late |
| `sessions_backend` | without the shell's discipline: one writer, no recorded cancelled turn | one session and a stored recipe, a turn, an edit, two deletes, an open and a rename |
| `sessions_double_release` | (violated) one writer when an open fails late | an open and two renames |
| `approval_gate` | answers, consent, causes, progress | two calls (one external), a stop, a reset: one gate and its successor |
| `tree` | history, watermark, tables, drift and edits across failures and restarts | two results: one that reads the source and one that may read the first, the least at which a replay breaks in the middle; one source version, so a replacement is told apart by its stale marks; any number of stops, failures and edits |
| `tree_swapped_snapshot` | (violated) does a hit keep the recorded data? | two versions of the source |
| `external` | do the two accounts of an external turn agree, does no progress frame follow its answer, does the turn settle unless a tool never returns? | two gateway calls of one name, so that pairing by name may go wrong, one gated and tokened, one neither; one call of the agent's own; one resumed window; stops and cuts anywhere |
| `loop` | do rows, prose and promotions land exactly once, are repeats refused, does a stop end the turn unless a call executes for ever? | two delegations, so that a row may land under the wrong one, a call of each family with one signature against a detector that steers at two; one resumed window of one step, two steps of a sub-agent |
| `config` | is no update lost, no file torn, no endpoint dropped, no failed commit shown? | one of each kind of writer, the window's settings commit and setter with malformed values, a section that is repaired by reads and one that only writes repair; the three installations an application may find, two mishaps: one to fail a write and one to fail its repair, or a crash and a crash after it |
| `fleet` | does a kill reach every connect, what does a fire miss, may a killed transport answer, does every wait end? | one server of each transport, so two that a kill can reach, the least at which a fire may miss more than one; the stream has no budget; two pages; both runtimes; any number of calls and stops |

The bounds by name: the sets of commands, calls, requests and clicks (each runs
once); `Cap` polls of silence; `MaxResult` result numbers; `MaxLabel` labels;
`MaxResumes` windows, `StepCap`, `SubStepCap`, `BatchCap` and `SteerAt` stand for
the code's constants of those names, made small; `MaxMishaps`; the list
`Fleet` and `PageCap` pages of tools. Nothing else
limits a run. Symmetry is declared only for runs of safety properties and only
over sets whose members no definition tells apart.

`sessions_backend` sets `LateFailures = FALSE` because `sessions_double_release`
shows what a late failure does to `SingleWriter`. `config` sets `FaultyUpgrade =
FALSE`, that is, no write fails while a legacy blob is moved: the known divergences
below say what happens otherwise. It leaves concurrent reads out, which under
that hypothesis write nothing; the theorems about `ConfigStore` have them. `tree` lets
another program edit everywhere (`OutsideWindows`) except in three windows: between
a save's check and its write, between the write and the new baseline, and between
the two reads of a resume. An edit inside one of these (they are listed under the
hazards) is lost, as it must be for a program that takes no lock;
`NoSilentClobber` is about the edits that the check can see. `approval_gate` and
`config` stop when all calls and requests are made, which is
why they do not check for deadlock; every other run does. In `TurnCancel`,
`SessionLifecycle`, `ExternalTurn`, `AgentLoop` and `McpFleet` the end of everything is an
explicit step (`AtRest`, `Done`), so that any other standstill is reported;
`SessionTree` never ends.

The type invariants of `SessionLifecycle`, `ApprovalGate`, `SessionTree`,
`ExternalTurn`, `AgentLoop` and `McpFleet` are proved and not among the runs.

Every property of a passing run has a mutant in `PROJECT.json`: a definition next
to the real one, under the comment "Plausible bug" or "Mutant of", with which TLC
finds that property violated.

## Fairness

* `TurnCancel`: weak fairness of every turn's own steps (the operating system
  runs its thread), of the abort of a query that was interrupted, of the watchdog's
  poll (it sleeps a fixed interval) and of the interrupt that follows a stop's flag.
  No fairness for provider events, answers of the user, clicks, tools or the end of a
  query: the engine has no statement timeout (`app_config/model.rs:122-125`), so only
  an interrupt is sure to end one. `StopEndsTurn` therefore excuses a tool that heeds
  no interrupt and a query whose interrupt came before it began, and nothing else;
  `HungTurnEnds` excuses a provider that streams for ever, a gate that nobody answers,
  a query that nobody stops, a dispatch that never returns, and is about turns whose
  watchdog could be spawned (`session/progress.rs:131-147`).
* `SessionLifecycle`: weak fairness of every started command and of the destructor,
  but not of the steps by which a turn's connects, its run (`AskBegin`,
  `AskVerdict`) and a replay end: `begin_turn` wipes a cancel that a close fired during the connects,
  `is_closing` is read again only when the turn is over
  (`session/turn_runner.rs:366-368`, `600`), and a stream, a parked card or a query has no bound.
  `ClosedSessionGoes` and `ResumeEnds` excuse a turn or a replay that goes on for
  ever. Nobody has to start a command.
* `ApprovalGate`: weak fairness of the gate's thread only. Its poll makes this
  true even when a notification is missed.
* `ExternalTurn`: weak fairness of the engine's own steps, of the grace after a
  cancel (a timer), of the reader and of the spine. None for the agent, its bridge
  or the user, and none for the end of a tool that the spine dispatched (`RunEnds` is
  not in `SpineMoves`): a query has no time limit, nothing reads the engine's end
  during a dispatch, and the drop of the engine's guard takes the interrupt handle
  away (`cancel.rs:295`). `TurnSettles` is about turns that are stopped, dead or
  through, and excuses a card that nobody answers and such a tool. Joining the
  handshake needs fairness only once the agent is gone or a stop is up, because its
  waits end then.
* `AgentLoop`: weak fairness of the driver's own steps, of the watcher and of the
  server, except that a call it executes need not end (`ServerExecutes` and
  `ServerAborts` are not in `ServerProceeds`): a query has no time limit and a tool of
  an external server may have no budget. `StopEnds` excuses a call that executes for
  ever. None for the model: it has to hold with a stream that is silent for ever.
* `McpFleet`: weak fairness of the session's thread between its waits, of the
  watcher, of the waits that carry a bound of their own (the GET and the first event
  of a stream, the acknowledgements, every HTTP read), of a kill that has closed the
  pipe or stored its wake, and of the grace; strong fairness of the budget, which
  stays elapsed and is polled at every park. None for a server, the engine or the
  user. `WaitsEnd` excuses a server without a budget when its child outlives the
  kill, when the watcher has already fired or could not be spawned, and in external
  turns, where the engine may clear the request before the watcher sees it.
* `SessionTree` and `ConfigStore`: no liveness is claimed.

## Findings

What the runs marked *violated* show, with the lines quoted in `PROJECT.json`:

1. `sessions_double_release`: an open that fails after its session took the key
   releases the key twice; the second release may free another command's key.
2. `tree_swapped_snapshot`: a hit does not look at what the snapshot holds.

### Known divergences

Further formulas in the modules state what a comment promises and the code does not
keep; TLC refutes each on a small instance. They are not among the runs, and the
properties that are have been stated so that they hold in spite of them.

| Formula | What happens |
|---|---|
| `InterruptMeansRequest` (TurnCancel) | the watchdog compares the generation for the flag (`cancel.rs:170`), not for the interrupt it fires next, which may abort the next turn's query |
| `CompanionClosed` (SessionLifecycle) | the key and the drop signal go before the engine is closed (`session/mod.rs:1836`), so a resume may read a directory whose companion is still open |
| `StopAbortsQuery` (TurnCancel) | a stop between the sandbox's mid-check and the registration of its interrupt handle (`sandbox_sql.rs:224`, `231`), or before the statement starts (`238`), interrupts nothing: the flag is up, nothing reads it until the query is over, and nothing bounds the query (`cancel.rs:16-19` says a long engine query "is aborted at source") |
| `CloseReachesTurn` (SessionLifecycle) | a close that comes during the connects of a turn fires its cancel before `begin_turn`, which wipes it (`session/turn_runner.rs:366`); the turn learns of the close when it is over (`600`), and until then the session stays (`commands.rs:834` says the cancel fires and the turn runs for 120 seconds at most) |
| `AbandonIsOwn` (ApprovalGate) | the abandonment latch names no call (`runtime/acp/engine.rs:133`); the next call's gate may take it |
| `HitKeepsLabel` (SessionTree) | a row the digest takes for current may carry an older label (`session/companion.rs:192`), which the resume restores and saves |
| `CompletedIsNotFailed` (ExternalTurn) | the bridge that the engine's own kill cuts within a frame fails the serve, and with it a turn that was complete (`runtime/gateway/server.rs:699`) |
| `UnrecordedRowStays` (ExternalTurn) | rows are paired by the tool's name alone (`session/outcome_merge.rs:262`): the engine's row of a call that the gateway answered without recording it takes the record of another call of the same tool |
| `SubTraceIsExact` (AgentLoop) | when a stop drops a delegation while the server executes its call, that call's row stays on the private channel, which is gone (`session/loop_runtime/subagent.rs:302`) |
| `CommitsKeepSiblings` (ConfigStore) | a settings commit sends the window's older copy of the sections it does not change (`src/components/settings/SettingsView.tsx:296`), and so undoes what a setter of the backend wrote meanwhile |
| `ViewIsStored` (ConfigStore) | with no failure at all: `store_inner` writes the normalized document (`provider/live_config.rs:1091`), the window keeps the one it sent and drops the reply (`src/shell/useAppConfigState.ts:136-140`), so a memory limit of "abc", which `EngineSection.tsx:41-46` sends as typed, stays in the view while the file holds the default (`SettingsView.tsx:303-304`: "so the UI never diverges from what is stored") |
| `StopStands` (McpFleet) | the external turn is in flight on the engine's thread when arming the connects clears what it takes for a stale request (`turn_runner.rs:811`, `cancel.rs:138`): the stop is taken back |

Also seen, in instances that no run has:

* with `FaultyUpgrade = TRUE`, a read beside the setters and the upgrade start,
  `NeverTorn` and `EndpointSurvives` fail: the move out of the keychain takes no lock
  on the read path and shares the temp file with a setter
  (`provider/live_config.rs:1041`);
* `OneMissedPerFire` without `~wiped` fails: the external engine's `begin_turn` clears
  a stop on which the watcher has fired, and the connects that follow have no watcher;
  the same clearing may hide a stop from the 25 ms poll, and then a parked call waits
  out its budget. `TurnCancel`, where arming precedes the turn's beginning, has the
  order of the built-in runtime;
* a read shows a file that does not parse as the defaults, and a commit of the
  window, which sends the whole document and does not read the file, writes them
  over it;
* a stop after the final response leaves the reply's prose out of the turn, as
  ADR-0021 decides, and a dispatch that panics after the driver was abandoned loses
  the panic's detail;
* the check that nothing is in flight and the raising of the resuming flag are two
  steps (`commands.rs:2646`), a close-wait may take the receiver that a resume is
  about to replace (`commands.rs:2773`), and a resume's cleanup of a directory
  assumes that nobody took its key meanwhile (`commands.rs:2811`): only the shell's
  busy flag keeps these apart, and `sessions_shell` has it among its guards;
* `decide_permission` reads the mode and the trust under two locks
  (`runtime/acp/engine.rs:1654`), and an "always allow" is added to the trust after a
  reset that came in between (`approval/mod.rs:766`): both are interleavings of
  `ApprovalGate`, and its properties allow them.

## Proofs

TLAPS checks the theorems for any sets of commands, calls, clicks and contents and
any bounds; the only assumptions are the named `ASSUME`s on constants and the
hypotheses named below.

`TurnCancel_proofs`: `TypeCorrect`, `SingleInFlightHolds`,
`WatchdogStandsDownHolds`, `OnlyItsUserCancelsHolds`, `StopHonouredHolds`, under the
hypothesis `FreshTarget`, without which a resume overlaps a turn and the invariants
are false. None of
these is inductive: that a watchdog stands down depends on whose generation is in
the word, which depends on who is inside the session. `Inv` adds that chain:
`SessionInv` (the lock and the resuming flag admit one command), `LabelInv` (each
kind of command stays in its own program), `GenerationInv` (the one inside carries
the current generation, and a successor computed from a load is still the
successor when it is swapped in), `WatchdogInv` and `FreezeInv` (a watchdog lives
after its arming; the freeze depth counts the one dispatch that runs, across the
shared slot), `FlagInv`, `CauseInv` (a raised flag has a click or a live watchdog
behind it) and `HonourInv` (a hit turn still has the flag to read). One lemma per
conjunct shows that every action keeps it.

`SessionLifecycle_proofs`: `TypeCorrect` and `CloseDiscardsTurnHolds` for any
commands, with or without the shell's gates and with late failures;
`SingleWriterHolds`; `OneWriterPerRecipeHolds`, the refinement of `PathWriters`; and
`DeleteGateOpenHolds`. `Inv` says that a command knows the
recipe it works on (`PathInv`), that a session in the map or with a handle out is
not dropped (`LiveInv`), that the session's lock belongs to the turn or the open
that is between its two halves (`LockInv`), and that nothing is cancelled by a close
that has not marked it (`CloseInv`). It is inductive by itself.

The other three rest on two more invariants. `KeyInv` is about keys: `SingleWriter`,
`BirthInv` (the directory of a session yet to be created is untouched; new ids are
fresh, `FreshAssumption`), `UnwindInv` (when an open that failed late gives its key
back a second time, nobody has it), and, under the shell's gates, `AloneInv` (the
busy flag admits one open or delete at a time). Every step is one of
`Moves`: it takes a key nobody has, gives back its own, passes its own on, or leaves
all writers alone (`WritersStep`); `RegStep` draws the consequence for the registry
and `RefineStep` the one for `PathWriters`, whose claim, release and hand-over these
are. `SingleWriter` needs one of two reasons why the second release of a late failure
is harmless: there is none (`LateFailures = FALSE`), or nobody else can take the key
in between (the shell's gates and no renames). The run `sessions_double_release`
shows that one is needed.

For the refinement, `ShellInv` adds that an open has its session to itself
(`ExclusiveInv`), that a session without a timeline has recorded nothing (`UsedInv`),
and that a directory which is removed as spare is empty and nobody's (`SpareInv`).

`WaitInv` is about deletes: whose drop signal a handle's receiver belongs to, and that
it is sent after the release (`SenderInv`, `SignalInv`, `SlotInv`), so that the key is
free once the delete has been answered (`GateInv`). `DeleteGateOpenHolds` assumes `ShellGuards` and no
renames: a rename does not raise the busy flag, so one that was asked for before the
delete may take the key between the signal and the delete's own claim. The delete
then reports a conflict.

`ApprovalGate_proofs`: `TypeCorrect`, `AnswerHonouredHolds`, and the action
properties `ConsentBeforeRunHolds` and `CancelHasCauseHolds`. `Inv` says of each
place of the gate what the slot, the locals and the accepted answer have to do
with one another: `SlotInv`, `AnswerInv` (after the wait, an answer accepted late
is still the one in the slot; after the slot is emptied it is the one taken),
`CardInv`, `TrustInv` (a trusted tool has a settled call that was answered
"always allow") and `LatchInv` (a latch the gate may still read was raised while
it was open).

`SessionTree_proofs`: `TypeCorrect`, `ResultsStandHolds`, `HitIsCompleteHolds`,
`DriftIsSignalledHolds`, and the action properties `HistoryOnlyGrowsHolds` and
`NoSilentClobberHolds`, for any contents of the source, any numbers of results and
labels and, but for the last, any `EditAt`; the last assumes `NoEditInWindows`,
that nobody edits inside the three windows above. That a table belongs to the
promotion of its number depends on what a row on disk vouches for, and on what a
lost turn may have left under that number. `Inv` says so in parts: `NumberInv` (every
recorded or stale number is counted where the next one is minted: it is a result of
the working set or not above the floor),
`EngineInv`, `RowInv` (whatever the row on disk lists has its table, and a chain
with the row's digest is the one the tables were computed from), `RecordInv` (the
running session carries all that the recipe records) and `SavedInv` (between a
write and its stamp the file is the session's). `BaselineInv` adds, outside the
windows, that what a save or a resume has read is what is there. `MaxIsLargest` is
the one lemma about data: a finite set of numbers has its greatest.

`ExternalTurn_proofs`: `TypeCorrect`, `AnswerIsLastHolds`, `RailShowsRowsHolds` and
`LiveMatchesSettledHolds`.
That no frame follows its answer needs to know that a frame in the socket is neither
answered nor armed (`SocketInv`) and that the slot names the call the spine works on until
it is disarmed (`FunnelInv`). `RailShowsRowsHolds` is the part of
`LiveMatchesSettled` that is about the two threads: neither side gives a call two
rows, the rail has completed exactly the calls that have one, and a settled turn
leaves nothing running (`GatewayInv`, `RowsInv`, `NativeInv`, `JoinInv`). The other part
is what the merge makes of the two accounts. `MergeInv` says it of every prefix of the
engine's rows: each gateway row is either left over or has landed, never both, an
engine row has landed only if the prefix has it, and no row has landed twice.
`PairStep` takes it over one row, `PairsKeep` over all of them, by an induction on the
length of the prefix, and `MergedRows` adds the rows left over. The theorem has a
hypothesis, `NamesApart`: no tool of the agent's own has the name of a gateway tool.
Pairing is by name, so where two names do meet, the agent's call gives its place to a
record of the gateway's and has no row of its own; the code only warns about it
(`outcome_merge.rs`, "likely an external-runtime tool of the same name"), and the
property does not hold there. The run's instance satisfies the hypothesis too.

`McpFleet_proofs`: `TypeCorrect`, `ExpiredMeansKilledHolds`, `KilledStaysKilledHolds`
and `OneMissedPerFireHolds`, for any list of servers and any split of them into
transports. `ExpiredMeansKilled` is inductive once the thread is known to be at the
connect it registered (`PlaceInv`, `RegistryInv`). That a killed transport does not
answer needs to know where such a call can stand (`CorpseInv`): a stream's call has
not passed its entry check, a child's has closed pipes. That a fire misses at
most one server is about the slots registered after the watcher's snapshot
(`FireInv`): there is at most one, and it belongs to the connect under way, because the next
check between two connects sees the request, which stands unless it was wiped.

`AgentLoop_proofs`: `TypeCorrect`, `RepeatsAreRefusedHolds`, `PromotionsSurviveHolds`,
`MainTraceIsExactHolds`, `SubTraceIsPrefixHolds` and `ProseLandsOnceHolds`, for any
calls and delegations, any signatures, any contents of model turns, any caps, and a
threshold that is not zero (`LoopAssumption`; the code's is three). What is executed is bounded by what the detector has counted, and
the outcome names every promotion, only because a single request goes back and forth
between the driver and the server: a call that waits for its answer is in its family's
batch (`CallInv`), a running delegation is a call of the main loop's (`DelegationInv`),
and the driver's thread does not end while the server executes (`ServerInv`), so
that nothing is promoted after the turn has settled. `RepeatInv` counts the call under
way with those that were executed. `ListsGrow` is the lemma about sequences: what
lists the chosen members of a sequence goes on doing so when both grow by one.

That the trace is exact is about rows on their way from the server to a round, and
rests on a second invariant, `RowInvHolds`. While the turn runs, the rows of the main
loop's fold followed by those on its channel are the rows made, in order (`MainInv`),
and the same holds of the sub-agent that runs (`SubInv`). A row lands in the last
round, so it must not be possible for a later turn to add a round while a row
waits: the channel holds rows only for results that have yet to surface, none between
two batches (`QueueInv`), and every call that has not landed was issued by the turn of
the last round (`TurnInv`). A call is issued once and lands under the delegation that
issued it (`IssueInv`, `DelegationRowsInv`). A driver that goes while its call executes
leaves a request behind (`RequestInv`): for the main loop its row still reaches the
shared channel, which the settle drains; for a sub-agent the private channel is gone,
which is the one row that `SubTraceIsPrefix` concedes. The lemmas before it say what
each function of the fold does to the rows of its rounds (`Carries`). `RowsOf` and
`Landed` are recursive functions on the prefixes of a sequence; that they exist, are
unique and what appending does to them is proved by induction over the lengths for
which a fact holds (`SetInduction`, a set in place of the library's operator, from
the well-foundedness of `<`).

The prose of a turn waits beside the rounds, in the fold's open parts and then in its
trailing round, until a batch, a retry, the next turn, the reply or the end decides
where it goes. `StreamInv` says where it waits in each state of the stream, `ProseInv`
that the rounds carry every other turn's prose once (`ProseOf`); the lemmas before them
say what each function of the fold does to its fields, and that neither landing rows
nor dropping empty rounds touches prose. `LoopAssumption` asks that `None` is no call, no
turn's number and no outcome.

`ConfigStore_proofs`: `TypeCorrect`, `NeverTornHolds`, `EndpointSurvivesHolds`,
`ViewShowsDiskHolds` and the action property `SettersKeepSiblingsHolds`, for any
setters, commits, concurrent reads and number of mishaps, and whichever of them have
malformed values. The last two are stated up to the repair of such values, because the
window's copy keeps what it sent (`ViewIsStored`, Known divergences): two documents are the `Same` when
they normalize to one, which is what `SoleInv`, `LastStore` and the other parts below
compare; `RepairFacts` and `NormalFacts` are the lemmas about it.
The hypothesis is
`FaultyUpgrade = FALSE`, as in the run: a read that seeds the file holds no lock, and
when its write may fail, a later read may repeat the move beside a setter and fill the
same temp file. Without failures during the move the main thread does it once, during
the setup, when it is alone; that is what `SetupInv` says (`StartInv`, `UpInv`,
`SeedInv`, `LegacyInv`). Then the temp file is its writer's and never the file itself
(`FileInv`), and what a setter has read is what it will replace (`SetterInv`), from
which siblings survive. That the endpoint is never dropped is about every copy of a
document that may yet be written: in a thread, in the queue and in the window
(`CopiesInv`, with `BlobInv` for the time before the file exists). That the window's
copy is the file's is about requests: each is under way exactly while the window waits
for it (`PendingInv`), the reverts and rereads of failing commits come one at a time
(`WindowInv`), the last commit in the queue is what the window shows (`LastStore`,
`RunningStore`), and the answer about to replace the copy is what the file holds
(`SoleInv`, `SettledInv`). `NameAssumption` says that the names of requests and
threads are different values.

All state invariants were checked with TLC before they were proved, on the runs' instances
and, for `SessionLifecycle`, `AgentLoop` and `ConfigStore`, on others with renames,
edits, more calls or concurrent reads.

Only model-checked:

* every liveness property: fairness and ENABLED are outside the prover.

## Not modelled

* Of the modelled parts: the conflict choices "keep mine" and "save as new", which
  no command reaches; a bind that fails; the deletion of a recipe by hand; several
  sources in one session; garbage collection of stale results; the interactive
  relinking of a source; shared attaches; the order of two sessions' file
  operations on one directory (covered by the keys); the messages of the ACP
  handshake and the dialects of the Codex and Claude streams, which end in the same
  fold; the framing of lines and JSON; truncation of tool results; which values of
  each section of the configuration are malformed, and what repairs them; the closing
  of all sessions before an update (`shutdown_all`), which detaches each as a close
  does and waits for the signals with a deadline; the names and slugs of MCP tools, the search
  over their catalogue, the probe and the import of server lists, the parsing of
  events and the matching of response ids.
* Left out for good: parsing of spreadsheets, prompt building, HTTP, the keychain,
  tray, updater and window glue, statistics and skills: sequential code, or I/O.
* Still to come, see the plan.

## Plan

Done, in order of importance: (1) `TurnCancel` and its proofs; (2) `PathWriters`
and `SessionLifecycle` and its proofs; (3) `ApprovalGate` and its proofs; (4)
`SessionTree` and its proofs; (5) `ExternalTurn`, the gateway and the ACP engine in
one turn, and its proofs; (6) `AgentLoop` and its
proofs; (7) `ConfigStore` and its proofs; (8) `McpFleet` and its proofs.

Next, in this order:

1. `ResultMinting`: several sources, provenance and the stale cascade, the ghost
   rollback after a panic, garbage collection and user deletion of results, with
   the refinement "a number names one result for ever".
2. `Organization`, `SharedDatasets`: read-modify-write of the shared files by
   several commands, against an abstract register.
3. `ComposerQueue` and `TurnFlow` of the frontend; a composition of the turn flow
   with `TurnCancel`.
4. `TurnWindow` and `LoopDetector` as functions checked against reference
   definitions over bounded inputs.
