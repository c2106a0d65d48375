# Nocturne: a TLA+ verification of its core

Nocturne is a terminal application: a Rust backend under Tauri (`src-tauri/src`),
a Svelte window (`src/`), a Go terminal daemon that keeps shells alive when the
application is gone (`tools/nocturne-terminal-agent`), and a Rust helper that
samples resources on remote hosts (`tools/nocturne-resource-monitor-agent`).
Paths below are relative to the repository.

Contents: [inventory](#inventory), [modules](#modules),
[what each run shows](#what-each-run-shows), [bounds](#bounds),
[fairness](#fairness), [proofs](#proofs),
[where the code departs from its documents](#where-the-code-departs-from-its-documents),
[only model-checked](#only-model-checked), [not modelled](#not-modelled),
[plan](#plan), [running it](#running-it).

## Inventory

### Threads and processes

- The **main thread** of the application runs every synchronous Tauri command,
  one at a time. Only the commands for files, resources and extra windows are
  `async` and run on blocking threads. So two commands never overlap, but a
  command that waits stops all others.
- **Worker threads** of the application: one per running transfer, one per host
  with port forwards plus one per listener and per tunnelled connection, and
  readers, waiters and control workers per terminal session.
- **The window** calls commands and receives events; answers and events are not
  ordered against each other.
- **The terminal daemon** is a process per session, with a goroutine that reads
  the PTY, one that waits for the exit, timers, and three per connection
  (reader, writer, heartbeat).
- **Helper processes** (`client list`, `attach`, `rename`, `delete`, ...) connect to the
  daemon or work on its files when there is no daemon.

### Components that are modelled

| Component | State | Operations | Hard because | Correct when |
|---|---|---|---|---|
| Transfer queue, `transfers.rs` | tasks in order with a status, map of running tasks to cancel flags, behind one mutex; destination files | create, cancel, retry, schedule; a worker plans, tests, opens, copies, reports | a canceled worker goes on, its report arrives after a retry; two tasks share a destination; slots are given back by several actors | limits kept, status and map agree, nothing overwritten, completed means whole, queued tasks are served |
| Session registry, `registry.go`, `client.go`, `daemon.go` | `<id>.toml`, `<id>.ndjson`, the socket, the process | create, rename, exit, delete, by daemon, goroutines and helpers | read, change and write without a lock across processes; deletes that fail or die half way; a daemon that dies | the exit on disk is true, live sessions keep their files, nothing is left that cannot be found |
| Transcript, `daemon.go` | file, buffered writer, counters, flush flag, timers | append, flush, trim, clear, history, last flush | five callers, multi-step rewrites under a lock that readers of the file do not take, failing writes | a run of the output without holes, within the cap, flushed in time, history in order |
| Daemon connections, `daemon.go` | set of clients, bounded queue, connection and heartbeat per client | attach, detach, close_view, ping, broadcast, timeout, exit | five places close a channel others send on; `close_view` writes under the lock; slow and silent peers | no send on a closed channel, streams without gaps, the last view closes the run, the holder of the lock goes on |
| Terminal sessions of the app, `terminal.rs` | open views, records of detached ones, sizes, reader tokens, control channels, pending requests | create, attach, detach, list, delete, close, resize, move of windows; readers and writers of local and remote agents | a view id outlives its reader; commands wait for answers that a reader delivers; history before live output | records are of closed views, output in order and shown once, runs end only by close or exit, waits have an answer on the way |
| Port forwarding, `port_forwarding.rs` | rules and runtime statuses per host, handle of the worker, its channel, its nested waits, listeners, SSH session | save, delete, start, stop, open host, close host; connect, prompt, bind, fail, wait, retry | waits take commands and so nest; stop waits for the worker; close and reopen do not; the worker ends itself when it thinks it is idle | every listener can be stopped, a stop closes its listener, commands reach a living worker, stops and starts are answered |
| SSH verification prompts, `workspace_ssh.rs` | per workspace and per host: the active prompt and a queue; shared requests | request, submit, cancel, finish, emit | workers wait on a condition variable without a limit; identical questions share a request; events fail | one prompt per scope, an answer to one's own question or a cancel, waits end |
| SSH connections, trust and secrets, `terminal.rs`, `files.rs`, `ssh_trust.rs`, `workspace_ssh.rs` | trust file, secrets kept per scope, keyring, each connection's hop and rung | connect, check the host key, climb the ladder of authentication, keep and forget secrets, close a scope | several connections share one file and the kept secrets, prompts lie between read and write | a secret goes only where it was typed for, kept secrets worked, trusted keys were accepted, no silent fallback |
| Workspaces and docks, `workspace.rs` | versioned snapshot of workspaces, tools, dock trees and floating windows; which hosts' forwards run | every intent, destroyed windows, polls | side effects before validation and saving; windows act on old snapshots; recursive tree surgery | what the intents build validates, one owner per tool, no terminal without a slot, mirrors outlive their source |
| Configuration files, `config.rs` | state, main configuration, profiles, host files, their temporary files | every command that writes, repair at start, the port-forward worker's write | no lock, several files per command, disk errors and the end of the application between steps | files whole, one file per host, the active profile exists, success means done |
| OpenSSH configurations, `config.rs` | the stack of files being read, sections, entries | read lines, includes, sections, settings of a name, entries, jumps | includes in circles, in sections, unreadable; files change | reading ends, sections whole, the first value wins |
| Helper deployment, `resources.rs`, `files.rs`, `terminal.rs` | what a process remembers of a host, the remote file, the calls | decide, ask, upload, verify, run | several calls at once, no lock on the remote file, dialogs between check and use | every upload has consent, one dialog at a time, what runs was verified |

They meet at these places: a transfer and a port forward use hosts from the
configuration; port-forward workers, terminals and searches raise SSH prompts;
workspaces open and close hosts, which starts and ends port forwards and cancels
prompts; the daemon's PTY reader first records a chunk in the transcript, then
broadcasts it; the exit waiter flushes the transcript, writes the registry, then
ends the connections; `delete` asks the daemon over a connection before it touches
the files; a view of the app is one client of a daemon.

### Components that are modelled in part or not at all

| Component | Status |
|---|---|
| Resource monitor, Files | only their helper (`Helpers`): the rest is one blocking call each, and parsing |
| Transfer view, `queue.svelte.ts` | not modelled: keeps nothing but the last snapshot |
| Terminal emulation, app shell, window routes, settings, palette, languages | not modelled: user interface |
| Colour schemes, logging and errors | not modelled: parsing and wording |
| Windows pseudo terminals, build scripts | not modelled: calls of the operating system, tooling |

`PROJECT.json` lists every part with its status, and under `hazards` what is hard to
test, at its line, with the properties that watch it.

## Modules

Every component has a module and an `MC` module with the constants of its small
instance. Eleven have proofs: `DaemonProofs` is about the three of the daemon, `SessionRegistry`, `Transcript` and
`DaemonClients` (the definitions of the first and the last carry the prefixes `Registry` and `Clients` for that), `SshProofs`
about `SshConnections` and `OpenSshConfig`, the others each have a `Proofs` module. Two are abstract specifications that another
module implements: `VersionedStore` (by `Workspace`) and `VerificationDesk` (by
`SshVerification`; `SshConnections` is built on it). Below each module, definitions
marked "Fault:" are plausible bugs that `PROJECT.json` puts in the place of a
definition, to show that a property notices them; no specification uses them.

### `TransferQueue`

A worker is `<<t, n>>`, the n-th run of task t; its `AtomicBool` is membership in
`canceled`, and `running[t]` is the run whose entry is in the map. Critical sections of
the store mutex are one action, except the scheduling loop, which holds it over
several (`ScheduleBegin`, `ScheduleOne`, `ScheduleEnd`); `ScheduleFails` is a call
that cannot read the configuration. `CreateTask`, `CancelTask`, `RetryTask` are the
commands, `Begin`, `Probe`, `Open`, `Copy`, `Finish` the steps of a worker:
`ensure_destination_absent` and the exclusive open are separate steps. Before each of these a worker
of a remote task may wait for an SSH prompt (`Prompt`, `Answer`), with its slot, and cancelling the task does not end
that. The user
may delete what a failed run left (`RemovePartial`, external). Bytes, progress
and events are abstracted.

### `SessionRegistry`

The two files, the daemon from creation to its end, the exit waiter and any number
of renames as updaters with a `copy` each (read and write are separate steps), and
deletes that go through closing, waiting and removing. Every write or removal may
fail, and a delete may be killed between steps. The registry's other fields, and
listing, are left out. `DeleteDuringStart` says whether a delete may come while
the daemon starts.

### `Transcript`

Lines are numbered chunks with a size. `transcriptMu` is `lock`, and `step` is what its
holder does next: spill, flush, sync, cap, truncate, rewrite, sync again, each a step
of its own, so that a history read or a crash comes between. `Failures` says
which file operations may fail: a write (of the buffer, or of the lines a rewrite puts back, which may leave any
part of them, the last one cut off), a sync, or a trim's stat and truncate. `lost` are the chunks that a failed
clear or rewrite has dropped, `lapsed` says that the last flush ended in an error. A history request takes one byte a step,
so that a rewrite may come within a line: the line that is put together from two has number 0. Left out is a trim whose read or seek
fails: the file is not opened for appending (`registry.go:120`), so a later flush would overwrite or leave a gap. Which bytes clear the screen is a free choice.

### `DaemonClients`

Per connection: the pipe, the peer, the reader (`handleConn`), the writer
(`writeEvents`) and the heartbeat. Only `close_view` keeps `clientsMu` over several steps,
because it writes to the other clients under it, and a write waits for its peer
or for the connection to close. `Panics` is a send on a closed channel. The model lets
the mutex serve `addClient` before a `closeClient` of the same connection that
asked later; `NoPanic` rests on that order.

### `PortForwarding`

One host. `main` is the main thread: idle, waiting for a stop, opening, closing.
`handle` is `runtime.worker`, `queue[w]` the channel of a worker, `worker[w]` where its thread is:
its phase, the rule it starts, and `waits`, the stack of rules whose reconnect delay it
is in. `TakeStart`, `TakeStop`, `TakeStopAll` receive a command both in `run` and inside a wait;
`Retry`, `GiveUp`, `Disconnected` are the ends of a wait. A start goes through connect,
prompt, bind and the write of its status, which comes last and unconditionally;
listeners fail on their own. `IdleWithout` is `close_session_if_idle`. `StaleRows` lets the user click
what a row offered a moment ago. Endpoints and their duplicate check, drafts,
dynamic ports, confirmations, credentials and tunnelled connections are left out;
an edit shows as the restart it causes.

### `DockLayout`, `Workspace`, `VersionedStore`

`DockLayout` has the tree of splits and groups with the recursive operations of
`workspace.rs` as operators on layouts (`RemoveSlot`, `CleanupDockLayout`,
`RemoveOrCloseToolSlots`, ...). `Workspace` holds `snapshot`, the windows that display its
version (`current`; of an older one a window displays only that it is older matters), which
one the last step's change was of (`author`), the hosts whose port forwards run (`runtime`), and two flags: `torn`
(a dispatch failed after its side effects) and `rejected` (a legal intent failed, because
applying it to the layouts there are is an error or because `validate_snapshot` refused the
result). `Intent` is one command of one of the windows (`Senders`): the version check, the intent on a copy
with its side effects, validation, saving (which may fail), storing. `Receive` is what a window
is told by an answer, an event or a call of its own, in any order and possibly never: windows
compare no versions. A window sends an intent that was refused for its version again
(`state.svelte.ts:46-53`), so what it names may be gone: most intents are then an error, and
`CloseOtherSlots` has the one that is not. `FloatingDestroyed` writes without a version check.
`VersionedStore` says what windows may rely on: a change of the workspaces is made by a window
that displays the version it replaces, the version grows by one, and a destroyed window changes
no workspace. Left out: titles, directions and ratios, `FloatingPlaceholder`, what is in the
saved file; `down` behaves as `right`.

### `TerminalSessions`

`MainThread` is one command at a time, from its choice to its return, including the waits for
the answer of an agent; a token is a `TerminalSession` object with its reader, and `Reads`,
`ReadFails`, `WaiterEnds`, `WorkerEnds`, `Carry` are the steps of its threads. A view and the daemon
made for it have the same id; attaching again keeps the id and makes a new token. The daemon
is external and answers requests in order; `DaemonClients` is the detailed one. `left` are the helper clients
that a remote reader leaves behind: the daemon counts them, `ClientEnds` is their late end. A remote reader in
"subscribe" may ask the user (`Prompt`, `Reply`), who answers only while the main thread is idle; a request over a connection of its
own that asks ends in the step "asks", from which the main thread does not return. The end
of the local writer thread is folded into "the next write fails". Left out: titles, the
values of sizes, working directories and command labels, rename, host mismatch, the
transcript's cap and clear, a helper process that cannot be killed, refusals of the daemon other than of input and sizes.

### `SshVerification`, `VerificationDesk`

Both coordinators at once: a scope is a workspace or the port forwards of a host. A
request is shared by workers with an identical question; `Ask` finds or makes it, `Coordinates` is
the worker's next step at the queue (emit, wait, take the answer, move the queue on),
`EmitFails` the event that cannot be sent, `Submit` the user on the screen, `CancelAll` the closed
scope. `VerificationDesk` is the promise to a worker: its question is answered by an answer to that
question, is canceled, or fails; `AnswersTheQuestion` is the refinement. One window is on the
screen; request ids are reused when nobody holds them.

### `SshConnections`

Every hop checks the host key against the trust file and climbs the ladder of the code: agent, key file without and with a
passphrase, kept, given and keyring password, prompt, as the connection's plan says, then keeps what worked for its
scope. A key is `"changed"` where the target has another of its `Algorithm`, and `"unknown"` otherwise; `accept` is which of the two the
flags of the connection take unasked (`accept_new_host_key`, `update_changed_host_key`). A transfer may connect for an initiator whose
workspace is closed. Prompts are the desk's. A secret remembers for which target it was typed and in which version; the
server's answer and what the code does with it are one step. Trust file reads and (truncating)
writes are separate steps.

### `ConfigFiles`

A command reads what it needs at one moment and carries out a list of `DiskStep`s (open the temporary file,
write, rename, remove; directories are left out), any of which may fail (`Fails`) or be the last
before the application ends (`Crash`). `Boot` is `ensure_layout` at the start. A
worker of the port forwards writes host files by the same steps and the same temporary
name beside the main thread. The user may spoil or copy host files. `raced` and `copied` are history
variables for the exceptions in `WholeFiles` and `OneFilePerHost`. A host file is its id, a version of the edits, and the
port of one rule; fresh ids are unique. `create_connection_host` would also take an id, of which it tests one path only,
and `update_connection_host` a document with another id: the window sends neither, and the module has neither.

### `OpenSshConfig`

The reader is a stack of frames, one per file; `OpenSshStep` opens a file (`Begin`, `BeginConnect`, `OpenInclude`), takes the next
line (`ReadSection`, `ReadSetting`, `ReadInclude`) or ends a file (`EndFile`). Then entries and their settings are computed
as the code folds over sections, and `ResolveJumps` looks up the jumps in files read again (a list of
jumps that the code refuses to parse, or with `none` in it, is left out). Patterns are the sets of names
they match, an Include the files it names. `SshConfigOrder` is what the settings should be, read in order; it is recursive over
Includes, and so kept apart from the module with the theorems.

### `Helpers`

One helper (monitor, ripgrep, terminal agent), host, build and target per behaviour: the upload code is in the
source three times. A call looks for its bytes, asks to download, reads the policy, looks into the memory of the
process (monitor: verified, refused, pending; ripgrep: verified; agent: none), asks to upload, truncates,
fills, verifies, runs. Somebody else may replace the remote file, the connection may break, the application
may restart. The memory keeps one hash for each host; `OtherTarget` is what the calls do to it after the user configured another
target for the host: the hash verified, refused or pending is then another. Manifest, mode and directory are folded into `Fill`. The agent is prepared on the main thread, one
at a time. Local helpers and launch options are left out.

## What each run shows

One run per component. The conjuncts of a group are named definitions of its module.

| Run | Question | Properties |
|---|---|---|
| `TransferService` | three tasks with one destination, one between the hosts of the other two; limits 2 and 1; cancel and retry | `ServiceIsConsistent` (types; status and map agree; limits), `CompletedIsWhole`, `NeverOverwrites`, `CanceledOnlyRetried`, `QueuedIsServed` |
| `RegistryFiles` | two renames and two deletes against start, exit and death of a daemon | `FilesAreKept` (types; live sessions keep files; no orphan), `ExitIsTrue` |
| `TranscriptOrder` | three chunks of two sizes, clears, a history request, trims, failing writes and trims, exit, death | `TranscriptIsSound` (types; no hole; buffer has a timer), `WithinCap`, `HistoryOrdered`, `BufferedIsFlushed` |
| `ClientsServed` | two connections that attach, leave, stop reading, time out; output and exit | `StreamsAreWhole` (types; no gap), `NoPanic`, `LastViewClosesRun`, `LockHolderGoesOn` |
| `PortsNested` | two rules on one worker, nested waits | `ListenersAreReachable` (types; handle is live; listeners can be stopped), `StopClosesListener`, `CommandsAreAnswered` (stops and starts), `CloseEndsWorker` |
| `WorkspaceDock` | all sequences of three intents of two windows over two hosts, failing saves, late, stale and lost answers and events | `DockIsSound` (types; one owner; terminals shown; content group kept; forwards follow), `NothingRejected`, `ImplementsVersionedStore`, `MirrorsOutliveTheirSource` |
| `TerminalViews` | two views of a daemon in two windows under every command | `ViewsAreKept` (types; records; windows; sizes), `OutputIsFaithful` (order; one stray line at most), `RunsEndByClose`, `AnswerIsOnTheWay` |
| `SshPrompts` | two workers, three questions, a workspace and a host | `PromptsAreSound` (types; active prompts; queue), `AnswersTheQuestion`, `WaitEnds` |
| `SshSecrets` | two connections over one or two hops, trust, kept secrets, keyring | `SecretsAreSound` (types; scope; kept worked; trusted accepted), `NoFallback` |
| `ConfigDisk` | two commands, or a command and the worker, on three disks, with one failure anywhere | `DiskIsSound` (types; whole files; active profile), `OneFilePerHost`, `SucceedsOnlyIfDone` |
| `OpenSshFiles` | every pair of short files and written difficult ones, while they change | `ReadingIsSound` (types; sections whole), `SettingsFollowFiles` (first value; jumps), `ReadingEnds` |
| `HelperUploads` | two calls for each helper, policy changes, another target of the host, outsiders, breaks, a restart | `HelperIsSound` (types; consent; one dialog; verified is deployed), `RefusalEndsDialogs` |

Deadlock is checked in `SshPrompts` and `HelperUploads`. Every other system may come to rest (all tasks done, the
daemon gone, the bounds used up) or, as `PortsNested` and `TerminalViews`, stop for good in the ways listed
under departures 4, 15 and 27; their cfg says so.

## Bounds

- `TransferService`: three tasks are needed for a limit of two and a host shared by two. `MaxRuns = 2` with
  `Retried = {3}` gives a stale worker beside its own retry and beside rivals for its destination; retries of all
  three add states of the same kind only. Plans are one file long here; the theorem `CompletedWhole` is about every
  plan. `MaxPending` (threads about to schedule when a command comes) and `MaxConfigErrors` keep the state finite. The connections
  of one host may prompt (`AskingHosts`), so a worker that waits is met beside one that does not.
- `RegistryFiles`: two renames, for two stale copies beside the waiter's; two deletes, one to finish what the other left.
- `TranscriptOrder`: three chunks of size 1 or 2 with buffer and cap 3: the buffer overflows within a line, trims
  keep all, some and none, a history read spans a trim, and a rewrite fails before, within and between its lines.
  `"sync"` is not among the failures of the run (departure 10); the proofs are about every set of them.
- `ClientsServed`: two connections, queue and pipe of one, so both are full as soon as one event or line is not
  taken; each close_view has one other client to ping.
- `PortsNested`: `PendingLimit = 2` bounds the commands and the waits of the worker: a wait within a wait, and a command
  behind another. One worker: two rules with two generations exceed what TLC covers in minutes, and
  `ListenersReachable` and `StopIsEffective` are proved for any number of both.
- `WorkspaceDock`: two kinds of tools of the code's six (terminals, which must keep a slot, and one that need not), two hosts (one
  under the agent), three versions, three open workspaces: enough to open two, mirror and close. Two interchangeable
  windows, so that each meets what the other changed.
- `TerminalViews`: two ids, one daemon of the app's own making and the registry's, two tokens (a view and its
  successor under the same id), two chunks of output, two interchangeable windows. Writing and resizing are one command ("send") that may
  record a size, since they differ in nothing else here.
- `SshPrompts`: two workers and two requests, with three questions: identical ones, ones of the same kind for different
  targets, and different kinds. `SshSecrets`: two connections, two versions of a secret, a changed key, and an unknown one beside
  a known key of another algorithm.
- `ConfigDisk`: two commands, one edit, one copy, one failure, from a fresh, a used and an overridden disk.
- `OpenSshFiles`: three files, two names, three settings, an include limit of one instead of 16, so that it is met.
- `HelperUploads`: two threads, one restart; policy changes, calls for another target and outsiders are unbounded.

## Fairness

- `TransferQueue`: strong fairness for the scheduling step and for the step of some worker. They contend for a mutex
  that is free again and again, file operations return, and the code waits for nothing else but SSH prompts. The user's
  commands and answers are not fair: `QueuedIsServed` supposes that no prompt stays unanswered for ever (departures 3, 28, 29), and excepts
  a call that could not read the configuration (departure 2).
- `Transcript`: a lock holder goes on (weak); an expired timer gets the lock in the end (strong, Go's mutex
  does not starve a waiter). Nothing is assumed of output, requests or the exit.
- `PortForwarding`: the main thread goes on and each worker goes on, so connects and binds end in success, failure or a
  prompt. The user may leave a prompt for ever, which is why `CommandsAreAnswered` allows for one.
- `SshVerification`: worker threads go on, and the user answers or closes what is on the screen.
- `OpenSshConfig`: the reader goes on. `Helpers`: calls go on, the user answers every dialog.
- `SessionRegistry`, `DaemonClients`, `Workspace`, `TerminalSessions`, `SshConnections`, `ConfigFiles` state no liveness: nobody promises that a delete
  succeeds or that a peer reads. That the holder of the daemon's lock is not stuck is the invariant `LockHolderGoesOn`; that a
  waiting command is not, `AnswerIsOnTheWay`.

## Proofs

For every value of the constants, checked by TLAPS:

- `TransferQueueProofs`: `TypeCorrect`, `StatusEntry`, `LimitsHold` (together `ServiceConsistent`), `CanceledStays`,
  `NothingOverwritten`, `CompletedWhole`. The limits need the cardinality of the map after one insertion, hence
  finitely many tasks. `CompletedWhole` is not inductive: its invariant says, for each worker, that the files before
  its position are whole and its own, and that a run that has not been started has no worker.
- `DaemonProofs`, the registry: `RegistryTypeCorrect`, `RegistryExitTrue`, and under `~DeleteDuringStart` `LiveFilesKept`,
  `TranscriptsNamed` and the two as `RegistryFilesKept`. The invariant is `ProcessBegun` (from which step of the start on
  there is a process), `CopiesTrue` (an exit in any stale copy is true), `Stages` (the files that are there from their
  creation until the session ends) and `Removals` (a delete at the files has seen the end of the session, and takes the
  transcript first).
- `DaemonProofs`, the transcript: `TranscriptTypeCorrect` and `TranscriptHasNoHole`, whatever fails, and if no sync fails `BufferHasTimer` and
  `TranscriptSound`. The invariant ties lock, step and counters together (`Holders`, `Steps`) and says that the
  contents rise up to the latest chunk recorded, and that what they lack is in `lost` (`Run`, `EndsIn`), with lemmas about what a trim
  keeps, about appends and about the line a failed rewrite cuts off. `TranscriptCapped` and `HistoryInOrder`, whatever fails, speak of sizes
  and positions, which are sums over lines. The model counts a sum as a set of places (`Bytes`), so that bytes of joined lines
  add up by a bijection and no induction is needed (`BytesConcat`, `StartRises`). `RetainedFits`: a trim drops the lines
  of the excess and the one behind them, so what it keeps fits; `Capped` follows that from the trim to the release of the lock. For the
  order, `Ordered` says that file, kept lines and buffer rise, the buffer last; `Following` that the lines of the file, and of what a
  rewrite will put there, that begin at the position of a request or behind it are newer than all it has delivered. A rewrite keeps an end
  of the file (`KeepsEnd`), and a line of an end begins there no later than it did in the whole (`EndStarts`): what is at or behind a
  position after a trim was behind it before, so lines may be missed and never repeated.
- `DaemonProofs`, the connections: `ClientsTypeCorrect`, `DaemonNeverPanics`, `ClientStreamWhole`, `ClientStreamsWhole`, `LastViewCloses`,
  `LockHolderHasWay`.
  `Members` says who may still be in or come into the set of clients at each point of its goroutines, `Streams` that what
  was written, and what is queued after it, has no gap and ends at the latest event. `Views` is for the close of the last view: what
  the handler of a close_view has counted, or is about to ping, is another view that has not asked to leave, and no such view
  leaves while the handler holds the lock. So a close_view that found one was not the last. `Watched` is for the holder of the lock: a
  heartbeat that no longer watches has its connection closed, without the lock (`ClosesFirst`); so a write that waits for a silent peer either is
  still watched, or its peer has asked to leave. That somebody can go on is stated by the guards of the steps (`CanWrite`, `WriteFails`, `CanRead`, `Expires`), which
  their actions use, so that the invariant needs no ENABLED.
- `PortForwardingProofs`: `PortsTypeCorrect`, `HandleStaysLive`, `NoListenerIsLeft` (together `ListenersReachable`), `StopIsEffective`. The
  invariant `Link` has six parts: in each channel the stop-all comes last and one stop at most (`InOrder`); a
  stop that is in a channel is the one the main thread waits for (`StopIsAwaited`), and it is the last command of the
  handle's channel (`StopIsSent`); a worker that was told to end is not the handle (`EndingIsUnreachable`); a dead
  worker holds nothing (`DeadIsEmpty`), and a worker without a handle that was not told to end waits on an empty
  channel and has no listener (`AbandonedIsIdle`). The last is why dropping the handle without telling the worker,
  which looks like a leak, is none.
- `HelpersProofs`: `HelpersTypeCorrect`, `HelpersSound`. The invariant says of each call what it has seen by the step it is at
  (`Lawfuls`: a call that writes has consent, one that is about to run has seen the hash), that what is remembered was
  checked (`Remembered`), that a file that is not whole although it was is being filled by a call whose bytes nobody cut
  off (`Filling`), and that the pending mark stands for exactly one dialog (`Dialog`) while the host has one target.
- `SshVerificationProofs`: `VerificationTypeCorrect`, `PromptsSound`, and `AnswersQuestion`, which shows step by step that the
  coordinators implement `VerificationDesk`: a worker replies to the desk when its call has its result, its steps before and
  those of the user (`Submit`, `CancelAll`) are stutters, and the answer it finds fits the question that it asked, also where
  several workers share a request. The properties of the prompts are not
  inductive. `Queues` adds that a request is in one queue, once, and that only the active one can have an answer, after it was
  shown; `Calls` what a worker knows about its request at each step, also about the next one, which it looked up before it let go
  of the lock: that one is active, or was answered since; `Attended` that a request in a queue has a worker that will take it off.
- `TerminalSessionsProofs`: `TerminalsTypeCorrect`, `ViewsKept`, `OutputFaithful`, `AnswerOnTheWay`, `RunsEnd`. One invariant of ten
  parts serves all five. `Objects` and `Streams` say what an object, its reader and its lines have in common by the reader's
  stage; `Map`, that the map of views names objects that were made, that objects under one id have one daemon, and that a record
  names one of them; `Commanding`, that the command is about such an object. `Requests` is what the wait rests on: one request at
  most is queued, sent, in the stream or in the reader's hands, and it is the command's, unless the reader of a remote view
  ended. `Closing` counts what a closing window has still to close; `Sizing` says that a view whose size counts is open or has an
  ended object, also while a resize that looked the view up is under way; `Lonely`, that for a view that closes alone every other reader of
  its daemon has ended, stays so, and that the answer is written after the run has ended. `Strayed` says that a reader that pushed
  a line into another object has lost its view, so that the next line ends it; `Order`, that what is shown, the line in hand
  and what is still to be read are in order, and that the daemon has put it all out. The proof first turns the
  next-state relation into `Cases`, which group the actions by what they do to objects, readers and commands, so that each part of the
  invariant looks at a few cases only.
- `SshProofs`, connections: `SshTypeCorrect`, `SecretsSound`, `KeptSecretsAskedFor`, `ConnectionsUseDesk`. The invariant has a part for
  each store and one for the connections. `ConnectionsOK`: a connection is on a rung of the ladder of its hop (`OnLadder`); what
  it read of the trust file, and the key it is about to write, was accepted (`ReadWasAccepted`, which is why a write that
  overwrites another's key adds none that was not); a secret it tries is its own scope's, or the kept one of its rung, or one that the user
  wants saved (`TriedIsOwn`). `KeysOK`, `TemporaryOK` and `KeyringOK` say the same of what is stored. The ladders are sequences
  joined from pieces; lemmas give their shape (the prompt comes last and nowhere else). What a worker does to its connection
  is stated once for each kind of change, as lemmas about records. `ConnectionsUseDesk` is the other half of `AnswersQuestion`:
  the steps of the connections at the desk are those `VerificationDesk` allows, so that `SshConnections` assumes of
  `SshVerification` what that is proved to implement.
- `SshProofs`, OpenSSH configurations: `OpenSshTypeCorrect`, `ReadingSound`. What is collected, sections, is compared with what the files
  say, so the invariant must know where in its file each open frame is: `Underway` says that it has read some number of lines, and
  `OpenAt` what section these leave open: none, if they hold no header and no setting, or the one that began with some line, with the first of each setting
  since. Lemmas follow that section over one line of each kind (`AfterHeader`, `AfterSetting`, `AfterInclude`), and show that it is
  whole where a header or the end of the file follows (`SectionWhole`). An Include pushes a frame and leaves those below as they are,
  so included files cannot disturb them; `Nesting` says that they are different ones and within the limit. Once somebody has written a
  file nothing is said of sections, as in the property.
- `ConfigFilesProofs`: `ConfigTypeCorrect`, `DiskStaysSound`, `HostsHaveOneFile`, `SuccessIsTrue`. The proof has two halves. The
  first says what a list of steps may hold (`Program`: every file is opened, filled and published without a step between), and
  shows for each command that the list it plans from what it reads is `Planned` and `Intended` (`Planning`). The second shows that
  no step of any thread, no failure and nothing the user does spoils what the remaining steps are to do. Its invariant has
  these parts. `Owners`: a thread touches the files of its own host, or one with a new name, and two threads with one host were
  noticed as a race. `Lists`: without a race the next step finds the temporary file as its own thread left it. `Whole`: what is
  published is a text. `Layout`: after the start the base files are there, and during it each is there or still to come. `Safe`: a
  profile that is to become the active one has its file, and the active one loses it only if the list still makes the default
  profile active. `FilesInv`: the host has no file but the one that is to be published, or a move comes first. `GoalsInv`: what a command
  is for follows from what is done and what is still in its list, so that at the last step it is done.
The inductive invariants were checked by TLC on the instances above before they were proved. Assumptions about
constants are named (`TransferAssumption`, `RegistryAssumption`, `TranscriptAssumption`, `ClientsAssumption`,
`ConstantsAssumption`, `HelpersAssumption`, `OpenSshConfigAssumption`,
`SshVerificationAssumption`, `SshConnectionsAssumption`, `TerminalSessionsAssumption`, `ConfigFilesAssumption`, `ConfigDataAssumption`) and say types, finiteness of the tasks and
windows, that Includes name files and settings have values, that the model values differ, and of the disks an application starts from that each file holds a text of its kind and no two
host files one id. `BufferHasTimer` and `TranscriptSound` also take as a hypothesis that no sync fails: the code does not keep
a timer for the buffer when one does (departure 10).

## Where the code departs from its documents

Met while modelling. The models contain all of this as the code does it; the properties hold because they except it, by
name, or because no document asks for more. Line numbers of the documents are in brackets.

Transfers:

1. A worker of a canceled transfer reports by task id, so a late one sets the status of the retried run and drops its
   entry (`docs/file-transfers.md:85-86`).
2. A call that cannot read the concurrency settings while it schedules leaves the queue unserved until the next create,
   retry or end of a worker.
3. Cancel frees a slot while the canceled worker still copies: more threads may copy than the limit. A worker waits for an SSH
   prompt without a limit of time and with its slot; cancelling its task frees the slot and starts nobody, and the prompt stays.

Port forwards:

4. `stop_port_forward_rule` waits on the main thread for a worker that may wait for a prompt only the main thread can
   answer (`docs/connection-hosts.md`, "Connection work must not block the UI or Tauri command thread").
5. Stopping one rule ends the worker under another that waits to reconnect: `close_session_if_idle` looks at `active_rules`,
   where a waiting rule is not (`docs/port-forwarding.md`, "only rules that are still intended to run reconnect").
6. Deleting a running rule leaves its listener to the worker until the host closes ("stop then delete").
7. Reopening a host while its old worker ends lets that worker write statuses into the new runtime, and opening a second
   workspace restarts the rules that run.

Terminal daemon:

8. A rename that has read the registry before the exit was written writes it back without the exit
   (`docs/terminal-daemon.md:74`, "exit state stays in the registry until the user deletes it"). A rename or the exit waiter
   brings a deleted registry back in the same way.
9. With `DeleteDuringStart = TRUE`, a delete between the creation of the registry and the listening socket removes the files
   of a session that then runs.
10. With `"sync" \in Failures`, a failed sync leaves `flushScheduled` set, and no later chunk gets a timer. A trim that fails leaves the
    file over its cap until the next flush; a rewrite that fails half way loses the lines it has not written, and what is recorded later
    stands behind a torn line, at which every later history request fails. A clear that fails drops its chunk.
11. The chunk that the PTY reader records after the flush of `waitForExit` stays in the buffer when the program returns.
12. A peer that stops reading after it has asked to leave has no heartbeat any more and keeps a `close_view` writing under
    the lock for good.

Terminal sessions:

13. A local session that was attached from the registry has no control channel: closing its last view leaves the run alive
    (`docs/terminal-daemon.md:143-155`, `219-222`). Over SSH a reader that ends drops its channel only: its helper client ignores the end of
    its input (`client.go:69-142`, `231-247`), goes on pinging the daemon and stays counted (`daemon.go:304-322`), so that closing the last
    re-attached view does not end a quiet run (`LeftOf`, which `RunsEndByClose` excepts).
14. The end of a stream is handled before the token is compared: the reader of a detached view marks the re-attached one
    disconnected or removes it; one stray line may be shown.
15. A local request that is pending when its reader ends waits for ever, on the main thread (`Stuck`). A remote view has its control channel
    before its reader has connected (`terminal.rs:1821-1827`): where that connection asks the user (`4241-4257`), a request made in the
    meantime waits for the reader, the reader for the user, and the user's answer for the main thread (`Stuck` as well).
16. A remote view whose stream ended keeps a dead `live_control`: every later command fails, close included.
17. A resize that races with the reader's removal leaves a size for a view that is gone.
18. A partial line of a remote stream is lost when the reader would block, and fails the view.
19. Output between the history and the subscription is in neither.
20. Deleting a record takes the record before the deletion, which may fail.
21. A daemon that starts later than the five seconds of the wait stays running without a view.

Workspaces:

22. `close_mirrors_for_tool_tabs` fails on an empty content group: while any workspace or floating window has one, nothing can be
    closed (`docs/dock-layout.md:80`, `docs/workspace-tabs.md:104`); `NothingRejected` excepts it (`EmptyGroupBeside`).
23. `add_slot_to_first_content_group` and its sibling for side panels fail when a nested split without such a group comes before the
    right child, or when there is no side panel at all: a workspace cannot be opened then (`HidesPlace`).
24. The slot id `{group}-closed` can occur twice.
25. With a remembered layout of a single group, the terminal-sessions tool of an agent host is owned but has no slot.
26. Side effects before validation and saving stay when these fail (`torn`). A window sends an intent refused for its version again
    with the newest one, which its user has not seen: "close others" then closes what was opened since, and all tabs when its own is
    gone. Windows take snapshots from answers and events without comparing versions, so one may display an older one for good.

SSH:

27. `create_ssh_agent_host_terminal_session` connects on the main thread and waits for a prompt whose answer needs the main thread
    (`docs/connection-hosts.md:325`). So do the commands of a remote view without a control channel, which wait for a connection of their own
    (`terminal.rs:2098`, `2261`): the step "asks", from which the main thread does not return.
28. `+page.svelte` holds one pending secret for all scopes: the prompt of a second scope takes its place, and the first is never
    answered (`Lost`; `docs/connection-hosts.md:428`).
29. When an event cannot be sent after `mark_emitted`, its request stays active for ever; and a worker that fails to show the next
    request loses its own answer.
30. Secrets stored and prompts asked after the workspace closed make its scope again (`:399`).
31. The trust file is read before the prompt and written after it: two accepts at once lose a key, and a reader may find it
    empty or torn. A "changed" key that is accepted is added; the old one stays trusted.
32. A worker whose kept secret failed may remove a newer one. An error of the keyring after a successful login fails the
    connection (`:358`). A passphrase in the keyring comes before a kept password.

Configuration files:

33. A crash or an error in `delete_profile` after the file and before the state leaves a missing active profile: every command and
    the next start fail (`docs/application-config-storage.md:77`, `595`). `ActiveProfileExists` says nothing after a failure.
34. The main thread and the port-forward worker share `{id}.toml.tmp`: a blank or half-written file may be published, and
    the loser fails. A worker's write after a move or delete makes the file again, and updates get lost.
35. `set_host_dirs` always writes the main configuration, with no effect under a profile that overrides it; deleting the default
    host when profile and main both name one uncovers main's; a missing default host is an error where
    `docs/connection-hosts.md:268` falls back to the local host.
36. One malformed host file fails the commands for ids scanned after it. The repair of a duplicate id works on the first file in scan
    order and deletes the keyring secrets of the id the other one keeps; the repair of an invalid host fails.

OpenSSH configurations:

37. An Include inside an open section puts the included sections before it; settings of an included file without a Host apply to
    `*`; Match sections come after all Host sections; a negated word of a Host line excludes nothing.
38. A configured file that is missing is skipped without a diagnostic, and one that cannot be read fails the listing of every host
    (`docs/connection-hosts.md:48`).
39. Two Host lines with one alias give two entries with one id; the ProxyJump of a hop is not followed.

Helpers:

40. What is remembered as verified is never checked again: when the remote file is gone or was broken off by another upload, every
    run fails until the application restarts (`docs/resource-monitor.md`, `docs/files-tooltab.md:450`, `460`). Under "never" a helper
    that was verified before still runs.
41. A refused download is remembered by nobody, and asked before the policy is read: the monitor's refresh asks again every two
    seconds. A refused upload of ripgrep is not remembered; the agent asks at every session.
42. `pending` is cleared when the user agrees, so a second refresh asks again, or uploads at once, while the first uploads; a call that
    had passed the check before a refusal may ask once more.
43. The memory keeps one hash for each host. When the user configures another target (system, architecture) for the host, its calls
    replace what was verified, pending or refused: the monitor may open a second upload dialog or ask again after a refusal (both
    properties hold until then: `retargeted`), and a search that skipped its dialog because ripgrep was verified, and
    then finds another hash, uploads without asking under "ask" (`UploadsHaveConsent` excepts exactly that call: `late`).

## Only model-checked

Liveness (`QueuedIsServed`, `BufferedIsFlushed`, `CommandsAreAnswered`, `CloseEndsWorker`, `WaitEnds`, `ReadingEnds`,
`RefusalEndsDialogs`): out of the prover's reach. `DockLayout`, `Workspace` and `SshConfigOrder` are recursive over trees of
groups and of included files, what such an operator computes for every tree would take an induction over data, and the prover has no SMT backend in a module that reaches one: `DockIsSound`,
`NothingRejected`, `ImplementsVersionedStore`, `MirrorsOutliveTheirSource` and `SettingsFollowFiles` stay with TLC.

## Not modelled

Bytes and their parsing, progress, wording and layout everywhere; the components of the second table of the inventory; the resize,
write and list requests of the daemon, which change no state that these properties speak of; the Windows variants; tunnelled
connections, dynamic ports and endpoints of port forwards; the watcher of the configuration files; the store of the resource view, where an
answer in flight may arrive after its provider was switched. A restart of the application is modelled where something survives it:
in `ConfigFiles`, `Helpers`, and for the daemon in `SessionRegistry` and `Transcript`; transfers and port-forward runtimes start empty.

## Plan

1. `PortForwarding` over `VerificationDesk`, for its prompts; `TerminalSessions` over `DaemonClients` and `Transcript`, for an
   abstract stream that a viewer sees without gaps.
2. An abstract transfer service (a task is queued, running, ended) that `TransferQueue` refines.

## Running it

In this directory, `tlc -config <run>.cfg <module>` with the module named in `PROJECT.json` for the run,
and `tlapm <module>Proofs.tla`. The longest run takes about two minutes on two cores.
