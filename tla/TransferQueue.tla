--------------------------- MODULE TransferQueue ---------------------------
(***************************************************************************)
(* The application-level transfer service (src-tauri/src/transfers.rs):    *)
(* the global queue behind one mutex, the commands that create, cancel and *)
(* retry a task, the scheduling loop, and one worker thread per started    *)
(* run.                                                                    *)
(*                                                                         *)
(* A worker is named <<t, n>>: the n-th run of task t.  Its AtomicBool is  *)
(* membership in `canceled'; the entry of the `running' map is the run     *)
(* number in running[t] (0: no entry).  The store mutex is modelled where  *)
(* it is held over several steps, in the scheduling loop: every other      *)
(* critical section is one action that requires the mutex to be free.      *)
(***************************************************************************)
EXTENDS Naturals, Sequences, FiniteSets

CONSTANTS Tasks,            \* positions in the `tasks' Vec: 1..n, in creation order
          Hosts,            \* provider hosts
          Paths,            \* destination files
          AskingHosts,      \* the hosts whose connection may need the user's answer
          HostsOf,          \* task_hosts of each task
          Plan,             \* the destination files each task writes, in order
          Directories,      \* the tasks whose source is a directory
          GlobalLimit,      \* transfers.global_concurrency
          PerHostLimit,     \* transfers.per_host_concurrency
          MaxRuns,          \* bound: runs of one task (first run and retries)
          Retried,          \* bound: the tasks that are retried
          MaxPending,       \* bound: threads waiting to schedule when a command comes
          MaxConfigErrors   \* bound: schedule calls that fail to read the config

ASSUME TransferAssumption ==
    /\ Tasks \subseteq Nat \ {0}
    /\ IsFiniteSet(Tasks)
    /\ AskingHosts \subseteq Hosts
    /\ HostsOf \in [Tasks -> SUBSET Hosts]
    /\ Plan \in [Tasks -> Seq(Paths)]
    /\ Directories \subseteq Tasks
    /\ GlobalLimit \in Nat \ {0}
    /\ PerHostLimit \in Nat \ {0}
    /\ MaxRuns \in Nat
    /\ MaxPending \in Nat
    /\ MaxConfigErrors \in Nat

VARIABLES status,       \* TransferTask.status, "absent" before create_transfer_task
          running,      \* the run whose RunningTransfer is in the map, 0 if none
          runs,         \* runs started so far
          canceled,     \* the workers whose AtomicBool is set
          pc,           \* where each worker thread is
          file,         \* index in Plan of the file a worker is at
          dest,         \* destination files: who created them, whether they are whole
          scheduling,   \* schedule_transfers holds the store mutex
          pending,      \* threads about to call schedule_transfers
          configErrors, \* schedule calls that failed so far
          prompting     \* the workers that wait for an answer to an SSH prompt

vars == <<status, running, runs, canceled, pc, file, dest, scheduling, pending,
          configErrors, prompting>>

Workers == Tasks \X (1 .. MaxRuns)
Absent  == [by |-> <<0, 0>>, whole |-> FALSE]
File    == [by : Workers, whole : BOOLEAN] \cup {Absent}
Status  == {"absent", "queued", "running", "failed", "completed", "canceled"}
WorkerPc == {"none", "planned", "start", "probe", "open", "copy", "ok", "err", "done"}

TypeOK ==
    /\ status \in [Tasks -> Status]
    /\ running \in [Tasks -> 0 .. MaxRuns]
    /\ runs \in [Tasks -> 0 .. MaxRuns]
    /\ canceled \subseteq Workers
    /\ pc \in [Workers -> WorkerPc]
    /\ file \in [Workers -> Nat]
    /\ dest \in [Paths -> File]
    /\ scheduling \in BOOLEAN
    /\ pending \in Nat
    /\ configErrors \in 0 .. MaxConfigErrors
    /\ prompting \subseteq Workers

Entries     == {t \in Tasks : running[t] # 0}
HostLoad(h) == {t \in Entries : h \in HostsOf[t]}

Init ==
    /\ status = [t \in Tasks |-> "absent"]
    /\ running = [t \in Tasks |-> 0]
    /\ runs = [t \in Tasks |-> 0]
    /\ canceled = {}
    /\ pc = [w \in Workers |-> "none"]
    /\ file = [w \in Workers |-> 1]
    /\ dest = [p \in Paths |-> Absent]
    /\ scheduling = FALSE
    /\ pending = 0
    /\ configErrors = 0
    /\ prompting = {}

-----------------------------------------------------------------------------
(* The commands.  Each takes the mutex once; create and retry then call     *)
(* schedule_transfers, which is a later step of the same thread.            *)

CreateTask(t) ==
    /\ ~scheduling
    /\ status[t] = "absent"
    /\ \A u \in Tasks : u < t => status[u] # "absent"
    /\ pending < MaxPending
    /\ status' = [status EXCEPT ![t] = "queued"]
    /\ pending' = pending + 1
    /\ UNCHANGED <<running, runs, canceled, pc, file, dest, scheduling, configErrors, prompting>>

CancelTask(t) ==
    /\ ~scheduling
    /\ status[t] # "absent"
    /\ canceled' = canceled \cup {w \in Workers : w[1] = t /\ w[2] = running[t]}
    /\ status' = [status EXCEPT ![t] = IF @ \in {"completed", "canceled"}
                                       THEN @ ELSE "canceled"]
    /\ running' = [running EXCEPT ![t] = 0]
    /\ UNCHANGED <<runs, pc, file, dest, scheduling, pending, configErrors, prompting>>

RetryTask(t) ==
    /\ ~scheduling
    /\ running[t] = 0
    /\ status[t] \in {"failed", "canceled"}
    /\ t \in Retried
    /\ runs[t] < MaxRuns
    /\ pending < MaxPending
    /\ status' = [status EXCEPT ![t] = "queued"]
    /\ pending' = pending + 1
    /\ UNCHANGED <<running, runs, canceled, pc, file, dest, scheduling, configErrors, prompting>>

-----------------------------------------------------------------------------
(* schedule_transfers.                                                      *)

Eligible(t) ==
    /\ status[t] = "queued"
    /\ \A h \in HostsOf[t] : Cardinality(HostLoad(h)) < PerHostLimit

CanStart(t) ==
    /\ Cardinality(Entries) < GlobalLimit
    /\ Eligible(t)
    /\ \A u \in Tasks : u < t => ~Eligible(u)

ScheduleBegin ==
    /\ pending > 0
    /\ ~scheduling
    /\ scheduling' = TRUE
    /\ pending' = pending - 1
    /\ UNCHANGED <<status, running, runs, canceled, pc, file, dest, configErrors, prompting>>

\* transfer_concurrency_settings fails: the caller gets an error, the queue keeps
\* the task.
ScheduleFails ==
    /\ pending > 0
    /\ configErrors < MaxConfigErrors
    /\ configErrors' = configErrors + 1
    /\ pending' = pending - 1
    /\ UNCHANGED <<status, running, runs, canceled, pc, file, dest, scheduling, prompting>>

ScheduleOne(t) ==
    /\ scheduling
    /\ CanStart(t)
    /\ runs[t] < MaxRuns
    /\ LET w == <<t, runs[t] + 1>> IN
         /\ status' = [status EXCEPT ![t] = "running"]
         /\ runs' = [runs EXCEPT ![t] = @ + 1]
         /\ running' = [running EXCEPT ![t] = runs[t] + 1]
         /\ pc' = [pc EXCEPT ![w] = "planned"]
    /\ UNCHANGED <<canceled, file, dest, scheduling, pending, configErrors, prompting>>

\* The loop breaks, the mutex is released and the collected workers are spawned.
ScheduleEnd ==
    /\ scheduling
    /\ \A t \in Tasks : ~CanStart(t)
    /\ scheduling' = FALSE
    /\ pc' = [w \in Workers |-> IF pc[w] = "planned" THEN "start" ELSE pc[w]]
    /\ UNCHANGED <<status, running, runs, canceled, file, dest, pending, configErrors, prompting>>

-----------------------------------------------------------------------------
(* A worker thread: execute_transfer, then mark_transfer_completed or       *)
(* mark_transfer_failed.  Every I/O call may fail, and every one that names *)
(* a path on a host opens an SSH connection of its own, which may wait for  *)
(* the user without a limit of time.                                        *)

Path(w) == Plan[w[1]][file[w]]

Goto(w, l) == pc' = [pc EXCEPT ![w] = l]

\* Fault: the last file of the plan is skipped.
AtFileOffByOne(w, i) ==
    IF i >= Len(Plan[w[1]]) THEN "ok"
    ELSE IF w[1] \in Directories /\ w \in canceled THEN "err"
    ELSE "probe"

\* Where a worker is once it has reached the i-th file of its plan: copy_directory
\* checks the flag before each file, a single file goes straight to copy_file.
AtFile(w, i) ==
    IF i > Len(Plan[w[1]]) THEN "ok"
    ELSE IF w[1] \in Directories /\ w \in canceled THEN "err"
    ELSE "probe"

\* execute_transfer up to the first file: the flag, source_metadata, the plan of a
\* directory, and set_transfer_total, which takes the mutex.
Begin(w) ==
    /\ pc[w] = "start" /\ w \notin prompting
    /\ \/ Goto(w, "err")
       \/ w \notin canceled /\ ~scheduling /\ Goto(w, AtFile(w, 1))
    /\ UNCHANGED <<status, running, runs, canceled, file, dest, scheduling, pending,
                   configErrors, prompting>>

\* connect_sftp_for_host raises an SSH prompt: for the stat or the list of the source,
\* a directory, the test or the opening of a file.  Cancelling the task does not end it.
Prompt(w) ==
    /\ pc[w] \in {"start", "probe", "open"}
    /\ HostsOf[w[1]] \cap AskingHosts # {}
    /\ w \notin prompting
    /\ prompting' = prompting \cup {w}
    /\ UNCHANGED <<status, running, runs, canceled, pc, file, dest, scheduling, pending,
                   configErrors>>

\* The user answers it, or the workspace it is shown in closes; the call then goes on
\* or fails.  A prompt that is lost is never answered.
Answer(w) ==
    /\ w \in prompting
    /\ prompting' = prompting \ {w}
    /\ UNCHANGED <<status, running, runs, canceled, pc, file, dest, scheduling, pending,
                   configErrors>>

\* open_read_source and ensure_destination_absent.
Probe(w) ==
    /\ pc[w] = "probe" /\ w \notin prompting
    /\ \/ Goto(w, "err")
       \/ dest[Path(w)] = Absent /\ Goto(w, "open")
    /\ UNCHANGED <<status, running, runs, canceled, file, dest, scheduling, pending,
                   configErrors, prompting>>

\* Fault: the destination is opened without create_new.
OpenAnyway(w) == TRUE

\* create_new, or an exclusive SFTP open, succeeds only on a free path.
CreateNew(w) == dest[Path(w)] = Absent

\* open_write_destination.
Open(w) ==
    /\ pc[w] = "open" /\ w \notin prompting
    /\ \/ Goto(w, "err") /\ UNCHANGED dest
       \/ /\ CreateNew(w)
          /\ dest' = [dest EXCEPT ![Path(w)] = [by |-> w, whole |-> FALSE]]
          /\ Goto(w, "copy")
    /\ UNCHANGED <<status, running, runs, canceled, file, scheduling, pending,
                   configErrors, prompting>>

\* One turn of copy_file's loop that leaves it: the flag is set, a read or a write
\* fails, or the source is at its end.  (A turn that copies a chunk changes only the
\* progress counter.)  Bytes written to an unlinked file reach no path.
Copy(w) ==
    /\ pc[w] = "copy"
    /\ \/ Goto(w, "err") /\ UNCHANGED <<file, dest>>
       \/ /\ w \notin canceled
          /\ dest' = [dest EXCEPT ![Path(w)] =
                        IF @.by = w THEN [by |-> w, whole |-> TRUE] ELSE @]
          /\ file' = [file EXCEPT ![w] = @ + 1]
          /\ Goto(w, AtFile(w, file[w] + 1))
    /\ UNCHANGED <<status, running, runs, canceled, scheduling, pending, configErrors, prompting>>

\* Fault: only the worker's flag is checked, not the task's status.
VerdictByFlag(w) ==
    IF w \in canceled THEN "canceled"
    ELSE IF pc[w] = "ok" THEN "completed" ELSE "failed"

\* The status a finishing worker gives its task.
Verdict(w) ==
    IF w \in canceled \/ status[w[1]] = "canceled" THEN "canceled"
    ELSE IF pc[w] = "ok" THEN "completed" ELSE "failed"

\* Fault: a canceled worker leaves the map as it is.
EntryKept(w) == IF w \in canceled THEN running[w[1]] ELSE 0

\* The entry of the task after mark_transfer_*: removed, whichever run it names.
EntryAfter(w) == 0

\* Fault: a worker that failed does not schedule.
PendingUnlessFailed(w) == IF pc[w] = "err" THEN pending ELSE pending + 1

\* The thread then calls schedule_transfers.
PendingAfter(w) == pending + 1

Finish(w) ==
    /\ pc[w] \in {"ok", "err"}
    /\ ~scheduling
    /\ status' = [status EXCEPT ![w[1]] = Verdict(w)]
    /\ running' = [running EXCEPT ![w[1]] = EntryAfter(w)]
    /\ pending' = PendingAfter(w)
    /\ Goto(w, "done")
    /\ UNCHANGED <<runs, canceled, file, dest, scheduling, configErrors, prompting>>

-----------------------------------------------------------------------------
(* The user deletes what a failed or canceled run left at its destination,   *)
(* once nothing writes there any more.                                      *)
RemovePartial(p) ==
    /\ dest[p] # Absent
    /\ ~dest[p].whole
    /\ pc[dest[p].by] = "done"
    /\ dest' = [dest EXCEPT ![p] = Absent]
    /\ UNCHANGED <<status, running, runs, canceled, pc, file, scheduling, pending,
                   configErrors, prompting>>

WorkerStep(w) ==
    Begin(w) \/ Probe(w) \/ Open(w) \/ Copy(w) \/ Finish(w)

ScheduleStep == ScheduleBegin \/ (\E t \in Tasks : ScheduleOne(t)) \/ ScheduleEnd

Next ==
    \/ \E t \in Tasks : CreateTask(t) \/ CancelTask(t) \/ RetryTask(t)
    \/ ScheduleStep
    \/ ScheduleFails
    \/ \E w \in Workers : WorkerStep(w) \/ Prompt(w) \/ Answer(w)
    \/ \E p \in Paths : RemovePartial(p)

Spec == Init /\ [][Next]_vars

(* File I/O returns or fails, and the threads wait for nothing but a prompt *)
(* and the mutex, which is contended: hence strong fairness.  Asking it of  *)
(* the workers together is weaker than of each of them, and enough, because *)
(* a run has a bounded number of steps.  The user owes nobody an answer.    *)
Fairness ==
    /\ SF_vars(ScheduleStep)
    /\ SF_vars(\E w \in Workers : WorkerStep(w))

FairSpec == Spec /\ Fairness

-----------------------------------------------------------------------------
(* Safety.                                                                  *)

\* The `running' map never holds more entries than the configured concurrency,
\* over all tasks and on each host (schedule_transfers).
EntriesWithinLimits ==
    /\ Cardinality(Entries) <= GlobalLimit
    /\ \A h \in Hosts : Cardinality(HostLoad(h)) <= PerHostLimit

\* A task shows "running" exactly while the map has an entry for it, so
\* retry_transfer_task's "already running" test and the status agree, whatever
\* stale workers do.
StatusMatchesEntry == \A t \in Tasks : status[t] = "running" <=> running[t] # 0

\* A task shows "completed" only when every file of its plan is whole at its
\* destination (mark_transfer_completed).
CompletedIsWhole ==
    \A t \in Tasks : status[t] = "completed" =>
        \A i \in DOMAIN Plan[t] : dest[Plan[t][i]].whole /\ dest[Plan[t][i]].by[1] = t

\* No transfer overwrites a destination file that exists: a file changes its writer
\* only by being removed first (ensure_destination_absent, create_new).
NeverOverwrites ==
    [][\A p \in Paths : dest[p] # Absent => dest'[p] = Absent \/ dest'[p].by = dest[p].by]_vars

\* Once cancel_transfer_task has returned, only retry_transfer_task brings a task
\* back: no late worker turns "canceled" into "completed" or "failed".
CanceledOnlyRetried ==
    [][\A t \in Tasks : status[t] = "canceled" => status'[t] \in {"canceled", "queued"}]_vars

\* The queue, its map and its limits agree in every state, whatever stale workers do.
ServiceIsConsistent == TypeOK /\ StatusMatchesEntry /\ EntriesWithinLimits

\* Under fair threads a queued task does not wait for ever: every worker that ends
\* calls schedule_transfers, although cancel_transfer_task frees a slot without it.
\* Only two things leave it in the queue: a call that could not read the configuration,
\* and a worker whose SSH prompt is never answered.
QueuedIsServed ==
    (\A w \in Workers : []<>(w \notin prompting)) =>
        \A t \in Tasks : status[t] = "queued" ~> status[t] # "queued" \/ configErrors > 0

=============================================================================
