--------------------------- MODULE PortForwarding ---------------------------
(* The port forwards of one SSH host (src-tauri/src/port_forwarding.rs).     *)
(*                                                                           *)
(* The Tauri commands run on the main thread, one at a time.  A worker       *)
(* thread per host owns the SSH session and one listener thread per rule; it *)
(* takes the commands the main thread sends it in order, and nests: while a  *)
(* rule waits for its reconnect delay the wait itself takes the next         *)
(* commands, so the waits form a stack.  Stopping a rule makes the main      *)
(* thread wait for the worker; closing the host does not.                    *)
(*                                                                           *)
(* Left out: endpoints and their duplicate check, dynamic ports, drafts,     *)
(* confirmations, event logs and the connections inside a tunnel.  An edit   *)
(* of an endpoint shows as the restart it causes.  Bound: PendingLimit.      *)
EXTENDS Integers, SequencesExt

CONSTANTS
    Rules,          \* the rules a user may define for the host
    Workers,        \* worker threads that may exist at the same time
    NoRule,
    NoWorker,
    PendingLimit,   \* bound: commands and waits that one worker may hold
    StaleRows       \* TRUE: a row of the Ports table may show an old status

ASSUME ConstantsAssumption ==
    /\ NoRule \notin Rules
    /\ NoWorker \notin Workers
    /\ PendingLimit \in Nat
    /\ StaleRows \in BOOLEAN

VARIABLES
    kind,      \* persistence of each rule: not defined, temporary, saved, deleted
    status,    \* runtime.status of each rule; no entry counts as "stopped"
    open,      \* a workspace of the host is open
    handle,    \* runtime.worker: the worker that commands go to
    main,      \* what the main thread is doing
    queue,     \* the channel of each worker
    worker,    \* where each worker thread is
    listener   \* active_rules of each worker, and what the listener does

vars == <<kind, status, open, handle, main, queue, worker, listener>>

StartOf(r) == [op |-> "start", rule |-> r]
StopOf(r)  == [op |-> "stop", rule |-> r]
StopAll    == [op |-> "stopAll", rule |-> NoRule]
Commands   == {StartOf(r) : r \in Rules} \cup {StopOf(r) : r \in Rules} \cup {StopAll}

Phases == {"dead", "recv", "connect", "prompt", "refused", "bind",
           "markRunning", "markReconnecting", "markFailed", "stopAll"}

WorkerStates == [phase : Phases, rule : Rules \cup {NoRule},
                 waits : Seq(Rules), session : BOOLEAN]

Statuses == {"stopped", "starting", "running", "reconnecting", "failed"}

TypeOK ==
    /\ kind \in [Rules -> {"none", "temporary", "saved", "deleted"}]
    /\ status \in [Rules -> Statuses]
    /\ open \in BOOLEAN
    /\ handle \in Workers \cup {NoWorker}
    /\ main \in [op : {"idle", "stop", "stopped", "open", "close"},
                 rule : Rules \cup {NoRule}, todo : SUBSET Rules]
    /\ queue \in [Workers -> Seq(Commands)]
    /\ worker \in [Workers -> WorkerStates]
    /\ listener \in [Workers -> [Rules -> {"off", "on", "failed"}]]

-----------------------------------------------------------------------------
Idle    == [op |-> "idle", rule |-> NoRule, todo |-> {}]
Dead    == [phase |-> "dead", rule |-> NoRule, waits |-> <<>>, session |-> FALSE]
Listed  == {r \in Rules : kind[r] \in {"temporary", "saved"}}

\* intended_running of a rule.
Intended(r) == status[r] \in {"starting", "running", "reconnecting"}

Active(w) == {r \in Rules : listener[w][r] # "off"}
Alive(w)  == worker[w].phase # "dead"
\* The worker was told to stop everything and end.
Told(w)   == worker[w].phase = "stopAll" \/ StopAll \in Range(queue[w])

Pending(w) == Len(queue[w]) + Len(worker[w].waits) + (IF worker[w].rule = NoRule THEN 0 ELSE 1)
HasRoom(n) == (IF handle = NoWorker THEN 0 ELSE Pending(handle)) + n <= PendingLimit

Init ==
    /\ kind \in [Rules -> {"none", "saved"}]
    /\ status = [r \in Rules |-> "stopped"]
    /\ open = FALSE
    /\ handle = NoWorker
    /\ main = Idle
    /\ queue = [w \in Workers |-> <<>>]
    /\ worker = [w \in Workers |-> Dead]
    /\ listener = [w \in Workers |-> [r \in Rules |-> "off"]]

-----------------------------------------------------------------------------
(* The main thread.                                                          *)

\* Fault: a channel that holds the latest command only.
SendLatest(w, c) == IF Alive(w) THEN [queue EXCEPT ![w] = <<c>>] ELSE queue

\* Sending to a worker that has ended fails and leaves nothing behind.
Send(w, c) == IF Alive(w) THEN [queue EXCEPT ![w] = Append(@, c)] ELSE queue

\* start_rule_on_host_runtime: find or spawn the worker, then send to it.
StartOn(r) ==
    /\ status' = [status EXCEPT ![r] = "starting"]
    /\ \/ /\ handle # NoWorker
          /\ queue' = Send(handle, StartOf(r))
          /\ UNCHANGED <<handle, worker>>
       \/ /\ handle = NoWorker
          /\ \E w \in Workers :
                /\ ~Alive(w)
                /\ handle' = w
                /\ worker' = [worker EXCEPT ![w].phase = "recv"]
                /\ queue' = [queue EXCEPT ![w] = <<StartOf(r)>>]

\* A new rule is started; an edit restarts an active rule when it changes an
\* endpoint, and changes only the persistence otherwise.
SaveRule(r, k, endpoint) ==
    /\ main = Idle /\ open /\ kind[r] # "deleted"
    /\ kind' = [kind EXCEPT ![r] = k]
    /\ \/ /\ kind[r] = "none" \/ (endpoint /\ Intended(r))
          /\ HasRoom(1)
          /\ StartOn(r)
       \/ /\ kind[r] \notin {"none", k} /\ ~endpoint
          /\ UNCHANGED <<status, handle, worker, queue>>
    /\ UNCHANGED <<open, main, listener>>

\* The runtime entry goes with the rule; the worker is not told.
DeleteRule(r) ==
    /\ main = Idle /\ open /\ r \in Listed
    /\ kind' = [kind EXCEPT ![r] = "deleted"]
    /\ status' = [status EXCEPT ![r] = "stopped"]
    /\ UNCHANGED <<open, handle, main, queue, worker, listener>>

\* The Ports table offers Start unless its row shows a running rule.
StartCommand(r) ==
    /\ main = Idle /\ open /\ r \in Listed
    /\ StaleRows \/ status[r] # "running"
    /\ HasRoom(1)
    /\ StartOn(r)
    /\ UNCHANGED <<kind, open, main, listener>>

\* The main thread sends and waits for the answer, unless there is no worker.
StopCommand(r) ==
    /\ main = Idle /\ open /\ r \in Listed
    /\ StaleRows \/ status[r] = "running"
    /\ \/ /\ handle = NoWorker
          /\ main' = [Idle EXCEPT !.op = "stopped", !.rule = r]
          /\ UNCHANGED queue
       \/ /\ handle # NoWorker /\ Alive(handle)
          /\ HasRoom(1)
          /\ queue' = Send(handle, StopOf(r))
          /\ main' = [Idle EXCEPT !.op = "stop", !.rule = r]
    /\ UNCHANGED <<kind, status, open, handle, worker, listener>>

\* stop_rule_on_host_runtime sets the status again after the answer.
StopDone ==
    /\ main.op = "stopped"
    /\ status' = [status EXCEPT ![main.rule] = "stopped"]
    /\ main' = Idle
    /\ UNCHANGED <<kind, open, handle, queue, worker, listener>>

\* A workspace of the host opens, be it the first or not, and starts the saved
\* rules that connect on host open, one after the other.
OpenHost(auto) ==
    /\ main = Idle
    /\ auto \subseteq {r \in Rules : kind[r] = "saved"}
    /\ auto = {} \/ handle # NoWorker \/ \E w \in Workers : ~Alive(w)
    /\ HasRoom(Cardinality(auto))
    /\ open' = TRUE
    /\ main' = [Idle EXCEPT !.op = "open", !.todo = auto]
    /\ UNCHANGED <<kind, status, handle, queue, worker, listener>>

OpenNext ==
    /\ main.op = "open"
    /\ \/ \E r \in main.todo : /\ StartOn(r)
                               /\ main' = [main EXCEPT !.todo = @ \ {r}]
       \/ /\ main.todo = {}
          /\ main' = Idle
          /\ UNCHANGED <<status, handle, queue, worker>>
    /\ UNCHANGED <<kind, open, listener>>

\* close_host_port_forward_runtime, first part: the pending prompts are canceled.
CloseBegin ==
    /\ main = Idle /\ open
    /\ main' = [Idle EXCEPT !.op = "close"]
    /\ worker' = [w \in Workers |-> IF worker[w].phase = "prompt"
                                    THEN [worker[w] EXCEPT !.phase = "refused"]
                                    ELSE worker[w]]
    /\ UNCHANGED <<kind, status, open, handle, queue, listener>>

\* stop_all_rules takes the handle out of the runtime that is removed.
HandleAfterClose == NoWorker

\* Second part: the runtime goes, with its temporary rules, and the worker is
\* told to stop all rules.  Nobody waits for that.
CloseEnd ==
    /\ main.op = "close"
    /\ open' = FALSE
    /\ kind' = [r \in Rules |-> IF kind[r] = "temporary" THEN "deleted" ELSE kind[r]]
    /\ status' = [r \in Rules |-> "stopped"]
    /\ handle' = HandleAfterClose
    /\ queue' = IF handle = NoWorker THEN queue ELSE Send(handle, StopAll)
    /\ main' = Idle
    /\ UNCHANGED <<worker, listener>>

-----------------------------------------------------------------------------
(* The worker thread.                                                        *)

Receives(w, c) == worker[w].phase = "recv" /\ queue[w] # <<>> /\ c = Head(queue[w])

\* Fault: the stop flag is not set.
ListensOn(w, r) == listener

\* stop_rule: set the stop flag of the rule and join its threads.
Unlisten(w, r) == [listener EXCEPT ![w][r] = "off"]

\* start_rule: stop the rule, then use the session there is or connect.
BeginStart(w, r, waits) ==
    /\ listener' = Unlisten(w, r)
    /\ worker' = [worker EXCEPT ![w].phase = IF worker[w].session THEN "bind" ELSE "connect",
                                ![w].rule = r, ![w].waits = waits]

TakeStart(w) ==
    \E r \in Rules :
        /\ Receives(w, StartOf(r))
        /\ queue' = [queue EXCEPT ![w] = Tail(@)]
        /\ BeginStart(w, r, worker[w].waits)
        /\ UNCHANGED <<kind, status, open, handle, main>>

\* Fault: the worker sleeps instead of waiting on its channel.
SleepsThrough(w) == TRUE

\* recv_timeout has found no command, and there is still a sender.
NothingReceived(w) == queue[w] = <<>> /\ handle = w

\* The reconnect delay of the innermost wait is over.
Retry(w) ==
    LET waits == worker[w].waits IN
    /\ worker[w].phase = "recv" /\ waits # <<>>
    /\ NothingReceived(w)
    /\ Intended(Last(waits))
    /\ BeginStart(w, Last(waits), Front(waits))
    /\ UNCHANGED <<kind, status, open, handle, main, queue>>

\* After each command and every tick a wait ends when its rule is not intended
\* to run any more.
GiveUp(w) ==
    LET waits == worker[w].waits IN
    /\ worker[w].phase = "recv" /\ waits # <<>>
    /\ ~Intended(Last(waits))
    /\ worker' = [worker EXCEPT ![w].waits = Front(waits)]
    /\ UNCHANGED <<kind, status, open, handle, main, queue, listener>>

\* Fault: the handle is dropped although other rules run.
IdleAnyway(w, r) == TRUE

\* close_session_if_idle drops the session and the handle of the store.
IdleWithout(w, r) == Active(w) \subseteq {r}

TakeStop(w) ==
    \E r \in Rules :
        /\ Receives(w, StopOf(r))
        /\ queue' = [queue EXCEPT ![w] = Tail(@)]
        /\ listener' = Unlisten(w, r)
        /\ status' = [status EXCEPT ![r] = "stopped"]
        /\ handle' = IF IdleWithout(w, r) THEN NoWorker ELSE handle
        /\ worker' = [worker EXCEPT ![w].session = @ /\ ~IdleWithout(w, r)]
        /\ main' = [main EXCEPT !.op = "stopped"]
        /\ UNCHANGED <<kind, open>>

TakeStopAll(w) ==
    /\ Receives(w, StopAll)
    /\ queue' = [queue EXCEPT ![w] = Tail(@)]
    /\ worker' = [worker EXCEPT ![w].phase = "stopAll"]
    /\ UNCHANGED <<kind, status, open, handle, main, listener>>

StopNext(w) ==
    /\ worker[w].phase = "stopAll"
    /\ \/ \E r \in Active(w) : /\ listener' = Unlisten(w, r)
                               /\ status' = [status EXCEPT ![r] = "stopped"]
                               /\ UNCHANGED worker
       \/ /\ Active(w) = {}
          /\ worker' = [worker EXCEPT ![w] = Dead]
          /\ UNCHANGED <<status, listener>>
    /\ UNCHANGED <<kind, open, handle, main, queue>>

\* Every sender is gone: each wait returns, and then the loop of the worker.
Disconnected(w) ==
    /\ worker[w].phase = "recv" /\ queue[w] = <<>> /\ handle # w
    /\ worker' = [worker EXCEPT ![w] = Dead]
    /\ UNCHANGED <<kind, status, open, handle, main, queue, listener>>

Goto(w, phase) ==
    /\ worker' = [worker EXCEPT ![w].phase = phase]
    /\ UNCHANGED <<kind, status, open, handle, main, queue>>

ConnectOk(w) ==
    /\ worker[w].phase = "connect"
    /\ worker' = [worker EXCEPT ![w].phase = "bind", ![w].session = TRUE]
    /\ UNCHANGED <<kind, status, open, handle, main, queue, listener>>

\* Authentication or the host key needs the user.
ConnectPrompts(w) ==
    /\ worker[w].phase = "connect"
    /\ Goto(w, "prompt")
    /\ UNCHANGED listener

\* The user answers or cancels; the command that says so needs the main thread.
AnswerPrompt(w) ==
    /\ main = Idle /\ worker[w].phase = "prompt"
    /\ \E phase \in {"connect", "refused"} : Goto(w, phase)
    /\ UNCHANGED listener

\* What start_rule_with_reconnect decides after a failure, from the status.
Verdict(r) == IF Intended(r) THEN "markReconnecting" ELSE "markFailed"

\* A failed start drops the session when it is to be repeated.
FailTo(w, phase) ==
    /\ worker' = [worker EXCEPT ![w].phase = phase,
                                ![w].session = @ /\ phase = "markFailed"]
    /\ UNCHANGED <<kind, status, open, handle, main, queue, listener>>

ConnectFails(w) ==
    /\ worker[w].phase \in {"connect", "refused"}
    /\ FailTo(w, Verdict(worker[w].rule))

\* A port that is in use ends the attempts, any other failure is repeated.
BindFails(w) ==
    /\ worker[w].phase = "bind"
    /\ \E phase \in {"markFailed", Verdict(worker[w].rule)} : FailTo(w, phase)

BindOk(w) ==
    /\ worker[w].phase = "bind"
    /\ listener' = [listener EXCEPT ![w][worker[w].rule] = "on"]
    /\ Goto(w, "markRunning")

\* The status is set last, whatever became of it meanwhile.
Mark(w, phase, result, waits) ==
    /\ worker[w].phase = phase
    /\ status' = [status EXCEPT ![worker[w].rule] = result]
    /\ worker' = [worker EXCEPT ![w].phase = "recv", ![w].rule = NoRule, ![w].waits = waits]
    /\ UNCHANGED <<kind, open, handle, main, queue, listener>>

MarkRunning(w)      == Mark(w, "markRunning", "running", worker[w].waits)
MarkFailed(w)       == Mark(w, "markFailed", "failed", worker[w].waits)
MarkReconnecting(w) == Mark(w, "markReconnecting", "reconnecting",
                            Append(worker[w].waits, worker[w].rule))

-----------------------------------------------------------------------------
(* A listener thread: accept fails before the listener was told to stop.      *)
ListenerFails(w, r) ==
    /\ listener[w][r] = "on"
    /\ listener' = [listener EXCEPT ![w][r] = "failed"]
    /\ status' = [status EXCEPT ![r] = "failed"]
    /\ UNCHANGED <<kind, open, handle, main, queue, worker>>

-----------------------------------------------------------------------------
Command ==
    \/ \E r \in Rules : \/ \E k \in {"temporary", "saved"}, endpoint \in BOOLEAN :
                              SaveRule(r, k, endpoint)
                        \/ DeleteRule(r)
                        \/ StartCommand(r)
                        \/ StopCommand(r)
    \/ \E auto \in SUBSET Rules : OpenHost(auto)
    \/ CloseBegin

MainStep == StopDone \/ OpenNext \/ CloseEnd

WorkerStep(w) ==
    \/ TakeStart(w) \/ Retry(w) \/ GiveUp(w)
    \/ TakeStop(w) \/ TakeStopAll(w) \/ StopNext(w) \/ Disconnected(w)
    \/ ConnectOk(w) \/ ConnectPrompts(w) \/ ConnectFails(w)
    \/ BindOk(w) \/ BindFails(w)
    \/ MarkRunning(w) \/ MarkFailed(w) \/ MarkReconnecting(w)

Next ==
    \/ Command \/ MainStep
    \/ \E w \in Workers : WorkerStep(w) \/ AnswerPrompt(w)
    \/ \E w \in Workers, r \in Rules : ListenerFails(w, r)

Spec == Init /\ [][Next]_vars

\* Threads are scheduled, and every attempt to connect, bind or accept ends.
\* Nothing is assumed of the user, who may leave a prompt unanswered.
FairSpec == /\ Spec
            /\ WF_vars(MainStep)
            /\ \A w \in Workers : WF_vars(WorkerStep(w))

-----------------------------------------------------------------------------
(* What the worker, the handle and the main thread promise each other.       *)

\* The handle of the store leads to a worker that still takes commands, so no
\* command fails with "Host port forwarding worker is unavailable", and a stop
\* that the main thread waits for is in the channel of such a worker.
HandleIsLive ==
    /\ handle # NoWorker => Alive(handle) /\ ~Told(handle)
    /\ main.op = "stop" =>
          handle # NoWorker /\ StopOf(main.rule) \in Range(queue[handle])

\* A listener belongs to the worker that commands reach, or to one that was told
\* to stop everything: none is left that nobody can stop.
ListenersCanBeStopped ==
    \A w \in Workers : Active(w) # {} => handle = w \/ Told(w)

\* What commands can reach covers what runs.
ListenersAreReachable == TypeOK /\ HandleIsLive /\ ListenersCanBeStopped

\* When the answer to a stop arrives, the rule has no listener any more, except
\* with a worker of an earlier time that is itself about to end.
StopClosesListener ==
    [][main.op = "stop" /\ main'.op = "stopped" =>
          \A w \in Workers : Told(w) \/ listener'[w][main.rule] = "off"]_vars

Prompting == \E w \in Workers : worker[w].phase = "prompt"

\* The main thread gets the answer to a stop, unless a prompt is pending.
StopReturnsOrPrompts == main.op = "stop" ~> main.op # "stop" \/ Prompting

\* A start is answered: the rule does not stay "starting" without a prompt.
StartIsAnswered ==
    \A r \in Rules : status[r] = "starting" ~> status[r] # "starting" \/ Prompting

\* No command of the user waits for ever, but for an answer of the user's own.
CommandsAreAnswered == StopReturnsOrPrompts /\ StartIsAnswered

\* A worker that was told to stop everything ends, unless it prompts.
CloseEndsWorker ==
    \A w \in Workers : Told(w) ~> ~Alive(w) \/ worker[w].phase = "prompt"

=============================================================================
