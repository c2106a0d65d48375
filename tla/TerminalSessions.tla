-------------------------- MODULE TerminalSessions --------------------------
(***************************************************************************)
(* The terminal sessions of the app (terminal.rs): the map of open views,  *)
(* the records of detached ones, the reader thread of every view, and the  *)
(* commands of the main thread that wait for an answer of a Terminal Agent *)
(* daemon.  The daemons are external here (module DaemonClients is about   *)
(* one of them); a view reaches its daemon over its own control channel,   *)
(* the standard input of the helper client its reader started, or, where   *)
(* it has none, by a helper client of one request.                         *)
(*                                                                         *)
(* A view and the daemon created for it have the same id.  A token is the  *)
(* TerminalSession object together with its reader: attaching a detached   *)
(* session again keeps the view's id and makes a new token.                *)
(***************************************************************************)
EXTENDS Naturals, Sequences, FiniteSets

CONSTANTS MaxId,       \* bound: ids of views and daemons
          MaxDaemon,   \* bound: ids at which a daemon may be started
          MaxToken,    \* bound: objects and readers
          MaxOutput,   \* bound: chunks of output of a daemon
          Window

None == 0

ASSUME TerminalSessionsAssumption ==
    /\ MaxId \in Nat \ {0} /\ MaxDaemon \in Nat /\ MaxToken \in Nat \ {0} /\ MaxOutput \in Nat
    /\ IsFiniteSet(Window) /\ None \notin Window

Id == 1..MaxId
Token == 1..MaxToken

VARIABLES remote,     \* the host is reached over SSH
          agents,     \* the host's Terminal Agent mode is enabled
          windows,    \* open windows
          sessions,   \* TerminalState::sessions: view -> object, or None
          placed,     \* window_label of that object: view -> window, or None
          records,    \* TerminalState::detached_sessions: daemon -> view, or None
          sized,      \* TerminalState::agent_view_sizes: daemon -> views whose size counts
          arc,        \* TerminalSession: token -> its fields
          shown,      \* TerminalSession::output_backlog: token -> chunks pushed
          reader,     \* token -> its reader thread
          wire,       \* token -> lines its helper client has written and nobody read
          attached,   \* tokens whose helper client the daemon counts as attached
          left,       \* the same, of remote readers that have ended
          daemon,     \* daemon -> state of its run
          written,    \* daemon -> chunks of output so far
          cmd,        \* the command the main thread is in
          strays      \* token -> chunks its reader pushed into another object

host == <<remote, agents>>
threads == <<reader, wire, attached, left, strays>>
runs == <<daemon, written>>
views == <<sessions, placed>>
vars == <<host, windows, views, records, sized, arc, shown, threads, runs, cmd>>

-----------------------------------------------------------------------------
Kind == {"agent", "history", "pty", "shell"}
Ops == {"send", "detach", "close", "window"}
NoLine == <<"none", 0>>
Response == <<"response", 0>>
Exit == <<"exit", 0>>
End == <<"end", 0>>
Output(n) == <<"output", n>>
Line == {NoLine, Response, Exit, End} \cup {Output(n) : n \in 1..MaxOutput}

\* alone is history: no other client of the daemon was left when the command began, and no
\* reader that could become one.
Idle == [op |-> "none", token |-> None, step |-> "none", rest |-> {}, alone |-> FALSE]
NoArc == [kind |-> "none", view |-> None, daemon |-> None,
          transport |-> "none", control |-> FALSE]
NoReader == [stage |-> "off", then |-> "end", todo |-> <<>>, line |-> NoLine,
             request |-> "none", queued |-> FALSE]

Made(t) == arc[t] # NoArc
FreshTokens == {t \in Token : ~ Made(t) /\ \A s \in 1..(t - 1) : Made(s)}
Used(i) == daemon[i] # "none" \/ \E t \in Token : arc[t].view = i
FreshIds == {i \in Id : ~ Used(i) /\ \A j \in 1..(i - 1) : Used(j)}
Current(t) == sessions[arc[t].view] = t
SubscribersOf(d) == {t \in attached : arc[t].daemon = d}
LeftOf(d) == {t \in left : arc[t].daemon = d}

Stage == {"off", "history", "replay", "subscribe", "asks", "live", "plain", "done"}
ArcType == [kind : Kind \cup {"none"}, view : Id \cup {None}, daemon : Id \cup {None},
            transport : {"none", "connected", "ended"}, control : BOOLEAN]
ReaderType == [stage : Stage, then : {"live", "end"}, todo : Seq(Line), line : Line,
               request : {"none", "sent"}, queued : BOOLEAN]
CmdType == [op : Ops \cup {"none"}, token : Token \cup {None},
            step : {"none", "found", "wait", "asks", "ok", "failed"}, rest : SUBSET Token,
            alone : BOOLEAN]
TypeOK ==
    /\ remote \in BOOLEAN /\ agents \in BOOLEAN /\ windows \subseteq Window
    /\ sessions \in [Id -> Token \cup {None}] /\ placed \in [Id -> Window \cup {None}]
    /\ \A i \in Id : sessions[i] # None => arc[sessions[i]].view = i /\ placed[i] \in Window
    /\ records \in [Id -> Id \cup {None}]
    /\ sized \in [Id -> SUBSET Id]
    /\ arc \in [Token -> ArcType]
    /\ shown \in [Token -> Seq(1..MaxOutput)]
    /\ reader \in [Token -> ReaderType]
    /\ wire \in [Token -> Seq(Line)]
    /\ attached \subseteq Token /\ left \subseteq Token
    /\ daemon \in [Id -> {"none", "running", "exited", "deleted"}]
    /\ written \in [Id -> 0..MaxOutput]
    /\ cmd \in CmdType
    /\ strays \in [Token -> Nat]

Init ==
    /\ remote \in BOOLEAN /\ agents \in BOOLEAN
    /\ windows = Window
    /\ sessions = [i \in Id |-> None]
    /\ placed = [i \in Id |-> None]
    /\ records = [i \in Id |-> None]
    /\ sized = [i \in Id |-> {}]
    /\ arc = [t \in Token |-> NoArc]
    /\ shown = [t \in Token |-> <<>>]
    /\ reader = [t \in Token |-> NoReader]
    /\ wire = [t \in Token |-> <<>>]
    /\ attached = {} /\ left = {}
    /\ daemon = [i \in Id |-> "none"]
    /\ written = [i \in Id |-> 0]
    /\ cmd = Idle
    /\ strays = [t \in Token |-> 0]

-----------------------------------------------------------------------------
(* Helpers of both the main thread and the readers.                        *)

SizesWithout(v) == [d \in Id |-> sized[d] \ {v}]

\* remove_terminal_session: whichever object the id names now; its output goes with it.
Remove(v) ==
    /\ shown' = IF sessions[v] = None THEN shown ELSE [shown EXCEPT ![sessions[v]] = <<>>]
    /\ sessions' = [sessions EXCEPT ![v] = None]
    /\ placed' = [placed EXCEPT ![v] = None]
    /\ sized' = SizesWithout(v)

\* update_terminal_transport_state; failed and disconnected are both an end.
Transport(v, state) ==
    IF sessions[v] = None THEN arc ELSE [arc EXCEPT ![sessions[v]].transport = state]

\* A daemon's run ends: its clients get the exit event and the end of the stream.
EndRun(d, state) ==
    /\ daemon' = [daemon EXCEPT ![d] = state]
    /\ wire' = [t \in Token |-> IF t \in SubscribersOf(d) THEN wire[t] \o <<Exit, End>> ELSE wire[t]]
    /\ attached' = attached \ SubscribersOf(d)
    /\ left' = left \ LeftOf(d)

NotEnded == UNCHANGED <<daemon, wire, attached, left>>

\* The reader returns.  Locally it kills its helper client, and with it the daemon's client
\* goes; over SSH it drops the channel only, and the helper client goes on pinging.  The
\* requests still pending over SSH are dropped with the reader, which fails them.
Stops(t) ==
    /\ reader' = [reader EXCEPT ![t] = [@ EXCEPT !.stage = "done", !.then = "end", !.line = NoLine,
                                          !.request = "none", !.todo = <<>>]]
    /\ attached' = attached \ {t}
    /\ left' = IF remote /\ t \in attached THEN left \cup {t} ELSE left
    /\ wire' = [wire EXCEPT ![t] = <<>>]
Waits(t) == cmd.step = "wait" /\ cmd.token = t

\* Fault: the end of a reader fails no request.
KeepRequests(t) == cmd' = cmd

DropRequests(t) ==
    cmd' = IF remote /\ Waits(t) THEN [cmd EXCEPT !.step = "failed"] ELSE cmd

\* Failed, then emit_terminal_exit: the session under the view's id is removed.
FailView(t) ==
    /\ arc' = Transport(arc[t].view, "ended")
    /\ Remove(arc[t].view)
    /\ Stops(t)
    /\ DropRequests(t)
    /\ UNCHANGED <<host, windows, records, runs, strays>>

-----------------------------------------------------------------------------
(* Commands of the main thread that make a view.                           *)

Arc(k, v, d, c) ==
    [kind |-> k, view |-> v, daemon |-> d, transport |-> "connected", control |-> c]
Thread(stage, then) == [stage |-> stage, then |-> then, todo |-> <<>>, line |-> NoLine,
                        request |-> "none", queued |-> FALSE]

\* A TerminalSession goes into the map and its reader is spawned.
Open(t, w, a, r) ==
    /\ arc' = [arc EXCEPT ![t] = a]
    /\ sessions' = [sessions EXCEPT ![a.view] = t]
    /\ placed' = [placed EXCEPT ![a.view] = w]
    /\ reader' = [reader EXCEPT ![t] = r]

\* spawn_local_go_terminal_agent, wait_for_local_go_terminal_agent: a run may already
\* have ended when it is asked for, and a daemon that is too slow stays without a view.
LocalLaunch == {"running", "exited", "late"}
RemoteLaunch == {"running", "late"}
Launched(v, outcome) ==
    /\ v <= MaxDaemon
    /\ daemon' = [daemon EXCEPT ![v] = IF outcome = "exited" THEN "exited" ELSE "running"]

\* create_local_agent_host_terminal_session.
CreateLocalAgent(w, v, t) ==
    /\ cmd = Idle /\ agents /\ ~ remote
    /\ \E outcome \in LocalLaunch :
        /\ Launched(v, outcome)
        /\ CASE outcome = "running" ->
                    Open(t, w, Arc("agent", v, v, TRUE), Thread("subscribe", "live"))
             [] outcome = "exited" ->
                    Open(t, w, Arc("history", v, v, FALSE), Thread("history", "end"))
             [] OTHER -> UNCHANGED <<arc, views, reader>>
    /\ UNCHANGED <<shown, host, windows, records, sized, wire, attached, left, strays, written, cmd>>

\* create_ssh_agent_host_terminal_session.
CreateSshAgent(w, v, t) ==
    /\ cmd = Idle /\ agents /\ remote
    /\ \E outcome \in RemoteLaunch :
        /\ Launched(v, outcome)
        /\ IF outcome = "running"
           THEN Open(t, w, Arc("agent", v, v, TRUE), Thread("subscribe", "live"))
           ELSE UNCHANGED <<arc, views, reader>>
    /\ UNCHANGED <<shown, host, windows, records, sized, wire, attached, left, strays, written, cmd>>

\* create_local_host_terminal_session.
CreatePty(w, v, t) ==
    /\ cmd = Idle /\ ~ agents /\ ~ remote
    /\ Open(t, w, Arc("pty", v, None, FALSE), Thread("plain", "end"))
    /\ UNCHANGED <<shown, host, windows, records, sized, wire, attached, left, strays, runs, cmd>>

\* create_ssh_host_terminal_session.
CreateShell(w, v, t) ==
    /\ cmd = Idle /\ ~ agents /\ remote
    /\ Open(t, w, Arc("shell", v, None, FALSE), Thread("plain", "end"))
    /\ UNCHANGED <<shown, host, windows, records, sized, wire, attached, left, strays, runs, cmd>>

\* list_detached_terminal_sessions: what the daemons' registry lists, and the records.
Listed == {d \in Id : daemon[d] \in {"running", "exited"} \/ records[d] # None}

\* Fault: the record stays when its view comes back.
AttachKeepingRecord(d, w, t) ==
    /\ cmd = Idle
    /\ records[d] # None
    /\ Open(t, w, Arc("agent", records[d], d, TRUE), Thread("subscribe", "live"))
    /\ UNCHANGED <<shown, host, windows, records, sized, wire, attached, left, strays, runs, cmd>>

\* attach_detached_terminal_session with a record: the view comes back under its id.
AttachRecord(d, w, t) ==
    /\ cmd = Idle
    /\ records[d] # None
    /\ records' = [records EXCEPT ![d] = None]
    /\ Open(t, w, Arc("agent", records[d], d, TRUE), Thread("subscribe", "live"))
    /\ UNCHANGED <<shown, host, windows, sized, wire, attached, left, strays, runs, cmd>>

\* attach_registry_terminal_session: history first, and no control channel yet.
AttachRegistry(d, w, v, t) ==
    /\ cmd = Idle /\ agents
    /\ d \in Listed /\ records[d] = None /\ daemon[d] = "running"
    /\ Open(t, w, Arc("agent", v, d, FALSE), Thread("history", "live"))
    /\ UNCHANGED <<shown, host, windows, records, sized, wire, attached, left, strays, runs, cmd>>

\* open_detached_terminal_session_history.
OpenHistory(d, w, v, t) ==
    /\ cmd = Idle /\ agents
    /\ d \in Listed /\ daemon[d] = "exited"
    /\ Open(t, w, Arc("history", v, d, FALSE), Thread("history", "end"))
    /\ UNCHANGED <<shown, host, windows, records, sized, wire, attached, left, strays, runs, cmd>>

\* transfer_terminal_sessions_to_window.
Transfer(v, w) ==
    /\ cmd = Idle
    /\ sessions[v] # None
    /\ placed' = [placed EXCEPT ![v] = w]
    /\ UNCHANGED <<shown, host, windows, sessions, arc, records, sized, threads, runs, cmd>>

-----------------------------------------------------------------------------
(* Commands that ask the daemon of a view and wait for its answer.         *)

\* detach_terminal_session, close_terminal_session, and as "send" write_terminal and
\* resize_terminal, which records a size: session_by_id.
Command(op, v) ==
    /\ cmd = Idle
    /\ sessions[v] # None
    /\ op # "close" => arc[sessions[v]].kind = "agent"
    /\ cmd' = [op |-> op, token |-> sessions[v], step |-> "found", rest |-> {},
               alone |-> op = "close" /\ \A t \in Token \ {sessions[v]} :
                     arc[t].daemon = arc[sessions[v]].daemon
                         => reader[t].stage = "done" /\ t \notin left]
    /\ UNCHANGED <<shown, host, windows, views, records, sized, arc, threads, runs>>

\* close_terminal_sessions_for_window, when a window is destroyed.
CloseWindow(w) ==
    /\ cmd = Idle
    /\ w \in windows
    /\ windows' = windows \ {w}
    /\ cmd' = [op |-> "window", token |-> None, step |-> "none",
               rest |-> {sessions[v] : v \in {i \in Id : placed[i] = w}}, alone |-> FALSE]
    /\ UNCHANGED <<shown, host, views, records, sized, arc, threads, runs>>
NextOfWindow ==
    /\ cmd.op = "window" /\ cmd.step = "none"
    /\ IF cmd.rest = {}
       THEN cmd' = Idle
       ELSE \E t \in cmd.rest : cmd' = [cmd EXCEPT !.token = t, !.step = "found", !.rest = @ \ {t}]
    /\ UNCHANGED <<shown, host, windows, views, records, sized, arc, threads, runs>>

Sizes == {sized} \cup
         (IF cmd.op = "send"
          THEN {[sized EXCEPT ![arc[cmd.token].daemon] = @ \cup {arc[cmd.token].view}]} ELSE {})

\* send_agent_backend_request over the control channel of the view's own reader; it
\* fails at once when nobody receives from the channel any more.
\* A local writer thread that met its helper client's end answers like the next write.
Listening(t) == remote => reader[t].stage # "done"
SendControl ==
    /\ cmd.step = "found" /\ arc[cmd.token].kind = "agent" /\ arc[cmd.token].control
    /\ sized' \in Sizes
    /\ IF Listening(cmd.token)
       THEN /\ reader' = [reader EXCEPT ![cmd.token].queued = TRUE]
            /\ cmd' = [cmd EXCEPT !.step = "wait"]
       ELSE /\ cmd' = [cmd EXCEPT !.step = "failed"]
            /\ UNCHANGED reader
    /\ UNCHANGED <<shown, host, windows, views, records, arc, wire, attached, left, strays, runs>>

\* run_local_go_agent_client, run_remote_go_agent_client: a helper client of one request;
\* its connection is not the one that is attached, and it may fail.  Over SSH it may ask
\* the user, whose answer is a command: the main thread then waits for itself.
OnceAnswers(d) == {"failed"} \cup (IF remote THEN {"asks"} ELSE {})
                              \cup (IF daemon[d] = "running" THEN {"ok"} ELSE {})

\* Fault: closing a window closes its views.
AsksToClose(op) == IF op \in {"close", "window"} THEN "close_view" ELSE op

Asks(op) == CASE op = "close" -> "close_view" [] op = "window" -> "detach" [] OTHER -> op

\* send_agent_backend_request without a channel.
SendOnce ==
    /\ cmd.step = "found" /\ arc[cmd.token].kind = "agent" /\ ~ arc[cmd.token].control
    /\ sized' \in Sizes
    /\ LET d == arc[cmd.token].daemon IN
       \E answer \in OnceAnswers(d) :
           /\ cmd' = [cmd EXCEPT !.step = answer]
           /\ IF answer = "ok" /\ Asks(cmd.op) = "close_view" /\ SubscribersOf(d) \cup LeftOf(d) = {}
              THEN EndRun(d, "exited")
              ELSE NotEnded
    /\ UNCHANGED <<shown, host, windows, views, records, arc, reader, strays, written>>

\* Views without a daemon: kill_terminal_session, or nothing to detach.  A shell's
\* worker that has ended cannot be told to close, and a local program perhaps not killed.
Local ==
    /\ cmd.step = "found" /\ arc[cmd.token].kind # "agent"
    /\ LET kind == arc[cmd.token].kind
           gone == reader[cmd.token].stage = "done" IN
       \/ ~ (cmd.op = "close" /\ kind = "shell" /\ gone) /\ cmd' = [cmd EXCEPT !.step = "ok"]
       \/ /\ cmd.op = "close" /\ (kind = "pty" \/ (kind = "shell" /\ gone))
          /\ cmd' = [cmd EXCEPT !.step = "failed"]
    /\ UNCHANGED <<shown, host, windows, views, records, sized, arc, threads, runs>>

\* The command ends.  Detach keeps a record before the view goes; a view of a closed
\* window goes whatever the answer was.
Ended == IF cmd.op = "window" THEN [cmd EXCEPT !.step = "none"] ELSE Idle
Finish ==
    /\ cmd.step \in {"ok", "failed"}
    /\ LET a == arc[cmd.token] IN
       /\ IF cmd.op = "window" \/ (cmd.op \in {"detach", "close"} /\ cmd.step = "ok")
          THEN Remove(a.view)
          ELSE UNCHANGED <<views, sized, shown>>
       /\ records' = IF cmd.op = "detach" /\ cmd.step = "ok"
                     THEN [records EXCEPT ![a.daemon] = a.view] ELSE records
    /\ cmd' = Ended
    /\ UNCHANGED <<host, windows, arc, threads, runs>>

\* delete_detached_terminal_session: by a live view of that id, by its record, or by the
\* registry alone; the helper client that deletes ends the run first, or fails.
Deleted(d) == EndRun(d, "deleted")
DeleteView(d) ==
    /\ cmd = Idle
    /\ d \in Listed /\ sessions[d] # None
    /\ \/ Deleted(d) /\ Remove(d)
       \/ NotEnded /\ UNCHANGED <<views, sized, shown>>
    /\ UNCHANGED <<host, windows, records, arc, reader, strays, written, cmd>>
\* delete_agent_session_from_record: the record is taken before the deletion can fail.
DeleteRecord(d) ==
    /\ cmd = Idle
    /\ d \in Listed /\ sessions[d] = None /\ records[d] # None
    /\ records' = [records EXCEPT ![d] = None]
    /\ Deleted(d) \/ NotEnded
    /\ UNCHANGED <<shown, host, windows, views, sized, arc, reader, strays, written, cmd>>
\* delete_registry_terminal_session.
DeleteRegistry(d) ==
    /\ cmd = Idle
    /\ d \in Listed /\ sessions[d] = None /\ records[d] = None
    /\ Deleted(d)
    /\ UNCHANGED <<shown, host, windows, views, records, sized, arc, reader, strays, written,
                   cmd>>

-----------------------------------------------------------------------------
(* The thread that carries requests to the helper client, and the daemon.  *)

\* Locally spawn_local_agent_control_writer, over SSH poll_remote_agent_control_requests
\* of the reader itself.  A local request is pending before it is written; writing to
\* a helper client that has ended fails it and ends the writer.
Carry(t) ==
    /\ reader[t].queued
    /\ reader[t].stage \notin {"subscribe", "asks"}
    /\ remote => reader[t].stage = "live" /\ reader[t].line = NoLine
    /\ IF reader[t].stage = "live"
       THEN /\ reader' = [reader EXCEPT ![t].queued = FALSE, ![t].request = "sent"]
            /\ UNCHANGED cmd
       ELSE /\ reader' = [reader EXCEPT ![t].queued = FALSE]
            /\ cmd' = [cmd EXCEPT !.step = "failed"]
    /\ UNCHANGED <<shown, host, windows, views, records, sized, arc, wire, attached, left, strays, runs>>

\* The daemon answers on the connection the request came from.
Answer(t) ==
    /\ reader[t].request = "sent" /\ t \in attached
    /\ reader' = [reader EXCEPT ![t].request = "none"]
    /\ LET d == arc[t].daemon
           op == Asks(cmd.op)
           last == op = "close_view" /\ SubscribersOf(d) \cup LeftOf(d) = {t}
       IN /\ attached' = IF op \in {"detach", "close_view"} THEN attached \ {t} ELSE attached
          /\ wire' = [wire EXCEPT ![t] = @ \o (IF op \in {"detach", "close_view"}
                                               THEN <<Response, End>> ELSE <<Response>>)]
          /\ daemon' = IF last THEN [daemon EXCEPT ![d] = "exited"] ELSE daemon
    /\ UNCHANGED <<shown, host, windows, views, records, sized, arc, left, strays, written, cmd>>

\* The program in the terminal prints, or ends.
Prints(d) ==
    /\ daemon[d] = "running" /\ written[d] < MaxOutput
    /\ written' = [written EXCEPT ![d] = @ + 1]
    /\ wire' = [t \in Token |-> IF t \in SubscribersOf(d)
                                THEN Append(wire[t], Output(written[d] + 1)) ELSE wire[t]]
    /\ UNCHANGED <<shown, host, windows, views, records, sized, arc, reader, attached, left, strays,
                   daemon, cmd>>
ProgramEnds(d) ==
    /\ daemon[d] = "running"
    /\ EndRun(d, "exited")
    /\ UNCHANGED <<shown, host, windows, views, records, sized, arc, reader, strays, written, cmd>>

-----------------------------------------------------------------------------
(* Reader threads.                                                         *)

\* spawn_*_history_then_reader and spawn_*_history_reader: one request for all history.
ReadHistory(t) ==
    /\ reader[t].stage = "history"
    /\ \/ /\ reader' = [reader EXCEPT ![t].stage = "replay",
                ![t].todo = [n \in 1..written[arc[t].daemon] |-> Output(n)]]
          /\ UNCHANGED <<host, windows, views, records, sized, shown, arc, wire, attached, left, strays,
                         runs, cmd>>
       \/ FailView(t)

\* After the last line of history the view becomes live if it is still open, or stays
\* a disconnected history view.  Over SSH the control channel is set only now.
HistoryShown(t) ==
    /\ reader[t].stage = "replay" /\ reader[t].todo = <<>> /\ reader[t].line = NoLine
    /\ IF reader[t].then = "end"
       THEN /\ arc' = Transport(arc[t].view, "ended")
            /\ reader' = [reader EXCEPT ![t].stage = "done"]
       ELSE /\ arc' = IF Current(t) /\ remote THEN [arc EXCEPT ![t].control = TRUE] ELSE arc
            /\ reader' = [reader EXCEPT ![t].then = "end", ![t].stage = IF Current(t) THEN "subscribe" ELSE "done"]
    /\ UNCHANGED <<shown, host, windows, views, records, sized, wire, attached, left, strays, runs, cmd>>

\* The helper client starts and subscribes; with no run to join its stream ends.
Subscribe(t) ==
    /\ reader[t].stage = "subscribe"
    /\ \/ /\ reader' = [reader EXCEPT ![t].stage = "live"]
          /\ arc' = Transport(arc[t].view, "connected")
          /\ IF daemon[arc[t].daemon] = "running"
             THEN attached' = attached \cup {t} /\ UNCHANGED wire
             ELSE wire' = [wire EXCEPT ![t] = <<End>>] /\ UNCHANGED attached
          /\ UNCHANGED <<host, windows, views, records, sized, shown, left, strays, runs, cmd>>
       \/ FailView(t)

\* The connection of a remote reader asks the user (connect_ssh_exec_session), who can answer
\* once the main thread takes a command.
Prompt(t) ==
    /\ remote /\ reader[t].stage = "subscribe"
    /\ reader' = [reader EXCEPT ![t].stage = "asks"]
    /\ UNCHANGED <<shown, host, windows, views, records, sized, arc, wire, attached, left, strays, runs, cmd>>
Reply(t) ==
    /\ cmd = Idle /\ reader[t].stage = "asks"
    /\ reader' = [reader EXCEPT ![t].stage = "subscribe"]
    /\ UNCHANGED <<shown, host, windows, views, records, sized, arc, wire, attached, left, strays, runs, cmd>>

\* A line is read.  The end of the stream is acted on before the token is compared.
Source(t) == IF reader[t].stage = "replay" THEN reader[t].todo ELSE wire[t]

\* Fault: the token is not compared.
ReadAnyLine(t) ==
    /\ reader[t].stage \in {"replay", "live"} /\ reader[t].line = NoLine
    /\ Source(t) # <<>>
    /\ Head(Source(t)) # End
    /\ reader' = [reader EXCEPT ![t].line = Head(Source(t)),
                ![t].todo = IF reader[t].stage = "replay" THEN Tail(@) ELSE @]
    /\ wire' = IF reader[t].stage = "live" THEN [wire EXCEPT ![t] = Tail(@)] ELSE wire
    /\ UNCHANGED <<shown, host, windows, views, records, sized, arc, attached, left, strays, runs, cmd>>

ReadLine(t) ==
    /\ reader[t].stage \in {"replay", "live"} /\ reader[t].line = NoLine
    /\ Source(t) # <<>>
    /\ Head(Source(t)) # End
    /\ IF Current(t)
       THEN /\ reader' = [reader EXCEPT ![t].line = Head(Source(t)),
                ![t].todo = IF reader[t].stage = "replay" THEN Tail(@) ELSE @]
            /\ wire' = IF reader[t].stage = "live" THEN [wire EXCEPT ![t] = Tail(@)] ELSE wire
            /\ UNCHANGED <<attached, left, cmd>>
       ELSE Stops(t) /\ DropRequests(t)
    /\ UNCHANGED <<shown, host, windows, views, records, sized, arc, strays, runs>>
StreamEnds(t) ==
    /\ reader[t].stage = "live" /\ reader[t].line = NoLine
    /\ wire[t] # <<>> /\ Head(wire[t]) = End
    /\ arc' = Transport(arc[t].view, "ended")
    /\ Stops(t)
    /\ DropRequests(t)
    /\ UNCHANGED <<shown, host, windows, views, records, sized, strays, runs>>

\* push_output_backlog pushes into the object the view's id names now.
Push(t) ==
    LET owner == sessions[arc[t].view] IN
    /\ shown' = IF owner = None THEN shown
                ELSE [shown EXCEPT ![owner] = Append(@, reader[t].line[2])]
    /\ strays' = IF owner \in {None, t} THEN strays ELSE [strays EXCEPT ![t] = @ + 1]

\* handle_go_agent_response_line, handle_go_agent_event_line.  The daemon may refuse to
\* write or to resize.
HandleOutput(t) ==
    /\ reader[t].line[1] = "output"
    /\ Push(t)
    /\ reader' = [reader EXCEPT ![t].line = NoLine]
    /\ UNCHANGED <<host, windows, views, records, sized, arc, wire, attached, left, runs, cmd>>
HandleResponse(t) ==
    /\ reader[t].line = Response
    /\ reader' = [reader EXCEPT ![t].line = NoLine]
    /\ \E answer \in IF cmd.op = "send" THEN {"ok", "failed"} ELSE {"ok"} :
         cmd' = IF Waits(t) THEN [cmd EXCEPT !.step = answer] ELSE cmd
    /\ UNCHANGED <<shown, host, windows, views, records, sized, arc, wire, attached, left, strays, runs>>
HandleExit(t) ==
    /\ reader[t].line = Exit
    /\ arc' = Transport(arc[t].view, "ended")
    /\ Remove(arc[t].view)
    /\ Stops(t)
    /\ DropRequests(t)
    /\ UNCHANGED <<host, windows, records, runs, strays>>

\* Reading fails, or over SSH a line is torn by WouldBlock and does not parse.
ReadFails(t) ==
    /\ reader[t].stage = "live" /\ reader[t].line = NoLine
    /\ FailView(t)

\* The helper client of a remote reader that has ended (ProxySessionRequestWithInput) goes on
\* until it writes to the channel that is gone, which a quiet run never makes it do.
ClientEnds(t) ==
    /\ t \in left
    /\ left' = left \ {t}
    /\ UNCHANGED <<shown, host, windows, views, records, sized, arc, reader, wire, attached, strays,
                   runs, cmd>>

\* spawn_terminal_waiter: the program of a local terminal ended, or was killed.
WaiterEnds(t) ==
    /\ reader[t].stage = "plain" /\ arc[t].kind = "pty"
    /\ Remove(arc[t].view)
    /\ Stops(t)
    /\ UNCHANGED <<host, windows, records, arc, runs, strays, cmd>>

\* spawn_ssh_worker: the connection failed or ended, or the view was closed.
WorkerEnds(t) ==
    /\ reader[t].stage = "plain" /\ arc[t].kind = "shell"
    /\ arc' = Transport(arc[t].view, "ended")
    /\ Remove(arc[t].view)
    /\ Stops(t)
    /\ UNCHANGED <<host, windows, records, runs, strays, cmd>>

-----------------------------------------------------------------------------
MakeView ==
    \E w \in windows, t \in FreshTokens :
        \/ \E v \in FreshIds :
            \/ CreateLocalAgent(w, v, t) \/ CreateSshAgent(w, v, t)
            \/ CreatePty(w, v, t) \/ CreateShell(w, v, t)
            \/ \E d \in Id : AttachRegistry(d, w, v, t) \/ OpenHistory(d, w, v, t)
        \/ \E d \in Id : AttachRecord(d, w, t)
MainThread ==
    \/ MakeView
    \/ \E v \in Id, w \in windows : Transfer(v, w)
    \/ \E v \in Id, op \in Ops \ {"window"} : Command(op, v)
    \/ \E w \in Window : CloseWindow(w)
    \/ NextOfWindow \/ SendControl \/ SendOnce \/ Local \/ Finish
    \/ \E d \in Id : DeleteView(d) \/ DeleteRecord(d) \/ DeleteRegistry(d)
Reads(t) ==
    \/ ReadHistory(t) \/ HistoryShown(t) \/ Subscribe(t) \/ Prompt(t) \/ Reply(t)
    \/ ReadLine(t) \/ StreamEnds(t) \/ ClientEnds(t)
    \/ HandleOutput(t) \/ HandleResponse(t) \/ HandleExit(t)
Next ==
    \/ MainThread
    \/ \E t \in Token : Reads(t) \/ ReadFails(t) \/ WaiterEnds(t) \/ WorkerEnds(t) \/ Carry(t) \/ Answer(t)
    \/ \E d \in Id : Prints(d) \/ ProgramEnds(d)

Spec == Init /\ [][Next]_vars

-----------------------------------------------------------------------------
(* What holds.                                                             *)

\* A detached session's record (detached_sessions) is about a view that is not open:
\* attaching takes it, and nothing makes a second view of it (attach_detached).
RecordsAreClosedViews == \A d \in Id : records[d] # None => sessions[records[d]] = None

\* A reader that reached its view through the token check may push one line into the
\* object that took the view's id since; the next line it reads ends it.
StrayAtMostOnce == \A t \in Token : strays[t] <= 1

\* History, then live output: what a view shows (push_output_backlog) grows, and
\* nothing is shown twice, unless such a stray line came in.
ShownInOrder ==
    (\A t \in Token : strays[t] = 0) =>
        \A t \in Token : \A i, j \in DOMAIN shown[t] :
            i < j => shown[t][i] < shown[t][j]

\* What a view shows is what its daemon put out.
OutputIsFaithful == StrayAtMostOnce /\ ShownInOrder

\* When a window is gone so are its views, whatever the daemons answered
\* (close_terminal_sessions_for_window).
ViewsBelongToOpenWindows ==
    cmd.op # "window" =>
        \A v \in Id : sessions[v] # None => placed[v] \in windows

\* A view that a command closed no longer limits the size of the daemon's terminal;
\* one whose reader ended it may, when a resize was under way (record_agent_view_size).
ClosedViewsHaveNoSize ==
    \A d \in Id : \A v \in sized[d] :
        sessions[v] = None => \E t \in Token : arc[t].view = v /\ arc[t].transport # "connected"

\* Views, windows, records and sizes fit together.
ViewsAreKept ==
    TypeOK /\ RecordsAreClosedViews /\ ViewsBelongToOpenWindows /\ ClosedViewsHaveNoSize

\* Closing the last view ends the run, when the view asks over its own connection and no
\* helper client of an ended remote reader is still counted (close_agent_terminal_view,
\* docs/terminal-daemon.md, "if none are still reachable, it closes the PTY/run").
ClosesAlone == cmd.op = "close" /\ cmd.step = "ok" /\ cmd.alone /\ arc[cmd.token].kind = "agent"
CloseOverControlEndsRun ==
    ClosesAlone /\ arc[cmd.token].control => daemon[arc[cmd.token].daemon] # "running"

\* Detaching a view, closing a window, writing and resizing never end a run: when a
\* daemon ends it while it answers, a view was closed.
OnlyCloseEndsRuns ==
    [][(\E d \in Id : daemon[d] = "running" /\ daemon'[d] = "exited")
          /\ <<reader, cmd>>' # <<reader, cmd>> => cmd.op = "close"]_vars

\* A run ends by the close of its last client, and by nothing else that a view does.
RunsEndByClose == []CloseOverControlEndsRun /\ OnlyCloseEndsRuns

\* While the main thread waits, the answer or the end of its stream is on the way, or the
\* app stands still (send_local_agent_control_request).  The two ways it does: the local
\* reader that should bring the answer has ended with the request pending, and the thread
\* that writes requests keeps the sender; or the remote reader that should take the request
\* is still connecting and asks the user.  Over SSH the pending requests go with their reader,
\* which fails them.
Stuck == \/ /\ ~ remote
            /\ reader[cmd.token].stage = "done" /\ ~ reader[cmd.token].queued
         \/ remote /\ reader[cmd.token].stage = "asks"
OnTheWay(t) ==
    \/ reader[t].queued /\ (remote => reader[t].stage \in {"subscribe", "live"})
    \/ /\ reader[t].stage = "live"
       /\ \/ reader[t].request = "sent" /\ t \in attached
          \/ reader[t].line \in {Response, Exit}
          \/ \E i \in DOMAIN wire[t] : wire[t][i] \in {Response, Exit, End}
AnswerIsOnTheWay == cmd.step = "wait" => OnTheWay(cmd.token) \/ Stuck

=============================================================================
