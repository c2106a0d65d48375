---------------------------- MODULE DaemonClients ----------------------------
(***************************************************************************)
(* The connections of one terminal daemon (tools/nocturne-terminal-agent,   *)
(* daemon.go): for each of them the goroutine that reads requests, the one  *)
(* that writes events from a bounded queue and the one that watches the     *)
(* heartbeat; the PTY reader that broadcasts output, and the exit waiter.   *)
(*                                                                         *)
(* A critical section of clientsMu is one action that needs it free.  Only  *)
(* close_view holds it over several steps: it writes to the connections     *)
(* under it, and a write waits until the peer reads or the connection is    *)
(* closed.  client.mu only orders the lines of one connection, so a write   *)
(* is one action, and it happens when it can.                               *)
(***************************************************************************)
EXTENDS Integers, Sequences, FiniteSets

CONSTANTS Conns,          \* connections, each with a helper client at its other end
          NoConn,
          MaxBroadcasts,  \* bound on the output events
          QueueLimit,     \* what client.send holds, with the event being written
          PipeLimit       \* what a connection holds while its peer does not read

ASSUME ClientsAssumption ==
    /\ NoConn \notin Conns
    /\ MaxBroadcasts \in Nat
    /\ QueueLimit \in Nat \ {0}
    /\ PipeLimit \in Nat \ {0}

VARIABLES conn,        \* the connection
          peer,        \* the helper client: whether it still sends and reads
          pipe,        \* lines its peer has not read
          clients,     \* state.clients
          queue,       \* client.send
          sendClosed,  \* client.send is closed
          got,         \* the events written to the connection
          reader,      \* handleConn
          reply,       \* the latest request that attaches or leaves
          watch,       \* monitorClientHeartbeat
          clientsMu,   \* whose close_view holds clientsMu
          todo,        \* the clients it has still to ping
          target,      \* the client it is writing to
          reachable,   \* how many it has reached
          broadcasts,  \* events broadcast so far
          daemonPhase, \* the daemon and its run
          closingRun   \* process.Close has been called

connVars == <<conn, peer, pipe>>
sendVars == <<queue, sendClosed, got>>
pingVars == <<clientsMu, todo, target, reachable>>
runVars  == <<broadcasts, daemonPhase, closingRun>>
clientsVars == <<connVars, clients, sendVars, reader, reply, watch, pingVars, runVars>>

Leaving  == {"detach", "close_view"}
Requests == {"attach", "ping", "close_run"} \cup Leaving

ClientsTypeOK ==
    /\ conn \in [Conns -> {"none", "open", "closed"}]
    /\ peer \in [Conns -> {"live", "silent"}]
    /\ pipe \in [Conns -> 0..PipeLimit]
    /\ clients \subseteq Conns
    /\ queue \in [Conns -> Seq(Nat)]
    /\ sendClosed \in [Conns -> BOOLEAN]
    /\ got \in [Conns -> Seq(Nat)]
    /\ reader \in [Conns -> {"none", "scan", "add", "leave", "lock", "respond", "done"}]
    /\ reply \in [Conns -> {"none", "attach"} \cup Leaving]
    /\ watch \in [Conns -> {"watch", "close", "done"}]
    /\ clientsMu \in Conns \cup {NoConn}
    /\ todo \subseteq Conns
    /\ target \in Conns \cup {NoConn}
    /\ reachable \in Nat
    /\ broadcasts \in Nat
    /\ daemonPhase \in {"up", "exit", "finished", "panic"}
    /\ closingRun \in BOOLEAN

ClientsInit ==
    /\ conn = [c \in Conns |-> "none"]
    /\ peer = [c \in Conns |-> "live"]
    /\ pipe = [c \in Conns |-> 0]
    /\ clients = {}
    /\ queue = [c \in Conns |-> <<>>]
    /\ sendClosed = [c \in Conns |-> FALSE]
    /\ got = [c \in Conns |-> <<>>]
    /\ reader = [c \in Conns |-> "none"]
    /\ reply = [c \in Conns |-> "none"]
    /\ watch = [c \in Conns |-> "watch"]
    /\ clientsMu = NoConn /\ todo = {} /\ target = NoConn /\ reachable = 0
    /\ broadcasts = 0 /\ daemonPhase = "up" /\ closingRun = FALSE

DaemonRuns == daemonPhase # "panic"
Unlocked   == clientsMu = NoConn

Read(c, s) == reader' = [reader EXCEPT ![c] = s]

\* A write to c returns: with the line in the connection, or with an error.
CanWrite(c)   == conn[c] = "open" /\ pipe[c] < PipeLimit
WriteFails(c) == conn[c] = "closed"

\* client.attached.
Attached(c) == reply[c] = "attach"

PutLine(c) == pipe' = [pipe EXCEPT ![c] = @ + 1]

-----------------------------------------------------------------------------
(* handleConn and handleRequest.                                            *)

Connect(c) ==
    /\ daemonPhase \in {"up", "exit"} /\ conn[c] = "none" /\ reader[c] = "none"
    /\ conn' = [conn EXCEPT ![c] = "open"]
    /\ Read(c, "scan")
    /\ UNCHANGED <<peer, pipe, clients, sendVars, reply, watch, pingVars, runVars>>

\* A helper attaches with its first request.  markAttached and markDetached come before
\* the lock.
Request(c, name) ==
    /\ DaemonRuns /\ reader[c] = "scan" /\ peer[c] = "live" /\ conn[c] = "open"
    /\ name = "attach" => reply[c] = "none"
    /\ reply' = [reply EXCEPT ![c] = IF name \in Leaving \cup {"attach"} THEN name ELSE @]
    /\ closingRun' = (closingRun \/ name = "close_run")
    /\ Read(c, IF name = "attach" THEN "add" ELSE IF name \in Leaving THEN "leave" ELSE "respond")
    /\ UNCHANGED <<connVars, clients, sendVars, watch, pingVars, broadcasts, daemonPhase>>

\* addClient.
Add(c) ==
    /\ DaemonRuns /\ reader[c] = "add" /\ Unlocked
    /\ clients' = clients \cup {c}
    /\ Read(c, "respond")
    /\ UNCHANGED <<connVars, sendVars, reply, watch, pingVars, runVars>>

\* detachClient; close_view goes on to the pings.
Leave(c) ==
    /\ DaemonRuns /\ reader[c] = "leave" /\ Unlocked
    /\ clients' = clients \ {c}
    /\ Read(c, IF reply[c] = "close_view" THEN "lock" ELSE "respond")
    /\ UNCHANGED <<connVars, sendVars, reply, watch, pingVars, runVars>>

\* writeResponse; whoever leaves is disconnected.
Respond(c) ==
    /\ DaemonRuns /\ reader[c] = "respond"
    /\ \/ CanWrite(c) /\ PutLine(c)
       \/ WriteFails(c) /\ UNCHANGED pipe
    /\ conn' = [conn EXCEPT ![c] = IF reply[c] \in Leaving THEN "closed" ELSE @]
    /\ Read(c, "scan")
    /\ UNCHANGED <<peer, clients, sendVars, reply, watch, pingVars, runVars>>

\* Fault: the client stays in the set.
ClosedOnly(c) == clients

\* The clients after closeClient.
Without(c) == clients \ {c}

CloseClient(c) ==
    /\ Unlocked
    /\ clients' = Without(c)
    /\ sendClosed' = [sendClosed EXCEPT ![c] = TRUE]

\* The scan ends with the connection.
ReaderEnds(c) ==
    /\ DaemonRuns /\ reader[c] = "scan" /\ conn[c] = "closed"
    /\ CloseClient(c)
    /\ Read(c, "done")
    /\ UNCHANGED <<connVars, queue, got, reply, watch, pingVars, runVars>>

-----------------------------------------------------------------------------
(* close_view: pingAttachedClientsAndCountReachable and closeRun.           *)

PingBegin(c) ==
    /\ DaemonRuns /\ reader[c] = "lock" /\ Unlocked
    /\ clientsMu' = c /\ todo' = clients /\ reachable' = 0
    /\ UNCHANGED <<connVars, clients, sendVars, reader, reply, watch, target, runVars>>

\* One that has asked to leave is dropped; the others are written to.
PingNext(x) ==
    /\ DaemonRuns /\ ~Unlocked /\ target = NoConn /\ x \in todo
    /\ todo' = todo \ {x}
    /\ \/ ~Attached(x) /\ clients' = clients \ {x} /\ UNCHANGED target
       \/ Attached(x) /\ target' = x /\ UNCHANGED clients
    /\ UNCHANGED <<connVars, sendVars, reader, reply, watch, clientsMu, reachable,
                   runVars>>

\* A client that cannot be written to is dropped and closed.
PingWrite ==
    /\ DaemonRuns /\ target # NoConn
    /\ \/ /\ CanWrite(target)
          /\ PutLine(target)
          /\ reachable' = reachable + 1
          /\ UNCHANGED <<clients, sendClosed>>
       \/ /\ WriteFails(target)
          /\ clients' = clients \ {target}
          /\ sendClosed' = [sendClosed EXCEPT ![target] = TRUE]
          /\ UNCHANGED <<pipe, reachable>>
    /\ target' = NoConn
    /\ UNCHANGED <<conn, peer, queue, got, reader, reply, watch, clientsMu, todo,
                   runVars>>

\* Fault: the count is thought to hold the view that closes.
OnlyOneReachable == reachable = 1

Unreachable == reachable = 0

PingEnd ==
    /\ DaemonRuns /\ ~Unlocked /\ target = NoConn /\ todo = {}
    /\ clientsMu' = NoConn
    /\ reachable' = 0
    /\ closingRun' = (closingRun \/ Unreachable)
    /\ Read(clientsMu, "respond")
    /\ UNCHANGED <<connVars, clients, sendVars, reply, watch, todo, target, broadcasts, daemonPhase>>

-----------------------------------------------------------------------------
(* writeEvents.                                                             *)

EventWrite(c) ==
    /\ DaemonRuns /\ queue[c] # <<>>
    /\ \/ CanWrite(c) /\ PutLine(c) /\ got' = [got EXCEPT ![c] = Append(@, Head(queue[c]))]
       \/ WriteFails(c) /\ UNCHANGED <<pipe, got>>
    /\ queue' = [queue EXCEPT ![c] = Tail(@)]
    /\ UNCHANGED <<conn, peer, clients, sendClosed, reader, reply, watch, pingVars,
                   runVars>>

\* The connection is closed once the queue is closed and empty.
WriterEnds(c) ==
    /\ DaemonRuns /\ queue[c] = <<>> /\ sendClosed[c] /\ conn[c] = "open"
    /\ conn' = [conn EXCEPT ![c] = "closed"]
    /\ UNCHANGED <<peer, pipe, clients, sendVars, reader, reply, watch, pingVars,
                   runVars>>

-----------------------------------------------------------------------------
(* monitorClientHeartbeat: no request of an attached client has been read    *)
(* for 90 seconds.  closeClient closes the connection, then takes the lock.  *)

\* Fault: the connection is closed under the lock.
ClosesUnderLock == Unlocked

ClosesFirst == TRUE

\* The heartbeat of c can end its connection now.
Expires(c) ==
    /\ watch[c] = "watch" /\ Attached(c) /\ conn[c] = "open"
    /\ peer[c] = "silent" \/ reader[c] # "scan"
    /\ ClosesFirst

Timeout(c) ==
    /\ DaemonRuns /\ Expires(c)
    /\ conn' = [conn EXCEPT ![c] = "closed"]
    /\ watch' = [watch EXCEPT ![c] = "close"]
    /\ UNCHANGED <<peer, pipe, clients, sendVars, reader, reply, pingVars, runVars>>

\* The mutex is given to who has waited longest: addClient began to wait when the 90
\* seconds did.
TimeoutClose(c) ==
    /\ DaemonRuns /\ watch[c] = "close" /\ reader[c] # "add"
    /\ CloseClient(c)
    /\ watch' = [watch EXCEPT ![c] = "done"]
    /\ UNCHANGED <<connVars, queue, got, reader, reply, pingVars, runVars>>

-----------------------------------------------------------------------------
(* broadcast, and the end of the run.                                       *)

Full(c) == Len(queue[c]) >= QueueLimit

\* Fault: a client whose queue is full only misses the event.
MissesEvent == {}

\* The clients that broadcast drops.
Dropped == { c \in clients : Full(c) }

\* A send on a closed channel ends the program.
Panics == \E c \in clients : sendClosed[c]

Broadcast(next) ==
    /\ Unlocked
    /\ broadcasts' = broadcasts + 1
    /\ IF Panics
       THEN daemonPhase' = "panic" /\ UNCHANGED <<queue, clients, conn, sendClosed>>
       ELSE /\ queue' = [c \in Conns |-> IF c \in clients /\ ~Full(c)
                                         THEN Append(queue[c], broadcasts + 1) ELSE queue[c]]
            /\ clients' = clients \ Dropped
            /\ conn' = [c \in Conns |-> IF c \in Dropped THEN "closed" ELSE conn[c]]
            /\ sendClosed' = [c \in Conns |-> sendClosed[c] \/ c \in Dropped]
            /\ daemonPhase' = next
    /\ UNCHANGED <<peer, pipe, got, reader, reply, watch, pingVars, closingRun>>

Output == DaemonRuns /\ broadcasts < MaxBroadcasts /\ Broadcast(daemonPhase)

\* waitForExit: the exit event, then finishClientsAfterExit.  The listener is closed;
\* the program returns at some point after it, and nothing is required of what is left to do.
ExitEvent == daemonPhase = "up" /\ Broadcast("exit")

FinishClients ==
    /\ daemonPhase = "exit" /\ Unlocked
    /\ clients' = {}
    /\ sendClosed' = [c \in Conns |-> sendClosed[c] \/ c \in clients]
    /\ daemonPhase' = "finished"
    /\ UNCHANGED <<connVars, queue, got, reader, reply, watch, pingVars, broadcasts, closingRun>>

-----------------------------------------------------------------------------
(* The peers: helper clients that read, stop reading, or go away.           *)

\* The peer of c has a line to read, and reads.
CanRead(c) == peer[c] = "live" /\ pipe[c] > 0

PeerReads(c) ==
    /\ DaemonRuns /\ CanRead(c)
    /\ pipe' = [pipe EXCEPT ![c] = @ - 1]
    /\ UNCHANGED <<conn, peer, clients, sendVars, reader, reply, watch, pingVars,
                   runVars>>

PeerStops(c) ==
    /\ DaemonRuns /\ conn[c] = "open" /\ peer[c] = "live"
    /\ peer' = [peer EXCEPT ![c] = "silent"]
    /\ UNCHANGED <<conn, pipe, clients, sendVars, reader, reply, watch, pingVars,
                   runVars>>

PeerCloses(c) ==
    /\ DaemonRuns /\ conn[c] = "open"
    /\ conn' = [conn EXCEPT ![c] = "closed"]
    /\ UNCHANGED <<peer, pipe, clients, sendVars, reader, reply, watch, pingVars,
                   runVars>>

-----------------------------------------------------------------------------

ClientsNext ==
    \/ \E c \in Conns :
         \/ Connect(c)
         \/ \E name \in Requests : Request(c, name)
         \/ Add(c) \/ Leave(c) \/ Respond(c) \/ ReaderEnds(c)
         \/ PingBegin(c) \/ PingNext(c)
         \/ EventWrite(c) \/ WriterEnds(c) \/ Timeout(c) \/ TimeoutClose(c)
         \/ PeerReads(c) \/ PeerStops(c) \/ PeerCloses(c)
    \/ PingWrite \/ PingEnd
    \/ Output \/ ExitEvent \/ FinishClients

ClientsSpec == ClientsInit /\ [][ClientsNext]_clientsVars

-----------------------------------------------------------------------------
(* Safety.                                                                  *)

Contiguous(s) == \A i \in 1..Len(s) - 1 : s[i + 1] = s[i] + 1

\* What a connection receives is a run of the events without a gap, and a client that is
\* still served has missed none since its first: one that is too slow is dropped, never
\* skipped (broadcast, closeSend, writeEvents).
StreamHasNoGap ==
    \A c \in Conns :
      /\ Contiguous(got[c])
      /\ c \in clients /\ conn[c] = "open" =>
           LET stream == got[c] \o queue[c] IN
           Contiguous(stream) /\ (stream # <<>> => stream[Len(stream)] = broadcasts)

\* Queues, connections and the set of clients fit together (addClient, broadcast).
StreamsAreWhole == ClientsTypeOK /\ StreamHasNoGap

\* Nothing is ever sent on the closed channel of a client: whoever closes it has taken the
\* client out of the set, and it does not come back (closeClient, addClient, broadcast).
NoPanic == daemonPhase # "panic"

ViewClosed(c) == reply[c] = "close_view" /\ reader[c] \in {"respond", "scan", "done"}

\* When all who attached have left by close_view, one of them has closed the run, also
\* when they leave at once and ping each other (closeView).
LastViewClosesRun ==
    (\E c \in Conns : ViewClosed(c)) /\ (\A c \in Conns : reply[c] = "none" \/ ViewClosed(c))
        => closingRun

\* close_view does not keep clientsMu, and with it the whole daemon, because of a peer
\* that no longer reads: while it waits to write, the peer reads, or the heartbeat of the
\* peer can end the write without the lock (closeClient).  Only a peer that has itself
\* asked to leave has no heartbeat any more.
LockHolderGoesOn ==
    DaemonRuns /\ target # NoConn =>
        \/ CanWrite(target) \/ WriteFails(target)
        \/ CanRead(target) \/ Expires(target)
        \/ reply[target] \in Leaving /\ peer[target] = "silent"
=============================================================================
