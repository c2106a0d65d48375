-------------------------- MODULE SessionRegistry --------------------------
(***************************************************************************)
(* The files of one persistent terminal session, <id>.toml and <id>.ndjson, *)
(* and everyone who reads and writes them (tools/nocturne-terminal-agent):  *)
(* the daemon that owns the session (daemon.go), the goroutine that waits   *)
(* for its process, the goroutines that serve `rename', and the helper       *)
(* commands `client rename' and `client delete' (client.go, registry.go).   *)
(*                                                                         *)
(* The registry is replaced atomically, but every update is a read, a       *)
(* change and a write with no lock between processes or goroutines, so each *)
(* updater has a copy of its own.  The other file, as its lines go, is      *)
(* Transcript; the theorems about both are in DaemonProofs.                *)
(***************************************************************************)
EXTENDS FiniteSets

CONSTANTS Renamers,           \* rename requests; each one asks for a title of its own
          Deleters,           \* runs of `client delete'
          DeleteDuringStart   \* whether a delete may come before the daemon listens

ASSUME RegistryAssumption ==
    /\ DeleteDuringStart \in BOOLEAN
    /\ "waiter" \notin Renamers

VARIABLES registry,     \* <id>.toml
          transcript,   \* <id>.ndjson is there
          stage,        \* how far the daemon process is
          process,      \* the process in the PTY
          closing,      \* process.Close has been called
          copy,         \* the registry each updater has read
          pc,           \* updaters: rename requests and the exit waiter
          del           \* delete commands

registryVars == <<registry, transcript, stage, process, closing, copy, pc, del>>

Updaters == Renamers \cup {"waiter"}
Titles   == Renamers \cup {"launch"}
Registry == [there : BOOLEAN, title : Titles, exit : BOOLEAN]
NoFile   == [there |-> FALSE, title |-> "launch", exit |-> FALSE]

Starting == {"none", "registered", "opened", "spawned"}

RegistryTypeOK ==
    /\ registry \in Registry
    /\ transcript \in BOOLEAN
    /\ stage \in Starting \cup {"listening", "gone"}
    /\ process \in {"none", "running", "ended"}
    /\ closing \in BOOLEAN
    /\ copy \in [Updaters -> Registry]
    /\ pc \in [Updaters -> {"idle", "daemon", "helper", "daemonWrite", "helperWrite",
                            "done", "failed"}]
    /\ del \in [Deleters -> {"idle", "close", "wait", "files", "transcript", "registry",
                             "done", "failed"}]

RegistryInit ==
    /\ registry = NoFile
    /\ transcript = FALSE
    /\ stage = "none"
    /\ process = "none"
    /\ closing = FALSE
    /\ copy = [u \in Updaters |-> NoFile]
    /\ pc = [u \in Updaters |-> "idle"]
    /\ del = [d \in Deleters |-> "idle"]

-----------------------------------------------------------------------------
(* The daemon: runDaemonWithStarter and waitForExit.                        *)

CreateInitialRegistry ==
    /\ stage = "none"
    /\ registry' = [there |-> TRUE, title |-> "launch", exit |-> FALSE]
    /\ stage' = "registered"
    /\ UNCHANGED <<transcript, process, closing, copy, pc, del>>

OpenTranscript ==
    /\ stage = "registered"
    /\ transcript' = TRUE
    /\ stage' = "opened"
    /\ UNCHANGED <<registry, process, closing, copy, pc, del>>

StartProcess ==
    /\ stage = "opened"
    /\ process' = "running"
    /\ stage' = "spawned"
    /\ UNCHANGED <<registry, transcript, closing, copy, pc, del>>

Listen ==
    /\ stage = "spawned"
    /\ stage' = "listening"
    /\ UNCHANGED <<registry, transcript, process, closing, copy, pc, del>>

\* The shell ends by itself, or by the kill of process.Close.
ProcessEnds ==
    /\ process = "running"
    /\ process' = "ended"
    /\ UNCHANGED <<registry, transcript, stage, closing, copy, pc, del>>

\* Fault: the exit is written when the close is asked for.
HasEndedOrCloses == process = "ended" \/ closing

\* process.Wait returns.
HasEnded == process = "ended"

\* waitForExit reaches MarkRegistryExited; without a registry it goes on.
ReadForExit ==
    /\ stage = "listening"
    /\ HasEnded
    /\ pc["waiter"] = "idle"
    /\ IF registry.there
       THEN /\ copy' = [copy EXCEPT !["waiter"] = registry]
            /\ pc' = [pc EXCEPT !["waiter"] = "daemonWrite"]
       ELSE /\ pc' = [pc EXCEPT !["waiter"] = "failed"]
            /\ UNCHANGED copy
    /\ UNCHANGED <<registry, transcript, stage, process, closing, del>>

\* writeRegistryAtomic of the exited registry, which may fail before or after the
\* replacement of the file.
WriteExit ==
    /\ stage = "listening"
    /\ pc["waiter"] = "daemonWrite"
    /\ \/ /\ registry' = [copy["waiter"] EXCEPT !.exit = TRUE]
          /\ pc' = [pc EXCEPT !["waiter"] = "done"]
       \/ /\ pc' = [pc EXCEPT !["waiter"] = "failed"]
          /\ UNCHANGED registry
    /\ UNCHANGED <<transcript, stage, process, closing, copy, del>>

\* Closing the PTY's master hangs up on the process.
ProcessAfter == IF process = "running" THEN "ended" ELSE process

\* What ends with the daemon: the process, and the renames it was serving.
DaemonGone ==
    /\ stage' = "gone"
    /\ process' = ProcessAfter
    /\ pc' = [u \in Updaters |-> IF pc[u] \in {"daemon", "daemonWrite"}
                                 THEN "failed" ELSE pc[u]]
    /\ UNCHANGED <<registry, transcript, closing, copy, del>>

\* The rest of waitForExit closes the listener, and the program returns.
DaemonReturns == stage = "listening" /\ pc["waiter"] \in {"done", "failed"} /\ DaemonGone

\* A start that fails, a killed daemon, or the end of the host.
DaemonDies == stage \notin {"none", "gone"} /\ DaemonGone

-----------------------------------------------------------------------------
(* rename: the helper command looks at the registry and hands the request to *)
(* the daemon of a live session; for an exited one it updates the file.      *)

RenameBegin(r) ==
    /\ pc[r] = "idle"
    /\ registry.there
    /\ pc' = [pc EXCEPT ![r] = IF registry.exit THEN "helper"
                               ELSE IF stage = "listening" THEN "daemon" ELSE "failed"]
    /\ UNCHANGED <<registry, transcript, stage, process, closing, copy, del>>

\* RenameRegistrySession, in the daemon or in the helper.
RenameRead(r) ==
    /\ pc[r] \in {"daemon", "helper"}
    /\ IF registry.there
       THEN /\ copy' = [copy EXCEPT ![r] = registry]
            /\ pc' = [pc EXCEPT ![r] = IF @ = "daemon" THEN "daemonWrite" ELSE "helperWrite"]
       ELSE /\ pc' = [pc EXCEPT ![r] = "failed"]
            /\ UNCHANGED copy
    /\ UNCHANGED <<registry, transcript, stage, process, closing, del>>

RenameWrite(r) ==
    /\ pc[r] \in {"daemonWrite", "helperWrite"}
    /\ \/ /\ registry' = [copy[r] EXCEPT !.title = r]
          /\ pc' = [pc EXCEPT ![r] = "done"]
       \/ /\ pc' = [pc EXCEPT ![r] = "failed"]
          /\ UNCHANGED registry
    /\ UNCHANGED <<transcript, stage, process, closing, copy, del>>

-----------------------------------------------------------------------------
(* client delete: DeleteSession.                                            *)

Step(d, l) == del' = [del EXCEPT ![d] = l]

DeleteBegin(d) ==
    /\ del[d] = "idle"
    /\ stage # "none"
    /\ stage \in Starting => DeleteDuringStart
    /\ Step(d, IF ~registry.there THEN "failed"
               ELSE IF registry.exit THEN "files" ELSE "close")
    /\ UNCHANGED <<registry, transcript, stage, process, closing, copy, pc>>

\* isEndpointGoneError: no such socket, or nobody listens to it.  A registry file that
\* is missing by now is "no such file" as well.
EndpointGone == stage # "listening" \/ ~registry.there

\* close_run.  The request goes to a daemon that listens; an exited session needs
\* none; a connection that fails for another reason ends the command.
DeleteClose(d) ==
    /\ del[d] = "close"
    /\ \/ /\ registry.there /\ registry.exit
          /\ Step(d, "wait")
          /\ UNCHANGED closing
       \/ /\ registry.there /\ ~registry.exit
          /\ stage = "listening"
          /\ closing' = TRUE
          /\ Step(d, "wait")
       \/ /\ Step(d, IF EndpointGone THEN "files" ELSE "failed")
          /\ UNCHANGED closing
    /\ UNCHANGED <<registry, transcript, stage, process, copy, pc>>

\* waitForRegistryExit, which gives up after its deadline.
DeleteWait(d) ==
    /\ del[d] = "wait"
    /\ Step(d, "failed") \/ (registry.there /\ registry.exit /\ Step(d, "files"))
    /\ UNCHANGED <<registry, transcript, stage, process, closing, copy, pc>>

\* DeleteSessionFiles: reads the registry, removes the transcript, then the registry,
\* and syncs the directory.  A failure starts over, until the deadline.
DeleteRead(d) ==
    /\ del[d] = "files"
    /\ Step(d, IF registry.there THEN "transcript" ELSE "failed")
    /\ UNCHANGED <<registry, transcript, stage, process, closing, copy, pc>>

\* Fault: the registry is removed first.
RemoveRegistryFirst(d) ==
    \/ /\ del[d] = "transcript" /\ registry.there
       /\ registry' = NoFile /\ Step(d, "registry") /\ UNCHANGED transcript
    \/ /\ del[d] = "registry"
       /\ transcript' = FALSE /\ Step(d, "done") /\ UNCHANGED registry

RemoveFiles(d) ==
    \/ /\ del[d] = "transcript"
       /\ transcript' = FALSE /\ Step(d, "registry") /\ UNCHANGED registry
    \/ /\ del[d] = "registry" /\ registry.there
       /\ registry' = NoFile /\ UNCHANGED transcript
       /\ Step(d, "done") \/ Step(d, "files")

DeleteRemove(d) ==
    /\ RemoveFiles(d)
    /\ UNCHANGED <<stage, process, closing, copy, pc>>

\* A removal fails, and the command tries again or gives up; or it is killed.
DeleteFails(d) ==
    /\ del[d] \notin {"idle", "done", "failed"}
    /\ \/ Step(d, "failed")
       \/ del[d] \in {"transcript", "registry"} /\ Step(d, "files")
    /\ UNCHANGED <<registry, transcript, stage, process, closing, copy, pc>>

-----------------------------------------------------------------------------

DaemonNext ==
    \/ CreateInitialRegistry \/ OpenTranscript \/ StartProcess \/ Listen
    \/ ProcessEnds \/ ReadForExit \/ WriteExit \/ DaemonReturns \/ DaemonDies

RenameNext(r) == RenameBegin(r) \/ RenameRead(r) \/ RenameWrite(r)

DeleteNext(d) ==
    \/ DeleteBegin(d) \/ DeleteClose(d) \/ DeleteWait(d) \/ DeleteRead(d)
    \/ DeleteRemove(d) \/ DeleteFails(d)

RegistryNext ==
    \/ DaemonNext
    \/ \E r \in Renamers : RenameNext(r)
    \/ \E d \in Deleters : DeleteNext(d)

RegistrySpec == RegistryInit /\ [][RegistryNext]_registryVars

-----------------------------------------------------------------------------
(* Safety.                                                                  *)

\* The exit in the registry is true: the session's process has ended, whoever wrote the
\* file last (MarkRegistryExited, RenameRegistrySession).
ExitIsTrue == registry.exit => process = "ended"

\* No delete removes a file of a session whose process still runs behind a listening
\* daemon: close_run and the wait for the exit, or an endpoint that is gone, come first
\* (DeleteSession, isEndpointGoneError).
LiveSessionKeepsFiles ==
    stage = "listening" /\ process = "running" => registry.there /\ transcript

\* A delete that fails or is killed half way never leaves a transcript behind without
\* the registry through which the user finds it (DeleteSessionFiles).
NoOrphanTranscript == transcript => registry.there

\* What is on disk fits the session, whatever deletes and renames are under way.
FilesAreKept == RegistryTypeOK /\ LiveSessionKeepsFiles /\ NoOrphanTranscript
=============================================================================
