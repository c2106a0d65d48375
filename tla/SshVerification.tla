--------------------------- MODULE SshVerification ---------------------------
(***************************************************************************)
(* The SSH verification coordinators (workspace_ssh.rs): connection workers *)
(* ask the user for a secret or for trust in a host key, one prompt at a   *)
(* time in each scope, and wait without a limit.  A scope is a workspace   *)
(* (WorkspaceSshCoordinator) or the port forwards of a host               *)
(* (HostScopedSshCoordinator); the two coordinators differ in their names. *)
(* The screen is the window that listens for the events (+page.svelte): it *)
(* holds one secret being typed, of whatever scope, and any number of      *)
(* native dialogs about host keys.                                         *)
(*                                                                         *)
(* What a worker asks, and when, is left open here: SshConnections says.   *)
(***************************************************************************)
EXTENDS Naturals, Sequences, SequencesExt

CONSTANTS Worker, Workspace, Host,
          Target,        \* authentication targets: hosts and jump hosts
          Question,      \* bound: the challenges that are asked
          MaxRequest     \* bound: requests that somebody holds at a time

Scope == Workspace \cup Host

ASSUME SshVerificationAssumption ==
    /\ MaxRequest \in Nat
    /\ Workspace \cap Host = {} /\ "none" \notin Scope
    /\ Question \subseteq [kind : {"password", "key_passphrase", "unknown", "changed"}, target : Target]

Request == 1..MaxRequest
None == 0

VARIABLES queue,      \* VerificationQueue: scope -> active request and those queued
          request,    \* VerificationRequest
          caller,     \* worker -> where it is in request_verification
          dialog,     \* pendingSshCredential: a request, or None
          asks        \* requests with an open native dialog

vars == <<queue, request, caller, dialog, asks>>

-----------------------------------------------------------------------------
EmptyQueue == [active |-> None, queued |-> <<>>]
NoResponse == [kind |-> "none"]
Cancel == [kind |-> "cancel"]
NoChallenge == [kind |-> "none"]
NoRequest == [scope |-> "none", challenge |-> NoChallenge, emitted |-> "no", response |-> NoResponse]
NoCall == [phase |-> "none", challenge |-> NoChallenge, request |-> None, next |-> None]

Asked(r) == request[r].scope # "none"
NextIds == {r \in Request : ~ Asked(r) /\ \A q \in 1..(r - 1) : Asked(q)}
InQueue(s) == ({queue[s].active} \cup ToSet(queue[s].queued)) \ {None}
Unanswered(r) == request[r].response = NoResponse
ScopeOf(r) == request[r].scope

\* A request (an Arc) is gone when no queue, no worker and no prompt refers to it.
Held(r, calls) ==
    \/ \E s \in Scope : r \in InQueue(s)
    \/ \E w \in Worker : r \in {calls[w].request, calls[w].next}
    \/ r = dialog \/ r \in asks

Init ==
    /\ queue = [s \in Scope |-> EmptyQueue]
    /\ request = [r \in Request |-> NoRequest]
    /\ caller = [w \in Worker |-> NoCall]
    /\ dialog = None
    /\ asks = {}

\* The promise to the workers (VerificationDesk): a worker that shares an identical
\* request (find_identical) gets an answer to its own question.
Asker(w) ==
    LET c == caller[w] IN
    CASE c.phase = "none" -> [state |-> "silent"]
      [] c.phase = "failed" -> [state |-> "failed"]
      [] c.phase = "answered" -> [state |-> "answered", scope |-> ScopeOf(c.request),
                                  challenge |-> c.challenge, reply |-> request[c.request].response]
      [] OTHER -> [state |-> "waiting", scope |-> ScopeOf(c.request), challenge |-> c.challenge]
Desk == INSTANCE VerificationDesk WITH desk <- [w \in Worker |-> Asker(w)]

Phase == {"none", "check", "emit", "wait", "finish", "check_next", "emit_next", "answered", "failed"}
Response == {NoResponse, Cancel} \cup {Desk!AnswerTo(c) : c \in Question}
TypeOK ==
    /\ queue \in [Scope -> [active : Request \cup {None}, queued : Seq(Request)]]
    /\ request \in [Request -> [scope : Scope \cup {"none"}, challenge : Question \cup {NoChallenge},
                                emitted : {"no", "shown", "failed"}, response : Response]]
    /\ caller \in [Worker -> [phase : Phase, challenge : Question \cup {NoChallenge},
                              request : Request \cup {None}, next : Request \cup {None}]]
    /\ dialog \in Request \cup {None} /\ asks \subseteq Request

-----------------------------------------------------------------------------
(* request_verification, in the thread of a worker.                        *)

\* Fault: the questions themselves are not compared.
IdenticalOfKind(s, c) == {r \in InQueue(s) : request[r].challenge.kind = c.kind}

\* find_identical: the tool tab that asked is not compared.
Identical(s, c) == {r \in InQueue(s) : request[r].challenge = c}

\* The first request is active, and the others wait behind it.
Joined(q, r) == IF q.active = None THEN [q EXCEPT !.active = r] ELSE [q EXCEPT !.queued = Append(@, r)]
Calling(c, r) == [phase |-> "check", challenge |-> c, request |-> r, next |-> None]
Asking(s, c) == [scope |-> s, challenge |-> c, emitted |-> "no", response |-> NoResponse]
Ask(w, s, c) ==
    /\ caller[w] = NoCall
    /\ \/ \E r \in Identical(s, c) :
           /\ caller' = [caller EXCEPT ![w] = Calling(c, r)]
           /\ UNCHANGED <<queue, request, dialog, asks>>
       \/ /\ Identical(s, c) = {}
          /\ \E r \in NextIds :
              /\ request' = [request EXCEPT ![r] = Asking(s, c)]
              /\ queue' = [queue EXCEPT ![s] = Joined(queue[s], r)]
              /\ caller' = [caller EXCEPT ![w] = Calling(c, r)]
          /\ UNCHANGED <<dialog, asks>>

\* emit_verification_if_active looks at the queue, lets go of it, and then emits: for
\* the worker's own request, and in finish_verification for the one that follows.
Emitting(w) == IF caller[w].phase \in {"check", "emit"} THEN caller[w].request ELSE caller[w].next
Emitted(w) == IF caller[w].phase \in {"check", "emit"} THEN "wait" ELSE "answered"
CheckActive(w) ==
    /\ caller[w].phase \in {"check", "check_next"}
    /\ LET r == Emitting(w) IN
       caller' = [caller EXCEPT ![w].phase =
           IF queue[ScopeOf(r)].active # r THEN Emitted(w)
           ELSE IF @ = "check" THEN "emit" ELSE "emit_next"]
    /\ UNCHANGED <<queue, request, dialog, asks>>

\* The window shows what it is sent; a secret being typed is replaced.
Show(r) ==
    IF request[r].challenge.kind \in Desk!CredentialKind
    THEN dialog' = r /\ UNCHANGED asks
    ELSE asks' = asks \cup {r} /\ UNCHANGED dialog

\* mark_emitted comes before the event; an error of the event ends the worker's call.
Emit(w) ==
    /\ caller[w].phase \in {"emit", "emit_next"}
    /\ LET r == Emitting(w) IN
       \/ /\ request[r].emitted # "no"
          /\ caller' = [caller EXCEPT ![w].phase = Emitted(w)]
          /\ UNCHANGED <<queue, request, dialog, asks>>
       \/ /\ request[r].emitted = "no"
          /\ request' = [request EXCEPT ![r].emitted = "shown"]
          /\ Show(r)
          /\ caller' = [caller EXCEPT ![w].phase = Emitted(w)]
          /\ UNCHANGED queue
EmitFails(w) ==
    /\ caller[w].phase \in {"emit", "emit_next"}
    /\ request[Emitting(w)].emitted = "no"
    /\ request' = [request EXCEPT ![Emitting(w)].emitted = "failed"]
    /\ caller' = [caller EXCEPT ![w].phase = "failed"]
    /\ UNCHANGED <<queue, dialog, asks>>

Wake(w) ==
    /\ caller[w].phase = "wait"
    /\ ~ Unanswered(caller[w].request)
    /\ caller' = [caller EXCEPT ![w].phase = "finish"]
    /\ UNCHANGED <<queue, request, dialog, asks>>

\* finish_verification: the first of those that shared the request moves the queue.
After(q) == IF q.queued = <<>> THEN EmptyQueue
            ELSE [active |-> Head(q.queued), queued |-> Tail(q.queued)]

\* Fault: the request that follows is not shown.
FinishInSilence(w) ==
    /\ caller[w].phase = "finish"
    /\ LET r == caller[w].request
           s == ScopeOf(r)
       IN queue' = IF queue[s].active = r THEN [queue EXCEPT ![s] = After(queue[s])] ELSE queue
    /\ caller' = [caller EXCEPT ![w].phase = "answered"]
    /\ UNCHANGED <<request, dialog, asks>>

Finish(w) ==
    /\ caller[w].phase = "finish"
    /\ LET r == caller[w].request
           s == ScopeOf(r)
           q == IF queue[s].active = r THEN After(queue[s]) ELSE queue[s]
       IN /\ queue' = [queue EXCEPT ![s] = q]
          /\ caller' = [caller EXCEPT ![w].next = q.active,
                                      ![w].phase = IF q.active = None THEN "answered" ELSE "check_next"]
    /\ UNCHANGED <<request, dialog, asks>>

Returns(w) ==
    /\ caller[w].phase \in {"answered", "failed"}
    /\ LET calls == [caller EXCEPT ![w] = NoCall] IN
       /\ caller' = calls
       /\ request' = [r \in Request |-> IF Held(r, calls) THEN request[r] ELSE NoRequest]
    /\ UNCHANGED <<queue, dialog, asks>>

-----------------------------------------------------------------------------
(* Commands of the main thread.                                            *)

\* submit_verification, sent when the user closes a prompt: an answer to a request that
\* is not the active one, or has been answered, is refused.
Submit(r) ==
    /\ r = dialog \/ r \in asks
    /\ IF r = dialog THEN dialog' = None /\ UNCHANGED asks
       ELSE asks' = asks \ {r} /\ UNCHANGED dialog
    /\ \E response \in Desk!Fits(request[r].challenge) :
       request' = IF queue[ScopeOf(r)].active = r /\ Unanswered(r)
                  THEN [request EXCEPT ![r].response = response]
                  ELSE IF \A w \in Worker : r \notin {caller[w].request, caller[w].next}
                  THEN [request EXCEPT ![r] = NoRequest]
                  ELSE request
    /\ UNCHANGED <<queue, caller>>

\* remove_workspace (its second half) and cancel_host.
Cancelled(r) ==
    IF r \in asks \cup {dialog} \/ \E w \in Worker : r \in {caller[w].request, caller[w].next}
    THEN [request[r] EXCEPT !.response = IF @ = NoResponse THEN Cancel ELSE @]
    ELSE NoRequest

\* Fault: only the active request is canceled.
CancelActive(s) ==
    /\ InQueue(s) # {}
    /\ request' = [r \in Request |-> IF r = queue[s].active THEN Cancelled(r) ELSE request[r]]
    /\ queue' = [queue EXCEPT ![s] = EmptyQueue]
    /\ UNCHANGED <<caller, dialog, asks>>

CancelAll(s) ==
    /\ InQueue(s) # {}
    /\ request' = [r \in Request |-> IF r \in InQueue(s) THEN Cancelled(r) ELSE request[r]]
    /\ queue' = [queue EXCEPT ![s] = EmptyQueue]
    /\ UNCHANGED <<caller, dialog, asks>>

-----------------------------------------------------------------------------
Coordinates(w) == CheckActive(w) \/ Emit(w) \/ Wake(w) \/ Finish(w) \/ Returns(w)
Next ==
    \/ \E w \in Worker :
        \/ \E s \in Scope, c \in Question : Ask(w, s, c)
        \/ Coordinates(w) \/ EmitFails(w)
    \/ \E r \in Request : Submit(r)
    \/ \E s \in Scope : CancelAll(s)

\* Threads run, and the user closes what is on the screen.
Fairness ==
    /\ \A w \in Worker : WF_vars(Coordinates(w))
    /\ \A r \in Request : WF_vars(Submit(r))
Spec == Init /\ [][Next]_vars /\ Fairness

-----------------------------------------------------------------------------
(* What holds.                                                             *)

\* One prompt at a time: what a scope has shown and nobody answered is its active
\* request, whoever looked when (emit_verification_if_active, finish_verification).
PromptsAreActive ==
    \A r \in Request : request[r].emitted = "shown" /\ Unanswered(r) => queue[ScopeOf(r)].active = r

\* Closing a scope leaves no request behind that its worker waits for: what is not
\* answered is in the queue of its scope (remove_workspace, cancel_host).
UnansweredAreQueued == \A r \in Request : Asked(r) /\ Unanswered(r) => r \in InQueue(ScopeOf(r))

\* The prompt of r will never be answered: its event was lost, or its field was
\* taken by a prompt of another scope.
Lost(r) ==
    /\ Unanswered(r)
    /\ \/ request[r].emitted = "failed"
       \/ request[r].emitted = "shown" /\ dialog # r /\ r \notin asks

\* A queue moves on: its active request is answered and a worker takes it off, or it
\* is on the screen, or a worker is about to show it (finish_verification).
Handles(w, r) ==
    \/ caller[w].request = r /\ caller[w].phase \in {"check", "emit", "wait", "finish"}
    \/ caller[w].next = r /\ caller[w].phase \in {"check_next", "emit_next"}
QueueMoves ==
    \A s \in Scope : LET r == queue[s].active IN r # None /\ ~ Lost(r) =>
        \/ r = dialog \/ r \in asks
        \/ \E w \in Worker : Handles(w, r) /\ (Unanswered(r) => caller[w].phase # "wait")

\* Queues, prompts and waiting workers fit together.
PromptsAreSound == TypeOK /\ PromptsAreActive /\ UnansweredAreQueued /\ QueueMoves

\* VerificationDesk, implemented.
AnswersTheQuestion == Desk!DeskSpec

\* Nobody waits for ever on a prompt the user can see: a waiting worker goes on, or a
\* prompt of its scope was lost and blocks the queue.
WaitEnds ==
    \A w \in Worker, s \in Scope :
        (caller[w].phase = "wait" /\ ScopeOf(caller[w].request) = s) ~>
            (caller[w].phase # "wait" \/ \E r \in InQueue(s) : Lost(r))

=============================================================================
