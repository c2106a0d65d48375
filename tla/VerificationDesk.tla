-------------------------- MODULE VerificationDesk --------------------------
(***************************************************************************)
(* What the SSH verification coordinators promise a connection worker: its *)
(* question is answered by an answer to that question, is canceled, or     *)
(* fails.  SshVerification implements it; SshConnections is built on it.   *)
(***************************************************************************)
CONSTANTS Worker, Scope, Target

VARIABLE desk        \* worker -> what it asked, and the reply

CredentialKind == {"password", "key_passphrase"}
HostKeyKind == {"unknown", "changed"}
Challenge == [kind : CredentialKind \cup HostKeyKind, target : Target]
Cancel == [kind |-> "cancel"]
\* WorkspaceSshVerificationResponse, and about which target the prompt was.
AnswerTo(c) ==
    [kind |-> IF c.kind \in CredentialKind THEN "credential" ELSE "host_key", target |-> c.target]
Fits(c) == {Cancel, AnswerTo(c)}
Silent == [state |-> "silent"]

Waiting(w) == desk[w].state = "waiting"
Replied(w) == desk[w].state \in {"answered", "failed"}

DeskInit == desk = [w \in Worker |-> Silent]

Asks(w, s, c) ==
    /\ desk[w] = Silent
    /\ desk' = [desk EXCEPT ![w] = [state |-> "waiting", scope |-> s, challenge |-> c]]
Replies(w) ==
    /\ Waiting(w)
    /\ \E x \in Fits(desk[w].challenge) :
        desk' = [desk EXCEPT ![w] = [state |-> "answered", scope |-> @.scope,
                                     challenge |-> @.challenge, reply |-> x]]
Errs(w) ==
    /\ Waiting(w)
    /\ desk' = [desk EXCEPT ![w] = [state |-> "failed"]]
Takes(w) ==
    /\ Replied(w)
    /\ desk' = [desk EXCEPT ![w] = Silent]

DeskNext == \E w \in Worker :
    \/ \E s \in Scope, c \in Challenge : Asks(w, s, c)
    \/ Replies(w) \/ Errs(w) \/ Takes(w)
DeskSpec == DeskInit /\ [][DeskNext]_desk

=============================================================================
