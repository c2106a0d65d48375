------------------------ MODULE SshVerificationProofs ------------------------
(***************************************************************************)
(* Proofs about SshVerification, for any number of workers, scopes,        *)
(* questions and requests: queues, prompts and waiting workers fit         *)
(* together, and the coordinators implement VerificationDesk.              *)
(***************************************************************************)
EXTENDS SshVerification, TLAPS

-----------------------------------------------------------------------------
(* The inductive invariant.                                                *)

\* A worker that will take the answer to r off the queue, and one that will show r.
Waits(w, r) == caller[w].request = r /\ caller[w].phase \in {"check", "emit", "wait", "finish"}
Shows(w, r) ==
    \/ caller[w].request = r /\ caller[w].phase \in {"check", "emit"}
    \/ caller[w].next = r /\ caller[w].phase \in {"check_next", "emit_next"}

\* A request is in a queue once, the queue of its scope, and only the active one is answered:
\* the user has seen it.
Queue == [active : Request \cup {None}, queued : Seq(Request)]
Members(q) == ({q.active} \cup ToSet(q.queued)) \ {None}
Ordered(q) ==
    /\ q.active = None => q.queued = <<>>
    /\ \A i, j \in 1..Len(q.queued) : q.queued[i] = q.queued[j] => i = j
    /\ \A i \in 1..Len(q.queued) : q.queued[i] # q.active
QueueOf(s) ==
    /\ Ordered(queue[s])
    /\ \A r \in InQueue(s) :
        /\ ScopeOf(r) = s
        /\ Unanswered(r) \/ (r = queue[s].active /\ request[r].emitted = "shown")
Queues == \A s \in Scope : QueueOf(s)

\* What a worker holds exists, its request is about its question, and is answered once it
\* has seen that; what it is about to emit is active, or has been answered since it looked.
CallOf(w) ==
    LET c == caller[w] IN
    /\ c.phase = "none" => c.request = None /\ c.next = None /\ c.challenge = NoChallenge
    /\ c.phase # "none" => c.request # None /\ request[c.request].challenge = c.challenge
    /\ c.request # None => Asked(c.request)
    /\ c.next # None => Asked(c.next)
    /\ c.phase \in {"check_next", "emit_next"} => c.next # None
    /\ c.phase \in {"finish", "check_next", "emit_next", "answered"} => ~ Unanswered(c.request)
    /\ c.phase \in {"emit", "emit_next"} =>
           queue[ScopeOf(Emitting(w))].active = Emitting(w) \/ ~ Unanswered(Emitting(w))
Calls == \A w \in Worker : CallOf(w)

\* A request's answer fits its question.
RequestOf(r) ==
    /\ Asked(r) => /\ request[r].challenge \in Question
                   /\ Unanswered(r) \/ request[r].response \in Desk!Fits(request[r].challenge)
    /\ ~ Asked(r) => request[r] = NoRequest
Requests == \A r \in Request : RequestOf(r)

\* What is on the screen was shown, and is there in one form.
Screen ==
    /\ dialog # None => /\ Asked(dialog) /\ request[dialog].emitted = "shown"
                        /\ request[dialog].challenge.kind \in Desk!CredentialKind
    /\ \A r \in asks : /\ Asked(r) /\ request[r].emitted = "shown"
                       /\ request[r].challenge.kind \notin Desk!CredentialKind

\* Nothing in a queue is left by its workers unless its event was lost, and the active request will be shown.
Attended ==
    \A s \in Scope : \A r \in InQueue(s) :
        /\ request[r].emitted # "failed" => \E w \in Worker : Waits(w, r)
        /\ r = queue[s].active /\ request[r].emitted = "no" => \E w \in Worker : Shows(w, r)

IInv == /\ TypeOK /\ Queues /\ Calls /\ Requests /\ Screen /\ Attended
        /\ PromptsAreActive /\ UnansweredAreQueued

-----------------------------------------------------------------------------
(* Sequences and queues.                                                   *)

LEMMA NoneIsNoRequest == None \notin Request
  BY SshVerificationAssumption DEF None, Request

LEMMA ToSetIs ==
  ASSUME NEW q \in Seq(Request)
  PROVE  \A r : r \in ToSet(q) <=> \E i \in 1..Len(q) : q[i] = r
  BY DEF ToSet

\* A request that joins is the last member.
LEMMA JoinedIs ==
  ASSUME NEW q \in Queue, Ordered(q), NEW r \in Request, r \notin Members(q)
  PROVE  /\ Joined(q, r) \in Queue /\ Ordered(Joined(q, r))
         /\ Members(Joined(q, r)) = Members(q) \cup {r}
         /\ Joined(q, r).active = IF q.active = None THEN r ELSE q.active
<1>1. q.queued \in Seq(Request) /\ q.active \in Request \cup {None}
  BY DEF Queue
<1>2. CASE q.active = None
  <2>1. q.queued = <<>>
    BY <1>2 DEF Ordered
  <2>2. Joined(q, r) = [active |-> r, queued |-> q.queued]
    BY <1>2 DEF Joined, Queue
  <2>3. Members(q) = {} /\ Members(Joined(q, r)) = {r}
    BY <1>2, <2>1, <2>2, NoneIsNoRequest DEF Members, ToSet
  <2>4. Joined(q, r).active = r /\ Joined(q, r).queued = <<>> /\ Len(<<>>) = 0
    BY <2>1, <2>2
  <2>5. Joined(q, r) \in Queue
    BY <1>1, <2>2 DEF Queue
  <2>6. Ordered(Joined(q, r))
    BY <2>4, NoneIsNoRequest DEF Ordered
  <2>7. QED
    BY <1>2, <2>3, <2>4, <2>5, <2>6
<1>3. CASE q.active # None
  <2> DEFINE new == Append(q.queued, r)
  <2>1. Joined(q, r) = [active |-> q.active, queued |-> new]
    BY <1>3 DEF Joined, Queue
  <2>2. new \in Seq(Request) /\ Len(new) = Len(q.queued) + 1 /\ new[Len(q.queued) + 1] = r
        /\ \A i \in 1..Len(q.queued) : new[i] = q.queued[i]
    BY <1>1
  <2>3. \A i \in 1..Len(q.queued) : q.queued[i] # r
    BY <1>1, ToSetIs, NoneIsNoRequest DEF Members
  <2>4. ToSet(new) = ToSet(q.queued) \cup {r}
    <3>1. ASSUME NEW x \in ToSet(new) PROVE x \in ToSet(q.queued) \cup {r}
      <4>1. PICK i \in 1..Len(new) : new[i] = x
        BY <2>2, <3>1, ToSetIs
      <4>2. i \in 1..Len(q.queued) \/ i = Len(q.queued) + 1
        BY <1>1, <2>2
      <4>3. CASE i \in 1..Len(q.queued)
        BY <1>1, <2>2, <4>1, <4>3, ToSetIs
      <4>4. QED
        BY <2>2, <4>1, <4>2, <4>3
    <3>2. ASSUME NEW x \in ToSet(q.queued) \cup {r} PROVE x \in ToSet(new)
      <4>1. Len(q.queued) \in Nat
        BY <1>1
      <4>2. CASE x = r
        <5>1. Len(q.queued) + 1 \in 1..Len(new) /\ new[Len(q.queued) + 1] = x
          BY <2>2, <4>1, <4>2
        <5>2. QED
          BY <2>2, <5>1, ToSetIs
      <4>3. CASE x \in ToSet(q.queued)
        <5>1. PICK i \in 1..Len(q.queued) : q.queued[i] = x
          BY <1>1, <4>3, ToSetIs
        <5>2. i \in 1..Len(new) /\ new[i] = x
          BY <4>1, <5>1, <2>2
        <5>3. QED
          BY <5>2, <2>2, ToSetIs
      <4>4. QED
        BY <3>2, <4>2, <4>3
    <3>3. QED
      BY <3>1, <3>2
  <2>5. Members(Joined(q, r)) = Members(q) \cup {r}
    BY <2>1, <2>4, NoneIsNoRequest DEF Members
  <2>6. Ordered(Joined(q, r))
    <3>1. Len(q.queued) \in Nat /\ r # q.active
      BY <1>1, <1>3 DEF Members
    <3>2. ASSUME NEW i \in 1..Len(new), NEW j \in 1..Len(new), new[i] = new[j] PROVE i = j
      BY <2>2, <2>3, <3>1, <3>2 DEF Ordered
    <3>3. ASSUME NEW i \in 1..Len(new) PROVE new[i] # q.active
      BY <2>2, <3>1, <3>3 DEF Ordered
    <3>4. QED
      BY <1>3, <2>1, <3>2, <3>3 DEF Ordered
  <2>7. QED
    <3>1. Joined(q, r) \in Queue
      BY <1>1, <2>1, <2>2 DEF Queue
    <3>2. Joined(q, r).active = q.active
      BY <2>1
    <3>3. QED
      BY <1>3, <2>5, <2>6, <3>1, <3>2
<1>4. QED
  BY <1>2, <1>3

\* When a queue moves it loses its active request and nothing else.
LEMMA AfterIs ==
  ASSUME NEW q \in Queue, Ordered(q)
  PROVE  /\ After(q) \in Queue /\ Ordered(After(q))
         /\ Members(After(q)) = Members(q) \ {q.active}
<1>1. q.queued \in Seq(Request) /\ q.active \in Request \cup {None}
  BY DEF Queue
<1>2. CASE q.queued = <<>>
  <2>1. After(q) = [active |-> None, queued |-> <<>>]
    BY <1>2 DEF After, EmptyQueue
  <2>2. Members(After(q)) = {} /\ Members(q) \subseteq {q.active}
    BY <1>2, <2>1 DEF Members, ToSet
  <2>3. QED
    BY <2>1, <2>2 DEF Queue, Ordered
<1>3. CASE q.queued # <<>>
  <2> DEFINE rest == Tail(q.queued)
  <2>1. After(q) = [active |-> q.queued[1], queued |-> rest]
    BY <1>1, <1>3 DEF After
  <2>2. Len(q.queued) \in Nat \ {0} /\ q.queued[1] \in Request
    BY <1>1, <1>3
  <2>3. rest \in Seq(Request) /\ Len(rest) = Len(q.queued) - 1 /\ \A i \in 1..Len(rest) : rest[i] = q.queued[i + 1]
    BY <1>1, <1>3
  <2>4. ToSet(q.queued) = {q.queued[1]} \cup ToSet(rest)
    <3>1. ASSUME NEW x \in ToSet(q.queued) PROVE x \in {q.queued[1]} \cup ToSet(rest)
      <4>1. PICK i \in 1..Len(q.queued) : q.queued[i] = x
        BY <1>1, <3>1, ToSetIs
      <4>2. CASE i # 1
        <5>1. i - 1 \in 1..Len(rest) /\ rest[i - 1] = x
          BY <2>2, <2>3, <4>1, <4>2
        <5>2. QED
          BY <2>3, <5>1, ToSetIs
      <4>3. QED
        BY <4>1, <4>2
    <3>2. ASSUME NEW x \in ToSet(rest) PROVE x \in ToSet(q.queued)
      <4>1. PICK i \in 1..Len(rest) : rest[i] = x
        BY <2>3, <3>2, ToSetIs
      <4>2. i + 1 \in 1..Len(q.queued) /\ q.queued[i + 1] = x
        BY <2>2, <2>3, <4>1
      <4>3. QED
        BY <1>1, <4>2, ToSetIs
    <3>3. q.queued[1] \in ToSet(q.queued)
      <4>1. 1 \in 1..Len(q.queued)
        BY <2>2
      <4>2. QED
        BY <1>1, <4>1, ToSetIs
    <3>4. QED
      BY <3>1, <3>2, <3>3
  <2>5. q.active \notin ToSet(q.queued)
    BY <1>1, ToSetIs DEF Ordered
  <2>6. Members(After(q)) = Members(q) \ {q.active}
    BY <1>1, <1>3, <2>1, <2>2, <2>4, <2>5, NoneIsNoRequest DEF Members
  <2>7. Ordered(After(q))
    <3>1. ASSUME NEW i \in 1..Len(rest), NEW j \in 1..Len(rest), rest[i] = rest[j] PROVE i = j
      <4>1. i + 1 \in 1..Len(q.queued) /\ j + 1 \in 1..Len(q.queued) /\ q.queued[i + 1] = q.queued[j + 1]
        BY <2>2, <2>3, <3>1
      <4>2. i + 1 = j + 1
        BY <4>1 DEF Ordered
      <4>3. QED
        BY <4>2
    <3>2. ASSUME NEW i \in 1..Len(rest) PROVE rest[i] # q.queued[1]
      <4>1. i + 1 \in 1..Len(q.queued) /\ 1 \in 1..Len(q.queued) /\ i + 1 # 1
        BY <2>2, <2>3
      <4>2. QED
        BY <2>3, <4>1 DEF Ordered
    <3>3. q.queued[1] # None
      BY <2>2, NoneIsNoRequest
    <3>4. QED
      BY <2>1, <3>1, <3>2, <3>3 DEF Ordered
  <2>8. After(q) \in Queue
    BY <2>1, <2>2, <2>3 DEF Queue
  <2>9. QED
    BY <2>6, <2>7, <2>8
<1>4. QED
  BY <1>2, <1>3

-----------------------------------------------------------------------------
(* What the invariant says of the parts of the state.                      *)

Entry == [scope : Scope \cup {"none"}, challenge : Question \cup {NoChallenge},
          emitted : {"no", "shown", "failed"}, response : Response]
Call == [phase : Phase, challenge : Question \cup {NoChallenge},
         request : Request \cup {None}, next : Request \cup {None}]

LEMMA TypeParts ==
  TypeOK <=> /\ queue \in [Scope -> Queue] /\ request \in [Request -> Entry]
             /\ caller \in [Worker -> Call]
             /\ dialog \in Request \cup {None} /\ asks \subseteq Request
  BY DEF TypeOK, Queue, Entry, Call

LEMMA TypePartsNext ==
  ASSUME queue' \in [Scope -> Queue], request' \in [Request -> Entry], caller' \in [Worker -> Call],
         dialog' \in Request \cup {None}, asks' \subseteq Request
  PROVE  TypeOK'
  BY DEF TypeOK, Queue, Entry, Call

LEMMA AskedHasScope ==
  ASSUME TypeOK, NEW r \in Request
  PROVE  Asked(r) <=> ScopeOf(r) \in Scope
  BY TypeParts, SshVerificationAssumption DEF Entry, Asked, ScopeOf

LEMMA MembersAre ==
  ASSUME IInv, NEW s \in Scope
  PROVE  /\ queue[s] \in Queue /\ Ordered(queue[s])
         /\ InQueue(s) = Members(queue[s])
         /\ queue[s].active # None => queue[s].active \in InQueue(s)
         /\ \A r \in InQueue(s) : /\ r \in Request /\ Asked(r) /\ ScopeOf(r) = s
                                  /\ Unanswered(r) \/ (r = queue[s].active /\ request[r].emitted = "shown")
<1>1. queue[s] \in Queue /\ QueueOf(s)
  BY TypeParts DEF IInv, Queues
<1>2. queue[s].queued \in Seq(Request) /\ queue[s].active \in Request \cup {None}
  BY <1>1 DEF Queue
<1>3. \A r \in InQueue(s) : r \in Request
  BY <1>2, ToSetIs DEF InQueue
<1>4. \A r \in InQueue(s) : Asked(r)
  BY <1>1, <1>3, AskedHasScope DEF QueueOf, IInv
<1>5. QED
  BY <1>1, <1>2, <1>3, <1>4 DEF QueueOf, InQueue, Members

\* A request that was marked or answered has been asked.
LEMMA EntryIsAsked ==
  ASSUME IInv, NEW r \in Request, request[r].emitted # "no" \/ ~ Unanswered(r)
  PROVE  Asked(r)
  BY DEF IInv, Requests, RequestOf, NoRequest, Unanswered

\* Nothing refers to a request that is not asked.
LEMMA FreeIsNowhere ==
  ASSUME IInv, NEW r \in Request, ~ Asked(r)
  PROVE  /\ \A s \in Scope : r \notin InQueue(s)
         /\ r # dialog /\ r \notin asks
         /\ \A w \in Worker : r \notin {caller[w].request, caller[w].next}
<1>1. r # None
  BY NoneIsNoRequest
<1>2. \A s \in Scope : r \notin InQueue(s)
  BY MembersAre
<1>3. r # dialog /\ r \notin asks
  BY <1>1 DEF IInv, Screen
<1>4. \A w \in Worker : r \notin {caller[w].request, caller[w].next}
  BY <1>1 DEF IInv, Calls, CallOf
<1>5. QED
  BY <1>2, <1>3, <1>4

\* A step that changes nothing but the workers' calls.
LEMMA StoreStays ==
  ASSUME IInv, UNCHANGED <<queue, request, dialog, asks>>
  PROVE  /\ Queues' /\ Requests' /\ Screen' /\ PromptsAreActive' /\ UnansweredAreQueued'
         /\ \A s \in Scope : InQueue(s)' = InQueue(s)
<1>1. \A s \in Scope : InQueue(s)' = InQueue(s)
  BY DEF InQueue
<1>2. Queues'
  BY <1>1 DEF IInv, Queues, QueueOf, ScopeOf, Unanswered
<1>3. Requests'
  BY DEF IInv, Requests, RequestOf, Asked, Unanswered
<1>4. Screen'
  BY DEF IInv, Screen, Asked
<1>5. PromptsAreActive'
  BY DEF IInv, PromptsAreActive, Unanswered, ScopeOf
<1>6. UnansweredAreQueued'
  BY DEF IInv, UnansweredAreQueued, Asked, Unanswered, ScopeOf, InQueue
<1>7. QED
  BY <1>1, <1>2, <1>3, <1>4, <1>5, <1>6

\* A step of one worker that changes nothing but its call.
LEMMA OneCallChanges ==
  ASSUME IInv, UNCHANGED <<queue, request, dialog, asks>>,
         NEW w \in Worker, NEW c \in Call, caller' = [caller EXCEPT ![w] = c], CallOf(w)',
         \A s \in Scope : \A r \in InQueue(s) :
             /\ Waits(w, r) => Waits(w, r)'
             /\ r = queue[s].active /\ request[r].emitted = "no" /\ Shows(w, r) => Shows(w, r)'
  PROVE  IInv'
<1>1. caller \in [Worker -> Call] /\ \A v \in Worker \ {w} : caller'[v] = caller[v]
  BY TypeParts DEF IInv
<1>2. TypeOK'
  BY <1>1, TypeParts, TypePartsNext DEF IInv
<1>3. Calls'
  <2>1. ASSUME NEW v \in Worker \ {w} PROVE CallOf(v)'
    BY <1>1, <2>1 DEF IInv, Calls, CallOf, Asked, Unanswered, ScopeOf, Emitting
  <2>2. QED
    BY <2>1 DEF Calls
<1>4. Attended'
  <2>1. ASSUME NEW s \in Scope, NEW r \in InQueue(s)', request'[r].emitted # "failed"
        PROVE  \E v \in Worker : Waits(v, r)'
    <3>1. r \in InQueue(s)
      BY <2>1, StoreStays
    <3>2. PICK v \in Worker : Waits(v, r)
      BY <2>1, <3>1 DEF IInv, Attended
    <3>3. QED
      BY <1>1, <3>1, <3>2 DEF Waits
  <2>2. ASSUME NEW s \in Scope, NEW r \in InQueue(s)', r = queue'[s].active, request'[r].emitted = "no"
        PROVE  \E v \in Worker : Shows(v, r)'
    <3>1. r \in InQueue(s)
      BY <2>2, StoreStays
    <3>2. PICK v \in Worker : Shows(v, r)
      BY <2>2, <3>1 DEF IInv, Attended
    <3>3. QED
      BY <1>1, <2>2, <3>1, <3>2 DEF Shows
  <2>3. QED
    BY <2>1, <2>2 DEF Attended
<1>5. QED
  BY <1>2, <1>3, <1>4, StoreStays DEF IInv

-----------------------------------------------------------------------------
(* Every action keeps the invariant.                                       *)

\* What a worker that is about to look or to emit has in its hand.
LEMMA EmittingIs ==
  ASSUME IInv, NEW w \in Worker, caller[w].phase \in {"check", "check_next", "emit", "emit_next"}
  PROVE  /\ Emitting(w) \in Request /\ Asked(Emitting(w)) /\ ScopeOf(Emitting(w)) \in Scope
         /\ caller[w].phase \in {"emit", "emit_next"} =>
                queue[ScopeOf(Emitting(w))].active = Emitting(w) \/ ~ Unanswered(Emitting(w))
<1>1. caller[w] \in Call /\ CallOf(w)
  BY TypeParts DEF IInv, Calls
<1>2. Emitting(w) \in Request /\ Asked(Emitting(w))
  BY <1>1 DEF Call, CallOf, Emitting
<1>3. QED
  BY <1>1, <1>2, AskedHasScope DEF IInv, CallOf

\* A worker that shares an identical request.
LEMMA ShareKeeps ==
  ASSUME IInv, NEW w \in Worker, NEW s \in Scope, NEW c \in Question, caller[w] = NoCall,
         NEW r \in Identical(s, c), caller' = [caller EXCEPT ![w] = Calling(c, r)],
         UNCHANGED <<queue, request, dialog, asks>>
  PROVE  IInv'
<1>1. r \in Request /\ Asked(r) /\ request[r].challenge = c
  BY MembersAre DEF Identical
<1>2. Calling(c, r) = [phase |-> "check", challenge |-> c, request |-> r, next |-> None]
  BY DEF Calling
<1>3. Calling(c, r) \in Call
  BY <1>1, <1>2 DEF Call, Phase
<1>4. caller'[w] = [phase |-> "check", challenge |-> c, request |-> r, next |-> None]
  BY <1>2, TypeParts DEF IInv
<1>5. CallOf(w)'
  BY <1>1, <1>4, NoneIsNoRequest DEF CallOf, Asked
<1>6. \A t \in Scope : \A x \in InQueue(t) : ~ Waits(w, x) /\ ~ Shows(w, x)
  BY DEF Waits, Shows, NoCall
<1>7. QED
  BY <1>3, <1>5, <1>6, OneCallChanges

LEMMA CheckActiveKeeps ==
  ASSUME IInv, NEW w \in Worker, CheckActive(w)
  PROVE  IInv'
<1> DEFINE e == Emitting(w)
           p == IF queue[ScopeOf(e)].active # e THEN Emitted(w)
                ELSE IF caller[w].phase = "check" THEN "emit" ELSE "emit_next"
           c == [caller[w] EXCEPT !.phase = p]
<1>1. caller[w] \in Call /\ CallOf(w) /\ caller[w].phase \in {"check", "check_next"}
  BY TypeParts DEF IInv, Calls, CheckActive
<1>2. caller' = [caller EXCEPT ![w] = c]
  BY TypeParts DEF IInv, CheckActive
<1>3. c = [phase |-> p, challenge |-> caller[w].challenge, request |-> caller[w].request, next |-> caller[w].next]
  BY <1>1 DEF Call
<1>4. \/ caller[w].phase = "check" /\ e = caller[w].request /\ p \in {"emit", "wait"}
      \/ caller[w].phase = "check_next" /\ e = caller[w].next /\ p \in {"emit_next", "answered"}
  BY <1>1 DEF Emitting, Emitted
<1>5. p \in {"emit", "emit_next"} <=> queue[ScopeOf(e)].active = e
  BY <1>1 DEF Emitted
<1> HIDE DEF p
<1>6. c \in Call
  BY <1>1, <1>3, <1>4 DEF Call, Phase
<1>7. caller'[w] = c
  BY <1>2, TypeParts DEF IInv
<1> HIDE DEF c, e
<1>8. p \in {"emit", "emit_next"} => Emitting(w)' = e
  BY <1>3, <1>4, <1>7 DEF Emitting
<1>9. CallOf(w)'
  <2>1. UNCHANGED <<queue, request>>
    BY DEF CheckActive
  <2>2. QED
    BY <1>1, <1>3, <1>4, <1>5, <1>7, <1>8, <2>1 DEF CallOf, Asked, Unanswered, ScopeOf
<1>10. ASSUME NEW t \in Scope, NEW x \in InQueue(t)
       PROVE  /\ Waits(w, x) => Waits(w, x)'
              /\ x = queue[t].active /\ Shows(w, x) => Shows(w, x)'
  <2>1. ScopeOf(x) = t
    BY MembersAre
  <2>2. Waits(w, x) => Waits(w, x)'
    BY <1>3, <1>4, <1>7 DEF Waits
  <2>3. Shows(w, x) => x = e
    BY <1>4 DEF Shows
  <2>4. x = queue[t].active /\ Shows(w, x) => Shows(w, x)'
    BY <1>3, <1>4, <1>5, <1>7, <2>1, <2>3 DEF Shows
  <2>5. QED
    BY <2>2, <2>4
<1>11. UNCHANGED <<queue, request, dialog, asks>>
  BY DEF CheckActive
<1>12. QED
  BY <1>2, <1>6, <1>9, <1>10, <1>11, OneCallChanges

LEMMA WakeKeeps ==
  ASSUME IInv, NEW w \in Worker, Wake(w)
  PROVE  IInv'
<1> DEFINE c == [caller[w] EXCEPT !.phase = "finish"]
<1>1. caller[w] \in Call /\ CallOf(w) /\ caller[w].phase = "wait" /\ ~ Unanswered(caller[w].request)
  BY TypeParts DEF IInv, Calls, Wake
<1>2. caller' = [caller EXCEPT ![w] = c] /\ UNCHANGED <<queue, request, dialog, asks>>
  BY TypeParts DEF IInv, Wake
<1>3. c = [phase |-> "finish", challenge |-> caller[w].challenge, request |-> caller[w].request,
           next |-> caller[w].next]
  BY <1>1 DEF Call
<1>4. c \in Call /\ caller'[w] = c
  BY <1>1, <1>2, <1>3, TypeParts DEF IInv, Call, Phase
<1> HIDE DEF c
<1>5. CallOf(w)'
  BY <1>1, <1>2, <1>3, <1>4 DEF CallOf, Asked, Unanswered
<1>6. ASSUME NEW t \in Scope, NEW x \in InQueue(t)
      PROVE  /\ Waits(w, x) => Waits(w, x)'
             /\ ~ Shows(w, x)
  BY <1>1, <1>3, <1>4 DEF Waits, Shows
<1>7. QED
  BY <1>2, <1>4, <1>5, <1>6, OneCallChanges

\* A worker marks a request: its prompt is shown, or its event is lost.
LEMMA MarkKeeps ==
  ASSUME IInv, NEW w \in Worker, caller[w].phase \in {"emit", "emit_next"},
         request[Emitting(w)].emitted = "no",
         NEW mark \in {"shown", "failed"},
         request' = [request EXCEPT ![Emitting(w)].emitted = mark],
         NEW p, p = IF mark = "shown" THEN Emitted(w) ELSE "failed",
         caller' = [caller EXCEPT ![w].phase = p],
         mark = "shown" => Show(Emitting(w)),
         mark = "failed" => UNCHANGED <<dialog, asks>>,
         UNCHANGED queue
  PROVE  IInv'
<1> DEFINE e == Emitting(w)
<1>1. /\ queue \in [Scope -> Queue] /\ request \in [Request -> Entry] /\ caller \in [Worker -> Call]
      /\ dialog \in Request \cup {None} /\ asks \subseteq Request /\ caller[w] \in Call /\ CallOf(w)
  BY TypeParts DEF IInv, Calls
<1>2. e \in Request /\ Asked(e) /\ ScopeOf(e) \in Scope
      /\ (queue[ScopeOf(e)].active = e \/ ~ Unanswered(e))
  BY EmittingIs
<1>3. \/ caller[w].phase = "emit" /\ e = caller[w].request /\ p \in {"wait", "failed"}
      \/ caller[w].phase = "emit_next" /\ e = caller[w].next /\ p \in {"answered", "failed"}
  BY <1>1 DEF Emitting, Emitted
<1> HIDE DEF e
<1>4. /\ request' = [request EXCEPT ![e].emitted = mark] /\ request[e].emitted = "no"
      /\ mark = "shown" => Show(e)
  BY DEF e
<1>5. \A x \in Request :
         /\ request'[x].scope = request[x].scope /\ request'[x].challenge = request[x].challenge
         /\ request'[x].response = request[x].response
         /\ request'[x].emitted = IF x = e THEN mark ELSE request[x].emitted
         /\ x # e => request'[x] = request[x]
  BY <1>1, <1>2, <1>4 DEF Entry
<1>6. request' \in [Request -> Entry]
  BY <1>1, <1>2, <1>4 DEF Entry
<1>7. /\ \A v \in Worker \ {w} : caller'[v] = caller[v]
      /\ caller'[w] = [phase |-> p, challenge |-> caller[w].challenge, request |-> caller[w].request,
                       next |-> caller[w].next]
  BY <1>1 DEF Call
<1>8. caller' \in [Worker -> Call]
  <2>1. [caller[w] EXCEPT !.phase = p] \in Call
    BY <1>1, <1>3 DEF Call, Phase
  <2>2. QED
    BY <1>1, <2>1
<1>9. dialog' \in Request \cup {None} /\ asks' \subseteq Request
  BY <1>1, <1>2, <1>4 DEF Show
<1>10. TypeOK'
  BY <1>1, <1>6, <1>8, <1>9, TypePartsNext
<1>11. \A s \in Scope : InQueue(s)' = InQueue(s)
  BY DEF InQueue
<1>12. Queues'
  BY <1>5, <1>11, MembersAre DEF Queues, QueueOf, ScopeOf, Unanswered
<1>13. Calls'
  <2>1. ASSUME NEW v \in Worker \ {w} PROVE CallOf(v)'
    <3>1. caller[v] \in Call /\ CallOf(v) /\ caller'[v] = caller[v]
      BY <1>1, <1>7, <2>1 DEF IInv, Calls
    <3>2. Emitting(v)' = Emitting(v) /\ Emitting(v) \in Request \cup {None}
      BY <3>1 DEF Emitting, Call
    <3>3. caller[v].phase \in {"emit", "emit_next"} => Emitting(v) \in Request
      BY EmittingIs
    <3>4. QED
      BY <1>5, <3>1, <3>2, <3>3 DEF CallOf, Asked, Unanswered, ScopeOf, Call
  <2>2. CallOf(w)'
    BY <1>1, <1>3, <1>5, <1>7 DEF CallOf, Asked, Unanswered, Call
  <2>3. QED
    BY <2>1, <2>2 DEF Calls
<1>14. Requests'
  <2>1. ASSUME NEW x \in Request PROVE RequestOf(x)'
    BY <1>2, <1>5, <2>1 DEF IInv, Requests, RequestOf, Asked, Unanswered
  <2>2. QED
    BY <2>1 DEF Requests
<1>15. Screen'
  <2>1. CASE mark = "shown"
    BY <1>1, <1>2, <1>4, <1>5, <2>1 DEF IInv, Screen, Asked, Show
  <2>2. CASE mark = "failed"
    BY <1>1, <1>4, <1>5, <2>2 DEF IInv, Screen, Asked
  <2>3. QED
    BY <2>1, <2>2
<1>16. Attended'
  <2>1. ASSUME NEW s \in Scope, NEW x \in InQueue(s)', request'[x].emitted # "failed"
        PROVE  \E v \in Worker : Waits(v, x)'
    <3>1. x \in Request /\ x \in InQueue(s) /\ request[x].emitted # "failed"
      BY <1>4, <1>5, <1>11, <2>1, MembersAre
    <3>2. PICK v \in Worker : Waits(v, x)
      BY <3>1 DEF IInv, Attended
    <3>3. x = e => mark = "shown"
      BY <1>5, <2>1, <3>1
    <3>4. Waits(v, x)'
      BY <1>3, <1>7, <3>2, <3>3 DEF Waits, Emitted
    <3>5. QED
      BY <3>4
  <2>2. ASSUME NEW s \in Scope, NEW x \in InQueue(s)', x = queue'[s].active, request'[x].emitted = "no"
        PROVE  \E v \in Worker : Shows(v, x)'
    <3>1. x \in Request /\ x \in InQueue(s) /\ x # e /\ request[x].emitted = "no"
      BY <1>5, <1>11, <2>2, MembersAre
    <3>2. PICK v \in Worker : Shows(v, x)
      BY <2>2, <3>1 DEF IInv, Attended
    <3>3. v # w
      BY <1>3, <3>1, <3>2 DEF Shows
    <3>4. QED
      BY <1>7, <3>2, <3>3 DEF Shows
  <2>3. QED
    BY <2>1, <2>2 DEF Attended
<1>17. PromptsAreActive'
  BY <1>2, <1>5 DEF IInv, PromptsAreActive, Unanswered, ScopeOf
<1>18. UnansweredAreQueued'
  BY <1>5, <1>11, AskedHasScope DEF IInv, UnansweredAreQueued, Asked, Unanswered, ScopeOf
<1>19. QED
  BY <1>10, <1>12, <1>13, <1>14, <1>15, <1>16, <1>17, <1>18 DEF IInv

LEMMA EmitKeeps ==
  ASSUME IInv, NEW w \in Worker, Emit(w) \/ EmitFails(w)
  PROVE  IInv'
<1>1. caller[w] \in Call /\ CallOf(w) /\ caller[w].phase \in {"emit", "emit_next"}
  BY TypeParts DEF IInv, Calls, Emit, EmitFails
<1>2. CASE /\ request[Emitting(w)].emitted # "no"
           /\ caller' = [caller EXCEPT ![w].phase = Emitted(w)]
           /\ UNCHANGED <<queue, request, dialog, asks>>
  <2> DEFINE c == [caller[w] EXCEPT !.phase = Emitted(w)]
  <2>1. c = [phase |-> Emitted(w), challenge |-> caller[w].challenge, request |-> caller[w].request,
             next |-> caller[w].next]
    BY <1>1 DEF Call
  <2>2. c \in Call /\ Emitted(w) = IF caller[w].phase = "emit" THEN "wait" ELSE "answered"
    BY <1>1, <2>1 DEF Call, Phase, Emitted
  <2>3. caller' = [caller EXCEPT ![w] = c] /\ caller'[w] = c
    BY <1>2, TypeParts DEF IInv
  <2> HIDE DEF c
  <2>4. CallOf(w)'
    BY <1>1, <1>2, <2>1, <2>2, <2>3 DEF CallOf, Asked, Unanswered
  <2>5. ASSUME NEW s \in Scope, NEW x \in InQueue(s)
        PROVE  /\ Waits(w, x) => Waits(w, x)'
               /\ request[x].emitted = "no" => ~ Shows(w, x)
    <3>1. Waits(w, x) => Waits(w, x)'
      BY <1>1, <2>1, <2>2, <2>3 DEF Waits
    <3>2. Shows(w, x) => x = Emitting(w)
      BY <1>1 DEF Shows, Emitting
    <3>3. QED
      BY <1>2, <3>1, <3>2
  <2>6. QED
    BY <1>2, <2>2, <2>3, <2>4, <2>5, OneCallChanges
<1>3. CASE /\ request[Emitting(w)].emitted = "no"
           /\ request' = [request EXCEPT ![Emitting(w)].emitted = "shown"]
           /\ Show(Emitting(w))
           /\ caller' = [caller EXCEPT ![w].phase = Emitted(w)]
           /\ UNCHANGED queue
  BY <1>1, <1>3, MarkKeeps
<1>4. CASE EmitFails(w)
  BY <1>1, <1>4, MarkKeeps DEF EmitFails
<1>5. QED
  BY <1>2, <1>3, <1>4 DEF Emit

\* A worker asks a question that nobody has asked.
LEMMA NewKeeps ==
  ASSUME IInv, NEW w \in Worker, NEW s \in Scope, NEW c \in Question, caller[w] = NoCall,
         NEW r \in Request, ~ Asked(r),
         request' = [request EXCEPT ![r] = Asking(s, c)],
         queue' = [queue EXCEPT ![s] = Joined(queue[s], r)],
         caller' = [caller EXCEPT ![w] = Calling(c, r)],
         UNCHANGED <<dialog, asks>>
  PROVE  IInv'
<1>1. /\ queue \in [Scope -> Queue] /\ request \in [Request -> Entry] /\ caller \in [Worker -> Call]
      /\ dialog \in Request \cup {None} /\ asks \subseteq Request
  BY TypeParts DEF IInv
<1>2. /\ \A t \in Scope : r \notin InQueue(t)
      /\ r # dialog /\ r \notin asks /\ r # None
      /\ \A v \in Worker : r \notin {caller[v].request, caller[v].next}
  BY FreeIsNowhere, NoneIsNoRequest
<1> DEFINE q == Joined(queue[s], r)
<1>3. /\ q \in Queue /\ Ordered(q) /\ Members(q) = Members(queue[s]) \cup {r}
      /\ q.active = IF queue[s].active = None THEN r ELSE queue[s].active
  BY <1>2, MembersAre, JoinedIs
<1>4. /\ queue' \in [Scope -> Queue] /\ queue'[s] = q
      /\ \A t \in Scope \ {s} : queue'[t] = queue[t]
  BY <1>1, <1>3
<1> HIDE DEF q
<1>5. \A t \in Scope : InQueue(t)' = IF t = s THEN InQueue(s) \cup {r} ELSE InQueue(t)
  BY <1>3, <1>4, MembersAre DEF InQueue, Members
<1>6. /\ request'[r] = [scope |-> s, challenge |-> c, emitted |-> "no", response |-> NoResponse]
      /\ \A x \in Request \ {r} : request'[x] = request[x]
  BY <1>1 DEF Asking
<1>7. request' \in [Request -> Entry]
  <2>1. Asking(s, c) \in Entry
    BY DEF Asking, Entry, Response
  <2>2. QED
    BY <1>1, <2>1
<1>8. /\ caller' \in [Worker -> Call] /\ \A v \in Worker \ {w} : caller'[v] = caller[v]
      /\ caller'[w] = [phase |-> "check", challenge |-> c, request |-> r, next |-> None]
  <2>1. Calling(c, r) \in Call
    BY DEF Calling, Call, Phase
  <2>2. QED
    BY <1>1, <2>1 DEF Calling
<1>9. TypeOK'
  BY <1>1, <1>4, <1>7, <1>8, TypePartsNext
\* An active request stays active.
<1>10. \A t \in Scope : queue[t].active # None => queue'[t].active = queue[t].active
  BY <1>3, <1>4
<1>11. Queues'
  <2>1. ASSUME NEW t \in Scope PROVE QueueOf(t)'
    <3>1. Ordered(queue'[t])
      BY <1>3, <1>4, MembersAre
    <3>2. ASSUME NEW x \in InQueue(t)'
          PROVE  ScopeOf(x)' = t /\ (Unanswered(x)' \/ (x = queue'[t].active /\ request'[x].emitted = "shown"))
      <4>1. CASE x = r
        BY <1>2, <1>5, <1>6, <3>2, <4>1 DEF ScopeOf, Unanswered
      <4>2. CASE x # r
        <5>1. x \in InQueue(t) /\ x \in Request
          BY <1>5, <3>2, <4>2, MembersAre
        <5>2. /\ ScopeOf(x) = t /\ x # None
              /\ Unanswered(x) \/ (x = queue[t].active /\ request[x].emitted = "shown")
          BY <5>1, MembersAre, NoneIsNoRequest
        <5>3. QED
          BY <1>6, <1>10, <4>2, <5>1, <5>2 DEF ScopeOf, Unanswered
      <4>3. QED
        BY <4>1, <4>2
    <3>3. QED
      BY <3>1, <3>2 DEF QueueOf
  <2>2. QED
    BY <2>1 DEF Queues
<1>12. Calls'
  <2>1. ASSUME NEW v \in Worker \ {w} PROVE CallOf(v)'
    <3>1. caller[v] \in Call /\ CallOf(v) /\ caller'[v] = caller[v]
      BY <1>1, <1>8, <2>1 DEF IInv, Calls
    <3>2. Emitting(v)' = Emitting(v)
      BY <3>1 DEF Emitting
    <3>3. caller[v].phase \in {"emit", "emit_next"} =>
              Emitting(v) \in Request /\ ScopeOf(Emitting(v)) \in Scope /\ Emitting(v) # r
      BY <1>2, EmittingIs DEF Emitting
    <3>4. caller[v].phase \in {"emit", "emit_next"} =>
              (queue[ScopeOf(Emitting(v))].active = Emitting(v) \/ ~ Unanswered(Emitting(v)))'
      BY <1>6, <1>10, <3>1, <3>2, <3>3, NoneIsNoRequest DEF CallOf, ScopeOf, Unanswered
    <3>5. QED
      BY <1>2, <1>6, <3>1, <3>4 DEF CallOf, Asked, Unanswered, Call
  <2>2. CallOf(w)'
    BY <1>2, <1>6, <1>8, SshVerificationAssumption DEF CallOf, Asked
  <2>3. QED
    BY <2>1, <2>2 DEF Calls
<1>13. Requests'
  <2>1. RequestOf(r)'
    BY <1>6, SshVerificationAssumption DEF RequestOf, Asked, Unanswered
  <2>2. ASSUME NEW x \in Request \ {r} PROVE RequestOf(x)'
    BY <1>6, <2>2 DEF IInv, Requests, RequestOf, Asked, Unanswered
  <2>3. QED
    BY <2>1, <2>2 DEF Requests
<1>14. Screen'
  BY <1>1, <1>2, <1>6 DEF IInv, Screen, Asked
<1>15. Attended'
  <2>1. Waits(w, r)' /\ Shows(w, r)'
    BY <1>8 DEF Waits, Shows
  <2>2. ASSUME NEW t \in Scope, NEW x \in InQueue(t)', x # r
        PROVE  /\ request'[x].emitted # "failed" => \E v \in Worker : Waits(v, x)'
               /\ x = queue'[t].active /\ request'[x].emitted = "no" => \E v \in Worker : Shows(v, x)'
    <3>1. x \in InQueue(t) /\ x \in Request /\ x # None /\ request'[x] = request[x]
      BY <1>5, <1>6, <2>2, MembersAre, NoneIsNoRequest
    <3>2. x = queue'[t].active => x = queue[t].active
      BY <1>3, <1>4, <2>2
    <3>3. ~ Waits(w, x) /\ ~ Shows(w, x)
      BY DEF Waits, Shows, NoCall
    <3>4. \A v \in Worker : (Waits(v, x) => Waits(v, x)') /\ (Shows(v, x) => Shows(v, x)')
      BY <1>8, <3>3 DEF Waits, Shows
    <3>5. QED
      BY <3>1, <3>2, <3>4 DEF IInv, Attended
  <2>3. QED
    BY <2>1, <2>2 DEF Attended
<1>16. PromptsAreActive'
  <2>1. ASSUME NEW x \in Request, request'[x].emitted = "shown", Unanswered(x)'
        PROVE  queue'[ScopeOf(x)'].active = x
    <3>1. x # r /\ request'[x] = request[x] /\ queue[ScopeOf(x)].active = x /\ x # None
      BY <1>6, <2>1, NoneIsNoRequest DEF IInv, PromptsAreActive, Unanswered
    <3>2. ScopeOf(x) \in Scope
      BY <2>1, <3>1, AskedHasScope, EntryIsAsked DEF IInv
    <3>3. QED
      BY <1>10, <3>1, <3>2 DEF ScopeOf
  <2>2. QED
    BY <2>1 DEF PromptsAreActive
<1>17. UnansweredAreQueued'
  <2>1. ASSUME NEW x \in Request, Asked(x)', Unanswered(x)' PROVE x \in InQueue(ScopeOf(x))'
    <3>1. CASE x = r
      BY <1>5, <1>6, <3>1 DEF ScopeOf
    <3>2. CASE x # r
      <4>1. Asked(x) /\ Unanswered(x) /\ ScopeOf(x)' = ScopeOf(x)
        BY <1>6, <2>1, <3>2 DEF Asked, Unanswered, ScopeOf
      <4>2. ScopeOf(x) \in Scope /\ x \in InQueue(ScopeOf(x))
        BY <4>1, AskedHasScope DEF IInv, UnansweredAreQueued
      <4>3. QED
        BY <1>5, <4>1, <4>2
    <3>3. QED
      BY <3>1, <3>2
  <2>2. QED
    BY <2>1 DEF UnansweredAreQueued
<1>18. QED
  BY <1>9, <1>11, <1>12, <1>13, <1>14, <1>15, <1>16, <1>17 DEF IInv

LEMMA AskKeeps ==
  ASSUME IInv, NEW w \in Worker, NEW s \in Scope, NEW c \in Question, Ask(w, s, c)
  PROVE  IInv'
<1>1. CASE \E r \in Identical(s, c) :
               /\ caller' = [caller EXCEPT ![w] = Calling(c, r)]
               /\ UNCHANGED <<queue, request, dialog, asks>>
  BY <1>1, ShareKeeps DEF Ask
<1>2. CASE /\ \E r \in NextIds :
                /\ request' = [request EXCEPT ![r] = Asking(s, c)]
                /\ queue' = [queue EXCEPT ![s] = Joined(queue[s], r)]
                /\ caller' = [caller EXCEPT ![w] = Calling(c, r)]
           /\ UNCHANGED <<dialog, asks>>
  BY <1>2, NewKeeps DEF Ask, NextIds
<1>3. QED
  BY <1>1, <1>2 DEF Ask

\* A worker takes its answered request off the queue.
LEMMA FinishKeeps ==
  ASSUME IInv, NEW w \in Worker, Finish(w)
  PROVE  IInv'
<1> DEFINE r == caller[w].request
           s == ScopeOf(r)
           q == IF queue[s].active = r THEN After(queue[s]) ELSE queue[s]
           p == IF q.active = None THEN "answered" ELSE "check_next"
<1>1. /\ queue \in [Scope -> Queue] /\ request \in [Request -> Entry] /\ caller \in [Worker -> Call]
      /\ dialog \in Request \cup {None} /\ asks \subseteq Request /\ caller[w] \in Call /\ CallOf(w)
      /\ caller[w].phase = "finish"
  BY TypeParts DEF IInv, Calls, Finish
<1>2. r \in Request /\ Asked(r) /\ ~ Unanswered(r) /\ s \in Scope
  <2>1. r \in Request /\ Asked(r) /\ ~ Unanswered(r)
    BY <1>1 DEF CallOf, Call
  <2>2. QED
    BY <2>1, AskedHasScope DEF IInv
<1>3. q \in Queue /\ Ordered(q) /\ Members(q) = Members(queue[s]) \ {r}
  <2>1. queue[s] \in Queue /\ Ordered(queue[s]) /\ InQueue(s) = Members(queue[s])
        /\ (r \in InQueue(s) => r = queue[s].active)
    BY <1>2, MembersAre
  <2>2. CASE queue[s].active = r
    BY <2>1, <2>2, AfterIs
  <2>3. CASE queue[s].active # r
    BY <2>1, <2>3
  <2>4. QED
    BY <2>2, <2>3
<1>4. /\ queue' \in [Scope -> Queue] /\ queue'[s] = q
      /\ \A t \in Scope \ {s} : queue'[t] = queue[t]
  BY <1>1, <1>2, <1>3 DEF Finish
<1>5. UNCHANGED <<request, dialog, asks>>
  BY DEF Finish
<1>6. /\ caller' \in [Worker -> Call]
      /\ \A v \in Worker \ {w} : caller'[v] = caller[v]
      /\ caller'[w] = [phase |-> p, challenge |-> caller[w].challenge, request |-> r, next |-> q.active]
  <2>1. caller' = [caller EXCEPT ![w].next = q.active, ![w].phase = p]
    BY DEF Finish
  <2>2. q.active \in Request \cup {None} /\ p \in Phase
    BY <1>3 DEF Queue, Phase
  <2> HIDE DEF q, p, r
  <2>3. caller'[w] = [phase |-> p, challenge |-> caller[w].challenge, request |-> caller[w].request,
                      next |-> q.active]
    BY <1>1, <2>1 DEF Call
  <2>4. caller'[w] \in Call
    BY <1>1, <2>2, <2>3 DEF Call
  <2>5. \A v \in Worker \ {w} : caller'[v] = caller[v]
    BY <1>1, <2>1
  <2>6. QED
    BY <1>1, <2>1, <2>3, <2>4, <2>5 DEF r
<1>7. TypeOK'
  BY <1>1, <1>4, <1>5, <1>6, TypePartsNext
<1>8. q.active # None => q.active \in InQueue(s) /\ q.active # r
  BY <1>2, <1>3, MembersAre DEF Members
<1>9. (p = "check_next" /\ q.active # None) \/ (p = "answered" /\ q.active = None)
  OBVIOUS
<1>10. \A x : queue[s].active = x /\ x # r => q.active = x
  OBVIOUS
<1> HIDE DEF q, p
<1>11. \A t \in Scope : InQueue(t)' = InQueue(t) \ {r}
  <2>1. ASSUME NEW t \in Scope \ {s} PROVE InQueue(t)' = InQueue(t) \ {r}
    <3>1. r \notin InQueue(t)
      BY <2>1, MembersAre
    <3>2. QED
      BY <1>4, <2>1, <3>1 DEF InQueue
  <2>2. ASSUME NEW t \in Scope, t = s PROVE InQueue(t)' = InQueue(t) \ {r}
    BY <1>3, <1>4, <2>2, MembersAre DEF InQueue, Members
  <2>3. QED
    BY <2>1, <2>2
<1>12. \A t \in Scope : \A x \in Request \ {r} : queue[t].active = x => queue'[t].active = x
  BY <1>4, <1>10
<1> HIDE DEF s, r
<1>13. Queues'
  <2>1. ASSUME NEW t \in Scope PROVE QueueOf(t)'
    <3>1. Ordered(queue'[t])
      BY <1>3, <1>4, MembersAre
    <3>2. ASSUME NEW x \in InQueue(t)'
          PROVE  ScopeOf(x)' = t /\ (Unanswered(x)' \/ (x = queue'[t].active /\ request'[x].emitted = "shown"))
      <4>1. /\ x \in InQueue(t) /\ x \in Request \ {r} /\ ScopeOf(x) = t
            /\ Unanswered(x) \/ (x = queue[t].active /\ request[x].emitted = "shown")
        BY <1>11, <3>2, MembersAre
      <4>2. QED
        BY <1>5, <1>12, <4>1 DEF ScopeOf, Unanswered
    <3>3. QED
      BY <3>1, <3>2 DEF QueueOf
  <2>2. QED
    BY <2>1 DEF Queues
<1>14. Calls'
  <2>1. ASSUME NEW v \in Worker \ {w} PROVE CallOf(v)'
    <3>1. caller[v] \in Call /\ CallOf(v) /\ caller'[v] = caller[v]
      BY <1>1, <1>6, <2>1 DEF IInv, Calls
    <3>2. Emitting(v)' = Emitting(v)
      BY <3>1 DEF Emitting
    <3>3. caller[v].phase \in {"emit", "emit_next"} =>
              (queue[ScopeOf(Emitting(v))].active = Emitting(v) \/ ~ Unanswered(Emitting(v)))'
      BY <1>2, <1>5, <1>12, <3>2, EmittingIs DEF ScopeOf, Unanswered
    <3>4. QED
      BY <1>5, <3>1, <3>3 DEF CallOf, Asked, Unanswered
  <2>2. q.active # None => Asked(q.active)
    BY <1>2, <1>8, MembersAre
  <2>3. CallOf(w)'
    <3>1. request[r].challenge = caller[w].challenge
      BY <1>1 DEF CallOf, r
    <3>2. QED
      BY <1>2, <1>5, <1>6, <1>9, <2>2, <3>1, NoneIsNoRequest DEF CallOf, Asked, Unanswered
  <2>4. QED
    BY <2>1, <2>3 DEF Calls
<1>15. Requests' /\ Screen'
  BY <1>5 DEF IInv, Requests, RequestOf, Screen, Asked, Unanswered
<1>16. Attended'
  <2>1. ASSUME NEW t \in Scope, NEW x \in InQueue(t)', request'[x].emitted # "failed"
        PROVE  \E v \in Worker : Waits(v, x)'
    <3>1. x \in InQueue(t) /\ x # r /\ request[x].emitted # "failed"
      BY <1>5, <1>11, <2>1
    <3>2. PICK v \in Worker : Waits(v, x)
      BY <3>1 DEF IInv, Attended
    <3>3. v # w
      BY <3>1, <3>2 DEF Waits, r
    <3>4. QED
      BY <1>6, <3>2, <3>3 DEF Waits
  <2>2. ASSUME NEW t \in Scope, NEW x \in InQueue(t)', x = queue'[t].active, request'[x].emitted = "no"
        PROVE  \E v \in Worker : Shows(v, x)'
    <3>1. x \in InQueue(t) /\ x # r /\ request[x].emitted = "no" /\ x \in Request
      BY <1>5, <1>11, <2>2, MembersAre
    <3>2. CASE t = s
      <4>1. q.active = x /\ x # None
        BY <1>4, <2>2, <3>1, <3>2, NoneIsNoRequest
      <4>2. QED
        BY <1>6, <1>9, <4>1 DEF Shows
    <3>3. CASE t # s
      <4>1. x = queue[t].active
        BY <1>4, <2>2, <3>3
      <4>2. PICK v \in Worker : Shows(v, x)
        BY <3>1, <4>1 DEF IInv, Attended
      <4>3. v # w
        BY <1>1, <4>2 DEF Shows
      <4>4. QED
        BY <1>6, <4>2, <4>3 DEF Shows
    <3>4. QED
      BY <3>2, <3>3
  <2>3. QED
    BY <2>1, <2>2 DEF Attended
<1>17. PromptsAreActive'
  <2>1. ASSUME NEW x \in Request, request[x].emitted = "shown", Unanswered(x)
        PROVE  queue'[ScopeOf(x)].active = x
    <3>1. queue[ScopeOf(x)].active = x /\ x # r
      BY <1>2, <2>1 DEF IInv, PromptsAreActive
    <3>2. ScopeOf(x) \in Scope
      BY <2>1, EntryIsAsked, AskedHasScope DEF IInv
    <3>3. QED
      BY <1>12, <3>1, <3>2
  <2>2. QED
    BY <1>5, <2>1 DEF PromptsAreActive, Unanswered, ScopeOf
<1>18. UnansweredAreQueued'
  <2>1. ASSUME NEW x \in Request, Asked(x), Unanswered(x) PROVE x \in InQueue(ScopeOf(x)) \ {r} /\ ScopeOf(x) \in Scope
    BY <1>2, <2>1, AskedHasScope DEF IInv, UnansweredAreQueued
  <2>2. ASSUME NEW x \in Request, Asked(x)', Unanswered(x)' PROVE x \in InQueue(ScopeOf(x))'
    <3>1. Asked(x) /\ Unanswered(x) /\ ScopeOf(x)' = ScopeOf(x)
      BY <1>5, <2>2 DEF Asked, Unanswered, ScopeOf
    <3>2. QED
      BY <1>11, <2>1, <3>1
  <2>3. QED
    BY <2>2 DEF UnansweredAreQueued
<1>19. QED
  BY <1>7, <1>13, <1>14, <1>15, <1>16, <1>17, <1>18 DEF IInv

\* A worker's call returns, and the requests that nobody holds any more are gone.
LEMMA ReturnsKeeps ==
  ASSUME IInv, NEW w \in Worker, Returns(w)
  PROVE  IInv'
<1>1. /\ queue \in [Scope -> Queue] /\ request \in [Request -> Entry] /\ caller \in [Worker -> Call]
      /\ dialog \in Request \cup {None} /\ asks \subseteq Request
      /\ caller[w].phase \in {"answered", "failed"} /\ UNCHANGED <<queue, dialog, asks>>
  BY TypeParts DEF IInv, Returns
<1>2. /\ caller' = [caller EXCEPT ![w] = NoCall]
      /\ request' = [x \in Request |-> IF Held(x, caller') THEN request[x] ELSE NoRequest]
  BY DEF Returns
<1>3. /\ caller' \in [Worker -> Call] /\ caller'[w] = NoCall
      /\ \A v \in Worker \ {w} : caller'[v] = caller[v]
  <2>1. NoCall \in Call
    BY DEF NoCall, Call, Phase
  <2>2. QED
    BY <1>1, <1>2, <2>1
<1>4. \A x \in Request : request'[x] = request[x] \/ request'[x] = NoRequest
  BY <1>2
<1>5. request' \in [Request -> Entry]
  <2>1. NoRequest \in Entry
    BY DEF NoRequest, Entry, Response
  <2>2. QED
    BY <1>1, <1>2, <2>1
<1>6. TypeOK'
  BY <1>1, <1>3, <1>5, TypePartsNext
<1>7. \A s \in Scope : InQueue(s)' = InQueue(s)
  BY <1>1 DEF InQueue
\* What a queue, the screen or another worker refers to stays.
<1>8. ASSUME NEW x \in Request,
             \/ \E s \in Scope : x \in InQueue(s)
             \/ x = dialog \/ x \in asks
             \/ \E v \in Worker \ {w} : x \in {caller[v].request, caller[v].next}
      PROVE  request'[x] = request[x]
  BY <1>2, <1>3, <1>8 DEF Held
<1>9. Queues'
  BY <1>1, <1>7, <1>8, MembersAre DEF Queues, QueueOf, ScopeOf, Unanswered
<1>10. Calls'
  <2>1. ASSUME NEW v \in Worker \ {w} PROVE CallOf(v)'
    <3>1. caller[v] \in Call /\ CallOf(v) /\ caller'[v] = caller[v]
      BY <1>1, <1>3, <2>1 DEF IInv, Calls
    <3>2. \A x \in {caller[v].request, caller[v].next} \ {None} : x \in Request /\ request'[x] = request[x]
      BY <1>8, <2>1, <3>1 DEF Call
    <3>3. /\ Emitting(v)' = Emitting(v)
          /\ caller[v].phase \in {"emit", "emit_next"} => Emitting(v) \in {caller[v].request, caller[v].next} \ {None}
      BY <3>1, EmittingIs, NoneIsNoRequest DEF Emitting
    <3>4. QED
      BY <1>1, <3>1, <3>2, <3>3, NoneIsNoRequest DEF CallOf, Asked, Unanswered, ScopeOf
  <2>2. CallOf(w)'
    BY <1>3 DEF CallOf, NoCall
  <2>3. QED
    BY <2>1, <2>2 DEF Calls
<1>11. Requests'
  <2>1. ASSUME NEW x \in Request PROVE RequestOf(x)'
    BY <1>4, <2>1 DEF IInv, Requests, RequestOf, Asked, Unanswered, NoRequest
  <2>2. QED
    BY <2>1 DEF Requests
<1>12. Screen'
  BY <1>1, <1>8 DEF IInv, Screen, Asked
<1>13. Attended'
  <2>1. ASSUME NEW s \in Scope, NEW x \in InQueue(s)'
        PROVE  /\ request'[x].emitted # "failed" => \E v \in Worker : Waits(v, x)'
               /\ x = queue'[s].active /\ request'[x].emitted = "no" => \E v \in Worker : Shows(v, x)'
    <3>1. x \in InQueue(s) /\ x \in Request
      BY <1>7, <2>1, MembersAre
    <3>2. request'[x] = request[x] /\ ~ Waits(w, x) /\ ~ Shows(w, x)
      BY <1>1, <1>8, <3>1 DEF Waits, Shows
    <3>3. \A v \in Worker : (Waits(v, x) => Waits(v, x)') /\ (Shows(v, x) => Shows(v, x)')
      BY <1>3, <3>2 DEF Waits, Shows
    <3>4. QED
      BY <1>1, <3>1, <3>2, <3>3 DEF IInv, Attended
  <2>2. QED
    BY <2>1 DEF Attended
<1>14. PromptsAreActive' /\ UnansweredAreQueued'
  <2>1. NoRequest.emitted = "no" /\ NoRequest.scope = "none"
    BY DEF NoRequest
  <2>2. \A x \in Request : Asked(x)' => request'[x] = request[x]
    BY <1>4, <2>1 DEF Asked
  <2>3. \A x \in Request : request'[x].emitted = "shown" => request'[x] = request[x]
    BY <1>4, <2>1
  <2>4. PromptsAreActive'
    BY <1>1, <2>3 DEF IInv, PromptsAreActive, Unanswered, ScopeOf
  <2>5. ASSUME NEW x \in Request, Asked(x)', Unanswered(x)' PROVE x \in InQueue(ScopeOf(x))'
    <3>1. Asked(x) /\ Unanswered(x) /\ ScopeOf(x)' = ScopeOf(x)
      BY <2>2, <2>5 DEF Asked, Unanswered, ScopeOf
    <3>2. ScopeOf(x) \in Scope /\ x \in InQueue(ScopeOf(x))
      BY <3>1, AskedHasScope DEF IInv, UnansweredAreQueued
    <3>3. QED
      BY <1>7, <3>1, <3>2
  <2>6. QED
    BY <2>4, <2>5 DEF UnansweredAreQueued
<1>15. QED
  BY <1>6, <1>9, <1>10, <1>11, <1>12, <1>13, <1>14 DEF IInv

\* The user closes a prompt.
LEMMA ResponsesFit ==
  ASSUME NEW c \in Question, NEW x \in Desk!Fits(c)
  PROVE  x \in Response
  BY DEF Response, Desk!Fits, Cancel, Desk!Cancel

\* A closed prompt is on the screen no more.
LEMMA ScreenCloses ==
  ASSUME IInv, NEW r \in Request, Submit(r)
  PROVE  /\ Asked(r) /\ request[r].emitted = "shown"
         /\ dialog' \in {dialog, None} \ {r} /\ asks' \subseteq asks \ {r}
<1>1. Asked(r) /\ request[r].emitted = "shown"
  BY NoneIsNoRequest DEF Submit, IInv, Screen
<1>2. r = dialog => r \notin asks
  BY NoneIsNoRequest DEF IInv, Screen
<1>3. QED
  BY <1>1, <1>2, NoneIsNoRequest DEF Submit

LEMMA SubmitKeeps ==
  ASSUME IInv, NEW r \in Request, Submit(r)
  PROVE  IInv'
<1>1. /\ queue \in [Scope -> Queue] /\ request \in [Request -> Entry] /\ caller \in [Worker -> Call]
      /\ dialog \in Request \cup {None} /\ asks \subseteq Request /\ UNCHANGED <<queue, caller>>
  BY TypeParts DEF IInv, Submit
<1>2. /\ Asked(r) /\ request[r].emitted = "shown" /\ r # None
      /\ dialog' \in {dialog, None} \ {r} /\ asks' \subseteq asks \ {r}
  BY ScreenCloses, NoneIsNoRequest
<1>3. PICK x \in Desk!Fits(request[r].challenge) :
          request' = IF queue[ScopeOf(r)].active = r /\ Unanswered(r)
                     THEN [request EXCEPT ![r].response = x]
                     ELSE IF \A w \in Worker : r \notin {caller[w].request, caller[w].next}
                     THEN [request EXCEPT ![r] = NoRequest]
                     ELSE request
  BY DEF Submit
<1>4. \A s \in Scope : InQueue(s)' = InQueue(s)
  BY <1>1 DEF InQueue
<1>5. \A y \in Request \ {r} : request'[y] = request[y]
  BY <1>1, <1>3
<1>6. \/ /\ queue[ScopeOf(r)].active = r /\ Unanswered(r)
         /\ request'[r] = [scope |-> request[r].scope, challenge |-> request[r].challenge,
                           emitted |-> request[r].emitted, response |-> x]
      \/ /\ \A w \in Worker : r \notin {caller[w].request, caller[w].next}
         /\ request'[r] = NoRequest
      \/ request'[r] = request[r]
  <2>1. request[r] \in Entry
    BY <1>1
  <2>2. [request[r] EXCEPT !.response = x] = [scope |-> request[r].scope, challenge |-> request[r].challenge,
                           emitted |-> request[r].emitted, response |-> x]
    BY <2>1 DEF Entry
  <2>3. QED
    BY <1>1, <1>3, <2>2
<1>7. request[r].challenge \in Question /\ x \in Response
  BY <1>2, ResponsesFit DEF IInv, Requests, RequestOf
<1>8. request' \in [Request -> Entry]
  <2>1. NoRequest \in Entry /\ request[r] \in Entry
    BY <1>1 DEF NoRequest, Entry, Response
  <2>2. request'[r] \in Entry
    BY <1>6, <1>7, <2>1 DEF Entry
  <2>3. request' = [request EXCEPT ![r] = request'[r]]
    BY <1>1, <1>3
  <2>4. QED
    BY <1>1, <2>2, <2>3
<1>9. TypeOK'
  BY <1>1, <1>2, <1>8, TypePartsNext
\* A request that no worker holds is in no queue.
<1>10. (\A w \in Worker : r \notin {caller[w].request, caller[w].next}) => \A s \in Scope : r \notin InQueue(s)
  BY <1>2 DEF IInv, Attended, Waits
<1>11. \A y \in Request : Unanswered(y)' /\ Asked(y)' => Unanswered(y) /\ request'[y].scope = request[y].scope
  BY <1>5, <1>6 DEF Asked, NoRequest, Unanswered
<1>12. \A s \in Scope : \A y \in InQueue(s) :
           /\ y \in Request /\ request'[y].scope = request[y].scope /\ request'[y].emitted = request[y].emitted
           /\ request'[y].response = request[y].response \/ (y = queue[s].active /\ request[y].emitted = "shown")
  BY <1>2, <1>5, <1>6, <1>10, MembersAre DEF Unanswered
<1>13. Queues'
  BY <1>1, <1>4, <1>12, MembersAre DEF Queues, QueueOf, ScopeOf, Unanswered
\* A request that a worker holds keeps its question, and its answer if it has one.
<1>14. \A w \in Worker : \A y \in {caller[w].request, caller[w].next} \ {None} :
           /\ y \in Request /\ request'[y].scope = request[y].scope /\ request'[y].challenge = request[y].challenge
           /\ ~ Unanswered(y) => request'[y].response = request[y].response
  <2>1. \A w \in Worker : \A y \in {caller[w].request, caller[w].next} \ {None} : y \in Request
    BY <1>1 DEF Call
  <2>2. QED
    BY <1>5, <1>6, <2>1
<1>15. Calls'
  <2>1. ASSUME NEW v \in Worker PROVE CallOf(v)'
    <3>1. CallOf(v) /\ caller'[v] = caller[v] /\ Emitting(v)' = Emitting(v)
      BY <1>1, <2>1 DEF IInv, Calls, Emitting
    <3>2. caller[v].phase \in {"emit", "emit_next"} => Emitting(v) \in {caller[v].request, caller[v].next} \ {None}
      BY EmittingIs, NoneIsNoRequest DEF Emitting
    <3>3. QED
      BY <1>1, <1>14, <3>1, <3>2 DEF CallOf, Asked, Unanswered, ScopeOf
  <2>2. QED
    BY <2>1 DEF Calls
<1>16. Requests'
  <2>1. RequestOf(r)'
    BY <1>2, <1>6, <1>7 DEF IInv, Requests, RequestOf, Asked, Unanswered, NoRequest
  <2>2. ASSUME NEW y \in Request \ {r} PROVE RequestOf(y)'
    BY <1>5, <2>2 DEF IInv, Requests, RequestOf, Asked, Unanswered
  <2>3. QED
    BY <2>1, <2>2 DEF Requests
<1>17. Screen'
  BY <1>1, <1>2, <1>5 DEF IInv, Screen, Asked
<1>18. Attended'
  BY <1>1, <1>4, <1>12 DEF IInv, Attended, Waits, Shows
<1>19. PromptsAreActive'
  <2>1. \A y \in Request : request'[y].emitted = "shown" /\ Unanswered(y)' =>
            request[y].emitted = "shown" /\ Unanswered(y) /\ ScopeOf(y)' = ScopeOf(y)
    BY <1>5, <1>6 DEF NoRequest, Unanswered, ScopeOf
  <2>2. QED
    BY <1>1, <2>1 DEF IInv, PromptsAreActive
<1>20. UnansweredAreQueued'
  <2>1. ASSUME NEW y \in Request, Asked(y)', Unanswered(y)' PROVE y \in InQueue(ScopeOf(y))'
    <3>1. Asked(y) /\ Unanswered(y) /\ ScopeOf(y)' = ScopeOf(y)
      BY <1>11, <2>1 DEF Asked, ScopeOf
    <3>2. ScopeOf(y) \in Scope /\ y \in InQueue(ScopeOf(y))
      BY <3>1, AskedHasScope DEF IInv, UnansweredAreQueued
    <3>3. QED
      BY <1>4, <3>1, <3>2
  <2>2. QED
    BY <2>1 DEF UnansweredAreQueued
<1>21. QED
  BY <1>9, <1>13, <1>15, <1>16, <1>17, <1>18, <1>19, <1>20 DEF IInv

\* A scope is closed: its queue is emptied, and its requests are canceled.
LEMMA CancelAllKeeps ==
  ASSUME IInv, NEW s \in Scope, CancelAll(s)
  PROVE  IInv'
<1>1. /\ queue \in [Scope -> Queue] /\ request \in [Request -> Entry] /\ caller \in [Worker -> Call]
      /\ dialog \in Request \cup {None} /\ asks \subseteq Request /\ UNCHANGED <<caller, dialog, asks>>
  BY TypeParts DEF IInv, CancelAll
<1>2. /\ request' = [x \in Request |-> IF x \in InQueue(s) THEN Cancelled(x) ELSE request[x]]
      /\ queue' = [queue EXCEPT ![s] = EmptyQueue]
  BY DEF CancelAll
<1>3. EmptyQueue \in Queue /\ Ordered(EmptyQueue) /\ EmptyQueue.active = None /\ Members(EmptyQueue) = {}
  BY DEF EmptyQueue, Queue, Ordered, Members, ToSet
<1>4. /\ queue' \in [Scope -> Queue] /\ queue'[s] = EmptyQueue
      /\ \A t \in Scope \ {s} : queue'[t] = queue[t]
  BY <1>1, <1>2, <1>3
<1>5. \A t \in Scope : InQueue(t)' = IF t = s THEN {} ELSE InQueue(t)
  BY <1>3, <1>4 DEF InQueue, Members
<1> DEFINE held(x) == x \in asks \cup {dialog} \/ \E w \in Worker : x \in {caller[w].request, caller[w].next}
\* What is canceled keeps its question if somebody holds it, and is answered.
<1>6. ASSUME NEW x \in InQueue(s)
      PROVE  \/ /\ request'[x].scope = request[x].scope /\ request'[x].challenge = request[x].challenge
                /\ request'[x].emitted = request[x].emitted
                /\ request'[x].response = IF Unanswered(x) THEN Cancel ELSE request[x].response
             \/ ~ held(x) /\ request'[x] = NoRequest
  <2>1. x \in Request /\ request[x] \in Entry /\ request'[x] = Cancelled(x)
    BY <1>1, <1>2, MembersAre
  <2>2. CASE held(x)
    <3>1. Cancelled(x) = [request[x] EXCEPT !.response = IF @ = NoResponse THEN Cancel ELSE @]
      BY <2>2 DEF Cancelled
    <3>2. QED
      BY <2>1, <3>1 DEF Entry, Unanswered
  <2>3. CASE ~ held(x)
    BY <2>1, <2>3 DEF Cancelled
  <2>4. QED
    BY <2>2, <2>3
<1>7. \A x \in Request \ InQueue(s) : request'[x] = request[x]
  BY <1>2
<1>8. NoRequest.scope = "none" /\ NoRequest.emitted = "no" /\ Cancel # NoResponse /\ NoRequest \in Entry
      /\ Cancel \in Response
  BY DEF NoRequest, Cancel, NoResponse, Entry, Response
<1>9. request' \in [Request -> Entry]
  <2>1. ASSUME NEW x \in Request PROVE Cancelled(x) \in Entry
    <3>1. request[x] \in Entry
      BY <1>1
    <3>2. CASE held(x)
      <4>1. Cancelled(x) = [request[x] EXCEPT !.response = IF @ = NoResponse THEN Cancel ELSE @]
        BY <3>2 DEF Cancelled
      <4>2. QED
        BY <1>8, <3>1, <4>1 DEF Entry
    <3>3. CASE ~ held(x)
      BY <1>8, <3>3 DEF Cancelled
    <3>4. QED
      BY <3>2, <3>3
  <2>2. QED
    BY <1>1, <1>2, <2>1
<1>10. TypeOK'
  BY <1>1, <1>4, <1>9, TypePartsNext
\* What belongs to another scope stays.
<1>11. \A t \in Scope \ {s} : \A x \in InQueue(t) : x \in Request /\ request'[x] = request[x]
  BY <1>7, MembersAre
<1>12. Queues'
  <2>1. ASSUME NEW t \in Scope PROVE QueueOf(t)'
    BY <1>3, <1>4, <1>5, <1>11, MembersAre DEF QueueOf, ScopeOf, Unanswered
  <2>2. QED
    BY <2>1 DEF Queues
\* What somebody holds keeps its question, and its answer if it has one.
<1>13. \A x \in Request : held(x) =>
           /\ request'[x].scope = request[x].scope /\ request'[x].challenge = request[x].challenge
           /\ request'[x].emitted = request[x].emitted
           /\ ~ Unanswered(x) => request'[x].response = request[x].response
           /\ x \in InQueue(s) => ~ Unanswered(x)'
  BY <1>6, <1>7, <1>8 DEF Unanswered
<1> HIDE DEF held
<1>14. Calls'
  <2>1. ASSUME NEW v \in Worker PROVE CallOf(v)'
    <3>1. CallOf(v) /\ caller'[v] = caller[v] /\ caller[v] \in Call /\ Emitting(v)' = Emitting(v)
      BY <1>1, <2>1 DEF IInv, Calls, Emitting
    <3>2. \A x \in {caller[v].request, caller[v].next} \ {None} : x \in Request /\ held(x)
      BY <2>1, <3>1 DEF Call, held
    <3>3. caller[v].phase \in {"emit", "emit_next"} =>
              (queue[ScopeOf(Emitting(v))].active = Emitting(v) \/ ~ Unanswered(Emitting(v)))'
      <4> HAVE caller[v].phase \in {"emit", "emit_next"}
      <4>1. /\ Emitting(v) \in {caller[v].request, caller[v].next} \ {None}
            /\ ScopeOf(Emitting(v)) \in Scope
            /\ queue[ScopeOf(Emitting(v))].active = Emitting(v) \/ ~ Unanswered(Emitting(v))
        BY EmittingIs, NoneIsNoRequest DEF Emitting
      <4>2. queue[ScopeOf(Emitting(v))].active = Emitting(v) => Emitting(v) \in InQueue(ScopeOf(Emitting(v)))
        BY <4>1, MembersAre
      <4>3. QED
        BY <1>4, <1>13, <3>1, <3>2, <4>1, <4>2 DEF ScopeOf, Unanswered
    <3>4. QED
      BY <1>13, <3>1, <3>2, <3>3 DEF CallOf, Asked, Unanswered
  <2>2. QED
    BY <2>1 DEF Calls
<1>15. Requests'
  <2>1. ASSUME NEW x \in Request PROVE RequestOf(x)'
    <3>1. RequestOf(x) /\ (x \in InQueue(s) => Asked(x))
      BY <2>1, MembersAre DEF IInv, Requests
    <3>2. Cancel \in Desk!Fits(request[x].challenge)
      BY DEF Cancel, Desk!Fits, Desk!Cancel
    <3>3. QED
      BY <1>6, <1>7, <1>8, <3>1, <3>2 DEF RequestOf, Asked, Unanswered
  <2>2. QED
    BY <2>1 DEF Requests
<1>16. Screen'
  <2>1. dialog # None => held(dialog) /\ dialog \in Request
    BY <1>1 DEF held
  <2>2. \A x \in asks : held(x) /\ x \in Request
    BY <1>1 DEF held
  <2>3. QED
    BY <1>1, <1>13, <2>1, <2>2 DEF IInv, Screen, Asked
<1>17. Attended'
  <2>1. ASSUME NEW t \in Scope, NEW x \in InQueue(t)'
        PROVE  t # s /\ x \in InQueue(t) /\ request'[x] = request[x] /\ queue'[t] = queue[t]
    BY <1>4, <1>5, <1>11, <2>1
  <2>2. QED
    BY <1>1, <2>1 DEF IInv, Attended, Waits, Shows
<1>18. PromptsAreActive'
  <2>1. ASSUME NEW x \in Request, request'[x].emitted = "shown", Unanswered(x)' PROVE queue'[ScopeOf(x)'].active = x
    <3>1. x \notin InQueue(s) /\ request'[x] = request[x]
      BY <1>6, <1>7, <1>8, <2>1 DEF Unanswered
    <3>2. ScopeOf(x) \in Scope /\ queue[ScopeOf(x)].active = x /\ x # None
      BY <2>1, <3>1, EntryIsAsked, AskedHasScope, NoneIsNoRequest DEF IInv, PromptsAreActive, Unanswered
    <3>3. ScopeOf(x) # s
      BY <3>1, <3>2, MembersAre
    <3>4. QED
      BY <1>4, <3>1, <3>2, <3>3 DEF ScopeOf
  <2>2. QED
    BY <2>1 DEF PromptsAreActive
<1>19. UnansweredAreQueued'
  <2>1. ASSUME NEW x \in Request, Asked(x)', Unanswered(x)' PROVE x \in InQueue(ScopeOf(x))'
    <3>1. x \notin InQueue(s) /\ request'[x] = request[x]
      BY <1>6, <1>7, <1>8, <2>1 DEF Asked, Unanswered
    <3>2. ScopeOf(x) \in Scope /\ x \in InQueue(ScopeOf(x)) /\ ScopeOf(x) # s
      BY <2>1, <3>1, AskedHasScope DEF IInv, UnansweredAreQueued, Asked, Unanswered
    <3>3. QED
      BY <1>5, <3>1, <3>2 DEF ScopeOf
  <2>2. QED
    BY <2>1 DEF UnansweredAreQueued
<1>20. QED
  BY <1>10, <1>12, <1>14, <1>15, <1>16, <1>17, <1>18, <1>19 DEF IInv

LEMMA InitKeeps == Init => IInv
<1> SUFFICES ASSUME Init PROVE IInv
  OBVIOUS
<1>1. EmptyQueue \in Queue /\ Ordered(EmptyQueue) /\ Members(EmptyQueue) = {}
  BY DEF EmptyQueue, Queue, Ordered, Members, ToSet
<1>2. NoRequest \in Entry /\ NoCall \in Call
  BY DEF NoRequest, Entry, NoCall, Call, Phase, Response
<1>3. TypeOK
  BY <1>1, <1>2, TypeParts DEF Init
<1>4. \A s \in Scope : InQueue(s) = {} /\ Ordered(queue[s])
  BY <1>1 DEF Init, InQueue, Members
<1>5. Queues /\ Attended
  BY <1>4 DEF Queues, QueueOf, Attended
<1>6. Calls
  BY DEF Init, Calls, CallOf, NoCall
<1>7. \A r \in Request : request[r] = NoRequest /\ ~ Asked(r) /\ request[r].emitted = "no"
  BY DEF Init, NoRequest, Asked
<1>8. Requests /\ Screen /\ PromptsAreActive /\ UnansweredAreQueued
  BY <1>7 DEF Init, Requests, RequestOf, Screen, PromptsAreActive, UnansweredAreQueued
<1>9. QED
  BY <1>3, <1>5, <1>6, <1>8 DEF IInv

LEMMA NextKeeps == IInv /\ [Next]_vars => IInv'
<1> SUFFICES ASSUME IInv, [Next]_vars PROVE IInv'
  OBVIOUS
<1>1. ASSUME NEW w \in Worker, NEW s \in Scope, NEW c \in Question, Ask(w, s, c) PROVE IInv'
  BY <1>1, AskKeeps
<1>2. ASSUME NEW w \in Worker, Coordinates(w) \/ EmitFails(w) PROVE IInv'
  BY <1>2, CheckActiveKeeps, EmitKeeps, WakeKeeps, FinishKeeps, ReturnsKeeps DEF Coordinates
<1>3. ASSUME NEW r \in Request, Submit(r) PROVE IInv'
  BY <1>3, SubmitKeeps
<1>4. ASSUME NEW s \in Scope, CancelAll(s) PROVE IInv'
  BY <1>4, CancelAllKeeps
<1>5. CASE UNCHANGED vars
  <2>1. UNCHANGED <<queue, request, caller, dialog, asks>>
    BY <1>5 DEF vars
  <2>2. TypeOK'
    BY <2>1, TypeParts, TypePartsNext DEF IInv
  <2>3. Calls'
    BY <2>1 DEF IInv, Calls, CallOf, Asked, Unanswered, ScopeOf, Emitting
  <2>4. Attended'
    BY <2>1, StoreStays DEF IInv, Attended, Waits, Shows
  <2>5. QED
    BY <2>1, <2>2, <2>3, <2>4, StoreStays DEF IInv
<1>6. QED
  BY <1>1, <1>2, <1>3, <1>4, <1>5 DEF Next

\* The invariant is about a queue's future as well: it moves, or its prompt was lost.
LEMMA InvariantSuffices == IInv => PromptsAreSound
<1> SUFFICES ASSUME IInv PROVE PromptsAreSound
  OBVIOUS
<1>1. ASSUME NEW s \in Scope, queue[s].active # None, ~ Lost(queue[s].active)
      PROVE  LET r == queue[s].active IN
             \/ r = dialog \/ r \in asks
             \/ \E w \in Worker : Handles(w, r) /\ (Unanswered(r) => caller[w].phase # "wait")
  <2> DEFINE r == queue[s].active
  <2>1. r \in InQueue(s) /\ r \in Request /\ (Unanswered(r) \/ request[r].emitted = "shown")
    BY <1>1, MembersAre
  <2>2. request[r].emitted \in {"no", "shown", "failed"}
    BY <2>1, TypeParts DEF IInv, Entry
  <2>3. CASE ~ Unanswered(r)
    <3>1. PICK w \in Worker : Waits(w, r)
      BY <2>1, <2>3 DEF IInv, Attended
    <3>2. QED
      BY <2>3, <3>1 DEF Waits, Handles
  <2>4. CASE Unanswered(r) /\ request[r].emitted = "no"
    <3>1. PICK w \in Worker : Shows(w, r)
      BY <2>1, <2>4 DEF IInv, Attended
    <3>2. QED
      BY <3>1 DEF Shows, Handles
  <2>5. CASE Unanswered(r) /\ request[r].emitted # "no"
    BY <1>1, <2>2, <2>5 DEF Lost
  <2>6. QED
    BY <2>3, <2>4, <2>5
<1>2. QueueMoves
  BY <1>1 DEF QueueMoves
<1>3. QED
  BY <1>2 DEF IInv, PromptsAreSound

-----------------------------------------------------------------------------
(* The theorems.                                                           *)

\* The state keeps its type (workspace_ssh.rs, +page.svelte).
THEOREM VerificationTypeCorrect == Spec => []TypeOK
<1>1. IInv => TypeOK
  BY DEF IInv
<1>2. QED
  BY InitKeeps, NextKeeps, <1>1, PTL DEF Spec

\* In every scope one prompt is shown at a time, a question is never dropped, and a queue
\* moves on unless its prompt was lost, whoever looked, emitted, answered or canceled when
\* (emit_verification_if_active, finish_verification, submit_verification, cancel_host).
THEOREM PromptsSound == Spec => []PromptsAreSound
<1>1. QED
  BY InitKeeps, NextKeeps, InvariantSuffices, PTL DEF Spec

-----------------------------------------------------------------------------
(* The coordinators implement VerificationDesk.                            *)

Answering == [w \in Worker |-> Asker(w)]

\* What a worker holds keeps its scope, and its answer once it has one.
LEMMA HeldStays ==
  ASSUME IInv, [Next]_vars, NEW v \in Worker, caller'[v].request = caller[v].request,
         NEW x, x = caller[v].request, x # None
  PROVE  /\ x \in Request /\ request'[x].scope = request[x].scope
         /\ ~ Unanswered(x) => request'[x].response = request[x].response
<1>1. /\ request \in [Request -> Entry] /\ caller \in [Worker -> Call]
      /\ x \in Request /\ Asked(x) /\ request[x] \in Entry
  BY TypeParts DEF IInv, Calls, CallOf, Call
<1>2. ASSUME NEW w \in Worker, NEW s \in Scope, NEW c \in Question, Ask(w, s, c)
      PROVE  request'[x] = request[x]
  BY <1>1, <1>2 DEF Ask, NextIds
<1>3. ASSUME NEW w \in Worker, Emit(w) \/ EmitFails(w)
      PROVE  request'[x].scope = request[x].scope /\ request'[x].response = request[x].response
  <2>1. \/ request' = request
        \/ \E mark \in {"shown", "failed"} : request' = [request EXCEPT ![Emitting(w)].emitted = mark]
    BY <1>3 DEF Emit, EmitFails
  <2>2. \A y \in Request : request[y] \in Entry
    BY <1>1
  <2>3. QED
    BY <1>1, <2>1, <2>2 DEF Entry
<1>4. ASSUME NEW w \in Worker, Returns(w)
      PROVE  request'[x] = request[x]
  <2>1. caller'[w] = NoCall
    BY <1>1, <1>4 DEF Returns
  <2>2. Held(x, caller')
    BY DEF Held
  <2>3. QED
    BY <1>1, <1>4, <2>2 DEF Returns
<1>5. ASSUME NEW r \in Request, Submit(r)
      PROVE  request'[x].scope = request[x].scope /\ (~ Unanswered(x) => request'[x].response = request[x].response)
  <2>1. PICK y \in Desk!Fits(request[r].challenge) :
            request' = IF queue[ScopeOf(r)].active = r /\ Unanswered(r)
                       THEN [request EXCEPT ![r].response = y]
                       ELSE IF \A w \in Worker : r \notin {caller[w].request, caller[w].next}
                       THEN [request EXCEPT ![r] = NoRequest]
                       ELSE request
    BY <1>5 DEF Submit
  <2>2. CASE queue[ScopeOf(r)].active = r /\ Unanswered(r)
    BY <1>1, <2>1, <2>2 DEF Entry, Unanswered
  <2>3. CASE ~ (queue[ScopeOf(r)].active = r /\ Unanswered(r))
    BY <1>1, <2>1, <2>3
  <2>4. QED
    BY <2>2, <2>3
<1>6. ASSUME NEW s \in Scope, CancelAll(s)
      PROVE  request'[x].scope = request[x].scope /\ (~ Unanswered(x) => request'[x].response = request[x].response)
  <2>1. request'[x] = IF x \in InQueue(s) THEN Cancelled(x) ELSE request[x]
    BY <1>1, <1>6 DEF CancelAll
  <2>2. Cancelled(x) = [request[x] EXCEPT !.response = IF @ = NoResponse THEN Cancel ELSE @]
    BY DEF Cancelled
  <2>3. QED
    BY <1>1, <2>1, <2>2 DEF Entry, Unanswered
<1>7. ASSUME NEW w \in Worker, CheckActive(w) \/ Wake(w) \/ Finish(w)
      PROVE  request' = request
  BY <1>7 DEF CheckActive, Wake, Finish
<1>8. QED
  BY <1>1, <1>2, <1>3, <1>4, <1>5, <1>6, <1>7 DEF Next, Coordinates, vars

\* A worker whose call goes on as it was says what it said.
LEMMA AskerStays ==
  ASSUME IInv, [Next]_vars, NEW v \in Worker, caller'[v].request = caller[v].request,
         caller'[v].challenge = caller[v].challenge,
         \/ caller'[v].phase = caller[v].phase
         \/ {caller[v].phase, caller'[v].phase} \cap {"none", "failed", "answered"} = {}
  PROVE  Asker(v)' = Asker(v)
<1>1. CallOf(v)
  BY DEF IInv, Calls
<1>2. CASE caller[v].phase = "none"
  BY <1>2 DEF Asker
<1>3. CASE caller[v].phase # "none"
  <2>1. caller[v].request # None /\ (caller[v].phase = "answered" => ~ Unanswered(caller[v].request))
    BY <1>1, <1>3 DEF CallOf
  <2>2. ScopeOf(caller[v].request)' = ScopeOf(caller[v].request)
        /\ (caller[v].phase = "answered" => request'[caller'[v].request].response = request[caller[v].request].response)
    BY <2>1, HeldStays DEF ScopeOf
  <2>3. CASE caller[v].phase = "failed" /\ caller'[v].phase = "failed"
    BY <2>3 DEF Asker
  <2>4. CASE caller[v].phase = "answered" /\ caller'[v].phase = "answered"
    BY <2>2, <2>4 DEF Asker
  <2>5. CASE {caller[v].phase, caller'[v].phase} \cap {"none", "failed", "answered"} = {}
    BY <2>2, <2>5 DEF Asker
  <2>6. QED
    BY <1>3, <2>3, <2>4, <2>5
<1>4. QED
  BY <1>2, <1>3

\* A step in which one worker's call goes on: it says what it said, or it is told.
LEMMA CallMoves ==
  ASSUME IInv, IInv', [Next]_vars, NEW w \in Worker,
         \A v \in Worker \ {w} : caller'[v] = caller[v],
         caller'[w].request = caller[w].request, caller'[w].challenge = caller[w].challenge,
         caller[w].phase \notin {"none", "failed", "answered"}, caller'[w].phase # "none"
  PROVE  [Desk!DeskNext]_Answering
<1>1. \A v \in Worker \ {w} : Asker(v)' = Asker(v)
  BY AskerStays
<1>2. /\ Answering' = [Answering EXCEPT ![w] = Asker(w)'] /\ Answering[w] = Asker(w)
  BY <1>1 DEF Answering
<1>3. CASE caller'[w].phase \notin {"failed", "answered"}
  <2>1. Asker(w)' = Asker(w)
    BY <1>3, AskerStays
  <2>2. QED
    BY <1>1, <2>1 DEF Answering
<1>4. Asker(w) = [state |-> "waiting", scope |-> ScopeOf(caller[w].request), challenge |-> caller[w].challenge]
  BY DEF Asker
<1>5. CASE caller'[w].phase = "failed"
  <2>1. Asker(w)' = [state |-> "failed"]
    BY <1>5 DEF Asker
  <2>2. Desk!Errs(w)
    BY <1>2, <1>4, <2>1 DEF Desk!Errs, Desk!Waiting, Answering
  <2>3. QED
    BY <2>2 DEF Desk!DeskNext
<1>6. CASE caller'[w].phase = "answered"
  <2> DEFINE r == caller[w].request
             x == request'[r].response
  <2>1. CallOf(w)' /\ Requests'
    BY DEF IInv, Calls
  <2>2. r \in Request /\ request'[r].scope = request[r].scope
    BY HeldStays, <2>1, <1>6 DEF CallOf
  <2>3. /\ request'[r].challenge = caller[w].challenge
        /\ Asked(r)' /\ ~ Unanswered(r)'
    BY <1>6, <2>1, <2>2, NoneIsNoRequest DEF CallOf, Asked, Unanswered
  <2>4. x \in Desk!Fits(caller[w].challenge)
    BY <2>1, <2>2, <2>3 DEF Requests, RequestOf
  <2>5. Asker(w)' = [state |-> "answered", scope |-> ScopeOf(r), challenge |-> caller[w].challenge, reply |-> x]
    BY <1>6, <2>2 DEF Asker, ScopeOf
  <2> HIDE DEF r, x
  <2>6. /\ Answering[w].state = "waiting" /\ x \in Desk!Fits(Answering[w].challenge)
        /\ Answering' = [Answering EXCEPT ![w] = [state |-> "answered", scope |-> Answering[w].scope,
                                                challenge |-> Answering[w].challenge, reply |-> x]]
    BY <1>2, <1>4, <2>4, <2>5 DEF r
  <2>7. Desk!Replies(w)
    BY <2>6 DEF Desk!Replies, Desk!Waiting, Answering
  <2>8. QED
    BY <2>7 DEF Desk!DeskNext
<1>7. QED
  BY <1>3, <1>5, <1>6

LEMMA StepRefines ==
  IInv /\ IInv' /\ [Next]_vars => [Desk!DeskNext]_Answering
<1> SUFFICES ASSUME IInv, IInv', [Next]_vars PROVE [Desk!DeskNext]_Answering
  OBVIOUS
<1>1. caller \in [Worker -> Call]
  BY TypeParts DEF IInv
<1>2. ASSUME NEW w \in Worker, NEW s \in Scope, NEW c \in Question, Ask(w, s, c)
      PROVE  [Desk!DeskNext]_Answering
  <2>1. \A v \in Worker \ {w} : Asker(v)' = Asker(v)
    <3>1. \A v \in Worker \ {w} : caller'[v] = caller[v]
      BY <1>1, <1>2 DEF Ask
    <3>2. ASSUME NEW v \in Worker \ {w} PROVE Asker(v)' = Asker(v)
      <4>1. v \in Worker /\ caller'[v] = caller[v]
        BY <3>1, <3>2
      <4>2. QED
        BY <4>1, AskerStays
    <3>3. QED
      BY <3>2
  <2>2. PICK r \in Request : caller' = [caller EXCEPT ![w] = Calling(c, r)] /\ request'[r].scope = s
    <3>1. CASE \E r \in Identical(s, c) : caller' = [caller EXCEPT ![w] = Calling(c, r)] /\ UNCHANGED request
      <4>1. PICK r \in Identical(s, c) : caller' = [caller EXCEPT ![w] = Calling(c, r)] /\ request' = request
        BY <3>1
      <4>2. r \in Request /\ request[r].scope = s
        BY MembersAre DEF Identical, ScopeOf
      <4>3. QED
        BY <4>1, <4>2
    <3>2. CASE \E r \in NextIds : /\ request' = [request EXCEPT ![r] = Asking(s, c)]
                                  /\ caller' = [caller EXCEPT ![w] = Calling(c, r)]
      <4>1. request \in [Request -> Entry]
        BY TypeParts DEF IInv
      <4>2. PICK r \in Request : /\ request' = [request EXCEPT ![r] = Asking(s, c)]
                                 /\ caller' = [caller EXCEPT ![w] = Calling(c, r)]
        BY <3>2 DEF NextIds
      <4>3. request'[r].scope = s
        BY <4>1, <4>2 DEF Asking
      <4>4. QED
        BY <4>2, <4>3
    <3>3. QED
      BY <1>2, <3>1, <3>2 DEF Ask
  <2>3. Asker(w) = [state |-> "silent"]
    BY <1>2 DEF Ask, Asker, NoCall
  <2>4. caller'[w] = [phase |-> "check", challenge |-> c, request |-> r, next |-> None]
    BY <1>1, <2>2 DEF Calling
  <2>5. Asker(w)' = [state |-> "waiting", scope |-> s, challenge |-> c]
    BY <2>2, <2>4 DEF Asker, ScopeOf
  <2>6. Answering[w] = [state |-> "silent"]
        /\ Answering' = [Answering EXCEPT ![w] = [state |-> "waiting", scope |-> s, challenge |-> c]]
    BY <2>1, <2>3, <2>5 DEF Answering
  <2>7. Desk!Asks(w, s, c)
    BY <2>6 DEF Desk!Asks, Desk!Silent, Answering
  <2>8. c \in Desk!Challenge
    BY SshVerificationAssumption DEF Desk!Challenge, Desk!CredentialKind, Desk!HostKeyKind
  <2>9. QED
    BY <2>7, <2>8 DEF Desk!DeskNext
<1>3. ASSUME NEW w \in Worker, CheckActive(w) \/ Emit(w) \/ EmitFails(w) \/ Wake(w) \/ Finish(w)
      PROVE  [Desk!DeskNext]_Answering
  <2>1. \A v \in Worker \ {w} : caller'[v] = caller[v]
    BY <1>1, <1>3 DEF CheckActive, Emit, EmitFails, Wake, Finish
  <2>2. /\ caller'[w].request = caller[w].request /\ caller'[w].challenge = caller[w].challenge
        /\ caller[w].phase \notin {"none", "failed", "answered"}
    BY <1>1, <1>3 DEF CheckActive, Emit, EmitFails, Wake, Finish, Call
  <2>3. caller'[w].phase # "none"
    <3>1. CallOf(w) /\ CallOf(w)' /\ caller[w] \in Call
      BY <1>1 DEF IInv, Calls
    <3>2. QED
      BY <2>2, <3>1 DEF CallOf
  <2>4. QED
    BY <2>1, <2>2, <2>3, CallMoves
<1>4. ASSUME NEW w \in Worker, Returns(w)
      PROVE  [Desk!DeskNext]_Answering
  <2>1. \A v \in Worker \ {w} : Asker(v)' = Asker(v)
    <3>1. \A v \in Worker \ {w} : caller'[v] = caller[v]
      BY <1>1, <1>4 DEF Returns
    <3>2. QED
      BY <3>1, AskerStays
  <2>2. caller'[w] = NoCall /\ caller[w].phase \in {"answered", "failed"}
    BY <1>1, <1>4 DEF Returns
  <2>3. Asker(w).state \in {"answered", "failed"} /\ Asker(w)' = [state |-> "silent"]
    BY <2>2 DEF Asker, NoCall
  <2>4. /\ Answering[w].state \in {"answered", "failed"}
        /\ Answering' = [Answering EXCEPT ![w] = [state |-> "silent"]]
    BY <2>1, <2>3 DEF Answering
  <2>5. Desk!Takes(w)
    BY <2>4 DEF Desk!Takes, Desk!Replied, Desk!Silent, Answering
  <2>6. QED
    BY <2>5 DEF Desk!DeskNext
<1>5. ASSUME UNCHANGED caller
      PROVE  [Desk!DeskNext]_Answering
  <2>1. \A v \in Worker : Asker(v)' = Asker(v)
    BY <1>5, AskerStays
  <2>2. QED
    BY <2>1 DEF Answering
<1>6. QED
  BY <1>2, <1>3, <1>4, <1>5 DEF Next, Coordinates, Submit, CancelAll, vars

LEMMA InitRefines == Init => Desk!DeskInit
<1> SUFFICES ASSUME Init PROVE Desk!DeskInit
  OBVIOUS
<1>1. \A w \in Worker : Asker(w) = [state |-> "silent"]
  BY DEF Init, Asker, NoCall
<1>2. QED
  BY <1>1 DEF Desk!DeskInit, Desk!Silent

\* VerificationDesk is implemented: whoever shares, cancels or answers what, a worker is told
\* nothing but an answer to its own question, a cancellation, or an error (request_verification).
THEOREM AnswersQuestion == Spec => AnswersTheQuestion
<1>1. IInv /\ IInv' /\ [Next]_vars => [Desk!DeskNext]_[w \in Worker |-> Asker(w)]
  BY StepRefines DEF Answering
<1>2. QED
  BY InitKeeps, NextKeeps, InitRefines, <1>1, PTL DEF Spec, AnswersTheQuestion, Desk!DeskSpec

=============================================================================
