------------------------ MODULE PortForwardingProofs ------------------------
(* Theorems about PortForwarding for every number of rules and workers and   *)
(* every bound on the commands a worker may hold.                            *)
EXTENDS PortForwarding, TLAPS

-----------------------------------------------------------------------------
(* Sequences of commands in which only the last may be other than a start.   *)

FrontStarts(q) == \A i \in 1 .. Len(q) - 1 : q[i].op = "start"
EndsWith(q, op) == q # <<>> /\ q[Len(q)].op = op

\* A command may be sent after starts, and is then the last one.
LEMMA AppendFacts ==
    ASSUME NEW q \in Seq(Commands), NEW c \in Commands,
           FrontStarts(q), q = <<>> \/ EndsWith(q, "start")
    PROVE  /\ Append(q, c) \in Seq(Commands)
           /\ FrontStarts(Append(q, c))
           /\ Append(q, c) # <<>>
           /\ Append(q, c)[Len(Append(q, c))] = c
<1>1. /\ Append(q, c) \in Seq(Commands) /\ Len(Append(q, c)) = Len(q) + 1
      /\ Len(q) \in Nat /\ Append(q, c)[Len(q) + 1] = c
  OBVIOUS
<1>2. \A i \in 1 .. Len(q) : Append(q, c)[i] = q[i] /\ q[i].op = "start"
  <2>1. SUFFICES ASSUME NEW i \in 1 .. Len(q) PROVE Append(q, c)[i] = q[i] /\ q[i].op = "start"
    OBVIOUS
  <2>2. Append(q, c)[i] = q[i]
    OBVIOUS
  <2>3. CASE i = Len(q)
    BY <2>2, <2>3 DEF EndsWith
  <2>4. CASE i \in 1 .. Len(q) - 1
    BY <2>2, <2>4 DEF FrontStarts
  <2>5. QED
    BY <2>3, <2>4
<1>3. FrontStarts(Append(q, c))
  BY <1>1, <1>2 DEF FrontStarts
<1>4. Append(q, c) # <<>>
  <2>1. Len(<<>>) = 0
    OBVIOUS
  <2>2. QED
    BY <1>1, <2>1
<1>5. QED
  BY <1>1, <1>3, <1>4

\* What is left when the first command is taken.
LEMMA TailFacts ==
    ASSUME NEW q \in Seq(Commands), FrontStarts(q), q # <<>>
    PROVE  /\ Tail(q) \in Seq(Commands)
           /\ FrontStarts(Tail(q))
           /\ Tail(q) # <<>> => Head(q).op = "start" /\ Tail(q)[Len(Tail(q))] = q[Len(q)]
           /\ Tail(q) = <<>> => Head(q) = q[Len(q)]
<1>1. /\ Tail(q) \in Seq(Commands) /\ Len(Tail(q)) = Len(q) - 1
      /\ Len(q) \in Nat \ {0} /\ Len(q) \in Int
      /\ \A i \in 1 .. Len(q) - 1 : Tail(q)[i] = q[i + 1]
  OBVIOUS
<1>2. FrontStarts(Tail(q))
  BY <1>1 DEF FrontStarts
<1>3. ASSUME Tail(q) # <<>>
      PROVE  Head(q).op = "start" /\ Tail(q)[Len(Tail(q))] = q[Len(q)]
  <2>1. Len(q) > 1
    BY <1>1, <1>3
  <2>2. QED
    BY <1>1, <2>1 DEF FrontStarts
<1>4. ASSUME Tail(q) = <<>> PROVE Head(q) = q[Len(q)]
  <2>1. Len(<<>>) = 0
    OBVIOUS
  <2>2. Len(Tail(q)) = 0
    BY <1>4, <2>1, Zenon
  <2>3. Len(q) = 1
    <3>1. Len(q) \in Int /\ Len(q) - 1 = 0
      BY <1>1, <2>2, Zenon
    <3>2. QED
      BY <3>1
  <2>4. Head(q) = q[1]
    OBVIOUS
  <2>5. QED
    BY <2>3, <2>4
<1>5. QED
  BY <1>1, <1>2, <1>3, <1>4

\* The innermost wait and those around it.
LEMMA WaitFacts ==
    ASSUME NEW S, NEW s \in Seq(S), s # <<>>
    PROVE  Front(s) \in Seq(S) /\ Last(s) \in S
<1>1. Len(s) \in Nat \ {0}
  OBVIOUS
<1>2. Last(s) \in S
  BY <1>1 DEF Last
<1>3. Front(s) \in Seq(S)
  BY <1>1 DEF Front
<1>4. QED
  BY <1>2, <1>3

\* StopAll is found in a channel exactly when it comes last.
LEMMA StopAllComesLast ==
    ASSUME NEW q \in Seq(Commands), FrontStarts(q)
    PROVE  StopAll \in Range(q) <=> EndsWith(q, "stopAll")
<1>1. Range(q) = {q[i] : i \in 1 .. Len(q)} /\ Len(q) \in Nat
  BY DEF Range
<1>2. ASSUME StopAll \in Range(q) PROVE EndsWith(q, "stopAll")
  <2>1. PICK i \in 1 .. Len(q) : q[i] = StopAll
    BY <1>1, <1>2
  <2>2. q[i].op # "start"
    BY <2>1 DEF StopAll
  <2>3. i = Len(q)
    BY <1>1, <2>2 DEF FrontStarts
  <2>4. QED
    BY <2>1, <2>3 DEF StopAll, EndsWith
<1>3. ASSUME EndsWith(q, "stopAll") PROVE StopAll \in Range(q)
  <2>1. Len(q) \in 1 .. Len(q) /\ q[Len(q)] \in Commands /\ q[Len(q)].op = "stopAll"
    BY <1>1, <1>3 DEF EndsWith
  <2>2. q[Len(q)] = StopAll
    BY <2>1 DEF Commands, StartOf, StopOf, StopAll
  <2>3. QED
    BY <1>1, <2>1, <2>2
<1>4. QED
  BY <1>2, <1>3

-----------------------------------------------------------------------------
(* Type correctness, with the rule of every job.                             *)

Working == Phases \ {"dead", "recv", "stopAll"}
JobHasRule == \A w \in Workers : worker[w].phase \in Working => worker[w].rule \in Rules

Typed == TypeOK /\ JobHasRule

\* A worker state stays one when its fields are replaced by others of their types.
LEMMA WorkerStateFacts ==
    ASSUME NEW s \in WorkerStates, NEW p \in Phases, NEW r \in Rules \cup {NoRule},
           NEW l \in Seq(Rules), NEW b \in BOOLEAN
    PROVE  /\ [s EXCEPT !.phase = p] \in WorkerStates
           /\ [s EXCEPT !.waits = l] \in WorkerStates
           /\ [s EXCEPT !.session = b] \in WorkerStates
           /\ [s EXCEPT !.phase = p, !.session = b] \in WorkerStates
           /\ [s EXCEPT !.phase = p, !.rule = r, !.waits = l] \in WorkerStates
           /\ s.waits \in Seq(Rules)
BY DEF WorkerStates

\* Finding or making a worker and sending it a start keeps the types.
LEMMA StartTyped ==
    ASSUME Typed, NEW r \in Rules, StartOn(r)
    PROVE  /\ status' \in [Rules -> Statuses]
           /\ handle' \in Workers \cup {NoWorker}
           /\ queue' \in [Workers -> Seq(Commands)]
           /\ worker' \in [Workers -> WorkerStates]
           /\ JobHasRule'
<1>1. StartOf(r) \in Commands
  BY DEF Commands
<1>2. status' \in [Rules -> Statuses]
  BY DEF StartOn, Typed, TypeOK, Statuses
<1>3. CASE /\ handle # NoWorker
           /\ queue' = Send(handle, StartOf(r))
           /\ UNCHANGED <<handle, worker>>
  <2>1. queue' \in [Workers -> Seq(Commands)]
    BY <1>1, <1>3 DEF Send, Typed, TypeOK
  <2>2. QED
    BY <1>2, <1>3, <2>1 DEF Typed, TypeOK, JobHasRule
<1>4. ASSUME NEW w \in Workers, ~Alive(w), handle' = w,
             worker' = [worker EXCEPT ![w].phase = "recv"],
             queue' = [queue EXCEPT ![w] = <<StartOf(r)>>]
      PROVE  /\ handle' \in Workers \cup {NoWorker}
             /\ queue' \in [Workers -> Seq(Commands)]
             /\ worker' \in [Workers -> WorkerStates]
             /\ JobHasRule'
  <2>1. <<StartOf(r)>> \in Seq(Commands)
    BY <1>1
  <2>2. queue' \in [Workers -> Seq(Commands)]
    BY <1>4, <2>1 DEF Typed, TypeOK
  <2>3. worker[w] \in WorkerStates /\ "recv" \in Phases
    BY DEF Typed, TypeOK, Phases
  <2>4. [worker[w] EXCEPT !.phase = "recv"] \in WorkerStates
    BY <2>3 DEF WorkerStates
  <2>5. worker' \in [Workers -> WorkerStates]
    BY <1>4, <2>4 DEF Typed, TypeOK
  <2>6. JobHasRule'
    BY <1>4, <2>3 DEF Typed, TypeOK, JobHasRule, Working, WorkerStates
  <2>7. QED
    BY <1>4, <2>2, <2>5, <2>6
<1>5. QED
  BY <1>2, <1>3, <1>4 DEF StartOn

\* Changing the state of one worker keeps the types when it stays typed itself.
LEMMA WorkerTyped ==
    ASSUME Typed, NEW w \in Workers, NEW s \in WorkerStates,
           s.phase \in Working => s.rule \in Rules,
           worker' = [worker EXCEPT ![w] = s]
    PROVE  worker' \in [Workers -> WorkerStates] /\ JobHasRule'
<1>1. worker' \in [Workers -> WorkerStates]
  BY DEF Typed, TypeOK
<1>2. JobHasRule'
  BY DEF Typed, TypeOK, JobHasRule
<1>3. QED
  BY <1>1, <1>2

\* The first step of an attempt keeps the types.
LEMMA BeginTyped ==
    ASSUME Typed, NEW w \in Workers, NEW r \in Rules, NEW waits \in Seq(Rules),
           BeginStart(w, r, waits)
    PROVE  /\ worker' \in [Workers -> WorkerStates] /\ JobHasRule'
           /\ listener' \in [Workers -> [Rules -> {"off", "on", "failed"}]]
<1>1. PICK p \in {"bind", "connect"} :
         worker' = [worker EXCEPT ![w] = [worker[w] EXCEPT !.phase = p, !.rule = r, !.waits = waits]]
  BY DEF BeginStart
<1>2. worker[w] \in WorkerStates /\ p \in Phases
  BY DEF Typed, TypeOK, Phases
<1>3. [worker[w] EXCEPT !.phase = p, !.rule = r, !.waits = waits] \in WorkerStates
  BY <1>2 DEF WorkerStates
<1>4. [worker[w] EXCEPT !.phase = p, !.rule = r, !.waits = waits].rule = r
  BY <1>2 DEF WorkerStates
<1>5. worker' \in [Workers -> WorkerStates] /\ JobHasRule'
  BY <1>1, <1>3, <1>4, WorkerTyped
<1>6. listener' \in [Workers -> [Rules -> {"off", "on", "failed"}]]
  BY DEF BeginStart, Unlisten, Typed, TypeOK
<1>7. QED
  BY <1>5, <1>6

\* Moving a worker between phases of the same kind keeps the types.
LEMMA PhaseTyped ==
    ASSUME Typed, NEW w \in Workers, NEW p \in Phases, NEW b \in BOOLEAN,
           worker[w].phase \in Working \/ p \notin Working,
           \/ worker' = [worker EXCEPT ![w].phase = p]
           \/ worker' = [worker EXCEPT ![w].phase = p, ![w].session = b]
    PROVE  worker' \in [Workers -> WorkerStates] /\ JobHasRule'
<1>1. worker[w] \in WorkerStates
  BY DEF Typed, TypeOK
<1>2. worker[w].phase \in Working => worker[w].rule \in Rules
  BY DEF Typed, JobHasRule
<1>3. CASE worker' = [worker EXCEPT ![w] = [worker[w] EXCEPT !.phase = p]]
  <2>1. [worker[w] EXCEPT !.phase = p] \in WorkerStates
    BY <1>1 DEF WorkerStates
  <2>2. /\ [worker[w] EXCEPT !.phase = p].phase = p
        /\ [worker[w] EXCEPT !.phase = p].rule = worker[w].rule
    BY <1>1 DEF WorkerStates
  <2>3. QED
    BY <1>2, <1>3, <2>1, <2>2, WorkerTyped
<1>4. CASE worker' = [worker EXCEPT ![w] = [worker[w] EXCEPT !.phase = p, !.session = b]]
  <2>1. [worker[w] EXCEPT !.phase = p, !.session = b] \in WorkerStates
    BY <1>1 DEF WorkerStates
  <2>2. /\ [worker[w] EXCEPT !.phase = p, !.session = b].phase = p
        /\ [worker[w] EXCEPT !.phase = p, !.session = b].rule = worker[w].rule
    BY <1>1 DEF WorkerStates
  <2>3. QED
    BY <1>2, <1>4, <2>1, <2>2, WorkerTyped
<1>5. QED
  BY <1>3, <1>4

\* A worker that ends keeps the types.
LEMMA DeadTyped ==
    ASSUME Typed, NEW w \in Workers, worker' = [worker EXCEPT ![w] = Dead]
    PROVE  worker' \in [Workers -> WorkerStates] /\ JobHasRule'
<1>1. Dead \in WorkerStates /\ Dead.phase \notin Working
  BY DEF Dead, WorkerStates, Phases, Working
<1>2. QED
  BY <1>1, WorkerTyped

\* The end of an attempt keeps the types.
LEMMA MarkTyped ==
    ASSUME Typed, NEW w \in Workers, NEW p, NEW result \in Statuses, NEW waits \in Seq(Rules),
           Mark(w, p, result, waits)
    PROVE  Typed'
<1>1. worker[w] \in WorkerStates /\ "recv" \in Phases /\ "recv" \notin Working
  BY DEF Typed, TypeOK, Phases, Working
<1> DEFINE s == [worker[w] EXCEPT !.phase = "recv", !.rule = NoRule, !.waits = waits]
<1>2. s \in WorkerStates /\ s.phase = "recv"
  BY <1>1 DEF WorkerStates
<1>3. worker' = [worker EXCEPT ![w] = s]
  BY DEF Mark
<1>4. worker' \in [Workers -> WorkerStates] /\ JobHasRule'
  <2> HIDE DEF s
  <2>1. QED
    BY <1>1, <1>2, <1>3, WorkerTyped
<1>5. status' \in [Rules -> Statuses]
  BY DEF Mark, Typed, TypeOK
<1>6. QED
  BY <1>4, <1>5 DEF Mark, Typed, TypeOK

\* The initial states are well typed.
LEMMA InitTyped == Init => Typed
<1> SUFFICES ASSUME Init PROVE Typed
  OBVIOUS
<1>1. kind \in [Rules -> {"none", "temporary", "saved", "deleted"}]
  BY DEF Init
<1>2. status \in [Rules -> Statuses] /\ open \in BOOLEAN /\ handle \in Workers \cup {NoWorker}
  BY DEF Init, Statuses
<1>3. main \in [op : {"idle", "stop", "stopped", "open", "close"},
                rule : Rules \cup {NoRule}, todo : SUBSET Rules]
  BY DEF Init, Idle
<1>4. queue \in [Workers -> Seq(Commands)]
  BY DEF Init
<1>5. Dead \in WorkerStates /\ Dead.phase \notin Working
  BY DEF Dead, WorkerStates, Phases, Working
<1>6. worker \in [Workers -> WorkerStates] /\ JobHasRule
  BY <1>5 DEF Init, JobHasRule
<1>7. listener \in [Workers -> [Rules -> {"off", "on", "failed"}]]
  BY DEF Init
<1>8. QED
  BY <1>1, <1>2, <1>3, <1>4, <1>6, <1>7 DEF Typed, TypeOK

\* Each step keeps the types.
LEMMA StepTyped == Typed /\ [Next]_vars => Typed'
<1> SUFFICES ASSUME Typed, [Next]_vars PROVE Typed'
  OBVIOUS
<1>0. TypeOK /\ JobHasRule
  BY DEF Typed
<1>1. ASSUME NEW r \in Rules, NEW k \in {"temporary", "saved"}, NEW endpoint \in BOOLEAN,
             SaveRule(r, k, endpoint)
      PROVE  Typed'
  <2>1. kind' \in [Rules -> {"none", "temporary", "saved", "deleted"}]
    BY <1>0, <1>1 DEF SaveRule, TypeOK
  <2>2. CASE StartOn(r)
    BY <1>0, <1>1, <2>1, <2>2, StartTyped DEF SaveRule, Typed, TypeOK
  <2>3. CASE UNCHANGED <<status, handle, worker, queue>>
    BY <1>0, <1>1, <2>1, <2>3 DEF SaveRule, Typed, TypeOK, JobHasRule
  <2>4. QED
    BY <1>1, <2>2, <2>3 DEF SaveRule
<1>2. ASSUME NEW r \in Rules, DeleteRule(r) PROVE Typed'
  <2>1. kind' \in [Rules -> {"none", "temporary", "saved", "deleted"}]
    BY <1>0, <1>2 DEF DeleteRule, TypeOK
  <2>2. status' \in [Rules -> Statuses]
    BY <1>0, <1>2 DEF DeleteRule, TypeOK, Statuses
  <2>3. QED
    BY <1>0, <1>2, <2>1, <2>2 DEF DeleteRule, Typed, TypeOK, JobHasRule
<1>3. ASSUME NEW r \in Rules, StartCommand(r) PROVE Typed'
  BY <1>0, <1>3, StartTyped DEF StartCommand, Typed, TypeOK
<1>4. ASSUME NEW r \in Rules, StopCommand(r) PROVE Typed'
  <2>1. StopOf(r) \in Commands
    BY DEF Commands
  <2>2. queue' \in [Workers -> Seq(Commands)]
    <3>1. CASE queue' = queue
      BY <1>0, <3>1 DEF TypeOK
    <3>2. CASE handle \in Workers /\ queue' = [queue EXCEPT ![handle] = Append(@, StopOf(r))]
      BY <1>0, <2>1, <3>2 DEF TypeOK
    <3>3. QED
      BY <1>0, <1>4, <3>1, <3>2 DEF StopCommand, Send, TypeOK
  <2>3. main' \in [op : {"idle", "stop", "stopped", "open", "close"},
                   rule : Rules \cup {NoRule}, todo : SUBSET Rules]
    BY <1>4 DEF StopCommand, Idle
  <2>4. QED
    BY <1>0, <1>4, <2>2, <2>3 DEF StopCommand, Typed, TypeOK, JobHasRule
<1>5. CASE StopDone
  <2>1. status' \in [Rules -> Statuses]
    BY <1>0, <1>5 DEF StopDone, TypeOK, Statuses
  <2>2. main' \in [op : {"idle", "stop", "stopped", "open", "close"},
                   rule : Rules \cup {NoRule}, todo : SUBSET Rules]
    BY <1>5 DEF StopDone, Idle
  <2>3. QED
    BY <1>0, <1>5, <2>1, <2>2 DEF StopDone, Typed, TypeOK, JobHasRule
<1>6. ASSUME NEW auto \in SUBSET Rules, OpenHost(auto) PROVE Typed'
  <2>1. main' \in [op : {"idle", "stop", "stopped", "open", "close"},
                   rule : Rules \cup {NoRule}, todo : SUBSET Rules]
    BY <1>6 DEF OpenHost, Idle
  <2>2. QED
    BY <1>0, <1>6, <2>1 DEF OpenHost, Typed, TypeOK, JobHasRule
<1>7. CASE OpenNext
  <2>1. ASSUME NEW r \in main.todo, StartOn(r), main' = [main EXCEPT !.todo = @ \ {r}]
        PROVE  Typed'
    <3>1. r \in Rules
      BY <1>0 DEF TypeOK
    <3>2. main' \in [op : {"idle", "stop", "stopped", "open", "close"},
                     rule : Rules \cup {NoRule}, todo : SUBSET Rules]
      BY <1>0, <2>1 DEF TypeOK
    <3>3. QED
      BY <1>0, <1>7, <2>1, <3>1, <3>2, StartTyped DEF OpenNext, Typed, TypeOK
  <2>2. CASE main' = Idle /\ UNCHANGED <<status, handle, queue, worker>>
    <3>1. main' \in [op : {"idle", "stop", "stopped", "open", "close"},
                     rule : Rules \cup {NoRule}, todo : SUBSET Rules]
      BY <2>2 DEF Idle
    <3>2. QED
      BY <1>0, <1>7, <2>2, <3>1 DEF OpenNext, Typed, TypeOK, JobHasRule
  <2>3. QED
    BY <1>7, <2>1, <2>2 DEF OpenNext
<1>8. CASE CloseBegin
  <2>1. \A w \in Workers : [worker[w] EXCEPT !.phase = "refused"] \in WorkerStates
    <3>1. SUFFICES ASSUME NEW w \in Workers
                   PROVE  [worker[w] EXCEPT !.phase = "refused"] \in WorkerStates
      OBVIOUS
    <3>2. worker[w] \in WorkerStates /\ "refused" \in Phases
      BY <1>0 DEF TypeOK, Phases
    <3>3. QED
      BY <3>2 DEF WorkerStates
  <2>2. worker' \in [Workers -> WorkerStates]
    BY <1>0, <1>8, <2>1 DEF CloseBegin, TypeOK
  <2>3. \A w \in Workers : worker'[w].phase \in Working => worker'[w].rule \in Rules
    <3>1. SUFFICES ASSUME NEW w \in Workers, worker'[w].phase \in Working
                   PROVE  worker'[w].rule \in Rules
      OBVIOUS
    <3>2. worker[w] \in WorkerStates
      BY <1>0 DEF TypeOK
    <3>3. CASE worker[w].phase = "prompt"
      BY <1>0, <1>8, <3>2, <3>3 DEF CloseBegin, JobHasRule, WorkerStates, Working, Phases
    <3>4. CASE worker[w].phase # "prompt"
      BY <1>0, <1>8, <3>1, <3>4 DEF CloseBegin, JobHasRule
    <3>5. QED
      BY <3>3, <3>4
  <2>4. main' \in [op : {"idle", "stop", "stopped", "open", "close"},
                   rule : Rules \cup {NoRule}, todo : SUBSET Rules]
    BY <1>8 DEF CloseBegin, Idle
  <2>5. QED
    BY <1>0, <1>8, <2>2, <2>3, <2>4 DEF CloseBegin, Typed, TypeOK, JobHasRule
<1>9. CASE CloseEnd
  <2>1. kind' \in [Rules -> {"none", "temporary", "saved", "deleted"}]
    BY <1>0, <1>9 DEF CloseEnd, TypeOK
  <2>2. StopAll \in Commands
    BY DEF Commands
  <2>3. queue' \in [Workers -> Seq(Commands)]
    BY <1>0, <1>9, <2>2 DEF CloseEnd, Send, TypeOK
  <2>4. main' \in [op : {"idle", "stop", "stopped", "open", "close"},
                   rule : Rules \cup {NoRule}, todo : SUBSET Rules]
    BY <1>9 DEF CloseEnd, Idle
  <2>5. /\ status' \in [Rules -> Statuses] /\ open' \in BOOLEAN
        /\ handle' \in Workers \cup {NoWorker}
    BY <1>9 DEF CloseEnd, HandleAfterClose, Statuses
  <2>6. QED
    BY <1>0, <1>9, <2>1, <2>3, <2>4, <2>5 DEF CloseEnd, Typed, TypeOK, JobHasRule
<1>10. ASSUME NEW w \in Workers, WorkerStep(w) \/ AnswerPrompt(w) PROVE Typed'
  <2>0. /\ worker[w] \in WorkerStates /\ queue[w] \in Seq(Commands)
        /\ worker[w].waits \in Seq(Rules) /\ worker[w].session \in BOOLEAN
        /\ worker[w].rule \in Rules \cup {NoRule}
    BY <1>0 DEF TypeOK, WorkerStates
  <2>1. CASE TakeStart(w)
    <3>1. queue' \in [Workers -> Seq(Commands)]
      BY <1>0, <2>0, <2>1 DEF TakeStart, Receives, TypeOK
    <3>2. QED
      BY <1>0, <2>0, <2>1, <3>1, BeginTyped DEF TakeStart, Typed, TypeOK
  <2>2. CASE Retry(w)
    <3>1. Last(worker[w].waits) \in Rules /\ Front(worker[w].waits) \in Seq(Rules)
      BY <2>0, <2>2, WaitFacts DEF Retry
    <3>2. QED
      BY <1>0, <2>2, <3>1, BeginTyped DEF Retry, Typed, TypeOK
  <2>3. CASE GiveUp(w)
    <3>1. Front(worker[w].waits) \in Seq(Rules)
      BY <2>0, <2>3, WaitFacts DEF GiveUp
    <3> DEFINE s == [worker[w] EXCEPT !.waits = Front(worker[w].waits)]
    <3>2. s \in WorkerStates /\ s.phase = worker[w].phase /\ s.rule = worker[w].rule
      BY <2>0, <3>1 DEF WorkerStates
    <3>3. worker' = [worker EXCEPT ![w] = s]
      BY <2>3 DEF GiveUp
    <3>4. worker' \in [Workers -> WorkerStates] /\ JobHasRule'
      <4> HIDE DEF s
      <4>1. QED
        BY <1>0, <3>2, <3>3, WorkerTyped DEF JobHasRule
    <3>5. QED
      BY <1>0, <2>3, <3>4 DEF GiveUp, Typed, TypeOK
  <2>4. CASE TakeStop(w)
    <3>1. PICK r \in Rules :
             /\ Receives(w, StopOf(r))
             /\ queue' = [queue EXCEPT ![w] = Tail(@)]
             /\ listener' = Unlisten(w, r)
             /\ status' = [status EXCEPT ![r] = "stopped"]
             /\ handle' = IF IdleWithout(w, r) THEN NoWorker ELSE handle
             /\ worker' = [worker EXCEPT ![w].session = @ /\ ~IdleWithout(w, r)]
             /\ main' = [main EXCEPT !.op = "stopped"]
      BY <2>4 DEF TakeStop
    <3>2. queue' \in [Workers -> Seq(Commands)]
      BY <1>0, <2>0, <3>1 DEF Receives, TypeOK
    <3>3. listener' \in [Workers -> [Rules -> {"off", "on", "failed"}]]
      BY <1>0, <3>1 DEF Unlisten, TypeOK
    <3>4. status' \in [Rules -> Statuses] /\ handle' \in Workers \cup {NoWorker}
      BY <1>0, <3>1 DEF TypeOK, Statuses
    <3>5. main' \in [op : {"idle", "stop", "stopped", "open", "close"},
                     rule : Rules \cup {NoRule}, todo : SUBSET Rules]
      BY <1>0, <3>1 DEF TypeOK
    <3>6. PICK b \in BOOLEAN : worker' = [worker EXCEPT ![w] = [worker[w] EXCEPT !.session = b]]
      BY <3>1
    <3>7. [worker[w] EXCEPT !.session = b] \in WorkerStates
      BY <2>0 DEF WorkerStates
    <3>8. /\ [worker[w] EXCEPT !.session = b].phase = worker[w].phase
          /\ [worker[w] EXCEPT !.session = b].rule = worker[w].rule
      BY <2>0 DEF WorkerStates
    <3>9. worker' \in [Workers -> WorkerStates] /\ JobHasRule'
      BY <1>0, <3>6, <3>7, <3>8, WorkerTyped DEF JobHasRule
    <3>10. kind' = kind /\ open' = open
      BY <2>4 DEF TakeStop
    <3>11. QED
      BY <1>0, <3>2, <3>3, <3>4, <3>5, <3>9, <3>10 DEF Typed, TypeOK
  <2>5. CASE TakeStopAll(w)
    <3>1. queue' \in [Workers -> Seq(Commands)]
      BY <1>0, <2>0, <2>5 DEF TakeStopAll, Receives, TypeOK
    <3>2. "stopAll" \in Phases /\ "stopAll" \notin Working
      BY DEF Phases, Working
    <3>3. worker' \in [Workers -> WorkerStates] /\ JobHasRule'
      BY <2>5, <3>2, PhaseTyped DEF TakeStopAll
    <3>4. QED
      BY <1>0, <2>5, <3>1, <3>3 DEF TakeStopAll, Typed, TypeOK
  <2>6. CASE StopNext(w)
    <3>1. ASSUME NEW r \in Active(w), listener' = Unlisten(w, r),
                 status' = [status EXCEPT ![r] = "stopped"], UNCHANGED worker
          PROVE  Typed'
      <4>1. r \in Rules
        BY DEF Active
      <4>2. /\ listener' \in [Workers -> [Rules -> {"off", "on", "failed"}]]
            /\ status' \in [Rules -> Statuses]
        BY <1>0, <3>1, <4>1 DEF Unlisten, TypeOK, Statuses
      <4>3. QED
        BY <1>0, <2>6, <3>1, <4>2 DEF StopNext, Typed, TypeOK, JobHasRule
    <3>2. CASE worker' = [worker EXCEPT ![w] = Dead] /\ UNCHANGED <<status, listener>>
      BY <1>0, <2>6, <3>2, DeadTyped DEF StopNext, Typed, TypeOK
    <3>3. QED
      BY <2>6, <3>1, <3>2 DEF StopNext
  <2>7. CASE Disconnected(w)
    BY <1>0, <2>7, DeadTyped DEF Disconnected, Typed, TypeOK
  <2>8. ASSUME NEW p \in Phases, NEW b \in BOOLEAN, worker[w].phase \in Working,
               \/ worker' = [worker EXCEPT ![w].phase = p]
               \/ worker' = [worker EXCEPT ![w].phase = p, ![w].session = b],
               listener' \in [Workers -> [Rules -> {"off", "on", "failed"}]],
               UNCHANGED <<kind, status, open, handle, main, queue>>
        PROVE  Typed'
    BY <1>0, <2>8, PhaseTyped DEF Typed, TypeOK
  <2>9. CASE ConnectOk(w)
    BY <1>0, <2>8, <2>9 DEF ConnectOk, TypeOK, Phases, Working
  <2>10. CASE ConnectPrompts(w)
    BY <1>0, <2>8, <2>10 DEF ConnectPrompts, Goto, TypeOK, Phases, Working
  <2>11. CASE AnswerPrompt(w)
    BY <1>0, <2>8, <2>11 DEF AnswerPrompt, Goto, TypeOK, Phases, Working
  <2>12. CASE ConnectFails(w)
    <3>1. Verdict(worker[w].rule) \in Phases
      BY DEF Verdict, Phases
    <3>2. (worker[w].session /\ Verdict(worker[w].rule) = "markFailed") \in BOOLEAN
      OBVIOUS
    <3>3. QED
      BY <1>0, <2>8, <2>12, <3>1, <3>2 DEF ConnectFails, FailTo, TypeOK, Phases, Working
  <2>13. CASE BindFails(w)
    <3>1. PICK p \in {"markFailed", Verdict(worker[w].rule)} : FailTo(w, p)
      BY <2>13 DEF BindFails
    <3>2. p \in Phases
      BY DEF Verdict, Phases
    <3>3. (worker[w].session /\ p = "markFailed") \in BOOLEAN
      OBVIOUS
    <3>4. QED
      BY <1>0, <2>8, <2>13, <3>1, <3>2, <3>3 DEF BindFails, FailTo, TypeOK, Phases, Working
  <2>14. CASE BindOk(w)
    <3>1. worker[w].phase \in Working /\ "markRunning" \in Phases
      BY <2>14 DEF BindOk, Working, Phases
    <3>2. listener' \in [Workers -> [Rules -> {"off", "on", "failed"}]]
      BY <1>0, <2>14, <3>1 DEF BindOk, TypeOK, JobHasRule
    <3>3. QED
      BY <2>8, <2>14, <3>1, <3>2 DEF BindOk, Goto
  <2>15. CASE MarkRunning(w)
    BY <2>0, <2>15, MarkTyped DEF MarkRunning, Statuses
  <2>16. CASE MarkFailed(w)
    BY <2>0, <2>16, MarkTyped DEF MarkFailed, Statuses
  <2>17. CASE MarkReconnecting(w)
    <3>1. worker[w].rule \in Rules
      BY <1>0, <2>17 DEF MarkReconnecting, Mark, JobHasRule, Working, Phases
    <3>2. Append(worker[w].waits, worker[w].rule) \in Seq(Rules)
      BY <2>0, <3>1
    <3>3. QED
      BY <2>17, <3>2, MarkTyped DEF MarkReconnecting, Statuses
  <2>18. QED
    BY <1>10, <2>1, <2>2, <2>3, <2>4, <2>5, <2>6, <2>7, <2>9, <2>10, <2>11, <2>12,
       <2>13, <2>14, <2>15, <2>16, <2>17 DEF WorkerStep
<1>11. ASSUME NEW w \in Workers, NEW r \in Rules, ListenerFails(w, r) PROVE Typed'
  <2>1. /\ listener' \in [Workers -> [Rules -> {"off", "on", "failed"}]]
        /\ status' \in [Rules -> Statuses]
    BY <1>0, <1>11 DEF ListenerFails, TypeOK, Statuses
  <2>2. QED
    BY <1>0, <1>11, <2>1 DEF ListenerFails, Typed, TypeOK, JobHasRule
<1>12. CASE UNCHANGED vars
  BY <1>0, <1>12 DEF vars, Typed, TypeOK, JobHasRule
<1>13. QED
  BY <1>1, <1>2, <1>3, <1>4, <1>5, <1>6, <1>7, <1>8, <1>9, <1>10, <1>11, <1>12
     DEF Next, Command, MainStep

\* Every reachable state of the port forwards of a host is well typed.
THEOREM PortsTypeCorrect == Spec => []TypeOK
<1>1. Spec => []Typed
  BY InitTyped, StepTyped, PTL DEF Spec
<1>2. Typed => TypeOK
  BY DEF Typed
<1>3. QED
  BY <1>1, <1>2, PTL

-----------------------------------------------------------------------------
(* The invariant behind the safety properties: which commands a channel may  *)
(* hold, who reads it, and what a worker that nobody can reach still does.   *)

\* A stop or a stop of everything is the last command of its channel.
InOrder == \A w \in Workers : FrontStarts(queue[w])

\* The one stop there may be is that of the main thread, which waits for it.
StopIsAwaited ==
    \A w \in Workers : EndsWith(queue[w], "stop") =>
        main.op = "stop" /\ handle = w /\ queue[w][Len(queue[w])].rule = main.rule

StopIsSent ==
    main.op = "stop" => /\ main.rule \in Rules /\ handle # NoWorker
                        /\ queue[handle] # <<>>
                        /\ queue[handle][Len(queue[handle])] = StopOf(main.rule)

Ending(w) == worker[w].phase = "stopAll" \/ EndsWith(queue[w], "stopAll")

\* A worker that was told to end is not the one that commands go to.
EndingIsUnreachable ==
    \A w \in Workers : /\ Ending(w) => handle # w
                       /\ worker[w].phase = "stopAll" => queue[w] = <<>>

Silent(w) == \A r \in Rules : listener[w][r] = "off"

\* A worker that has ended has left nothing, and is not the handle.
DeadIsEmpty ==
    \A w \in Workers : ~Alive(w) => handle # w /\ queue[w] = <<>> /\ Silent(w)

\* A worker that was neither told to end nor is reachable only has to find out.
AbandonedIsIdle ==
    \A w \in Workers : Alive(w) /\ handle # w /\ ~Ending(w) =>
        worker[w].phase = "recv" /\ queue[w] = <<>> /\ Silent(w)

Link == /\ InOrder /\ StopIsAwaited /\ StopIsSent
        /\ EndingIsUnreachable /\ DeadIsEmpty /\ AbandonedIsIdle

IInv == Typed /\ Link

\* What the parts of the invariant say of one channel.
LEMMA ChannelFacts ==
    ASSUME IInv, NEW w \in Workers
    PROVE  /\ queue[w] \in Seq(Commands) /\ FrontStarts(queue[w])
           /\ queue[w] = <<>> \/ \E op \in {"start", "stop", "stopAll"} : EndsWith(queue[w], op)
           /\ handle = w => Alive(w) /\ ~Ending(w)
           /\ handle = w /\ main.op # "stop" => queue[w] = <<>> \/ EndsWith(queue[w], "start")
<1>1. queue[w] \in Seq(Commands) /\ FrontStarts(queue[w])
  BY DEF IInv, Typed, TypeOK, Link, InOrder
<1>2. queue[w] = <<>> \/ \E op \in {"start", "stop", "stopAll"} : EndsWith(queue[w], op)
  <2>1. SUFFICES ASSUME queue[w] # <<>>
                 PROVE  queue[w][Len(queue[w])].op \in {"start", "stop", "stopAll"}
    BY DEF EndsWith
  <2>2. Len(queue[w]) \in 1 .. Len(queue[w])
    BY <1>1, <2>1
  <2>3. queue[w][Len(queue[w])] \in Commands
    BY <1>1, <2>2
  <2>4. QED
    BY <2>3 DEF Commands, StartOf, StopOf, StopAll
<1>3. handle = w => Alive(w) /\ ~Ending(w)
  BY DEF IInv, Link, DeadIsEmpty, EndingIsUnreachable
<1>4. handle = w /\ main.op # "stop" => ~EndsWith(queue[w], "stop")
  BY DEF IInv, Link, StopIsAwaited
<1>5. QED
  BY <1>1, <1>2, <1>3, <1>4 DEF Ending

\* A step that leaves the channels and the handle alone keeps the invariant when
\* no worker that has to end starts anything.
LEMMA QueueKept ==
    ASSUME IInv, queue' = queue, handle' = handle,
           main' = main \/ (main.op # "stop" /\ main'.op # "stop"),
           \A w \in Workers : /\ worker'[w].phase = "dead" <=> worker[w].phase = "dead"
                              /\ worker'[w].phase = "stopAll" <=> worker[w].phase = "stopAll",
           \A w \in Workers : handle # w /\ ~Ending(w) /\ Silent(w)
                              /\ worker[w].phase \in {"dead", "recv"}
                              => worker'[w].phase = worker[w].phase /\ Silent(w)'
    PROVE  Link'
<1>0. Link
  BY DEF IInv
<1>1. InOrder'
  BY <1>0 DEF Link, InOrder
<1>2. StopIsAwaited'
  BY <1>0 DEF Link, StopIsAwaited, StopIsSent, EndsWith
<1>3. StopIsSent'
  BY <1>0 DEF Link, StopIsSent
<1>4. \A w \in Workers : /\ Ending(w)' <=> Ending(w)
                         /\ Alive(w)' <=> Alive(w)
  BY DEF Ending, Alive
<1>5. EndingIsUnreachable'
  BY <1>0, <1>4 DEF Link, EndingIsUnreachable
<1>6. DeadIsEmpty'
  <2>1. SUFFICES ASSUME NEW w \in Workers, ~Alive(w)
                 PROVE  handle # w /\ queue[w] = <<>> /\ Silent(w)'
    BY <1>4 DEF DeadIsEmpty
  <2>2. handle # w /\ queue[w] = <<>> /\ Silent(w)
    BY <1>0, <2>1 DEF Link, DeadIsEmpty
  <2>3. ~Ending(w)
    BY <2>1, <2>2 DEF Ending, Alive, EndsWith
  <2>4. QED
    BY <2>1, <2>2, <2>3 DEF Alive
<1>7. AbandonedIsIdle'
  <2>1. SUFFICES ASSUME NEW w \in Workers, Alive(w), handle # w, ~Ending(w)
                 PROVE  worker'[w].phase = "recv" /\ queue[w] = <<>> /\ Silent(w)'
    BY <1>4 DEF AbandonedIsIdle
  <2>2. worker[w].phase = "recv" /\ queue[w] = <<>> /\ Silent(w)
    BY <1>0, <2>1 DEF Link, AbandonedIsIdle
  <2>3. QED
    BY <2>1, <2>2
<1>8. QED
  BY <1>1, <1>2, <1>3, <1>5, <1>6, <1>7 DEF Link

\* A step of a worker between two phases of an attempt, or from or to "recv".
LEMMA WorkKept ==
    ASSUME IInv, NEW w \in Workers, NEW s \in WorkerStates,
           handle = w \/ Ending(w),
           worker[w].phase \notin {"dead", "stopAll"}, s.phase \notin {"dead", "stopAll"},
           worker' = [worker EXCEPT ![w] = s],
           \A v \in Workers \ {w} : listener'[v] = listener[v],
           UNCHANGED <<handle, main, queue>>
    PROVE  Link'
<1>1. worker \in [Workers -> WorkerStates]
  BY DEF IInv, Typed, TypeOK
<1>2. worker'[w] = s /\ \A v \in Workers \ {w} : worker'[v] = worker[v]
  BY <1>1
<1>3. \A v \in Workers : /\ worker'[v].phase = "dead" <=> worker[v].phase = "dead"
                         /\ worker'[v].phase = "stopAll" <=> worker[v].phase = "stopAll"
  BY <1>2
<1>4. \A v \in Workers \ {w} : Silent(v) => Silent(v)'
  BY DEF Silent
<1>5. \A v \in Workers : handle # v /\ ~Ending(v) /\ Silent(v)
                         /\ worker[v].phase \in {"dead", "recv"}
                         => worker'[v].phase = worker[v].phase /\ Silent(v)'
  BY <1>2, <1>4
<1>6. QED
  BY <1>3, <1>5, QueueKept

\* Only a worker that is reachable, or was told to end, is in an attempt.
LEMMA AttemptIsReachable ==
    ASSUME IInv, NEW w \in Workers, worker[w].phase \in Working \/ queue[w] # <<>>
    PROVE  Alive(w) /\ (handle = w \/ Ending(w))
BY DEF IInv, Link, DeadIsEmpty, AbandonedIsIdle, Alive, Working

\* Sending one command to the handle, when nothing but starts is before it.
LEMMA SendKept ==
    ASSUME IInv, NEW w \in Workers, handle = w, main.op # "stop", NEW c \in Commands,
           queue' = [queue EXCEPT ![w] = Append(@, c)],
           c.op = "stop" => main'.op = "stop" /\ main'.rule = c.rule /\ c.rule \in Rules
                            /\ c = StopOf(c.rule) /\ handle' = w,
           c.op # "stop" => main'.op # "stop",
           c.op = "stopAll" <=> handle' # w,
           handle' \in {w, NoWorker},
           \A v \in Workers : worker'[v].phase = worker[v].phase,
           listener' = listener
    PROVE  Link'
<1>0. Link /\ NoWorker \notin Workers /\ queue \in [Workers -> Seq(Commands)]
  BY ConstantsAssumption DEF IInv, ConstantsAssumption, Typed, TypeOK
<1>1. /\ queue[w] \in Seq(Commands) /\ FrontStarts(queue[w])
      /\ queue[w] = <<>> \/ EndsWith(queue[w], "start")
      /\ Alive(w) /\ ~Ending(w)
  BY ChannelFacts
<1>2. /\ queue'[w] = Append(queue[w], c)
      /\ \A v \in Workers \ {w} : queue'[v] = queue[v]
  BY <1>0
<1>3. /\ FrontStarts(queue'[w]) /\ queue'[w] # <<>>
      /\ queue'[w][Len(queue'[w])] = c
  BY <1>1, <1>2, AppendFacts
<1>4. \A op \in {"start", "stop", "stopAll"} : EndsWith(queue'[w], op) <=> c.op = op
  BY <1>3 DEF EndsWith
<1>5. \A v \in Workers : Alive(v)' <=> Alive(v)
  BY DEF Alive
<1>6. \A v \in Workers : Silent(v)' <=> Silent(v)
  BY DEF Silent
<1>7. \A v \in Workers \ {w} : handle # v /\ handle' # v /\ (Ending(v)' <=> Ending(v))
  BY <1>0, <1>2 DEF Ending
<1>8. Ending(w)' <=> c.op = "stopAll"
  BY <1>1, <1>4 DEF Ending
<1>9. InOrder'
  BY <1>0, <1>2, <1>3 DEF Link, InOrder
<1>10. StopIsAwaited'
  <2>1. SUFFICES ASSUME NEW v \in Workers, EndsWith(queue'[v], "stop")
                 PROVE  main'.op = "stop" /\ handle' = v
                        /\ queue'[v][Len(queue'[v])].rule = main'.rule
    BY DEF StopIsAwaited
  <2>2. CASE v = w
    BY <1>3, <1>4, <2>1, <2>2
  <2>3. CASE v # w
    <3>1. EndsWith(queue[v], "stop")
      BY <1>2, <2>1, <2>3
    <3>2. QED
      BY <1>0, <3>1 DEF Link, StopIsAwaited
  <2>4. QED
    BY <2>2, <2>3
<1>11. StopIsSent'
  <2>1. SUFFICES ASSUME main'.op = "stop"
                 PROVE  /\ main'.rule \in Rules /\ handle' # NoWorker
                        /\ queue'[handle'] # <<>>
                        /\ queue'[handle'][Len(queue'[handle'])] = StopOf(main'.rule)
    BY DEF StopIsSent
  <2>2. c.op = "stop" /\ handle' = w
    BY <2>1
  <2>3. QED
    BY <1>0, <1>3, <2>2
<1>12. EndingIsUnreachable'
  <2>1. SUFFICES ASSUME NEW v \in Workers
                 PROVE  /\ Ending(v)' => handle' # v
                        /\ worker'[v].phase = "stopAll" => queue'[v] = <<>>
    BY DEF EndingIsUnreachable
  <2>2. CASE v = w
    BY <1>1, <1>8, <2>2 DEF Ending
  <2>3. CASE v # w
    BY <1>0, <1>2, <1>7, <2>3 DEF Link, EndingIsUnreachable
  <2>4. QED
    BY <2>2, <2>3
<1>13. DeadIsEmpty'
  BY <1>0, <1>1, <1>2, <1>5, <1>6, <1>7 DEF Link, DeadIsEmpty
<1>14. AbandonedIsIdle'
  <2>1. SUFFICES ASSUME NEW v \in Workers, Alive(v)', handle' # v, ~Ending(v)'
                 PROVE  worker'[v].phase = "recv" /\ queue'[v] = <<>> /\ Silent(v)'
    BY DEF AbandonedIsIdle
  <2>2. v # w
    BY <1>8, <2>1
  <2>3. QED
    BY <1>0, <1>2, <1>5, <1>6, <1>7, <2>1, <2>2 DEF Link, AbandonedIsIdle
<1>15. QED
  BY <1>9, <1>10, <1>11, <1>12, <1>13, <1>14 DEF Link

\* Starting a rule keeps the invariant, on the worker there is or on a new one.
LEMMA StartKept ==
    ASSUME IInv, NEW r \in Rules, StartOn(r), main.op # "stop", main'.op # "stop",
           listener' = listener
    PROVE  Link'
<1>0. /\ Link /\ queue \in [Workers -> Seq(Commands)]
      /\ worker \in [Workers -> WorkerStates] /\ handle \in Workers \cup {NoWorker}
      /\ NoWorker \notin Workers
  BY ConstantsAssumption DEF IInv, ConstantsAssumption, Typed, TypeOK
<1>1. StartOf(r) \in Commands /\ StartOf(r).op = "start"
  BY DEF Commands, StartOf
<1>2. CASE handle # NoWorker /\ queue' = Send(handle, StartOf(r)) /\ UNCHANGED <<handle, worker>>
  <2>1. handle \in Workers /\ Alive(handle)
    BY <1>0, <1>2, ChannelFacts
  <2>2. queue' = [queue EXCEPT ![handle] = Append(@, StartOf(r))]
    BY <1>2, <2>1 DEF Send
  <2>3. QED
    BY <1>1, <1>2, <2>1, <2>2, SendKept
<1>3. ASSUME NEW w \in Workers, ~Alive(w), handle = NoWorker, handle' = w,
             worker' = [worker EXCEPT ![w].phase = "recv"],
             queue' = [queue EXCEPT ![w] = <<StartOf(r)>>]
      PROVE  Link'
  <2>1. queue[w] = <<>> /\ Silent(w)
    BY <1>0, <1>3 DEF Link, DeadIsEmpty
  <2>2. /\ queue'[w] = <<StartOf(r)>> /\ \A v \in Workers \ {w} : queue'[v] = queue[v]
        /\ worker'[w].phase = "recv" /\ \A v \in Workers \ {w} : worker'[v] = worker[v]
    BY <1>0, <1>3 DEF WorkerStates
  <2>3. /\ FrontStarts(queue'[w]) /\ queue'[w] # <<>>
        /\ \A op \in {"stop", "stopAll"} : ~EndsWith(queue'[w], op)
    BY <1>1, <2>2 DEF FrontStarts, EndsWith
  <2>4. \A v \in Workers : Silent(v)' <=> Silent(v)
    BY DEF Silent
  <2>5. Alive(w)' /\ ~Ending(w)'
    BY <2>2, <2>3 DEF Alive, Ending
  <2>6. \A v \in Workers \ {w} : /\ Alive(v)' <=> Alive(v)
                                 /\ Ending(v)' <=> Ending(v)
                                 /\ handle # v /\ handle' # v
    BY <1>0, <1>3, <2>2 DEF Alive, Ending
  <2>7. InOrder'
    BY <1>0, <2>2, <2>3 DEF Link, InOrder
  <2>8. StopIsAwaited'
    <3>1. \A v \in Workers : ~EndsWith(queue'[v], "stop")
      BY <1>0, <2>2, <2>3 DEF Link, StopIsAwaited
    <3>2. QED
      BY <3>1 DEF StopIsAwaited
  <2>9. StopIsSent'
    BY DEF StopIsSent
  <2>10. EndingIsUnreachable'
    BY <1>0, <2>2, <2>5, <2>6 DEF Link, EndingIsUnreachable
  <2>11. DeadIsEmpty'
    BY <1>0, <2>2, <2>4, <2>5, <2>6 DEF Link, DeadIsEmpty
  <2>12. AbandonedIsIdle'
    BY <1>0, <1>3, <2>2, <2>4, <2>6 DEF Link, AbandonedIsIdle
  <2>13. QED
    BY <2>7, <2>8, <2>9, <2>10, <2>11, <2>12 DEF Link
<1>4. QED
  BY <1>2, <1>3 DEF StartOn

\* Taking a start from the channel keeps the invariant.
LEMMA TakeStartKept ==
    ASSUME IInv, NEW w \in Workers, TakeStart(w)
    PROVE  Link'
<1>0. /\ Link /\ queue \in [Workers -> Seq(Commands)] /\ worker \in [Workers -> WorkerStates]
      /\ listener \in [Workers -> [Rules -> {"off", "on", "failed"}]]
  BY DEF IInv, Typed, TypeOK
<1>1. PICK r \in Rules : /\ Receives(w, StartOf(r))
                         /\ queue' = [queue EXCEPT ![w] = Tail(@)]
                         /\ BeginStart(w, r, worker[w].waits)
                         /\ UNCHANGED <<handle, main>>
  BY DEF TakeStart
<1>2. /\ worker[w].phase = "recv" /\ queue[w] # <<>> /\ Head(queue[w]).op = "start"
      /\ FrontStarts(queue[w]) /\ queue[w] \in Seq(Commands)
  BY <1>0, <1>1 DEF Receives, StartOf, Link, InOrder
<1>3. Alive(w) /\ (handle = w \/ Ending(w))
  BY <1>2, AttemptIsReachable
<1>4. /\ queue'[w] = Tail(queue[w]) /\ \A v \in Workers \ {w} : queue'[v] = queue[v]
  BY <1>0, <1>1
<1>5. /\ worker'[w].phase \in {"bind", "connect"}
      /\ \A v \in Workers \ {w} : worker'[v] = worker[v] /\ listener'[v] = listener[v]
  BY <1>0, <1>1 DEF BeginStart, Unlisten, WorkerStates
<1>6. /\ FrontStarts(queue'[w])
      /\ queue'[w] # <<>> => queue'[w][Len(queue'[w])] = queue[w][Len(queue[w])]
      /\ queue'[w] = <<>> => EndsWith(queue[w], "start")
  BY <1>2, <1>4, TailFacts DEF EndsWith
<1>7. \A op \in {"stop", "stopAll"} : EndsWith(queue'[w], op) <=> EndsWith(queue[w], op)
  BY <1>2, <1>6 DEF EndsWith
<1>8. \A v \in Workers : /\ Alive(v)' <=> Alive(v)
                         /\ Ending(v)' <=> Ending(v)
  BY <1>2, <1>4, <1>5, <1>7 DEF Alive, Ending
<1>9. \A v \in Workers \ {w} : Silent(v)' <=> Silent(v)
  BY <1>5 DEF Silent
<1>10. InOrder'
  BY <1>0, <1>4, <1>6 DEF Link, InOrder
<1>11. StopIsAwaited'
  <2>1. SUFFICES ASSUME NEW v \in Workers, EndsWith(queue'[v], "stop")
                 PROVE  main'.op = "stop" /\ handle' = v
                        /\ queue'[v][Len(queue'[v])].rule = main'.rule
    BY DEF StopIsAwaited
  <2>2. EndsWith(queue[v], "stop") /\ queue'[v][Len(queue'[v])] = queue[v][Len(queue[v])]
    BY <1>4, <1>6, <1>7, <2>1 DEF EndsWith
  <2>3. QED
    BY <1>0, <1>1, <2>2 DEF Link, StopIsAwaited
<1>12. StopIsSent'
  <2>1. SUFFICES ASSUME main.op = "stop"
                 PROVE  /\ main.rule \in Rules /\ handle # NoWorker
                        /\ queue'[handle] # <<>>
                        /\ queue'[handle][Len(queue'[handle])] = StopOf(main.rule)
    BY <1>1 DEF StopIsSent
  <2>2. /\ main.rule \in Rules /\ handle # NoWorker /\ handle \in Workers
        /\ queue[handle] # <<>> /\ queue[handle][Len(queue[handle])] = StopOf(main.rule)
    BY <1>0, <2>1 DEF Link, StopIsSent, IInv, Typed, TypeOK
  <2>3. EndsWith(queue[handle], "stop")
    BY <2>2 DEF EndsWith, StopOf
  <2>4. queue'[handle] # <<>>
    BY <1>4, <1>7, <2>2, <2>3 DEF EndsWith
  <2>5. QED
    BY <1>4, <1>6, <2>2, <2>4
<1>13. EndingIsUnreachable'
  BY <1>0, <1>1, <1>4, <1>5, <1>8 DEF Link, EndingIsUnreachable
<1>14. DeadIsEmpty'
  BY <1>0, <1>1, <1>3, <1>4, <1>8, <1>9 DEF Link, DeadIsEmpty
<1>15. AbandonedIsIdle'
  BY <1>0, <1>1, <1>3, <1>4, <1>5, <1>8, <1>9 DEF Link, AbandonedIsIdle
<1>16. QED
  BY <1>10, <1>11, <1>12, <1>13, <1>14, <1>15 DEF Link

\* Taking a stop: the channel is empty then, and a worker that drops its handle
\* has no listener left.
LEMMA TakeStopKept ==
    ASSUME IInv, NEW w \in Workers, TakeStop(w)
    PROVE  /\ Link'
           /\ main.op = "stop" /\ handle = w /\ listener'[w][main.rule] = "off"
           /\ \A v \in Workers : handle # v /\ ~Ending(v) => Silent(v)
           /\ \A v \in Workers \ {w} : listener'[v] = listener[v]
<1>0. /\ Link /\ queue \in [Workers -> Seq(Commands)] /\ worker \in [Workers -> WorkerStates]
      /\ listener \in [Workers -> [Rules -> {"off", "on", "failed"}]]
      /\ NoWorker \notin Workers
      /\ main \in [op : {"idle", "stop", "stopped", "open", "close"},
                   rule : Rules \cup {NoRule}, todo : SUBSET Rules]
  BY ConstantsAssumption DEF IInv, ConstantsAssumption, Typed, TypeOK
<1>1. PICK r \in Rules :
         /\ Receives(w, StopOf(r))
         /\ queue' = [queue EXCEPT ![w] = Tail(@)]
         /\ listener' = Unlisten(w, r)
         /\ handle' = IF IdleWithout(w, r) THEN NoWorker ELSE handle
         /\ worker' = [worker EXCEPT ![w].session = @ /\ ~IdleWithout(w, r)]
         /\ main' = [main EXCEPT !.op = "stopped"]
  BY DEF TakeStop
<1>2. /\ worker[w].phase = "recv" /\ queue[w] # <<>> /\ Head(queue[w]) = StopOf(r)
      /\ Head(queue[w]).op = "stop"
      /\ FrontStarts(queue[w]) /\ queue[w] \in Seq(Commands)
  BY <1>0, <1>1 DEF Receives, StopOf, Link, InOrder
<1>3. Tail(queue[w]) = <<>> /\ queue[w][Len(queue[w])] = StopOf(r)
  BY <1>2, TailFacts
<1>4. EndsWith(queue[w], "stop")
  BY <1>2, <1>3 DEF EndsWith, StopOf
<1>5. main.op = "stop" /\ handle = w /\ main.rule = r
  BY <1>0, <1>3, <1>4 DEF Link, StopIsAwaited, StopOf
<1>6. Alive(w) /\ ~Ending(w)
  BY <1>5, ChannelFacts
<1>7. /\ queue'[w] = <<>> /\ \A v \in Workers \ {w} : queue'[v] = queue[v]
      /\ \A v \in Workers : worker'[v].phase = worker[v].phase
  BY <1>0, <1>1, <1>3 DEF WorkerStates
<1>8. /\ \A v \in Workers \ {w} : listener'[v] = listener[v]
      /\ listener'[w][r] = "off"
      /\ \A x \in Rules \ {r} : listener'[w][x] = listener[w][x]
  BY <1>0, <1>1 DEF Unlisten
<1>9. main'.op = "stopped"
  BY <1>0, <1>1
<1>10. handle' = w \/ (handle' = NoWorker /\ Silent(w)')
  <2>1. SUFFICES ASSUME IdleWithout(w, r) PROVE Silent(w)'
    BY <1>1, <1>5
  <2>2. \A x \in Rules : x # r => listener[w][x] = "off"
    BY <2>1 DEF IdleWithout, Active
  <2>3. QED
    BY <1>8, <2>2 DEF Silent
<1>11. /\ ~Ending(w)'
       /\ \A v \in Workers : Alive(v)' <=> Alive(v)
       /\ \A v \in Workers \ {w} : (Ending(v)' <=> Ending(v)) /\ (Silent(v)' <=> Silent(v))
  BY <1>2, <1>7, <1>8 DEF Ending, Alive, Silent, EndsWith
<1>12. \A v \in Workers \ {w} : handle # v /\ handle' # v
  BY <1>0, <1>5, <1>10
<1>13. InOrder'
  BY <1>0, <1>7 DEF Link, InOrder, FrontStarts
<1>14. StopIsAwaited'
  <2>1. \A v \in Workers : ~EndsWith(queue'[v], "stop")
    BY <1>0, <1>7, <1>12 DEF Link, StopIsAwaited, EndsWith
  <2>2. QED
    BY <2>1 DEF StopIsAwaited
<1>15. StopIsSent'
  BY <1>9 DEF StopIsSent
<1>16. EndingIsUnreachable'
  BY <1>0, <1>7, <1>11, <1>12 DEF Link, EndingIsUnreachable
<1>17. DeadIsEmpty'
  BY <1>0, <1>6, <1>7, <1>11, <1>12 DEF Link, DeadIsEmpty
<1>18. AbandonedIsIdle'
  <2>1. SUFFICES ASSUME NEW v \in Workers, Alive(v)', handle' # v, ~Ending(v)'
                 PROVE  worker'[v].phase = "recv" /\ queue'[v] = <<>> /\ Silent(v)'
    BY DEF AbandonedIsIdle
  <2>2. CASE v = w
    BY <1>2, <1>7, <1>10, <2>1, <2>2
  <2>3. CASE v # w
    BY <1>0, <1>7, <1>11, <1>12, <2>1, <2>3 DEF Link, AbandonedIsIdle
  <2>4. QED
    BY <2>2, <2>3
<1>19. \A v \in Workers : handle # v /\ ~Ending(v) => Silent(v)
  BY <1>0 DEF Link, DeadIsEmpty, AbandonedIsIdle
<1>20. QED
  BY <1>5, <1>8, <1>13, <1>14, <1>15, <1>16, <1>17, <1>18, <1>19 DEF Link

\* A worker that is told to end, or ends, or finds nobody left to send to it.
LEMMA EndKept ==
    ASSUME IInv, NEW w \in Workers, TakeStopAll(w) \/ StopNext(w) \/ Disconnected(w)
    PROVE  Link'
<1>0. /\ Link /\ queue \in [Workers -> Seq(Commands)] /\ worker \in [Workers -> WorkerStates]
      /\ listener \in [Workers -> [Rules -> {"off", "on", "failed"}]]
  BY DEF IInv, Typed, TypeOK
<1>1. CASE TakeStopAll(w)
  <2>1. /\ worker[w].phase = "recv" /\ queue[w] # <<>> /\ Head(queue[w]).op = "stopAll"
        /\ FrontStarts(queue[w]) /\ queue[w] \in Seq(Commands)
        /\ Head(queue[w]) = StopAll
    BY <1>0, <1>1 DEF TakeStopAll, Receives, StopAll, Link, InOrder
  <2>2. Tail(queue[w]) = <<>> /\ EndsWith(queue[w], "stopAll")
    BY <2>1, TailFacts DEF EndsWith
  <2>3. Ending(w) /\ handle # w /\ Alive(w)
    BY <1>0, <2>1, <2>2 DEF Ending, Link, EndingIsUnreachable, Alive
  <2>4. /\ queue'[w] = <<>> /\ \A v \in Workers \ {w} : queue'[v] = queue[v]
        /\ worker'[w].phase = "stopAll" /\ \A v \in Workers \ {w} : worker'[v] = worker[v]
        /\ UNCHANGED <<handle, main, listener>>
    BY <1>0, <1>1, <2>2 DEF TakeStopAll, WorkerStates
  <2>5. \A v \in Workers : /\ Alive(v)' <=> Alive(v)
                           /\ Ending(v)' <=> Ending(v)
                           /\ Silent(v)' <=> Silent(v)
    BY <2>1, <2>3, <2>4 DEF Alive, Ending, Silent
  <2>6. InOrder'
    <3>1. FrontStarts(queue'[w])
      BY <2>4 DEF FrontStarts
    <3>2. QED
      BY <1>0, <2>4, <3>1 DEF Link, InOrder
  <2>7. StopIsAwaited'
    BY <1>0, <2>4 DEF Link, StopIsAwaited, EndsWith
  <2>8. StopIsSent'
    <3>1. main.op = "stop" => handle \in Workers \ {w}
      BY <1>0, <2>3 DEF Link, StopIsSent, IInv, Typed, TypeOK
    <3>2. QED
      BY <1>0, <2>4, <3>1 DEF Link, StopIsSent
  <2>9. EndingIsUnreachable'
    BY <1>0, <2>3, <2>4, <2>5 DEF Link, EndingIsUnreachable
  <2>10. DeadIsEmpty'
    BY <1>0, <2>3, <2>4, <2>5 DEF Link, DeadIsEmpty
  <2>11. AbandonedIsIdle'
    BY <1>0, <2>3, <2>4, <2>5 DEF Link, AbandonedIsIdle
  <2>12. QED
    BY <2>6, <2>7, <2>8, <2>9, <2>10, <2>11 DEF Link
<1>2. ASSUME NEW r \in Active(w), StopNext(w), listener' = Unlisten(w, r), UNCHANGED worker
      PROVE  Link'
  <2>1. UNCHANGED <<handle, main, queue>>
    BY <1>2 DEF StopNext
  <2>2. \A v \in Workers : Silent(v) => Silent(v)'
    BY <1>0, <1>2 DEF Silent, Unlisten
  <2>3. QED
    BY <1>2, <2>1, <2>2, QueueKept
<1>3. ASSUME handle # w, queue[w] = <<>>, Silent(w), worker[w].phase \in {"recv", "stopAll"},
             worker' = [worker EXCEPT ![w] = Dead],
             UNCHANGED <<handle, main, queue, listener>>
      PROVE  Link'
  <2>1. /\ worker'[w].phase = "dead" /\ \A v \in Workers \ {w} : worker'[v] = worker[v]
    BY <1>0, <1>3 DEF Dead
  <2>2. \A v \in Workers \ {w} : (Alive(v)' <=> Alive(v)) /\ (Ending(v)' <=> Ending(v))
    BY <1>3, <2>1 DEF Alive, Ending
  <2>3. \A v \in Workers : Silent(v)' <=> Silent(v)
    BY <1>3 DEF Silent
  <2>4. ~Alive(w)' /\ ~Ending(w)'
    BY <1>3, <2>1 DEF Alive, Ending, EndsWith
  <2>5. InOrder' /\ StopIsAwaited' /\ StopIsSent'
    BY <1>0, <1>3 DEF Link, InOrder, StopIsAwaited, StopIsSent
  <2>6. EndingIsUnreachable'
    BY <1>0, <1>3, <2>1, <2>2, <2>4 DEF Link, EndingIsUnreachable
  <2>7. DeadIsEmpty'
    BY <1>0, <1>3, <2>1, <2>2, <2>3 DEF Link, DeadIsEmpty
  <2>8. AbandonedIsIdle'
    BY <1>0, <1>3, <2>1, <2>2, <2>3, <2>4 DEF Link, AbandonedIsIdle
  <2>9. QED
    BY <2>5, <2>6, <2>7, <2>8 DEF Link
<1>4. CASE Disconnected(w)
  <2>1. ~Ending(w) /\ Alive(w) /\ handle # w /\ queue[w] = <<>>
    BY <1>4 DEF Disconnected, Ending, EndsWith, Alive
  <2>2. Silent(w)
    BY <1>0, <2>1 DEF Link, AbandonedIsIdle
  <2>3. QED
    BY <1>3, <1>4, <2>1, <2>2 DEF Disconnected
<1>5. CASE StopNext(w) /\ Active(w) = {} /\ worker' = [worker EXCEPT ![w] = Dead]
           /\ UNCHANGED <<status, listener>>
  <2>1. worker[w].phase = "stopAll" /\ UNCHANGED <<handle, main, queue>>
    BY <1>5 DEF StopNext
  <2>2. handle # w /\ queue[w] = <<>>
    BY <1>0, <2>1 DEF Link, EndingIsUnreachable, Ending
  <2>3. Silent(w)
    BY <1>5 DEF Active, Silent
  <2>4. QED
    BY <1>3, <1>5, <2>1, <2>2, <2>3
<1>6. QED
  BY <1>1, <1>2, <1>4, <1>5 DEF StopNext

\* The initial states satisfy the invariant.
LEMMA InitLinked == Init => IInv
<1> SUFFICES ASSUME Init PROVE Link
  BY InitTyped DEF IInv
<1>1. /\ handle = NoWorker /\ NoWorker \notin Workers /\ main.op = "idle"
      /\ \A w \in Workers : queue[w] = <<>> /\ worker[w].phase = "dead" /\ Silent(w)
  BY ConstantsAssumption DEF Init, ConstantsAssumption, Idle, Dead, Silent
<1>2. InOrder
  BY <1>1 DEF InOrder, FrontStarts
<1>3. StopIsAwaited /\ StopIsSent
  BY <1>1 DEF StopIsAwaited, StopIsSent, EndsWith
<1>4. EndingIsUnreachable /\ DeadIsEmpty /\ AbandonedIsIdle
  BY <1>1 DEF EndingIsUnreachable, DeadIsEmpty, AbandonedIsIdle, Ending, Alive
<1>5. QED
  BY <1>2, <1>3, <1>4 DEF Link

\* Each step keeps the invariant.
LEMMA StepLinked == IInv /\ [Next]_vars => IInv'
<1> SUFFICES ASSUME IInv, [Next]_vars PROVE Link'
  BY StepTyped DEF IInv
<1>0. /\ queue \in [Workers -> Seq(Commands)] /\ worker \in [Workers -> WorkerStates]
      /\ listener \in [Workers -> [Rules -> {"off", "on", "failed"}]]
      /\ handle \in Workers \cup {NoWorker}
  BY DEF IInv, Typed, TypeOK
<1>1. ASSUME UNCHANGED <<handle, queue, worker, listener>>,
             main' = main \/ (main.op # "stop" /\ main'.op # "stop")
      PROVE  Link'
  BY <1>1, QueueKept DEF Silent
<1>2. ASSUME NEW r \in Rules, NEW k \in {"temporary", "saved"}, NEW endpoint \in BOOLEAN,
             SaveRule(r, k, endpoint)
      PROVE  Link'
  BY <1>1, <1>2, StartKept DEF SaveRule, Idle
<1>3. ASSUME NEW r \in Rules, DeleteRule(r) PROVE Link'
  BY <1>1, <1>3 DEF DeleteRule
<1>4. ASSUME NEW r \in Rules, StartCommand(r) PROVE Link'
  BY <1>4, StartKept DEF StartCommand, Idle
<1>5. ASSUME NEW r \in Rules, StopCommand(r) PROVE Link'
  <2>1. CASE handle = NoWorker
    <3>1. UNCHANGED <<handle, queue, worker, listener>> /\ main.op # "stop" /\ main'.op # "stop"
      BY <1>5, <2>1 DEF StopCommand, Idle
    <3>2. QED
      BY <1>1, <3>1
  <2>2. CASE handle # NoWorker
    <3>1. /\ handle \in Workers /\ main.op # "stop"
          /\ queue' = [queue EXCEPT ![handle] = Append(@, StopOf(r))]
          /\ main'.op = "stop" /\ main'.rule = r
          /\ UNCHANGED <<handle, worker, listener>>
      BY <1>0, <1>5, <2>2 DEF StopCommand, Send, Idle
    <3>2. StopOf(r) \in Commands /\ StopOf(r).op = "stop" /\ StopOf(r).rule = r
      BY DEF Commands, StopOf
    <3>3. QED
      BY <3>1, <3>2, SendKept
  <2>3. QED
    BY <2>1, <2>2
<1>6. CASE StopDone
  BY <1>1, <1>6 DEF StopDone, Idle
<1>7. ASSUME NEW auto \in SUBSET Rules, OpenHost(auto) PROVE Link'
  BY <1>1, <1>7 DEF OpenHost, Idle
<1>8. CASE OpenNext
  <2>1. main.op = "open" /\ main'.op # "stop"
    BY <1>8 DEF OpenNext, Idle, IInv, Typed, TypeOK
  <2>2. main.todo \subseteq Rules
    BY DEF IInv, Typed, TypeOK
  <2>3. QED
    BY <1>1, <1>8, <2>1, <2>2, StartKept DEF OpenNext
<1>9. CASE CloseBegin
  <2>1. main.op # "stop" /\ main'.op # "stop" /\ UNCHANGED <<handle, queue, listener>>
    BY <1>9 DEF CloseBegin, Idle
  <2>2. \A w \in Workers : \/ worker'[w].phase = worker[w].phase
                           \/ worker[w].phase = "prompt" /\ worker'[w].phase = "refused"
    BY <1>0, <1>9 DEF CloseBegin, WorkerStates
  <2>3. \A w \in Workers : Silent(w)' <=> Silent(w)
    BY <2>1 DEF Silent
  <2>4. QED
    BY <2>1, <2>2, <2>3, QueueKept
<1>10. CASE CloseEnd
  <2>1. main.op # "stop" /\ main'.op # "stop" /\ handle' = NoWorker /\ UNCHANGED <<worker, listener>>
    BY <1>10 DEF CloseEnd, Idle, HandleAfterClose
  <2>2. CASE handle = NoWorker
    BY <1>1, <1>10, <2>1, <2>2 DEF CloseEnd
  <2>3. CASE handle # NoWorker
    <3>1. handle \in Workers /\ Alive(handle) /\ handle' # handle
      BY <1>0, <2>1, <2>3, ChannelFacts
    <3>2. queue' = [queue EXCEPT ![handle] = Append(@, StopAll)]
      BY <1>10, <3>1, <2>3 DEF CloseEnd, Send
    <3>3. StopAll \in Commands /\ StopAll.op = "stopAll"
      BY DEF Commands, StopAll
    <3>4. QED
      BY <2>1, <3>1, <3>2, <3>3, SendKept
  <2>4. QED
    BY <2>2, <2>3
<1>11. ASSUME NEW w \in Workers, WorkerStep(w) \/ AnswerPrompt(w) PROVE Link'
  <2>0. worker[w] \in WorkerStates /\ worker'[w] \in WorkerStates
    BY <1>0, StepTyped DEF IInv, Typed, TypeOK
  <2>1. ASSUME handle = w \/ worker[w].phase \in Working,
               worker[w].phase \notin {"dead", "stopAll"},
               worker'[w].phase \notin {"dead", "stopAll"},
               worker' = [worker EXCEPT ![w] = worker'[w]],
               \A v \in Workers \ {w} : listener'[v] = listener[v],
               UNCHANGED <<handle, main, queue>>
        PROVE  Link'
    <3>1. handle = w \/ Ending(w)
      BY <2>1, AttemptIsReachable
    <3>2. QED
      BY <2>0, <2>1, <3>1, WorkKept
  <2>2. CASE TakeStart(w)
    BY <2>2, TakeStartKept
  <2>3. CASE Retry(w)
    <3>1. handle = w /\ worker[w].phase = "recv" /\ UNCHANGED <<handle, main, queue>>
      BY <2>3 DEF Retry, NothingReceived
    <3>2. /\ worker'[w].phase \in {"bind", "connect"}
          /\ worker' = [worker EXCEPT ![w] = worker'[w]]
          /\ \A v \in Workers \ {w} : listener'[v] = listener[v]
      BY <1>0, <2>0, <2>3 DEF Retry, BeginStart, Unlisten, WorkerStates
    <3>3. QED
      BY <2>1, <3>1, <3>2
  <2>4. CASE GiveUp(w)
    <3>1. UNCHANGED <<handle, main, queue, listener>>
      BY <2>4 DEF GiveUp
    <3>2. \A v \in Workers : worker'[v].phase = worker[v].phase
      BY <1>0, <2>4 DEF GiveUp, WorkerStates
    <3>3. \A v \in Workers : Silent(v)' <=> Silent(v)
      BY <3>1 DEF Silent
    <3>4. QED
      BY <3>1, <3>2, <3>3, QueueKept
  <2>5. CASE TakeStop(w)
    BY <2>5, TakeStopKept
  <2>6. CASE TakeStopAll(w) \/ StopNext(w) \/ Disconnected(w)
    BY <2>6, EndKept
  <2>7. ASSUME NEW p \in Phases \ {"dead", "stopAll"}, NEW b,
               worker[w].phase \in Working,
               \/ worker' = [worker EXCEPT ![w].phase = p]
               \/ worker' = [worker EXCEPT ![w].phase = p, ![w].session = b],
               \A v \in Workers \ {w} : listener'[v] = listener[v],
               UNCHANGED <<handle, main, queue>>
        PROVE  Link'
    <3>1. /\ worker'[w].phase = p
          /\ worker' = [worker EXCEPT ![w] = worker'[w]]
      BY <1>0, <2>0, <2>7 DEF WorkerStates
    <3>2. worker[w].phase \notin {"dead", "stopAll"}
      BY <2>7 DEF Working
    <3>3. QED
      BY <2>1, <2>7, <3>1, <3>2
  <2>8. CASE ConnectOk(w)
    BY <2>7, <2>8 DEF ConnectOk, Phases, Working
  <2>9. CASE ConnectPrompts(w)
    BY <2>7, <2>9 DEF ConnectPrompts, Goto, Phases, Working
  <2>10. CASE AnswerPrompt(w)
    <3>1. UNCHANGED listener
      BY <2>10 DEF AnswerPrompt
    <3>2. QED
      BY <2>7, <2>10, <3>1 DEF AnswerPrompt, Goto, Phases, Working
  <2>11. CASE ConnectFails(w)
    <3>1. Verdict(worker[w].rule) \in Phases \ {"dead", "stopAll"}
      BY DEF Verdict, Phases
    <3>2. QED
      BY <2>7, <2>11, <3>1 DEF ConnectFails, FailTo, Phases, Working
  <2>12. CASE BindFails(w)
    <3>1. PICK p \in {"markFailed", Verdict(worker[w].rule)} : FailTo(w, p)
      BY <2>12 DEF BindFails
    <3>2. p \in Phases \ {"dead", "stopAll"}
      BY DEF Verdict, Phases
    <3>3. QED
      BY <2>7, <2>12, <3>1, <3>2 DEF BindFails, FailTo, Phases, Working
  <2>13. CASE BindOk(w)
    <3>1. \A v \in Workers \ {w} : listener'[v] = listener[v]
      BY <1>0, <2>13 DEF BindOk
    <3>2. QED
      BY <2>7, <2>13, <3>1 DEF BindOk, Goto, Phases, Working
  <2>14. ASSUME NEW p \in Working, NEW result, NEW waits, Mark(w, p, result, waits)
         PROVE  Link'
    <3>1. /\ worker[w].phase = p /\ worker'[w].phase = "recv"
          /\ worker' = [worker EXCEPT ![w] = worker'[w]]
          /\ UNCHANGED <<handle, main, queue, listener>>
      BY <1>0, <2>0, <2>14 DEF Mark, WorkerStates
    <3>2. worker[w].phase \notin {"dead", "stopAll"}
      BY <3>1 DEF Working
    <3>3. QED
      BY <2>1, <3>1, <3>2
  <2>15. CASE MarkRunning(w) \/ MarkFailed(w) \/ MarkReconnecting(w)
    BY <2>14, <2>15 DEF MarkRunning, MarkFailed, MarkReconnecting, Phases, Working
  <2>16. QED
    BY <1>11, <2>2, <2>3, <2>4, <2>5, <2>6, <2>8, <2>9, <2>10, <2>11, <2>12, <2>13,
       <2>15 DEF WorkerStep
<1>12. ASSUME NEW w \in Workers, NEW r \in Rules, ListenerFails(w, r) PROVE Link'
  <2>1. UNCHANGED <<handle, main, queue, worker>> /\ ~Silent(w)
    BY <1>12 DEF ListenerFails, Silent
  <2>2. \A v \in Workers \ {w} : Silent(v)' <=> Silent(v)
    BY <1>0, <1>12 DEF ListenerFails, Silent
  <2>3. QED
    BY <2>1, <2>2, QueueKept
<1>13. CASE UNCHANGED vars
  BY <1>1, <1>13 DEF vars
<1>14. QED
  BY <1>2, <1>3, <1>4, <1>5, <1>6, <1>7, <1>8, <1>9, <1>10, <1>11, <1>12, <1>13
     DEF Next, Command, MainStep

\* The invariant holds in every reachable state.
LEMMA Linked == Spec => []IInv
BY InitLinked, StepLinked, PTL DEF Spec

\* In the words of the component, a worker told to stop everything is one that is
\* ending.
LEMMA ToldIsEnding == IInv => \A w \in Workers : Told(w) <=> Ending(w)
<1> SUFFICES ASSUME IInv, NEW w \in Workers PROVE Told(w) <=> Ending(w)
  OBVIOUS
<1>1. queue[w] \in Seq(Commands) /\ FrontStarts(queue[w])
  BY ChannelFacts
<1>2. QED
  BY <1>1, StopAllComesLast DEF Told, Ending

\* The commands of the main thread reach a worker that takes them, and a stop
\* that the main thread waits for is in that worker's channel.
THEOREM HandleStaysLive == Spec => []HandleIsLive
<1>1. IInv => HandleIsLive
  <2> SUFFICES ASSUME IInv PROVE HandleIsLive
    OBVIOUS
  <2>0. handle \in Workers \cup {NoWorker} /\ queue \in [Workers -> Seq(Commands)]
    BY DEF IInv, Typed, TypeOK
  <2>1. handle # NoWorker => Alive(handle) /\ ~Told(handle)
    BY <2>0, ChannelFacts, ToldIsEnding
  <2>2. ASSUME main.op = "stop"
        PROVE  handle # NoWorker /\ StopOf(main.rule) \in Range(queue[handle])
    <3>1. /\ handle \in Workers /\ queue[handle] # <<>>
          /\ queue[handle][Len(queue[handle])] = StopOf(main.rule)
      BY <2>0, <2>2 DEF IInv, Link, StopIsSent
    <3>2. queue[handle] \in Seq(Commands) /\ Len(queue[handle]) \in DOMAIN queue[handle]
      BY <2>0, <3>1
    <3>3. QED
      BY <2>2, <3>1, <3>2 DEF Range, IInv, Link, StopIsSent
  <2>3. QED
    BY <2>1, <2>2 DEF HandleIsLive
<1>2. QED
  BY <1>1, Linked, PTL

\* No listener is left with a worker that neither a command nor the close of the
\* host reaches.
THEOREM NoListenerIsLeft == Spec => []ListenersCanBeStopped
<1>1. IInv => ListenersCanBeStopped
  <2> SUFFICES ASSUME IInv, NEW w \in Workers, Active(w) # {} PROVE handle = w \/ Told(w)
    BY DEF ListenersCanBeStopped
  <2>1. ~Silent(w)
    BY DEF Active, Silent
  <2>2. handle = w \/ Ending(w)
    BY <2>1 DEF IInv, Link, DeadIsEmpty, AbandonedIsIdle
  <2>3. QED
    BY <2>2, ToldIsEnding
<1>2. QED
  BY <1>1, Linked, PTL

\* The answer to a stop means that the rule has no listener any more, except with
\* a worker that was told to end.
THEOREM StopIsEffective == Spec => StopClosesListener
<1>1. IInv /\ [Next]_vars =>
        [main.op = "stop" /\ main'.op = "stopped" =>
            \A w \in Workers : Told(w) \/ listener'[w][main.rule] = "off"]_vars
  <2> SUFFICES ASSUME IInv, Next, main.op = "stop", main'.op = "stopped", NEW w \in Workers
               PROVE  Told(w) \/ listener'[w][main.rule] = "off"
    OBVIOUS
  <2>0. main' # main
    OBVIOUS
  <2>a. main # Idle
    BY DEF Idle
  <2>b. ~Command
    BY <2>a DEF Command, SaveRule, DeleteRule, StartCommand, StopCommand, OpenHost, CloseBegin
  <2>c. ~MainStep
    BY DEF MainStep, StopDone, OpenNext, CloseEnd
  <2>d. ASSUME NEW v \in Workers, WorkerStep(v)
        PROVE  TakeStop(v)
    <3>1. ~TakeStart(v) /\ ~Retry(v) /\ ~GiveUp(v)
      BY <2>0 DEF TakeStart, Retry, GiveUp
    <3>2. ~TakeStopAll(v) /\ ~StopNext(v) /\ ~Disconnected(v)
      BY <2>0 DEF TakeStopAll, StopNext, Disconnected
    <3>3. ~ConnectOk(v) /\ ~ConnectPrompts(v) /\ ~ConnectFails(v)
      BY <2>0 DEF ConnectOk, ConnectPrompts, ConnectFails, Goto, FailTo
    <3>4. ~BindOk(v) /\ ~BindFails(v)
      BY <2>0 DEF BindOk, BindFails, Goto, FailTo
    <3>5. ~MarkRunning(v) /\ ~MarkFailed(v) /\ ~MarkReconnecting(v)
      BY <2>0 DEF MarkRunning, MarkFailed, MarkReconnecting, Mark
    <3>6. QED
      BY <2>d, <3>1, <3>2, <3>3, <3>4, <3>5 DEF WorkerStep
  <2>e. \A v \in Workers : ~AnswerPrompt(v)
    BY <2>a DEF AnswerPrompt
  <2>f. \A v \in Workers, r \in Rules : ~ListenerFails(v, r)
    BY <2>0 DEF ListenerFails
  <2>1. PICK v \in Workers : TakeStop(v)
    BY <2>b, <2>c, <2>d, <2>e, <2>f DEF Next
  <2>2. /\ handle = v /\ listener'[v][main.rule] = "off"
        /\ \A u \in Workers : handle # u /\ ~Ending(u) => Silent(u)
        /\ \A u \in Workers \ {v} : listener'[u] = listener[u]
    BY <2>1, TakeStopKept
  <2>3. main.rule \in Rules
    BY DEF IInv, Link, StopIsSent
  <2>4. QED
    BY <2>2, <2>3, ToldIsEnding DEF Silent
<1>2. QED
  BY <1>1, Linked, PTL DEF Spec, StopClosesListener
\* For any number of rules and of worker generations, commands reach a live worker and every
\* listener can still be closed.
THEOREM ListenersReachable == Spec => []ListenersAreReachable
<1>1. TypeOK /\ HandleIsLive /\ ListenersCanBeStopped => ListenersAreReachable
  BY DEF ListenersAreReachable
<1>2. QED
  BY <1>1, PortsTypeCorrect, HandleStaysLive, NoListenerIsLeft, PTL
=============================================================================
