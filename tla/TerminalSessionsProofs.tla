------------------------ MODULE TerminalSessionsProofs ------------------------
(***************************************************************************)
(* Proofs about TerminalSessions, for any number of views, windows,        *)
(* readers and daemons and any output: views, records and sizes fit        *)
(* together, output is shown in order, runs end by the close of the last   *)
(* view, and what the main thread waits for is on its way.                 *)
(***************************************************************************)
EXTENDS TerminalSessions, TLAPS

-----------------------------------------------------------------------------
(* The inductive invariant: what the properties rest on.                   *)

\* A token that was made has an object and a reader that fit its kind; one that was
\* not has left no trace.
Unmade(t) ==
    /\ reader[t] = NoReader /\ wire[t] = <<>> /\ shown[t] = <<>>
    /\ t \notin attached /\ strays[t] = 0
AgentStage == {"history", "replay", "subscribe", "asks", "live", "done"}
Fitting(t) ==
    /\ arc[t].kind \in Kind /\ arc[t].view \in Id /\ reader[t].stage # "off"
    /\ arc[t].transport \in {"connected", "ended"}
    /\ arc[t].kind = "agent" => arc[t].daemon \in Id /\ reader[t].stage \in AgentStage
    /\ arc[t].kind = "history" => /\ arc[t].daemon \in Id /\ reader[t].then = "end"
                                  /\ reader[t].stage \in {"history", "replay", "done"}
    /\ arc[t].kind \in {"pty", "shell"} => /\ arc[t].daemon = None
                                           /\ reader[t].stage \in {"plain", "done"}
    /\ arc[t].control => /\ arc[t].kind = "agent"
                         /\ reader[t].stage \in {"subscribe", "asks", "live", "done"}
Objects == \A t \in Token : IF Made(t) THEN Fitting(t) ELSE Unmade(t)

\* Lines lie where the stage of the reader says; a client the daemon let go finds the
\* end of its stream.
Streaming(t) ==
    /\ t \in attached => reader[t].stage = "live"
    /\ t \in left => reader[t].stage = "done"
    /\ wire[t] # <<>> => reader[t].stage = "live"
    /\ reader[t].todo # <<>> => reader[t].stage = "replay"
    /\ \A i \in DOMAIN reader[t].todo : reader[t].todo[i][1] = "output"
    /\ reader[t].line # NoLine => \/ reader[t].stage = "live"
                                  \/ reader[t].stage = "replay" /\ reader[t].line[1] = "output"
    /\ reader[t].request = "sent" => reader[t].stage = "live"
    /\ reader[t].stage = "live" /\ t \notin attached => \E i \in DOMAIN wire[t] : wire[t][i] = End
Streams == \A t \in Token : Streaming(t)

\* The map of views names objects that were made; the objects of one view are of one
\* daemon, and so are the records.
Owner(v) == sessions[v] # None => Made(sessions[v])
Placing == \A v \in Id : Owner(v) /\ (placed[v] = None <=> sessions[v] = None)
OneDaemon == \A s, t \in Token : Made(s) /\ Made(t) /\ arc[s].view = arc[t].view
                => arc[s].daemon = arc[t].daemon
Recorded == \A d \in Id : records[d] # None =>
    \E t \in Token : Made(t) /\ arc[t].kind = "agent" /\ arc[t].view = records[d] /\ arc[t].daemon = d
Map == Placing /\ OneDaemon /\ Recorded /\ RecordsAreClosedViews

\* The command of the main thread is about an object that was made.
Asking == cmd.step # "none"
Commanding ==
    /\ cmd.op = "none" => cmd = Idle
    /\ Asking => /\ cmd.op # "none" /\ cmd.token \in Token /\ Made(cmd.token)
                 /\ cmd.op \in {"send", "detach"} => arc[cmd.token].kind = "agent"
    /\ cmd.step = "none" => cmd.op \in {"none", "window"}
    /\ cmd.step = "wait" => arc[cmd.token].kind = "agent" /\ arc[cmd.token].control
    /\ \A t \in cmd.rest : Made(t)

\* At most one request is under way, and it is the command's.
InWire(t) == \E i \in DOMAIN wire[t] : wire[t][i] = Response
OneRequest(t) ==
    /\ \A i, j \in DOMAIN wire[t] : wire[t][i] = Response /\ wire[t][j] = Response => i = j
    /\ reader[t].queued => reader[t].request = "none"
    /\ reader[t].queued \/ reader[t].request = "sent" => reader[t].line # Response /\ ~ InWire(t)
    /\ reader[t].line = Response => ~ InWire(t)
    /\ reader[t].request = "sent" \/ reader[t].line = Response \/ InWire(t) => Waits(t)
    /\ reader[t].queued => Waits(t) \/ (remote /\ reader[t].stage = "done")
    /\ Waits(t) => \/ reader[t].queued \/ reader[t].request = "sent"
                   \/ reader[t].line = Response \/ InWire(t)
                   \/ reader[t].stage = "done"
    /\ Waits(t) /\ remote => reader[t].stage # "done"
Requests == \A t \in Token : OneRequest(t)

\* What a closing window still has to close.
ToClose == cmd.rest \cup (IF Asking THEN {cmd.token} ELSE {})
Closing == \A v \in Id : sessions[v] # None /\ placed[v] \notin windows
                => cmd.op = "window" /\ sessions[v] \in ToClose

\* A view is open, or one of its objects has ended.
OpenOrEnded(v) ==
    sessions[v] # None \/ \E t \in Token : arc[t].view = v /\ arc[t].transport # "connected"
Sizing ==
    /\ \A d \in Id : \A v \in sized[d] : OpenOrEnded(v)
    /\ cmd.op = "send" /\ cmd.step = "found" => OpenOrEnded(arc[cmd.token].view)

\* A view that closes alone: the other readers of its daemon have ended and left no helper
\* client, and the daemon ends the run when it answers.
Alone == cmd.op = "close" /\ cmd.alone /\ Asking /\ arc[cmd.token].kind = "agent"
RunEnded == daemon[arc[cmd.token].daemon] # "running"
Lonely ==
    Alone =>
        /\ \A t \in Token \ {cmd.token} :
              Made(t) /\ arc[t].daemon = arc[cmd.token].daemon
                  => reader[t].stage = "done" /\ t \notin left
        /\ arc[cmd.token].control =>
              /\ reader[cmd.token].line = Response \/ InWire(cmd.token) => RunEnded
              /\ cmd.step = "ok" => RunEnded
        /\ ~ arc[cmd.token].control /\ cmd.step = "ok" =>
              RunEnded \/ reader[cmd.token].stage \in {"live", "done"}

\* A reader that pushed a line into another object has lost its view.
Strayed == \A t \in Token :
    /\ strays[t] <= 1
    /\ strays[t] = 1 => ~ Current(t) /\ reader[t].line[1] # "output"

\* The lines that a reader has still to show, the one it holds and those of its source,
\* come after those that it has shown, and its daemon has put all of them out.
Outputs(src) == {i \in DOMAIN src : src[i][1] = "output"}
Below(seq, n) == \A i \in DOMAIN seq : seq[i] < n
InOrder(seq, line, src) ==
    /\ \A i, j \in DOMAIN seq : i < j => seq[i] < seq[j]
    /\ \A i, j \in Outputs(src) : i < j => src[i][2] < src[j][2]
    /\ \A i \in Outputs(src) : Below(seq, src[i][2])
    /\ line[1] = "output" => /\ Below(seq, line[2])
                            /\ \A i \in Outputs(src) : line[2] < src[i][2]
Within(seq, line, src, n) ==
    /\ \A i \in DOMAIN seq : seq[i] <= n
    /\ \A i \in Outputs(src) : src[i][2] <= n
    /\ line[1] = "output" => line[2] <= n
Early == {"off", "history", "plain"}
Ordered(t) ==
    /\ reader[t].stage \in Early => shown[t] = <<>>
    /\ InOrder(shown[t], reader[t].line, Source(t))
    /\ arc[t].daemon \in Id => Within(shown[t], reader[t].line, Source(t), written[arc[t].daemon])
Order == (\A t \in Token : strays[t] = 0) => \A t \in Token : Ordered(t)

\* Nobody but the reader of a remote host asks the user.
Prompting == \A t \in Token : reader[t].stage = "asks" => remote

Parts == /\ Objects /\ Streams /\ Map /\ Commanding /\ Requests /\ Closing /\ Sizing /\ Lonely
         /\ Strayed /\ Order /\ Prompting
IInv == TypeOK /\ Parts

-----------------------------------------------------------------------------
(* Lines and sequences.                                                    *)

LEMMA LineIs ==
  /\ \A l \in Line : l[1] = "output" => l[2] \in 1..MaxOutput /\ l = Output(l[2])
  /\ {NoLine, Response, Exit, End} \subseteq Line /\ \A n \in 1..MaxOutput : Output(n) \in Line
  /\ \A l \in {NoLine, Response, Exit, End} : l[1] # "output"
  /\ NoLine # Response /\ NoLine # Exit /\ NoLine # End /\ Response # Exit /\ Response # End /\ Exit # End
  /\ \A n : /\ Output(n)[1] = "output" /\ Output(n)[2] = n
            /\ Output(n) \notin {NoLine, Response, Exit, End}
  BY DEF Line, Output, NoLine, Response, Exit, End

LEMMA FirstAndRest ==
  ASSUME NEW S, NEW s \in Seq(S), s # <<>>
  PROVE  /\ Head(s) = s[1] /\ Head(s) \in S /\ Tail(s) \in Seq(S)
         /\ Len(s) \in Nat \ {0} /\ Len(Tail(s)) = Len(s) - 1
         /\ DOMAIN s = 1..Len(s) /\ DOMAIN Tail(s) = 1..(Len(s) - 1)
         /\ \A i \in 1..(Len(s) - 1) : Tail(s)[i] = s[i + 1]
  OBVIOUS

LEMMA OneMore ==
  ASSUME NEW S, NEW s \in Seq(S), NEW x \in S
  PROVE  /\ Append(s, x) \in Seq(S) /\ DOMAIN s = 1..Len(s) /\ Len(s) \in Nat
         /\ DOMAIN Append(s, x) = 1..(Len(s) + 1)
         /\ Append(s, x)[Len(s) + 1] = x
         /\ \A i \in 1..Len(s) : Append(s, x)[i] = s[i]
  OBVIOUS

LEMMA OneAfter ==
  ASSUME NEW S, NEW s \in Seq(S), NEW x \in S
  PROVE  /\ s \o <<x>> \in Seq(S) /\ DOMAIN s = 1..Len(s) /\ Len(s) \in Nat
         /\ DOMAIN (s \o <<x>>) = 1..(Len(s) + 1)
         /\ (s \o <<x>>)[Len(s) + 1] = x
         /\ \A i \in 1..Len(s) : (s \o <<x>>)[i] = s[i]
  OBVIOUS

LEMMA TwoMore ==
  ASSUME NEW S, NEW s \in Seq(S), NEW x \in S, NEW y \in S
  PROVE  /\ s \o <<x, y>> \in Seq(S) /\ DOMAIN s = 1..Len(s) /\ Len(s) \in Nat
         /\ DOMAIN (s \o <<x, y>>) = 1..(Len(s) + 2)
         /\ (s \o <<x, y>>)[Len(s) + 1] = x /\ (s \o <<x, y>>)[Len(s) + 2] = y
         /\ \A i \in 1..Len(s) : (s \o <<x, y>>)[i] = s[i]
  OBVIOUS

-----------------------------------------------------------------------------
(* What the helpers of commands and readers do.                            *)

LEMMA NoneIsNothing == None \notin Id /\ None \notin Token /\ None \notin Window
  BY TerminalSessionsAssumption DEF None, Id, Token

LEMMA NoObject == NoArc \in ArcType /\ NoReader \in ReaderType /\ Idle \in CmdType
  BY LineIs DEF NoArc, NoReader, Idle, ArcType, ReaderType, CmdType, None, Stage, Ops

\* Nothing of an object but its transport changes.
SameObject(s) ==
    /\ arc'[s].kind = arc[s].kind /\ arc'[s].view = arc[s].view /\ arc'[s].daemon = arc[s].daemon
    /\ Made(s)' <=> Made(s)
LEMMA TransportIs ==
  ASSUME TypeOK, Objects, Placing, NEW v \in Id, NEW state \in {"connected", "ended"},
         arc' = Transport(v, state)
  PROVE  /\ arc' \in [Token -> ArcType]
         /\ \A s \in Token : /\ SameObject(s) /\ arc'[s].control = arc[s].control
                             /\ s # sessions[v] => arc'[s] = arc[s]
                             /\ s = sessions[v] => arc'[s].transport = state
<1>1. arc \in [Token -> ArcType] /\ sessions[v] \in Token \cup {None}
  BY DEF TypeOK
<1>2. CASE sessions[v] = None
  BY <1>1, <1>2, NoneIsNothing DEF Transport, SameObject, Made
<1>3. CASE sessions[v] # None
  <2>1. sessions[v] \in Token /\ arc' = [arc EXCEPT ![sessions[v]].transport = state]
    BY <1>1, <1>3 DEF Transport
  <2>2. Made(sessions[v])
    BY <1>3 DEF Placing, Owner
  <2>3. arc' \in [Token -> ArcType]
    BY <1>1, <2>1 DEF ArcType
  <2>4. ASSUME NEW s \in Token
        PROVE  /\ SameObject(s) /\ arc'[s].control = arc[s].control
               /\ s # sessions[v] => arc'[s] = arc[s]
               /\ s = sessions[v] => arc'[s].transport = state
    <3>1. CASE s # sessions[v]
      BY <1>1, <2>1, <3>1 DEF SameObject, Made
    <3>2. CASE s = sessions[v]
      <4>1. /\ arc'[s].kind = arc[s].kind /\ arc'[s].view = arc[s].view /\ arc'[s].daemon = arc[s].daemon
            /\ arc'[s].transport = state /\ arc'[s].control = arc[s].control
        BY <1>1, <2>1, <3>2 DEF ArcType
      <4>2. arc[s].kind # "none"
        BY <2>2, <3>2 DEF Objects, Fitting, Kind
      <4>3. Made(s) /\ Made(s)'
        BY <2>2, <3>2, <4>1, <4>2 DEF Made, NoArc
      <4>4. QED
        BY <3>2, <4>1, <4>3 DEF SameObject
    <3>3. QED
      BY <3>1, <3>2
  <2>5. QED
    BY <2>3, <2>4
<1>4. QED
  BY <1>2, <1>3

LEMMA RemoveIs ==
  ASSUME TypeOK, NEW v \in Id, Remove(v)
  PROVE  /\ shown' \in [Token -> Seq(1..MaxOutput)] /\ sessions' \in [Id -> Token \cup {None}]
         /\ placed' \in [Id -> Window \cup {None}] /\ sized' \in [Id -> SUBSET Id]
         /\ sessions'[v] = None /\ placed'[v] = None
         /\ \A i \in Id \ {v} : sessions'[i] = sessions[i] /\ placed'[i] = placed[i]
         /\ \A d \in Id : sized'[d] = sized[d] \ {v}
         /\ \A s \in Token : shown'[s] \in {shown[s], <<>>}
<1>1. /\ sessions' = [sessions EXCEPT ![v] = None] /\ placed' = [placed EXCEPT ![v] = None]
      /\ sized' = [d \in Id |-> sized[d] \ {v}]
      /\ shown' = IF sessions[v] = None THEN shown ELSE [shown EXCEPT ![sessions[v]] = <<>>]
  BY DEF Remove, SizesWithout
<1>2. QED
  BY <1>1 DEF TypeOK

LEMMA StopsIs ==
  ASSUME TypeOK, NEW t \in Token, Stops(t)
  PROVE  /\ reader' \in [Token -> ReaderType] /\ wire' \in [Token -> Seq(Line)]
         /\ attached' = attached \ {t} /\ left' \in SUBSET Token
         /\ \A s \in Token \ {t} : s \in left' <=> s \in left
         /\ wire'[t] = <<>> /\ reader'[t].stage = "done" /\ reader'[t].then = "end"
         /\ reader'[t].line = NoLine /\ reader'[t].request = "none" /\ reader'[t].todo = <<>>
         /\ reader'[t].queued = reader[t].queued
         /\ \A s \in Token \ {t} : reader'[s] = reader[s] /\ wire'[s] = wire[s]
<1>1. /\ reader' = [reader EXCEPT ![t] = [@ EXCEPT !.stage = "done", !.then = "end", !.line = NoLine,
                                              !.request = "none", !.todo = <<>>]]
      /\ attached' = attached \ {t} /\ wire' = [wire EXCEPT ![t] = <<>>]
      /\ left' = left \/ left' = left \cup {t}
  BY DEF Stops
<1>2. /\ reader[t] \in ReaderType /\ reader \in [Token -> ReaderType] /\ wire \in [Token -> Seq(Line)]
      /\ left \subseteq Token
  BY DEF TypeOK
<1>3. reader'[t] = [stage |-> "done", then |-> "end", todo |-> <<>>, line |-> NoLine,
                    request |-> "none", queued |-> reader[t].queued]
  BY <1>1, <1>2 DEF ReaderType
<1>4. reader'[t] \in ReaderType
  BY <1>2, <1>3, LineIs DEF ReaderType, Stage
<1>5. QED
  BY <1>1, <1>2, <1>3, <1>4

LEMMA EndRunIs ==
  ASSUME TypeOK, NEW d \in Id, NEW state \in {"exited", "deleted"}, EndRun(d, state)
  PROVE  /\ daemon' \in [Id -> {"none", "running", "exited", "deleted"}]
         /\ wire' \in [Token -> Seq(Line)]
         /\ daemon'[d] = state /\ \A e \in Id \ {d} : daemon'[e] = daemon[e]
         /\ attached' = attached \ SubscribersOf(d) /\ left' = left \ LeftOf(d)
         /\ \A s \in Token : wire'[s] = IF s \in SubscribersOf(d) THEN wire[s] \o <<Exit, End>> ELSE wire[s]
<1>1. /\ daemon' = [daemon EXCEPT ![d] = state]
      /\ wire' = [s \in Token |-> IF s \in SubscribersOf(d) THEN wire[s] \o <<Exit, End>> ELSE wire[s]]
      /\ attached' = attached \ SubscribersOf(d) /\ left' = left \ LeftOf(d)
  BY DEF EndRun
<1>2. wire \in [Token -> Seq(Line)] /\ daemon \in [Id -> {"none", "running", "exited", "deleted"}]
  BY DEF TypeOK
<1>3. \A s \in Token : wire[s] \o <<Exit, End>> \in Seq(Line)
  BY <1>2, TwoMore, LineIs
<1>4. QED
  BY <1>1, <1>2, <1>3

-----------------------------------------------------------------------------
(* A view is made.                                                         *)

LEMMA ThreadIs ==
  ASSUME NEW stage \in Stage, NEW then \in {"live", "end"}
  PROVE  /\ Thread(stage, then) \in ReaderType
         /\ Thread(stage, then).stage = stage /\ Thread(stage, then).then = then
         /\ Thread(stage, then).todo = <<>> /\ Thread(stage, then).line = NoLine
         /\ Thread(stage, then).request = "none" /\ Thread(stage, then).queued = FALSE
  BY LineIs DEF Thread, ReaderType

\* What is put into the map: an object and a reader that fit each other, under an id nobody
\* has used, or under the one that a record kept.
NewObject(a, r) ==
    /\ a.kind \in Kind /\ a.view \in Id /\ a.transport = "connected"
    /\ r.line = NoLine /\ r.todo = <<>> /\ r.request = "none" /\ r.queued = FALSE
    /\ \/ /\ a.kind = "agent" /\ a.daemon \in Id
          /\ \/ a.control /\ r.stage = "subscribe"
             \/ ~ a.control /\ r.stage = "history"
       \/ a.kind = "history" /\ a.daemon \in Id /\ ~ a.control /\ r.stage = "history" /\ r.then = "end"
       \/ a.kind \in {"pty", "shell"} /\ a.daemon = None /\ ~ a.control /\ r.stage = "plain"
NewView(a) ==
    \/ ~ Used(a.view) /\ UNCHANGED records
    \/ /\ a.kind = "agent" /\ records[a.daemon] = a.view
       /\ records' = [records EXCEPT ![a.daemon] = None]
Made1(w) ==
    \E t \in Token, a \in ArcType, r \in ReaderType :
        /\ ~ Made(t) /\ Open(t, w, a, r) /\ NewObject(a, r) /\ NewView(a)
MakingIsSeen ==
    /\ cmd = Idle
    /\ UNCHANGED <<shown, host, windows, sized, wire, attached, left, strays, written, cmd>>
    /\ daemon' \in [Id -> {"none", "running", "exited", "deleted"}]
    /\ \A d \in Id : daemon'[d] = daemon[d] \/ daemon[d] = "none"
    /\ UNCHANGED <<arc, views, reader, records>> \/ \E w \in windows : Made1(w)

LEMMA LaunchIs ==
  ASSUME TypeOK, NEW v \in Id, ~ Used(v), NEW outcome \in LocalLaunch, Launched(v, outcome)
  PROVE  /\ daemon' \in [Id -> {"none", "running", "exited", "deleted"}]
         /\ \A d \in Id : daemon'[d] = daemon[d] \/ daemon[d] = "none"
  BY DEF TypeOK, Launched, LocalLaunch, Used

LEMMA MakeViewIs ==
  ASSUME TypeOK, MakeView
  PROVE  MakingIsSeen
<1>1. PICK w \in windows, t \in FreshTokens :
        \/ \E v \in FreshIds :
            \/ CreateLocalAgent(w, v, t) \/ CreateSshAgent(w, v, t)
            \/ CreatePty(w, v, t) \/ CreateShell(w, v, t)
            \/ \E d \in Id : AttachRegistry(d, w, v, t) \/ OpenHistory(d, w, v, t)
        \/ \E d \in Id : AttachRecord(d, w, t)
  BY DEF MakeView
<1>2. t \in Token /\ ~ Made(t)
  BY DEF FreshTokens
<1>3. {"subscribe", "history", "plain"} \subseteq Stage /\ {"agent", "history", "pty", "shell"} = Kind
  BY DEF Stage, Kind
<1>4. ASSUME NEW v \in FreshIds, CreateLocalAgent(w, v, t) PROVE MakingIsSeen
  <2>1. v \in Id /\ ~ Used(v)
    BY DEF FreshIds
  <2>2. PICK outcome \in LocalLaunch :
          /\ Launched(v, outcome)
          /\ CASE outcome = "running" ->
                    Open(t, w, Arc("agent", v, v, TRUE), Thread("subscribe", "live"))
             [] outcome = "exited" ->
                    Open(t, w, Arc("history", v, v, FALSE), Thread("history", "end"))
             [] OTHER -> UNCHANGED <<arc, views, reader>>
    BY <1>4 DEF CreateLocalAgent
  <2>3. /\ daemon' \in [Id -> {"none", "running", "exited", "deleted"}]
        /\ \A d \in Id : daemon'[d] = daemon[d] \/ daemon[d] = "none"
    BY <2>1, <2>2, LaunchIs
  <2>4. cmd = Idle /\ UNCHANGED <<shown, host, windows, records, sized, wire, attached, left, strays, written, cmd>>
    BY <1>4 DEF CreateLocalAgent
  <2>5. CASE outcome = "running"
    <3> DEFINE a == Arc("agent", v, v, TRUE)
               r == Thread("subscribe", "live")
    <3>1. Open(t, w, a, r)
      BY <2>2, <2>5
    <3>2a. a \in ArcType /\ a.kind = "agent" /\ a.view = v /\ a.daemon = v /\ a.transport = "connected" /\ a.control
      BY <2>1, <1>3 DEF Arc, ArcType
    <3>2. /\ r \in ReaderType /\ r.stage = "subscribe"
          /\ r.line = NoLine /\ r.todo = <<>> /\ r.request = "none" /\ r.queued = FALSE
      BY <1>3, ThreadIs
    <3> HIDE DEF a, r
    <3>3. NewObject(a, r) /\ NewView(a)
      BY <1>3, <2>1, <2>4, <3>2a, <3>2 DEF NewObject, NewView
    <3>4. Made1(w)
      BY <1>2, <3>1, <3>2a, <3>2, <3>3 DEF Made1
    <3>5. QED
      BY <2>3, <2>4, <3>4 DEF MakingIsSeen
  <2>6. CASE outcome = "exited"
    <3> DEFINE a == Arc("history", v, v, FALSE)
               r == Thread("history", "end")
    <3>1. Open(t, w, a, r)
      BY <2>2, <2>6
    <3>2a. a \in ArcType /\ a.kind = "history" /\ a.view = v /\ a.daemon = v /\ a.transport = "connected" /\ ~ a.control
      BY <2>1, <1>3 DEF Arc, ArcType
    <3>2. /\ r \in ReaderType /\ r.stage = "history" /\ r.then = "end"
          /\ r.line = NoLine /\ r.todo = <<>> /\ r.request = "none" /\ r.queued = FALSE
      BY <1>3, ThreadIs
    <3> HIDE DEF a, r
    <3>3. NewObject(a, r) /\ NewView(a)
      BY <1>3, <2>1, <2>4, <3>2a, <3>2 DEF NewObject, NewView
    <3>4. Made1(w)
      BY <1>2, <3>1, <3>2a, <3>2, <3>3 DEF Made1
    <3>5. QED
      BY <2>3, <2>4, <3>4 DEF MakingIsSeen
  <2>7. CASE outcome \notin {"running", "exited"}
    BY <2>2, <2>3, <2>4, <2>7 DEF MakingIsSeen
  <2>8. QED
    BY <2>5, <2>6, <2>7
<1>5. ASSUME NEW v \in FreshIds, CreateSshAgent(w, v, t) PROVE MakingIsSeen
  <2>1. v \in Id /\ ~ Used(v)
    BY DEF FreshIds
  <2>2. PICK outcome \in RemoteLaunch :
          /\ Launched(v, outcome)
          /\ IF outcome = "running"
             THEN Open(t, w, Arc("agent", v, v, TRUE), Thread("subscribe", "live"))
             ELSE UNCHANGED <<arc, views, reader>>
    BY <1>5 DEF CreateSshAgent
  <2>3. /\ daemon' \in [Id -> {"none", "running", "exited", "deleted"}]
        /\ \A d \in Id : daemon'[d] = daemon[d] \/ daemon[d] = "none"
    BY <2>1, <2>2, LaunchIs DEF RemoteLaunch, LocalLaunch
  <2>4. cmd = Idle /\ UNCHANGED <<shown, host, windows, records, sized, wire, attached, left, strays, written, cmd>>
    BY <1>5 DEF CreateSshAgent
  <2>5. CASE outcome = "running"
    <3> DEFINE a == Arc("agent", v, v, TRUE)
               r == Thread("subscribe", "live")
    <3>1. Open(t, w, a, r)
      BY <2>2, <2>5
    <3>2a. a \in ArcType /\ a.kind = "agent" /\ a.view = v /\ a.daemon = v /\ a.transport = "connected" /\ a.control
      BY <2>1, <1>3 DEF Arc, ArcType
    <3>2. /\ r \in ReaderType /\ r.stage = "subscribe"
          /\ r.line = NoLine /\ r.todo = <<>> /\ r.request = "none" /\ r.queued = FALSE
      BY <1>3, ThreadIs
    <3> HIDE DEF a, r
    <3>3. NewObject(a, r) /\ NewView(a)
      BY <1>3, <2>1, <2>4, <3>2a, <3>2 DEF NewObject, NewView
    <3>4. Made1(w)
      BY <1>2, <3>1, <3>2a, <3>2, <3>3 DEF Made1
    <3>5. QED
      BY <2>3, <2>4, <3>4 DEF MakingIsSeen
  <2>6. CASE outcome # "running"
    BY <2>2, <2>3, <2>4, <2>6 DEF MakingIsSeen
  <2>7. QED
    BY <2>5, <2>6
<1>6. ASSUME NEW v \in FreshIds, CreatePty(w, v, t) PROVE MakingIsSeen
  <2>1. v \in Id /\ ~ Used(v)
    BY DEF FreshIds
  <2> DEFINE a == Arc("pty", v, None, FALSE)
             r == Thread("plain", "end")
  <2>2. /\ Open(t, w, a, r) /\ cmd = Idle
        /\ UNCHANGED <<shown, host, windows, sized, wire, attached, left, strays, runs, cmd>> /\ UNCHANGED records
    BY <1>6 DEF CreatePty
  <2>3a. a \in ArcType /\ a.kind = "pty" /\ a.view = v /\ a.daemon = None /\ a.transport = "connected" /\ ~ a.control
    BY <2>1, <1>3 DEF Arc, ArcType
  <2>3. /\ r \in ReaderType /\ r.stage = "plain" /\ r.then = "end"
        /\ r.line = NoLine /\ r.todo = <<>> /\ r.request = "none" /\ r.queued = FALSE
    BY <1>3, ThreadIs
  <2> HIDE DEF a, r
  <2>4. NewObject(a, r) /\ NewView(a)
    BY <1>3, <2>1, <2>2, <2>3a, <2>3 DEF NewObject, NewView
  <2>5. Made1(w)
    BY <1>2, <2>2, <2>3a, <2>3, <2>4 DEF Made1
  <2>6. QED
    BY <2>2, <2>5 DEF MakingIsSeen, TypeOK, runs
<1>7. ASSUME NEW v \in FreshIds, CreateShell(w, v, t) PROVE MakingIsSeen
  <2>1. v \in Id /\ ~ Used(v)
    BY DEF FreshIds
  <2> DEFINE a == Arc("shell", v, None, FALSE)
             r == Thread("plain", "end")
  <2>2. /\ Open(t, w, a, r) /\ cmd = Idle
        /\ UNCHANGED <<shown, host, windows, sized, wire, attached, left, strays, runs, cmd>> /\ UNCHANGED records
    BY <1>7 DEF CreateShell
  <2>3a. a \in ArcType /\ a.kind = "shell" /\ a.view = v /\ a.daemon = None /\ a.transport = "connected" /\ ~ a.control
    BY <2>1, <1>3 DEF Arc, ArcType
  <2>3. /\ r \in ReaderType /\ r.stage = "plain" /\ r.then = "end"
        /\ r.line = NoLine /\ r.todo = <<>> /\ r.request = "none" /\ r.queued = FALSE
    BY <1>3, ThreadIs
  <2> HIDE DEF a, r
  <2>4. NewObject(a, r) /\ NewView(a)
    BY <1>3, <2>1, <2>2, <2>3a, <2>3 DEF NewObject, NewView
  <2>5. Made1(w)
    BY <1>2, <2>2, <2>3a, <2>3, <2>4 DEF Made1
  <2>6. QED
    BY <2>2, <2>5 DEF MakingIsSeen, TypeOK, runs
<1>8. ASSUME NEW v \in FreshIds, NEW d \in Id, AttachRegistry(d, w, v, t) PROVE MakingIsSeen
  <2>1. v \in Id /\ ~ Used(v)
    BY DEF FreshIds
  <2> DEFINE a == Arc("agent", v, d, FALSE)
             r == Thread("history", "live")
  <2>2. /\ Open(t, w, a, r) /\ cmd = Idle
        /\ UNCHANGED <<shown, host, windows, sized, wire, attached, left, strays, runs, cmd>> /\ UNCHANGED records
    BY <1>8 DEF AttachRegistry
  <2>3a. a \in ArcType /\ a.kind = "agent" /\ a.view = v /\ a.daemon = d /\ a.transport = "connected" /\ ~ a.control
    BY <2>1, <1>3 DEF Arc, ArcType
  <2>3. /\ r \in ReaderType /\ r.stage = "history" /\ r.then = "live"
        /\ r.line = NoLine /\ r.todo = <<>> /\ r.request = "none" /\ r.queued = FALSE
    BY <1>3, ThreadIs
  <2> HIDE DEF a, r
  <2>4. NewObject(a, r) /\ NewView(a)
    BY <1>3, <2>1, <2>2, <2>3a, <2>3 DEF NewObject, NewView
  <2>5. Made1(w)
    BY <1>2, <2>2, <2>3a, <2>3, <2>4 DEF Made1
  <2>6. QED
    BY <2>2, <2>5 DEF MakingIsSeen, TypeOK, runs
<1>9. ASSUME NEW v \in FreshIds, NEW d \in Id, OpenHistory(d, w, v, t) PROVE MakingIsSeen
  <2>1. v \in Id /\ ~ Used(v)
    BY DEF FreshIds
  <2> DEFINE a == Arc("history", v, d, FALSE)
             r == Thread("history", "end")
  <2>2. /\ Open(t, w, a, r) /\ cmd = Idle
        /\ UNCHANGED <<shown, host, windows, sized, wire, attached, left, strays, runs, cmd>> /\ UNCHANGED records
    BY <1>9 DEF OpenHistory
  <2>3a. a \in ArcType /\ a.kind = "history" /\ a.view = v /\ a.daemon = d /\ a.transport = "connected" /\ ~ a.control
    BY <2>1, <1>3 DEF Arc, ArcType
  <2>3. /\ r \in ReaderType /\ r.stage = "history" /\ r.then = "end"
        /\ r.line = NoLine /\ r.todo = <<>> /\ r.request = "none" /\ r.queued = FALSE
    BY <1>3, ThreadIs
  <2> HIDE DEF a, r
  <2>4. NewObject(a, r) /\ NewView(a)
    BY <1>3, <2>1, <2>2, <2>3a, <2>3 DEF NewObject, NewView
  <2>5. Made1(w)
    BY <1>2, <2>2, <2>3a, <2>3, <2>4 DEF Made1
  <2>6. QED
    BY <2>2, <2>5 DEF MakingIsSeen, TypeOK, runs
<1>10. ASSUME NEW d \in Id, AttachRecord(d, w, t) PROVE MakingIsSeen
  <2>1. records[d] \in Id
    BY <1>10 DEF TypeOK, AttachRecord
  <2> DEFINE a == Arc("agent", records[d], d, TRUE)
             r == Thread("subscribe", "live")
  <2>2. /\ Open(t, w, a, r) /\ cmd = Idle
        /\ UNCHANGED <<shown, host, windows, sized, wire, attached, left, strays, runs, cmd>>
        /\ records' = [records EXCEPT ![d] = None]
    BY <1>10 DEF AttachRecord
  <2>3a. a \in ArcType /\ a.kind = "agent" /\ a.view = records[d] /\ a.daemon = d /\ a.transport = "connected" /\ a.control
    BY <2>1, <1>3 DEF Arc, ArcType
  <2>3. /\ r \in ReaderType /\ r.stage = "subscribe" /\ r.then = "live"
        /\ r.line = NoLine /\ r.todo = <<>> /\ r.request = "none" /\ r.queued = FALSE
    BY <1>3, ThreadIs
  <2> HIDE DEF a, r
  <2>4. NewObject(a, r) /\ NewView(a)
    BY <1>3, <2>1, <2>2, <2>3a, <2>3 DEF NewObject, NewView
  <2>5. Made1(w)
    BY <1>2, <2>2, <2>3a, <2>3, <2>4 DEF Made1
  <2>6. QED
    BY <2>2, <2>5 DEF MakingIsSeen, TypeOK, runs
<1>11. QED
  BY <1>1, <1>4, <1>5, <1>6, <1>7, <1>8, <1>9, <1>10

LEMMA OpenIs ==
  ASSUME TypeOK, Objects, Placing, NEW w \in Window, NEW t \in Token, NEW a \in ArcType, NEW r \in ReaderType,
         ~ Made(t), Open(t, w, a, r), NewObject(a, r)
  PROVE  /\ arc' \in [Token -> ArcType] /\ reader' \in [Token -> ReaderType]
         /\ sessions' \in [Id -> Token \cup {None}] /\ placed' \in [Id -> Window \cup {None}]
         /\ arc'[t] = a /\ reader'[t] = r /\ Made(t)'
         /\ sessions'[a.view] = t /\ placed'[a.view] = w
         /\ \A s \in Token \ {t} : arc'[s] = arc[s] /\ reader'[s] = reader[s] /\ (Made(s)' <=> Made(s))
         /\ \A i \in Id \ {a.view} : sessions'[i] = sessions[i] /\ placed'[i] = placed[i]
         /\ \A i \in Id : sessions[i] # t
         /\ Unmade(t)
<1>1. a.view \in Id
  BY DEF NewObject
<1>2. /\ arc' = [arc EXCEPT ![t] = a] /\ sessions' = [sessions EXCEPT ![a.view] = t]
      /\ placed' = [placed EXCEPT ![a.view] = w] /\ reader' = [reader EXCEPT ![t] = r]
  BY DEF Open
<1>3. /\ arc \in [Token -> ArcType] /\ sessions \in [Id -> Token \cup {None}]
      /\ placed \in [Id -> Window \cup {None}] /\ reader \in [Token -> ReaderType]
  BY DEF TypeOK
<1>4. \A i \in Id : sessions[i] # t
  BY NoneIsNothing DEF Placing, Owner
<1>5. a # NoArc
  BY DEF NewObject, NoArc, Kind
<1>6. Unmade(t)
  BY DEF Objects
<1>7. QED
  BY <1>1, <1>2, <1>3, <1>4, <1>5, <1>6 DEF Made

-----------------------------------------------------------------------------
(* Types.                                                                  *)

Linked == \A i \in Id : sessions[i] # None => arc[sessions[i]].view = i /\ placed[i] \in Window

\* A step that makes no view: the objects keep what they are, and views are only removed.
LEMMA LinksKept ==
  ASSUME TypeOK, \A s \in Token : arc'[s].view = arc[s].view,
         \A i \in Id : /\ sessions'[i] = sessions[i] \/ sessions'[i] = None
                       /\ sessions'[i] # None => placed'[i] = placed[i]
  PROVE  Linked'
<1>1. ASSUME NEW i \in Id, sessions'[i] # None PROVE arc'[sessions'[i]].view = i /\ placed'[i] \in Window
  <2>1. sessions'[i] = sessions[i] /\ placed'[i] = placed[i]
    BY <1>1
  <2>2. sessions[i] \in Token /\ arc[sessions[i]].view = i /\ placed[i] \in Window
    BY <1>1, <2>1 DEF TypeOK
  <2>3. QED
    BY <2>1, <2>2
<1>2. QED
  BY <1>1 DEF Linked

\* What a command, a reader and a daemon's run need to be about.
LEMMA AgentsHaveDaemons ==
  ASSUME Objects
  PROVE  \A t \in Token : /\ Made(t) => arc[t].view \in Id
                          /\ arc[t].kind \in {"agent", "history"} => arc[t].daemon \in Id
                          /\ reader[t].stage # "off" => Made(t) /\ arc[t].view \in Id
                          /\ reader[t].stage \in AgentStage \ {"done"} => arc[t].daemon \in Id
<1> SUFFICES ASSUME NEW t \in Token
             PROVE  /\ Made(t) => arc[t].view \in Id
                    /\ arc[t].kind \in {"agent", "history"} => arc[t].daemon \in Id
                    /\ reader[t].stage # "off" => Made(t) /\ arc[t].view \in Id
                    /\ reader[t].stage \in AgentStage \ {"done"} => arc[t].daemon \in Id
  OBVIOUS
<1>1. CASE Made(t)
  <2>1. Fitting(t)
    BY <1>1 DEF Objects
  <2>2. QED
    BY <1>1, <2>1 DEF Fitting, Kind, AgentStage
<1>2. CASE ~ Made(t)
  <2>1. reader[t] = NoReader /\ arc[t] = NoArc
    BY <1>2 DEF Objects, Unmade, Made
  <2>2. QED
    BY <1>2, <2>1 DEF NoReader, NoArc, AgentStage
<1>3. QED
  BY <1>1, <1>2

LEMMA FailViewTypes ==
  ASSUME TypeOK, Objects, Placing, NEW t \in Token, arc[t].view \in Id,
         arc' = Transport(arc[t].view, "ended"), Remove(arc[t].view), Stops(t),
         UNCHANGED <<host, windows, records, runs, strays>>, cmd' \in CmdType
  PROVE  TypeOK'
<1>1. arc' \in [Token -> ArcType] /\ \A s \in Token : arc'[s].view = arc[s].view
  BY TransportIs DEF SameObject
<1>2. /\ shown' \in [Token -> Seq(1..MaxOutput)] /\ sessions' \in [Id -> Token \cup {None}]
      /\ placed' \in [Id -> Window \cup {None}] /\ sized' \in [Id -> SUBSET Id]
      /\ \A i \in Id : /\ sessions'[i] = sessions[i] \/ sessions'[i] = None
                       /\ sessions'[i] # None => placed'[i] = placed[i]
  BY RemoveIs
<1>3. /\ reader' \in [Token -> ReaderType] /\ wire' \in [Token -> Seq(Line)]
      /\ attached' = attached \ {t} /\ left' \in SUBSET Token
  BY StopsIs
<1>4. Linked'
  BY <1>1, <1>2, LinksKept
<1>5. QED
  BY <1>1, <1>2, <1>3, <1>4 DEF TypeOK, Linked, host, runs

LEMMA CmdStepType ==
  ASSUME TypeOK, NEW x \in {"none", "found", "wait", "asks", "ok", "failed"}
  PROVE  [cmd EXCEPT !.step = x] \in CmdType
  BY DEF TypeOK, CmdType

LEMMA DropRequestsIs ==
  ASSUME TypeOK, NEW t \in Token, DropRequests(t)
  PROVE  /\ cmd' \in CmdType /\ cmd'.op = cmd.op /\ cmd'.token = cmd.token /\ cmd'.rest = cmd.rest
         /\ cmd'.alone = cmd.alone
         /\ cmd'.step = IF remote /\ Waits(t) THEN "failed" ELSE cmd.step
<1>1. cmd \in CmdType
  BY DEF TypeOK
<1>2. CASE remote /\ Waits(t)
  <2>1. cmd' = [cmd EXCEPT !.step = "failed"]
    BY <1>2 DEF DropRequests
  <2>2. QED
    BY <1>1, <1>2, <2>1 DEF CmdType
<1>3. CASE ~ (remote /\ Waits(t))
  BY <1>1, <1>3 DEF DropRequests
<1>4. QED
  BY <1>2, <1>3

LEMMA MakeViewTypes ==
  ASSUME TypeOK, Objects, Placing, MakeView
  PROVE  TypeOK'
<1>1. MakingIsSeen
  BY MakeViewIs
<1>2. CASE UNCHANGED <<arc, views, reader, records>>
  BY <1>1, <1>2 DEF MakingIsSeen, TypeOK, host, views
<1>3. CASE \E w \in windows : Made1(w)
  <2>1. PICK w \in windows, t \in Token, a \in ArcType, r \in ReaderType :
            ~ Made(t) /\ Open(t, w, a, r) /\ NewObject(a, r) /\ NewView(a)
    BY <1>3 DEF Made1
  <2>2. w \in Window
    BY DEF TypeOK
  <2>3. /\ arc' \in [Token -> ArcType] /\ reader' \in [Token -> ReaderType]
        /\ sessions' \in [Id -> Token \cup {None}] /\ placed' \in [Id -> Window \cup {None}]
        /\ arc'[t] = a /\ sessions'[a.view] = t /\ placed'[a.view] = w
        /\ \A s \in Token \ {t} : arc'[s] = arc[s]
        /\ \A i \in Id \ {a.view} : sessions'[i] = sessions[i] /\ placed'[i] = placed[i]
        /\ \A i \in Id : sessions[i] # t
    BY <2>1, <2>2, OpenIs
  <2>4. Linked'
    <3>1. ASSUME NEW i \in Id, sessions'[i] # None PROVE arc'[sessions'[i]].view = i /\ placed'[i] \in Window
      <4>1. CASE i = a.view
        BY <2>2, <2>3, <4>1
      <4>2. CASE i # a.view
        <5>1. sessions'[i] = sessions[i] /\ sessions[i] \in Token \ {t} /\ placed'[i] = placed[i]
          BY <2>3, <3>1, <4>2 DEF TypeOK
        <5>2. QED
          BY <2>3, <3>1, <5>1 DEF TypeOK
      <4>3. QED
        BY <4>1, <4>2
    <3>2. QED
      BY <3>1 DEF Linked
  <2>5. records' \in [Id -> Id \cup {None}]
    <3>1. records \in [Id -> Id \cup {None}]
      BY DEF TypeOK
    <3>2. records' = records \/ records' = [records EXCEPT ![a.daemon] = None]
      BY <2>1 DEF NewView
    <3>3. QED
      BY <3>1, <3>2
  <2>6. QED
    BY <1>1, <2>3, <2>4, <2>5 DEF MakingIsSeen, TypeOK, Linked, host
<1>4. QED
  BY <1>1, <1>2, <1>3 DEF MakingIsSeen

LEMMA FieldChanges ==
  ASSUME NEW t \in Token, NEW f \in [Token -> ReaderType]
  PROVE  /\ \A l \in Line : [f EXCEPT ![t].line = l] \in [Token -> ReaderType]
         /\ \A x \in Stage : [f EXCEPT ![t].stage = x] \in [Token -> ReaderType]
         /\ \A x \in {"live", "end"} : [f EXCEPT ![t].then = x] \in [Token -> ReaderType]
         /\ \A x \in Seq(Line) : [f EXCEPT ![t].todo = x] \in [Token -> ReaderType]
         /\ \A x \in BOOLEAN : [f EXCEPT ![t].queued = x] \in [Token -> ReaderType]
         /\ \A x \in {"none", "sent"} : [f EXCEPT ![t].request = x] \in [Token -> ReaderType]
<1>1. \A l \in Line : [f EXCEPT ![t].line = l] \in [Token -> ReaderType]
  BY DEF ReaderType
<1>2. \A x \in Stage : [f EXCEPT ![t].stage = x] \in [Token -> ReaderType]
  BY DEF ReaderType
<1>3. \A x \in {"live", "end"} : [f EXCEPT ![t].then = x] \in [Token -> ReaderType]
  BY DEF ReaderType
<1>4. \A x \in Seq(Line) : [f EXCEPT ![t].todo = x] \in [Token -> ReaderType]
  BY DEF ReaderType
<1>5. \A x \in BOOLEAN : [f EXCEPT ![t].queued = x] \in [Token -> ReaderType]
  BY DEF ReaderType
<1>6. \A x \in {"none", "sent"} : [f EXCEPT ![t].request = x] \in [Token -> ReaderType]
  BY DEF ReaderType
<1>7. QED
  BY <1>1, <1>2, <1>3, <1>4, <1>5, <1>6

LEMMA ReaderChanges ==
  ASSUME TypeOK, NEW t \in Token
  PROVE  /\ \A l \in Line : [reader EXCEPT ![t].line = l] \in [Token -> ReaderType]
         /\ \A x \in Stage : [reader EXCEPT ![t].stage = x] \in [Token -> ReaderType]
         /\ \A x \in Stage : [reader EXCEPT ![t].then = "end", ![t].stage = x] \in [Token -> ReaderType]
         /\ [reader EXCEPT ![t].queued = TRUE] \in [Token -> ReaderType]
         /\ [reader EXCEPT ![t].queued = FALSE] \in [Token -> ReaderType]
         /\ [reader EXCEPT ![t].queued = FALSE, ![t].request = "sent"] \in [Token -> ReaderType]
         /\ [reader EXCEPT ![t].request = "none"] \in [Token -> ReaderType]
<1>1. reader \in [Token -> ReaderType]
  BY DEF TypeOK
<1>2. /\ \A l \in Line : [reader EXCEPT ![t].line = l] \in [Token -> ReaderType]
      /\ \A x \in Stage : [reader EXCEPT ![t].stage = x] \in [Token -> ReaderType]
      /\ [reader EXCEPT ![t].then = "end"] \in [Token -> ReaderType]
      /\ [reader EXCEPT ![t].queued = TRUE] \in [Token -> ReaderType]
      /\ [reader EXCEPT ![t].queued = FALSE] \in [Token -> ReaderType]
      /\ [reader EXCEPT ![t].request = "none"] \in [Token -> ReaderType]
  BY <1>1, FieldChanges
<1>3. \A x \in Stage : [reader EXCEPT ![t].then = "end", ![t].stage = x] \in [Token -> ReaderType]
  BY <1>2, FieldChanges
<1>4. [reader EXCEPT ![t].queued = FALSE, ![t].request = "sent"] \in [Token -> ReaderType]
  BY <1>2, FieldChanges
<1>5. QED
  BY <1>2, <1>3, <1>4

\* A reader that asks the user or has its answer, and a helper client that is left over and
\* ends, change nothing else.
Pauses(t) ==
    /\ UNCHANGED <<shown, host, windows, views, records, sized, arc, wire, attached, strays, runs, cmd>>
    /\ reader' \in [Token -> ReaderType] /\ left' \subseteq left
    /\ \A s \in Token \ {t} : reader'[s] = reader[s]
    /\ reader'[t].then = reader[t].then /\ reader'[t].todo = reader[t].todo
    /\ reader'[t].line = reader[t].line /\ reader'[t].request = reader[t].request
    /\ reader'[t].queued = reader[t].queued
    /\ \/ reader' = reader
       \/ /\ reader[t].stage \in {"subscribe", "asks"} /\ left' = left
          /\ \/ remote /\ reader'[t].stage = "asks"
             \/ cmd = Idle /\ reader'[t].stage = "subscribe"
LEMMA PausesIs ==
  ASSUME TypeOK, NEW t \in Token, Prompt(t) \/ Reply(t) \/ ClientEnds(t)
  PROVE  Pauses(t)
<1>1. reader \in [Token -> ReaderType]
  BY DEF TypeOK
<1>2. ASSUME NEW x \in {"subscribe", "asks"}, reader' = [reader EXCEPT ![t].stage = x]
      PROVE  /\ reader' \in [Token -> ReaderType] /\ \A s \in Token \ {t} : reader'[s] = reader[s]
             /\ reader'[t].then = reader[t].then /\ reader'[t].todo = reader[t].todo
             /\ reader'[t].line = reader[t].line /\ reader'[t].request = reader[t].request
             /\ reader'[t].queued = reader[t].queued /\ reader'[t].stage = x
  <2>1. x \in Stage
    BY DEF Stage
  <2>2. reader' \in [Token -> ReaderType]
    BY <1>1, <1>2, <2>1, FieldChanges
  <2>3. QED
    BY <1>1, <1>2, <2>2 DEF ReaderType
<1>3. CASE Prompt(t)
  BY <1>2, <1>3 DEF Prompt, Pauses
<1>4. CASE Reply(t)
  BY <1>2, <1>4 DEF Reply, Pauses
<1>5. CASE ClientEnds(t)
  BY <1>1, <1>5 DEF ClientEnds, Pauses
<1>6. QED
  BY <1>3, <1>4, <1>5

LEMMA SizesTypes ==
  ASSUME TypeOK, arc[cmd.token].daemon \in Id, arc[cmd.token].view \in Id
  PROVE  Sizes \subseteq [Id -> SUBSET Id]
<1>1. sized \in [Id -> SUBSET Id]
  BY DEF TypeOK
<1>2. QED
  BY <1>1 DEF Sizes

LEMMA EndRunTypes ==
  ASSUME TypeOK, Objects, Placing, NEW d \in Id, NEW state \in {"exited", "deleted"}, EndRun(d, state),
         UNCHANGED <<host, windows, views, sized, arc, shown, reader, strays, written>>,
         cmd' \in CmdType, records' \in [Id -> Id \cup {None}]
  PROVE  TypeOK'
<1>1. /\ daemon' \in [Id -> {"none", "running", "exited", "deleted"}] /\ wire' \in [Token -> Seq(Line)]
      /\ attached' \subseteq attached /\ left' \subseteq left
  BY EndRunIs
<1>2. QED
  BY <1>1 DEF TypeOK, host, views

\* Whoever reads, or carries a request, was made.
LEMMA ReaderIsMade ==
  ASSUME Objects, Streams, NEW t \in Token,
         \/ reader[t].stage # "off" \/ reader[t].line # NoLine
         \/ reader[t].queued \/ reader[t].request # "none"
  PROVE  Made(t) /\ arc[t].view \in Id
<1>1. CASE ~ Made(t)
  <2>1. reader[t] = NoReader
    BY <1>1 DEF Objects, Unmade
  <2>2. QED
    BY <2>1 DEF NoReader
<1>2. QED
  BY <1>1, AgentsHaveDaemons

\* The ends of a reader.
ReaderEnds(t) ==
    /\ arc' = Transport(arc[t].view, "ended") /\ Remove(arc[t].view) /\ Stops(t)
    /\ UNCHANGED <<host, windows, records, runs, strays>>
    /\ DropRequests(t) \/ UNCHANGED cmd
LEMMA ReaderEndsIs ==
  ASSUME Objects, Streams, NEW t \in Token
  PROVE  /\ FailView(t) => ReaderEnds(t)
         /\ HandleExit(t) \/ WorkerEnds(t) => ReaderEnds(t) /\ Made(t)
         /\ ReadHistory(t) \/ Subscribe(t) \/ ReadFails(t) => Made(t)
<1>1. FailView(t) => ReaderEnds(t)
  BY DEF FailView, ReaderEnds
<1>2. HandleExit(t) \/ WorkerEnds(t) => ReaderEnds(t)
  BY DEF HandleExit, WorkerEnds, ReaderEnds
<1>3. HandleExit(t) \/ WorkerEnds(t) => Made(t)
  BY ReaderIsMade, LineIs DEF HandleExit, WorkerEnds
<1>4. ReadHistory(t) \/ Subscribe(t) \/ ReadFails(t) => Made(t)
  BY ReaderIsMade DEF ReadHistory, Subscribe, ReadFails
<1>5. QED
  BY <1>1, <1>2, <1>3, <1>4

LEMMA ReaderEndsTypes ==
  ASSUME TypeOK, Objects, Placing, NEW t \in Token, Made(t), ReaderEnds(t)
  PROVE  TypeOK'
<1>1. arc[t].view \in Id
  BY AgentsHaveDaemons
<1>2. cmd' \in CmdType
  BY DropRequestsIs DEF ReaderEnds, TypeOK
<1>3. QED
  BY <1>1, <1>2, FailViewTypes DEF ReaderEnds

LEMMA TypeInductive ==
  ASSUME TypeOK, Objects, Streams, Placing, Commanding, [Next]_vars
  PROVE  TypeOK'
<1>1. CASE MakeView
  BY <1>1, MakeViewTypes
<1>2. ASSUME NEW v \in Id, NEW w \in windows, Transfer(v, w) PROVE TypeOK'
  BY <1>2 DEF Transfer, TypeOK, host, threads, runs
<1>3. ASSUME NEW v \in Id, NEW op \in Ops \ {"window"}, Command(op, v) PROVE TypeOK'
  <2>1. cmd' \in CmdType
    BY <1>3 DEF Command, TypeOK, CmdType
  <2>2. QED
    BY <1>3, <2>1 DEF Command, TypeOK, host, views, threads, runs
<1>4. ASSUME NEW w \in Window, CloseWindow(w) PROVE TypeOK'
  <2>1. \A v \in Id : placed[v] = w => sessions[v] \in Token
    BY NoneIsNothing DEF TypeOK, Placing
  <2>2. cmd' \in CmdType
    BY <1>4, <2>1 DEF CloseWindow, CmdType, Ops
  <2>3. windows' \subseteq Window
    BY <1>4 DEF CloseWindow, TypeOK
  <2>4. QED
    BY <1>4, <2>2, <2>3 DEF CloseWindow, TypeOK, host, views, threads, runs
<1>5. CASE NextOfWindow
  <2>1. cmd' \in CmdType
    <3>1. cmd \in CmdType
      BY DEF TypeOK
    <3>2. cmd' = Idle \/ \E t \in cmd.rest : cmd' = [cmd EXCEPT !.token = t, !.step = "found", !.rest = @ \ {t}]
      BY <1>5 DEF NextOfWindow
    <3>3. QED
      BY <3>1, <3>2, NoObject DEF CmdType
  <2>2. QED
    BY <1>5, <2>1 DEF NextOfWindow, TypeOK, host, views, threads, runs
<1>6. CASE SendControl
  <2>1. cmd' \in CmdType /\ cmd.token \in Token /\ arc[cmd.token].daemon \in Id /\ arc[cmd.token].view \in Id
    BY <1>6, AgentsHaveDaemons, CmdStepType DEF SendControl, Commanding, Asking
  <2>2. sized' \in [Id -> SUBSET Id]
    BY <1>6, <2>1, SizesTypes DEF SendControl
  <2>3. reader' \in [Token -> ReaderType]
    <3>1. reader \in [Token -> ReaderType]
      BY DEF TypeOK
    <3>2. reader' = [reader EXCEPT ![cmd.token].queued = TRUE] \/ reader' = reader
      BY <1>6 DEF SendControl
    <3>3. QED
      <4>1. CASE reader' = [reader EXCEPT ![cmd.token].queued = TRUE]
        BY <2>1, <4>1, ReaderChanges
      <4>2. CASE reader' = reader
        BY <3>1, <4>2
      <4>3. QED
        BY <3>2, <4>1, <4>2
  <2>4. QED
    BY <1>6, <2>1, <2>2, <2>3 DEF SendControl, TypeOK, host, views, runs
<1>7. CASE SendOnce
  <2> DEFINE d == arc[cmd.token].daemon
  <2>1. cmd.token \in Token /\ d \in Id /\ arc[cmd.token].view \in Id
    BY <1>7, AgentsHaveDaemons DEF SendOnce, Commanding, Asking
  <2>2. sized' \in [Id -> SUBSET Id]
    BY <1>7, <2>1, SizesTypes DEF SendOnce
  <2>3. cmd' \in CmdType
    BY <1>7, CmdStepType DEF SendOnce, OnceAnswers
  <2>4. EndRun(d, "exited") \/ UNCHANGED <<daemon, wire, attached, left>>
    BY <1>7 DEF SendOnce, NotEnded
  <2>5. /\ daemon' \in [Id -> {"none", "running", "exited", "deleted"}] /\ wire' \in [Token -> Seq(Line)]
        /\ attached' \subseteq Token /\ left' \subseteq Token
    BY <2>1, <2>4, EndRunIs DEF TypeOK
  <2>6. UNCHANGED <<shown, host, windows, views, records, arc, reader, strays, written>>
    BY <1>7 DEF SendOnce
  <2>7. QED
    BY <2>2, <2>3, <2>5, <2>6 DEF TypeOK, host, views
<1>8. CASE Local
  <2>1. cmd' \in CmdType
    BY <1>8, CmdStepType DEF Local
  <2>2. QED
    BY <1>8, <2>1 DEF Local, TypeOK, host, views, threads, runs
<1>9. CASE Finish
  <2>1. cmd.token \in Token /\ Made(cmd.token) /\ arc[cmd.token].view \in Id
        /\ (cmd.op = "detach" => arc[cmd.token].daemon \in Id)
    BY <1>9, AgentsHaveDaemons DEF Finish, Commanding, Asking
  <2>2. cmd' \in CmdType
    BY <1>9, NoObject, CmdStepType DEF Finish, Ended
  <2>3. records' \in [Id -> Id \cup {None}]
    BY <1>9, <2>1 DEF Finish, TypeOK
  <2>4. UNCHANGED <<host, windows, arc, threads, runs>> /\ (Remove(arc[cmd.token].view) \/ UNCHANGED <<views, sized, shown>>)
    BY <1>9 DEF Finish
  <2>5. CASE Remove(arc[cmd.token].view)
    <3>1. /\ shown' \in [Token -> Seq(1..MaxOutput)] /\ sessions' \in [Id -> Token \cup {None}]
          /\ placed' \in [Id -> Window \cup {None}] /\ sized' \in [Id -> SUBSET Id]
          /\ \A i \in Id : /\ sessions'[i] = sessions[i] \/ sessions'[i] = None
                           /\ sessions'[i] # None => placed'[i] = placed[i]
      BY <2>1, <2>5, RemoveIs
    <3>2. Linked'
      BY <2>4, <3>1, LinksKept
    <3>3. QED
      BY <2>2, <2>3, <2>4, <3>1, <3>2 DEF TypeOK, Linked, host, threads, runs
  <2>6. CASE UNCHANGED <<views, sized, shown>>
    BY <2>2, <2>3, <2>4, <2>6 DEF TypeOK, host, views, threads, runs
  <2>7. QED
    BY <2>4, <2>5, <2>6
<1>10. ASSUME NEW d \in Id, DeleteView(d) PROVE TypeOK'
  <2>1. UNCHANGED <<host, windows, records, arc, reader, strays, written, cmd>>
        /\ ((Deleted(d) /\ Remove(d)) \/ (NotEnded /\ UNCHANGED <<views, sized, shown>>))
    BY <1>10 DEF DeleteView
  <2>2. CASE Deleted(d) /\ Remove(d)
    <3>1. /\ shown' \in [Token -> Seq(1..MaxOutput)] /\ sessions' \in [Id -> Token \cup {None}]
          /\ placed' \in [Id -> Window \cup {None}] /\ sized' \in [Id -> SUBSET Id]
          /\ \A i \in Id : /\ sessions'[i] = sessions[i] \/ sessions'[i] = None
                           /\ sessions'[i] # None => placed'[i] = placed[i]
      BY <2>2, RemoveIs
    <3>2. Linked'
      BY <2>1, <3>1, LinksKept
    <3>3. /\ daemon' \in [Id -> {"none", "running", "exited", "deleted"}] /\ wire' \in [Token -> Seq(Line)]
          /\ attached' \subseteq attached /\ left' \subseteq left
      BY <2>2, EndRunIs DEF Deleted
    <3>4. QED
      BY <2>1, <3>1, <3>2, <3>3 DEF TypeOK, Linked, host
  <2>3. CASE NotEnded /\ UNCHANGED <<views, sized, shown>>
    BY <2>1, <2>3 DEF TypeOK, host, views, NotEnded
  <2>4. QED
    BY <2>1, <2>2, <2>3
<1>11. ASSUME NEW d \in Id, DeleteRecord(d) \/ DeleteRegistry(d) PROVE TypeOK'
  <2>1. records' \in [Id -> Id \cup {None}]
    BY <1>11 DEF DeleteRecord, DeleteRegistry, TypeOK
  <2>2. /\ UNCHANGED <<shown, host, windows, views, sized, arc, reader, strays, written, cmd>>
        /\ EndRun(d, "deleted") \/ UNCHANGED <<daemon, wire, attached, left>>
    BY <1>11 DEF DeleteRecord, DeleteRegistry, Deleted, NotEnded
  <2>3. cmd' \in CmdType
    BY <2>2 DEF TypeOK
  <2>4. CASE EndRun(d, "deleted")
    BY <2>1, <2>2, <2>3, <2>4, EndRunTypes
  <2>5. CASE UNCHANGED <<daemon, wire, attached, left>>
    BY <2>1, <2>2, <2>5 DEF TypeOK, host, views
  <2>6. QED
    BY <2>2, <2>4, <2>5
<1>12. ASSUME NEW t \in Token, FailView(t) \/ HandleExit(t) \/ WorkerEnds(t), Made(t) PROVE TypeOK'
  BY <1>12, ReaderEndsIs, ReaderEndsTypes
<1>13. ASSUME NEW t \in Token, ReadHistory(t) PROVE TypeOK'
  <2>1. Made(t) /\ arc[t].daemon \in Id
    BY <1>13, ReaderEndsIs, AgentsHaveDaemons DEF ReadHistory, AgentStage
  <2>2. CASE FailView(t)
    BY <2>1, <2>2, <1>12
  <2>3. CASE /\ reader' = [reader EXCEPT ![t].stage = "replay",
                ![t].todo = [n \in 1..written[arc[t].daemon] |-> Output(n)]]
             /\ UNCHANGED <<host, windows, views, records, sized, shown, arc, wire, attached, left, strays,
                         runs, cmd>>
    <3>1. written[arc[t].daemon] \in Nat /\ written[arc[t].daemon] <= MaxOutput
      BY <2>1, TerminalSessionsAssumption DEF TypeOK
    <3>2. [n \in 1..written[arc[t].daemon] |-> Output(n)] \in Seq(Line)
      <4>1. \A n \in 1..written[arc[t].daemon] : Output(n) \in Line
        BY <3>1, LineIs, TerminalSessionsAssumption
      <4>2. QED
        BY <3>1, <4>1
    <3>3. reader' \in [Token -> ReaderType]
      <4> DEFINE todo == [n \in 1..written[arc[t].daemon] |-> Output(n)]
      <4>1. reader \in [Token -> ReaderType] /\ todo \in Seq(Line)
        BY <3>2 DEF TypeOK
      <4>2. reader' = [reader EXCEPT ![t].stage = "replay", ![t].todo = todo]
        BY <2>3
      <4>3. [reader EXCEPT ![t].stage = "replay"] \in [Token -> ReaderType]
        BY <4>1, FieldChanges DEF Stage
      <4> HIDE DEF todo
      <4>4. QED
        BY <4>1, <4>2, <4>3, FieldChanges
    <3>4. QED
      BY <2>3, <3>3 DEF TypeOK, host, views, runs
  <2>4. QED
    BY <1>13, <2>2, <2>3 DEF ReadHistory
<1>14. ASSUME NEW t \in Token, HistoryShown(t) PROVE TypeOK'
  <2>1. Made(t) /\ arc[t].view \in Id
    BY <1>14, ReaderIsMade DEF HistoryShown
  <2>2. reader' \in [Token -> ReaderType]
    <3>1. reader \in [Token -> ReaderType]
      BY DEF TypeOK
    <3>2. \/ reader' = [reader EXCEPT ![t].stage = "done"]
         \/ \E x \in {"subscribe", "done"} : reader' = [reader EXCEPT ![t].then = "end", ![t].stage = x]
      BY <1>14 DEF HistoryShown
    <3>3. {"subscribe", "done"} \subseteq Stage
      BY DEF Stage
    <3>4. QED
      <4>1. CASE reader' = [reader EXCEPT ![t].stage = "done"]
        BY <3>3, <4>1, ReaderChanges
      <4>2. ASSUME NEW x \in {"subscribe", "done"}, reader' = [reader EXCEPT ![t].then = "end", ![t].stage = x]
            PROVE  reader' \in [Token -> ReaderType]
        BY <3>3, <4>2, ReaderChanges
      <4>3. QED
        BY <3>2, <4>1, <4>2
  <2>3. arc' \in [Token -> ArcType] /\ \A s \in Token : arc'[s].view = arc[s].view
    <3>1. CASE arc' = Transport(arc[t].view, "ended")
      BY <2>1, <3>1, TransportIs DEF SameObject
    <3>2. CASE arc' = [arc EXCEPT ![t].control = TRUE]
      <4>1. arc \in [Token -> ArcType]
        BY DEF TypeOK
      <4>2. arc' \in [Token -> ArcType]
        BY <3>2, <4>1 DEF ArcType
      <4>3. \A s \in Token : arc'[s].view = arc[s].view
        BY <3>2, <4>1 DEF ArcType
      <4>4. QED
        BY <4>2, <4>3
    <3>3. CASE arc' = arc
      BY <3>3 DEF TypeOK
    <3>4. QED
      BY <1>14, <3>1, <3>2, <3>3 DEF HistoryShown
  <2>4. UNCHANGED <<host, windows, views, records, sized, shown, wire, attached, left, strays, runs, cmd>>
    BY <1>14 DEF HistoryShown
  <2>5. Linked'
    BY <2>3, <2>4, LinksKept DEF views
  <2>6. QED
    BY <2>2, <2>3, <2>4, <2>5 DEF TypeOK, Linked, host, views, runs
<1>15. ASSUME NEW t \in Token, Subscribe(t) PROVE TypeOK'
  <2>1. Made(t) /\ arc[t].view \in Id
    BY <1>15, ReaderIsMade DEF Subscribe
  <2>2. CASE FailView(t)
    BY <2>1, <2>2, <1>12
  <2>3. CASE ~ FailView(t)
    <3>1. /\ reader' = [reader EXCEPT ![t].stage = "live"] /\ arc' = Transport(arc[t].view, "connected")
          /\ UNCHANGED <<host, windows, views, records, sized, shown, left, strays, runs, cmd>>
          /\ \/ attached' = attached \cup {t} /\ UNCHANGED wire
             \/ wire' = [wire EXCEPT ![t] = <<End>>] /\ UNCHANGED attached
      BY <1>15, <2>3 DEF Subscribe
    <3>2. reader' \in [Token -> ReaderType]
      <4>1. reader \in [Token -> ReaderType]
        BY DEF TypeOK
      <4>2. QED
        BY <3>1, <4>1, FieldChanges DEF Stage
    <3>3. wire' \in [Token -> Seq(Line)] /\ attached' \subseteq Token
      <4>1. wire \in [Token -> Seq(Line)] /\ attached \subseteq Token /\ <<End>> \in Seq(Line)
        BY LineIs DEF TypeOK
      <4>2. QED
        BY <3>1, <4>1
    <3>4. arc' \in [Token -> ArcType] /\ \A s \in Token : arc'[s].view = arc[s].view
      BY <2>1, <3>1, TransportIs DEF SameObject
    <3>5. Linked'
      BY <3>1, <3>4, LinksKept DEF views
    <3>6. QED
      BY <3>1, <3>2, <3>3, <3>4, <3>5 DEF TypeOK, Linked, host, views, runs
  <2>4. QED
    BY <2>2, <2>3
<1>16. ASSUME NEW t \in Token, ReadLine(t) PROVE TypeOK'
  <2>1. UNCHANGED <<shown, host, windows, views, records, sized, arc, strays, runs>>
    BY <1>16 DEF ReadLine
  <2>2. CASE Stops(t) /\ DropRequests(t)
    BY <2>1, <2>2, StopsIs, DropRequestsIs DEF TypeOK, host, views, runs
  <2>3. CASE ~ (Stops(t) /\ DropRequests(t))
    <3>1. /\ reader' = [reader EXCEPT ![t].line = Head(Source(t)),
                ![t].todo = IF reader[t].stage = "replay" THEN Tail(@) ELSE @]
          /\ wire' = IF reader[t].stage = "live" THEN [wire EXCEPT ![t] = Tail(@)] ELSE wire
          /\ UNCHANGED <<attached, left, cmd>> /\ Source(t) # <<>> /\ reader[t].stage \in {"replay", "live"}
      BY <1>16, <2>3 DEF ReadLine
    <3>2. reader[t].todo \in Seq(Line) /\ wire[t] \in Seq(Line) /\ reader[t] \in ReaderType
      BY DEF TypeOK, ReaderType
    <3>3. Head(Source(t)) \in Line
      BY <3>1, <3>2, FirstAndRest DEF Source
    <3>4. CASE reader[t].stage = "replay"
      <4>1. Tail(reader[t].todo) \in Seq(Line)
        BY <3>1, <3>2, <3>4, FirstAndRest DEF Source
      <4>2. reader' \in [Token -> ReaderType]
        BY <3>1, <3>2, <3>3, <3>4, <4>1 DEF TypeOK, ReaderType
      <4>3. QED
        BY <2>1, <3>1, <3>4, <4>2 DEF TypeOK, host, views, runs
    <3>5. CASE reader[t].stage = "live"
      <4>1. Tail(wire[t]) \in Seq(Line)
        BY <3>1, <3>2, <3>5, FirstAndRest DEF Source
      <4>2. reader' \in [Token -> ReaderType]
        BY <3>1, <3>2, <3>3, <3>5 DEF TypeOK, ReaderType
      <4>3. wire' \in [Token -> Seq(Line)]
        BY <3>1, <3>5, <4>1 DEF TypeOK
      <4>4. QED
        BY <2>1, <3>1, <4>2, <4>3 DEF TypeOK, host, views, runs
    <3>6. QED
      BY <3>1, <3>4, <3>5
  <2>4. QED
    BY <2>2, <2>3
<1>17. ASSUME NEW t \in Token, StreamEnds(t) PROVE TypeOK'
  <2>1. Made(t) /\ arc[t].view \in Id
    BY <1>17, ReaderIsMade DEF StreamEnds
  <2>2. /\ arc' = Transport(arc[t].view, "ended") /\ Stops(t) /\ DropRequests(t)
        /\ UNCHANGED <<host, windows, views, records, sized, shown, strays, runs>>
    BY <1>17 DEF StreamEnds
  <2>3. arc' \in [Token -> ArcType] /\ \A s \in Token : arc'[s].view = arc[s].view
    BY <2>1, <2>2, TransportIs DEF SameObject
  <2>4. /\ reader' \in [Token -> ReaderType] /\ wire' \in [Token -> Seq(Line)]
        /\ attached' = attached \ {t} /\ left' \in SUBSET Token /\ cmd' \in CmdType
    BY <2>2, StopsIs, DropRequestsIs
  <2>5. Linked'
    BY <2>2, <2>3, LinksKept DEF views
  <2>6. QED
    BY <2>2, <2>3, <2>4, <2>5 DEF TypeOK, Linked, host, views, runs
<1>18. ASSUME NEW t \in Token, HandleOutput(t) PROVE TypeOK'
  <2>1. Made(t) /\ arc[t].view \in Id
    BY <1>18, ReaderIsMade, LineIs DEF HandleOutput
  <2> DEFINE owner == sessions[arc[t].view]
             n == reader[t].line[2]
  <2>2. owner \in Token \cup {None}
    BY <2>1 DEF TypeOK
  <2>3. n \in 1..MaxOutput
    BY <1>18, LineIs DEF HandleOutput, TypeOK, ReaderType
  <2>4. /\ shown' = IF owner = None THEN shown ELSE [shown EXCEPT ![owner] = Append(@, n)]
        /\ strays' = IF owner \in {None, t} THEN strays ELSE [strays EXCEPT ![t] = @ + 1]
        /\ reader' = [reader EXCEPT ![t].line = NoLine]
        /\ UNCHANGED <<host, windows, views, records, sized, arc, wire, attached, left, runs, cmd>>
    BY <1>18 DEF HandleOutput, Push
  <2> HIDE DEF owner, n
  <2>5. shown' \in [Token -> Seq(1..MaxOutput)]
    <3>1. \A s \in Token : Append(shown[s], n) \in Seq(1..MaxOutput)
      BY <2>3, OneMore DEF TypeOK
    <3>2. QED
      BY <2>2, <2>4, <3>1 DEF TypeOK
  <2>6. strays' \in [Token -> Nat]
    BY <2>4 DEF TypeOK
  <2>7. reader' \in [Token -> ReaderType]
    <3>1. reader \in [Token -> ReaderType]
      BY DEF TypeOK
    <3>2. reader' = [reader EXCEPT ![t].line = NoLine]
      BY <2>4
    <3>3. QED
      BY <3>1, <3>2, LineIs, ReaderChanges
  <2>8. QED
    BY <2>4, <2>5, <2>6, <2>7 DEF TypeOK, host, views, runs
<1>19. ASSUME NEW t \in Token, HandleResponse(t) PROVE TypeOK'
  <2>1. cmd' \in CmdType
    <3>1. PICK answer \in {"ok", "failed"} : cmd' = IF Waits(t) THEN [cmd EXCEPT !.step = answer] ELSE cmd
      BY <1>19 DEF HandleResponse
    <3>2. QED
      BY <3>1, CmdStepType DEF TypeOK
  <2>2. reader' \in [Token -> ReaderType]
    <3>1. reader \in [Token -> ReaderType]
      BY DEF TypeOK
    <3>2. reader' = [reader EXCEPT ![t].line = NoLine]
      BY <1>19 DEF HandleResponse
    <3>3. QED
      BY <3>1, <3>2, LineIs, ReaderChanges
  <2>3. QED
    BY <1>19, <2>1, <2>2 DEF HandleResponse, TypeOK, host, views, runs
<1>20. ASSUME NEW t \in Token, WaiterEnds(t) PROVE TypeOK'
  <2>1. Made(t) /\ arc[t].view \in Id
    BY <1>20, ReaderIsMade DEF WaiterEnds
  <2>2. /\ Remove(arc[t].view) /\ Stops(t)
        /\ UNCHANGED <<host, windows, records, arc, runs, strays, cmd>>
    BY <1>20 DEF WaiterEnds
  <2>3. /\ shown' \in [Token -> Seq(1..MaxOutput)] /\ sessions' \in [Id -> Token \cup {None}]
        /\ placed' \in [Id -> Window \cup {None}] /\ sized' \in [Id -> SUBSET Id]
        /\ \A i \in Id : /\ sessions'[i] = sessions[i] \/ sessions'[i] = None
                         /\ sessions'[i] # None => placed'[i] = placed[i]
    BY <2>1, <2>2, RemoveIs
  <2>4. /\ reader' \in [Token -> ReaderType] /\ wire' \in [Token -> Seq(Line)]
        /\ attached' = attached \ {t} /\ left' \in SUBSET Token
    BY <2>2, StopsIs
  <2>5. Linked'
    BY <2>2, <2>3, LinksKept
  <2>6. QED
    BY <2>2, <2>3, <2>4, <2>5 DEF TypeOK, Linked, host, runs
<1>21. ASSUME NEW t \in Token, Carry(t) PROVE TypeOK'
  <2>1. cmd' \in CmdType
    BY <1>21, CmdStepType DEF Carry, TypeOK
  <2>2. reader' \in [Token -> ReaderType]
    <3>1. reader \in [Token -> ReaderType]
      BY DEF TypeOK
    <3>2. \/ reader' = [reader EXCEPT ![t].queued = FALSE, ![t].request = "sent"]
         \/ reader' = [reader EXCEPT ![t].queued = FALSE]
      BY <1>21 DEF Carry
    <3>3. QED
      <4>1. CASE reader' = [reader EXCEPT ![t].queued = FALSE, ![t].request = "sent"]
        BY <4>1, ReaderChanges
      <4>2. CASE reader' = [reader EXCEPT ![t].queued = FALSE]
        BY <4>2, ReaderChanges
      <4>3. QED
        BY <3>2, <4>1, <4>2
  <2>3. QED
    BY <1>21, <2>1, <2>2 DEF Carry, TypeOK, host, views, runs
<1>22. ASSUME NEW t \in Token, Answer(t) PROVE TypeOK'
  <2>1. reader' \in [Token -> ReaderType]
    <3>1. reader \in [Token -> ReaderType]
      BY DEF TypeOK
    <3>2. reader' = [reader EXCEPT ![t].request = "none"]
      BY <1>22 DEF Answer
    <3>3. QED
      BY <3>1, <3>2 DEF ReaderType
  <2>2. attached' \subseteq Token
    BY <1>22 DEF Answer, TypeOK
  <2>3. wire' \in [Token -> Seq(Line)]
    <3>1. wire[t] \o <<Response, End>> \in Seq(Line) /\ wire[t] \o <<Response>> \in Seq(Line)
      BY TwoMore, OneAfter, LineIs DEF TypeOK
    <3>2. QED
      BY <1>22, <3>1 DEF Answer, TypeOK
  <2>4. daemon' \in [Id -> {"none", "running", "exited", "deleted"}]
    BY <1>22 DEF Answer, TypeOK
  <2>5. QED
    BY <1>22, <2>1, <2>2, <2>3, <2>4 DEF Answer, TypeOK, host, views
<1>23. ASSUME NEW d \in Id, Prints(d) PROVE TypeOK'
  <2>1. written[d] \in 0..MaxOutput /\ written[d] < MaxOutput
    BY <1>23 DEF Prints, TypeOK
  <2>2. Output(written[d] + 1) \in Line /\ written[d] + 1 \in 0..MaxOutput
    BY <2>1, LineIs, TerminalSessionsAssumption
  <2>3. \A s \in Token : Append(wire[s], Output(written[d] + 1)) \in Seq(Line)
    BY <2>2, OneMore DEF TypeOK
  <2>4. wire' \in [Token -> Seq(Line)]
    BY <1>23, <2>3 DEF Prints, TypeOK
  <2>5. written' \in [Id -> 0..MaxOutput]
    BY <1>23, <2>2 DEF Prints, TypeOK
  <2>6. QED
    BY <1>23, <2>4, <2>5 DEF Prints, TypeOK, host, views
<1>24. ASSUME NEW d \in Id, ProgramEnds(d) PROVE TypeOK'
  <2>1. cmd' \in CmdType /\ records' \in [Id -> Id \cup {None}]
    BY <1>24 DEF ProgramEnds, TypeOK
  <2>2. QED
    BY <1>24, <2>1, EndRunTypes DEF ProgramEnds
<1>25. CASE UNCHANGED vars
  BY <1>25 DEF vars, TypeOK, host, views, threads, runs
<1>26. ASSUME NEW t \in Token, ReadFails(t) PROVE TypeOK'
  BY <1>26, <1>12, ReaderEndsIs DEF ReadFails
<1>27. ASSUME NEW t \in Token, HandleExit(t) \/ WorkerEnds(t) PROVE TypeOK'
  BY <1>27, <1>12, ReaderEndsIs
<1>28. ASSUME NEW t \in Token, Prompt(t) \/ Reply(t) \/ ClientEnds(t) PROVE TypeOK'
  <2>1. Pauses(t)
    BY <1>28, PausesIs
  <2>2. QED
    BY <2>1 DEF Pauses, TypeOK, host, views, runs
<1>29. QED
  BY <1>1, <1>2, <1>3, <1>4, <1>5, <1>6, <1>7, <1>8, <1>9, <1>10, <1>11, <1>13, <1>14, <1>15, <1>16,
     <1>17, <1>18, <1>19, <1>20, <1>21, <1>22, <1>23, <1>24, <1>25, <1>26, <1>27, <1>28
     DEF Next, MainThread, Reads

-----------------------------------------------------------------------------
(* Objects and their readers.                                              *)

\* A step in which an object keeps what it is and its reader keeps its stage, or ends.
Steady(s) ==
    /\ SameObject(s) /\ arc'[s].control = arc[s].control
    /\ arc'[s].transport \in {arc[s].transport, "connected", "ended"}
    /\ \/ reader'[s].stage = reader[s].stage /\ reader'[s].then = reader[s].then
       \/ reader'[s].stage = "done" /\ reader'[s].then = "end"
    /\ ~ Made(s) => /\ arc'[s] = arc[s] /\ reader'[s] = reader[s] /\ wire'[s] = wire[s]
                    /\ s \notin attached' /\ strays'[s] = strays[s] /\ shown'[s] \in {shown[s], <<>>}

LEMMA SteadyKeeps ==
  ASSUME Objects, \A s \in Token : Steady(s) \/ (Made(s)' /\ Fitting(s)')
  PROVE  Objects'
<1>1. ASSUME NEW s \in Token PROVE (IF Made(s) THEN Fitting(s) ELSE Unmade(s))'
  <2>1. CASE Made(s)' /\ Fitting(s)'
    BY <2>1
  <2>2. CASE Steady(s) /\ Made(s)
    <3>1. Fitting(s) /\ Made(s)'
      BY <2>2 DEF Objects, Steady, SameObject
    <3>2. Fitting(s)'
      BY <2>2, <3>1 DEF Steady, SameObject, Fitting, AgentStage
    <3>3. QED
      BY <3>1, <3>2
  <2>3. CASE Steady(s) /\ ~ Made(s)
    <3>1. Unmade(s) /\ ~ Made(s)'
      BY <2>3 DEF Objects, Steady, SameObject
    <3>2. Unmade(s)'
      BY <2>3, <3>1 DEF Steady, Unmade
    <3>3. QED
      BY <3>1, <3>2
  <2>4. QED
    BY <1>1, <2>1, <2>2, <2>3
<1>2. QED
  BY <1>1 DEF Objects

\* A step that leaves objects and readers alone.
LEMMA SteadyFrame ==
  ASSUME Objects, UNCHANGED <<arc, reader, shown, strays>>, attached' \subseteq attached,
         \A s \in Token : s \notin attached => wire'[s] = wire[s]
  PROVE  \A s \in Token : Steady(s)
  BY DEF Steady, SameObject, Made, Objects, Unmade

LEMMA EndRunSteady ==
  ASSUME TypeOK, Objects, NEW d \in Id, NEW state \in {"exited", "deleted"},
         EndRun(d, state) \/ UNCHANGED <<daemon, wire, attached, left>>
  PROVE  attached' \subseteq attached /\ \A s \in Token : s \notin attached => wire'[s] = wire[s]
<1>1. CASE EndRun(d, state)
  BY <1>1, EndRunIs DEF SubscribersOf
<1>2. CASE UNCHANGED <<daemon, wire, attached, left>>
  BY <1>2
<1>3. QED
  BY <1>1, <1>2

LEMMA ReaderEndsSteady ==
  ASSUME TypeOK, Objects, Placing, NEW t \in Token, Made(t), Stops(t),
         \/ arc' = Transport(arc[t].view, "ended")
         \/ arc' = arc,
         Remove(arc[t].view) \/ UNCHANGED shown, UNCHANGED strays
  PROVE  \A s \in Token : Steady(s)
<1>1. arc[t].view \in Id
  BY AgentsHaveDaemons
<1>2. \A s \in Token : /\ SameObject(s) /\ arc'[s].control = arc[s].control
                       /\ arc'[s].transport \in {arc[s].transport, "ended"}
  <2>1. CASE arc' = arc
    BY <2>1 DEF SameObject, Made
  <2>2. CASE arc' = Transport(arc[t].view, "ended")
    BY <1>1, <2>2, TransportIs
  <2>3. QED
    BY <2>1, <2>2
<1>3. \A s \in Token : ~ Made(s) => arc'[s] = arc[s]
  BY <1>2 DEF SameObject, Made
<1>4. \A s \in Token : shown'[s] \in {shown[s], <<>>}
  BY <1>1, RemoveIs
<1>5. /\ attached' = attached \ {t} /\ reader'[t].stage = "done" /\ reader'[t].then = "end"
      /\ \A s \in Token \ {t} : reader'[s] = reader[s] /\ wire'[s] = wire[s]
  BY StopsIs
<1>6. \A s \in Token : ~ Made(s) => s \notin attached
  BY DEF Objects, Unmade
<1>7. QED
  BY <1>2, <1>3, <1>4, <1>5, <1>6 DEF Steady

LEMMA ReaderEndsKeepsObjects ==
  ASSUME TypeOK, Objects, Placing, NEW t \in Token, Made(t), ReaderEnds(t)
  PROVE  Objects'
<1>1. \A s \in Token : Steady(s)
  BY ReaderEndsSteady DEF ReaderEnds
<1>2. QED
  BY <1>1, SteadyKeeps

LEMMA ObjectsInductive ==
  ASSUME TypeOK, Objects, Streams, Placing, Commanding, [Next]_vars
  PROVE  Objects'
<1>1. CASE MakeView
  <2>1. MakingIsSeen
    BY <1>1, MakeViewIs
  <2>2. CASE UNCHANGED <<arc, views, reader, records>>
    BY <2>1, <2>2, SteadyFrame, SteadyKeeps DEF MakingIsSeen
  <2>3. CASE \E w \in windows : Made1(w)
    <3>1. PICK w \in windows, t \in Token, a \in ArcType, r \in ReaderType :
              ~ Made(t) /\ Open(t, w, a, r) /\ NewObject(a, r) /\ NewView(a)
      BY <2>3 DEF Made1
    <3>2. w \in Window
      BY DEF TypeOK
    <3>3. /\ arc'[t] = a /\ reader'[t] = r /\ Made(t)'
          /\ \A s \in Token \ {t} : arc'[s] = arc[s] /\ reader'[s] = reader[s]
      BY <3>1, <3>2, OpenIs
    <3>4. Fitting(t)'
      BY <3>1, <3>3, NoneIsNothing DEF NewObject, Fitting, AgentStage
    <3>5. \A s \in Token \ {t} : Steady(s)
      BY <2>1, <3>3 DEF MakingIsSeen, Steady, SameObject, Made, Objects, Unmade
    <3>6. QED
      BY <3>3, <3>4, <3>5, SteadyKeeps
  <2>4. QED
    BY <2>1, <2>2, <2>3 DEF MakingIsSeen
<1>2. CASE \/ \E v \in Id, w \in windows : Transfer(v, w)
           \/ \E v \in Id, op \in Ops \ {"window"} : Command(op, v)
           \/ \E w \in Window : CloseWindow(w)
           \/ NextOfWindow \/ Local
           \/ UNCHANGED vars
  <2>1. UNCHANGED <<arc, reader, shown, strays, attached, left, wire>>
    BY <1>2 DEF Transfer, Command, CloseWindow, NextOfWindow, Local, vars, threads
  <2>2. QED
    BY <2>1, SteadyFrame, SteadyKeeps
<1>3. CASE SendControl
  <2>1. cmd.token \in Token /\ Made(cmd.token)
    BY <1>3 DEF SendControl, Commanding, Asking
  <2>2. reader \in [Token -> ReaderType]
    BY DEF TypeOK
  <2>3. UNCHANGED <<arc, shown, strays, attached, left, wire>>
        /\ (reader' = [reader EXCEPT ![cmd.token].queued = TRUE] \/ reader' = reader)
    BY <1>3 DEF SendControl
  <2>4. \A s \in Token : /\ reader'[s].stage = reader[s].stage /\ reader'[s].then = reader[s].then
                         /\ s # cmd.token => reader'[s] = reader[s]
    BY <2>1, <2>2, <2>3 DEF ReaderType
  <2>5. \A s \in Token : Steady(s)
    BY <2>1, <2>3, <2>4 DEF Steady, SameObject, Made, Objects, Unmade
  <2>6. QED
    BY <2>5, SteadyKeeps
<1>4. CASE SendOnce
  <2>1. cmd.token \in Token /\ arc[cmd.token].daemon \in Id
    BY <1>4, AgentsHaveDaemons DEF SendOnce, Commanding, Asking
  <2>2. /\ UNCHANGED <<shown, arc, reader, strays>>
        /\ EndRun(arc[cmd.token].daemon, "exited") \/ UNCHANGED <<daemon, wire, attached, left>>
    BY <1>4 DEF SendOnce, NotEnded
  <2>3. attached' \subseteq attached /\ \A s \in Token : s \notin attached => wire'[s] = wire[s]
    BY <2>1, <2>2, EndRunSteady
  <2>4. QED
    BY <2>2, <2>3, SteadyFrame, SteadyKeeps
<1>5. CASE Finish
  <2>1. cmd.token \in Token /\ arc[cmd.token].view \in Id
    BY <1>5, AgentsHaveDaemons DEF Finish, Commanding, Asking
  <2>2. UNCHANGED <<arc, reader, wire, attached, left, strays>> /\ (Remove(arc[cmd.token].view) \/ UNCHANGED shown)
    BY <1>5 DEF Finish, threads
  <2>3. \A s \in Token : shown'[s] \in {shown[s], <<>>}
    BY <2>1, <2>2, RemoveIs
  <2>4. \A s \in Token : Steady(s)
    BY <2>2, <2>3 DEF Steady, SameObject, Made, Objects, Unmade
  <2>5. QED
    BY <2>4, SteadyKeeps
<1>6. ASSUME NEW d \in Id, DeleteView(d) \/ DeleteRecord(d) \/ DeleteRegistry(d) \/ ProgramEnds(d) PROVE Objects'
  <2>1. /\ UNCHANGED <<arc, reader, strays>>
        /\ EndRun(d, "deleted") \/ EndRun(d, "exited") \/ UNCHANGED <<daemon, wire, attached, left>>
        /\ Remove(d) \/ UNCHANGED shown
    BY <1>6 DEF DeleteView, DeleteRecord, DeleteRegistry, ProgramEnds, Deleted, NotEnded
  <2>2. attached' \subseteq attached /\ \A s \in Token : s \notin attached => wire'[s] = wire[s]
    BY <2>1, EndRunSteady
  <2>3. \A s \in Token : shown'[s] \in {shown[s], <<>>}
    BY <2>1, RemoveIs
  <2>4. \A s \in Token : Steady(s)
    BY <2>1, <2>2, <2>3 DEF Steady, SameObject, Made, Objects, Unmade
  <2>5. QED
    BY <2>4, SteadyKeeps
<1>7. ASSUME NEW d \in Id, Prints(d) PROVE Objects'
  <2>1. UNCHANGED <<arc, reader, shown, strays, attached, left>> /\ \A s \in Token : s \notin attached => wire'[s] = wire[s]
    BY <1>7 DEF Prints, SubscribersOf
  <2>2. QED
    BY <2>1, SteadyFrame, SteadyKeeps
<1>8. ASSUME NEW t \in Token, FailView(t) \/ HandleExit(t) \/ WorkerEnds(t), Made(t) PROVE Objects'
  BY <1>8, ReaderEndsIs, ReaderEndsKeepsObjects
<1>9. ASSUME NEW t \in Token, ReadHistory(t) PROVE Objects'
  <2>1. Made(t)
    BY <1>9, ReaderEndsIs
  <2>2. CASE FailView(t)
    BY <2>1, <2>2, <1>8
  <2>3. CASE ~ FailView(t)
    <3>1. reader \in [Token -> ReaderType]
      BY DEF TypeOK
    <3>2. /\ UNCHANGED <<arc, shown, strays, attached, left, wire>> /\ reader[t].stage = "history"
          /\ reader' = [reader EXCEPT ![t].stage = "replay",
                ![t].todo = [n \in 1..written[arc[t].daemon] |-> Output(n)]]
      BY <1>9, <2>3 DEF ReadHistory
    <3>3. /\ reader'[t].stage = "replay" /\ reader'[t].then = reader[t].then
          /\ \A s \in Token \ {t} : reader'[s] = reader[s]
      BY <3>1, <3>2 DEF ReaderType
    <3>4. \A s \in Token \ {t} : Steady(s)
      BY <3>2, <3>3 DEF Steady, SameObject, Made, Objects, Unmade
    <3>5. Made(t)' /\ Fitting(t)'
      BY <2>1, <3>2, <3>3 DEF Made, Objects, Fitting, AgentStage
    <3>6. QED
      BY <3>4, <3>5, SteadyKeeps
  <2>4. QED
    BY <2>2, <2>3
<1>10. ASSUME NEW t \in Token, HistoryShown(t) PROVE Objects'
  <2>1. Made(t) /\ arc[t].view \in Id /\ Fitting(t)
    BY <1>10, ReaderIsMade DEF HistoryShown, Objects
  <2>2. reader \in [Token -> ReaderType] /\ arc \in [Token -> ArcType]
    BY DEF TypeOK
  <2>3. UNCHANGED <<shown, wire, attached, left, strays>> /\ reader[t].stage = "replay"
    BY <1>10 DEF HistoryShown
  <2>4. CASE reader[t].then = "end"
    <3>1. arc' = Transport(arc[t].view, "ended") /\ reader' = [reader EXCEPT ![t].stage = "done"]
      BY <1>10, <2>4 DEF HistoryShown
    <3>2. \A s \in Token : /\ SameObject(s) /\ arc'[s].control = arc[s].control
                           /\ arc'[s].transport \in {arc[s].transport, "ended"}
      BY <2>1, <3>1, TransportIs
    <3>3. /\ reader'[t].stage = "done" /\ reader'[t].then = "end"
          /\ \A s \in Token \ {t} : reader'[s] = reader[s]
      BY <2>2, <2>4, <3>1 DEF ReaderType
    <3>4. \A s \in Token : Steady(s)
      BY <2>1, <2>3, <3>2, <3>3 DEF Steady, SameObject, Made, Objects, Unmade
    <3>5. QED
      BY <3>4, SteadyKeeps
  <2>5. CASE reader[t].then # "end"
    <3>1. /\ arc' = [arc EXCEPT ![t].control = TRUE] \/ arc' = arc
          /\ \E x \in {"subscribe", "done"} : reader' = [reader EXCEPT ![t].then = "end", ![t].stage = x]
      BY <1>10, <2>5 DEF HistoryShown
    <3>2. /\ arc'[t].kind = arc[t].kind /\ arc'[t].view = arc[t].view /\ arc'[t].daemon = arc[t].daemon
          /\ arc'[t].transport = arc[t].transport
          /\ \A s \in Token \ {t} : arc'[s] = arc[s]
      BY <2>2, <3>1 DEF ArcType
    <3>3. /\ reader'[t].stage \in {"subscribe", "done"}
          /\ \A s \in Token \ {t} : reader'[s] = reader[s]
      BY <2>2, <3>1 DEF ReaderType
    <3>4. \A s \in Token \ {t} : Steady(s)
      BY <2>3, <3>2, <3>3 DEF Steady, SameObject, Made, Objects, Unmade
    <3>5. arc[t].kind = "agent"
      BY <2>1, <2>3, <2>5 DEF Fitting, Kind
    <3>6. Fitting(t)'
      BY <2>1, <3>2, <3>3, <3>5 DEF Fitting, AgentStage
    <3>7. Made(t)'
      BY <3>2, <3>5 DEF Made, NoArc
    <3>8. QED
      BY <3>4, <3>6, <3>7, SteadyKeeps
  <2>6. QED
    BY <2>4, <2>5
<1>11. ASSUME NEW t \in Token, Subscribe(t) PROVE Objects'
  <2>1. Made(t) /\ arc[t].view \in Id /\ Fitting(t) /\ reader[t].stage = "subscribe"
    BY <1>11, ReaderIsMade DEF Subscribe, Objects
  <2>2. CASE FailView(t)
    BY <2>1, <2>2, <1>8
  <2>3. CASE ~ FailView(t)
    <3>1. reader \in [Token -> ReaderType]
      BY DEF TypeOK
    <3>2. /\ reader' = [reader EXCEPT ![t].stage = "live"] /\ arc' = Transport(arc[t].view, "connected")
          /\ UNCHANGED <<shown, strays>>
          /\ \/ attached' = attached \cup {t} /\ UNCHANGED wire
             \/ wire' = [wire EXCEPT ![t] = <<End>>] /\ UNCHANGED attached
      BY <1>11, <2>3 DEF Subscribe
    <3>3. \A s \in Token \ {t} : s \notin attached => s \notin attached' /\ wire'[s] = wire[s]
      BY <3>2 DEF TypeOK
    <3>4. \A s \in Token : /\ SameObject(s) /\ arc'[s].control = arc[s].control
                           /\ arc'[s].transport \in {arc[s].transport, "connected"}
      BY <2>1, <3>2, TransportIs
    <3>5. /\ reader'[t].stage = "live" /\ reader'[t].then = reader[t].then
          /\ \A s \in Token \ {t} : reader'[s] = reader[s]
      BY <3>1, <3>2 DEF ReaderType
    <3>6. \A s \in Token \ {t} : Steady(s)
      BY <3>2, <3>3, <3>4, <3>5 DEF Steady, SameObject, Made, Objects, Unmade
    <3>7. Made(t)' /\ Fitting(t)'
      BY <2>1, <3>4, <3>5 DEF SameObject, Fitting, AgentStage
    <3>8. QED
      BY <3>6, <3>7, SteadyKeeps
  <2>4. QED
    BY <2>2, <2>3
<1>12. ASSUME NEW t \in Token, ReadLine(t) \/ StreamEnds(t) \/ WaiterEnds(t), Stops(t) PROVE Objects'
  <2>1. Made(t)
    BY <1>12, ReaderIsMade DEF ReadLine, StreamEnds, WaiterEnds
  <2>2. /\ arc' = Transport(arc[t].view, "ended") \/ arc' = arc
        /\ Remove(arc[t].view) \/ UNCHANGED shown
        /\ UNCHANGED strays
    BY <1>12 DEF ReadLine, StreamEnds, WaiterEnds
  <2>3. \A s \in Token : Steady(s)
    BY <1>12, <2>1, <2>2, ReaderEndsSteady
  <2>4. QED
    BY <2>3, SteadyKeeps
<1>13. ASSUME NEW t \in Token, \/ ReadLine(t) /\ ~ Stops(t)
                               \/ HandleOutput(t) \/ HandleResponse(t) \/ Carry(t) \/ Answer(t)
       PROVE Objects'
  <2>1. Made(t)
    BY <1>13, ReaderIsMade, LineIs DEF ReadLine, HandleOutput, HandleResponse, Carry, Answer
  <2>2. reader \in [Token -> ReaderType] /\ wire \in [Token -> Seq(Line)] /\ strays \in [Token -> Nat]
    BY DEF TypeOK
  <2>3. arc' = arc
    BY <1>13 DEF ReadLine, HandleOutput, HandleResponse, Carry, Answer
  <2>4. /\ reader'[t].stage = reader[t].stage /\ reader'[t].then = reader[t].then
        /\ \A s \in Token \ {t} : reader'[s] = reader[s]
    BY <1>13, <2>2 DEF ReadLine, HandleOutput, HandleResponse, Carry, Answer, ReaderType
  <2>5. \A s \in Token \ {t} : wire'[s] = wire[s] /\ strays'[s] = strays[s]
    BY <1>13, <2>2 DEF ReadLine, HandleOutput, HandleResponse, Carry, Answer, Push
  <2>6. attached' \subseteq attached
    BY <1>13 DEF ReadLine, HandleOutput, HandleResponse, Carry, Answer
  <2>7. \A s \in Token : ~ Made(s) => shown'[s] = shown[s]
    <3>1. CASE HandleOutput(t)
      <4>1. arc[t].view \in Id
        BY <2>1, AgentsHaveDaemons
      <4>2. shown' = shown \/ (Made(sessions[arc[t].view]) /\ \A s \in Token \ {sessions[arc[t].view]} : shown'[s] = shown[s])
        BY <3>1, <4>1 DEF HandleOutput, Push, Placing, Owner, TypeOK
      <4>3. QED
        BY <4>2
    <3>2. CASE ~ HandleOutput(t)
      BY <1>13, <3>2 DEF ReadLine, HandleResponse, Carry, Answer
    <3>3. QED
      BY <3>1, <3>2
  <2>8. \A s \in Token : Steady(s)
    BY <2>1, <2>3, <2>4, <2>5, <2>6, <2>7 DEF Steady, SameObject, Made, Objects, Unmade
  <2>9. QED
    BY <2>8, SteadyKeeps
<1>14. ASSUME NEW t \in Token, ReadFails(t) PROVE Objects'
  BY <1>14, <1>8, ReaderEndsIs DEF ReadFails
<1>15. ASSUME NEW t \in Token, HandleExit(t) \/ WorkerEnds(t) PROVE Objects'
  BY <1>15, <1>8, ReaderEndsIs
<1>16. ASSUME NEW t \in Token, StreamEnds(t) \/ WaiterEnds(t) PROVE Objects'
  BY <1>16, <1>12 DEF StreamEnds, WaiterEnds
<1>17. ASSUME NEW t \in Token, Prompt(t) \/ Reply(t) \/ ClientEnds(t) PROVE Objects'
  <2>1. Pauses(t)
    BY <1>17, PausesIs
  <2>2. \A s \in Token \ {t} : Steady(s)
    BY <2>1 DEF Pauses, Steady, SameObject, Made, Objects, Unmade
  <2>3. CASE reader' = reader
    BY <2>1, <2>2, <2>3, SteadyFrame, SteadyKeeps DEF Pauses
  <2>4. CASE reader' # reader
    <3>1. Made(t) /\ Fitting(t)
      BY <2>1, <2>4, ReaderIsMade DEF Pauses, Objects
    <3>2. Made(t)' /\ Fitting(t)'
      BY <2>1, <2>4, <3>1 DEF Pauses, Made, Fitting, AgentStage
    <3>3. QED
      BY <2>2, <3>2, SteadyKeeps
  <2>5. QED
    BY <2>3, <2>4
<1>18. QED
  BY <1>1, <1>2, <1>3, <1>4, <1>5, <1>6, <1>7, <1>9, <1>10, <1>11, <1>12, <1>13, <1>14, <1>15, <1>16, <1>17
     DEF Next, MainThread, Reads

-----------------------------------------------------------------------------
(* Streams.                                                                *)

LEMMA StreamingStays ==
  ASSUME NEW s \in Token, Streaming(s), wire'[s] = wire[s], s \in attached' <=> s \in attached,
         s \in left' => s \in left,
         reader'[s].stage = reader[s].stage, reader'[s].todo = reader[s].todo,
         reader'[s].line \in {reader[s].line, NoLine},
         reader'[s].request = "sent" => reader[s].request = "sent" \/ reader[s].stage = "live"
  PROVE  Streaming(s)'
  BY DEF Streaming

LEMMA StreamingStops ==
  ASSUME TypeOK, NEW t \in Token, Stops(t), Streams
  PROVE  Streams'
<1>1. Streaming(t)'
  BY StopsIs DEF Streaming
<1>2. ASSUME NEW s \in Token \ {t} PROVE Streaming(s)'
  <2>1. /\ Streaming(s) /\ reader'[s] = reader[s] /\ wire'[s] = wire[s]
        /\ (s \in attached' <=> s \in attached) /\ (s \in left' => s \in left)
    BY StopsIs DEF Streams
  <2>2. QED
    BY <2>1, StreamingStays
<1>3. QED
  BY <1>1, <1>2 DEF Streams

\* More lines come; where the client is let go, the last is the end.
LEMMA StreamingGrows ==
  ASSUME TypeOK, Streams, NEW s \in Token, s \in attached, s \in left' => s \in left,
         reader'[s].stage = reader[s].stage, reader'[s].todo = reader[s].todo,
         reader'[s].line = reader[s].line, reader'[s].request = "sent" => reader[s].request = "sent",
         \/ s \in attached'
         \/ wire'[s] = wire[s] \o <<Exit, End>>
         \/ wire'[s] = wire[s] \o <<Response, End>>
  PROVE  Streaming(s)'
<1>1. Streaming(s) /\ reader[s].stage = "live" /\ wire[s] \in Seq(Line)
  BY DEF Streams, Streaming, TypeOK
<1>2. s \in attached' \/ \E i \in DOMAIN wire'[s] : wire'[s][i] = End
  <2>1. CASE wire'[s] = wire[s] \o <<Exit, End>>
    <3>1. Len(wire[s]) + 2 \in DOMAIN wire'[s] /\ wire'[s][Len(wire[s]) + 2] = End
      BY <1>1, <2>1, TwoMore, LineIs
    <3>2. QED
      BY <3>1
  <2>2. CASE wire'[s] = wire[s] \o <<Response, End>>
    <3>1. Len(wire[s]) + 2 \in DOMAIN wire'[s] /\ wire'[s][Len(wire[s]) + 2] = End
      BY <1>1, <2>2, TwoMore, LineIs
    <3>2. QED
      BY <3>1
  <2>3. QED
    BY <2>1, <2>2
<1>3. QED
  BY <1>1, <1>2 DEF Streaming

LEMMA StreamsFrame ==
  ASSUME Streams, UNCHANGED <<wire, attached, left, reader>>
  PROVE  Streams'
  BY DEF Streams, Streaming

LEMMA EndRunStreams ==
  ASSUME TypeOK, Streams, NEW d \in Id, NEW state \in {"exited", "deleted"}, UNCHANGED reader,
         EndRun(d, state) \/ UNCHANGED <<daemon, wire, attached, left>>
  PROVE  Streams'
<1>1. CASE UNCHANGED <<daemon, wire, attached, left>>
  BY <1>1, StreamsFrame
<1>2. CASE EndRun(d, state)
  <2>1. ASSUME NEW s \in Token PROVE Streaming(s)'
    <3>1. CASE s \in SubscribersOf(d)
      <4>1. s \in attached /\ wire'[s] = wire[s] \o <<Exit, End>> /\ (s \in left' => s \in left)
        BY <1>2, <3>1, EndRunIs DEF SubscribersOf
      <4>2. QED
        BY <4>1, StreamingGrows
    <3>2. CASE s \notin SubscribersOf(d)
      <4>1. /\ wire'[s] = wire[s] /\ (s \in attached' <=> s \in attached)
            /\ (s \in left' => s \in left) /\ Streaming(s)
        BY <1>2, <3>2, EndRunIs DEF Streams
      <4>2. QED
        BY <4>1, StreamingStays
    <3>3. QED
      BY <3>1, <3>2
  <2>2. QED
    BY <2>1 DEF Streams
<1>3. QED
  BY <1>1, <1>2

\* A step of one reader.
LEMMA OneStreams ==
  ASSUME Streams, NEW t \in Token, Streaming(t)',
         \A s \in Token \ {t} : /\ reader'[s] = reader[s] /\ wire'[s] = wire[s]
                                /\ (s \in attached' <=> s \in attached) /\ (s \in left' => s \in left)
  PROVE  Streams'
<1>1. ASSUME NEW s \in Token \ {t} PROVE Streaming(s)'
  BY <1>1, StreamingStays DEF Streams
<1>2. QED
  BY <1>1 DEF Streams

LEMMA StreamsInductive ==
  ASSUME TypeOK, Objects, Streams, Placing, Commanding, [Next]_vars
  PROVE  Streams'
<1>0. /\ reader \in [Token -> ReaderType] /\ wire \in [Token -> Seq(Line)] /\ windows \subseteq Window
  BY DEF TypeOK
<1>1. CASE MakeView
  <2>1. MakingIsSeen
    BY <1>1, MakeViewIs
  <2>2. CASE UNCHANGED <<arc, views, reader, records>>
    BY <2>1, <2>2, StreamsFrame DEF MakingIsSeen
  <2>3. CASE \E w \in windows : Made1(w)
    <3>1. PICK w \in windows, t \in Token, a \in ArcType, r \in ReaderType :
              ~ Made(t) /\ Open(t, w, a, r) /\ NewObject(a, r) /\ NewView(a)
      BY <2>3 DEF Made1
    <3>2. /\ reader'[t] = r /\ Unmade(t) /\ \A s \in Token \ {t} : reader'[s] = reader[s]
      BY <1>0, <3>1, OpenIs
    <3>3. Streaming(t)'
      <4>1. t \notin left
        BY <3>2 DEF Streams, Streaming, Unmade, NoReader
      <4>2. QED
        BY <2>1, <3>1, <3>2, <4>1 DEF NewObject, Streaming, Unmade, MakingIsSeen
    <3>4. QED
      BY <2>1, <3>2, <3>3, OneStreams DEF MakingIsSeen
  <2>4. QED
    BY <2>1, <2>2, <2>3 DEF MakingIsSeen
<1>2. CASE \/ \E v \in Id, w \in windows : Transfer(v, w)
           \/ \E v \in Id, op \in Ops \ {"window"} : Command(op, v)
           \/ \E w \in Window : CloseWindow(w)
           \/ NextOfWindow \/ Local \/ Finish
           \/ UNCHANGED vars
  <2>1. UNCHANGED <<reader, attached, left, wire>>
    BY <1>2 DEF Transfer, Command, CloseWindow, NextOfWindow, Local, Finish, vars, threads
  <2>2. QED
    BY <2>1, StreamsFrame
<1>3. CASE SendControl
  <2>1. cmd.token \in Token
    BY <1>3 DEF SendControl, Commanding, Asking
  <2>2. UNCHANGED <<attached, left, wire>>
        /\ (reader' = [reader EXCEPT ![cmd.token].queued = TRUE] \/ reader' = reader)
    BY <1>3 DEF SendControl
  <2>3. \A s \in Token : /\ reader'[s].stage = reader[s].stage /\ reader'[s].todo = reader[s].todo
                         /\ reader'[s].line = reader[s].line /\ reader'[s].request = reader[s].request
    <3>1. CASE reader' = [reader EXCEPT ![cmd.token].queued = TRUE]
      BY <1>0, <2>1, <3>1 DEF ReaderType
    <3>2. CASE reader' = reader
      BY <3>2
    <3>3. QED
      BY <2>2, <3>1, <3>2
  <2>4. \A s \in Token : Streaming(s)'
    BY <2>2, <2>3, StreamingStays DEF Streams
  <2>5. QED
    BY <2>4 DEF Streams
<1>4. CASE SendOnce
  <2>1. arc[cmd.token].daemon \in Id
    BY <1>4, AgentsHaveDaemons DEF SendOnce, Commanding, Asking
  <2>2. /\ UNCHANGED reader
        /\ EndRun(arc[cmd.token].daemon, "exited") \/ UNCHANGED <<daemon, wire, attached, left>>
    BY <1>4 DEF SendOnce, NotEnded
  <2>3. QED
    BY <2>1, <2>2, EndRunStreams
<1>5. ASSUME NEW d \in Id, DeleteView(d) \/ DeleteRecord(d) \/ DeleteRegistry(d) \/ ProgramEnds(d) PROVE Streams'
  <2>1. /\ UNCHANGED reader
        /\ EndRun(d, "deleted") \/ EndRun(d, "exited") \/ UNCHANGED <<daemon, wire, attached, left>>
    BY <1>5 DEF DeleteView, DeleteRecord, DeleteRegistry, ProgramEnds, Deleted, NotEnded
  <2>2. QED
    BY <2>1, EndRunStreams
<1>6. ASSUME NEW d \in Id, Prints(d) PROVE Streams'
  <2>1. UNCHANGED <<reader, attached, left>> /\ \A s \in Token : s \notin attached => wire'[s] = wire[s]
    BY <1>6 DEF Prints, SubscribersOf
  <2>2. \A s \in Token : s \in attached => Streaming(s)'
    BY <2>1, StreamingGrows
  <2>3. \A s \in Token : s \notin attached => Streaming(s)'
    BY <2>1, StreamingStays DEF Streams
  <2>4. QED
    BY <2>2, <2>3 DEF Streams
<1>7. ASSUME NEW t \in Token, FailView(t) \/ HandleExit(t) \/ WorkerEnds(t) \/ StreamEnds(t) \/ WaiterEnds(t) \/ Stops(t)
      PROVE Streams'
  <2>1. Stops(t)
    BY <1>7 DEF FailView, HandleExit, WorkerEnds, StreamEnds, WaiterEnds
  <2>2. QED
    BY <2>1, StreamingStops
<1>8. ASSUME NEW t \in Token, ReadHistory(t) PROVE Streams'
  <2>1. CASE FailView(t)
    BY <2>1, <1>7
  <2>2. CASE ~ FailView(t)
    <3> DEFINE todo == [n \in 1..written[arc[t].daemon] |-> Output(n)]
    <3>1. reader[t].stage = "history" /\ UNCHANGED <<attached, left, wire>>
          /\ reader' = [reader EXCEPT ![t].stage = "replay", ![t].todo = todo]
      BY <1>8, <2>2 DEF ReadHistory
    <3>2. \A i \in DOMAIN todo : todo[i][1] = "output"
      BY LineIs
    <3> HIDE DEF todo
    <3>3. /\ reader'[t].stage = "replay" /\ reader'[t].todo = todo /\ reader'[t].line = reader[t].line
          /\ reader'[t].request = reader[t].request
          /\ \A s \in Token \ {t} : reader'[s] = reader[s]
      BY <1>0, <3>1 DEF ReaderType
    <3>4. Streaming(t)'
      BY <3>1, <3>2, <3>3 DEF Streams, Streaming
    <3>5. QED
      BY <3>1, <3>3, <3>4, OneStreams
  <2>3. QED
    BY <2>1, <2>2
<1>9. ASSUME NEW t \in Token, HistoryShown(t) PROVE Streams'
  <2>1. /\ UNCHANGED <<attached, left, wire>> /\ reader[t].stage = "replay" /\ reader[t].todo = <<>> /\ reader[t].line = NoLine
        /\ \/ reader' = [reader EXCEPT ![t].stage = "done"]
           \/ \E x \in {"subscribe", "done"} : reader' = [reader EXCEPT ![t].then = "end", ![t].stage = x]
    BY <1>9 DEF HistoryShown
  <2>2. /\ reader'[t].stage \in {"subscribe", "done"} /\ reader'[t].todo = <<>> /\ reader'[t].line = NoLine
        /\ reader'[t].request = reader[t].request
        /\ \A s \in Token \ {t} : reader'[s] = reader[s]
    BY <1>0, <2>1 DEF ReaderType
  <2>3. Streaming(t)'
    BY <2>1, <2>2 DEF Streams, Streaming
  <2>4. QED
    BY <2>1, <2>2, <2>3, OneStreams
<1>10. ASSUME NEW t \in Token, Subscribe(t) PROVE Streams'
  <2>1. CASE FailView(t)
    BY <2>1, <1>7
  <2>2. CASE ~ FailView(t)
    <3>1. /\ reader[t].stage = "subscribe" /\ reader' = [reader EXCEPT ![t].stage = "live"]
          /\ \/ attached' = attached \cup {t} /\ UNCHANGED wire
             \/ wire' = [wire EXCEPT ![t] = <<End>>] /\ UNCHANGED attached
          /\ UNCHANGED left
      BY <1>10, <2>2 DEF Subscribe
    <3>2. /\ reader'[t].stage = "live" /\ reader'[t].todo = reader[t].todo /\ reader'[t].line = reader[t].line
          /\ \A s \in Token \ {t} : reader'[s] = reader[s]
      BY <1>0, <3>1 DEF ReaderType
    <3>3. t \in attached' \/ \E i \in DOMAIN wire'[t] : wire'[t][i] = End
      <4>1. CASE wire' = [wire EXCEPT ![t] = <<End>>]
        <5>1. wire'[t] = <<End>> /\ 1 \in DOMAIN <<End>> /\ <<End>>[1] = End
          BY <1>0, <4>1
        <5>2. QED
          BY <5>1
      <4>2. QED
        BY <3>1, <4>1
    <3>4. Streaming(t)'
      BY <3>1, <3>2, <3>3 DEF Streams, Streaming
    <3>5. \A s \in Token \ {t} : wire'[s] = wire[s] /\ (s \in attached' <=> s \in attached)
      BY <1>0, <3>1
    <3>6. \A s \in Token \ {t} : s \in left' => s \in left
      BY <3>1
    <3>7. QED
      BY <3>2, <3>4, <3>5, <3>6, OneStreams
  <2>3. QED
    BY <2>1, <2>2
<1>11. ASSUME NEW t \in Token, ReadLine(t) PROVE Streams'
  <2>1. CASE Stops(t)
    BY <2>1, <1>7
  <2>2. CASE ~ Stops(t)
    <3>1. /\ reader[t].stage \in {"replay", "live"} /\ reader[t].line = NoLine
          /\ Source(t) # <<>> /\ Head(Source(t)) # End
          /\ reader' = [reader EXCEPT ![t].line = Head(Source(t)),
                ![t].todo = IF reader[t].stage = "replay" THEN Tail(@) ELSE @]
          /\ wire' = IF reader[t].stage = "live" THEN [wire EXCEPT ![t] = Tail(@)] ELSE wire
          /\ UNCHANGED <<attached, left>>
      BY <1>11, <2>2 DEF ReadLine
    <3>2. Streaming(t) /\ reader[t].todo \in Seq(Line) /\ wire[t] \in Seq(Line)
      BY <1>0 DEF Streams, ReaderType
    <3>3. /\ reader'[t].stage = reader[t].stage /\ reader'[t].request = reader[t].request
          /\ reader'[t].line = Head(Source(t))
          /\ reader'[t].todo = IF reader[t].stage = "replay" THEN Tail(reader[t].todo) ELSE reader[t].todo
          /\ \A s \in Token \ {t} : reader'[s] = reader[s] /\ wire'[s] = wire[s]
      BY <1>0, <3>1 DEF ReaderType
    <3>4. CASE reader[t].stage = "replay"
      <4>1. /\ Head(reader[t].todo) = reader[t].todo[1] /\ DOMAIN reader[t].todo = 1..Len(reader[t].todo)
            /\ Len(reader[t].todo) \in Nat \ {0}
            /\ DOMAIN Tail(reader[t].todo) = 1..(Len(reader[t].todo) - 1)
            /\ \A i \in 1..(Len(reader[t].todo) - 1) : Tail(reader[t].todo)[i] = reader[t].todo[i + 1]
        BY <3>1, <3>2, <3>4, FirstAndRest DEF Source
      <4>2. \A i \in DOMAIN reader[t].todo : reader[t].todo[i][1] = "output"
        BY <3>2 DEF Streaming
      <4>3. reader'[t].line[1] = "output"
        <5>1. 1 \in DOMAIN reader[t].todo
          BY <4>1
        <5>2. QED
          BY <3>3, <3>4, <4>1, <4>2, <5>1 DEF Source
      <4>4. \A i \in DOMAIN reader'[t].todo : reader'[t].todo[i][1] = "output"
        <5>1. reader'[t].todo = Tail(reader[t].todo)
          BY <3>3, <3>4
        <5>2. \A i \in 1..(Len(reader[t].todo) - 1) : i + 1 \in DOMAIN reader[t].todo
          BY <4>1
        <5>3. QED
          BY <4>1, <4>2, <5>1, <5>2
      <4>5. wire'[t] = wire[t]
        BY <3>1, <3>4
      <4>6. Streaming(t)'
        BY <3>1, <3>2, <3>3, <3>4, <4>3, <4>4, <4>5 DEF Streaming
      <4>7. QED
        BY <3>1, <3>3, <4>6, OneStreams
    <3>5. CASE reader[t].stage = "live"
      <4>1. /\ Head(wire[t]) = wire[t][1] /\ DOMAIN wire[t] = 1..Len(wire[t]) /\ Len(wire[t]) \in Nat \ {0}
            /\ DOMAIN Tail(wire[t]) = 1..(Len(wire[t]) - 1)
            /\ \A i \in 1..(Len(wire[t]) - 1) : Tail(wire[t])[i] = wire[t][i + 1]
        BY <3>1, <3>2, <3>5, FirstAndRest DEF Source
      <4>2. wire'[t] = Tail(wire[t]) /\ wire[t][1] # End
        BY <1>0, <3>1, <3>5, <4>1 DEF Source
      <4>3. t \notin attached => \E i \in DOMAIN wire'[t] : wire'[t][i] = End
        <5>1. SUFFICES ASSUME t \notin attached PROVE \E i \in DOMAIN wire'[t] : wire'[t][i] = End
          OBVIOUS
        <5>2. PICK i \in DOMAIN wire[t] : wire[t][i] = End
          BY <3>2, <3>5, <5>1 DEF Streaming
        <5>3. i - 1 \in 1..(Len(wire[t]) - 1) /\ (i - 1) + 1 = i
          BY <4>1, <4>2, <5>2
        <5>4. i - 1 \in DOMAIN wire'[t] /\ wire'[t][i - 1] = End
          BY <4>1, <4>2, <5>2, <5>3
        <5>5. QED
          BY <5>4
      <4>4. Streaming(t)'
        <5>1. reader'[t].stage = "live" /\ reader'[t].todo = reader[t].todo /\ reader'[t].request = reader[t].request
          BY <3>3, <3>5
        <5>2. (t \in attached' <=> t \in attached) /\ t \notin left'
          BY <3>1, <3>2, <3>5 DEF Streaming
        <5>3. QED
          BY <3>2, <3>5, <4>3, <5>1, <5>2 DEF Streaming
      <4>5. QED
        BY <3>1, <3>3, <4>4, OneStreams
    <3>6. QED
      BY <3>1, <3>4, <3>5
  <2>3. QED
    BY <2>1, <2>2
<1>12. ASSUME NEW t \in Token, HandleOutput(t) \/ HandleResponse(t) \/ Carry(t) PROVE Streams'
  <2>1. UNCHANGED <<wire, attached, left>>
    BY <1>12 DEF HandleOutput, HandleResponse, Carry
  <2>2. /\ reader'[t].stage = reader[t].stage /\ reader'[t].todo = reader[t].todo
        /\ reader'[t].line \in {reader[t].line, NoLine}
        /\ reader'[t].request = "sent" => reader[t].request = "sent" \/ reader[t].stage = "live"
        /\ \A s \in Token \ {t} : reader'[s] = reader[s]
    BY <1>0, <1>12 DEF HandleOutput, HandleResponse, Carry, ReaderType
  <2>3. Streaming(t)'
    BY <2>1, <2>2, StreamingStays DEF Streams
  <2>4. QED
    BY <2>1, <2>2, <2>3, OneStreams
<1>13. ASSUME NEW t \in Token, Answer(t) PROVE Streams'
  <2>1. t \in attached /\ reader' = [reader EXCEPT ![t].request = "none"] /\ UNCHANGED left
    BY <1>13 DEF Answer
  <2>2. /\ reader'[t].stage = reader[t].stage /\ reader'[t].todo = reader[t].todo
        /\ reader'[t].line = reader[t].line /\ reader'[t].request = "none"
        /\ \A s \in Token \ {t} : reader'[s] = reader[s]
    BY <1>0, <2>1 DEF ReaderType
  <2>3. \A s \in Token \ {t} : wire'[s] = wire[s] /\ (s \in attached' <=> s \in attached)
    BY <1>0, <1>13 DEF Answer
  <2>4. t \in attached' \/ wire'[t] = wire[t] \o <<Response, End>>
    BY <1>0, <1>13 DEF Answer
  <2>5. Streaming(t)'
    BY <2>1, <2>2, <2>4, StreamingGrows
  <2>6. QED
    BY <2>1, <2>2, <2>3, <2>5, OneStreams
<1>14. ASSUME NEW t \in Token, Prompt(t) \/ Reply(t) \/ ClientEnds(t) PROVE Streams'
  <2>1. Pauses(t) /\ Streaming(t)
    BY <1>14, PausesIs DEF Streams
  <2>2. Streaming(t)'
    BY <2>1 DEF Pauses, Streaming
  <2>3. QED
    BY <2>1, <2>2, OneStreams DEF Pauses
<1>15. QED
  BY <1>1, <1>2, <1>3, <1>4, <1>5, <1>6, <1>7, <1>8, <1>9, <1>10, <1>11, <1>12, <1>13, <1>14
     DEF Next, MainThread, Reads, ReadFails

-----------------------------------------------------------------------------
(* The steps, one by one.                                                  *)

\* Commands that only take up, or end without a daemon.
Takes ==
    /\ \/ \E v \in Id, op \in Ops \ {"window"} : Command(op, v)
       \/ \E w \in Window : CloseWindow(w)
       \/ NextOfWindow \/ Local
       \/ UNCHANGED vars
    /\ UNCHANGED <<shown, host, views, records, sized, arc, threads, runs>>
\* The ends of a reader: it takes the view with it, the waiter does, or nobody.
EndsView(t) == Made(t) /\ ReaderEnds(t) /\ (DropRequests(t) \/ (arc[t].kind = "shell" /\ UNCHANGED cmd))
EndsPty(t) == Made(t) /\ WaiterEnds(t)
EndsStream(t) == Made(t) /\ StreamEnds(t)
LosesView(t) ==
    /\ Made(t) /\ ~ Current(t) /\ Stops(t) /\ DropRequests(t)
    /\ UNCHANGED <<shown, host, windows, views, records, sized, arc, strays, runs>>
\* The reader goes on.
GetsHistory(t) ==
    /\ Made(t) /\ reader[t].stage = "history"
    /\ reader' = [reader EXCEPT ![t].stage = "replay",
             ![t].todo = [n \in 1..written[arc[t].daemon] |-> Output(n)]]
    /\ UNCHANGED <<host, windows, views, records, sized, shown, arc, wire, attached, left, strays, runs, cmd>>
Joins(t) ==
    /\ Made(t) /\ reader[t].stage = "subscribe"
    /\ reader' = [reader EXCEPT ![t].stage = "live"]
    /\ arc' = Transport(arc[t].view, "connected")
    /\ IF daemon[arc[t].daemon] = "running"
       THEN attached' = attached \cup {t} /\ UNCHANGED wire
       ELSE wire' = [wire EXCEPT ![t] = <<End>>] /\ UNCHANGED attached
    /\ UNCHANGED <<host, windows, views, records, sized, shown, left, strays, runs, cmd>>
GetsLine(t) ==
    /\ Made(t) /\ Current(t)
    /\ reader[t].stage \in {"replay", "live"} /\ reader[t].line = NoLine
    /\ Source(t) # <<>> /\ Head(Source(t)) # End
    /\ reader' = [reader EXCEPT ![t].line = Head(Source(t)),
             ![t].todo = IF reader[t].stage = "replay" THEN Tail(@) ELSE @]
    /\ wire' = IF reader[t].stage = "live" THEN [wire EXCEPT ![t] = Tail(@)] ELSE wire
    /\ UNCHANGED <<shown, host, windows, views, records, sized, arc, strays, runs, attached, left, cmd>>
GoesOn(t) ==
    \/ GetsHistory(t) \/ HistoryShown(t) \/ Joins(t) \/ GetsLine(t)
    \/ HandleOutput(t) \/ HandleResponse(t) \/ Carry(t) \/ Answer(t) \/ Pauses(t)
Runs(d) == DeleteView(d) \/ DeleteRecord(d) \/ DeleteRegistry(d) \/ Prints(d) \/ ProgramEnds(d)
Cases ==
    \/ MakeView
    \/ \E v \in Id, w \in windows : Transfer(v, w)
    \/ Takes \/ SendControl \/ SendOnce \/ Finish
    \/ \E t \in Token : EndsView(t) \/ EndsPty(t) \/ EndsStream(t) \/ LosesView(t)
    \/ \E t \in Token : Made(t) /\ GoesOn(t)
    \/ \E d \in Id : Runs(d)

LEMMA StepIsCase ==
  ASSUME TypeOK, Objects, Streams, [Next]_vars
  PROVE  Cases
<1>1. CASE \/ \E v \in Id, op \in Ops \ {"window"} : Command(op, v)
           \/ \E w \in Window : CloseWindow(w)
           \/ NextOfWindow \/ Local
           \/ UNCHANGED vars
  <2>1. UNCHANGED <<shown, host, views, records, sized, arc, threads, runs>>
    BY <1>1 DEF Command, CloseWindow, NextOfWindow, Local, vars
  <2>2. Takes
    BY <1>1, <2>1 DEF Takes
  <2>3. QED
    BY <2>2 DEF Cases
<1>2. ASSUME NEW t \in Token, FailView(t) \/ HandleExit(t) \/ WorkerEnds(t), Made(t) PROVE EndsView(t)
  <2>1. ReaderEnds(t)
    BY <1>2, ReaderEndsIs
  <2>2. DropRequests(t) \/ (arc[t].kind = "shell" /\ UNCHANGED cmd)
    BY <1>2 DEF FailView, HandleExit, WorkerEnds
  <2>3. QED
    BY <1>2, <2>1, <2>2 DEF EndsView
<1>3. ASSUME NEW t \in Token, ReadHistory(t) PROVE EndsView(t) \/ GetsHistory(t)
  <2>1. Made(t)
    BY <1>3, ReaderEndsIs
  <2>2. CASE FailView(t)
    BY <1>2, <2>1, <2>2
  <2>3. CASE ~ FailView(t)
    BY <1>3, <2>1, <2>3 DEF ReadHistory, GetsHistory
  <2>4. QED
    BY <2>2, <2>3
<1>4. ASSUME NEW t \in Token, Subscribe(t) PROVE EndsView(t) \/ Joins(t)
  <2>1. Made(t)
    BY <1>4, ReaderEndsIs
  <2>2. CASE FailView(t)
    BY <1>2, <2>1, <2>2
  <2>3. CASE ~ FailView(t)
    BY <1>4, <2>1, <2>3 DEF Subscribe, Joins
  <2>4. QED
    BY <2>2, <2>3
<1>5. ASSUME NEW t \in Token, ReadLine(t) PROVE LosesView(t) \/ GetsLine(t)
  <2>1. Made(t)
    BY <1>5, ReaderIsMade DEF ReadLine
  <2>2. CASE Current(t)
    BY <1>5, <2>1, <2>2 DEF ReadLine, GetsLine
  <2>3. CASE ~ Current(t)
    BY <1>5, <2>1, <2>3 DEF ReadLine, LosesView
  <2>4. QED
    BY <2>2, <2>3
<1>6. ASSUME NEW t \in Token, ReadFails(t) \/ HandleExit(t) \/ WorkerEnds(t) PROVE EndsView(t)
  <2>1. Made(t) /\ (FailView(t) \/ HandleExit(t) \/ WorkerEnds(t))
    BY <1>6, ReaderEndsIs DEF ReadFails
  <2>2. QED
    BY <2>1, <1>2
<1>7. ASSUME NEW t \in Token, StreamEnds(t) PROVE EndsStream(t)
  BY <1>7, ReaderIsMade DEF StreamEnds, EndsStream
<1>8. ASSUME NEW t \in Token, WaiterEnds(t) PROVE EndsPty(t)
  BY <1>8, ReaderIsMade DEF WaiterEnds, EndsPty
<1>9. ASSUME NEW t \in Token,
             \/ HistoryShown(t) \/ HandleOutput(t) \/ HandleResponse(t) \/ Carry(t) \/ Answer(t)
             \/ Prompt(t) \/ Reply(t) \/ ClientEnds(t)
      PROVE  Made(t) /\ GoesOn(t)
  <2>0. ClientEnds(t) => reader[t].stage = "done"
    BY DEF ClientEnds, Streams, Streaming
  <2>1. Made(t)
    BY <1>9, <2>0, ReaderIsMade, LineIs
       DEF HistoryShown, HandleOutput, HandleResponse, Carry, Answer, Prompt, Reply
  <2>2. QED
    BY <1>9, <2>1, PausesIs DEF GoesOn
<1>10. ASSUME NEW t \in Token, Reads(t) \/ ReadFails(t) \/ WaiterEnds(t) \/ WorkerEnds(t) \/ Carry(t) \/ Answer(t)
       PROVE  Cases
  <2>1. \/ EndsView(t) \/ EndsPty(t) \/ EndsStream(t) \/ LosesView(t)
        \/ Made(t) /\ GoesOn(t)
    <3>1. \/ EndsView(t) \/ EndsPty(t) \/ EndsStream(t) \/ LosesView(t)
          \/ GetsHistory(t) \/ Joins(t) \/ GetsLine(t)
          \/ Made(t) /\ GoesOn(t)
      BY <1>3, <1>4, <1>5, <1>6, <1>7, <1>8, <1>9, <1>10 DEF Reads
    <3>2. GetsHistory(t) \/ Joins(t) \/ GetsLine(t) => Made(t) /\ GoesOn(t)
      BY DEF GetsHistory, Joins, GetsLine, GoesOn
    <3>3. QED
      BY <3>1, <3>2
  <2>2. QED
    BY <2>1 DEF Cases
<1>11. CASE MakeView \/ SendControl \/ SendOnce \/ Finish
  BY <1>11 DEF Cases
<1>12. ASSUME NEW v \in Id, NEW w \in windows, Transfer(v, w) PROVE Cases
  BY <1>12 DEF Cases
<1>13. ASSUME NEW d \in Id, DeleteView(d) \/ DeleteRecord(d) \/ DeleteRegistry(d) \/ Prints(d) \/ ProgramEnds(d) PROVE Cases
  BY <1>13 DEF Cases, Runs
<1>14. QED
  BY <1>1, <1>10, <1>11, <1>12, <1>13 DEF Next, MainThread

\* But for a view that is made, every object stays what it is.
LEMMA ObjectsSame ==
  ASSUME TypeOK, Objects, Placing, Cases
  PROVE  MakeView \/ \A s \in Token : SameObject(s)
<1>1. arc \in [Token -> ArcType]
  BY DEF TypeOK
<1>2. ASSUME arc' = arc PROVE \A s \in Token : SameObject(s)
  BY <1>2 DEF SameObject, Made
<1>3. ASSUME NEW t \in Token, Made(t), arc' = Transport(arc[t].view, "ended") \/ arc' = Transport(arc[t].view, "connected")
      PROVE  \A s \in Token : SameObject(s)
  BY <1>3, TransportIs, AgentsHaveDaemons
<1>4. ASSUME NEW t \in Token, Made(t), arc' = [arc EXCEPT ![t].control = TRUE]
      PROVE  \A s \in Token : SameObject(s)
  <2>1. /\ arc'[t].kind = arc[t].kind /\ arc'[t].view = arc[t].view /\ arc'[t].daemon = arc[t].daemon
        /\ \A s \in Token \ {t} : arc'[s] = arc[s]
    BY <1>1, <1>4 DEF ArcType
  <2>2. arc[t].kind # "none"
    BY <1>4 DEF Objects, Fitting, Kind
  <2>3. QED
    BY <1>4, <2>1, <2>2 DEF SameObject, Made, NoArc
<1>5. CASE \/ \E v \in Id, w \in windows : Transfer(v, w)
           \/ Takes \/ SendControl \/ SendOnce \/ Finish
           \/ \E d \in Id : Runs(d)
  BY <1>2, <1>5 DEF Transfer, Takes, SendControl, SendOnce, Finish, Runs, DeleteView, DeleteRecord, DeleteRegistry,
     Prints, ProgramEnds
<1>6. ASSUME NEW t \in Token, EndsView(t) \/ EndsPty(t) \/ EndsStream(t) \/ LosesView(t)
      PROVE  \A s \in Token : SameObject(s)
  BY <1>2, <1>3, <1>6 DEF EndsView, ReaderEnds, EndsPty, WaiterEnds, EndsStream, StreamEnds, LosesView
<1>7. ASSUME NEW t \in Token, Made(t), GoesOn(t)
      PROVE  \A s \in Token : SameObject(s)
  <2>1. \/ arc' = arc \/ arc' = Transport(arc[t].view, "ended") \/ arc' = Transport(arc[t].view, "connected")
        \/ arc' = [arc EXCEPT ![t].control = TRUE]
    BY <1>7 DEF GoesOn, GetsHistory, HistoryShown, Joins, GetsLine, HandleOutput, HandleResponse, Carry, Answer, Pauses
  <2>2. QED
    BY <1>2, <1>3, <1>4, <1>7, <2>1
<1>8. QED
  BY <1>5, <1>6, <1>7 DEF Cases

\* Views are moved, removed or left alone.
LEMMA ViewsMove ==
  ASSUME TypeOK, Objects, Commanding, Cases
  PROVE  \/ MakeView
         \/ \E v \in Id, w \in windows : Transfer(v, w)
         \/ UNCHANGED views
         \/ \E v \in Id : Remove(v)
<1>1. CASE Takes \/ SendControl \/ SendOnce
  BY <1>1 DEF Takes, SendControl, SendOnce
<1>2. CASE Finish
  <2>1. arc[cmd.token].view \in Id
    BY <1>2, AgentsHaveDaemons DEF Finish, Commanding, Asking
  <2>2. QED
    BY <1>2, <2>1 DEF Finish
<1>3. ASSUME NEW t \in Token, EndsView(t) \/ EndsPty(t) \/ EndsStream(t) \/ LosesView(t)
      PROVE  UNCHANGED views \/ \E v \in Id : Remove(v)
  <2>1. arc[t].view \in Id
    BY <1>3, AgentsHaveDaemons DEF EndsView, EndsPty, EndsStream, LosesView
  <2>2. UNCHANGED views \/ Remove(arc[t].view)
    BY <1>3 DEF EndsView, ReaderEnds, EndsPty, WaiterEnds, EndsStream, StreamEnds, LosesView
  <2>3. QED
    BY <2>1, <2>2
<1>4. ASSUME NEW t \in Token, GoesOn(t) PROVE UNCHANGED views
  BY <1>4 DEF GoesOn, GetsHistory, HistoryShown, Joins, GetsLine, HandleOutput, HandleResponse, Carry, Answer, Pauses
<1>5. ASSUME NEW d \in Id, Runs(d) PROVE UNCHANGED views \/ Remove(d)
  BY <1>5 DEF Runs, DeleteView, DeleteRecord, DeleteRegistry, Prints, ProgramEnds
<1>6. QED
  BY <1>1, <1>2, <1>3, <1>4, <1>5 DEF Cases

-----------------------------------------------------------------------------
(* The map of views and the records.                                       *)

\* Records are dropped, and made by a detach that removes the view.
Detaches == /\ Finish /\ cmd.op = "detach" /\ cmd.token \in Token /\ Made(cmd.token)
            /\ arc[cmd.token].kind = "agent" /\ Remove(arc[cmd.token].view)
            /\ records' = [records EXCEPT ![arc[cmd.token].daemon] = arc[cmd.token].view]
LEMMA RecordsMove ==
  ASSUME TypeOK, Commanding, Cases
  PROVE  MakeView \/ Detaches \/ \A d \in Id : records'[d] \in {records[d], None}
<1>1. ASSUME UNCHANGED records PROVE \A d \in Id : records'[d] \in {records[d], None}
  BY <1>1
<1>2. CASE Finish
  <2>1. CASE cmd.op = "detach" /\ cmd.step = "ok"
    <3>1. Remove(arc[cmd.token].view) /\ records' = [records EXCEPT ![arc[cmd.token].daemon] = arc[cmd.token].view]
      BY <1>2, <2>1 DEF Finish
    <3>2. cmd.token \in Token /\ Made(cmd.token) /\ arc[cmd.token].kind = "agent"
      BY <1>2, <2>1 DEF Finish, Commanding, Asking
    <3>3. QED
      BY <1>2, <2>1, <3>1, <3>2 DEF Detaches
  <2>2. CASE ~ (cmd.op = "detach" /\ cmd.step = "ok")
    BY <1>1, <1>2, <2>2 DEF Finish
  <2>3. QED
    BY <2>1, <2>2
<1>3. CASE Takes \/ SendControl \/ SendOnce \/ \E v \in Id, w \in windows : Transfer(v, w)
  BY <1>1, <1>3 DEF Takes, SendControl, SendOnce, Transfer
<1>4. ASSUME NEW t \in Token, EndsView(t) \/ EndsPty(t) \/ EndsStream(t) \/ LosesView(t) \/ GoesOn(t)
      PROVE  UNCHANGED records
  BY <1>4 DEF EndsView, ReaderEnds, EndsPty, WaiterEnds, EndsStream, StreamEnds, LosesView, GoesOn, GetsHistory,
     HistoryShown, Joins, GetsLine, HandleOutput, HandleResponse, Carry, Answer, Pauses
<1>5. ASSUME NEW d \in Id, Runs(d) PROVE \A e \in Id : records'[e] \in {records[e], None}
  <2>1. records' = records \/ records' = [records EXCEPT ![d] = None]
    BY <1>5 DEF Runs, DeleteView, DeleteRecord, DeleteRegistry, Prints, ProgramEnds
  <2>2. QED
    BY <2>1 DEF TypeOK
<1>6. QED
  BY <1>1, <1>2, <1>3, <1>4, <1>5 DEF Cases

\* Views never come back but by MakeView: they stay where they are, are moved, or go.
Stays(v) == sessions'[v] = sessions[v] /\ placed'[v] = placed[v]
Moves(v) == sessions'[v] = sessions[v] /\ sessions[v] # None /\ placed'[v] \in windows /\ UNCHANGED <<windows, cmd>>
Goes(v) == sessions'[v] = None /\ placed'[v] = None
LEMMA ViewsGo ==
  ASSUME TypeOK, Objects, Commanding, Cases
  PROVE  MakeView \/ \A v \in Id : Stays(v) \/ Moves(v) \/ Goes(v)
<1>1. placed \in [Id -> Window \cup {None}]
  BY DEF TypeOK
<1>2. ASSUME NEW u \in Id, NEW w \in windows, Transfer(u, w), NEW v \in Id
      PROVE  Stays(v) \/ Moves(v)
  <2>1. /\ sessions' = sessions /\ placed' = [placed EXCEPT ![u] = w] /\ sessions[u] # None
        /\ UNCHANGED <<windows, cmd>>
    BY <1>2 DEF Transfer
  <2>2. QED
    BY <1>1, <2>1 DEF Stays, Moves
<1>3. ASSUME NEW u \in Id, Remove(u), NEW v \in Id
      PROVE  Stays(v) \/ Goes(v)
  BY <1>3, RemoveIs DEF Stays, Goes
<1>4. ASSUME UNCHANGED views, NEW v \in Id PROVE Stays(v)
  BY <1>4 DEF views, Stays
<1>5. QED
  BY <1>2, <1>3, <1>4, ViewsMove

LEMMA MapInductive ==
  ASSUME TypeOK, Objects, Commanding, Map, Cases
  PROVE  Map'
<1>0. Placing
  BY DEF Map
<1>1. CASE MakeView
  <2>1. MakingIsSeen
    BY <1>1, MakeViewIs
  <2>2. CASE UNCHANGED <<arc, views, reader, records>>
    BY <2>2 DEF Map, Placing, Owner, OneDaemon, Recorded, RecordsAreClosedViews, Made, views
  <2>3. CASE \E w \in windows : Made1(w)
    <3>1. PICK w \in windows, t \in Token, a \in ArcType, r \in ReaderType :
              ~ Made(t) /\ Open(t, w, a, r) /\ NewObject(a, r) /\ NewView(a)
      BY <2>3 DEF Made1
    <3>2. w \in Window
      BY DEF TypeOK
    <3>3. /\ arc'[t] = a /\ Made(t)' /\ sessions'[a.view] = t /\ placed'[a.view] = w
          /\ \A s \in Token \ {t} : arc'[s] = arc[s] /\ (Made(s)' <=> Made(s))
          /\ \A i \in Id \ {a.view} : sessions'[i] = sessions[i] /\ placed'[i] = placed[i]
          /\ \A i \in Id : sessions[i] # t
      BY <1>0, <3>1, <3>2, OpenIs
    <3>4. a.view \in Id /\ a.view # None /\ (a.kind = "agent" => a.daemon \in Id)
      BY <3>1, NoneIsNothing DEF NewObject
    <3>5. Placing'
      <4>1. ASSUME NEW v \in Id PROVE Owner(v)' /\ (placed'[v] = None <=> sessions'[v] = None)
        <5>1. CASE v = a.view
          BY <3>2, <3>3, <5>1, NoneIsNothing DEF Owner
        <5>2. CASE v # a.view
          BY <1>0, <3>3, <5>2 DEF Owner, Placing, TypeOK
        <5>3. QED
          BY <5>1, <5>2
      <4>2. QED
        BY <4>1 DEF Placing
    <3>6. \A s \in Token : Made(s) /\ arc[s].view = a.view => arc[s].daemon = a.daemon
      <4>1. CASE ~ Used(a.view)
        BY <3>4, <4>1 DEF Used
      <4>2. CASE a.kind = "agent" /\ records[a.daemon] = a.view
        <5>1. PICK u \in Token : Made(u) /\ arc[u].view = a.view /\ arc[u].daemon = a.daemon
          BY <3>4, <4>2 DEF Map, Recorded
        <5>2. QED
          BY <5>1 DEF Map, OneDaemon
      <4>3. QED
        BY <3>1, <4>1, <4>2 DEF NewView
    <3>7. OneDaemon'
      <4>1. ASSUME NEW s \in Token, NEW u \in Token, Made(s)', Made(u)', arc'[s].view = arc'[u].view
            PROVE  arc'[s].daemon = arc'[u].daemon
        <5>1. CASE s = t
          BY <3>3, <3>6, <4>1, <5>1
        <5>2. CASE u = t
          BY <3>3, <3>6, <4>1, <5>2
        <5>3. CASE s # t /\ u # t
          BY <3>3, <4>1, <5>3 DEF Map, OneDaemon
        <5>4. QED
          BY <5>1, <5>2, <5>3
      <4>2. QED
        BY <4>1 DEF OneDaemon
    <3>8. \A d \in Id : records'[d] # None =>
            records'[d] = records[d] /\ records[d] # a.view
      <4>1. ASSUME NEW d \in Id, records'[d] # None PROVE records'[d] = records[d]
        BY <3>1, <4>1 DEF NewView, TypeOK
      <4>2. ASSUME NEW d \in Id, records'[d] # None PROVE records[d] # a.view
        <5>1. records[d] # None
          BY <4>1, <4>2
        <5>2. PICK u \in Token : Made(u) /\ arc[u].view = records[d] /\ arc[u].daemon = d
          BY <5>1 DEF Map, Recorded
        <5>3. CASE records[d] = a.view
          <6>1. d = a.daemon
            BY <3>6, <5>2, <5>3
          <6>2. Used(a.view)
            BY <5>2, <5>3 DEF Used
          <6>3. a.kind = "agent" /\ records' = [records EXCEPT ![a.daemon] = None]
            BY <3>1, <6>2 DEF NewView
          <6>4. QED
            BY <3>4, <4>2, <6>1, <6>3 DEF TypeOK
        <5>4. QED
          BY <5>3
      <4>3. QED
        BY <4>1, <4>2
    <3>9. Recorded'
      <4>1. ASSUME NEW d \in Id, records'[d] # None
            PROVE  \E s \in Token : (Made(s) /\ arc[s].kind = "agent" /\ arc[s].view = records[d] /\ arc[s].daemon = d)'
        <5>1. records'[d] = records[d] /\ records[d] # None
          BY <3>8, <4>1
        <5>2. PICK u \in Token : Made(u) /\ arc[u].kind = "agent" /\ arc[u].view = records[d] /\ arc[u].daemon = d
          BY <5>1 DEF Map, Recorded
        <5>3. u # t
          BY <3>1, <5>2
        <5>4. QED
          BY <3>3, <5>1, <5>2, <5>3
      <4>2. QED
        BY <4>1 DEF Recorded
    <3>10. RecordsAreClosedViews'
      <4>1. ASSUME NEW d \in Id, records'[d] # None PROVE sessions'[records'[d]] = None
        <5>1. records'[d] = records[d] /\ records[d] # a.view /\ records[d] \in Id
          BY <3>8, <4>1 DEF TypeOK
        <5>2. sessions[records[d]] = None
          BY <4>1, <5>1 DEF Map, RecordsAreClosedViews
        <5>3. QED
          BY <3>3, <5>1, <5>2
      <4>2. QED
        BY <4>1 DEF RecordsAreClosedViews
    <3>11. QED
      BY <3>5, <3>7, <3>9, <3>10 DEF Map
  <2>4. QED
    BY <2>1, <2>2, <2>3 DEF MakingIsSeen
<1>2. CASE ~ MakeView
  <2>1. \A s \in Token : SameObject(s)
    BY <1>0, <1>2, ObjectsSame
  <2>2. \A v \in Id : Stays(v) \/ Moves(v) \/ Goes(v)
    BY <1>2, ViewsGo
  <2>3. Detaches \/ \A d \in Id : records'[d] \in {records[d], None}
    BY <1>2, RecordsMove
  <2>4. Placing'
    <3>1. ASSUME NEW v \in Id PROVE Owner(v)' /\ (placed'[v] = None <=> sessions'[v] = None)
      <4>1. Owner(v) /\ (placed[v] = None <=> sessions[v] = None) /\ sessions[v] \in Token \cup {None}
        BY <1>0 DEF Placing, TypeOK
      <4>2. CASE Goes(v)
        BY <4>2 DEF Goes, Owner
      <4>3. CASE Stays(v) \/ Moves(v)
        <5>1. sessions'[v] = sessions[v] /\ (sessions[v] # None => Made(sessions[v])')
          BY <2>1, <4>1, <4>3 DEF Stays, Moves, Owner, SameObject
        <5>2. placed'[v] = None <=> sessions'[v] = None
          BY <4>1, <4>3, NoneIsNothing DEF Stays, Moves, TypeOK
        <5>3. QED
          BY <5>1, <5>2 DEF Owner
      <4>4. QED
        BY <2>2, <4>2, <4>3
    <3>2. QED
      BY <3>1 DEF Placing
  <2>5. OneDaemon'
    BY <2>1 DEF Map, OneDaemon, SameObject
  <2>6. ASSUME NEW d \in Id, records'[d] # None
        PROVE  /\ \E s \in Token : (Made(s) /\ arc[s].kind = "agent" /\ arc[s].view = records[d] /\ arc[s].daemon = d)'
               /\ sessions'[records'[d]] = None
    <3>1. CASE records'[d] = records[d]
      <4>1. PICK u \in Token : Made(u) /\ arc[u].kind = "agent" /\ arc[u].view = records[d] /\ arc[u].daemon = d
        BY <2>6, <3>1 DEF Map, Recorded
      <4>2. \E s \in Token : (Made(s) /\ arc[s].kind = "agent" /\ arc[s].view = records[d] /\ arc[s].daemon = d)'
        BY <2>1, <3>1, <4>1 DEF SameObject
      <4>3. records[d] \in Id /\ sessions[records[d]] = None
        BY <2>6, <3>1 DEF Map, RecordsAreClosedViews, TypeOK
      <4>4. sessions'[records[d]] = None
        BY <2>2, <4>3 DEF Stays, Moves, Goes
      <4>5. QED
        BY <3>1, <4>2, <4>4
    <3>2. CASE Detaches /\ records'[d] # records[d]
      <4>1. /\ cmd.token \in Token /\ Made(cmd.token) /\ arc[cmd.token].kind = "agent"
            /\ records' = [records EXCEPT ![arc[cmd.token].daemon] = arc[cmd.token].view]
            /\ Remove(arc[cmd.token].view) /\ arc[cmd.token].view \in Id
        BY <3>2, AgentsHaveDaemons DEF Detaches
      <4>2. d = arc[cmd.token].daemon /\ records'[d] = arc[cmd.token].view
        BY <3>2, <4>1 DEF TypeOK
      <4>3. sessions'[arc[cmd.token].view] = None
        BY <4>1, RemoveIs
      <4>4. PICK u \in Token : u = cmd.token
        BY <4>1
      <4>5. (Made(u) /\ arc[u].kind = "agent" /\ arc[u].view = records[d] /\ arc[u].daemon = d)'
        BY <2>1, <4>1, <4>2, <4>4 DEF SameObject
      <4>6. QED
        BY <4>2, <4>3, <4>5
    <3>3. QED
      BY <2>3, <2>6, <3>1, <3>2
  <2>7. Recorded' /\ RecordsAreClosedViews'
    BY <2>6 DEF Recorded, RecordsAreClosedViews
  <2>8. QED
    BY <2>4, <2>5, <2>7 DEF Map
<1>3. QED
  BY <1>1, <1>2

-----------------------------------------------------------------------------
(* The command.                                                            *)

\* An object never loses its control channel.
LEMMA ControlKept ==
  ASSUME TypeOK, Objects, Placing, Cases
  PROVE  \A s \in Token : Made(s) => Made(s)' /\ (arc[s].control => arc'[s].control) /\ SameObject(s)
<1>1. arc \in [Token -> ArcType]
  BY DEF TypeOK
<1>2. CASE MakeView
  <2>1. MakingIsSeen
    BY <1>2, MakeViewIs
  <2>2. CASE UNCHANGED <<arc, views, reader, records>>
    BY <2>2 DEF Made, SameObject
  <2>3. CASE \E w \in windows : Made1(w)
    <3>1. PICK w \in windows, t \in Token, a \in ArcType, r \in ReaderType :
              ~ Made(t) /\ Open(t, w, a, r) /\ NewObject(a, r) /\ NewView(a)
      BY <2>3 DEF Made1
    <3>2. arc' = [arc EXCEPT ![t] = a]
      BY <3>1 DEF Open
    <3>3. QED
      BY <1>1, <3>1, <3>2 DEF Made, SameObject
  <2>4. QED
    BY <2>1, <2>2, <2>3 DEF MakingIsSeen
<1>3. CASE ~ MakeView
  <2>1. \A s \in Token : SameObject(s)
    BY <1>3, ObjectsSame
  <2>2. ASSUME NEW s \in Token, Made(s), arc[s].control PROVE arc'[s].control
    <3>1. ASSUME NEW t \in Token, Made(t), arc' = Transport(arc[t].view, "ended") \/ arc' = Transport(arc[t].view, "connected")
          PROVE  arc'[s].control
      BY <2>2, <3>1, TransportIs, AgentsHaveDaemons
    <3>2. ASSUME NEW t \in Token, arc' = [arc EXCEPT ![t].control = TRUE] PROVE arc'[s].control
      BY <1>1, <2>2, <3>2 DEF ArcType
    <3>3. CASE \/ \E v \in Id, w \in windows : Transfer(v, w)
               \/ Takes \/ SendControl \/ SendOnce \/ Finish
               \/ \E d \in Id : Runs(d)
      <4>1. arc' = arc
        BY <3>3 DEF Transfer, Takes, SendControl, SendOnce, Finish, Runs, DeleteView, DeleteRecord, DeleteRegistry,
           Prints, ProgramEnds
      <4>2. QED
        BY <2>2, <4>1
    <3>4. ASSUME NEW t \in Token, EndsView(t) \/ EndsPty(t) \/ EndsStream(t) \/ LosesView(t)
          PROVE  arc'[s].control
      BY <2>2, <3>1, <3>4 DEF EndsView, ReaderEnds, EndsPty, WaiterEnds, EndsStream, StreamEnds, LosesView
    <3>5. ASSUME NEW t \in Token, Made(t), GoesOn(t) PROVE arc'[s].control
      <4>1. \/ arc' = arc \/ arc' = Transport(arc[t].view, "ended") \/ arc' = Transport(arc[t].view, "connected")
            \/ arc' = [arc EXCEPT ![t].control = TRUE]
        BY <3>5 DEF GoesOn, GetsHistory, HistoryShown, Joins, GetsLine, HandleOutput, HandleResponse, Carry, Answer, Pauses
      <4>2. QED
        BY <2>2, <3>1, <3>2, <3>5, <4>1
    <3>6. QED
      BY <1>3, <3>3, <3>4, <3>5 DEF Cases
  <2>3. QED
    BY <2>1, <2>2 DEF SameObject
<1>4. QED
  BY <1>2, <1>3

\* How the command goes on: it is taken up, asks, is answered, fails or ends.
CommandIs(x) == /\ cmd'.op = cmd.op /\ cmd'.token = cmd.token /\ cmd'.rest = cmd.rest
                /\ cmd'.alone = cmd.alone /\ cmd'.step = x
Starts == \/ \E v \in Id, op \in Ops \ {"window"} : Command(op, v)
          \/ \E w \in Window : CloseWindow(w)
          \/ NextOfWindow
Answered == cmd.step \in {"found", "wait"} /\ (CommandIs("ok") \/ CommandIs("failed") \/ CommandIs("asks"))
LEMMA CommandTakes ==
  ASSUME TypeOK, NEW x
  PROVE  cmd' = [cmd EXCEPT !.step = x] => CommandIs(x)
  BY DEF TypeOK, CmdType, CommandIs

LEMMA DroppedIs ==
  ASSUME TypeOK, NEW t \in Token, DropRequests(t) \/ UNCHANGED cmd
  PROVE  cmd' = cmd \/ (Answered /\ remote /\ Waits(t))
  BY CommandTakes DEF DropRequests, Answered, Waits

LEMMA CommandMoves ==
  ASSUME TypeOK, Requests, Cases
  PROVE  \/ cmd' = cmd
         \/ Takes /\ Starts
         \/ Finish
         \/ SendControl /\ CommandIs("wait")
         \/ Answered
<1>1. CASE MakeView \/ \E v \in Id, w \in windows : Transfer(v, w)
  BY <1>1, MakeViewIs DEF MakingIsSeen, Transfer
<1>2. CASE Takes
  <2>1. CASE Local
    <3>1. cmd.step = "found" /\ (cmd' = [cmd EXCEPT !.step = "failed"] \/ cmd' = [cmd EXCEPT !.step = "ok"])
      BY <2>1 DEF Local
    <3>2. QED
      BY <3>1, CommandTakes DEF Answered
  <2>2. QED
    BY <1>2, <2>1 DEF Takes, Starts, vars
<1>3. CASE SendControl
  <2>1. /\ cmd.step = "found"
        /\ cmd' = [cmd EXCEPT !.step = "wait"] \/ cmd' = [cmd EXCEPT !.step = "failed"]
    BY <1>3 DEF SendControl
  <2>2. QED
    BY <1>3, <2>1, CommandTakes DEF Answered
<1>4. CASE SendOnce
  <2>1. /\ cmd.step = "found"
        /\ \E x \in {"ok", "failed", "asks"} : cmd' = [cmd EXCEPT !.step = x]
    BY <1>4 DEF SendOnce, OnceAnswers
  <2>2. QED
    BY <2>1, CommandTakes DEF Answered
<1>5. ASSUME NEW t \in Token, EndsView(t) \/ EndsPty(t) \/ EndsStream(t) \/ LosesView(t)
      PROVE  cmd' = cmd \/ Answered
  BY <1>5, DroppedIs DEF EndsView, EndsPty, WaiterEnds, EndsStream, StreamEnds, LosesView
<1>6. ASSUME NEW t \in Token, GoesOn(t)
      PROVE  cmd' = cmd \/ Answered
  <2>1. CASE HandleResponse(t)
    <3>1. cmd' = cmd \/ (cmd.step = "wait" /\ \E x \in {"ok", "failed"} : cmd' = [cmd EXCEPT !.step = x])
      BY <2>1 DEF HandleResponse, Waits
    <3>2. QED
      BY <3>1, CommandTakes DEF Answered
  <2>2. CASE Carry(t)
    <3>1. cmd' = cmd \/ (cmd.step = "wait" /\ cmd' = [cmd EXCEPT !.step = "failed"])
      BY <2>2 DEF Carry, Requests, OneRequest, Waits
    <3>2. QED
      BY <3>1, CommandTakes DEF Answered
  <2>3. CASE ~ HandleResponse(t) /\ ~ Carry(t)
    BY <1>6, <2>3 DEF GoesOn, GetsHistory, HistoryShown, Joins, GetsLine, HandleOutput, Answer, Pauses
  <2>4. QED
    BY <2>1, <2>2, <2>3
<1>7. ASSUME NEW d \in Id, Runs(d) PROVE cmd' = cmd
  BY <1>7 DEF Runs, DeleteView, DeleteRecord, DeleteRegistry, Prints, ProgramEnds
<1>8. QED
  BY <1>1, <1>2, <1>3, <1>4, <1>5, <1>6, <1>7 DEF Cases

LEMMA EndedIs ==
  ASSUME TypeOK, Finish
  PROVE  IF cmd.op = "window" THEN CommandIs("none") ELSE cmd' = Idle
  BY CommandTakes DEF Finish, Ended

LEMMA CommandingInductive ==
  ASSUME TypeOK, Objects, Map, Commanding, Requests, Cases
  PROVE  Commanding'
<1>0. Placing
  BY DEF Map
<1>1. \A s \in Token : Made(s) => /\ Made(s)' /\ (arc[s].control => arc'[s].control)
                                  /\ arc'[s].kind = arc[s].kind
  BY <1>0, ControlKept DEF SameObject
<1>2. cmd.rest \subseteq Token
  BY DEF TypeOK, CmdType
<1>3. CASE cmd' = cmd
  BY <1>1, <1>2, <1>3 DEF Commanding, Asking
<1>4. CASE Takes /\ Starts
  <2>1. ASSUME NEW v \in Id, NEW op \in Ops \ {"window"}, Command(op, v) PROVE Commanding'
    <3>1. /\ sessions[v] # None /\ (op # "close" => arc[sessions[v]].kind = "agent")
          /\ cmd'.op = op /\ cmd'.token = sessions[v] /\ cmd'.step = "found" /\ cmd'.rest = {}
      BY <2>1 DEF Command
    <3>2. sessions[v] \in Token /\ Made(sessions[v])
      BY <1>0, <3>1 DEF Placing, Owner, TypeOK
    <3>3. QED
      BY <1>1, <3>1, <3>2 DEF Commanding, Asking, Ops
  <2>2. ASSUME NEW w \in Window, CloseWindow(w) PROVE Commanding'
    <3>1. /\ cmd'.op = "window" /\ cmd'.step = "none"
          /\ cmd'.rest = {sessions[v] : v \in {i \in Id : placed[i] = w}}
      BY <2>2 DEF CloseWindow
    <3>2. ASSUME NEW v \in Id, placed[v] = w PROVE sessions[v] \in Token /\ Made(sessions[v])
      BY <1>0, <3>2, NoneIsNothing DEF Placing, Owner, TypeOK
    <3>3. \A t \in cmd'.rest : Made(t)'
      BY <1>1, <3>1, <3>2
    <3>4. QED
      BY <3>1, <3>3 DEF Commanding, Asking
  <2>3. CASE NextOfWindow
    <3>1. CASE cmd' = Idle
      BY <3>1 DEF Commanding, Asking, Idle
    <3>2. CASE \E t \in cmd.rest : cmd' = [cmd EXCEPT !.token = t, !.step = "found", !.rest = @ \ {t}]
      <4>1. PICK t \in cmd.rest : cmd' = [cmd EXCEPT !.token = t, !.step = "found", !.rest = @ \ {t}]
        BY <3>2
      <4>2. /\ cmd'.op = cmd.op /\ cmd'.token = t /\ cmd'.step = "found" /\ cmd'.rest \subseteq cmd.rest
            /\ cmd.op = "window"
        BY <2>3, <4>1 DEF TypeOK, CmdType, NextOfWindow
      <4>3. QED
        BY <1>1, <1>2, <4>2 DEF Commanding, Asking
    <3>3. QED
      BY <2>3, <3>1, <3>2 DEF NextOfWindow
  <2>4. QED
    BY <1>4, <2>1, <2>2, <2>3 DEF Starts
<1>5. CASE Finish
  <2>1. CASE cmd.op = "window"
    <3>1. CommandIs("none")
      BY <1>5, <2>1, EndedIs
    <3>2. QED
      BY <1>1, <1>2, <2>1, <3>1 DEF CommandIs, Commanding, Asking
  <2>2. CASE cmd.op # "window"
    <3>1. cmd' = Idle
      BY <1>5, <2>2, EndedIs
    <3>2. QED
      BY <3>1 DEF Commanding, Asking, Idle
  <2>3. QED
    BY <2>1, <2>2
<1>6. CASE SendControl /\ CommandIs("wait")
  <2>1. cmd.step = "found" /\ arc[cmd.token].kind = "agent" /\ arc[cmd.token].control
    BY <1>6 DEF SendControl
  <2>2. QED
    BY <1>1, <1>2, <1>6, <2>1 DEF CommandIs, Commanding, Asking
<1>7. CASE Answered
  BY <1>1, <1>2, <1>7 DEF Answered, CommandIs, Commanding, Asking, Idle
<1>8. QED
  BY <1>3, <1>4, <1>5, <1>6, <1>7, CommandMoves

-----------------------------------------------------------------------------
(* Closing windows.                                                        *)

LEMMA WindowsSame ==
  ASSUME TypeOK, Cases
  PROVE  windows' = windows \/ (Takes /\ \E w \in Window : CloseWindow(w))
<1>1. CASE MakeView \/ \E v \in Id, w \in windows : Transfer(v, w)
  BY <1>1, MakeViewIs DEF MakingIsSeen, Transfer
<1>2. CASE Takes
  BY <1>2 DEF Takes, Command, NextOfWindow, Local, vars
<1>3. CASE SendControl \/ SendOnce \/ Finish
  BY <1>3 DEF SendControl, SendOnce, Finish
<1>4. ASSUME NEW t \in Token, EndsView(t) \/ EndsPty(t) \/ EndsStream(t) \/ LosesView(t) \/ GoesOn(t)
      PROVE  UNCHANGED windows
  BY <1>4 DEF EndsView, ReaderEnds, EndsPty, WaiterEnds, EndsStream, StreamEnds, LosesView, GoesOn, GetsHistory,
     HistoryShown, Joins, GetsLine, HandleOutput, HandleResponse, Carry, Answer, Pauses
<1>5. ASSUME NEW d \in Id, Runs(d) PROVE UNCHANGED windows
  BY <1>5 DEF Runs, DeleteView, DeleteRecord, DeleteRegistry, Prints, ProgramEnds
<1>6. QED
  BY <1>1, <1>2, <1>3, <1>4, <1>5 DEF Cases

LEMMA ClosingInductive ==
  ASSUME TypeOK, Objects, Map, Commanding, Requests, Closing, Cases
  PROVE  Closing'
<1>0. Placing
  BY DEF Map
<1>1. CASE MakeView
  <2>1. MakingIsSeen
    BY <1>1, MakeViewIs
  <2>2. \A v \in Id : sessions[v] # None => placed[v] \in windows
    BY <2>1 DEF MakingIsSeen, Closing, Idle
  <2>3. windows' = windows
    BY <2>1 DEF MakingIsSeen
  <2>4. CASE UNCHANGED <<arc, views, reader, records>>
    BY <2>2, <2>3, <2>4 DEF Closing, views
  <2>5. CASE \E w \in windows : Made1(w)
    <3>1. PICK w \in windows, t \in Token, a \in ArcType, r \in ReaderType :
              ~ Made(t) /\ Open(t, w, a, r) /\ NewObject(a, r) /\ NewView(a)
      BY <2>5 DEF Made1
    <3>2. w \in Window
      BY DEF TypeOK
    <3>3. /\ placed'[a.view] = w
          /\ \A i \in Id \ {a.view} : sessions'[i] = sessions[i] /\ placed'[i] = placed[i]
      BY <1>0, <3>1, <3>2, OpenIs
    <3>4. QED
      BY <2>2, <2>3, <3>3 DEF Closing
  <2>6. QED
    BY <2>1, <2>4, <2>5 DEF MakingIsSeen
<1>2. ASSUME ~ MakeView, NEW v \in Id, sessions'[v] # None, placed'[v] \notin windows'
      PROVE  cmd'.op = "window" /\ sessions'[v] \in ToClose'
  <2>1. windows' = windows \/ (Takes /\ \E w \in Window : CloseWindow(w))
    BY WindowsSame
  <2>2. sessions'[v] = sessions[v] /\ placed'[v] = placed[v]
    <3>1. Stays(v) \/ Moves(v)
      BY <1>2, ViewsGo DEF Goes
    <3>2. ~ Moves(v)
      BY <1>2, <2>1 DEF Moves
    <3>3. QED
      BY <3>1, <3>2 DEF Stays
  <2>3. CASE \E w \in Window : CloseWindow(w)
    <3>1. PICK w \in Window : CloseWindow(w)
      BY <2>3
    <3>2. /\ cmd = Idle /\ windows' = windows \ {w} /\ cmd'.op = "window"
          /\ cmd'.rest = {sessions[i] : i \in {j \in Id : placed[j] = w}}
      BY <3>1 DEF CloseWindow
    <3>3. placed[v] = w
      BY <1>2, <2>2, <3>2 DEF Closing, Idle
    <3>4. QED
      BY <2>2, <3>2, <3>3 DEF ToClose
  <2>4. CASE ~ \E w \in Window : CloseWindow(w)
    <3>1. cmd.op = "window" /\ sessions[v] \in ToClose
      BY <1>2, <2>1, <2>2, <2>4 DEF Closing
    <3>2. CASE cmd' = cmd
      BY <2>2, <3>1, <3>2 DEF ToClose, Asking
    <3>3. CASE NextOfWindow
      <4>1. cmd.step = "none" /\ sessions[v] \in cmd.rest
        BY <3>1, <3>3 DEF NextOfWindow, ToClose, Asking
      <4>2. PICK t \in cmd.rest : cmd' = [cmd EXCEPT !.token = t, !.step = "found", !.rest = @ \ {t}]
        BY <3>3, <4>1 DEF NextOfWindow
      <4>3. cmd'.op = cmd.op /\ cmd'.token = t /\ cmd'.step = "found" /\ cmd'.rest = cmd.rest \ {t}
        BY <4>2 DEF TypeOK, CmdType
      <4>4. QED
        BY <2>2, <3>1, <4>1, <4>3 DEF ToClose, Asking
    <3>4. CASE Finish
      <4>1. CommandIs("none") /\ cmd.step # "none"
        BY <3>1, <3>4, EndedIs DEF Finish
      <4>2. sessions[v] # cmd.token
        <5>1. CASE sessions[v] = cmd.token
          <6>1. Remove(arc[cmd.token].view) /\ arc[cmd.token].view = v
            BY <1>2, <2>2, <3>1, <3>4, <5>1 DEF Finish, TypeOK
          <6>2. sessions'[v] = None
            BY <6>1, RemoveIs
          <6>3. QED
            BY <1>2, <6>2
        <5>2. QED
          BY <5>1
      <4>3. QED
        BY <2>2, <3>1, <4>1, <4>2 DEF ToClose, Asking, CommandIs
    <3>5. CASE (SendControl /\ CommandIs("wait")) \/ Answered
      <4>1. Asking /\ Asking' /\ cmd'.op = cmd.op /\ cmd'.token = cmd.token /\ cmd'.rest = cmd.rest
        BY <3>5 DEF SendControl, Answered, CommandIs, Asking
      <4>2. QED
        BY <2>2, <3>1, <4>1 DEF ToClose
    <3>6. CASE \E u \in Id, op \in Ops \ {"window"} : Command(op, u)
      BY <3>1, <3>6 DEF Command, Idle
    <3>7. QED
      BY <2>4, <3>2, <3>3, <3>4, <3>5, <3>6, CommandMoves DEF Starts
  <2>5. QED
    BY <2>3, <2>4
<1>3. QED
  BY <1>1, <1>2 DEF Closing

-----------------------------------------------------------------------------
(* Sizes.                                                                  *)

\* A view that neither is open nor has an object that ended was removed by a command or by
\* the waiter of a local terminal.
ByCommand == Finish \/ (cmd = Idle /\ cmd' = Idle)
ByWaiter(v) == \E t \in Token : EndsPty(t) /\ arc[t].view = v
LEMMA OpenOrEndedKept ==
  ASSUME TypeOK, Objects, Map, Commanding, Cases, NEW v \in Id, OpenOrEnded(v)
  PROVE  OpenOrEnded(v)' \/ (Remove(v) /\ (ByCommand \/ ByWaiter(v)))
<1>0. Placing
  BY DEF Map
<1>1. arc \in [Token -> ArcType] /\ sessions \in [Id -> Token \cup {None}] /\ NoArc.view = None
  BY DEF TypeOK, NoArc
<1>2. ASSUME arc' = arc, sessions'[v] = sessions[v] PROVE OpenOrEnded(v)'
  BY <1>2 DEF OpenOrEnded
<1>3. ASSUME NEW u \in Id, arc' = arc, Remove(u) PROVE OpenOrEnded(v)' \/ (Remove(v) /\ u = v)
  BY <1>2, <1>3, RemoveIs
<1>4. CASE MakeView
  <2>1. MakingIsSeen
    BY <1>4, MakeViewIs
  <2>2. CASE UNCHANGED <<arc, views, reader, records>>
    BY <1>2, <2>2 DEF views
  <2>3. CASE \E w \in windows : Made1(w)
    <3>1. PICK w \in windows, t \in Token, a \in ArcType, r \in ReaderType :
              ~ Made(t) /\ Open(t, w, a, r) /\ NewObject(a, r) /\ NewView(a)
      BY <2>3 DEF Made1
    <3>2. w \in Window
      BY DEF TypeOK
    <3>3. /\ sessions'[a.view] = t
          /\ \A s \in Token \ {t} : arc'[s] = arc[s]
          /\ \A i \in Id \ {a.view} : sessions'[i] = sessions[i]
      BY <1>0, <3>1, <3>2, OpenIs
    <3>4. arc[t].view # v
      BY <1>1, <3>1, NoneIsNothing DEF Made
    <3>5. QED
      BY <3>3, <3>4, NoneIsNothing DEF OpenOrEnded
  <2>4. QED
    BY <2>1, <2>2, <2>3 DEF MakingIsSeen
<1>5. CASE \/ \E u \in Id, w \in windows : Transfer(u, w)
           \/ Takes \/ SendControl \/ SendOnce
           \/ \E d \in Id : DeleteRecord(d) \/ DeleteRegistry(d) \/ Prints(d) \/ ProgramEnds(d)
  <2>1. arc' = arc /\ sessions' = sessions
    BY <1>5 DEF Transfer, Takes, SendControl, SendOnce, DeleteRecord, DeleteRegistry, Prints, ProgramEnds, views
  <2>2. QED
    BY <1>2, <2>1
<1>6. CASE Finish
  <2>1. arc[cmd.token].view \in Id
    BY <1>6, AgentsHaveDaemons DEF Finish, Commanding, Asking
  <2>2. arc' = arc /\ (Remove(arc[cmd.token].view) \/ sessions' = sessions)
    BY <1>6 DEF Finish, views
  <2>3. QED
    BY <1>2, <1>3, <1>6, <2>1, <2>2 DEF ByCommand
<1>7. ASSUME NEW d \in Id, DeleteView(d) PROVE OpenOrEnded(v)' \/ (Remove(v) /\ ByCommand)
  <2>1. arc' = arc /\ (Remove(d) \/ sessions' = sessions) /\ cmd = Idle /\ cmd' = Idle
    BY <1>7 DEF DeleteView, views
  <2>2. QED
    BY <1>2, <1>3, <2>1 DEF ByCommand
<1>8. ASSUME NEW t \in Token, EndsView(t) PROVE OpenOrEnded(v)'
  <2>1. arc[t].view \in Id /\ arc' = Transport(arc[t].view, "ended") /\ Remove(arc[t].view)
    BY <1>8, AgentsHaveDaemons DEF EndsView, ReaderEnds
  <2>2. \A s \in Token : /\ arc'[s].view = arc[s].view
                         /\ arc'[s].transport = arc[s].transport \/ arc'[s].transport = "ended"
                         /\ s = sessions[arc[t].view] => arc'[s].transport = "ended"
    BY <1>0, <2>1, TransportIs DEF SameObject
  <2>3. CASE \E s \in Token : arc[s].view = v /\ arc[s].transport # "connected"
    BY <2>2, <2>3 DEF OpenOrEnded
  <2>4. CASE sessions[v] # None
    <3>1. CASE v = arc[t].view
      <4>1. sessions[v] \in Token /\ arc[sessions[v]].view = v
        BY <2>4 DEF TypeOK
      <4>2. arc'[sessions[v]].view = v /\ arc'[sessions[v]].transport = "ended"
        BY <2>2, <3>1, <4>1
      <4>3. QED
        BY <4>1, <4>2 DEF OpenOrEnded
    <3>2. CASE v # arc[t].view
      BY <2>1, <2>4, <3>2, RemoveIs DEF OpenOrEnded
    <3>3. QED
      BY <3>1, <3>2
  <2>5. QED
    BY <2>3, <2>4 DEF OpenOrEnded
<1>9. ASSUME NEW t \in Token, EndsPty(t) PROVE OpenOrEnded(v)' \/ (Remove(v) /\ ByWaiter(v))
  <2>1. arc[t].view \in Id /\ arc' = arc /\ Remove(arc[t].view)
    BY <1>9, AgentsHaveDaemons DEF EndsPty, WaiterEnds
  <2>2. QED
    BY <1>3, <1>9, <2>1 DEF ByWaiter
<1>10. ASSUME NEW t \in Token, Made(t), sessions' = sessions,
              \/ arc' = arc \/ arc' = Transport(arc[t].view, "ended") \/ arc' = Transport(arc[t].view, "connected")
              \/ arc' = [arc EXCEPT ![t].control = TRUE]
       PROVE  OpenOrEnded(v)'
  <2>1. CASE arc' = arc
    BY <1>2, <1>10, <2>1
  <2>2. CASE arc' = Transport(arc[t].view, "ended") \/ arc' = Transport(arc[t].view, "connected")
    <3>1. arc[t].view \in Id
      BY <1>10, AgentsHaveDaemons
    <3>2. \A s \in Token : /\ arc'[s].view = arc[s].view
                           /\ s # sessions[arc[t].view] => arc'[s].transport = arc[s].transport
      BY <1>0, <2>2, <3>1, TransportIs DEF SameObject
    <3>3. CASE sessions[v] # None
      BY <1>10, <3>3 DEF OpenOrEnded
    <3>4. CASE sessions[v] = None
      <4>1. PICK s \in Token : arc[s].view = v /\ arc[s].transport # "connected"
        BY <3>4 DEF OpenOrEnded
      <4>2. s # sessions[arc[t].view]
        <5>1. sessions[arc[t].view] # None => arc[sessions[arc[t].view]].view = arc[t].view
          BY <3>1 DEF TypeOK
        <5>2. QED
          BY <3>4, <4>1, <5>1, NoneIsNothing
      <4>3. QED
        BY <3>2, <4>1, <4>2 DEF OpenOrEnded
    <3>5. QED
      BY <3>3, <3>4
  <2>3. CASE arc' = [arc EXCEPT ![t].control = TRUE]
    <3>1. \A s \in Token : arc'[s].view = arc[s].view /\ arc'[s].transport = arc[s].transport
      BY <1>1, <2>3 DEF ArcType
    <3>2. QED
      BY <1>10, <3>1 DEF OpenOrEnded
  <2>4. QED
    BY <1>10, <2>1, <2>2, <2>3
<1>11. ASSUME NEW t \in Token, EndsStream(t) \/ LosesView(t) \/ (Made(t) /\ GoesOn(t)) PROVE OpenOrEnded(v)'
  <2>1. /\ Made(t) /\ sessions' = sessions
        /\ \/ arc' = arc \/ arc' = Transport(arc[t].view, "ended") \/ arc' = Transport(arc[t].view, "connected")
           \/ arc' = [arc EXCEPT ![t].control = TRUE]
    BY <1>11 DEF EndsStream, StreamEnds, LosesView, GoesOn, GetsHistory, HistoryShown, Joins, GetsLine, HandleOutput,
       HandleResponse, Carry, Answer, Pauses, views
  <2>2. QED
    BY <1>10, <2>1
<1>12. QED
  BY <1>4, <1>5, <1>6, <1>7, <1>8, <1>9, <1>11 DEF Cases, Runs

\* A size is recorded only for the view that a resize is about.
Records(v) == (SendControl \/ SendOnce) /\ cmd.op = "send" /\ v = arc[cmd.token].view
LEMMA SizedMoves ==
  ASSUME TypeOK, Objects, Commanding, Cases, NEW d \in Id, NEW v \in sized'[d]
  PROVE  v \in Id /\ (v \in sized[d] \/ Records(v)) /\ ~ Remove(v)
<1>0. sized \in [Id -> SUBSET Id]
  BY DEF TypeOK
<1>1. ASSUME NEW u \in Id, Remove(u) PROVE v \in sized[d] /\ v # u
  BY <1>1, RemoveIs
<1>2. ~ Remove(v) \/ v \notin Id
  BY <1>1
<1>3. CASE MakeView
  BY <1>0, <1>2, <1>3, MakeViewIs DEF MakingIsSeen
<1>4. CASE SendControl \/ SendOnce
  <2>1. arc[cmd.token].view \in Id /\ arc[cmd.token].daemon \in Id
    BY <1>4, AgentsHaveDaemons DEF SendControl, SendOnce, Commanding, Asking
  <2>2. sized' \in Sizes
    BY <1>4 DEF SendControl, SendOnce
  <2>3. v \in sized[d] \/ (cmd.op = "send" /\ v = arc[cmd.token].view)
    BY <1>0, <2>1, <2>2 DEF Sizes
  <2>4. QED
    BY <1>0, <1>2, <1>4, <2>1, <2>3 DEF Records
<1>5. CASE Finish
  <2>1. arc[cmd.token].view \in Id
    BY <1>5, AgentsHaveDaemons DEF Finish, Commanding, Asking
  <2>2. Remove(arc[cmd.token].view) \/ sized' = sized
    BY <1>5 DEF Finish
  <2>3. QED
    BY <1>0, <1>1, <1>2, <2>1, <2>2
<1>6. CASE Takes \/ \E u \in Id, w \in windows : Transfer(u, w)
  BY <1>0, <1>2, <1>6 DEF Takes, Transfer
<1>7. ASSUME NEW t \in Token, EndsView(t) \/ EndsPty(t) \/ EndsStream(t) \/ LosesView(t) \/ GoesOn(t)
      PROVE  v \in sized[d]
  <2>1. CASE EndsView(t) \/ EndsPty(t)
    <3>1. arc[t].view \in Id /\ Remove(arc[t].view)
      BY <2>1, AgentsHaveDaemons DEF EndsView, ReaderEnds, EndsPty, WaiterEnds
    <3>2. QED
      BY <1>1, <3>1
  <2>2. CASE EndsStream(t) \/ LosesView(t) \/ GoesOn(t)
    BY <2>2 DEF EndsStream, StreamEnds, LosesView, GoesOn, GetsHistory, HistoryShown, Joins, GetsLine, HandleOutput,
       HandleResponse, Carry, Answer, Pauses
  <2>3. QED
    BY <1>7, <2>1, <2>2
<1>8. ASSUME NEW e \in Id, Runs(e) PROVE v \in sized[d]
  <2>1. Remove(e) \/ sized' = sized
    BY <1>8 DEF Runs, DeleteView, DeleteRecord, DeleteRegistry, Prints, ProgramEnds
  <2>2. QED
    BY <1>1, <2>1
<1>9. QED
  BY <1>0, <1>2, <1>3, <1>4, <1>5, <1>6, <1>7, <1>8 DEF Cases

LEMMA SizingInductive ==
  ASSUME TypeOK, Objects, Map, Commanding, Requests, Sizing, Cases
  PROVE  Sizing'
<1>0. Placing
  BY DEF Map
<1>1. ASSUME NEW d \in Id, NEW v \in sized'[d] PROVE OpenOrEnded(v)'
  <2>1. v \in Id /\ (v \in sized[d] \/ Records(v)) /\ ~ Remove(v)
    BY SizedMoves
  <2>2. OpenOrEnded(v)
    BY <2>1 DEF Sizing, Records, SendControl, SendOnce
  <2>3. QED
    BY <2>1, <2>2, OpenOrEndedKept
<1>2. ASSUME cmd'.op = "send", cmd'.step = "found" PROVE OpenOrEnded(arc[cmd.token].view)'
  <2>1. CASE cmd' = cmd
    <3>1. /\ cmd.token \in Token /\ arc[cmd.token].kind = "agent" /\ arc[cmd.token].view \in Id
          /\ Made(cmd.token) /\ OpenOrEnded(arc[cmd.token].view)
      BY <1>2, <2>1, AgentsHaveDaemons DEF Commanding, Asking, Sizing
    <3>2. OpenOrEnded(arc[cmd.token].view)' \/ (ByCommand \/ ByWaiter(arc[cmd.token].view))
      <4>1. PICK v \in Id : v = arc[cmd.token].view
        BY <3>1
      <4>2. arc'[cmd'.token].view = v
        BY <1>0, <2>1, <3>1, <4>1, ControlKept DEF SameObject
      <4>3. QED
        BY <3>1, <4>1, <4>2, OpenOrEndedKept DEF OpenOrEnded
    <3>3. ~ ByCommand
      BY <1>2, <2>1 DEF ByCommand, Finish, Idle
    <3>4. ~ ByWaiter(arc[cmd.token].view)
      <4>1. ASSUME NEW t \in Token, EndsPty(t), arc[t].view = arc[cmd.token].view PROVE FALSE
        <5>1. Made(t) /\ arc[t].kind = "pty"
          BY <4>1 DEF EndsPty, WaiterEnds
        <5>2. arc[t].daemon = None /\ arc[cmd.token].daemon \in Id
          BY <3>1, <5>1 DEF Objects, Fitting
        <5>3. arc[t].daemon = arc[cmd.token].daemon
          BY <3>1, <4>1, <5>1 DEF Map, OneDaemon
        <5>4. QED
          BY <5>2, <5>3, NoneIsNothing
      <4>2. QED
        BY <4>1 DEF ByWaiter
    <3>5. QED
      BY <3>2, <3>3, <3>4
  <2>2. CASE Takes /\ Starts
    <3>0. ~ NextOfWindow
      <4>1. ASSUME NextOfWindow, NEW t, cmd' = [cmd EXCEPT !.token = t, !.step = "found", !.rest = @ \ {t}] PROVE FALSE
        <5>1. cmd'.op = cmd.op /\ cmd.op = "window"
          BY <4>1 DEF TypeOK, CmdType, NextOfWindow
        <5>2. QED
          BY <1>2, <5>1
      <4>2. ASSUME NextOfWindow PROVE FALSE
        <5>1. cmd' # Idle
          BY <1>2 DEF Idle
        <5>2. PICK t \in cmd.rest : cmd' = [cmd EXCEPT !.token = t, !.step = "found", !.rest = @ \ {t}]
          BY <4>2, <5>1 DEF NextOfWindow
        <5>3. QED
          BY <4>1, <4>2, <5>2
      <4>3. QED
        BY <4>2
    <3>1. PICK v \in Id, op \in Ops : Command(op, v)
      BY <1>2, <2>2, <3>0 DEF Starts, CloseWindow
    <3>2. sessions[v] # None /\ cmd'.token = sessions[v]
      BY <3>1 DEF Command
    <3>3. arc[sessions[v]].view = v
      BY <3>2 DEF TypeOK
    <3>4. arc' = arc /\ sessions' = sessions
      BY <2>2 DEF Takes, views
    <3>5. arc'[cmd'.token].view = v /\ sessions'[v] # None
      BY <3>2, <3>3, <3>4
    <3>6. QED
      BY <3>5 DEF OpenOrEnded
  <2>3. CASE Finish
    <3>1. cmd'.step = "none"
      BY <2>3, EndedIs DEF CommandIs, Idle
    <3>2. QED
      BY <1>2, <3>1
  <2>4. CASE (SendControl /\ CommandIs("wait")) \/ Answered
    BY <1>2, <2>4 DEF Answered, CommandIs
  <2>5. QED
    BY <2>1, <2>2, <2>3, <2>4, CommandMoves
<1>3. QED
  BY <1>1, <1>2 DEF Sizing

-----------------------------------------------------------------------------
(* Requests and their answers.                                             *)

Has(w) == \E i \in DOMAIN w : w[i] = Response
Single(w) == \A i, j \in DOMAIN w : w[i] = Response /\ w[j] = Response => i = j

LEMMA NoResponse == ~ Has(<<>>) /\ Single(<<>>) /\ ~ Has(<<End>>) /\ Single(<<End>>)
  BY LineIs DEF Has, Single

LEMMA NoResponseAfter ==
  ASSUME NEW w \in Seq(Line), NEW x \in Line \ {Response}
  PROVE  (Has(Append(w, x)) <=> Has(w)) /\ (Single(w) => Single(Append(w, x)))
  BY OneMore DEF Has, Single

LEMMA NoResponseAtEnd ==
  ASSUME NEW w \in Seq(Line)
  PROVE  (Has(w \o <<Exit, End>>) <=> Has(w)) /\ (Single(w) => Single(w \o <<Exit, End>>))
<1>1. Exit \in Line /\ End \in Line /\ Exit # Response /\ End # Response
  BY LineIs
<1>2. PICK u : u = w \o <<Exit, End>>
  OBVIOUS
<1>3. /\ DOMAIN w = 1..Len(w) /\ Len(w) \in Nat /\ DOMAIN u = 1..(Len(w) + 2)
      /\ u[Len(w) + 1] # Response /\ u[Len(w) + 2] # Response
      /\ \A i \in 1..Len(w) : u[i] = w[i]
  BY <1>1, <1>2, TwoMore
<1>4. \A i \in DOMAIN u : u[i] = Response => i \in DOMAIN w /\ w[i] = Response
  BY <1>3
<1>5. \A i \in DOMAIN w : i \in DOMAIN u /\ u[i] = w[i]
  BY <1>3
<1>6. (Has(u) <=> Has(w)) /\ (Single(w) => Single(u))
  BY <1>4, <1>5 DEF Has, Single
<1>7. QED
  BY <1>2, <1>6

LEMMA OneResponse ==
  ASSUME NEW w \in Seq(Line), ~ Has(w)
  PROVE  /\ Has(w \o <<Response>>) /\ Single(w \o <<Response>>)
         /\ Has(w \o <<Response, End>>) /\ Single(w \o <<Response, End>>)
<1>1. Response \in Line /\ End \in Line /\ End # Response
  BY LineIs
<1>2. Has(w \o <<Response>>) /\ Single(w \o <<Response>>)
  BY <1>1, OneAfter DEF Has, Single
<1>3. Has(w \o <<Response, End>>) /\ Single(w \o <<Response, End>>)
  BY <1>1, TwoMore DEF Has, Single
<1>4. QED
  BY <1>2, <1>3

LEMMA ResponseTaken ==
  ASSUME NEW w \in Seq(Line), w # <<>>, Single(w)
  PROVE  /\ Single(Tail(w))
         /\ Head(w) # Response => (Has(Tail(w)) <=> Has(w))
         /\ Head(w) = Response => Has(w) /\ ~ Has(Tail(w))
<1>1. /\ Head(w) = w[1] /\ Len(w) \in Nat \ {0} /\ DOMAIN w = 1..Len(w) /\ DOMAIN Tail(w) = 1..(Len(w) - 1)
      /\ \A i \in 1..(Len(w) - 1) : Tail(w)[i] = w[i + 1]
  BY FirstAndRest
<1>2. \A i \in DOMAIN Tail(w) : i + 1 \in DOMAIN w /\ i + 1 # 1 /\ Tail(w)[i] = w[i + 1]
  BY <1>1
<1>3. 1 \in DOMAIN w /\ \A i \in DOMAIN w : i = 1 \/ (i - 1 \in DOMAIN Tail(w) /\ w[i] = Tail(w)[i - 1])
  BY <1>1
<1>4. Single(Tail(w))
  <2>1. ASSUME NEW i \in DOMAIN Tail(w), NEW j \in DOMAIN Tail(w), Tail(w)[i] = Response, Tail(w)[j] = Response
        PROVE  i = j
    <3>1. i + 1 = j + 1
      BY <1>2, <2>1 DEF Single
    <3>2. i \in Nat /\ j \in Nat
      BY <1>1
    <3>3. QED
      BY <3>1, <3>2
  <2>2. QED
    BY <2>1 DEF Single
<1>5. Head(w) # Response => (Has(Tail(w)) <=> Has(w))
  BY <1>1, <1>2, <1>3 DEF Has
<1>6. Head(w) = Response => Has(w) /\ ~ Has(Tail(w))
  BY <1>1, <1>2, <1>3 DEF Has, Single
<1>7. QED
  BY <1>4, <1>5, <1>6

\* A step that neither moves a request of a token nor ends its reader.
Quiet(s) ==
    /\ reader'[s].queued = reader[s].queued /\ reader'[s].request = reader[s].request
    /\ reader'[s].line = Response <=> reader[s].line = Response
    /\ reader'[s].stage = "done" <=> reader[s].stage = "done"
    /\ Has(wire'[s]) <=> Has(wire[s])
    /\ Single(wire[s]) => Single(wire'[s])
LEMMA QuietFrame ==
  ASSUME NEW s \in Token, reader'[s] = reader[s], wire'[s] = wire[s]
  PROVE  Quiet(s)
  BY DEF Quiet

LEMMA QuietKeeps ==
  ASSUME NEW s \in Token, OneRequest(s), Quiet(s), remote' = remote, Waits(s)' <=> Waits(s)
  PROVE  OneRequest(s)'
<1>1. (InWire(s) <=> Has(wire[s])) /\ (InWire(s)' <=> Has(wire'[s]))
  BY DEF InWire, Has
<1>2. Single(wire[s]) /\ Single(wire'[s])
  BY DEF OneRequest, Single, Quiet
<1>3. \A i, j \in DOMAIN wire'[s] : wire'[s][i] = Response /\ wire'[s][j] = Response => i = j
  BY <1>2 DEF Single
<1>4. QED
  BY <1>1, <1>3 DEF OneRequest, Quiet

\* What a token that does not wait has on its way: nothing.
LEMMA NothingUnderWay ==
  ASSUME TypeOK, NEW s \in Token, OneRequest(s), ~ Waits(s)
  PROVE  /\ reader[s].request = "none" /\ reader[s].line # Response /\ ~ Has(wire[s])
         /\ reader[s].queued => remote /\ reader[s].stage = "done"
<1>1. reader[s].request \in {"none", "sent"}
  BY DEF TypeOK, ReaderType
<1>2. QED
  BY <1>1 DEF OneRequest, InWire, Has

\* The reader of a token that does not wait has nothing to do with requests.
LEMMA IdleKeeps ==
  ASSUME NEW s \in Token, ~ Waits(s)', reader'[s].request = "none", reader'[s].line # Response, ~ Has(wire'[s]),
         reader'[s].queued => remote' /\ reader'[s].stage = "done"
  PROVE  OneRequest(s)'
  BY DEF OneRequest, InWire, Has

\* The end of a reader fails the request, or leaves it pending with the local reader.
LEMMA OverKeeps ==
  ASSUME TypeOK, NEW t \in Token, OneRequest(t), Stops(t), remote' = remote,
         IF remote THEN ~ Waits(t)' ELSE Waits(t)' <=> Waits(t)
  PROVE  OneRequest(t)'
<1>1. /\ wire'[t] = <<>> /\ reader'[t].stage = "done" /\ reader'[t].line = NoLine
      /\ reader'[t].request = "none" /\ reader'[t].queued = reader[t].queued
  BY StopsIs
<1>2. ~ Has(wire'[t]) /\ Single(wire'[t])
  BY <1>1, NoResponse
<1>3. NoLine # Response
  BY LineIs
<1>4. reader[t].queued => Waits(t) \/ remote
  BY DEF OneRequest
<1>5. \A i, j \in DOMAIN wire'[t] : wire'[t][i] = Response /\ wire'[t][j] = Response => i = j
  BY <1>2 DEF Single
<1>6. ~ InWire(t)'
  BY <1>2 DEF InWire, Has
<1>7. QED
  BY <1>1, <1>3, <1>4, <1>5, <1>6 DEF OneRequest

\* Nobody but the token of the command waits.
LEMMA OthersDoNotWait ==
  ASSUME NEW s \in Token, s # cmd.token, cmd'.token = cmd.token
  PROVE  ~ Waits(s) /\ ~ Waits(s)'
  BY DEF Waits

LEMMA HostSame ==
  ASSUME TypeOK, Cases
  PROVE  remote' = remote /\ agents' = agents
<1>1. CASE MakeView \/ \E v \in Id, w \in windows : Transfer(v, w)
  BY <1>1, MakeViewIs DEF MakingIsSeen, Transfer, host
<1>2. CASE Takes \/ SendControl \/ SendOnce \/ Finish
  BY <1>2 DEF Takes, SendControl, SendOnce, Finish, host
<1>3. ASSUME NEW t \in Token, EndsView(t) \/ EndsPty(t) \/ EndsStream(t) \/ LosesView(t) \/ GoesOn(t)
      PROVE  UNCHANGED host
  BY <1>3 DEF EndsView, ReaderEnds, EndsPty, WaiterEnds, EndsStream, StreamEnds, LosesView, GoesOn, GetsHistory,
     HistoryShown, Joins, GetsLine, HandleOutput, HandleResponse, Carry, Answer, Pauses
<1>4. ASSUME NEW d \in Id, Runs(d) PROVE UNCHANGED host
  BY <1>4 DEF Runs, DeleteView, DeleteRecord, DeleteRegistry, Prints, ProgramEnds
<1>5. QED
  BY <1>1, <1>2, <1>3, <1>4 DEF Cases, host

LEMMA RequestsInductive ==
  ASSUME TypeOK, Objects, Streams, Map, Commanding, Requests, Cases
  PROVE  Requests'
<1>0. Placing /\ remote' = remote /\ \A s \in Token : wire[s] \in Seq(Line) /\ OneRequest(s)
  BY HostSame DEF Map, TypeOK, Requests
<1>1. ASSUME NEW s \in Token, reader'[s] = reader[s], wire'[s] = wire[s], Waits(s)' <=> Waits(s)
      PROVE  OneRequest(s)'
  BY <1>0, <1>1, QuietFrame, QuietKeeps
<1>2. CASE MakeView
  <2>1. MakingIsSeen
    BY <1>2, MakeViewIs
  <2>2. cmd' = cmd /\ wire' = wire /\ \A s \in Token : ~ Waits(s) /\ ~ Waits(s)'
    BY <2>1 DEF MakingIsSeen, Waits, Idle
  <2>3. CASE UNCHANGED <<arc, views, reader, records>>
    BY <1>1, <2>2, <2>3 DEF Requests
  <2>4. CASE \E w \in windows : Made1(w)
    <3>1. PICK w \in windows, t \in Token, a \in ArcType, r \in ReaderType :
              ~ Made(t) /\ Open(t, w, a, r) /\ NewObject(a, r) /\ NewView(a)
      BY <2>4 DEF Made1
    <3>2. w \in Window
      BY DEF TypeOK
    <3>3. reader'[t] = r /\ Unmade(t) /\ \A s \in Token \ {t} : reader'[s] = reader[s]
      BY <1>0, <3>1, <3>2, OpenIs
    <3>4. ~ Has(wire'[t])
      BY <2>2, <3>3, NoResponse DEF Unmade
    <3>5. OneRequest(t)'
      BY <2>2, <3>1, <3>3, <3>4, IdleKeeps, LineIs DEF NewObject
    <3>6. QED
      BY <1>1, <2>2, <3>3, <3>5 DEF Requests
  <2>5. QED
    BY <2>1, <2>3, <2>4 DEF MakingIsSeen
<1>3. CASE Takes \/ Finish \/ \E v \in Id, w \in windows : Transfer(v, w)
  <2>1. reader' = reader /\ wire' = wire
    BY <1>3 DEF Takes, Finish, Transfer, threads
  <2>2. cmd' = cmd \/ (cmd.step # "wait" /\ cmd'.step # "wait")
    <3>1. CASE Takes
      <4>1. ASSUME NEW t, cmd' = [cmd EXCEPT !.token = t, !.step = "found", !.rest = @ \ {t}] PROVE cmd'.step = "found"
        BY <4>1 DEF TypeOK, CmdType
      <4>2. CASE NextOfWindow
        <5>1. cmd.step = "none" /\ (cmd' = Idle \/ \E t : cmd' = [cmd EXCEPT !.token = t, !.step = "found", !.rest = @ \ {t}])
          BY <4>2 DEF NextOfWindow
        <5>2. cmd'.step # "wait"
          <6>1. CASE cmd' = Idle
            BY <6>1 DEF Idle
          <6>2. CASE cmd' # Idle
            <7>1. PICK t : cmd' = [cmd EXCEPT !.token = t, !.step = "found", !.rest = @ \ {t}]
              BY <5>1, <6>2
            <7>2. QED
              BY <4>1, <7>1
          <6>3. QED
            BY <6>1, <6>2
        <5>3. QED
          BY <5>1, <5>2
      <4>3. CASE Local
        <5>1. cmd.step = "found" /\ (cmd' = [cmd EXCEPT !.step = "failed"] \/ cmd' = [cmd EXCEPT !.step = "ok"])
          BY <4>3 DEF Local
        <5>2. QED
          BY <5>1, CommandTakes DEF CommandIs
      <4>4. CASE ~ NextOfWindow /\ ~ Local
        BY <3>1, <4>4 DEF Takes, Command, CloseWindow, vars, Idle
      <4>5. QED
        BY <4>2, <4>3, <4>4
    <3>2. CASE Finish
      BY <3>2, EndedIs DEF Finish, CommandIs, Idle
    <3>3. CASE \E v \in Id, w \in windows : Transfer(v, w)
      BY <3>3 DEF Transfer
    <3>4. QED
      BY <1>3, <3>1, <3>2, <3>3
  <2>3. QED
    BY <1>1, <2>1, <2>2 DEF Requests, Waits
<1>4. CASE SendControl
  <2>1. cmd.token \in Token /\ cmd.step = "found" /\ wire' = wire
    BY <1>4 DEF SendControl, Commanding, Asking
  <2>2. CASE Listening(cmd.token)
    <3>1. reader' = [reader EXCEPT ![cmd.token].queued = TRUE] /\ cmd' = [cmd EXCEPT !.step = "wait"]
      BY <1>4, <2>2 DEF SendControl
    <3>2. cmd'.token = cmd.token /\ cmd'.step = "wait"
      BY <3>1, CommandTakes DEF CommandIs
    <3>3. reader \in [Token -> ReaderType]
      BY DEF TypeOK
    <3>4. /\ reader'[cmd.token].queued = TRUE /\ reader'[cmd.token].request = reader[cmd.token].request
          /\ reader'[cmd.token].line = reader[cmd.token].line /\ reader'[cmd.token].stage = reader[cmd.token].stage
          /\ \A s \in Token \ {cmd.token} : reader'[s] = reader[s]
      BY <2>1, <3>1, <3>3 DEF ReaderType
    <3>5. ASSUME NEW s \in Token \ {cmd.token} PROVE OneRequest(s)'
      <4>1. ~ Waits(s) /\ ~ Waits(s)'
        BY <3>2, OthersDoNotWait
      <4>2. QED
        BY <1>1, <2>1, <3>4, <4>1
    <3>6. OneRequest(cmd.token)'
      <4>1. PICK t \in Token : t = cmd.token
        BY <2>1
      <4>2. reader[t].request = "none" /\ reader[t].line # Response /\ ~ Has(wire[t])
        BY <1>0, <2>1, <4>1, NothingUnderWay DEF Waits
      <4>3. ~ InWire(t)' /\ ~ Has(wire'[t])
        BY <2>1, <4>2 DEF InWire, Has
      <4>4. Waits(t)' /\ (remote' => reader'[t].stage # "done")
        BY <1>0, <2>2, <3>2, <3>4, <4>1 DEF Waits, Listening
      <4>5. OneRequest(t)'
        BY <3>4, <4>1, <4>2, <4>3, <4>4 DEF OneRequest, InWire
      <4>6. QED
        BY <3>2, <4>1, <4>5 DEF OneRequest, InWire, Waits
    <3>7. \A t \in Token : t = cmd.token => OneRequest(t)'
      <4>1. ASSUME NEW t \in Token, t = cmd.token PROVE OneRequest(t)'
        BY <3>2, <3>6, <4>1 DEF OneRequest, InWire, Waits
      <4>2. QED
        BY <4>1
    <3>8. QED
      BY <3>5, <3>7 DEF Requests
  <2>3. CASE ~ Listening(cmd.token)
    <3>1. reader' = reader /\ cmd'.step = "failed"
      BY <1>4, <2>3, CommandTakes DEF SendControl, CommandIs
    <3>2. QED
      BY <1>1, <2>1, <3>1 DEF Requests, Waits
  <2>4. QED
    BY <2>2, <2>3
<1>5. ASSUME cmd' = cmd \/ (cmd.step # "wait" /\ cmd'.step # "wait"), reader' = reader,
             \A s \in Token : (Has(wire'[s]) <=> Has(wire[s])) /\ (Single(wire[s]) => Single(wire'[s]))
      PROVE  Requests'
  <2>1. \A s \in Token : Waits(s)' <=> Waits(s)
    BY <1>5 DEF Waits
  <2>2. \A s \in Token : Quiet(s)
    BY <1>5 DEF Quiet
  <2>3. QED
    BY <1>0, <2>1, <2>2, QuietKeeps DEF Requests
<1>6. ASSUME NEW d \in Id, EndRun(d, "exited") \/ EndRun(d, "deleted") \/ wire' = wire
      PROVE  \A s \in Token : (Has(wire'[s]) <=> Has(wire[s])) /\ (Single(wire[s]) => Single(wire'[s]))
  <2>1. \A s \in Token : wire'[s] = wire[s] \/ wire'[s] = wire[s] \o <<Exit, End>>
    <3>1. CASE EndRun(d, "exited")
      BY <3>1, EndRunIs
    <3>2. CASE EndRun(d, "deleted")
      BY <3>2, EndRunIs
    <3>3. QED
      BY <1>6, <3>1, <3>2
  <2>2. \A s \in Token : /\ Has(wire[s] \o <<Exit, End>>) <=> Has(wire[s])
                         /\ Single(wire[s]) => Single(wire[s] \o <<Exit, End>>)
    BY <1>0, NoResponseAtEnd
  <2>3. QED
    BY <2>1, <2>2
<1>7. CASE SendOnce
  <2>1. arc[cmd.token].daemon \in Id
    BY <1>7, AgentsHaveDaemons DEF SendOnce, Commanding, Asking
  <2>2. /\ reader' = reader /\ cmd.step = "found"
        /\ EndRun(arc[cmd.token].daemon, "exited") \/ wire' = wire
        /\ \E x \in {"ok", "failed", "asks"} : cmd' = [cmd EXCEPT !.step = x]
    BY <1>7 DEF SendOnce, OnceAnswers, NotEnded
  <2>3. cmd'.step # "wait"
    BY <2>2, CommandTakes DEF CommandIs
  <2>4. QED
    BY <1>5, <1>6, <2>1, <2>2, <2>3
<1>8. ASSUME NEW d \in Id, Runs(d) PROVE Requests'
  <2>1. reader' = reader /\ cmd' = cmd
    BY <1>8 DEF Runs, DeleteView, DeleteRecord, DeleteRegistry, Prints, ProgramEnds
  <2>2. CASE Prints(d)
    <3>1. Output(written[d] + 1) \in Line \ {Response}
      <4>1. written[d] + 1 \in 1..MaxOutput
        BY <2>2, TerminalSessionsAssumption DEF Prints, TypeOK
      <4>2. QED
        BY <4>1, LineIs
    <3>2. \A s \in Token : wire'[s] = wire[s] \/ wire'[s] = Append(wire[s], Output(written[d] + 1))
      BY <2>2 DEF Prints
    <3>3. QED
      <4>1. PICK x \in Line \ {Response} : x = Output(written[d] + 1)
        BY <3>1
      <4>2. \A s \in Token : (Has(Append(wire[s], x)) <=> Has(wire[s])) /\ (Single(wire[s]) => Single(Append(wire[s], x)))
        BY <1>0, NoResponseAfter
      <4>3. \A s \in Token : (Has(wire'[s]) <=> Has(wire[s])) /\ (Single(wire[s]) => Single(wire'[s]))
        BY <3>2, <4>1, <4>2
      <4>4. QED
        BY <1>5, <2>1, <4>3
  <2>3. CASE ~ Prints(d)
    <3>1. EndRun(d, "exited") \/ EndRun(d, "deleted") \/ wire' = wire
      BY <1>8, <2>3 DEF Runs, DeleteView, DeleteRecord, DeleteRegistry, ProgramEnds, Deleted, NotEnded
    <3>2. QED
      BY <1>5, <1>6, <2>1, <3>1
  <2>4. QED
    BY <2>2, <2>3
<1>9. ASSUME NEW t \in Token, Stops(t), DropRequests(t) \/ (arc[t].kind # "agent" /\ UNCHANGED cmd)
      PROVE  Requests'
  <2>1. \A s \in Token \ {t} : reader'[s] = reader[s] /\ wire'[s] = wire[s]
    BY <1>9, StopsIs
  <2>2. cmd'.token = cmd.token /\ (cmd'.step = cmd.step \/ (remote /\ Waits(t) /\ cmd'.step = "failed"))
    BY <1>9, DropRequestsIs
  <2>3. IF remote THEN ~ Waits(t)' ELSE Waits(t)' <=> Waits(t)
    <3>1. CASE DropRequests(t)
      BY <3>1, DropRequestsIs DEF Waits
    <3>2. CASE arc[t].kind # "agent" /\ UNCHANGED cmd
      BY <3>2 DEF Waits, Commanding
    <3>3. QED
      BY <1>9, <3>1, <3>2
  <2>4. \A s \in Token \ {t} : Waits(s)' <=> Waits(s)
    BY <2>2 DEF Waits
  <2>5. QED
    BY <1>0, <1>1, <1>9, <2>1, <2>3, <2>4, OverKeeps DEF Requests
<1>10. ASSUME NEW t \in Token, EndsView(t) \/ EndsPty(t) \/ EndsStream(t) \/ LosesView(t) PROVE Requests'
  BY <1>9, <1>10 DEF EndsView, ReaderEnds, EndsPty, WaiterEnds, EndsStream, StreamEnds, LosesView
<1>11. ASSUME NEW t \in Token, Quiet(t), cmd' = cmd,
              \A s \in Token \ {t} : reader'[s] = reader[s] /\ wire'[s] = wire[s]
       PROVE  Requests'
  BY <1>0, <1>1, <1>11, QuietKeeps DEF Requests, Waits
<1>12. ASSUME NEW t \in Token, OneRequest(t)', \A s \in Token \ {t} : ~ Waits(s) /\ ~ Waits(s)',
              \A s \in Token \ {t} : reader'[s] = reader[s] /\ wire'[s] = wire[s]
       PROVE  Requests'
  BY <1>1, <1>12 DEF Requests
<1>13. ASSUME NEW t \in Token, GetsHistory(t) PROVE Requests'
  <2>1. reader \in [Token -> ReaderType]
    BY DEF TypeOK
  <2>2. /\ wire' = wire /\ cmd' = cmd /\ reader[t].stage = "history"
        /\ reader' = [reader EXCEPT ![t].stage = "replay",
              ![t].todo = [n \in 1..written[arc[t].daemon] |-> Output(n)]]
    BY <1>13 DEF GetsHistory
  <2>3. /\ reader'[t].stage = "replay" /\ reader'[t].queued = reader[t].queued
        /\ reader'[t].request = reader[t].request /\ reader'[t].line = reader[t].line
        /\ \A s \in Token \ {t} : reader'[s] = reader[s]
    BY <2>1, <2>2 DEF ReaderType
  <2>4. Quiet(t)
    BY <2>2, <2>3 DEF Quiet
  <2>5. QED
    BY <1>11, <2>2, <2>3, <2>4
<1>14. ASSUME NEW t \in Token, Made(t), HistoryShown(t) PROVE Requests'
  <2>1. reader \in [Token -> ReaderType]
    BY DEF TypeOK
  <2>2. /\ wire' = wire /\ cmd' = cmd /\ reader[t].stage = "replay"
        /\ \/ reader' = [reader EXCEPT ![t].stage = "done"]
           \/ \E x \in {"subscribe", "done"} : reader' = [reader EXCEPT ![t].then = "end", ![t].stage = x]
    BY <1>14 DEF HistoryShown
  <2>3. /\ reader'[t].queued = reader[t].queued
        /\ reader'[t].request = reader[t].request /\ reader'[t].line = reader[t].line
        /\ \A s \in Token \ {t} : reader'[s] = reader[s]
    <3>1. CASE reader' = [reader EXCEPT ![t].stage = "done"]
      BY <2>1, <3>1 DEF ReaderType
    <3>2. CASE \E x \in {"subscribe", "done"} : reader' = [reader EXCEPT ![t].then = "end", ![t].stage = x]
      BY <2>1, <3>2 DEF ReaderType
    <3>3. QED
      BY <2>2, <3>1, <3>2
  <2>4. ~ Waits(t)
    <3>1. ~ arc[t].control
      BY <1>14, <2>2 DEF Objects, Fitting
    <3>2. QED
      BY <3>1 DEF Waits, Commanding
  <2>5. ~ Waits(t)' /\ \A s \in Token : Waits(s)' <=> Waits(s)
    BY <2>2, <2>4 DEF Waits
  <2>6. /\ reader[t].request = "none" /\ reader[t].line # Response /\ ~ Has(wire[t])
        /\ ~ reader[t].queued
    BY <1>0, <2>2, <2>4, NothingUnderWay
  <2>7. OneRequest(t)'
    BY <2>2, <2>3, <2>5, <2>6, IdleKeeps
  <2>8. QED
    BY <1>1, <2>2, <2>3, <2>5, <2>7 DEF Requests
<1>15. ASSUME NEW t \in Token, Joins(t) PROVE Requests'
  <2>1. reader \in [Token -> ReaderType] /\ wire \in [Token -> Seq(Line)]
    BY DEF TypeOK
  <2>2. /\ cmd' = cmd /\ reader[t].stage = "subscribe" /\ reader' = [reader EXCEPT ![t].stage = "live"]
        /\ wire' = wire \/ wire' = [wire EXCEPT ![t] = <<End>>]
    BY <1>15 DEF Joins
  <2>3. /\ reader'[t].stage = "live" /\ reader'[t].queued = reader[t].queued
        /\ reader'[t].request = reader[t].request /\ reader'[t].line = reader[t].line
        /\ \A s \in Token \ {t} : reader'[s] = reader[s]
    BY <2>1, <2>2 DEF ReaderType
  <2>4. wire[t] = <<>>
    BY <2>2 DEF Streams, Streaming
  <2>5. wire'[t] \in {<<>>, <<End>>} /\ \A s \in Token \ {t} : wire'[s] = wire[s]
    BY <2>1, <2>2, <2>4
  <2>6. Quiet(t)
    BY <2>2, <2>3, <2>4, <2>5, NoResponse DEF Quiet
  <2>7. QED
    BY <1>11, <2>2, <2>3, <2>5, <2>6
<1>16. ASSUME NEW t \in Token, GetsLine(t) PROVE Requests'
  <2>1. reader \in [Token -> ReaderType] /\ wire \in [Token -> Seq(Line)]
    BY DEF TypeOK
  <2>2. /\ cmd' = cmd /\ reader[t].line = NoLine /\ Source(t) # <<>>
        /\ reader' = [reader EXCEPT ![t].line = Head(Source(t)),
                 ![t].todo = IF reader[t].stage = "replay" THEN Tail(@) ELSE @]
        /\ wire' = IF reader[t].stage = "live" THEN [wire EXCEPT ![t] = Tail(@)] ELSE wire
    BY <1>16 DEF GetsLine
  <2>3. /\ reader'[t].stage = reader[t].stage /\ reader'[t].queued = reader[t].queued
        /\ reader'[t].request = reader[t].request /\ reader'[t].line = Head(Source(t))
        /\ \A s \in Token \ {t} : reader'[s] = reader[s] /\ wire'[s] = wire[s]
    BY <2>1, <2>2 DEF ReaderType
  <2>4. NoLine # Response
    BY LineIs
  <2>5. CASE reader[t].stage = "replay"
    <3>1. reader[t].todo # <<>> /\ reader[t].todo \in Seq(Line) /\ Head(Source(t)) = Head(reader[t].todo) /\ wire' = wire
      BY <2>1, <2>2, <2>5 DEF Source, ReaderType
    <3>2. Head(reader[t].todo)[1] = "output"
      BY <3>1, FirstAndRest DEF Streams, Streaming
    <3>3. Head(Source(t)) # Response
      BY <3>1, <3>2, LineIs
    <3>4. Quiet(t)
      BY <2>2, <2>3, <2>4, <3>1, <3>3 DEF Quiet
    <3>5. QED
      BY <1>11, <2>2, <2>3, <3>4
  <2>6. CASE reader[t].stage = "live"
    <3>1. wire[t] # <<>> /\ Head(Source(t)) = Head(wire[t]) /\ wire'[t] = Tail(wire[t])
      BY <2>1, <2>2, <2>6 DEF Source
    <3>2. Single(wire[t])
      BY <1>0 DEF OneRequest, Single
    <3>3. /\ Single(Tail(wire[t]))
          /\ Head(wire[t]) # Response => (Has(Tail(wire[t])) <=> Has(wire[t]))
          /\ Head(wire[t]) = Response => Has(wire[t]) /\ ~ Has(Tail(wire[t]))
      BY <1>0, <3>1, <3>2, ResponseTaken
    <3>4. CASE Head(wire[t]) # Response
      <4>1. Quiet(t)
        BY <2>2, <2>3, <2>4, <3>1, <3>3, <3>4 DEF Quiet
      <4>2. QED
        BY <1>11, <2>2, <2>3, <4>1
    <3>5. CASE Head(wire[t]) = Response
      <4>1. InWire(t) /\ ~ InWire(t)' /\ reader'[t].line = Response
        BY <2>3, <3>1, <3>3, <3>5 DEF InWire, Has
      <4>2. \A i, j \in DOMAIN wire'[t] : wire'[t][i] = Response /\ wire'[t][j] = Response => i = j
        BY <3>1, <3>3 DEF Single
      <4>3. Waits(t) /\ \A s \in Token : Waits(s)' <=> Waits(s)
        BY <1>0, <2>2, <4>1 DEF Waits, OneRequest
      <4>4. ~ reader[t].queued /\ reader[t].request # "sent"
        BY <1>0, <4>1 DEF OneRequest
      <4>5. remote => reader[t].stage # "done"
        BY <2>6
      <4>6. OneRequest(t)'
        BY <1>0, <2>3, <4>1, <4>2, <4>3, <4>4, <4>5 DEF OneRequest
      <4>7. QED
        BY <1>1, <2>3, <4>3, <4>6 DEF Requests
    <3>6. QED
      BY <3>4, <3>5
  <2>7. QED
    BY <1>16, <2>5, <2>6 DEF GetsLine
<1>17. ASSUME NEW t \in Token, HandleOutput(t) PROVE Requests'
  <2>1. reader \in [Token -> ReaderType]
    BY DEF TypeOK
  <2>2. wire' = wire /\ cmd' = cmd /\ reader[t].line[1] = "output" /\ reader' = [reader EXCEPT ![t].line = NoLine]
    BY <1>17 DEF HandleOutput
  <2>3. /\ reader'[t].stage = reader[t].stage /\ reader'[t].queued = reader[t].queued
        /\ reader'[t].request = reader[t].request /\ reader'[t].line = NoLine
        /\ \A s \in Token \ {t} : reader'[s] = reader[s]
    BY <2>1, <2>2 DEF ReaderType
  <2>4. reader[t].line # Response /\ NoLine # Response
    BY <2>2, LineIs
  <2>5. Quiet(t)
    BY <2>2, <2>3, <2>4 DEF Quiet
  <2>6. QED
    BY <1>11, <2>2, <2>3, <2>5
<1>18. ASSUME NEW t \in Token, HandleResponse(t) PROVE Requests'
  <2>1. reader \in [Token -> ReaderType]
    BY DEF TypeOK
  <2>2. Waits(t) /\ ~ InWire(t) /\ ~ reader[t].queued /\ reader[t].request # "sent" /\ reader[t].request \in {"none", "sent"}
    BY <1>0, <1>18, <2>1 DEF HandleResponse, OneRequest, ReaderType
  <2>3. /\ wire' = wire /\ reader' = [reader EXCEPT ![t].line = NoLine]
        /\ \E x \in {"ok", "failed"} : cmd' = [cmd EXCEPT !.step = x]
    BY <1>18, <2>2 DEF HandleResponse
  <2>4. /\ reader'[t].queued = reader[t].queued
        /\ reader'[t].request = reader[t].request /\ reader'[t].line = NoLine
        /\ \A s \in Token \ {t} : reader'[s] = reader[s]
    BY <2>1, <2>3 DEF ReaderType
  <2>5. cmd'.step \in {"ok", "failed"} /\ cmd'.token = cmd.token
    BY <2>3, CommandTakes DEF CommandIs
  <2>6. OneRequest(t)'
    BY <2>2, <2>3, <2>4, <2>5, IdleKeeps, LineIs DEF Waits, InWire, Has
  <2>7. QED
    BY <1>12, <2>2, <2>3, <2>4, <2>5, <2>6 DEF Waits
<1>19. ASSUME NEW t \in Token, Carry(t) PROVE Requests'
  <2>1. reader \in [Token -> ReaderType]
    BY DEF TypeOK
  <2>2. /\ reader[t].queued /\ wire' = wire /\ (remote => reader[t].stage = "live")
        /\ IF reader[t].stage = "live"
           THEN reader' = [reader EXCEPT ![t].queued = FALSE, ![t].request = "sent"] /\ cmd' = cmd
           ELSE reader' = [reader EXCEPT ![t].queued = FALSE] /\ cmd' = [cmd EXCEPT !.step = "failed"]
    BY <1>19 DEF Carry
  <2>3. Waits(t) /\ ~ InWire(t) /\ reader[t].request = "none" /\ reader[t].line # Response
    BY <1>0, <2>2 DEF OneRequest
  <2>4. CASE reader[t].stage = "live"
    <3>1. /\ reader'[t].queued = FALSE /\ reader'[t].request = "sent" /\ reader'[t].line = reader[t].line
          /\ reader'[t].stage = "live"
          /\ \A s \in Token \ {t} : reader'[s] = reader[s]
      BY <2>1, <2>2, <2>4 DEF ReaderType
    <3>2. Waits(t)' /\ ~ InWire(t)' /\ \A s \in Token : Waits(s)' <=> Waits(s)
      BY <2>2, <2>3, <2>4 DEF Waits, InWire
    <3>3. OneRequest(t)'
      BY <2>3, <3>1, <3>2 DEF OneRequest, InWire
    <3>4. QED
      BY <1>1, <2>2, <3>1, <3>2, <3>3 DEF Requests
  <2>5. CASE reader[t].stage # "live"
    <3>1. /\ reader'[t].queued = FALSE /\ reader'[t].request = reader[t].request /\ reader'[t].line = reader[t].line
          /\ \A s \in Token \ {t} : reader'[s] = reader[s]
      BY <2>1, <2>2, <2>5 DEF ReaderType
    <3>2. cmd'.step = "failed" /\ cmd'.token = cmd.token
      BY <2>2, <2>5, CommandTakes DEF CommandIs
    <3>3. OneRequest(t)'
      BY <2>2, <2>3, <3>1, <3>2, IdleKeeps DEF Waits, InWire, Has
    <3>4. QED
      BY <1>12, <2>2, <2>3, <3>1, <3>2, <3>3 DEF Waits
  <2>6. QED
    BY <2>4, <2>5
<1>20. ASSUME NEW t \in Token, Answer(t) PROVE Requests'
  <2>1. reader \in [Token -> ReaderType] /\ wire \in [Token -> Seq(Line)]
    BY DEF TypeOK
  <2>2. /\ reader[t].request = "sent" /\ reader' = [reader EXCEPT ![t].request = "none"] /\ cmd' = cmd
        /\ \/ wire' = [wire EXCEPT ![t] = @ \o <<Response, End>>]
           \/ wire' = [wire EXCEPT ![t] = @ \o <<Response>>]
    BY <1>20 DEF Answer
  <2>3. Waits(t) /\ ~ Has(wire[t]) /\ ~ reader[t].queued /\ reader[t].line # Response
    BY <1>0, <2>2 DEF OneRequest, InWire, Has
  <2>4. /\ reader'[t].queued = reader[t].queued /\ reader'[t].request = "none" /\ reader'[t].line = reader[t].line
        /\ reader'[t].stage = reader[t].stage
        /\ \A s \in Token \ {t} : reader'[s] = reader[s]
    BY <2>1, <2>2 DEF ReaderType
  <2>5. Has(wire'[t]) /\ Single(wire'[t]) /\ \A s \in Token \ {t} : wire'[s] = wire[s]
    BY <2>1, <2>2, <2>3, OneResponse
  <2>6. Waits(t)' /\ InWire(t)' /\ \A s \in Token : Waits(s)' <=> Waits(s)
    BY <2>2, <2>3, <2>5 DEF Waits, InWire, Has
  <2>7. \A i, j \in DOMAIN wire'[t] : wire'[t][i] = Response /\ wire'[t][j] = Response => i = j
    BY <2>5 DEF Single
  <2>8. OneRequest(t)'
    BY <1>0, <2>2, <2>3, <2>4, <2>6, <2>7 DEF OneRequest
  <2>9. QED
    BY <1>1, <2>4, <2>5, <2>6, <2>8 DEF Requests
<1>21. ASSUME NEW t \in Token, Pauses(t) PROVE Requests'
  <2>1. Quiet(t) /\ cmd' = cmd /\ \A s \in Token \ {t} : reader'[s] = reader[s] /\ wire'[s] = wire[s]
    BY <1>21 DEF Pauses, Quiet
  <2>2. QED
    BY <1>11, <2>1
<1>22. ASSUME NEW t \in Token, Made(t), GoesOn(t) PROVE Requests'
  BY <1>13, <1>14, <1>15, <1>16, <1>17, <1>18, <1>19, <1>20, <1>21, <1>22 DEF GoesOn
<1>23. QED
  BY <1>2, <1>3, <1>4, <1>7, <1>8, <1>10, <1>22 DEF Cases

-----------------------------------------------------------------------------
(* Lines pushed into other objects.                                        *)

\* Which line a reader holds changes when it reads one and when it is done with it.
HoldsLine(s) == reader'[s].line = reader[s].line \/ reader'[s].line[1] # "output"
LEMMA LinesMove ==
  ASSUME TypeOK, Objects, Streams, Placing, Commanding, Cases, NEW s \in Token
  PROVE  GetsLine(s) \/ HandleOutput(s) \/ (strays'[s] = strays[s] /\ HoldsLine(s))
<1>1. reader \in [Token -> ReaderType] /\ NoLine[1] # "output"
  BY LineIs DEF TypeOK
<1>2. ASSUME reader' = reader, strays' = strays PROVE strays'[s] = strays[s] /\ HoldsLine(s)
  BY <1>2 DEF HoldsLine
<1>3. CASE MakeView
  <2>1. MakingIsSeen
    BY <1>3, MakeViewIs
  <2>2. strays' = strays
    BY <2>1 DEF MakingIsSeen
  <2>3. CASE UNCHANGED <<arc, views, reader, records>>
    BY <1>2, <2>2, <2>3
  <2>4. CASE \E w \in windows : Made1(w)
    <3>1. PICK w \in windows, t \in Token, a \in ArcType, r \in ReaderType :
              ~ Made(t) /\ Open(t, w, a, r) /\ NewObject(a, r) /\ NewView(a)
      BY <2>4 DEF Made1
    <3>2. w \in Window
      BY DEF TypeOK
    <3>3. reader'[t] = r /\ \A u \in Token \ {t} : reader'[u] = reader[u]
      BY <3>1, <3>2, OpenIs
    <3>4. r.line = NoLine
      BY <3>1 DEF NewObject
    <3>5. QED
      BY <1>1, <2>2, <3>3, <3>4 DEF HoldsLine
  <2>5. QED
    BY <2>1, <2>3, <2>4 DEF MakingIsSeen
<1>4. CASE \/ Takes \/ SendOnce \/ Finish
           \/ \E v \in Id, w \in windows : Transfer(v, w)
           \/ \E d \in Id : Runs(d)
  <2>1. reader' = reader /\ strays' = strays
    BY <1>4 DEF Takes, SendOnce, Finish, Transfer, Runs, DeleteView, DeleteRecord, DeleteRegistry, Prints, ProgramEnds,
       threads
  <2>2. QED
    BY <1>2, <2>1
<1>5. CASE SendControl
  <2>1. strays' = strays /\ (reader' = [reader EXCEPT ![cmd.token].queued = TRUE] \/ reader' = reader)
        /\ cmd.token \in Token
    BY <1>5 DEF SendControl, Commanding, Asking
  <2>2. reader'[s].line = reader[s].line
    <3>1. CASE reader' = [reader EXCEPT ![cmd.token].queued = TRUE]
      BY <1>1, <2>1, <3>1 DEF ReaderType
    <3>2. CASE reader' = reader
      BY <3>2
    <3>3. QED
      BY <2>1, <3>1, <3>2
  <2>3. QED
    BY <2>1, <2>2 DEF HoldsLine
<1>6. ASSUME NEW t \in Token, EndsView(t) \/ EndsPty(t) \/ EndsStream(t) \/ LosesView(t)
      PROVE  strays'[s] = strays[s] /\ HoldsLine(s)
  <2>1. strays' = strays /\ Stops(t)
    BY <1>6 DEF EndsView, ReaderEnds, EndsPty, WaiterEnds, EndsStream, StreamEnds, LosesView
  <2>2. reader'[t].line = NoLine /\ \A u \in Token \ {t} : reader'[u] = reader[u]
    BY <2>1, StopsIs
  <2>3. QED
    BY <1>1, <2>1, <2>2 DEF HoldsLine
<1>7. ASSUME NEW t \in Token, Made(t), GoesOn(t)
      PROVE  GetsLine(s) \/ HandleOutput(s) \/ (strays'[s] = strays[s] /\ HoldsLine(s))
  <2>1. CASE GetsHistory(t)
    <3>1. strays' = strays /\ reader' = [reader EXCEPT ![t].stage = "replay",
             ![t].todo = [n \in 1..written[arc[t].daemon] |-> Output(n)]]
      BY <2>1 DEF GetsHistory
    <3>2. reader'[s].line = reader[s].line
      BY <1>1, <3>1 DEF ReaderType
    <3>3. QED
      BY <3>1, <3>2 DEF HoldsLine
  <2>2. CASE HistoryShown(t)
    <3>1. strays' = strays
          /\ \/ reader' = [reader EXCEPT ![t].stage = "done"]
             \/ \E x \in {"subscribe", "done"} : reader' = [reader EXCEPT ![t].then = "end", ![t].stage = x]
      BY <2>2 DEF HistoryShown
    <3>2. reader'[s].line = reader[s].line
      <4>1. CASE reader' = [reader EXCEPT ![t].stage = "done"]
        BY <1>1, <4>1 DEF ReaderType
      <4>2. CASE \E x \in {"subscribe", "done"} : reader' = [reader EXCEPT ![t].then = "end", ![t].stage = x]
        BY <1>1, <4>2 DEF ReaderType
      <4>3. QED
        BY <3>1, <4>1, <4>2
    <3>3. QED
      BY <3>1, <3>2 DEF HoldsLine
  <2>3. CASE Joins(t)
    <3>1. strays' = strays /\ reader' = [reader EXCEPT ![t].stage = "live"]
      BY <2>3 DEF Joins
    <3>2. reader'[s].line = reader[s].line
      BY <1>1, <3>1 DEF ReaderType
    <3>3. QED
      BY <3>1, <3>2 DEF HoldsLine
  <2>4. CASE GetsLine(t) /\ s # t
    <3>1. strays' = strays
          /\ reader' = [reader EXCEPT ![t].line = Head(Source(t)),
                 ![t].todo = IF reader[t].stage = "replay" THEN Tail(@) ELSE @]
      BY <2>4 DEF GetsLine
    <3>2. reader'[s] = reader[s]
      BY <1>1, <2>4, <3>1 DEF ReaderType
    <3>3. QED
      BY <3>1, <3>2 DEF HoldsLine
  <2>5. CASE HandleOutput(t) /\ s # t
    <3>1. reader' = [reader EXCEPT ![t].line = NoLine]
          /\ (strays' = strays \/ strays' = [strays EXCEPT ![t] = @ + 1])
      BY <2>5 DEF HandleOutput, Push
    <3>2. reader'[s] = reader[s] /\ strays'[s] = strays[s]
      BY <1>1, <2>5, <3>1 DEF ReaderType, TypeOK
    <3>3. QED
      BY <3>2 DEF HoldsLine
  <2>6. CASE HandleResponse(t)
    <3>1. strays' = strays /\ reader' = [reader EXCEPT ![t].line = NoLine]
      BY <2>6 DEF HandleResponse
    <3>2. reader'[s].line \in {reader[s].line, NoLine}
      BY <1>1, <3>1 DEF ReaderType
    <3>3. QED
      BY <1>1, <3>1, <3>2 DEF HoldsLine
  <2>7. CASE Carry(t)
    <3>1. strays' = strays
          /\ \/ reader' = [reader EXCEPT ![t].queued = FALSE, ![t].request = "sent"]
             \/ reader' = [reader EXCEPT ![t].queued = FALSE]
      BY <2>7 DEF Carry
    <3>2. reader'[s].line = reader[s].line
      <4>1. CASE reader' = [reader EXCEPT ![t].queued = FALSE, ![t].request = "sent"]
        BY <1>1, <4>1 DEF ReaderType
      <4>2. CASE reader' = [reader EXCEPT ![t].queued = FALSE]
        BY <1>1, <4>2 DEF ReaderType
      <4>3. QED
        BY <3>1, <4>1, <4>2
    <3>3. QED
      BY <3>1, <3>2 DEF HoldsLine
  <2>8. CASE Answer(t)
    <3>1. strays' = strays /\ reader' = [reader EXCEPT ![t].request = "none"]
      BY <2>8 DEF Answer
    <3>2. reader'[s].line = reader[s].line
      BY <1>1, <3>1 DEF ReaderType
    <3>3. QED
      BY <3>1, <3>2 DEF HoldsLine
  <2>9. CASE Pauses(t)
    BY <2>9 DEF Pauses, HoldsLine
  <2>10. QED
    BY <1>7, <2>1, <2>2, <2>3, <2>4, <2>5, <2>6, <2>7, <2>8, <2>9 DEF GoesOn
<1>8. QED
  BY <1>3, <1>4, <1>5, <1>6, <1>7 DEF Cases

\* A view that went to another object, or was closed, never comes back to the old one.
LEMMA ViewNotRegained ==
  ASSUME TypeOK, Objects, Map, Commanding, Cases, NEW s \in Token, Made(s), ~ Current(s)
  PROVE  ~ Current(s)'
<1>0. Placing /\ arc[s].view \in Id
  BY AgentsHaveDaemons DEF Map
<1>1. arc'[s].view = arc[s].view
  BY <1>0, ControlKept DEF SameObject
<1>2. CASE MakeView
  <2>1. MakingIsSeen
    BY <1>2, MakeViewIs
  <2>2. CASE UNCHANGED <<arc, views, reader, records>>
    BY <1>1, <2>2 DEF Current, views
  <2>3. CASE \E w \in windows : Made1(w)
    <3>1. PICK w \in windows, t \in Token, a \in ArcType, r \in ReaderType :
              ~ Made(t) /\ Open(t, w, a, r) /\ NewObject(a, r) /\ NewView(a)
      BY <2>3 DEF Made1
    <3>2. w \in Window
      BY DEF TypeOK
    <3>3. sessions'[a.view] = t /\ t # s /\ \A i \in Id \ {a.view} : sessions'[i] = sessions[i]
      BY <1>0, <3>1, <3>2, OpenIs
    <3>4. QED
      BY <1>0, <1>1, <3>3 DEF Current
  <2>4. QED
    BY <2>1, <2>2, <2>3 DEF MakingIsSeen
<1>3. CASE ~ MakeView
  <2>1. Stays(arc[s].view) \/ Moves(arc[s].view) \/ Goes(arc[s].view)
    BY <1>0, <1>3, ViewsGo
  <2>2. QED
    BY <1>0, <1>1, <2>1, NoneIsNothing DEF Stays, Moves, Goes, Current
<1>4. QED
  BY <1>2, <1>3

LEMMA StrayedInductive ==
  ASSUME TypeOK, Objects, Streams, Map, Commanding, Strayed, Cases
  PROVE  Strayed' /\ \A s \in Token : strays[s] <= strays'[s]
<1>0. Placing
  BY DEF Map
<1>1. ASSUME NEW s \in Token
      PROVE  /\ strays'[s] <= 1
             /\ strays'[s] = 1 => ~ Current(s)' /\ reader'[s].line[1] # "output"
             /\ strays[s] <= strays'[s]
  <2>1. strays[s] \in Nat /\ strays[s] <= 1 /\ (strays[s] = 1 => ~ Current(s) /\ reader[s].line[1] # "output")
    BY DEF TypeOK, Strayed
  <2>2. strays[s] = 1 => ~ Current(s)'
    <3>1. strays[s] = 1 => Made(s)
      BY DEF Objects, Unmade
    <3>2. QED
      BY <2>1, <3>1, ViewNotRegained
  <2>3. CASE strays'[s] = strays[s] /\ HoldsLine(s)
    BY <2>1, <2>2, <2>3 DEF HoldsLine
  <2>4. CASE GetsLine(s)
    <3>1. Current(s) /\ strays' = strays
      BY <2>4 DEF GetsLine
    <3>2. QED
      BY <2>1, <3>1
  <2>5. CASE HandleOutput(s)
    <3>1. /\ reader[s].line[1] = "output" /\ reader' = [reader EXCEPT ![s].line = NoLine]
          /\ strays' = IF sessions[arc[s].view] \in {None, s} THEN strays ELSE [strays EXCEPT ![s] = @ + 1]
          /\ arc' = arc /\ sessions' = sessions
      BY <2>5 DEF HandleOutput, Push, views
    <3>2. reader \in [Token -> ReaderType] /\ strays \in [Token -> Nat]
      BY DEF TypeOK
    <3>3. reader'[s].line[1] # "output"
      BY <3>1, <3>2, LineIs DEF ReaderType
    <3>4. strays[s] = 0
      BY <2>1, <3>1
    <3>5. strays'[s] = IF Current(s) \/ sessions[arc[s].view] = None THEN 0 ELSE 1
      BY <3>1, <3>2, <3>4 DEF Current
    <3>6. Current(s)' <=> Current(s)
      BY <3>1 DEF Current
    <3>7. QED
      BY <3>3, <3>4, <3>5, <3>6
  <2>6. QED
    BY <1>0, <2>3, <2>4, <2>5, LinesMove
<1>2. QED
  BY <1>1 DEF Strayed

-----------------------------------------------------------------------------
(* Output in order.                                                        *)

\* What a source loses, or gains without a chunk of output in it.
NoNewOutput(p, q) == \A i \in Outputs(q) : i \in Outputs(p) /\ q[i] = p[i]

LEMMA NoOutputIn ==
  ASSUME NEW w
  PROVE  NoNewOutput(w, w) /\ NoNewOutput(w, <<>>) /\ NoNewOutput(w, <<End>>)
  BY LineIs DEF NoNewOutput, Outputs

LEMMA NoOutputAfter ==
  ASSUME NEW w \in Seq(Line)
  PROVE  /\ NoNewOutput(w, w \o <<Exit, End>>)
         /\ NoNewOutput(w, w \o <<Response>>)
         /\ NoNewOutput(w, w \o <<Response, End>>)
<1>1. /\ Exit \in Line /\ End \in Line /\ Response \in Line
      /\ Exit[1] # "output" /\ End[1] # "output" /\ Response[1] # "output"
  BY LineIs
<1>2. NoNewOutput(w, w \o <<Exit, End>>)
  BY <1>1, TwoMore DEF NoNewOutput, Outputs
<1>3. NoNewOutput(w, w \o <<Response>>)
  BY <1>1, OneAfter DEF NoNewOutput, Outputs
<1>4. NoNewOutput(w, w \o <<Response, End>>)
  BY <1>1, TwoMore DEF NoNewOutput, Outputs
<1>5. QED
  BY <1>2, <1>3, <1>4

LEMMA OutputsAre ==
  ASSUME NEW src \in Seq(Line)
  PROVE  \A i \in Outputs(src) : src[i] \in Line /\ src[i][2] \in 1..MaxOutput /\ src[i][2] \in Nat
  BY LineIs DEF Outputs

LEMMA ElementsAre ==
  ASSUME NEW S, NEW p \in Seq(S)
  PROVE  \A i \in DOMAIN p : p[i] \in S
<1>1. DOMAIN p = 1..Len(p) /\ \A i \in 1..Len(p) : p[i] \in S
  OBVIOUS
<1>2. QED
  BY <1>1

LEMMA ShownAre ==
  ASSUME NEW p \in Seq(1..MaxOutput)
  PROVE  \A i \in DOMAIN p : p[i] \in 1..MaxOutput /\ p[i] \in Nat
<1>1. \A i \in DOMAIN p : p[i] \in 1..MaxOutput
  BY ElementsAre
<1>2. \A n \in 1..MaxOutput : n \in Nat
  OBVIOUS
<1>3. QED
  BY <1>1, <1>2

LEMMA InOrderKept ==
  ASSUME NEW p, NEW k, NEW s, NEW q, NEW l, NEW r,
         q \in {p, <<>>}, l = k \/ l[1] # "output", NoNewOutput(s, r), InOrder(p, k, s)
  PROVE  InOrder(q, l, r)
<1>1. \A i \in Outputs(r) : i \in Outputs(s) /\ r[i] = s[i]
  BY DEF NoNewOutput
<1>2. \A n : Below(p, n) => Below(q, n)
  BY DEF Below
<1>3. \A i, j \in DOMAIN q : i < j => q[i] < q[j]
  BY DEF InOrder
<1>4. QED
  BY <1>1, <1>2, <1>3 DEF InOrder

LEMMA WithinKept ==
  ASSUME NEW p \in Seq(1..MaxOutput), NEW k \in Line, NEW s \in Seq(Line), NEW q, NEW l, NEW r,
         NEW n \in Nat, NEW m \in Nat, n <= m,
         q \in {p, <<>>}, l = k \/ l[1] # "output", NoNewOutput(s, r), Within(p, k, s, n)
  PROVE  Within(q, l, r, m)
<1>1. \A i \in Outputs(r) : r[i][2] <= m
  <2>1. \A i \in Outputs(r) : i \in Outputs(s) /\ r[i] = s[i]
    BY DEF NoNewOutput
  <2>2. \A i \in Outputs(s) : s[i][2] \in Nat /\ s[i][2] <= n
    BY OutputsAre DEF Within
  <2>3. QED
    BY <2>1, <2>2
<1>2. \A i \in DOMAIN q : q[i] <= m
  <2>1. \A i \in DOMAIN p : p[i] \in Nat /\ p[i] <= n
    BY ShownAre DEF Within
  <2>2. QED
    BY <2>1
<1>3. l[1] = "output" => l[2] <= m
  <2>1. k[1] = "output" => k[2] \in Nat /\ k[2] <= n
    BY LineIs DEF Within
  <2>2. QED
    BY <2>1
<1>4. QED
  BY <1>1, <1>2, <1>3 DEF Within

LEMMA OutputAdded ==
  ASSUME NEW p \in Seq(1..MaxOutput), NEW k \in Line, NEW s \in Seq(Line), NEW n \in Nat, n + 1 \in 1..MaxOutput,
         InOrder(p, k, s), Within(p, k, s, n)
  PROVE  InOrder(p, k, Append(s, Output(n + 1))) /\ Within(p, k, Append(s, Output(n + 1)), n + 1)
<1> DEFINE r == Append(s, Output(n + 1))
<1>1. /\ DOMAIN r = 1..(Len(s) + 1) /\ r[Len(s) + 1] = Output(n + 1) /\ \A i \in 1..Len(s) : r[i] = s[i]
      /\ DOMAIN s = 1..Len(s) /\ Len(s) \in Nat
  <2>1. Output(n + 1) \in Line
    BY LineIs
  <2>2. QED
    BY <2>1, OneMore
<1> HIDE DEF r
<1>2. Output(n + 1)[2] = n + 1
  BY LineIs
<1>3. \A i \in Outputs(r) : /\ i \in 1..(Len(s) + 1)
                            /\ i = Len(s) + 1 => r[i][2] = n + 1
                            /\ i # Len(s) + 1 => i \in Outputs(s) /\ r[i] = s[i] /\ i < Len(s) + 1
  BY <1>1, <1>2 DEF Outputs
<1>4. \A i \in Outputs(s) : s[i][2] \in Nat /\ s[i][2] <= n
  BY OutputsAre DEF Within
<1>5. \A i \in DOMAIN p : p[i] \in Nat /\ p[i] <= n
  BY ShownAre DEF Within
<1>6. k[1] = "output" => k[2] \in Nat /\ k[2] <= n
  BY LineIs DEF Within
<1>7. \A i, j \in Outputs(r) : i < j => r[i][2] < r[j][2]
  <2>1. ASSUME NEW i \in Outputs(r), NEW j \in Outputs(r), i < j PROVE r[i][2] < r[j][2]
    <3>1. i # Len(s) + 1
      BY <1>1, <1>3, <2>1
    <3>2. CASE j = Len(s) + 1
      <4>1. r[i][2] \in Nat /\ r[i][2] <= n
        BY <1>3, <1>4, <2>1, <3>1
      <4>2. r[j][2] = n + 1
        BY <1>3, <2>1, <3>2
      <4>3. QED
        BY <4>1, <4>2
    <3>3. CASE j # Len(s) + 1
      BY <1>3, <2>1, <3>1, <3>3 DEF InOrder
    <3>4. QED
      BY <3>2, <3>3
  <2>2. QED
    BY <2>1
<1>8. \A i \in Outputs(r) : Below(p, r[i][2])
  <2>1. Below(p, n + 1)
    BY <1>5 DEF Below
  <2>2. QED
    BY <1>3, <2>1 DEF InOrder
<1>9. k[1] = "output" => \A i \in Outputs(r) : k[2] < r[i][2]
  BY <1>3, <1>6 DEF InOrder
<1>10. InOrder(p, k, r)
  BY <1>7, <1>8, <1>9 DEF InOrder
<1>11. Within(p, k, r, n + 1)
  BY <1>3, <1>4, <1>5, <1>6 DEF Within
<1>12. QED
  BY <1>10, <1>11 DEF r

LEMMA HistoryIs ==
  ASSUME NEW n \in Nat, NEW k, k[1] # "output"
  PROVE  LET h == [i \in 1..n |-> Output(i)]
         IN  InOrder(<<>>, k, h) /\ Within(<<>>, k, h, n)
  BY LineIs DEF InOrder, Within, Outputs, Below

LEMMA OutputTaken ==
  ASSUME NEW p \in Seq(1..MaxOutput), NEW k, NEW s \in Seq(Line), s # <<>>, InOrder(p, k, s)
  PROVE  /\ InOrder(p, Head(s), Tail(s))
         /\ \A n \in Nat : Within(p, k, s, n) => Within(p, Head(s), Tail(s), n)
<1>1. /\ Head(s) = s[1] /\ Len(s) \in Nat \ {0} /\ DOMAIN s = 1..Len(s) /\ DOMAIN Tail(s) = 1..(Len(s) - 1)
      /\ \A i \in 1..(Len(s) - 1) : Tail(s)[i] = s[i + 1]
  BY FirstAndRest
<1>2. \A i \in Outputs(Tail(s)) : i \in Nat /\ 1 < i + 1 /\ i + 1 \in Outputs(s) /\ Tail(s)[i] = s[i + 1]
  BY <1>1 DEF Outputs
<1>3. Head(s)[1] = "output" => 1 \in Outputs(s) /\ Head(s) = s[1]
  BY <1>1 DEF Outputs
<1>4. \A i, j \in Outputs(Tail(s)) : i < j => Tail(s)[i][2] < Tail(s)[j][2]
  <2>1. ASSUME NEW i \in Outputs(Tail(s)), NEW j \in Outputs(Tail(s)), i < j PROVE Tail(s)[i][2] < Tail(s)[j][2]
    <3>1. i + 1 \in Outputs(s) /\ j + 1 \in Outputs(s) /\ i + 1 < j + 1
      BY <1>2, <2>1
    <3>2. s[i + 1][2] < s[j + 1][2]
      BY <3>1 DEF InOrder
    <3>3. QED
      BY <1>2, <2>1, <3>2
  <2>2. QED
    BY <2>1
<1>5. InOrder(p, Head(s), Tail(s))
  BY <1>2, <1>3, <1>4 DEF InOrder
<1>6. \A n \in Nat : Within(p, k, s, n) => Within(p, Head(s), Tail(s), n)
  BY <1>2, <1>3 DEF Within
<1>7. QED
  BY <1>5, <1>6

LEMMA OutputShown ==
  ASSUME NEW p \in Seq(1..MaxOutput), NEW k \in Line, NEW s \in Seq(Line), k[1] = "output", InOrder(p, k, s)
  PROVE  /\ InOrder(Append(p, k[2]), NoLine, s)
         /\ \A n \in Nat : Within(p, k, s, n) => Within(Append(p, k[2]), NoLine, s, n)
<1> DEFINE q == Append(p, k[2])
<1>1. /\ DOMAIN q = 1..(Len(p) + 1) /\ q[Len(p) + 1] = k[2] /\ \A i \in 1..Len(p) : q[i] = p[i]
      /\ DOMAIN p = 1..Len(p) /\ Len(p) \in Nat
  <2>1. k[2] \in 1..MaxOutput
    BY LineIs
  <2>2. QED
    BY <2>1, OneMore
<1> HIDE DEF q
<1>2. \A i \in DOMAIN p : p[i] < k[2]
  BY DEF InOrder, Below
<1>3. \A i, j \in DOMAIN q : i < j => q[i] < q[j]
  BY <1>1, <1>2 DEF InOrder
<1>4. \A i \in Outputs(s) : Below(q, s[i][2])
  BY <1>1 DEF InOrder, Below
<1>5. InOrder(q, NoLine, s)
  BY <1>3, <1>4, LineIs DEF InOrder
<1>6. \A n \in Nat : Within(p, k, s, n) => Within(q, NoLine, s, n)
  BY <1>1, LineIs DEF Within
<1>7. QED
  BY <1>5, <1>6 DEF q

LEMMA OrderInductive ==
  ASSUME TypeOK, TypeOK', Objects, Streams, Map, Commanding, Strayed, Order, Cases
  PROVE  Order'
<1> SUFFICES ASSUME \A s \in Token : strays'[s] = 0
             PROVE  \A s \in Token : Ordered(s)'
  BY DEF Order
<1>0. Placing
  BY DEF Map
<1>1. \A s \in Token : Ordered(s)
  <2>1. \A s \in Token : strays[s] <= strays'[s] /\ strays[s] \in Nat
    BY StrayedInductive DEF TypeOK
  <2>2. \A s \in Token : strays[s] = 0
    BY <2>1
  <2>3. QED
    BY <2>2 DEF Order
<1>2. /\ \A s \in Token : /\ shown[s] \in Seq(1..MaxOutput) /\ wire[s] \in Seq(Line) /\ reader[s].todo \in Seq(Line)
                          /\ reader[s].line \in Line /\ Source(s) \in Seq(Line)
      /\ \A d \in Id : written[d] \in Nat /\ written'[d] \in Nat
      /\ reader \in [Token -> ReaderType] /\ wire \in [Token -> Seq(Line)]
      /\ NoLine[1] # "output"
  <2>1. reader \in [Token -> ReaderType] /\ wire \in [Token -> Seq(Line)] /\ shown \in [Token -> Seq(1..MaxOutput)]
    BY DEF TypeOK
  <2>2. \A d \in Id : written[d] \in Nat /\ written'[d] \in Nat
    <3>1. \A n \in 0..MaxOutput : n \in Nat
      OBVIOUS
    <3>2. \A d \in Id : written[d] \in 0..MaxOutput /\ written'[d] \in 0..MaxOutput
      BY DEF TypeOK
    <3>3. QED
      BY <3>1, <3>2
  <2>3. QED
    BY <2>1, <2>2, LineIs DEF ReaderType, Source
\* A reader that gets no new output.
<1>3. ASSUME NEW s \in Token,
             shown'[s] \in {shown[s], <<>>}, HoldsLine(s), reader'[s].stage \in Early => reader[s].stage \in Early,
             NoNewOutput(Source(s), Source(s)'), arc'[s].daemon = arc[s].daemon,
             \A d \in Id : written[d] <= written'[d]
      PROVE  Ordered(s)'
  <2>1. InOrder(shown'[s], reader'[s].line, Source(s)')
    BY <1>1, <1>3, InOrderKept DEF Ordered, HoldsLine
  <2>2. ASSUME arc[s].daemon \in Id
        PROVE  Within(shown'[s], reader'[s].line, Source(s)', written'[arc[s].daemon])
    <3>1. Within(shown[s], reader[s].line, Source(s), written[arc[s].daemon])
      BY <1>1, <2>2 DEF Ordered
    <3>2. /\ written[arc[s].daemon] \in Nat /\ written'[arc[s].daemon] \in Nat
          /\ written[arc[s].daemon] <= written'[arc[s].daemon]
      BY <1>2, <1>3, <2>2
    <3>3. reader'[s].line = reader[s].line \/ reader'[s].line[1] # "output"
      BY <1>3 DEF HoldsLine
    <3>4. QED
      BY <1>2, <1>3, <3>1, <3>2, <3>3, WithinKept
  <2>3. reader'[s].stage \in Early => shown'[s] = <<>>
    BY <1>1, <1>3 DEF Ordered
  <2>4. QED
    BY <1>3, <2>1, <2>2, <2>3 DEF Ordered
<1>4. ASSUME NEW s \in Token,
             shown'[s] \in {shown[s], <<>>}, reader'[s].line = reader[s].line, reader'[s].stage = reader[s].stage,
             reader'[s].todo = reader[s].todo, NoNewOutput(wire[s], wire'[s]), arc'[s].daemon = arc[s].daemon,
             \A d \in Id : written[d] <= written'[d]
      PROVE  Ordered(s)'
  <2>1. NoNewOutput(Source(s), Source(s)')
    BY <1>4, NoOutputIn DEF Source
  <2>2. QED
    BY <1>3, <1>4, <2>1 DEF HoldsLine
<1>5. ASSUME NEW s \in Token,
             shown'[s] \in {shown[s], <<>>}, reader'[s] = reader[s], wire'[s] = wire[s], arc'[s].daemon = arc[s].daemon,
             written' = written
      PROVE  Ordered(s)'
  <2>1. NoNewOutput(wire[s], wire'[s])
    BY <1>5, NoOutputIn
  <2>2. \A d \in Id : written[d] <= written'[d]
    <3>1. \A n \in Nat : n <= n
      OBVIOUS
    <3>2. QED
      BY <1>2, <1>5, <3>1
  <2>3. QED
    BY <1>4, <1>5, <2>1, <2>2
<1>6. CASE MakeView
  <2>1. MakingIsSeen
    BY <1>6, MakeViewIs
  <2>2. shown' = shown /\ wire' = wire /\ written' = written
    BY <2>1 DEF MakingIsSeen
  <2>3. CASE UNCHANGED <<arc, views, reader, records>>
    BY <1>5, <2>2, <2>3
  <2>4. CASE \E w \in windows : Made1(w)
    <3>1. PICK w \in windows, t \in Token, a \in ArcType, r \in ReaderType :
              ~ Made(t) /\ Open(t, w, a, r) /\ NewObject(a, r) /\ NewView(a)
      BY <2>4 DEF Made1
    <3>2. w \in Window
      BY DEF TypeOK
    <3>3. /\ reader'[t] = r /\ Unmade(t)
          /\ \A s \in Token \ {t} : arc'[s] = arc[s] /\ reader'[s] = reader[s]
      BY <1>0, <3>1, <3>2, OpenIs
    <3>4. r.line = NoLine /\ r.todo = <<>>
      BY <3>1 DEF NewObject
    <3>5. shown'[t] = <<>> /\ wire'[t] = <<>> /\ Source(t)' = <<>> /\ reader'[t].line = NoLine
      BY <2>2, <3>3, <3>4 DEF Unmade, Source
    <3>6. Ordered(t)'
      BY <1>2, <3>5 DEF Ordered, InOrder, Within, Outputs, Below
    <3>7. \A s \in Token \ {t} : Ordered(s)'
      BY <1>5, <2>2, <3>3
    <3>8. QED
      BY <3>6, <3>7
  <2>5. QED
    BY <2>1, <2>3, <2>4 DEF MakingIsSeen
<1> DEFINE Others == \A s \in Token : arc'[s].daemon = arc[s].daemon
<1>7. CASE ~ MakeView
  <2>0. Others
    BY <1>0, <1>7, ObjectsSame DEF SameObject
  <2>1. CASE \/ \E v \in Id, w \in windows : Transfer(v, w)
             \/ Takes \/ Finish
    <3>1. reader' = reader /\ wire' = wire /\ written' = written
      BY <2>1 DEF Transfer, Takes, Finish, threads, runs
    <3>2. \A s \in Token : shown'[s] \in {shown[s], <<>>}
      <4>1. CASE Finish
        <5>1. arc[cmd.token].view \in Id
          BY <4>1, AgentsHaveDaemons DEF Finish, Commanding, Asking
        <5>2. Remove(arc[cmd.token].view) \/ shown' = shown
          BY <4>1 DEF Finish
        <5>3. QED
          BY <5>1, <5>2, RemoveIs
      <4>2. CASE Takes \/ \E v \in Id, w \in windows : Transfer(v, w)
        BY <4>2 DEF Takes, Transfer
      <4>3. QED
        BY <2>1, <4>1, <4>2
    <3>3. QED
      BY <1>5, <2>0, <3>1, <3>2
  <2>2. CASE SendControl
    <3>1. /\ cmd.token \in Token /\ shown' = shown /\ wire' = wire /\ written' = written
          /\ reader' = [reader EXCEPT ![cmd.token].queued = TRUE] \/ reader' = reader
      BY <2>2 DEF SendControl, Commanding, Asking, runs
    <3>2. \A s \in Token : /\ reader'[s].line = reader[s].line /\ reader'[s].stage = reader[s].stage
                           /\ reader'[s].todo = reader[s].todo
      <4>1. CASE reader' = [reader EXCEPT ![cmd.token].queued = TRUE]
        BY <1>2, <3>1, <4>1 DEF ReaderType
      <4>2. QED
        BY <3>1, <4>1
    <3>3. \A s \in Token : NoNewOutput(wire[s], wire'[s])
      BY <3>1, NoOutputIn
    <3>4. \A d \in Id : written[d] <= written'[d]
      BY <1>2, <3>1
    <3>5. QED
      BY <1>4, <2>0, <3>1, <3>2, <3>3, <3>4
  <2>3. ASSUME reader' = reader, written' = written, \A s \in Token : shown'[s] \in {shown[s], <<>>},
               \A s \in Token : wire'[s] = wire[s] \/ wire'[s] = wire[s] \o <<Exit, End>>
        PROVE  \A s \in Token : Ordered(s)'
    <3>1. \A s \in Token : NoNewOutput(wire[s], wire[s]) /\ NoNewOutput(wire[s], wire[s] \o <<Exit, End>>)
      BY <1>2, NoOutputIn, NoOutputAfter
    <3>2. \A s \in Token : NoNewOutput(wire[s], wire'[s])
      BY <2>3, <3>1
    <3>3. QED
      BY <1>2, <1>4, <2>0, <2>3, <3>2
  <2>4. ASSUME NEW d \in Id, EndRun(d, "exited") \/ EndRun(d, "deleted") \/ wire' = wire
        PROVE  \A s \in Token : wire'[s] = wire[s] \/ wire'[s] = wire[s] \o <<Exit, End>>
    <3>1. CASE EndRun(d, "exited")
      BY <3>1, EndRunIs
    <3>2. CASE EndRun(d, "deleted")
      BY <3>2, EndRunIs
    <3>3. QED
      BY <2>4, <3>1, <3>2
  <2>5. CASE SendOnce
    <3>1. arc[cmd.token].daemon \in Id
      BY <2>5, AgentsHaveDaemons DEF SendOnce, Commanding, Asking
    <3>2. /\ reader' = reader /\ written' = written /\ shown' = shown
          /\ EndRun(arc[cmd.token].daemon, "exited") \/ wire' = wire
      BY <2>5 DEF SendOnce, NotEnded
    <3>3. QED
      BY <2>3, <2>4, <3>1, <3>2
  <2>6. ASSUME NEW d \in Id, Runs(d), ~ Prints(d) PROVE \A s \in Token : Ordered(s)'
    <3>1. /\ reader' = reader /\ written' = written
          /\ Remove(d) \/ shown' = shown
          /\ EndRun(d, "exited") \/ EndRun(d, "deleted") \/ wire' = wire
      BY <2>6 DEF Runs, DeleteView, DeleteRecord, DeleteRegistry, ProgramEnds, Deleted, NotEnded
    <3>2. \A s \in Token : shown'[s] \in {shown[s], <<>>}
      BY <3>1, RemoveIs
    <3>3. QED
      BY <2>3, <2>4, <3>1, <3>2
  <2>7. ASSUME NEW d \in Id, Prints(d) PROVE \A s \in Token : Ordered(s)'
    <3>1. /\ reader' = reader /\ shown' = shown /\ arc' = arc /\ written' = [written EXCEPT ![d] = @ + 1]
          /\ written[d] < MaxOutput
          /\ wire' = [t \in Token |-> IF t \in SubscribersOf(d)
                                      THEN Append(wire[t], Output(written[d] + 1)) ELSE wire[t]]
      BY <2>7 DEF Prints
    <3>2. written'[d] = written[d] + 1 /\ \A e \in Id : written[e] <= written'[e]
      BY <1>2, <3>1 DEF TypeOK
    <3>3. written[d] + 1 \in 1..MaxOutput
      BY <1>2, <3>1, TerminalSessionsAssumption
    <3>4. ASSUME NEW s \in Token, s \notin SubscribersOf(d) PROVE Ordered(s)'
      BY <1>4, <2>0, <3>1, <3>2, <3>4, NoOutputIn
    <3>5. ASSUME NEW s \in SubscribersOf(d), s \in Token PROVE Ordered(s)'
      <4>1. s \in attached /\ arc[s].daemon = d /\ reader[s].stage = "live"
        BY <3>5 DEF SubscribersOf, Streams, Streaming
      <4>2. Source(s) = wire[s] /\ Source(s)' = Append(wire[s], Output(written[d] + 1))
        BY <3>1, <3>5, <4>1 DEF Source
      <4>3. InOrder(shown[s], reader[s].line, wire[s]) /\ Within(shown[s], reader[s].line, wire[s], written[d])
        BY <1>1, <3>5, <4>1, <4>2 DEF Ordered
      <4>4. PICK n \in Nat : n = written[d]
        BY <1>2
      <4>5. /\ InOrder(shown[s], reader[s].line, Append(wire[s], Output(n + 1)))
            /\ Within(shown[s], reader[s].line, Append(wire[s], Output(n + 1)), n + 1)
        BY <1>2, <3>3, <3>5, <4>3, <4>4, OutputAdded
      <4>6. QED
        BY <3>1, <3>2, <4>1, <4>2, <4>4, <4>5 DEF Ordered, Early
    <3>6. QED
      BY <3>4, <3>5 DEF SubscribersOf
  <2>8. ASSUME NEW t \in Token, EndsView(t) \/ EndsPty(t) \/ EndsStream(t) \/ LosesView(t)
        PROVE  \A s \in Token : Ordered(s)'
    <3>1. /\ Stops(t) /\ written' = written /\ arc[t].view \in Id
          /\ Remove(arc[t].view) \/ shown' = shown
      BY <2>8, AgentsHaveDaemons DEF EndsView, ReaderEnds, EndsPty, WaiterEnds, EndsStream, StreamEnds, LosesView, runs
    <3>2. \A s \in Token : shown'[s] \in {shown[s], <<>>}
      BY <3>1, RemoveIs
    <3>3. /\ wire'[t] = <<>> /\ reader'[t].stage = "done" /\ reader'[t].line = NoLine
          /\ \A s \in Token \ {t} : reader'[s] = reader[s] /\ wire'[s] = wire[s]
      BY <3>1, StopsIs
    <3>4. Source(t)' = <<>>
      BY <3>3 DEF Source
    <3>5. Ordered(t)'
      <4>1. NoNewOutput(Source(t), Source(t)')
        BY <3>4, NoOutputIn
      <4>2. HoldsLine(t) /\ reader'[t].stage \notin Early
        BY <1>2, <3>3 DEF HoldsLine, Early
      <4>3. \A d \in Id : written[d] <= written'[d]
        BY <1>2, <3>1
      <4>4. QED
        BY <1>3, <2>0, <3>2, <4>1, <4>2, <4>3
    <3>6. QED
      BY <1>5, <2>0, <3>1, <3>2, <3>3, <3>5
  <2>10. ASSUME NEW t \in Token, Ordered(t)', shown' = shown, written' = written,
                \A s \in Token \ {t} : reader'[s] = reader[s] /\ wire'[s] = wire[s]
         PROVE  \A s \in Token : Ordered(s)'
    BY <1>5, <2>0, <2>10
  <2>11. ASSUME NEW t \in Token, Made(t), GetsHistory(t) PROVE \A s \in Token : Ordered(s)'
    <3> DEFINE h == [n \in 1..written[arc[t].daemon] |-> Output(n)]
    <3>1. /\ reader[t].stage = "history" /\ reader' = [reader EXCEPT ![t].stage = "replay", ![t].todo = h]
          /\ shown' = shown /\ written' = written /\ wire' = wire /\ arc' = arc
      BY <2>11 DEF GetsHistory, runs
    <3>2. reader'[t].stage = "replay" /\ reader'[t].todo = h /\ reader'[t].line = reader[t].line
          /\ \A s \in Token \ {t} : reader'[s] = reader[s]
      <4> HIDE DEF h
      <4>1. QED
        BY <1>2, <3>1 DEF ReaderType
    <3>3. Source(t)' = h
      BY <3>2 DEF Source
    <3>4. reader[t].line = NoLine /\ arc[t].daemon \in Id
      BY <2>11, <3>1, AgentsHaveDaemons DEF Streams, Streaming, AgentStage
    <3>5. shown[t] = <<>>
      BY <1>1, <3>1 DEF Ordered, Early
    <3>6. PICK n \in Nat : n = written[arc[t].daemon]
      BY <1>2, <3>4
    <3>7. InOrder(<<>>, NoLine, h) /\ Within(<<>>, NoLine, h, written[arc[t].daemon])
      BY <1>2, <3>6, HistoryIs
    <3>8. Ordered(t)'
      <4> HIDE DEF h
      <4>1. QED
        BY <3>1, <3>2, <3>3, <3>4, <3>5, <3>7 DEF Ordered, Early
    <3>9. QED
      BY <2>10, <3>1, <3>2, <3>8
  <2>12. ASSUME NEW t \in Token, Made(t), HistoryShown(t) PROVE \A s \in Token : Ordered(s)'
    <3>1. /\ wire' = wire /\ shown' = shown /\ written' = written /\ reader[t].stage = "replay" /\ reader[t].todo = <<>>
          /\ \/ reader' = [reader EXCEPT ![t].stage = "done"]
             \/ \E x \in {"subscribe", "done"} : reader' = [reader EXCEPT ![t].then = "end", ![t].stage = x]
      BY <2>12 DEF HistoryShown, runs
    <3>2. /\ reader'[t].stage \in {"subscribe", "done"} /\ reader'[t].line = reader[t].line
          /\ \A s \in Token \ {t} : reader'[s] = reader[s]
      <4>1. CASE reader' = [reader EXCEPT ![t].stage = "done"]
        BY <1>2, <4>1 DEF ReaderType
      <4>2. CASE \E x \in {"subscribe", "done"} : reader' = [reader EXCEPT ![t].then = "end", ![t].stage = x]
        BY <1>2, <4>2 DEF ReaderType
      <4>3. QED
        BY <3>1, <4>1, <4>2
    <3>3. wire[t] = <<>>
      BY <3>1 DEF Streams, Streaming
    <3>4. Source(t) = <<>> /\ Source(t)' = <<>>
      BY <3>1, <3>2, <3>3 DEF Source
    <3>5. Ordered(t)'
      <4>1. NoNewOutput(Source(t), Source(t)')
        BY <3>4, NoOutputIn
      <4>2. HoldsLine(t) /\ reader'[t].stage \notin Early
        BY <3>2 DEF HoldsLine, Early
      <4>3. \A d \in Id : written[d] <= written'[d]
        BY <1>2, <3>1
      <4>4. QED
        BY <1>3, <2>0, <3>1, <4>1, <4>2, <4>3
    <3>6. QED
      BY <2>10, <3>1, <3>2, <3>5
  <2>13. ASSUME NEW t \in Token, Joins(t) PROVE \A s \in Token : Ordered(s)'
    <3>1. /\ reader[t].stage = "subscribe" /\ reader' = [reader EXCEPT ![t].stage = "live"]
          /\ wire' = wire \/ wire' = [wire EXCEPT ![t] = <<End>>]
          /\ shown' = shown /\ written' = written
      BY <2>13 DEF Joins, runs
    <3>2. /\ reader'[t].stage = "live" /\ reader'[t].line = reader[t].line
          /\ \A s \in Token \ {t} : reader'[s] = reader[s]
      BY <1>2, <3>1 DEF ReaderType
    <3>3. wire[t] = <<>>
      BY <3>1 DEF Streams, Streaming
    <3>4. wire'[t] \in {<<>>, <<End>>} /\ \A s \in Token \ {t} : wire'[s] = wire[s]
      BY <1>2, <3>1, <3>3
    <3>5. Source(t) = <<>> /\ Source(t)' \in {<<>>, <<End>>}
      BY <3>1, <3>2, <3>3, <3>4 DEF Source
    <3>6. Ordered(t)'
      <4>1. NoNewOutput(Source(t), Source(t)')
        BY <3>5, NoOutputIn
      <4>2. HoldsLine(t) /\ reader'[t].stage \notin Early
        BY <3>2 DEF HoldsLine, Early
      <4>3. \A d \in Id : written[d] <= written'[d]
        BY <1>2, <3>1
      <4>4. QED
        BY <1>3, <2>0, <3>1, <4>1, <4>2, <4>3
    <3>7. QED
      BY <2>10, <3>1, <3>2, <3>4, <3>6
  <2>14. ASSUME NEW t \in Token, GetsLine(t) PROVE \A s \in Token : Ordered(s)'
    <3>1. /\ reader[t].stage \in {"replay", "live"} /\ Source(t) # <<>>
          /\ reader' = [reader EXCEPT ![t].line = Head(Source(t)),
                   ![t].todo = IF reader[t].stage = "replay" THEN Tail(@) ELSE @]
          /\ wire' = IF reader[t].stage = "live" THEN [wire EXCEPT ![t] = Tail(@)] ELSE wire
          /\ shown' = shown /\ written' = written /\ arc' = arc
      BY <2>14 DEF GetsLine, runs
    <3>2. /\ reader'[t].stage = reader[t].stage /\ reader'[t].line = Head(Source(t))
          /\ reader'[t].todo = IF reader[t].stage = "replay" THEN Tail(reader[t].todo) ELSE reader[t].todo
          /\ \A s \in Token \ {t} : reader'[s] = reader[s]
      BY <1>2, <3>1 DEF ReaderType
    <3>3. /\ wire'[t] = IF reader[t].stage = "live" THEN Tail(wire[t]) ELSE wire[t]
          /\ \A s \in Token \ {t} : wire'[s] = wire[s]
      BY <1>2, <3>1
    <3>4. Source(t)' = Tail(Source(t))
      BY <3>1, <3>2, <3>3 DEF Source
    <3>5. InOrder(shown[t], reader[t].line, Source(t))
      BY <1>1 DEF Ordered
    <3>6. /\ InOrder(shown[t], Head(Source(t)), Tail(Source(t)))
          /\ \A n \in Nat : Within(shown[t], reader[t].line, Source(t), n) => Within(shown[t], Head(Source(t)), Tail(Source(t)), n)
      BY <1>2, <3>1, <3>5, OutputTaken
    <3>7. Ordered(t)'
      <4>1. arc[t].daemon \in Id => /\ Within(shown[t], reader[t].line, Source(t), written[arc[t].daemon])
                                   /\ written[arc[t].daemon] \in Nat
        BY <1>1, <1>2 DEF Ordered
      <4>2. QED
        BY <3>1, <3>2, <3>4, <3>6, <4>1 DEF Ordered, Early
    <3>8. QED
      BY <2>10, <3>1, <3>2, <3>3, <3>7
  <2>15. ASSUME NEW t \in Token, Made(t), HandleOutput(t) PROVE \A s \in Token : Ordered(s)'
    <3>1. /\ reader[t].line[1] = "output" /\ reader' = [reader EXCEPT ![t].line = NoLine]
          /\ wire' = wire /\ written' = written /\ arc' = arc
          /\ shown' = IF sessions[arc[t].view] = None THEN shown
                      ELSE [shown EXCEPT ![sessions[arc[t].view]] = Append(@, reader[t].line[2])]
          /\ strays' = IF sessions[arc[t].view] \in {None, t} THEN strays ELSE [strays EXCEPT ![t] = @ + 1]
      BY <2>15 DEF HandleOutput, Push, runs
    <3>2. /\ reader'[t].line = NoLine /\ reader'[t].stage = reader[t].stage /\ reader'[t].todo = reader[t].todo
          /\ \A s \in Token \ {t} : reader'[s] = reader[s]
      BY <1>2, <3>1 DEF ReaderType
    <3>3. sessions[arc[t].view] \in {None, t}
      <4>1. CASE sessions[arc[t].view] \notin {None, t}
        <5>1. strays' = [strays EXCEPT ![t] = @ + 1] /\ strays \in [Token -> Nat]
          BY <3>1, <4>1 DEF TypeOK
        <5>2. strays'[t] = strays[t] + 1 /\ strays[t] \in Nat
          BY <5>1
        <5>3. strays'[t] = 0
          OBVIOUS
        <5>4. QED
          BY <5>2, <5>3
      <4>2. QED
        BY <4>1
    <3>4. Source(t)' = Source(t)
      BY <3>1, <3>2 DEF Source
    <3>5. ASSUME NEW s \in Token \ {t}, shown'[s] = shown[s] PROVE Ordered(s)'
      BY <1>5, <2>0, <3>1, <3>2, <3>5
    <3>6. CASE sessions[arc[t].view] = None
      <4>1. shown' = shown
        BY <3>1, <3>6
      <4>2. Ordered(t)'
        <5>1. NoNewOutput(Source(t), Source(t)')
          BY <3>4, NoOutputIn
        <5>2. HoldsLine(t) /\ reader'[t].stage = reader[t].stage
          BY <1>2, <3>2 DEF HoldsLine
        <5>3. \A d \in Id : written[d] <= written'[d]
          BY <1>2, <3>1
        <5>4. QED
          BY <1>3, <2>0, <4>1, <5>1, <5>2, <5>3
      <4>3. QED
        BY <3>5, <4>1, <4>2
    <3>7. CASE sessions[arc[t].view] = t
      <4>1. shown' = [shown EXCEPT ![t] = Append(@, reader[t].line[2])] /\ shown \in [Token -> Seq(1..MaxOutput)]
        BY <3>1, <3>7, NoneIsNothing DEF TypeOK
      <4>2. shown'[t] = Append(shown[t], reader[t].line[2]) /\ \A s \in Token \ {t} : shown'[s] = shown[s]
        BY <4>1
      <4>3. InOrder(shown[t], reader[t].line, Source(t))
        BY <1>1 DEF Ordered
      <4>4. /\ InOrder(Append(shown[t], reader[t].line[2]), NoLine, Source(t))
            /\ \A n \in Nat : Within(shown[t], reader[t].line, Source(t), n) => Within(Append(shown[t], reader[t].line[2]), NoLine, Source(t), n)
        BY <1>2, <3>1, <4>3, OutputShown
      <4>5. reader[t].stage \notin Early
        BY <1>2, <3>1 DEF Streams, Streaming, Early
      <4>6. arc[t].daemon \in Id => /\ Within(shown[t], reader[t].line, Source(t), written[arc[t].daemon])
                                   /\ written[arc[t].daemon] \in Nat
        BY <1>1, <1>2 DEF Ordered
      <4>7. Ordered(t)'
        BY <3>1, <3>2, <3>4, <4>2, <4>4, <4>5, <4>6 DEF Ordered
      <4>8. QED
        BY <3>5, <4>2, <4>7
    <3>8. QED
      BY <3>3, <3>6, <3>7
  <2>16. ASSUME NEW t \in Token, HandleResponse(t) \/ Carry(t) \/ Answer(t) PROVE \A s \in Token : Ordered(s)'
    <3>1. /\ shown' = shown /\ written' = written
          /\ \/ reader' = [reader EXCEPT ![t].line = NoLine]
             \/ reader' = [reader EXCEPT ![t].queued = FALSE, ![t].request = "sent"]
             \/ reader' = [reader EXCEPT ![t].queued = FALSE]
             \/ reader' = [reader EXCEPT ![t].request = "none"]
          /\ \/ wire' = wire
             \/ wire' = [wire EXCEPT ![t] = @ \o <<Response, End>>]
             \/ wire' = [wire EXCEPT ![t] = @ \o <<Response>>]
      BY <2>16 DEF HandleResponse, Carry, Answer, runs
    <3>2. /\ reader'[t].line \in {reader[t].line, NoLine} /\ reader'[t].stage = reader[t].stage
          /\ reader'[t].todo = reader[t].todo
          /\ \A s \in Token \ {t} : reader'[s] = reader[s]
      <4>1. CASE reader' = [reader EXCEPT ![t].line = NoLine]
        BY <1>2, <4>1 DEF ReaderType
      <4>2. CASE reader' = [reader EXCEPT ![t].queued = FALSE, ![t].request = "sent"]
        BY <1>2, <4>2 DEF ReaderType
      <4>3. CASE reader' = [reader EXCEPT ![t].queued = FALSE]
        BY <1>2, <4>3 DEF ReaderType
      <4>4. CASE reader' = [reader EXCEPT ![t].request = "none"]
        BY <1>2, <4>4 DEF ReaderType
      <4>5. QED
        BY <3>1, <4>1, <4>2, <4>3, <4>4
    <3>3. /\ wire'[t] = wire[t] \/ wire'[t] = wire[t] \o <<Response, End>> \/ wire'[t] = wire[t] \o <<Response>>
          /\ \A s \in Token \ {t} : wire'[s] = wire[s]
      BY <1>2, <3>1
    <3>4. NoNewOutput(wire[t], wire'[t])
      BY <1>2, <3>3, NoOutputIn, NoOutputAfter
    <3>5. NoNewOutput(Source(t), Source(t)')
      BY <3>2, <3>4, NoOutputIn DEF Source
    <3>6. HoldsLine(t)
      BY <1>2, <3>2 DEF HoldsLine
    <3>7. \A d \in Id : written[d] <= written'[d]
      BY <1>2, <3>1
    <3>8. Ordered(t)'
      BY <1>3, <2>0, <3>1, <3>2, <3>5, <3>6, <3>7
    <3>9. QED
      BY <2>10, <3>1, <3>2, <3>3, <3>8
  <2>17. ASSUME NEW t \in Token, Pauses(t) PROVE \A s \in Token : Ordered(s)'
    <3>1. /\ shown' = shown /\ written' = written /\ wire' = wire
          /\ reader'[t].line = reader[t].line /\ reader'[t].todo = reader[t].todo
          /\ \A s \in Token \ {t} : reader'[s] = reader[s]
          /\ \/ reader'[t].stage = reader[t].stage
             \/ {reader[t].stage, reader'[t].stage} \subseteq {"subscribe", "asks"}
      BY <2>17 DEF Pauses, runs
    <3>2. Source(t)' = Source(t) /\ HoldsLine(t) /\ (reader'[t].stage \in Early => reader[t].stage \in Early)
      BY <3>1 DEF Source, HoldsLine, Early
    <3>3. NoNewOutput(Source(t), Source(t)')
      BY <3>2, NoOutputIn
    <3>4. \A d \in Id : written[d] <= written'[d]
      BY <1>2, <3>1
    <3>5. Ordered(t)'
      BY <1>3, <2>0, <3>1, <3>2, <3>3, <3>4
    <3>6. QED
      BY <2>10, <3>1, <3>5
  <2>18. ASSUME NEW t \in Token, Made(t), GoesOn(t) PROVE \A s \in Token : Ordered(s)'
    BY <2>11, <2>12, <2>13, <2>14, <2>15, <2>16, <2>17, <2>18 DEF GoesOn
  <2>19. QED
    BY <1>7, <2>1, <2>2, <2>5, <2>6, <2>7, <2>8, <2>18 DEF Cases
<1>8. QED
  BY <1>6, <1>7

-----------------------------------------------------------------------------
(* How a view closes alone.                                                *)

\* A reader that ended does not start again, and one that is live only ends.
StagesGo(s) == /\ reader[s].stage = "done" => reader'[s].stage = "done"
               /\ reader[s].stage = "live" => reader'[s].stage \in {"live", "done"}
               /\ reader'[s].stage = "asks" => remote \/ reader[s].stage = "asks"
\* A response is read from the wire, and written into it by the daemon's answer.
ResponseAt(s) == reader[s].line = Response \/ Has(wire[s])
ReaderGoes(s) ==
    /\ StagesGo(s)
    /\ Answer(s) \/ (ResponseAt(s)' => ResponseAt(s))

LEMMA ReadersGo ==
  ASSUME TypeOK, Objects, Streams, Placing, Commanding, Requests, Cases, ~ MakeView, NEW s \in Token
  PROVE  ReaderGoes(s)
<1>1. /\ reader \in [Token -> ReaderType] /\ wire \in [Token -> Seq(Line)] /\ wire[s] \in Seq(Line)
      /\ NoLine # Response
  BY LineIs DEF TypeOK
<1>2. ASSUME reader'[s].stage = reader[s].stage, reader'[s].line \in {reader[s].line, NoLine},
             Has(wire'[s]) <=> Has(wire[s])
      PROVE  ReaderGoes(s)
  BY <1>1, <1>2 DEF ReaderGoes, StagesGo, ResponseAt
<1>3. ASSUME reader'[s] = reader[s], wire'[s] = wire[s] PROVE ReaderGoes(s)
  BY <1>2, <1>3
<1>4. CASE \/ Takes \/ Finish
           \/ \E v \in Id, w \in windows : Transfer(v, w)
  BY <1>3, <1>4 DEF Takes, Finish, Transfer, threads
<1>5. CASE SendControl
  <2>1. /\ wire' = wire /\ cmd.token \in Token
        /\ reader' = [reader EXCEPT ![cmd.token].queued = TRUE] \/ reader' = reader
    BY <1>5 DEF SendControl, Commanding, Asking
  <2>2. reader'[s].stage = reader[s].stage /\ reader'[s].line = reader[s].line
    <3>1. CASE reader' = [reader EXCEPT ![cmd.token].queued = TRUE]
      BY <1>1, <2>1, <3>1 DEF ReaderType
    <3>2. QED
      BY <2>1, <3>1
  <2>3. QED
    BY <1>2, <2>1, <2>2
<1>6. ASSUME NEW d \in Id, EndRun(d, "exited") \/ EndRun(d, "deleted") \/ wire' = wire, reader' = reader
      PROVE  ReaderGoes(s)
  <2>1. wire'[s] = wire[s] \/ wire'[s] = wire[s] \o <<Exit, End>>
    <3>1. CASE EndRun(d, "exited")
      BY <3>1, EndRunIs
    <3>2. CASE EndRun(d, "deleted")
      BY <3>2, EndRunIs
    <3>3. QED
      BY <1>6, <3>1, <3>2
  <2>2. Has(wire[s] \o <<Exit, End>>) <=> Has(wire[s])
    BY <1>1, NoResponseAtEnd
  <2>3. QED
    BY <1>2, <1>6, <2>1, <2>2
<1>7. CASE SendOnce
  <2>1. arc[cmd.token].daemon \in Id
    BY <1>7, AgentsHaveDaemons DEF SendOnce, Commanding, Asking
  <2>2. reader' = reader /\ (EndRun(arc[cmd.token].daemon, "exited") \/ wire' = wire)
    BY <1>7 DEF SendOnce, NotEnded
  <2>3. QED
    BY <1>6, <2>1, <2>2
<1>8. ASSUME NEW d \in Id, Runs(d) PROVE ReaderGoes(s)
  <2>1. reader' = reader
    BY <1>8 DEF Runs, DeleteView, DeleteRecord, DeleteRegistry, Prints, ProgramEnds
  <2>2. CASE Prints(d)
    <3>1. Output(written[d] + 1) \in Line \ {Response}
      <4>1. written[d] + 1 \in 1..MaxOutput
        BY <2>2, TerminalSessionsAssumption DEF Prints, TypeOK
      <4>2. QED
        BY <4>1, LineIs
    <3>2. wire'[s] = wire[s] \/ wire'[s] = Append(wire[s], Output(written[d] + 1))
      BY <2>2 DEF Prints
    <3>3. Has(wire'[s]) <=> Has(wire[s])
      <4>1. PICK x \in Line \ {Response} : x = Output(written[d] + 1)
        BY <3>1
      <4>2. QED
        BY <1>1, <3>2, <4>1, NoResponseAfter
    <3>4. QED
      BY <1>2, <2>1, <3>3
  <2>3. CASE ~ Prints(d)
    <3>1. EndRun(d, "exited") \/ EndRun(d, "deleted") \/ wire' = wire
      BY <1>8, <2>3 DEF Runs, DeleteView, DeleteRecord, DeleteRegistry, ProgramEnds, Deleted, NotEnded
    <3>2. QED
      BY <1>6, <2>1, <3>1
  <2>4. QED
    BY <2>2, <2>3
<1>9. ASSUME NEW t \in Token, EndsView(t) \/ EndsPty(t) \/ EndsStream(t) \/ LosesView(t) PROVE ReaderGoes(s)
  <2>1. Stops(t)
    BY <1>9 DEF EndsView, ReaderEnds, EndsPty, WaiterEnds, EndsStream, StreamEnds, LosesView
  <2>2. /\ wire'[t] = <<>> /\ reader'[t].stage = "done" /\ reader'[t].line = NoLine
        /\ \A u \in Token \ {t} : reader'[u] = reader[u] /\ wire'[u] = wire[u]
    BY <2>1, StopsIs
  <2>3. CASE s = t
    BY <1>1, <2>2, <2>3, NoResponse DEF ReaderGoes, StagesGo, ResponseAt
  <2>4. QED
    BY <1>3, <2>2, <2>3
<1>11. ASSUME NEW t \in Token, GetsHistory(t) PROVE ReaderGoes(s)
  <2>1. /\ wire' = wire /\ reader[t].stage = "history"
        /\ reader' = [reader EXCEPT ![t].stage = "replay",
              ![t].todo = [n \in 1..written[arc[t].daemon] |-> Output(n)]]
    BY <1>11 DEF GetsHistory
  <2>2. /\ reader'[t].line = reader[t].line /\ reader'[t].stage = "replay"
        /\ \A u \in Token \ {t} : reader'[u] = reader[u]
    BY <1>1, <2>1 DEF ReaderType
  <2>3. QED
    BY <1>3, <2>1, <2>2 DEF ReaderGoes, StagesGo, ResponseAt
<1>12. ASSUME NEW t \in Token, HistoryShown(t) PROVE ReaderGoes(s)
  <2>1. /\ wire' = wire /\ reader[t].stage = "replay"
        /\ \/ reader' = [reader EXCEPT ![t].stage = "done"]
           \/ \E x \in {"subscribe", "done"} : reader' = [reader EXCEPT ![t].then = "end", ![t].stage = x]
    BY <1>12 DEF HistoryShown
  <2>2. /\ reader'[t].line = reader[t].line /\ reader'[t].stage # "asks"
        /\ \A u \in Token \ {t} : reader'[u] = reader[u]
    <3>1. CASE reader' = [reader EXCEPT ![t].stage = "done"]
      BY <1>1, <3>1 DEF ReaderType
    <3>2. CASE \E x \in {"subscribe", "done"} : reader' = [reader EXCEPT ![t].then = "end", ![t].stage = x]
      BY <1>1, <3>2 DEF ReaderType
    <3>3. QED
      BY <2>1, <3>1, <3>2
  <2>3. QED
    BY <1>3, <2>1, <2>2 DEF ReaderGoes, StagesGo, ResponseAt
<1>13. ASSUME NEW t \in Token, Joins(t) PROVE ReaderGoes(s)
  <2>1. /\ reader[t].stage = "subscribe" /\ reader' = [reader EXCEPT ![t].stage = "live"]
        /\ wire' = wire \/ wire' = [wire EXCEPT ![t] = <<End>>]
    BY <1>13 DEF Joins
  <2>2. reader'[t].line = reader[t].line /\ \A u \in Token \ {t} : reader'[u] = reader[u]
    BY <1>1, <2>1 DEF ReaderType
  <2>3. (wire'[t] = wire[t] \/ wire'[t] = <<End>>) /\ \A u \in Token \ {t} : wire'[u] = wire[u]
    BY <1>1, <2>1
  <2>4. QED
    BY <1>3, <2>1, <2>2, <2>3, NoResponse DEF ReaderGoes, StagesGo, ResponseAt
<1>14. ASSUME NEW t \in Token, GetsLine(t) PROVE ReaderGoes(s)
  <2>1. /\ reader[t].stage \in {"replay", "live"} /\ Source(t) # <<>>
        /\ reader' = [reader EXCEPT ![t].line = Head(Source(t)),
                 ![t].todo = IF reader[t].stage = "replay" THEN Tail(@) ELSE @]
        /\ wire' = IF reader[t].stage = "live" THEN [wire EXCEPT ![t] = Tail(@)] ELSE wire
    BY <1>14 DEF GetsLine
  <2>2. /\ reader'[t].stage = reader[t].stage /\ reader'[t].line = Head(Source(t))
        /\ \A u \in Token \ {t} : reader'[u] = reader[u] /\ wire'[u] = wire[u]
    BY <1>1, <2>1 DEF ReaderType
  <2>3. CASE reader[t].stage = "replay"
    <3>1. reader[t].todo # <<>> /\ reader[t].todo \in Seq(Line) /\ Head(Source(t)) = Head(reader[t].todo) /\ wire' = wire
      BY <1>1, <2>1, <2>3 DEF Source, ReaderType
    <3>2. Head(reader[t].todo)[1] = "output"
      BY <3>1, FirstAndRest DEF Streams, Streaming
    <3>3. Head(Source(t)) # Response
      BY <3>1, <3>2, LineIs
    <3>4. QED
      BY <1>3, <2>2, <3>1, <3>3 DEF ReaderGoes, StagesGo, ResponseAt
  <2>4. CASE reader[t].stage = "live"
    <3>1. wire[t] # <<>> /\ Head(Source(t)) = Head(wire[t]) /\ wire'[t] = Tail(wire[t]) /\ wire[t] \in Seq(Line)
      BY <1>1, <2>1, <2>4 DEF Source
    <3>2. Single(wire[t])
      BY DEF Requests, OneRequest, Single
    <3>3. ResponseAt(t)' => ResponseAt(t)
      BY <2>2, <3>1, <3>2, ResponseTaken DEF ResponseAt
    <3>4. QED
      BY <1>3, <2>2, <3>3 DEF ReaderGoes, StagesGo
  <2>5. QED
    BY <2>1, <2>3, <2>4
<1>15. ASSUME NEW t \in Token, HandleOutput(t) \/ HandleResponse(t) \/ Carry(t) PROVE ReaderGoes(s)
  <2>1. /\ wire' = wire
        /\ \/ reader' = [reader EXCEPT ![t].line = NoLine]
           \/ reader' = [reader EXCEPT ![t].queued = FALSE, ![t].request = "sent"]
           \/ reader' = [reader EXCEPT ![t].queued = FALSE]
    BY <1>15 DEF HandleOutput, HandleResponse, Carry
  <2>2. reader'[s].line \in {reader[s].line, NoLine} /\ reader'[s].stage = reader[s].stage
    <3>1. CASE reader' = [reader EXCEPT ![t].line = NoLine]
      BY <1>1, <3>1 DEF ReaderType
    <3>2. CASE reader' = [reader EXCEPT ![t].queued = FALSE, ![t].request = "sent"]
      BY <1>1, <3>2 DEF ReaderType
    <3>3. CASE reader' = [reader EXCEPT ![t].queued = FALSE]
      BY <1>1, <3>3 DEF ReaderType
    <3>4. QED
      BY <2>1, <3>1, <3>2, <3>3
  <2>3. QED
    BY <1>2, <2>1, <2>2
<1>16. ASSUME NEW t \in Token, Answer(t) PROVE ReaderGoes(s)
  <2>1. /\ reader' = [reader EXCEPT ![t].request = "none"]
        /\ \/ wire' = [wire EXCEPT ![t] = @ \o <<Response, End>>]
           \/ wire' = [wire EXCEPT ![t] = @ \o <<Response>>]
    BY <1>16 DEF Answer
  <2>2. /\ reader'[t].stage = reader[t].stage
        /\ \A u \in Token \ {t} : reader'[u] = reader[u] /\ wire'[u] = wire[u]
    BY <1>1, <2>1 DEF ReaderType
  <2>3. QED
    BY <1>3, <1>16, <2>2 DEF ReaderGoes, StagesGo
<1>17. ASSUME NEW t \in Token, Pauses(t) PROVE ReaderGoes(s)
  <2>1. CASE reader'[s] = reader[s]
    BY <1>3, <1>17, <2>1 DEF Pauses
  <2>2. CASE reader'[s] # reader[s]
    <3>1. /\ reader[s].stage \in {"subscribe", "asks"} /\ reader'[s].stage \in {"subscribe", "asks"}
          /\ reader'[s].stage = "asks" => remote
          /\ reader'[s].line = reader[s].line /\ wire' = wire
      BY <1>17, <2>2 DEF Pauses
    <3>2. QED
      BY <3>1 DEF ReaderGoes, StagesGo, ResponseAt
  <2>3. QED
    BY <2>1, <2>2
<1>18. ASSUME NEW t \in Token, GoesOn(t) PROVE ReaderGoes(s)
  BY <1>11, <1>12, <1>13, <1>14, <1>15, <1>16, <1>17, <1>18 DEF GoesOn
<1>19. QED
  BY <1>4, <1>5, <1>7, <1>8, <1>9, <1>18 DEF Cases

\* Only a reader over SSH asks.
LEMMA PromptingInductive ==
  ASSUME TypeOK, Objects, Streams, Placing, Commanding, Requests, Prompting, Cases
  PROVE  Prompting'
<1>1. CASE MakeView
  <2>1. MakingIsSeen
    BY <1>1, MakeViewIs
  <2>2. remote' = remote
    BY <2>1 DEF MakingIsSeen, host
  <2>3. CASE UNCHANGED <<arc, views, reader, records>>
    BY <2>2, <2>3 DEF Prompting
  <2>4. CASE \E w \in windows : Made1(w)
    <3>1. PICK w \in windows, t \in Token, a \in ArcType, r \in ReaderType :
              ~ Made(t) /\ Open(t, w, a, r) /\ NewObject(a, r) /\ NewView(a)
      BY <2>4 DEF Made1
    <3>2. w \in Window
      BY DEF TypeOK
    <3>3. reader'[t] = r /\ \A u \in Token \ {t} : reader'[u] = reader[u]
      BY <3>1, <3>2, OpenIs
    <3>4. r.stage # "asks"
      BY <3>1 DEF NewObject
    <3>5. QED
      BY <2>2, <3>3, <3>4 DEF Prompting
  <2>5. QED
    BY <2>1, <2>3, <2>4 DEF MakingIsSeen
<1>2. CASE ~ MakeView
  <2>1. \A s \in Token : StagesGo(s)
    BY <1>2, ReadersGo DEF ReaderGoes
  <2>2. QED
    BY <2>1, HostSame DEF StagesGo, Prompting
<1>3. QED
  BY <1>1, <1>2

\* A helper client is left over by a reader that ends, and by no other.
LEMMA LeftGo ==
  ASSUME TypeOK, Objects, Streams, Placing, Commanding, Cases, NEW s \in Token,
         reader[s].stage = "done", s \notin left
  PROVE  s \notin left'
<1>1. s \notin attached
  BY DEF Streams, Streaming
<1>2. CASE MakeView \/ Takes \/ Finish \/ SendControl \/ \E v \in Id, w \in windows : Transfer(v, w)
  BY <1>2, MakeViewIs DEF MakingIsSeen, Takes, Finish, SendControl, Transfer, threads
<1>3. ASSUME NEW d \in Id, EndRun(d, "exited") \/ EndRun(d, "deleted") \/ left' = left PROVE s \notin left'
  <2>1. left' \subseteq left
    BY <1>3 DEF EndRun
  <2>2. QED
    BY <2>1
<1>4. CASE SendOnce
  <2>1. arc[cmd.token].daemon \in Id
    BY <1>4, AgentsHaveDaemons DEF SendOnce, Commanding, Asking
  <2>2. EndRun(arc[cmd.token].daemon, "exited") \/ left' = left
    BY <1>4 DEF SendOnce, NotEnded
  <2>3. QED
    BY <1>3, <2>1, <2>2
<1>5. ASSUME NEW t \in Token, EndsView(t) \/ EndsPty(t) \/ EndsStream(t) \/ LosesView(t) PROVE s \notin left'
  <2>1. Stops(t)
    BY <1>5 DEF EndsView, ReaderEnds, EndsPty, WaiterEnds, EndsStream, StreamEnds, LosesView
  <2>2. CASE s = t
    BY <1>1, <2>1, <2>2 DEF Stops
  <2>3. CASE s # t
    BY <2>1, <2>3, StopsIs
  <2>4. QED
    BY <2>2, <2>3
<1>6. ASSUME NEW t \in Token, GoesOn(t) PROVE left' \subseteq left
  BY <1>6 DEF GoesOn, GetsHistory, HistoryShown, Joins, GetsLine, HandleOutput, HandleResponse, Carry, Answer, Pauses
<1>7. ASSUME NEW d \in Id, Runs(d) PROVE s \notin left'
  <2>1. EndRun(d, "exited") \/ EndRun(d, "deleted") \/ left' = left
    BY <1>7 DEF Runs, DeleteView, DeleteRecord, DeleteRegistry, Prints, ProgramEnds, Deleted, NotEnded
  <2>2. QED
    BY <1>3, <2>1
<1>8. QED
  BY <1>2, <1>4, <1>5, <1>6, <1>7 DEF Cases

\* A run ends by an answer to the command, by a deletion, or with its program; it never starts
\* again.
LEMMA RunsGo ==
  ASSUME TypeOK, Objects, Commanding, Cases, ~ MakeView, NEW d \in Id
  PROVE  /\ daemon[d] # "running" => daemon'[d] # "running"
         /\ \/ daemon'[d] = daemon[d] \/ SendOnce \/ (\E t \in Token : Answer(t))
            \/ (\E e \in Id : Runs(e))
<1>0. daemon \in [Id -> {"none", "running", "exited", "deleted"}]
  BY DEF TypeOK
<1>1. CASE Takes \/ Finish \/ SendControl \/ \E v \in Id, w \in windows : Transfer(v, w)
  BY <1>1 DEF Takes, Finish, SendControl, Transfer, runs
<1>2. ASSUME NEW e \in Id, \/ EndRun(e, "exited") \/ EndRun(e, "deleted")
                           \/ daemon' = daemon \/ daemon' = [daemon EXCEPT ![e] = "exited"]
      PROVE  daemon[d] # "running" => daemon'[d] # "running"
  BY <1>0, <1>2 DEF EndRun
<1>3. CASE SendOnce
  <2>1. /\ arc[cmd.token].daemon \in Id
        /\ EndRun(arc[cmd.token].daemon, "exited") \/ daemon' = daemon
    BY <1>3, AgentsHaveDaemons DEF SendOnce, NotEnded, Commanding, Asking
  <2>2. QED
    BY <1>2, <1>3, <2>1
<1>4. ASSUME NEW t \in Token, EndsView(t) \/ EndsPty(t) \/ EndsStream(t) \/ LosesView(t) PROVE daemon' = daemon
  BY <1>4 DEF EndsView, ReaderEnds, EndsPty, WaiterEnds, EndsStream, StreamEnds, LosesView, runs
<1>5. ASSUME NEW t \in Token, Made(t), GoesOn(t) PROVE daemon' = daemon \/ (Answer(t) /\ (daemon[d] # "running" => daemon'[d] # "running"))
  <2>1. CASE Answer(t)
    <3>1. daemon' = daemon \/ daemon' = [daemon EXCEPT ![arc[t].daemon] = "exited"]
      BY <2>1 DEF Answer
    <3>2. QED
      BY <1>0, <2>1, <3>1
  <2>2. CASE ~ Answer(t)
    BY <1>5, <2>2 DEF GoesOn, GetsHistory, HistoryShown, Joins, GetsLine, HandleOutput, HandleResponse, Carry, Pauses, runs
  <2>3. QED
    BY <2>1, <2>2
<1>6. ASSUME NEW e \in Id, Runs(e) PROVE daemon[d] # "running" => daemon'[d] # "running"
  <2>1. EndRun(e, "exited") \/ EndRun(e, "deleted") \/ daemon' = daemon
    BY <1>6 DEF Runs, DeleteView, DeleteRecord, DeleteRegistry, Prints, ProgramEnds, Deleted, NotEnded
  <2>2. QED
    BY <1>2, <2>1
<1>7. QED
  BY <1>1, <1>3, <1>4, <1>5, <1>6 DEF Cases

\* A control channel comes with the end of the history.
LEMMA ControlFrom ==
  ASSUME TypeOK, Objects, Placing, Cases, ~ MakeView, NEW s \in Token, arc'[s].control
  PROVE  arc[s].control \/ reader[s].stage = "replay"
<1>1. arc \in [Token -> ArcType]
  BY DEF TypeOK
<1>2. ASSUME NEW t \in Token, Made(t), arc' = Transport(arc[t].view, "ended") \/ arc' = Transport(arc[t].view, "connected")
      PROVE  arc'[s].control = arc[s].control
  BY <1>2, TransportIs, AgentsHaveDaemons
<1>3. CASE \/ \E v \in Id, w \in windows : Transfer(v, w)
           \/ Takes \/ SendControl \/ SendOnce \/ Finish
           \/ \E d \in Id : Runs(d)
  <2>1. arc' = arc
    BY <1>3 DEF Transfer, Takes, SendControl, SendOnce, Finish, Runs, DeleteView, DeleteRecord, DeleteRegistry,
       Prints, ProgramEnds
  <2>2. QED
    BY <2>1
<1>4. ASSUME NEW t \in Token, EndsView(t) \/ EndsPty(t) \/ EndsStream(t) \/ LosesView(t)
      PROVE  arc[s].control
  <2>1. Made(t) /\ (arc' = arc \/ arc' = Transport(arc[t].view, "ended"))
    BY <1>4 DEF EndsView, ReaderEnds, EndsPty, WaiterEnds, EndsStream, StreamEnds, LosesView
  <2>2. QED
    BY <1>2, <2>1
<1>5. ASSUME NEW t \in Token, Made(t), GoesOn(t) PROVE arc[s].control \/ reader[s].stage = "replay"
  <2>1. \/ arc' = arc \/ arc' = Transport(arc[t].view, "ended") \/ arc' = Transport(arc[t].view, "connected")
        \/ (arc' = [arc EXCEPT ![t].control = TRUE] /\ reader[t].stage = "replay")
    BY <1>5 DEF GoesOn, GetsHistory, HistoryShown, Joins, GetsLine, HandleOutput, HandleResponse, Carry, Answer, Pauses
  <2>2. CASE arc' = [arc EXCEPT ![t].control = TRUE] /\ reader[t].stage = "replay"
    <3>1. s # t => arc'[s] = arc[s]
      BY <1>1, <2>2 DEF ArcType
    <3>2. QED
      BY <2>2, <3>1
  <2>3. QED
    BY <1>2, <1>5, <2>1, <2>2
<1>6. QED
  BY <1>3, <1>4, <1>5 DEF Cases

\* Who tells the command that its request was done.
LEMMA OkFrom ==
  ASSUME TypeOK, Objects, Requests, Cases, cmd.step # "ok", cmd'.step = "ok"
  PROVE  /\ cmd.step \in {"found", "wait"} /\ CommandIs("ok")
         /\ SendOnce \/ Local \/ (\E t \in Token : HandleResponse(t) /\ Waits(t))
<1>1. CASE MakeView \/ \E v \in Id, w \in windows : Transfer(v, w)
  BY <1>1, MakeViewIs DEF MakingIsSeen, Transfer
<1>2. CASE Takes /\ ~ Local
  <2>1. CASE NextOfWindow
    <3>1. CASE cmd' = Idle
      BY <3>1 DEF Idle
    <3>2. CASE cmd' # Idle
      <4>1. PICK t \in cmd.rest : cmd' = [cmd EXCEPT !.token = t, !.step = "found", !.rest = @ \ {t}]
        BY <2>1, <3>2 DEF NextOfWindow
      <4>2. cmd'.step = "found"
        BY <4>1 DEF TypeOK, CmdType
      <4>3. QED
        BY <4>2
    <3>3. QED
      BY <3>1, <3>2
  <2>2. CASE ~ NextOfWindow
    BY <1>2, <2>2 DEF Takes, Command, CloseWindow, vars
  <2>3. QED
    BY <2>1, <2>2
<1>3. CASE Finish
  BY <1>3, EndedIs DEF CommandIs, Idle
<1>4. CASE SendControl
  <2>1. CommandIs("wait") \/ CommandIs("failed")
    BY <1>4, CommandTakes DEF SendControl
  <2>2. QED
    BY <2>1 DEF CommandIs
<1>5. CASE Local
  <2>1. cmd.step = "found" /\ (cmd' = [cmd EXCEPT !.step = "failed"] \/ cmd' = [cmd EXCEPT !.step = "ok"])
    BY <1>5 DEF Local
  <2>2. QED
    BY <1>5, <2>1, CommandTakes DEF CommandIs
<1>6. CASE SendOnce
  <2>1. cmd.step = "found" /\ \E x \in {"ok", "failed", "asks"} : cmd' = [cmd EXCEPT !.step = x]
    BY <1>6 DEF SendOnce, OnceAnswers
  <2>2. QED
    BY <1>6, <2>1, CommandTakes DEF CommandIs
<1>7. ASSUME NEW t \in Token, EndsView(t) \/ EndsPty(t) \/ EndsStream(t) \/ LosesView(t) PROVE FALSE
  <2>1. DropRequests(t) \/ cmd' = cmd
    BY <1>7 DEF EndsView, EndsPty, WaiterEnds, EndsStream, StreamEnds, LosesView
  <2>2. cmd'.step \in {cmd.step, "failed"}
    BY <2>1, DropRequestsIs
  <2>3. QED
    BY <2>2
<1>8. ASSUME NEW t \in Token, GoesOn(t) PROVE HandleResponse(t) /\ Waits(t) /\ CommandIs("ok")
  <2>1. CASE HandleResponse(t)
    <3>1. Waits(t) /\ \E x \in {"ok", "failed"} : cmd' = [cmd EXCEPT !.step = x]
      BY <2>1 DEF HandleResponse
    <3>2. QED
      BY <2>1, <3>1, CommandTakes DEF CommandIs
  <2>2. CASE Carry(t)
    <3>1. cmd' = cmd \/ cmd' = [cmd EXCEPT !.step = "failed"]
      BY <2>2 DEF Carry
    <3>2. QED
      BY <3>1, CommandTakes DEF CommandIs
  <2>3. CASE ~ HandleResponse(t) /\ ~ Carry(t)
    BY <1>8, <2>3 DEF GoesOn, GetsHistory, HistoryShown, Joins, GetsLine, HandleOutput, Answer, Pauses
  <2>4. QED
    BY <2>1, <2>2, <2>3
<1>9. ASSUME NEW d \in Id, Runs(d) PROVE cmd' = cmd
  BY <1>9 DEF Runs, DeleteView, DeleteRecord, DeleteRegistry, Prints, ProgramEnds
<1>10. QED
  BY <1>1, <1>2, <1>3, <1>4, <1>5, <1>6, <1>7, <1>8, <1>9 DEF Cases, Waits

LEMMA LonelyInductive ==
  ASSUME TypeOK, Objects, Streams, Map, Commanding, Requests, Lonely, Cases
  PROVE  Lonely'
<1>0. Placing
  BY DEF Map
<1>1. CASE MakeView
  <2>1. cmd' = Idle
    BY <1>1, MakeViewIs DEF MakingIsSeen
  <2>2. QED
    BY <2>1 DEF Lonely, Alone, Idle
<1>2. ASSUME ~ MakeView, Alone' PROVE Lonely'
  <2>1. \A s \in Token : SameObject(s) /\ ReaderGoes(s)
    BY <1>0, <1>2, ObjectsSame, ReadersGo
  <2>2. CASE cmd = Idle
    <3>1. PICK v \in Id, op \in Ops \ {"window"} : Command(op, v)
      <4>1. cmd' # cmd
        BY <1>2, <2>2 DEF Alone, Idle
      <4>2. ~ Finish /\ ~ SendControl /\ ~ Answered /\ ~ NextOfWindow
        BY <2>2 DEF Idle, Finish, SendControl, Answered, NextOfWindow
      <4>3. ~ \E w \in Window : CloseWindow(w)
        BY <1>2 DEF Alone, CloseWindow
      <4>4. QED
        BY <4>1, <4>2, <4>3, CommandMoves DEF Starts
    <3>2. Takes /\ cmd'.token = sessions[v] /\ cmd'.step = "found" /\ cmd'.alone
          /\ (cmd'.alone = (op = "close" /\ \A t \in Token \ {sessions[v]} :
                     arc[t].daemon = arc[sessions[v]].daemon => reader[t].stage = "done" /\ t \notin left))
      <4>1. Takes
        BY <3>1 DEF Takes, Command
      <4>2. QED
        BY <1>2, <3>1, <4>1 DEF Command, Alone
    <3>3. /\ reader' = reader /\ wire' = wire /\ arc' = arc /\ left' = left
      BY <3>2 DEF Takes, threads
    <3>4. \A t \in Token \ {cmd'.token} : Made(t)' /\ arc'[t].daemon = arc'[cmd'.token].daemon
                                              => reader'[t].stage = "done" /\ t \notin left'
      BY <3>2, <3>3
    <3>5. \A s \in Token : ~ ResponseAt(s)
      BY <2>2, NothingUnderWay DEF Requests, Idle, Waits, ResponseAt
    <3>6. sessions[v] \in Token
      BY <3>1 DEF Command, TypeOK
    <3>7. reader'[cmd'.token].line # Response /\ ~ InWire(cmd.token)'
      BY <3>2, <3>3, <3>5, <3>6 DEF ResponseAt, InWire, Has
    <3>8. QED
      BY <3>2, <3>4, <3>7 DEF Lonely
  <2>3. CASE cmd # Idle
    <3>1. /\ cmd'.op = cmd.op /\ cmd'.token = cmd.token /\ cmd'.alone = cmd.alone
          /\ cmd.op = "close" /\ cmd.alone /\ Asking
      <4>1. ~ Starts
        <5>1. ~ NextOfWindow
          <6>1. ASSUME NextOfWindow PROVE FALSE
            <7>1. cmd' # Idle
              BY <1>2 DEF Alone, Idle
            <7>2. PICK u \in cmd.rest : cmd' = [cmd EXCEPT !.token = u, !.step = "found", !.rest = @ \ {u}]
              BY <6>1, <7>1 DEF NextOfWindow
            <7>3. cmd'.op = cmd.op /\ cmd.op = "window"
              BY <6>1, <7>2 DEF TypeOK, CmdType, NextOfWindow
            <7>4. QED
              BY <1>2, <7>3 DEF Alone
          <6>2. QED
            BY <6>1
        <5>2. QED
          BY <2>3, <5>1 DEF Starts, Command, CloseWindow
      <4>2. ~ Finish
        <5>1. ASSUME Finish PROVE FALSE
          <6>1. cmd' = Idle \/ cmd'.op = "window"
            BY <5>1, EndedIs DEF CommandIs
          <6>2. QED
            BY <1>2, <6>1 DEF Alone, Idle
        <5>2. QED
          BY <5>1
      <4>3. \/ cmd' = cmd
            \/ /\ cmd.step \in {"found", "wait"}
               /\ CommandIs("wait") \/ CommandIs("ok") \/ CommandIs("failed") \/ CommandIs("asks")
        BY <4>1, <4>2, CommandMoves DEF SendControl, Answered
      <4>4. QED
        BY <1>2, <4>3 DEF CommandIs, Alone, Asking
    <3>2. PICK t \in Token : t = cmd.token /\ Made(t)
      BY <3>1 DEF Commanding
    <3>3. PICK d : d = arc[t].daemon
      OBVIOUS
    <3>4. /\ arc[t].kind = "agent" /\ arc'[t].kind = "agent" /\ arc'[t].daemon = d /\ d \in Id
          /\ \A s \in Token : /\ arc'[s].kind = arc[s].kind /\ arc'[s].daemon = arc[s].daemon
                             /\ Made(s)' <=> Made(s)
      <4>1. arc'[t].kind = "agent" /\ SameObject(t)
        BY <1>2, <2>1, <3>1, <3>2 DEF Alone
      <4>2. arc[t].kind = "agent" /\ arc'[t].daemon = d
        BY <3>3, <4>1 DEF SameObject
      <4>3. d \in Id
        BY <3>3, <4>2, AgentsHaveDaemons
      <4>4. QED
        BY <2>1, <4>1, <4>2, <4>3 DEF SameObject
    <3>5. Alone
      BY <3>1, <3>2, <3>4 DEF Alone
    <3>6. \A s \in Token \ {t} : Made(s) /\ arc[s].daemon = d => reader[s].stage = "done" /\ s \notin left
      BY <3>2, <3>3, <3>5 DEF Lonely
    <3>7. ASSUME arc[t].control, ResponseAt(t) PROVE daemon[d] # "running"
      BY <3>2, <3>3, <3>5, <3>7 DEF Lonely, RunEnded, ResponseAt, InWire, Has
    <3>8. ASSUME arc[t].control, cmd.step = "ok" PROVE daemon[d] # "running"
      BY <3>2, <3>3, <3>5, <3>8 DEF Lonely, RunEnded
    <3>9. ASSUME ~ arc[t].control, cmd.step = "ok"
          PROVE  daemon[d] # "running" \/ reader[t].stage \in {"live", "done"}
      BY <3>2, <3>3, <3>5, <3>9 DEF Lonely, RunEnded
    <3>10. daemon[d] # "running" => daemon'[d] # "running"
      BY <1>2, <3>4, RunsGo
    <3>11. \A s \in Token : s \in attached /\ arc[s].daemon = d => s = t /\ reader[t].stage = "live"
      <4>1. ASSUME NEW s \in Token, s \in attached, arc[s].daemon = d PROVE s = t /\ reader[t].stage = "live"
        <5>1. Made(s) /\ reader[s].stage = "live"
          BY <4>1 DEF Objects, Unmade, Streams, Streaming
        <5>2. QED
          BY <3>6, <4>1, <5>1
      <4>2. QED
        BY <4>1
    <3>11a. \A s \in Token : s \in left /\ arc[s].daemon = d => s = t /\ reader[t].stage = "done"
      <4>1. ASSUME NEW s \in Token, s \in left, arc[s].daemon = d PROVE s = t /\ reader[t].stage = "done"
        <5>1. reader[s].stage = "done"
          BY <4>1 DEF Streams, Streaming
        <5>2. Made(s)
          BY <5>1, ReaderIsMade
        <5>3. QED
          BY <3>6, <4>1, <5>1, <5>2
      <4>2. QED
        BY <4>1
    <3>12. Waits(t) => arc[t].control
      BY <3>2 DEF Waits, Commanding
    <3>13. \A s \in Token \ {t} : Made(s)' /\ arc'[s].daemon = d => reader'[s].stage = "done" /\ s \notin left'
      <4>1. ASSUME NEW s \in Token \ {t}, Made(s)', arc'[s].daemon = d
            PROVE  reader'[s].stage = "done" /\ s \notin left'
        <5>1. Made(s) /\ arc[s].daemon = d
          <6>1. SameObject(s)
            BY <2>1
          <6>2. QED
            BY <4>1, <6>1 DEF SameObject
        <5>2. reader[s].stage = "done" /\ s \notin left
          BY <3>6, <5>1
        <5>3. s \notin left'
          BY <1>0, <5>2, LeftGo
        <5>4. QED
          BY <2>1, <5>2, <5>3 DEF ReaderGoes, StagesGo
      <4>2. QED
        BY <4>1
    <3>14. ASSUME ResponseAt(t)' PROVE daemon'[d] # "running"
      <4>1. CASE Answer(t)
        <5>0. t \in attached
          BY <4>1 DEF Answer
        <5>0a. SubscribersOf(d) = {t}
          BY <3>3, <3>11, <5>0 DEF SubscribersOf, TypeOK
        <5>0b. reader[t].stage = "live"
          BY <5>0 DEF Streams, Streaming
        <5>0c. LeftOf(d) = {}
          BY <3>11a, <5>0b DEF LeftOf, TypeOK
        <5>1. SubscribersOf(d) \cup LeftOf(d) = {t}
          BY <5>0a, <5>0c
        <5>2. Asks(cmd.op) = "close_view"
          BY <3>1 DEF Asks
        <5>3. daemon' = [daemon EXCEPT ![d] = "exited"]
          BY <3>3, <4>1, <5>1, <5>2 DEF Answer
        <5>4. QED
          BY <3>4, <5>3 DEF TypeOK
      <4>2. CASE ~ Answer(t)
        <5>1. ResponseAt(t)
          BY <2>1, <3>14, <4>2 DEF ReaderGoes
        <5>2. Waits(t)
          BY <5>1 DEF Requests, OneRequest, ResponseAt, InWire, Has
        <5>3. QED
          <6>1. arc[t].control
            BY <3>12, <5>2
          <6>2. daemon[d] # "running"
            BY <3>7, <5>1, <6>1
          <6>3. QED
            BY <3>10, <6>2
      <4>3. QED
        BY <4>1, <4>2
    <3>15. ASSUME arc'[t].control, cmd'.step = "ok" PROVE daemon'[d] # "running"
      <4>1. CASE cmd.step = "ok"
        <5>1. arc[t].control \/ reader[t].stage = "replay"
          BY <1>0, <1>2, <3>15, ControlFrom
        <5>2. QED
          <6>1. CASE arc[t].control
            BY <3>8, <3>10, <4>1, <6>1
          <6>2. CASE reader[t].stage = "replay"
            <7>1. daemon[d] # "running"
              BY <3>8, <3>9, <4>1, <6>2
            <7>2. QED
              BY <3>10, <7>1
          <6>3. QED
            BY <5>1, <6>1, <6>2
      <4>2. CASE cmd.step # "ok"
        <5>1. SendOnce \/ Local \/ (HandleResponse(t) /\ Waits(t))
          BY <3>2, <3>15, <4>2, OkFrom DEF Waits
        <5>2. CASE SendOnce
          BY <3>2, <3>15, <5>2 DEF SendOnce
        <5>3. CASE Local
          BY <3>2, <3>4, <5>3 DEF Local
        <5>4. CASE HandleResponse(t) /\ Waits(t)
          <6>1. arc[t].control
            BY <3>12, <5>4
          <6>2. ResponseAt(t)
            BY <5>4 DEF HandleResponse, ResponseAt
          <6>3. daemon[d] # "running"
            BY <3>7, <6>1, <6>2
          <6>4. QED
            BY <3>10, <6>3
        <5>5. QED
          BY <5>1, <5>2, <5>3, <5>4
      <4>3. QED
        BY <4>1, <4>2
    <3>16. ASSUME ~ arc'[t].control, cmd'.step = "ok"
           PROVE  daemon'[d] # "running" \/ reader'[t].stage \in {"live", "done"}
      <4>1. ~ arc[t].control
        BY <1>0, <3>2, <3>16, ControlKept
      <4>2. CASE cmd.step = "ok"
        BY <2>1, <3>9, <3>10, <4>1, <4>2 DEF ReaderGoes, StagesGo
      <4>3. CASE cmd.step # "ok"
        <5>1. SendOnce \/ Local \/ (HandleResponse(t) /\ Waits(t))
          BY <3>2, <3>16, <4>3, OkFrom DEF Waits
        <5>2. CASE SendOnce
          <6>1. PICK answer \in OnceAnswers(d) :
                   /\ cmd' = [cmd EXCEPT !.step = answer]
                   /\ IF answer = "ok" /\ Asks(cmd.op) = "close_view" /\ SubscribersOf(d) \cup LeftOf(d) = {}
                      THEN EndRun(d, "exited") ELSE NotEnded
            BY <3>2, <3>3, <5>2 DEF SendOnce
          <6>2. answer = "ok"
            BY <3>16, <6>1, CommandTakes DEF CommandIs
          <6>3. reader' = reader /\ Asks(cmd.op) = "close_view"
            BY <3>1, <5>2 DEF SendOnce, Asks
          <6>4. CASE SubscribersOf(d) \cup LeftOf(d) = {}
            <7>1. EndRun(d, "exited")
              BY <6>1, <6>2, <6>3, <6>4
            <7>2. daemon'[d] = "exited"
              BY <3>4, <7>1, EndRunIs
            <7>3. QED
              BY <7>2
          <6>5. CASE SubscribersOf(d) \cup LeftOf(d) # {}
            <7>1. reader[t].stage \in {"live", "done"}
              BY <3>11, <3>11a, <6>5 DEF SubscribersOf, LeftOf, TypeOK
            <7>2. QED
              BY <6>3, <7>1
          <6>6. QED
            BY <6>4, <6>5
        <5>3. CASE Local
          BY <3>2, <3>4, <5>3 DEF Local
        <5>4. CASE HandleResponse(t) /\ Waits(t)
          BY <3>12, <4>1, <5>4
        <5>5. QED
          BY <5>1, <5>2, <5>3, <5>4
      <4>4. QED
        BY <4>2, <4>3
    <3>17. /\ cmd'.token = t /\ arc'[t].daemon = d
           /\ (reader'[t].line = Response \/ InWire(t)') => daemon'[d] # "running"
      BY <3>1, <3>2, <3>4, <3>14 DEF ResponseAt, InWire, Has
    <3>18. QED
      BY <3>13, <3>15, <3>16, <3>17 DEF Lonely, RunEnded, InWire
  <2>4. QED
    BY <2>2, <2>3
<1>3. QED
  BY <1>1, <1>2 DEF Lonely

-----------------------------------------------------------------------------
(* The invariant holds, and what follows from it.                          *)

LEMMA InitKeeps == Init => IInv
<1> SUFFICES ASSUME Init PROVE IInv
  OBVIOUS
<1>1. /\ \A t \in Token : /\ ~ Made(t) /\ arc[t] = NoArc /\ reader[t] = NoReader /\ wire[t] = <<>>
                          /\ shown[t] = <<>> /\ strays[t] = 0
      /\ attached = {} /\ left = {} /\ cmd = Idle /\ windows = Window
      /\ \A v \in Id : /\ sessions[v] = None /\ placed[v] = None /\ records[v] = None /\ sized[v] = {}
                       /\ daemon[v] = "none" /\ written[v] = 0
  BY DEF Init, Made
<1>2. TypeOK
  <2>1. /\ arc \in [Token -> ArcType] /\ reader \in [Token -> ReaderType] /\ cmd \in CmdType
    BY NoObject DEF Init
  <2>2. written \in [Id -> 0..MaxOutput]
    BY TerminalSessionsAssumption DEF Init
  <2>3. wire \in [Token -> Seq(Line)] /\ shown \in [Token -> Seq(1..MaxOutput)] /\ strays \in [Token -> Nat]
    BY DEF Init
  <2>4. /\ sessions \in [Id -> Token \cup {None}] /\ placed \in [Id -> Window \cup {None}]
        /\ records \in [Id -> Id \cup {None}] /\ sized \in [Id -> SUBSET Id]
        /\ daemon \in [Id -> {"none", "running", "exited", "deleted"}]
        /\ remote \in BOOLEAN /\ agents \in BOOLEAN /\ windows \subseteq Window
        /\ attached \subseteq Token /\ left \subseteq Token
    BY DEF Init
  <2>5. QED
    BY <1>1, <2>1, <2>2, <2>3, <2>4 DEF TypeOK
<1>3. /\ NoReader.stage = "off" /\ NoReader.line = NoLine /\ NoReader.todo = <<>> /\ NoReader.request = "none"
      /\ NoReader.queued = FALSE /\ NoLine # Response /\ NoLine[1] # "output" /\ NoArc.daemon = None
      /\ NoLine[1] = "none"
  BY LineIs DEF NoReader, NoArc, NoLine
<1>4. Idle.op = "none" /\ Idle.step = "none" /\ Idle.rest = {}
  BY DEF Idle
<1>5. Objects
  BY <1>1 DEF Objects, Unmade
<1>6. Streams
  BY <1>1, <1>3 DEF Streams, Streaming
<1>7. Map
  BY <1>1 DEF Map, Placing, Owner, OneDaemon, Recorded, RecordsAreClosedViews
<1>8. Commanding /\ Closing /\ Sizing /\ Lonely
  BY <1>1, <1>4 DEF Commanding, Asking, Closing, Sizing, Lonely, Alone
<1>9. Requests
  BY <1>1, <1>3, <1>4 DEF Requests, OneRequest, InWire, Waits
<1>10. Strayed
  BY <1>1 DEF Strayed
<1>11. Order
  <2>1. ASSUME NEW t \in Token PROVE Ordered(t)
    <3>1. /\ shown[t] = <<>> /\ Source(t) = <<>> /\ reader[t].line[1] # "output" /\ arc[t].daemon \notin Id
      BY <1>1, <1>3, NoneIsNothing DEF Source
    <3>2. QED
      BY <3>1 DEF Ordered, InOrder, Outputs, Below
  <2>2. QED
    BY <2>1 DEF Order
<1>12. Prompting
  BY <1>1, <1>3 DEF Prompting
<1>13. QED
  BY <1>2, <1>5, <1>6, <1>7, <1>8, <1>9, <1>10, <1>11, <1>12 DEF IInv, Parts

LEMMA NextKeeps == IInv /\ [Next]_vars => IInv'
<1> SUFFICES ASSUME IInv, [Next]_vars PROVE IInv'
  OBVIOUS
<1>1. /\ TypeOK /\ Objects /\ Streams /\ Map /\ Commanding /\ Requests /\ Closing /\ Sizing /\ Lonely
      /\ Strayed /\ Order /\ Prompting /\ Placing
  BY DEF IInv, Parts, Map
<1>2. Cases
  BY <1>1, StepIsCase
<1>3. TypeOK'
  BY <1>1, TypeInductive
<1>4. Objects'
  BY <1>1, ObjectsInductive
<1>5. Streams'
  BY <1>1, StreamsInductive
<1>6. Map'
  BY <1>1, <1>2, MapInductive
<1>7. Commanding'
  BY <1>1, <1>2, CommandingInductive
<1>8. Requests'
  BY <1>1, <1>2, RequestsInductive
<1>9. Closing'
  BY <1>1, <1>2, ClosingInductive
<1>10. Sizing'
  BY <1>1, <1>2, SizingInductive
<1>11. Lonely'
  BY <1>1, <1>2, LonelyInductive
<1>12. Strayed'
  BY <1>1, <1>2, StrayedInductive
<1>13. Order'
  BY <1>1, <1>2, <1>3, OrderInductive
<1>14. Prompting'
  BY <1>1, <1>2, PromptingInductive
<1>15. QED
  BY <1>3, <1>4, <1>5, <1>6, <1>7, <1>8, <1>9, <1>10, <1>11, <1>12, <1>13, <1>14 DEF IInv, Parts

LEMMA InvariantHolds == Spec => []IInv
  BY InitKeeps, NextKeeps, PTL DEF Spec

\* Every variable keeps to its type, whatever the commands, the readers and the daemons do;
\* an object in the map of views (TerminalState::sessions) carries the id of its view and is
\* in a window.
THEOREM TerminalsTypeCorrect == Spec => []TypeOK
<1>1. IInv => TypeOK
  BY DEF IInv
<1>2. QED
  BY <1>1, InvariantHolds, PTL

\* Views, windows, records and sizes fit together: a record of detached_sessions is about a
\* view that is not open, no view outlives its window once the command that closes it has
\* returned (close_terminal_sessions_for_window), and agent_view_sizes keeps the size of a view
\* that a command closed no longer.
THEOREM ViewsKept == Spec => []ViewsAreKept
<1>1. IInv => ViewsAreKept
  <2> SUFFICES ASSUME IInv PROVE ViewsAreKept
    OBVIOUS
  <2>1. TypeOK /\ RecordsAreClosedViews /\ Closing /\ Sizing
    BY DEF IInv, Parts, Map
  <2>2. ViewsBelongToOpenWindows
    BY <2>1 DEF Closing, ViewsBelongToOpenWindows
  <2>3. ClosedViewsHaveNoSize
    BY <2>1 DEF Sizing, OpenOrEnded, ClosedViewsHaveNoSize
  <2>4. QED
    BY <2>1, <2>2, <2>3 DEF ViewsAreKept
<1>2. QED
  BY <1>1, InvariantHolds, PTL

\* A view shows what its daemon put out, in that order and nothing twice, history first
\* (push_output_backlog): a reader whose view was taken by another one pushes one line more
\* at most, and where none did every backlog grows.
THEOREM OutputFaithful == Spec => []OutputIsFaithful
<1>1. IInv => OutputIsFaithful
  <2> SUFFICES ASSUME IInv PROVE OutputIsFaithful
    OBVIOUS
  <2>1. Strayed /\ Order
    BY DEF IInv, Parts
  <2>2. StrayAtMostOnce
    BY <2>1 DEF Strayed, StrayAtMostOnce
  <2>3. ShownInOrder
    BY <2>1 DEF Order, Ordered, InOrder, ShownInOrder
  <2>4. QED
    BY <2>2, <2>3 DEF OutputIsFaithful
<1>2. QED
  BY <1>1, InvariantHolds, PTL

\* While the main thread waits in send_agent_backend_request, its request is queued, sent or
\* answered, or the stream that would bring the answer is about to end; what is left is Stuck:
\* the local reader that ended with the request pending (send_local_agent_control_request), and
\* the remote reader that has its control channel and asks the user while it connects
\* (connect_ssh_exec_session), whom the waiting main thread keeps from answering.
THEOREM AnswerOnTheWay == Spec => []AnswerIsOnTheWay
<1>1. IInv => AnswerIsOnTheWay
  <2> SUFFICES ASSUME IInv, cmd.step = "wait" PROVE OnTheWay(cmd.token) \/ Stuck
    BY DEF AnswerIsOnTheWay
  <2>1. /\ Objects /\ Streams /\ Commanding /\ Requests /\ TypeOK /\ Prompting
    BY DEF IInv, Parts
  <2>2. PICK t \in Token : t = cmd.token /\ Made(t) /\ arc[t].control
    BY <2>1 DEF Commanding, Asking
  <2>3. Waits(t)
    BY <2>2 DEF Waits
  <2>4. reader[t].stage \in {"subscribe", "asks", "live", "done"}
    BY <2>1, <2>2 DEF Objects, Fitting
  <2>5. Streaming(t)
    BY <2>1 DEF Streams
  <2>6. CASE reader[t].stage = "done"
    <3>1. ~ remote
      BY <2>1, <2>3, <2>6 DEF Requests, OneRequest
    <3>2. CASE reader[t].queued
      BY <3>1, <3>2, <2>2 DEF OnTheWay
    <3>3. CASE ~ reader[t].queued
      BY <2>2, <2>6, <3>1, <3>3 DEF Stuck
    <3>4. QED
      BY <3>2, <3>3
  <2>7. CASE reader[t].stage \notin {"asks", "done"}
    <3>1. \/ reader[t].queued \/ reader[t].request = "sent" \/ reader[t].line = Response \/ InWire(t)
      BY <2>1, <2>3, <2>7 DEF Requests, OneRequest
    <3>2. CASE reader[t].queued
      BY <2>2, <2>4, <2>7, <3>2 DEF OnTheWay
    <3>3. CASE reader[t].request = "sent"
      <4>1. reader[t].stage = "live"
        BY <2>5, <3>3 DEF Streaming
      <4>2. t \in attached \/ \E i \in DOMAIN wire[t] : wire[t][i] = End
        BY <2>5, <4>1 DEF Streaming
      <4>3. QED
        BY <2>2, <3>3, <4>1, <4>2 DEF OnTheWay
    <3>4. CASE reader[t].line = Response
      <4>1. Response # NoLine /\ Response[1] # "output"
        BY LineIs
      <4>2. reader[t].stage = "live"
        BY <2>5, <3>4, <4>1 DEF Streaming
      <4>3. QED
        BY <2>2, <3>4, <4>2 DEF OnTheWay
    <3>5. CASE InWire(t)
      <4>1. \E i \in DOMAIN wire[t] : wire[t][i] = Response
        BY <3>5 DEF InWire
      <4>2. wire[t] # <<>>
        BY <4>1
      <4>3. reader[t].stage = "live"
        BY <2>5, <4>2 DEF Streaming
      <4>4. QED
        BY <2>2, <4>1, <4>3 DEF OnTheWay
    <3>6. QED
      BY <3>1, <3>2, <3>3, <3>4, <3>5
  <2>8. CASE reader[t].stage = "asks"
    BY <2>1, <2>2, <2>8 DEF Prompting, Stuck
  <2>9. QED
    BY <2>6, <2>7, <2>8
<1>2. QED
  BY <1>1, InvariantHolds, PTL

\* A run ends by the close of its last view: when close_agent_terminal_view has its answer over
\* the view's own connection and no other reader of the daemon was left, nor the helper client
\* of a remote reader that has ended, which the daemon still counts, the run has ended; and
\* a daemon that ends a run while it answers was asked to close a view, never to detach one, to
\* take input or to set a size.
THEOREM RunsEnd == Spec => RunsEndByClose
<1>1. IInv => CloseOverControlEndsRun
  <2> SUFFICES ASSUME IInv, ClosesAlone, arc[cmd.token].control
               PROVE  daemon[arc[cmd.token].daemon] # "running"
    BY DEF CloseOverControlEndsRun
  <2>1. Lonely
    BY DEF IInv, Parts
  <2>2. Alone /\ cmd.step = "ok"
    BY DEF ClosesAlone, Alone, Asking
  <2>3. QED
    BY <2>1, <2>2 DEF Lonely, RunEnded
<1>2. ASSUME IInv, [Next]_vars, NEW d \in Id, daemon[d] = "running", daemon'[d] = "exited",
             <<reader, cmd>>' # <<reader, cmd>>
      PROVE  cmd.op = "close"
  <2>1. TypeOK /\ Objects /\ Streams /\ Commanding
    BY <1>2 DEF IInv, Parts
  <2>2. Cases
    BY <1>2, <2>1, StepIsCase
  <2>3. ASSUME Asks(cmd.op) = "close_view" PROVE cmd.op = "close"
    <3>1. cmd.op \in Ops \cup {"none"}
      BY <2>1 DEF TypeOK, CmdType
    <3>2. QED
      BY <2>3, <3>1 DEF Asks, Ops
  <2>4. CASE MakeView
    <3>1. daemon'[d] = daemon[d] \/ daemon[d] = "none"
      BY <2>1, <2>4, MakeViewIs DEF MakingIsSeen
    <3>2. QED
      BY <1>2, <3>1
  <2>5. CASE ~ MakeView
    <3>1. \/ SendOnce \/ (\E t \in Token : Answer(t)) \/ (\E e \in Id : Runs(e))
      BY <1>2, <2>1, <2>2, <2>5, RunsGo
    <3>2. CASE SendOnce
      <4>1. daemon' = daemon \/ Asks(cmd.op) = "close_view"
        BY <3>2 DEF SendOnce, NotEnded
      <4>2. QED
        BY <1>2, <2>3, <4>1
    <3>3. ASSUME NEW t \in Token, Answer(t) PROVE cmd.op = "close"
      <4>1. daemon' = daemon \/ Asks(cmd.op) = "close_view"
        BY <3>3 DEF Answer
      <4>2. QED
        BY <1>2, <2>3, <4>1
    <3>4. ASSUME NEW e \in Id, Runs(e) PROVE FALSE
      <4>1. reader' = reader /\ cmd' = cmd
        BY <3>4 DEF Runs, DeleteView, DeleteRecord, DeleteRegistry, Prints, ProgramEnds
      <4>2. QED
        BY <1>2, <4>1
    <3>5. QED
      BY <3>1, <3>2, <3>3, <3>4
  <2>6. QED
    BY <2>4, <2>5
<1>3. IInv /\ [Next]_vars =>
         [(\E d \in Id : daemon[d] = "running" /\ daemon'[d] = "exited")
             /\ <<reader, cmd>>' # <<reader, cmd>> => cmd.op = "close"]_vars
  BY <1>2
<1>4. QED
  BY <1>1, <1>3, InvariantHolds, PTL DEF Spec, RunsEndByClose, OnlyCloseEndsRuns

=============================================================================
