--------------------------- MODULE HelpersProofs ---------------------------
(* Proofs about Helpers, for any number of threads that call at once, whether *)
(* the helper is the monitor's, ripgrep or the terminal agent.               *)
EXTENDS Helpers, FiniteSetTheorems, TLAPS

USE HelpersAssumption

-----------------------------------------------------------------------------
(* Types.                                                                  *)

LEMMA NoCallTyped == NoCall \in [step : Step, policy : Policy, agreed : BOOLEAN, cut : BOOLEAN, late : BOOLEAN]
  BY DEF NoCall, Step, Policy

LEMMA InitTypeOK == Init => TypeOK
<1> SUFFICES ASSUME Init PROVE TypeOK
  OBVIOUS
<1>1. restarts \in 0..MaxRestart
  BY DEF Init
<1>2. call \in [Worker -> [step : Step, policy : Policy, agreed : BOOLEAN, cut : BOOLEAN, late : BOOLEAN]]
  BY NoCallTyped DEF Init
<1>3. QED
  BY <1>1, <1>2 DEF Init, TypeOK, Content

\* A step that moves one call, or ends it, leaves the calls well typed.
LEMMA BecomesTyped ==
  ASSUME TypeOK, NEW w \in Worker, NEW s \in Step, NEW p \in Policy, NEW a \in BOOLEAN, Becomes(w, s, p, a)
  PROVE  call' \in [Worker -> [step : Step, policy : Policy, agreed : BOOLEAN, cut : BOOLEAN, late : BOOLEAN]]
  BY DEF TypeOK, Becomes

LEMMA GotoTyped ==
  ASSUME TypeOK, NEW w \in Worker, NEW s \in Step, Goto(w, s)
  PROVE  call' \in [Worker -> [step : Step, policy : Policy, agreed : BOOLEAN, cut : BOOLEAN, late : BOOLEAN]]
  BY DEF TypeOK, Goto

LEMMA LeaveTyped ==
  ASSUME TypeOK, NEW w \in Worker, Leave(w)
  PROVE  call' \in [Worker -> [step : Step, policy : Policy, agreed : BOOLEAN, cut : BOOLEAN, late : BOOLEAN]]
  BY DEF TypeOK, Leave, NoCall, Step, Policy

LEMMA NextTypeOK == TypeOK /\ [Next]_vars => TypeOK'
<1> SUFFICES ASSUME TypeOK, [Next]_vars PROVE TypeOK'
  OBVIOUS
<1> DEFINE Calls == [Worker -> [step : Step, policy : Policy, agreed : BOOLEAN, cut : BOOLEAN, late : BOOLEAN]]
<1>1. ASSUME NEW w \in Worker, Start(w) PROVE TypeOK'
  BY <1>1 DEF app, Start, Becomes, TypeOK, memory, remote, Step, Policy, Source, Content
<1>2. ASSUME NEW w \in Worker, DoesWithout(w) \/ Runs(w) PROVE TypeOK'
  BY <1>2, LeaveTyped DEF app, DoesWithout, Runs, TypeOK, memory, remote
<1>3. ASSUME NEW w \in Worker, FindsBytes(w) \/ Downloads(w) PROVE TypeOK'
  <2>1. call' \in Calls
    BY <1>3, LeaveTyped, GotoTyped DEF FindsBytes, Downloads, Step
  <2>2. QED
    BY <1>3, <2>1 DEF app, FindsBytes, Downloads, TypeOK, memory, remote
<1>4. ASSUME NEW w \in Worker, ReadPolicy(w) PROVE TypeOK'
  <2>1. call' \in Calls
    BY <1>4, LeaveTyped, BecomesTyped, GotoTyped DEF app, ReadPolicy, TypeOK, Step
  <2>2. QED
    BY <1>4, <2>1 DEF app, ReadPolicy, TypeOK, memory, remote
<1>5. ASSUME NEW w \in Worker, CheckMonitor(w) \/ CheckRipgrep(w) \/ CheckPrompts(w) \/ CheckAgain(w)
      PROVE  TypeOK'
  <2>1. call' \in Calls
    BY <1>5, LeaveTyped, GotoTyped DEF CheckMonitor, CheckRipgrep, CheckPrompts, CheckAgain, Step
  <2>2. QED
    BY <1>5, <2>1 DEF app, CheckMonitor, CheckRipgrep, CheckPrompts, CheckAgain, TypeOK, memory, remote
<1>6. ASSUME NEW w \in Worker, RecordPending(w) PROVE TypeOK'
  <2>1. call' \in Calls
    BY <1>6, LeaveTyped, GotoTyped DEF RecordPending, Step
  <2>2. QED
    BY <1>6, <2>1 DEF app, RecordPending, TypeOK, remote
<1>7. ASSUME NEW w \in Worker, Agree(w) PROVE TypeOK'
  <2>1. call' \in Calls
    BY <1>7, BecomesTyped DEF app, Agree, TypeOK, Step
  <2>2. pending' \in BOOLEAN
    BY <1>7 DEF Agree
  <2>3. QED
    BY <1>7, <2>1, <2>2 DEF app, Agree, TypeOK, remote
<1>8. ASSUME NEW w \in Worker, Refuse(w) PROVE TypeOK'
  BY <1>8, LeaveTyped DEF app, Refuse, TypeOK, remote
<1>9. ASSUME NEW w \in Worker, Truncate(w) PROVE TypeOK'
  <2>1. call' \in Calls
    BY <1>9 DEF app, Truncate, Cut, Stage, At, TypeOK, Step
  <2>2. QED
    BY <1>9, <2>1 DEF app, Truncate, TypeOK, memory, Content
<1>10. ASSUME NEW w \in Worker, Fill(w) PROVE TypeOK'
  <2>1. call' \in Calls
    BY <1>10, GotoTyped DEF Fill, Step
  <2>2. file' \in Content
    BY <1>10 DEF app, Fill, Written, TypeOK, Content
  <2>3. QED
    BY <1>10, <2>1, <2>2 DEF app, Fill, TypeOK, memory
<1>11. ASSUME NEW w \in Worker, Verify(w) PROVE TypeOK'
  <2>1. call' \in Calls
    BY <1>11, LeaveTyped, GotoTyped DEF Verify, Step
  <2>2. QED
    BY <1>11, <2>1 DEF app, Verify, TypeOK, memory
<1>12. ASSUME NEW w \in Worker, Note(w) PROVE TypeOK'
  <2>1. call' \in Calls
    BY <1>12, GotoTyped DEF Note, Step
  <2>2. QED
    BY <1>12, <2>1 DEF app, Note, TypeOK, remote
<1>13. ASSUME NEW w \in Worker, Breaks(w) PROVE TypeOK'
  <2>1. spoilt' \in BOOLEAN
    BY <1>13 DEF Breaks
  <2>2. QED
    BY <1>13, <2>1, LeaveTyped DEF app, Breaks, TypeOK, memory
<1>14. ASSUME NEW p \in Policy, SetPolicy(p) PROVE TypeOK'
  BY <1>14 DEF app, SetPolicy, TypeOK, memory, remote
<1>15. ASSUME NEW c \in {"none", "other"}, Outsider(c) PROVE TypeOK'
  <2>1. call' \in Calls
    BY <1>15 DEF app, Outsider, Cut, Stage, At, TypeOK, Step
  <2>2. QED
    BY <1>15, <2>1 DEF app, Outsider, TypeOK, memory, Content
<1>16. ASSUME Restart PROVE TypeOK'
  <2>1. restarts' \in 0..MaxRestart
    BY <1>16 DEF app, Restart, TypeOK
  <2>2. call' \in Calls
    BY <1>16, NoCallTyped DEF Restart
  <2>3. QED
    BY <1>16, <2>1, <2>2 DEF app, Restart, TypeOK
<1>17. CASE OtherTarget
  <2>1. ASSUME NEW v \in Worker PROVE Overtaken(v) \in [step : Step, policy : Policy, agreed : BOOLEAN, cut : BOOLEAN,
                                                       late : BOOLEAN]
    BY DEF Overtaken, At, TypeOK
  <2>2. call' \in Calls
    BY <1>17, <2>1 DEF OtherTarget, TypeOK
  <2>3. QED
    BY <1>17, <2>2 DEF OtherTarget, TypeOK, remote
<1>18. CASE UNCHANGED vars
  BY <1>18 DEF vars, app, TypeOK, memory, remote
<1>19. QED
  BY <1>1, <1>2, <1>3, <1>4, <1>5, <1>6, <1>7, <1>8, <1>9, <1>10, <1>11, <1>12, <1>13, <1>14, <1>15,
     <1>16, <1>17, <1>18
  DEF Next, Proceed, Answer, FindMonitor, FindRipgrep, FindAgent, CollectFromMonitor, SearchWithRipgrep,
      LaunchAgent, DownloadMonitor, DownloadRipgrep, DownloadAgent, TargetUnknown, SystemCommandsSuffice,
      RemoteRipgrepAnswers

\* Every reachable state of the memory, the calls and the remote file is well typed.
THEOREM HelpersTypeCorrect == Spec => []TypeOK
  BY InitTypeOK, NextTypeOK, PTL DEF Spec
-----------------------------------------------------------------------------
(* What the calls under way may rely on.                                   *)

Consents(w) ==
    \/ call[w].policy = "allow"
    \/ call[w].policy = "ask" /\ (call[w].agreed \/ call[w].late)

\* Where a call can be, and what it has seen by then.
Lawful(w) ==
    /\ call[w].step # "fill" => ~call[w].cut
    /\ helper = "rg" => call[w].policy # "never"
    /\ call[w].step = "known" => helper # "agent"
    /\ call[w].step \in {"held", "record"} => helper = "monitor"
    /\ call[w].step \in {"record", "asking"} => call[w].policy = "ask"
    /\ call[w].step = "again" => helper = "rg" /\ (verified \/ Consents(w))
    /\ call[w].step \in {"truncate", "fill", "verify", "note"} => Consents(w)
    /\ call[w].step \in {"note", "run"} => checked
Lawfuls == \A w \in Worker : Lawful(w)

Remembered == verified => checked

\* A remote file that was verified and is not whole is being filled by a call whose bytes
\* nobody has cut off, unless it was spoilt.
Filling == checked /\ file # "whole" /\ ~spoilt => \E w \in Worker : At(w, "fill") /\ ~call[w].cut

\* The pending mark stands for the one open dialog, while the host has one target.
Dialog == helper = "monitor" /\ ~retargeted =>
              IF pending THEN \E w \in Worker : In({"asking"}) = {w} ELSE In({"asking"}) = {}

LEMMA InitInv == Init => Lawfuls /\ Remembered /\ Filling /\ Dialog
<1> SUFFICES ASSUME Init PROVE Lawfuls /\ Remembered /\ Filling /\ Dialog
  OBVIOUS
<1>1. \A w \in Worker : call[w].step = "idle" /\ call[w].policy = "ask" /\ ~call[w].cut
  BY DEF Init, NoCall
<1>2. Lawfuls
  BY <1>1 DEF Lawfuls, Lawful
<1>3. In({"asking"}) = {}
  BY <1>1 DEF In
<1>4. QED
  BY <1>2, <1>3 DEF Init, Remembered, Filling, Dialog

\* The calls.

\* One call moves, lawfully, and nothing that others rely on is taken away.
LEMMA OneMoves ==
  ASSUME TypeOK, Lawfuls, NEW w \in Worker,
         \A v \in Worker \ {w} : call'[v] = call[v],
         helper' = helper, verified => verified', checked => checked', Lawful(w)'
  PROVE  Lawfuls'
<1>1. ASSUME NEW v \in Worker \ {w} PROVE Lawful(v)'
  <2>1. Lawful(v) /\ call'[v] = call[v]
    BY DEF Lawfuls
  <2>2. QED
    BY <2>1 DEF Lawful, Consents
<1>2. QED
  BY <1>1 DEF Lawfuls

LEMMA BecomesMoves ==
  ASSUME TypeOK, NEW w \in Worker, NEW s, NEW p, NEW a, Becomes(w, s, p, a)
  PROVE  /\ \A v \in Worker \ {w} : call'[v] = call[v]
         /\ call'[w] = [step |-> s, policy |-> p, agreed |-> a, cut |-> FALSE, late |-> FALSE]
  BY DEF TypeOK, Becomes

LEMMA GotoMoves ==
  ASSUME TypeOK, NEW w \in Worker, NEW s, Goto(w, s)
  PROVE  /\ \A v \in Worker \ {w} : call'[v] = call[v]
         /\ call'[w].step = s /\ ~call'[w].cut
         /\ call'[w].policy = call[w].policy /\ call'[w].agreed = call[w].agreed
        /\ call'[w].late = call[w].late
  BY DEF TypeOK, Goto

LEMMA LeaveMoves ==
  ASSUME TypeOK, NEW w \in Worker, Leave(w)
  PROVE  /\ \A v \in Worker \ {w} : call'[v] = call[v]
         /\ call'[w] = NoCall
  BY DEF TypeOK, Leave

LEMMA LeaveLawful ==
  ASSUME TypeOK, Lawfuls, NEW w \in Worker, Leave(w), helper' = helper, verified => verified', checked => checked'
  PROVE  Lawfuls'
<1>1. Lawful(w)'
  BY LeaveMoves DEF Lawful, NoCall
<1>2. QED
  BY <1>1, LeaveMoves, OneMoves

\* A cut changes nothing of a call but its mark, which only a writer gets.
LEMMA CutIs ==
  ASSUME NEW v \in Worker
  PROVE  /\ Cut(v).step = call[v].step /\ Cut(v).policy = call[v].policy /\ Cut(v).agreed = call[v].agreed
         /\ Cut(v).late = call[v].late
         /\ Cut(v).cut <=> call[v].step = "fill"
  BY DEF Cut, Stage, At

\* What a call relies on holds of its next stage.
LEMMA CallsInductive ==
  ASSUME TypeOK, Lawfuls, Remembered, [Next]_vars
  PROVE  Lawfuls'
<1>1. ASSUME NEW w \in Worker, Start(w) PROVE Lawfuls'
  <2>1. call'[w].step = "source" /\ ~call'[w].cut /\ (helper = "rg" => call'[w].policy # "never")
    BY <1>1 DEF Start, Becomes, TypeOK
  <2>2. Lawful(w)'
    BY <1>1, <2>1 DEF Start, Lawful, Consents, memory, remote
  <2>3. QED
    BY <1>1, <2>2, BecomesMoves, OneMoves DEF Start, memory, remote
<1>2. ASSUME NEW w \in Worker, DoesWithout(w) \/ Runs(w) PROVE Lawfuls'
  BY <1>2, LeaveLawful DEF DoesWithout, Runs, memory, remote
<1>3. ASSUME NEW w \in Worker, FindsBytes(w) \/ Downloads(w) PROVE Lawfuls'
  <2>1. CASE Leave(w)
    BY <1>3, <2>1, LeaveLawful DEF FindsBytes, Downloads, memory, remote
  <2>2. ASSUME NEW s \in {"policy", "download"}, Goto(w, s) PROVE Lawfuls'
    <3>1. Lawful(w)'
      BY <1>3, <2>2, GotoMoves DEF FindsBytes, Downloads, Lawfuls, Lawful
    <3>2. QED
      BY <1>3, <2>2, <3>1, GotoMoves, OneMoves DEF FindsBytes, Downloads, memory, remote
  <2>3. QED
    BY <1>3, <2>1, <2>2 DEF FindsBytes, Downloads
<1>4. ASSUME NEW w \in Worker, ReadPolicy(w) PROVE Lawfuls'
  <2>1. CASE Leave(w)
    BY <1>4, <2>1, LeaveLawful DEF ReadPolicy, memory, remote
  <2>2. CASE Goto(w, "known") /\ helper = "rg"
    <3>1. Lawful(w)'
      BY <1>4, <2>2, GotoMoves DEF ReadPolicy, Lawfuls, Lawful
    <3>2. QED
      BY <1>4, <2>2, <3>1, GotoMoves, OneMoves DEF ReadPolicy, memory, remote
  <2>3. ASSUME NEW s \in Step, Becomes(w, s, policy, FALSE), helper # "rg",
               \/ helper = "monitor" /\ s = "known"
               \/ s = "truncate" /\ policy = "allow"
               \/ s = "asking" /\ policy = "ask"
        PROVE  Lawfuls'
    <3>1. call'[w].step = s /\ call'[w].policy = policy /\ ~call'[w].cut
      BY <2>3 DEF Becomes, TypeOK
    <3>2. Lawful(w)'
      BY <1>4, <2>3, <3>1 DEF ReadPolicy, Lawful, Consents, memory, remote
    <3>3. QED
      BY <1>4, <2>3, <3>2, BecomesMoves, OneMoves DEF ReadPolicy, memory, remote
  <2>4. QED
    BY <1>4, <2>1, <2>2, <2>3 DEF ReadPolicy, Step
<1>5. ASSUME NEW w \in Worker, CheckMonitor(w) \/ CheckRipgrep(w) PROVE Lawfuls'
  <2>1. PICK s \in {"run", "held", "asking", "again"} : Goto(w, s)
    BY <1>5 DEF CheckMonitor, CheckRipgrep
  <2>2. call'[w].step = s /\ ~call'[w].cut
        /\ call'[w].policy = call[w].policy /\ call'[w].agreed = call[w].agreed
        /\ call'[w].late = call[w].late
    BY <2>1, GotoMoves
  <2>3. call[w].policy \in Policy /\ Lawful(w)
    BY DEF TypeOK, Lawfuls
  <2>4. Lawful(w)'
    <3>1. CASE CheckMonitor(w)
      <4>1. s = IF verified THEN "run" ELSE "held"
        BY <3>1, <2>2, GotoMoves DEF CheckMonitor
      <4>2. QED
        BY <3>1, <4>1, <2>2, <2>3 DEF CheckMonitor, Lawful, Remembered, memory, remote
    <3>2. CASE CheckRipgrep(w)
      <4>1. s = IF call[w].policy = "ask" /\ ~verified THEN "asking" ELSE "again"
        BY <3>2, <2>2, GotoMoves DEF CheckRipgrep
      <4>2. QED
        BY <3>2, <4>1, <2>2, <2>3 DEF CheckRipgrep, Lawful, Consents, Policy, memory, remote
    <3>3. QED
      BY <1>5, <3>1, <3>2
  <2>5. QED
    BY <1>5, <2>1, <2>4, GotoMoves, OneMoves DEF CheckMonitor, CheckRipgrep, memory, remote
<1>6. ASSUME NEW w \in Worker, CheckPrompts(w) \/ RecordPending(w) PROVE Lawfuls'
  <2>1. CASE Leave(w)
    BY <1>6, <2>1, LeaveLawful DEF CheckPrompts, RecordPending, memory, remote
  <2>2. CASE ~Leave(w)
    <3>1. PICK s \in {"truncate", "record", "asking"} : Goto(w, s)
      BY <1>6, <2>2 DEF CheckPrompts, RecordPending
    <3>2. call'[w].step = s /\ ~call'[w].cut
          /\ call'[w].policy = call[w].policy /\ call'[w].agreed = call[w].agreed
        /\ call'[w].late = call[w].late
      BY <3>1, GotoMoves
    <3>3. call[w].policy \in Policy /\ Lawful(w)
      BY DEF TypeOK, Lawfuls
    <3>4. Lawful(w)'
      <4>1. CASE CheckPrompts(w)
        <5>1. call[w].policy # "never" /\ s = IF call[w].policy = "allow" THEN "truncate" ELSE "record"
          BY <4>1, <2>2, <3>2, GotoMoves DEF CheckPrompts
        <5>2. QED
          BY <4>1, <5>1, <3>2, <3>3 DEF CheckPrompts, At, Lawful, Consents, Policy
      <4>2. CASE RecordPending(w)
        <5>1. s = "asking"
          BY <4>2, <2>2, <3>2, GotoMoves DEF RecordPending
        <5>2. QED
          BY <4>2, <5>1, <3>2, <3>3 DEF RecordPending, At, Lawful
      <4>3. QED
        BY <1>6, <4>1, <4>2
    <3>5. QED
      BY <1>6, <3>1, <3>4, GotoMoves, OneMoves DEF CheckPrompts, RecordPending, memory, remote
  <2>3. QED
    BY <2>1, <2>2
<1>7. ASSUME NEW w \in Worker, Agree(w) PROVE Lawfuls'
  <2>1. call[w].policy = "ask"
    BY <1>7 DEF Agree, At, Lawfuls, Lawful
  <2>2. /\ call'[w].step = IF helper = "rg" THEN "again" ELSE "truncate"
        /\ call'[w].policy = "ask" /\ call'[w].agreed /\ ~call'[w].cut
    BY <1>7, <2>1 DEF Agree, Becomes, TypeOK
  <2>3. Lawful(w)'
    BY <1>7, <2>1, <2>2 DEF Agree, Lawful, Consents, remote
  <2>4. QED
    BY <1>7, <2>3, BecomesMoves, OneMoves DEF Agree, remote
<1>8. ASSUME NEW w \in Worker, Refuse(w) \/ Breaks(w) PROVE Lawfuls'
  BY <1>8, LeaveLawful DEF Refuse, Breaks, memory, remote
<1>9. ASSUME NEW w \in Worker, CheckAgain(w) \/ Fill(w) \/ Note(w) PROVE Lawfuls'
  <2>1. PICK s \in {"run", "truncate", "verify"} : Goto(w, s)
    BY <1>9 DEF CheckAgain, Fill, Note
  <2>2. call'[w].step = s /\ ~call'[w].cut
        /\ call'[w].policy = call[w].policy /\ call'[w].agreed = call[w].agreed
        /\ call'[w].late = call[w].late
    BY <2>1, GotoMoves
  <2>3. Lawful(w)
    BY DEF Lawfuls
  <2>4. Lawful(w)'
    <3>1. CASE CheckAgain(w)
      <4>1. s = IF verified THEN "run" ELSE "truncate"
        BY <3>1, <2>2, GotoMoves DEF CheckAgain
      <4>2. QED
        BY <3>1, <4>1, <2>2, <2>3 DEF CheckAgain, At, Lawful, Consents, Remembered, memory, remote
    <3>2. CASE Fill(w)
      <4>1. s = "verify"
        BY <3>2, <2>2, GotoMoves DEF Fill
      <4>2. QED
        BY <3>2, <4>1, <2>2, <2>3 DEF Fill, At, Lawful, Consents, memory
    <3>3. CASE Note(w)
      <4>1. s = "run"
        BY <3>3, <2>2, GotoMoves DEF Note
      <4>2. QED
        BY <3>3, <4>1, <2>2, <2>3 DEF Note, At, Lawful, remote
    <3>4. QED
      BY <1>9, <3>1, <3>2, <3>3
  <2>5. QED
    BY <1>9, <2>1, <2>4, GotoMoves, OneMoves DEF CheckAgain, Fill, Note, memory, remote
<1>10. ASSUME NEW w \in Worker, Verify(w) PROVE Lawfuls'
  <2>1. CASE file # "whole"
    BY <1>10, <2>1, LeaveLawful DEF Verify, memory
  <2>2. CASE file = "whole"
    <3>1. PICK s \in {"run", "note"} : Goto(w, s)
      BY <1>10, <2>2 DEF Verify
    <3>2. Consents(w) /\ Lawful(w)
      BY <1>10 DEF Verify, At, Lawfuls, Lawful
    <3>3. Lawful(w)'
      BY <1>10, <2>2, <3>1, <3>2, GotoMoves DEF Verify, Lawful, Consents, memory
    <3>4. QED
      BY <1>10, <2>2, <3>1, <3>3, GotoMoves, OneMoves DEF Verify, memory
  <2>3. QED
    BY <2>1, <2>2
<1>11. ASSUME NEW w \in Worker, Truncate(w) PROVE Lawfuls'
  <2>1. ASSUME NEW v \in Worker PROVE Lawful(v)'
    <3>1. Lawful(v)
      BY DEF Lawfuls
    <3>2. CASE v = w
      <4>1. call'[v].step = "fill" /\ call'[v].policy = call[v].policy /\ call'[v].agreed = call[v].agreed
            /\ call'[v].late = call[v].late
        BY <1>11, <3>2 DEF Truncate, Stage
      <4>2. QED
        BY <1>11, <3>1, <3>2, <4>1 DEF Truncate, At, Lawful, Consents, memory
    <3>3. CASE v # w
      <4>1. call'[v] = Cut(v)
        BY <1>11, <3>3 DEF Truncate
      <4>2. QED
        BY <1>11, <3>1, <4>1, CutIs DEF Truncate, Lawful, Consents, memory
    <3>4. QED
      BY <3>2, <3>3
  <2>2. QED
    BY <2>1 DEF Lawfuls
<1>12. ASSUME NEW c \in {"none", "other"}, Outsider(c) PROVE Lawfuls'
  <2>1. ASSUME NEW v \in Worker PROVE Lawful(v)'
    <3>1. Lawful(v)
      BY DEF Lawfuls
    <3>2. call'[v] = Cut(v)
      BY <1>12 DEF Outsider
    <3>3. QED
      BY <1>12, <3>1, <3>2, CutIs DEF Outsider, Lawful, Consents, memory
  <2>2. QED
    BY <2>1 DEF Lawfuls
<1>13. ASSUME Restart PROVE Lawfuls'
  BY <1>13 DEF Restart, Lawfuls, Lawful, NoCall
<1>14. CASE UNCHANGED vars \/ \E p \in Policy : SetPolicy(p)
  BY <1>14 DEF vars, SetPolicy, memory, remote, Lawfuls, Lawful, Consents
<1>15. CASE OtherTarget
  <2>1. ASSUME NEW v \in Worker PROVE Lawful(v)'
    <3>1. Lawful(v) /\ call[v].policy \in Policy
      BY DEF Lawfuls, TypeOK
    <3>2. helper' = helper /\ checked' = checked
      BY <1>15 DEF OtherTarget, remote
    <3>3. CASE call' = call /\ verified' = verified
      BY <3>1, <3>2, <3>3 DEF Lawful, Consents
    <3>4. CASE call'[v] = Overtaken(v)
      <4>1. /\ call'[v].step = call[v].step /\ call'[v].policy = call[v].policy
            /\ call'[v].agreed = call[v].agreed /\ call'[v].cut = call[v].cut
            /\ call'[v].late <=> (call[v].late \/ call[v].step = "again")
        BY <3>4 DEF Overtaken, At, TypeOK
      <4>2. QED
        BY <3>1, <3>2, <4>1 DEF Lawful, Consents, Policy
    <3>5. QED
      BY <1>15, <3>3, <3>4 DEF OtherTarget
  <2>2. QED
    BY <2>1 DEF Lawfuls
<1>16. QED
  BY <1>1, <1>2, <1>3, <1>4, <1>5, <1>6, <1>7, <1>8, <1>9, <1>10, <1>11, <1>12, <1>13, <1>14, <1>15
  DEF Next, Proceed, Answer, FindMonitor, FindRipgrep, FindAgent, CollectFromMonitor, SearchWithRipgrep,
      LaunchAgent, DownloadMonitor, DownloadRipgrep, DownloadAgent, TargetUnknown, SystemCommandsSuffice,
      RemoteRipgrepAnswers

LEMMA RememberedInductive ==
  ASSUME TypeOK, Lawfuls, Remembered, [Next]_vars
  PROVE  Remembered'
<1>1. ASSUME NEW w \in Worker, Note(w) PROVE Remembered'
  <2>1. checked
    BY <1>1 DEF Note, At, Lawfuls, Lawful
  <2>2. QED
    BY <1>1, <2>1 DEF Note, Remembered, remote
<1>2. ASSUME NEW w \in Worker, Verify(w) PROVE Remembered'
  BY <1>2 DEF Verify, Remembered, memory
<1>3. CASE Restart
  BY <1>3 DEF Restart, Remembered
<1>4. CASE UNCHANGED <<verified, checked>>
  BY <1>4 DEF Remembered
<1>5. CASE OtherTarget
  BY <1>5 DEF OtherTarget, Remembered, remote
<1>6. QED
  BY <1>1, <1>2, <1>3, <1>4, <1>5
  DEF Next, Start, Proceed, Answer, FindMonitor, FindRipgrep, FindAgent, FindsBytes, ReadPolicy,
      CheckMonitor, CheckRipgrep, CheckPrompts, RecordPending, CheckAgain, Truncate, Fill,
      CollectFromMonitor, SearchWithRipgrep, LaunchAgent, Runs, DownloadMonitor, DownloadRipgrep,
      DownloadAgent, Downloads, Agree, Refuse, Breaks, TargetUnknown, SystemCommandsSuffice,
      RemoteRipgrepAnswers, DoesWithout, SetPolicy, Outsider, vars, memory, remote

-----------------------------------------------------------------------------
(* The remote file.                                                        *)

\* A call that moves and is not writing leaves the writers alone.
LEMMA FillerStays ==
  ASSUME Filling, NEW w \in Worker, ~At(w, "fill"),
         \A v \in Worker \ {w} : call'[v] = call[v],
         UNCHANGED remote
  PROVE  Filling'
<1>1. ASSUME NEW v \in Worker, At(v, "fill"), ~call[v].cut PROVE At(v, "fill")' /\ ~call'[v].cut
  <2>1. v # w
    BY <1>1
  <2>2. QED
    BY <1>1, <2>1 DEF At
<1>2. QED
  BY <1>1 DEF Filling, remote

LEMMA FillingInductive ==
  ASSUME TypeOK, Filling, [Next]_vars
  PROVE  Filling'
<1>1. ASSUME NEW w \in Worker,
             \/ Start(w) \/ DoesWithout(w) \/ FindsBytes(w) \/ Downloads(w) \/ ReadPolicy(w)
             \/ CheckMonitor(w) \/ CheckRipgrep(w) \/ CheckPrompts(w) \/ RecordPending(w)
             \/ Agree(w) \/ Refuse(w) \/ CheckAgain(w) \/ Note(w) \/ Runs(w)
      PROVE  Filling'
  <2>1. \A v \in Worker \ {w} : call'[v] = call[v]
    BY <1>1 DEF TypeOK, Becomes, Goto, Leave, Start, DoesWithout, FindsBytes, Downloads, ReadPolicy,
       CheckMonitor, CheckRipgrep, CheckPrompts, RecordPending, Agree, Refuse, CheckAgain, Note, Runs
  <2>2. ~At(w, "fill") /\ UNCHANGED remote
    BY <1>1 DEF At, Start, DoesWithout, FindsBytes, Downloads, ReadPolicy, CheckMonitor, CheckRipgrep,
       CheckPrompts, RecordPending, Agree, Refuse, CheckAgain, Note, Runs
  <2>3. QED
    BY <2>1, <2>2, FillerStays
<1>2. ASSUME NEW w \in Worker, Truncate(w) PROVE Filling'
  <2>1. call'[w] = Stage(w, "fill", FALSE)
    BY <1>2 DEF Truncate
  <2>2. call'[w].step = "fill" /\ ~call'[w].cut
    BY <2>1 DEF Stage
  <2>3. QED
    BY <2>2 DEF Filling, At
<1>3. ASSUME NEW w \in Worker, Fill(w) PROVE Filling'
  <2>1. \A v \in Worker \ {w} : call'[v] = call[v]
    BY <1>3, GotoMoves DEF Fill
  <2>2. CASE ~call[w].cut
    BY <1>3, <2>2 DEF Fill, Written, Filling
  <2>3. CASE call[w].cut
    <3>1. file' # "whole" => file' = file
      BY <1>3, <2>3 DEF Fill, Written
    <3>2. ASSUME NEW v \in Worker, At(v, "fill"), ~call[v].cut PROVE At(v, "fill")' /\ ~call'[v].cut
      <4>1. v # w
        BY <2>3, <3>2
      <4>2. QED
        BY <3>2, <4>1, <2>1 DEF At
    <3>3. QED
      BY <1>3, <3>1, <3>2 DEF Filling, Fill
  <2>4. QED
    BY <2>2, <2>3
<1>4. ASSUME NEW w \in Worker, Verify(w) PROVE Filling'
  <2>1. CASE file = "whole"
    BY <1>4, <2>1 DEF Verify, Filling
  <2>2. CASE file # "whole"
    <3>1. UNCHANGED remote /\ ~At(w, "fill") /\ Leave(w)
      BY <1>4, <2>2 DEF Verify, At, remote
    <3>2. QED
      BY <3>1, LeaveMoves, FillerStays
  <2>3. QED
    BY <2>1, <2>2
<1>5. ASSUME NEW w \in Worker, Breaks(w) PROVE Filling'
  <2>1. CASE At(w, "fill")
    BY <1>5, <2>1 DEF Breaks, Filling
  <2>2. CASE ~At(w, "fill")
    <3>1. UNCHANGED remote /\ Leave(w)
      BY <1>5, <2>2 DEF Breaks, remote, TypeOK
    <3>2. QED
      BY <2>2, <3>1, LeaveMoves, FillerStays
  <2>3. QED
    BY <2>1, <2>2
<1>6. ASSUME NEW c \in {"none", "other"}, Outsider(c) PROVE Filling'
  BY <1>6 DEF Outsider, Filling
<1>7. CASE Restart
  BY <1>7 DEF Restart, Filling
<1>8. CASE UNCHANGED vars \/ \E p \in Policy : SetPolicy(p)
  BY <1>8 DEF vars, SetPolicy, remote, Filling, At
<1>9. CASE OtherTarget
  <2>1. \A v \in Worker : call'[v].step = call[v].step /\ call'[v].cut = call[v].cut
    BY <1>9 DEF OtherTarget, Overtaken, TypeOK
  <2>2. QED
    BY <1>9, <2>1 DEF OtherTarget, remote, Filling, At
<1>10. QED
  BY <1>1, <1>2, <1>3, <1>4, <1>5, <1>6, <1>7, <1>8, <1>9
  DEF Next, Proceed, Answer, FindMonitor, FindRipgrep, FindAgent, CollectFromMonitor, SearchWithRipgrep,
      LaunchAgent, DownloadMonitor, DownloadRipgrep, DownloadAgent, TargetUnknown, SystemCommandsSuffice,
      RemoteRipgrepAnswers

-----------------------------------------------------------------------------
(* The dialog.                                                             *)

\* A call that moves without opening or closing a dialog leaves the dialogs as they are.
LEMMA DialogsStay ==
  ASSUME Dialog, NEW w \in Worker, ~At(w, "asking"), ~At(w, "asking")',
         \A v \in Worker \ {w} : call'[v] = call[v],
         helper' = helper, pending' = pending, retargeted' = retargeted
  PROVE  Dialog'
<1>1. In({"asking"})' = In({"asking"})
  BY DEF In, At
<1>2. QED
  BY <1>1 DEF Dialog

\* A call that asks under the monitor's mark is the only one.
LEMMA DialogIs ==
  ASSUME Dialog, helper = "monitor", ~retargeted, NEW w \in Worker, At(w, "asking")
  PROVE  pending /\ In({"asking"}) = {w}
<1>1. w \in In({"asking"})
  BY DEF In, At
<1>2. QED
  BY <1>1 DEF Dialog

LEMMA DialogInductive ==
  ASSUME TypeOK, Lawfuls, Dialog, [Next]_vars
  PROVE  Dialog'
<1> SUFFICES ASSUME helper' = "monitor", ~retargeted' PROVE Dialog'
  BY DEF Dialog
<1>0. helper = "monitor"
  BY DEF Next, Start, Proceed, Answer, FindMonitor, FindRipgrep, FindAgent, FindsBytes, ReadPolicy,
      CheckMonitor, CheckRipgrep, CheckPrompts, RecordPending, CheckAgain, Truncate, Fill, Verify, Note,
      CollectFromMonitor, SearchWithRipgrep, LaunchAgent, Runs, DownloadMonitor, DownloadRipgrep,
      DownloadAgent, Downloads, Agree, Refuse, Breaks, TargetUnknown, SystemCommandsSuffice,
      RemoteRipgrepAnswers, DoesWithout, SetPolicy, Outsider, OtherTarget, Restart, vars
<1>1. ASSUME NEW w \in Worker,
             \/ Start(w) \/ DoesWithout(w) \/ FindsBytes(w) \/ Downloads(w) \/ ReadPolicy(w)
             \/ CheckMonitor(w) \/ CheckPrompts(w) \/ CheckAgain(w)
             \/ Fill(w) \/ Verify(w) \/ Note(w) \/ Runs(w) \/ Breaks(w)
      PROVE  Dialog'
  <2>1. ~At(w, "asking")
    BY <1>1 DEF At, Start, DoesWithout, FindsBytes, Downloads, ReadPolicy, CheckMonitor, CheckPrompts,
       CheckAgain, Fill, Verify, Note, Runs, Breaks
  <2>2. pending' = pending
    BY <1>1 DEF memory, Start, DoesWithout, FindsBytes, Downloads, ReadPolicy, CheckMonitor, CheckPrompts,
       CheckAgain, Fill, Verify, Note, Runs, Breaks
  <2>3. \A v \in Worker \ {w} : call'[v] = call[v]
    BY <1>1 DEF TypeOK, Becomes, Goto, Leave, Start, DoesWithout, FindsBytes, Downloads, ReadPolicy,
       CheckMonitor, CheckPrompts, CheckAgain, Fill, Verify, Note, Runs, Breaks
  <2>4. ~At(w, "asking")'
    <3>1. CASE Start(w)
      BY <3>1 DEF Start, Becomes, At, TypeOK
    <3>2. CASE Leave(w)
      BY <3>2, LeaveMoves DEF NoCall, At
    <3>3. CASE \E s \in Step \ {"asking"} : Goto(w, s)
      BY <3>3, GotoMoves DEF At
    <3>4. CASE ReadPolicy(w)
      BY <1>0, <3>4 DEF ReadPolicy, Becomes, At, TypeOK
    <3>5. QED
      BY <1>1, <1>0, <3>1, <3>2, <3>3, <3>4 DEF Step, DoesWithout, FindsBytes, Downloads,
         CheckMonitor, CheckPrompts, CheckAgain, Fill, Verify, Note, Runs, Breaks
  <2>5. retargeted' = retargeted
    BY <1>1 DEF app, Start, DoesWithout, FindsBytes, Downloads, ReadPolicy, CheckMonitor, CheckPrompts,
       CheckAgain, Fill, Verify, Note, Runs, Breaks
  <2>6. QED
    BY <1>0, <2>1, <2>2, <2>3, <2>4, <2>5, DialogsStay
<1>2. ASSUME NEW w \in Worker, RecordPending(w) PROVE Dialog'
  <2>1. \A v \in Worker \ {w} : call'[v] = call[v]
    BY <1>2 DEF TypeOK, RecordPending, Leave, Goto, Becomes
  <2>2. ~At(w, "asking")
    BY <1>2 DEF RecordPending, At
  <2>3. CASE pending
    <3>1. ~At(w, "asking")'
      BY <1>2, <2>3, LeaveMoves DEF RecordPending, NoCall, At
    <3>2. QED
      BY <1>0, <1>2, <2>1, <2>2, <2>3, <3>1, DialogsStay DEF RecordPending, TypeOK, app
  <2>4. CASE ~pending
    <3>1. In({"asking"}) = {}
      BY <1>0, <1>2, <2>4 DEF Dialog, RecordPending, app
    <3>2. At(w, "asking")'
      BY <1>2, <2>4, GotoMoves DEF RecordPending, At
    <3>3. In({"asking"})' = {w}
      BY <3>1, <3>2, <2>1 DEF In, At
    <3>4. QED
      BY <1>2, <3>3 DEF RecordPending, Dialog
  <2>5. QED
    BY <2>3, <2>4
<1>3. ASSUME NEW w \in Worker, Agree(w) \/ Refuse(w) PROVE Dialog'
  <2>1. In({"asking"}) = {w}
    <3>1. retargeted' = retargeted /\ At(w, "asking")
      BY <1>3 DEF Agree, Refuse, app
    <3>2. ~retargeted
      BY <3>1
    <3>3. QED
      BY <1>0, <3>1, <3>2, DialogIs
  <2>2. ~pending'
    BY <1>0, <1>3 DEF Agree, Refuse
  <2>3. ~At(w, "asking")'
    <3>1. CASE Agree(w)
      BY <1>0, <3>1 DEF Agree, Becomes, At, TypeOK
    <3>2. CASE Refuse(w)
      BY <3>2, LeaveMoves DEF Refuse, NoCall, At
    <3>3. QED
      BY <1>3, <3>1, <3>2
  <2>4. \A v \in Worker \ {w} : call'[v] = call[v]
    BY <1>3 DEF TypeOK, Agree, Refuse, Leave, Becomes
  <2>5. In({"asking"})' = {}
    BY <2>1, <2>3, <2>4 DEF In, At
  <2>6. QED
    BY <2>2, <2>5 DEF Dialog
<1>4. ASSUME NEW w \in Worker, Truncate(w) PROVE Dialog'
  <2>1. \A v \in Worker : At(v, "asking")' <=> At(v, "asking")
    <3>1. call'[w] = Stage(w, "fill", FALSE) /\ At(w, "truncate")
      BY <1>4 DEF Truncate
    <3>2. call'[w].step = "fill" /\ call[w].step = "truncate"
      BY <3>1 DEF Stage, At
    <3>3. \A v \in Worker \ {w} : call'[v] = Cut(v)
      BY <1>4 DEF Truncate
    <3>4. \A v \in Worker \ {w} : call'[v].step = call[v].step
      BY <3>3, CutIs
    <3>5. QED
      BY <3>2, <3>4 DEF At
  <2>2. In({"asking"})' = In({"asking"})
    BY <2>1 DEF In, At
  <2>3. QED
    BY <1>4, <2>2 DEF Truncate, Dialog, memory, app
<1>5. ASSUME NEW c \in {"none", "other"}, Outsider(c) PROVE Dialog'
  <2>1. \A v \in Worker : call'[v] = Cut(v)
    BY <1>5 DEF Outsider
  <2>2. In({"asking"})' = In({"asking"})
    BY <2>1, CutIs DEF In
  <2>3. QED
    BY <1>5, <2>2 DEF Outsider, Dialog, memory, app
<1>6. CASE Restart
  <2>1. In({"asking"})' = {}
    BY <1>6 DEF Restart, In, NoCall
  <2>2. QED
    BY <1>6, <2>1 DEF Restart, Dialog
<1>7. CASE UNCHANGED vars \/ \E p \in Policy : SetPolicy(p)
  BY <1>7 DEF vars, SetPolicy, memory, app, In, Dialog
<1>8. ~OtherTarget
  BY DEF OtherTarget
<1>9. QED
  BY <1>0, <1>1, <1>2, <1>3, <1>4, <1>5, <1>6, <1>7, <1>8
  DEF Next, Proceed, Answer, FindMonitor, FindRipgrep, FindAgent, CollectFromMonitor, SearchWithRipgrep,
      LaunchAgent, DownloadMonitor, DownloadRipgrep, DownloadAgent, TargetUnknown, SystemCommandsSuffice,
      RemoteRipgrepAnswers, CheckRipgrep

-----------------------------------------------------------------------------
(* What the run checks.                                                    *)

LEMMA InvariantSuffices ==
  ASSUME TypeOK, Lawfuls, Remembered, Filling, Dialog
  PROVE  HelperIsSound
<1>1. UploadsHaveConsent
  BY DEF UploadsHaveConsent, Lawfuls, Lawful, Consents
<1>2. PendingIsOneDialog
  <2>1. CASE pending /\ helper = "monitor" /\ ~retargeted
    <3>1. PICK w \in Worker : In({"asking"}) = {w}
      BY <2>1 DEF Dialog
    <3>2. QED
      BY <2>1, <3>1, FS_Singleton DEF PendingIsOneDialog
  <2>2. CASE ~pending /\ helper = "monitor" /\ ~retargeted
    BY <2>2, FS_EmptySet DEF Dialog, PendingIsOneDialog
  <2>3. QED
    BY <2>1, <2>2 DEF PendingIsOneDialog
<1>3. VerifiedIsDeployed
  <2>1. verified \/ In({"run"}) # {} => checked
    BY DEF Remembered, In, Lawfuls, Lawful
  <2>2. checked /\ file # "whole" /\ ~spoilt => In({"fill", "verify"}) # {}
    BY DEF Filling, In, At
  <2>3. QED
    BY <2>1, <2>2 DEF VerifiedIsDeployed
<1>4. QED
  BY <1>1, <1>2, <1>3 DEF HelperIsSound

\* An upload has the user's consent, but for a search whose verified hash another target
\* replaced after it had skipped its dialog; while the host has one target, the monitor's
\* prompt is pending exactly while its one dialog is open; and what is remembered as verified had the right hash and is whole unless
\* somebody spoilt it or it is being written again.
THEOREM HelpersSound == Spec => []HelperIsSound
<1> DEFINE Inv == TypeOK /\ Lawfuls /\ Remembered /\ Filling /\ Dialog
<1>1. Init => Inv
  BY InitTypeOK, InitInv
<1>2. Inv /\ [Next]_vars => Inv'
  BY NextTypeOK, CallsInductive, RememberedInductive, FillingInductive, DialogInductive
<1>3. Inv => HelperIsSound
  BY InvariantSuffices
<1>4. QED
  BY <1>1, <1>2, <1>3, PTL DEF Spec

=============================================================================
