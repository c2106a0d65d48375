---------------------------- MODULE DaemonProofs ----------------------------
(***************************************************************************)
(* Theorems about the daemon of a persistent session: SessionRegistry, for *)
(* every number of concurrent renames and deletes; Transcript, for every   *)
(* output, size, cap and number of history requests; and DaemonClients,    *)
(* for every set of connections, every limit and every amount of output.   *)
(***************************************************************************)
EXTENDS SessionRegistry, Transcript, DaemonClients, TLAPS, FiniteSetTheorems, SequenceTheorems

-----------------------------------------------------------------------------
(* The registry: SessionRegistry.                                          *)

\* What an updater that is about to write holds: a registry that was there, with an
\* exit only if the process had ended.
CopiesTrue ==
    /\ registry.exit => process = "ended"
    /\ \A u \in Updaters : copy[u].exit => process = "ended"
    /\ \A u \in Updaters : pc[u] \in {"daemonWrite", "helperWrite"} => copy[u].there
    /\ pc["waiter"] # "idle" => process = "ended"

\* The process runs from the fourth step of the start on.
ProcessBegun == stage \in {"none", "registered", "opened"} <=> process = "none" /\ stage # "gone"

\* The files that are there from their creation until the session ends.
Stages ==
    /\ stage = "none" => ~registry.there /\ ~transcript
    /\ stage \notin {"none", "gone"} /\ process # "ended" => registry.there
    /\ stage \in {"opened", "spawned", "listening"} /\ process # "ended" => transcript

\* A delete that has got to the files does so after the end of the session, and takes
\* the transcript first.
Removals ==
    /\ stage = "none" => pc = [u \in Updaters |-> "idle"]
    /\ \A d \in Deleters :
         /\ del[d] # "idle" => stage \in {"listening", "gone"}
         /\ del[d] \in {"files", "transcript", "registry", "done"}
              => process = "ended" \/ stage = "gone"
         /\ del[d] = "registry" => ~transcript

RegistryIInv == ProcessBegun /\ CopiesTrue /\ Stages /\ Removals /\ NoOrphanTranscript

-----------------------------------------------------------------------------

\* Every state of the session's files, updaters and deletes is well typed.
THEOREM RegistryTypeCorrect == RegistrySpec => []RegistryTypeOK
<1>1. RegistryInit => RegistryTypeOK
  <2>1. NoFile \in Registry
    BY DEF NoFile, Registry, Titles
  <2>2. QED
    BY <2>1 DEF RegistryInit, RegistryTypeOK, Starting
<1>2. RegistryTypeOK /\ [RegistryNext]_registryVars => RegistryTypeOK'
  <2> SUFFICES ASSUME RegistryTypeOK, [RegistryNext]_registryVars PROVE RegistryTypeOK'
    OBVIOUS
  <2> USE DEF RegistryTypeOK
  <2>1. CreateInitialRegistry => RegistryTypeOK'
    BY DEF CreateInitialRegistry, Registry, Titles, Starting
  <2>2. OpenTranscript \/ StartProcess \/ Listen \/ ProcessEnds => RegistryTypeOK'
    BY DEF OpenTranscript, StartProcess, Listen, ProcessEnds, Starting
  <2>3. ReadForExit => RegistryTypeOK'
    BY DEF ReadForExit, Updaters
  <2>4. WriteExit => RegistryTypeOK'
    <3>1. [copy["waiter"] EXCEPT !.exit = TRUE] \in Registry
      BY DEF Updaters, Registry
    <3>2. QED
      BY <3>1 DEF WriteExit, Updaters
  <2>5. DaemonReturns \/ DaemonDies => RegistryTypeOK'
    BY DEF DaemonReturns, DaemonDies, DaemonGone, ProcessAfter
  <2>6. ASSUME NEW r \in Renamers, RenameBegin(r) PROVE RegistryTypeOK'
    BY <2>6 DEF RenameBegin, Updaters
  <2>7. ASSUME NEW r \in Renamers, RenameRead(r) PROVE RegistryTypeOK'
    BY <2>7 DEF RenameRead, Updaters
  <2>8. ASSUME NEW r \in Renamers, RenameWrite(r) PROVE RegistryTypeOK'
    BY <2>8 DEF RenameWrite, Updaters, Registry, Titles
  <2>9. ASSUME NEW d \in Deleters, DeleteBegin(d) \/ DeleteClose(d) PROVE RegistryTypeOK'
    BY <2>9 DEF DeleteBegin, DeleteClose, Step
  <2>10. ASSUME NEW d \in Deleters, DeleteWait(d) \/ DeleteRead(d) \/ DeleteFails(d)
         PROVE  RegistryTypeOK'
    BY <2>10 DEF DeleteWait, DeleteRead, DeleteFails, Step
  <2>11. ASSUME NEW d \in Deleters, DeleteRemove(d) PROVE RegistryTypeOK'
    <3>1. NoFile \in Registry
      BY DEF NoFile, Registry, Titles
    <3>2. QED
      BY <2>11, <3>1 DEF DeleteRemove, RemoveFiles, Step
  <2>12. UNCHANGED registryVars => RegistryTypeOK'
    BY DEF registryVars
  <2>13. QED
    BY <2>1, <2>2, <2>3, <2>4, <2>5, <2>6, <2>7, <2>8, <2>9, <2>10, <2>11, <2>12
       DEF RegistryNext, DaemonNext, RenameNext, DeleteNext
<1>3. QED
  BY <1>1, <1>2, PTL DEF RegistrySpec

-----------------------------------------------------------------------------

\* How far the daemon is agrees with its process and with the exits that are known.
LEMMA CopiesInductive ==
  ASSUME RegistryTypeOK, CopiesTrue, ProcessBegun, [RegistryNext]_registryVars
  PROVE  CopiesTrue' /\ ProcessBegun'
<1> USE DEF RegistryTypeOK, CopiesTrue, ProcessBegun
<1>1. CreateInitialRegistry => CopiesTrue' /\ ProcessBegun'
  BY DEF CreateInitialRegistry, Updaters
<1>2. OpenTranscript \/ StartProcess \/ Listen \/ ProcessEnds => CopiesTrue' /\ ProcessBegun'
  <2>1. OpenTranscript \/ Listen => CopiesTrue' /\ ProcessBegun'
    BY DEF OpenTranscript, Listen, Starting
  <2>2. StartProcess => CopiesTrue' /\ ProcessBegun'
    BY DEF StartProcess, Starting
  <2>3. ProcessEnds => CopiesTrue' /\ ProcessBegun'
    BY DEF ProcessEnds, Starting
  <2>4. QED
    BY <2>1, <2>2, <2>3
<1>3. ReadForExit => CopiesTrue' /\ ProcessBegun'
  <2>1. ReadForExit => process = "ended" /\ process' = process /\ stage' = stage
    BY DEF ReadForExit, HasEnded
  <2>2. ReadForExit => \A u \in Updaters : pc'[u] \in {"daemonWrite", "helperWrite"}
                                             => copy'[u].there
    BY DEF ReadForExit, Updaters
  <2>3. QED
    BY <2>1, <2>2
<1>4. WriteExit => CopiesTrue' /\ ProcessBegun'
  BY DEF WriteExit, Updaters, Registry
<1>5. DaemonReturns \/ DaemonDies => CopiesTrue' /\ ProcessBegun'
  BY DEF DaemonReturns, DaemonDies, DaemonGone, ProcessAfter, Updaters
<1>6. ASSUME NEW r \in Renamers, RenameNext(r) PROVE CopiesTrue' /\ ProcessBegun'
  <2>1. r # "waiter" /\ r \in Updaters
    BY RegistryAssumption DEF RegistryAssumption, Updaters
  <2>2. CASE RenameBegin(r)
    BY <2>1, <2>2 DEF RenameBegin
  <2>3. CASE RenameRead(r)
    <3>1. UNCHANGED <<registry, process, stage>> /\ pc'["waiter"] = pc["waiter"]
      BY <2>1, <2>3 DEF RenameRead, Updaters
    <3>2. ASSUME NEW u \in Updaters, u # r PROVE copy'[u] = copy[u] /\ pc'[u] = pc[u]
      BY <2>3, <3>2 DEF RenameRead
    <3>3. \/ copy'[r] = registry /\ registry.there
          \/ copy'[r] = copy[r] /\ pc'[r] = "failed"
      BY <2>1, <2>3 DEF RenameRead
    <3>4. QED
      BY <3>1, <3>2, <3>3
  <2>4. CASE RenameWrite(r)
    <3>1. UNCHANGED <<copy, process, stage>> /\ pc'["waiter"] = pc["waiter"]
      BY <2>1, <2>4 DEF RenameWrite, Updaters
    <3>2. ASSUME NEW u \in Updaters PROVE pc'[u] = pc[u] \/ pc'[u] \in {"done", "failed"}
      BY <2>4, <3>2 DEF RenameWrite
    <3>3. registry'.exit => registry.exit \/ copy[r].exit
      BY <2>1, <2>4 DEF RenameWrite, Registry
    <3>4. QED
      BY <2>1, <3>1, <3>2, <3>3
  <2>5. QED
    BY <1>6, <2>2, <2>3, <2>4 DEF RenameNext
<1>7. ASSUME NEW d \in Deleters, DeleteNext(d) PROVE CopiesTrue' /\ ProcessBegun'
  BY <1>7 DEF DeleteNext, DeleteBegin, DeleteClose, DeleteWait, DeleteRead, DeleteRemove,
              RemoveFiles, DeleteFails, NoFile
<1>8. UNCHANGED registryVars => CopiesTrue' /\ ProcessBegun'
  BY DEF registryVars
<1>9. QED
  BY <1>1, <1>2, <1>3, <1>4, <1>5, <1>6, <1>7, <1>8 DEF RegistryNext, DaemonNext

\* An exit in the registry is that of a process that has ended, however many renames
\* put old copies back.
THEOREM RegistryExitTrue == RegistrySpec => []ExitIsTrue
<1>1. RegistryInit => CopiesTrue /\ ProcessBegun
  BY DEF RegistryInit, CopiesTrue, ProcessBegun, NoFile, Updaters
<1>2. CopiesTrue => ExitIsTrue
  BY DEF CopiesTrue, ExitIsTrue
<1>3. QED
  BY <1>1, <1>2, CopiesInductive, RegistryTypeCorrect, PTL DEF RegistrySpec

-----------------------------------------------------------------------------

\* While a session lives its files are there, and a delete that reaches them does so
\* after its end.
LEMMA StagesInductive ==
  ASSUME ~DeleteDuringStart, RegistryTypeOK, RegistryIInv, [RegistryNext]_registryVars
  PROVE  Stages' /\ Removals' /\ NoOrphanTranscript'
<1> DEFINE Good == Stages /\ Removals /\ NoOrphanTranscript
<1> USE DEF RegistryTypeOK, RegistryIInv, ProcessBegun, CopiesTrue, Stages, Removals, NoOrphanTranscript, Starting
<1>1. CreateInitialRegistry => Good'
  BY DEF CreateInitialRegistry, Updaters
<1>2. OpenTranscript => Good'
  BY DEF OpenTranscript
<1>3. StartProcess \/ Listen \/ ProcessEnds => Good'
  BY DEF StartProcess, Listen, ProcessEnds
<1>4. ReadForExit => Good'
  BY DEF ReadForExit
<1>5. WriteExit => Good'
  BY DEF WriteExit, Updaters, Registry
<1>6. DaemonReturns \/ DaemonDies => Good'
  BY DEF DaemonReturns, DaemonDies, DaemonGone, ProcessAfter
<1>7. ASSUME NEW r \in Renamers, RenameNext(r) PROVE Good'
  <2>1. r \in Updaters
    BY DEF Updaters
  <2>2. stage # "none"
    BY <1>7, <2>1 DEF RenameNext, RenameBegin, RenameRead, RenameWrite
  <2>3. registry'.there <=> registry.there \/ registry' # registry
    BY <1>7, <2>1 DEF RenameNext, RenameBegin, RenameRead, RenameWrite, Registry
  <2>4. UNCHANGED <<transcript, stage, process, del>>
    BY <1>7 DEF RenameNext, RenameBegin, RenameRead, RenameWrite
  <2>5. QED
    BY <2>2, <2>3, <2>4
<1>8. ASSUME NEW d \in Deleters, DeleteNext(d) PROVE Good'
  <2>1. CASE DeleteBegin(d)
    BY <2>1 DEF DeleteBegin, Step
  <2>2. CASE DeleteClose(d)
    BY <2>2 DEF DeleteClose, EndpointGone, Step
  <2>3. CASE DeleteWait(d) \/ DeleteRead(d) \/ DeleteFails(d)
    BY <2>3 DEF DeleteWait, DeleteRead, DeleteFails, Step
  <2>4. CASE DeleteRemove(d)
    BY <2>4 DEF DeleteRemove, RemoveFiles, Step, NoFile
  <2>5. QED
    BY <1>8, <2>1, <2>2, <2>3, <2>4 DEF DeleteNext
<1>9. UNCHANGED registryVars => Good'
  BY DEF registryVars
<1>10. QED
  BY <1>1, <1>2, <1>3, <1>4, <1>5, <1>6, <1>7, <1>8, <1>9 DEF RegistryNext, DaemonNext

LEMMA RegistryInductive == ~DeleteDuringStart /\ RegistrySpec => [](RegistryTypeOK /\ RegistryIInv)
<1> SUFFICES ASSUME ~DeleteDuringStart PROVE RegistrySpec => [](RegistryTypeOK /\ RegistryIInv)
  OBVIOUS
<1>1. RegistryInit => RegistryIInv
  <2> SUFFICES ASSUME RegistryInit PROVE RegistryIInv
    OBVIOUS
  <2>1. ProcessBegun
    BY DEF RegistryInit, ProcessBegun, Updaters
  <2>2. CopiesTrue
    BY DEF RegistryInit, CopiesTrue, NoFile, Updaters
  <2>3. Stages /\ NoOrphanTranscript
    BY DEF RegistryInit, Stages, NoOrphanTranscript, NoFile, Starting, Updaters
  <2>4. Removals
    BY DEF RegistryInit, Removals
  <2>5. QED
    BY <2>1, <2>2, <2>3, <2>4 DEF RegistryIInv
<1>2. RegistryTypeOK /\ RegistryIInv /\ [RegistryNext]_registryVars => RegistryIInv'
  BY CopiesInductive, StagesInductive DEF RegistryIInv
<1>3. QED
  BY <1>1, <1>2, RegistryTypeCorrect, PTL DEF RegistrySpec

\* As long as nobody deletes a session that is still starting, its files outlive its
\* process, however many deletes and renames run at once.
THEOREM LiveFilesKept == ~DeleteDuringStart /\ RegistrySpec => []LiveSessionKeepsFiles
<1>1. RegistryTypeOK /\ RegistryIInv => LiveSessionKeepsFiles
  BY DEF RegistryTypeOK, RegistryIInv, Stages, LiveSessionKeepsFiles
<1>2. QED
  BY <1>1, RegistryInductive, PTL

\* No delete, failed or killed, leaves a transcript that no registry names.
THEOREM TranscriptsNamed == ~DeleteDuringStart /\ RegistrySpec => []NoOrphanTranscript
<1>1. RegistryTypeOK /\ RegistryIInv => NoOrphanTranscript
  BY DEF RegistryIInv
<1>2. QED
  BY <1>1, RegistryInductive, PTL
\* The files of a session that starts undisturbed are never taken from it, and none is left
\* behind without a name.
THEOREM RegistryFilesKept == ~DeleteDuringStart /\ RegistrySpec => []FilesAreKept
<1>1. RegistryTypeOK /\ LiveSessionKeepsFiles /\ NoOrphanTranscript => FilesAreKept
  BY DEF FilesAreKept
<1>2. QED
  BY <1>1, RegistryTypeCorrect, LiveFilesKept, TranscriptsNamed, PTL

-----------------------------------------------------------------------------
(* The transcript: Transcript.                                             *)

\* The chunks between a and b are gone.
Gone(a, b) == (a + 1)..(b - 1) \subseteq lost

Rising(s) == \A i, j \in 1..Len(s) : i < j => s[i].n < s[j].n

\* Lines in the order of the output, and what lies between two of them is gone.
Run(s) == Rising(s) /\ \A i \in 1..Len(s) - 1 : Gone(s[i].n, s[i + 1].n)

\* The number of the last chunk that has got to the transcript, or is gone.
Newest == IF rec \in {"append", "clear", "wipe"} THEN out - 1 ELSE out

\* Who may hold the lock while recordOutput is where it is, and at which step.
Holders ==
    /\ lock = "pty" => rec \in {"flush", "clear", "wipe"}
    /\ rec \in {"flush", "wipe"} => lock = "pty"
    /\ rec = "wipe" => /\ step \in {"truncate", "rewrite", "resync"}
                       /\ keep = <<>>
                       /\ step = "resync" => file = <<>>
    /\ rec \in {"append", "clear", "wipe"} => cur.n = out /\ cur.size > 0

\* What the steps of a flush have done to the buffer, the file and the counters.
Steps ==
    /\ buf # <<>> \/ broken => unflushed > 0
    /\ lock # "free" /\ step \in {"spill", "flush"} => unflushed > 0
    /\ lock # "free" /\ step = "spill" => buf # <<>>
    /\ lock # "free" /\ step # "flush" => ~broken
    /\ lock # "free" /\ step \in {"sync", "cap", "truncate", "rewrite", "resync"} => buf = <<>>
    /\ lock # "free" /\ step = "rewrite" => file = <<>>

\* From the end of s up to the newest chunk everything is gone.
EndsIn(s) == s # <<>> => Last(s).n <= Newest /\ Gone(Last(s).n, Newest + 1)

Ends == ~broken => EndsIn(Contents)

\* Until the file is truncated it is what a failed rewrite leaves.
Untouched == lock # "free" /\ step = "truncate" => Run(file) /\ EndsIn(file)

IInv == Holders /\ Steps /\ Run(Contents) /\ Ends /\ Untouched

-----------------------------------------------------------------------------
(* Sequences.                                                               *)

\* What a trim keeps is an end of the transcript.
LEMMA RetainedIsEnd ==
  ASSUME NEW s \in Seq(Lines)
  PROVE  /\ \E k \in 2..Len(s) + 2 : Retained(s) = SubSeq(s, k, Len(s))
         /\ Retained(s) \in Seq(Lines)
<1> DEFINE excess == { i \in 1..Len(s) :
                         \A j \in 1..i : Bytes(SubSeq(s, 1, j)) <= Bytes(s) - Cap \/ ~s[j].whole }
<1>1. IsFiniteSet(1..Len(s)) /\ Cardinality(1..Len(s)) = Len(s)
  BY FS_Interval, Len(s) \in Nat, 0 + 1 \in Int
<1>2. IsFiniteSet(excess) /\ Cardinality(excess) <= Len(s)
  BY <1>1, FS_Subset
<1>3. Cardinality(excess) \in Nat
  BY <1>2, FS_CardinalityType
<1>4. Cardinality(excess) + 2 \in 2..Len(s) + 2
  BY <1>2, <1>3
<1>5. Retained(s) = SubSeq(s, Cardinality(excess) + 2, Len(s))
  BY DEF Retained
<1>6. ASSUME NEW k \in 2..Len(s) + 2 PROVE SubSeq(s, k, Len(s)) \in Seq(Lines)
  BY <1>6
<1>7. QED
  BY <1>4, <1>5, <1>6

\* An end of a run is a run with the same last line.
LEMMA RunEnd ==
  ASSUME NEW s \in Seq(Lines), Run(s), NEW k \in 2..Len(s) + 2
  PROVE  LET e == SubSeq(s, k, Len(s)) IN
         /\ e \in Seq(Lines)
         /\ Run(e)
         /\ e # <<>> => s # <<>> /\ Last(e) = Last(s)
<1> DEFINE e == SubSeq(s, k, Len(s))
<1>1. CASE k > Len(s)
  <2>1. e = <<>>
    BY <1>1
  <2>2. QED
    BY <2>1 DEF Run, Rising
<1>2. CASE k <= Len(s)
  <2>1. /\ e \in Seq(Lines)
        /\ Len(e) = Len(s) - k + 1
        /\ \A i \in 1..Len(e) : e[i] = s[i + k - 1]
    BY <1>2
  <2>2. Run(e)
    <3>1. \A i \in 1..Len(e) : i + k - 1 \in 1..Len(s)
      BY <1>2, <2>1
    <3>2. Rising(e)
      <4>1. \A i, j \in 1..Len(e) : i < j => i + k - 1 < j + k - 1
        BY <2>1
      <4>2. QED
        BY <2>1, <3>1, <4>1 DEF Run, Rising
    <3>3. ASSUME NEW i \in 1..Len(e) - 1 PROVE Gone(e[i].n, e[i + 1].n)
      <4>1. i \in 1..Len(e) /\ i + 1 \in 1..Len(e)
        BY <2>1
      <4>2. (i + 1) + k - 1 = (i + k - 1) + 1 /\ i + k - 1 \in 1..Len(s) - 1
        BY <1>2, <2>1
      <4>3. e[i] = s[i + k - 1] /\ e[i + 1] = s[(i + k - 1) + 1]
        BY <2>1, <4>1, <4>2
      <4>4. QED
        BY <4>2, <4>3 DEF Run
    <3>4. QED
      BY <3>2, <3>3 DEF Run
  <2>3. Last(e) = Last(s)
    <3>1. Len(e) \in 1..Len(e) /\ Len(e) + k - 1 = Len(s)
      BY <1>2, <2>1
    <3>2. e[Len(e)] = s[Len(s)]
      BY <2>1, <3>1
    <3>3. QED
      BY <3>2 DEF Last
  <2>4. QED
    BY <1>2, <2>1, <2>2, <2>3
<1>3. QED
  BY <1>1, <1>2

\* A run is extended by the next line that is not gone.
LEMMA RunAppend ==
  ASSUME NEW s \in Seq(Lines), Run(s), NEW l \in Lines,
         s # <<>> => Last(s).n < l.n /\ Gone(Last(s).n, l.n)
  PROVE  Run(Append(s, l)) /\ Last(Append(s, l)) = l
<1>1. /\ Len(Append(s, l)) = Len(s) + 1
      /\ \A i \in 1..Len(s) : Append(s, l)[i] = s[i]
      /\ Append(s, l)[Len(s) + 1] = l
  OBVIOUS
<1>2. Last(Append(s, l)) = l
  BY <1>1 DEF Last
<1>3. \A i \in 1..Len(s) : s[i].n < l.n
  <2> SUFFICES ASSUME NEW i \in 1..Len(s) PROVE s[i].n < l.n
    OBVIOUS
  <2>1. s # <<>> /\ Last(s) = s[Len(s)] /\ Len(s) \in 1..Len(s)
    BY DEF Last
  <2>2. s[i] \in Lines /\ s[Len(s)] \in Lines
    BY <2>1, ElementOfSeq
  <2>3. s[i].n \in Nat /\ s[Len(s)].n \in Nat /\ l.n \in Nat
    BY <2>2 DEF Lines
  <2>4. s[i].n <= s[Len(s)].n
    <3>1. i = Len(s) \/ i < Len(s)
      BY <2>1
    <3>2. QED
      BY <2>1, <2>3, <3>1 DEF Run, Rising
  <2>5. QED
    BY <2>1, <2>3, <2>4
<1>4. Rising(Append(s, l))
  <2> SUFFICES ASSUME NEW i \in 1..Len(s) + 1, NEW j \in 1..Len(s) + 1, i < j
               PROVE  Append(s, l)[i].n < Append(s, l)[j].n
    BY <1>1 DEF Rising
  <2>1. i \in 1..Len(s) /\ (j \in 1..Len(s) \/ j = Len(s) + 1)
    OBVIOUS
  <2>2. QED
    BY <1>1, <1>3, <2>1 DEF Run, Rising
<1>5. ASSUME NEW i \in 1..Len(s) PROVE Gone(Append(s, l)[i].n, Append(s, l)[i + 1].n)
  <2>1. i = Len(s) \/ i \in 1..Len(s) - 1
    OBVIOUS
  <2>2. CASE i = Len(s)
    BY <1>1, <2>2 DEF Last
  <2>3. CASE i \in 1..Len(s) - 1
    <3>1. i + 1 \in 1..Len(s)
      BY <2>3
    <3>2. Append(s, l)[i] = s[i] /\ Append(s, l)[i + 1] = s[i + 1]
      BY <1>1, <3>1
    <3>3. QED
      BY <2>3, <3>2 DEF Run
  <2>4. QED
    BY <2>1, <2>2, <2>3
<1>6. Len(Append(s, l)) - 1 = Len(s)
  BY <1>1
<1>7. Run(Append(s, l))
  BY <1>4, <1>5, <1>6 DEF Run
<1>8. QED
  BY <1>2, <1>7

\* Once more is gone, what was a run is one still.
LEMMA RunKept ==
  ASSUME lost \subseteq lost', NEW s, Run(s)
  PROVE  Run(s)'
BY DEF Run, Rising, Gone

\* The last line is a line.
LEMMA LastLine ==
  ASSUME NEW s \in Seq(Lines), s # <<>>
  PROVE  Last(s) = s[Len(s)] /\ Len(s) \in 1..Len(s) /\ Last(s).n \in Nat
<1>1. Last(s) = s[Len(s)] /\ Len(s) \in 1..Len(s)
  BY DEF Last
<1>2. s[Len(s)] \in Lines
  BY <1>1, ElementOfSeq
<1>3. QED
  BY <1>1, <1>2 DEF Lines

\* A line that is cut off is one.
LEMMA LineCut ==
  ASSUME NEW l \in Lines, NEW b \in Nat
  PROVE  LET p == [l EXCEPT !.size = b, !.whole = FALSE] IN p \in Lines /\ p.n = l.n /\ p.size = b
BY DEF Lines

\* A write that fails within line k of s leaves the lines before it and perhaps a piece of it.
LEMMA CutLines ==
  ASSUME NEW s \in Seq(Lines), NEW k \in 1..Len(s), NEW piece \in Pieces(s[k])
  PROVE  LET t == SubSeq(s, 1, k - 1) \o piece IN
         /\ t \in Seq(Lines)
         /\ Len(t) \in {k - 1, k}
         /\ \A i \in 1..(k - 1) : t[i] = s[i]
         /\ \A i \in 1..Len(t) : i \in 1..Len(s) /\ t[i].n = s[i].n /\ (s[i].size > 0 => t[i].size > 0)
<1> DEFINE a == SubSeq(s, 1, k - 1)
           t == a \o piece
<1>1. a \in Seq(Lines) /\ Len(a) = k - 1 /\ (\A i \in 1..(k - 1) : a[i] = s[i]) /\ s[k] \in Lines
  BY ElementOfSeq
<1> HIDE DEF a
<1>2. CASE piece = <<>>
  <2>1. t = a
    BY <1>1, <1>2, ConcatEmptySeq
  <2> HIDE DEF t
  <2>2. Len(t) = k - 1 /\ \A i \in 1..(k - 1) : i \in 1..Len(s)
    BY <1>1, <2>1
  <2>3. QED
    BY <1>1, <2>1, <2>2 DEF t, a
<1>3. ASSUME NEW b \in 1..(s[k].size - 1), piece = <<[s[k] EXCEPT !.size = b, !.whole = FALSE]>>
      PROVE  /\ t \in Seq(Lines)
             /\ Len(t) \in {k - 1, k}
             /\ \A i \in 1..(k - 1) : t[i] = s[i]
             /\ \A i \in 1..Len(t) : i \in 1..Len(s) /\ t[i].n = s[i].n /\ (s[i].size > 0 => t[i].size > 0)
  <2> DEFINE p == [s[k] EXCEPT !.size = b, !.whole = FALSE]
  <2>1. p \in Lines /\ p.n = s[k].n /\ p.size > 0
    <3>1. s[k].size \in Nat
      BY <1>1 DEF Lines
    <3>2. b \in Nat /\ b > 0
      BY <1>3, <3>1
    <3>3. QED
      BY <1>1, <3>2, LineCut
  <2> HIDE DEF p
  <2>2. t = Append(a, p)
    BY <1>1, <1>3, <2>1 DEF p
  <2>3. /\ t \in Seq(Lines) /\ Len(t) = k
        /\ \A i \in 1..(k - 1) : t[i] = s[i]
        /\ t[k] = p
    BY <1>1, <2>1, <2>2
  <2> HIDE DEF t
  <2>4. \A i \in 1..k : i \in 1..Len(s) /\ (i = k \/ i \in 1..(k - 1))
    OBVIOUS
  <2>5. QED
    BY <2>1, <2>3, <2>4
<1>4. QED
  BY <1>2, <1>3 DEF Pieces, a

\* What is left of a run is one, and what was behind it is gone.
LEMMA CutRun ==
  ASSUME NEW s \in Seq(Lines), NEW k \in 1..Len(s), NEW piece \in Pieces(s[k]),
         Run(s), EndsIn(s), out \in Nat, lost \cup s[k].n .. Last(s).n \subseteq lost',
         NEW t, t = SubSeq(s, 1, k - 1) \o piece
  PROVE  /\ Run(t)'
         /\ t # <<>> => Last(t).n <= Newest /\ (Last(t).n + 1)..Newest \subseteq lost'
<1>1. /\ t \in Seq(Lines)
      /\ Len(t) \in {k - 1, k}
      /\ \A i \in 1..Len(t) : i \in 1..Len(s) /\ t[i].n = s[i].n
  BY CutLines
<1>2. \A i \in 1..Len(s) : s[i].n \in Nat
  <2>1. \A i \in 1..Len(s) : s[i] \in Lines
    BY ElementOfSeq
  <2>2. QED
    BY <2>1 DEF Lines
<1>3. Run(t)'
  <2>1. \A i \in 1..Len(t) - 1 : i \in 1..Len(t) /\ i + 1 \in 1..Len(t) /\ i \in 1..Len(s) - 1
    BY <1>1
  <2>2. QED
    BY <1>1, <2>1 DEF Run, Rising, Gone
<1>4. ASSUME t # <<>> PROVE Last(t).n <= Newest /\ (Last(t).n + 1)..Newest \subseteq lost'
  <2> DEFINE m == Len(t)
             l == Last(s).n
  <2>1. m \in 1..Len(s) /\ Last(t).n = s[m].n
    BY <1>1, <1>4, LastLine
  <2>2. s # <<>> /\ l \in Nat /\ l = s[Len(s)].n
    BY <2>1, LastLine
  <2>3. Newest \in Int /\ (Newest + 1) - 1 = Newest
    BY DEF Newest
  <2>4. l <= Newest /\ (l + 1)..Newest \subseteq lost
    BY <2>2, <2>3 DEF EndsIn, Gone
  <2>5. s[m].n <= l
    BY <1>2, <2>1, <2>2 DEF Run, Rising
  <2> HIDE DEF l
  <2>6. \A x \in (s[m].n + 1)..Newest : x \in (l + 1)..Newest \/ x \in (s[m].n + 1)..l
    BY <1>2, <2>1, <2>2, <2>3
  <2>7. (s[m].n + 1)..l \subseteq lost'
    <3>1. CASE m = k
      <4>1. (s[m].n + 1)..l \subseteq s[k].n .. l
        BY <1>2, <2>1, <2>2, <3>1
      <4>2. QED
        BY <4>1 DEF l
    <3>2. CASE m = k - 1
      <4>1. m \in 1..Len(s) - 1 /\ m + 1 = k
        BY <1>1, <2>1, <3>2
      <4>2. (s[m].n + 1)..(s[k].n - 1) \subseteq lost
        BY <4>1 DEF Run, Rising, Gone
      <4>3. \A x \in (s[m].n + 1)..l : x \in (s[m].n + 1)..(s[k].n - 1) \/ x \in s[k].n .. l
        BY <1>2, <2>1, <2>2
      <4>4. QED
        BY <4>2, <4>3 DEF l
    <3>3. QED
      BY <1>1, <3>1, <3>2
  <2>8. s[m].n <= Newest
    BY <1>2, <2>1, <2>2, <2>3, <2>4, <2>5
  <2>9. QED
    BY <2>1, <2>4, <2>6, <2>7, <2>8
<1>5. QED
  BY <1>3, <1>4

\* Joining lines is associative.
LEMMA LinesJoin ==
  ASSUME NEW f \in Seq(Lines), NEW g \in Seq(Lines), NEW h \in Seq(Lines)
  PROVE  (f \o g) \o h = f \o (g \o h)
BY ConcatAssociative

\* A line appended to the buffer is appended to file and buffer together.
LEMMA AppendToConcat ==
  ASSUME NEW f \in Seq(Lines), NEW b \in Seq(Lines), NEW l \in Lines
  PROVE  f \o Append(b, l) = Append(f \o b, l)
OBVIOUS

\* Moving lines from the front of the buffer to the end of the file keeps both together.
LEMMA Moved ==
  ASSUME NEW f \in Seq(Lines), NEW b \in Seq(Lines), NEW k \in 0..Len(b)
  PROVE  /\ (f \o SubSeq(b, 1, k)) \o SubSeq(b, k + 1, Len(b)) = f \o b
         /\ f \o SubSeq(b, 1, k) \in Seq(Lines)
         /\ SubSeq(b, k + 1, Len(b)) \in Seq(Lines)
<1> DEFINE front == SubSeq(b, 1, k)
           rest  == SubSeq(b, k + 1, Len(b))
<1>1. front \in Seq(Lines) /\ rest \in Seq(Lines)
  OBVIOUS
<1>2. front \o rest = SubSeq(b, 1, Len(b))
  <2>1. 1 \in 1 .. Len(b) + 1 /\ k \in 1 - 1 .. Len(b) /\ Len(b) \in k .. Len(b)
    OBVIOUS
  <2>2. QED
    BY <2>1, ConcatAdjacentSubSeq
<1>3. SubSeq(b, 1, Len(b)) = b
  BY SubSeqFull
<1> HIDE DEF front, rest
<1>4. (f \o front) \o rest = f \o (front \o rest)
  BY <1>1, LinesJoin
<1>5. f \o front \in Seq(Lines)
  BY <1>1
<1>6. QED
  BY <1>1, <1>2, <1>3, <1>4, <1>5 DEF front, rest

\* The same, of all lines but the last.
LEMMA AllButLast ==
  ASSUME NEW f \in Seq(Lines), NEW b \in Seq(Lines), b # <<>>
  PROVE  /\ (f \o Front(b)) \o <<Last(b)>> = f \o b
         /\ f \o Front(b) \in Seq(Lines)
         /\ <<Last(b)>> \in Seq(Lines)
         /\ <<Last(b)>> # <<>>
<1>1. Len(b) \in Nat \ {0}
  OBVIOUS
<1>2. Front(b) = SubSeq(b, 1, Len(b) - 1)
  BY DEF Front
<1>3. SubSeq(b, (Len(b) - 1) + 1, Len(b)) = <<Last(b)>>
  <2> DEFINE e == SubSeq(b, (Len(b) - 1) + 1, Len(b))
  <2>1. /\ e \in Seq(Lines)
        /\ Len(e) = 1
        /\ e[1] = b[Len(b)]
    BY <1>1
  <2>2. /\ <<b[Len(b)]>> \in Seq(Lines)
        /\ Len(<<b[Len(b)]>>) = 1
        /\ \A i \in 1..1 : <<b[Len(b)]>>[i] = b[Len(b)]
    BY <1>1
  <2>3. e = <<b[Len(b)]>>
    <3> HIDE DEF e
    <3> QED BY <2>1, <2>2, SeqEqual
  <2>4. QED
    BY <2>3, Zenon DEF Last
<1>4. Len(b) - 1 \in 0..Len(b)
  BY <1>1
<1>5. <<Last(b)>> # <<>>
  OBVIOUS
<1>6. SubSeq(b, (Len(b) - 1) + 1, Len(b)) \in Seq(Lines)
  BY <1>1
<1> DEFINE k == Len(b) - 1
<1>7. /\ (f \o SubSeq(b, 1, k)) \o SubSeq(b, k + 1, Len(b)) = f \o b
      /\ f \o SubSeq(b, 1, k) \in Seq(Lines)
  BY <1>4, Moved
<1>8. QED
  BY <1>2, <1>3, <1>5, <1>6, <1>7, Zenon

-----------------------------------------------------------------------------
(* Types.                                                                   *)

Holder == Readers \cup {"pty", "timer", "waiter"}

\* AfterFlush keeps the types of what it changes.
LEMMA AfterFlushTyped ==
  ASSUME TypeOK, lock # "free", NEW ok \in BOOLEAN, NEW gone \in SUBSET Nat, AfterFlush(ok, gone)
  PROVE  /\ lock' \in Holder \cup {"free"}
         /\ rec' \in {"read", "append", "flush", "clear", "wipe"}
         /\ step' \in {"flush", "spill", "sync", "cap", "truncate", "rewrite", "resync"}
         /\ keep' \in Seq(Lines)
         /\ hist' \in [Readers -> Reads]
         /\ daemon' \in {"up", "flushed", "exited", "dead"}
         /\ lost' \in SUBSET Nat /\ lapsed' \in BOOLEAN
<1> USE DEF TypeOK, Holder
<1>1. hist' \in [Readers -> Reads]
  <2>1. ASSUME NEW next \in {"read", "failed"}, NEW h \in Readers
        PROVE  [hist EXCEPT ![h].pc = next] \in [Readers -> Reads]
    BY <2>1 DEF Reads
  <2>2. QED
    BY <2>1 DEF AfterFlush
<1>2. keep' \in Seq(Lines)
  BY EmptySeq DEF AfterFlush
<1>3. lost' \in SUBSET Nat /\ lapsed' \in BOOLEAN
  <2>1. cur.n \in Nat
    BY DEF Lines
  <2>2. QED
    BY <2>1 DEF AfterFlush
<1>4. QED
  BY <1>1, <1>2, <1>3 DEF AfterFlush

\* What a write that fails within a line leaves of it is the beginning of that line.
LEMMA PieceTyped ==
  ASSUME NEW l \in Lines, NEW piece \in Pieces(l)
  PROVE  piece \in Seq(Lines)
<1>1. CASE piece = <<>>
  BY <1>1
<1>2. ASSUME NEW b \in 1..(l.size - 1), piece = <<[l EXCEPT !.size = b, !.whole = FALSE]>>
      PROVE  piece \in Seq(Lines)
  <2>1. l.size \in Nat
    BY DEF Lines
  <2>2. b \in Nat
    BY <2>1
  <2>3. PICK p : p = [l EXCEPT !.size = b, !.whole = FALSE]
    OBVIOUS
  <2>4. p \in Lines /\ piece = <<p>>
    BY <1>2, <2>2, <2>3, LineCut
  <2>5. QED
    BY <2>4
<1>3. QED
  BY <1>1, <1>2 DEF Pieces

\* What a step of a history request does to it: it takes a byte of line i, with which it may
\* have a line, or it is at the end.
Joins(r, q, b) ==
    \/ q = [r EXCEPT !.pos = @ + 1, !.got = Append(@, b), !.head = 0, !.fill = 0]
    \/ q = [r EXCEPT !.pos = @ + 1, !.head = b, !.fill = IF b = 0 THEN 1 ELSE @ + 1]
    \/ b = 0 /\ q = [r EXCEPT !.pc = "failed"]

Finishes(r, q) ==
    \/ \E next \in {"done", "failed"} : q = [r EXCEPT !.pc = next]
    \/ q = [r EXCEPT !.pc = "done", !.got = Append(@, r.head), !.head = 0]

LEMMA ReadSteps ==
  ASSUME hist \in [Readers -> Reads], NEW h \in Readers, HistoryRead(h)
  PROVE  \E q :
           /\ hist' = [hist EXCEPT ![h] = q]
           /\ \/ \E i \in LineAt(hist[h].pos) : Joins(hist[h], q, Begun(h, i))
              \/ Finishes(hist[h], q)
<1> DEFINE r == hist[h]
<1>0. \A next : [hist EXCEPT ![h].pc = next] = [hist EXCEPT ![h] = [hist[h] EXCEPT !.pc = next]]
  OBVIOUS
<1>1. ASSUME NEW i \in LineAt(hist[h].pos), ReadByte(h, i)
      PROVE  \E q : hist' = [hist EXCEPT ![h] = q] /\ Joins(hist[h], q, Begun(h, i))
  <2> DEFINE b == Begun(h, i)
             line == [r EXCEPT !.pos = @ + 1, !.got = Append(@, b), !.head = 0, !.fill = 0]
             part == [r EXCEPT !.pos = @ + 1, !.head = b, !.fill = IF b = 0 THEN 1 ELSE @ + 1]
             fails == [r EXCEPT !.pc = "failed"]
  <2>1. r \in Reads
    OBVIOUS
  <2>2. \/ hist' = [hist EXCEPT ![h] = line]
        \/ hist' = [hist EXCEPT ![h] = part]
        \/ b = 0 /\ hist' = [hist EXCEPT ![h] = fails]
    <3> DEFINE read == [r EXCEPT !.pos = @ + 1]
    <3>1. [read EXCEPT !.got = Append(@, b), !.head = 0, !.fill = 0] = line
      BY <2>1 DEF Reads
    <3>2. [read EXCEPT !.head = b, !.fill = IF b = 0 THEN 1 ELSE @ + 1] = part
      BY <2>1 DEF Reads
    <3>3. \/ hist' = [hist EXCEPT ![h] = [read EXCEPT !.got = Append(@, b), !.head = 0, !.fill = 0]]
          \/ hist' = [hist EXCEPT ![h] = [read EXCEPT !.head = b, !.fill = IF b = 0 THEN 1 ELSE @ + 1]]
          \/ b = 0 /\ hist' = [hist EXCEPT ![h].pc = "failed"]
      <4> HIDE DEF b
      <4> QED BY <1>1 DEF ReadByte, b
    <3> HIDE DEF b, line, part, read, fails
    <3>4. QED
      BY <1>0, <3>1, <3>2, <3>3 DEF fails, r
  <2>3. Joins(r, line, b) /\ Joins(r, part, b) /\ (b = 0 => Joins(r, fails, b))
    BY DEF Joins
  <2> HIDE DEF b, line, part, fails
  <2>4. QED
    BY <2>2, <2>3 DEF b
<1>2. ASSUME ReadEnd(h)
      PROVE  \E q : hist' = [hist EXCEPT ![h] = q] /\ Finishes(hist[h], q)
  <2> DEFINE rest == [r EXCEPT !.pc = "done", !.got = Append(@, r.head), !.head = 0]
  <2>1. CASE \E next \in {"done", "failed"} : hist' = [hist EXCEPT ![h].pc = next]
    BY <1>0, <2>1 DEF Finishes
  <2>2. CASE hist' = [hist EXCEPT ![h].pc = "done", ![h].got = Append(@, hist[h].head), ![h].head = 0]
    <3>1. hist' = [hist EXCEPT ![h] = rest]
      BY <2>2 DEF Reads
    <3>2. Finishes(r, rest)
      BY DEF Finishes
    <3>3. QED
      BY <3>1, <3>2
  <2>3. QED
    BY <1>2, <2>1, <2>2 DEF ReadEnd
<1>3. QED
  BY <1>1, <1>2 DEF HistoryRead

LEMMA HistoryReadTyped ==
  ASSUME TypeOK, NEW h \in Readers, HistoryRead(h)
  PROVE  hist' \in [Readers -> Reads]
<1>1. hist \in [Readers -> Reads] /\ file \in Seq(Lines)
  BY DEF TypeOK
<1>2. PICK q : /\ hist' = [hist EXCEPT ![h] = q]
               /\ \/ \E i \in LineAt(hist[h].pos) : Joins(hist[h], q, Begun(h, i))
                  \/ Finishes(hist[h], q)
  BY <1>1, ReadSteps
<1>3. hist[h] \in Reads
  BY <1>1
<1>4. ASSUME NEW i \in LineAt(hist[h].pos), Joins(hist[h], q, Begun(h, i)) PROVE q \in Reads
  <2>1. i \in 1..Len(file)
    BY DEF LineAt
  <2>2. file[i] \in Lines
    BY <1>1, <2>1, ElementOfSeq
  <2>3. Begun(h, i) \in Nat
    BY <2>2 DEF Begun, Lines
  <2>4. ASSUME NEW b \in Nat, NEW r \in Reads, Joins(r, q, b) PROVE q \in Reads
    <3>1. /\ r.pos + 1 \in Nat /\ r.fill + 1 \in Nat
          /\ Append(r.got, b) \in Seq(Nat)
      BY DEF Reads
    <3>2. CASE q = [r EXCEPT !.pos = @ + 1, !.got = Append(@, b), !.head = 0, !.fill = 0]
      BY <3>1, <3>2 DEF Reads
    <3>3. CASE q = [r EXCEPT !.pos = @ + 1, !.head = b, !.fill = IF b = 0 THEN 1 ELSE @ + 1]
      BY <3>1, <3>3 DEF Reads
    <3>4. CASE q = [r EXCEPT !.pc = "failed"]
      BY <3>4 DEF Reads
    <3>5. QED
      BY <2>4, <3>2, <3>3, <3>4 DEF Joins
  <2>5. QED
    BY <1>3, <1>4, <2>3, <2>4
<1>5. ASSUME NEW r \in Reads, Finishes(r, q) PROVE q \in Reads
  <2>1. Append(r.got, r.head) \in Seq(Nat)
    BY DEF Reads
  <2>2. CASE \E next \in {"done", "failed"} : q = [r EXCEPT !.pc = next]
    BY <2>2 DEF Reads
  <2>3. CASE q = [r EXCEPT !.pc = "done", !.got = Append(@, r.head), !.head = 0]
    BY <2>1, <2>3 DEF Reads
  <2>4. QED
    BY <1>5, <2>2, <2>3 DEF Finishes
<1>6. q \in Reads
  BY <1>2, <1>3, <1>4, <1>5
<1>7. QED
  BY <1>1, <1>2, <1>6

\* Every state of the transcript and its threads is well typed.
THEOREM TranscriptTypeCorrect == Spec => []TypeOK
<1>0. MaxOut \in Nat /\ Sizes \subseteq Nat \ {0}
  BY TranscriptAssumption DEF TranscriptAssumption
<1>1. Init => TypeOK
  <2> SUFFICES ASSUME Init PROVE TypeOK
    OBVIOUS
  <2>1. cur \in Lines
    BY DEF Init, NoLine, Lines
  <2>2. file \in Seq(Lines) /\ buf \in Seq(Lines) /\ keep \in Seq(Lines)
    BY DEF Init
  <2>3. hist \in [Readers -> Reads]
    <3>1. NoRead \in Reads
      BY DEF NoRead, Reads
    <3>2. QED
      BY <3>1 DEF Init
  <2>4. out \in 0..MaxOut /\ unflushed \in Nat /\ timers \in Nat
    BY <1>0 DEF Init
  <2>5. lock \in Readers \cup {"free", "pty", "timer", "waiter"}
    BY DEF Init
  <2>6. QED
    BY <2>1, <2>2, <2>3, <2>4, <2>5 DEF Init, TypeOK
<1>2. TypeOK /\ [Next]_vars => TypeOK'
  <2> SUFFICES ASSUME TypeOK, [Next]_vars PROVE TypeOK'
    OBVIOUS
  <2> USE DEF TypeOK
  <2>1. Record => TypeOK'
    BY <1>0 DEF Record, Lines
  <2>2. Clear => TypeOK'
    <3> SUFFICES ASSUME Clear PROVE TypeOK'
      OBVIOUS
    <3>1. /\ out' \in 0..MaxOut /\ cur' \in Lines
          /\ rec' \in {"read", "append", "flush", "clear", "wipe"}
          /\ torn' \in BOOLEAN /\ broken' \in BOOLEAN /\ scheduled' \in BOOLEAN
          /\ unflushed' \in Nat /\ timers' \in Nat
          /\ lost' \in SUBSET Nat /\ lapsed' \in BOOLEAN
      BY DEF Clear, Acquire
    <3>2. file' \in Seq(Lines) /\ buf' \in Seq(Lines) /\ keep' \in Seq(Lines)
      BY EmptySeq DEF Clear, Acquire
    <3>3. lock' \in Readers \cup {"free", "pty", "timer", "waiter"}
      BY DEF Clear, Acquire
    <3>4. /\ step' \in {"flush", "spill", "sync", "cap", "truncate", "rewrite", "resync"}
          /\ daemon' \in {"up", "flushed", "exited", "dead"}
      BY DEF Clear, Acquire
    <3>5. hist' \in [Readers -> Reads]
      BY DEF Clear, Acquire
    <3>6. QED
      BY <3>1, <3>2, <3>3, <3>4, <3>5
  <2>3. AppendLine => TypeOK'
    <3> SUFFICES ASSUME AppendLine PROVE TypeOK'
      OBVIOUS
    <3>1. Append(buf, cur) \in Seq(Lines)
      OBVIOUS
    <3>2. unflushed + cur.size \in Nat
      BY DEF Lines
    <3>3. buf' \in Seq(Lines) /\ unflushed' \in Nat /\ timers' \in Nat
      <4>1. timers + 1 \in Nat
        OBVIOUS
      <4>2. CASE broken
        BY <4>2 DEF AppendLine
      <4>3. CASE ~broken
        BY <3>1, <3>2, <4>1, <4>3 DEF AppendLine
      <4>4. QED
        BY <4>2, <4>3
    <3>4. lock' \in Readers \cup {"free", "pty", "timer", "waiter"}
      BY DEF AppendLine
    <3>5. QED
      BY <3>3, <3>4 DEF AppendLine
  <2>4. Timer => TypeOK'
    BY DEF Timer, Acquire
  <2>5. ExitFlush => TypeOK'
    BY DEF ExitFlush, Acquire
  <2>6. LockedStep => TypeOK'
    <3>g. ASSUME lock # "free", NEW gone \in SUBSET Nat,
                 AfterFlush(TRUE, gone) \/ AfterFlush(FALSE, gone)
          PROVE  /\ lock' \in Readers \cup {"free", "pty", "timer", "waiter"}
                 /\ rec' \in {"read", "append", "flush", "clear", "wipe"}
                 /\ step' \in {"flush", "spill", "sync", "cap", "truncate", "rewrite", "resync"}
                 /\ keep' \in Seq(Lines)
                 /\ hist' \in [Readers -> Reads]
                 /\ daemon' \in {"up", "flushed", "exited", "dead"}
                 /\ lost' \in SUBSET Nat /\ lapsed' \in BOOLEAN
      BY <3>g, AfterFlushTyped DEF Holder
    <3>0. ASSUME lock # "free", AfterFlush(TRUE, {}) \/ AfterFlush(FALSE, {})
          PROVE  /\ lock' \in Readers \cup {"free", "pty", "timer", "waiter"}
                 /\ rec' \in {"read", "append", "flush", "clear", "wipe"}
                 /\ step' \in {"flush", "spill", "sync", "cap", "truncate", "rewrite", "resync"}
                 /\ keep' \in Seq(Lines)
                 /\ hist' \in [Readers -> Reads]
                 /\ daemon' \in {"up", "flushed", "exited", "dead"}
                 /\ lost' \in SUBSET Nat /\ lapsed' \in BOOLEAN
      <4>1. {} \in SUBSET Nat
        OBVIOUS
      <4>2. CASE AfterFlush(TRUE, {})
        BY <3>0, <3>g, <4>1, <4>2
      <4>3. CASE AfterFlush(FALSE, {})
        BY <3>0, <3>g, <4>1, <4>3
      <4>4. QED
        BY <3>0, <4>2, <4>3
    <3>1. Spill => TypeOK'
      BY AllButLast DEF Spill
    <3>2. Flush => TypeOK'
      <4> SUFFICES ASSUME Flush PROVE TypeOK'
        OBVIOUS
      <4>1. /\ out' \in 0..MaxOut /\ cur' \in Lines
            /\ rec' \in {"read", "append", "flush", "clear", "wipe"}
            /\ torn' \in BOOLEAN /\ broken' \in BOOLEAN /\ scheduled' \in BOOLEAN
            /\ unflushed' \in Nat /\ timers' \in Nat
            /\ lost' \in SUBSET Nat /\ lapsed' \in BOOLEAN
        BY <3>0, Moved DEF Flush
      <4>2. file' \in Seq(Lines) /\ buf' \in Seq(Lines) /\ keep' \in Seq(Lines)
        <5>1. file \o buf \in Seq(Lines)
          OBVIOUS
        <5>2. <<>> \in Seq(Lines)
          OBVIOUS
        <5>3. \A k \in 0..Len(buf) : /\ file \o SubSeq(buf, 1, k) \in Seq(Lines)
                                    /\ SubSeq(buf, k + 1, Len(buf)) \in Seq(Lines)
          BY Moved
        <5>4. file' \in Seq(Lines) /\ buf' \in Seq(Lines)
          BY <5>1, <5>2, <5>3 DEF Flush
        <5>5. QED
          BY <3>0, <5>4 DEF Flush
      <4>3. lock' \in Readers \cup {"free", "pty", "timer", "waiter"}
        BY <3>0, Moved DEF Flush
      <4>4. /\ step' \in {"flush", "spill", "sync", "cap", "truncate", "rewrite", "resync"}
            /\ daemon' \in {"up", "flushed", "exited", "dead"}
        BY <3>0, Moved DEF Flush
      <4>5. hist' \in [Readers -> Reads]
        BY <3>0, Moved DEF Flush
      <4>6. QED
        BY <4>1, <4>2, <4>3, <4>4, <4>5
    <3>3. Sync => TypeOK'
      <4> SUFFICES ASSUME Sync PROVE TypeOK'
        OBVIOUS
      <4>1. /\ out' \in 0..MaxOut /\ cur' \in Lines
            /\ rec' \in {"read", "append", "flush", "clear", "wipe"}
            /\ torn' \in BOOLEAN /\ broken' \in BOOLEAN /\ scheduled' \in BOOLEAN
            /\ unflushed' \in Nat /\ timers' \in Nat
            /\ lost' \in SUBSET Nat /\ lapsed' \in BOOLEAN
        <5>0. unflushed' = 0 \/ unflushed' = unflushed
          BY DEF Sync
        <5>1. out' \in 0..MaxOut /\ cur' \in Lines /\ timers' \in Nat /\ unflushed' \in Nat
          BY <5>0 DEF Sync
        <5>2. rec' \in {"read", "append", "flush", "clear", "wipe"}
          BY <3>0 DEF Sync, NoneScheduled
        <5>3. torn' \in BOOLEAN /\ broken' \in BOOLEAN /\ scheduled' \in BOOLEAN
          BY DEF Sync, NoneScheduled
        <5>4. lost' \in SUBSET Nat /\ lapsed' \in BOOLEAN
          BY <3>0 DEF Sync
        <5>5. QED
          BY <5>1, <5>2, <5>3, <5>4
      <4>2. file' \in Seq(Lines) /\ buf' \in Seq(Lines) /\ keep' \in Seq(Lines)
        BY <3>0 DEF Sync, NoneScheduled
      <4>3. lock' \in Readers \cup {"free", "pty", "timer", "waiter"}
        BY <3>0 DEF Sync, NoneScheduled
      <4>4. /\ step' \in {"flush", "spill", "sync", "cap", "truncate", "rewrite", "resync"}
            /\ daemon' \in {"up", "flushed", "exited", "dead"}
        BY <3>0 DEF Sync, NoneScheduled
      <4>5. hist' \in [Readers -> Reads]
        BY <3>0 DEF Sync, NoneScheduled
      <4>6. QED
        BY <4>1, <4>2, <4>3, <4>4, <4>5
    <3>4. EnforceCap => TypeOK'
      BY <3>0, RetainedIsEnd DEF EnforceCap
    <3>5. Truncate => TypeOK'
      BY <3>0, EmptySeq DEF Truncate, Truncated
    <3>5a. Rewrite => TypeOK'
      <4> SUFFICES ASSUME Rewrite PROVE TypeOK'
        OBVIOUS
      <4>1. CASE file' = file \o keep /\ step' = "resync"
                 /\ UNCHANGED <<rec, lock, keep, hist, daemon, lost, lapsed>>
        BY <4>1 DEF Rewrite
      <4>2. ASSUME NEW k \in 1..Len(keep), NEW piece \in Pieces(keep[k]),
                   file' = file \o SubSeq(keep, 1, k - 1) \o piece,
                   AfterFlush(FALSE, keep[k].n .. Last(keep).n)
            PROVE  TypeOK'
        <5>1. file' \in Seq(Lines)
          <6>1. SubSeq(keep, 1, k - 1) \in Seq(Lines) /\ keep[k] \in Lines
            BY ElementOfSeq
          <6>2. piece \in Seq(Lines)
            BY <6>1, PieceTyped
          <6>3. QED
            BY <4>2, <6>1, <6>2
        <5> DEFINE gone == keep[k].n .. Last(keep).n
        <5>2. gone \in SUBSET Nat
          <6>1. keep[k] \in Lines /\ keep[Len(keep)] \in Lines
            BY ElementOfSeq, Len(keep) \in 1..Len(keep)
          <6>2. keep[k].n \in Nat /\ Last(keep).n \in Nat
            BY <6>1 DEF Lines, Last
          <6>3. QED
            BY <6>2
        <5>3. AfterFlush(FALSE, gone) /\ gone \in SUBSET Nat
          BY <4>2, <5>2
        <5>4. lock # "free" /\ UNCHANGED <<out, cur, torn, buf, broken, unflushed, scheduled, timers>>
          BY DEF Rewrite
        <5> HIDE DEF gone
        <5>5. QED
          BY <3>g, <5>1, <5>3, <5>4
      <4>3. QED
        BY <4>1, <4>2 DEF Rewrite
    <3>6. Resync => TypeOK'
      <4> SUFFICES ASSUME Resync PROVE TypeOK'
        OBVIOUS
      <4>1. /\ out' \in 0..MaxOut /\ cur' \in Lines
            /\ rec' \in {"read", "append", "flush", "clear", "wipe"}
            /\ torn' \in BOOLEAN /\ broken' \in BOOLEAN /\ scheduled' \in BOOLEAN
            /\ unflushed' \in Nat /\ timers' \in Nat
            /\ lost' \in SUBSET Nat /\ lapsed' \in BOOLEAN
        <5>0. unflushed' = 0 \/ unflushed' = unflushed
          BY DEF Resync
        <5>1. out' \in 0..MaxOut /\ cur' \in Lines /\ timers' \in Nat /\ unflushed' \in Nat
          BY <5>0 DEF Resync
        <5>2. rec' \in {"read", "append", "flush", "clear", "wipe"}
          BY <3>0, EmptySeq DEF Resync, NoneScheduled
        <5>3. torn' \in BOOLEAN /\ broken' \in BOOLEAN /\ scheduled' \in BOOLEAN
          BY DEF Resync, NoneScheduled
        <5>4. lost' \in SUBSET Nat /\ lapsed' \in BOOLEAN
          BY <3>0, EmptySeq DEF Resync
        <5>5. QED
          BY <5>1, <5>2, <5>3, <5>4
      <4>2. file' \in Seq(Lines) /\ buf' \in Seq(Lines) /\ keep' \in Seq(Lines)
        BY <3>0, EmptySeq DEF Resync, NoneScheduled
      <4>3. lock' \in Readers \cup {"free", "pty", "timer", "waiter"}
        BY <3>0, EmptySeq DEF Resync, NoneScheduled
      <4>4. /\ step' \in {"flush", "spill", "sync", "cap", "truncate", "rewrite", "resync"}
            /\ daemon' \in {"up", "flushed", "exited", "dead"}
        BY <3>0, EmptySeq DEF Resync, NoneScheduled
      <4>5. hist' \in [Readers -> Reads]
        BY <3>0, EmptySeq DEF Resync, NoneScheduled
      <4>6. QED
        BY <4>1, <4>2, <4>3, <4>4, <4>5
    <3>7. QED
      BY <3>1, <3>2, <3>3, <3>4, <3>5, <3>5a, <3>6 DEF LockedStep
  <2>7. Stop("exited") \/ Stop("dead") => TypeOK'
    <3> SUFFICES ASSUME Stop("exited") \/ Stop("dead") PROVE TypeOK'
      OBVIOUS
    <3>1. /\ out' \in 0..MaxOut /\ cur' \in Lines
          /\ rec' \in {"read", "append", "flush", "clear", "wipe"}
          /\ torn' \in BOOLEAN /\ broken' \in BOOLEAN /\ scheduled' \in BOOLEAN
          /\ unflushed' \in Nat /\ timers' \in Nat
          /\ lost' \in SUBSET Nat /\ lapsed' \in BOOLEAN
      BY DEF Stop, Reads
    <3>2. file' \in Seq(Lines) /\ buf' \in Seq(Lines) /\ keep' \in Seq(Lines)
      BY DEF Stop, Reads
    <3>3. lock' \in Readers \cup {"free", "pty", "timer", "waiter"}
      BY DEF Stop, Reads
    <3>4. /\ step' \in {"flush", "spill", "sync", "cap", "truncate", "rewrite", "resync"}
          /\ daemon' \in {"up", "flushed", "exited", "dead"}
      BY DEF Stop, Reads
    <3>5. hist' \in [Readers -> Reads]
      <4>1. \A h \in Readers : [hist[h] EXCEPT !.pc = "failed"] \in Reads
        BY DEF Reads
      <4>2. QED
        BY <4>1 DEF Stop
    <3>6. QED
      BY <3>1, <3>2, <3>3, <3>4, <3>5
  <2>8. ASSUME NEW h \in Readers, HistoryBegin(h) PROVE TypeOK'
    <3>1. /\ out' \in 0..MaxOut /\ cur' \in Lines
          /\ rec' \in {"read", "append", "flush", "clear", "wipe"}
          /\ torn' \in BOOLEAN /\ broken' \in BOOLEAN /\ scheduled' \in BOOLEAN
          /\ unflushed' \in Nat /\ timers' \in Nat
          /\ lost' \in SUBSET Nat /\ lapsed' \in BOOLEAN
      BY <2>8 DEF HistoryBegin, Acquire, Reads
    <3>2. file' \in Seq(Lines) /\ buf' \in Seq(Lines) /\ keep' \in Seq(Lines)
      BY <2>8 DEF HistoryBegin, Acquire, Reads
    <3>3. lock' \in Readers \cup {"free", "pty", "timer", "waiter"}
      BY <2>8 DEF HistoryBegin, Acquire, Reads
    <3>4. /\ step' \in {"flush", "spill", "sync", "cap", "truncate", "rewrite", "resync"}
          /\ daemon' \in {"up", "flushed", "exited", "dead"}
      BY <2>8 DEF HistoryBegin, Acquire, Reads
    <3>5. hist' \in [Readers -> Reads]
      <4>1. [hist EXCEPT ![h].pc = "flush"] \in [Readers -> Reads]
        BY DEF Reads
      <4>2. [hist EXCEPT ![h].pc = "read"] \in [Readers -> Reads]
        BY DEF Reads
      <4>3. QED
        BY <2>8, <4>1, <4>2 DEF HistoryBegin
    <3>6. QED
      BY <3>1, <3>2, <3>3, <3>4, <3>5
  <2>9. ASSUME NEW h \in Readers, HistoryRead(h) PROVE TypeOK'
    <3>1. UNCHANGED <<out, rec, cur, file, torn, buf, broken, unflushed, scheduled, timers,
                      lock, step, keep, daemon, lost, lapsed>>
      BY <2>9 DEF HistoryRead
    <3>2. hist' \in [Readers -> Reads]
      BY <2>9, HistoryReadTyped
    <3>3. QED
      BY <3>1, <3>2
  <2>10. UNCHANGED vars => TypeOK'
    BY DEF vars
  <2>11. QED
    BY <2>1, <2>2, <2>3, <2>4, <2>5, <2>6, <2>7, <2>8, <2>9, <2>10 DEF Next
<1>3. QED
  BY <1>1, <1>2, PTL DEF Spec

-----------------------------------------------------------------------------
(* No hole.                                                                 *)

\* Holders and steps: what each thread does while it has the lock.
LEMMA HoldersInductive ==
  ASSUME TypeOK, IInv, [Next]_vars
  PROVE  Holders' /\ Steps'
<1>0. Readers \cap {"free", "pty", "timer", "waiter"} = {}
  BY TranscriptAssumption DEF TranscriptAssumption
<1> DEFINE Good == Holders' /\ Steps'
<1> USE DEF IInv, Holders, Steps
<1>1. Record => Good
  <2>1. \A size \in Sizes : size > 0
    BY TranscriptAssumption DEF TranscriptAssumption
  <2>2. QED
    BY <2>1 DEF TypeOK, Record
<1>2. Clear => Good
  BY DEF TypeOK, Clear, Acquire
<1>3. AppendLine => Good
  <2> SUFFICES ASSUME AppendLine PROVE Good
    OBVIOUS
  <2>1. CASE broken
    BY <2>1 DEF AppendLine
  <2>2. CASE ~broken
    <3>1. Append(buf, cur) # <<>>
      BY DEF TypeOK
    <3>2. buf' # <<>> /\ ~broken' /\ unflushed' = unflushed + cur.size
      BY <2>2, <3>1 DEF AppendLine
    <3>3. unflushed' > 0
      <4>1. cur.size \in Nat /\ cur.size > 0
        BY DEF AppendLine, TypeOK, Lines
      <4>2. QED
        BY <3>2, <4>1 DEF TypeOK
    <3>4. QED
      BY <2>2, <3>2, <3>3 DEF AppendLine
  <2>3. QED
    BY <2>1, <2>2
<1>4. Timer \/ ExitFlush => Good
  BY DEF Timer, ExitFlush, Acquire
<1>5. Spill => Good
  BY DEF Spill
<1>6. Flush => Good
  <2> SUFFICES ASSUME Flush PROVE Good
    OBVIOUS
  <2>1. \A k \in 0..Len(buf) : SubSeq(buf, k + 1, Len(buf)) # <<>> => buf # <<>>
    BY DEF TypeOK
  <2>2. unflushed' = unflushed /\ unflushed > 0
    BY DEF Flush
  <2>3. Holders'
    BY <1>0 DEF TypeOK, Flush, AfterFlush
  <2>4. Steps'
    BY <1>0, <2>1, <2>2 DEF TypeOK, Flush, AfterFlush
  <2>5. QED
    BY <2>3, <2>4
<1>7. Sync => Good
  <2> SUFFICES ASSUME Sync PROVE Good
    OBVIOUS
  <2>1. /\ lock # "free" /\ step = "sync" /\ buf = <<>> /\ ~broken
        /\ UNCHANGED <<file, buf, broken, out, cur>>
    BY DEF Sync
  <2>2. CASE step' = "cap" /\ UNCHANGED <<rec, lock, keep>>
    BY <2>1, <2>2
  <2>3. CASE AfterFlush(FALSE, {}) /\ UNCHANGED unflushed
    BY <1>0, <2>1, <2>3 DEF TypeOK, AfterFlush
  <2>4. QED
    BY <2>2, <2>3 DEF Sync
<1>8. EnforceCap => Good
  BY <1>0 DEF TypeOK, EnforceCap, AfterFlush
<1>9. Truncate => Good
  BY <1>0 DEF TypeOK, Truncate, Truncated, AfterFlush
<1>10. Rewrite => Good
  <2> SUFFICES ASSUME Rewrite PROVE Good
    OBVIOUS
  <2>1. /\ lock # "free" /\ step = "rewrite" /\ buf = <<>> /\ ~broken /\ file = <<>>
        /\ UNCHANGED <<buf, broken, out, cur, unflushed>>
    BY DEF Rewrite
  <2>2. CASE file' = file \o keep /\ step' = "resync" /\ UNCHANGED <<rec, lock, keep>>
    <3>1. keep = <<>> => file' = <<>>
      BY <2>1, <2>2
    <3>2. QED
      BY <2>1, <2>2, <3>1
  <2>3. ASSUME NEW gone, AfterFlush(FALSE, gone) PROVE Good
    BY <1>0, <2>1, <2>3 DEF TypeOK, AfterFlush
  <2>4. QED
    BY <2>2, <2>3 DEF Rewrite
<1>11. Resync => Good
  <2> SUFFICES ASSUME Resync PROVE Good
    OBVIOUS
  <2>0. lock # "free" /\ step = "resync" /\ buf = <<>> /\ ~broken
    BY DEF Resync
  <2>1. /\ lock # "free" /\ step = "resync" /\ buf = <<>> /\ ~broken
        /\ UNCHANGED <<file, out, cur>>
        /\ buf' = <<>> /\ ~broken'
    <3>1. (buf' = <<>> /\ broken' = FALSE) \/ UNCHANGED <<buf, broken>>
      BY DEF Resync
    <3>2. QED
      BY <2>0, <3>1 DEF Resync
  <2>2. CASE lock' = "free" /\ rec' \in {"append", "read"} /\ rec = "wipe" /\ lock = "pty"
    BY <2>1, <2>2
  <2>3. ASSUME NEW ok \in BOOLEAN, AfterFlush(ok, {}) PROVE Good
    BY <1>0, <2>1, <2>3 DEF TypeOK, AfterFlush
  <2>4. QED
    BY <2>2, <2>3 DEF Resync
<1>12. Stop("exited") \/ Stop("dead") => Good
  BY DEF Stop
<1>13. ASSUME NEW h \in Readers, HistoryBegin(h) \/ HistoryRead(h) PROVE Good
  BY <1>0, <1>13 DEF HistoryBegin, HistoryRead, Acquire
<1>14. UNCHANGED vars => Good
  BY DEF vars
<1>15. QED
  BY <1>1, <1>2, <1>3, <1>4, <1>5, <1>6, <1>7, <1>8, <1>9, <1>10, <1>11, <1>12, <1>13, <1>14
  DEF Next, LockedStep

\* Contents and ends: what each step does to the transcript as a whole.
LEMMA ContentsInductive ==
  ASSUME TypeOK, TypeOK', IInv, [Next]_vars
  PROVE  Run(Contents)' /\ Ends'
<1>0. Readers \cap {"free", "pty", "timer", "waiter"} = {}
  BY TranscriptAssumption DEF TranscriptAssumption
<1> DEFINE Good == Run(Contents)' /\ Ends'
<1>a. /\ file \in Seq(Lines) /\ buf \in Seq(Lines) /\ keep \in Seq(Lines)
      /\ cur \in Lines /\ out \in Nat
  BY DEF TypeOK
<1>b. \A s \in Seq(Lines) : s \o <<>> = s /\ <<>> \o s = s
  BY ConcatEmptySeq
<1>c. Contents \in Seq(Lines)
  BY <1>a DEF Contents
<1>d. Run(<<>>)
  BY DEF Run, Rising
\* Most steps leave the transcript as it is.
<1>1. ASSUME Contents' = Contents, Newest' = Newest, ~broken' => ~broken, lost \subseteq lost'
      PROVE  Good
  <2>1. Run(Contents)'
    BY <1>1, RunKept DEF IInv
  <2>2. QED
    BY <1>1, <2>1 DEF IInv, Ends, EndsIn, Gone
\* Others empty it.
<1>2. ASSUME Contents' = <<>> PROVE Good
  <2>1. Len(<<>>) = 0 /\ 1..0 = {} /\ 1..0 - 1 = {}
    OBVIOUS
  <2>2. Run(Contents)'
    BY <1>2, <2>1 DEF Run, Rising
  <2>3. QED
    BY <1>2, <2>2 DEF Ends, EndsIn
\* A step that fails leaves t, and drops chunks.
<1>f. ASSUME NEW gone, NEW t \in Seq(Lines), AfterFlush(FALSE, gone), lock # "free",
             Contents' = t, Run(t)', UNCHANGED out,
             ~broken' /\ t # <<>> => Last(t).n <= Newest /\ (Last(t).n + 1)..Newest \subseteq lost'
      PROVE  Good
  <2>0. Run(Contents)'
    BY <1>f DEF Run, Rising, Gone
  <2>1. Newest \in Int /\ (Newest + 1) - 1 = Newest
    BY <1>a DEF Newest
  <2>2. CASE Newest' = Newest
    BY <1>f, <2>0, <2>1, <2>2 DEF Ends, EndsIn, Gone
  <2>3. CASE Newest' # Newest
    <3>1. lock = "pty" /\ rec \in {"clear", "wipe"} /\ rec' = "read" /\ cur.n = out
      BY <1>f, <2>3 DEF AfterFlush, Newest, IInv, Holders
    <3>2. Newest = out - 1 /\ Newest' = out /\ out \in lost'
      BY <1>f, <3>1 DEF AfterFlush, Newest
    <3>3. ASSUME ~broken', t # <<>>
          PROVE  Last(t).n <= out /\ (Last(t).n + 1)..out \subseteq lost'
      <4>1. Last(t).n \in Nat
        BY <3>3, LastLine
      <4> DEFINE n == Last(t).n
      <4>2. n \in Nat /\ n <= out - 1 /\ (n + 1)..(out - 1) \subseteq lost'
        BY <1>f, <3>2, <3>3, <4>1
      <4> HIDE DEF n
      <4>3. \A x \in (n + 1)..out : x = out \/ x \in (n + 1)..(out - 1)
        BY <1>a, <4>2
      <4>4. n <= out /\ (n + 1)..out \subseteq lost'
        BY <1>a, <3>2, <4>2, <4>3
      <4>5. QED
        BY <4>4 DEF n
    <3>4. (out + 1) - 1 = out
      BY <1>a
    <3>5. ~broken' => EndsIn(Contents)'
      BY <1>f, <3>2, <3>3, <3>4 DEF EndsIn, Gone
    <3>6. QED
      BY <2>0, <3>5 DEF Ends
  <2>4. QED
    BY <2>2, <2>3
\* Most of them leave what was there.
<1>r. ASSUME NEW gone, NEW t \in Seq(Lines), AfterFlush(FALSE, gone), lock # "free",
             Contents' = t, Run(t), ~broken' => EndsIn(t), UNCHANGED out
      PROVE  Good
  <2>1. lost \subseteq lost'
    BY <1>r DEF AfterFlush
  <2>2. Run(t)'
    BY <1>r, <2>1, RunKept
  <2>3. (Newest + 1) - 1 = Newest
    BY <1>a DEF Newest
  <2>4. ~broken' /\ t # <<>> => Last(t).n <= Newest /\ (Last(t).n + 1)..Newest \subseteq lost'
    BY <1>r, <2>1, <2>3 DEF EndsIn, Gone
  <2>5. QED
    BY <1>f, <1>r, <2>2, <2>4
\* Or what is there and was in the transcript.
<1>s. ASSUME NEW gone, AfterFlush(FALSE, gone), lock # "free", Contents' = Contents,
             ~broken' => ~broken, UNCHANGED out
      PROVE  Good
  BY <1>c, <1>r, <1>s DEF IInv, Ends
<1> USE DEF IInv, Holders, Steps
<1>3. Record => Good
  BY <1>1, <1>a DEF Record, Contents, Newest
<1>4. Clear => Good
  <2>1. CASE Acquire("pty") /\ Clear
    BY <1>1, <2>1 DEF Clear, Acquire, Contents, Newest
  <2>2. CASE lock = "free" /\ unflushed = 0 /\ Clear
    <3>1. buf = <<>> /\ UNCHANGED buf /\ keep' = <<>> /\ lock' = "pty" /\ step' = "truncate"
      BY <2>2 DEF Clear, Acquire
    <3>2. Contents' = <<>>
      BY <1>b, <3>1 DEF Contents
    <3>3. QED
      BY <1>2, <3>2
  <2>3. QED
    BY <2>1, <2>2 DEF Clear
<1>5. AppendLine => Good
  <2> SUFFICES ASSUME AppendLine PROVE Good
    OBVIOUS
  <2>1. CASE broken
    <3>1. Contents' = Contents /\ lost' = lost /\ broken'
      BY <2>1 DEF AppendLine, Contents
    <3>2. Run(Contents)'
      BY <3>1, RunKept
    <3>3. QED
      BY <3>1, <3>2 DEF Ends
  <2>2. CASE ~broken
    <3>1. buf' = Append(buf, cur) /\ Contents = file \o buf /\ Contents' = file \o buf'
      <4>1. buf' = Append(buf, cur) /\ file' = file /\ lock = "free"
        BY <2>2 DEF AppendLine
      <4>2. lock' = "free" \/ step' \in {"flush", "spill"}
        BY <2>2 DEF AppendLine
      <4>3. Contents = file \o buf
        BY <4>1 DEF Contents
      <4>4. Contents' = file' \o buf'
        BY <4>2 DEF Contents
      <4>5. QED
        BY <4>1, <4>3, <4>4
    <3>2. Contents' = Append(Contents, cur)
      BY <1>a, <3>1, AppendToConcat
    <3>3. Contents # <<>> => Last(Contents).n < cur.n /\ Gone(Last(Contents).n, cur.n)
      <4>1. rec = "append" /\ cur.n = out
        BY DEF AppendLine
      <4>2. Newest = out - 1 /\ EndsIn(Contents)
        BY <2>2, <4>1 DEF Ends, Newest
      <4>3. (Newest + 1) = out
        BY <1>a, <4>2
      <4>4. ASSUME Contents # <<>> PROVE Last(Contents).n < out
        <5>1. Last(Contents).n <= out - 1
          BY <4>2, <4>4 DEF EndsIn
        <5>2. Last(Contents).n \in Nat
          <6>1. Last(Contents) = Contents[Len(Contents)] /\ Len(Contents) \in 1..Len(Contents)
            BY <1>c, <4>4 DEF Last
          <6>2. Contents[Len(Contents)] \in Lines
            BY <1>c, <6>1, ElementOfSeq
          <6>3. QED
            BY <6>1, <6>2 DEF Lines
        <5> DEFINE n == Last(Contents).n
        <5>3. n <= out - 1 /\ n \in Nat
          BY <5>1, <5>2
        <5> HIDE DEF n
        <5>4. n < out
          BY <1>a, <5>3
        <5>5. QED
          BY <5>4 DEF n
      <4>5. QED
        BY <4>1, <4>2, <4>3, <4>4 DEF EndsIn
    <3>4. Run(Append(Contents, cur)) /\ Last(Append(Contents, cur)) = cur
      BY <1>a, <1>c, <3>3, RunAppend
    <3>5. Newest' = cur.n /\ lost' = lost
      BY <2>2 DEF AppendLine, Newest
    <3>6. Run(Contents)' /\ Last(Contents)' = cur
      BY <3>2, <3>4, <3>5 DEF Run, Rising, Gone
    <3>7. EndsIn(Contents)'
      <4>1. cur.n \in Nat
        BY <1>a DEF Lines
      <4>2. cur.n <= cur.n /\ (cur.n + 1)..((cur.n + 1) - 1) = {}
        BY <4>1
      <4>3. QED
        BY <3>5, <3>6, <4>2 DEF EndsIn, Gone
    <3>8. QED
      BY <3>6, <3>7 DEF Ends
  <2>3. QED
    BY <2>1, <2>2
<1>6. Timer \/ ExitFlush => Good
  <2> SUFFICES ASSUME Timer \/ ExitFlush PROVE Good
    OBVIOUS
  <2>1. /\ lock = "free" /\ (lock' = "free" \/ step' = "flush")
        /\ UNCHANGED <<file, buf, keep, rec, out, broken, lost>>
    BY DEF Timer, ExitFlush, Acquire
  <2>2. Contents' = Contents
    BY <2>1 DEF Contents
  <2>3. QED
    BY <1>1, <2>1, <2>2 DEF Newest
<1>7. Spill => Good
  <2> SUFFICES ASSUME Spill PROVE Good
    OBVIOUS
  <2>1. file' \o buf' = file \o buf
    BY <1>a, AllButLast DEF Spill
  <2>2. QED
    BY <1>1, <2>1 DEF Spill, Contents, Newest
<1>8. Flush => Good
  <2> SUFFICES ASSUME Flush PROVE Good
    OBVIOUS
  <2>1. file' \o buf' = file \o buf
    <3>1. (file \o buf) \o <<>> = file \o buf
      BY <1>a, <1>b
    <3>2. QED
      <4>1. ASSUME NEW k \in 0..Len(buf)
            PROVE  (file \o SubSeq(buf, 1, k)) \o SubSeq(buf, k + 1, Len(buf)) = file \o buf
        BY <1>a, Moved
      <4>2. \/ file' = file \o buf /\ buf' = <<>>
            \/ \E k \in 0..Len(buf) : /\ file' = file \o SubSeq(buf, 1, k)
                                       /\ buf' = SubSeq(buf, k + 1, Len(buf))
            \/ UNCHANGED <<file, buf>>
        BY DEF Flush
      <4>3. CASE file' = file \o buf /\ buf' = <<>>
        BY <4>3, <3>1
      <4>4. CASE \E k \in 0..Len(buf) : /\ file' = file \o SubSeq(buf, 1, k)
                                        /\ buf' = SubSeq(buf, k + 1, Len(buf))
        <5>1. PICK k \in 0..Len(buf) : /\ file' = file \o SubSeq(buf, 1, k)
                                       /\ buf' = SubSeq(buf, k + 1, Len(buf))
          BY <4>4
        <5>2. (file \o SubSeq(buf, 1, k)) \o SubSeq(buf, k + 1, Len(buf)) = file \o buf
          BY <4>1
        <5>3. QED
          BY <5>1, <5>2
      <4>5. QED
        BY <4>2, <4>3, <4>4
  <2>2. Contents' = Contents
    BY <2>1 DEF Flush, Contents, AfterFlush
  <2>3. CASE ~broken /\ UNCHANGED <<broken, rec, lost>>
    BY <1>1, <2>2, <2>3 DEF Flush, Newest
  <2>4. CASE broken' /\ AfterFlush(FALSE, {})
    BY <1>s, <2>2, <2>4 DEF Flush
  <2>5. (~broken /\ UNCHANGED <<broken, rec, lost>>) \/ (broken' /\ AfterFlush(FALSE, {}))
    <3>1. CASE broken /\ UNCHANGED broken /\ AfterFlush(FALSE, {})
      BY <3>1
    <3>2. CASE broken' = TRUE /\ AfterFlush(FALSE, {})
      BY <3>2
    <3>3. QED
      BY <3>1, <3>2 DEF Flush
  <2>6. QED
    BY <2>3, <2>4, <2>5
<1>9. Sync => Good
  <2> SUFFICES ASSUME Sync PROVE Good
    OBVIOUS
  <2>1. /\ lock # "free" /\ step = "sync" /\ UNCHANGED <<file, buf, broken, out>>
    BY DEF Sync
  <2>2. CASE step' = "cap" /\ UNCHANGED <<rec, lock, lost>>
    BY <1>1, <2>1, <2>2 DEF Contents, Newest
  <2>3. CASE AfterFlush(FALSE, {})
    <3>1. Contents' = Contents
      BY <2>1, <2>3 DEF Contents, AfterFlush
    <3>2. QED
      BY <1>s, <2>1, <2>3, <3>1
  <2>4. QED
    BY <2>2, <2>3 DEF Sync
\* A flush that ends well leaves the transcript, unless a clear goes on to empty it.
<1>10. ASSUME lock # "free", step \in {"cap", "resync"}, rec # "wipe",
              AfterFlush(TRUE, {}), UNCHANGED <<file, broken, out>>, buf' = <<>>
       PROVE  Good
  <2>1. buf = <<>> /\ Contents = file
    BY <1>10, <1>a, <1>b DEF Contents
  <2>2. CASE lock = "pty" /\ rec = "clear"
    <3>1. Contents' = <<>>
      BY <1>10, <1>b, <2>2 DEF AfterFlush, Contents
    <3>2. QED
      BY <1>2, <3>1
  <2>3. CASE ~(lock = "pty" /\ rec = "clear")
    <3>1. Contents' = Contents
      BY <1>10, <1>a, <1>b, <2>1, <2>3 DEF AfterFlush, Contents
    <3>2. Newest' = Newest /\ lost \subseteq lost'
      BY <1>10, <2>3 DEF AfterFlush, Newest
    <3>3. QED
      BY <1>1, <1>10, <3>1, <3>2
  <2>4. QED
    BY <2>2, <2>3
<1>11. EnforceCap => Good
  <2> SUFFICES ASSUME EnforceCap PROVE Good
    OBVIOUS
  <2>0. /\ lock # "free" /\ step = "cap" /\ UNCHANGED <<file, buf, broken, out>>
        /\ buf = <<>> /\ rec # "wipe"
    BY DEF EnforceCap
  <2>1. CASE OverCap /\ keep' = Retained(file) /\ step' = "truncate" /\ UNCHANGED <<rec, lock, lost>>
    <3>1. Contents = file /\ Contents' = Retained(file)
      BY <1>a, <1>b, <2>0, <2>1, RetainedIsEnd DEF Contents
    <3>2. Run(Contents') /\ (Contents' # <<>> => Contents # <<>> /\ Last(Contents') = Last(Contents))
      <4>1. PICK k \in 2..Len(file) + 2 : Retained(file) = SubSeq(file, k, Len(file))
        BY <1>a, RetainedIsEnd
      <4>2. Run(file)
        BY <3>1
      <4>3. QED
        BY <1>a, <3>1, <4>1, <4>2, RunEnd
    <3>3. Run(Contents)'
      BY <2>1, <3>2 DEF Run, Rising, Gone
    <3>4. Ends'
      BY <2>0, <2>1, <3>2 DEF Ends, EndsIn, Gone, Newest
    <3>5. QED
      BY <3>3, <3>4
  <2>2. CASE AfterFlush(TRUE, {})
    BY <1>10, <2>0, <2>2
  <2>3. CASE AfterFlush(FALSE, {})
    <3>1. Contents' = Contents
      BY <2>0, <2>3 DEF Contents, AfterFlush
    <3>2. QED
      BY <1>s, <2>0, <2>3, <3>1
  <2>4. QED
    BY <2>1, <2>2, <2>3 DEF EnforceCap
<1>12. Truncate => Good
  <2> SUFFICES ASSUME Truncate PROVE Good
    OBVIOUS
  <2>0. lock # "free" /\ step = "truncate" /\ UNCHANGED <<buf, broken, out>>
    BY DEF Truncate
  <2>1. CASE step' = "rewrite" /\ UNCHANGED <<rec, lock, keep, lost>>
    BY <1>1, <2>0, <2>1 DEF Contents, Newest
  <2>2. CASE AfterFlush(FALSE, {}) /\ UNCHANGED file
    <3>1. Contents' = file
      BY <1>a, <1>b, <2>0, <2>2 DEF Contents, AfterFlush
    <3>2. Run(file) /\ EndsIn(file)
      BY <2>0 DEF Untouched
    <3>3. QED
      BY <1>a, <1>r, <2>0, <2>2, <3>1, <3>2
  <2>3. QED
    BY <2>1, <2>2 DEF Truncate
<1>13. Rewrite => Good
  <2> SUFFICES ASSUME Rewrite PROVE Good
    OBVIOUS
  <2>0. lock # "free" /\ step = "rewrite" /\ file = <<>> /\ UNCHANGED <<buf, broken, out>>
    BY DEF Rewrite
  <2>1. CASE file' = file \o keep /\ step' = "resync" /\ UNCHANGED <<rec, lock, keep, lost>>
    <3>1. file' = keep
      BY <1>a, <1>b, <2>0, <2>1
    <3>2. Contents' = Contents
      BY <2>0, <2>1, <3>1 DEF Contents
    <3>3. QED
      BY <1>1, <2>0, <2>1, <3>2 DEF Newest
  <2>2. ASSUME NEW k \in 1..Len(keep), NEW piece \in Pieces(keep[k]),
               file' = file \o SubSeq(keep, 1, k - 1) \o piece,
               AfterFlush(FALSE, keep[k].n .. Last(keep).n)
        PROVE  Good
    <3>0. PICK t : t = SubSeq(keep, 1, k - 1) \o piece
      OBVIOUS
    <3>1. SubSeq(keep, 1, k - 1) \in Seq(Lines) /\ piece \in Seq(Lines) /\ t \in Seq(Lines)
      <4>1. SubSeq(keep, 1, k - 1) \in Seq(Lines) /\ keep[k] \in Lines
        BY <1>a, ElementOfSeq
      <4>2. piece \in Seq(Lines)
        BY <2>2, <4>1, PieceTyped
      <4>3. QED
        BY <3>0, <4>1, <4>2
    <3>2. file' = t
      <4>1. file \o SubSeq(keep, 1, k - 1) = SubSeq(keep, 1, k - 1)
        BY <1>b, <2>0, <3>1
      <4>2. QED
        BY <2>2, <3>0, <4>1
    <3>3. Contents' = t
      <4>1. Contents' = file' \o buf' /\ buf' = <<>>
        BY <2>0, <2>2 DEF Contents, AfterFlush
      <4>2. QED
        BY <1>b, <3>1, <3>2, <4>1
    <3>4. Run(keep) /\ EndsIn(keep)
      <4>1. Contents = keep /\ ~broken
        BY <1>a, <1>b, <2>0 DEF Contents
      <4>2. QED
        BY <4>1 DEF Ends
    <3>5. lost \cup keep[k].n .. Last(keep).n \subseteq lost'
      BY <2>2 DEF AfterFlush
    <3>6. Run(t)' /\ (t # <<>> => Last(t).n <= Newest /\ (Last(t).n + 1)..Newest \subseteq lost')
      BY <1>a, <2>2, <3>0, <3>4, <3>5, CutRun
    <3>7. QED
      BY <1>f, <2>0, <2>2, <3>1, <3>3, <3>6
  <2>3. QED
    BY <2>1, <2>2 DEF Rewrite
<1>14. Resync => Good
  <2> SUFFICES ASSUME Resync PROVE Good
    OBVIOUS
  <2>0. lock # "free" /\ step = "resync" /\ buf = <<>> /\ ~broken
    BY DEF Resync
  <2>1. lock # "free" /\ step = "resync" /\ buf = <<>> /\ buf' = <<>> /\ UNCHANGED <<file, out>> /\ ~broken /\ ~broken'
    <3>1. (buf' = <<>> /\ broken' = FALSE) \/ UNCHANGED <<buf, broken>>
      BY DEF Resync
    <3>2. QED
      BY <2>0, <3>1 DEF Resync
  <2>2. CASE rec = "wipe" /\ lock' = "free"
    <3>1. file = <<>>
      BY <2>1, <2>2
    <3>2. Contents' = <<>>
      BY <1>a, <1>b, <2>1, <2>2, <3>1 DEF Contents
    <3>3. QED
      BY <1>2, <3>2
  <2>3. CASE rec # "wipe" /\ AfterFlush(TRUE, {})
    <3>1. UNCHANGED broken
      BY <2>1 DEF TypeOK
    <3>2. QED
      BY <1>10, <2>1, <2>3, <3>1
  <2>4. CASE AfterFlush(FALSE, {})
    <3>1. Contents' = Contents
      BY <2>1, <2>4 DEF Contents, AfterFlush
    <3>2. QED
      BY <1>s, <2>1, <2>4, <3>1
  <2>5. rec = "wipe" => lock = "pty"
    OBVIOUS
  <2>6. QED
    BY <2>2, <2>3, <2>4, <2>5 DEF Resync
<1>15. Stop("exited") \/ Stop("dead") => Good
  <2>1. Stop("exited") \/ Stop("dead") => UNCHANGED <<file, buf, keep, rec, out, broken, lock, step, lost>>
    BY DEF Stop
  <2>2. QED
    BY <1>1, <2>1 DEF Contents, Newest
<1>16. ASSUME NEW h \in Readers, HistoryBegin(h) \/ HistoryRead(h) PROVE Good
  BY <1>1, <1>16 DEF HistoryBegin, HistoryRead, Acquire, Contents, Newest
<1>17. UNCHANGED vars => Good
  BY <1>1 DEF vars, Contents, Newest
<1>18. QED
  BY <1>3, <1>4, <1>5, <1>6, <1>7, <1>8, <1>9, <1>11, <1>12, <1>13, <1>14, <1>15, <1>16, <1>17
  DEF Next, LockedStep

\* The file that is about to be truncated is in order.
LEMMA UntouchedInductive ==
  ASSUME TypeOK, TypeOK', IInv, [Next]_vars
  PROVE  Untouched'
<1>0. Readers \cap {"free", "pty", "timer", "waiter"} = {}
  BY TranscriptAssumption DEF TranscriptAssumption
<1>a. file \in Seq(Lines) /\ file \o <<>> = file
  BY ConcatEmptySeq DEF TypeOK
<1>1. ASSUME lock' = "free" \/ step' # "truncate" PROVE Untouched'
  BY <1>1 DEF Untouched
<1>2. ASSUME UNCHANGED file, Newest' = Newest, lost \subseteq lost', Run(file), EndsIn(file)
      PROVE  Untouched'
  <2>1. Run(file)'
    BY <1>2, RunKept DEF Run, Rising, Gone
  <2>2. EndsIn(file)'
    BY <1>2 DEF EndsIn, Gone
  <2>3. QED
    BY <2>1, <2>2 DEF Untouched
<1>3. ASSUME UNCHANGED <<file, lock, step>>, Newest' = Newest, lost \subseteq lost' PROVE Untouched'
  <2>1. CASE lock # "free" /\ step = "truncate"
    BY <1>2, <1>3, <2>1 DEF IInv, Untouched
  <2>2. CASE ~(lock # "free" /\ step = "truncate")
    BY <1>1, <1>3, <2>2
  <2>3. QED
    BY <2>1, <2>2
<1>4. ASSUME lock = "free" \/ step \in {"cap", "resync"}, buf = <<>>, ~broken
      PROVE  Run(file) /\ EndsIn(file)
  <2>1. Contents = file
    BY <1>4, <1>a DEF Contents
  <2>2. QED
    BY <1>4, <2>1 DEF IInv, Ends
<1>5. ASSUME NEW gone, AfterFlush(FALSE, gone) PROVE Untouched'
  BY <1>1, <1>5 DEF AfterFlush
<1>6. ASSUME lock # "free", step \in {"cap", "resync"}, AfterFlush(TRUE, {}), UNCHANGED <<file, out>>
      PROVE  Untouched'
  <2>1. buf = <<>> /\ ~broken
    BY <1>6 DEF IInv, Steps
  <2>2. CASE lock = "pty" /\ rec = "clear"
    <3>1. Newest' = Newest /\ lost \subseteq lost'
      BY <1>6, <2>2 DEF AfterFlush, Newest
    <3>2. QED
      BY <1>2, <1>4, <1>6, <2>1, <3>1
  <2>3. CASE ~(lock = "pty" /\ rec = "clear")
    BY <1>1, <1>6, <2>3 DEF AfterFlush
  <2>4. QED
    BY <2>2, <2>3
<1>7. CASE Record
  BY <1>3, <1>7 DEF Record, Newest, TypeOK
<1>8. CASE Clear
  <2>1. CASE Acquire("pty")
    BY <1>1, <2>1 DEF Acquire
  <2>2. CASE lock = "free" /\ unflushed = 0 /\ rec' = "wipe"
    <3>1. buf = <<>> /\ ~broken
      BY <2>2 DEF IInv, Steps
    <3>2. UNCHANGED <<file, lost>> /\ Newest' = Newest
      BY <1>8, <2>2 DEF Clear, Newest
    <3>3. QED
      BY <1>2, <1>4, <2>2, <3>1, <3>2
  <2>3. QED
    BY <1>8, <2>1, <2>2 DEF Clear
<1>9. CASE AppendLine
  BY <1>1, <1>9 DEF AppendLine
<1>10. CASE Timer \/ ExitFlush
  BY <1>1, <1>10 DEF Timer, ExitFlush, Acquire
<1>11. CASE Spill \/ Flush \/ Sync
  BY <1>1, <1>5, <1>11 DEF Spill, Flush, Sync
<1>12. CASE EnforceCap
  <2>1. lock # "free" /\ step = "cap" /\ buf = <<>> /\ ~broken /\ UNCHANGED <<file, out>>
    BY <1>12 DEF EnforceCap, IInv, Steps
  <2>2. CASE UNCHANGED <<rec, lost>>
    <3>1. Newest' = Newest
      BY <2>1, <2>2 DEF Newest
    <3>2. QED
      BY <1>2, <1>4, <2>1, <2>2, <3>1
  <2>3. QED
    BY <1>5, <1>6, <1>12, <2>1, <2>2 DEF EnforceCap
<1>13. CASE Truncate \/ Rewrite
  BY <1>1, <1>5, <1>13 DEF Truncate, Rewrite
<1>14. CASE Resync
  BY <1>1, <1>5, <1>6, <1>14 DEF Resync
<1>15. CASE Stop("exited") \/ Stop("dead")
  BY <1>3, <1>15 DEF Stop, Newest
<1>16. ASSUME NEW h \in Readers, HistoryBegin(h) \/ HistoryRead(h) PROVE Untouched'
  <2>1. CASE lock = "free" /\ step' = "flush"
    BY <1>1, <2>1
  <2>2. CASE UNCHANGED <<lock, step>>
    BY <1>3, <1>16, <2>2 DEF HistoryBegin, HistoryRead, Newest
  <2>3. QED
    BY <1>16, <2>1, <2>2 DEF HistoryBegin, HistoryRead, Acquire
<1>17. CASE UNCHANGED vars
  BY <1>3, <1>17 DEF vars, Newest
<1>18. QED
  BY <1>7, <1>8, <1>9, <1>10, <1>11, <1>12, <1>13, <1>14, <1>15, <1>16, <1>17 DEF Next, LockedStep

LEMMA TranscriptInductive == Spec => [](TypeOK /\ IInv)
<1>1. Init => IInv
  <2> SUFFICES ASSUME Init PROVE IInv
    OBVIOUS
  <2>1. Contents = <<>>
    BY DEF Init, Contents
  <2>2. Len(<<>>) = 0 /\ 1..0 = {}
    OBVIOUS
  <2>3. QED
    BY <2>1, <2>2 DEF Init, IInv, Holders, Steps, Run, Rising, Ends, EndsIn, Untouched
<1>2. TypeOK /\ TypeOK' /\ IInv /\ [Next]_vars => IInv'
  <2> SUFFICES ASSUME TypeOK, TypeOK', IInv, [Next]_vars PROVE IInv'
    OBVIOUS
  <2>1. Holders' /\ Steps'
    BY HoldersInductive
  <2>2. Run(Contents)' /\ Ends'
    BY ContentsInductive
  <2>3. Untouched'
    BY UntouchedInductive
  <2>4. QED
    BY <2>1, <2>2, <2>3 DEF IInv
<1>3. QED
  BY <1>1, <1>2, TranscriptTypeCorrect, PTL DEF Spec

\* With whatever failing writes, syncs and trims, flushes, clears and trims leave the output
\* in its order and without a hole, but for the chunks that a clear or a rewrite dropped when
\* it failed.
THEOREM TranscriptHasNoHole == Spec => []NoHole
<1>1. TypeOK /\ IInv => NoHole
  <2> SUFFICES ASSUME TypeOK, IInv PROVE NoHole
    OBVIOUS
  <2>1. Run(Contents)
    BY DEF IInv
  <2>2. Contents \in Seq(Lines)
    BY DEF TypeOK, Contents
  <2>3. \A i \in 1..Len(Contents) - 1 : i \in 1..Len(Contents) /\ i + 1 \in 1..Len(Contents) /\ i < i + 1
    BY <2>2
  <2>4. QED
    BY <2>1, <2>3 DEF Run, Rising, Gone, NoHole
<1>2. QED
  BY <1>1, TranscriptInductive, PTL

-----------------------------------------------------------------------------
(* The timers.                                                              *)

\* Until a write fails, what is not flushed is scheduled, and what is scheduled has a timer.
Timed ==
    /\ lock = "free" /\ ~broken /\ unflushed > 0 => scheduled
    /\ lock = "free" /\ ~broken /\ scheduled => timers > 0
    /\ scheduled => unflushed > 0
    /\ lock # "free" /\ step \in {"cap", "truncate", "rewrite", "resync"} => unflushed = 0

LEMMA TimedInductive ==
  ASSUME "sync" \notin Failures, TypeOK, IInv, Timed, [Next]_vars
  PROVE  Timed'
<1>0. Readers \cap {"free", "pty", "timer", "waiter"} = {}
  BY TranscriptAssumption DEF TranscriptAssumption
<1>a. unflushed \in Nat /\ timers \in Nat /\ scheduled \in BOOLEAN
  BY DEF TypeOK
<1> USE DEF Timed
<1>1. Record => Timed'
  BY DEF Record
<1>2. Clear => Timed'
  BY <1>a DEF Clear, Acquire
<1>3. AppendLine => Timed'
  <2> SUFFICES ASSUME AppendLine PROVE Timed'
    OBVIOUS
  <2>1. CASE broken
    BY <2>1 DEF AppendLine
  <2>2. CASE ~broken
    <3>1. unflushed' > 0 /\ lock = "free"
      <4>1. cur.size \in Nat /\ cur.size > 0
        BY DEF AppendLine, TypeOK, Lines, IInv, Holders
      <4>2. unflushed' = unflushed + cur.size
        BY <2>2 DEF AppendLine
      <4>3. QED
        BY <1>a, <4>1, <4>2 DEF AppendLine
    <3>2. CASE unflushed' >= FlushBytes
      BY <2>2, <3>1, <3>2 DEF AppendLine
    <3>3. CASE ~(unflushed' >= FlushBytes)
      BY <1>a, <2>2, <3>1, <3>3 DEF AppendLine
    <3>4. QED
      BY <3>2, <3>3
  <2>3. QED
    BY <2>1, <2>2
<1>4. Timer => Timed'
  BY <1>a DEF Timer, Acquire
<1>5. ExitFlush => Timed'
  BY DEF ExitFlush, Acquire
<1>6. Spill => Timed'
  BY DEF Spill
<1>7. Flush => Timed'
  BY DEF Flush, Fails, AfterFlush
<1>8. Sync => Timed'
  BY <1>a DEF Sync, Fails, NoneScheduled
<1>9. EnforceCap => Timed'
  BY <1>a DEF EnforceCap, AfterFlush
<1>10. Truncate \/ Rewrite => Timed'
  BY <1>a DEF Truncate, Rewrite, AfterFlush
<1>11. Resync => Timed'
  BY <1>a DEF Resync, Fails, AfterFlush, NoneScheduled
<1>12. Stop("exited") \/ Stop("dead") => Timed'
  BY DEF Stop
<1>13. ASSUME NEW h \in Readers, HistoryBegin(h) \/ HistoryRead(h) PROVE Timed'
  BY <1>0, <1>13 DEF HistoryBegin, HistoryRead, Acquire
<1>14. UNCHANGED vars => Timed'
  BY DEF vars
<1>15. QED
  BY <1>1, <1>2, <1>3, <1>4, <1>5, <1>6, <1>7, <1>8, <1>9, <1>10, <1>11, <1>12, <1>13, <1>14
  DEF Next, LockedStep

\* Unless a write or a sync fails, no thread leaves lines in the buffer that no timer will
\* flush.
THEOREM BufferHasTimer == "sync" \notin Failures /\ Spec => []BufferedIsTimed
<1> SUFFICES ASSUME "sync" \notin Failures PROVE Spec => []BufferedIsTimed
  OBVIOUS
<1>1. Init => Timed
  BY DEF Init, Timed
<1>2. TypeOK /\ IInv /\ Timed /\ [Next]_vars => Timed'
  BY TimedInductive
<1>3. IInv /\ Timed => BufferedIsTimed
  BY DEF IInv, Steps, Timed, BufferedIsTimed
<1>4. Spec => [](TypeOK /\ IInv)
  BY TranscriptInductive
<1>5. QED
  BY <1>1, <1>2, <1>3, <1>4, PTL DEF Spec
\* Unless a sync fails, file, buffer and timers fit together: no hole in the output but for
\* what a failed clear or rewrite dropped, and no line in the buffer that nothing will flush.
THEOREM TranscriptSound == "sync" \notin Failures /\ Spec => []TranscriptIsSound
<1>1. TypeOK /\ NoHole /\ BufferedIsTimed => TranscriptIsSound
  BY DEF TranscriptIsSound
<1>2. QED
  BY <1>1, TranscriptTypeCorrect, TranscriptHasNoHole, BufferHasTimer, PTL

-----------------------------------------------------------------------------
(* Bytes.                                                                   *)

\* The bytes of some lines: the place of each line, and each place within it.
ByteSet(s) == UNION { {i} \X (1..s[i].size) : i \in 1..Len(s) }

\* There are finitely many, so that the file has a size.
LEMMA ByteSetFinite ==
  ASSUME NEW s \in Seq(Lines)
  PROVE  /\ IsFiniteSet(ByteSet(s))
         /\ Bytes(s) = Cardinality(ByteSet(s))
         /\ Bytes(s) \in Nat
<1> DEFINE row == [i \in 1..Len(s) |-> {i} \X (1..s[i].size)]
           rows == { {i} \X (1..s[i].size) : i \in 1..Len(s) }
<1>1. IsFiniteSet(1..Len(s))
  BY FS_Interval, Len(s) \in Nat, 1 \in Int
<1>2. row \in Surjection(1..Len(s), rows)
  BY DEF Surjection
<1>3. IsFiniteSet(rows)
  <2> HIDE DEF row, rows
  <2> QED BY <1>1, <1>2, FS_Surjection
<1>4. ASSUME NEW i \in 1..Len(s) PROVE IsFiniteSet({i} \X (1..s[i].size))
  <2>1. s[i] \in Lines
    BY ElementOfSeq
  <2>2. s[i].size \in Int
    BY <2>1 DEF Lines
  <2>3. IsFiniteSet({i})
    BY FS_Singleton
  <2>4. IsFiniteSet(1..s[i].size)
    BY <2>2, FS_Interval, 1 \in Int
  <2>5. QED
    BY <2>3, <2>4, FS_Product
<1>5. IsFiniteSet(UNION rows)
  <2>1. \A r \in rows : IsFiniteSet(r)
    BY <1>4
  <2> HIDE DEF rows
  <2>2. QED
    BY <1>3, <2>1, FS_UNION
<1>6. QED
  BY <1>5, FS_CardinalityType DEF ByteSet, Bytes

\* A byte is one of a line of s.
LEMMA ByteOf ==
  ASSUME NEW s \in Seq(Lines), NEW x
  PROVE  x \in ByteSet(s) <=> x = <<x[1], x[2]>> /\ x[1] \in 1..Len(s) /\ x[2] \in 1..s[x[1]].size
BY DEF ByteSet

\* The bytes of lines after others are the bytes of both.
LEMMA BytesConcat ==
  ASSUME NEW s \in Seq(Lines), NEW t \in Seq(Lines)
  PROVE  Bytes(s \o t) = Bytes(s) + Bytes(t)
<1> DEFINE st == s \o t
           n == Len(s)
           place == [x \in ByteSet(t) |-> <<x[1] + n, x[2]>>]
           moved == { place[x] : x \in ByteSet(t) }
<1>1. /\ st \in Seq(Lines) /\ n \in Nat /\ Len(t) \in Nat
      /\ Len(st) = n + Len(t)
      /\ \A i \in 1..n : st[i] = s[i]
      /\ \A i \in 1..Len(t) : st[i + n] = t[i]
  BY ConcatProperties
<1>a. ASSUME NEW x \in ByteSet(t)
      PROVE  /\ x = <<x[1], x[2]>> /\ x[1] \in 1..Len(t) /\ x[2] \in 1..t[x[1]].size
             /\ place[x] = <<x[1] + n, x[2]>> /\ x[1] \in Nat
  BY <1>1, ByteOf
<1>2. place \in Bijection(ByteSet(t), moved)
  <2>1. ASSUME NEW x \in ByteSet(t), NEW y \in ByteSet(t), place[x] = place[y] PROVE x = y
    <3>1. <<x[1] + n, x[2]>> = <<y[1] + n, y[2]>>
      BY <1>a, <2>1
    <3>2. x[1] + n = y[1] + n /\ x[2] = y[2]
      BY <3>1
    <3>3. x[1] = y[1]
      <4>1. x[1] \in Nat /\ y[1] \in Nat /\ n \in Nat
        BY <1>1, <1>a
      <4>2. QED
        BY <3>2, <4>1
    <3>4. QED
      BY <1>a, <3>2, <3>3
  <2>2. QED
    BY <2>1 DEF Bijection, Injection, IsInjective, Surjection
<1>3. IsFiniteSet(moved) /\ Cardinality(moved) = Bytes(t)
  <2>1. ExistsBijection(ByteSet(t), moved)
    <3> HIDE DEF place, moved
    <3> QED BY <1>2 DEF ExistsBijection
  <2> HIDE DEF moved
  <2>2. QED
    BY <2>1, ByteSetFinite, FS_Bijection
<1>4. ByteSet(st) = ByteSet(s) \cup moved
  <2>1. ASSUME NEW x \in ByteSet(st) PROVE x \in ByteSet(s) \cup moved
    <3>1. x = <<x[1], x[2]>> /\ x[1] \in 1..Len(st) /\ x[2] \in 1..st[x[1]].size
      BY <1>1, ByteOf
    <3>2. CASE x[1] <= n
      <4>1. x[1] \in 1..n
        BY <1>1, <3>1, <3>2
      <4>2. st[x[1]] = s[x[1]]
        BY <1>1, <4>1
      <4>3. QED
        BY <3>1, <4>1, <4>2, ByteOf
    <3>3. CASE x[1] > n
      <4> DEFINE y == <<x[1] - n, x[2]>>
      <4>1. x[1] - n \in 1..Len(t) /\ (x[1] - n) + n = x[1]
        BY <1>1, <3>1, <3>3
      <4>2. st[x[1]] = t[x[1] - n]
        BY <1>1, <4>1
      <4>3. y \in ByteSet(t)
        BY <3>1, <4>1, <4>2, ByteOf
      <4>4. place[y] = x
        BY <3>1, <4>1, <4>3
      <4>5. QED
        BY <4>3, <4>4
    <3>4. QED
      BY <1>1, <3>1, <3>2, <3>3
  <2>2. ASSUME NEW x \in ByteSet(s) PROVE x \in ByteSet(st)
    <3>1. x = <<x[1], x[2]>> /\ x[1] \in 1..Len(s) /\ x[2] \in 1..s[x[1]].size
      BY ByteOf
    <3>2. x[1] \in 1..Len(st) /\ st[x[1]] = s[x[1]]
      BY <1>1, <3>1
    <3>3. QED
      BY <1>1, <3>1, <3>2, ByteOf
  <2>3. ASSUME NEW x \in ByteSet(t) PROVE place[x] \in ByteSet(st)
    <3> DEFINE y == <<x[1] + n, x[2]>>
    <3>1. x[1] + n \in 1..Len(st) /\ st[x[1] + n] = t[x[1]]
      <4>1. x[1] \in 1..Len(t)
        BY <1>a
      <4> HIDE DEF st, place, moved
      <4>2. QED
        BY <1>1, <4>1
    <3>2. y = <<y[1], y[2]>> /\ y[1] \in 1..Len(st) /\ y[2] \in 1..st[y[1]].size
      BY <1>a, <3>1
    <3>3. y \in ByteSet(st)
      <4> HIDE DEF y
      <4> QED BY <1>1, <3>2, ByteOf
    <3>4. QED
      BY <1>a, <3>3
  <2>4. QED
    BY <2>1, <2>2, <2>3
<1>5. ByteSet(s) \cap moved = {}
  <2>1. ASSUME NEW x \in ByteSet(s), NEW y \in ByteSet(t), x = place[y] PROVE FALSE
    <3>1. x[1] = y[1] + n
      BY <1>a, <2>1
    <3>2. x[1] \in 1..Len(s) /\ y[1] \in 1..Len(t)
      BY <1>a, ByteOf
    <3>3. QED
      BY <1>1, <3>1, <3>2
  <2>2. QED
    BY <2>1
<1>6. Cardinality(ByteSet(s) \cup moved) = Cardinality(ByteSet(s)) + Cardinality(moved)
  <2> HIDE DEF moved
  <2>1. IsFiniteSet(ByteSet(s)) /\ Cardinality(ByteSet(s)) \in Nat /\ Cardinality(moved) \in Nat
    BY <1>3, ByteSetFinite, FS_CardinalityType
  <2>2. Cardinality(ByteSet(s) \cup moved)
          = Cardinality(ByteSet(s)) + Cardinality(moved) - Cardinality(ByteSet(s) \cap moved)
    BY <1>3, <2>1, FS_Union
  <2>3. Cardinality(ByteSet(s) \cap moved) = 0
    BY <1>5, FS_EmptySet
  <2>4. QED
    BY <2>1, <2>2, <2>3
<1> HIDE DEF st, moved
<1>7. Bytes(st) = Cardinality(ByteSet(s) \cup moved)
  BY <1>1, <1>4, ByteSetFinite
<1>8. Bytes(s) = Cardinality(ByteSet(s))
  BY ByteSetFinite
<1>9. QED
  BY <1>3, <1>6, <1>7, <1>8 DEF st

\* One line takes as many bytes as its size.
LEMMA BytesOfOne ==
  ASSUME NEW l \in Lines
  PROVE  Bytes(<<l>>) = l.size
<1>1. l.size \in Nat
  BY DEF Lines
<1>2. <<l>> \in Seq(Lines) /\ Len(<<l>>) = 1 /\ <<l>>[1] = l
  OBVIOUS
<1>3. ByteSet(<<l>>) = {1} \X (1..l.size)
  BY <1>2 DEF ByteSet
<1>4. Cardinality({1} \X (1..l.size)) = 1 * l.size
  <2>1. IsFiniteSet({1}) /\ Cardinality({1}) = 1
    BY FS_Singleton
  <2>2. IsFiniteSet(1..l.size) /\ Cardinality(1..l.size) = l.size
    <3>1. l.size \in Int /\ 1 \in Int
      BY <1>1
    <3>2. /\ IsFiniteSet(1..l.size)
          /\ Cardinality(1..l.size) = IF 1 > l.size THEN 0 ELSE l.size - 1 + 1
      BY <3>1, FS_Interval
    <3>3. (IF 1 > l.size THEN 0 ELSE l.size - 1 + 1) = l.size
      BY <1>1
    <3>4. QED
      BY <3>2, <3>3
  <2>3. Cardinality({1} \X (1..l.size)) = Cardinality({1}) * Cardinality(1..l.size)
    BY <2>1, <2>2, FS_Product
  <2>4. QED
    BY <2>1, <2>2, <2>3
<1>5. Bytes(<<l>>) = Cardinality(ByteSet(<<l>>))
  BY <1>2, ByteSetFinite
<1>6. 1 * l.size = l.size
  BY <1>1
<1>7. QED
  BY <1>3, <1>4, <1>5, <1>6

\* No lines take no bytes.
LEMMA NoBytes == Bytes(<<>>) = 0
<1>1. <<>> \in Seq(Lines) /\ <<>> \o <<>> = <<>>
  BY EmptySeq, ConcatEmptySeq
<1>2. Bytes(<<>>) = Bytes(<<>>) + Bytes(<<>>) /\ Bytes(<<>>) \in Nat
  BY <1>1, BytesConcat, ByteSetFinite
<1>3. QED
  BY <1>2

\* Where line i of s begins.
Start(s, i) == Bytes(SubSeq(s, 1, i - 1))

\* Lines are divided anywhere into the bytes before and behind.
LEMMA BytesSplit ==
  ASSUME NEW s \in Seq(Lines), NEW k \in 0..Len(s)
  PROVE  /\ Bytes(s) = Bytes(SubSeq(s, 1, k)) + Bytes(SubSeq(s, k + 1, Len(s)))
         /\ Bytes(SubSeq(s, 1, k)) \in Nat
         /\ Bytes(SubSeq(s, k + 1, Len(s))) \in Nat
<1>1. SubSeq(s, 1, k) \in Seq(Lines) /\ SubSeq(s, k + 1, Len(s)) \in Seq(Lines)
  OBVIOUS
<1>2. SubSeq(s, 1, k) \o SubSeq(s, k + 1, Len(s)) = SubSeq(s, 1, Len(s))
  <2>1. 1 \in 1 .. Len(s) + 1 /\ k \in 1 - 1 .. Len(s) /\ Len(s) \in k .. Len(s)
    OBVIOUS
  <2>2. QED
    BY <2>1, ConcatAdjacentSubSeq
<1>3. SubSeq(s, 1, Len(s)) = s
  BY SubSeqFull
<1>4. QED
  BY <1>1, <1>2, <1>3, BytesConcat, ByteSetFinite

\* A line begins where the one before it ends.
LEMMA StartNext ==
  ASSUME NEW s \in Seq(Lines), NEW i \in 1..Len(s)
  PROVE  Start(s, i) \in Nat /\ Start(s, i + 1) = Start(s, i) + s[i].size
<1>1. /\ SubSeq(s, 1, i - 1) \in Seq(Lines)
      /\ s[i] \in Lines /\ <<s[i]>> \in Seq(Lines)
  BY ElementOfSeq
<1>2. SubSeq(s, 1, (i + 1) - 1) = SubSeq(s, 1, i - 1) \o <<s[i]>>
  <2>1. 1 \in 1..Len(s) /\ i \in 1..Len(s) /\ (i + 1) - 1 = i
    OBVIOUS
  <2>2. SubSeq(s, 1, i) = SubSeq(s, 1, i - 1) \o <<s[i]>>
    BY <2>1, SubSeqRecursiveSecond
  <2>3. QED
    BY <2>1, <2>2
<1>3. Bytes(SubSeq(s, 1, i - 1) \o <<s[i]>>) = Bytes(SubSeq(s, 1, i - 1)) + Bytes(<<s[i]>>)
  BY <1>1, BytesConcat
<1>4. QED
  BY <1>1, <1>2, <1>3, BytesOfOne, ByteSetFinite DEF Start

\* A later line begins no earlier.
LEMMA StartRises ==
  ASSUME NEW s \in Seq(Lines), NEW i \in 1..Len(s) + 1, NEW j \in i..Len(s) + 1
  PROVE  Start(s, i) \in Nat /\ Start(s, j) \in Nat /\ Start(s, i) <= Start(s, j)
<1> DEFINE p == SubSeq(s, 1, j - 1)
<1>1. p \in Seq(Lines) /\ Len(p) = j - 1 /\ i - 1 \in 0..Len(p)
  OBVIOUS
<1>2. SubSeq(p, 1, i - 1) = SubSeq(s, 1, i - 1)
  <2>1. SubSeq(p, 1, i - 1) \in Seq(Lines) /\ SubSeq(s, 1, i - 1) \in Seq(Lines)
    OBVIOUS
  <2>2. Len(SubSeq(p, 1, i - 1)) = i - 1 /\ Len(SubSeq(s, 1, i - 1)) = i - 1
    OBVIOUS
  <2>3. \A m \in 1..(i - 1) : SubSeq(p, 1, i - 1)[m] = SubSeq(s, 1, i - 1)[m]
    OBVIOUS
  <2>4. QED
    BY <2>1, <2>2, <2>3, SeqEqual
<1> HIDE DEF p
<1>3. /\ Bytes(p) = Bytes(SubSeq(p, 1, i - 1)) + Bytes(SubSeq(p, (i - 1) + 1, Len(p)))
      /\ Bytes(SubSeq(p, 1, i - 1)) \in Nat
      /\ Bytes(SubSeq(p, (i - 1) + 1, Len(p))) \in Nat
  BY <1>1, BytesSplit
<1>4. Start(s, j) = Bytes(p) /\ Start(s, i) = Bytes(SubSeq(p, 1, i - 1))
  BY <1>2 DEF p, Start
<1>5. \A a, b, c : a = b + c /\ b \in Nat /\ c \in Nat => a \in Nat /\ b <= a
  OBVIOUS
<1>6. QED
  BY <1>3, <1>4, <1>5

\* A trim leaves no more than the cap: the line behind the excess goes as well.
LEMMA RetainedFits ==
  ASSUME NEW s \in Seq(Lines)
  PROVE  Bytes(Retained(s)) <= Cap
<1> DEFINE excess == { i \in 1..Len(s) :
                         \A j \in 1..i : Bytes(SubSeq(s, 1, j)) <= Bytes(s) - Cap \/ ~s[j].whole }
           k == Cardinality(excess)
<1>0. Cap \in Nat \ {0} /\ Len(s) \in Nat /\ Bytes(s) \in Nat
  BY TranscriptAssumption, ByteSetFinite DEF TranscriptAssumption
<1>1. IsFiniteSet(1..Len(s)) /\ Cardinality(1..Len(s)) = Len(s)
  BY FS_Interval, Len(s) \in Nat, 0 + 1 \in Int
<1>2. IsFiniteSet(excess) /\ Cardinality(excess) <= Len(s) /\ (Cardinality(excess) = Len(s) => excess = 1..Len(s))
  BY <1>1, FS_Subset
<1>3. k \in Nat
  BY <1>2, FS_CardinalityType
<1>4. Retained(s) = SubSeq(s, k + 2, Len(s))
  BY DEF Retained
<1>5. ASSUME NEW i \in excess, NEW j \in 1..i PROVE j \in excess
  <2>1. j \in 1..Len(s) /\ 1..j \subseteq 1..i
    OBVIOUS
  <2>2. QED
    BY <2>1
<1>6. k + 1 \notin excess
  <2> SUFFICES ASSUME k + 1 \in excess PROVE FALSE
    OBVIOUS
  <2> HIDE DEF k, excess
  <2>1. 1..k + 1 \subseteq excess
    BY <1>5
  <2>2. Cardinality(1..k + 1) = k + 1
    <3>1. 1 \in Int /\ k + 1 \in Int /\ ~(1 > k + 1)
      BY <1>3
    <3>2. Cardinality(1..k + 1) = (k + 1) - 1 + 1
      BY <3>1, FS_Interval
    <3>3. QED
      BY <1>3, <3>2
  <2>3. Cardinality(1..k + 1) <= Cardinality(excess)
    BY <1>2, <2>1, FS_Subset
  <2>4. QED
    BY <1>3, <2>2, <2>3 DEF k
<1> HIDE DEF k, excess
<1>7. CASE k + 1 <= Len(s)
  <2>1. k + 1 \in 0..Len(s) /\ k + 1 \in 1..Len(s)
    BY <1>3, <1>7
  <2>2. Bytes(SubSeq(s, 1, k + 1)) > Bytes(s) - Cap
    <3>1. PICK j \in 1..k + 1 : ~(Bytes(SubSeq(s, 1, j)) <= Bytes(s) - Cap)
      BY <1>6, <2>1 DEF excess
    <3>2. /\ Start(s, j + 1) \in Nat /\ Start(s, (k + 1) + 1) \in Nat
          /\ Start(s, j + 1) <= Start(s, (k + 1) + 1)
      <4>1. j + 1 \in 1..Len(s) + 1 /\ (k + 1) + 1 \in (j + 1)..Len(s) + 1
        BY <1>3, <2>1
      <4>2. QED
        BY <4>1, StartRises
    <3>3. Start(s, j + 1) = Bytes(SubSeq(s, 1, j)) /\ Start(s, (k + 1) + 1) = Bytes(SubSeq(s, 1, k + 1))
      <4>1. (j + 1) - 1 = j /\ ((k + 1) + 1) - 1 = k + 1
        BY <1>3
      <4>2. QED
        BY <4>1 DEF Start
    <3>4. QED
      BY <1>0, <3>1, <3>2, <3>3
  <2>3. /\ Bytes(s) = Bytes(SubSeq(s, 1, k + 1)) + Bytes(SubSeq(s, (k + 1) + 1, Len(s)))
        /\ Bytes(SubSeq(s, 1, k + 1)) \in Nat
        /\ Bytes(SubSeq(s, (k + 1) + 1, Len(s))) \in Nat
    BY <2>1, BytesSplit
  <2>4. (k + 1) + 1 = k + 2
    BY <1>3
  <2>5. QED
    BY <1>0, <1>4, <2>2, <2>3, <2>4
<1>8. CASE k + 1 > Len(s)
  <2>1. SubSeq(s, k + 2, Len(s)) = <<>>
    <3>1. k + 2 \in Int /\ Len(s) \in Int /\ Len(s) < k + 2
      BY <1>0, <1>3, <1>8
    <3>2. QED
      BY <3>1, SubSeqEmpty
  <2>2. Retained(s) = <<>>
    BY <1>4, <2>1, Zenon
  <2>3. Bytes(Retained(s)) = 0
    BY <2>2, NoBytes, Zenon
  <2>4. QED
    BY <1>0, <2>3
<1>9. QED
  BY <1>0, <1>3, <1>7, <1>8

-----------------------------------------------------------------------------
(* The cap.                                                                 *)

\* What a flush that ends well leaves in the file, or is about to leave there, is within the cap.
Capped ==
    /\ lock # "free" /\ step \in {"truncate", "rewrite"} => Bytes(keep) <= Cap
    /\ lock # "free" /\ step = "resync" => Bytes(file) <= Cap
    /\ WithinCap

\* Every step keeps that, a trim because what it keeps fits.
LEMMA CappedInductive ==
  ASSUME TypeOK, IInv, Capped, [Next]_vars
  PROVE  Capped'
<1>0. Cap \in Nat /\ Bytes(<<>>) <= Cap
  BY TranscriptAssumption, NoBytes DEF TranscriptAssumption
<1> USE DEF Capped, WithinCap
<1>f. ASSUME NEW gone, AfterFlush(FALSE, gone) PROVE Capped'
  BY <1>f DEF AfterFlush
<1>1. ASSUME lock = "free", UNCHANGED <<file, lapsed>>, lock' # "free" => step' \in {"flush", "spill"}
      PROVE  Capped'
  BY <1>1
<1>2. Record => Capped'
  BY DEF Record
<1>3. Clear => Capped'
  BY <1>0 DEF Clear, Acquire
<1>4. AppendLine \/ Timer \/ ExitFlush => Capped'
  BY <1>1 DEF AppendLine, Timer, ExitFlush, Acquire
<1>5. Spill => Capped'
  BY DEF Spill
<1>6. Flush => Capped'
  BY <1>f DEF Flush
<1>7. Sync => Capped'
  BY <1>f DEF Sync
<1>8. ASSUME lock # "free", AfterFlush(TRUE, {}), step # "flush", UNCHANGED file, Bytes(file) <= Cap
      PROVE  Capped'
  BY <1>0, <1>8 DEF AfterFlush
<1>9. EnforceCap => Capped'
  <2> SUFFICES ASSUME EnforceCap PROVE Capped'
    OBVIOUS
  <2>1. CASE OverCap /\ keep' = Retained(file) /\ step' = "truncate" /\ UNCHANGED lock
    <3>1. file \in Seq(Lines) /\ keep' = Retained(file) /\ step' = "truncate" /\ lock' # "free"
      BY <2>1 DEF EnforceCap, TypeOK
    <3>2. Bytes(Retained(file)) <= Cap
      BY <3>1, RetainedFits
    <3>3. QED
      BY <3>1, <3>2
  <2>2. CASE ~OverCap /\ AfterFlush(TRUE, {})
    <3>1. file \in Seq(Lines) /\ Bytes(file) \in Nat
      BY ByteSetFinite DEF TypeOK
    <3>2. Bytes(file) <= Cap
      BY <1>0, <2>2, <3>1 DEF OverCap
    <3>3. QED
      BY <1>8, <2>2, <3>2 DEF EnforceCap
  <2>3. QED
    BY <1>f, <2>1, <2>2 DEF EnforceCap
<1>10. Truncate => Capped'
  BY <1>f DEF Truncate
<1>11. Rewrite => Capped'
  <2> SUFFICES ASSUME Rewrite PROVE Capped'
    OBVIOUS
  <2>1. file = <<>> /\ keep \in Seq(Lines)
    BY DEF Rewrite, IInv, Steps, TypeOK
  <2>2. CASE file' = file \o keep /\ step' = "resync" /\ UNCHANGED lock
    <3>1. file' = keep /\ step' = "resync" /\ Bytes(keep) <= Cap /\ lock' # "free"
      BY <2>1, <2>2, ConcatEmptySeq DEF Rewrite
    <3>2. QED
      BY <3>1
  <2>3. QED
    BY <1>f, <2>2 DEF Rewrite
<1>12. Resync => Capped'
  <2> SUFFICES ASSUME Resync PROVE Capped'
    OBVIOUS
  <2>1. lock # "free" /\ step = "resync" /\ UNCHANGED file /\ Bytes(file) <= Cap
    BY DEF Resync
  <2>2. CASE lock' = "free" /\ lapsed' = FALSE
    BY <2>1, <2>2
  <2>3. QED
    BY <1>8, <1>f, <2>1, <2>2 DEF Resync
<1>13. Stop("exited") \/ Stop("dead") => Capped'
  BY DEF Stop
<1>14. ASSUME NEW h \in Readers, HistoryBegin(h) \/ HistoryRead(h) PROVE Capped'
  BY <1>14 DEF HistoryBegin, HistoryRead, Acquire
<1>15. UNCHANGED vars => Capped'
  BY DEF vars
<1>16. QED
  BY <1>2, <1>3, <1>4, <1>5, <1>6, <1>7, <1>9, <1>10, <1>11, <1>12, <1>13, <1>14, <1>15
  DEF Next, LockedStep

\* For every cap, buffer and amount of output, and whatever writes, syncs and trims
\* fail: who gives the lock back without an error leaves a file within the cap, since a trim
\* drops the lines of the excess, the pieces behind them and one line more
\* (enforceTranscriptCapLocked, retainTranscriptTail).
THEOREM TranscriptCapped == Spec => []WithinCap
<1>1. Init => Capped
  BY NoBytes, TranscriptAssumption DEF Init, Capped, WithinCap, TranscriptAssumption
<1>2. TypeOK /\ IInv /\ Capped /\ [Next]_vars => Capped'
  BY CappedInductive
<1>3. Capped => WithinCap
  BY DEF Capped
<1>4. Spec => [](TypeOK /\ IInv)
  BY TranscriptInductive
<1>5. QED
  BY <1>1, <1>2, <1>3, <1>4, PTL DEF Spec

-----------------------------------------------------------------------------
(* The order of what a history request delivers.                            *)

\* Lines of some size, none of them newer than the m-th.
Known(s, m) == \A i \in 1..Len(s) : s[i].n <= m /\ s[i].size > 0

Precede(s, t) == \A i \in 1..Len(s), j \in 1..Len(t) : s[i].n < t[j].n

\* What recordOutput writes next is newer than every line, and file, buffer and kept lines
\* are in order, the buffer behind the others.
Ordered ==
    /\ rec \in {"append", "clear", "wipe"} => cur.n = out /\ cur.size > 0
    /\ lock # "free" /\ step = "rewrite" => file = <<>>
    /\ Known(file, Newest) /\ Known(keep, Newest) /\ Known(buf, Newest)
    /\ Rising(file) /\ Rising(keep) /\ Rising(buf)
    /\ Precede(file, buf) /\ Precede(keep, buf)

\* The lines that request r has delivered or begun, but for those put together from two.
Shown(r) == ({ r.got[k] : k \in 1..Len(r.got) } \cup {r.head}) \ {0}

\* The lines of s that begin where request r has got to, or behind it, are newer than those.
Ahead(r, s) == \A i \in 1..Len(s) : Start(s, i) >= r.pos => \A x \in Shown(r) : x < s[i].n

Past(r, s, m) == \A x \in Shown(r) : x <= m /\ \A j \in 1..Len(s) : x < s[j].n

\* It has delivered them in their order.
InOrder(r) ==
    /\ \A i, j \in 1..Len(r.got) : i < j /\ r.got[i] # 0 /\ r.got[j] # 0 => r.got[i] < r.got[j]
    /\ r.head # 0 => \A k \in 1..Len(r.got) : r.got[k] # 0 => r.got[k] < r.head

\* Nothing that a request has delivered, and not how far it has read, changes.
SameRead(q, r) == q.pos = r.pos /\ q.got = r.got /\ q.head = r.head

LEMMA ShownTyped ==
  ASSUME NEW r \in Reads
  PROVE  \A x \in Shown(r) : x \in Nat
<1>1. r.got \in Seq(Nat) /\ r.head \in Nat
  BY DEF Reads
<1>2. \A k \in 1..Len(r.got) : r.got[k] \in Nat
  BY <1>1, ElementOfSeq
<1>3. QED
  BY <1>1, <1>2 DEF Shown

LEMMA SameShown ==
  ASSUME NEW q, NEW r, SameRead(q, r)
  PROVE  /\ Shown(q) = Shown(r)
         /\ \A s : Ahead(r, s) => Ahead(q, s)
         /\ \A s, m : Past(r, s, m) => Past(q, s, m)
         /\ InOrder(r) => InOrder(q)
BY DEF SameRead, Shown, Ahead, Past, InOrder

\* That is so in the file, and in what a rewrite will put there in its place.
Delivered(r) ==
    /\ Ahead(r, file)
    /\ lock # "free" /\ step \in {"truncate", "rewrite"} => Ahead(r, keep)
    /\ Past(r, buf, Newest)
    /\ InOrder(r)

\* A rewrite keeps an end of the file.
KeepsEnd == lock # "free" /\ step = "truncate" =>
                \E k \in 2..Len(file) + 2 : keep = SubSeq(file, k, Len(file))

Following == KeepsEnd /\ \A h \in Readers : Delivered(hist[h])

\* An end of a sequence of lines begins later in the whole than in itself.
LEMMA EndStarts ==
  ASSUME NEW s \in Seq(Lines), NEW k \in 2..Len(s) + 2
  PROVE  LET e == SubSeq(s, k, Len(s)) IN
         /\ e \in Seq(Lines)
         /\ \A i \in 1..Len(e) : /\ i + k - 1 \in 1..Len(s)
                                 /\ e[i] = s[i + k - 1]
                                 /\ Start(e, i) \in Nat /\ Start(s, i + k - 1) \in Nat
                                 /\ Start(e, i) <= Start(s, i + k - 1)
<1> DEFINE e == SubSeq(s, k, Len(s))
<1>1. e \in Seq(Lines) /\ k \in Nat /\ Len(s) \in Nat
  OBVIOUS
<1>2. ASSUME NEW i \in 1..Len(e)
      PROVE  /\ i + k - 1 \in 1..Len(s)
             /\ e[i] = s[i + k - 1]
             /\ Start(e, i) \in Nat /\ Start(s, i + k - 1) \in Nat
             /\ Start(e, i) <= Start(s, i + k - 1)
  <2>1. Len(e) = Len(s) - k + 1 /\ i + k - 1 \in 1..Len(s) /\ e[i] = s[i + k - 1]
    BY <1>2
  <2> DEFINE p == SubSeq(s, 1, i + k - 2)
             q == SubSeq(e, 1, i - 1)
  <2>2. p \in Seq(Lines) /\ Len(p) = i + k - 2 /\ k - 1 \in 0..Len(p)
    <3>1. i + k - 2 \in Nat /\ i + k - 2 <= Len(s) /\ k - 1 \in 0..(i + k - 2)
      BY <1>1, <2>1
    <3>2. p \in Seq(Lines) /\ Len(p) = i + k - 2
      BY <3>1
    <3> HIDE DEF p
    <3>3. QED
      BY <3>1, <3>2
  <2>3. q \in Seq(Lines) /\ Len(q) = i - 1
    BY <1>1, <1>2
  <2>4. SubSeq(p, (k - 1) + 1, Len(p)) = q
    <3>1. SubSeq(p, k, i + k - 2) \in Seq(Lines) /\ Len(SubSeq(p, k, i + k - 2)) = i - 1
      BY <2>1
    <3>2. ASSUME NEW m \in 1..(i - 1)
          PROVE  SubSeq(p, k, i + k - 2)[m] = s[m + k - 1] /\ q[m] = s[m + k - 1]
      <4>1. m + k - 1 \in 1..Len(s) /\ m + k - 1 \in 1..(i + k - 2) /\ m \in 1..Len(e)
        BY <1>1, <2>1
      <4>2. q[m] = e[m] /\ e[m] = s[m + k - 1]
        BY <1>1, <4>1
      <4>3. p[m + k - 1] = s[m + k - 1]
        BY <4>1
      <4> HIDE DEF p
      <4>4. SubSeq(p, k, i + k - 2)[m] = p[m + k - 1]
        BY <2>2, <4>1
      <4>5. QED
        BY <4>2, <4>3, <4>4
    <3> HIDE DEF p, q, e
    <3>3. SubSeq(p, k, i + k - 2) = q
      BY <2>3, <3>1, <3>2, SeqEqual
    <3>4. (k - 1) + 1 = k
      BY <1>1
    <3>5. QED
      BY <2>2, <3>3, <3>4
  <2> HIDE DEF p, q, e
  <2>5. /\ Bytes(p) = Bytes(SubSeq(p, 1, k - 1)) + Bytes(SubSeq(p, (k - 1) + 1, Len(p)))
        /\ Bytes(SubSeq(p, 1, k - 1)) \in Nat
        /\ Bytes(SubSeq(p, (k - 1) + 1, Len(p))) \in Nat
    BY <2>2, BytesSplit
  <2>6. \A a, b, c : a = b + c /\ b \in Nat /\ c \in Nat => a \in Nat /\ c <= a
    OBVIOUS
  <2>7. Bytes(p) \in Nat /\ Bytes(q) \in Nat /\ Bytes(q) <= Bytes(p)
    BY <2>4, <2>5, <2>6
  <2>8. (i + k - 1) - 1 = i + k - 2
    BY <1>1
  <2>9. Start(s, i + k - 1) = Bytes(p) /\ Start(e, i) = Bytes(q)
    BY <2>8 DEF Start, p, q
  <2>10. QED
    BY <2>1, <2>7, <2>9
<1>3. QED
  BY <1>1, <1>2

\* So an end is in order when the whole is, and holds nothing older for a request.
LEMMA EndOrdered ==
  ASSUME NEW s \in Seq(Lines), NEW k \in 2..Len(s) + 2, NEW e, e = SubSeq(s, k, Len(s))
  PROVE  /\ e \in Seq(Lines)
         /\ \A m : Known(s, m) => Known(e, m)
         /\ Rising(s) => Rising(e)
         /\ \A t : Precede(s, t) => Precede(e, t)
         /\ \A r \in Reads : Ahead(r, s) => Ahead(r, e)
<1>1. e \in Seq(Lines)
  BY EndStarts
<1>2. \A i \in 1..Len(e) : /\ i + k - 1 \in 1..Len(s)
                           /\ e[i] = s[i + k - 1]
                           /\ Start(e, i) \in Nat /\ Start(s, i + k - 1) \in Nat
                           /\ Start(e, i) <= Start(s, i + k - 1)
  BY EndStarts
<1>3. \A i, j \in 1..Len(e) : i < j => i + k - 1 < j + k - 1
  BY <1>1
<1>4. ASSUME NEW m, Known(s, m) PROVE Known(e, m)
  BY <1>2, <1>4 DEF Known
<1>5. ASSUME Rising(s) PROVE Rising(e)
  BY <1>2, <1>3, <1>5 DEF Rising
<1>6. ASSUME NEW t, Precede(s, t) PROVE Precede(e, t)
  BY <1>2, <1>6 DEF Precede
<1>7. ASSUME NEW r \in Reads, Ahead(r, s) PROVE Ahead(r, e)
  <2>1. r.pos \in Nat
    BY DEF Reads
  <2>2. ASSUME NEW i \in 1..Len(e), Start(e, i) >= r.pos PROVE Start(s, i + k - 1) >= r.pos
    BY <1>2, <2>1, <2>2
  <2>3. QED
    BY <1>2, <1>7, <2>2 DEF Ahead
<1>8. QED
  BY <1>1, <1>4, <1>5, <1>6, <1>7

\* What is appended to the file does not move the lines that are there.
LEMMA StartJoined ==
  ASSUME NEW f \in Seq(Lines), NEW b \in Seq(Lines), NEW i \in 1..Len(f)
  PROVE  Start(f \o b, i) = Start(f, i)
<1>1. CASE i = 1
  <2>1. SubSeq(f \o b, 1, i - 1) = <<>> /\ SubSeq(f, 1, i - 1) = <<>>
    BY <1>1, SubSeqEmpty
  <2>2. QED
    BY <2>1 DEF Start
<1>2. CASE i # 1
  <2>1. 1 \in 1..Len(f) /\ i - 1 \in 1..Len(f)
    BY <1>2
  <2>2. SubSeq(f \o b, 1, i - 1) = SubSeq(f, 1, i - 1)
    BY <2>1, SubSeqOfConcat1
  <2>3. QED
    BY <2>2 DEF Start
<1>3. QED
  BY <1>1, <1>2

\* Some lines have moved from the front of the buffer b to the end of the file f.
Moves(f, b, g, c) == \E k \in 0..Len(b) : g = f \o SubSeq(b, 1, k) /\ c = SubSeq(b, k + 1, Len(b))

\* That leaves both in order.
LEMMA MovedOrdered ==
  ASSUME NEW f \in Seq(Lines), NEW b \in Seq(Lines), NEW g, NEW c, Moves(f, b, g, c)
  PROVE  /\ \A m : Known(f, m) /\ Known(b, m) => Known(g, m) /\ Known(c, m)
         /\ Rising(f) /\ Rising(b) /\ Precede(f, b) => Rising(g) /\ Rising(c) /\ Precede(g, c)
         /\ \A t : Precede(t, b) => Precede(t, c)
         /\ \A r \in Reads : \A m : Ahead(r, f) /\ Past(r, b, m) => Ahead(r, g) /\ Past(r, c, m)
<1>0. PICK k \in 0..Len(b) : g = f \o SubSeq(b, 1, k) /\ c = SubSeq(b, k + 1, Len(b))
  BY DEF Moves
<1> DEFINE n == Len(f)
<1>1. /\ n \in Nat /\ k \in Nat /\ Len(b) \in Nat
      /\ Len(g) = n + k /\ Len(c) = Len(b) - k
      /\ \A i \in 1..n : g[i] = f[i]
      /\ \A i \in 1..k : g[i + n] = b[i]
      /\ \A i \in 1..Len(c) : i + k \in 1..Len(b) /\ c[i] = b[i + k]
  <2> DEFINE a == SubSeq(b, 1, k)
  <2>1. a \in Seq(Lines) /\ Len(a) = k /\ \A i \in 1..k : a[i] = b[i]
    OBVIOUS
  <2>2. Len(c) = Len(b) - k /\ \A i \in 1..Len(c) : i + k \in 1..Len(b) /\ c[i] = b[i + k]
    BY <1>0
  <2>3. g = f \o a /\ n \in Nat /\ k \in Nat /\ Len(b) \in Nat
    BY <1>0
  <2> HIDE DEF a
  <2>4. /\ Len(f \o a) = Len(f) + Len(a)
        /\ \A i \in 1..Len(f) + Len(a) : (f \o a)[i] = IF i <= Len(f) THEN f[i] ELSE a[i - Len(f)]
    BY <2>1, ConcatProperties
  <2>5. \A i \in 1..k : i + n \in 1..n + k /\ ~(i + n <= n) /\ (i + n) - n = i
    BY <2>3
  <2>6. \A i \in 1..n : i \in 1..n + k /\ i <= n
    BY <2>3
  <2>7. Len(g) = n + k
    BY <2>1, <2>3, <2>4
  <2>8. \A i \in 1..n : g[i] = f[i]
    BY <2>1, <2>3, <2>4, <2>6
  <2>9. \A i \in 1..k : g[i + n] = b[i]
    BY <2>1, <2>3, <2>4, <2>5
  <2>10. QED
    BY <2>2, <2>3, <2>7, <2>8, <2>9
<1>2. \A i \in 1..Len(g) : i \in 1..n \/ (i - n \in 1..k /\ i - n \in 1..Len(b) /\ g[i] = b[i - n])
  <2>1. ASSUME NEW i \in 1..Len(g), i > n PROVE i - n \in 1..k /\ i - n \in 1..Len(b) /\ (i - n) + n = i
    BY <1>1, <2>1
  <2>2. QED
    BY <1>1, <2>1
<1> HIDE DEF n
<1>3. ASSUME NEW m, Known(f, m), Known(b, m) PROVE Known(g, m) /\ Known(c, m)
  BY <1>1, <1>2, <1>3 DEF Known, n
<1>4. ASSUME Rising(f), Rising(b), Precede(f, b) PROVE Rising(g)
  <2> SUFFICES ASSUME NEW i \in 1..Len(g), NEW j \in 1..Len(g), i < j PROVE g[i].n < g[j].n
    BY DEF Rising
  <2>1. CASE i \in 1..n /\ j \in 1..n
    BY <1>1, <1>4, <2>1 DEF Rising, n
  <2>2. CASE i \in 1..n /\ j - n \in 1..Len(b) /\ g[j] = b[j - n]
    BY <1>1, <1>4, <2>2 DEF Precede, n
  <2>3. CASE i - n \in 1..Len(b) /\ g[i] = b[i - n] /\ j - n \in 1..Len(b) /\ g[j] = b[j - n]
    <3>1. i - n < j - n
      BY <1>1
    <3>2. QED
      BY <1>4, <2>3, <3>1 DEF Rising
  <2>4. ~(i \notin 1..n /\ j \in 1..n)
    BY <1>1
  <2>5. QED
    BY <1>2, <2>1, <2>2, <2>3, <2>4
<1>5. ASSUME Rising(b) PROVE Rising(c)
  <2>1. \A i, j \in 1..Len(c) : i < j => i + k < j + k
    BY <1>1
  <2>2. QED
    BY <1>1, <1>5, <2>1 DEF Rising
<1>6. ASSUME Rising(b), Precede(f, b) PROVE Precede(g, c)
  <2> SUFFICES ASSUME NEW i \in 1..Len(g), NEW j \in 1..Len(c) PROVE g[i].n < c[j].n
    BY DEF Precede
  <2>1. CASE i \in 1..n
    BY <1>1, <1>6, <2>1 DEF Precede, n
  <2>2. CASE i - n \in 1..k /\ i - n \in 1..Len(b) /\ g[i] = b[i - n]
    <3>1. i - n < j + k
      BY <1>1, <2>2
    <3>2. QED
      BY <1>1, <1>6, <2>2, <3>1 DEF Rising
  <2>3. QED
    BY <1>2, <2>1, <2>2
<1>7. ASSUME NEW t, Precede(t, b) PROVE Precede(t, c)
  BY <1>1, <1>7 DEF Precede
<1>8. ASSUME NEW r \in Reads, NEW m, Ahead(r, f), Past(r, b, m) PROVE Ahead(r, g) /\ Past(r, c, m)
  <2>1. Past(r, c, m)
    BY <1>1, <1>8 DEF Past
  <2>2. ASSUME NEW i \in 1..Len(g), Start(g, i) >= r.pos, NEW x \in Shown(r) PROVE x < g[i].n
    <3>1. CASE i \in 1..n
      <4>1. SubSeq(b, 1, k) \in Seq(Lines)
        OBVIOUS
      <4>2. Start(g, i) = Start(f, i)
        BY <1>0, <3>1, <4>1, StartJoined DEF n
      <4>3. QED
        BY <1>1, <1>8, <2>2, <3>1, <4>2 DEF Ahead, n
    <3>2. CASE i - n \in 1..Len(b) /\ g[i] = b[i - n]
      BY <1>8, <2>2, <3>2 DEF Past
    <3>3. QED
      BY <1>2, <3>1, <3>2
  <2>3. QED
    BY <2>1, <2>2 DEF Ahead
<1>9. QED
  BY <1>3, <1>4, <1>5, <1>6, <1>7, <1>8

\* A step that adds nothing to file and buffer, and nothing to what is kept, leaves the order.
LEMMA OrderKept ==
  ASSUME TypeOK, Ordered, Following,
         Newest \in Int, Newest' \in Int, Newest <= Newest',
         file' = file \/ file' = <<>>, buf' = buf \/ buf' = <<>>, keep' = keep \/ keep' = <<>>,
         rec' \in {"append", "clear", "wipe"} => cur'.n = out' /\ cur'.size > 0,
         lock' # "free" /\ step' = "rewrite" => file' = <<>>,
         lock' # "free" /\ step' = "truncate" =>
            keep' = <<>> \/ (keep' = keep /\ file' = file /\ lock # "free" /\ step = "truncate"),
         lock' # "free" /\ step' = "rewrite" =>
            keep' = <<>> \/ (keep' = keep /\ lock # "free" /\ step \in {"truncate", "rewrite"}),
         \A h \in Readers : SameRead(hist'[h], hist[h])
  PROVE  Ordered' /\ Following'
<1>1. file \in Seq(Lines) /\ buf \in Seq(Lines) /\ keep \in Seq(Lines) /\ hist \in [Readers -> Reads]
  BY DEF TypeOK
<1>2. Len(<<>>) = 0 /\ 1..0 = {}
  OBVIOUS
<1>a. ASSUME NEW s \in Seq(Lines), Known(s, Newest) PROVE Known(s, Newest')
  <2>1. \A i \in 1..Len(s) : s[i].n \in Nat
    <3>1. \A i \in 1..Len(s) : s[i] \in Lines
      BY ElementOfSeq
    <3>2. QED
      BY <3>1 DEF Lines
  <2>2. QED
    BY <1>a, <2>1 DEF Known
<1>b. Known(<<>>, Newest') /\ Rising(<<>>) /\ \A t : Precede(<<>>, t) /\ Precede(t, <<>>)
  BY <1>2 DEF Known, Rising, Precede
<1>3. Ordered'
  <2>1. Known(file', Newest') /\ Known(keep', Newest') /\ Known(buf', Newest')
    BY <1>1, <1>a, <1>b DEF Ordered
  <2>2. Rising(file') /\ Rising(keep') /\ Rising(buf')
    BY <1>b DEF Ordered
  <2>3. Precede(file', buf') /\ Precede(keep', buf')
    BY <1>b DEF Ordered
  <2>4. QED
    BY <2>1, <2>2, <2>3 DEF Ordered
<1>4. KeepsEnd'
  <2> SUFFICES ASSUME lock' # "free", step' = "truncate"
               PROVE  \E k \in 2..Len(file') + 2 : keep' = SubSeq(file', k, Len(file'))
    BY DEF KeepsEnd
  <2>1. CASE keep' = <<>>
    <3>1. Len(file') \in Nat
      BY <1>1, <1>2
    <3>2. SubSeq(file', Len(file') + 2, Len(file')) = <<>>
      BY <3>1, SubSeqEmpty
    <3>3. Len(file') + 2 \in 2..Len(file') + 2
      BY <3>1
    <3>4. QED
      BY <2>1, <3>2, <3>3
  <2>2. CASE keep' = keep /\ file' = file /\ lock # "free" /\ step = "truncate"
    BY <2>2 DEF Following, KeepsEnd
  <2>3. QED
    BY <2>1, <2>2
<1>5. ASSUME NEW h \in Readers PROVE Delivered(hist[h])'
  <2> DEFINE r == hist[h]
             q == hist'[h]
  <2>1. r \in Reads /\ SameRead(q, r) /\ Delivered(r)
    BY <1>1 DEF Following
  <2> HIDE DEF r, q
  <2>2. \A s : Ahead(r, s) => Ahead(q, s)
    BY <2>1, SameShown
  <2>3. Ahead(q, <<>>)
    BY <1>2 DEF Ahead
  <2>4. Past(r, buf, Newest) => Past(q, buf', Newest')
    <3>1. \A x \in Shown(r) : x \in Nat
      BY <2>1, ShownTyped
    <3>2. Shown(q) = Shown(r)
      BY <2>1, SameShown
    <3>3. QED
      BY <1>2, <3>1, <3>2 DEF Past
  <2>5. Ahead(q, file')
    BY <2>1, <2>2, <2>3 DEF Delivered
  <2>6. lock' # "free" /\ step' \in {"truncate", "rewrite"} => Ahead(q, keep')
    BY <2>1, <2>2, <2>3 DEF Delivered
  <2>7. InOrder(q)
    BY <2>1, SameShown DEF Delivered
  <2>8. QED
    BY <2>1, <2>4, <2>5, <2>6, <2>7 DEF Delivered, q
<1>6. QED
  BY <1>3, <1>4, <1>5 DEF Following

\* What a request does next is no part of what it has delivered.
LEMMA OnlyPc ==
  ASSUME hist \in [Readers -> Reads], NEW d \in Readers, NEW next, hist' = [hist EXCEPT ![d].pc = next]
  PROVE  \A h \in Readers : SameRead(hist'[h], hist[h])
BY DEF Reads, SameRead

\* A write to the file moves lines from the front of the buffer, as many as it manages.
LEMMA MovesLines ==
  ASSUME TypeOK, Spill \/ Flush
  PROVE  /\ Moves(file, buf, file', buf')
         /\ lock # "free" /\ step \in {"spill", "flush"}
         /\ UNCHANGED <<keep, cur, out>>
         /\ rec' = rec \/ rec' = "read"
         /\ lock' # "free" => step' \in {"flush", "sync"}
         /\ \A h \in Readers : SameRead(hist'[h], hist[h])
<1>1. file \in Seq(Lines) /\ buf \in Seq(Lines) /\ hist \in [Readers -> Reads]
  BY DEF TypeOK
<1>2. CASE Spill
  <2>0. Len(buf) \in Nat \ {0}
    BY <1>1, <1>2 DEF Spill
  <2>1. Len(buf) - 1 \in 0..Len(buf) /\ Front(buf) = SubSeq(buf, 1, Len(buf) - 1)
    BY <2>0 DEF Front
  <2>2. SubSeq(buf, (Len(buf) - 1) + 1, Len(buf)) = <<Last(buf)>>
    <3> DEFINE e == SubSeq(buf, (Len(buf) - 1) + 1, Len(buf))
    <3>1. /\ e \in Seq(Lines)
          /\ Len(e) = 1
          /\ e[1] = buf[Len(buf)]
      BY <1>1, <2>0
    <3>2. /\ <<buf[Len(buf)]>> \in Seq(Lines) /\ Len(<<buf[Len(buf)]>>) = 1
          /\ <<buf[Len(buf)]>>[1] = buf[Len(buf)]
      BY <1>1, <2>0
    <3>3. SubSeq(buf, (Len(buf) - 1) + 1, Len(buf)) = <<buf[Len(buf)]>>
      <4> HIDE DEF e
      <4>1. e = <<buf[Len(buf)]>>
        BY <3>1, <3>2, SeqEqual
      <4>2. QED
        BY <4>1, Zenon DEF e
    <3>4. QED
      BY <3>3, Zenon DEF Last
  <2>3. QED
    BY <1>2, <2>1, <2>2 DEF Spill, Moves, SameRead
<1>3. CASE Flush
  <2>1. \E k \in 0..Len(buf) : /\ file' = file \o SubSeq(buf, 1, k)
                               /\ buf' = SubSeq(buf, k + 1, Len(buf))
    <3>1. CASE file' = file \o buf /\ buf' = <<>>
      <4>1. Len(buf) \in 0..Len(buf) /\ SubSeq(buf, 1, Len(buf)) = buf
        BY <1>1, SubSeqFull
      <4>2. SubSeq(buf, Len(buf) + 1, Len(buf)) = <<>>
        BY <1>1, SubSeqEmpty
      <4>3. QED
        BY <3>1, <4>1, <4>2
    <3>2. CASE UNCHANGED <<file, buf>>
      <4>1. 0 \in 0..Len(buf) /\ SubSeq(buf, 0 + 1, Len(buf)) = buf
        BY <1>1, SubSeqFull
      <4>2. SubSeq(buf, 1, 0) = <<>>
        BY SubSeqEmpty
      <4>3. file \o <<>> = file
        BY <1>1, ConcatEmptySeq
      <4>4. QED
        BY <3>2, <4>1, <4>2, <4>3
    <3>3. QED
      BY <1>3, <3>1, <3>2 DEF Flush
  <2>2. \A h \in Readers : SameRead(hist'[h], hist[h])
    <3>1. \/ UNCHANGED hist
          \/ lock \in Readers /\ \E next : hist' = [hist EXCEPT ![lock].pc = next]
      BY <1>3 DEF Flush, AfterFlush
    <3>2. QED
      BY <1>1, <3>1, OnlyPc DEF SameRead
  <2>3. /\ lock # "free" /\ step \in {"spill", "flush"}
        /\ UNCHANGED <<keep, cur, out>>
        /\ rec' = rec \/ rec' = "read"
        /\ lock' # "free" => step' \in {"flush", "sync"}
    BY <1>3 DEF Flush, AfterFlush
  <2>4. QED
    BY <2>1, <2>2, <2>3 DEF Moves
<1>4. QED
  BY <1>2, <1>3

\* The newest line there can be only gets newer.
LEMMA NewestGrows ==
  ASSUME TypeOK, TypeOK', Next
  PROVE  Newest \in Int /\ Newest' \in Int /\ Newest <= Newest'
<1>1. out \in Nat /\ out' \in Nat
  BY TranscriptAssumption DEF TypeOK, TranscriptAssumption
<1>2. ASSUME out' = out, rec' \in {"append", "clear", "wipe"} => rec \in {"append", "clear", "wipe"}
      PROVE  Newest <= Newest'
  BY <1>1, <1>2 DEF Newest
<1>3. Record => Newest <= Newest'
  BY <1>1 DEF Record, Newest
<1>4. Clear \/ AppendLine \/ Timer \/ ExitFlush => Newest <= Newest'
  BY <1>2 DEF Clear, AppendLine, Timer, ExitFlush
<1>5. Spill \/ Flush => Newest <= Newest'
  <2>1. Spill \/ Flush => UNCHANGED out /\ (rec' = rec \/ rec' = "read")
    BY DEF Spill, Flush, AfterFlush
  <2>2. QED
    BY <1>2, <2>1
<1>6. ASSUME NEW ok \in BOOLEAN, NEW gone, AfterFlush(ok, gone) PROVE rec' \in {"append", "clear", "wipe"} => rec \in {"append", "clear", "wipe"}
  BY <1>6 DEF AfterFlush
<1>7. Sync \/ EnforceCap => Newest <= Newest'
  BY <1>2, <1>6 DEF Sync, EnforceCap
<1>8. Truncate \/ Rewrite => Newest <= Newest'
  BY <1>2, <1>6 DEF Truncate, Rewrite
<1>9. Resync => Newest <= Newest'
  BY <1>2, <1>6 DEF Resync
<1>10. Stop("exited") \/ Stop("dead") => Newest <= Newest'
  BY <1>2 DEF Stop
<1>11. ASSUME NEW h \in Readers, HistoryBegin(h) \/ HistoryRead(h) PROVE Newest <= Newest'
  BY <1>2, <1>11 DEF HistoryBegin, HistoryRead
<1>12. Newest \in Int /\ Newest' \in Int
  BY <1>1 DEF Newest
<1>13. QED
  BY <1>3, <1>4, <1>5, <1>7, <1>8, <1>9, <1>10, <1>11, <1>12 DEF Next, LockedStep

\* The steps that only forget lines, or change none.
LEMMA OrderQuiet ==
  ASSUME TypeOK, TypeOK', Ordered, Following, Next,
         \/ Record \/ Clear \/ Timer \/ ExitFlush \/ Sync \/ Truncate \/ Resync
         \/ EnforceCap /\ \E ok \in BOOLEAN : AfterFlush(ok, {})
         \/ AppendLine /\ broken
         \/ Stop("exited") \/ Stop("dead")
         \/ \E h \in Readers : HistoryBegin(h)
  PROVE  Ordered' /\ Following'
<1>0. Newest \in Int /\ Newest' \in Int /\ Newest <= Newest'
  BY NewestGrows
<1>1. hist \in [Readers -> Reads]
  BY DEF TypeOK
<1>n. rec \in {"append", "clear", "wipe"} => cur.n = out /\ cur.size > 0
  BY DEF Ordered
<1>e. lock # "free" /\ step = "rewrite" => file = <<>>
  BY DEF Ordered
<1> DEFINE Same == \A h \in Readers : SameRead(hist'[h], hist[h])
<1>2. ASSUME UNCHANGED hist PROVE Same
  BY <1>2 DEF SameRead
<1>3. ASSUME NEW ok \in BOOLEAN, NEW gone, lock # "free", AfterFlush(ok, gone)
      PROVE  /\ Same
             /\ rec' \in {"append", "clear", "wipe"} => rec \in {"append", "clear", "wipe"}
             /\ keep' = keep \/ keep' = <<>>
             /\ lock' # "free" => step' = "truncate" /\ keep' = <<>>
  <2>1. Same
    BY <1>1, <1>3 DEF AfterFlush, Reads, SameRead
  <2>2. QED
    BY <1>3, <2>1 DEF AfterFlush
<1>4. CASE Record
  <2>1. rec' \in {"append", "clear", "wipe"} => cur'.n = out' /\ cur'.size > 0
    BY <1>4, TranscriptAssumption DEF Record, TranscriptAssumption
  <2>2. UNCHANGED <<file, buf, keep, lock, step, hist>>
    BY <1>4 DEF Record
  <2>3. QED
    BY <1>2, <1>0, <1>e, <2>1, <2>2, OrderKept
<1>5. CASE Clear
  <2>1. /\ UNCHANGED <<file, buf, hist, cur, out>>
        /\ rec \in {"append", "clear", "wipe"}
        /\ keep' = keep \/ keep' = <<>>
        /\ lock' # "free" => step' = "flush" \/ (step' = "truncate" /\ keep' = <<>>)
    BY <1>5 DEF Clear, Acquire
  <2>2. QED
    BY <1>2, <1>0, <1>n, <2>1, OrderKept
<1>6. CASE Timer \/ ExitFlush
  <2>1. /\ UNCHANGED <<file, buf, keep, hist, cur, out, rec>>
        /\ lock' # "free" => step' = "flush"
    BY <1>6 DEF Timer, ExitFlush, Acquire
  <2>2. QED
    BY <1>2, <1>0, <1>n, <2>1, OrderKept
<1>7. CASE Sync
  <2>1. UNCHANGED <<file, buf, cur, out>> /\ lock # "free"
    BY <1>7 DEF Sync
  <2>2. /\ Same
        /\ rec' \in {"append", "clear", "wipe"} => rec \in {"append", "clear", "wipe"}
        /\ keep' = keep \/ keep' = <<>>
        /\ lock' # "free" => step' = "cap" \/ (step' = "truncate" /\ keep' = <<>>)
    <3>1. CASE step' = "cap" /\ UNCHANGED <<rec, keep, hist>>
      BY <1>2, <3>1
    <3>2. CASE AfterFlush(FALSE, {})
      BY <1>3, <2>1, <3>2
    <3>3. QED
      BY <1>7, <3>1, <3>2 DEF Sync
  <2>3. QED
    BY <1>2, <1>0, <1>n, <2>1, <2>2, OrderKept
<1>8. CASE Truncate
  <2>1. lock # "free" /\ step = "truncate" /\ UNCHANGED <<buf, cur, out>>
    BY <1>8 DEF Truncate
  <2>2. CASE file' = <<>> /\ step' = "rewrite" /\ UNCHANGED <<keep, lock, hist, rec>>
    BY <1>2, <1>0, <1>n, <2>1, <2>2, OrderKept
  <2>3. CASE UNCHANGED file /\ AfterFlush(FALSE, {})
    <3>1. /\ Same
          /\ rec' \in {"append", "clear", "wipe"} => rec \in {"append", "clear", "wipe"}
          /\ keep' = keep \/ keep' = <<>>
          /\ lock' # "free" => step' = "truncate" /\ keep' = <<>>
      BY <1>3, <2>1, <2>3
    <3>2. QED
      BY <1>0, <1>n, <2>1, <2>3, <3>1, OrderKept
  <2>4. QED
    BY <1>8, <2>2, <2>3 DEF Truncate, Truncated
<1>9. CASE Resync
  <2>1. UNCHANGED <<file, cur, out>> /\ lock # "free" /\ step = "resync" /\ (buf' = <<>> \/ buf' = buf)
    BY <1>9 DEF Resync
  <2>2. CASE rec = "wipe" /\ lock' = "free" /\ UNCHANGED <<step, keep, hist, daemon>>
    BY <1>2, <1>0, <1>n, <2>1, <2>2, OrderKept
  <2>3. ASSUME NEW ok \in BOOLEAN, AfterFlush(ok, {}) PROVE Ordered' /\ Following'
    <3>1. /\ Same
          /\ rec' \in {"append", "clear", "wipe"} => rec \in {"append", "clear", "wipe"}
          /\ keep' = keep \/ keep' = <<>>
          /\ lock' # "free" => step' = "truncate" /\ keep' = <<>>
      BY <1>3, <2>1, <2>3
    <3>2. QED
      BY <1>0, <1>n, <2>1, <3>1, OrderKept
  <2>4. QED
    BY <1>9, <2>2, <2>3 DEF Resync
<1>10. ASSUME EnforceCap, NEW ok \in BOOLEAN, AfterFlush(ok, {}) PROVE Ordered' /\ Following'
  <2>1. UNCHANGED <<file, buf, cur, out>> /\ lock # "free"
    BY <1>10 DEF EnforceCap
  <2>2. /\ Same
        /\ rec' \in {"append", "clear", "wipe"} => rec \in {"append", "clear", "wipe"}
        /\ keep' = keep \/ keep' = <<>>
        /\ lock' # "free" => step' = "truncate" /\ keep' = <<>>
    BY <1>3, <1>10, <2>1
  <2>3. QED
    BY <1>0, <1>n, <2>1, <2>2, OrderKept
<1>11. CASE AppendLine /\ broken
  <2>1. UNCHANGED <<file, buf, keep, hist, cur, out, lock>> /\ lock = "free" /\ rec' = "read"
    BY <1>11 DEF AppendLine
  <2>2. QED
    BY <1>2, <1>0, <2>1, OrderKept
<1>12. CASE Stop("exited") \/ Stop("dead")
  <2>1. UNCHANGED <<file, buf, keep, cur, out, lock, step, rec>>
    BY <1>12 DEF Stop
  <2>2. Same
    BY <1>1, <1>12 DEF Stop, Reads, SameRead
  <2>3. QED
    BY <1>0, <1>n, <1>e, <2>1, <2>2, OrderKept
<1>13. ASSUME NEW h \in Readers, HistoryBegin(h) PROVE Ordered' /\ Following'
  <2>1. UNCHANGED <<file, buf, keep, cur, out, rec>>
    BY <1>13 DEF HistoryBegin
  <2>2. UNCHANGED <<lock, step>> \/ step' = "flush"
    BY <1>13 DEF HistoryBegin, Acquire
  <2>3. Same
    <3>1. \E next : hist' = [hist EXCEPT ![h].pc = next]
      BY <1>13 DEF HistoryBegin
    <3>2. QED
      BY <1>1, <3>1, OnlyPc
  <2>4. QED
    BY <1>0, <1>n, <1>e, <2>1, <2>2, <2>3, OrderKept
<1>14. QED
  BY <1>4, <1>5, <1>6, <1>7, <1>8, <1>9, <1>10, <1>11, <1>12, <1>13

\* A line appended to the buffer is newer than all before it, and than all that was delivered.
LEMMA OrderAppend ==
  ASSUME TypeOK, TypeOK', Ordered, Following, AppendLine, ~broken
  PROVE  Ordered' /\ Following'
<1>1. /\ file \in Seq(Lines) /\ buf \in Seq(Lines) /\ keep \in Seq(Lines)
      /\ hist \in [Readers -> Reads] /\ cur \in Lines /\ out \in Nat
  BY TranscriptAssumption DEF TypeOK, TranscriptAssumption
<1>2. /\ buf' = Append(buf, cur) /\ UNCHANGED <<file, keep, hist, out, cur>>
      /\ rec = "append" /\ rec' \notin {"append", "clear", "wipe"}
      /\ lock' # "free" => step' \in {"flush", "spill"}
  BY DEF AppendLine
<1>3. cur.n = out /\ cur.size > 0 /\ Newest = out - 1 /\ Newest' = out
  BY <1>2 DEF Ordered, Newest
<1>4. /\ Len(buf') = Len(buf) + 1 /\ Len(buf) \in Nat
      /\ \A i \in 1..Len(buf) : buf'[i] = buf[i]
      /\ \A i \in 1..Len(buf') : i \in 1..Len(buf) \/ buf'[i] = cur
      /\ \A i, j \in 1..Len(buf') : i < j => i \in 1..Len(buf)
  BY <1>1, <1>2
<1>a. ASSUME NEW s \in Seq(Lines), Known(s, Newest)
      PROVE  \A i \in 1..Len(s) : s[i].n <= out /\ s[i].n < out /\ s[i].size > 0
  <2>1. \A i \in 1..Len(s) : s[i] \in Lines
    BY ElementOfSeq
  <2>2. \A i \in 1..Len(s) : s[i].n \in Nat
    BY <2>1 DEF Lines
  <2>3. \A i \in 1..Len(s) : s[i].n <= out - 1 /\ s[i].size > 0
    BY <1>3, <1>a DEF Known
  <2>4. \A n \in Nat : n <= out - 1 => n <= out /\ n < out
    BY <1>1
  <2>5. QED
    BY <2>2, <2>3, <2>4
<1>5. Known(file, out) /\ Known(keep, out) /\ Known(buf, out)
  BY <1>1, <1>a DEF Known, Ordered
<1>6. \A s \in Seq(Lines) : Known(s, Newest) => \A i \in 1..Len(s) : s[i].n < cur.n
  BY <1>3, <1>a
<1>7. Known(buf', out)
  <2>1. cur.n <= out /\ cur.size > 0
    BY <1>1, <1>3
  <2>2. QED
    BY <1>4, <1>5, <2>1 DEF Known
<1>8. Rising(buf')
  <2> SUFFICES ASSUME NEW i \in 1..Len(buf'), NEW j \in 1..Len(buf'), i < j PROVE buf'[i].n < buf'[j].n
    BY DEF Rising
  <2>1. i \in 1..Len(buf) /\ buf'[i] = buf[i]
    BY <1>4
  <2>2. CASE j \in 1..Len(buf)
    BY <1>4, <2>1, <2>2 DEF Ordered, Rising
  <2>3. CASE buf'[j] = cur
    BY <1>1, <1>6, <2>1, <2>3 DEF Ordered
  <2>4. QED
    BY <1>4, <2>2, <2>3
<1>9. ASSUME NEW s \in Seq(Lines), Known(s, Newest), Precede(s, buf) PROVE Precede(s, buf')
  BY <1>4, <1>6, <1>9 DEF Precede
<1>10. Ordered'
  <2>1. Known(file', Newest') /\ Known(keep', Newest') /\ Known(buf', Newest')
    BY <1>2, <1>3, <1>5, <1>7
  <2>2. Rising(file') /\ Rising(keep') /\ Rising(buf')
    BY <1>2, <1>8 DEF Ordered
  <2>3. Precede(file', buf') /\ Precede(keep', buf')
    BY <1>1, <1>2, <1>9 DEF Ordered
  <2>4. QED
    BY <1>2, <2>1, <2>2, <2>3 DEF Ordered
<1>11. ASSUME NEW h \in Readers PROVE Delivered(hist[h])'
  <2> DEFINE r == hist[h]
  <2>1. r \in Reads /\ Delivered(r) /\ hist'[h] = r
    BY <1>1, <1>2 DEF Following
  <2>2. \A x \in Shown(r) : x \in Nat
    BY <2>1, ShownTyped
  <2> HIDE DEF r
  <2>3. Past(r, buf', out)
    <3>1. \A x \in Shown(r) : x <= Newest
      BY <2>1 DEF Delivered, Past
    <3>2. \A x \in Shown(r) : x <= out /\ x < cur.n
      BY <1>1, <1>3, <2>2, <3>1
    <3>3. QED
      BY <1>4, <2>1, <3>2 DEF Delivered, Past
  <2>4. QED
    BY <1>2, <1>3, <2>1, <2>3 DEF Delivered
<1>12. KeepsEnd'
  BY <1>2 DEF KeepsEnd
<1>13. QED
  BY <1>10, <1>11, <1>12 DEF Following

\* Lines that move from the buffer to the file stay behind the file and newer than what was delivered.
LEMMA OrderMoved ==
  ASSUME TypeOK, TypeOK', Ordered, Following, Next, Spill \/ Flush
  PROVE  Ordered' /\ Following'
<1>1. /\ file \in Seq(Lines) /\ buf \in Seq(Lines) /\ keep \in Seq(Lines)
      /\ file' \in Seq(Lines) /\ buf' \in Seq(Lines)
      /\ hist \in [Readers -> Reads]
  BY DEF TypeOK
<1>2. Moves(file, buf, file', buf')
  BY MovesLines
<1>3. /\ UNCHANGED <<keep, cur, out>>
      /\ rec' = rec \/ rec' = "read"
      /\ lock' # "free" => step' \in {"flush", "sync"}
      /\ \A h \in Readers : SameRead(hist'[h], hist[h])
  BY MovesLines
<1>4. Newest \in Int /\ Newest' \in Int /\ Newest <= Newest'
  BY NewestGrows
<1>5. /\ \A m : Known(file, m) /\ Known(buf, m) => Known(file', m) /\ Known(buf', m)
      /\ Rising(file) /\ Rising(buf) /\ Precede(file, buf)
           => Rising(file') /\ Rising(buf') /\ Precede(file', buf')
      /\ \A t : Precede(t, buf) => Precede(t, buf')
      /\ \A r \in Reads : \A m : Ahead(r, file) /\ Past(r, buf, m) => Ahead(r, file') /\ Past(r, buf', m)
  BY <1>1, <1>2, MovedOrdered
<1>6. ASSUME NEW s \in Seq(Lines), Known(s, Newest) PROVE Known(s, Newest')
  <2>1. \A i \in 1..Len(s) : s[i] \in Lines
    BY ElementOfSeq
  <2>2. \A i \in 1..Len(s) : s[i].n \in Nat
    BY <2>1 DEF Lines
  <2>3. QED
    BY <1>4, <1>6, <2>2 DEF Known
<1>7. Ordered'
  <2>1. Known(file', Newest') /\ Known(keep', Newest') /\ Known(buf', Newest')
    BY <1>1, <1>3, <1>5, <1>6 DEF Ordered
  <2>2. Rising(file') /\ Rising(keep') /\ Rising(buf') /\ Precede(file', buf') /\ Precede(keep', buf')
    BY <1>3, <1>5 DEF Ordered
  <2>3. rec' \in {"append", "clear", "wipe"} => cur'.n = out' /\ cur'.size > 0
    BY <1>3 DEF Ordered
  <2>4. QED
    BY <1>3, <2>1, <2>2, <2>3 DEF Ordered
<1>8. ASSUME NEW h \in Readers PROVE Delivered(hist[h])'
  <2> DEFINE r == hist[h]
             q == hist'[h]
  <2>1. r \in Reads /\ SameRead(q, r) /\ Delivered(r)
    BY <1>1, <1>3 DEF Following
  <2>2. \A x \in Shown(r) : x \in Nat
    BY <2>1, ShownTyped
  <2> HIDE DEF r, q
  <2>3. Ahead(r, file') /\ Past(r, buf', Newest)
    BY <1>5, <2>1 DEF Delivered
  <2>4. Shown(q) = Shown(r) /\ Ahead(q, file') /\ Past(q, buf', Newest) /\ InOrder(q)
    BY <2>1, <2>3, SameShown DEF Delivered
  <2>5. Past(q, buf', Newest')
    <3>1. \A x \in Shown(q) : x <= Newest'
      BY <1>4, <2>2, <2>4 DEF Past
    <3>2. QED
      BY <2>4, <3>1 DEF Past
  <2>6. QED
    BY <1>3, <2>4, <2>5 DEF Delivered, q
<1>9. KeepsEnd'
  BY <1>3 DEF KeepsEnd
<1>10. QED
  BY <1>7, <1>8, <1>9 DEF Following

LEMMA KnownGrows ==
  ASSUME NEW s \in Seq(Lines), NEW a \in Int, NEW b \in Int, a <= b, Known(s, a)
  PROVE  Known(s, b)
<1>1. \A i \in 1..Len(s) : s[i] \in Lines
  BY ElementOfSeq
<1>2. \A i \in 1..Len(s) : s[i].n \in Nat
  BY <1>1 DEF Lines
<1>3. QED
  BY <1>2 DEF Known

\* What a failed rewrite leaves is in order as the kept lines are, and its lines begin where
\* they do there.
CutOff(s, t) == \E k \in 1..Len(s) : \E piece \in Pieces(s[k]) : t = SubSeq(s, 1, k - 1) \o piece

LEMMA CutOrdered ==
  ASSUME NEW s \in Seq(Lines), NEW t, CutOff(s, t)
  PROVE  /\ t \in Seq(Lines)
         /\ \A m : Known(s, m) => Known(t, m)
         /\ Rising(s) => Rising(t)
         /\ \A b : Precede(s, b) => Precede(t, b)
         /\ \A r : Ahead(r, s) => Ahead(r, t)
<1>0. PICK k \in 1..Len(s) : \E piece \in Pieces(s[k]) : t = SubSeq(s, 1, k - 1) \o piece
  BY DEF CutOff
<1>p. PICK piece \in Pieces(s[k]) : t = SubSeq(s, 1, k - 1) \o piece
  BY <1>0
<1>1. /\ t \in Seq(Lines)
      /\ Len(t) \in {k - 1, k}
      /\ \A i \in 1..(k - 1) : t[i] = s[i]
      /\ \A i \in 1..Len(t) : i \in 1..Len(s) /\ t[i].n = s[i].n /\ (s[i].size > 0 => t[i].size > 0)
  BY <1>p, CutLines
<1>2. ASSUME NEW i \in 1..Len(t) PROVE Start(t, i) = Start(s, i)
  <2>1. i \in 1..Len(s) /\ i - 1 \in 0..(k - 1)
    BY <1>1
  <2>2. SubSeq(t, 1, i - 1) \in Seq(Lines) /\ SubSeq(s, 1, i - 1) \in Seq(Lines)
    BY <1>1, <2>1
  <2>3. Len(SubSeq(t, 1, i - 1)) = i - 1 /\ Len(SubSeq(s, 1, i - 1)) = i - 1
    BY <1>1, <2>1
  <2>4. ASSUME NEW m \in 1..(i - 1) PROVE SubSeq(t, 1, i - 1)[m] = SubSeq(s, 1, i - 1)[m]
    <3>1. m \in 1..(k - 1) /\ m \in 1..Len(t) /\ m \in 1..Len(s)
      BY <1>1, <2>1
    <3>2. SubSeq(t, 1, i - 1)[m] = t[m] /\ SubSeq(s, 1, i - 1)[m] = s[m]
      BY <1>1, <2>1, <3>1
    <3>3. QED
      BY <1>1, <3>1, <3>2
  <2>5. SubSeq(t, 1, i - 1) = SubSeq(s, 1, i - 1)
    BY <2>2, <2>3, <2>4, SeqEqual
  <2>6. QED
    BY <2>5 DEF Start
<1>3. ASSUME NEW m, Known(s, m) PROVE Known(t, m)
  BY <1>1, <1>3 DEF Known
<1>4. ASSUME Rising(s) PROVE Rising(t)
  BY <1>1, <1>4 DEF Rising
<1>5. ASSUME NEW b, Precede(s, b) PROVE Precede(t, b)
  BY <1>1, <1>5 DEF Precede
<1>6. ASSUME NEW r, Ahead(r, s) PROVE Ahead(r, t)
  BY <1>1, <1>2, <1>6 DEF Ahead
<1>7. QED
  BY <1>1, <1>3, <1>4, <1>5, <1>6

LEMMA OrderCut ==
  ASSUME TypeOK, TypeOK', Ordered, Following, Next, Rewrite, NEW k \in 1..Len(keep),
         NEW piece \in Pieces(keep[k]), file' = file \o SubSeq(keep, 1, k - 1) \o piece,
         NEW gone, AfterFlush(FALSE, gone)
  PROVE  Ordered' /\ Following'
<1>1. /\ file \in Seq(Lines) /\ buf \in Seq(Lines) /\ keep \in Seq(Lines)
      /\ hist \in [Readers -> Reads]
  BY DEF TypeOK
<1>2. /\ step = "rewrite" /\ lock # "free" /\ file = <<>>
      /\ UNCHANGED <<buf, cur, out>>
  BY DEF Rewrite, Ordered
<1>3. /\ lock' = "free" /\ keep' = keep
      /\ rec' \in {"append", "clear", "wipe"} => rec \in {"append", "clear", "wipe"}
  BY DEF AfterFlush
<1>4. \A h \in Readers : SameRead(hist'[h], hist[h])
  BY <1>1 DEF AfterFlush, Reads, SameRead
<1>5. Newest \in Int /\ Newest' \in Int /\ Newest <= Newest'
  BY NewestGrows
<1>s. PICK kept : kept = keep
  OBVIOUS
<1>t. PICK t : t = SubSeq(keep, 1, k - 1) \o piece
  OBVIOUS
<1>c. kept \in Seq(Lines) /\ CutOff(kept, t)
  BY <1>1, <1>s, <1>t DEF CutOff
<1>d. /\ t \in Seq(Lines)
      /\ \A m : Known(kept, m) => Known(t, m)
      /\ Rising(kept) => Rising(t)
      /\ \A b : Precede(kept, b) => Precede(t, b)
      /\ \A r : Ahead(r, kept) => Ahead(r, t)
  BY <1>c, CutOrdered
<1>6. t \in Seq(Lines) /\ file' = t
  <2>1. t \in Seq(Lines)
    BY <1>d
  <2>2. SubSeq(keep, 1, k - 1) \in Seq(Lines) /\ piece \in Seq(Lines)
    <3>1. keep[k] \in Lines
      BY <1>1, ElementOfSeq
    <3>2. QED
      BY <1>1, <3>1, PieceTyped
  <2>3. file \o SubSeq(keep, 1, k - 1) = SubSeq(keep, 1, k - 1)
    BY <1>2, <2>2, ConcatEmptySeq
  <2>4. QED
    BY <1>t, <2>1, <2>3
<1>7. /\ \A m : Known(keep, m) => Known(t, m)
      /\ Rising(keep) => Rising(t)
      /\ \A b : Precede(keep, b) => Precede(t, b)
      /\ \A r : Ahead(r, keep) => Ahead(r, t)
  BY <1>s, <1>d
<1>8. ASSUME NEW s \in Seq(Lines), Known(s, Newest) PROVE Known(s, Newest')
  BY <1>5, <1>8, KnownGrows
<1>9. Ordered'
  <2>1. Known(file', Newest') /\ Known(keep', Newest') /\ Known(buf', Newest')
    BY <1>1, <1>2, <1>3, <1>6, <1>7, <1>8 DEF Ordered
  <2>2. Rising(file') /\ Rising(keep') /\ Rising(buf')
    BY <1>2, <1>3, <1>6, <1>7 DEF Ordered
  <2>3. Precede(file', buf') /\ Precede(keep', buf')
    BY <1>2, <1>3, <1>6, <1>7 DEF Ordered
  <2>4. QED
    BY <1>2, <1>3, <2>1, <2>2, <2>3 DEF Ordered
<1>10. ASSUME NEW h \in Readers PROVE Delivered(hist[h])'
  <2> DEFINE r == hist[h]
             q == hist'[h]
  <2>1. r \in Reads /\ SameRead(q, r) /\ Delivered(r)
    BY <1>1, <1>4 DEF Following
  <2>2. \A x \in Shown(r) : x \in Nat
    BY <2>1, ShownTyped
  <2> HIDE DEF r, q
  <2>3. Ahead(r, t)
    BY <1>2, <1>7, <2>1 DEF Delivered
  <2>4. Shown(q) = Shown(r) /\ Ahead(q, file') /\ Past(q, buf', Newest) /\ InOrder(q)
    BY <1>2, <1>6, <2>1, <2>3, SameShown DEF Delivered
  <2>5. Past(q, buf', Newest')
    <3>1. \A x \in Shown(q) : x <= Newest'
      BY <1>5, <2>2, <2>4 DEF Past
    <3>2. QED
      BY <2>4, <3>1 DEF Past
  <2>6. QED
    BY <1>3, <2>4, <2>5 DEF Delivered, q
<1>11. KeepsEnd'
  BY <1>3 DEF KeepsEnd
<1>12. QED
  BY <1>9, <1>10, <1>11 DEF Following

\* The rewrite that a full file begins keeps an end of it; it puts that end in its place.
LEMMA OrderRewritten ==
  ASSUME TypeOK, TypeOK', Ordered, Following, Next, EnforceCap \/ Rewrite
  PROVE  Ordered' /\ Following'
<1>1. /\ file \in Seq(Lines) /\ buf \in Seq(Lines) /\ keep \in Seq(Lines)
      /\ hist \in [Readers -> Reads]
  BY DEF TypeOK
<1>2. CASE EnforceCap /\ keep' = Retained(file) /\ step' = "truncate" /\ UNCHANGED <<rec, lock, hist>>
  <2>1. /\ keep' = Retained(file) /\ step' = "truncate" /\ lock # "free" /\ step = "cap"
        /\ UNCHANGED <<file, buf, lock, hist, rec, cur, out>>
    BY <1>2 DEF EnforceCap
  <2>2. PICK k \in 2..Len(file) + 2 : keep' = SubSeq(file, k, Len(file))
    BY <1>1, <2>1, RetainedIsEnd
  <2>3. /\ Known(file, Newest) => Known(keep', Newest)
        /\ Rising(file) => Rising(keep')
        /\ Precede(file, buf) => Precede(keep', buf)
        /\ \A r \in Reads : Ahead(r, file) => Ahead(r, keep')
    BY <1>1, <2>2, EndOrdered
  <2>4. Newest' = Newest
    BY <2>1 DEF Newest
  <2>5. Ordered'
    BY <2>1, <2>3, <2>4 DEF Ordered
  <2>6. ASSUME NEW h \in Readers PROVE Delivered(hist[h])'
    <3>1. hist[h] \in Reads /\ Delivered(hist[h])
      BY <1>1 DEF Following
    <3>2. QED
      BY <2>1, <2>3, <2>4, <3>1 DEF Delivered
  <2>7. KeepsEnd'
    BY <2>1, <2>2 DEF KeepsEnd
  <2>8. QED
    BY <2>5, <2>6, <2>7 DEF Following
<1>3. CASE EnforceCap /\ \E ok \in BOOLEAN : AfterFlush(ok, {})
  BY <1>3, OrderQuiet
<1>4. CASE Rewrite
  <2>1. /\ step = "rewrite" /\ lock # "free" /\ file = <<>>
        /\ UNCHANGED <<buf, cur, out>>
    BY <1>4 DEF Rewrite, Ordered
  <2>2. CASE file' = file \o keep /\ step' = "resync" /\ UNCHANGED <<rec, lock, keep, hist>>
    <3>1. file' = keep
      BY <1>1, <2>1, <2>2, ConcatEmptySeq
    <3>2. Newest' = Newest
      BY <2>1, <2>2 DEF Newest
    <3>3. Ordered'
      BY <2>1, <2>2, <3>1, <3>2 DEF Ordered
    <3>4. ASSUME NEW h \in Readers PROVE Delivered(hist[h])'
      BY <2>1, <2>2, <3>1, <3>2 DEF Following, Delivered
    <3>5. KeepsEnd'
      BY <2>2 DEF KeepsEnd
    <3>6. QED
      BY <3>3, <3>4, <3>5 DEF Following
  <2>3. ASSUME NEW k \in 1..Len(keep), NEW piece \in Pieces(keep[k]),
               file' = file \o SubSeq(keep, 1, k - 1) \o piece,
               AfterFlush(FALSE, keep[k].n .. Last(keep).n)
        PROVE  Ordered' /\ Following'
    BY <1>4, <2>1, <2>3, OrderCut
  <2>4. QED
    BY <1>4, <2>2, <2>3 DEF Rewrite
<1>5. QED
  BY <1>2, <1>3, <1>4 DEF EnforceCap

\* A line that follows all that was delivered, or stands for two, leaves it in order.
LEMMA Grown ==
  ASSUME NEW q, NEW r, r.got \in Seq(Nat), InOrder(r), NEW b \in Nat,
         \A k \in 1..Len(r.got) : r.got[k] # 0 /\ b # 0 => r.got[k] < b,
         (q.got = Append(r.got, b) /\ q.head = 0) \/ (q.got = r.got /\ q.head = b)
  PROVE  InOrder(q) /\ Shown(q) \subseteq Shown(r) \cup ({b} \ {0})
<1>1. CASE q.got = r.got /\ q.head = b
  BY <1>1 DEF InOrder, Shown
<1>2. CASE q.got = Append(r.got, b) /\ q.head = 0
  <2> DEFINE g == r.got
             p == q.got
  <2>1. /\ Len(p) = Len(g) + 1 /\ Len(g) \in Nat
        /\ \A k \in 1..Len(g) : p[k] = g[k]
        /\ \A k \in 1..Len(p) : k \in 1..Len(g) \/ (k = Len(g) + 1 /\ p[k] = b)
    BY <1>2
  <2>2. \A i, j \in 1..Len(p) : i < j => i \in 1..Len(g)
    BY <2>1
  <2>3. InOrder(q)
    <3> SUFFICES ASSUME NEW i \in 1..Len(p), NEW j \in 1..Len(p), i < j, p[i] # 0, p[j] # 0
                 PROVE  p[i] < p[j]
      BY <1>2 DEF InOrder
    <3>1. i \in 1..Len(g) /\ p[i] = g[i]
      BY <2>1, <2>2
    <3>2. CASE j \in 1..Len(g)
      BY <2>1, <3>1, <3>2 DEF InOrder
    <3>3. CASE p[j] = b
      BY <3>1, <3>3
    <3>4. QED
      BY <2>1, <3>2, <3>3
  <2>4. Shown(q) \subseteq Shown(r) \cup ({b} \ {0})
    <3> SUFFICES ASSUME NEW k \in 1..Len(p), p[k] # 0 PROVE p[k] \in Shown(r) \cup ({b} \ {0})
      BY <1>2 DEF Shown
    <3>1. k \in 1..Len(g) \/ p[k] = b
      BY <2>1
    <3>2. QED
      BY <2>1, <3>1 DEF Shown
  <2>5. QED
    BY <2>3, <2>4
<1>3. QED
  BY <1>1, <1>2

\* A byte that a request takes is of a line that it has begun, or that begins at its position.
LEMMA OrderRead ==
  ASSUME TypeOK, TypeOK', Ordered, Following, Next, NEW h \in Readers, HistoryRead(h)
  PROVE  Ordered' /\ Following'
<1>1. /\ file \in Seq(Lines) /\ buf \in Seq(Lines) /\ keep \in Seq(Lines)
      /\ hist \in [Readers -> Reads] /\ hist' \in [Readers -> Reads]
  BY DEF TypeOK
<1>2. UNCHANGED <<out, rec, cur, file, buf, lock, step, keep>>
  BY DEF HistoryRead
<1>3. Newest' = Newest
  BY <1>2 DEF Newest
<1>4. Ordered'
  BY <1>2, <1>3 DEF Ordered
<1>5. KeepsEnd'
  BY <1>2 DEF Following, KeepsEnd
<1>6. PICK q : /\ hist' = [hist EXCEPT ![h] = q]
               /\ \/ \E i \in LineAt(hist[h].pos) : Joins(hist[h], q, Begun(h, i))
                  \/ Finishes(hist[h], q)
  BY <1>1, ReadSteps
<1> DEFINE r == hist[h]
<1>7. r \in Reads /\ q \in Reads /\ hist'[h] = q /\ Delivered(r) /\ \A g \in Readers \ {h} : hist'[g] = hist[g]
  BY <1>1, <1>6 DEF Following
<1>8. \A x \in Shown(r) : x \in Nat
  BY <1>7, ShownTyped
<1>a. r.got \in Seq(Nat) /\ r.head \in Nat /\ r.pos \in Nat /\ Len(r.got) \in Nat
  BY <1>7 DEF Reads
<1>b. r.head # 0 => r.head \in Shown(r)
  BY DEF Shown
<1>c. \A k \in 1..Len(r.got) : r.got[k] \in Nat /\ (r.got[k] # 0 => r.got[k] \in Shown(r))
  BY <1>a, ElementOfSeq DEF Shown
<1>9. ASSUME Finishes(r, q) PROVE Delivered(q)
  <2>1. CASE \E next \in {"done", "failed"} : q = [r EXCEPT !.pc = next]
    <3>1. SameRead(q, r)
      BY <1>7, <2>1 DEF Reads, SameRead
    <3>2. QED
      BY <1>7, <3>1, SameShown DEF Delivered
  <2>2. CASE q = [r EXCEPT !.pc = "done", !.got = Append(@, r.head), !.head = 0]
    <3>1. q.pos = r.pos /\ q.got = Append(r.got, r.head) /\ q.head = 0
      BY <1>7, <2>2 DEF Reads
    <3>2. /\ InOrder(r)
          /\ \A k \in 1..Len(r.got) : r.got[k] # 0 /\ r.head # 0 => r.got[k] < r.head
      BY <1>7 DEF Delivered, InOrder
    <3>3. InOrder(q) /\ Shown(q) \subseteq Shown(r) \cup ({r.head} \ {0})
      <4> HIDE DEF r
      <4> QED BY <1>a, <3>1, <3>2, Grown
    <3>4. Shown(q) \subseteq Shown(r) /\ InOrder(q)
      BY <1>b, <3>3
    <3>5. QED
      BY <1>7, <3>1, <3>4 DEF Delivered, Ahead, Past
  <2>3. QED
    BY <1>9, <2>1, <2>2 DEF Finishes
<1>10. ASSUME NEW i \in LineAt(hist[h].pos), Joins(hist[h], q, Begun(h, i)) PROVE Delivered(q)
  <2> DEFINE b == Begun(h, i)
             n == file[i].n
  <2>1. /\ i \in 1..Len(file) /\ Start(file, i) <= r.pos
        /\ Within(i, r.pos) = r.pos - Start(file, i)
    BY DEF LineAt, Start, Within
  <2>2. file[i] \in Lines
    BY <1>1, <2>1, ElementOfSeq
  <2>3. n \in Nat /\ file[i].size \in Nat /\ n <= Newest /\ Start(file, i) \in Nat
    BY <1>1, <2>1, <2>2, StartNext DEF Lines, Ordered, Known
  <2>4. b = 0 \/ (b = n /\ (r.head = n \/ Start(file, i) = r.pos))
    <3>1. b = 0 \/ (b = n /\ Within(i, r.pos) = r.fill /\ (r.fill = 0 \/ r.head = n))
      BY DEF Begun
    <3>2. r.fill = 0 /\ Within(i, r.pos) = r.fill => Start(file, i) = r.pos
      BY <1>a, <2>1, <2>3
    <3>3. QED
      BY <3>1, <3>2
  <2>6. \A k \in 1..Len(r.got) : r.got[k] # 0 /\ b # 0 => r.got[k] < b
    <3> SUFFICES ASSUME NEW k \in 1..Len(r.got), r.got[k] # 0, b # 0 PROVE r.got[k] < b
      OBVIOUS
    <3>1. CASE b = n /\ r.head = n
      BY <1>7, <3>1 DEF Delivered, InOrder
    <3>2. CASE b = n /\ Start(file, i) = r.pos
      <4>1. Start(file, i) >= r.pos
        BY <1>a, <2>3, <3>2
      <4>2. QED
        BY <1>7, <1>c, <2>1, <3>2, <4>1 DEF Delivered, Ahead
    <3>3. QED
      BY <2>4, <3>1, <3>2
  <2> HIDE DEF b
  <2>7. q.pos = r.pos + 1 \/ (q.pos = r.pos /\ SameRead(q, r))
    BY <1>7, <1>10 DEF Joins, Reads, SameRead, b
  <2>8. CASE SameRead(q, r)
    BY <1>7, <2>8, SameShown DEF Delivered
  <2>9. CASE q.pos = r.pos + 1
    <3>1. \/ q.got = Append(r.got, b) /\ q.head = 0
          \/ q.got = r.got /\ q.head = b
      <4>1. Joins(r, q, b) /\ r \in Reads
        BY <1>7, <1>10 DEF b
      <4> HIDE DEF r
      <4>2. q.pos # r.pos
        BY <1>a, <2>9
      <4>3. ~(q = [r EXCEPT !.pc = "failed"])
        BY <4>1, <4>2 DEF Reads
      <4>4. CASE q = [r EXCEPT !.pos = @ + 1, !.got = Append(@, b), !.head = 0, !.fill = 0]
        BY <4>1, <4>4 DEF Reads
      <4>5. CASE q = [r EXCEPT !.pos = @ + 1, !.head = b, !.fill = IF b = 0 THEN 1 ELSE @ + 1]
        BY <4>1, <4>5 DEF Reads
      <4>6. QED
        BY <4>1, <4>3, <4>4, <4>5 DEF Joins
    <3>2. b \in Nat
      BY <2>3, <2>4
    <3>3. Shown(q) \subseteq Shown(r) \cup {n} /\ InOrder(q)
      BY <1>7, <1>a, <1>c, <2>4, <2>6, <3>1, <3>2, Grown DEF Delivered
    <3>4. Ahead(q, file)
      <4> SUFFICES ASSUME NEW j \in 1..Len(file), Start(file, j) >= q.pos, NEW x \in Shown(q)
                   PROVE  x < file[j].n
        BY DEF Ahead
      <4>1. Start(file, j) \in Nat
        BY <1>1, StartNext
      <4>2. j > i
        <5> SUFFICES ASSUME j <= i PROVE FALSE
          BY <1>1, <2>1
        <5>1. j \in 1..Len(file) + 1 /\ i \in j..Len(file) + 1
          BY <1>1, <2>1
        <5>2. Start(file, j) <= Start(file, i)
          BY <1>1, <5>1, StartRises
        <5>3. QED
          BY <1>a, <2>1, <2>3, <2>9, <4>1, <5>2
      <4>3. n < file[j].n
        BY <2>1, <4>2 DEF Ordered, Rising
      <4>4. Start(file, j) >= r.pos
        BY <1>a, <2>9, <4>1
      <4>5. x \in Shown(r) => x < file[j].n
        BY <1>7, <4>4 DEF Delivered, Ahead
      <4>6. QED
        BY <3>3, <4>3, <4>5
    <3>5. lock # "free" /\ step \in {"truncate", "rewrite"} => Ahead(q, keep)
      <4>1. CASE lock # "free" /\ step = "truncate"
        <5>1. PICK k \in 2..Len(file) + 2 : keep = SubSeq(file, k, Len(file))
          BY <4>1 DEF Following, KeepsEnd
        <5>2. QED
          BY <1>1, <1>7, <3>4, <5>1, EndOrdered
      <4>2. CASE lock # "free" /\ step = "rewrite"
        <5>1. file = <<>>
          BY <4>2 DEF Ordered
        <5>2. QED
          BY <2>1, <5>1
      <4>3. QED
        BY <4>1, <4>2
    <3>6. Past(q, buf, Newest)
      <4>1. \A j \in 1..Len(buf) : n < buf[j].n
        BY <2>1 DEF Ordered, Precede
      <4>2. Past(r, buf, Newest)
        BY <1>7 DEF Delivered
      <4> HIDE DEF n
      <4>3. QED
        BY <2>3, <3>3, <4>1, <4>2 DEF Past
    <3>7. QED
      BY <3>3, <3>4, <3>5, <3>6 DEF Delivered
  <2>10. QED
    BY <2>7, <2>8, <2>9
<1>11. Delivered(q)
  BY <1>6, <1>9, <1>10
<1>12. \A g \in Readers : Delivered(hist[g])'
  <2>1. Delivered(hist[h])'
    BY <1>2, <1>3, <1>7, <1>11 DEF Delivered
  <2>2. ASSUME NEW g \in Readers \ {h} PROVE Delivered(hist[g])'
    BY <1>2, <1>3, <1>7, <2>2 DEF Following, Delivered
  <2>3. QED
    BY <2>1, <2>2
<1>13. QED
  BY <1>4, <1>5, <1>12 DEF Following

\* Whatever a history request that reads beside flushes, trims and clears delivers is in the
\* order of the output and never twice, for any number of requests and whichever writes, syncs
\* and trims fail: a file only ever loses lines before those it keeps, or an end that was not
\* written, so that what is found at or behind a position was behind it before; only a line
\* that is put together from two is beyond that (writeHistory, rewriteTranscriptLocked).
THEOREM HistoryInOrder == Spec => []HistoryOrdered
<1>1. Init => Ordered /\ Following
  <2> SUFFICES ASSUME Init PROVE Ordered /\ Following
    OBVIOUS
  <2>1. Len(<<>>) = 0 /\ 1..0 = {}
    OBVIOUS
  <2>2. Ordered
    BY <2>1 DEF Init, Ordered, Known, Rising, Precede
  <2>3. KeepsEnd
    BY DEF Init, KeepsEnd
  <2>4. \A h \in Readers : Delivered(hist[h])
    <3>1. \A h \in Readers : Shown(hist[h]) = {} /\ InOrder(hist[h])
      BY <2>1 DEF Init, NoRead, Shown, InOrder
    <3>2. QED
      BY <2>1, <3>1 DEF Init, Delivered, Ahead, Past
  <2>5. QED
    BY <2>2, <2>3, <2>4 DEF Following
<1>2. TypeOK /\ TypeOK' /\ Ordered /\ Following /\ [Next]_vars => Ordered' /\ Following'
  <2> SUFFICES ASSUME TypeOK, TypeOK', Ordered, Following, [Next]_vars PROVE Ordered' /\ Following'
    OBVIOUS
  <2>1. CASE Next
    <3>1. CASE AppendLine
      BY <2>1, <3>1, OrderAppend, OrderQuiet
    <3>2. CASE Spill \/ Flush
      BY <2>1, <3>2, OrderMoved
    <3>3. CASE EnforceCap \/ Rewrite
      BY <2>1, <3>3, OrderRewritten
    <3>4. CASE Record \/ Clear \/ Timer \/ ExitFlush \/ Sync \/ Truncate \/ Resync \/ Stop("exited") \/ Stop("dead")
      BY <2>1, <3>4, OrderQuiet
    <3>5. ASSUME NEW h \in Readers, HistoryBegin(h) PROVE Ordered' /\ Following'
      BY <2>1, <3>5, OrderQuiet
    <3>6. ASSUME NEW h \in Readers, HistoryRead(h) PROVE Ordered' /\ Following'
      BY <2>1, <3>6, OrderRead
    <3>7. QED
      BY <2>1, <3>1, <3>2, <3>3, <3>4, <3>5, <3>6 DEF Next, LockedStep
  <2>2. CASE UNCHANGED vars
    <3>1. UNCHANGED <<out, rec, cur, file, buf, lock, step, keep, hist>>
      BY <2>2 DEF vars
    <3>2. Newest' = Newest
      BY <3>1 DEF Newest
    <3>3. Ordered'
      BY <3>1, <3>2 DEF Ordered
    <3>4. Following'
      BY <3>1, <3>2 DEF Following, KeepsEnd, Delivered
    <3>5. QED
      BY <3>3, <3>4
  <2>3. QED
    BY <2>1, <2>2
<1>3. TypeOK /\ Following => HistoryOrdered
  <2> SUFFICES ASSUME TypeOK, Following, NEW h \in Readers PROVE
               \A i, j \in DOMAIN hist[h].got :
                 i < j /\ hist[h].got[i] # 0 /\ hist[h].got[j] # 0 => hist[h].got[i] < hist[h].got[j]
    BY DEF HistoryOrdered
  <2>1. InOrder(hist[h])
    BY DEF Following, Delivered
  <2>2. hist[h].got \in Seq(Nat)
    BY DEF TypeOK, Reads
  <2>3. DOMAIN hist[h].got = 1..Len(hist[h].got)
    BY <2>2
  <2>4. QED
    BY <2>1, <2>3 DEF InOrder
<1>4. Spec => []TypeOK
  BY TranscriptTypeCorrect
<1>5. QED
  BY <1>1, <1>2, <1>3, <1>4, PTL DEF Spec

-----------------------------------------------------------------------------
(* The connections: DaemonClients.                                         *)

\* A client of the set can be sent to; what is being pinged is in the set; and a
\* connection that has not attached, or waits for addClient, has never been in it.
Members ==
    /\ todo \subseteq clients
    /\ target # NoConn => target \in clients \ todo
    /\ Unlocked => todo = {} /\ target = NoConn
    /\ clientsMu \in Conns => reader[clientsMu] = "lock"
    /\ \A c \in clients : ~sendClosed[c] /\ reader[c] # "add" /\ reply[c] # "none"
    /\ \A c \in Conns :
         /\ reader[c] = "add" => ~sendClosed[c] /\ reply[c] # "none"
         /\ reply[c] = "none" => watch[c] = "watch" /\ (sendClosed[c] => reader[c] = "done")

Stream(c) == got[c] \o queue[c]

\* The events written to a connection and those in its queue are one run, which ends with
\* the latest event as long as the client is in the set.
Streams ==
    \A c \in Conns :
      /\ Contiguous(got[c])
      /\ conn[c] # "closed" =>
           /\ Contiguous(Stream(c))
           /\ c \in clients /\ Stream(c) # <<>> => Stream(c)[Len(Stream(c))] = broadcasts
      /\ reply[c] = "none" \/ reader[c] = "add" => got[c] = <<>> /\ queue[c] = <<>>

ClientsInv == Members /\ Streams /\ NoPanic

-----------------------------------------------------------------------------
(* The types.                                                               *)

\* A write keeps a connection within its limit.
LEMMA PutLineFits ==
  ASSUME ClientsTypeOK, NEW c \in Conns, CanWrite(c), PutLine(c)
  PROVE  pipe' \in [Conns -> 0..PipeLimit]
<1>1. PipeLimit \in Nat
  BY ClientsAssumption
<1>2. pipe[c] \in 0..PipeLimit /\ pipe[c] < PipeLimit
  BY DEF ClientsTypeOK, CanWrite
<1>3. pipe[c] + 1 \in 0..PipeLimit
  BY <1>1, <1>2
<1>4. QED
  BY <1>3 DEF ClientsTypeOK, PutLine

LEMMA InitTypeOK == ClientsInit => ClientsTypeOK
<1>1. ASSUME ClientsInit PROVE ClientsTypeOK
  <2>1. <<>> \in Seq(Nat)
    BY EmptySeq
  <2>2. PipeLimit \in Nat
    BY ClientsAssumption
  <2>3. /\ conn \in [Conns -> {"none", "open", "closed"}]
        /\ peer \in [Conns -> {"live", "silent"}]
        /\ sendClosed \in [Conns -> BOOLEAN]
    BY <1>1 DEF ClientsInit
  <2>4. pipe \in [Conns -> 0..PipeLimit]
    BY <1>1, <2>2 DEF ClientsInit
  <2>5. queue \in [Conns -> Seq(Nat)] /\ got \in [Conns -> Seq(Nat)]
    BY <1>1, <2>1 DEF ClientsInit
  <2>6. /\ reader \in [Conns -> {"none", "scan", "add", "leave", "lock", "respond", "done"}]
        /\ reply \in [Conns -> {"none", "attach"} \cup Leaving]
        /\ watch \in [Conns -> {"watch", "close", "done"}]
    BY <1>1 DEF ClientsInit
  <2>7. /\ clients \subseteq Conns /\ todo \subseteq Conns
        /\ clientsMu \in Conns \cup {NoConn} /\ target \in Conns \cup {NoConn}
        /\ reachable \in Nat /\ broadcasts \in Nat
        /\ daemonPhase \in {"up", "exit", "finished", "panic"} /\ closingRun \in BOOLEAN
    BY <1>1 DEF ClientsInit
  <2>8. QED
    BY <2>3, <2>4, <2>5, <2>6, <2>7 DEF ClientsTypeOK
<1>2. QED
  BY <1>1

\* The requests and responses of one connection keep the types.
LEMMA RequestTypeOK ==
  ASSUME ClientsTypeOK, NEW c \in Conns
  PROVE  /\ Connect(c) \/ (\E name \in Requests : Request(c, name)) => ClientsTypeOK'
         /\ Add(c) \/ Leave(c) \/ Respond(c) \/ ReaderEnds(c) => ClientsTypeOK'
<1>1. ASSUME Connect(c) PROVE ClientsTypeOK'
  BY <1>1 DEF ClientsTypeOK, Connect, Read, sendVars, pingVars, runVars
<1>2. ASSUME NEW name \in Requests, Request(c, name) PROVE ClientsTypeOK'
  BY <1>2 DEF ClientsTypeOK, Request, Requests, Leaving, Read, connVars, sendVars, pingVars
<1>3. ASSUME Add(c) PROVE ClientsTypeOK'
  BY <1>3 DEF ClientsTypeOK, Add, Read, connVars, sendVars, pingVars, runVars
<1>4. ASSUME Leave(c) PROVE ClientsTypeOK'
  BY <1>4 DEF ClientsTypeOK, Leave, Read, connVars, sendVars, pingVars, runVars
<1>5. ASSUME Respond(c) PROVE ClientsTypeOK'
  <2>1. pipe' \in [Conns -> 0..PipeLimit]
    BY <1>5, PutLineFits DEF ClientsTypeOK, Respond
  <2>2. QED
    BY <1>5, <2>1 DEF ClientsTypeOK, Respond, Read, sendVars, pingVars, runVars
<1>6. ASSUME ReaderEnds(c) PROVE ClientsTypeOK'
  BY <1>6 DEF ClientsTypeOK, ReaderEnds, CloseClient, Without, Read, connVars, pingVars, runVars
<1>7. QED
  BY <1>1, <1>2, <1>3, <1>4, <1>5, <1>6

\* The pings of close_view keep the types.
LEMMA PingTypeOK ==
  ASSUME ClientsTypeOK
  PROVE  /\ \A c \in Conns : PingBegin(c) \/ PingNext(c) => ClientsTypeOK'
         /\ PingWrite \/ PingEnd => ClientsTypeOK'
<1>1. ASSUME NEW c \in Conns, PingBegin(c) PROVE ClientsTypeOK'
  BY <1>1 DEF ClientsTypeOK, PingBegin, connVars, sendVars, runVars
<1>2. ASSUME NEW c \in Conns, PingNext(c) PROVE ClientsTypeOK'
  BY <1>2 DEF ClientsTypeOK, PingNext, connVars, sendVars, runVars
<1>3. ASSUME PingWrite PROVE ClientsTypeOK'
  <2>1. target \in Conns
    BY <1>3 DEF ClientsTypeOK, PingWrite
  <2>2. pipe' \in [Conns -> 0..PipeLimit] /\ reachable' \in Nat
    BY <1>3, <2>1, PutLineFits DEF ClientsTypeOK, PingWrite
  <2>3. clients' \subseteq Conns /\ sendClosed' \in [Conns -> BOOLEAN]
    BY <1>3, <2>1 DEF ClientsTypeOK, PingWrite
  <2>4. QED
    BY <1>3, <2>2, <2>3 DEF ClientsTypeOK, PingWrite, runVars
<1>4. ASSUME PingEnd PROVE ClientsTypeOK'
  BY <1>4 DEF ClientsTypeOK, PingEnd, Read, Unlocked, connVars, sendVars
<1>5. QED
  BY <1>1, <1>2, <1>3, <1>4

\* Events, heartbeats, peers and the end of the run keep the types.
LEMMA EventTypeOK ==
  ASSUME ClientsTypeOK
  PROVE  /\ \A c \in Conns : EventWrite(c) \/ WriterEnds(c) \/ Timeout(c) \/ TimeoutClose(c) => ClientsTypeOK'
         /\ \A c \in Conns : PeerReads(c) \/ PeerStops(c) \/ PeerCloses(c) => ClientsTypeOK'
         /\ Output \/ ExitEvent \/ FinishClients => ClientsTypeOK'
<1>0. PipeLimit \in Nat
  BY ClientsAssumption
<1>1. ASSUME NEW c \in Conns, EventWrite(c) PROVE ClientsTypeOK'
  <2>1. queue[c] \in Seq(Nat) /\ queue[c] # <<>> /\ got[c] \in Seq(Nat)
    BY <1>1 DEF ClientsTypeOK, EventWrite
  <2>2. Head(queue[c]) \in Nat /\ Tail(queue[c]) \in Seq(Nat)
    BY <2>1
  <2>3. Append(got[c], Head(queue[c])) \in Seq(Nat)
    BY <2>1, <2>2
  <2>4. got' \in [Conns -> Seq(Nat)] /\ queue' \in [Conns -> Seq(Nat)]
    <3>1. got \in [Conns -> Seq(Nat)] /\ queue \in [Conns -> Seq(Nat)]
      BY DEF ClientsTypeOK
    <3>2. got' = [got EXCEPT ![c] = Append(got[c], Head(queue[c]))] \/ got' = got
      BY <1>1, <3>1 DEF EventWrite
    <3>3. queue' = [queue EXCEPT ![c] = Tail(queue[c])]
      BY <1>1, <3>1 DEF EventWrite
    <3>4. QED
      BY <2>2, <2>3, <3>1, <3>2, <3>3
  <2>5. pipe' \in [Conns -> 0..PipeLimit]
    BY <1>1, PutLineFits DEF ClientsTypeOK, EventWrite
  <2>6. QED
    BY <1>1, <2>4, <2>5 DEF ClientsTypeOK, EventWrite, pingVars, runVars
<1>2. ASSUME NEW c \in Conns, WriterEnds(c) PROVE ClientsTypeOK'
  BY <1>2 DEF ClientsTypeOK, WriterEnds, sendVars, pingVars, runVars
<1>3. ASSUME NEW c \in Conns, Timeout(c) PROVE ClientsTypeOK'
  BY <1>3 DEF ClientsTypeOK, Timeout, sendVars, pingVars, runVars
<1>4. ASSUME NEW c \in Conns, TimeoutClose(c) PROVE ClientsTypeOK'
  BY <1>4 DEF ClientsTypeOK, TimeoutClose, CloseClient, Without, connVars, pingVars, runVars
<1>5. ASSUME NEW c \in Conns, PeerReads(c) PROVE ClientsTypeOK'
  <2>1. pipe' \in [Conns -> 0..PipeLimit]
    BY <1>0, <1>5 DEF ClientsTypeOK, PeerReads, CanRead
  <2>2. QED
    BY <1>5, <2>1 DEF ClientsTypeOK, PeerReads, sendVars, pingVars, runVars
<1>6. ASSUME NEW c \in Conns, PeerStops(c) \/ PeerCloses(c) PROVE ClientsTypeOK'
  BY <1>6 DEF ClientsTypeOK, PeerStops, PeerCloses, sendVars, pingVars, runVars
<1>7. ASSUME NEW next \in {"up", "exit", "finished", "panic"}, Broadcast(next) PROVE ClientsTypeOK'
  <2>1. broadcasts' \in Nat /\ broadcasts + 1 \in Nat
    BY <1>7 DEF ClientsTypeOK, Broadcast
  <2>2. \A c \in Conns : queue[c] \in Seq(Nat) /\ Append(queue[c], broadcasts + 1) \in Seq(Nat)
    BY <2>1 DEF ClientsTypeOK
  <2>3. queue' \in [Conns -> Seq(Nat)]
    <3>1. \/ queue' = queue
          \/ queue' = [c \in Conns |-> IF c \in clients /\ ~Full(c)
                                      THEN Append(queue[c], broadcasts + 1) ELSE queue[c]]
      BY <1>7 DEF Broadcast
    <3>2. queue \in [Conns -> Seq(Nat)]
      BY DEF ClientsTypeOK
    <3>3. QED
      BY <2>2, <3>1, <3>2
  <2>4. /\ conn' \in [Conns -> {"none", "open", "closed"}]
        /\ clients' \subseteq Conns
        /\ sendClosed' \in [Conns -> BOOLEAN]
        /\ daemonPhase' \in {"up", "exit", "finished", "panic"}
    BY <1>7 DEF ClientsTypeOK, Broadcast
  <2>5. QED
    BY <1>7, <2>1, <2>3, <2>4 DEF ClientsTypeOK, Broadcast, pingVars
<1>8. ASSUME Output \/ ExitEvent PROVE ClientsTypeOK'
  BY <1>7, <1>8 DEF ClientsTypeOK, Output, ExitEvent
<1>9. ASSUME FinishClients PROVE ClientsTypeOK'
  BY <1>9 DEF ClientsTypeOK, FinishClients, connVars, pingVars
<1>10. QED
  BY <1>1, <1>2, <1>3, <1>4, <1>5, <1>6, <1>8, <1>9

LEMMA NextTypeOK == ClientsTypeOK /\ [ClientsNext]_clientsVars => ClientsTypeOK'
<1>1. ASSUME ClientsTypeOK, ClientsNext PROVE ClientsTypeOK'
  BY <1>1, RequestTypeOK, PingTypeOK, EventTypeOK DEF ClientsNext
<1>2. ASSUME ClientsTypeOK, UNCHANGED clientsVars PROVE ClientsTypeOK'
  BY <1>2 DEF ClientsTypeOK, clientsVars, connVars, sendVars, pingVars, runVars
<1>3. QED
  BY <1>1, <1>2

\* Every reachable state of the connections is well typed (daemonPhase, daemonClient).
THEOREM ClientsTypeCorrect == ClientsSpec => []ClientsTypeOK
BY InitTypeOK, NextTypeOK, PTL DEF ClientsSpec

-----------------------------------------------------------------------------
(* The set of clients.                                                      *)

LEMMA InitMembers == ClientsInit => Members /\ NoPanic
BY ClientsAssumption DEF ClientsInit, Members, NoPanic, Unlocked

\* The steps of one reader.
LEMMA RequestMembers ==
  ASSUME ClientsTypeOK, Members, NEW c \in Conns
  PROVE  /\ Connect(c) \/ (\E name \in Requests : Request(c, name)) => Members'
         /\ Add(c) \/ Leave(c) \/ Respond(c) \/ ReaderEnds(c) => Members'
<1>1. ASSUME Connect(c) PROVE Members'
  <2>1. reader' \in [Conns -> {"none", "scan", "add", "leave", "lock", "respond", "done"}]
    BY <1>1, RequestTypeOK DEF ClientsTypeOK
  <2>2. QED
    BY <1>1, <2>1 DEF ClientsTypeOK, Members, Unlocked, Connect, Read, sendVars, pingVars, runVars
<1>2. ASSUME NEW name \in Requests, Request(c, name) PROVE Members'
  BY <1>2 DEF ClientsTypeOK, Members, Unlocked, Request, Requests, Leaving, Read, connVars, sendVars,
              pingVars
<1>3. ASSUME Add(c) PROVE Members'
  BY <1>3 DEF ClientsTypeOK, Members, Unlocked, Add, Read, connVars, sendVars, pingVars, runVars
<1>4. ASSUME Leave(c) PROVE Members'
  BY <1>4 DEF ClientsTypeOK, Members, Unlocked, Leave, Read, connVars, sendVars, pingVars, runVars
<1>5. ASSUME Respond(c) PROVE Members'
  BY <1>5 DEF ClientsTypeOK, Members, Unlocked, Respond, Read, sendVars, pingVars, runVars
<1>6. ASSUME ReaderEnds(c) PROVE Members'
  BY <1>6 DEF ClientsTypeOK, Members, Unlocked, ReaderEnds, CloseClient, Without, Read, connVars,
              pingVars, runVars
<1>7. QED
  BY <1>1, <1>2, <1>3, <1>4, <1>5, <1>6

\* The steps of a close_view.
LEMMA PingMembers ==
  ASSUME ClientsTypeOK, Members
  PROVE  /\ \A c \in Conns : PingBegin(c) \/ PingNext(c) => Members'
         /\ PingWrite \/ PingEnd => Members'
<1>0. NoConn \notin Conns
  BY ClientsAssumption
<1>1. ASSUME NEW c \in Conns, PingBegin(c) PROVE Members'
  BY <1>0, <1>1 DEF ClientsTypeOK, Members, Unlocked, PingBegin, connVars, sendVars, runVars
<1>2. ASSUME NEW c \in Conns, PingNext(c) PROVE Members'
  BY <1>0, <1>2 DEF ClientsTypeOK, Members, Unlocked, PingNext, connVars, sendVars, runVars
<1>3. ASSUME PingWrite PROVE Members'
  <2>1. target \in clients \ todo /\ target \in Conns
    BY <1>3 DEF ClientsTypeOK, Members, PingWrite
  <2>2. \/ UNCHANGED <<clients, sendClosed>>
        \/ /\ clients' = clients \ {target}
           /\ sendClosed' = [sendClosed EXCEPT ![target] = TRUE]
    BY <1>3 DEF PingWrite
  <2>3. target' = NoConn /\ UNCHANGED <<reader, reply, watch, clientsMu, todo>>
    BY <1>3 DEF PingWrite
  <2>4. QED
    BY <2>1, <2>2, <2>3 DEF ClientsTypeOK, Members, Unlocked
<1>4. ASSUME PingEnd PROVE Members'
  BY <1>0, <1>4 DEF ClientsTypeOK, Members, Unlocked, PingEnd, Read, connVars, sendVars
<1>5. QED
  BY <1>1, <1>2, <1>3, <1>4

\* The steps of writers, heartbeats, peers and the run.
LEMMA EventMembers ==
  ASSUME ClientsTypeOK, Members
  PROVE  /\ \A c \in Conns : EventWrite(c) \/ WriterEnds(c) \/ Timeout(c) \/ TimeoutClose(c) => Members'
         /\ \A c \in Conns : PeerReads(c) \/ PeerStops(c) \/ PeerCloses(c) => Members'
         /\ Output \/ ExitEvent \/ FinishClients => Members'
<1>1. ASSUME NEW c \in Conns, EventWrite(c) \/ WriterEnds(c) PROVE Members'
  BY <1>1 DEF Members, Unlocked, EventWrite, WriterEnds, sendVars, pingVars
<1>2. ASSUME NEW c \in Conns, Timeout(c) PROVE Members'
  BY <1>2 DEF ClientsTypeOK, Members, Unlocked, Timeout, Expires, Attached, sendVars, pingVars
<1>3. ASSUME NEW c \in Conns, TimeoutClose(c) PROVE Members'
  <2>1. reply[c] # "none" /\ reader[c] # "add"
    BY <1>3 DEF Members, TimeoutClose
  <2>2. QED
    BY <1>3, <2>1 DEF ClientsTypeOK, Members, Unlocked, TimeoutClose, CloseClient, Without, pingVars
<1>4. ASSUME NEW c \in Conns, PeerReads(c) \/ PeerStops(c) \/ PeerCloses(c) PROVE Members'
  BY <1>4 DEF Members, Unlocked, PeerReads, PeerStops, PeerCloses, sendVars, pingVars
<1>5. ASSUME NEW next, Broadcast(next) PROVE Members'
  <2>1. /\ todo = {} /\ target = NoConn
        /\ UNCHANGED <<todo, target, reader, reply, watch, clientsMu>>
    BY <1>5 DEF Members, Broadcast, pingVars
  <2>2. CASE Panics
    BY <1>5, <2>1, <2>2 DEF Members, Unlocked, Broadcast
  <2>3. CASE ~Panics
    <3>1. /\ clients' = clients \ Dropped /\ Dropped \subseteq clients
          /\ sendClosed' = [c \in Conns |-> sendClosed[c] \/ c \in Dropped]
      BY <1>5, <2>3 DEF Broadcast, Dropped
    <3>2. \A c \in clients' : ~sendClosed'[c] /\ reader'[c] # "add" /\ reply'[c] # "none"
      BY <2>1, <3>1 DEF ClientsTypeOK, Members
    <3>3. \A c \in Conns :
            /\ reader'[c] = "add" => ~sendClosed'[c] /\ reply'[c] # "none"
            /\ reply'[c] = "none" => watch'[c] = "watch" /\ (sendClosed'[c] => reader'[c] = "done")
      BY <2>1, <3>1 DEF ClientsTypeOK, Members
    <3>4. QED
      BY <2>1, <3>1, <3>2, <3>3 DEF Members, Unlocked
  <2>4. QED
    BY <2>2, <2>3
<1>6. ASSUME Output \/ ExitEvent PROVE Members'
  BY <1>5, <1>6 DEF Output, ExitEvent
<1>7. ASSUME FinishClients PROVE Members'
  <2>1. /\ todo = {} /\ target = NoConn /\ clients' = {}
        /\ sendClosed' = [c \in Conns |-> sendClosed[c] \/ c \in clients]
        /\ UNCHANGED <<todo, target, reader, reply, watch, clientsMu>>
    BY <1>7 DEF Members, FinishClients, pingVars
  <2>2. \A c \in Conns :
          /\ reader'[c] = "add" => ~sendClosed'[c] /\ reply'[c] # "none"
          /\ reply'[c] = "none" => watch'[c] = "watch" /\ (sendClosed'[c] => reader'[c] = "done")
    BY <2>1 DEF Members
  <2>3. QED
    BY <2>1, <2>2 DEF Members, Unlocked
<1>8. QED
  BY <1>1, <1>2, <1>3, <1>4, <1>6, <1>7

\* A broadcast to clients that can be sent to does not end the program.
LEMMA NextNoPanic ==
  ASSUME Members, NoPanic, [ClientsNext]_clientsVars
  PROVE  NoPanic'
<1>1. ~Panics
  BY DEF Members, Panics
<1>2. ASSUME Output \/ ExitEvent \/ FinishClients PROVE NoPanic'
  BY <1>1, <1>2 DEF NoPanic, Output, ExitEvent, FinishClients, Broadcast
<1>3. ASSUME PingWrite \/ PingEnd PROVE NoPanic'
  BY <1>3 DEF NoPanic, PingWrite, PingEnd, runVars
<1>4. ASSUME NEW c \in Conns,
             \/ Connect(c) \/ (\E name \in Requests : Request(c, name))
             \/ Add(c) \/ Leave(c) \/ Respond(c) \/ ReaderEnds(c) \/ PingBegin(c) \/ PingNext(c)
      PROVE  NoPanic'
  BY <1>4 DEF NoPanic, Connect, Request, Add, Leave, Respond, ReaderEnds, PingBegin, PingNext,
              runVars
<1>5. ASSUME NEW c \in Conns,
             \/ EventWrite(c) \/ WriterEnds(c) \/ Timeout(c) \/ TimeoutClose(c)
             \/ PeerReads(c) \/ PeerStops(c) \/ PeerCloses(c)
      PROVE  NoPanic'
  BY <1>5 DEF NoPanic, EventWrite, WriterEnds, Timeout, TimeoutClose, PeerReads, PeerStops,
              PeerCloses, runVars
<1>6. ASSUME UNCHANGED clientsVars PROVE NoPanic'
  BY <1>6 DEF NoPanic, clientsVars, runVars
<1>7. QED
  BY <1>2, <1>3, <1>4, <1>5, <1>6 DEF ClientsNext

LEMMA NextMembers == ClientsTypeOK /\ Members /\ [ClientsNext]_clientsVars => Members'
<1>1. ASSUME ClientsTypeOK, Members, ClientsNext PROVE Members'
  BY <1>1, RequestMembers, PingMembers, EventMembers DEF ClientsNext
<1>2. ASSUME Members, UNCHANGED clientsVars PROVE Members'
  BY <1>2 DEF Members, Unlocked, clientsVars, connVars, sendVars, pingVars, runVars
<1>3. QED
  BY <1>1, <1>2

\* No broadcast ever sends on the closed channel of a client, for any number of clients
\* that attach, leave, time out and are dropped (closeClient, broadcast, addClient).
THEOREM DaemonNeverPanics == ClientsSpec => []NoPanic
<1>1. ClientsInit => ClientsTypeOK /\ Members /\ NoPanic
  BY InitTypeOK, InitMembers
<1>2. ClientsTypeOK /\ Members /\ NoPanic /\ [ClientsNext]_clientsVars => ClientsTypeOK' /\ Members' /\ NoPanic'
  BY NextTypeOK, NextMembers, NextNoPanic
<1>3. QED
  BY <1>1, <1>2, PTL DEF ClientsSpec

-----------------------------------------------------------------------------
(* The streams.                                                             *)

\* A run is extended by the number after its last.
LEMMA ContiguousAppend ==
  ASSUME NEW s \in Seq(Nat), Contiguous(s), NEW n \in Nat, s # <<>> => s[Len(s)] = n
  PROVE  /\ Contiguous(Append(s, n + 1))
         /\ Append(s, n + 1) \in Seq(Nat)
         /\ Append(s, n + 1)[Len(Append(s, n + 1))] = n + 1
<1>1. /\ Append(s, n + 1) \in Seq(Nat)
      /\ Len(Append(s, n + 1)) = Len(s) + 1
      /\ \A i \in 1..Len(s) : Append(s, n + 1)[i] = s[i]
      /\ Append(s, n + 1)[Len(s) + 1] = n + 1
  OBVIOUS
<1>2. Contiguous(Append(s, n + 1))
  BY <1>1 DEF Contiguous
<1>3. QED
  BY <1>1, <1>2

\* An event that joins the queue joins the stream.
LEMMA StreamAppend ==
  ASSUME NEW g \in Seq(Nat), NEW q \in Seq(Nat), NEW n \in Nat
  PROVE  g \o Append(q, n) = Append(g \o q, n)
<1>1. <<n>> \in Seq(Nat) /\ g \o q \in Seq(Nat)
  OBVIOUS
<1>2. Append(q, n) = q \o <<n>>
  BY AppendIsConcat
<1>3. Append(g \o q, n) = (g \o q) \o <<n>>
  BY <1>1, AppendIsConcat
<1>4. (g \o q) \o <<n>> = g \o (q \o <<n>>)
  BY <1>1, ConcatAssociative
<1>5. QED
  BY <1>2, <1>3, <1>4

\* What is taken from the queue and written keeps the stream, and what is written is the
\* beginning of it.
LEMMA StreamMoved ==
  ASSUME NEW g \in Seq(Nat), NEW q \in Seq(Nat), q # <<>>
  PROVE  /\ Append(g, Head(q)) \o Tail(q) = g \o q
         /\ Contiguous(g \o q) => Contiguous(Append(g, Head(q)))
<1>1. Append(g, Head(q)) = g \o <<Head(q)>> /\ q = <<Head(q)>> \o Tail(q)
  <2>1. Head(q) \in Nat /\ Tail(q) \in Seq(Nat) /\ Len(Tail(q)) = Len(q) - 1
    BY HeadTailProperties
  <2>2. Append(g, Head(q)) = g \o <<Head(q)>>
    BY <2>1, AppendIsConcat
  <2> DEFINE t == <<Head(q)>> \o Tail(q)
  <2>3. t \in Seq(Nat) /\ Len(t) = Len(q) /\ \A i \in 1..Len(t) : t[i] = q[i]
    BY <2>1
  <2>4. t = q
    BY <2>3, SeqEqual
  <2>5. QED
    BY <2>2, <2>4
<1>2. <<Head(q)>> \in Seq(Nat) /\ Tail(q) \in Seq(Nat)
  OBVIOUS
<1>3. (g \o <<Head(q)>>) \o Tail(q) = g \o (<<Head(q)>> \o Tail(q))
  <2> DEFINE h == <<Head(q)>>
             t == Tail(q)
  <2>1. h \in Seq(Nat) /\ t \in Seq(Nat)
    BY <1>2
  <2> HIDE DEF h, t
  <2>2. (g \o h) \o t = g \o (h \o t)
    BY <2>1, ConcatAssociative, SMTT(30)
  <2>3. QED
    BY <2>2 DEF h, t
<1>4. /\ Len(Append(g, Head(q))) = Len(g) + 1
      /\ Len(g \o q) >= Len(g) + 1
      /\ \A i \in 1..Len(g) + 1 : Append(g, Head(q))[i] = (g \o q)[i]
  <2>1. /\ Len(q) \in Nat \ {0} /\ Len(g) \in Nat
        /\ Len(g \o q) = Len(g) + Len(q)
        /\ Len(Append(g, Head(q))) = Len(g) + 1
    OBVIOUS
  <2>2. \A i \in 1..Len(g) : Append(g, Head(q))[i] = g[i] /\ (g \o q)[i] = g[i]
    OBVIOUS
  <2>3. Append(g, Head(q))[Len(g) + 1] = q[1] /\ (g \o q)[Len(g) + 1] = q[1]
    BY <2>1
  <2>4. QED
    BY <2>1, <2>2, <2>3
<1>5. Contiguous(g \o q) => Contiguous(Append(g, Head(q)))
  BY <1>4 DEF Contiguous
<1>6. QED
  BY <1>1, <1>3, <1>5

LEMMA InitStreams == ClientsInit => Streams
<1>1. ASSUME ClientsInit, NEW c \in Conns PROVE got[c] = <<>> /\ queue[c] = <<>>
  BY <1>1 DEF ClientsInit
<1>2. Contiguous(<<>>) /\ <<>> \o <<>> = <<>>
  BY DEF Contiguous
<1>3. QED
  BY <1>1, <1>2 DEF Streams, Stream

\* Steps that neither write nor broadcast an event keep the streams, if they add no client,
\* reopen no connection and only start to attach one that has not attached.
LEMMA StreamsKept ==
  ASSUME Streams, UNCHANGED <<got, queue, broadcasts>>, clients' \subseteq clients,
         \A c \in Conns :
           /\ conn'[c] # "closed" => conn[c] # "closed"
           /\ reply'[c] = "none" \/ reader'[c] = "add" => reply[c] = "none" \/ reader[c] = "add"
  PROVE  Streams'
BY DEF Streams, Stream

\* The steps of a reader.
LEMMA RequestStreams ==
  ASSUME ClientsTypeOK, Streams, NEW c \in Conns
  PROVE  /\ Connect(c) \/ (\E name \in Requests : Request(c, name)) => Streams'
         /\ Add(c) \/ Leave(c) \/ Respond(c) \/ ReaderEnds(c) => Streams'
<1>1. ASSUME Connect(c) PROVE Streams'
  BY <1>1, StreamsKept DEF ClientsTypeOK, Connect, Read, sendVars, runVars
<1>2. ASSUME NEW name \in Requests, Request(c, name) PROVE Streams'
  BY <1>2, StreamsKept DEF ClientsTypeOK, Request, Requests, Leaving, Read, connVars, sendVars
<1>3. ASSUME Add(c) PROVE Streams'
  <2>1. got[c] = <<>> /\ queue[c] = <<>> /\ reader[c] = "add"
    BY <1>3 DEF Streams, Add
  <2>2. Stream(c) = <<>>
    BY <2>1 DEF Stream
  <2>3. /\ clients' = clients \cup {c} /\ UNCHANGED <<got, queue, broadcasts, conn, reply>>
        /\ \A d \in Conns : reader'[d] = "add" => reader[d] = "add"
    BY <1>3 DEF ClientsTypeOK, Add, Read, connVars, sendVars, runVars
  <2>4. QED
    BY <2>1, <2>2, <2>3 DEF Streams, Stream
<1>4. ASSUME Leave(c) PROVE Streams'
  BY <1>4, StreamsKept DEF ClientsTypeOK, Leave, Read, connVars, sendVars, runVars
<1>5. ASSUME Respond(c) PROVE Streams'
  BY <1>5, StreamsKept DEF ClientsTypeOK, Respond, Read, sendVars, runVars
<1>6. ASSUME ReaderEnds(c) PROVE Streams'
  BY <1>6, StreamsKept DEF ClientsTypeOK, ReaderEnds, CloseClient, Without, Read, connVars, runVars
<1>7. QED
  BY <1>1, <1>2, <1>3, <1>4, <1>5, <1>6

\* The steps of a close_view.
LEMMA PingStreams ==
  ASSUME ClientsTypeOK, Streams
  PROVE  /\ \A c \in Conns : PingBegin(c) \/ PingNext(c) => Streams'
         /\ PingWrite \/ PingEnd => Streams'
<1>1. ASSUME NEW c \in Conns, PingBegin(c) \/ PingNext(c) PROVE Streams'
  BY <1>1, StreamsKept DEF PingBegin, PingNext, connVars, sendVars, runVars
<1>2. ASSUME PingWrite PROVE Streams'
  BY <1>2, StreamsKept DEF PingWrite, runVars
<1>3. ASSUME PingEnd PROVE Streams'
  BY <1>3, StreamsKept DEF ClientsTypeOK, PingEnd, Read, connVars, sendVars
<1>4. QED
  BY <1>1, <1>2, <1>3

\* The steps of writers, heartbeats, peers and the run.
LEMMA EventStreams ==
  ASSUME ClientsTypeOK, Members, Streams
  PROVE  /\ \A c \in Conns : EventWrite(c) \/ WriterEnds(c) \/ Timeout(c) \/ TimeoutClose(c) => Streams'
         /\ \A c \in Conns : PeerReads(c) \/ PeerStops(c) \/ PeerCloses(c) => Streams'
         /\ Output \/ ExitEvent \/ FinishClients => Streams'
<1>1. ASSUME NEW c \in Conns, EventWrite(c) PROVE Streams'
  <2>1. /\ queue[c] \in Seq(Nat) /\ queue[c] # <<>> /\ got[c] \in Seq(Nat)
        /\ ~(reply[c] = "none" \/ reader[c] = "add")
    BY <1>1 DEF ClientsTypeOK, EventWrite, Streams
  <2>2. UNCHANGED <<conn, clients, reply, reader, broadcasts>>
    BY <1>1 DEF EventWrite, runVars
  <2>3. \A d \in Conns \ {c} : got'[d] = got[d] /\ queue'[d] = queue[d]
    BY <1>1 DEF ClientsTypeOK, EventWrite
  <2>4. CASE CanWrite(c)
    <3>1. got'[c] = Append(got[c], Head(queue[c])) /\ queue'[c] = Tail(queue[c])
      BY <1>1, <2>4 DEF ClientsTypeOK, EventWrite, CanWrite, WriteFails
    <3>2. conn[c] = "open"
      BY <2>4 DEF CanWrite
    <3>3. Stream(c)' = Stream(c) /\ Contiguous(got'[c])
      BY <2>1, <3>1, <3>2, StreamMoved DEF Streams, Stream
    <3>4. QED
      BY <2>1, <2>2, <2>3, <3>3 DEF Streams, Stream
  <2>5. CASE WriteFails(c)
    <3>1. got' = got /\ conn[c] = "closed"
      BY <1>1, <2>5 DEF EventWrite, CanWrite, WriteFails
    <3>2. QED
      BY <2>1, <2>2, <2>3, <3>1 DEF Streams, Stream
  <2>6. QED
    BY <1>1, <2>4, <2>5 DEF EventWrite
<1>2. ASSUME NEW c \in Conns, WriterEnds(c) PROVE Streams'
  BY <1>2, StreamsKept DEF ClientsTypeOK, WriterEnds, sendVars, runVars
<1>3. ASSUME NEW c \in Conns, Timeout(c) PROVE Streams'
  BY <1>3, StreamsKept DEF ClientsTypeOK, Timeout, sendVars, runVars
<1>4. ASSUME NEW c \in Conns, TimeoutClose(c) PROVE Streams'
  BY <1>4, StreamsKept DEF ClientsTypeOK, TimeoutClose, CloseClient, Without, connVars, runVars
<1>5. ASSUME NEW c \in Conns, PeerReads(c) \/ PeerStops(c) \/ PeerCloses(c) PROVE Streams'
  BY <1>5, StreamsKept DEF ClientsTypeOK, PeerReads, PeerStops, PeerCloses, sendVars, runVars
<1>6. ASSUME NEW next, Broadcast(next) PROVE Streams'
  <2>1. ~Panics
    BY DEF Members, Panics
  <2>2. /\ queue' = [c \in Conns |-> IF c \in clients /\ ~Full(c)
                                     THEN Append(queue[c], broadcasts + 1) ELSE queue[c]]
        /\ clients' = clients \ Dropped
        /\ conn' = [c \in Conns |-> IF c \in Dropped THEN "closed" ELSE conn[c]]
        /\ broadcasts' = broadcasts + 1
        /\ UNCHANGED <<got, reader, reply>>
    BY <1>6, <2>1 DEF Broadcast
  <2>3. ASSUME NEW c \in Conns, c \in clients, ~Full(c), conn[c] # "closed"
        PROVE  /\ Contiguous(Stream(c)')
               /\ Stream(c)' # <<>> => Stream(c)'[Len(Stream(c)')] = broadcasts'
    <3>1. /\ got[c] \in Seq(Nat) /\ queue[c] \in Seq(Nat) /\ broadcasts \in Nat /\ broadcasts + 1 \in Nat
          /\ Stream(c) \in Seq(Nat)
      BY DEF ClientsTypeOK, Stream
    <3>2. Stream(c)' = got[c] \o Append(queue[c], broadcasts + 1)
      BY <2>2, <2>3 DEF Stream
    <3>3. got[c] \o Append(queue[c], broadcasts + 1) = Append(Stream(c), broadcasts + 1)
      BY <3>1, StreamAppend DEF Stream
    <3>4. Contiguous(Stream(c)) /\ (Stream(c) # <<>> => Stream(c)[Len(Stream(c))] = broadcasts)
      BY <2>3 DEF Streams
    <3>5. Stream(c)' = Append(Stream(c), broadcasts + 1)
      BY <3>2, <3>3
    <3> DEFINE s == Stream(c)
    <3>6. /\ Contiguous(Append(s, broadcasts + 1))
          /\ Append(s, broadcasts + 1)[Len(Append(s, broadcasts + 1))] = broadcasts + 1
      <4>1. s \in Seq(Nat) /\ Contiguous(s) /\ (s # <<>> => s[Len(s)] = broadcasts)
        BY <3>1, <3>4
      <4> HIDE DEF s
      <4>2. QED
        BY <3>1, <4>1, ContiguousAppend
    <3>7. QED
      BY <2>2, <3>5, <3>6
  <2>4. ASSUME NEW c \in Conns
        PROVE  /\ Contiguous(got'[c])
               /\ conn'[c] # "closed" =>
                    /\ Contiguous(Stream(c)')
                    /\ c \in clients' /\ Stream(c)' # <<>> => Stream(c)'[Len(Stream(c)')] = broadcasts'
               /\ reply'[c] = "none" \/ reader'[c] = "add" => got'[c] = <<>> /\ queue'[c] = <<>>
    <3>1. CASE c \in clients /\ ~Full(c)
      BY <2>2, <2>3, <3>1 DEF ClientsTypeOK, Members, Streams
    <3>2. CASE c \in clients /\ Full(c)
      BY <2>2, <3>2 DEF Dropped, Members, Streams
    <3>3. CASE c \notin clients
      BY <2>2, <3>3 DEF ClientsTypeOK, Streams, Stream
    <3>4. QED
      BY <3>1, <3>2, <3>3
  <2>5. QED
    BY <2>4 DEF Streams
<1>7. ASSUME Output \/ ExitEvent PROVE Streams'
  BY <1>6, <1>7 DEF Output, ExitEvent
<1>8. ASSUME FinishClients PROVE Streams'
  BY <1>8, StreamsKept DEF FinishClients, connVars
<1>9. QED
  BY <1>1, <1>2, <1>3, <1>4, <1>5, <1>7, <1>8

LEMMA NextStreams == ClientsTypeOK /\ Members /\ Streams /\ [ClientsNext]_clientsVars => Streams'
<1>1. ASSUME ClientsTypeOK, Members, Streams, ClientsNext PROVE Streams'
  BY <1>1, RequestStreams, PingStreams, EventStreams DEF ClientsNext
<1>2. ASSUME Streams, UNCHANGED clientsVars PROVE Streams'
  BY <1>2 DEF Streams, Stream, clientsVars, connVars, sendVars, runVars
<1>3. QED
  BY <1>1, <1>2

\* Whatever the queues hold and whoever is slow, a client receives the events without a gap
\* (broadcast, writeEvents).
THEOREM ClientStreamWhole == ClientsSpec => []StreamHasNoGap
<1>1. ClientsInit => ClientsTypeOK /\ Members /\ Streams
  BY InitTypeOK, InitMembers, InitStreams
<1>2. ClientsTypeOK /\ Members /\ Streams /\ [ClientsNext]_clientsVars => ClientsTypeOK' /\ Members' /\ Streams'
  BY NextTypeOK, NextMembers, NextStreams
<1>3. Streams => StreamHasNoGap
  BY DEF Streams, Stream, StreamHasNoGap
<1>4. QED
  BY <1>1, <1>2, <1>3, PTL DEF ClientsSpec

\* For any number of connections and any queue size, what each one is sent is well formed and
\* has no gap.
THEOREM ClientStreamsWhole == ClientsSpec => []StreamsAreWhole
<1>1. ClientsTypeOK /\ StreamHasNoGap => StreamsAreWhole
  BY DEF StreamsAreWhole
<1>2. QED
  BY <1>1, ClientsTypeCorrect, ClientStreamWhole, PTL
-----------------------------------------------------------------------------
(* The last view.                                                           *)

\* Has attached, and its leaving has not been served.
Remains(c) == reply[c] # "none" /\ ~ViewClosed(c)

\* What a reader is at belongs to its latest request; and what a close_view has reached, or
\* is about to write to, is another view that remains as long as the lock is held.
Views ==
    /\ \A c \in Conns : /\ reader[c] = "none" => reply[c] = "none"
                        /\ reader[c] = "add" => reply[c] = "attach"
                        /\ reader[c] = "lock" => reply[c] = "close_view"
    /\ target # NoConn => target # clientsMu /\ Remains(target)
    /\ ~Unlocked /\ reachable # 0 => \E x \in Conns \ {clientsMu} : Remains(x)

\* A view remains until its own close_view has counted the others, and no other step closes one.
LEMMA ViewStep ==
  ASSUME ClientsTypeOK, Views, [ClientsNext]_clientsVars, NEW x \in Conns
  PROVE  /\ Remains(x) /\ ~(PingEnd /\ x = clientsMu) => Remains(x)'
         /\ ViewClosed(x)' => ViewClosed(x) \/ (PingEnd /\ x = clientsMu)
<1>1. ASSUME NEW c \in Conns, Connect(c)
      PROVE  (Remains(x) => Remains(x)') /\ (ViewClosed(x)' => ViewClosed(x))
  BY <1>1 DEF ClientsTypeOK, Views, Connect, Read, Remains, ViewClosed
<1>2. ASSUME NEW c \in Conns, NEW name \in Requests, Request(c, name)
      PROVE  (Remains(x) => Remains(x)') /\ (ViewClosed(x)' => ViewClosed(x))
  BY <1>2 DEF ClientsTypeOK, Request, Requests, Leaving, Read, Remains, ViewClosed
<1>3. ASSUME NEW c \in Conns, Add(c) \/ Leave(c) \/ Respond(c) \/ ReaderEnds(c)
      PROVE  (Remains(x) => Remains(x)') /\ (ViewClosed(x)' => ViewClosed(x))
  BY <1>3 DEF ClientsTypeOK, Views, Add, Leave, Respond, ReaderEnds, Read, Remains, ViewClosed
<1>4. ASSUME PingEnd, x # clientsMu
      PROVE  (Remains(x) => Remains(x)') /\ (ViewClosed(x)' => ViewClosed(x))
  BY <1>4 DEF ClientsTypeOK, PingEnd, Read, Remains, ViewClosed
<1>5. ASSUME UNCHANGED <<reader, reply>>
      PROVE  (Remains(x) => Remains(x)') /\ (ViewClosed(x)' => ViewClosed(x))
  BY <1>5 DEF Remains, ViewClosed
<1>6. ASSUME NEW c \in Conns,
             \/ PingBegin(c) \/ PingNext(c) \/ EventWrite(c) \/ WriterEnds(c) \/ Timeout(c) \/ TimeoutClose(c)
             \/ PeerReads(c) \/ PeerStops(c) \/ PeerCloses(c)
      PROVE  UNCHANGED <<reader, reply>>
  BY <1>6 DEF PingBegin, PingNext, EventWrite, WriterEnds, Timeout, TimeoutClose,
              PeerReads, PeerStops, PeerCloses
<1>7. ASSUME PingWrite \/ Output \/ ExitEvent \/ FinishClients \/ UNCHANGED clientsVars
      PROVE  UNCHANGED <<reader, reply>>
  BY <1>7 DEF PingWrite, Output, ExitEvent, FinishClients, Broadcast, clientsVars
<1>8. QED
  BY <1>1, <1>2, <1>3, <1>4, <1>5, <1>6, <1>7 DEF ClientsNext

LEMMA InitViews == ClientsInit => Views /\ LastViewClosesRun
<1>1. ASSUME ClientsInit PROVE Views
  BY <1>1, ClientsAssumption DEF ClientsInit, Views, Unlocked
<1>2. ASSUME ClientsInit PROVE LastViewClosesRun
  BY <1>2 DEF ClientsInit, LastViewClosesRun, ViewClosed
<1>3. QED
  BY <1>1, <1>2

\* Nobody pings: what a close_view has found stays as it was.
LEMMA ViewsKept ==
  ASSUME ClientsTypeOK, Views, [ClientsNext]_clientsVars, UNCHANGED <<clientsMu, target, reachable>>, ~PingEnd,
         \A c \in Conns : /\ reader'[c] = "none" => reply'[c] = "none"
                          /\ reader'[c] = "add" => reply'[c] = "attach"
                          /\ reader'[c] = "lock" => reply'[c] = "close_view"
  PROVE  Views'
<1>1. \A x \in Conns : Remains(x) => Remains(x)'
  BY ViewStep
<1>2. target' # NoConn => target' # clientsMu' /\ Remains(target)'
  BY <1>1 DEF ClientsTypeOK, Views
<1>3. ~Unlocked' /\ reachable' # 0 => \E x \in Conns \ {clientsMu'} : Remains(x)'
  BY <1>1 DEF Views, Unlocked
<1>4. QED
  BY <1>2, <1>3 DEF Views

LEMMA NextViews == ClientsTypeOK /\ Members /\ Views /\ [ClientsNext]_clientsVars => Views'
<1> SUFFICES ASSUME ClientsTypeOK, Members, Views, [ClientsNext]_clientsVars PROVE Views'
  OBVIOUS
<1>0. NoConn \notin Conns
  BY ClientsAssumption
<1>1. CASE PingEnd
  <2>1. target' = NoConn /\ clientsMu' = NoConn
    BY <1>1 DEF PingEnd
  <2>2. \A c \in Conns : reply'[c] = reply[c] /\ (reader'[c] = reader[c] \/ reader'[c] = "respond")
    BY <1>1 DEF ClientsTypeOK, PingEnd, Read
  <2>3. QED
    BY <2>1, <2>2 DEF Views, Unlocked
<1>2. ASSUME ~PingEnd, UNCHANGED <<clientsMu, target, reachable, reader, reply>> PROVE Views'
  BY <1>2, ViewsKept DEF Views
<1>3. ASSUME NEW c \in Conns, Connect(c) PROVE Views'
  <2>1. ~PingEnd
    BY <1>3, <1>0 DEF Connect, PingEnd, pingVars, Unlocked
  <2>2. QED
    BY <1>3, <2>1, ViewsKept DEF ClientsTypeOK, Views, Connect, Read, pingVars
<1>4. ASSUME NEW c \in Conns, NEW name \in Requests, Request(c, name) PROVE Views'
  <2>1. ~PingEnd
    BY <1>4, <1>0 DEF Request, PingEnd, pingVars, Unlocked
  <2>2. QED
    BY <1>4, <2>1, ViewsKept DEF ClientsTypeOK, Views, Request, Requests, Leaving, Read, pingVars
<1>5. ASSUME NEW c \in Conns, Add(c) \/ Leave(c) \/ Respond(c) \/ ReaderEnds(c) PROVE Views'
  <2>1. ~PingEnd
    BY <1>5, <1>0 DEF Add, Leave, Respond, ReaderEnds, PingEnd, pingVars, Unlocked
  <2>2. QED
    BY <1>5, <2>1, ViewsKept DEF ClientsTypeOK, Views, Add, Leave, Respond, ReaderEnds, Read, pingVars
<1>6. ASSUME NEW c \in Conns, PingBegin(c) PROVE Views'
  BY <1>6, <1>0 DEF ClientsTypeOK, Views, Members, PingBegin, Unlocked, Remains, ViewClosed
<1>7. ASSUME NEW c \in Conns, PingNext(c) PROVE Views'
  <2>1. UNCHANGED <<reader, reply, clientsMu, reachable>> /\ target = NoConn /\ clientsMu \in Conns
    BY <1>7 DEF ClientsTypeOK, PingNext, Unlocked
  <2>2. \A x \in Conns : Remains(x)' <=> Remains(x)
    BY <2>1 DEF Remains, ViewClosed
  <2>3. target' # NoConn => target' = c /\ reply[c] = "attach"
    BY <1>7, <2>1 DEF PingNext, Attached
  <2>4. reply[clientsMu] = "close_view"
    BY <2>1, <1>0 DEF Members, Views
  <2>5. reply[c] = "attach" => Remains(c)
    BY DEF Remains, ViewClosed
  <2>6. target' # NoConn => target' # clientsMu' /\ Remains(target)'
    BY <2>1, <2>2, <2>3, <2>4, <2>5
  <2>7. QED
    BY <2>1, <2>2, <2>6 DEF Views, Unlocked
<1>8. CASE PingWrite
  <2>1. target \in Conns \ {clientsMu} /\ Remains(target)
    BY <1>8 DEF ClientsTypeOK, PingWrite, Views
  <2>2. target' = NoConn /\ UNCHANGED <<reader, reply, clientsMu>>
    BY <1>8 DEF PingWrite
  <2>3. Remains(target) => \E x \in Conns \ {clientsMu'} : Remains(x)'
    BY <2>1, <2>2 DEF Remains, ViewClosed
  <2>4. QED
    BY <2>1, <2>2, <2>3 DEF Views, Unlocked
<1>9. ASSUME NEW c \in Conns,
             \/ EventWrite(c) \/ WriterEnds(c) \/ Timeout(c) \/ TimeoutClose(c)
             \/ PeerReads(c) \/ PeerStops(c) \/ PeerCloses(c)
      PROVE  UNCHANGED <<clientsMu, target, reachable, reader, reply>>
  BY <1>9 DEF EventWrite, WriterEnds, Timeout, TimeoutClose, PeerReads, PeerStops, PeerCloses, pingVars
<1>10. ASSUME Output \/ ExitEvent \/ FinishClients \/ UNCHANGED clientsVars
       PROVE  UNCHANGED <<clientsMu, target, reachable, reader, reply>>
  BY <1>10 DEF Output, ExitEvent, FinishClients, Broadcast, clientsVars, pingVars
<1>11. QED
  BY <1>1, <1>2, <1>3, <1>4, <1>5, <1>6, <1>7, <1>8, <1>9, <1>10 DEF ClientsNext

LEMMA NextLastView ==
  ASSUME ClientsTypeOK, Members, Views, LastViewClosesRun, [ClientsNext]_clientsVars
  PROVE  LastViewClosesRun'
<1>1. closingRun => closingRun'
  <2>1. ASSUME NEW c \in Conns, NEW name \in Requests, Request(c, name) PROVE closingRun => closingRun'
    BY <2>1 DEF Request
  <2>2. CASE PingEnd
    BY <2>2 DEF PingEnd
  <2>3. ASSUME NEW c \in Conns,
               \/ Connect(c) \/ Add(c) \/ Leave(c) \/ Respond(c) \/ ReaderEnds(c) \/ PingBegin(c) \/ PingNext(c)
               \/ EventWrite(c) \/ WriterEnds(c) \/ Timeout(c) \/ TimeoutClose(c)
               \/ PeerReads(c) \/ PeerStops(c) \/ PeerCloses(c)
        PROVE  closingRun' = closingRun
    BY <2>3 DEF Connect, Add, Leave, Respond, ReaderEnds, PingBegin, PingNext, EventWrite, WriterEnds,
                Timeout, TimeoutClose, PeerReads, PeerStops, PeerCloses, runVars
  <2>4. ASSUME PingWrite \/ Output \/ ExitEvent \/ FinishClients \/ UNCHANGED clientsVars PROVE closingRun' = closingRun
    BY <2>4 DEF PingWrite, Output, ExitEvent, FinishClients, Broadcast, clientsVars, runVars
  <2>5. QED
    BY <2>1, <2>2, <2>3, <2>4 DEF ClientsNext
<1>2. CASE PingEnd
  <2>1. CASE reachable = 0
    BY <1>2, <2>1 DEF PingEnd, Unreachable, LastViewClosesRun
  <2>2. CASE reachable # 0
    <3>1. PICK x \in Conns \ {clientsMu} : Remains(x)
      BY <1>2, <2>2 DEF PingEnd, Views
    <3>2. Remains(x)'
      BY <3>1, ViewStep
    <3>3. QED
      BY <3>2 DEF LastViewClosesRun, Remains
  <2>3. QED
    BY <2>1, <2>2
<1>3. CASE ~PingEnd
  <2>1. ASSUME NEW c \in Conns, ViewClosed(c)', \A d \in Conns : ~Remains(d)' PROVE closingRun'
    <3>1. ViewClosed(c) /\ \A d \in Conns : ~Remains(d)
      BY <1>3, <2>1, ViewStep
    <3>2. closingRun
      BY <3>1 DEF LastViewClosesRun, Remains
    <3>3. QED
      BY <1>1, <3>2
  <2>2. QED
    BY <2>1 DEF LastViewClosesRun, Remains
<1>4. QED
  BY <1>2, <1>3

\* For any number of connections: when every view that attached has left by close_view, one of
\* them has closed the run, however their counts, pings and timeouts interleave, since a view
\* that was counted has not yet counted itself (closeView).
THEOREM LastViewCloses == ClientsSpec => []LastViewClosesRun
<1>1. ClientsInit => ClientsTypeOK /\ Members /\ Views /\ LastViewClosesRun
  BY InitTypeOK, InitMembers, InitViews
<1>2. ClientsTypeOK /\ Members /\ Views /\ LastViewClosesRun /\ [ClientsNext]_clientsVars
        => ClientsTypeOK' /\ Members' /\ Views' /\ LastViewClosesRun'
  BY NextTypeOK, NextMembers, NextViews, NextLastView
<1>3. QED
  BY <1>1, <1>2, PTL DEF ClientsSpec

-----------------------------------------------------------------------------
(* The lock of close_view.                                                  *)

\* Whose heartbeat has given up is disconnected, and whom a close_view writes to is connected.
Watched ==
    /\ \A c \in Conns : watch[c] # "watch" => conn[c] = "closed"
    /\ \A c \in Conns : conn[c] = "none" => reader[c] = "none"

LEMMA InitWatched == ClientsInit => Watched
BY DEF ClientsInit, Watched

LEMMA NextWatched == ClientsTypeOK /\ Members /\ Watched /\ [ClientsNext]_clientsVars => Watched'
<1> SUFFICES ASSUME ClientsTypeOK, Members, Watched, [ClientsNext]_clientsVars PROVE Watched'
  OBVIOUS
<1>1. ASSUME NEW c \in Conns, Connect(c) PROVE Watched'
  BY <1>1 DEF ClientsTypeOK, Watched, Connect, Read
<1>2. ASSUME NEW c \in Conns, NEW name \in Requests, Request(c, name) PROVE Watched'
  BY <1>2 DEF ClientsTypeOK, Watched, Request, Read, connVars
<1>3. ASSUME NEW c \in Conns, Add(c) \/ Leave(c) PROVE Watched'
  BY <1>3 DEF ClientsTypeOK, Watched, Add, Leave, Read, connVars
<1>4. ASSUME NEW c \in Conns, Respond(c) PROVE Watched'
  BY <1>4 DEF ClientsTypeOK, Watched, Respond, CanWrite, WriteFails, Read
<1>5. ASSUME NEW c \in Conns, ReaderEnds(c) PROVE Watched'
  BY <1>5 DEF ClientsTypeOK, Watched, ReaderEnds, Read, connVars
<1>6. ASSUME NEW c \in Conns, PingBegin(c) \/ PingNext(c) \/ EventWrite(c) \/ PeerReads(c) \/ PeerStops(c)
      PROVE  Watched'
  BY <1>6 DEF Watched, PingBegin, PingNext, EventWrite, PeerReads, PeerStops, connVars
<1>7. ASSUME NEW c \in Conns, WriterEnds(c) \/ PeerCloses(c) PROVE Watched'
  BY <1>7 DEF ClientsTypeOK, Watched, WriterEnds, PeerCloses
<1>8. ASSUME NEW c \in Conns, Timeout(c) PROVE Watched'
  BY <1>8 DEF ClientsTypeOK, Watched, Timeout, Expires
<1>9. ASSUME NEW c \in Conns, TimeoutClose(c) PROVE Watched'
  BY <1>9 DEF ClientsTypeOK, Watched, TimeoutClose, connVars
<1>10. CASE PingEnd
  <2>1. clientsMu \in Conns /\ reader[clientsMu] = "lock"
    BY <1>10 DEF ClientsTypeOK, Members, PingEnd, Unlocked
  <2>2. QED
    BY <1>10, <2>1 DEF ClientsTypeOK, Watched, PingEnd, Read, connVars
<1>11. ASSUME PingWrite \/ FinishClients \/ UNCHANGED clientsVars PROVE Watched'
  BY <1>11 DEF Watched, PingWrite, FinishClients, clientsVars, connVars
<1>12. ASSUME Output \/ ExitEvent PROVE Watched'
  BY <1>12 DEF ClientsTypeOK, Watched, Output, ExitEvent, Broadcast
<1>13. QED
  BY <1>1, <1>2, <1>3, <1>4, <1>5, <1>6, <1>7, <1>8, <1>9, <1>10, <1>11, <1>12 DEF ClientsNext

\* For any number of connections: a close_view that waits to write under the lock of the clients
\* waits for a peer that reads, or whose heartbeat can close the connection without the lock;
\* only a peer that has itself asked to leave, and is silent, can keep it there (closeClient,
\* pingAttachedClientsAndCountReachable).
THEOREM LockHolderHasWay == ClientsSpec => []LockHolderGoesOn
<1>1. ClientsInit => ClientsTypeOK /\ Members /\ Views /\ Watched
  BY InitTypeOK, InitMembers, InitViews, InitWatched
<1>2. ClientsTypeOK /\ Members /\ Views /\ Watched /\ [ClientsNext]_clientsVars
        => ClientsTypeOK' /\ Members' /\ Views' /\ Watched'
  BY NextTypeOK, NextMembers, NextViews, NextWatched
<1>3. ASSUME ClientsTypeOK, Members, Views, Watched, target # NoConn,
             ~CanWrite(target), ~WriteFails(target), ~CanRead(target), ~Expires(target)
      PROVE  reply[target] \in Leaving /\ peer[target] = "silent"
  <2>1. target \in Conns /\ reply[target] # "none"
    BY <1>3 DEF ClientsTypeOK, Members
  <2>2. reader[target] # "none"
    BY <1>3, <2>1 DEF Views
  <2>3. conn[target] = "open"
    BY <1>3, <2>1, <2>2 DEF ClientsTypeOK, Watched, WriteFails
  <2>4. PipeLimit \in Nat \ {0} /\ pipe[target] \in 0..PipeLimit
    BY <1>3, <2>1, ClientsAssumption DEF ClientsTypeOK
  <2>5. pipe[target] > 0
    BY <1>3, <2>3, <2>4 DEF CanWrite
  <2>6. peer[target] = "silent"
    BY <1>3, <2>1, <2>5 DEF ClientsTypeOK, CanRead
  <2>7. watch[target] = "watch"
    BY <1>3, <2>1, <2>3 DEF Watched
  <2>8. reply[target] # "attach"
    BY <1>3, <2>3, <2>6, <2>7 DEF Expires, ClosesFirst, Attached
  <2>9. QED
    BY <1>3, <2>1, <2>6, <2>8 DEF ClientsTypeOK
<1>4. ClientsTypeOK /\ Members /\ Views /\ Watched => LockHolderGoesOn
  BY <1>3 DEF LockHolderGoesOn
<1>5. QED
  BY <1>1, <1>2, <1>4, PTL DEF ClientsSpec
=============================================================================
