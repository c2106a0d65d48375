------------------------ MODULE TransferQueueProofs ------------------------
(***************************************************************************)
(* Theorems about TransferQueue for every number of tasks, hosts, files,    *)
(* every concurrency setting and every bound.                              *)
(***************************************************************************)
EXTENDS TransferQueue, FiniteSetTheorems, TLAPS

\* Every state of the transfer service is well typed, whatever the commands, the
\* scheduler and the workers do.
THEOREM TypeCorrect == Spec => []TypeOK
<1>0. Tasks \subseteq Nat /\ MaxRuns \in Nat /\ MaxConfigErrors \in Nat
  BY TransferAssumption DEF TransferAssumption
<1> USE <1>0
<1>1. Init => TypeOK
  <2> SUFFICES ASSUME Init PROVE TypeOK
    OBVIOUS
  <2>1. status \in [Tasks -> Status] /\ pc \in [Workers -> WorkerPc]
    BY DEF Init, Status, WorkerPc
  <2>2. running \in [Tasks -> 0 .. MaxRuns] /\ runs \in [Tasks -> 0 .. MaxRuns]
    BY DEF Init
  <2>3. canceled \subseteq Workers /\ file \in [Workers -> Nat]
    BY DEF Init
  <2>4. dest \in [Paths -> File]
    BY DEF Init, File
  <2>5. scheduling \in BOOLEAN /\ pending \in Nat
    BY DEF Init
  <2>6. configErrors \in 0 .. MaxConfigErrors /\ prompting \subseteq Workers
    BY DEF Init
  <2>7. QED
    BY <2>1, <2>2, <2>3, <2>4, <2>5, <2>6 DEF TypeOK
<1>2. TypeOK /\ [Next]_vars => TypeOK'
  <2> SUFFICES ASSUME TypeOK, [Next]_vars PROVE TypeOK'
    OBVIOUS
  <2> USE DEF TypeOK, Status, WorkerPc
  <2>1. ASSUME NEW t \in Tasks, CreateTask(t) PROVE TypeOK'
    BY <2>1 DEF CreateTask
  <2>2. ASSUME NEW t \in Tasks, CancelTask(t) PROVE TypeOK'
    BY <2>2 DEF CancelTask
  <2>3. ASSUME NEW t \in Tasks, RetryTask(t) PROVE TypeOK'
    BY <2>3 DEF RetryTask
  <2>4. CASE ScheduleBegin
    BY <2>4 DEF ScheduleBegin
  <2>5. ASSUME NEW t \in Tasks, ScheduleOne(t) PROVE TypeOK'
    BY <2>5 DEF ScheduleOne, Workers
  <2>6. CASE ScheduleEnd
    BY <2>6 DEF ScheduleEnd
  <2>7. CASE ScheduleFails
    BY <2>7 DEF ScheduleFails
  <2>8. ASSUME NEW w \in Workers, Begin(w) PROVE TypeOK'
    BY <2>8 DEF Begin, Goto, AtFile
  <2>9. ASSUME NEW w \in Workers, Probe(w) PROVE TypeOK'
    BY <2>9 DEF Probe, Goto
  <2>10. ASSUME NEW w \in Workers, Open(w) PROVE TypeOK'
    <3>1. [by |-> w, whole |-> FALSE] \in File
      BY DEF File
    <3>2. dest' \in [Paths -> File] /\ pc' \in [Workers -> WorkerPc]
      BY <2>10, <3>1 DEF Open, Goto
    <3>3. QED
      BY <2>10, <3>2 DEF Open
  <2>11. ASSUME NEW w \in Workers, Copy(w) PROVE TypeOK'
    <3>1. [by |-> w, whole |-> TRUE] \in File
      BY DEF File
    <3>2. dest' \in [Paths -> File]
      <4>1. PICK v \in {[by |-> w, whole |-> TRUE], dest[Path(w)]} :
              dest' = [dest EXCEPT ![Path(w)] = v] \/ dest' = dest
        BY <2>11 DEF Copy
      <4>2. CASE Path(w) \in Paths
        BY <3>1, <4>1, <4>2
      <4>3. CASE Path(w) \notin Paths
        BY <4>1, <4>3
      <4>4. QED
        BY <4>2, <4>3
    <3>3. AtFile(w, file[w] + 1) \in WorkerPc
      BY DEF AtFile
    <3>4. \E l \in WorkerPc : pc' = [pc EXCEPT ![w] = l]
      BY <2>11, <3>3 DEF Copy, Goto
    <3>5. file' = file \/ file' = [file EXCEPT ![w] = @ + 1]
      BY <2>11 DEF Copy
    <3>6. /\ UNCHANGED <<status, running, runs, canceled>>
          /\ UNCHANGED <<scheduling, pending, configErrors, prompting>>
      BY <2>11 DEF Copy
    <3>7. pc' \in [Workers -> WorkerPc]
      BY <3>4
    <3>8. file' \in [Workers -> Nat]
      BY <3>5
    <3>9. QED
      BY <3>2, <3>6, <3>7, <3>8
  <2>12. ASSUME NEW w \in Workers, Finish(w) PROVE TypeOK'
    BY <2>12 DEF Finish, Goto, Verdict, EntryAfter, PendingAfter, Workers
  <2>13. ASSUME NEW p \in Paths, RemovePartial(p) PROVE TypeOK'
    BY <2>13 DEF RemovePartial, File
  <2>14. ASSUME NEW w \in Workers, Prompt(w) \/ Answer(w) PROVE TypeOK'
    BY <2>14 DEF Prompt, Answer
  <2>15. CASE UNCHANGED vars
    BY <2>15 DEF vars
  <2>16. QED
    BY <2>1, <2>2, <2>3, <2>4, <2>5, <2>6, <2>7, <2>8, <2>9, <2>10, <2>11, <2>12,
       <2>13, <2>14, <2>15 DEF Next, ScheduleStep, WorkerStep
<1>3. QED
  BY <1>1, <1>2, PTL DEF Spec

-----------------------------------------------------------------------------

\* The status of a task and the entry of the map agree in every reachable state: the
\* retry command's test of the map and its test of the status never disagree.
THEOREM StatusEntry == Spec => []StatusMatchesEntry
<1>1. Init => StatusMatchesEntry
  BY DEF Init, StatusMatchesEntry
<1>2. TypeOK /\ StatusMatchesEntry /\ [Next]_vars => StatusMatchesEntry'
  <2> SUFFICES ASSUME TypeOK, StatusMatchesEntry, [Next]_vars
               PROVE  StatusMatchesEntry'
    OBVIOUS
  <2> USE DEF TypeOK, StatusMatchesEntry
  <2>1. ASSUME NEW t \in Tasks, CreateTask(t) \/ CancelTask(t) \/ RetryTask(t)
        PROVE  StatusMatchesEntry'
    BY <2>1 DEF CreateTask, CancelTask, RetryTask
  <2>2. ASSUME NEW t \in Tasks, ScheduleOne(t) PROVE StatusMatchesEntry'
    BY <2>2 DEF ScheduleOne
  <2>3. ASSUME NEW w \in Workers, Finish(w) PROVE StatusMatchesEntry'
    BY <2>3 DEF Finish, Verdict, EntryAfter, Workers
  <2>4. ASSUME UNCHANGED <<status, running>> PROVE StatusMatchesEntry'
    BY <2>4
  <2>5. ASSUME NEW w \in Workers, Begin(w) \/ Probe(w) \/ Open(w) \/ Copy(w)
                               \/ Prompt(w) \/ Answer(w)
        PROVE  UNCHANGED <<status, running>>
    BY <2>5 DEF Begin, Probe, Open, Copy, Prompt, Answer
  <2>6. ScheduleBegin \/ ScheduleEnd \/ ScheduleFails \/ UNCHANGED vars
          => UNCHANGED <<status, running>>
    BY DEF ScheduleBegin, ScheduleEnd, ScheduleFails, vars
  <2>7. ASSUME NEW p \in Paths, RemovePartial(p) PROVE UNCHANGED <<status, running>>
    BY <2>7 DEF RemovePartial
  <2>8. QED
    BY <2>1, <2>2, <2>3, <2>4, <2>5, <2>6, <2>7 DEF Next, ScheduleStep, WorkerStep
<1>3. QED
  BY <1>1, <1>2, TypeCorrect, PTL DEF Spec

-----------------------------------------------------------------------------

\* A finite set that gains at most one element from another stays within one more.
LEMMA OneMore ==
  ASSUME NEW S, IsFiniteSet(S), NEW x, NEW T, T \subseteq S \cup {x},
         NEW n \in Nat, Cardinality(S) < n
  PROVE  Cardinality(T) <= n
<1>1. Cardinality(S) \in Nat
  BY FS_CardinalityType
<1>2. IsFiniteSet(S \cup {x})
  BY FS_AddElement
<1>3. Cardinality(S \cup {x}) = IF x \in S THEN Cardinality(S) ELSE Cardinality(S) + 1
  BY FS_AddElement
<1>4. IsFiniteSet(T) /\ Cardinality(T) <= Cardinality(S \cup {x})
  BY <1>2, FS_Subset
<1>5. Cardinality(T) \in Nat
  BY <1>4, FS_CardinalityType
<1>6. QED
  BY <1>1, <1>3, <1>4, <1>5

\* A subset of a finite set within a limit is within the limit.
LEMMA NoMore ==
  ASSUME NEW S, IsFiniteSet(S), NEW T, T \subseteq S, NEW n \in Nat, Cardinality(S) <= n
  PROVE  Cardinality(T) <= n
  BY FS_Subset, FS_CardinalityType

\* The configured global and per-host concurrency bound the entries of the map, for
\* every setting: only the scheduling loop adds an entry, and it tests both counts
\* under the mutex before each one.
THEOREM LimitsHold == Spec => []EntriesWithinLimits
<1>0. IsFiniteSet(Tasks) /\ GlobalLimit \in Nat /\ PerHostLimit \in Nat
  BY TransferAssumption DEF TransferAssumption
<1> USE <1>0
<1>1. Init => EntriesWithinLimits
  <2> SUFFICES ASSUME Init PROVE EntriesWithinLimits
    OBVIOUS
  <2>1. Entries = {} /\ \A h \in Hosts : HostLoad(h) = {}
    BY DEF Init, Entries, HostLoad
  <2>2. Cardinality({}) = 0
    BY FS_EmptySet
  <2>3. Cardinality(Entries) = 0 /\ \A h \in Hosts : Cardinality(HostLoad(h)) = 0
    BY <2>1, <2>2
  <2>4. QED
    BY <2>3 DEF EntriesWithinLimits
<1>2. TypeOK /\ EntriesWithinLimits /\ [Next]_vars => EntriesWithinLimits'
  <2> SUFFICES ASSUME TypeOK, EntriesWithinLimits, [Next]_vars
               PROVE  EntriesWithinLimits'
    OBVIOUS
  <2>0. IsFiniteSet(Entries) /\ \A h \in Hosts : IsFiniteSet(HostLoad(h))
    BY FS_Subset DEF Entries, HostLoad
  <2>1. ASSUME Entries' \subseteq Entries PROVE EntriesWithinLimits'
    <3>1. \A h \in Hosts : HostLoad(h)' \subseteq HostLoad(h)
      BY <2>1 DEF HostLoad
    <3>2. Cardinality(Entries') <= GlobalLimit
      BY <2>0, <2>1, NoMore DEF EntriesWithinLimits
    <3>3. ASSUME NEW h \in Hosts PROVE Cardinality(HostLoad(h)') <= PerHostLimit
      BY <2>0, <3>1, NoMore DEF EntriesWithinLimits
    <3>4. QED
      BY <3>2, <3>3 DEF EntriesWithinLimits
  <2>2. ASSUME NEW t \in Tasks, ScheduleOne(t) PROVE EntriesWithinLimits'
    <3>1. Entries' \subseteq Entries \cup {t}
      BY <2>2 DEF ScheduleOne, Entries, TypeOK
    <3>2. Cardinality(Entries) < GlobalLimit
      BY <2>2 DEF ScheduleOne, CanStart
    <3>3. Cardinality(Entries') <= GlobalLimit
      BY <2>0, <3>1, <3>2, OneMore
    <3>4. ASSUME NEW h \in Hosts PROVE Cardinality(HostLoad(h)') <= PerHostLimit
      <4>1. CASE h \in HostsOf[t]
        <5>1. HostLoad(h)' \subseteq HostLoad(h) \cup {t}
          BY <3>1 DEF HostLoad
        <5>2. Cardinality(HostLoad(h)) < PerHostLimit
          BY <2>2, <4>1 DEF ScheduleOne, CanStart, Eligible
        <5>3. QED
          BY <2>0, <5>1, <5>2, OneMore
      <4>2. CASE h \notin HostsOf[t]
        <5>1. HostLoad(h)' \subseteq HostLoad(h)
          BY <3>1, <4>2 DEF HostLoad
        <5>2. QED
          BY <2>0, <5>1, NoMore DEF EntriesWithinLimits
      <4>3. QED
        BY <4>1, <4>2
    <3>5. QED
      BY <3>3, <3>4 DEF EntriesWithinLimits
  <2>3. ASSUME NEW t \in Tasks, CancelTask(t) PROVE Entries' \subseteq Entries
    BY <2>3 DEF CancelTask, Entries, TypeOK
  <2>4. ASSUME NEW w \in Workers, Finish(w) PROVE Entries' \subseteq Entries
    BY <2>4 DEF Finish, EntryAfter, Entries, TypeOK, Workers
  <2>5. ASSUME UNCHANGED running PROVE Entries' \subseteq Entries
    BY <2>5 DEF Entries
  <2>6. ASSUME NEW t \in Tasks, CreateTask(t) \/ RetryTask(t) PROVE UNCHANGED running
    BY <2>6 DEF CreateTask, RetryTask
  <2>7. ASSUME NEW w \in Workers, Begin(w) \/ Probe(w) \/ Open(w) \/ Copy(w)
                               \/ Prompt(w) \/ Answer(w)
        PROVE  UNCHANGED running
    BY <2>7 DEF Begin, Probe, Open, Copy, Prompt, Answer
  <2>8. ScheduleBegin \/ ScheduleEnd \/ ScheduleFails \/ UNCHANGED vars
          => UNCHANGED running
    BY DEF ScheduleBegin, ScheduleEnd, ScheduleFails, vars
  <2>9. ASSUME NEW p \in Paths, RemovePartial(p) PROVE UNCHANGED running
    BY <2>9 DEF RemovePartial
  <2>10. QED
    BY <2>1, <2>2, <2>3, <2>4, <2>5, <2>6, <2>7, <2>8, <2>9
       DEF Next, ScheduleStep, WorkerStep
<1>3. QED
  BY <1>1, <1>2, TypeCorrect, PTL DEF Spec

-----------------------------------------------------------------------------

\* A canceled task stays canceled until it is retried, whatever a late worker
\* reports.
THEOREM CanceledStays == Spec => CanceledOnlyRetried
<1> DEFINE Stays == \A t \in Tasks : status[t] = "canceled"
                                       => status'[t] \in {"canceled", "queued"}
<1>1. TypeOK /\ [Next]_vars => [Stays]_vars
  <2> SUFFICES ASSUME TypeOK, Next PROVE Stays
    BY DEF vars
  <2>0. status \in [Tasks -> Status]
    BY DEF TypeOK
  <2>1. ASSUME NEW t \in Tasks, CreateTask(t) \/ CancelTask(t) \/ RetryTask(t)
        PROVE  Stays
    BY <2>0, <2>1 DEF CreateTask, CancelTask, RetryTask
  <2>2. ASSUME NEW t \in Tasks, ScheduleOne(t) PROVE Stays
    BY <2>0, <2>2 DEF ScheduleOne, CanStart, Eligible
  <2>3. ASSUME NEW w \in Workers, Finish(w) PROVE Stays
    BY <2>0, <2>3 DEF Finish, Verdict, Workers
  <2>4. ASSUME UNCHANGED status PROVE Stays
    BY <2>4
  <2>5. ASSUME NEW w \in Workers, Begin(w) \/ Probe(w) \/ Open(w) \/ Copy(w)
                               \/ Prompt(w) \/ Answer(w)
        PROVE  UNCHANGED status
    BY <2>5 DEF Begin, Probe, Open, Copy, Prompt, Answer
  <2>6. ScheduleBegin \/ ScheduleEnd \/ ScheduleFails => UNCHANGED status
    BY DEF ScheduleBegin, ScheduleEnd, ScheduleFails
  <2>7. ASSUME NEW p \in Paths, RemovePartial(p) PROVE UNCHANGED status
    BY <2>7 DEF RemovePartial
  <2>8. QED
    BY <2>1, <2>2, <2>3, <2>4, <2>5, <2>6, <2>7 DEF Next, ScheduleStep, WorkerStep
<1>2. QED
  BY <1>1, TypeCorrect, PTL DEF Spec, CanceledOnlyRetried

-----------------------------------------------------------------------------
(* The destination files.                                                   *)

\* What a worker has done: every file before the one it is at is its own and whole,
\* the one it copies is its own, and it has left no file out when it succeeds.
Progress(w) ==
    /\ file[w] \in 1 .. Len(Plan[w[1]]) + 1
    /\ \A i \in 1 .. file[w] - 1 : dest[Plan[w[1]][i]] = [by |-> w, whole |-> TRUE]
    /\ pc[w] \in {"none", "planned", "start"} => file[w] = 1
    /\ pc[w] \in {"probe", "open", "copy"} => file[w] <= Len(Plan[w[1]])
    /\ pc[w] = "copy" => dest[Path(w)] = [by |-> w, whole |-> FALSE]
    /\ pc[w] = "ok" => file[w] = Len(Plan[w[1]]) + 1

\* A run that has not been started has no worker.
Unstarted == \A w \in Workers : w[2] > runs[w[1]] => pc[w] = "none"

FilesInv == CompletedIsWhole /\ Unstarted /\ \A w \in Workers : Progress(w)

\* The plan of a task is a sequence of destination files.
LEMMA PlanType ==
  ASSUME NEW t \in Tasks
  PROVE  /\ Len(Plan[t]) \in Nat
         /\ DOMAIN Plan[t] = 1 .. Len(Plan[t])
         /\ \A i \in 1 .. Len(Plan[t]) : Plan[t][i] \in Paths
<1>1. Plan[t] \in Seq(Paths)
  BY TransferAssumption DEF TransferAssumption
<1>2. QED
  BY <1>1

\* The effects a step may have on the destinations.
LEMMA DestStep ==
  ASSUME TypeOK, Next
  PROVE  \/ UNCHANGED dest
         \/ \E w \in Workers : /\ dest[Path(w)] = Absent
                               /\ dest' = [dest EXCEPT ![Path(w)] = [by |-> w, whole |-> FALSE]]
         \/ \E w \in Workers : /\ dest[Path(w)].by = w
                               /\ dest' = [dest EXCEPT ![Path(w)] = [by |-> w, whole |-> TRUE]]
                               /\ file'[w] # file[w]
         \/ \E p \in Paths : /\ ~dest[p].whole
                             /\ pc[dest[p].by] = "done"
                             /\ dest' = [dest EXCEPT ![p] = Absent]
<1>1. ASSUME NEW w \in Workers, Copy(w), dest[Path(w)].by # w PROVE UNCHANGED dest
  <2>1. dest' = dest \/ dest' = [dest EXCEPT ![Path(w)] = dest[Path(w)]]
    BY <1>1 DEF Copy
  <2>2. QED
    BY <2>1 DEF TypeOK
<1>2. ASSUME NEW w \in Workers, Copy(w), dest[Path(w)].by = w
      PROVE  \/ UNCHANGED dest
             \/ /\ dest' = [dest EXCEPT ![Path(w)] = [by |-> w, whole |-> TRUE]]
                /\ file'[w] # file[w]
  BY <1>2 DEF Copy, TypeOK
<1>3. ASSUME NEW w \in Workers, Open(w)
      PROVE  \/ UNCHANGED dest
             \/ /\ dest[Path(w)] = Absent
                /\ dest' = [dest EXCEPT ![Path(w)] = [by |-> w, whole |-> FALSE]]
  BY <1>3 DEF Open, CreateNew
<1>4. ASSUME NEW p \in Paths, RemovePartial(p)
      PROVE  /\ ~dest[p].whole
             /\ pc[dest[p].by] = "done"
             /\ dest' = [dest EXCEPT ![p] = Absent]
  BY <1>4 DEF RemovePartial
<1>5. ASSUME NEW w \in Workers, Begin(w) \/ Probe(w) \/ Finish(w) \/ Prompt(w) \/ Answer(w)
      PROVE  UNCHANGED dest
  BY <1>5 DEF Begin, Probe, Finish, Prompt, Answer
<1>6. ASSUME NEW t \in Tasks, CreateTask(t) \/ CancelTask(t) \/ RetryTask(t) \/ ScheduleOne(t)
      PROVE  UNCHANGED dest
  BY <1>6 DEF CreateTask, CancelTask, RetryTask, ScheduleOne
<1>7. ScheduleBegin \/ ScheduleEnd \/ ScheduleFails => UNCHANGED dest
  BY DEF ScheduleBegin, ScheduleEnd, ScheduleFails
<1>8. QED
  BY <1>1, <1>2, <1>3, <1>4, <1>5, <1>6, <1>7 DEF Next, ScheduleStep, WorkerStep

\* No step of the service replaces a file that exists at a destination.
THEOREM NothingOverwritten == Spec => NeverOverwrites
<1> DEFINE Keeps == \A p \in Paths : dest[p] # Absent
                                       => dest'[p] = Absent \/ dest'[p].by = dest[p].by
<1>1. TypeOK /\ [Next]_vars => [Keeps]_vars
  <2> SUFFICES ASSUME TypeOK, Next, NEW p \in Paths, dest[p] # Absent
               PROVE  dest'[p] = Absent \/ dest'[p].by = dest[p].by
    BY DEF vars
  <2>0. dest \in [Paths -> File]
    BY DEF TypeOK
  <2>1. QED
    BY <2>0, DestStep
<1>2. QED
  BY <1>1, TypeCorrect, PTL DEF Spec, NeverOverwrites

\* A whole file stays as it is.
LEMMA WholeStays ==
  ASSUME TypeOK, Next, NEW p \in Paths, dest[p].whole
  PROVE  dest'[p] = dest[p]
<1>1. dest \in [Paths -> File] /\ dest[p] # Absent
  BY DEF TypeOK, Absent
<1>2. dest[p] = [by |-> dest[p].by, whole |-> TRUE]
  BY <1>1 DEF File
<1>3. ASSUME NEW w \in Workers, dest[Path(w)] = Absent,
             dest' = [dest EXCEPT ![Path(w)] = [by |-> w, whole |-> FALSE]]
      PROVE  dest'[p] = dest[p]
  BY <1>1, <1>3
<1>4. ASSUME NEW w \in Workers, dest[Path(w)].by = w,
             dest' = [dest EXCEPT ![Path(w)] = [by |-> w, whole |-> TRUE]]
      PROVE  dest'[p] = dest[p]
  BY <1>1, <1>2, <1>4
<1>5. ASSUME NEW q \in Paths, ~dest[q].whole, dest' = [dest EXCEPT ![q] = Absent]
      PROVE  dest'[p] = dest[p]
  BY <1>1, <1>5
<1>6. QED
  BY <1>3, <1>4, <1>5, DestStep

\* The partial file of a worker that copies stays until the worker has copied it.
LEMMA PartialStays ==
  ASSUME TypeOK, Next, NEW w \in Workers, Path(w) \in Paths,
         dest[Path(w)] = [by |-> w, whole |-> FALSE], pc[w] = "copy", file'[w] = file[w]
  PROVE  dest'[Path(w)] = dest[Path(w)]
<1>1. dest \in [Paths -> File] /\ dest[Path(w)].by = w /\ file[w] \in Nat
  BY DEF TypeOK
<1>2. w # <<0, 0>>
  BY TransferAssumption DEF TransferAssumption, Workers
<1>3. dest[Path(w)] # Absent
  BY <1>1, <1>2 DEF Absent
<1>4. QED
  BY <1>1, <1>3, DestStep

\* The files a worker has copied stay whole and its own.
LEMMA CopiedStay ==
  ASSUME TypeOK, Next, NEW w \in Workers, Progress(w), NEW i \in 1 .. file[w] - 1
  PROVE  dest'[Plan[w[1]][i]] = [by |-> w, whole |-> TRUE]
<1>1. /\ Len(Plan[w[1]]) \in Nat
      /\ \A j \in 1 .. Len(Plan[w[1]]) : Plan[w[1]][j] \in Paths
  BY PlanType DEF Workers
<1>2. file[w] \in 1 .. Len(Plan[w[1]]) + 1
  BY DEF Progress
<1>3. Plan[w[1]][i] \in Paths
  BY <1>1, <1>2
<1>4. dest[Plan[w[1]][i]] = [by |-> w, whole |-> TRUE]
  BY DEF Progress
<1>5. QED
  BY <1>3, <1>4, WholeStays

\* A worker that stays at its file keeps its progress, whatever the others do.
LEMMA ProgressKept ==
  ASSUME TypeOK, Next, NEW w \in Workers, Progress(w), file'[w] = file[w],
         \/ pc'[w] = pc[w]
         \/ pc'[w] \in {"err", "done"}
         \/ pc[w] = "none" /\ pc'[w] = "planned"
         \/ pc[w] = "planned" /\ pc'[w] = "start"
         \/ pc[w] = "probe" /\ pc'[w] = "open"
  PROVE  Progress(w)'
<1> DEFINE P == Plan[w[1]]
<1>0. /\ Len(P) \in Nat
      /\ DOMAIN P = 1 .. Len(P)
      /\ \A i \in 1 .. Len(P) : P[i] \in Paths
  BY PlanType DEF Workers
<1>1. file'[w] \in 1 .. Len(P) + 1
  BY DEF Progress
<1>2. \A i \in 1 .. file'[w] - 1 : dest'[P[i]] = [by |-> w, whole |-> TRUE]
  BY CopiedStay
<1>3. /\ pc'[w] \in {"none", "planned", "start"} => file'[w] = 1
      /\ pc'[w] \in {"probe", "open", "copy"} => file'[w] <= Len(P)
      /\ pc'[w] = "ok" => file'[w] = Len(P) + 1
  BY DEF Progress
<1>4. ASSUME pc'[w] = "copy" PROVE dest'[P[file'[w]]] = [by |-> w, whole |-> FALSE]
  <2>1. pc[w] = "copy" /\ Path(w) \in Paths /\ dest[Path(w)] = [by |-> w, whole |-> FALSE]
    BY <1>0, <1>4 DEF Progress, Path
  <2>2. QED
    BY <2>1, PartialStays DEF Path
<1>5. QED
  BY <1>1, <1>2, <1>3, <1>4 DEF Progress, Path

\* So does one that reaches its first file.
LEMMA ProgressBegins ==
  ASSUME TypeOK, NEW w \in Workers, Progress(w), Begin(w)
  PROVE  Progress(w)'
<1>0. Len(Plan[w[1]]) \in Nat
  BY PlanType DEF Workers
<1>1. /\ pc[w] = "start" /\ file' = file /\ dest' = dest
      /\ pc'[w] \in {"err", AtFile(w, 1)}
  BY DEF Begin, Goto, TypeOK
<1>2. file[w] = 1
  BY <1>1 DEF Progress
<1>3. \/ pc'[w] = "ok" /\ Len(Plan[w[1]]) = 0
      \/ pc'[w] = "probe" /\ 1 <= Len(Plan[w[1]])
      \/ pc'[w] = "err"
  BY <1>0, <1>1 DEF AtFile
<1>4. QED
  BY <1>0, <1>1, <1>2, <1>3 DEF Progress, Path

\* So does one that creates the file it is at.
LEMMA ProgressOpens ==
  ASSUME TypeOK, Next, NEW w \in Workers, Progress(w), Open(w)
  PROVE  Progress(w)'
<1> DEFINE P == Plan[w[1]]
<1>0. /\ Len(P) \in Nat
      /\ \A i \in 1 .. Len(P) : P[i] \in Paths
  BY PlanType DEF Workers
<1>1. pc[w] = "open" /\ file' = file /\ file[w] \in 1 .. Len(P)
  BY <1>0 DEF Open, Progress
<1>2. CASE pc'[w] = "err"
  BY <1>1, <1>2, ProgressKept
<1>3. CASE /\ pc'[w] = "copy"
           /\ dest' = [dest EXCEPT ![Path(w)] = [by |-> w, whole |-> FALSE]]
  <2>1. dest'[Path(w)] = [by |-> w, whole |-> FALSE]
    BY <1>0, <1>1, <1>3 DEF TypeOK, Path
  <2>2. \A i \in 1 .. file[w] - 1 : dest'[P[i]] = [by |-> w, whole |-> TRUE]
    BY CopiedStay
  <2>3. QED
    BY <1>0, <1>1, <1>3, <2>1, <2>2 DEF Progress, Path
<1>4. QED
  BY <1>2, <1>3 DEF Open, Goto, TypeOK

\* So does one that copies it to its end.
LEMMA ProgressCopies ==
  ASSUME TypeOK, Next, NEW w \in Workers, Progress(w), Copy(w)
  PROVE  Progress(w)'
<1> DEFINE P == Plan[w[1]]
<1>0. /\ Len(P) \in Nat
      /\ \A i \in 1 .. Len(P) : P[i] \in Paths
  BY PlanType DEF Workers
<1>1. /\ pc[w] = "copy" /\ file[w] \in 1 .. Len(P)
      /\ dest[Path(w)] = [by |-> w, whole |-> FALSE]
  BY <1>0 DEF Copy, Progress
<1>2. CASE pc'[w] = "err" /\ file' = file
  BY <1>1, <1>2, ProgressKept
<1>3. CASE /\ pc'[w] = AtFile(w, file[w] + 1)
           /\ file' = [file EXCEPT ![w] = @ + 1]
           /\ dest' = [dest EXCEPT ![Path(w)] = [by |-> w, whole |-> TRUE]]
  <2>1. file'[w] = file[w] + 1
    BY <1>3 DEF TypeOK
  <2>2. dest'[P[file[w]]] = [by |-> w, whole |-> TRUE]
    BY <1>0, <1>1, <1>3 DEF TypeOK, Path
  <2>3. \A i \in 1 .. file[w] - 1 : dest'[P[i]] = [by |-> w, whole |-> TRUE]
    BY CopiedStay
  <2>4. \A i \in 1 .. file'[w] - 1 : dest'[P[i]] = [by |-> w, whole |-> TRUE]
    <3>1. \A i \in 1 .. file'[w] - 1 : i = file[w] \/ i \in 1 .. file[w] - 1
      BY <1>0, <1>1, <2>1
    <3>2. QED
      BY <2>2, <2>3, <3>1
  <2>5. \/ pc'[w] = "ok" /\ file[w] + 1 > Len(P)
        \/ pc'[w] = "err"
        \/ pc'[w] = "probe" /\ file[w] + 1 <= Len(P)
    BY <1>0, <1>1, <1>3 DEF AtFile
  <2>6. file'[w] \in 1 .. Len(P) + 1
    BY <1>0, <1>1, <2>1
  <2>7. \/ pc'[w] = "ok" /\ file'[w] = Len(P) + 1
        \/ pc'[w] = "err"
        \/ pc'[w] = "probe" /\ file'[w] <= Len(P)
    BY <1>0, <1>1, <2>1, <2>5
  <2>8. QED
    BY <2>4, <2>6, <2>7 DEF Progress
<1>4. QED
  BY <1>1, <1>2, <1>3 DEF Copy, Goto, TypeOK

\* Every step keeps what every worker has done.
LEMMA ProgressInductive ==
  ASSUME TypeOK, Next, Unstarted, \A w \in Workers : Progress(w)
  PROVE  \A w \in Workers : Progress(w)'
<1> SUFFICES ASSUME NEW w \in Workers PROVE Progress(w)'
  OBVIOUS
<1>1. pc \in [Workers -> WorkerPc] /\ file \in [Workers -> Nat]
  BY DEF TypeOK
<1>2. ASSUME NEW v \in Workers, Begin(v) \/ Probe(v) \/ Open(v) \/ Copy(v) \/ Finish(v), v # w
      PROVE  file'[w] = file[w] /\ pc'[w] = pc[w]
  BY <1>1, <1>2 DEF Begin, Probe, Open, Copy, Finish, Goto
<1>3. CASE Begin(w)
  BY <1>3, ProgressBegins
<1>4. CASE Open(w)
  BY <1>4, ProgressOpens
<1>5. CASE Copy(w)
  BY <1>5, ProgressCopies
<1>6. CASE Probe(w) \/ Finish(w)
  <2>1. file'[w] = file[w]
    BY <1>6 DEF Probe, Finish
  <2>2. Probe(w) => (pc'[w] = "err" \/ (pc[w] = "probe" /\ pc'[w] = "open"))
    BY <1>1 DEF Probe, Goto
  <2>3. Finish(w) => pc'[w] = "done"
    BY <1>1 DEF Finish, Goto
  <2>4. QED
    BY <1>6, <2>1, <2>2, <2>3, ProgressKept
<1>7. ASSUME NEW t \in Tasks, CreateTask(t) \/ CancelTask(t) \/ RetryTask(t)
      PROVE  file'[w] = file[w] /\ pc'[w] = pc[w]
  BY <1>7 DEF CreateTask, CancelTask, RetryTask
<1>8. ASSUME NEW p \in Paths, RemovePartial(p)
      PROVE  file'[w] = file[w] /\ pc'[w] = pc[w]
  BY <1>8 DEF RemovePartial
<1>8b. ASSUME NEW v \in Workers, Prompt(v) \/ Answer(v)
       PROVE  file'[w] = file[w] /\ pc'[w] = pc[w]
  BY <1>8b DEF Prompt, Answer
<1>9. ScheduleBegin \/ ScheduleFails => file'[w] = file[w] /\ pc'[w] = pc[w]
  BY DEF ScheduleBegin, ScheduleFails
<1>10. CASE ScheduleEnd
  <2>1. /\ file'[w] = file[w]
        /\ pc'[w] = pc[w] \/ (pc[w] = "planned" /\ pc'[w] = "start")
    BY <1>1, <1>10 DEF ScheduleEnd
  <2>2. QED
    BY <2>1, ProgressKept
<1>11. ASSUME NEW t \in Tasks, ScheduleOne(t) PROVE Progress(w)'
  <2>1. runs[t] \in 0 .. MaxRuns /\ MaxRuns \in Nat
    BY TransferAssumption DEF TransferAssumption, TypeOK
  <2>2. w = <<t, runs[t] + 1>> => pc[w] = "none"
    BY <2>1 DEF Unstarted
  <2>3. /\ file'[w] = file[w]
        /\ pc'[w] = IF w = <<t, runs[t] + 1>> THEN "planned" ELSE pc[w]
    BY <1>1, <1>11 DEF ScheduleOne
  <2>4. QED
    BY <2>2, <2>3, ProgressKept
<1>12. QED
  BY <1>2, <1>3, <1>4, <1>5, <1>6, <1>7, <1>8, <1>9, <1>10, <1>11, <1>8b, ProgressKept
     DEF Next, ScheduleStep, WorkerStep

\* Runs start in order, so a run that has not been started stays without a worker.
LEMMA UnstartedInductive ==
  ASSUME TypeOK, Next, Unstarted
  PROVE  Unstarted'
<1> SUFFICES ASSUME NEW w \in Workers, w[2] > runs'[w[1]] PROVE pc'[w] = "none"
  BY DEF Unstarted
<1>1. /\ runs \in [Tasks -> 0 .. MaxRuns] /\ pc \in [Workers -> WorkerPc]
      /\ MaxRuns \in Nat /\ w[1] \in Tasks /\ w[2] \in Nat
  BY TransferAssumption DEF TransferAssumption, TypeOK, Workers
<1>2. CASE runs' = runs
  <2>1. pc[w] = "none"
    BY <1>2 DEF Unstarted
  <2>2. ASSUME NEW v \in Workers, WorkerStep(v) PROVE pc'[w] = "none"
    BY <1>1, <2>1, <2>2 DEF WorkerStep, Begin, Probe, Open, Copy, Finish, Goto
  <2>3. ASSUME NEW t \in Tasks, CreateTask(t) \/ CancelTask(t) \/ RetryTask(t)
        PROVE  pc'[w] = "none"
    BY <2>1, <2>3 DEF CreateTask, CancelTask, RetryTask
  <2>4. ASSUME NEW p \in Paths, RemovePartial(p) PROVE pc'[w] = "none"
    BY <2>1, <2>4 DEF RemovePartial
  <2>5. ScheduleBegin \/ ScheduleEnd \/ ScheduleFails => pc'[w] = "none"
    BY <2>1 DEF ScheduleBegin, ScheduleEnd, ScheduleFails
  <2>6. ASSUME NEW t \in Tasks, ScheduleOne(t) PROVE FALSE
    BY <1>1, <1>2, <2>6 DEF ScheduleOne
  <2>7. ASSUME NEW v \in Workers, Prompt(v) \/ Answer(v) PROVE pc'[w] = "none"
    BY <2>1, <2>7 DEF Prompt, Answer
  <2>8. QED
    BY <2>2, <2>3, <2>4, <2>5, <2>6, <2>7 DEF Next, ScheduleStep
<1>3. ASSUME NEW t \in Tasks, ScheduleOne(t) PROVE pc'[w] = "none"
  <2>1. /\ runs' = [runs EXCEPT ![t] = @ + 1]
        /\ pc' = [pc EXCEPT ![<<t, runs[t] + 1>>] = "planned"]
    BY <1>3 DEF ScheduleOne
  <2>2. w # <<t, runs[t] + 1>> /\ w[2] > runs[w[1]]
    BY <1>1, <2>1
  <2>3. QED
    BY <1>1, <2>1, <2>2 DEF Unstarted
<1>4. runs' = runs \/ \E t \in Tasks : ScheduleOne(t)
  BY DEF Next, ScheduleStep, WorkerStep, Begin, Probe, Open, Copy, Finish, Prompt, Answer,
         CreateTask, CancelTask, RetryTask, RemovePartial, ScheduleBegin, ScheduleEnd, ScheduleFails
<1>5. QED
  BY <1>2, <1>3, <1>4

\* Only the worker that has copied its whole plan completes a task.
LEMMA CompletedInductive ==
  ASSUME TypeOK, Next, CompletedIsWhole, \A w \in Workers : Progress(w)
  PROVE  CompletedIsWhole'
<1> SUFFICES ASSUME NEW t \in Tasks, status'[t] = "completed", NEW i \in DOMAIN Plan[t]
             PROVE  dest'[Plan[t][i]].whole /\ dest'[Plan[t][i]].by[1] = t
  BY DEF CompletedIsWhole
<1>1. /\ Len(Plan[t]) \in Nat
      /\ DOMAIN Plan[t] = 1 .. Len(Plan[t])
      /\ Plan[t][i] \in Paths
  BY PlanType
<1>2. status \in [Tasks -> Status]
  BY DEF TypeOK
<1>3. CASE status[t] = "completed"
  <2>1. dest[Plan[t][i]].whole /\ dest[Plan[t][i]].by[1] = t
    BY <1>3 DEF CompletedIsWhole
  <2>2. QED
    BY <1>1, <2>1, WholeStays
<1>4. CASE status[t] # "completed"
  <2>1. PICK w \in Workers : w[1] = t /\ Finish(w) /\ pc[w] = "ok"
    <3>1. ASSUME NEW w \in Workers, Finish(w) PROVE w[1] = t /\ pc[w] = "ok"
      BY <1>2, <1>4, <3>1 DEF Finish, Verdict, Workers
    <3>2. ASSUME NEW u \in Tasks,
                 CreateTask(u) \/ CancelTask(u) \/ RetryTask(u) \/ ScheduleOne(u)
          PROVE  FALSE
      BY <1>2, <1>4, <3>2 DEF CreateTask, CancelTask, RetryTask, ScheduleOne
    <3>3. ASSUME UNCHANGED status PROVE FALSE
      BY <1>4, <3>3
    <3>4. ASSUME NEW w \in Workers, Begin(w) \/ Probe(w) \/ Open(w) \/ Copy(w)
                               \/ Prompt(w) \/ Answer(w)
          PROVE  UNCHANGED status
      BY <3>4 DEF Begin, Probe, Open, Copy, Prompt, Answer
    <3>5. ScheduleBegin \/ ScheduleEnd \/ ScheduleFails => UNCHANGED status
      BY DEF ScheduleBegin, ScheduleEnd, ScheduleFails
    <3>6. ASSUME NEW p \in Paths, RemovePartial(p) PROVE UNCHANGED status
      BY <3>6 DEF RemovePartial
    <3>7. QED
      BY <3>1, <3>2, <3>3, <3>4, <3>5, <3>6 DEF Next, ScheduleStep, WorkerStep
  <2>2. file[w] = Len(Plan[t]) + 1
    BY <2>1 DEF Progress
  <2>3. i \in 1 .. file[w] - 1
    BY <1>1, <2>2
  <2>4. dest'[Plan[t][i]] = [by |-> w, whole |-> TRUE]
    BY <2>1, <2>3, CopiedStay
  <2>5. QED
    BY <2>1, <2>4
<1>5. QED
  BY <1>3, <1>4

\* A completed transfer has left every file of its plan whole at its destination,
\* written by a run of that very task, and nothing has disturbed it since.
THEOREM CompletedWhole == Spec => []CompletedIsWhole
<1>1. Init => FilesInv
  <2> SUFFICES ASSUME Init PROVE FilesInv
    OBVIOUS
  <2>1. CompletedIsWhole
    BY DEF Init, CompletedIsWhole
  <2>2. Unstarted
    BY DEF Init, Unstarted
  <2>3. ASSUME NEW w \in Workers PROVE Progress(w)
    <3>1. Len(Plan[w[1]]) \in Nat
      BY PlanType DEF Workers
    <3>2. file[w] = 1 /\ pc[w] = "none"
      BY DEF Init
    <3>3. QED
      BY <3>1, <3>2 DEF Progress
  <2>4. QED
    BY <2>1, <2>2, <2>3 DEF FilesInv
<1>2. TypeOK /\ FilesInv /\ [Next]_vars => FilesInv'
  <2> SUFFICES ASSUME TypeOK, FilesInv, [Next]_vars PROVE FilesInv'
    OBVIOUS
  <2>1. CASE Next
    BY <2>1, ProgressInductive, UnstartedInductive, CompletedInductive DEF FilesInv
  <2>2. CASE UNCHANGED vars
    <3>1. status' = status /\ runs' = runs /\ pc' = pc /\ file' = file /\ dest' = dest
      BY <2>2 DEF vars
    <3>2. CompletedIsWhole' /\ Unstarted'
      BY <3>1 DEF FilesInv, CompletedIsWhole, Unstarted
    <3>3. ASSUME NEW w \in Workers PROVE Progress(w)'
      BY <3>1 DEF FilesInv, Progress, Path
    <3>4. QED
      BY <3>2, <3>3 DEF FilesInv
  <2>3. QED
    BY <2>1, <2>2
<1>3. FilesInv => CompletedIsWhole
  BY DEF FilesInv
<1>4. QED
  BY <1>1, <1>2, <1>3, TypeCorrect, PTL DEF Spec
\* What the commands, the scheduling loop and the workers keep together: the status of each
\* task, the map of running transfers and its limits.
THEOREM ServiceConsistent == Spec => []ServiceIsConsistent
<1>1. TypeOK /\ StatusMatchesEntry /\ EntriesWithinLimits => ServiceIsConsistent
  BY DEF ServiceIsConsistent
<1>2. QED
  BY <1>1, TypeCorrect, StatusEntry, LimitsHold, PTL
=============================================================================
