---------------------------- MODULE ConfigFiles ----------------------------
(***************************************************************************)
(* The configuration on disk (config.rs): the state file, the main         *)
(* configuration, profiles that override it, and one file for each host in *)
(* the configured host directories.  Every file is written to one          *)
(* temporary file beside it and renamed.  Commands run one at a time on    *)
(* the main thread; the port-forward worker of a host also writes the file *)
(* of that host.  Nothing is locked, and a thread may end between any two  *)
(* steps: an error of the disk, or the end of the application.             *)
(*                                                                         *)
(* A command reads what it needs and then carries out a list of steps.     *)
(* Omitted: what a host file holds besides its id, a version of the user's *)
(* edits and the port of its one forwarded rule; the OpenSSH hosts, which  *)
(* are OpenSshConfig's.                                                    *)
(***************************************************************************)
EXTENDS Naturals, Sequences, FiniteSets, SequencesExt

CONSTANTS Main, Worker,
          WorkerHost,    \* worker -> the host it forwards ports for
          Profile, Default,
          Unset,         \* a setting that a document does not have
          Host, Local,   \* ids of user hosts; the virtual local host
          Dir, DefaultDir,
          ScanOrder,     \* the files a host directory may hold, sorted by path: <<folder, name>>
          Disks,         \* what the disk may hold at first
          Documents,     \* bound: documents that windows send
          MaxCommand, MaxEdit, MaxCopy, MaxFailure
                         \* bounds: commands, edits of a host, hosts changed by hand, failures

Thread == {Main} \cup Worker
NoHost == "none"
ASSUME ConfigFilesAssumption ==
    /\ Main \notin Worker /\ WorkerHost \in [Worker -> Host]
    /\ Default \in Profile /\ {Local, NoHost} \cap Host = {} /\ Local # NoHost
    /\ Unset \notin Host \cup {Local, "vertical_left"}
    /\ DefaultDir \in Dir
    /\ \A i \in DOMAIN ScanOrder, id \in Host : <<ScanOrder[i][1], id>> \in ToSet(ScanOrder)
    /\ {MaxCommand, MaxEdit, MaxCopy, MaxFailure} \subseteq Nat

VARIABLES disk,      \* file -> its content
          temp,      \* file -> the temporary file beside it
          job,       \* thread -> what it is doing
          running,   \* the application has started
          commands,  \* commands so far
          failures,  \* jobs that ended before their last step
          raced,     \* hosts whose file two threads wrote at a time
          copied     \* hosts whose file the user copied or spoiled

vars == <<disk, temp, job, running, commands, failures, raced, copied>>
Counted == <<running, commands, failures, raced, copied>>

-----------------------------------------------------------------------------
(* Files and what they hold.                                               *)

Key == {"default_host", "host_dirs", "tab_bar_orientation"}
NoSettings == [k \in Key |-> Unset]
Settings == [default_host : Host \cup {Local, Unset}, host_dirs : {Unset} \cup Seq(Dir),
             tab_bar_orientation : {Unset, "horizontal", "vertical_left"}]

NoFile == [kind |-> "none"]
Blank == [kind |-> "blank"]
Torn == [kind |-> "torn"]
AppStateFile(active, removed) == [kind |-> "state", active |-> active, removed |-> removed]
Document(settings) == [kind |-> "document", settings |-> settings]
\* port: of the saved rule ("gone" without it, "dynamic" before one is assigned).
ConnectionHostDocument(id, edit, port) ==
    [kind |-> "host", id |-> id, edit |-> edit, port |-> port, valid |-> TRUE]

StateFile == <<"state">>
MainFile == <<"main">>
ProfileFile(p) == <<"profile", p>>
HostFile(d, at) == <<"host", d, at[1], at[2]>>
Folder == {ScanOrder[i][1] : i \in DOMAIN ScanOrder}
HostFiles == {HostFile(d, at) : d \in Dir, at \in ToSet(ScanOrder)}
File == {StateFile, MainFile} \cup {ProfileFile(p) : p \in Profile} \cup HostFiles
NameOf(f) == f[4]

\* What the application writes into a file.  It names the file of a host for its id.
Text(f) ==
    IF f = StateFile THEN [kind : {"state"}, active : Profile, removed : BOOLEAN]
    ELSE IF f \in HostFiles
    THEN [kind : {"host"}, id : Host \cap {NameOf(f)}, edit : 0..MaxEdit,
          port : {"gone", "dynamic", "assigned"}, valid : BOOLEAN]
    ELSE [kind : {"document"}, settings : Settings]

\* At first every file is whole, and a host has one.
ASSUME ConfigDataAssumption ==
    /\ Documents \subseteq Settings
    /\ \A d \in Disks :
        /\ d = [f \in File |-> d[f]] /\ \A f \in File : d[f] \in Text(f) \cup {NoFile}
        /\ \A f, g \in HostFiles : f # g /\ NameOf(f) = NameOf(g) => NoFile \in {d[f], d[g]}

Exists(f) == disk[f] # NoFile
State == IF Exists(StateFile) THEN disk[StateFile] ELSE AppStateFile(Default, FALSE)
Active == ProfileFile(State.active)
SettingsOf(f) == IF Exists(f) THEN disk[f].settings ELSE NoSettings

\* deep_merge: the profile wins.
Effective(k) == IF SettingsOf(Active)[k] # Unset THEN SettingsOf(Active)[k] ELSE SettingsOf(MainFile)[k]
DefaultHost == IF Effective("default_host") = Unset THEN Local ELSE Effective("default_host")
HostDirs == IF Effective("host_dirs") \in {Unset, <<>>} THEN <<DefaultDir>> ELSE Effective("host_dirs")

\* collect_host_toml_files in every directory, and connection_host_path_from_id: a file
\* that cannot be read ends the search with an error, unless its name is the id.
Place == (DOMAIN HostDirs) \X (DOMAIN ScanOrder)
FileAt(p) == HostFile(HostDirs[p[1]], ScanOrder[p[2]])
Before(p, q) == p[1] < q[1] \/ (p[1] = q[1] /\ p[2] < q[2])
Readable(f) == disk[f].kind = "host"
Matches(f, id) == NameOf(f) = id \/ (Readable(f) /\ disk[f].id = id)
PathsOf(id) ==
    LET Found == {p \in Place : Exists(FileAt(p))}
    IN {FileAt(p) : p \in {q \in Found :
           /\ Matches(FileAt(q), id)
           /\ \A r \in Found : Before(r, q) => ~ Matches(FileAt(r), id) /\ Readable(FileAt(r))}}

\* load_connection_host_entries: the hosts that are shown, and those without an error.
Listed(id) == {f \in HostFiles : Readable(f) /\ disk[f].id = id /\ f[2] \in ToSet(HostDirs)}
Valid(f) == Readable(f) /\ disk[f].valid
Known(id) == \/ id = Local /\ ~ State.removed
             \/ id \in Host /\ Cardinality(Listed(id)) = 1 /\ \A f \in Listed(id) : Valid(f)

-----------------------------------------------------------------------------
(* Jobs: steps on the disk.                                                *)

\* Fault: the file takes its place before it holds the text.
WriteEarly(f, c) == <<[op |-> "open", file |-> f], [op |-> "publish", file |-> f],
                      [op |-> "fill", file |-> f, text |-> c]>>
WriteAtomic(f, c) == <<[op |-> "open", file |-> f], [op |-> "fill", file |-> f, text |-> c],
                       [op |-> "publish", file |-> f]>>
Unlink(f) == <<[op |-> "remove", file |-> f]>>
MoveTo(f, g) == <<[op |-> "move", file |-> f, to |-> g]>>

\* What is true of the files when the command has ended well.
NoGoal == [kind |-> "none"]
Idle == [steps |-> <<>>, opened |-> <<>>, host |-> NoHost, goal |-> NoGoal]

\* What is missing is created before anything else; without the file of the active
\* profile that fails, and so does every command.
EnsureLayout ==
    (IF Exists(StateFile) THEN <<>> ELSE WriteAtomic(StateFile, AppStateFile(Default, FALSE)))
    \o (IF Exists(MainFile) THEN <<>> ELSE WriteAtomic(MainFile, Document(NoSettings)))
    \o (IF Exists(ProfileFile(Default)) THEN <<>> ELSE WriteAtomic(ProfileFile(Default), Document(NoSettings)))
Usable == Exists(Active) \/ State.active = Default

Races(t, id) == \E u \in Thread \ {t} : job[u].host = id
\* The job of a command that is about a host, or about none.
Begin(t, id, steps, goal) ==
    /\ job[t] = Idle
    /\ running /\ Usable /\ job[Main].goal.kind # "boot"
    /\ job' = [job EXCEPT ![t] = [Idle EXCEPT !.steps = EnsureLayout \o steps, !.host = id, !.goal = goal]]
    /\ raced' = IF id \in Host /\ Races(t, id) THEN raced \cup {id} ELSE raced
    /\ commands < MaxCommand /\ commands' = commands + 1
    /\ UNCHANGED <<disk, temp, running, failures, copied>>
Command(id, steps, goal) == Begin(Main, id, steps, goal)
CommandWrites(id, steps, f, text) ==
    Command(id, steps \o WriteAtomic(f, text), [kind |-> "written", file |-> f, text |-> text])

\* The descriptor of thread t names a file: its own temporary one, or what that became.
Temp(f) == Append(f, "temp")
Followed(old, new) == [u \in Thread |-> [job[u] EXCEPT !.opened = IF @ = old THEN new ELSE @]]
Now(t) == Head(job[t].steps)
\* t has carried out its step; without another one it is done.
Stepped(jobs, t) ==
    LET left == Tail(jobs[t].steps) IN
    [jobs EXCEPT ![t] = IF left = <<>> THEN Idle ELSE [jobs[t] EXCEPT !.steps = left]]
\* The end of a longer old text stays behind a new one.
Over(old, text) == IF old \in {Blank, NoFile, text} THEN {text} ELSE {text, Torn}

\* File::create empties a temporary file that another thread has open.
Open(t) ==
    /\ Now(t).op = "open"
    /\ temp' = [temp EXCEPT ![Now(t).file] = Blank]
    /\ job' = Stepped([job EXCEPT ![t].opened = Temp(Now(t).file)], t)
    /\ UNCHANGED disk
Fill(t) ==
    /\ Now(t).op = "fill"
    /\ LET f == job[t].opened IN
       \/ /\ f = Temp(Now(t).file)
          /\ \E c \in Over(temp[Now(t).file], Now(t).text) : temp' = [temp EXCEPT ![Now(t).file] = c]
          /\ UNCHANGED disk
       \/ /\ f \in File
          /\ \E c \in Over(disk[f], Now(t).text) : disk' = [disk EXCEPT ![f] = c]
          /\ UNCHANGED temp
       \/ f = <<>> /\ UNCHANGED <<disk, temp>>
    /\ job' = Stepped(job, t)
Publish(t) ==
    /\ Now(t).op = "publish"
    /\ LET f == Now(t).file IN
       /\ temp[f] # NoFile
       /\ disk' = [disk EXCEPT ![f] = temp[f]]
       /\ temp' = [temp EXCEPT ![f] = NoFile]
       /\ job' = Stepped(Followed(Temp(f), f), t)
RemoveFile(t) ==
    /\ Now(t).op = "remove"
    /\ LET f == Now(t).file IN
       /\ Exists(f)
       /\ disk' = [disk EXCEPT ![f] = NoFile]
       /\ job' = Stepped(Followed(f, <<>>), t)
    /\ UNCHANGED temp
MoveFile(t) ==
    /\ Now(t).op = "move"
    /\ LET f == Now(t).file
           g == Now(t).to IN
       /\ Exists(f)
       /\ disk' = [disk EXCEPT ![f] = NoFile, ![g] = disk[f]]
       /\ job' = Stepped(Followed(f, g), t)
    /\ UNCHANGED temp

DiskStep(t) ==
    /\ job[t].steps # <<>>
    /\ Open(t) \/ Fill(t) \/ Publish(t) \/ RemoveFile(t) \/ MoveFile(t)
    /\ UNCHANGED Counted

\* The disk refuses a step (it must, when the file is not there any more): the command
\* returns its error, and the application does not start.
Fails(t) ==
    /\ job[t].steps # <<>> /\ failures < MaxFailure
    /\ job' = [job EXCEPT ![t] = Idle]
    /\ running' = (running /\ job[t].goal.kind # "boot")
    /\ failures' = failures + 1
    /\ UNCHANGED <<disk, temp, commands, raced, copied>>
\* The application ends between two steps of its threads.
Crash ==
    /\ running /\ failures < MaxFailure
    /\ \E t \in Thread : job[t].steps # <<>>
    /\ job' = [t \in Thread |-> Idle]
    /\ running' = FALSE
    /\ failures' = failures + 1
    /\ UNCHANGED <<disk, temp, commands, raced, copied>>

-----------------------------------------------------------------------------
(* Commands.                                                               *)

Boot ==
    /\ ~ running /\ job[Main] = Idle
    /\ Usable
    /\ running' = TRUE
    /\ job' = [job EXCEPT ![Main].steps = EnsureLayout,
                         ![Main].goal.kind = IF EnsureLayout = <<>> THEN "none" ELSE "boot"]
    /\ UNCHANGED <<disk, temp, commands, failures, raced, copied>>
Quit ==
    /\ running /\ \A t \in Thread : job[t] = Idle
    /\ running' = FALSE
    /\ UNCHANGED <<disk, temp, job, commands, failures, raced, copied>>

CreateProfile(p, s) ==
    /\ ~ Exists(ProfileFile(p))
    /\ Command(NoHost, WriteAtomic(ProfileFile(p), Document(s)), NoGoal)
UpdateProfile(p, s) ==
    /\ Exists(ProfileFile(p))
    /\ Command(NoHost, WriteAtomic(ProfileFile(p), Document(s)), NoGoal)
UpdateMainConfig(s) == Command(NoHost, WriteAtomic(MainFile, Document(s)), NoGoal)

Activate(p) == WriteAtomic(StateFile, AppStateFile(p, State.removed))
DeleteProfile(p) ==
    /\ p # Default /\ Exists(ProfileFile(p))
    /\ Command(NoHost, Unlink(ProfileFile(p)) \o (IF State.active = p THEN Activate(Default) ELSE <<>>), NoGoal)
SetActiveProfile(p) ==
    /\ Exists(ProfileFile(p))
    /\ Command(NoHost, Activate(p), [kind |-> "active", value |-> p])

Write(f, k, v) == WriteAtomic(f, Document([SettingsOf(f) EXCEPT ![k] = v]))
RemoveConfigKey(f, k) == Exists(f) /\ Command(NoHost, Write(f, k, Unset), NoGoal)
SetHostDirs(dirs) == Command(NoHost, Write(MainFile, "host_dirs", dirs), NoGoal)

\* Fault: always in the main document.
WriteMain(k, v) == Write(MainFile, k, v)
\* Where the active profile has the key it is changed there, or it would hide the change.
WriteEffective(k, v) == Write(IF SettingsOf(Active)[k] # Unset THEN Active ELSE MainFile, k, v)
SetTabBarOrientation(v) ==
    Command(NoHost, WriteEffective("tab_bar_orientation", v), [kind |-> "tab_bar_orientation", value |-> v])
Revive == AppStateFile(State.active, FALSE)
SetDefaultHost(id) ==
    /\ id = Local \/ Known(id)
    /\ Command(NoHost, (IF id = Local /\ State.removed THEN WriteAtomic(StateFile, Revive) ELSE <<>>)
                       \o WriteEffective("default_host", id), [kind |-> "default_host", value |-> id])

\* Ids are random: one that no file has.  The hosts window leaves the id of a new host to
\* create_connection_host, and never sends a document whose id is not that of the host.
Fresh == {id \in Host : /\ \A f \in HostFiles : NameOf(f) # id \/ ~ Exists(f)
                        /\ \A f \in HostFiles : disk[f].kind = "host" => disk[f].id # id
                        /\ \A t \in Thread : job[t].host # id
                        /\ id \notin raced}
CreateConnectionHost(id, d, folder) ==
    /\ id \in Fresh /\ d \in ToSet(HostDirs)
    /\ CommandWrites(id, <<>>, HostFile(d, <<folder, id>>), ConnectionHostDocument(id, 0, "dynamic"))

\* Fault: the old file stays.
CopyTo(f, g) == IF f = g THEN <<>> ELSE WriteAtomic(g, disk[f])
\* The file moves first, and is written in its new place.
Relocate(f, g) == IF f = g THEN <<>> ELSE MoveTo(f, g)
EditOf(f) == IF Readable(f) THEN disk[f].edit ELSE 0
UpdateConnectionHost(id, folder, port) ==
    \E f \in PathsOf(id) :
        /\ EditOf(f) < MaxEdit
        /\ LET g == HostFile(f[2], <<folder, id>>) IN
           /\ f = g \/ ~ Exists(g)
           /\ CommandWrites(id, Relocate(f, g), g, ConnectionHostDocument(id, EditOf(f) + 1, port))

\* The setting goes with the host: from the profile, or else from the main document.
ForgetDefault(id) ==
    IF DefaultHost # id THEN <<>>
    ELSE IF SettingsOf(Active)["default_host"] # Unset THEN Write(Active, "default_host", Unset)
    ELSE Write(MainFile, "default_host", Unset)
DeleteConnectionHost(id) ==
    \/ /\ id = Local
       /\ Command(id, WriteAtomic(StateFile, AppStateFile(State.active, TRUE)) \o ForgetDefault(id), NoGoal)
    \/ \E f \in PathsOf(id) : Command(id, Unlink(f) \o ForgetDefault(id), [kind |-> "deleted", file |-> f])

RepairConnectionHostId(id, new) ==
    /\ new \in Fresh
    /\ \E f \in PathsOf(id) :
        /\ Valid(f)
        /\ Command(id, WriteAtomic(HostFile(f[2], <<f[3], new>>), [disk[f] EXCEPT !.id = new]) \o Unlink(f),
                   [kind |-> "deleted", file |-> f])

\* Commands save or remove the rule; a worker saves the port it was assigned.
UpdatePortForwards(t, id, port) ==
    \E f \in PathsOf(id) :
        /\ Valid(f)
        /\ t \in Worker => disk[f].port # "gone"
        /\ Begin(t, id, WriteAtomic(f, [disk[f] EXCEPT !.port = port]), NoGoal)

\* Somebody copies a host file into another folder, or edits it so that it is refused.
UserChanges(f) ==
    /\ Readable(f)
    /\ disk[f].id \notin copied /\ Cardinality(copied) < MaxCopy
    /\ copied' = copied \cup {disk[f].id}
    /\ UNCHANGED <<temp, job, running, commands, failures, raced>>
UserCopies(f, g) ==
    /\ UserChanges(f)
    /\ ~ Exists(g) /\ NameOf(f) = NameOf(g)
    /\ disk' = [disk EXCEPT ![g] = disk[f]]
UserSpoils(f) ==
    /\ UserChanges(f)
    /\ disk' = [disk EXCEPT ![f].valid = FALSE]

Init ==
    /\ disk \in Disks
    /\ temp = [f \in File |-> NoFile]
    /\ job = [t \in Thread |-> Idle]
    /\ running = FALSE /\ commands = 0 /\ failures = 0
    /\ raced = {} /\ copied = {}

\* The main thread takes a command when it has nothing else to do.
Commands ==
    /\ job[Main] = Idle /\ commands < MaxCommand
    /\ \/ \E p \in Profile : DeleteProfile(p) \/ SetActiveProfile(p)
       \/ \E p \in Profile, s \in Documents : CreateProfile(p, s) \/ UpdateProfile(p, s)
       \/ \E s \in Documents : UpdateMainConfig(s)
       \/ \E k \in Key : RemoveConfigKey(MainFile, k) \/ \E p \in Profile : RemoveConfigKey(ProfileFile(p), k)
       \/ \E dirs \in {<<d>> : d \in Dir} : SetHostDirs(dirs)
       \/ SetTabBarOrientation("vertical_left")
       \/ \E id \in Host \cup {Local} : SetDefaultHost(id) \/ DeleteConnectionHost(id)
       \/ \E id \in Host, d \in Dir, folder \in Folder : CreateConnectionHost(id, d, folder)
       \/ \E id \in Host, folder \in Folder, port \in {"gone", "assigned"} : UpdateConnectionHost(id, folder, port)
       \/ \E id, new \in Host : RepairConnectionHostId(id, new)
       \/ \E id \in Host, port \in {"gone", "dynamic"} : UpdatePortForwards(Main, id, port)
Next ==
    \/ Boot \/ Quit \/ Crash \/ Commands
    \/ \E w \in Worker : UpdatePortForwards(w, WorkerHost[w], "assigned")
    \/ \E t \in Thread : DiskStep(t) \/ Fails(t)
    \/ \E f \in HostFiles : UserSpoils(f) \/ \E g \in HostFiles : UserCopies(f, g)

Spec == Init /\ [][Next]_vars

-----------------------------------------------------------------------------
(* Properties.                                                             *)

\* The type of the state; a thread that has nothing left to do keeps nothing (no open
\* file, no host it works on), and its temporary file is one of the application's.
TypeOK ==
    /\ DOMAIN disk = File /\ DOMAIN temp = File
    /\ \A f \in File : {disk[f], temp[f]} \subseteq Text(f) \cup {NoFile, Blank, Torn}
    /\ DOMAIN job = Thread
    /\ \A t \in Thread : /\ job[t].steps = <<>> => job[t] = Idle
                         /\ job[t].host \in Host \cup {Local, NoHost}
                         /\ job[t].opened \in {<<>>} \cup File \cup {Temp(f) : f \in File}
    /\ running \in BOOLEAN /\ commands \in 0..MaxCommand /\ failures \in 0..MaxFailure
    /\ raced \subseteq Host /\ copied \subseteq Host

\* Errors of the disk and the end of the application between any two steps leave every
\* file whole, with the old text or the new one (write_atomic).  Only the file of a host
\* that a command and the port-forward worker wrote at a time can be blank or torn.
WholeFiles ==
    \A f \in File : disk[f] \in {Blank, Torn} => f \in HostFiles /\ NameOf(f) \in raced

\* A host has one file, also while it is created, moved to another folder or given a new
\* id, and wherever that is interrupted: two files with one id make both unusable
\* (duplicate_id).  Copies of the user and the race above are the exceptions.
OneFilePerHost ==
    \A f, g \in HostFiles :
        (f # g /\ Readable(f) /\ Readable(g) /\ disk[f].id = disk[g].id) => disk[f].id \in raced \cup copied

\* Until a first failure, the active profile has its file between the commands of a running
\* application: without it every command fails, and so does the next start.  (Nothing is
\* said after a failure: an interrupted delete_profile leaves it without one.)
ActiveProfileExists == (running /\ job[Main] = Idle /\ failures = 0) => Exists(Active)

\* What a crash or an error leaves on disk is whole, unless two threads raced for it; what
\* commands leave that nothing interrupted has the active profile as well.
DiskIsSound == TypeOK /\ WholeFiles /\ ActiveProfileExists

Met(goal) ==
    CASE goal.kind = "active" -> State.active = goal.value
      [] goal.kind \in Key -> Effective(goal.kind) = goal.value
      [] goal.kind = "deleted" -> ~ Exists(goal.file)
      [] goal.kind = "written" -> disk[goal.file] = goal.text
      [] OTHER -> TRUE
\* A command that reports success did what it was asked for, as the application sees it
\* afterwards: the profile is active, the effective setting is the new one whichever
\* document overrides the other, the host's file is gone or holds the document.
SucceedsOnlyIfDone ==
    [][\A t \in Thread : \A goal \in {job[t].goal} :
         (job[t].steps # <<>> /\ job'[t] = Idle /\ failures' = failures)
             => Met(goal)' \/ job[t].host \in raced]_vars

=============================================================================
