------------------------- MODULE ConfigFilesProofs -------------------------
(***************************************************************************)
(* Theorems about ConfigFiles for every set of profiles, hosts, directories *)
(* and workers: what is on the disk between and during the commands.       *)
(***************************************************************************)
EXTENDS ConfigFiles, TLAPS, SequenceTheorems

Spoilt == {NoFile, Blank, Torn}
Handles == {<<>>} \cup File \cup {Temp(f) : f \in File}
Removable == HostFiles \cup {ProfileFile(p) : p \in Profile \ {Default}}
StepSet == [op : {"open", "publish"}, file : File] \cup [op : {"remove"}, file : Removable]
           \cup {x \in [op : {"move"}, file : HostFiles, to : HostFiles] : NameOf(x.to) = NameOf(x.file)}
           \cup UNION {[op : {"fill"}, file : {f}, text : Text(f)] : f \in File}
GoalSet == {NoGoal, [kind |-> "boot"]} \cup [kind : {"active"}, value : Profile]
           \cup [kind : Key, value : Host \cup {Local, "vertical_left"}]
           \cup [kind : {"deleted"}, file : HostFiles]
           \cup UNION {[kind : {"written"}, file : {f}, text : Text(f)] : f \in HostFiles}
Jobs == [steps : Seq(StepSet), opened : Handles, host : Host \cup {Local, NoHost}, goal : GoalSet]

-----------------------------------------------------------------------------
(* Files.                                                                  *)

\* Everything a path is made of.
Words == {"state", "main", "profile", "host", "temp"} \cup Profile \cup Dir
         \cup {ScanOrder[i][1] : i \in DOMAIN ScanOrder} \cup {ScanOrder[i][2] : i \in DOMAIN ScanOrder}

LEMMA HostFileShape ==
  ASSUME NEW f \in HostFiles
  PROVE  /\ \E d \in Dir, i \in DOMAIN ScanOrder : f = <<"host", d, ScanOrder[i][1], ScanOrder[i][2]>>
         /\ f \in Seq(Words) /\ Len(f) = 4 /\ f[1] = "host" /\ f[2] \in Dir /\ f[3] \in Folder
         /\ f = <<"host", f[2], f[3], f[4]>>
<1>1. PICK d \in Dir, i \in DOMAIN ScanOrder : f = <<"host", d, ScanOrder[i][1], ScanOrder[i][2]>>
  BY DEF HostFiles, HostFile, ToSet
<1>2. {"host", d, ScanOrder[i][1], ScanOrder[i][2]} \subseteq Words
  BY DEF Words
<1>3. QED
  BY <1>1, <1>2 DEF Folder

LEMMA ProfileFileShape ==
  ASSUME NEW p \in Profile
  PROVE  ProfileFile(p) \in Seq(Words) /\ Len(ProfileFile(p)) = 2 /\ ProfileFile(p)[1] = "profile"
         /\ ProfileFile(p)[2] = p
<1>1. {"profile", p} \subseteq Words
  BY DEF Words
<1>2. QED
  BY <1>1 DEF ProfileFile

LEMMA FileShape ==
  ASSUME NEW f \in File
  PROVE  f \in Seq(Words) /\ f # <<>> /\ Len(f) \in {1, 2, 4}
<1>1. CASE f \in {StateFile, MainFile}
  <2>1. "state" \in Words /\ "main" \in Words
    BY DEF Words
  <2>2. CASE f = StateFile
    BY <2>1, <2>2 DEF StateFile
  <2>3. CASE f = MainFile
    BY <2>1, <2>3 DEF MainFile
  <2>4. QED
    BY <1>1, <2>2, <2>3
<1>2. CASE f \in HostFiles
  BY <1>2, HostFileShape
<1>3. CASE \E p \in Profile : f = ProfileFile(p)
  BY <1>3, ProfileFileShape
<1>4. QED
  BY <1>1, <1>2, <1>3 DEF File

\* The files of the application are different ones.
LEMMA FilesDiffer ==
  /\ StateFile # MainFile /\ StateFile \in File /\ MainFile \in File
  /\ StateFile \notin HostFiles /\ MainFile \notin HostFiles /\ HostFiles \subseteq File
  /\ \A p \in Profile : /\ ProfileFile(p) \in File /\ ProfileFile(p) \notin HostFiles
                        /\ ProfileFile(p) \notin {StateFile, MainFile}
  /\ \A p, q \in Profile : ProfileFile(p) = ProfileFile(q) => p = q
<1>1. StateFile # MainFile /\ StateFile \in File /\ MainFile \in File /\ HostFiles \subseteq File
  BY DEF StateFile, MainFile, File
<1>2. Len(StateFile) = 1 /\ Len(MainFile) = 1
  BY DEF StateFile, MainFile
<1>3. \A f \in HostFiles : Len(f) = 4
  BY HostFileShape
<1>4. \A p \in Profile : Len(ProfileFile(p)) = 2 /\ ProfileFile(p)[2] = p
  BY ProfileFileShape
<1>5. \A p \in Profile : ProfileFile(p) \in File
  BY DEF File
<1>6. QED
  BY <1>1, <1>2, <1>3, <1>4, <1>5

\* A temporary file is none of them, and each has its own.
LEMMA TempsDiffer ==
  /\ \A f \in File : Temp(f) \notin File /\ Temp(f) # <<>> /\ f # <<>>
  /\ \A f, g \in File : Temp(f) = Temp(g) => f = g
<1>1. \A f \in File : f \in Seq(Words) /\ f # <<>> /\ Len(f) \in {1, 2, 4}
  BY FileShape
<1>2. ASSUME NEW f \in File, NEW g \in File, Temp(f) = Temp(g) PROVE f = g
  <2>1. "temp" \in Words
    BY DEF Words
  <2>2. QED
    BY <1>1, <1>2, <2>1, AppendInjective DEF Temp
<1>3. ASSUME NEW f \in File PROVE Temp(f) \notin File /\ Temp(f) # <<>>
  <2>1. Len(Temp(f)) = Len(f) + 1 /\ Temp(f)[1] = f[1] /\ Temp(f) # <<>>
    BY <1>1 DEF Temp
  <2>2. CASE Len(f) = 1
    <3>1. f \in {StateFile, MainFile}
      <4>1. f \notin HostFiles
        BY <2>2, HostFileShape
      <4>2. \A p \in Profile : f # ProfileFile(p)
        BY <2>2, ProfileFileShape
      <4>3. QED
        BY <4>1, <4>2 DEF File
    <3>2. f[1] \in {"state", "main"}
      BY <3>1 DEF StateFile, MainFile
    <3>3. SUFFICES ASSUME Temp(f) \in File PROVE FALSE
      BY <2>1
    <3>4. Len(Temp(f)) = 2 /\ Temp(f)[1] \in {"state", "main"}
      BY <2>1, <2>2, <3>2
    <3>5. \A p \in Profile : Temp(f) # ProfileFile(p)
      BY <3>4, ProfileFileShape
    <3>6. Temp(f) \notin HostFiles
      BY <3>4, HostFileShape
    <3>7. Temp(f) \notin {StateFile, MainFile}
      BY <3>4 DEF StateFile, MainFile
    <3>8. QED
      BY <3>3, <3>5, <3>6, <3>7 DEF File
  <2>3. CASE Len(f) # 1
    <3>1. Len(f) \in {2, 4}
      BY <1>1, <2>3
    <3>2. Len(Temp(f)) \notin {1, 2, 4}
      <4>1. Len(f) = 2 => Len(Temp(f)) = 3
        BY <2>1
      <4>2. Len(f) = 4 => Len(Temp(f)) = 5
        BY <2>1
      <4>3. QED
        BY <3>1, <4>1, <4>2
    <3>3. Temp(f) \in File => Len(Temp(f)) \in {1, 2, 4}
      <4> DEFINE g == Temp(f)
      <4> HIDE DEF g
      <4>1. g \in File => Len(g) \in {1, 2, 4}
        BY <1>1
      <4>2. QED
        BY <4>1 DEF g
    <3>4. QED
      BY <2>1, <3>2, <3>3
  <2>4. QED
    BY <2>2, <2>3
<1>4. QED
  BY <1>1, <1>2, <1>3

-----------------------------------------------------------------------------
(* What files hold.                                                        *)

LEMMA SpoiltShape ==
  /\ NoFile # Blank /\ NoFile # Torn /\ Blank # Torn
  /\ \A c \in Spoilt : c.kind \notin {"state", "host", "document"}
<1>1. NoFile.kind = "none" /\ Blank.kind = "blank" /\ Torn.kind = "torn"
  BY DEF NoFile, Blank, Torn
<1>2. QED
  BY <1>1 DEF Spoilt

LEMMA StateText ==
  /\ \A c \in Text(StateFile) : c.kind = "state" /\ c.active \in Profile /\ c.removed \in BOOLEAN
  /\ \A p \in Profile, b \in BOOLEAN :
        /\ AppStateFile(p, b) \in Text(StateFile)
        /\ AppStateFile(p, b).active = p /\ AppStateFile(p, b).removed = b
<1>1. Text(StateFile) = [kind : {"state"}, active : Profile, removed : BOOLEAN]
  BY DEF Text
<1>2. QED
  BY <1>1 DEF AppStateFile

LEMMA HostText ==
  ASSUME NEW f \in HostFiles
  PROVE  Text(f) = [kind : {"host"}, id : Host \cap {NameOf(f)}, edit : 0..MaxEdit,
                    port : {"gone", "dynamic", "assigned"}, valid : BOOLEAN]
BY FilesDiffer DEF Text

LEMMA HostTextShape ==
  ASSUME NEW f \in HostFiles, NEW c \in Text(f)
  PROVE  /\ c.kind = "host" /\ c.id = NameOf(f) /\ c.id \in Host /\ c.edit \in 0..MaxEdit
         /\ c.port \in {"gone", "dynamic", "assigned"} /\ c.valid \in BOOLEAN
<1> DEFINE n == NameOf(f)
           S == [kind : {"host"}, id : Host \cap {n}, edit : 0..MaxEdit,
                 port : {"gone", "dynamic", "assigned"}, valid : BOOLEAN]
<1>1. c \in S
  BY HostText
<1> HIDE DEF n
<1>2. c.kind = "host" /\ c.id \in Host \cap {n} /\ c.edit \in 0..MaxEdit
  BY <1>1
<1>3. c.port \in {"gone", "dynamic", "assigned"} /\ c.valid \in BOOLEAN
  BY <1>1
<1>4. QED
  BY <1>2, <1>3 DEF n

LEMMA HostTextChanges ==
  ASSUME NEW f \in HostFiles, NEW c \in Text(f)
  PROVE  /\ \A port \in {"gone", "dynamic", "assigned"} : [c EXCEPT !.port = port] \in Text(f)
         /\ [c EXCEPT !.valid = FALSE] \in Text(f)
         /\ \A g \in HostFiles : NameOf(g) = NameOf(f) => c \in Text(g)
         /\ \A g \in HostFiles : NameOf(g) \in Host => [c EXCEPT !.id = NameOf(g)] \in Text(g)
<1> DEFINE Of(n) == [kind : {"host"}, id : Host \cap {n}, edit : 0..MaxEdit,
                     port : {"gone", "dynamic", "assigned"}, valid : BOOLEAN]
<1>1. \A g \in HostFiles : Text(g) = Of(NameOf(g))
  BY HostText
<1>2. \A n : c \in Of(n) =>
         /\ \A port \in {"gone", "dynamic", "assigned"} : [c EXCEPT !.port = port] \in Of(n)
         /\ [c EXCEPT !.valid = FALSE] \in Of(n)
  OBVIOUS
<1>3. \A n : c \in Of(n) => \A m \in Host : [c EXCEPT !.id = m] \in Of(m)
  OBVIOUS
<1> HIDE DEF Of
<1>4. QED
  BY <1>1, <1>2, <1>3

LEMMA HostTextMade ==
  ASSUME NEW f \in HostFiles, NameOf(f) \in Host, NEW e \in 0..MaxEdit,
         NEW port \in {"gone", "dynamic", "assigned"}
  PROVE  ConnectionHostDocument(NameOf(f), e, port) \in Text(f)
<1> DEFINE n == NameOf(f)
<1>1. n \in Host
  OBVIOUS
<1> HIDE DEF n
<1>2. ConnectionHostDocument(n, e, port)
        \in [kind : {"host"}, id : Host \cap {n}, edit : 0..MaxEdit,
             port : {"gone", "dynamic", "assigned"}, valid : BOOLEAN]
  BY <1>1 DEF ConnectionHostDocument
<1>3. QED
  BY <1>2, HostText DEF n

LEMMA DocumentText ==
  ASSUME NEW f \in {MainFile} \cup {ProfileFile(p) : p \in Profile}
  PROVE  /\ \A c \in Text(f) : c.kind = "document" /\ c.settings \in Settings
         /\ \A s \in Settings : Document(s) \in Text(f) /\ Document(s).settings = s
<1>1. f # StateFile /\ f \notin HostFiles
  BY FilesDiffer
<1>2. Text(f) = [kind : {"document"}, settings : Settings]
  BY <1>1 DEF Text
<1>3. QED
  BY <1>2 DEF Document

LEMMA TextIsWhole ==
  ASSUME NEW f \in File, NEW c \in Text(f)
  PROVE  c \notin Spoilt
<1>1. CASE f = StateFile
  BY <1>1, StateText, SpoiltShape
<1>2. CASE f \in HostFiles
  BY <1>2, HostTextShape, SpoiltShape
<1>3. CASE f \in {MainFile} \cup {ProfileFile(p) : p \in Profile}
  BY <1>3, DocumentText, SpoiltShape
<1>4. QED
  BY <1>1, <1>2, <1>3 DEF File

\* The values of a key.
Value(k) == CASE k = "default_host" -> Host \cup {Local, Unset}
              [] k = "host_dirs" -> {Unset} \cup Seq(Dir)
              [] k = "tab_bar_orientation" -> {Unset, "horizontal", "vertical_left"}

LEMMA SettingsShape ==
  /\ NoSettings \in Settings
  /\ \A s \in Settings, k \in Key : s[k] \in Value(k)
  /\ \A s \in Settings, k \in Key : \A v \in Value(k) :
        [s EXCEPT ![k] = v] \in Settings /\ [s EXCEPT ![k] = v][k] = v
<1>1. NoSettings \in Settings
  BY DEF NoSettings, Settings, Key
<1>2. ASSUME NEW s \in Settings, NEW k \in Key PROVE s[k] \in Value(k)
  BY DEF Settings, Key, Value
<1>3. ASSUME NEW s \in Settings, NEW k \in Key, NEW v \in Value(k)
      PROVE  [s EXCEPT ![k] = v] \in Settings /\ [s EXCEPT ![k] = v][k] = v
  BY DEF Settings, Key, Value
<1>4. QED
  BY <1>1, <1>2, <1>3

-----------------------------------------------------------------------------
(* Steps and lists of steps.                                               *)

LEMMA StepShape ==
  ASSUME NEW x \in StepSet
  PROVE  /\ x.file \in File /\ x.op \in {"open", "fill", "publish", "remove", "move"}
         /\ x.op = "fill" => x.text \in Text(x.file)
         /\ x.op = "remove" => x.file \in Removable
         /\ x.op = "move" => x.file \in HostFiles /\ x.to \in HostFiles /\ NameOf(x.to) = NameOf(x.file)
<1>1. CASE x \in [op : {"open", "publish"}, file : File]
  BY <1>1
<1>2. CASE x \in [op : {"remove"}, file : Removable]
  BY <1>2 DEF Removable, File
<1>3. CASE x \in {y \in [op : {"move"}, file : HostFiles, to : HostFiles] : NameOf(y.to) = NameOf(y.file)}
  BY <1>3 DEF File
<1>4. ASSUME NEW f \in File, x \in [op : {"fill"}, file : {f}, text : Text(f)]
      PROVE  x.op = "fill" /\ x.file = f /\ x.text \in Text(f)
  BY <1>4
<1>5. QED
  BY <1>1, <1>2, <1>3, <1>4 DEF StepSet

\* Which step may follow which: a file is opened, filled and published without another
\* step between.
Succ(x, y) ==
    /\ x.op = "open" => y.op = "fill" /\ y.file = x.file
    /\ x.op = "fill" => y.op = "publish" /\ y.file = x.file
    /\ x.op # "open" => y.op # "fill"
    /\ x.op # "fill" => y.op # "publish"
InBlocks(s) ==
    /\ \A i \in 1..(Len(s) - 1) : Succ(s[i], s[i + 1])
    /\ s # <<>> => s[Len(s)].op \notin {"open", "fill"}
Starts(s) == s # <<>> => s[1].op \notin {"fill", "publish"}
Program(s) == s \in Seq(StepSet) /\ InBlocks(s) /\ Starts(s)

LEMMA Popped ==
  ASSUME NEW s \in Seq(StepSet), s # <<>>
  PROVE  /\ Tail(s) \in Seq(StepSet) /\ Len(Tail(s)) = Len(s) - 1 /\ Head(s) = s[1]
         /\ s[1] \in StepSet /\ s[1] \in ToSet(s)
         /\ \A i \in 1..(Len(s) - 1) : Tail(s)[i] = s[i + 1]
         /\ ToSet(s) = {s[1]} \cup ToSet(Tail(s))
         /\ \A x \in ToSet(s) : x \in StepSet
         /\ Tail(s) # <<>> => Tail(s)[Len(Tail(s))] = s[Len(s)]
         /\ Tail(s) = <<>> <=> Len(s) = 1
<1>1. Tail(s) \in Seq(StepSet) /\ Len(Tail(s)) = Len(s) - 1 /\ Head(s) = s[1] /\ Len(s) \in Nat \ {0}
  OBVIOUS
<1>2. \A i \in 1..(Len(s) - 1) : Tail(s)[i] = s[i + 1]
  OBVIOUS
<1>3. s[1] \in StepSet /\ s[1] \in ToSet(s) /\ \A x \in ToSet(s) : x \in StepSet
  BY <1>1 DEF ToSet
<1>4. ToSet(s) = {s[1]} \cup ToSet(Tail(s))
  <2>1. ASSUME NEW i \in 1..Len(s) PROVE s[i] \in {s[1]} \cup ToSet(Tail(s))
    <3>1. CASE i = 1
      BY <3>1
    <3>2. CASE i # 1
      <4>1. i - 1 \in 1..(Len(s) - 1) /\ (i - 1) + 1 = i
        BY <1>1, <3>2
      <4>2. s[i] = Tail(s)[i - 1] /\ i - 1 \in 1..Len(Tail(s))
        BY <1>1, <1>2, <4>1
      <4>3. DOMAIN Tail(s) = 1..Len(Tail(s))
        BY <1>1
      <4>4. QED
        BY <4>2, <4>3 DEF ToSet
    <3>3. QED
      BY <3>1, <3>2
  <2>2. ASSUME NEW i \in 1..Len(Tail(s)) PROVE Tail(s)[i] \in ToSet(s)
    BY <1>1, <1>2 DEF ToSet
  <2>3. DOMAIN s = 1..Len(s) /\ DOMAIN Tail(s) = 1..Len(Tail(s))
    BY <1>1
  <2>4. ToSet(s) \subseteq {s[1]} \cup ToSet(Tail(s))
    BY <2>1, <2>3 DEF ToSet
  <2>5. {s[1]} \cup ToSet(Tail(s)) \subseteq ToSet(s)
    BY <1>3, <2>2, <2>3 DEF ToSet
  <2>6. QED
    BY <2>4, <2>5
<1>5. Tail(s) # <<>> => Tail(s)[Len(Tail(s))] = s[Len(s)]
  BY <1>1, <1>2
<1>6. Tail(s) = <<>> <=> Len(s) = 1
  BY <1>1
<1>7. QED
  BY <1>1, <1>2, <1>3, <1>4, <1>5, <1>6

\* What follows the first step, in a list that is in blocks.
LEMMA PoppedBlocks ==
  ASSUME NEW s \in Seq(StepSet), s # <<>>, InBlocks(s)
  PROVE  /\ InBlocks(Tail(s))
         /\ Tail(s) # <<>> => Succ(s[1], Tail(s)[1])
         /\ Tail(s) = <<>> => s[1].op \notin {"open", "fill"}
<1>1. Len(Tail(s)) = Len(s) - 1 /\ \A i \in 1..(Len(s) - 1) : Tail(s)[i] = s[i + 1]
  BY Popped
<1>2. Len(s) \in Nat \ {0}
  OBVIOUS
<1>3. ASSUME NEW i \in 1..(Len(Tail(s)) - 1) PROVE Succ(Tail(s)[i], Tail(s)[i + 1])
  <2>1. i + 1 \in 1..(Len(s) - 1) /\ i \in 1..(Len(s) - 1)
    BY <1>1, <1>2
  <2>2. Succ(s[i + 1], s[(i + 1) + 1])
    BY <2>1 DEF InBlocks
  <2>3. Tail(s)[i] = s[i + 1] /\ Tail(s)[i + 1] = s[(i + 1) + 1]
    BY <1>1, <2>1
  <2>4. QED
    BY <2>2, <2>3
<1>4. Tail(s) # <<>> => Tail(s)[Len(Tail(s))].op \notin {"open", "fill"}
  BY Popped DEF InBlocks
<1>5. Tail(s) # <<>> => Succ(s[1], Tail(s)[1])
  <2>1. SUFFICES ASSUME Tail(s) # <<>> PROVE Succ(s[1], Tail(s)[1])
    OBVIOUS
  <2>2. 1 \in 1..(Len(s) - 1)
    BY <1>1, <1>2, <2>1, Popped
  <2>3. Succ(s[1], s[1 + 1]) /\ Tail(s)[1] = s[1 + 1]
    BY <1>1, <2>2 DEF InBlocks
  <2>4. QED
    BY <2>3
<1>6. Tail(s) = <<>> => s[1].op \notin {"open", "fill"}
  BY Popped DEF InBlocks
<1>7. QED
  BY <1>3, <1>4, <1>5, <1>6 DEF InBlocks

LEMMA Joined ==
  ASSUME NEW a, NEW b, Program(a), Program(b)
  PROVE  /\ Program(a \o b)
         /\ ToSet(a \o b) = ToSet(a) \cup ToSet(b)
         /\ b # <<>> => (a \o b)[Len(a \o b)] = b[Len(b)] /\ a \o b # <<>>
         /\ a # <<>> => (a \o b)[1] = a[1] /\ a \o b # <<>>
         /\ a = <<>> => a \o b = b
         /\ b = <<>> => a \o b = a
<1> DEFINE c == a \o b
<1>1. /\ a \in Seq(StepSet) /\ b \in Seq(StepSet) /\ c \in Seq(StepSet)
      /\ Len(a) \in Nat /\ Len(b) \in Nat /\ Len(c) = Len(a) + Len(b)
  BY DEF Program
<1>2. \A i \in 1..Len(a) : c[i] = a[i]
  BY <1>1
<1>3. \A i \in 1..Len(b) : c[Len(a) + i] = b[i]
  BY <1>1
<1>4. (a = <<>> => c = b) /\ (b = <<>> => c = a)
  BY <1>1
<1>5. b # <<>> => c[Len(c)] = b[Len(b)] /\ c # <<>>
  BY <1>1, <1>3
<1>6. a # <<>> => c[1] = a[1] /\ c # <<>>
  BY <1>1, <1>2
<1> HIDE DEF c
<1>7. ToSet(c) = ToSet(a) \cup ToSet(b)
  <2>1. DOMAIN a = 1..Len(a) /\ DOMAIN b = 1..Len(b) /\ DOMAIN c = 1..Len(c)
    BY <1>1
  <2>2. ASSUME NEW i \in 1..Len(c) PROVE c[i] \in ToSet(a) \cup ToSet(b)
    <3>1. CASE i <= Len(a)
      <4>1. i \in 1..Len(a)
        BY <1>1, <3>1
      <4>2. QED
        BY <1>2, <2>1, <4>1 DEF ToSet
    <3>2. CASE ~ (i <= Len(a))
      <4>1. i - Len(a) \in 1..Len(b) /\ c[i] = b[i - Len(a)]
        <5>1. i - Len(a) \in 1..Len(b) /\ Len(a) + (i - Len(a)) = i
          BY <1>1, <3>2
        <5>2. QED
          BY <1>3, <5>1
      <4>2. QED
        BY <2>1, <4>1 DEF ToSet
    <3>3. QED
      BY <3>1, <3>2
  <2>3. ASSUME NEW i \in 1..Len(a) PROVE a[i] \in ToSet(c)
    BY <1>1, <1>2, <2>1 DEF ToSet
  <2>4. ASSUME NEW i \in 1..Len(b) PROVE b[i] \in ToSet(c)
    <3>1. Len(a) + i \in 1..Len(c) /\ c[Len(a) + i] = b[i]
      BY <1>1, <1>3
    <3>2. QED
      BY <2>1, <3>1 DEF ToSet
  <2>5. ToSet(c) \subseteq ToSet(a) \cup ToSet(b)
    BY <2>1, <2>2 DEF ToSet
  <2>6. ToSet(a) \subseteq ToSet(c) /\ ToSet(b) \subseteq ToSet(c)
    BY <2>1, <2>3, <2>4 DEF ToSet
  <2>7. QED
    BY <2>5, <2>6
<1>8. InBlocks(c)
  <2>1. ASSUME NEW i \in 1..(Len(c) - 1) PROVE Succ(c[i], c[i + 1])
    <3>1. CASE i < Len(a)
      <4>1. i \in 1..(Len(a) - 1) /\ i \in 1..Len(a) /\ i + 1 \in 1..Len(a)
        BY <1>1, <3>1
      <4>2. Succ(a[i], a[i + 1])
        BY <4>1 DEF Program, InBlocks
      <4>3. QED
        BY <1>2, <4>1, <4>2
    <3>2. CASE i = Len(a)
      <4>1. a # <<>> /\ b # <<>> /\ i \in 1..Len(a) /\ 1 \in 1..Len(b)
        BY <1>1, <3>2
      <4>2. c[i] = a[Len(a)] /\ c[i + 1] = b[1]
        BY <1>2, <1>3, <3>2, <4>1
      <4>3. a[Len(a)].op \notin {"open", "fill"} /\ b[1].op \notin {"fill", "publish"}
        BY <4>1 DEF Program, InBlocks, Starts
      <4>4. QED
        BY <4>2, <4>3 DEF Succ
    <3>3. CASE i > Len(a)
      <4> DEFINE k == i - Len(a)
      <4>1. k \in 1..(Len(b) - 1) /\ k \in 1..Len(b) /\ k + 1 \in 1..Len(b)
        BY <1>1, <3>3
      <4>2. Succ(b[k], b[k + 1])
        BY <4>1 DEF Program, InBlocks
      <4>3. c[Len(a) + k] = b[k] /\ c[Len(a) + (k + 1)] = b[k + 1]
        BY <1>3, <4>1
      <4>4. Len(a) + k = i /\ Len(a) + (k + 1) = i + 1
        BY <1>1
      <4>5. QED
        BY <4>2, <4>3, <4>4
    <3>4. QED
      BY <1>1, <3>1, <3>2, <3>3
  <2>2. ASSUME c # <<>> PROVE c[Len(c)].op \notin {"open", "fill"}
    <3>1. CASE b # <<>>
      BY <1>5, <3>1 DEF Program, InBlocks
    <3>2. CASE b = <<>>
      BY <1>4, <2>2, <3>2 DEF Program, InBlocks
    <3>3. QED
      BY <3>1, <3>2
  <2>3. QED
    BY <2>1, <2>2 DEF InBlocks
<1>9. Starts(c)
  BY <1>4, <1>6 DEF Program, Starts
<1>10. QED
  BY <1>1, <1>4, <1>5, <1>6, <1>7, <1>8, <1>9 DEF Program, c

LEMMA FourSteps ==
  ASSUME NEW x \in StepSet, NEW y \in StepSet, NEW z \in StepSet, NEW w \in StepSet
  PROVE  /\ LET s == <<x>> \o <<y, z, w>> IN Len(s) = 4 /\ s[1] = x /\ s[2] = y /\ s[3] = z /\ s[4] = w
         /\ LET s == <<x, y, z>> \o <<w>> IN Len(s) = 4 /\ s[1] = x /\ s[2] = y /\ s[3] = z /\ s[4] = w
<1>1. ASSUME NEW a \in Seq(StepSet), NEW b \in Seq(StepSet)
      PROVE  /\ Len(a \o b) = Len(a) + Len(b)
             /\ \A i \in 1..Len(a) : (a \o b)[i] = a[i]
             /\ \A i \in 1..Len(b) : (a \o b)[Len(a) + i] = b[i]
  OBVIOUS
<1>2. ASSUME NEW a \in Seq(StepSet), NEW b \in Seq(StepSet), Len(a) = 1, Len(b) = 3
      PROVE  /\ Len(a \o b) = 4 /\ (a \o b)[1] = a[1]
             /\ (a \o b)[2] = b[1] /\ (a \o b)[3] = b[2] /\ (a \o b)[4] = b[3]
  <2>1. Len(a \o b) = 4
    <3>1. Len(a \o b) = Len(a) + Len(b)
      OBVIOUS
    <3>2. QED
      BY <1>2, <3>1
  <2>2. 1 \in 1..Len(a) /\ 1 \in 1..Len(b) /\ 2 \in 1..Len(b) /\ 3 \in 1..Len(b)
    BY <1>2
  <2>3. (a \o b)[1] = a[1]
    BY <1>1, <2>2
  <2>4. (a \o b)[Len(a) + 1] = b[1] /\ (a \o b)[Len(a) + 2] = b[2] /\ (a \o b)[Len(a) + 3] = b[3]
    BY <1>1, <2>2
  <2>5. Len(a) + 1 = 2 /\ Len(a) + 2 = 3 /\ Len(a) + 3 = 4
    BY <1>2
  <2>6. QED
    BY <2>1, <2>3, <2>4, <2>5
<1>3. ASSUME NEW a \in Seq(StepSet), NEW b \in Seq(StepSet), Len(a) = 3, Len(b) = 1
      PROVE  /\ Len(a \o b) = 4 /\ (a \o b)[1] = a[1] /\ (a \o b)[2] = a[2] /\ (a \o b)[3] = a[3]
             /\ (a \o b)[4] = b[1]
  <2>1. Len(a \o b) = 4
    <3>1. Len(a \o b) = Len(a) + Len(b)
      OBVIOUS
    <3>2. QED
      BY <1>3, <3>1
  <2>2. 1 \in 1..Len(a) /\ 2 \in 1..Len(a) /\ 3 \in 1..Len(a) /\ 1 \in 1..Len(b)
    BY <1>3
  <2>3. (a \o b)[1] = a[1] /\ (a \o b)[2] = a[2] /\ (a \o b)[3] = a[3]
    BY <1>1, <2>2
  <2>4. (a \o b)[Len(a) + 1] = b[1] /\ Len(a) + 1 = 4
    <3>1. (a \o b)[Len(a) + 1] = b[1]
      BY <1>1, <2>2
    <3>2. QED
      BY <1>3, <3>1
  <2>5. QED
    BY <2>1, <2>3, <2>4
<1>4. \A v \in StepSet : <<v>> \in Seq(StepSet) /\ Len(<<v>>) = 1 /\ <<v>>[1] = v
  OBVIOUS
<1>5. \A u, v, r \in StepSet : /\ <<u, v, r>> \in Seq(StepSet) /\ Len(<<u, v, r>>) = 3
                               /\ <<u, v, r>>[1] = u /\ <<u, v, r>>[2] = v /\ <<u, v, r>>[3] = r
  OBVIOUS
<1>6. LET s == <<x>> \o <<y, z, w>> IN Len(s) = 4 /\ s[1] = x /\ s[2] = y /\ s[3] = z /\ s[4] = w
  <2> DEFINE a == <<x>>
             b == <<y, z, w>>
  <2>1. a \in Seq(StepSet) /\ Len(a) = 1 /\ a[1] = x
    BY <1>4
  <2>2. b \in Seq(StepSet) /\ Len(b) = 3 /\ b[1] = y /\ b[2] = z /\ b[3] = w
    BY <1>5
  <2>3. Len(a \o b) = 4 /\ (a \o b)[1] = x /\ (a \o b)[2] = y /\ (a \o b)[3] = z /\ (a \o b)[4] = w
    <3> HIDE DEF a, b
    <3>1. QED
      BY <1>2, <2>1, <2>2
  <2>4. QED
    BY <2>3
<1>7. LET s == <<x, y, z>> \o <<w>> IN Len(s) = 4 /\ s[1] = x /\ s[2] = y /\ s[3] = z /\ s[4] = w
  <2> DEFINE a == <<x, y, z>>
             b == <<w>>
  <2>1. b \in Seq(StepSet) /\ Len(b) = 1 /\ b[1] = w
    BY <1>4
  <2>2. a \in Seq(StepSet) /\ Len(a) = 3 /\ a[1] = x /\ a[2] = y /\ a[3] = z
    BY <1>5
  <2>3. Len(a \o b) = 4 /\ (a \o b)[1] = x /\ (a \o b)[2] = y /\ (a \o b)[3] = z /\ (a \o b)[4] = w
    <3> HIDE DEF a, b
    <3>1. QED
      BY <1>3, <2>1, <2>2
  <2>4. QED
    BY <2>3
<1>8. QED
  BY <1>6, <1>7

LEMMA NoSteps == Program(<<>>) /\ ToSet(<<>>) = {}
BY DEF Program, InBlocks, Starts, ToSet

OpenStep(f) == [op |-> "open", file |-> f]
FillStep(f, c) == [op |-> "fill", file |-> f, text |-> c]
PublishStep(f) == [op |-> "publish", file |-> f]
RemoveStep(f) == [op |-> "remove", file |-> f]
MoveStep(f, g) == [op |-> "move", file |-> f, to |-> g]

LEMMA StepsMade ==
  /\ \A f \in File : OpenStep(f) \in StepSet /\ PublishStep(f) \in StepSet
  /\ \A f \in File : \A c \in Text(f) : FillStep(f, c) \in StepSet
  /\ \A f \in Removable : RemoveStep(f) \in StepSet
  /\ \A f, g \in HostFiles : NameOf(f) = NameOf(g) => MoveStep(f, g) \in StepSet
<1>1. \A f \in File : OpenStep(f) \in StepSet /\ PublishStep(f) \in StepSet
  BY DEF StepSet, OpenStep, PublishStep
<1>2. ASSUME NEW f \in File, NEW c \in Text(f) PROVE FillStep(f, c) \in StepSet
  <2>1. FillStep(f, c) \in [op : {"fill"}, file : {f}, text : Text(f)]
    BY DEF FillStep
  <2>2. QED
    BY <2>1 DEF StepSet
<1>3. \A f \in Removable : RemoveStep(f) \in StepSet
  BY DEF StepSet, RemoveStep
<1>4. \A f, g \in HostFiles : NameOf(f) = NameOf(g) => MoveStep(f, g) \in StepSet
  BY DEF StepSet, MoveStep
<1>5. QED
  BY <1>1, <1>2, <1>3, <1>4

LEMMA WriteProgram ==
  ASSUME NEW f \in File, NEW c \in Text(f)
  PROVE  /\ Program(WriteAtomic(f, c)) /\ WriteAtomic(f, c) # <<>>
         /\ ToSet(WriteAtomic(f, c)) = {OpenStep(f), FillStep(f, c), PublishStep(f)}
         /\ WriteAtomic(f, c)[1] = OpenStep(f)
         /\ WriteAtomic(f, c)[Len(WriteAtomic(f, c))] = PublishStep(f)
<1> DEFINE s == <<OpenStep(f), FillStep(f, c), PublishStep(f)>>
<1>1. WriteAtomic(f, c) = s
  BY DEF WriteAtomic, OpenStep, FillStep, PublishStep
<1>2. OpenStep(f) \in StepSet /\ FillStep(f, c) \in StepSet /\ PublishStep(f) \in StepSet
  BY StepsMade
<1>3. s \in Seq(StepSet) /\ Len(s) = 3 /\ s # <<>>
  BY <1>2
<1>4. s[1] = OpenStep(f) /\ s[2] = FillStep(f, c) /\ s[3] = PublishStep(f)
  OBVIOUS
<1> HIDE DEF s
<1>5. ToSet(s) = {OpenStep(f), FillStep(f, c), PublishStep(f)}
  <2>1. DOMAIN s = 1..3
    BY <1>3
  <2>2. ToSet(s) = {s[i] : i \in 1..3}
    BY <2>1 DEF ToSet
  <2>3. QED
    BY <1>4, <2>2
<1>6. Succ(s[1], s[2]) /\ Succ(s[2], s[3]) /\ s[3].op = "publish" /\ s[1].op = "open"
  BY <1>4 DEF Succ, OpenStep, FillStep, PublishStep
<1>7. InBlocks(s) /\ Starts(s)
  <2>1. ASSUME NEW i \in 1..(Len(s) - 1) PROVE Succ(s[i], s[i + 1])
    <3>1. i = 1 \/ i = 2
      BY <1>3
    <3>2. QED
      BY <1>6, <3>1
  <2>2. QED
    BY <1>3, <1>6, <2>1 DEF InBlocks, Starts
<1>8. QED
  BY <1>1, <1>3, <1>4, <1>5, <1>7 DEF Program

LEMMA OneStep ==
  ASSUME NEW x \in StepSet, x.op \in {"remove", "move"}
  PROVE  Program(<<x>>) /\ ToSet(<<x>>) = {x} /\ <<x>>[1] = x /\ <<x>>[Len(<<x>>)] = x /\ <<x>> # <<>>
<1>1. <<x>> \in Seq(StepSet) /\ Len(<<x>>) = 1 /\ <<x>>[1] = x
  OBVIOUS
<1>2. DOMAIN <<x>> = 1..1
  OBVIOUS
<1>3. QED
  BY <1>1, <1>2 DEF Program, InBlocks, Starts, ToSet

-----------------------------------------------------------------------------
(* Jobs.                                                                   *)

LEMMA JobShape ==
  /\ Idle \in Jobs /\ Idle.steps = <<>> /\ Idle.host = NoHost /\ Idle.goal = NoGoal /\ Idle.opened = <<>>
  /\ NoGoal.kind = "none"
  /\ \A j \in Jobs : /\ j.steps \in Seq(StepSet) /\ j.opened \in Handles
                     /\ j.host \in Host \cup {Local, NoHost} /\ j.goal \in GoalSet
<1>1. <<>> \in Seq(StepSet) /\ <<>> \in Handles /\ NoGoal \in GoalSet
  BY DEF Handles, GoalSet
<1>2. QED
  BY <1>1 DEF Idle, Jobs, NoGoal

\* One thread goes on to its next step.
LEMMA SteppedJobs ==
  ASSUME NEW jobs \in [Thread -> Jobs], NEW t \in Thread, jobs[t].steps # <<>>
  PROVE  /\ Stepped(jobs, t) \in [Thread -> Jobs]
         /\ \A u \in Thread \ {t} : Stepped(jobs, t)[u] = jobs[u]
         /\ Stepped(jobs, t)[t].steps = Tail(jobs[t].steps)
         /\ Tail(jobs[t].steps) = <<>> => Stepped(jobs, t)[t] = Idle
         /\ Tail(jobs[t].steps) # <<>> =>
              /\ Stepped(jobs, t)[t].host = jobs[t].host /\ Stepped(jobs, t)[t].goal = jobs[t].goal
              /\ Stepped(jobs, t)[t].opened = jobs[t].opened
<1> DEFINE j == jobs[t]
           r == IF Tail(j.steps) = <<>> THEN Idle ELSE [j EXCEPT !.steps = Tail(j.steps)]
<1>1. Stepped(jobs, t) = [jobs EXCEPT ![t] = r]
  BY DEF Stepped
<1>2. j \in Jobs /\ j.steps \in Seq(StepSet) /\ j.steps # <<>>
  BY JobShape
<1>3. Tail(j.steps) \in Seq(StepSet)
  BY <1>2
<1> DEFINE rest == Tail(j.steps)
<1> HIDE DEF rest
<1>4. ASSUME NEW c \in Jobs, rest \in Seq(StepSet)
      PROVE  /\ [c EXCEPT !.steps = rest] \in Jobs /\ [c EXCEPT !.steps = rest].steps = rest
             /\ [c EXCEPT !.steps = rest].host = c.host /\ [c EXCEPT !.steps = rest].goal = c.goal
             /\ [c EXCEPT !.steps = rest].opened = c.opened
  BY <1>4 DEF Jobs
<1>5. /\ r \in Jobs /\ r.steps = rest
      /\ rest = <<>> => r = Idle
      /\ rest # <<>> => r.host = j.host /\ r.goal = j.goal /\ r.opened = j.opened
  BY <1>2, <1>3, <1>4, JobShape DEF rest
<1> HIDE DEF r, j
<1>6. Stepped(jobs, t) \in [Thread -> Jobs] /\ Stepped(jobs, t)[t] = r
      /\ \A u \in Thread \ {t} : Stepped(jobs, t)[u] = jobs[u]
  BY <1>1, <1>5
<1>7. QED
  BY <1>5, <1>6 DEF rest, j

\* A file gets another name: those that have it open have the other.
LEMMA FollowedJobs ==
  ASSUME job \in [Thread -> Jobs], NEW old, NEW new \in Handles
  PROVE  /\ Followed(old, new) \in [Thread -> Jobs]
         /\ \A u \in Thread :
              /\ Followed(old, new)[u].steps = job[u].steps /\ Followed(old, new)[u].host = job[u].host
              /\ Followed(old, new)[u].goal = job[u].goal
              /\ job[u].opened = old => Followed(old, new)[u].opened = new
              /\ job[u].opened # old => Followed(old, new)[u].opened = job[u].opened
<1>1. ASSUME NEW c \in Jobs
      PROVE  /\ [c EXCEPT !.opened = IF @ = old THEN new ELSE @] \in Jobs
             /\ [c EXCEPT !.opened = IF @ = old THEN new ELSE @].steps = c.steps
             /\ [c EXCEPT !.opened = IF @ = old THEN new ELSE @].host = c.host
             /\ [c EXCEPT !.opened = IF @ = old THEN new ELSE @].goal = c.goal
             /\ c.opened = old => [c EXCEPT !.opened = IF @ = old THEN new ELSE @].opened = new
             /\ c.opened # old => [c EXCEPT !.opened = IF @ = old THEN new ELSE @].opened = c.opened
  BY <1>1 DEF Jobs
<1>2. \A u \in Thread : Followed(old, new)[u] = [job[u] EXCEPT !.opened = IF @ = old THEN new ELSE @]
  BY DEF Followed
<1>3. \A u \in Thread : job[u] \in Jobs
  OBVIOUS
<1>4. Followed(old, new) \in [Thread -> Jobs]
  BY <1>1, <1>3 DEF Followed
<1>5. QED
  BY <1>1, <1>2, <1>3, <1>4

LEMMA OpenedJobs ==
  ASSUME job \in [Thread -> Jobs], NEW t \in Thread, NEW h \in Handles
  PROVE  /\ [job EXCEPT ![t].opened = h] \in [Thread -> Jobs]
         /\ \A u \in Thread \ {t} : [job EXCEPT ![t].opened = h][u] = job[u]
         /\ [job EXCEPT ![t].opened = h][t].steps = job[t].steps
         /\ [job EXCEPT ![t].opened = h][t].host = job[t].host
         /\ [job EXCEPT ![t].opened = h][t].goal = job[t].goal
         /\ [job EXCEPT ![t].opened = h][t].opened = h
<1>1. ASSUME NEW c \in Jobs
      PROVE  /\ [c EXCEPT !.opened = h] \in Jobs /\ [c EXCEPT !.opened = h].steps = c.steps
             /\ [c EXCEPT !.opened = h].host = c.host /\ [c EXCEPT !.opened = h].goal = c.goal
             /\ [c EXCEPT !.opened = h].opened = h
  BY <1>1 DEF Jobs
<1>2. [job EXCEPT ![t].opened = h] = [job EXCEPT ![t] = [job[t] EXCEPT !.opened = h]]
  OBVIOUS
<1>3. job[t] \in Jobs
  OBVIOUS
<1>4. QED
  BY <1>1, <1>2, <1>3

-----------------------------------------------------------------------------
(* The invariant.                                                          *)

Contents == Spoilt \cup UNION {Text(f) : f \in File}
Typed ==
    /\ disk \in [File -> Contents] /\ temp \in [File -> Contents]
    /\ \A f \in File : disk[f] \in Text(f) \cup Spoilt /\ temp[f] \in Text(f) \cup Spoilt
    /\ job \in [Thread -> Jobs]
    /\ \A t \in Thread : job[t].steps = <<>> => job[t] = Idle
    /\ running \in BOOLEAN /\ commands \in 0..MaxCommand /\ failures \in 0..MaxFailure
    /\ raced \subseteq Host /\ copied \subseteq Host

Raced(f) == f \in HostFiles /\ NameOf(f) \in raced

\* A name that a repair gives out is nobody's.
NewName(t, n) ==
    /\ t = Main /\ n \in Host \ raced
    /\ \A u \in Thread : job[u].host # n
    /\ \A g \in HostFiles : NameOf(g) = n => disk[g] = NoFile
\* The files a thread may touch: those of its host, one with a new name, and the others
\* if it is the main thread.
Own(t, x) ==
    /\ x.file \in HostFiles =>
        /\ NameOf(x.file) \in Host
        /\ NameOf(x.file) = job[t].host \/ (x.op \notin {"remove", "move"} /\ NewName(t, NameOf(x.file)))
    /\ x.file \notin HostFiles => t = Main
\* After a file of a host was published, the rest is about the host n.
ThenOld(s, n) ==
    \A i, k \in 1..Len(s) :
        i < k /\ s[i].op = "publish" /\ s[i].file \in HostFiles /\ s[k].file \in HostFiles
        => NameOf(s[k].file) = n
Owners ==
    /\ \A t \in Thread : /\ \A x \in ToSet(job[t].steps) : Own(t, x)
                         /\ ThenOld(job[t].steps, job[t].host)
    /\ \A t, u \in Thread : t # u /\ job[t].host = job[u].host => job[t].host \in raced \cup {NoHost}
    /\ \A w \in Worker : job[w].host \in Host \cup {NoHost}

\* What the next step finds, if no other thread works on the same host.
HeadOK(t) ==
    LET x == job[t].steps[1]
        f == x.file
        h == job[t].opened
    IN /\ x.op = "fill" =>
           /\ h \in {<<>>, Temp(f)} \cup HostFiles
           /\ h \in HostFiles => f \in HostFiles /\ NameOf(h) = NameOf(f)
           /\ ~ Raced(f) => h = Temp(f) /\ temp[f] = Blank
       /\ x.op = "publish" /\ ~ Raced(f) => temp[f] \in Text(f)
Lists ==
    /\ \A t \in Thread : InBlocks(job[t].steps)
    /\ \A t \in Thread : job[t].steps # <<>> => HeadOK(t)
Whole == \A f \in File : disk[f] \in {Blank, Torn} => Raced(f)

Base == {StateFile, MainFile, ProfileFile(Default)}
Booting == job[Main].goal.kind = "boot"
\* The files that the start makes are there, or in its list.
Layout ==
    /\ running /\ ~ Booting => \A f \in Base : Exists(f)
    /\ ~ running => \A t \in Thread : job[t] = Idle
    /\ Booting =>
        /\ \A x \in ToSet(job[Main].steps) : x.op \notin {"remove", "move"} /\ x.file \notin HostFiles
        /\ \A f \in Base : Exists(f) \/ PublishStep(f) \in ToSet(job[Main].steps)
        /\ \A w \in Worker : job[w] = Idle
    /\ \A w \in Worker : job[w].goal = NoGoal

DiskInv == Typed /\ Owners /\ Lists /\ Whole /\ Layout

-----------------------------------------------------------------------------
(* A step of a job.                                                        *)

First(t) == job[t].steps[1]

LEMMA FirstStep ==
  ASSUME Typed, NEW t \in Thread, job[t].steps # <<>>
  PROVE  /\ First(t) \in StepSet /\ First(t) \in ToSet(job[t].steps) /\ Now(t) = First(t)
         /\ First(t).file \in File /\ job[t].steps \in Seq(StepSet) /\ job[t] \in Jobs
<1>1. job[t] \in Jobs
  BY DEF Typed
<1>2. job[t].steps \in Seq(StepSet)
  BY <1>1, JobShape
<1>3. QED
  BY <1>1, <1>2, Popped, StepShape DEF First, Now

\* What a step does to the jobs.
JobsAfter(t) ==
    LET s == job[t].steps
        x == s[1]
    IN /\ job' \in [Thread -> Jobs]
       /\ \A u \in Thread \ {t} :
            /\ job'[u].steps = job[u].steps /\ job'[u].host = job[u].host /\ job'[u].goal = job[u].goal
            /\ \/ job'[u].opened = job[u].opened
               \/ x.op = "publish" /\ job[u].opened = Temp(x.file) /\ job'[u].opened = x.file
               \/ x.op = "remove" /\ job[u].opened = x.file /\ job'[u].opened = <<>>
               \/ x.op = "move" /\ job[u].opened = x.file /\ job'[u].opened = x.to
       /\ job'[t].steps = Tail(s)
       /\ Tail(s) = <<>> => job'[t] = Idle
       /\ Tail(s) # <<>> => job'[t].host = job[t].host /\ job'[t].goal = job[t].goal
       /\ x.op = "open" /\ Tail(s) # <<>> => job'[t].opened = Temp(x.file)
       /\ x.op = "fill" /\ Tail(s) # <<>> => job'[t].opened = job[t].opened

LEMMA StepJobs ==
  ASSUME Typed, NEW t \in Thread, DiskStep(t)
  PROVE  JobsAfter(t)
<1> DEFINE s == job[t].steps
           x == s[1]
<1>0. job \in [Thread -> Jobs] /\ s # <<>> /\ job[t] \in Jobs
  BY DEF Typed, DiskStep
<1>1. x \in StepSet /\ Now(t) = x /\ x.file \in File
  BY <1>0, FirstStep DEF First
<1>2. CASE Open(t)
  <2> DEFINE jobs == [job EXCEPT ![t].opened = Temp(x.file)]
  <2>1. Temp(x.file) \in Handles
    BY <1>1 DEF Handles
  <2>2. jobs \in [Thread -> Jobs] /\ \A u \in Thread \ {t} : jobs[u] = job[u]
    BY <1>0, <2>1, OpenedJobs
  <2>3. jobs[t].steps = s /\ jobs[t].host = job[t].host /\ jobs[t].goal = job[t].goal /\ jobs[t].opened = Temp(x.file)
    BY <1>0, <2>1, OpenedJobs
  <2>4. job' = Stepped(jobs, t) /\ x.op = "open"
    BY <1>1, <1>2 DEF Open
  <2> HIDE DEF jobs
  <2>5. QED
    BY <1>0, <2>2, <2>3, <2>4, SteppedJobs DEF JobsAfter
<1>3. CASE Fill(t)
  <2>1. job' = Stepped(job, t) /\ x.op = "fill"
    BY <1>1, <1>3 DEF Fill
  <2>2. QED
    BY <1>0, <2>1, SteppedJobs DEF JobsAfter
<1>4. CASE Publish(t)
  <2> DEFINE jobs == Followed(Temp(x.file), x.file)
  <2>1. x.file \in Handles
    BY <1>1 DEF Handles
  <2>2. /\ jobs \in [Thread -> Jobs]
        /\ \A u \in Thread :
             /\ jobs[u].steps = job[u].steps /\ jobs[u].host = job[u].host /\ jobs[u].goal = job[u].goal
             /\ job[u].opened = Temp(x.file) => jobs[u].opened = x.file
             /\ job[u].opened # Temp(x.file) => jobs[u].opened = job[u].opened
    BY <1>0, <2>1, FollowedJobs
  <2>3. job' = Stepped(jobs, t) /\ x.op = "publish"
    BY <1>1, <1>4 DEF Publish
  <2> HIDE DEF jobs
  <2>4. QED
    BY <1>0, <2>2, <2>3, SteppedJobs DEF JobsAfter
<1>5. CASE RemoveFile(t)
  <2> DEFINE jobs == Followed(x.file, <<>>)
  <2>1. <<>> \in Handles
    BY DEF Handles
  <2>2. /\ jobs \in [Thread -> Jobs]
        /\ \A u \in Thread :
             /\ jobs[u].steps = job[u].steps /\ jobs[u].host = job[u].host /\ jobs[u].goal = job[u].goal
             /\ job[u].opened = x.file => jobs[u].opened = <<>>
             /\ job[u].opened # x.file => jobs[u].opened = job[u].opened
    BY <1>0, <2>1, FollowedJobs
  <2>3. job' = Stepped(jobs, t) /\ x.op = "remove"
    BY <1>1, <1>5 DEF RemoveFile
  <2> HIDE DEF jobs
  <2>4. QED
    BY <1>0, <2>2, <2>3, SteppedJobs DEF JobsAfter
<1>6. CASE MoveFile(t)
  <2> DEFINE jobs == Followed(x.file, x.to)
  <2>0. x.op = "move"
    BY <1>1, <1>6 DEF MoveFile
  <2>1. x.to \in Handles
    BY <1>1, <2>0, StepShape DEF Handles, File
  <2>2. /\ jobs \in [Thread -> Jobs]
        /\ \A u \in Thread :
             /\ jobs[u].steps = job[u].steps /\ jobs[u].host = job[u].host /\ jobs[u].goal = job[u].goal
             /\ job[u].opened = x.file => jobs[u].opened = x.to
             /\ job[u].opened # x.file => jobs[u].opened = job[u].opened
    BY <1>0, <2>1, FollowedJobs
  <2>3. job' = Stepped(jobs, t)
    BY <1>1, <1>6 DEF MoveFile
  <2> HIDE DEF jobs
  <2>4. QED
    BY <1>0, <2>0, <2>2, <2>3, SteppedJobs DEF JobsAfter
<1>7. QED
  BY <1>2, <1>3, <1>4, <1>5, <1>6 DEF DiskStep

\* What a step does to the disk.
DiskAfter(t) ==
    LET x == job[t].steps[1]
        f == x.file
    IN /\ disk' \in [File -> Contents] /\ temp' \in [File -> Contents]
       /\ x.op = "open" =>
            disk' = disk /\ temp'[f] = Blank /\ \A g \in File \ {f} : temp'[g] = temp[g]
       /\ x.op = "fill" /\ ~ Raced(f) =>
            disk' = disk /\ temp'[f] = x.text /\ \A g \in File \ {f} : temp'[g] = temp[g]
       /\ x.op = "fill" /\ Raced(f) =>
            \A g \in File : /\ disk'[g] = disk[g] \/ (Raced(g) /\ disk'[g] \in Text(g) \cup {Torn})
                            /\ temp'[g] = temp[g] \/ (Raced(g) /\ temp'[g] \in Text(g) \cup {Torn})
       /\ x.op = "publish" =>
            /\ temp[f] # NoFile /\ disk'[f] = temp[f] /\ temp'[f] = NoFile
            /\ \A g \in File \ {f} : disk'[g] = disk[g] /\ temp'[g] = temp[g]
            /\ ~ Raced(f) => temp[f] \in Text(f)
       /\ x.op = "remove" =>
            /\ temp' = temp /\ disk[f] # NoFile /\ disk'[f] = NoFile
            /\ \A g \in File \ {f} : disk'[g] = disk[g]
       /\ x.op = "move" =>
            /\ temp' = temp /\ disk[f] # NoFile /\ disk'[x.to] = disk[f]
            /\ f # x.to => disk'[f] = NoFile
            /\ \A g \in File \ {f, x.to} : disk'[g] = disk[g]

LEMMA ContentsShape == Spoilt \subseteq Contents /\ \A f \in File : Text(f) \subseteq Contents
BY DEF Contents

LEMMA StepDisk ==
  ASSUME Typed, Lists, NEW t \in Thread, DiskStep(t)
  PROVE  DiskAfter(t)
<1> DEFINE x == job[t].steps[1]
           f == x.file
<1>0. job[t].steps # <<>>
  BY DEF DiskStep
<1>1. x \in StepSet /\ Now(t) = x /\ f \in File
  BY <1>0, FirstStep DEF First
<1>2. HeadOK(t)
  BY <1>0 DEF Lists
<1>3. disk \in [File -> Contents] /\ temp \in [File -> Contents]
  BY DEF Typed
<1>4. CASE Open(t)
  <2>1. x.op = "open" /\ disk' = disk /\ temp' = [temp EXCEPT ![f] = Blank]
    BY <1>1, <1>4 DEF Open
  <2>2. Blank \in Contents
    BY ContentsShape DEF Spoilt
  <2>3. QED
    BY <1>1, <1>3, <2>1, <2>2 DEF DiskAfter
<1>5. CASE Fill(t)
  <2> DEFINE h == job[t].opened
  <2>1. x.op = "fill" /\ x.text \in Text(f)
    BY <1>1, <1>5, StepShape DEF Fill
  <2>2. \/ h = Temp(f) /\ (\E c \in Over(temp[f], x.text) : temp' = [temp EXCEPT ![f] = c]) /\ disk' = disk
        \/ h \in File /\ (\E c \in Over(disk[h], x.text) : disk' = [disk EXCEPT ![h] = c]) /\ temp' = temp
        \/ h = <<>> /\ disk' = disk /\ temp' = temp
    BY <1>1, <1>5 DEF Fill
  <2>3. \A old : Over(old, x.text) \subseteq {x.text, Torn} /\ Over(Blank, x.text) = {x.text}
    BY DEF Over
  <2>4. \A g \in HostFiles : f \in HostFiles /\ NameOf(g) = NameOf(f) => x.text \in Text(g)
    BY <2>1, HostTextChanges
  <2>5. x.text \in Contents /\ Torn \in Contents
    BY <1>1, <2>1, ContentsShape DEF Spoilt
  <2>6. HostFiles \subseteq File
    BY FilesDiffer
  <2>7. CASE ~ Raced(f)
    <3>1. h = Temp(f) /\ temp[f] = Blank
      BY <1>2, <2>1, <2>7 DEF HeadOK
    <3>2. h \notin File /\ h # <<>>
      BY <1>1, <3>1, TempsDiffer
    <3>3. temp' = [temp EXCEPT ![f] = x.text] /\ disk' = disk
      BY <2>2, <2>3, <3>1, <3>2
    <3>4. QED
      BY <1>1, <1>3, <2>1, <2>5, <2>7, <3>3 DEF DiskAfter
  <2>8. CASE Raced(f)
    <3>1. f \in HostFiles /\ NameOf(f) \in raced
      BY <2>8 DEF Raced
    <3>2. CASE h = Temp(f) /\ (\E c \in Over(temp[f], x.text) : temp' = [temp EXCEPT ![f] = c]) /\ disk' = disk
      <4>1. PICK c \in {x.text, Torn} : temp' = [temp EXCEPT ![f] = c]
        BY <2>3, <3>2
      <4>2. c \in Text(f) \cup {Torn} /\ c \in Contents
        BY <2>1, <2>5
      <4>3. QED
        BY <1>1, <1>3, <2>1, <2>8, <3>2, <4>1, <4>2 DEF DiskAfter
    <3>3. CASE h \in File /\ (\E c \in Over(disk[h], x.text) : disk' = [disk EXCEPT ![h] = c]) /\ temp' = temp
      <4>1. PICK c \in {x.text, Torn} : disk' = [disk EXCEPT ![h] = c]
        BY <2>3, <3>3
      <4>2. h \in HostFiles /\ NameOf(h) = NameOf(f)
        <5>1. h # <<>> /\ h # Temp(f)
          BY <1>1, <3>3, TempsDiffer
        <5>2. QED
          BY <1>2, <2>1, <5>1 DEF HeadOK
      <4>3. Raced(h) /\ c \in Text(h) \cup {Torn} /\ c \in Contents
        BY <2>4, <2>5, <3>1, <4>2 DEF Raced
      <4>4. QED
        BY <1>1, <1>3, <2>1, <2>8, <3>3, <4>1, <4>3 DEF DiskAfter
    <3>4. CASE disk' = disk /\ temp' = temp
      BY <1>3, <2>1, <2>8, <3>4 DEF DiskAfter
    <3>5. QED
      BY <2>2, <3>2, <3>3, <3>4
  <2>9. QED
    BY <2>7, <2>8
<1>6. CASE Publish(t)
  <2>1. x.op = "publish" /\ temp[f] # NoFile /\ disk' = [disk EXCEPT ![f] = temp[f]] /\ temp' = [temp EXCEPT ![f] = NoFile]
    BY <1>1, <1>6 DEF Publish
  <2>2. NoFile \in Contents /\ temp[f] \in Contents
    BY <1>1, <1>3, ContentsShape DEF Spoilt
  <2>3. ~ Raced(f) => temp[f] \in Text(f)
    BY <1>2, <2>1 DEF HeadOK
  <2>4. QED
    BY <1>1, <1>3, <2>1, <2>2, <2>3 DEF DiskAfter
<1>7. CASE RemoveFile(t)
  <2>1. x.op = "remove" /\ disk[f] # NoFile /\ disk' = [disk EXCEPT ![f] = NoFile] /\ temp' = temp
    BY <1>1, <1>7 DEF RemoveFile, Exists
  <2>2. NoFile \in Contents
    BY ContentsShape DEF Spoilt
  <2>3. QED
    BY <1>1, <1>3, <2>1, <2>2 DEF DiskAfter
<1>8. CASE MoveFile(t)
  <2>1. x.op = "move" /\ disk[f] # NoFile /\ disk' = [disk EXCEPT ![f] = NoFile, ![x.to] = disk[f]] /\ temp' = temp
    BY <1>1, <1>8 DEF MoveFile, Exists
  <2>2. NoFile \in Contents /\ disk[f] \in Contents
    BY <1>1, <1>3, ContentsShape DEF Spoilt
  <2>3. x.to \in File
    BY <1>1, <2>1, StepShape, FilesDiffer
  <2>4. QED
    BY <1>1, <1>3, <2>1, <2>2, <2>3 DEF DiskAfter
<1>9. QED
  BY <1>4, <1>5, <1>6, <1>7, <1>8 DEF DiskStep

\* Two threads touch one host's files only after it was noticed as a race, and other
\* files never.
LEMMA Alone ==
  ASSUME Typed, Owners, NEW t \in Thread, NEW u \in Thread, t # u,
         NEW x \in ToSet(job[t].steps), NEW y \in ToSet(job[u].steps)
  PROVE  /\ x.file = y.file => Raced(x.file)
         /\ x.file \in HostFiles /\ y.file \in HostFiles /\ NameOf(x.file) = NameOf(y.file)
            => NameOf(x.file) \in raced
<1>1. Own(t, x) /\ Own(u, y)
  BY DEF Owners
<1>2. job[t].host = job[u].host => job[t].host \in raced \cup {NoHost}
  BY DEF Owners
<1>3. NoHost \notin Host
  BY ConfigFilesAssumption DEF ConfigFilesAssumption
<1>4. ASSUME x.file \in HostFiles, y.file \in HostFiles, NameOf(x.file) = NameOf(y.file)
      PROVE  NameOf(x.file) \in raced
  <2>1. NameOf(x.file) \in Host
    BY <1>1, <1>4 DEF Own
  <2>2. CASE NameOf(x.file) = job[t].host /\ NameOf(y.file) = job[u].host
    BY <1>2, <1>3, <1>4, <2>1, <2>2
  <2>3. CASE NewName(t, NameOf(x.file))
    <3>1. NameOf(y.file) # job[u].host /\ t = Main
      BY <1>4, <2>3 DEF NewName
    <3>2. NewName(u, NameOf(y.file))
      BY <1>1, <1>4, <3>1 DEF Own
    <3>3. QED
      BY <3>1, <3>2 DEF NewName
  <2>4. CASE NewName(u, NameOf(y.file))
    <3>1. NameOf(x.file) # job[t].host /\ u = Main
      BY <1>4, <2>4 DEF NewName
    <3>2. NewName(t, NameOf(x.file))
      BY <1>1, <1>4, <3>1 DEF Own
    <3>3. QED
      BY <3>1, <3>2 DEF NewName
  <2>5. QED
    BY <1>1, <1>4, <2>2, <2>3, <2>4 DEF Own
<1>5. ASSUME x.file = y.file PROVE x.file \in HostFiles
  BY <1>1, <1>5 DEF Own
<1>6. QED
  BY <1>4, <1>5 DEF Raced

LEMMA StepTyped ==
  ASSUME Typed, NEW t \in Thread, DiskStep(t), JobsAfter(t), DiskAfter(t)
  PROVE  Typed'
<1> DEFINE s == job[t].steps
           x == s[1]
           f == x.file
<1>0. s # <<>> /\ x \in StepSet /\ f \in File /\ s \in Seq(StepSet)
  BY FirstStep DEF DiskStep, First
<1>1. UNCHANGED <<running, commands, failures, raced, copied>>
  BY DEF DiskStep, Counted
<1>2. x.op \in {"open", "fill", "publish", "remove", "move"} /\ (x.op = "fill" => x.text \in Text(f))
  BY <1>0, StepShape
<1>3. x.op = "move" => f \in HostFiles /\ x.to \in HostFiles /\ NameOf(x.to) = NameOf(f) /\ x.to \in File
  BY <1>0, StepShape, FilesDiffer
<1>4. x.op = "move" => disk[f] \in Text(x.to) \cup Spoilt
  <2>1. disk[f] \in Text(f) \cup Spoilt
    BY <1>0 DEF Typed
  <2>2. QED
    BY <1>3, <2>1, HostTextChanges
<1>5. Blank \in Spoilt /\ NoFile \in Spoilt /\ Torn \in Spoilt
  BY DEF Spoilt
<1>6. ASSUME NEW g \in File PROVE disk'[g] \in Text(g) \cup Spoilt /\ temp'[g] \in Text(g) \cup Spoilt
  <2>1. disk[g] \in Text(g) \cup Spoilt /\ temp[g] \in Text(g) \cup Spoilt
    BY DEF Typed
  <2>2. CASE x.op \in {"open", "remove"}
    BY <1>0, <1>5, <2>1, <2>2 DEF DiskAfter
  <2>3. CASE x.op = "publish"
    BY <1>0, <1>5, <2>1, <2>3 DEF DiskAfter
  <2>4. CASE x.op = "fill"
    BY <1>0, <1>2, <1>5, <2>1, <2>4 DEF DiskAfter
  <2>5. CASE x.op = "move"
    BY <1>0, <1>3, <1>4, <1>5, <2>1, <2>5 DEF DiskAfter
  <2>6. QED
    BY <1>2, <2>2, <2>3, <2>4, <2>5
<1>7. disk' \in [File -> Contents] /\ temp' \in [File -> Contents]
  BY DEF DiskAfter
<1>8. job' \in [Thread -> Jobs] /\ \A u \in Thread : job'[u].steps = <<>> => job'[u] = Idle
  <2>1. ASSUME NEW u \in Thread \ {t}, job'[u].steps = <<>> PROVE job'[u] = Idle
    <3>1. job[u] = Idle
      BY <2>1 DEF Typed, JobsAfter
    <3>2. job'[u].opened = <<>> \/ job'[u].opened = f \/ job'[u].opened = x.to
      BY <2>1, <3>1, JobShape DEF JobsAfter
    <3>3. <<>> # f /\ <<>> # Temp(f)
      BY <1>0, TempsDiffer
    <3>4. job'[u].opened = <<>>
      BY <2>1, <3>1, <3>3, JobShape DEF JobsAfter
    <3>5. job'[u].steps = Idle.steps /\ job'[u].host = Idle.host /\ job'[u].goal = Idle.goal /\ job'[u] \in Jobs
      BY <2>1, <3>1 DEF JobsAfter
    <3>6. QED
      BY <3>4, <3>5, JobShape DEF Jobs, Idle
  <2>2. job'[t].steps = <<>> => job'[t] = Idle
    BY DEF JobsAfter
  <2>3. QED
    BY <2>1, <2>2 DEF JobsAfter
<1>9. QED
  BY <1>1, <1>6, <1>7, <1>8 DEF Typed

\* Hosts of the threads: kept, or given up.
LEMMA HostsKept ==
  ASSUME Typed, NEW t \in Thread, DiskStep(t), JobsAfter(t), NEW u \in Thread
  PROVE  /\ job'[u].host \in {job[u].host, NoHost}
         /\ ToSet(job'[u].steps) \subseteq ToSet(job[u].steps)
         /\ job'[u].steps # <<>> => job'[u].host = job[u].host /\ job'[u].goal = job[u].goal /\ job[u].steps # <<>>
<1>0. job[t].steps # <<>> /\ job[t].steps \in Seq(StepSet)
  BY FirstStep DEF DiskStep
<1>1. CASE u # t
  BY <1>1 DEF JobsAfter
<1>2. CASE u = t
  BY <1>0, <1>2, Popped, JobShape DEF JobsAfter
<1>3. QED
  BY <1>1, <1>2

LEMMA StepOwners ==
  ASSUME Typed, Owners, NEW t \in Thread, DiskStep(t), JobsAfter(t), DiskAfter(t)
  PROVE  Owners'
<1> DEFINE s == job[t].steps
           x == s[1]
           f == x.file
<1>0. s # <<>> /\ x \in StepSet /\ f \in File /\ x \in ToSet(s) /\ s \in Seq(StepSet)
  BY FirstStep DEF DiskStep, First
<1>1. raced' = raced
  BY DEF DiskStep, Counted
<1>2. NoHost \notin Host /\ Main \in Thread
  BY ConfigFilesAssumption DEF ConfigFilesAssumption, Thread
<1>3. x.op \in {"open", "fill", "publish", "remove", "move"}
      /\ (x.op = "move" => f \in HostFiles /\ x.to \in HostFiles /\ NameOf(x.to) = NameOf(f))
  BY <1>0, StepShape
<1>4. ASSUME NEW u \in Thread, NEW y \in ToSet(job'[u].steps), NEW n, n = NameOf(y.file), y.file \in HostFiles,
             NewName(u, n), job[u].host # n
      PROVE  NewName(u, n)'
  <2>1. \A v \in Thread : job'[v].host # n
    BY <1>2, <1>4, HostsKept DEF NewName
  <2>2. ASSUME NEW g \in HostFiles, NameOf(g) = n PROVE disk'[g] = NoFile
    <3>0. disk[g] = NoFile /\ n \notin raced /\ n \in Host /\ u = Main
      BY <1>4, <2>2 DEF NewName
    <3>1. g \in File
      BY FilesDiffer
    <3>2. CASE x.op \in {"open", "remove"}
      BY <3>0, <3>1, <3>2 DEF DiskAfter
    <3>3. CASE x.op = "fill"
      <4>1. ~ Raced(g)
        BY <2>2, <3>0 DEF Raced
      <4>2. QED
        BY <3>0, <3>1, <3>3, <4>1 DEF DiskAfter
    <3>4. CASE x.op = "move"
      <4>1. NameOf(f) = job[t].host
        BY <1>0, <1>3, <3>4 DEF Owners, Own
      <4>2. NameOf(f) # n
        BY <1>4, <4>1 DEF NewName
      <4>3. g # x.to /\ g # f
        BY <1>3, <2>2, <3>4, <4>2
      <4>4. QED
        BY <3>0, <3>1, <3>4, <4>3 DEF DiskAfter
    <3>5. CASE x.op = "publish"
      <4>1. SUFFICES ASSUME g = f PROVE FALSE
        BY <3>0, <3>1, <3>5 DEF DiskAfter
      <4>2. job[t].host # n
        BY <1>4 DEF NewName
      <4>3. NewName(t, n)
        BY <1>0, <2>2, <4>1, <4>2 DEF Owners, Own
      <4>4. t = Main
        BY <4>3 DEF NewName
      <4>5. job'[u].steps = Tail(s)
        BY <3>0, <4>4 DEF JobsAfter
      <4>6. PICK i \in 1..Len(Tail(s)) : y = Tail(s)[i]
        <5>1. Tail(s) \in Seq(StepSet)
          BY <1>0
        <5>2. DOMAIN Tail(s) = 1..Len(Tail(s))
          BY <5>1
        <5>3. QED
          BY <1>4, <4>5, <5>2 DEF ToSet
      <4>7. i + 1 \in 1..Len(s) /\ 1 < i + 1 /\ y = s[i + 1] /\ 1 \in 1..Len(s)
        BY <1>0, <4>6, Popped
      <4>8. ThenOld(s, job[t].host)
        BY DEF Owners
      <4>9. NameOf(y.file) = job[t].host
        BY <1>4, <2>2, <3>5, <4>1, <4>7, <4>8 DEF ThenOld
      <4>10. QED
        BY <1>4, <4>2, <4>9
    <3>6. QED
      BY <1>3, <3>2, <3>3, <3>4, <3>5
  <2>3. QED
    BY <1>1, <1>4, <2>1, <2>2 DEF NewName
<1>5. ASSUME NEW u \in Thread, NEW y \in ToSet(job'[u].steps) PROVE Own(u, y)'
  <2>1. y \in ToSet(job[u].steps) /\ job'[u].steps # <<>>
    BY <1>5, HostsKept, NoSteps
  <2>2. Own(u, y) /\ job'[u].host = job[u].host
    BY <2>1, HostsKept DEF Owners
  <2>3. ASSUME y.file \in HostFiles, y.op \notin {"remove", "move"}, NewName(u, NameOf(y.file))
        PROVE  NewName(u, NameOf(y.file))'
    <3>1. job[u].host # NameOf(y.file)
      BY <2>3 DEF NewName
    <3>2. QED
      BY <1>4, <2>3, <3>1
  <2>4. QED
    BY <2>2, <2>3 DEF Own
<1>6. ASSUME NEW u \in Thread PROVE ThenOld(job'[u].steps, job'[u].host)
  <2>1. CASE u # t
    BY <2>1 DEF Owners, JobsAfter
  <2>2. CASE u = t /\ Tail(s) = <<>>
    <3>1. job'[u].steps = <<>>
      BY <2>2 DEF JobsAfter
    <3>2. Len(<<>>) = 0
      OBVIOUS
    <3>3. QED
      BY <3>1, <3>2 DEF ThenOld
  <2>3. CASE u = t /\ Tail(s) # <<>>
    <3>1. job'[t].steps = Tail(s) /\ job'[t].host = job[t].host
      BY <2>3 DEF JobsAfter
    <3>2. ThenOld(s, job[t].host)
      BY DEF Owners
    <3>3. Len(Tail(s)) = Len(s) - 1 /\ Len(s) \in Nat /\ \A i \in 1..(Len(s) - 1) : Tail(s)[i] = s[i + 1]
      BY <1>0, Popped
    <3>4. ASSUME NEW i \in 1..Len(Tail(s)), NEW k \in 1..Len(Tail(s)), i < k, Tail(s)[i].op = "publish",
                 Tail(s)[i].file \in HostFiles, Tail(s)[k].file \in HostFiles
          PROVE  NameOf(Tail(s)[k].file) = job[t].host
      <4>1. i + 1 \in 1..Len(s) /\ k + 1 \in 1..Len(s) /\ i + 1 < k + 1
        BY <3>3, <3>4
      <4>2. Tail(s)[i] = s[i + 1] /\ Tail(s)[k] = s[k + 1]
        BY <3>3, <3>4
      <4>3. QED
        BY <3>2, <3>4, <4>1, <4>2 DEF ThenOld
    <3>5. QED
      BY <2>3, <3>1, <3>4 DEF ThenOld
  <2>4. QED
    BY <2>1, <2>2, <2>3
<1>7. ASSUME NEW u \in Thread, NEW v \in Thread, u # v, job'[u].host = job'[v].host
      PROVE  job'[u].host \in raced \cup {NoHost}
  BY <1>7, HostsKept DEF Owners
<1>8. \A w \in Worker : job'[w].host \in Host \cup {NoHost}
  BY HostsKept DEF Owners, Thread
<1>9. QED
  BY <1>1, <1>5, <1>6, <1>7, <1>8 DEF Owners

LEMMA StepLists ==
  ASSUME Typed, Owners, Lists, NEW t \in Thread, DiskStep(t), JobsAfter(t), DiskAfter(t)
  PROVE  Lists'
<1> DEFINE s == job[t].steps
           x == s[1]
           f == x.file
<1>0. s # <<>> /\ x \in StepSet /\ f \in File /\ x \in ToSet(s) /\ s \in Seq(StepSet)
  BY FirstStep DEF DiskStep, First
<1>1. raced' = raced
  BY DEF DiskStep, Counted
<1>2. /\ x.op \in {"open", "fill", "publish", "remove", "move"}
      /\ x.op = "fill" => x.text \in Text(f)
      /\ x.op = "move" => f \in HostFiles /\ x.to \in HostFiles /\ NameOf(x.to) = NameOf(f)
  BY <1>0, StepShape
<1>3. ASSUME NEW u \in Thread PROVE InBlocks(job'[u].steps)
  BY <1>0, <1>3, PoppedBlocks DEF Lists, JobsAfter
<1>4. ASSUME NEW u \in Thread \ {t}, job'[u].steps # <<>> PROVE HeadOK(u)'
  <2> DEFINE y == job[u].steps[1]
             g == y.file
             h == job[u].opened
  <2>1. job'[u].steps = job[u].steps /\ job[u].steps # <<>>
    BY <1>4 DEF JobsAfter
  <2>2. HeadOK(u) /\ y \in ToSet(job[u].steps) /\ y \in StepSet /\ g \in File
    BY <2>1, FirstStep DEF Lists, First
  <2>3. /\ f = g => Raced(g)
        /\ f \in HostFiles /\ g \in HostFiles /\ NameOf(f) = NameOf(g) => NameOf(f) \in raced
    BY <1>0, <2>2, Alone
  <2>4. ~ Raced(g) => temp'[g] = temp[g]
    BY <1>0, <1>2, <2>2, <2>3 DEF DiskAfter
  <2>5. ~ Raced(g) /\ h = Temp(g) => job'[u].opened = h
    <3>1. SUFFICES ASSUME ~ Raced(g), h = Temp(g) PROVE job'[u].opened = h
      OBVIOUS
    <3>2. f # g
      BY <2>3, <3>1
    <3>3. h # Temp(f) /\ h \notin File
      BY <1>0, <2>2, <3>1, <3>2, TempsDiffer
    <3>4. QED
      BY <1>0, <3>3 DEF JobsAfter
  <2>6. ASSUME y.op = "fill"
        PROVE  LET k == job'[u].opened IN
                 /\ k \in {<<>>, Temp(g)} \cup HostFiles
                 /\ k \in HostFiles => g \in HostFiles /\ NameOf(k) = NameOf(g)
    <3>1. h \in {<<>>, Temp(g)} \cup HostFiles /\ (h \in HostFiles => g \in HostFiles /\ NameOf(h) = NameOf(g))
      BY <2>2, <2>6 DEF HeadOK
    <3>2. CASE job'[u].opened = h
      BY <3>1, <3>2
    <3>3. CASE x.op = "publish" /\ h = Temp(f) /\ job'[u].opened = f
      <4>1. Temp(f) \notin HostFiles /\ Temp(f) # <<>>
        BY <1>0, TempsDiffer, FilesDiffer
      <4>2. f = g
        BY <1>0, <2>2, <3>1, <3>3, <4>1, TempsDiffer
      <4>3. g \in HostFiles
        BY <2>3, <4>2 DEF Raced
      <4>4. QED
        BY <3>3, <4>2, <4>3
    <3>4. CASE x.op = "remove" /\ h = f /\ job'[u].opened = <<>>
      <4>1. <<>> \notin HostFiles
        BY TempsDiffer, FilesDiffer
      <4>2. QED
        BY <3>4, <4>1
    <3>5. CASE x.op = "move" /\ h = f /\ job'[u].opened = x.to
      BY <1>2, <3>1, <3>5
    <3>6. QED
      BY <3>2, <3>3, <3>4, <3>5 DEF JobsAfter
  <2>7. Temp(g) \notin HostFiles
    BY <2>2, TempsDiffer, FilesDiffer
  <2>8. /\ y.op = "fill" /\ ~ Raced(g) => job'[u].opened = Temp(g) /\ temp'[g] = Blank
        /\ y.op = "publish" /\ ~ Raced(g) => temp'[g] \in Text(g)
    BY <2>2, <2>4, <2>5 DEF HeadOK
  <2>9. QED
    BY <1>1, <2>1, <2>6, <2>8 DEF HeadOK, Raced
<1>5. ASSUME job'[t].steps # <<>> PROVE HeadOK(t)'
  <2> DEFINE y == Tail(s)[1]
             g == y.file
  <2>1. job'[t].steps = Tail(s) /\ Tail(s) # <<>> /\ Succ(x, y) /\ y \in StepSet /\ g \in File
    <3>1. job'[t].steps = Tail(s) /\ Tail(s) # <<>>
      BY <1>5 DEF JobsAfter
    <3>2. Tail(s) \in Seq(StepSet) /\ Succ(x, y)
      <4>1. Tail(s) \in Seq(StepSet)
        BY <1>0, Popped
      <4>2. InBlocks(s)
        BY DEF Lists
      <4>3. QED
        BY <1>0, <3>1, <4>1, <4>2, PoppedBlocks
    <3>3. y \in StepSet
      <4>1. ASSUME NEW r \in Seq(StepSet), r # <<>> PROVE r[1] \in StepSet
        BY <4>1
      <4>2. QED
        BY <3>1, <3>2, <4>1
    <3>4. QED
      BY <3>1, <3>2, <3>3, StepShape
  <2>2. ASSUME y.op = "fill" PROVE job'[t].opened = Temp(g) /\ temp'[g] = Blank
    <3>1. x.op = "open" /\ f = g
      BY <2>1, <2>2 DEF Succ
    <3>2. QED
      BY <2>1, <3>1 DEF JobsAfter, DiskAfter
  <2>3. ASSUME y.op = "publish", ~ Raced(g) PROVE temp'[g] \in Text(g)
    <3>1. x.op = "fill" /\ f = g
      BY <2>1, <2>3 DEF Succ
    <3>2. QED
      BY <1>2, <2>3, <3>1 DEF DiskAfter
  <2>4. Temp(g) \notin HostFiles
    BY <2>1, TempsDiffer, FilesDiffer
  <2>5. QED
    BY <1>1, <2>1, <2>2, <2>3, <2>4 DEF HeadOK, Raced
<1>6. QED
  BY <1>3, <1>4, <1>5 DEF Lists

LEMMA StepWhole ==
  ASSUME Typed, Whole, NEW t \in Thread, DiskStep(t), DiskAfter(t)
  PROVE  Whole'
<1> DEFINE s == job[t].steps
           x == s[1]
           f == x.file
<1>0. s # <<>> /\ x \in StepSet /\ f \in File
  BY FirstStep DEF DiskStep, First
<1>1. raced' = raced
  BY DEF DiskStep, Counted
<1>2. /\ x.op \in {"open", "fill", "publish", "remove", "move"}
      /\ x.op = "move" => f \in HostFiles /\ x.to \in HostFiles /\ NameOf(x.to) = NameOf(f)
  BY <1>0, StepShape
<1>3. \A g \in File : \A c \in Text(g) : c \notin {NoFile, Blank, Torn}
  BY TextIsWhole DEF Spoilt
<1>4. NoFile \notin {Blank, Torn}
  BY SpoiltShape
<1>5. ASSUME NEW g \in File, disk'[g] \in {Blank, Torn} PROVE Raced(g)
  <2>1. disk[g] \in {Blank, Torn} => Raced(g)
    BY DEF Whole
  <2>2. CASE x.op \in {"open", "remove"}
    BY <1>0, <1>4, <1>5, <2>1, <2>2 DEF DiskAfter
  <2>3. CASE x.op = "publish"
    BY <1>0, <1>3, <1>5, <2>1, <2>3 DEF DiskAfter
  <2>4. CASE x.op = "fill"
    BY <1>0, <1>5, <2>1, <2>4 DEF DiskAfter
  <2>5. CASE x.op = "move"
    <3>1. disk[f] \in {Blank, Torn} => Raced(f)
      BY <1>0 DEF Whole
    <3>2. Raced(f) => Raced(x.to)
      BY <1>2, <2>5 DEF Raced
    <3>3. QED
      BY <1>0, <1>2, <1>4, <1>5, <2>1, <2>5, <3>1, <3>2 DEF DiskAfter
  <2>6. QED
    BY <1>2, <2>2, <2>3, <2>4, <2>5
<1>6. QED
  BY <1>1, <1>5 DEF Whole, Raced

LEMMA StepLayout ==
  ASSUME Typed, Typed', Layout, NEW t \in Thread, DiskStep(t), JobsAfter(t), DiskAfter(t)
  PROVE  Layout'
<1> DEFINE s == job[t].steps
           x == s[1]
           f == x.file
<1>0. s # <<>> /\ x \in StepSet /\ f \in File /\ x \in ToSet(s) /\ s \in Seq(StepSet)
  BY FirstStep DEF DiskStep, First
<1>1. running' = running
  BY DEF DiskStep, Counted
<1>2. /\ x.op \in {"open", "fill", "publish", "remove", "move"}
      /\ x.op = "remove" => f \in Removable
      /\ x.op = "move" => f \in HostFiles /\ x.to \in HostFiles
  BY <1>0, StepShape
<1>3. Base \subseteq File /\ Base \cap HostFiles = {} /\ Base \cap Removable = {}
  BY ConfigFilesAssumption, FilesDiffer DEF Base, ConfigFilesAssumption, Removable
<1>4. NoFile \notin {Blank, Torn} /\ \A g \in File : NoFile \notin Text(g)
  BY SpoiltShape, TextIsWhole DEF Spoilt
<1>5. ASSUME NEW g \in Base
      PROVE  (Exists(g) => disk'[g] # NoFile) /\ (x.op = "publish" /\ f = g => disk'[g] # NoFile)
  <2>1. ~ Raced(g) /\ g \in File /\ g \notin HostFiles
    BY <1>3 DEF Raced
  <2>2. CASE x.op \in {"open", "fill"}
    BY <1>0, <2>1, <2>2 DEF DiskAfter, Exists
  <2>3. CASE x.op = "publish"
    BY <1>0, <2>1, <2>3 DEF DiskAfter, Exists
  <2>4. CASE x.op = "remove"
    BY <1>0, <1>2, <1>3, <2>1, <2>4 DEF DiskAfter, Exists
  <2>5. CASE x.op = "move"
    BY <1>0, <1>2, <2>1, <2>5 DEF DiskAfter, Exists
  <2>6. QED
    BY <1>2, <2>2, <2>3, <2>4, <2>5
<1>6. Main \in Thread
  BY DEF Thread
<1>7. Booting' => Booting
  BY <1>6, JobShape DEF JobsAfter, Booting
<1>8. ASSUME Booting' PROVE ToSet(job'[Main].steps) \subseteq ToSet(job[Main].steps)
  BY <1>6, HostsKept
<1>9. ASSUME Booting', NEW g \in Base
      PROVE  disk'[g] # NoFile \/ PublishStep(g) \in ToSet(job'[Main].steps)
  <2>1. Exists(g) \/ PublishStep(g) \in ToSet(job[Main].steps)
    BY <1>7, <1>9 DEF Layout
  <2>2. CASE Exists(g)
    BY <1>5, <2>2 DEF Exists
  <2>3. CASE PublishStep(g) \in ToSet(job[Main].steps)
    <3>1. CASE t # Main
      BY <1>6, <2>3, <3>1 DEF JobsAfter
    <3>2. CASE t = Main
      <4>1. PublishStep(g) = x \/ PublishStep(g) \in ToSet(Tail(s))
        BY <1>0, <2>3, <3>2, Popped
      <4>2. PublishStep(g) = x => disk'[g] # NoFile
        BY <1>5 DEF PublishStep
      <4>3. QED
        BY <3>2, <4>1, <4>2 DEF JobsAfter
    <3>3. QED
      BY <3>1, <3>2
  <2>4. QED
    BY <2>1, <2>2, <2>3
<1>10. ASSUME running, ~ Booting' PROVE \A g \in Base : disk'[g] # NoFile
  <2>1. CASE ~ Booting
    BY <1>5, <1>10, <2>1 DEF Layout
  <2>2. CASE Booting
    <3>1. t = Main /\ Tail(s) = <<>>
      BY <1>6, <1>10, <2>2 DEF JobsAfter, Booting
    <3>2. ToSet(s) = {x}
      BY <1>0, <3>1, Popped, NoSteps
    <3>3. ASSUME NEW g \in Base PROVE disk'[g] # NoFile
      <4>1. Exists(g) \/ PublishStep(g) = x
        BY <2>2, <3>1, <3>2 DEF Layout
      <4>2. QED
        BY <1>5, <4>1 DEF PublishStep
    <3>4. QED
      BY <3>3
  <2>3. QED
    BY <2>1, <2>2
<1>11. running
  BY <1>0, JobShape DEF Layout
<1>12. \A w \in Worker : job'[w].goal = NoGoal /\ (Booting => job'[w] = Idle)
  <2>1. ASSUME NEW w \in Worker PROVE job'[w].goal = NoGoal /\ (Booting => job'[w] = Idle)
    <3>1. w \in Thread /\ w # Main
      BY ConfigFilesAssumption DEF ConfigFilesAssumption, Thread
    <3>2. job'[w].goal = NoGoal
      BY <3>1, JobShape DEF Layout, JobsAfter
    <3>3. Booting => job'[w] = Idle
      <4>1. SUFFICES ASSUME Booting PROVE job'[w] = Idle
        OBVIOUS
      <4>2. job[w] = Idle /\ t # w
        BY <1>0, <4>1, JobShape DEF Layout
      <4>3. job'[w].steps = <<>>
        BY <3>1, <4>2, JobShape DEF JobsAfter
      <4>4. QED
        BY <3>1, <4>3 DEF Typed
    <3>4. QED
      BY <3>2, <3>3
  <2>2. QED
    BY <2>1
<1>13. QED
  BY <1>1, <1>7, <1>8, <1>9, <1>10, <1>11, <1>12 DEF Layout, Exists

-----------------------------------------------------------------------------
(* What a list of steps will do.                                           *)

\* The texts that a list of steps is going to publish in a file.
Fills(s, f) == {x.text : x \in {y \in ToSet(s) : y.op = "fill" /\ y.file = f}}
Pending(s, tmp, f) == Fills(s, f) \cup (IF s # <<>> /\ s[1] = PublishStep(f) THEN {tmp[f]} ELSE {})

\* The profile that becomes the active one has its file and keeps it.
Targets(s) ==
    \A c \in Pending(s, temp, StateFile) :
        c.active = Default \/ (Exists(ProfileFile(c.active)) /\ RemoveStep(ProfileFile(c.active)) \notin ToSet(s))
Deferred(s) == \E c \in Pending(s, temp, StateFile) : c.active = Default
\* Another one takes its place when it is removed.
Removes(s) == RemoveStep(Active) \in ToSet(s) => Deferred(s)

\* A list writes one host file; a move comes first and makes place for it.
OneWrite(s) ==
    /\ \A f, g \in HostFiles : PublishStep(f) \in ToSet(s) /\ PublishStep(g) \in ToSet(s) => f = g
    /\ \A i \in 2..Len(s) : s[i].op # "move"
    /\ s # <<>> /\ s[1].op = "move" => \A f \in HostFiles : PublishStep(f) \in ToSet(s) => f = s[1].to
OneToCome(s) ==
    \A f \in HostFiles :
        PublishStep(f) \in ToSet(s) /\ NameOf(f) \notin raced \cup copied =>
            s[1].op = "move" \/ \A g \in HostFiles : NameOf(g) = NameOf(f) /\ Exists(g) => g = f

\* What has to hold for the goal to be met at the end.
ForActive(s, goal) ==
    Last(s) = PublishStep(StateFile) /\ \A c \in Pending(s, temp, StateFile) : c.active = goal.value
ForKey(s, goal) ==
    \E f \in {Active, MainFile} :
        /\ Last(s) = PublishStep(f)
        /\ f = MainFile => SettingsOf(Active)[goal.kind] = Unset
        /\ \A c \in Pending(s, temp, f) : c.settings[goal.kind] = goal.value
        /\ \A x \in ToSet(s) : x.op \notin {"remove", "move"} /\ x.file \in {StateFile, f}
        /\ \A c \in Pending(s, temp, StateFile) : c.active = State.active
ForWritten(s, n, goal) ==
    /\ Last(s) = PublishStep(goal.file) /\ NameOf(goal.file) = n
    /\ n \notin raced => \A c \in Pending(s, temp, goal.file) : c = goal.text
ForDeleted(s, n, goal) ==
    /\ NameOf(goal.file) = n
    /\ \A x \in ToSet(s) : /\ x.op # "move"
                           /\ x.op = "publish" /\ x.file \in HostFiles => NameOf(x.file) # n
    /\ n \notin raced =>
        \/ RemoveStep(goal.file) \in ToSet(s)
        \/ /\ ~ Exists(goal.file)
           /\ n \notin copied => \A g \in HostFiles : NameOf(g) = n => ~ Exists(g)
Goal(s, n, goal) ==
    /\ goal.kind = "active" => ForActive(s, goal)
    /\ goal.kind \in Key => ForKey(s, goal)
    /\ goal.kind = "written" => ForWritten(s, n, goal)
    /\ goal.kind = "deleted" => ForDeleted(s, n, goal)

\* A command plans its steps from what it reads.
Touches(t, id, x) ==
    /\ x.file \in HostFiles =>
        /\ NameOf(x.file) \in Host
        /\ \/ NameOf(x.file) = id
           \/ /\ x.op \notin {"remove", "move"} /\ t = Main
              /\ NameOf(x.file) \in Fresh /\ NameOf(x.file) # id
    /\ x.file \notin HostFiles => t = Main
Planned(t, id, s, goal) ==
    /\ Program(s) /\ s # <<>>
    /\ id \in Host \cup {Local, NoHost} /\ goal \in GoalSet /\ goal.kind # "boot"
    /\ t # Main => id \in Host /\ goal = NoGoal /\ \E f \in HostFiles : NameOf(f) = id /\ Exists(f)
    /\ \A x \in ToSet(s) : Touches(t, id, x)
    /\ ThenOld(s, id)
Intended(id, s, goal) == Targets(s) /\ Removes(s) /\ OneWrite(s) /\ OneToCome(s) /\ Goal(s, id, goal)

-----------------------------------------------------------------------------
(* What a command reads.                                                   *)

LEMMA Readings ==
  ASSUME Typed, Whole
  PROVE  /\ State \in Text(StateFile) /\ State.active \in Profile /\ State.removed \in BOOLEAN
         /\ Active = ProfileFile(State.active)
         /\ \A f \in {MainFile} \cup {ProfileFile(p) : p \in Profile} : SettingsOf(f) \in Settings
         /\ HostDirs \in Seq(Dir)
         /\ \A f \in HostFiles : Readable(f) => disk[f] \in Text(f)
         /\ \A id \in Host \cup {Local} : \A f \in PathsOf(id) :
               f \in HostFiles /\ Exists(f) /\ NameOf(f) = id /\ id \in Host
<1>1. \A f \in File : f \notin HostFiles => disk[f] \in Text(f) \cup {NoFile}
  BY DEF Typed, Whole, Raced, Spoilt
<1>2. State \in Text(StateFile)
  <2>1. AppStateFile(Default, FALSE) \in Text(StateFile)
    BY StateText, ConfigFilesAssumption DEF ConfigFilesAssumption
  <2>2. StateFile \in File /\ StateFile \notin HostFiles
    BY FilesDiffer
  <2>3. QED
    BY <1>1, <2>1, <2>2 DEF State, Exists
<1>3. State.active \in Profile /\ State.removed \in BOOLEAN
  BY <1>2, StateText
<1>4. ASSUME NEW f \in {MainFile} \cup {ProfileFile(p) : p \in Profile} PROVE SettingsOf(f) \in Settings
  <2>1. f \in File /\ f \notin HostFiles
    BY FilesDiffer
  <2>2. Exists(f) => disk[f] \in Text(f)
    BY <1>1, <2>1 DEF Exists
  <2>3. QED
    BY <2>2, DocumentText, SettingsShape DEF SettingsOf
<1>5. HostDirs \in Seq(Dir)
  <2>1. SettingsOf(MainFile) \in Settings /\ SettingsOf(Active) \in Settings
    BY <1>3, <1>4 DEF Active
  <2>2. "host_dirs" \in Key
    BY DEF Key
  <2>3. Value("host_dirs") = {Unset} \cup Seq(Dir)
    BY DEF Value
  <2>4. SettingsOf(MainFile)["host_dirs"] \in {Unset} \cup Seq(Dir) /\ SettingsOf(Active)["host_dirs"] \in {Unset} \cup Seq(Dir)
    BY <2>1, <2>2, <2>3, SettingsShape
  <2>5. Effective("host_dirs") \in {Unset} \cup Seq(Dir)
    BY <2>4 DEF Effective
  <2>6. <<DefaultDir>> \in Seq(Dir)
    BY ConfigFilesAssumption DEF ConfigFilesAssumption
  <2>7. QED
    BY <2>5, <2>6 DEF HostDirs
<1>6. ASSUME NEW f \in HostFiles, Readable(f) PROVE disk[f] \in Text(f)
  <2>1. disk[f] \in Text(f) \cup Spoilt
    BY FilesDiffer DEF Typed
  <2>2. QED
    BY <1>6, <2>1, SpoiltShape DEF Readable
<1>7. ASSUME NEW id \in Host \cup {Local}, NEW f \in PathsOf(id)
      PROVE  f \in HostFiles /\ Exists(f) /\ NameOf(f) = id /\ id \in Host
  <2>1. PICK p \in Place : f = FileAt(p) /\ Exists(f) /\ Matches(f, id)
    BY <1>7 DEF PathsOf
  <2>2. p[1] \in DOMAIN HostDirs /\ p[2] \in DOMAIN ScanOrder
    BY <2>1 DEF Place
  <2>3. HostDirs[p[1]] \in Dir
    BY <1>5, <2>2
  <2>4. ScanOrder[p[2]] \in ToSet(ScanOrder)
    BY <2>2 DEF ToSet
  <2>5. f \in HostFiles
    BY <2>1, <2>3, <2>4 DEF FileAt, HostFiles
  <2>6. NameOf(f) = id
    BY <1>6, <2>1, <2>5, HostTextShape DEF Matches
  <2>7. NameOf(f) \in Host
    <3>1. disk[f] \in Text(f) \cup {Blank, Torn}
      BY <2>1, <2>5, FilesDiffer DEF Typed, Spoilt, Exists
    <3>2. disk[f] \in {Blank, Torn} => NameOf(f) \in raced
      BY <2>5, FilesDiffer DEF Whole, Raced
    <3>3. disk[f] \in Text(f) => NameOf(f) \in Host
      BY <2>5, HostTextShape
    <3>4. raced \subseteq Host
      BY DEF Typed
    <3>5. QED
      BY <3>1, <3>2, <3>3, <3>4
  <2>8. QED
    BY <2>1, <2>5, <2>6, <2>7
<1>8. QED
  BY <1>2, <1>3, <1>4, <1>5, <1>6, <1>7 DEF Active

\* The job that a command gets.
LEMMA BegunJob ==
  ASSUME DiskInv, NEW t \in Thread, NEW id, NEW s, NEW goal, Planned(t, id, s, goal), Begin(t, id, s, goal)
  PROVE  /\ job' \in [Thread -> Jobs] /\ \A u \in Thread \ {t} : job'[u] = job[u]
         /\ job'[t].steps = s /\ job'[t].host = id /\ job'[t].goal = goal /\ job'[t].opened = <<>>
         /\ job[t] = Idle /\ running /\ ~ Booting
         /\ UNCHANGED <<disk, temp, running, failures, copied>> /\ commands' \in 0..MaxCommand
         /\ raced \subseteq raced' /\ raced' \subseteq raced \cup ({id} \cap Host)
         /\ id \in Host /\ Races(t, id) => id \in raced'
<1>1. running /\ ~ Booting /\ job[t] = Idle
  BY DEF Begin, Booting
<1>2. EnsureLayout = <<>>
  BY <1>1 DEF DiskInv, Layout, EnsureLayout, Base
<1>3. EnsureLayout \o s = s
  <2>1. s \in Seq(StepSet)
    BY DEF Planned, Program
  <2>2. QED
    BY <1>2, <2>1
<1> DEFINE j == [Idle EXCEPT !.steps = s, !.host = id, !.goal = goal]
<1>4. s \in Seq(StepSet) /\ id \in Host \cup {Local, NoHost} /\ goal \in GoalSet
  BY DEF Planned, Program
<1>5. ASSUME NEW c \in Jobs
      PROVE  /\ [c EXCEPT !.steps = s, !.host = id, !.goal = goal] \in Jobs
             /\ [c EXCEPT !.steps = s, !.host = id, !.goal = goal].steps = s
             /\ [c EXCEPT !.steps = s, !.host = id, !.goal = goal].host = id
             /\ [c EXCEPT !.steps = s, !.host = id, !.goal = goal].goal = goal
             /\ [c EXCEPT !.steps = s, !.host = id, !.goal = goal].opened = c.opened
  BY <1>4 DEF Jobs
<1>6. job' = [job EXCEPT ![t] = j]
  BY <1>3 DEF Begin
<1>7. j \in Jobs /\ j.steps = s /\ j.host = id /\ j.goal = goal /\ j.opened = <<>>
  BY <1>5, JobShape
<1> HIDE DEF j
<1>8. job \in [Thread -> Jobs]
  BY DEF DiskInv, Typed
<1>9. job' \in [Thread -> Jobs] /\ job'[t] = j /\ \A u \in Thread \ {t} : job'[u] = job[u]
  BY <1>6, <1>7, <1>8
<1>10. commands' \in 0..MaxCommand
  <2>1. commands \in 0..MaxCommand /\ MaxCommand \in Nat
    BY ConfigFilesAssumption DEF DiskInv, Typed, ConfigFilesAssumption
  <2>2. commands < MaxCommand /\ commands' = commands + 1
    BY DEF Begin
  <2>3. QED
    BY <2>1, <2>2
<1>11. /\ raced' = IF id \in Host /\ Races(t, id) THEN raced \cup {id} ELSE raced
       /\ UNCHANGED <<disk, temp, running, failures, copied>>
  BY DEF Begin
<1>12. QED
  BY <1>1, <1>7, <1>9, <1>10, <1>11

LEMMA BeginKeeps ==
  ASSUME DiskInv, NEW t \in Thread, NEW id, NEW s, NEW goal, Planned(t, id, s, goal), Begin(t, id, s, goal)
  PROVE  DiskInv'
<1>1. /\ job' \in [Thread -> Jobs] /\ \A u \in Thread \ {t} : job'[u] = job[u]
      /\ job'[t].steps = s /\ job'[t].host = id /\ job'[t].goal = goal /\ job'[t].opened = <<>>
      /\ job[t] = Idle /\ running /\ ~ Booting
  BY BegunJob
<1>2. /\ UNCHANGED <<disk, temp, running, failures, copied>> /\ commands' \in 0..MaxCommand
      /\ raced \subseteq raced' /\ raced' \subseteq raced \cup ({id} \cap Host)
      /\ id \in Host /\ Races(t, id) => id \in raced'
  BY BegunJob
<1>3. /\ Program(s) /\ s # <<>> /\ id \in Host \cup {Local, NoHost} /\ goal \in GoalSet /\ goal.kind # "boot"
      /\ t # Main => id \in Host /\ goal = NoGoal /\ \E f \in HostFiles : NameOf(f) = id /\ Exists(f)
      /\ \A x \in ToSet(s) : Touches(t, id, x)
      /\ ThenOld(s, id)
  BY DEF Planned
<1>4. Typed /\ Owners /\ Lists /\ Whole /\ Layout
  BY DEF DiskInv
<1>5. Typed'
  <2>1. \A u \in Thread : job'[u].steps = <<>> => job'[u] = Idle
    BY <1>1, <1>3, <1>4 DEF Typed
  <2>2. raced' \subseteq Host
    BY <1>2, <1>4 DEF Typed
  <2>3. QED
    BY <1>1, <1>2, <1>4, <2>1, <2>2 DEF Typed
<1>6. NoHost \notin Host /\ Local \notin Host /\ Main \in Thread /\ Main \notin Worker /\ Thread = {Main} \cup Worker
  BY ConfigFilesAssumption DEF ConfigFilesAssumption, Thread
<1>7. ASSUME NEW x \in ToSet(s) PROVE Own(t, x)'
  <2>1. Touches(t, id, x)
    BY <1>3
  <2>2. ASSUME NameOf(x.file) \in Fresh, NameOf(x.file) # id, t = Main
        PROVE  NewName(t, NameOf(x.file))'
    <3> DEFINE n == NameOf(x.file)
    <3>1. n \in Host /\ n \notin raced /\ (\A g \in HostFiles : NameOf(g) # n \/ ~ Exists(g)) /\ \A u \in Thread : job[u].host # n
      BY <2>2 DEF Fresh
    <3>2. n \notin raced' /\ \A u \in Thread : job'[u].host # n
      BY <1>1, <1>2, <2>2, <3>1
    <3> HIDE DEF n
    <3>3. NewName(t, n)'
      BY <1>2, <2>2, <3>1, <3>2 DEF NewName, Exists
    <3>4. QED
      BY <3>3 DEF n
  <2>3. QED
    BY <1>1, <2>1, <2>2 DEF Own, Touches
<1>8. ASSUME NEW u \in Thread \ {t}, NEW x \in ToSet(job[u].steps) PROVE Own(u, x)'
  <2>1. Own(u, x)
    BY <1>4 DEF Owners
  <2>2. ASSUME NEW n, NewName(u, n) PROVE NewName(u, n)'
    <3>1. u = Main /\ t # Main
      BY <2>2 DEF NewName
    <3>2. PICK f \in HostFiles : NameOf(f) = id /\ Exists(f)
      BY <1>3, <3>1
    <3>3. n # id
      BY <2>2, <3>2 DEF NewName, Exists
    <3>4. QED
      BY <1>1, <1>2, <2>2, <3>3 DEF NewName
  <2>3. QED
    BY <1>1, <2>1, <2>2 DEF Own
<1>9. Owners'
  <2>1. ASSUME NEW u \in Thread, NEW x \in ToSet(job'[u].steps) PROVE Own(u, x)'
    BY <1>1, <1>7, <1>8
  <2>2. ASSUME NEW u \in Thread PROVE ThenOld(job'[u].steps, job'[u].host)
    BY <1>1, <1>3, <1>4 DEF Owners
  <2>3. \A w \in Worker : job'[w].host \in Host \cup {NoHost}
    BY <1>1, <1>3, <1>4, <1>6 DEF Owners
  <2>4. ASSUME NEW u \in Thread \ {t}, job[u].host = id PROVE id \in raced' \cup {NoHost}
    <3>1. CASE id \in Host
      <4>1. Races(t, id)
        BY <2>4 DEF Races
      <4>2. QED
        BY <1>2, <3>1, <4>1
    <3>2. CASE id = Local
      <4>1. t = Main /\ u \in Worker
        BY <1>3, <1>6, <3>2
      <4>2. QED
        BY <1>4, <1>6, <2>4, <3>2, <4>1 DEF Owners
    <3>3. QED
      BY <1>3, <3>1, <3>2
  <2>5. ASSUME NEW u \in Thread, NEW v \in Thread, u # v, job'[u].host = job'[v].host
        PROVE  job'[u].host \in raced' \cup {NoHost}
    BY <1>1, <1>2, <1>4, <2>4, <2>5 DEF Owners
  <2>6. QED
    BY <2>1, <2>2, <2>3, <2>5 DEF Owners
<1>10. Lists'
  <2>1. \A u \in Thread : InBlocks(job'[u].steps)
    BY <1>1, <1>3, <1>4 DEF Lists, Program
  <2>2. ASSUME NEW u \in Thread, job'[u].steps # <<>> PROVE HeadOK(u)'
    <3>1. CASE u = t
      <4>1. s[1].op \notin {"fill", "publish"}
        BY <1>3 DEF Program, Starts
      <4>2. QED
        BY <1>1, <3>1, <4>1 DEF HeadOK
    <3>2. CASE u # t
      <4>1. HeadOK(u) /\ job'[u] = job[u]
        BY <1>1, <1>4, <2>2, <3>2 DEF Lists
      <4>2. QED
        BY <1>2, <4>1 DEF HeadOK, Raced
    <3>3. QED
      BY <3>1, <3>2
  <2>3. QED
    BY <2>1, <2>2 DEF Lists
<1>11. Whole'
  BY <1>2, <1>4 DEF Whole, Raced
<1>12. Layout'
  <2>1. ~ Booting'
    BY <1>1, <1>3, <1>6 DEF Booting
  <2>2. \A w \in Worker : job'[w].goal = NoGoal
    BY <1>1, <1>3, <1>4, <1>6 DEF Layout
  <2>3. QED
    BY <1>1, <1>2, <1>4, <2>1, <2>2 DEF Layout, Exists
<1>13. QED
  BY <1>5, <1>9, <1>10, <1>11, <1>12 DEF DiskInv

-----------------------------------------------------------------------------
(* Plans.                                                                  *)

LEMMA Kinds ==
  /\ \A f : OpenStep(f).op = "open" /\ OpenStep(f).file = f
  /\ \A f : PublishStep(f).op = "publish" /\ PublishStep(f).file = f
  /\ \A f : RemoveStep(f).op = "remove" /\ RemoveStep(f).file = f
  /\ \A f, c : FillStep(f, c).op = "fill" /\ FillStep(f, c).file = f /\ FillStep(f, c).text = c
  /\ \A f, g : MoveStep(f, g).op = "move" /\ MoveStep(f, g).file = f /\ MoveStep(f, g).to = g
BY DEF OpenStep, PublishStep, RemoveStep, FillStep, MoveStep

\* A list that begins with a step of its own publishes only what it fills.
LEMMA AtStart ==
  ASSUME NEW s, Program(s), NEW tmp, NEW f
  PROVE  Pending(s, tmp, f) = Fills(s, f)
BY Kinds DEF Pending, Program, Starts

LEMMA FillsJoined ==
  ASSUME NEW a, NEW b, Program(a), Program(b), NEW f
  PROVE  Fills(a \o b, f) = Fills(a, f) \cup Fills(b, f)
<1>1. ToSet(a \o b) = ToSet(a) \cup ToSet(b)
  BY Joined
<1>2. QED
  BY <1>1 DEF Fills

LEMMA FillsOfSteps ==
  /\ \A f \in File : \A c \in Text(f) : \A g :
        Fills(WriteAtomic(f, c), g) = IF g = f THEN {c} ELSE {}
  /\ \A f, g : Fills(Unlink(f), g) = {}
  /\ \A f, g, h : Fills(MoveTo(f, g), h) = {}
  /\ \A g : Fills(<<>>, g) = {}
<1>2. ASSUME NEW f \in File, NEW c \in Text(f), NEW g
      PROVE  Fills(WriteAtomic(f, c), g) = IF g = f THEN {c} ELSE {}
  <2>1. ToSet(WriteAtomic(f, c)) = {OpenStep(f), FillStep(f, c), PublishStep(f)}
    BY WriteProgram
  <2>2. {y \in ToSet(WriteAtomic(f, c)) : y.op = "fill" /\ y.file = g} = IF g = f THEN {FillStep(f, c)} ELSE {}
    BY <2>1, Kinds
  <2>3. QED
    BY <2>2, Kinds DEF Fills
<1>3. ASSUME NEW f, NEW g PROVE Fills(Unlink(f), g) = {}
  <2>1. ToSet(Unlink(f)) = {RemoveStep(f)}
    BY DEF Unlink, ToSet, RemoveStep
  <2>2. QED
    BY <2>1, Kinds DEF Fills
<1>4. ASSUME NEW f, NEW g, NEW h PROVE Fills(MoveTo(f, g), h) = {}
  <2>1. ToSet(MoveTo(f, g)) = {MoveStep(f, g)}
    BY DEF MoveTo, ToSet, MoveStep
  <2>2. QED
    BY <2>1, Kinds DEF Fills
<1>5. \A g : Fills(<<>>, g) = {}
  BY NoSteps DEF Fills
<1>6. QED
  BY <1>2, <1>3, <1>4, <1>5

LEMMA UnlinkProgram ==
  ASSUME NEW f \in Removable
  PROVE  Program(Unlink(f)) /\ ToSet(Unlink(f)) = {RemoveStep(f)} /\ Unlink(f) # <<>> /\ Last(Unlink(f)) = RemoveStep(f)
<1>1. Unlink(f) = <<RemoveStep(f)>> /\ RemoveStep(f) \in StepSet
  BY StepsMade DEF Unlink, RemoveStep
<1>2. QED
  BY <1>1, OneStep, Kinds DEF Last

LEMMA MoveProgram ==
  ASSUME NEW f \in HostFiles, NEW g \in HostFiles, NameOf(f) = NameOf(g)
  PROVE  /\ Program(MoveTo(f, g)) /\ ToSet(MoveTo(f, g)) = {MoveStep(f, g)} /\ MoveTo(f, g) # <<>>
         /\ MoveTo(f, g)[1] = MoveStep(f, g) /\ Len(MoveTo(f, g)) = 1
<1>1. MoveTo(f, g) = <<MoveStep(f, g)>> /\ MoveStep(f, g) \in StepSet
  BY StepsMade DEF MoveTo, MoveStep
<1>2. QED
  BY <1>1, OneStep, Kinds

\* A plan that leaves the files of the hosts alone.
LEMMA PlannedForApp ==
  ASSUME NEW s, Program(s), s # <<>>, \A x \in ToSet(s) : x.file \notin HostFiles,
         NEW id \in Host \cup {Local, NoHost}, NEW goal \in GoalSet, goal.kind # "boot"
  PROVE  Planned(Main, id, s, goal) /\ OneWrite(s) /\ OneToCome(s)
<1>1. s \in Seq(StepSet) /\ DOMAIN s = 1..Len(s) /\ Len(s) \in Nat \ {0}
  BY DEF Program
<1>2. \A i \in 1..Len(s) : s[i] \in ToSet(s) /\ s[i] \in StepSet
  BY <1>1 DEF ToSet
<1>3. \A i \in 1..Len(s) : s[i].op # "move" /\ s[i].file \notin HostFiles
  BY <1>2, StepShape
<1>4. ThenOld(s, id)
  BY <1>3 DEF ThenOld
<1>5. \A f \in HostFiles : PublishStep(f) \notin ToSet(s)
  BY Kinds
<1>6. OneWrite(s) /\ OneToCome(s)
  <2>1. \A i \in 2..Len(s) : i \in 1..Len(s)
    BY <1>1
  <2>2. QED
    BY <1>3, <1>5, <2>1 DEF OneWrite, OneToCome
<1>7. QED
  BY <1>4, <1>6 DEF Planned, Touches

Started(t) ==
    \E id, s, goal : Planned(t, id, s, goal) /\ Begin(t, id, s, goal) /\ Intended(id, s, goal)

\* The list of a command that writes one file of the application.
LEMMA AppWrite ==
  ASSUME NEW f \in File \ HostFiles, NEW c \in Text(f), NEW id \in Host \cup {Local, NoHost},
         NEW goal \in GoalSet, goal.kind # "boot",
         f = StateFile => c.active = Default \/ Exists(ProfileFile(c.active)),
         \/ goal = NoGoal
         \/ goal.kind = "active" /\ f = StateFile /\ c.active = goal.value
         \/ goal.kind \in Key /\ f \in {Active, MainFile} /\ (f = MainFile => SettingsOf(Active)[goal.kind] = Unset)
            /\ c.settings[goal.kind] = goal.value,
         StateFile # Active,
         Command(id, WriteAtomic(f, c), goal)
  PROVE  Started(Main)
<1> DEFINE s == WriteAtomic(f, c)
<1>1. /\ Program(s) /\ s # <<>> /\ ToSet(s) = {OpenStep(f), FillStep(f, c), PublishStep(f)}
      /\ Last(s) = PublishStep(f)
  BY WriteProgram DEF Last
<1>2. Command(id, s, goal)
  OBVIOUS
<1>3. \A g : Fills(s, g) = IF g = f THEN {c} ELSE {}
  BY FillsOfSteps
<1> HIDE DEF s
<1>4. \A g : Pending(s, temp, g) = IF g = f THEN {c} ELSE {}
  BY <1>1, <1>3, AtStart
<1>5. Planned(Main, id, s, goal) /\ OneWrite(s) /\ OneToCome(s)
  BY <1>1, Kinds, PlannedForApp
<1>6. \A g : RemoveStep(g) \notin ToSet(s)
  BY <1>1, Kinds
<1>7. Targets(s) /\ Removes(s)
  BY <1>4, <1>6 DEF Targets, Removes
<1>8. Goal(s, id, goal)
  <2>1. CASE goal = NoGoal
    <3>1. goal.kind = "none"
      BY <2>1 DEF NoGoal
    <3>2. QED
      BY <3>1 DEF Goal, Key
  <2>2. CASE goal.kind = "active" /\ f = StateFile /\ c.active = goal.value
    BY <1>1, <1>4, <2>2 DEF Goal, Key, ForActive
  <2>3. CASE goal.kind \in Key /\ f \in {Active, MainFile} /\ (f = MainFile => SettingsOf(Active)[goal.kind] = Unset)
            /\ c.settings[goal.kind] = goal.value
    <3>1. goal.kind \notin {"active", "written", "deleted"}
      BY <2>3 DEF Key
    <3>2. StateFile # f
      BY <2>3, FilesDiffer
    <3>3. \A x \in ToSet(s) : x.op \notin {"remove", "move"} /\ x.file = f
      BY <1>1, Kinds
    <3>4. ForKey(s, goal)
      BY <1>1, <1>4, <2>3, <3>2, <3>3 DEF ForKey
    <3>5. QED
      BY <3>1, <3>4 DEF Goal
  <2>4. QED
    BY <2>1, <2>2, <2>3
<1>9. QED
  BY <1>2, <1>5, <1>7, <1>8 DEF Started, Intended, Command

-----------------------------------------------------------------------------
(* Commands about settings and profiles.                                   *)

Documented == {MainFile} \cup {ProfileFile(p) : p \in Profile}

LEMMA DocumentedFiles ==
  /\ Documented \subseteq File \ HostFiles /\ StateFile \notin Documented /\ StateFile \in File \ HostFiles
  /\ \A p \in Profile : ProfileFile(p) # MainFile
  /\ Typed /\ Whole => Active \in Documented /\ Active # MainFile
BY FilesDiffer, Readings DEF Documented

LEMMA WriteOne ==
  ASSUME Typed, Whole, NEW f \in Documented, NEW k \in Key, NEW v \in Value(k)
  PROVE  \E c \in Text(f) : Write(f, k, v) = WriteAtomic(f, c) /\ c.settings[k] = v
<1> DEFINE d == [SettingsOf(f) EXCEPT ![k] = v]
<1>1. SettingsOf(f) \in Settings
  BY Readings DEF Documented
<1>2. d \in Settings /\ d[k] = v
  BY <1>1, SettingsShape
<1>3. Write(f, k, v) = WriteAtomic(f, Document(d))
  BY DEF Write
<1> HIDE DEF d
<1>4. Document(d) \in Text(f) /\ Document(d).settings = d
  BY <1>2, DocumentText DEF Documented
<1>5. QED
  BY <1>2, <1>3, <1>4

LEMMA WriteEffectiveOne ==
  ASSUME Typed, Whole, NEW k \in Key, NEW v \in Value(k)
  PROVE  \E f \in {Active, MainFile} : \E c \in Text(f) :
            /\ WriteEffective(k, v) = WriteAtomic(f, c) /\ c.settings[k] = v
            /\ f = MainFile => SettingsOf(Active)[k] = Unset
<1> DEFINE f == IF SettingsOf(Active)[k] # Unset THEN Active ELSE MainFile
<1>1. f \in {Active, MainFile} /\ f \in Documented /\ (f = MainFile => SettingsOf(Active)[k] = Unset)
  BY DocumentedFiles DEF Documented
<1>2. WriteEffective(k, v) = Write(f, k, v)
  BY DEF WriteEffective
<1> HIDE DEF f
<1>3. PICK c \in Text(f) : Write(f, k, v) = WriteAtomic(f, c) /\ c.settings[k] = v
  BY <1>1, WriteOne
<1>4. QED
  BY <1>1, <1>2, <1>3

LEMMA Goals ==
  /\ NoGoal \in GoalSet /\ NoGoal.kind = "none"
  /\ \A p \in Profile : [kind |-> "active", value |-> p] \in GoalSet
  /\ \A k \in Key, v \in Host \cup {Local, "vertical_left"} : [kind |-> k, value |-> v] \in GoalSet
  /\ \A f \in HostFiles : [kind |-> "deleted", file |-> f] \in GoalSet
  /\ \A f \in HostFiles : \A c \in Text(f) : [kind |-> "written", file |-> f, text |-> c] \in GoalSet
<1>1. NoGoal \in GoalSet /\ NoGoal.kind = "none"
  BY DEF GoalSet, NoGoal
<1>2. \A p \in Profile : [kind |-> "active", value |-> p] \in GoalSet
  BY DEF GoalSet
<1>3. \A k \in Key, v \in Host \cup {Local, "vertical_left"} : [kind |-> k, value |-> v] \in GoalSet
  BY DEF GoalSet
<1>4. \A f \in HostFiles : [kind |-> "deleted", file |-> f] \in GoalSet
  BY DEF GoalSet
<1>5. ASSUME NEW f \in HostFiles, NEW c \in Text(f)
      PROVE  [kind |-> "written", file |-> f, text |-> c] \in GoalSet
  <2>1. [kind |-> "written", file |-> f, text |-> c] \in [kind : {"written"}, file : {f}, text : Text(f)]
    OBVIOUS
  <2>2. QED
    BY <2>1 DEF GoalSet
<1>6. QED
  BY <1>1, <1>2, <1>3, <1>4, <1>5

LEMMA WriteKey ==
  ASSUME Typed, Whole, NEW f \in Documented, NEW k \in Key, NEW v \in Value(k),
         Command(NoHost, Write(f, k, v), NoGoal)
  PROVE  Started(Main)
<1>1. PICK c \in Text(f) : Write(f, k, v) = WriteAtomic(f, c)
  BY WriteOne
<1>2. Command(NoHost, WriteAtomic(f, c), NoGoal)
  BY <1>1
<1>3. f \in File \ HostFiles /\ f # StateFile /\ StateFile # Active
  BY DocumentedFiles
<1>4. NoGoal \in GoalSet /\ NoGoal.kind # "boot"
  BY Goals
<1>5. QED
  BY <1>2, <1>3, <1>4, AppWrite

LEMMA WriteDocument ==
  ASSUME Typed, Whole, NEW f \in Documented, NEW s \in Documents,
         Command(NoHost, WriteAtomic(f, Document(s)), NoGoal)
  PROVE  Started(Main)
<1> DEFINE c == Document(s)
<1>1. Command(NoHost, WriteAtomic(f, c), NoGoal)
  OBVIOUS
<1>2. c \in Text(f)
  BY DocumentText, ConfigDataAssumption DEF Documented, ConfigDataAssumption
<1> HIDE DEF c
<1>3. f \in File \ HostFiles /\ f # StateFile /\ StateFile # Active
  BY DocumentedFiles
<1>4. NoGoal \in GoalSet /\ NoGoal.kind # "boot"
  BY Goals
<1>5. QED
  BY <1>1, <1>2, <1>3, <1>4, AppWrite

LEMMA SimpleCommands ==
  ASSUME Typed, Whole,
         \/ \E p \in Profile : SetActiveProfile(p)
         \/ \E p \in Profile, s \in Documents : CreateProfile(p, s) \/ UpdateProfile(p, s)
         \/ \E s \in Documents : UpdateMainConfig(s)
         \/ \E k \in Key : RemoveConfigKey(MainFile, k) \/ \E p \in Profile : RemoveConfigKey(ProfileFile(p), k)
         \/ \E dirs \in {<<d>> : d \in Dir} : SetHostDirs(dirs)
         \/ SetTabBarOrientation("vertical_left")
  PROVE  Started(Main)
<1>0. MainFile \in Documented /\ \A p \in Profile : ProfileFile(p) \in Documented
  BY DEF Documented
<1>1. ASSUME NEW p \in Profile, SetActiveProfile(p) PROVE Started(Main)
  <2> DEFINE c == AppStateFile(p, State.removed)
             goal == [kind |-> "active", value |-> p]
  <2>1. Command(NoHost, WriteAtomic(StateFile, c), goal)
    BY <1>1 DEF SetActiveProfile, Activate
  <2>2. c \in Text(StateFile) /\ c.active = p
    BY Readings, StateText
  <2>3. goal \in GoalSet /\ goal.kind = "active" /\ goal.value = p
    BY Goals
  <2>4. Exists(ProfileFile(p))
    BY <1>1 DEF SetActiveProfile
  <2>5. StateFile \in File \ HostFiles /\ StateFile # Active
    BY DocumentedFiles
  <2> HIDE DEF c, goal
  <2>6. QED
    BY <2>1, <2>2, <2>3, <2>4, <2>5, AppWrite
<1>2. ASSUME NEW p \in Profile, NEW s \in Documents, CreateProfile(p, s) \/ UpdateProfile(p, s)
      PROVE  Started(Main)
  BY <1>0, <1>2, WriteDocument DEF CreateProfile, UpdateProfile
<1>3. ASSUME NEW s \in Documents, UpdateMainConfig(s) PROVE Started(Main)
  BY <1>0, <1>3, WriteDocument DEF UpdateMainConfig
<1>4. ASSUME NEW k \in Key, NEW f \in Documented, RemoveConfigKey(f, k) PROVE Started(Main)
  <2>1. Unset \in Value(k)
    BY DEF Key, Value
  <2>2. QED
    BY <1>4, <2>1, WriteKey DEF RemoveConfigKey
<1>5. ASSUME NEW d \in Dir, SetHostDirs(<<d>>) PROVE Started(Main)
  <2>1. "host_dirs" \in Key /\ Value("host_dirs") = {Unset} \cup Seq(Dir)
    BY DEF Key, Value
  <2>2. <<d>> \in Value("host_dirs")
    <3>1. <<d>> \in Seq(Dir)
      OBVIOUS
    <3>2. QED
      BY <2>1, <3>1
  <2>3. Command(NoHost, Write(MainFile, "host_dirs", <<d>>), NoGoal)
    BY <1>5 DEF SetHostDirs
  <2> DEFINE v == <<d>>
  <2> HIDE DEF v
  <2>4. v \in Value("host_dirs") /\ Command(NoHost, Write(MainFile, "host_dirs", v), NoGoal)
    BY <2>2, <2>3 DEF v
  <2>5. QED
    BY <1>0, <2>1, <2>4, WriteKey
<1>6. ASSUME SetTabBarOrientation("vertical_left") PROVE Started(Main)
  <2> DEFINE k == "tab_bar_orientation"
             v == "vertical_left"
             goal == [kind |-> k, value |-> v]
  <2>1. k \in Key /\ v \in Value(k)
    BY DEF Key, Value
  <2>2. goal \in GoalSet /\ goal.kind = k /\ goal.value = v
    BY <2>1, Goals
  <2>3. Command(NoHost, WriteEffective(k, v), goal)
    BY <1>6 DEF SetTabBarOrientation
  <2>4. k \in Key /\ k # "boot"
    BY <2>1
  <2> HIDE DEF k, v, goal
  <2>5. PICK f \in {Active, MainFile} : \E c \in Text(f) :
            /\ WriteEffective(k, v) = WriteAtomic(f, c) /\ c.settings[k] = v
            /\ f = MainFile => SettingsOf(Active)[k] = Unset
    BY <2>1, WriteEffectiveOne
  <2>6. PICK c \in Text(f) :
            /\ WriteEffective(k, v) = WriteAtomic(f, c) /\ c.settings[k] = v
            /\ f = MainFile => SettingsOf(Active)[k] = Unset
    BY <2>5
  <2>7. f \in File \ HostFiles /\ f # StateFile /\ StateFile # Active
    BY <2>5, <1>0, DocumentedFiles
  <2>8. Command(NoHost, WriteAtomic(f, c), goal)
    BY <2>3, <2>6
  <2>9. QED
    BY <2>2, <2>4, <2>5, <2>6, <2>7, <2>8, AppWrite
<1>7. QED
  BY <1>0, <1>1, <1>2, <1>3, <1>4, <1>5, <1>6

\* The list that takes a host out of the settings.
LEMMA Forgetting ==
  ASSUME Typed, Whole, NEW id
  PROVE  /\ Program(ForgetDefault(id)) /\ Fills(ForgetDefault(id), StateFile) = {}
         /\ \A x \in ToSet(ForgetDefault(id)) : x.op \notin {"remove", "move"} /\ x.file \notin HostFiles
<1> DEFINE k == "default_host"
<1>1. k \in Key /\ Unset \in Value(k)
  BY DEF Key, Value
<1>2. \/ ForgetDefault(id) = <<>>
      \/ ForgetDefault(id) = Write(Active, k, Unset)
      \/ ForgetDefault(id) = Write(MainFile, k, Unset)
  BY DEF ForgetDefault
<1> HIDE DEF k
<1>3. CASE ForgetDefault(id) = <<>>
  BY <1>3, NoSteps, FillsOfSteps
<1>4. ASSUME NEW f \in Documented
      PROVE  /\ Program(Write(f, k, Unset)) /\ Fills(Write(f, k, Unset), StateFile) = {}
             /\ \A x \in ToSet(Write(f, k, Unset)) : x.op \notin {"remove", "move"} /\ x.file \notin HostFiles
  <2>1. PICK c \in Text(f) : Write(f, k, Unset) = WriteAtomic(f, c)
    BY <1>1, WriteOne
  <2>2. f \in File \ HostFiles /\ f # StateFile
    BY DocumentedFiles
  <2>3. Program(WriteAtomic(f, c)) /\ ToSet(WriteAtomic(f, c)) = {OpenStep(f), FillStep(f, c), PublishStep(f)}
    BY <2>2, WriteProgram
  <2>4. Fills(WriteAtomic(f, c), StateFile) = {}
    BY <2>2, FillsOfSteps
  <2>5. QED
    BY <2>1, <2>2, <2>3, <2>4, Kinds
<1>5. Active \in Documented /\ MainFile \in Documented
  BY DocumentedFiles DEF Documented
<1>6. QED
  BY <1>2, <1>3, <1>4, <1>5

LEMMA DeleteProfilePlan ==
  ASSUME Typed, Whole, NEW p \in Profile, DeleteProfile(p)
  PROVE  Started(Main)
<1> DEFINE a == Unlink(ProfileFile(p))
           b == IF State.active = p THEN Activate(Default) ELSE <<>>
           s == a \o b
           c == AppStateFile(Default, State.removed)
<1>1. p # Default /\ Command(NoHost, s, NoGoal)
  BY DEF DeleteProfile
<1>2. ProfileFile(p) \in Removable /\ ProfileFile(p) \notin HostFiles
  BY <1>1, FilesDiffer DEF Removable
<1>3. Program(a) /\ ToSet(a) = {RemoveStep(ProfileFile(p))} /\ a # <<>> /\ \A g : Fills(a, g) = {}
  BY <1>2, UnlinkProgram, FillsOfSteps
<1>4. c \in Text(StateFile) /\ c.active = Default
  BY Readings, StateText, ConfigFilesAssumption DEF ConfigFilesAssumption
<1>5. StateFile \in File \ HostFiles
  BY DocumentedFiles
<1>6. /\ Program(b) /\ \A x \in ToSet(b) : x.file = StateFile /\ x.op \notin {"remove", "move"}
      /\ State.active = p => Fills(b, StateFile) = {c}
      /\ State.active # p => Fills(b, StateFile) = {}
  <2>1. CASE State.active = p
    <3>1. b = WriteAtomic(StateFile, c)
      BY <2>1 DEF Activate
    <3> HIDE DEF c
    <3>2. Program(WriteAtomic(StateFile, c)) /\ Fills(WriteAtomic(StateFile, c), StateFile) = {c}
          /\ ToSet(WriteAtomic(StateFile, c)) = {OpenStep(StateFile), FillStep(StateFile, c), PublishStep(StateFile)}
      BY <1>4, <1>5, WriteProgram, FillsOfSteps
    <3>3. QED
      BY <2>1, <3>1, <3>2, Kinds
  <2>2. CASE State.active # p
    BY <2>2, NoSteps, FillsOfSteps
  <2>3. QED
    BY <2>1, <2>2
<1> HIDE DEF a, b, c
<1>7. Program(s) /\ s # <<>> /\ ToSet(s) = ToSet(a) \cup ToSet(b) /\ Fills(s, StateFile) = Fills(b, StateFile)
  <2>1. Program(s) /\ s # <<>> /\ ToSet(s) = ToSet(a) \cup ToSet(b)
    BY <1>3, <1>6, Joined
  <2>2. Fills(s, StateFile) = Fills(a, StateFile) \cup Fills(b, StateFile)
    BY <1>3, <1>6, FillsJoined
  <2>3. QED
    BY <1>3, <2>1, <2>2
<1> HIDE DEF s
<1>8. \A x \in ToSet(s) : x.file \notin HostFiles
  BY <1>2, <1>3, <1>5, <1>6, <1>7, Kinds
<1>9. NoGoal \in GoalSet /\ NoGoal.kind = "none"
  BY Goals
<1>10. Planned(Main, NoHost, s, NoGoal) /\ OneWrite(s) /\ OneToCome(s)
  BY <1>7, <1>8, <1>9, PlannedForApp
<1>11. Pending(s, temp, StateFile) = Fills(b, StateFile)
  BY <1>7, AtStart
<1>12. Targets(s)
  BY <1>4, <1>6, <1>11 DEF Targets
<1>13. Removes(s)
  <2>1. SUFFICES ASSUME RemoveStep(Active) \in ToSet(s) PROVE Deferred(s)
    BY DEF Removes
  <2>2. RemoveStep(Active) = RemoveStep(ProfileFile(p))
    BY <1>3, <1>6, <1>7, <2>1, Kinds
  <2>3. Active = ProfileFile(p)
    BY <2>2, Kinds
  <2>4. State.active = p
    BY <2>3, Readings, FilesDiffer
  <2>5. QED
    BY <1>4, <1>6, <1>11, <2>4 DEF Deferred
<1>14. Goal(s, NoHost, NoGoal)
  BY <1>9 DEF Goal, Key
<1>15. QED
  BY <1>1, <1>10, <1>12, <1>13, <1>14 DEF Started, Intended, Command

\* The text that keeps the active profile.
LEMMA SameActive ==
  ASSUME Typed, Whole, Usable, NEW b \in BOOLEAN
  PROVE  LET c == AppStateFile(State.active, b) IN
            /\ c \in Text(StateFile) /\ c.active = State.active
            /\ c.active = Default \/ Exists(ProfileFile(c.active))
<1>1. AppStateFile(State.active, b) \in Text(StateFile) /\ AppStateFile(State.active, b).active = State.active
  BY Readings, StateText
<1>2. State.active = Default \/ Exists(ProfileFile(State.active))
  BY DEF Usable, Active
<1>3. QED
  BY <1>1, <1>2

LEMMA SetDefaultHostPlan ==
  ASSUME Typed, Whole, NEW id \in Host \cup {Local}, SetDefaultHost(id)
  PROVE  Started(Main)
<1> DEFINE k == "default_host"
           c == AppStateFile(State.active, FALSE)
           a == IF id = Local /\ State.removed THEN WriteAtomic(StateFile, Revive) ELSE <<>>
           b == WriteEffective(k, id)
           s == a \o b
           goal == [kind |-> k, value |-> id]
<1>1. Command(NoHost, s, goal) /\ Usable
  BY DEF SetDefaultHost, Command, Begin
<1>2. c \in Text(StateFile) /\ c.active = State.active /\ (c.active = Default \/ Exists(ProfileFile(c.active)))
  BY <1>1, SameActive
<1>3. StateFile \in File \ HostFiles /\ StateFile \notin {Active, MainFile} /\ {Active, MainFile} \subseteq File \ HostFiles
  BY DocumentedFiles, FilesDiffer
<1>4. /\ Program(a) /\ \A x \in ToSet(a) : x.file = StateFile /\ x.op \notin {"remove", "move"}
      /\ \A g : Fills(a, g) \subseteq IF g = StateFile THEN {c} ELSE {}
  <2>1. CASE id = Local /\ State.removed
    <3>1. a = WriteAtomic(StateFile, c)
      BY <2>1 DEF Revive
    <3> HIDE DEF c
    <3>2. Program(WriteAtomic(StateFile, c))
          /\ ToSet(WriteAtomic(StateFile, c)) = {OpenStep(StateFile), FillStep(StateFile, c), PublishStep(StateFile)}
          /\ \A g : Fills(WriteAtomic(StateFile, c), g) = IF g = StateFile THEN {c} ELSE {}
      BY <1>2, <1>3, WriteProgram, FillsOfSteps
    <3>3. QED
      BY <3>1, <3>2, Kinds
  <2>2. CASE ~ (id = Local /\ State.removed)
    BY <2>2, NoSteps, FillsOfSteps
  <2>3. QED
    BY <2>1, <2>2
<1>5. k \in Key /\ id \in Value(k)
  BY DEF Key, Value
<1>6. goal \in GoalSet /\ goal.kind = k /\ goal.value = id /\ k \notin {"boot", "active", "written", "deleted"}
  BY <1>5, Goals
<1> HIDE DEF k, goal
<1>7. PICK f \in {Active, MainFile} : \E d \in Text(f) :
          /\ WriteEffective(k, id) = WriteAtomic(f, d) /\ d.settings[k] = id
          /\ f = MainFile => SettingsOf(Active)[k] = Unset
  BY <1>5, WriteEffectiveOne
<1>8. PICK d \in Text(f) :
          /\ WriteEffective(k, id) = WriteAtomic(f, d) /\ d.settings[k] = id
          /\ f = MainFile => SettingsOf(Active)[k] = Unset
  BY <1>7
<1>9. f \in File /\ f \notin HostFiles /\ f # StateFile
  BY <1>3, <1>7
<1>10. /\ Program(b) /\ b # <<>> /\ ToSet(b) = {OpenStep(f), FillStep(f, d), PublishStep(f)} /\ b[Len(b)] = PublishStep(f)
       /\ \A g : Fills(b, g) = IF g = f THEN {d} ELSE {}
  BY <1>8, <1>9, WriteProgram, FillsOfSteps
<1> HIDE DEF a, b, c
<1>11. /\ Program(s) /\ s # <<>> /\ ToSet(s) = ToSet(a) \cup ToSet(b) /\ Last(s) = PublishStep(f)
       /\ \A g : Fills(s, g) = Fills(a, g) \cup Fills(b, g)
  BY <1>4, <1>10, Joined, FillsJoined DEF Last
<1> HIDE DEF s
<1>12. \A x \in ToSet(s) : x.file \in {StateFile, f} /\ x.op \notin {"remove", "move"}
  BY <1>4, <1>10, <1>11, Kinds
<1>13. Planned(Main, NoHost, s, goal) /\ OneWrite(s) /\ OneToCome(s)
  BY <1>3, <1>6, <1>9, <1>11, <1>12, PlannedForApp
<1>14. \A g : Pending(s, temp, g) = Fills(a, g) \cup Fills(b, g)
  BY <1>11, AtStart
<1>15. Pending(s, temp, StateFile) \subseteq {c} /\ Pending(s, temp, f) = {d}
  BY <1>4, <1>9, <1>10, <1>14
<1>16. \A g : RemoveStep(g) \notin ToSet(s)
  BY <1>12, Kinds
<1>17. Targets(s) /\ Removes(s)
  BY <1>2, <1>15, <1>16 DEF Targets, Removes
<1>18. ForKey(s, goal)
  BY <1>2, <1>6, <1>7, <1>8, <1>11, <1>12, <1>15 DEF ForKey
<1>19. Goal(s, NoHost, goal)
  BY <1>6, <1>18 DEF Goal
<1>20. QED
  BY <1>1, <1>13, <1>17, <1>19 DEF Started, Intended, Command

LEMMA DeleteLocalPlan ==
  ASSUME Typed, Whole,
         Command(Local, WriteAtomic(StateFile, AppStateFile(State.active, TRUE)) \o ForgetDefault(Local), NoGoal)
  PROVE  Started(Main)
<1> DEFINE c == AppStateFile(State.active, TRUE)
           a == WriteAtomic(StateFile, c)
           b == ForgetDefault(Local)
           s == a \o b
<1>1. Command(Local, s, NoGoal) /\ Usable
  BY DEF Command, Begin
<1>2. c \in Text(StateFile) /\ (c.active = Default \/ Exists(ProfileFile(c.active)))
  BY <1>1, SameActive
<1>3. StateFile \in File /\ StateFile \notin HostFiles
  BY DocumentedFiles
<1> HIDE DEF c
<1>4. /\ Program(a) /\ a # <<>> /\ ToSet(a) = {OpenStep(StateFile), FillStep(StateFile, c), PublishStep(StateFile)}
      /\ Fills(a, StateFile) = {c}
  BY <1>2, <1>3, WriteProgram, FillsOfSteps
<1>5. /\ Program(b) /\ Fills(b, StateFile) = {}
      /\ \A x \in ToSet(b) : x.op \notin {"remove", "move"} /\ x.file \notin HostFiles
  BY Forgetting
<1> HIDE DEF a, b
<1>6. Program(s) /\ s # <<>> /\ ToSet(s) = ToSet(a) \cup ToSet(b) /\ Fills(s, StateFile) = {c}
  <2>1. Program(a) /\ Program(b)
    BY <1>4, <1>5
  <2>2. Fills(s, StateFile) = Fills(a, StateFile) \cup Fills(b, StateFile)
    BY <2>1, FillsJoined
  <2>3. Program(s) /\ s # <<>> /\ ToSet(s) = ToSet(a) \cup ToSet(b)
    BY <1>4, <2>1, Joined
  <2>4. QED
    BY <1>4, <1>5, <2>2, <2>3
<1> HIDE DEF s
<1>7. \A x \in ToSet(s) : x.op \notin {"remove", "move"} /\ x.file \notin HostFiles
  BY <1>3, <1>4, <1>5, <1>6, Kinds
<1>8. NoGoal \in GoalSet /\ NoGoal.kind = "none"
  BY Goals
<1>9. Planned(Main, Local, s, NoGoal) /\ OneWrite(s) /\ OneToCome(s)
  BY <1>6, <1>7, <1>8, PlannedForApp
<1>10. \A g : RemoveStep(g) \notin ToSet(s)
  BY <1>7, Kinds
<1>11. Pending(s, temp, StateFile) = {c}
  BY <1>6, AtStart
<1>12. Targets(s) /\ Removes(s)
  BY <1>2, <1>10, <1>11 DEF Targets, Removes
<1>13. Goal(s, Local, NoGoal)
  BY <1>8 DEF Goal, Key
<1>14. QED
  BY <1>1, <1>9, <1>12, <1>13 DEF Started, Intended, Command

-----------------------------------------------------------------------------
(* Commands about hosts.                                                   *)

\* A host has one file, but for races and copies.
One ==
    \A f, g \in HostFiles :
        f # g /\ NameOf(f) = NameOf(g) /\ Exists(f) /\ Exists(g) => NameOf(f) \in raced \cup copied

LEMMA HostFileMade ==
  /\ \A d \in Dir, folder \in Folder, id \in Host :
        HostFile(d, <<folder, id>>) \in HostFiles /\ NameOf(HostFile(d, <<folder, id>>)) = id
  /\ \A f \in HostFiles : f[2] \in Dir /\ f[3] \in Folder
<1>1. ASSUME NEW d \in Dir, NEW folder \in Folder, NEW id \in Host
      PROVE  HostFile(d, <<folder, id>>) \in HostFiles /\ NameOf(HostFile(d, <<folder, id>>)) = id
  <2>1. <<folder, id>> \in ToSet(ScanOrder)
    BY ConfigFilesAssumption DEF Folder, ConfigFilesAssumption
  <2>2. HostFile(d, <<folder, id>>) \in HostFiles
    BY <2>1 DEF HostFiles
  <2>3. NameOf(HostFile(d, <<folder, id>>)) = id
    BY DEF HostFile, NameOf
  <2>4. QED
    BY <2>2, <2>3
<1>2. QED
  BY <1>1, HostFileShape

LEMMA HostFilesApart ==
  /\ HostFiles \subseteq File /\ HostFiles \subseteq Removable
  /\ Typed /\ Whole => \A f \in HostFiles : f \notin {StateFile, MainFile, Active}
BY FilesDiffer, Readings DEF Removable

\* A plan for the files of one host.
LEMMA PlannedForHost ==
  ASSUME NEW t \in Thread, NEW s, Program(s), s # <<>>, NEW id \in Host, NEW goal \in GoalSet, goal.kind # "boot",
         \A x \in ToSet(s) : x.file \in HostFiles => NameOf(x.file) = id,
         t # Main => /\ goal = NoGoal /\ \E f \in HostFiles : NameOf(f) = id /\ Exists(f)
                     /\ \A x \in ToSet(s) : x.file \in HostFiles
  PROVE  Planned(t, id, s, goal)
<1>1. s \in Seq(StepSet) /\ DOMAIN s = 1..Len(s)
  BY DEF Program
<1>2. \A i \in 1..Len(s) : s[i] \in ToSet(s)
  BY <1>1 DEF ToSet
<1>3. ThenOld(s, id)
  BY <1>2 DEF ThenOld
<1>4. QED
  BY <1>3 DEF Planned, Touches

\* The list of a command that writes one host file.
LEMMA HostWrite ==
  ASSUME Typed, Whole, NEW t \in Thread, NEW id \in Host, NEW f \in HostFiles, NameOf(f) = id, NEW c \in Text(f),
         NEW goal, goal = NoGoal \/ goal = [kind |-> "written", file |-> f, text |-> c],
         id \notin raced \cup copied => \A g \in HostFiles : NameOf(g) = id /\ Exists(g) => g = f,
         t # Main => goal = NoGoal /\ Exists(f),
         Begin(t, id, WriteAtomic(f, c), goal)
  PROVE  Started(t)
<1> DEFINE s == WriteAtomic(f, c)
<1>1. Begin(t, id, s, goal)
  OBVIOUS
<1>2. f \in File /\ f \notin {StateFile, MainFile, Active}
  BY HostFilesApart
<1>3. /\ Program(s) /\ s # <<>> /\ ToSet(s) = {OpenStep(f), FillStep(f, c), PublishStep(f)} /\ Last(s) = PublishStep(f)
      /\ s[1] = OpenStep(f) /\ \A g : Fills(s, g) = IF g = f THEN {c} ELSE {}
  BY <1>2, WriteProgram, FillsOfSteps DEF Last
<1> HIDE DEF s
<1>4. goal \in GoalSet /\ goal.kind # "boot"
  BY Goals
<1>5. \A x \in ToSet(s) : x.file = f /\ x.op \notin {"move", "remove"}
  BY <1>3, Kinds
<1>6. Planned(t, id, s, goal)
  BY <1>3, <1>4, <1>5, PlannedForHost
<1>7. Pending(s, temp, StateFile) = {} /\ Pending(s, temp, f) = {c}
  BY <1>2, <1>3, AtStart
<1>8. Targets(s) /\ Removes(s)
  <2>1. RemoveStep(Active) \notin ToSet(s)
    BY <1>5, Kinds
  <2>2. QED
    BY <1>7, <2>1 DEF Targets, Removes
<1>9. OneWrite(s)
  <2>1. s \in Seq(StepSet) /\ DOMAIN s = 1..Len(s)
    BY <1>3 DEF Program
  <2>2. \A i \in 1..Len(s) : s[i] \in ToSet(s)
    BY <2>1 DEF ToSet
  <2>3. \A i \in 1..Len(s) : s[i].op # "move"
    BY <1>5, <2>2
  <2>4. s[1].op # "move" /\ \A i \in 2..Len(s) : s[i].op # "move"
    BY <1>3, <2>1, <2>3, Kinds
  <2>5. \A g \in HostFiles : PublishStep(g) \in ToSet(s) => g = f
    BY <1>5, Kinds
  <2>6. QED
    BY <2>4, <2>5 DEF OneWrite
<1>10. OneToCome(s)
  <2>1. \A g \in HostFiles : PublishStep(g) \in ToSet(s) => g = f
    BY <1>5, Kinds
  <2>2. QED
    BY <2>1 DEF OneToCome
<1>11. Goal(s, id, goal)
  <2>1. CASE goal = NoGoal
    BY <2>1, Goals DEF Goal, Key
  <2>2. CASE goal = [kind |-> "written", file |-> f, text |-> c]
    <3>1. goal.kind = "written" /\ goal.file = f /\ goal.text = c
      BY <2>2
    <3>2. QED
      BY <1>3, <1>7, <3>1 DEF Goal, Key, ForWritten
  <2>3. QED
    BY <2>1, <2>2
<1>12. QED
  BY <1>1, <1>6, <1>8, <1>9, <1>10, <1>11 DEF Started, Intended

LEMMA CreatePlan ==
  ASSUME Typed, Whole, NEW id \in Host, NEW d \in Dir, NEW folder \in Folder, CreateConnectionHost(id, d, folder)
  PROVE  Started(Main)
<1> DEFINE f == HostFile(d, <<folder, id>>)
           c == ConnectionHostDocument(id, 0, "dynamic")
           goal == [kind |-> "written", file |-> f, text |-> c]
<1>1. f \in HostFiles /\ NameOf(f) = id
  BY HostFileMade
<1>2. c \in Text(f)
  <2>1. 0 \in 0..MaxEdit
    BY ConfigFilesAssumption DEF ConfigFilesAssumption
  <2>2. QED
    BY <1>1, <2>1, HostTextMade
<1>3. Command(id, <<>> \o WriteAtomic(f, c), goal)
  BY DEF CreateConnectionHost, CommandWrites
<1>4. \A g \in HostFiles : NameOf(g) # id \/ ~ Exists(g)
  BY DEF CreateConnectionHost, Fresh
<1> HIDE DEF f, c
<1>5. <<>> \o WriteAtomic(f, c) = WriteAtomic(f, c)
  BY <1>1, <1>2, HostFilesApart, WriteProgram, NoSteps, Joined
<1>6. Begin(Main, id, WriteAtomic(f, c), goal)
  BY <1>3, <1>5 DEF Command
<1>7. Main \in Thread
  BY DEF Thread
<1>8. QED
  BY <1>1, <1>2, <1>4, <1>6, <1>7, HostWrite

LEMMA UpdatePortPlan ==
  ASSUME Typed, Whole, One, NEW t \in Thread, NEW id \in Host, NEW port \in {"gone", "dynamic", "assigned"},
         UpdatePortForwards(t, id, port)
  PROVE  Started(t)
<1>1. PICK f \in PathsOf(id) : Valid(f) /\ Begin(t, id, WriteAtomic(f, [disk[f] EXCEPT !.port = port]), NoGoal)
  BY DEF UpdatePortForwards
<1>2. f \in HostFiles /\ Exists(f) /\ NameOf(f) = id
  BY Readings
<1>3. disk[f] \in Text(f)
  BY <1>1, <1>2, Readings DEF Valid
<1> DEFINE c == [disk[f] EXCEPT !.port = port]
<1>4. c \in Text(f)
  BY <1>2, <1>3, HostTextChanges
<1>5. Begin(t, id, WriteAtomic(f, c), NoGoal)
  BY <1>1
<1>6. id \notin raced \cup copied => \A g \in HostFiles : NameOf(g) = id /\ Exists(g) => g = f
  BY <1>2 DEF One
<1> HIDE DEF c
<1>7. QED
  BY <1>2, <1>4, <1>5, <1>6, HostWrite

LEMMA UpdatePlan ==
  ASSUME Typed, Whole, One, NEW id \in Host, NEW folder \in Folder, NEW port \in {"gone", "assigned"},
         UpdateConnectionHost(id, folder, port)
  PROVE  Started(Main)
<1>1. PICK f \in PathsOf(id) :
        /\ EditOf(f) < MaxEdit
        /\ LET g == HostFile(f[2], <<folder, id>>) IN
           /\ f = g \/ ~ Exists(g)
           /\ CommandWrites(id, Relocate(f, g), g, ConnectionHostDocument(id, EditOf(f) + 1, port))
  BY DEF UpdateConnectionHost
<1>2. f \in HostFiles /\ Exists(f) /\ NameOf(f) = id
  BY Readings
<1> DEFINE g == HostFile(f[2], <<folder, id>>)
           c == ConnectionHostDocument(id, EditOf(f) + 1, port)
           goal == [kind |-> "written", file |-> g, text |-> c]
<1>3. g \in HostFiles /\ NameOf(g) = id
  BY <1>2, HostFileMade
<1>4. c \in Text(g)
  <2>1. EditOf(f) \in 0..MaxEdit /\ MaxEdit \in Nat
    <3>1. MaxEdit \in Nat
      BY ConfigFilesAssumption DEF ConfigFilesAssumption
    <3>2. Readable(f) => disk[f].edit \in 0..MaxEdit
      BY <1>2, Readings, HostTextShape
    <3>3. QED
      BY <3>1, <3>2 DEF EditOf
  <2>2. EditOf(f) + 1 \in 0..MaxEdit
    BY <1>1, <2>1
  <2>3. QED
    BY <1>3, <2>2, HostTextMade
<1>5. Command(id, Relocate(f, g) \o WriteAtomic(g, c), goal)
  BY <1>1 DEF CommandWrites
<1> HIDE DEF c, g
<1>6. Main \in Thread /\ f \in File /\ g \in File
  BY <1>2, <1>3, HostFilesApart DEF Thread
<1>7. /\ Program(WriteAtomic(g, c)) /\ WriteAtomic(g, c) # <<>>
      /\ WriteAtomic(g, c)[Len(WriteAtomic(g, c))] = PublishStep(g)
      /\ ToSet(WriteAtomic(g, c)) = {OpenStep(g), FillStep(g, c), PublishStep(g)}
      /\ \A h : Fills(WriteAtomic(g, c), h) = IF h = g THEN {c} ELSE {}
  BY <1>4, <1>6, WriteProgram, FillsOfSteps
<1>8. id \notin raced \cup copied => \A h \in HostFiles : NameOf(h) = id /\ Exists(h) => h = f
  BY <1>2 DEF One
<1>9. CASE f = g
  <2>1. Relocate(f, g) \o WriteAtomic(g, c) = WriteAtomic(g, c)
    BY <1>7, <1>9, NoSteps, Joined DEF Relocate
  <2>2. Begin(Main, id, WriteAtomic(g, c), goal)
    BY <1>5, <2>1 DEF Command
  <2>3. QED
    BY <1>3, <1>4, <1>6, <1>8, <1>9, <2>2, HostWrite
<1>10. CASE f # g
  <2> DEFINE s == MoveTo(f, g) \o WriteAtomic(g, c)
  <2>1. Begin(Main, id, s, goal)
    BY <1>5, <1>10 DEF Command, Relocate
  <2>2. MoveTo(f, g) = <<MoveStep(f, g)>> /\ WriteAtomic(g, c) = <<OpenStep(g), FillStep(g, c), PublishStep(g)>>
    BY DEF MoveTo, WriteAtomic, MoveStep, OpenStep, FillStep, PublishStep
  <2>3. Len(s) = 4 /\ s[1] = MoveStep(f, g) /\ s[2] = OpenStep(g) /\ s[3] = FillStep(g, c) /\ s[4] = PublishStep(g)
    <3>1. MoveStep(f, g) \in StepSet /\ OpenStep(g) \in StepSet /\ FillStep(g, c) \in StepSet /\ PublishStep(g) \in StepSet
      BY <1>2, <1>3, <1>4, <1>6, StepsMade
    <3>2. QED
      BY <2>2, <3>1, FourSteps
  <2>4. Program(MoveTo(f, g)) /\ ToSet(MoveTo(f, g)) = {MoveStep(f, g)} /\ MoveTo(f, g) # <<>>
        /\ \A h : Fills(MoveTo(f, g), h) = {}
    BY <1>2, <1>3, MoveProgram, FillsOfSteps
  <2>5. Program(s) /\ s # <<>> /\ Last(s) = PublishStep(g)
        /\ ToSet(s) = {MoveStep(f, g), OpenStep(g), FillStep(g, c), PublishStep(g)}
    <3>1. Program(s) /\ s # <<>> /\ ToSet(s) = {MoveStep(f, g)} \cup {OpenStep(g), FillStep(g, c), PublishStep(g)}
      BY <1>7, <2>4, Joined
    <3>2. QED
      BY <2>3, <3>1 DEF Last
  <2>6. \A h : Fills(s, h) = IF h = g THEN {c} ELSE {}
    <3>1. \A h : Fills(s, h) = Fills(MoveTo(f, g), h) \cup Fills(WriteAtomic(g, c), h)
      BY <1>7, <2>4, FillsJoined
    <3>2. QED
      BY <1>7, <2>4, <3>1
  <2> HIDE DEF s
  <2>7. \A x \in ToSet(s) : x.file \in {f, g} /\ x.op # "remove"
    BY <2>5, Kinds
  <2>8. goal \in GoalSet /\ goal.kind = "written" /\ goal.file = g /\ goal.text = c
    BY <1>3, <1>4, Goals
  <2>9. Planned(Main, id, s, goal)
    BY <1>2, <1>3, <1>6, <2>5, <2>7, <2>8, PlannedForHost
  <2>10. Pending(s, temp, StateFile) = {} /\ Pending(s, temp, g) = {c}
    BY <1>3, <2>5, <2>6, AtStart, HostFilesApart
  <2>11. Targets(s) /\ Removes(s)
    <3>1. RemoveStep(Active) \notin ToSet(s)
      BY <2>7, Kinds
    <3>2. QED
      BY <2>10, <3>1 DEF Targets, Removes
  <2>12. \A h \in HostFiles : PublishStep(h) \in ToSet(s) => h = g
    BY <2>5, Kinds
  <2>13. OneWrite(s)
    <3>1. \A i \in 2..Len(s) : s[i].op # "move"
      <4>1. \A i \in 2..Len(s) : i \in {2, 3, 4}
        BY <2>3
      <4>2. QED
        BY <2>3, <4>1, Kinds
    <3>2. QED
      BY <2>3, <2>12, <3>1, Kinds DEF OneWrite
  <2>14. OneToCome(s)
    BY <2>3, Kinds DEF OneToCome
  <2>15. Goal(s, id, goal)
    BY <1>3, <2>5, <2>8, <2>10 DEF Goal, Key, ForWritten
  <2>16. QED
    BY <2>1, <2>9, <2>11, <2>13, <2>14, <2>15 DEF Started, Intended
<1>11. QED
  BY <1>9, <1>10

LEMMA DeleteHostPlan ==
  ASSUME Typed, Whole, NEW id \in Host, NEW f \in PathsOf(id),
         Command(id, Unlink(f) \o ForgetDefault(id), [kind |-> "deleted", file |-> f])
  PROVE  Started(Main)
<1> DEFINE a == Unlink(f)
           b == ForgetDefault(id)
           s == a \o b
           goal == [kind |-> "deleted", file |-> f]
<1>1. Command(id, s, goal)
  OBVIOUS
<1>2. f \in HostFiles /\ Exists(f) /\ NameOf(f) = id
  BY Readings
<1>3. f \in Removable /\ f \notin {StateFile, MainFile, Active} /\ Main \in Thread
  BY <1>2, HostFilesApart DEF Thread
<1>4. Program(a) /\ ToSet(a) = {RemoveStep(f)} /\ a # <<>> /\ (\A g : Fills(a, g) = {}) /\ a[1] = RemoveStep(f)
  <2>1. Unlink(f)[1] = RemoveStep(f)
    BY DEF Unlink, RemoveStep
  <2>2. QED
    BY <1>3, <2>1, UnlinkProgram, FillsOfSteps
<1>5. /\ Program(b) /\ Fills(b, StateFile) = {}
      /\ \A x \in ToSet(b) : x.op \notin {"remove", "move"} /\ x.file \notin HostFiles
  BY Forgetting
<1> HIDE DEF a, b
<1>6. Program(s) /\ s # <<>> /\ ToSet(s) = ToSet(a) \cup ToSet(b) /\ s[1] = RemoveStep(f)
  BY <1>4, <1>5, Joined
<1>7. Fills(s, StateFile) = {}
  <2>1. Fills(s, StateFile) = Fills(a, StateFile) \cup Fills(b, StateFile)
    <3>1. Program(a) /\ Program(b)
      BY <1>4, <1>5
    <3>2. QED
      BY <3>1, FillsJoined
  <2>2. QED
    BY <1>4, <1>5, <2>1
<1> HIDE DEF s
<1>8. goal \in GoalSet /\ goal.kind = "deleted" /\ goal.file = f
  BY <1>2, Goals
<1> HIDE DEF goal
<1>9. \A x \in ToSet(s) : /\ x.op # "move" /\ (x.op = "remove" => x.file = f)
                          /\ x.file \in HostFiles => x.file = f /\ x.op = "remove"
  BY <1>4, <1>5, <1>6, Kinds
<1>10. Planned(Main, id, s, goal)
  BY <1>2, <1>3, <1>6, <1>8, <1>9, PlannedForHost
<1>11. Pending(s, temp, StateFile) = {}
  BY <1>6, <1>7, AtStart
<1>12. Targets(s) /\ Removes(s)
  <2>1. RemoveStep(Active) \notin ToSet(s)
    BY <1>3, <1>9, Kinds
  <2>2. QED
    BY <1>11, <2>1 DEF Targets, Removes
<1>13. \A h \in HostFiles : PublishStep(h) \notin ToSet(s)
  BY <1>9, Kinds
<1>14. OneWrite(s) /\ OneToCome(s)
  <2>1. s \in Seq(StepSet) /\ DOMAIN s = 1..Len(s) /\ \A i \in 2..Len(s) : i \in 1..Len(s)
    BY <1>6 DEF Program
  <2>2. \A i \in 2..Len(s) : s[i] \in ToSet(s)
    BY <2>1 DEF ToSet
  <2>3. s[1].op # "move" /\ \A i \in 2..Len(s) : s[i].op # "move"
    BY <1>6, <1>9, <2>2, Kinds
  <2>4. QED
    BY <1>13, <2>3 DEF OneWrite, OneToCome
<1>15. Goal(s, id, goal)
  <2>1. ForDeleted(s, id, goal)
    <3>1. RemoveStep(f) \in ToSet(s)
      BY <1>4, <1>6
    <3>2. \A x \in ToSet(s) : x.op # "move" /\ ~ (x.op = "publish" /\ x.file \in HostFiles)
      BY <1>9
    <3>3. QED
      BY <1>2, <1>8, <3>1, <3>2 DEF ForDeleted
  <2>2. QED
    BY <1>8, <2>1 DEF Goal, Key
<1>16. QED
  BY <1>1, <1>10, <1>12, <1>14, <1>15 DEF Started, Intended, Command

LEMMA RepairPlan ==
  ASSUME Typed, Whole, NEW id \in Host, NEW new \in Host, RepairConnectionHostId(id, new)
  PROVE  Started(Main)
<1>1. PICK f \in PathsOf(id) :
        /\ Valid(f)
        /\ Command(id, WriteAtomic(HostFile(f[2], <<f[3], new>>), [disk[f] EXCEPT !.id = new]) \o Unlink(f),
                   [kind |-> "deleted", file |-> f])
  BY DEF RepairConnectionHostId
<1>2. f \in HostFiles /\ Exists(f) /\ NameOf(f) = id
  BY Readings
<1>3. disk[f] \in Text(f)
  BY <1>1, <1>2, Readings DEF Valid
<1> DEFINE g == HostFile(f[2], <<f[3], new>>)
           c == [disk[f] EXCEPT !.id = new]
           goal == [kind |-> "deleted", file |-> f]
           s == WriteAtomic(g, c) \o Unlink(f)
<1>4. Command(id, s, goal)
  BY <1>1
<1>5. g \in HostFiles /\ NameOf(g) = new
  BY <1>2, HostFileMade
<1>6. c \in Text(g)
  BY <1>2, <1>3, <1>5, HostTextChanges
<1>7. new \in Fresh
  BY DEF RepairConnectionHostId
<1>8. new # id /\ \A h \in HostFiles : NameOf(h) = new => ~ Exists(h)
  BY <1>2, <1>7 DEF Fresh
<1>9. f # g /\ f \in File /\ g \in File /\ f \in Removable
  BY <1>2, <1>5, <1>8, HostFilesApart
<1> HIDE DEF c, g
<1>10. Unlink(f) = <<RemoveStep(f)>> /\ WriteAtomic(g, c) = <<OpenStep(g), FillStep(g, c), PublishStep(g)>>
  BY DEF Unlink, WriteAtomic, RemoveStep, OpenStep, FillStep, PublishStep
<1>11. Len(s) = 4 /\ s[1] = OpenStep(g) /\ s[2] = FillStep(g, c) /\ s[3] = PublishStep(g) /\ s[4] = RemoveStep(f)
  <2>1. RemoveStep(f) \in StepSet /\ OpenStep(g) \in StepSet /\ FillStep(g, c) \in StepSet /\ PublishStep(g) \in StepSet
    BY <1>6, <1>9, StepsMade
  <2>2. QED
    BY <1>10, <2>1, FourSteps
<1>12. /\ Program(s) /\ s # <<>> /\ ToSet(s) = {OpenStep(g), FillStep(g, c), PublishStep(g), RemoveStep(f)}
       /\ Fills(s, StateFile) = {}
  <2>1. /\ Program(WriteAtomic(g, c)) /\ WriteAtomic(g, c) # <<>>
        /\ ToSet(WriteAtomic(g, c)) = {OpenStep(g), FillStep(g, c), PublishStep(g)}
        /\ \A h : Fills(WriteAtomic(g, c), h) = IF h = g THEN {c} ELSE {}
    BY <1>6, <1>9, WriteProgram, FillsOfSteps
  <2>2. Program(Unlink(f)) /\ ToSet(Unlink(f)) = {RemoveStep(f)} /\ Unlink(f) # <<>> /\ \A h : Fills(Unlink(f), h) = {}
    BY <1>9, UnlinkProgram, FillsOfSteps
  <2>3. Program(s) /\ s # <<>> /\ ToSet(s) = {OpenStep(g), FillStep(g, c), PublishStep(g)} \cup {RemoveStep(f)}
    BY <2>1, <2>2, Joined
  <2>4. \A h : Fills(s, h) = Fills(WriteAtomic(g, c), h) \cup Fills(Unlink(f), h)
    BY <2>1, <2>2, FillsJoined
  <2>5. StateFile # g
    BY <1>5, HostFilesApart
  <2>6. Fills(s, StateFile) = {}
    <3>1. Fills(WriteAtomic(g, c), StateFile) = {} /\ Fills(Unlink(f), StateFile) = {}
      BY <2>1, <2>2, <2>5
    <3>2. QED
      BY <2>4, <3>1
  <2>7. QED
    BY <2>3, <2>6
<1> HIDE DEF s
<1>13. goal \in GoalSet /\ goal.kind = "deleted" /\ goal.file = f
  BY <1>2, Goals
<1> HIDE DEF goal
<1>14. \A x \in ToSet(s) : /\ x.op # "move" /\ x.file \in {f, g} /\ (x.op = "remove" => x.file = f)
                           /\ x.op # "remove" => x.file = g
  BY <1>12, Kinds
<1>15. ThenOld(s, id)
  <2>1. ASSUME NEW i \in 1..Len(s), NEW k \in 1..Len(s), i < k, s[i].op = "publish" PROVE NameOf(s[k].file) = id
    <3>1. i \in {1, 2, 3, 4} /\ k \in {1, 2, 3, 4}
      BY <1>11, <2>1
    <3>2. i = 3
      BY <1>11, <2>1, <3>1, Kinds
    <3>3. k = 4
      BY <2>1, <3>1, <3>2
    <3>4. QED
      BY <1>2, <1>11, <3>3, Kinds
  <2>2. QED
    BY <2>1 DEF ThenOld
<1>16. Planned(Main, id, s, goal)
  BY <1>2, <1>5, <1>7, <1>8, <1>12, <1>13, <1>14, <1>15 DEF Planned, Touches
<1>17. Pending(s, temp, StateFile) = {}
  BY <1>12, AtStart
<1>18. Targets(s) /\ Removes(s)
  <2>1. RemoveStep(Active) \notin ToSet(s)
    BY <1>2, <1>14, Kinds, HostFilesApart
  <2>2. QED
    BY <1>17, <2>1 DEF Targets, Removes
<1>19. \A h \in HostFiles : PublishStep(h) \in ToSet(s) => h = g
  BY <1>14, Kinds
<1>20. OneWrite(s)
  <2>1. \A i \in 2..Len(s) : s[i].op # "move"
    <3>1. \A i \in 2..Len(s) : i \in {2, 3, 4}
      BY <1>11
    <3>2. QED
      BY <1>11, <3>1, Kinds
  <2>2. QED
    BY <1>11, <1>19, <2>1, Kinds DEF OneWrite
<1>21. OneToCome(s)
  BY <1>5, <1>8, <1>19 DEF OneToCome
<1>22. Goal(s, id, goal)
  <2>1. ForDeleted(s, id, goal)
    <3>1. RemoveStep(f) \in ToSet(s)
      BY <1>12
    <3>2. \A x \in ToSet(s) : x.op # "move" /\ (x.op = "publish" => NameOf(x.file) # id)
      BY <1>5, <1>8, <1>14
    <3>3. QED
      BY <1>2, <1>13, <3>1, <3>2 DEF ForDeleted
  <2>2. QED
    BY <1>13, <2>1 DEF Goal, Key
<1>23. QED
  BY <1>4, <1>16, <1>18, <1>20, <1>21, <1>22 DEF Started, Intended, Command

\* Every command plans what it does.
LEMMA Planning ==
  ASSUME Typed, Whole, One, Commands \/ \E w \in Worker : UpdatePortForwards(w, WorkerHost[w], "assigned")
  PROVE  \E t \in Thread : Started(t)
<1>1. Main \in Thread
  BY DEF Thread
<1>2. ASSUME NEW w \in Worker, UpdatePortForwards(w, WorkerHost[w], "assigned") PROVE \E t \in Thread : Started(t)
  <2>1. WorkerHost[w] \in Host /\ w \in Thread
    BY ConfigFilesAssumption DEF ConfigFilesAssumption, Thread
  <2> DEFINE id == WorkerHost[w]
  <2> HIDE DEF id
  <2>2. Started(w)
    BY <1>2, <2>1, UpdatePortPlan DEF id
  <2>3. QED
    BY <2>1, <2>2
<1>3. ASSUME \E p \in Profile : DeleteProfile(p) PROVE Started(Main)
  BY <1>3, DeleteProfilePlan
<1>4. ASSUME \E id \in Host \cup {Local} : SetDefaultHost(id) PROVE Started(Main)
  BY <1>4, SetDefaultHostPlan
<1>5. ASSUME NEW id \in Host \cup {Local}, DeleteConnectionHost(id) PROVE Started(Main)
  <2>1. CASE id = Local /\ Command(id, WriteAtomic(StateFile, AppStateFile(State.active, TRUE)) \o ForgetDefault(id), NoGoal)
    BY <2>1, DeleteLocalPlan
  <2>2. CASE \E f \in PathsOf(id) : Command(id, Unlink(f) \o ForgetDefault(id), [kind |-> "deleted", file |-> f])
    <3>1. PICK f \in PathsOf(id) : Command(id, Unlink(f) \o ForgetDefault(id), [kind |-> "deleted", file |-> f])
      BY <2>2
    <3>2. CASE id \in Host
      BY <3>1, <3>2, DeleteHostPlan
    <3>3. CASE id = Local
      <4>1. id \in Host
        BY Readings
      <4>2. QED
        BY <3>1, <4>1, DeleteHostPlan
    <3>4. QED
      BY <3>2, <3>3
  <2>3. QED
    BY <1>5, <2>1, <2>2 DEF DeleteConnectionHost
<1>6. ASSUME \E id \in Host, d \in Dir, folder \in Folder : CreateConnectionHost(id, d, folder) PROVE Started(Main)
  BY <1>6, CreatePlan
<1>7. ASSUME \E id \in Host, folder \in Folder, port \in {"gone", "assigned"} : UpdateConnectionHost(id, folder, port)
      PROVE  Started(Main)
  BY <1>7, UpdatePlan
<1>8. ASSUME \E id, new \in Host : RepairConnectionHostId(id, new) PROVE Started(Main)
  BY <1>8, RepairPlan
<1>9. ASSUME \E id \in Host, port \in {"gone", "dynamic"} : UpdatePortForwards(Main, id, port) PROVE Started(Main)
  BY <1>1, <1>9, UpdatePortPlan
<1>10. ASSUME \/ \E p \in Profile : SetActiveProfile(p)
              \/ \E p \in Profile, s \in Documents : CreateProfile(p, s) \/ UpdateProfile(p, s)
              \/ \E s \in Documents : UpdateMainConfig(s)
              \/ \E k \in Key : RemoveConfigKey(MainFile, k) \/ \E p \in Profile : RemoveConfigKey(ProfileFile(p), k)
              \/ \E dirs \in {<<d>> : d \in Dir} : SetHostDirs(dirs)
              \/ SetTabBarOrientation("vertical_left")
       PROVE  Started(Main)
  BY <1>10, SimpleCommands
<1>11. Commands => Started(Main)
  BY <1>3, <1>4, <1>5, <1>6, <1>7, <1>8, <1>9, <1>10 DEF Commands
<1>12. QED
  BY <1>1, <1>2, <1>11

-----------------------------------------------------------------------------
(* The start of the application.                                           *)

LEMMA WriteOrNot ==
  ASSUME NEW f \in File, NEW c \in Text(f), NEW there \in BOOLEAN
  PROVE  LET s == IF there THEN <<>> ELSE WriteAtomic(f, c) IN
         /\ Program(s) /\ (s = <<>> <=> there)
         /\ \A x \in ToSet(s) : x.file = f /\ x.op \notin {"remove", "move"}
         /\ ~ there => PublishStep(f) \in ToSet(s)
         /\ Fills(s, f) \subseteq {c}
         /\ \A g : g # f => Fills(s, g) = {}
<1>1. CASE there
  BY <1>1, NoSteps, FillsOfSteps
<1>2. CASE ~ there
  <2>1. /\ Program(WriteAtomic(f, c)) /\ WriteAtomic(f, c) # <<>>
        /\ ToSet(WriteAtomic(f, c)) = {OpenStep(f), FillStep(f, c), PublishStep(f)}
        /\ \A g : Fills(WriteAtomic(f, c), g) = IF g = f THEN {c} ELSE {}
    BY WriteProgram, FillsOfSteps
  <2>2. QED
    BY <1>2, <2>1, Kinds
<1>3. QED
  BY <1>1, <1>2

\* EnsureLayout writes the base files that are missing.
LEMMA LayoutPlan ==
  /\ Program(EnsureLayout)
  /\ \A x \in ToSet(EnsureLayout) : x.file \in Base /\ x.op \notin {"remove", "move"}
  /\ \A f \in Base : Exists(f) \/ PublishStep(f) \in ToSet(EnsureLayout)
  /\ \A c \in Fills(EnsureLayout, StateFile) : c = AppStateFile(Default, FALSE)
<1> DEFINE c1 == AppStateFile(Default, FALSE)
           c2 == Document(NoSettings)
           f3 == ProfileFile(Default)
           s1 == IF Exists(StateFile) THEN <<>> ELSE WriteAtomic(StateFile, c1)
           s2 == IF Exists(MainFile) THEN <<>> ELSE WriteAtomic(MainFile, c2)
           s3 == IF Exists(f3) THEN <<>> ELSE WriteAtomic(f3, c2)
<1>1. EnsureLayout = s1 \o s2 \o s3
  BY DEF EnsureLayout
<1>2. /\ StateFile \in File /\ MainFile \in File /\ f3 \in File
      /\ StateFile # MainFile /\ f3 # StateFile
  BY FilesDiffer, ConfigFilesAssumption DEF ConfigFilesAssumption
<1>3. c1 \in Text(StateFile) /\ c2 \in Text(MainFile) /\ c2 \in Text(f3)
  <2>1. Default \in Profile
    BY ConfigFilesAssumption DEF ConfigFilesAssumption
  <2>2. c1 \in Text(StateFile)
    BY <2>1, StateText
  <2>3. NoSettings \in Settings
    BY SettingsShape
  <2>4. MainFile \in {MainFile} \cup {ProfileFile(p) : p \in Profile} /\ f3 \in {MainFile} \cup {ProfileFile(p) : p \in Profile}
    BY <2>1
  <2>5. QED
    BY <2>2, <2>3, <2>4, DocumentText
<1>4. \A f : Exists(f) \in BOOLEAN
  BY DEF Exists
<1>5. Base = {StateFile, MainFile, f3}
  BY DEF Base
<1> HIDE DEF c1, c2, f3
<1>6. /\ Program(s1) /\ (\A x \in ToSet(s1) : x.file = StateFile /\ x.op \notin {"remove", "move"})
      /\ ~ Exists(StateFile) => PublishStep(StateFile) \in ToSet(s1)
      /\ Fills(s1, StateFile) \subseteq {c1}
  BY <1>2, <1>3, <1>4, WriteOrNot
<1>7. /\ Program(s2) /\ (\A x \in ToSet(s2) : x.file = MainFile /\ x.op \notin {"remove", "move"})
      /\ ~ Exists(MainFile) => PublishStep(MainFile) \in ToSet(s2)
      /\ Fills(s2, StateFile) = {}
  BY <1>2, <1>3, <1>4, WriteOrNot
<1>8. /\ Program(s3) /\ (\A x \in ToSet(s3) : x.file = f3 /\ x.op \notin {"remove", "move"})
      /\ ~ Exists(f3) => PublishStep(f3) \in ToSet(s3)
      /\ Fills(s3, StateFile) = {}
  BY <1>2, <1>3, <1>4, WriteOrNot
<1> HIDE DEF s1, s2, s3
<1> DEFINE s12 == s1 \o s2
<1>9. Program(s12) /\ ToSet(s12) = ToSet(s1) \cup ToSet(s2) /\ Fills(s12, StateFile) = Fills(s1, StateFile) \cup Fills(s2, StateFile)
  <2>1. Program(s1) /\ Program(s2)
    BY <1>6, <1>7
  <2>2. Program(s12) /\ ToSet(s12) = ToSet(s1) \cup ToSet(s2)
    BY <2>1, Joined
  <2>3. Fills(s12, StateFile) = Fills(s1, StateFile) \cup Fills(s2, StateFile)
    BY <2>1, FillsJoined
  <2>4. QED
    BY <2>2, <2>3
<1> HIDE DEF s12
<1>10. /\ Program(s12 \o s3) /\ ToSet(s12 \o s3) = ToSet(s12) \cup ToSet(s3)
       /\ Fills(s12 \o s3, StateFile) = Fills(s12, StateFile) \cup Fills(s3, StateFile)
  BY <1>8, <1>9, Joined, FillsJoined
<1>11. EnsureLayout = s12 \o s3
  BY <1>1 DEF s12
<1>12. ToSet(EnsureLayout) = ToSet(s1) \cup ToSet(s2) \cup ToSet(s3) /\ Fills(EnsureLayout, StateFile) \subseteq {c1}
  BY <1>6, <1>7, <1>8, <1>9, <1>10, <1>11
<1>13. Program(EnsureLayout)
  BY <1>10, <1>11
<1>14. \A x \in ToSet(EnsureLayout) : x.file \in Base /\ x.op \notin {"remove", "move"}
  BY <1>5, <1>6, <1>7, <1>8, <1>12
<1>15. \A f \in Base : Exists(f) \/ PublishStep(f) \in ToSet(EnsureLayout)
  BY <1>5, <1>6, <1>7, <1>8, <1>12
<1>16. \A c \in Fills(EnsureLayout, StateFile) : c = c1
  BY <1>12
<1>17. QED
  BY <1>13, <1>14, <1>15, <1>16 DEF c1

LEMMA BaseFiles == Base \subseteq File /\ Base \cap HostFiles = {} /\ Base \cap Removable = {}
BY ConfigFilesAssumption, FilesDiffer DEF Base, ConfigFilesAssumption, Removable

\* The job of the start.
LEMMA BootJob ==
  ASSUME DiskInv, Boot
  PROVE  /\ job' \in [Thread -> Jobs] /\ \A u \in Thread \ {Main} : job'[u] = job[u] /\ job[u] = Idle
         /\ job'[Main].steps = EnsureLayout /\ job'[Main].host = NoHost /\ job'[Main].opened = <<>>
         /\ EnsureLayout = <<>> => job'[Main] = Idle
         /\ EnsureLayout # <<>> => job'[Main].goal.kind = "boot"
         /\ job'[Main].goal \in {NoGoal, [kind |-> "boot"]}
<1> DEFINE k == IF EnsureLayout = <<>> THEN "none" ELSE "boot"
           s == EnsureLayout
           j == [steps |-> s, opened |-> <<>>, host |-> NoHost, goal |-> [kind |-> k]]
<1>1. ~ running /\ job[Main] = Idle
  BY DEF Boot
<1>2. job \in [Thread -> Jobs] /\ Main \in Thread /\ \A u \in Thread : job[u] = Idle
  BY <1>1 DEF DiskInv, Typed, Layout, Thread
<1>3. s \in Seq(StepSet)
  BY LayoutPlan DEF Program
<1>4. k \in {"none", "boot"} /\ (k = "none" <=> s = <<>>)
  OBVIOUS
<1>5. job' = [job EXCEPT ![Main].steps = s, ![Main].goal.kind = k]
  BY DEF Boot
<1> HIDE DEF k, s
<1>6. job'[Main] = [[Idle EXCEPT !.steps = s] EXCEPT !.goal.kind = k] /\ \A u \in Thread \ {Main} : job'[u] = job[u]
  BY <1>1, <1>2, <1>5
<1>7. job' \in [Thread -> {job'[u] : u \in Thread}]
  BY <1>2, <1>5
<1>8. job'[Main] = j
  BY <1>6 DEF Idle, NoGoal
<1>9. [kind |-> k] \in {NoGoal, [kind |-> "boot"]}
  BY <1>4 DEF NoGoal
<1>10. [kind |-> k] \in GoalSet
  BY <1>9 DEF GoalSet
<1>11. j \in Jobs
  <2>1. <<>> \in Handles
    BY DEF Handles
  <2>2. QED
    BY <1>3, <1>10, <2>1 DEF Jobs
<1>12. job' \in [Thread -> Jobs]
  BY <1>2, <1>6, <1>7, <1>8, <1>11
<1>13. s = <<>> => j = Idle
  BY <1>4 DEF Idle, NoGoal
<1>14. s # <<>> => j.goal.kind = "boot"
  BY <1>4
<1>15. j.steps = s /\ j.host = NoHost /\ j.opened = <<>> /\ j.goal = [kind |-> k]
  OBVIOUS
<1> HIDE DEF j
<1>16. QED
  BY <1>2, <1>6, <1>8, <1>9, <1>12, <1>13, <1>14, <1>15 DEF s

LEMMA BootKeeps ==
  ASSUME DiskInv, Boot
  PROVE  DiskInv'
<1> DEFINE s == EnsureLayout
<1>1. /\ job' \in [Thread -> Jobs] /\ \A u \in Thread \ {Main} : job'[u] = job[u] /\ job[u] = Idle
      /\ job'[Main].steps = s /\ job'[Main].host = NoHost /\ job'[Main].opened = <<>>
      /\ s = <<>> => job'[Main] = Idle
      /\ s # <<>> => job'[Main].goal.kind = "boot"
  BY BootJob
<1>2. UNCHANGED <<disk, temp, commands, failures, raced, copied>> /\ running' = TRUE
  BY DEF Boot
<1>3. /\ Program(s) /\ \A x \in ToSet(s) : x.file \in Base /\ x.op \notin {"remove", "move"}
      /\ \A f \in Base : Exists(f) \/ PublishStep(f) \in ToSet(s)
  BY LayoutPlan
<1> HIDE DEF s
<1>4. Typed /\ Owners /\ Lists /\ Whole /\ Layout
  BY DEF DiskInv
<1>5. Main \in Thread /\ Main \notin Worker /\ Thread = {Main} \cup Worker /\ \A w \in Worker : w \in Thread \ {Main}
  BY ConfigFilesAssumption DEF ConfigFilesAssumption, Thread
<1>6. \A x \in ToSet(s) : x.file \notin HostFiles
  BY <1>3, BaseFiles
<1>7. \A u \in Thread \ {Main} : job'[u].steps = <<>> /\ job'[u].host = NoHost /\ job'[u].goal = NoGoal
  BY <1>1, JobShape
<1>8. Typed'
  BY <1>1, <1>2, <1>4 DEF Typed
<1>9. Owners'
  <2>1. \A u \in Thread : \A x \in ToSet(job'[u].steps) : Own(u, x)'
    BY <1>1, <1>6, <1>7, NoSteps DEF Own
  <2>2. ASSUME NEW u \in Thread PROVE ThenOld(job'[u].steps, job'[u].host)
    <3>1. CASE u = Main
      <4>1. DOMAIN s = 1..Len(s)
        BY <1>3 DEF Program
      <4>2. \A i \in 1..Len(s) : s[i].file \notin HostFiles
        BY <1>6, <4>1 DEF ToSet
      <4>3. QED
        BY <1>1, <3>1, <4>2 DEF ThenOld
    <3>2. CASE u # Main
      <4>1. job'[u].steps = <<>> /\ Len(<<>>) = 0
        BY <1>7, <3>2
      <4>2. QED
        BY <4>1 DEF ThenOld
    <3>3. QED
      BY <3>1, <3>2
  <2>3. \A u \in Thread : job'[u].host = NoHost
    BY <1>1, <1>7
  <2>4. QED
    BY <1>5, <2>1, <2>2, <2>3 DEF Owners
<1>10. Lists'
  <2>1. \A u \in Thread : InBlocks(job'[u].steps)
    BY <1>1, <1>3, <1>7, NoSteps DEF Program
  <2>2. ASSUME NEW u \in Thread, job'[u].steps # <<>> PROVE HeadOK(u)'
    <3>1. u = Main
      BY <1>7, <2>2
    <3>2. s[1].op \notin {"fill", "publish"}
      BY <1>1, <1>3, <2>2, <3>1 DEF Program, Starts
    <3>3. QED
      BY <1>1, <3>1, <3>2 DEF HeadOK
  <2>3. QED
    BY <2>1, <2>2 DEF Lists
<1>11. Whole'
  BY <1>2, <1>4 DEF Whole, Raced
<1>12. Layout'
  <2>1. \A f \in Base : disk'[f] # NoFile \/ PublishStep(f) \in ToSet(s)
    BY <1>2, <1>3 DEF Exists
  <2>2. CASE s = <<>>
    <3>1. \A f \in Base : disk'[f] # NoFile
      BY <2>1, <2>2, NoSteps
    <3>2. job'[Main].goal.kind = "none"
      BY <1>1, <2>2, JobShape
    <3>3. QED
      BY <1>2, <1>5, <1>7, <3>1, <3>2 DEF Layout, Booting, Exists
  <2>3. CASE s # <<>>
    <3>1. \A w \in Worker : job'[w] = Idle /\ job'[w].goal = NoGoal
      BY <1>1, <1>5, <1>7
    <3>2. Booting'
      BY <1>1, <2>3 DEF Booting
    <3>3. QED
      BY <1>1, <1>2, <1>3, <1>6, <2>1, <3>1, <3>2 DEF Layout, Exists
  <2>4. QED
    BY <2>2, <2>3
<1>13. QED
  BY <1>8, <1>9, <1>10, <1>11, <1>12 DEF DiskInv

-----------------------------------------------------------------------------
(* Ends of jobs, and what the user does.                                   *)

\* Jobs end before their last step: some, all, or none.
Ends ==
    /\ job' \in [Thread -> Jobs] /\ \A u \in Thread : job'[u] \in {job[u], Idle}
    /\ UNCHANGED <<disk, temp, commands, raced, copied>>
    /\ running' \in BOOLEAN /\ failures' \in 0..MaxFailure
    /\ running' => running
    /\ ~ running' => \A u \in Thread : job'[u] = Idle
    /\ running' => (Booting' <=> Booting)
    /\ failures' # 0 \/ (job' = job /\ failures' = failures)

LEMMA Ending ==
  ASSUME DiskInv, Quit \/ Crash \/ \E t \in Thread : Fails(t)
  PROVE  Ends
<1>1. job \in [Thread -> Jobs] /\ failures \in 0..MaxFailure /\ MaxFailure \in Nat /\ running \in BOOLEAN /\ Idle \in Jobs
  BY ConfigFilesAssumption, JobShape DEF DiskInv, Typed, ConfigFilesAssumption
<1>2. Main \in Thread /\ Thread = {Main} \cup Worker
  BY DEF Thread
<1>3. CASE Quit
  BY <1>1, <1>3 DEF Quit, Ends
<1>4. failures < MaxFailure => failures + 1 \in 0..MaxFailure /\ failures + 1 # 0
  BY <1>1
<1>5. CASE Crash
  <2>1. job' = [u \in Thread |-> Idle]
    BY <1>5 DEF Crash
  <2>2. job' \in [Thread -> Jobs] /\ \A u \in Thread : job'[u] = Idle
    BY <1>1, <2>1
  <2>3. QED
    BY <1>4, <1>5, <2>2 DEF Crash, Ends
<1>6. ASSUME NEW t \in Thread, Fails(t) PROVE Ends
  <2>1. job' = [job EXCEPT ![t] = Idle]
    BY <1>6 DEF Fails
  <2>2. job' \in [Thread -> Jobs] /\ job'[t] = Idle /\ \A u \in Thread \ {t} : job'[u] = job[u]
    BY <1>1, <2>1
  <2>3. /\ job[t].steps # <<>> /\ failures < MaxFailure /\ failures' = failures + 1
        /\ running' = (running /\ job[t].goal.kind # "boot") /\ UNCHANGED <<disk, temp, commands, raced, copied>>
    BY <1>6 DEF Fails
  <2>4. running /\ \A w \in Worker : job[w].goal.kind # "boot"
    BY <1>2, <2>3, JobShape DEF DiskInv, Layout
  <2>5. CASE t = Main /\ Booting
    <3>1. ~ running' /\ \A u \in Thread \ {Main} : job[u] = Idle
      BY <1>2, <2>3, <2>5 DEF Booting, DiskInv, Layout
    <3>2. QED
      BY <1>4, <2>2, <2>3, <2>5, <3>1 DEF Ends
  <2>6. CASE ~ (t = Main /\ Booting)
    <3>1. running'
      BY <1>2, <2>3, <2>4, <2>6 DEF Booting
    <3>2. Booting' <=> Booting
      <4>1. CASE t = Main
        BY <2>2, <2>6, <4>1, JobShape DEF Booting
      <4>2. CASE t # Main
        BY <1>2, <2>2, <4>2 DEF Booting
      <4>3. QED
        BY <4>1, <4>2
    <3>3. running' = TRUE
      BY <2>3, <2>4, <3>1
    <3>4. QED
      BY <1>4, <2>2, <2>3, <2>4, <3>2, <3>3 DEF Ends
  <2>7. QED
    BY <2>5, <2>6
<1>7. QED
  BY <1>3, <1>5, <1>6

LEMMA EndKeeps ==
  ASSUME DiskInv, Ends
  PROVE  DiskInv'
<1>1. Typed /\ Owners /\ Lists /\ Whole /\ Layout
  BY DEF DiskInv
<1>2. /\ job' \in [Thread -> Jobs] /\ (\A u \in Thread : job'[u] \in {job[u], Idle})
      /\ UNCHANGED <<disk, temp, commands, raced, copied>>
      /\ running' \in BOOLEAN /\ failures' \in 0..MaxFailure
  BY DEF Ends
<1>3. \A u \in Thread : /\ ToSet(job'[u].steps) \subseteq ToSet(job[u].steps)
                        /\ job'[u].host \in {job[u].host, NoHost}
                        /\ job'[u].steps # <<>> => job'[u] = job[u]
  BY <1>2, JobShape, NoSteps
<1>4. NoHost \notin Host /\ Main \in Thread /\ Thread = {Main} \cup Worker
  BY ConfigFilesAssumption DEF ConfigFilesAssumption, Thread
<1>5. Typed'
  BY <1>1, <1>2, <1>3 DEF Typed
<1>6. Owners'
  <2>1. ASSUME NEW u \in Thread, NEW x \in ToSet(job'[u].steps) PROVE Own(u, x)'
    <3>1. x \in ToSet(job[u].steps) /\ job'[u] = job[u]
      BY <1>3, <2>1, NoSteps
    <3>2. Own(u, x)
      BY <1>1, <3>1 DEF Owners
    <3>3. ASSUME NEW n, NewName(u, n) PROVE NewName(u, n)'
      BY <1>2, <1>3, <1>4, <3>3 DEF NewName
    <3>4. QED
      BY <3>1, <3>2, <3>3 DEF Own
  <2>2. ASSUME NEW u \in Thread PROVE ThenOld(job'[u].steps, job'[u].host)
    <3>1. CASE job'[u] = job[u]
      BY <1>1, <3>1 DEF Owners
    <3>2. CASE job'[u] = Idle
      <4>1. job'[u].steps = <<>> /\ Len(<<>>) = 0
        BY <3>2, JobShape
      <4>2. QED
        BY <4>1 DEF ThenOld
    <3>3. QED
      BY <1>2, <3>1, <3>2
  <2>3. \A u, v \in Thread : u # v /\ job'[u].host = job'[v].host => job'[u].host \in raced' \cup {NoHost}
    BY <1>1, <1>2, <1>3 DEF Owners
  <2>4. \A w \in Worker : job'[w].host \in Host \cup {NoHost}
    BY <1>1, <1>3, <1>4 DEF Owners
  <2>5. QED
    BY <2>1, <2>2, <2>3, <2>4 DEF Owners
<1>7. Lists'
  <2>1. \A u \in Thread : InBlocks(job'[u].steps)
    BY <1>1, <1>2, JobShape, NoSteps DEF Lists, Program
  <2>2. ASSUME NEW u \in Thread, job'[u].steps # <<>> PROVE HeadOK(u)'
    <3>1. HeadOK(u) /\ job'[u] = job[u]
      BY <1>1, <1>3, <2>2 DEF Lists
    <3>2. QED
      BY <1>2, <3>1 DEF HeadOK, Raced
  <2>3. QED
    BY <2>1, <2>2 DEF Lists
<1>8. Whole'
  BY <1>1, <1>2 DEF Whole, Raced
<1>9. Layout'
  <2>1. \A w \in Worker : job'[w].goal = NoGoal /\ (job[w] = Idle => job'[w] = Idle)
    BY <1>1, <1>2, <1>4, JobShape DEF Layout
  <2>2. CASE running'
    <3>1. running /\ (Booting' <=> Booting)
      BY <2>2 DEF Ends
    <3>2. Booting' => job'[Main] = job[Main]
      BY <1>2, <1>4, JobShape DEF Booting
    <3>3. QED
      BY <1>1, <1>2, <2>1, <2>2, <3>1, <3>2 DEF Layout, Exists
  <2>3. CASE ~ running'
    <3>1. \A u \in Thread : job'[u] = Idle
      BY <2>3 DEF Ends
    <3>2. ~ Booting'
      BY <1>4, <3>1, JobShape DEF Booting
    <3>3. QED
      BY <2>1, <2>3, <3>1, <3>2 DEF Layout
  <2>4. QED
    BY <2>2, <2>3
<1>10. QED
  BY <1>5, <1>6, <1>7, <1>8, <1>9 DEF DiskInv

\* The user copies a host file or changes it.
Handed ==
    \E f, g \in HostFiles, c \in Contents :
        /\ Readable(f) /\ NameOf(f) = NameOf(g) /\ c \in Text(g)
        /\ (f = g \/ ~ Exists(g)) /\ disk' = [disk EXCEPT ![g] = c]
        /\ NameOf(f) \in Host \ copied /\ copied' = copied \cup {NameOf(f)}
        /\ UNCHANGED <<temp, job, running, commands, failures, raced>>

LEMMA Handing ==
  ASSUME Typed, Whole, NEW f \in HostFiles, UserSpoils(f) \/ \E g \in HostFiles : UserCopies(f, g)
  PROVE  Handed
<1>1. Readable(f) => disk[f] \in Text(f)
  BY Readings
<1>2. UserChanges(f)
  BY DEF UserSpoils, UserCopies
<1>3. disk[f] \in Text(f) /\ disk[f].id = NameOf(f) /\ NameOf(f) \in Host
  BY <1>1, <1>2, HostTextShape DEF UserChanges
<1>4. CASE UserSpoils(f)
  <2> DEFINE c == [disk[f] EXCEPT !.valid = FALSE]
  <2>1. c \in Text(f)
    BY <1>3, HostTextChanges
  <2>2. c \in Contents
    BY <2>1, ContentsShape, FilesDiffer
  <2>3. disk' = [disk EXCEPT ![f] = c]
    BY <1>4 DEF UserSpoils
  <2> HIDE DEF c
  <2>4. QED
    BY <1>2, <1>3, <2>1, <2>2, <2>3 DEF Handed, UserChanges
<1>5. ASSUME NEW g \in HostFiles, UserCopies(f, g) PROVE Handed
  <2> DEFINE c == disk[f]
  <2>1. NameOf(f) = NameOf(g) /\ ~ Exists(g) /\ disk' = [disk EXCEPT ![g] = c]
    BY <1>5 DEF UserCopies
  <2>2. c \in Text(g)
    BY <1>3, <2>1, HostTextChanges
  <2>3. c \in Contents
    BY <2>2, ContentsShape, FilesDiffer
  <2> HIDE DEF c
  <2>4. QED
    BY <1>2, <1>3, <2>1, <2>2, <2>3 DEF Handed, UserChanges
<1>6. QED
  BY <1>4, <1>5

LEMMA HandKeeps ==
  ASSUME DiskInv, Handed
  PROVE  DiskInv'
<1>1. PICK f \in HostFiles, g \in HostFiles, c \in Contents :
        /\ Readable(f) /\ NameOf(f) = NameOf(g) /\ c \in Text(g)
        /\ (f = g \/ ~ Exists(g)) /\ disk' = [disk EXCEPT ![g] = c]
        /\ NameOf(f) \in Host \ copied /\ copied' = copied \cup {NameOf(f)}
        /\ UNCHANGED <<temp, job, running, commands, failures, raced>>
  BY DEF Handed
<1>2. Typed /\ Owners /\ Lists /\ Whole /\ Layout
  BY DEF DiskInv
<1>3. disk \in [File -> Contents] /\ f \in File /\ g \in File
  BY <1>2, FilesDiffer DEF Typed
<1>4. disk' \in [File -> Contents] /\ disk'[g] = c /\ \A h \in File \ {g} : disk'[h] = disk[h]
  BY <1>1, <1>3
<1>5. disk[f] # NoFile /\ c \notin Spoilt
  <2>1. disk[f].kind = "host"
    BY <1>1 DEF Readable
  <2>2. disk[f] # NoFile
    BY <2>1, SpoiltShape DEF Spoilt
  <2>3. QED
    BY <1>1, <1>3, <2>2, TextIsWhole
<1>6. Typed'
  BY <1>1, <1>2, <1>4 DEF Typed
<1>7. Owners'
  <2>1. ASSUME NEW u \in Thread, NEW n, NewName(u, n) PROVE NewName(u, n)'
    <3>1. n # NameOf(f)
      BY <1>5, <2>1 DEF NewName
    <3>2. \A h \in HostFiles : NameOf(h) = n => disk'[h] = NoFile
      BY <1>1, <1>4, <2>1, <3>1, FilesDiffer DEF NewName
    <3>3. QED
      BY <1>1, <2>1, <3>2 DEF NewName
  <2>2. ASSUME NEW u \in Thread, NEW x \in ToSet(job[u].steps) PROVE Own(u, x)'
    <3>1. Own(u, x)
      BY <1>2 DEF Owners
    <3>2. QED
      BY <1>1, <2>1, <3>1 DEF Own
  <2>3. QED
    BY <1>1, <1>2, <2>2 DEF Owners
<1>8. Lists'
  <2>1. \A u \in Thread : HeadOK(u) => HeadOK(u)'
    BY <1>1 DEF HeadOK, Raced
  <2>2. QED
    BY <1>1, <1>2, <2>1 DEF Lists
<1>9. Whole'
  <2>1. c \notin {Blank, Torn}
    BY <1>5 DEF Spoilt
  <2>2. QED
    BY <1>1, <1>2, <1>4, <2>1 DEF Whole, Raced
<1>10. Layout'
  <2>1. \A h \in Base : disk'[h] = disk[h]
    BY <1>1, <1>4, BaseFiles
  <2>2. QED
    BY <1>1, <1>2, <2>1 DEF Layout, Exists, Booting
<1>11. QED
  BY <1>6, <1>7, <1>8, <1>9, <1>10 DEF DiskInv

-----------------------------------------------------------------------------
(* The texts to come, and the files of the application.                    *)

LEMMA PublishIs == ASSUME NEW x \in StepSet, x.op = "publish" PROVE x = PublishStep(x.file)
<1>1. CASE x \in [op : {"open", "publish"}, file : File]
  BY <1>1 DEF PublishStep
<1>2. CASE x \in [op : {"remove"}, file : Removable]
  BY <1>2
<1>3. CASE x \in {y \in [op : {"move"}, file : HostFiles, to : HostFiles] : NameOf(y.to) = NameOf(y.file)}
  BY <1>3
<1>4. ASSUME NEW f \in File, x \in [op : {"fill"}, file : {f}, text : Text(f)] PROVE FALSE
  BY <1>4
<1>5. QED
  BY <1>1, <1>2, <1>3, <1>4 DEF StepSet

LEMMA RemoveIs == ASSUME NEW x \in StepSet, x.op = "remove" PROVE x = RemoveStep(x.file)
<1>1. CASE x \in [op : {"open", "publish"}, file : File]
  BY <1>1
<1>2. CASE x \in [op : {"remove"}, file : Removable]
  BY <1>2 DEF RemoveStep
<1>3. CASE x \in {y \in [op : {"move"}, file : HostFiles, to : HostFiles] : NameOf(y.to) = NameOf(y.file)}
  BY <1>3
<1>4. ASSUME NEW f \in File, x \in [op : {"fill"}, file : {f}, text : Text(f)] PROVE FALSE
  BY <1>4
<1>5. QED
  BY <1>1, <1>2, <1>3, <1>4 DEF StepSet

\* What is to be published in a file of one thread is one of its texts.
LEMMA PendingText ==
  ASSUME Typed, Lists, NEW u \in Thread, NEW f \in File, ~ Raced(f)
  PROVE  Pending(job[u].steps, temp, f) \subseteq Text(f)
<1> DEFINE s == job[u].steps
<1>1. s \in Seq(StepSet)
  BY JobShape DEF Typed
<1>2. \A x \in ToSet(s) : x \in StepSet
  BY <1>1, Popped, NoSteps
<1>3. Fills(s, f) \subseteq Text(f)
  BY <1>2, StepShape DEF Fills
<1>4. s # <<>> /\ s[1] = PublishStep(f) => temp[f] \in Text(f)
  BY Kinds DEF Lists, HeadOK
<1>5. QED
  BY <1>3, <1>4 DEF Pending

\* A step fills what it publishes next, and otherwise leaves the texts to come alone.
LEMMA PendingKept ==
  ASSUME Typed, Owners, Lists, NEW t \in Thread, DiskStep(t), JobsAfter(t), DiskAfter(t),
         NEW u \in Thread, NEW f \in File, ~ Raced(f)
  PROVE  /\ Pending(job'[u].steps, temp', f) \subseteq Pending(job[u].steps, temp, f)
         /\ ~ (u = t /\ First(t) = PublishStep(f)) =>
               Pending(job'[u].steps, temp', f) = Pending(job[u].steps, temp, f)
         /\ First(t) = PublishStep(f) => disk'[f] \in Pending(job[t].steps, temp, f)
<1> DEFINE s == job[t].steps
           x == s[1]
<1>0. s # <<>> /\ x \in StepSet /\ x.file \in File /\ x \in ToSet(s) /\ s \in Seq(StepSet) /\ First(t) = x
  BY FirstStep DEF DiskStep, First
<1>1. x.op \in {"open", "fill", "publish", "remove", "move"}
  BY <1>0, StepShape
<1>2. ASSUME u # t PROVE Pending(job'[u].steps, temp', f) = Pending(job[u].steps, temp, f)
  <2>1. job'[u].steps = job[u].steps
    BY <1>2 DEF JobsAfter
  <2>2. ASSUME job[u].steps # <<>>, job[u].steps[1] = PublishStep(f) PROVE temp'[f] = temp[f]
    <3>1. PublishStep(f) \in ToSet(job[u].steps) /\ PublishStep(f).file = f
      BY <2>2, FirstStep, Kinds DEF First
    <3>2. x.file # f
      BY <1>0, <1>2, <3>1, Alone
    <3>3. QED
      BY <1>0, <1>1, <3>2 DEF DiskAfter
  <2>3. QED
    BY <2>1, <2>2 DEF Pending
<1> DEFINE r == Tail(s)
<1>3. /\ r \in Seq(StepSet) /\ ToSet(s) = {x} \cup ToSet(r)
      /\ r # <<>> => Succ(x, r[1]) /\ r[1] \in StepSet
      /\ r = <<>> => x.op \notin {"open", "fill"}
  <2>1. r \in Seq(StepSet) /\ ToSet(s) = {x} \cup ToSet(r)
    BY <1>0, Popped
  <2>2. r # <<>> => r[1] \in StepSet
    BY <2>1
  <2>3. QED
    BY <1>0, <2>1, <2>2, PoppedBlocks DEF Lists
<1>4. job'[t].steps = r
  BY DEF JobsAfter
<1> HIDE DEF r
<1>5. Fills(s, f) = Fills(r, f) \cup (IF x.op = "fill" /\ x.file = f THEN {x.text} ELSE {})
  BY <1>3 DEF Fills
<1>6. CASE x.op = "open"
  <2>1. r # <<>> /\ r[1].op = "fill"
    BY <1>3, <1>6 DEF Succ
  <2>2. Pending(r, temp', f) = Fills(r, f) /\ Pending(s, temp, f) = Fills(s, f) /\ x # PublishStep(f)
    BY <1>6, <2>1, Kinds DEF Pending
  <2>3. Fills(s, f) = Fills(r, f)
    BY <1>5, <1>6
  <2>4. QED
    BY <1>0, <1>2, <1>4, <2>2, <2>3
<1>7. CASE x.op = "fill"
  <2>1. r # <<>> /\ r[1] = PublishStep(x.file)
    BY <1>3, <1>7, PublishIs DEF Succ
  <2>2. x # PublishStep(f) /\ Pending(s, temp, f) = Fills(s, f)
    BY <1>7, Kinds DEF Pending
  <2>3. CASE x.file = f
    <3>1. temp'[f] = x.text
      BY <1>7, <2>3 DEF DiskAfter
    <3>2. Pending(r, temp', f) = Fills(r, f) \cup {x.text}
      BY <2>1, <2>3, <3>1 DEF Pending
    <3>3. QED
      BY <1>0, <1>2, <1>4, <1>5, <1>7, <2>2, <2>3, <3>2
  <2>4. CASE x.file # f
    <3>1. r[1] # PublishStep(f)
      BY <2>1, <2>4, Kinds
    <3>2. Pending(r, temp', f) = Fills(r, f) /\ Fills(r, f) = Fills(s, f)
      BY <1>5, <2>4, <3>1 DEF Pending
    <3>3. QED
      BY <1>0, <1>2, <1>4, <2>2, <3>2
  <2>5. QED
    BY <2>3, <2>4
<1>8. CASE x.op \in {"publish", "remove", "move"}
  <2>1. r # <<>> => r[1] # PublishStep(f)
    BY <1>3, <1>8, Kinds DEF Succ
  <2>2. Pending(r, temp', f) = Fills(r, f) /\ Fills(r, f) = Fills(s, f)
    BY <1>5, <1>8, <2>1 DEF Pending
  <2>3. x = PublishStep(f) => temp[f] \in Pending(s, temp, f) /\ disk'[f] = temp[f]
    BY <1>0, Kinds DEF Pending, DiskAfter
  <2>4. x # PublishStep(f) => Pending(s, temp, f) = Fills(s, f)
    BY DEF Pending
  <2>5. Fills(s, f) \subseteq Pending(s, temp, f)
    BY DEF Pending
  <2>6. QED
    BY <1>0, <1>2, <1>4, <2>2, <2>3, <2>4, <2>5
<1>9. QED
  BY <1>1, <1>6, <1>7, <1>8

\* Only the main thread changes a file of the application.
LEMMA AppFiles ==
  ASSUME Typed, Owners, Lists, NEW t \in Thread, DiskStep(t), JobsAfter(t), DiskAfter(t), NEW f \in File \ HostFiles
  PROVE  \/ disk'[f] = disk[f] /\ ~ (t = Main /\ First(t) \in {PublishStep(f), RemoveStep(f)})
         \/ t = Main /\ First(t) = PublishStep(f) /\ disk'[f] \in Pending(job[t].steps, temp, f) /\ disk'[f] \in Text(f)
         \/ t = Main /\ First(t) = RemoveStep(f) /\ disk'[f] = NoFile
<1> DEFINE s == job[t].steps
           x == s[1]
<1>0. s # <<>> /\ x \in StepSet /\ x.file \in File /\ x \in ToSet(s) /\ First(t) = x
  BY FirstStep DEF DiskStep, First
<1>1. /\ x.op \in {"open", "fill", "publish", "remove", "move"}
      /\ x.op = "move" => x.file \in HostFiles /\ x.to \in HostFiles
  BY <1>0, StepShape
<1>2. ~ Raced(f) /\ f \in File
  BY DEF Raced
<1>3. x.file = f => t = Main
  BY <1>0 DEF Owners, Own
<1>4. CASE x.op \in {"open", "fill", "move"}
  <2>1. disk'[f] = disk[f]
    BY <1>0, <1>1, <1>2, <1>4 DEF DiskAfter
  <2>2. x # PublishStep(f) /\ x # RemoveStep(f)
    BY <1>4, Kinds
  <2>3. QED
    BY <1>0, <2>1, <2>2
<1>5. CASE x.op = "publish"
  <2>1. CASE x.file = f
    <3>1. x = PublishStep(f)
      BY <1>0, <1>5, <2>1, PublishIs
    <3>2. disk'[f] \in Pending(s, temp, f)
      BY <1>0, <1>2, <3>1, PendingKept
    <3>3. Pending(s, temp, f) \subseteq Text(f)
      BY <1>2, PendingText
    <3>4. QED
      BY <1>0, <1>3, <2>1, <3>1, <3>2, <3>3
  <2>2. CASE x.file # f
    <3>1. disk'[f] = disk[f]
      BY <1>2, <1>5, <2>2 DEF DiskAfter
    <3>2. x # PublishStep(f) /\ x # RemoveStep(f)
      BY <1>5, <2>2, Kinds
    <3>3. QED
      BY <1>0, <3>1, <3>2
  <2>3. QED
    BY <2>1, <2>2
<1>6. CASE x.op = "remove"
  <2>1. CASE x.file = f
    BY <1>0, <1>3, <1>6, <2>1, RemoveIs DEF DiskAfter
  <2>2. CASE x.file # f
    <3>1. disk'[f] = disk[f]
      BY <1>2, <1>6, <2>2 DEF DiskAfter
    <3>2. x # PublishStep(f) /\ x # RemoveStep(f)
      BY <1>6, <2>2, Kinds
    <3>3. QED
      BY <1>0, <3>1, <3>2
  <2>3. QED
    BY <2>1, <2>2
<1>7. QED
  BY <1>1, <1>4, <1>5, <1>6

LEMMA StateAfter ==
  ASSUME Typed, Owners, Lists, NEW t \in Thread, DiskStep(t), JobsAfter(t), DiskAfter(t)
  PROVE  \/ t = Main /\ First(t) = PublishStep(StateFile) /\ State' \in Pending(job[Main].steps, temp, StateFile)
         \/ ~ (t = Main /\ First(t) = PublishStep(StateFile)) /\ State' = State
<1>1. StateFile \in File \ HostFiles
  BY DocumentedFiles
<1>2. First(t) # RemoveStep(StateFile)
  <2>1. First(t) \in StepSet
    BY FirstStep DEF DiskStep
  <2>2. StateFile \notin Removable
    BY BaseFiles DEF Base
  <2>3. QED
    BY <2>1, <2>2, StepShape, Kinds
<1>3. CASE disk'[StateFile] = disk[StateFile] /\ ~ (t = Main /\ First(t) = PublishStep(StateFile))
  BY <1>3 DEF State, Exists
<1>4. CASE t = Main /\ First(t) = PublishStep(StateFile) /\ disk'[StateFile] \in Pending(job[t].steps, temp, StateFile)
           /\ disk'[StateFile] \in Text(StateFile)
  <2>1. disk'[StateFile] # NoFile
    BY <1>1, <1>4, TextIsWhole DEF Spoilt
  <2>2. State' = disk'[StateFile]
    BY <2>1 DEF State, Exists
  <2>3. QED
    BY <1>4, <2>2
<1>5. QED
  BY <1>1, <1>2, <1>3, <1>4, AppFiles

-----------------------------------------------------------------------------
(* The active profile.                                                     *)

Safe ==
    /\ Targets(job[Main].steps) /\ Removes(job[Main].steps)
    /\ Booting => State.active = Default \/ Exists(Active)
    /\ failures = 0 /\ running /\ ~ Booting => Exists(Active) \/ Deferred(job[Main].steps)

LEMMA StepSafe ==
  ASSUME DiskInv, DiskInv', Safe, NEW t \in Thread, DiskStep(t), JobsAfter(t), DiskAfter(t)
  PROVE  Safe'
<1> DEFINE s == job[Main].steps
           r == job'[Main].steps
           P == Pending(s, temp, StateFile)
           Q == Pending(r, temp', StateFile)
           publishes == t = Main /\ First(t) = PublishStep(StateFile)
<1>1. Typed /\ Owners /\ Lists /\ Whole /\ Layout /\ Layout'
  BY DEF DiskInv
<1>2. Main \in Thread /\ StateFile \in File \ HostFiles /\ ~ Raced(StateFile)
  BY DocumentedFiles DEF Thread, Raced
<1>3. Q \subseteq P /\ (~ publishes => Q = P) /\ P \subseteq Text(StateFile)
  BY <1>1, <1>2, PendingKept, PendingText
<1>4. ToSet(r) \subseteq ToSet(s)
  BY <1>1, <1>2, HostsKept
<1>5. UNCHANGED <<running, failures>>
  BY DEF DiskStep, Counted
<1>6. \/ publishes /\ State' \in P
      \/ ~ publishes /\ State' = State
  BY <1>1, StateAfter
<1>7. \A p \in Profile : ProfileFile(p) \in File \ HostFiles
  BY FilesDiffer
<1>8. t = Main => First(t) \in ToSet(s)
  BY <1>1, FirstStep DEF DiskStep
<1>9. ASSUME NEW p \in Profile, disk[ProfileFile(p)] # NoFile
      PROVE  \/ disk'[ProfileFile(p)] # NoFile
             \/ t = Main /\ First(t) = RemoveStep(ProfileFile(p)) /\ RemoveStep(ProfileFile(p)) \in ToSet(s)
  <2>1. NoFile \notin Text(ProfileFile(p))
    BY <1>7, TextIsWhole DEF Spoilt
  <2>2. QED
    BY <1>1, <1>7, <1>8, <1>9, <2>1, AppFiles
<1>10. ASSUME NEW c \in P, c.active # Default
       PROVE  disk'[ProfileFile(c.active)] # NoFile /\ RemoveStep(ProfileFile(c.active)) \notin ToSet(r)
  <2>1. c.active \in Profile
    BY <1>3, <1>10, StateText
  <2>2. disk[ProfileFile(c.active)] # NoFile /\ RemoveStep(ProfileFile(c.active)) \notin ToSet(s)
    BY <1>10 DEF Safe, Targets, Exists
  <2>3. QED
    BY <1>4, <1>9, <2>1, <2>2
<1>11. Targets(job[Main].steps)'
  BY <1>3, <1>10 DEF Targets, Exists
<1>12. Active' = ProfileFile(State'.active) /\ Active = ProfileFile(State.active) /\ State.active \in Profile
  BY <1>1, Readings DEF Active
<1>13. Default \in Profile /\ \A x \in ToSet(r) : x \in StepSet
  <2>1. s \in Seq(StepSet)
    BY <1>1, <1>2, JobShape DEF Typed
  <2>2. QED
    BY <1>4, <2>1, Popped, NoSteps, ConfigFilesAssumption DEF ConfigFilesAssumption
<1>14. RemoveStep(ProfileFile(Default)) \notin ToSet(r)
  BY <1>13, BaseFiles, StepShape, Kinds DEF Base
<1>15. Removes(job[Main].steps)'
  <2>1. ASSUME publishes PROVE RemoveStep(Active') \notin ToSet(r)
    BY <1>6, <1>10, <1>12, <1>14, <2>1
  <2>2. ASSUME ~ publishes, RemoveStep(Active') \in ToSet(r) PROVE \E c \in Q : c.active = Default
    <3>1. RemoveStep(Active) \in ToSet(s) /\ Q = P
      BY <1>3, <1>4, <1>6, <1>12, <2>2
    <3>2. QED
      BY <3>1 DEF Safe, Removes, Deferred
  <2>3. QED
    BY <2>1, <2>2 DEF Removes, Deferred
<1>16. Booting' => Booting
  BY <1>2, JobShape DEF JobsAfter, Booting
<1>17. ASSUME publishes PROVE State'.active = Default \/ disk'[Active'] # NoFile
  BY <1>6, <1>10, <1>12, <1>17
<1>18. ASSUME ~ publishes, disk[Active] # NoFile
       PROVE  disk'[Active'] # NoFile \/ (t = Main /\ RemoveStep(Active) \in ToSet(s))
  BY <1>6, <1>9, <1>12, <1>18
<1>19. ASSUME Booting PROVE State'.active = Default \/ disk'[Active'] # NoFile
  <2>1. RemoveStep(Active) \notin ToSet(s)
    BY <1>1, <1>19, Kinds DEF Layout
  <2>2. State.active = Default \/ disk[Active] # NoFile
    BY <1>19 DEF Safe, Exists
  <2>3. QED
    BY <1>6, <1>17, <1>18, <2>1, <2>2
<1>20. ASSUME failures = 0, running, ~ Booting' PROVE disk'[Active'] # NoFile \/ \E c \in Q : c.active = Default
  <2>1. State'.active = Default => disk'[Active'] # NoFile
    <3>1. disk'[ProfileFile(Default)] # NoFile
      BY <1>1, <1>5, <1>20 DEF Layout, Base, Exists
    <3>2. QED
      BY <1>12, <3>1
  <2>2. CASE publishes
    BY <1>17, <2>1, <2>2
  <2>3. CASE ~ publishes /\ Booting
    BY <1>19, <2>1, <2>3
  <2>4. CASE ~ publishes /\ ~ Booting
    <3>1. Exists(Active) \/ Deferred(s)
      BY <1>20, <2>4 DEF Safe
    <3>2. CASE Deferred(s)
      BY <1>3, <2>4, <3>2 DEF Deferred
    <3>3. CASE disk[Active] # NoFile
      <4>1. RemoveStep(Active) \in ToSet(s) => \E c \in Q : c.active = Default
        BY <1>3, <2>4 DEF Safe, Removes, Deferred
      <4>2. QED
        BY <1>18, <2>4, <3>3, <4>1
    <3>4. QED
      BY <3>1, <3>2, <3>3 DEF Exists
  <2>5. QED
    BY <2>2, <2>3, <2>4
<1>21. QED
  BY <1>5, <1>11, <1>15, <1>16, <1>19, <1>20 DEF Safe, Deferred, Exists

LEMMA NothingPending == \A tmp, f : Pending(<<>>, tmp, f) = {}
BY NoSteps DEF Pending, Fills

LEMMA BeginSafe ==
  ASSUME DiskInv, Safe, NEW t \in Thread, NEW id, NEW s, NEW goal, Planned(t, id, s, goal), Begin(t, id, s, goal),
         Intended(id, s, goal)
  PROVE  Safe'
<1>1. /\ \A u \in Thread \ {t} : job'[u] = job[u]
      /\ job'[t].steps = s /\ job'[t].goal = goal /\ job[t] = Idle /\ running /\ ~ Booting
      /\ UNCHANGED <<disk, temp, running, failures, copied>>
  BY BegunJob
<1>2. Main \in Thread
  BY DEF Thread
<1>3. CASE t = Main
  <2>1. ~ Booting'
    BY <1>1, <1>3 DEF Booting, Planned
  <2>2. Pending(job[Main].steps, temp, StateFile) = {}
    BY <1>1, <1>3, JobShape, NothingPending
  <2>3. failures = 0 => Exists(Active)
    BY <1>1, <2>2 DEF Safe, Deferred
  <2>4. Targets(s) /\ Removes(s)
    BY DEF Intended
  <2>5. UNCHANGED <<disk, temp, running, failures>> /\ job'[Main].steps = s
    BY <1>1, <1>3
  <2>6. QED
    BY <2>1, <2>3, <2>4, <2>5 DEF Safe, Targets, Removes, Deferred, Exists, Active, State
<1>4. CASE t # Main
  <2>1. job'[Main] = job[Main] /\ UNCHANGED <<disk, temp, running, failures>>
    BY <1>1, <1>2, <1>4
  <2>2. QED
    BY <2>1 DEF Safe, Targets, Removes, Deferred, Exists, Active, State, Booting
<1>5. QED
  BY <1>3, <1>4

LEMMA BootSafe ==
  ASSUME DiskInv, Boot
  PROVE  Safe'
<1> DEFINE s == EnsureLayout
<1>1. /\ job'[Main].steps = s
      /\ s = <<>> => job'[Main] = Idle
      /\ s # <<>> => job'[Main].goal.kind = "boot"
  BY BootJob
<1>2. UNCHANGED <<disk, temp, commands, failures, raced, copied>> /\ running' = TRUE /\ Usable
  BY DEF Boot
<1>3. /\ Program(s) /\ \A x \in ToSet(s) : x.op \notin {"remove", "move"}
      /\ \A f \in Base : Exists(f) \/ PublishStep(f) \in ToSet(s)
      /\ \A c \in Fills(s, StateFile) : c = AppStateFile(Default, FALSE)
  BY LayoutPlan
<1> HIDE DEF s
<1>4. \A c \in Pending(s, temp', StateFile) : c.active = Default
  <2>1. Pending(s, temp', StateFile) = Fills(s, StateFile)
    BY <1>3, AtStart
  <2>2. QED
    BY <1>3, <2>1 DEF AppStateFile
<1>5. \A f : RemoveStep(f) \notin ToSet(s)
  BY <1>3, Kinds
<1>6. State.active = Default \/ Exists(Active)
  BY <1>2 DEF Usable
<1>7. ASSUME ~ Booting' PROVE Exists(Active)
  <2>1. s = <<>>
    BY <1>1, <1>7 DEF Booting
  <2>2. \A f \in Base : Exists(f)
    BY <1>3, <2>1, NoSteps
  <2>3. QED
    BY <1>6, <2>2 DEF Base, Active
<1>8. State' = State /\ Active' = Active
  BY <1>2 DEF State, Active, Exists
<1>9. QED
  BY <1>1, <1>2, <1>4, <1>5, <1>6, <1>7, <1>8 DEF Safe, Targets, Removes, Exists

LEMMA EndSafe ==
  ASSUME DiskInv, Safe, Ends
  PROVE  Safe'
<1>1. /\ (\A u \in Thread : job'[u] \in {job[u], Idle})
      /\ UNCHANGED <<disk, temp, commands, raced, copied>>
      /\ running' => running /\ (Booting' <=> Booting)
      /\ ~ running' => \A u \in Thread : job'[u] = Idle
      /\ failures' # 0 \/ (job' = job /\ failures' = failures)
  BY DEF Ends
<1>2. Main \in Thread
  BY DEF Thread
<1>3. State' = State /\ Active' = Active
  BY <1>1 DEF State, Active, Exists
<1>4. Targets(job[Main].steps)' /\ Removes(job[Main].steps)'
  <2>1. CASE job'[Main] = Idle
    BY <2>1, JobShape, NothingPending, NoSteps DEF Targets, Removes
  <2>2. CASE job'[Main] = job[Main]
    BY <1>1, <1>3, <2>2 DEF Safe, Targets, Removes, Deferred, Exists
  <2>3. QED
    BY <1>1, <1>2, <2>1, <2>2
<1>5. ASSUME Booting' PROVE Booting
  BY <1>1, <1>2, <1>5, JobShape DEF Booting
<1>6. QED
  BY <1>1, <1>3, <1>4, <1>5 DEF Safe, Exists, Deferred

LEMMA HandSafe ==
  ASSUME DiskInv, Safe, Handed
  PROVE  Safe'
<1>1. /\ \A h \in File \ HostFiles : disk'[h] = disk[h]
      /\ UNCHANGED <<temp, job, running, commands, failures, raced>>
  <2>1. disk \in [File -> Contents]
    BY DEF DiskInv, Typed
  <2>2. QED
    BY <2>1 DEF Handed
<1>2. State' = State
  BY <1>1, DocumentedFiles DEF State, Exists
<1>3. Active' = Active /\ disk'[Active] = disk[Active]
  <2>1. Active' = Active
    BY <1>2 DEF Active
  <2>2. Active \in File \ HostFiles
    BY DocumentedFiles DEF DiskInv
  <2>3. QED
    BY <1>1, <2>1, <2>2
<1>4. Targets(job[Main].steps)'
  <2>1. Main \in Thread /\ StateFile \in File /\ ~ Raced(StateFile)
    BY DocumentedFiles DEF Thread, Raced
  <2>2. \A c \in Pending(job[Main].steps, temp, StateFile) : c.active \in Profile
    BY <2>1, PendingText, StateText DEF DiskInv
  <2>3. \A p \in Profile : disk'[ProfileFile(p)] = disk[ProfileFile(p)]
    BY <1>1, FilesDiffer
  <2>4. QED
    BY <1>1, <2>2, <2>3 DEF Safe, Targets, Exists
<1>5. QED
  BY <1>1, <1>2, <1>3, <1>4 DEF Safe, Removes, Deferred, Exists, Booting

-----------------------------------------------------------------------------
(* The files of a host.                                                    *)

FilesInv ==
    /\ One
    /\ \A t \in Thread : OneWrite(job[t].steps) /\ OneToCome(job[t].steps)

\* A step that is not about a host leaves its files alone.
LEMMA HostFilesKept ==
  ASSUME Typed, Owners, Lists, NEW t \in Thread, DiskStep(t), JobsAfter(t), DiskAfter(t),
         NEW n, n \notin raced, First(t).file \in HostFiles => NameOf(First(t).file) # n,
         NEW g \in HostFiles, NameOf(g) = n
  PROVE  disk'[g] = disk[g]
<1> DEFINE x == job[t].steps[1]
<1>0. x \in StepSet /\ x.file \in File /\ First(t) = x
  BY FirstStep DEF DiskStep, First
<1>1. /\ x.op \in {"open", "fill", "publish", "remove", "move"}
      /\ x.op = "move" => x.file \in HostFiles /\ x.to \in HostFiles /\ NameOf(x.to) = NameOf(x.file)
  BY <1>0, StepShape
<1>2. ~ Raced(g) /\ g \in File /\ x.file # g /\ (x.op = "move" => x.to # g)
  BY <1>0, <1>1, FilesDiffer DEF Raced
<1>3. QED
  BY <1>1, <1>2 DEF DiskAfter

\* Another thread does not touch the files of a host that was not raced.
LEMMA NotTouched ==
  ASSUME Typed, Owners, NEW t \in Thread, DiskStep(t), NEW u \in Thread \ {t},
         NEW n, n \notin raced,
         job[u].host = n \/ \E y \in ToSet(job[u].steps) : y.file \in HostFiles /\ NameOf(y.file) = n
  PROVE  First(t).file \in HostFiles => NameOf(First(t).file) # n
<1> DEFINE x == First(t)
<1>0. x \in StepSet /\ x \in ToSet(job[t].steps)
  BY FirstStep DEF DiskStep
<1>1. CASE \E y \in ToSet(job[u].steps) : y.file \in HostFiles /\ NameOf(y.file) = n
  BY <1>0, <1>1, Alone
<1>2. CASE job[u].host = n
  <2>1. SUFFICES ASSUME x.file \in HostFiles, NameOf(x.file) = n PROVE FALSE
    OBVIOUS
  <2>2. Own(t, x) /\ NoHost \notin Host
    BY <1>0, ConfigFilesAssumption DEF Owners, ConfigFilesAssumption
  <2>3. n \in Host /\ (job[t].host = n \/ NewName(t, n))
    BY <2>1, <2>2 DEF Own
  <2>4. ~ NewName(t, n)
    BY <1>2 DEF NewName
  <2>5. job[t].host = job[u].host
    BY <1>2, <2>3, <2>4
  <2>6. job[t].host \in raced \cup {NoHost}
    BY <2>5 DEF Owners
  <2>7. QED
    BY <1>2, <2>2, <2>3, <2>5, <2>6
<1>3. QED
  BY <1>1, <1>2

LEMMA StepFiles ==
  ASSUME DiskInv, FilesInv, NEW t \in Thread, DiskStep(t), JobsAfter(t), DiskAfter(t)
  PROVE  FilesInv'
<1> DEFINE s == job[t].steps
           x == s[1]
           r == Tail(s)
           f == x.file
<1>0. s # <<>> /\ x \in StepSet /\ f \in File /\ x \in ToSet(s) /\ s \in Seq(StepSet) /\ First(t) = x
  BY FirstStep DEF DiskStep, First, DiskInv
<1>1. UNCHANGED <<raced, copied>>
  BY DEF DiskStep, Counted
<1>2. /\ x.op \in {"open", "fill", "publish", "remove", "move"}
      /\ x.op = "move" => f \in HostFiles /\ x.to \in HostFiles /\ NameOf(x.to) = NameOf(f)
  BY <1>0, StepShape
<1>3. Typed /\ Owners /\ Lists
  BY DEF DiskInv
<1>4. HostFiles \subseteq File
  BY FilesDiffer
<1>5. OneWrite(s) /\ OneToCome(s) /\ One
  BY DEF FilesInv
\* A file of a host that was neither raced nor copied appears in its place or not at all.
<1>6. ASSUME NEW g \in HostFiles, NameOf(g) \notin raced \cup copied, disk'[g] # NoFile
      PROVE  /\ disk[g] # NoFile \/ (x = PublishStep(g)) \/ (x.op = "move" /\ x.to = g)
             /\ x.op = "move" /\ f = g => x.to = g
  <2>1. ~ Raced(g)
    BY <1>6 DEF Raced
  <2>2. CASE x.op \in {"open", "remove"}
    BY <1>0, <1>4, <1>6, <2>2 DEF DiskAfter
  <2>3. CASE x.op = "fill"
    BY <1>0, <1>4, <1>6, <2>1, <2>3 DEF DiskAfter
  <2>4. CASE x.op = "publish"
    <3>1. x = PublishStep(f)
      BY <1>0, <2>4, PublishIs
    <3>2. QED
      BY <1>0, <1>4, <1>6, <2>4, <3>1 DEF DiskAfter
  <2>5. CASE x.op = "move"
    BY <1>0, <1>2, <1>4, <1>6, <2>5 DEF DiskAfter
  <2>6. QED
    BY <1>2, <2>2, <2>3, <2>4, <2>5
<1>7. One'
  <2>1. SUFFICES ASSUME NEW g \in HostFiles, NEW h \in HostFiles, g # h, NameOf(g) = NameOf(h),
                        disk'[g] # NoFile, disk'[h] # NoFile, NameOf(g) \notin raced \cup copied
                 PROVE  FALSE
    BY <1>1 DEF One, Exists
  <2>2. ~ (disk[g] # NoFile /\ disk[h] # NoFile)
    BY <1>5, <2>1 DEF One, Exists
  <2>3. ASSUME NEW a \in HostFiles, NEW b \in HostFiles, a # b, NameOf(a) = NameOf(b),
               NameOf(a) \notin raced \cup copied, disk'[b] # NoFile, x = PublishStep(a)
        PROVE  FALSE
    <3>1. x.op = "publish" /\ PublishStep(a) \in ToSet(s)
      BY <1>0, <2>3, Kinds
    <3>2. disk[b] # NoFile
      BY <1>6, <2>3, <3>1, Kinds
    <3>3. QED
      BY <1>5, <2>3, <3>1, <3>2 DEF OneToCome, Exists
  <2>4. ASSUME NEW a \in HostFiles, NEW b \in HostFiles, a # b, NameOf(a) = NameOf(b),
               NameOf(a) \notin raced \cup copied, disk'[b] # NoFile, x.op = "move", x.to = a
        PROVE  FALSE
    <3>1. disk[b] # NoFile /\ f # b
      BY <1>2, <1>6, <2>4, Kinds
    <3>2. disk[f] # NoFile /\ f \in HostFiles /\ NameOf(f) = NameOf(b)
      BY <1>2, <2>4 DEF DiskAfter
    <3>3. QED
      BY <1>5, <2>4, <3>1, <3>2 DEF One, Exists
  <2>5. QED
    BY <1>6, <2>1, <2>2, <2>3, <2>4
<1>8. ASSUME NEW u \in Thread \ {t} PROVE OneWrite(job'[u].steps) /\ OneToCome(job[u].steps)'
  <2>1. job'[u].steps = job[u].steps
    BY DEF JobsAfter
  <2>2. OneWrite(job[u].steps) /\ OneToCome(job[u].steps)
    BY DEF FilesInv
  <2>3. ASSUME NEW g \in HostFiles, PublishStep(g) \in ToSet(job[u].steps), NameOf(g) \notin raced \cup copied,
               NEW h \in HostFiles, NameOf(h) = NameOf(g)
        PROVE  disk'[h] = disk[h]
    <3>1. f \in HostFiles => NameOf(f) # NameOf(g)
      BY <1>0, <1>3, <2>3, Kinds, NotTouched
    <3>2. QED
      BY <1>0, <1>3, <2>3, <3>1, HostFilesKept
  <2>4. QED
    BY <1>1, <2>1, <2>2, <2>3 DEF OneToCome, Exists
<1>9. OneWrite(r)
  <2>1. \A y \in ToSet(r) : y \in ToSet(s)
    BY <1>0, Popped
  <2>2. ASSUME NEW i \in 1..Len(r) PROVE r[i].op # "move"
    <3>1. Len(r) = Len(s) - 1 /\ Len(s) \in Nat /\ \A k \in 1..(Len(s) - 1) : r[k] = s[k + 1]
      BY <1>0, Popped
    <3>2. i + 1 \in 2..Len(s) /\ r[i] = s[i + 1]
      BY <3>1
    <3>3. QED
      BY <1>5, <3>2 DEF OneWrite
  <2>3. Len(r) \in Nat /\ (r # <<>> => 1 \in 1..Len(r)) /\ \A i \in 2..Len(r) : i \in 1..Len(r)
    BY <1>0
  <2>4. QED
    BY <1>5, <2>1, <2>2, <2>3 DEF OneWrite
<1>10. OneToCome(job[t].steps)'
  <2>1. job'[t].steps = r /\ \A y \in ToSet(r) : y \in ToSet(s)
    BY <1>0, Popped DEF JobsAfter
  <2>2. SUFFICES ASSUME NEW g \in HostFiles, PublishStep(g) \in ToSet(r), NameOf(g) \notin raced \cup copied,
                        NEW h \in HostFiles, NameOf(h) = NameOf(g), disk'[h] # NoFile
                 PROVE  h = g
    BY <1>1, <2>1 DEF OneToCome, Exists
  <2>3. PublishStep(g) \in ToSet(s)
    BY <2>1, <2>2
  <2>4. CASE x.op = "move"
    <3>1. x.to = g
      BY <1>0, <1>5, <2>3, <2>4 DEF OneWrite
    <3>2. disk[f] # NoFile /\ f \in HostFiles /\ NameOf(f) = NameOf(g)
      BY <1>2, <2>4, <3>1 DEF DiskAfter
    <3>3. disk'[g] # NoFile
      BY <2>4, <3>1, <3>2 DEF DiskAfter
    <3>4. QED
      BY <1>1, <1>7, <2>2, <3>3 DEF One, Exists
  <2>5. CASE x.op # "move"
    <3>1. \A k \in HostFiles : NameOf(k) = NameOf(g) /\ disk[k] # NoFile => k = g
      BY <1>5, <2>2, <2>3, <2>5 DEF OneToCome, Exists
    <3>2. disk[h] # NoFile \/ x = PublishStep(h)
      BY <1>6, <2>2, <2>5
    <3>3. x = PublishStep(h) => h = g
      BY <1>0, <1>5, <2>2, <2>3 DEF OneWrite
    <3>4. QED
      BY <2>2, <3>1, <3>2, <3>3
  <2>6. QED
    BY <2>4, <2>5
<1>11. job'[t].steps = r
  BY DEF JobsAfter
<1>12. QED
  BY <1>7, <1>8, <1>9, <1>10, <1>11 DEF FilesInv, OneWrite

\* A list that is about the files of the application writes no host file.
LEMMA NoHostSteps ==
  ASSUME NEW s, s \in Seq(StepSet), \A x \in ToSet(s) : x.op # "move" /\ x.file \notin HostFiles
  PROVE  OneWrite(s) /\ \A f \in HostFiles : PublishStep(f) \notin ToSet(s)
<1>1. \A f \in HostFiles : PublishStep(f) \notin ToSet(s)
  BY Kinds
<1>2. \A i \in 1..Len(s) : s[i] \in ToSet(s)
  BY DEF ToSet
<1>3. Len(s) \in Nat /\ (\A i \in 2..Len(s) : i \in 1..Len(s)) /\ (s # <<>> => 1 \in 1..Len(s))
  OBVIOUS
<1>4. QED
  BY <1>1, <1>2, <1>3 DEF OneWrite

LEMMA IdleFiles == OneWrite(<<>>) /\ \A f \in HostFiles : PublishStep(f) \notin ToSet(<<>>)
<1>1. <<>> \in Seq(StepSet)
  OBVIOUS
<1>2. QED
  BY <1>1, NoSteps, NoHostSteps

LEMMA BeginFiles ==
  ASSUME DiskInv, FilesInv, NEW t \in Thread, NEW id, NEW s, NEW goal, Planned(t, id, s, goal), Begin(t, id, s, goal),
         Intended(id, s, goal)
  PROVE  FilesInv'
<1>1. /\ \A u \in Thread \ {t} : job'[u] = job[u]
      /\ job'[t].steps = s /\ UNCHANGED <<disk, copied>> /\ raced \subseteq raced'
  BY BegunJob
<1>2. One'
  BY <1>1 DEF FilesInv, One, Exists
<1>3. ASSUME NEW u \in Thread PROVE OneWrite(job'[u].steps) /\ OneToCome(job[u].steps)'
  <2>1. OneWrite(job'[u].steps) /\ OneToCome(job'[u].steps)
    BY <1>1 DEF FilesInv, Intended
  <2>2. QED
    BY <1>1, <2>1 DEF OneToCome, Exists
<1>4. QED
  BY <1>2, <1>3 DEF FilesInv, OneWrite

LEMMA BootFiles ==
  ASSUME DiskInv, FilesInv, Boot
  PROVE  FilesInv'
<1> DEFINE s == EnsureLayout
<1>1. /\ \A u \in Thread \ {Main} : job'[u] = job[u] /\ job[u] = Idle
      /\ job'[Main].steps = s
  BY BootJob
<1>2. UNCHANGED <<disk, raced, copied>>
  BY DEF Boot
<1>3. s \in Seq(StepSet) /\ \A x \in ToSet(s) : x.file \in Base /\ x.op \notin {"remove", "move"}
  BY LayoutPlan DEF Program
<1>4. OneWrite(s) /\ \A f \in HostFiles : PublishStep(f) \notin ToSet(s)
  BY <1>3, BaseFiles, NoHostSteps
<1> HIDE DEF s
<1>5. One'
  BY <1>2 DEF FilesInv, One, Exists
<1>6. ASSUME NEW u \in Thread PROVE OneWrite(job'[u].steps) /\ OneToCome(job[u].steps)'
  <2>1. CASE u = Main
    BY <1>1, <1>4, <2>1 DEF OneToCome
  <2>2. CASE u # Main
    <3>1. job'[u].steps = <<>>
      BY <1>1, <2>2, JobShape
    <3>2. QED
      BY <3>1, IdleFiles DEF OneToCome
  <2>3. QED
    BY <2>1, <2>2
<1>7. QED
  BY <1>5, <1>6 DEF FilesInv, OneWrite

LEMMA EndFiles ==
  ASSUME DiskInv, FilesInv, Ends
  PROVE  FilesInv'
<1>1. (\A u \in Thread : job'[u] \in {job[u], Idle}) /\ UNCHANGED <<disk, raced, copied>>
  BY DEF Ends
<1>2. One'
  BY <1>1 DEF FilesInv, One, Exists
<1>3. ASSUME NEW u \in Thread PROVE OneWrite(job'[u].steps) /\ OneToCome(job[u].steps)'
  <2>1. CASE job'[u] = job[u]
    BY <1>1, <2>1 DEF FilesInv, OneToCome, Exists
  <2>2. CASE job'[u] = Idle
    <3>1. job'[u].steps = <<>>
      BY <2>2, JobShape
    <3>2. QED
      BY <3>1, IdleFiles DEF OneToCome
  <2>3. QED
    BY <1>1, <2>1, <2>2
<1>4. QED
  BY <1>2, <1>3 DEF FilesInv, OneWrite

\* The files of a host whose name is not the user's are as they were.
LEMMA HandedFiles ==
  ASSUME Typed, Handed
  PROVE  /\ copied \subseteq copied' /\ UNCHANGED <<temp, job, running, commands, failures, raced>>
         /\ \A h \in HostFiles : NameOf(h) \notin copied' => disk'[h] = disk[h]
         /\ \A h \in File \ HostFiles : disk'[h] = disk[h]
<1>1. disk \in [File -> Contents]
  BY DEF Typed
<1>2. HostFiles \subseteq File
  BY FilesDiffer
<1>3. QED
  BY <1>1, <1>2 DEF Handed

LEMMA HandFiles ==
  ASSUME DiskInv, FilesInv, Handed
  PROVE  FilesInv'
<1>1. /\ copied \subseteq copied' /\ UNCHANGED <<job, raced>>
      /\ \A h \in HostFiles : NameOf(h) \notin copied' => disk'[h] = disk[h]
  BY HandedFiles DEF DiskInv
<1>2. One'
  <2>1. SUFFICES ASSUME NEW f \in HostFiles, NEW g \in HostFiles, f # g, NameOf(f) = NameOf(g),
                        disk'[f] # NoFile, disk'[g] # NoFile, NameOf(f) \notin raced \cup copied'
                 PROVE  FALSE
    BY <1>1 DEF One, Exists
  <2>2. disk[f] # NoFile /\ disk[g] # NoFile /\ NameOf(f) \notin copied
    BY <1>1, <2>1
  <2>3. QED
    BY <2>1, <2>2 DEF FilesInv, One, Exists
<1>3. ASSUME NEW u \in Thread PROVE OneToCome(job[u].steps)'
  <2>1. OneToCome(job[u].steps)
    BY DEF FilesInv
  <2>2. QED
    BY <1>1, <2>1 DEF OneToCome, Exists
<1>4. QED
  BY <1>1, <1>2, <1>3 DEF FilesInv, OneWrite

-----------------------------------------------------------------------------
(* What the commands are for.                                              *)

GoalsInv == \A t \in Thread : job[t].steps # <<>> => Goal(job[t].steps, job[t].host, job[t].goal)

\* A host's files that are gone stay gone, and the one that is to be removed is removed.
LEMMA DeletedKept ==
  ASSUME DiskInv, FilesInv, NEW t \in Thread, DiskStep(t), JobsAfter(t), DiskAfter(t),
         NEW goal, goal.file \in HostFiles, NEW n, n \notin raced, job[t].host = n, ForDeleted(job[t].steps, n, goal)
  PROVE  \/ RemoveStep(goal.file) \in ToSet(Tail(job[t].steps))
         \/ /\ disk'[goal.file] = NoFile
            /\ n \notin copied => \A g \in HostFiles : NameOf(g) = n => disk'[g] = NoFile
<1> DEFINE s == job[t].steps
           x == s[1]
           f == goal.file
<1>0. s # <<>> /\ x \in StepSet /\ x.file \in File /\ x \in ToSet(s) /\ s \in Seq(StepSet) /\ First(t) = x
  BY FirstStep DEF DiskStep, First, DiskInv
<1>1. ToSet(s) = {x} \cup ToSet(Tail(s))
  BY <1>0, Popped
<1>2. /\ NameOf(f) = n /\ x.op # "move" /\ (x.op = "publish" /\ x.file \in HostFiles => NameOf(x.file) # n)
      /\ \/ RemoveStep(f) \in ToSet(s)
         \/ ~ Exists(f) /\ (n \notin copied => \A g \in HostFiles : NameOf(g) = n => ~ Exists(g))
  BY <1>0 DEF ForDeleted
<1>3. HostFiles \subseteq File /\ f \in HostFiles
  BY FilesDiffer
<1>4. CASE x = RemoveStep(f)
  <2>1. disk'[f] = NoFile /\ disk[f] # NoFile /\ \A g \in HostFiles : g # f => disk'[g] = disk[g]
    BY <1>3, <1>4, Kinds DEF DiskAfter
  <2>2. ASSUME n \notin copied, NEW g \in HostFiles, NameOf(g) = n PROVE disk'[g] = NoFile
    BY <1>2, <1>3, <2>1, <2>2 DEF FilesInv, One, Exists
  <2>3. QED
    BY <2>1, <2>2
<1>5. CASE x # RemoveStep(f) /\ RemoveStep(f) \in ToSet(s)
  BY <1>1, <1>5
<1>6. CASE RemoveStep(f) \notin ToSet(s)
  <2>1. ASSUME NEW g \in HostFiles, NameOf(g) = n, disk[g] = NoFile PROVE disk'[g] = NoFile
    <3>1. ~ Raced(g) /\ g \in File /\ x.op \in {"open", "fill", "publish", "remove"}
      BY <1>0, <1>2, <1>3, <2>1, StepShape DEF Raced
    <3>2. x.op = "publish" => x.file # g
      BY <1>2, <2>1
    <3>3. QED
      BY <1>0, <2>1, <3>1, <3>2 DEF DiskAfter
  <2>2. QED
    BY <1>2, <1>3, <1>6, <2>1 DEF Exists
<1>7. QED
  BY <1>4, <1>5, <1>6

LEMMA GoalShape ==
  ASSUME NEW goal \in GoalSet
  PROVE  /\ goal.kind \in {"none", "boot", "active", "deleted", "written"} \cup Key
         /\ goal.kind = "active" => goal.value \in Profile
         /\ goal.kind \in Key => goal.value \in Host \cup {Local, "vertical_left"}
         /\ goal.kind \in {"deleted", "written"} => goal.file \in HostFiles
         /\ goal.kind = "written" => goal.text \in Text(goal.file)
<1>1. CASE goal \in {NoGoal, [kind |-> "boot"]}
  BY <1>1 DEF NoGoal, Key
<1>2. CASE goal \in [kind : {"active"}, value : Profile]
  BY <1>2 DEF Key
<1>3. CASE goal \in [kind : Key, value : Host \cup {Local, "vertical_left"}]
  BY <1>3 DEF Key
<1>4. CASE goal \in [kind : {"deleted"}, file : HostFiles]
  BY <1>4 DEF Key
<1>5. ASSUME NEW f \in HostFiles, goal \in [kind : {"written"}, file : {f}, text : Text(f)]
      PROVE  goal.kind = "written" /\ goal.file = f /\ goal.text \in Text(f)
  BY <1>5
<1>6. QED
  BY <1>1, <1>2, <1>3, <1>4, <1>5 DEF GoalSet, Key

\* What a job is for does not change if it goes on to write the same, and what it has
\* already done stays as it is.
LEMMA GoalAfter ==
  ASSUME DiskInv, NEW u \in Thread, NEW s, NEW n, NEW goal \in GoalSet, Goal(s, n, goal),
         job'[u].host = n, job'[u].goal = goal,
         Last(job'[u].steps) = Last(s), ToSet(job'[u].steps) \subseteq ToSet(s),
         \A f \in File : ~ Raced(f) => Pending(job'[u].steps, temp', f) \subseteq Pending(s, temp, f),
         raced \subseteq raced',
         goal.kind \in Key =>
             State'.active = State.active /\ (Last(s) = PublishStep(MainFile) => disk'[Active] = disk[Active]),
         goal.kind = "deleted" /\ n \notin raced' =>
             \/ RemoveStep(goal.file) \in ToSet(job'[u].steps)
             \/ /\ disk'[goal.file] = NoFile
                /\ n \notin copied' => \A g \in HostFiles : NameOf(g) = n => disk'[g] = NoFile
  PROVE  Goal(job[u].steps, job[u].host, job[u].goal)'
<1> DEFINE r == job'[u].steps
<1>1. Typed /\ Whole
  BY DEF DiskInv
<1>2. StateFile \in File /\ ~ Raced(StateFile) /\ MainFile \in File /\ ~ Raced(MainFile) /\ HostFiles \subseteq File
  BY FilesDiffer DEF Raced
<1>3. Active \in File /\ ~ Raced(Active) /\ Active = ProfileFile(State.active) /\ Active # MainFile /\ Active # StateFile
  <2>1. State.active \in Profile /\ Active = ProfileFile(State.active)
    BY <1>1, Readings
  <2>2. QED
    BY <2>1, FilesDiffer DEF Raced
<1>4. goal.kind = "active" => ForActive(job[u].steps, job[u].goal)'
  BY <1>2 DEF Goal, ForActive
<1>5. ASSUME goal.kind \in Key PROVE ForKey(job[u].steps, job[u].goal)'
  <2>1. PICK f \in {Active, MainFile} :
          /\ Last(s) = PublishStep(f)
          /\ f = MainFile => SettingsOf(Active)[goal.kind] = Unset
          /\ \A c \in Pending(s, temp, f) : c.settings[goal.kind] = goal.value
          /\ \A x \in ToSet(s) : x.op \notin {"remove", "move"} /\ x.file \in {StateFile, f}
          /\ \A c \in Pending(s, temp, StateFile) : c.active = State.active
    BY <1>5 DEF Goal, ForKey
  <2>2. Active' = Active /\ State'.active = State.active
    BY <1>5 DEF Active
  <2>3. f = MainFile => disk'[Active] = disk[Active]
    BY <1>5, <2>1
  <2>4. f = MainFile => SettingsOf(Active)'[goal.kind] = Unset
    BY <2>1, <2>2, <2>3 DEF SettingsOf, Exists
  <2>5. \A c \in Pending(r, temp', f) : c.settings[goal.kind] = goal.value
    BY <1>2, <1>3, <2>1
  <2>6. \A c \in Pending(r, temp', StateFile) : c.active = State'.active
    BY <1>2, <2>1, <2>2
  <2>7. f \in {Active', MainFile}
    BY <2>2
  <2>8. \A x \in ToSet(r) : x.op \notin {"remove", "move"} /\ x.file \in {StateFile, f}
    BY <2>1
  <2>9. QED
    BY <2>1, <2>4, <2>5, <2>6, <2>7, <2>8 DEF ForKey
<1>6. ASSUME goal.kind = "written" PROVE ForWritten(job[u].steps, job[u].host, job[u].goal)'
  <2>1. ForWritten(s, n, goal) /\ goal.file \in HostFiles
    BY <1>6, GoalShape DEF Goal
  <2>2. n \notin raced => ~ Raced(goal.file)
    BY <2>1 DEF ForWritten, Raced
  <2>3. n \notin raced' => \A c \in Pending(r, temp', goal.file) : c = goal.text
    BY <1>2, <2>1, <2>2 DEF ForWritten
  <2>4. QED
    BY <2>1, <2>3 DEF ForWritten
<1>7. ASSUME goal.kind = "deleted" PROVE ForDeleted(job[u].steps, job[u].host, job[u].goal)'
  BY <1>7 DEF Goal, ForDeleted, Exists
<1>8. QED
  BY <1>4, <1>5, <1>6, <1>7 DEF Goal

LEMMA StepGoals ==
  ASSUME DiskInv, FilesInv, GoalsInv, NEW t \in Thread, DiskStep(t), JobsAfter(t), DiskAfter(t)
  PROVE  GoalsInv'
<1>1. Typed /\ Owners /\ Lists /\ Whole /\ Layout
  BY DEF DiskInv
<1>2. SUFFICES ASSUME NEW u \in Thread, job'[u].steps # <<>> PROVE Goal(job[u].steps, job[u].host, job[u].goal)'
  BY DEF GoalsInv
<1> DEFINE s == job[u].steps
           n == job[u].host
           goal == job[u].goal
           x == First(t)
<1>3. /\ job'[u].host = n /\ job'[u].goal = goal /\ s # <<>> /\ ToSet(job'[u].steps) \subseteq ToSet(s)
  BY <1>1, <1>2, HostsKept
<1>4. Goal(s, n, goal) /\ goal \in GoalSet /\ s \in Seq(StepSet)
  BY <1>1, <1>3, JobShape DEF GoalsInv, Typed
<1>5. UNCHANGED <<raced, copied>>
  BY DEF DiskStep, Counted
<1>6. x \in StepSet /\ x \in ToSet(job[t].steps) /\ x = job[t].steps[1] /\ job[t].steps # <<>>
  BY <1>1, FirstStep DEF DiskStep, First
<1>7. Last(job'[u].steps) = Last(s)
  <2>1. CASE u = t
    <3>1. job'[u].steps = Tail(s) /\ Tail(s) # <<>>
      BY <1>2, <2>1 DEF JobsAfter
    <3>2. Tail(s)[Len(Tail(s))] = s[Len(s)]
      BY <1>3, <1>4, <3>1, Popped
    <3>3. QED
      BY <3>1, <3>2 DEF Last
  <2>2. CASE u # t
    BY <2>2 DEF JobsAfter
  <2>3. QED
    BY <2>1, <2>2
<1>8. \A f \in File : ~ Raced(f) => Pending(job'[u].steps, temp', f) \subseteq Pending(s, temp, f)
  BY <1>1, PendingKept
<1>9. goal.kind # "none" => u = Main
  BY <1>1, JobShape DEF Layout, Thread
<1>10. ASSUME goal.kind \in Key
       PROVE  State'.active = State.active /\ (Last(s) = PublishStep(MainFile) => disk'[Active] = disk[Active])
  <2>1. PICK f \in {Active, MainFile} :
          /\ Last(s) = PublishStep(f)
          /\ \A y \in ToSet(s) : y.op \notin {"remove", "move"} /\ y.file \in {StateFile, f}
          /\ \A c \in Pending(s, temp, StateFile) : c.active = State.active
    BY <1>4, <1>10 DEF Goal, ForKey
  <2>2. u = Main
    BY <1>9, <1>10 DEF Key
  <2>3. State'.active = State.active
    BY <1>1, <2>1, <2>2, StateAfter
  <2>4. ASSUME Last(s) = PublishStep(MainFile) PROVE disk'[Active] = disk[Active]
    <3>1. f = MainFile
      <4>1. PublishStep(f) = PublishStep(MainFile)
        BY <2>1, <2>4
      <4>2. PublishStep(f).file = f /\ PublishStep(MainFile).file = MainFile
        BY Kinds
      <4>3. QED
        BY <4>1, <4>2
    <3>2. State.active \in Profile /\ Active = ProfileFile(State.active)
      BY <1>1, Readings
    <3>3. Active \in File \ HostFiles /\ Active # MainFile /\ Active # StateFile
      BY <3>2, FilesDiffer
    <3>4. t = Main => x.file # Active
      BY <1>6, <2>1, <2>2, <3>1, <3>3
    <3>5. QED
      BY <1>1, <3>3, <3>4, AppFiles, Kinds
  <2>5. QED
    BY <2>3, <2>4
<1>11. ASSUME goal.kind = "deleted", n \notin raced'
       PROVE  \/ RemoveStep(goal.file) \in ToSet(job'[u].steps)
              \/ /\ disk'[goal.file] = NoFile
                 /\ n \notin copied' => \A g \in HostFiles : NameOf(g) = n => disk'[g] = NoFile
  <2>1. ForDeleted(s, n, goal) /\ goal.file \in HostFiles /\ NameOf(goal.file) = n /\ n \notin raced
    BY <1>4, <1>5, <1>11, GoalShape DEF Goal, ForDeleted
  <2>2. CASE u = t
    <3>1. job'[u].steps = Tail(job[t].steps)
      BY <2>2 DEF JobsAfter
    <3>2. ForDeleted(job[t].steps, n, goal) /\ job[t].host = n
      BY <2>1, <2>2
    <3>3. QED
      BY <1>5, <2>1, <3>1, <3>2, DeletedKept
  <2>3. CASE u # t
    <3>1. job'[u].steps = s
      BY <2>3 DEF JobsAfter
    <3>2. x.file \in HostFiles => NameOf(x.file) # n
      BY <1>1, <2>1, <2>3, NotTouched
    <3>3. \A g \in HostFiles : NameOf(g) = n => disk'[g] = disk[g]
      BY <1>1, <2>1, <3>2, HostFilesKept
    <3>4. QED
      BY <1>5, <2>1, <3>1, <3>3 DEF ForDeleted, Exists
  <2>4. QED
    BY <2>2, <2>3
<1> HIDE DEF s, n, goal
<1>12. QED
  BY <1>3, <1>4, <1>5, <1>7, <1>8, <1>10, <1>11, GoalAfter

\* Nor does it while the disk is as it was, but for what the user does to hosts that have
\* files and were not his before.
LEMMA GoalStays ==
  ASSUME DiskInv, NEW u \in Thread, NEW s, NEW n, NEW goal \in GoalSet, Goal(s, n, goal),
         job'[u].steps = s, job'[u].host = n, job'[u].goal = goal, temp' = temp,
         raced \subseteq raced', copied \subseteq copied',
         \A h \in File \ HostFiles : disk'[h] = disk[h],
         \A m : (m \in copied \/ \A g \in HostFiles : NameOf(g) = m => disk[g] = NoFile)
                => \A g \in HostFiles : NameOf(g) = m => disk'[g] = disk[g]
  PROVE  Goal(job[u].steps, job[u].host, job[u].goal)'
<1>1. State' = State /\ disk'[Active] = disk[Active]
  <2>1. StateFile \in File \ HostFiles /\ Active \in File \ HostFiles
    <3>1. State.active \in Profile /\ Active = ProfileFile(State.active)
      BY Readings DEF DiskInv
    <3>2. QED
      BY <3>1, FilesDiffer
  <2>2. QED
    BY <2>1 DEF State, Exists
<1>2. ASSUME goal.kind = "deleted", n \notin raced'
      PROVE  \/ RemoveStep(goal.file) \in ToSet(job'[u].steps)
             \/ /\ disk'[goal.file] = NoFile
                /\ n \notin copied' => \A g \in HostFiles : NameOf(g) = n => disk'[g] = NoFile
  <2>1. ForDeleted(s, n, goal) /\ goal.file \in HostFiles /\ NameOf(goal.file) = n /\ n \notin raced
    BY <1>2, GoalShape DEF Goal, ForDeleted
  <2>2. SUFFICES ASSUME RemoveStep(goal.file) \notin ToSet(s)
                 PROVE  /\ disk'[goal.file] = NoFile
                        /\ n \notin copied' => \A g \in HostFiles : NameOf(g) = n => disk'[g] = NoFile
    OBVIOUS
  <2>3. disk[goal.file] = NoFile /\ (n \notin copied => \A g \in HostFiles : NameOf(g) = n => disk[g] = NoFile)
    BY <2>1, <2>2 DEF ForDeleted, Exists
  <2>4. \A g \in HostFiles : NameOf(g) = n => disk'[g] = disk[g]
    BY <2>3
  <2>5. QED
    BY <2>1, <2>3, <2>4
<1>3. Last(job'[u].steps) = Last(s) /\ ToSet(job'[u].steps) \subseteq ToSet(s)
      /\ \A f \in File : Pending(job'[u].steps, temp', f) \subseteq Pending(s, temp, f)
  OBVIOUS
<1>4. QED
  BY <1>1, <1>2, <1>3, GoalAfter

LEMMA BeginGoals ==
  ASSUME DiskInv, GoalsInv, NEW t \in Thread, NEW id, NEW s, NEW goal, Planned(t, id, s, goal), Begin(t, id, s, goal),
         Intended(id, s, goal)
  PROVE  GoalsInv'
<1>1. /\ job' \in [Thread -> Jobs] /\ \A u \in Thread \ {t} : job'[u] = job[u]
      /\ job'[t].steps = s /\ job'[t].host = id /\ job'[t].goal = goal
      /\ UNCHANGED <<disk, temp, copied>> /\ raced \subseteq raced'
  BY BegunJob
<1>2. ASSUME NEW u \in Thread, job'[u].steps # <<>> PROVE Goal(job[u].steps, job[u].host, job[u].goal)'
  <2>1. Goal(job'[u].steps, job'[u].host, job'[u].goal)
    BY <1>1, <1>2 DEF GoalsInv, Intended
  <2>2. job'[u].goal \in GoalSet
    BY <1>1, JobShape
  <2>3. QED
    BY <1>1, <2>1, <2>2, GoalStays
<1>3. QED
  BY <1>2 DEF GoalsInv

LEMMA BootGoals ==
  ASSUME DiskInv, Boot
  PROVE  GoalsInv'
<1>1. /\ \A u \in Thread \ {Main} : job'[u] = job[u] /\ job[u] = Idle
      /\ job'[Main].goal \in {NoGoal, [kind |-> "boot"]}
  BY BootJob
<1>2. \A u \in Thread : job'[u].goal.kind \in {"none", "boot"}
  BY <1>1, JobShape
<1>3. QED
  BY <1>2 DEF GoalsInv, Goal, Key

LEMMA EndGoals ==
  ASSUME DiskInv, GoalsInv, Ends
  PROVE  GoalsInv'
<1>1. /\ job' \in [Thread -> Jobs] /\ (\A u \in Thread : job'[u] \in {job[u], Idle})
      /\ UNCHANGED <<disk, temp, raced, copied>>
  BY DEF Ends
<1>2. ASSUME NEW u \in Thread, job'[u].steps # <<>> PROVE Goal(job[u].steps, job[u].host, job[u].goal)'
  <2>1. job'[u] = job[u]
    BY <1>1, <1>2, JobShape
  <2>2. Goal(job[u].steps, job[u].host, job[u].goal) /\ job'[u].goal \in GoalSet
    BY <1>1, <1>2, <2>1, JobShape DEF GoalsInv
  <2>3. QED
    BY <1>1, <2>1, <2>2, GoalStays
<1>3. QED
  BY <1>2 DEF GoalsInv

LEMMA HandGoals ==
  ASSUME DiskInv, GoalsInv, Handed
  PROVE  GoalsInv'
<1>1. /\ copied \subseteq copied' /\ UNCHANGED <<temp, job, running, commands, failures, raced>>
      /\ \A h \in File \ HostFiles : disk'[h] = disk[h]
  BY HandedFiles DEF DiskInv
<1>2. ASSUME NEW m, m \in copied \/ \A g \in HostFiles : NameOf(g) = m => disk[g] = NoFile,
             NEW h \in HostFiles, NameOf(h) = m
      PROVE  disk'[h] = disk[h]
  <2>1. PICK f \in HostFiles, g \in HostFiles, c \in Contents :
          /\ Readable(f) /\ NameOf(f) = NameOf(g) /\ disk' = [disk EXCEPT ![g] = c] /\ NameOf(f) \notin copied
    BY DEF Handed
  <2>2. disk[f] # NoFile
    <3>1. disk[f].kind = "host"
      BY <2>1 DEF Readable
    <3>2. QED
      BY <3>1, SpoiltShape DEF Spoilt
  <2>3. h # g
    BY <1>2, <2>1, <2>2
  <2>4. disk \in [File -> Contents] /\ h \in File
    BY FilesDiffer DEF DiskInv, Typed
  <2>5. QED
    BY <2>1, <2>3, <2>4
<1>3. ASSUME NEW u \in Thread, job'[u].steps # <<>> PROVE Goal(job[u].steps, job[u].host, job[u].goal)'
  <2>1. Goal(job[u].steps, job[u].host, job[u].goal) /\ job[u].goal \in GoalSet /\ job' = job
    BY <1>1, <1>3, JobShape DEF GoalsInv, DiskInv, Typed
  <2>2. QED
    BY <1>1, <1>2, <2>1, GoalStays
<1>4. QED
  BY <1>3 DEF GoalsInv

-----------------------------------------------------------------------------
(* The invariant of every reachable state.                                 *)

Inv == DiskInv /\ Safe /\ FilesInv /\ GoalsInv

LEMMA StepInv ==
  ASSUME Inv, NEW t \in Thread, DiskStep(t)
  PROVE  Inv'
<1>1. Typed /\ Owners /\ Lists /\ Whole /\ Layout /\ DiskInv /\ Safe /\ FilesInv /\ GoalsInv
  BY DEF Inv, DiskInv
<1>2. JobsAfter(t)
  BY <1>1, StepJobs
<1>3. DiskAfter(t)
  BY <1>1, StepDisk
<1>4. Typed'
  BY <1>1, <1>2, <1>3, StepTyped
<1>5. Owners'
  BY <1>1, <1>2, <1>3, StepOwners
<1>6. Lists'
  BY <1>1, <1>2, <1>3, StepLists
<1>7. Whole'
  BY <1>1, <1>3, StepWhole
<1>8. Layout'
  BY <1>1, <1>2, <1>3, <1>4, StepLayout
<1>9. DiskInv'
  BY <1>4, <1>5, <1>6, <1>7, <1>8 DEF DiskInv
<1>10. Safe'
  BY <1>1, <1>2, <1>3, <1>9, StepSafe
<1>11. FilesInv'
  BY <1>1, <1>2, <1>3, StepFiles
<1>12. GoalsInv'
  BY <1>1, <1>2, <1>3, StepGoals
<1>13. QED
  BY <1>9, <1>10, <1>11, <1>12 DEF Inv

LEMMA NextInv ==
  ASSUME Inv, [Next]_vars
  PROVE  Inv'
<1>1. Typed /\ Whole /\ One /\ DiskInv /\ Safe /\ FilesInv /\ GoalsInv
  BY DEF Inv, DiskInv, FilesInv
<1>2. CASE Boot
  BY <1>1, <1>2, BootKeeps, BootSafe, BootFiles, BootGoals DEF Inv
<1>3. CASE Quit \/ Crash \/ \E t \in Thread : Fails(t)
  <2>1. Ends
    BY <1>1, <1>3, Ending
  <2>2. QED
    BY <1>1, <2>1, EndKeeps, EndSafe, EndFiles, EndGoals DEF Inv
<1>4. CASE Commands \/ \E w \in Worker : UpdatePortForwards(w, WorkerHost[w], "assigned")
  <2>1. PICK t \in Thread : Started(t)
    BY <1>1, <1>4, Planning
  <2>2. PICK id, s, goal : Planned(t, id, s, goal) /\ Begin(t, id, s, goal) /\ Intended(id, s, goal)
    BY <2>1 DEF Started
  <2>3. DiskInv'
    BY <1>1, <2>2, BeginKeeps
  <2>4. Safe'
    BY <1>1, <2>2, BeginSafe
  <2>5. FilesInv'
    BY <1>1, <2>2, BeginFiles
  <2>6. GoalsInv'
    BY <1>1, <2>2, BeginGoals
  <2>7. QED
    BY <2>3, <2>4, <2>5, <2>6 DEF Inv
<1>5. ASSUME NEW t \in Thread, DiskStep(t) PROVE Inv'
  BY <1>5, StepInv
<1>6. CASE \E f \in HostFiles : UserSpoils(f) \/ \E g \in HostFiles : UserCopies(f, g)
  <2>1. Handed
    BY <1>1, <1>6, Handing
  <2>2. QED
    BY <1>1, <2>1, HandKeeps, HandSafe, HandFiles, HandGoals DEF Inv
<1>7. CASE UNCHANGED vars
  <2>1. UNCHANGED <<disk, temp, job, running, commands, failures, raced, copied>>
    BY <1>7 DEF vars
  <2>2. Ends
    BY <1>1, <2>1 DEF Ends, Booting, DiskInv, Typed, Layout
  <2>3. QED
    BY <1>1, <2>2, EndKeeps, EndSafe, EndFiles, EndGoals DEF Inv
<1>8. QED
  BY <1>2, <1>3, <1>4, <1>5, <1>6, <1>7 DEF Next

LEMMA InitInv ==
  ASSUME Init
  PROVE  Inv
<1>1. /\ disk = [f \in File |-> disk[f]]
      /\ \A f \in File : disk[f] \in Text(f) \cup {NoFile}
      /\ \A f, g \in HostFiles : f # g /\ NameOf(f) = NameOf(g) => NoFile \in {disk[f], disk[g]}
  BY ConfigDataAssumption DEF Init, ConfigDataAssumption
<1>2. /\ temp = [f \in File |-> NoFile] /\ job = [t \in Thread |-> Idle]
      /\ running = FALSE /\ commands = 0 /\ failures = 0 /\ raced = {} /\ copied = {}
  BY DEF Init
<1>3. /\ \A t \in Thread : /\ job[t] = Idle /\ job[t].steps = <<>> /\ job[t].host = NoHost /\ job[t].goal = NoGoal
      /\ Main \in Thread /\ \A w \in Worker : w \in Thread
  BY <1>2, JobShape DEF Thread
<1>4. ~ Booting
  BY <1>3, JobShape DEF Booting
<1>5. Typed
  <2>1. \A f \in File : disk[f] \in Contents /\ NoFile \in Contents
    BY <1>1, ContentsShape DEF Spoilt
  <2>2. disk \in [File -> Contents] /\ temp \in [File -> Contents]
    BY <1>1, <1>2, <2>1
  <2>3. \A f \in File : disk[f] \in Text(f) \cup Spoilt /\ temp[f] \in Text(f) \cup Spoilt
    BY <1>1, <1>2 DEF Spoilt
  <2>4. job \in [Thread -> Jobs]
    BY <1>2, JobShape
  <2>5. 0 \in 0..MaxCommand /\ 0 \in 0..MaxFailure
    BY ConfigFilesAssumption DEF ConfigFilesAssumption
  <2>6. QED
    BY <1>2, <1>3, <2>2, <2>3, <2>4, <2>5 DEF Typed
<1>6. Owners
  <2>1. \A s, n : s = <<>> => ThenOld(s, n)
    BY DEF ThenOld
  <2>2. QED
    BY <1>3, <2>1, NoSteps DEF Owners
<1>7. Lists
  BY <1>3, NoSteps DEF Lists, Program
<1>8. Whole
  BY <1>1, TextIsWhole DEF Whole, NoFile, Blank, Torn, Spoilt
<1>9. Layout
  BY <1>2, <1>3, <1>4 DEF Layout
<1>10. Safe
  BY <1>2, <1>3, <1>4, NoSteps, NothingPending DEF Safe, Targets, Removes
<1>11. FilesInv
  <2>1. One
    BY <1>1 DEF One, Exists
  <2>2. QED
    BY <1>3, <2>1, IdleFiles DEF FilesInv, OneToCome
<1>12. GoalsInv
  BY <1>3 DEF GoalsInv
<1>13. QED
  BY <1>5, <1>6, <1>7, <1>8, <1>9, <1>10, <1>11, <1>12 DEF Inv, DiskInv

LEMMA Invariance == Spec => []Inv
<1>1. Init => Inv
  BY InitInv
<1>2. Inv /\ [Next]_vars => Inv'
  BY NextInv
<1>3. QED
  BY <1>1, <1>2, PTL DEF Spec

-----------------------------------------------------------------------------
(* Theorems.                                                               *)

LEMMA TypedIsTypeOK ==
  ASSUME Typed
  PROVE  TypeOK
<1>1. DOMAIN disk = File /\ DOMAIN temp = File /\ DOMAIN job = Thread
  BY DEF Typed
<1>2. \A f \in File : {disk[f], temp[f]} \subseteq Text(f) \cup {NoFile, Blank, Torn}
  BY DEF Typed, Spoilt
<1>3. ASSUME NEW t \in Thread
      PROVE  /\ job[t].steps = <<>> => job[t] = Idle
             /\ job[t].host \in Host \cup {Local, NoHost}
             /\ job[t].opened \in {<<>>} \cup File \cup {Temp(f) : f \in File}
  BY JobShape DEF Typed, Handles
<1>4. QED
  BY <1>1, <1>2, <1>3 DEF Typed, TypeOK

\* Every file holds a whole text of its kind, or is blank, torn or missing, and so does the
\* temporary file beside it; a job that is done keeps neither an open file nor a host
\* (write_atomic and the commands of config.rs).
THEOREM ConfigTypeCorrect == Spec => []TypeOK
<1>1. Inv => TypeOK
  BY TypedIsTypeOK DEF Inv, DiskInv
<1>2. QED
  BY <1>1, Invariance, PTL

\* Whatever step of a write fails, and wherever the application ends, a file that is blank
\* or torn is one of a host that a command and the port-forward worker wrote at a time; and
\* a running application that met no error has the file of its active profile between two
\* commands (write_atomic, ensure_config_layout, delete_profile).
THEOREM DiskStaysSound == Spec => []DiskIsSound
<1>1. ASSUME Inv PROVE DiskIsSound
  <2>1. TypeOK /\ WholeFiles
    BY <1>1, TypedIsTypeOK DEF Inv, DiskInv, Whole, WholeFiles, Raced
  <2>2. ActiveProfileExists
    <3>1. SUFFICES ASSUME running, job[Main] = Idle, failures = 0 PROVE Exists(Active)
      BY DEF ActiveProfileExists
    <3>2. ~ Booting /\ Pending(job[Main].steps, temp, StateFile) = {}
      BY <3>1, JobShape, NothingPending DEF Booting
    <3>3. QED
      BY <1>1, <3>1, <3>2 DEF Inv, Safe, Deferred
  <2>3. QED
    BY <2>1, <2>2 DEF DiskIsSound
<1>2. QED
  BY <1>1, Invariance, PTL

\* No create, move, repair or deletion of a host, and no interruption of one, leaves two
\* files with the id of a host whose file the user did not copy and no two threads wrote
\* at a time (create_connection_host, update_connection_host, repair_connection_host_id).
THEOREM HostsHaveOneFile == Spec => []OneFilePerHost
<1>1. ASSUME Inv PROVE OneFilePerHost
  <2>1. SUFFICES ASSUME NEW f \in HostFiles, NEW g \in HostFiles, f # g, Readable(f), Readable(g), disk[f].id = disk[g].id
                 PROVE  disk[f].id \in raced \cup copied
    BY DEF OneFilePerHost
  <2>2. disk[f] \in Text(f) /\ disk[g] \in Text(g)
    BY <1>1, <2>1, Readings DEF Inv, DiskInv
  <2>3. disk[f].id = NameOf(f) /\ disk[g].id = NameOf(g)
    BY <2>2, HostTextShape
  <2>4. Exists(f) /\ Exists(g)
    BY <2>2, FilesDiffer, TextIsWhole DEF Exists, Spoilt
  <2>5. QED
    BY <1>1, <2>1, <2>3, <2>4 DEF Inv, FilesInv, One
<1>2. QED
  BY <1>1, Invariance, PTL

\* The last step of a list leaves what the command is for.
LEMMA LastStep ==
  ASSUME Inv, NEW t \in Thread, DiskStep(t), Tail(job[t].steps) = <<>>, NEW goal, job[t].goal = goal
  PROVE  Met(goal)' \/ job[t].host \in raced
<1> DEFINE s == job[t].steps
           x == s[1]
           n == job[t].host
<1>1. Typed /\ Owners /\ Lists /\ Whole /\ Layout /\ DiskInv /\ FilesInv /\ GoalsInv
  BY DEF Inv, DiskInv
<1>2. s # <<>> /\ x \in StepSet /\ x \in ToSet(s) /\ s \in Seq(StepSet) /\ First(t) = x
  BY <1>1, FirstStep DEF DiskStep, First
<1>3. JobsAfter(t) /\ DiskAfter(t)
  BY <1>1, StepJobs, StepDisk
<1>4. Last(s) = x
  BY <1>2, Popped DEF Last
<1>5. Goal(s, n, goal) /\ goal \in GoalSet
  BY <1>1, <1>2, JobShape DEF GoalsInv, Typed
<1>6. goal.kind # "none" => t = Main
  BY <1>1, JobShape DEF Layout, Thread
<1>7. \A f \in File : ~ Raced(f) /\ x = PublishStep(f) => disk'[f] \in Pending(s, temp, f)
  BY <1>1, <1>2, <1>3, PendingKept
<1>8. StateFile \in File \ HostFiles /\ MainFile \in File \ HostFiles
  BY FilesDiffer
<1>9. State.active \in Profile /\ Active = ProfileFile(State.active)
  BY <1>1, Readings
<1>10. Active \in File \ HostFiles /\ Active # MainFile /\ Active # StateFile
  BY <1>9, FilesDiffer
<1>11. \A f, g : f # g => PublishStep(f) # PublishStep(g)
  BY DEF PublishStep
<1>12. ASSUME goal.kind = "active" PROVE Met(goal)'
  <2>1. x = PublishStep(StateFile) /\ \A c \in Pending(s, temp, StateFile) : c.active = goal.value
    BY <1>4, <1>5, <1>12 DEF Goal, ForActive
  <2>2. State' \in Pending(s, temp, StateFile)
    BY <1>1, <1>2, <1>3, <1>6, <1>12, <2>1, StateAfter
  <2>3. State'.active = goal.value
    BY <2>1, <2>2
  <2>4. QED
    BY <1>12, <2>3 DEF Met, Key
<1>13. ASSUME goal.kind \in Key PROVE Met(goal)'
  <2> DEFINE k == goal.kind
             v == goal.value
  <2>1. PICK f \in {Active, MainFile} :
          /\ Last(s) = PublishStep(f)
          /\ f = MainFile => SettingsOf(Active)[k] = Unset
          /\ \A c \in Pending(s, temp, f) : c.settings[k] = v
    BY <1>5, <1>13 DEF Goal, ForKey
  <2>2. t = Main /\ x = PublishStep(f) /\ f \in File \ HostFiles /\ ~ Raced(f)
    BY <1>4, <1>6, <1>8, <1>10, <1>13, <2>1 DEF Key, Raced
  <2>3. disk'[f] # NoFile /\ disk'[f].settings[k] = v
    <3>1. disk'[f] \in Pending(s, temp, f)
      BY <1>7, <2>2
    <3>2. disk'[f] \in Text(f)
      BY <1>1, <1>2, <1>3, <2>2, AppFiles, Kinds
    <3>3. QED
      BY <2>1, <2>2, <3>1, <3>2, TextIsWhole DEF Spoilt
  <2>4. State' = State
    <3>1. First(t) # PublishStep(StateFile)
      BY <1>2, <1>8, <1>10, <1>11, <2>1, <2>2, FilesDiffer
    <3>2. QED
      BY <1>1, <1>3, <3>1, StateAfter
  <2>5. Active' = Active
    BY <2>4 DEF Active
  <2>6. v # Unset
    BY <1>5, <1>13, GoalShape, ConfigFilesAssumption DEF ConfigFilesAssumption
  <2>7. SettingsOf(f)'[k] = v
    BY <2>3 DEF SettingsOf, Exists
  <2>8. CASE f = Active
    <3>1. SettingsOf(Active)'[k] = v
      BY <2>3, <2>5, <2>8 DEF SettingsOf, Exists
    <3>2. Effective(k)' = v
      BY <2>6, <3>1 DEF Effective
    <3>3. QED
      BY <1>13, <3>2 DEF Met, Key
  <2>9. CASE f = MainFile
    <3>1. disk'[Active] = disk[Active]
      <4>1. First(t) # PublishStep(Active) /\ First(t) # RemoveStep(Active)
        BY <1>2, <1>10, <1>11, <2>2, <2>9, Kinds
      <4>2. QED
        BY <1>1, <1>3, <1>10, <4>1, AppFiles
    <3>2. SettingsOf(Active)'[k] = Unset
      BY <2>1, <2>5, <2>9, <3>1 DEF SettingsOf, Exists
    <3>3. SettingsOf(MainFile)'[k] = v
      BY <2>3, <2>9 DEF SettingsOf, Exists
    <3>4. Effective(k)' = v
      BY <3>2, <3>3 DEF Effective
    <3>5. QED
      BY <1>13, <3>4 DEF Met, Key
  <2>10. QED
    BY <2>1, <2>8, <2>9
<1>14. ASSUME goal.kind = "deleted", n \notin raced PROVE Met(goal)'
  <2>1. ForDeleted(s, n, goal) /\ goal.file \in HostFiles
    BY <1>5, <1>14, GoalShape DEF Goal
  <2>2. RemoveStep(goal.file) \notin ToSet(Tail(s))
    BY NoSteps
  <2>3. disk'[goal.file] = NoFile
    BY <1>1, <1>3, <1>14, <2>1, <2>2, DeletedKept
  <2>4. QED
    BY <1>14, <2>3 DEF Met, Exists, Key
<1>15. ASSUME goal.kind = "written", n \notin raced PROVE Met(goal)'
  <2>1. ForWritten(s, n, goal) /\ goal.file \in HostFiles
    BY <1>5, <1>15, GoalShape DEF Goal
  <2>2. x = PublishStep(goal.file) /\ ~ Raced(goal.file) /\ \A c \in Pending(s, temp, goal.file) : c = goal.text
    BY <1>4, <1>15, <2>1 DEF ForWritten, Raced
  <2>3. disk'[goal.file] = goal.text
    BY <1>7, <2>1, <2>2, FilesDiffer
  <2>4. QED
    BY <1>15, <2>3 DEF Met, Key
<1>16. ASSUME goal.kind \in {"none", "boot"} PROVE Met(goal)'
  BY <1>16 DEF Met, Key
<1>17. QED
  BY <1>5, <1>12, <1>13, <1>14, <1>15, <1>16, GoalShape

\* A job is over without an error only by its last step.
LEMMA OverByStep ==
  ASSUME Inv, [Next]_vars, NEW t \in Thread, job[t].steps # <<>>, job'[t] = Idle, failures' = failures
  PROVE  DiskStep(t) /\ Tail(job[t].steps) = <<>>
<1>1. DiskInv /\ Typed /\ Whole /\ One /\ job \in [Thread -> Jobs] /\ failures \in 0..MaxFailure
  BY DEF Inv, DiskInv, Typed, FilesInv
<1>2. job'[t] # job[t] /\ job'[t].steps = <<>>
  BY JobShape
<1>3. failures' # failures + 1
  BY <1>1
<1>4. ~ Boot
  <2>1. SUFFICES ASSUME Boot PROVE FALSE
    OBVIOUS
  <2>2. job[t] = Idle
    BY <1>1, <2>1, BootJob DEF Boot
  <2>3. QED
    BY <2>2, JobShape
<1>5. ~ (Quit \/ Crash \/ \E u \in Thread : Fails(u))
  BY <1>2, <1>3 DEF Quit, Crash, Fails
<1>6. ~ (Commands \/ \E w \in Worker : UpdatePortForwards(w, WorkerHost[w], "assigned"))
  <2>1. SUFFICES ASSUME NEW u \in Thread, Started(u) PROVE FALSE
    BY <1>1, Planning
  <2>2. PICK id, s, goal : Planned(u, id, s, goal) /\ Begin(u, id, s, goal)
    BY <2>1 DEF Started
  <2>3. job[u] = Idle /\ \A v \in Thread \ {u} : job'[v] = job[v]
    BY <1>1, <2>2, BegunJob
  <2>4. QED
    BY <1>2, <2>3, JobShape
<1>7. ~ \E f \in HostFiles : UserSpoils(f) \/ \E g \in HostFiles : UserCopies(f, g)
  BY <1>2 DEF UserSpoils, UserCopies, UserChanges
<1>8. ~ UNCHANGED vars
  BY <1>2 DEF vars
<1>9. PICK u \in Thread : DiskStep(u)
  BY <1>4, <1>5, <1>6, <1>7, <1>8 DEF Next
<1>10. JobsAfter(u)
  BY <1>1, <1>9, StepJobs
<1>11. u = t
  BY <1>2, <1>10 DEF JobsAfter
<1>12. QED
  BY <1>2, <1>9, <1>10, <1>11 DEF JobsAfter

\* However many profiles and hosts there are: a command that reports success did what it
\* was asked for, in the documents as the application reads them, unless a port-forward
\* worker wrote the same host's file at a time (set_active_profile, write_effective_config_value,
\* create_, update_ and delete_connection_host, repair_connection_host_id).
THEOREM SuccessIsTrue == Spec => SucceedsOnlyIfDone
<1> DEFINE Done ==
      \A t \in Thread : \A goal \in {job[t].goal} :
         (job[t].steps # <<>> /\ job'[t] = Idle /\ failures' = failures)
             => Met(goal)' \/ job[t].host \in raced
<1>1. Inv /\ [Next]_vars => [Done]_vars
  <2> SUFFICES ASSUME Inv, [Next]_vars, NEW t \in Thread, NEW goal, job[t].goal = goal,
                      job[t].steps # <<>>, job'[t] = Idle, failures' = failures
               PROVE  Met(goal)' \/ job[t].host \in raced
    OBVIOUS
  <2>1. DiskStep(t) /\ Tail(job[t].steps) = <<>>
    BY OverByStep
  <2>2. QED
    BY <2>1, LastStep
<1>2. QED
  BY <1>1, Invariance, PTL DEF Spec, SucceedsOnlyIfDone
=============================================================================
