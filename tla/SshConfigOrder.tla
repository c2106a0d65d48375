--------------------------- MODULE SshConfigOrder ---------------------------
(***************************************************************************)
(* What the settings of an OpenSSH host should be: those that a reader     *)
(* finds who takes the lines of a file, and of the files it includes, in   *)
(* order.  OpenSshConfig collects sections and folds over them instead.    *)
(***************************************************************************)
EXTENDS OpenSshConfig

\* What ssh_config says: settings apply in the order in which they are read, Includes
\* where they stand, and the first value wins.  The code keeps to it for files that
\* include before anything else, have their Match sections last, and negate nothing.
RECURSIVE Expanded(_, _)
Expanded(f, below) ==
    IF f \in below \/ files[f] = Missing \/ Cardinality(below) > IncludeLimit THEN <<>>
    ELSE LET lines == files[f]
             At(i) == IF lines[i].kind = "include"
                      THEN FlattenSeq([j \in DOMAIN lines[i].paths |-> Expanded(lines[i].paths[j], below \cup {f})])
                           \o <<[kind |-> "end"]>>
                      ELSE <<lines[i]>>
         IN FlattenSeq([i \in DOMAIN lines |-> At(i)])
Plain(f) ==
    LET all == Expanded(f, {}) IN
    /\ \A g \in File : \A i, j \in DOMAIN files[g] :
          i < j /\ files[g][j].kind = "include" => files[g][i].kind = "include"
    /\ \A i, j \in DOMAIN all : i < j /\ all[i].kind = "match" => all[j].kind # "host"
    /\ \A i \in DOMAIN all : all[i].kind = "host" =>
          \A n \in DOMAIN all[i].patterns : ~ all[i].patterns[n].negated
    /\ \A i \in DOMAIN all : all[i].kind = "match" => \A j \in DOMAIN all : j > i => all[j].kind # "end"
ReadInOrder(f, a) ==
    LET Read(s, line) ==
            CASE line.kind = "host" -> [s EXCEPT !.active = HostApplies(Section(line), a)]
              [] line.kind = "match" -> [s EXCEPT !.active = MatchApplies(Section(line), a, s.settings)]
              [] line.kind = "end" -> [s EXCEPT !.active = TRUE]
              [] line.kind = "setting" /\ s.active -> [s EXCEPT !.settings = WithValue(@, line.key, line.value)]
              [] OTHER -> s
    IN FoldLeft(Read, [active |-> TRUE, settings |-> NoSettings], Expanded(f, {})).settings

FirstValueWins ==
    edited = 0 => \A e \in entries : Plain(e.file) => e.settings = ReadInOrder(e.file, e.alias)

\* A jump goes where the entry of the same name goes, as long as nobody writes the files.
JumpsAgreeWithEntries ==
    edited = 0 => \A h \in ToSet(hops) : \A e \in entries :
        e.alias = h.alias /\ (\A other \in entries : other.file = e.file)
            => [e.settings EXCEPT !["proxyjump"] = Unset] = h.settings

\* What a host or a jump gets is what the files say.
SettingsFollowFiles == FirstValueWins /\ JumpsAgreeWithEntries
=============================================================================
