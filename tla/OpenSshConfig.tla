--------------------------- MODULE OpenSshConfig ---------------------------
(***************************************************************************)
(* How OpenSSH configurations become hosts (config.rs): each configured    *)
(* file is read line by line, its Includes are read where they stand, and  *)
(* Host and Match sections are collected.  Then every concrete alias of a  *)
(* Host line becomes an entry, with the first value of each setting among  *)
(* the Host sections and then the Match sections that apply.  The jumps of *)
(* an entry are looked up in the same way when a connection is opened,     *)
(* from files that are read again.                                         *)
(*                                                                         *)
(* Others may write the files at any time; a file is read whole when it is *)
(* opened.  Omitted: comments, quotes, home directories and the expansion  *)
(* of wildcards: a pattern is the set of names it matches, an Include the  *)
(* files it names.                                                         *)
(***************************************************************************)
EXTENDS Naturals, Sequences, FiniteSets, SequencesExt

CONSTANTS File, Configured,   \* paths; the list of openssh_config_files
          Alias, Key, Unset,  \* "user" and "proxyjump" are keys that the code looks at
          Layouts, Edits,     \* what the files hold at first; what may be written: [file, lines]
          LocalUser,
          IncludeLimit,
          MaxEdit             \* bound

\* The lines that a file may hold at some time.
Lines == UNION {ToSet(l[f]) : l \in Layouts, f \in File} \cup UNION {ToSet(e.lines) : e \in Edits}

\* Paths are those of files, a setting has a name and a value, and no line is the absence of one.
ASSUME OpenSshConfigAssumption ==
    /\ Configured \in Seq(File) /\ {"user", "proxyjump"} \subseteq Key
    /\ IncludeLimit \in Nat /\ MaxEdit \in Nat
    /\ Layouts \subseteq [File -> Seq(Lines)]
    /\ \A e \in Edits : e.file \in File /\ e.lines \in Seq(Lines)
    /\ \A l \in Lines :
        /\ l.kind # "none"
        /\ l.kind = "include" => l.paths \in Seq(File)
        /\ l.kind = "setting" => l.key \in Key /\ l.value # Unset

VARIABLES files,    \* path -> lines, Missing or Unreadable
          reader,   \* what the files are read for
          frames,   \* the files that are being read, the included one last
          parsed,   \* the sections and the warnings so far
          entries,  \* the hosts of the files read so far
          hops,     \* what a connection found out about its jumps
          edited    \* how often files were written

openSshVars == <<files, reader, frames, parsed, entries, hops, edited>>

-----------------------------------------------------------------------------
(* Lines and sections.                                                     *)

\* A path that cannot be read as text: a directory, bytes that are not UTF-8, no permission.
Missing == <<[kind |-> "missing"]>>
Unreadable == <<[kind |-> "unreadable"]>>

\* One word of a Host line.
Pattern(names, negated, concrete) == [names |-> names, negated |-> negated, concrete |-> concrete]
Named(a) == Pattern({a}, FALSE, TRUE)
Everything == Pattern(Alias, FALSE, FALSE)

HostLine(patterns) == [kind |-> "host", patterns |-> patterns]
\* criteria: a set of [on, names]; unsupported: exec, or a criterion that is not known.
MatchLine(criteria, unsupported) == [kind |-> "match", criteria |-> criteria, unsupported |-> unsupported]
IncludeLine(paths) == [kind |-> "include", paths |-> paths]
SettingLine(k, v) == [kind |-> "setting", key |-> k, value |-> v]

NoSettings == [k \in Key |-> Unset]
NoSection == [line |-> [kind |-> "none"], settings |-> NoSettings]
Section(line) == [line |-> line, settings |-> NoSettings]
IsHost(section) == section.line.kind = "host"

NothingParsed == [hosts |-> <<>>, matches |-> <<>>, warnings |-> {}]

\* Only the first value of a key is ever used.
WithValue(settings, k, v) == IF settings[k] = Unset THEN [settings EXCEPT ![k] = v] ELSE settings

\* flush_openssh_section
Flush(p, section) ==
    IF section = NoSection THEN p
    ELSE IF IsHost(section) THEN [p EXCEPT !.hosts = Append(@, section)]
    ELSE [p EXCEPT !.matches = Append(@, section)]

-----------------------------------------------------------------------------
(* What the sections say about a name.                                     *)

\* A word that is negated excludes nothing: it only never matches.
PatternMatches(pattern, a) == ~ pattern.negated /\ a \in pattern.names
HostApplies(section, a) == \E i \in DOMAIN section.line.patterns : PatternMatches(section.line.patterns[i], a)

CriterionHolds(c, a, effective) ==
    CASE c.on \in {"host", "originalhost"} -> a \in c.names
      [] c.on = "user" -> effective["user"] # Unset /\ effective["user"] \in c.names
      [] c.on = "localuser" -> LocalUser \in c.names
MatchApplies(section, a, effective) ==
    /\ ~ section.line.unsupported
    /\ \/ \E c \in section.line.criteria : c.on = "all"
       \/ \A c \in section.line.criteria : CriterionHolds(c, a, effective)

\* Fault: the last section wins.
MergeLastWins(effective, next) == [k \in Key |-> IF next[k] # Unset THEN next[k] ELSE effective[k]]
MergeFirstValueWins(effective, next) == [k \in Key |-> IF effective[k] # Unset THEN effective[k] ELSE next[k]]

EffectiveSettings(p, a) ==
    LET Hosts == FoldLeft(LAMBDA e, s : IF HostApplies(s, a) THEN MergeFirstValueWins(e, s.settings) ELSE e,
                          NoSettings, p.hosts)
    IN FoldLeft(LAMBDA e, s : IF MatchApplies(s, a, e) THEN MergeFirstValueWins(e, s.settings) ELSE e,
                Hosts, p.matches)

\* parsed_to_openssh_hosts: one entry for each word of a Host line that names one host; two
\* for one name differ in their place.
ConcretePatterns(section) == SelectSeq(section.line.patterns, LAMBDA q : q.concrete /\ ~ q.negated)
Entry(p, f, place, a) ==
    [file |-> f, place |-> place, alias |-> a, settings |-> EffectiveSettings(p, a), warnings |-> p.warnings]
EntriesOf(p, f) ==
    LET EntriesAt(i) ==
            LET words == ConcretePatterns(p.hosts[i])
            IN {Entry(p, f, <<i, j>>, CHOOSE n \in words[j].names : TRUE) : j \in DOMAIN words}
    IN UNION {EntriesAt(i) : i \in DOMAIN p.hosts}

\* A hop is what the sections say of its name; its own jumps are not followed.
JumpConfig(p, a) == [alias |-> a, settings |-> [EffectiveSettings(p, a) EXCEPT !["proxyjump"] = Unset]]
Chain(p, jumps) == [i \in DOMAIN jumps |-> JumpConfig(p, jumps[i])]

-----------------------------------------------------------------------------
(* Reading.                                                                *)

Listing(n) == [for |-> "list", next |-> n]
Connecting(f, jumps) == [for |-> "connect", file |-> f, jumps |-> jumps]
Idle == [for |-> "nothing"]
Failed == [for |-> "error"]

Frame(f) == [file |-> f, rest |-> files[f], includes |-> <<>>, section |-> NoSection]
Top == frames[Len(frames)]
Depth == Len(frames)
Visited == {frames[i].file : i \in DOMAIN frames}
SetTop(fr) == [frames EXCEPT ![Depth] = fr]
Warn(w) == parsed' = [parsed EXCEPT !.warnings = @ \cup {w}]

\* parse_openssh_config_file, up to its first line; stack: the frames below.
Open(f, stack) ==
    IF files[f] = Unreadable
    THEN reader' = Failed /\ frames' = <<>> /\ UNCHANGED parsed
    ELSE frames' = Append(stack, Frame(f)) /\ UNCHANGED <<reader, parsed>>
Stays(w, stack) == Warn(w) /\ frames' = stack /\ UNCHANGED reader
Enter(f, stack) ==
    IF Depth > IncludeLimit THEN Stays("include_depth", stack)
    ELSE IF f \in Visited THEN Stays("include_cycle", stack)
    ELSE IF files[f] = Missing THEN Stays("missing_include", stack)
    ELSE Open(f, stack)

\* The next configured file; one that is missing is passed over.
Begin ==
    /\ reader.for = "list" /\ frames = <<>> /\ reader.next \in DOMAIN Configured
    /\ LET f == Configured[reader.next] IN
       IF files[f] = Missing
       THEN reader' = Listing(reader.next + 1) /\ UNCHANGED <<frames, parsed>>
       ELSE Enter(f, <<>>)
    /\ UNCHANGED <<files, entries, hops, edited>>

Reading(kind) ==
    /\ frames # <<>> /\ Top.includes = <<>> /\ Top.rest # <<>>
    /\ Head(Top.rest).kind = kind
    /\ UNCHANGED <<files, entries, hops, edited>>
Rest == [Top EXCEPT !.rest = Tail(@)]
Line == Head(Top.rest)

\* Fault: the line is read again.
ReadIncludeAgain ==
    /\ Reading("include")
    /\ frames' = SetTop([Top EXCEPT !.includes = Line.paths])
    /\ UNCHANGED <<reader, parsed>>
ReadInclude ==
    /\ Reading("include")
    /\ frames' = SetTop([Rest EXCEPT !.includes = Line.paths])
    /\ UNCHANGED <<reader, parsed>>
\* The section stays open in the file that includes: the sections of the included files
\* are collected before it.
OpenInclude ==
    /\ frames # <<>> /\ Top.includes # <<>>
    /\ Enter(Head(Top.includes), SetTop([Top EXCEPT !.includes = Tail(@)]))
    /\ UNCHANGED <<files, entries, hops, edited>>

ReadSection ==
    /\ Reading("host") \/ Reading("match")
    /\ parsed' = Flush(parsed, Top.section)
    /\ frames' = SetTop([Rest EXCEPT !.section = Section(Line)])
    /\ UNCHANGED reader
\* Fault: a setting belongs to no section.
ReadSettingAlone ==
    /\ Reading("setting")
    /\ parsed' = Flush(parsed, [Section(HostLine(<<Everything>>)) EXCEPT !.settings = WithValue(@, Line.key, Line.value)])
    /\ frames' = SetTop(Rest)
    /\ UNCHANGED reader
\* A setting before any section is about every host.
ReadSetting ==
    /\ Reading("setting")
    /\ LET section == IF Top.section = NoSection THEN Section(HostLine(<<Everything>>)) ELSE Top.section
       IN frames' = SetTop([Rest EXCEPT !.section = [section EXCEPT !.settings = WithValue(@, Line.key, Line.value)]])
    /\ UNCHANGED <<reader, parsed>>

Pop == SubSeq(frames, 1, Depth - 1)
\* What the sections are for, when the first file ends.
Finish(p) ==
    IF reader.for = "list"
    THEN /\ entries' = entries \cup EntriesOf(p, Configured[reader.next])
         /\ reader' = Listing(reader.next + 1)
         /\ UNCHANGED hops
    ELSE /\ hops' = Chain(p, reader.jumps)
         /\ reader' = Idle
         /\ UNCHANGED entries
EndFile ==
    /\ frames # <<>> /\ Top.includes = <<>> /\ Top.rest = <<>>
    /\ LET p == Flush(parsed, Top.section) IN
       IF Depth = 1
       THEN Finish(p) /\ parsed' = NothingParsed
       ELSE parsed' = p /\ UNCHANGED <<reader, entries, hops>>
    /\ frames' = Pop
    /\ UNCHANGED <<files, edited>>

\* All configured files are read; a window holds the hosts.
EndList ==
    /\ reader.for = "list" /\ reader.next \notin DOMAIN Configured
    /\ reader' = Idle
    /\ UNCHANGED <<files, frames, parsed, entries, hops, edited>>

\* resolve_openssh_proxy_jump_chain: the file is read again, for a list of jumps that can
\* be parsed; "none" among them, like a list that cannot, is an error before the reading
\* changes anything, and is left out.
ResolveJumps(e) ==
    /\ reader.for = "nothing" /\ hops = <<>>
    /\ e.settings["proxyjump"] # Unset
    /\ reader' = Connecting(e.file, e.settings["proxyjump"])
    /\ UNCHANGED <<files, frames, parsed, entries, hops, edited>>
BeginConnect ==
    /\ reader.for = "connect" /\ frames = <<>>
    /\ IF files[reader.file] = Missing
       THEN reader' = Idle /\ hops' = Chain(NothingParsed, reader.jumps) /\ UNCHANGED <<frames, parsed>>
       ELSE Enter(reader.file, <<>>) /\ UNCHANGED hops
    /\ UNCHANGED <<files, entries, edited>>

\* Somebody writes a file.
Edit(f, lines) ==
    /\ edited < MaxEdit /\ files[f] # lines
    /\ files' = [files EXCEPT ![f] = lines]
    /\ edited' = edited + 1
    /\ UNCHANGED <<reader, frames, parsed, entries, hops>>

OpenSshInit ==
    /\ files \in Layouts
    /\ reader = Listing(1) /\ frames = <<>> /\ parsed = NothingParsed
    /\ entries = {} /\ hops = <<>> /\ edited = 0

OpenSshStep ==
    \/ Begin \/ BeginConnect \/ EndFile \/ EndList
    \/ ReadInclude \/ OpenInclude \/ ReadSection \/ ReadSetting
OpenSshNext ==
    \/ OpenSshStep
    \/ \E e \in entries : ResolveJumps(e)
    \/ \E e \in Edits : Edit(e.file, e.lines)

\* Reading is one command that runs to its end.
OpenSshSpec == OpenSshInit /\ [][OpenSshNext]_openSshVars /\ WF_openSshVars(OpenSshStep)

-----------------------------------------------------------------------------
(* Properties.                                                             *)

\* The type of the state; the files of the stack are different ones, so that Includes in
\* a circle end, and no more than the limit allows.
OpenSshTypeOK ==
    /\ DOMAIN files = File
    /\ reader.for \in {"list", "connect", "nothing", "error"}
    /\ Cardinality(Visited) = Depth /\ Depth <= IncludeLimit + 1
    /\ \A i \in DOMAIN frames : i < Depth \/ frames[i].section = NoSection \/ DOMAIN frames[i].section.settings = Key
    /\ \A i \in DOMAIN parsed.hosts : parsed.hosts[i].line.kind = "host"
    /\ \A i \in DOMAIN parsed.matches : parsed.matches[i].line.kind = "match"
    /\ edited \in 0..MaxEdit

\* Sections(lines): the sections of one file by themselves, whatever it includes.
FirstValue(lines, from, to, k) ==
    LET at == {i \in from..to : lines[i].kind = "setting" /\ lines[i].key = k}
    IN IF at = {} THEN Unset ELSE lines[CHOOSE i \in at : \A j \in at : i <= j].value
IsHeader(line) == line.kind \in {"host", "match"}
SectionAt(lines, i) ==
    LET end == CHOOSE e \in i..Len(lines) :
                  /\ e = Len(lines) \/ IsHeader(lines[e + 1])
                  /\ \A j \in (i + 1)..e : ~ IsHeader(lines[j])
    IN [line |-> lines[i], settings |-> [k \in Key |-> FirstValue(lines, i + 1, end, k)]]
Preamble(lines) ==
    LET end == CHOOSE e \in 0..Len(lines) :
                  /\ e = Len(lines) \/ IsHeader(lines[e + 1])
                  /\ \A j \in 1..e : ~ IsHeader(lines[j])
    IN [line |-> HostLine(<<Everything>>), settings |-> [k \in Key |-> FirstValue(lines, 1, end, k)]]
Sections(lines) == {Preamble(lines)} \cup {SectionAt(lines, i) : i \in {j \in DOMAIN lines : IsHeader(lines[j])}}

\* A section is collected whole, with the settings between its header and the next header
\* of its own file: a file that is included in the middle of it neither ends it nor adds to
\* it, and none of its sections goes to the wrong list.
SectionsAreWhole ==
    edited = 0 =>
        \A s \in ToSet(parsed.hosts) \cup ToSet(parsed.matches) : \E f \in File : s \in Sections(files[f])

\* The sections read are those of the files.
ReadingIsSound == OpenSshTypeOK /\ SectionsAreWhole

\* Reading ends: Includes in a circle, or too deep, or missing, do not keep it.
ReadingEnds == [](reader.for = "list" => <>(reader.for # "list"))

=============================================================================
