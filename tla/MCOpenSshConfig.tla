--------------------------- MODULE MCOpenSshConfig ---------------------------
EXTENDS SshConfigOrder

CONSTANTS main, work, extra

Files == <<main, work>>
Is(on, names) == [on |-> on, names |-> names]
Settled(a, user) == <<HostLine(<<Named(a)>>), SettingLine("user", user)>>
Jump == SettingLine("proxyjump", <<"bastion">>)
Nobody == [f \in File |-> Missing]

\* Includes at the top, in a circle, in a section; sections, settings without one, Match.
Nested == [Nobody EXCEPT ![main] = <<IncludeLine(<<work>>)>> \o Settled("prod", "root") \o <<Jump>> \o Settled("bastion", "jump"),
                         ![work] = <<SettingLine("port", "2200"), IncludeLine(<<extra>>)>> \o Settled("prod", "deploy"),
                         ![extra] = <<HostLine(<<Everything>>), SettingLine("user", "anyone"),
                                      MatchLine({Is("user", {"anyone"})}, FALSE), SettingLine("port", "22")>>]
Circle == [Nobody EXCEPT ![main] = <<IncludeLine(<<main, work, extra>>)>> \o Settled("prod", "root"),
                         ![work] = Settled("bastion", "jump") \o <<IncludeLine(<<main>>), SettingLine("port", "22")>>,
                         ![extra] = <<IncludeLine(<<extra>>), SettingLine("user", "anyone")>>]
InSection == [Nobody EXCEPT ![main] = Settled("prod", "root") \o <<IncludeLine(<<extra, work>>), Jump, SettingLine("user", "late")>>,
                            ![extra] = <<SettingLine("user", "anyone")>> \o Settled("bastion", "jump")]
Damaged == [Nested EXCEPT ![extra] = Unreadable]
Matches == [Nobody EXCEPT ![main] = <<HostLine(<<Named("prod"), Named("bastion")>>), SettingLine("port", "1"), Jump,
                                      HostLine(<<Named("prod"), Pattern({"bastion"}, TRUE, FALSE)>>), SettingLine("user", "root"),
                                      MatchLine({Is("host", {"prod"}), Is("user", {"root"})}, FALSE), SettingLine("port", "2"),
                                      MatchLine({Is("localuser", {"me"})}, FALSE), SettingLine("user", "me"),
                                      MatchLine({Is("all", {})}, FALSE), SettingLine("user", "all"),
                                      MatchLine({Is("host", {"prod"})}, TRUE), SettingLine("user", "exec")>>]
\* Every short file in every other one.
Pool == {HostLine(<<Named("prod")>>), HostLine(<<Everything>>), SettingLine("user", "root"), SettingLine("user", "me"),
         MatchLine({Is("user", {"root"})}, FALSE)}
Generated == {[Nobody EXCEPT ![main] = <<IncludeLine(<<work>>)>> \o m, ![work] = w] :
                 m \in {Settled("prod", "root") \o t : t \in [1..2 -> Pool]} \cup [1..3 -> Pool], w \in [1..2 -> Pool]}
Placed == Generated \cup {Nested, Circle, InSection, Matches, Damaged}
Written == {[file |-> extra, lines |-> l] : l \in {Missing, Settled("bastion", "other") \o <<IncludeLine(<<main>>)>>}}
=============================================================================
