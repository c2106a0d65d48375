---------------------------- MODULE MCConfigFiles ----------------------------
EXTENDS ConfigFiles

CONSTANTS h1, h2, w1

Forwards == [w \in Worker |-> h1]
Sorted == <<<<"", h1>>, <<"", h2>>, <<"work", h1>>, <<"work", h2>>>>
Setting(k, v) == [NoSettings EXCEPT ![k] = v]
Sent == {NoSettings, Setting("default_host", h1), Setting("tab_bar_orientation", "horizontal")}

Empty == [f \in File |-> NoFile]
Saved(id) == ConnectionHostDocument(id, 0, "dynamic")
Used == [Empty EXCEPT ![StateFile] = AppStateFile("work", FALSE),
                      ![MainFile] = Document(Setting("default_host", h1)),
                      ![ProfileFile(Default)] = Document(NoSettings),
                      ![ProfileFile("work")] = Document(Setting("tab_bar_orientation", "horizontal")),
                      ![HostFile(DefaultDir, <<"", h1>>)] = Saved(h1)]
NoDirs == [Setting("default_host", h2) EXCEPT !["host_dirs"] = <<>>]
\* A profile that overrides the default host and, with an empty list, the directories; the
\* local host removed; two hosts.
Overridden == [Used EXCEPT ![StateFile] = AppStateFile("work", TRUE),
                           ![ProfileFile("work")] = Document(NoDirs),
                           ![HostFile(DefaultDir, <<"work", h2>>)] = Saved(h2)]
InitialDisks == {Empty, Used, Overridden}
=============================================================================
