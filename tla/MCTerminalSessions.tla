------------------------- MODULE MCTerminalSessions -------------------------
\* A small instance of TerminalSessions for TLC.  Windows are interchangeable, and no
\* property of the run is temporal beyond one step.
EXTENDS TerminalSessions, TLC

WindowSymmetry == Permutations(Window)
=============================================================================
