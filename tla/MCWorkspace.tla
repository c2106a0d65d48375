---------------------------- MODULE MCWorkspace -----------------------------
\* A small instance of Workspace for TLC: the constants are in the cfg.  Windows are
\* interchangeable, and no property of the run is temporal beyond one step.
EXTENDS Workspace, TLC

WindowSymmetry == Permutations(Window)
=============================================================================
