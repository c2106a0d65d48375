----------------------------- MODULE MCHelpers -----------------------------
\* A small instance of Helpers for TLC: the constants are in the cfg.
EXTENDS Helpers
=============================================================================
