--------------------------- MODULE MCTranscript ---------------------------
(* Small instances of Transcript for TLC.                                   *)
EXTENDS Transcript

CONSTANTS h1, h2
=============================================================================
