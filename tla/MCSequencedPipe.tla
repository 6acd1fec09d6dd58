--------------------------- MODULE MCSequencedPipe ---------------------------
(* A small instance of the sequenced pipe for TLC.                          *)
EXTENDS SequencedPipe
=============================================================================
