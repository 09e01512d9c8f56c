---------------------------- MODULE MCPlaygroundDb ----------------------------
(* Small instances of PlaygroundDb.                                         *)
EXTENDS PlaygroundDb

CONSTANTS s1, s2, s3

==============================================================================
