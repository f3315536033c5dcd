------------------------------ MODULE MCMcCard ------------------------------
(* A small card for TLC: a block of the file system's own clusters, and   *)
(* one that a directory shares with a file.                                *)
EXTENDS McCard

CONSTANTS m1, m2
MCBlock == {m1, m2}
MCMeta == {<<m1, 1>>, <<m1, 2>>, <<m2, 1>>}
=============================================================================
