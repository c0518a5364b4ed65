---------------------------- MODULE MCMemoryIndex ----------------------------
(* Memory files for TLC.                                                   *)
EXTENDS MemoryIndex

CONSTANTS s1, s2

\* An empty file; overlap and a line that are more than a chunk; long lines first
\* and last, and four chunks in two batches.
SomeVersions == {<<0>>, <<2, 1, 3>>, <<4, 1, 2, 1, 5>>}
=============================================================================
