--------------------------- MODULE MCLogRotation ---------------------------
(***************************************************************************)
(* The program's two loggers, with a limit of two bytes a file and two     *)
(* files kept, and lines of one byte and of three, more than the limit, so *)
(* that four bytes of each logger rotate a file out of the directory while *)
(* the other logger still writes to it.                                    *)
(***************************************************************************)
EXTENDS LogRotation

\* A fresh path, a file that one logger of an earlier run has filled, one that
\* both have, and as many rotated files as are kept behind a short one.
OldFiles == {<<0>>, <<MaxSize>>, <<2 * Limit>>, [j \in 1..(MaxFiles + 1) |-> 1]}
=============================================================================
