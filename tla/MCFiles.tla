------------------------------ MODULE MCFiles ------------------------------
(***************************************************************************)
(* Small instances of Files for TLC.                                       *)
(***************************************************************************)
EXTENDS Files, TLC

\* A length that lets a read end before, at and beyond the end of a file.
OneByte == [path \in Embedded |-> 1]

\* The processes are interchangeable.
Symmetry == Permutations(Pids)
====
