---------------------------- MODULE MCUserMemory ----------------------------
(***************************************************************************)
(* UserMemory for TLC: pages of two bytes, four of them accessible to the  *)
(* user, in frames in reverse order; words below 64.                       *)
(***************************************************************************)
EXTENDS UserMemory

Reversed == [q \in UserPages |-> 7 - q]

\* Every low address, and the ends of the other ranges.
SomePointers == 0 .. 13 \cup {15, 16, 31, 32, 47, 48, 63}

\* Lengths up to the whole of user memory, and some that wrap around.
SomeLengths == 0 .. 3 \cup {5, 8, 9, 54, 63}

=============================================================================
