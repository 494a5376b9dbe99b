----------------------------- MODULE MCUserHeap -----------------------------
(***************************************************************************)
(* UserHeap for TLC.  The layout keeps the shape of the real one: two      *)
(* spans of level 1 tables, images in either, the heap, the test page and  *)
(* the stack in the second.                                                *)
(***************************************************************************)
EXTENDS UserHeap, TLC

\* A program with the test page in the first span, whose heap is in the second;
\* one that is all in the second span; and one that leaves no room for a heap.
SmallImages ==
  { [pages |-> {3}, maxSegmentEnd |-> 7, testPage |-> {6}],
    [pages |-> {4}, maxSegmentEnd |-> 10, testPage |-> {}],
    [pages |-> {5}, maxSegmentEnd |-> 11, testPage |-> {}] }

ProcSymmetry == Permutations(Procs)

=============================================================================
