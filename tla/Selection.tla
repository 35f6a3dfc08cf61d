------------------------------ MODULE Selection ------------------------------
(***************************************************************************)
(* What the iterator adapters of the Rust code do to a sequence: keep some *)
(* of its elements, in order.  External: Iterator::filter, Vec::contains   *)
(* before Vec::push.                                                       *)
(***************************************************************************)
EXTENDS Naturals, Sequences, SequencesExt

\* The elements of seq at these positions, in order.
Pick(seq, places) ==
  FlattenSeq([i \in DOMAIN seq |-> IF i \in places THEN <<seq[i]>> ELSE <<>>])

\* The positions, among these, of the elements no earlier one of them repeats.
Firsts(seq, places) ==
  {i \in places : \A j \in places : j < i => seq[j] # seq[i]}
=============================================================================
