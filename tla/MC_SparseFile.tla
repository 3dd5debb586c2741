---------------------------- MODULE MC_SparseFile ----------------------------
(***************************************************************************)
(* Instances of SparseFile for TLC: images of a few blocks of two words.   *)
(***************************************************************************)
EXTENDS SparseFile

\* A buffer of three words, a descriptor of four, a path of two: every
\* word is different, and one is 0.
MCSources ==
    [b |-> [type |-> "data", data |-> <<21, 22, 23>>],
     d |-> [type |-> "fd",   data |-> <<31, 32, 0, 34>>],
     p |-> [type |-> "file", data |-> <<41, 42>>]]

\* Blocks of zeros, blocks alike, blocks that are not, a ragged end; and an
\* image that is cut into several parts.
MCRawImages ==
    { <<0, 0, 0, 0, 7, 7, 5, 6>>,
      <<7, 7, 7, 7, 7, 7, 7, 7>>,
      <<5, 6, 5, 6, 0, 0, 5, 6>>,
      <<5, 6, 5, 6, 8, 8, 8>>,
      [i \in 1..32 |-> 50 + i] }
=============================================================================
