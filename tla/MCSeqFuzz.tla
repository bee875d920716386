----------------------------- MODULE MCSeqFuzz ------------------------------
(***************************************************************************)
(* An instance of SeqFuzz for TLC: the three scripts and two random        *)
(* sequences.                                                              *)
(***************************************************************************)
EXTENDS SeqFuzz

Lengths == {4, 5}
=============================================================================
