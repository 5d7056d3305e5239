----------------------------- MODULE MCListUse ------------------------------
(***************************************************************************)
(* ListUse for TLC.                                                        *)
(***************************************************************************)
EXTENDS ListUse, TLC

\* The macros treat the entries alike.
EntrySymmetry == Permutations(Elems)
=============================================================================
