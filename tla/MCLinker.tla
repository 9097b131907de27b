------------------------------- MODULE MCLinker -------------------------------
(* Small instances of Linker.                                              *)
EXTENDS LinkerInputs, Linker
=============================================================================
