----------------------------- MODULE MCRemateLive -----------------------------
(***************************************************************************)
(* Small instances of RemateLive for TLC.                                  *)
(***************************************************************************)
EXTENDS RemateLive, TLC

\* Workers are interchangeable, and so are buyers and the tokens they choose.
Symmetry == Permutations(Workers) \cup Permutations(Buyers) \cup Permutations(Tokens)
==============================================================================
