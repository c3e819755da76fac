------------------------------ MODULE MCClient ------------------------------
(***************************************************************************)
(* Pages for TLC, in a quest with room for two proofs.                     *)
(***************************************************************************)
EXTENDS MCQuest, Client

ClientCreateArgs == {OneTimeQuest(R, 3 * R, 2)}
=============================================================================
