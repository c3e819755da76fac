------------------------------- MODULE MCAuto -------------------------------
(***************************************************************************)
(* Instances of AutoReview for TLC: a tick is half of the longest life of  *)
(* a statement, and half of the quest's own.                               *)
(***************************************************************************)
EXTENDS MCQuest, AutoReview

CONSTANTS otherKey, proof1, proof2

AutoQuest ==
  [OneTimeQuest(R, 3 * R, 2) EXCEPT
    !.mode = "Recurring", !.review_mode = "AutoVerified",
    !.authorized_verifier = verifierKey,
    !.template_config_hash = configHash, !.has_schema = TRUE,
    !.period_seconds = 1800, !.duration_seconds = 3600]

\* The last two are refused by create_quest: no key, no schema.
AutoCreateArgs ==
  {AutoQuest, [AutoQuest EXCEPT !.authorized_verifier = noKey],
   [AutoQuest EXCEPT !.has_schema = FALSE]}

Good(proof, ttl) ==
  [verifier |-> verifierKey, here |-> TRUE, template_config_hash |-> configHash,
   external_proof_hash |-> proof, passed |-> TRUE, ahead |-> 0, ttl |-> ttl]

\* Good statements about two proofs, and some the program must refuse: another
\* key, a failed check, one from the future, one that lives too long.
AutoSignArgs ==
  {Good(proof1, 3600), Good(proof2, 1800),
   [Good(proof1, 3600) EXCEPT !.verifier = otherKey],
   [Good(proof1, 3600) EXCEPT !.passed = FALSE],
   [Good(proof1, 3600) EXCEPT !.ahead = 1800],
   Good(proof1, 3601)}

\* MCSilent: the smallest deposit, two good statements, so that the second accepted
\* proof is paid from the deposit, and a third proof nobody signs for.
SilentCreateArgs == {[AutoQuest EXCEPT !.deposit_amount = 2 * R, !.queue_max = 1]}

SilentSignArgs == {Good(proof1, 3600), Good(proof2, 3600)}
=============================================================================
