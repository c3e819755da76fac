------------------------------- MODULE MCMarket -------------------------------
(***************************************************************************)
(* Two quests for TLC, with different rewards, so that a payment from the  *)
(* wrong one shows.                                                        *)
(***************************************************************************)
EXTENDS MCQuest, Market

MarketCreateArgs == {OneTimeQuest(R, 2 * R, 1)}

MarketOtherCreateArgs ==
  {[OneTimeQuest(2 * R, 4 * R, 1) EXCEPT !.reward_per_completion = 2 * R]}
=============================================================================
