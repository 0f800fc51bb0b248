--------------------------- MODULE MCServerLister ---------------------------
(* Answers for TLC: both the lister knows, and a third whose data would make  *)
(* an "Added" with those of "Banned" behind them.  What has no header, or     *)
(* nothing at all, comes of cutting them.                                     *)
EXTENDS ServerLister
MCAdded  == <<"A", "d">>
MCBanned == <<"d">>
MCGood   == <<"h", LineEnd, LineEnd, "A", "d">>
MCAnswers ==
  {MCGood, <<"h", LineEnd, LineEnd, "A">>, <<"h", LineEnd, LineEnd, "d">>}
=============================================================================
