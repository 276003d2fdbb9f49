---------------------------- MODULE MCTournament ----------------------------
(***************************************************************************)
(* Small tournaments for TLC.                                              *)
(***************************************************************************)
EXTENDS Tournament

\* One player; several rounds; levels with one and with two walk-overs; six
\* players, where player 1 may be out before the first walk-over; seven, the last
\* of which is not started.
SmallGames == {<<1, 1>>, <<2, 3>>, <<3, 2>>, <<5, 1>>, <<6, 1>>, <<7, 1>>}

SixPlayers == {<<6, 1>>}
=============================================================================
