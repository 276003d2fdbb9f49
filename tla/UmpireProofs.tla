---------------------------- MODULE UmpireProofs ----------------------------
(***************************************************************************)
(* Proofs about Umpire, for a match of any number of rounds.               *)
(***************************************************************************)
EXTENDS Umpire, FiniteSetTheorems, TLAPS

\* Where the umpire is, against what the players have done.
Control ==
    /\ \A j \in Players : Len(p[j]) <= Rounds
    /\ pc \in {"start", "read"} => Len(p[turn]) < Rounds
    /\ pc = "start" <=> player[turn] = "none"
    /\ turn = 1 => player[2] = "none" /\ pc \in {"start", "read"}
    /\ turn = 2 => player[1] # "none" /\ Len(p[1]) = Rounds
    /\ pc \in {"score", "over"} => Len(p[2]) = Rounds

\* A process holds the ends that it got, until it ends.
Held ==
    /\ pc # "over" => \A e \in Pipes : UMPIRE \in writers[e]
    /\ player[1] \in {"go", "move"} => 1 \in writers["std1in"] /\ 1 \in writers["std2in"]

Scored == pc = "over" => \A j \in Players : score[j] = Wins(p[j], p[3 - j])

\* The inductive invariant.
IInv == TypeOK /\ RoundsKept /\ Control /\ Held /\ Scored /\ EndOfGame

----------------------------------------------------------------------------
\* A player wins at most all rounds.
LEMMA WinsBounded == ASSUME NEW a, NEW b PROVE Wins(a, b) \in 0 .. Rounds
<1> DEFINE won == {i \in 1 .. Rounds : <<a[i], b[i]>> \in Beats}
<1>1. IsFiniteSet(1 .. Rounds) /\ Cardinality(1 .. Rounds) = Rounds
  BY RoundsPositive, FS_Interval
<1>2. won \subseteq 1 .. Rounds
  OBVIOUS
<1>3. Cardinality(won) \in Nat /\ Cardinality(won) <= Rounds
  BY <1>1, <1>2, FS_Subset, FS_CardinalityType
<1> QED
  BY <1>3, RoundsPositive DEF Wins

\* The list of wins in the code is the rule of the game.
LEMMA BeatsIsRule ==
    ASSUME NEW a \in Moves, NEW b \in Moves
    PROVE  <<a, b>> \in Beats <=> a = (b + 1) % 3
<1>1. b = 0 \/ b = 1 \/ b = 2
  BY DEF Moves
<1>2. (b + 1) % 3 = IF b = 0 THEN 1 ELSE IF b = 1 THEN 2 ELSE 0
  BY <1>1
<1> QED
  BY <1>1, <1>2 DEF Moves, Beats

\* How many moves of j were read, and how many are under way.  (The provers
\* calculate with these names more easily than with the lengths.)
Taken(j) == Len(p[j])
Coming(j) == Len(out[j])

LEMMA Numbers ==
    TypeOK => \A j \in Players : Taken(j) \in Nat /\ Coming(j) \in Nat /\ go[j] \in Nat
BY RoundsPositive DEF TypeOK, Taken, Coming

\* RoundsKept, for one player.
Kept(j) ==
    LET all == Taken(j) + Coming(j) + go[j]
    IN  /\ player[j] \in {"go", "done"} => all = Rounds
        /\ player[j] = "move" => all + 1 = Rounds
        /\ player[j] = "left" => all <= Rounds
        /\ player[j] = "none" => all = 0

LEMMA KeptByAll == RoundsKept <=> \A j \in Players : Kept(j)
BY DEF RoundsKept, Kept, Taken, Coming

\* What does not touch a player's lists and messages keeps its account.
LEMMA KeptUntouched ==
    ASSUME NEW j, Kept(j), p'[j] = p[j], out'[j] = out[j], go'[j] = go[j],
           player'[j] = player[j]
    PROVE  Kept(j)'
BY DEF Kept, Taken, Coming

\* A step of one player.
LEMMA OneKept ==
    ASSUME TypeOK, RoundsKept, NEW j \in Players, Kept(j)',
           \A k \in Players \ {j} : /\ p'[k] = p[k] /\ out'[k] = out[k]
                                   /\ go'[k] = go[k] /\ player'[k] = player[k]
    PROVE  RoundsKept'
<1>1. ASSUME NEW k \in Players PROVE Kept(k)'
  <2>1. CASE k = j
    BY <2>1
  <2>2. CASE k # j
    BY <2>2, KeptByAll, KeptUntouched
  <2> QED
    BY <2>1, <2>2
<1> QED
  BY <1>1 DEF RoundsKept, Kept, Taken, Coming

LEMMA InitIInv == Init => IInv
BY RoundsPositive
   DEF Init, IInv, TypeOK, RoundsKept, Control, Held, Scored, EndOfGame, Players, Pipes,
       Process, UMPIRE, Moves

LEMMA StartKeeps == ASSUME IInv, Start PROVE IInv'
<1>0. turn \in Players /\ Kept(turn) /\ player[turn] = "none"
  BY KeptByAll DEF IInv, Control, Start, TypeOK
<1>1. TypeOK'
  BY RoundsPositive
     DEF IInv, TypeOK, Start, Players, Pipes, Process, UMPIRE, ChildKeeps
<1>2. RoundsKept'
  <2>1. Taken(turn)' = Taken(turn) /\ Coming(turn)' = Coming(turn)
    BY DEF Start, Taken, Coming
  <2>2. player'[turn] = "go" /\ go'[turn] = Rounds
    BY <1>0 DEF Start, IInv, TypeOK
  <2>3. Taken(turn) \in Nat /\ Coming(turn) \in Nat /\ go[turn] \in Nat
    BY <1>0, Numbers DEF IInv
  <2>4. Taken(turn) = 0 /\ Coming(turn) = 0
    BY <1>0, <2>3 DEF Kept
  <2>5. Taken(turn)' + Coming(turn)' + go'[turn] = Rounds
    BY <2>1, <2>2, <2>4, RoundsPositive
  <2>6. turn' = turn /\ p' = p /\ out' = out
    BY DEF Start
  <2>7. Kept(turn)'
    BY <2>2, <2>5, <2>6 DEF Kept, Taken, Coming
  <2>8. \A k \in Players \ {turn} : go'[k] = go[k] /\ player'[k] = player[k]
    BY DEF Start, IInv, TypeOK
  <2> QED
    BY <1>0, <2>6, <2>7, <2>8, OneKept DEF IInv
<1>3. Control'
  BY RoundsPositive DEF IInv, TypeOK, Start, Control, Players
<1>4. Held' /\ EndOfGame'
  BY DEF IInv, TypeOK, Start, Held, EndOfGame, ChildKeeps, Control, Players, Pipes, UMPIRE
<1>5. Scored'
  BY DEF IInv, Start, Scored
<1> QED
  BY <1>1, <1>2, <1>3, <1>4, <1>5 DEF IInv

LEMMA ReadMoveKeeps == ASSUME IInv, ReadMove PROVE IInv'
<1>0. /\ turn \in Players /\ p[turn] \in Seq(Moves) /\ out[turn] \in Seq(Moves)
      /\ go' = go /\ player' = player /\ pc = "read"
  BY DEF IInv, TypeOK, ReadMove
<1>1. p' \in [Players -> Seq(Moves)] /\ out' \in [Players -> Seq(Moves)]
  BY <1>0 DEF IInv, TypeOK, ReadMove
<1>2. \A j \in Players \ {turn} : p'[j] = p[j] /\ out'[j] = out[j]
  BY DEF IInv, TypeOK, ReadMove
<1>3. Len(p'[turn]) = Len(p[turn]) + 1 /\ Len(out'[turn]) = Len(out[turn]) - 1
  BY <1>0 DEF IInv, TypeOK, ReadMove
<1>4. TypeOK'
  BY <1>1 DEF IInv, TypeOK, ReadMove, Players
<1>5. RoundsKept'
  <2>1. PICK j \in Players : j = turn
    BY <1>0
  <2>2. Taken(j)' = Taken(j) + 1 /\ Coming(j)' = Coming(j) - 1
    BY <1>3, <2>1 DEF Taken, Coming
  <2>3. Taken(j) \in Nat /\ Coming(j) \in Nat /\ go[j] \in Nat
    BY Numbers DEF IInv
  <2>4. Taken(j)' + Coming(j)' + go'[j] = Taken(j) + Coming(j) + go[j]
    BY <1>0, <2>2, <2>3
  <2>5. Kept(j)'
    BY <1>0, <2>4, KeptByAll DEF Kept, IInv
  <2> QED
    BY <1>0, <1>2, <2>1, <2>5, OneKept DEF IInv
<1>6. Control'
  <2> DEFINE l == Taken(turn)
             lp == Len(p'[turn])
  <2>1. l \in Nat /\ l < Rounds /\ lp = l + 1 /\ player[turn] # "none"
    BY <1>0, <1>3, Numbers DEF IInv, Control, Taken
  <2>2. \A j \in Players : Len(p[j]) <= Rounds
    BY DEF IInv, Control
  <2>3. \A j \in Players : Len(p'[j]) <= Rounds
    <3> HIDE DEF l, lp
    <3>1. lp <= Rounds
      BY <2>1, RoundsPositive
    <3> QED
      BY <1>2, <2>2, <3>1 DEF lp
  <2>4. CASE l + 1 < Rounds
    <3>1. pc' = pc /\ turn' = turn
      BY <2>4 DEF ReadMove, Taken
    <3> QED
      BY <1>0, <1>2, <2>1, <2>3, <2>4, <3>1 DEF IInv, Control, Players
  <2>5. CASE ~(l + 1 < Rounds)
    <3>1. IF turn = 1 THEN pc' = "start" /\ turn' = 2 ELSE pc' = "score" /\ turn' = turn
      BY <2>5 DEF ReadMove, Taken
    <3>2. lp = Rounds
      <4> HIDE DEF l, lp
      <4> QED
        BY <2>1, <2>5, RoundsPositive
    <3>3. CASE turn = 1
      <4>1. player[2] = "none"
        BY <3>3 DEF IInv, Control
      <4>2. Taken(2) = 0
        <5>1. Kept(2) /\ Taken(2) \in Nat /\ Coming(2) \in Nat /\ go[2] \in Nat
          BY KeptByAll, Numbers DEF IInv, Players
        <5> QED
          BY <4>1, <5>1 DEF Kept
      <4>3. Len(p'[2]) < Rounds
        BY <1>2, <3>3, <4>2, RoundsPositive DEF Taken, Players
      <4> QED
        BY <1>0, <2>1, <2>3, <3>1, <3>2, <3>3, <4>1, <4>3 DEF Control
    <3>4. CASE turn = 2
      BY <1>0, <1>2, <2>1, <2>3, <3>1, <3>2, <3>4 DEF IInv, Control, Players
    <3> QED
      BY <1>0, <3>3, <3>4 DEF Players
  <2> QED
    BY <2>4, <2>5
<1>7. Held' /\ EndOfGame' /\ Scored'
  BY DEF IInv, TypeOK, ReadMove, Held, EndOfGame, Scored
<1> QED
  BY <1>4, <1>5, <1>6, <1>7 DEF IInv

LEMMA ScoreKeeps == ASSUME IInv, Score PROVE IInv'
<1> USE DEF IInv, TypeOK, Score, Players
<1>1. TypeOK'
  BY WinsBounded DEF Pipes
<1>2. RoundsKept' /\ Control'
  BY DEF RoundsKept, Control
<1>3. Held' /\ EndOfGame'
  BY DEF Held, EndOfGame, Pipes, UMPIRE
<1>4. Scored'
  BY DEF Scored, Wins
<1> QED
  BY <1>1, <1>2, <1>3, <1>4

LEMMA ReadGoKeeps == ASSUME IInv, NEW j \in Players, ReadGo(j) PROVE IInv'
<1> USE RoundsPositive DEF IInv, TypeOK, ReadGo, Players
<1>0. TypeOK'
  OBVIOUS
<1>1. RoundsKept'
  <2>1. /\ p' = p /\ out' = out /\ player[j] = "go" /\ player'[j] = "move"
        /\ go[j] > 0 /\ go'[j] = go[j] - 1
        /\ \A k \in Players \ {j} : player'[k] = player[k] /\ go'[k] = go[k]
    OBVIOUS
  <2> HIDE DEF IInv, TypeOK, ReadGo
  <2>2. /\ Taken(j) \in Nat /\ Coming(j) \in Nat /\ go[j] \in Nat
        /\ Taken(j)' = Taken(j) /\ Coming(j)' = Coming(j)
    BY <2>1, Numbers DEF IInv, Taken, Coming
  <2>3. Taken(j) + Coming(j) + go[j] = Rounds
    BY <2>1, KeptByAll DEF Kept, IInv
  <2>4. Taken(j)' + Coming(j)' + go'[j] + 1 = Rounds
    BY <2>1, <2>2, <2>3
  <2>5. Kept(j)'
    BY <2>1, <2>4 DEF Kept
  <2> QED
    BY <2>1, <2>5, OneKept DEF IInv
<1>2. Control'
  BY DEF Control
<1>3. Held' /\ EndOfGame' /\ Scored'
  BY DEF Held, EndOfGame, Scored, Wins
<1> QED
  BY <1>0, <1>1, <1>2, <1>3

LEMMA MoveKeeps == ASSUME IInv, NEW j \in Players, Move(j) PROVE IInv'
<1> USE RoundsPositive DEF IInv, TypeOK, Players
<1> PICK m \in Moves : out' = [out EXCEPT ![j] = Append(@, m)]
  BY DEF Move
<1> USE DEF Move
<1>1. /\ out' \in [Players -> Seq(Moves)]
      /\ Len(out'[j]) = Len(out[j]) + 1
      /\ \A k \in Players \ {j} : out'[k] = out[k]
  OBVIOUS
<1>2. TypeOK'
  BY <1>1
<1>3. RoundsKept'
  <2>1. /\ p' = p /\ go' = go /\ player[j] = "move" /\ player'[j] = "go"
        /\ \A k \in Players \ {j} : player'[k] = player[k]
    OBVIOUS
  <2> HIDE DEF IInv, TypeOK, Move
  <2>2. Taken(j) \in Nat /\ Coming(j) \in Nat /\ go[j] \in Nat
    BY Numbers DEF IInv
  <2>3. Taken(j)' = Taken(j) /\ Coming(j)' = Coming(j) + 1
    BY <1>1, <2>1 DEF Taken, Coming
  <2>4. Taken(j) + Coming(j) + go[j] + 1 = Rounds
    BY <2>1, KeptByAll DEF Kept, IInv
  <2>5. Taken(j)' + Coming(j)' + go'[j] = Rounds
    BY <2>1, <2>2, <2>3, <2>4
  <2>6. Kept(j)'
    BY <2>1, <2>5 DEF Kept
  <2> QED
    BY <1>1, <2>1, <2>6, OneKept DEF IInv
<1>4. Control'
  BY DEF Control
<1>5. Held' /\ EndOfGame' /\ Scored'
  BY DEF Held, EndOfGame, Scored, Wins
<1> QED
  BY <1>2, <1>3, <1>4, <1>5

LEMMA SeeEndKeeps == ASSUME IInv, NEW j \in Players, SeeEnd(j) PROVE IInv'
<1> USE RoundsPositive DEF IInv, TypeOK, SeeEnd, Ends, Players
<1>0. TypeOK'
  BY DEF Pipes, Process
<1>1. RoundsKept' /\ Control'
  <2>1. RoundsKept'
    <3>1. /\ p' = p /\ out' = out /\ go' = go /\ player[j] = "go" /\ player'[j] = "done"
          /\ \A k \in Players \ {j} : player'[k] = player[k]
      OBVIOUS
    <3> HIDE DEF IInv, TypeOK, SeeEnd, Ends
    <3>2. /\ Taken(j) \in Nat /\ Coming(j) \in Nat /\ go[j] \in Nat
          /\ Taken(j)' = Taken(j) /\ Coming(j)' = Coming(j)
      BY <3>1, Numbers DEF IInv, Taken, Coming
    <3>3. Kept(j)'
      BY <3>1, <3>2, KeptByAll, RoundsPositive DEF Kept, IInv
    <3> QED
      BY <3>1, <3>3, OneKept DEF IInv
  <2>2. Control'
    BY DEF Control
  <2> QED
    BY <2>1, <2>2
<1>2. j = 2 /\ pc = "over" /\ player[1] = "left"
  BY DEF Held, Control, EndOfGame, Stdin, Pipes
<1>3. Held' /\ EndOfGame'
  BY <1>2 DEF Held, EndOfGame
<1>4. Scored'
  BY DEF Scored, Wins
<1> QED
  BY <1>0, <1>1, <1>3, <1>4

LEMMA LeaveKeeps == ASSUME IInv, NEW j \in Players, Leave(j) PROVE IInv'
<1> USE RoundsPositive DEF IInv, TypeOK, Leave, Ends, Players
<1>0. TypeOK'
  BY DEF Pipes, Process
<1>1. RoundsKept' /\ Control'
  <2>1. RoundsKept'
    <3>1. /\ p' = p /\ out' = out /\ go' = go /\ player[j] \in {"go", "move"} /\ player'[j] = "left"
          /\ \A k \in Players \ {j} : player'[k] = player[k]
      OBVIOUS
    <3> HIDE DEF IInv, TypeOK, Leave, Ends
    <3>2. /\ Taken(j) \in Nat /\ Coming(j) \in Nat /\ go[j] \in Nat
          /\ Taken(j)' = Taken(j) /\ Coming(j)' = Coming(j)
      BY <3>1, Numbers DEF IInv, Taken, Coming
    <3>3. Kept(j)'
      BY <3>1, <3>2, KeptByAll, RoundsPositive DEF Kept, IInv
    <3> QED
      BY <3>1, <3>3, OneKept DEF IInv
  <2>2. Control'
    BY DEF Control
  <2> QED
    BY <2>1, <2>2
<1>2. Held' /\ EndOfGame'
  BY DEF Held, EndOfGame, Pipes, UMPIRE
<1>3. Scored'
  BY DEF Scored, Wins
<1> QED
  BY <1>0, <1>1, <1>2, <1>3

LEMMA NextIInv == IInv /\ [Next]_vars => IInv'
<1> SUFFICES ASSUME IInv, [Next]_vars PROVE IInv'
  OBVIOUS
<1>1. CASE Start
  BY <1>1, StartKeeps
<1>2. CASE ReadMove
  BY <1>2, ReadMoveKeeps
<1>3. CASE Score
  BY <1>3, ScoreKeeps
<1>4. ASSUME NEW j \in Players, ReadGo(j) PROVE IInv'
  BY <1>4, ReadGoKeeps
<1>5. ASSUME NEW j \in Players, Move(j) PROVE IInv'
  BY <1>5, MoveKeeps
<1>6. ASSUME NEW j \in Players, SeeEnd(j) PROVE IInv'
  BY <1>6, SeeEndKeeps
<1>7. ASSUME NEW j \in Players, Leave(j) PROVE IInv'
  BY <1>7, LeaveKeeps
<1>8. CASE UNCHANGED vars
  BY <1>8 DEF vars, IInv, TypeOK, RoundsKept, Control, Held, Scored, EndOfGame, Wins
<1> QED
  BY <1>1, <1>2, <1>3, <1>4, <1>5, <1>6, <1>7, <1>8 DEF Next

LEMMA Invariance == Spec => []IInv
BY InitIInv, NextIInv, PTL DEF Spec

----------------------------------------------------------------------------
\* Types of the umpire's and the players' state (umpire.c, player.c).
THEOREM TypeCorrect == Spec => []TypeOK
<1>1. IInv => TypeOK
  BY DEF IInv
<1> QED
  BY <1>1, Invariance, PTL

\* No GO message and no move is lost or read twice, in a match of any length
\* (the two loops of writes and the two of reads in umpire.c).
THEOREM RoundsCorrect == Spec => []RoundsKept
<1>1. IInv => RoundsKept
  BY DEF IInv
<1> QED
  BY <1>1, Invariance, PTL

\* The printed scores follow the rules (umpire.c:110-114).
THEOREM ScoresCorrect == Spec => []ScoresFair
<1>1. IInv => ScoresFair
  <2> SUFFICES ASSUME IInv, pc = "over" PROVE ScoresFair
    BY DEF ScoresFair
  <2>1. \A j \in Players : Len(p[j]) = Rounds
    BY DEF IInv, TypeOK, Control, Players
  <2>2. ASSUME NEW j \in Players
        PROVE  score[j] = Cardinality({i \in 1 .. Rounds : p[j][i] = (p[3-j][i] + 1) % 3})
    <3>1. 3 - j \in Players
      BY DEF Players
    <3>2. \A i \in 1 .. Rounds : p[j][i] \in Moves /\ p[3-j][i] \in Moves
      BY <2>1, <3>1, RoundsPositive DEF IInv, TypeOK
    <3>3. {i \in 1 .. Rounds : <<p[j][i], p[3-j][i]>> \in Beats}
            = {i \in 1 .. Rounds : p[j][i] = (p[3-j][i] + 1) % 3}
      BY <3>2, BeatsIsRule
    <3> QED
      BY <3>3 DEF IInv, Scored, Wins
  <2> QED
    BY <2>1, <2>2 DEF ScoresFair
<1> QED
  BY <1>1, Invariance, PTL

\* Player 1 never sees the end of its input, player 2 only after player 1 has
\* left (umpire.c:45-53, 83-93, and the test n == 0 of player.c).
THEOREM EndCorrect == Spec => []EndOfGame
<1>1. IInv => EndOfGame
  BY DEF IInv
<1> QED
  BY <1>1, Invariance, PTL
=============================================================================
