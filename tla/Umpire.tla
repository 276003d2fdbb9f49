------------------------------- MODULE Umpire -------------------------------
(***************************************************************************)
(* The umpire of a match between two player processes,                     *)
(* Assignment1/Part2/2.1/umpire.c, with the players of player.c.           *)
(*                                                                         *)
(* Umpire and player j share two pipes: stdj[0], on which the umpire says  *)
(* "GO", and stdj[1], on which the player answers with one character.  A   *)
(* read of an empty pipe blocks until somebody writes, or returns 0 when no *)
(* process holds the write end; fork copies all ends, so the model records *)
(* which process holds which write end.                                    *)
(***************************************************************************)
EXTENDS Integers, Sequences, FiniteSets

CONSTANTS
    Rounds,     \* 10 in the code
    Leavers     \* players whose program may end by itself, or cannot be executed

ASSUME RoundsPositive == Rounds \in Nat \ {0}

VARIABLES
    pc,         \* the umpire: "start" or "read" the player of `turn', "score", "over"
    turn,       \* the player that is started or read
    p,          \* p[j]: the moves read from player j, arrays p1 and p2
    score,      \* score[j]: score1 and score2
    go,         \* go[j]: number of GO messages in stdj[0]
    out,        \* out[j]: characters in stdj[1]
    player,     \* "none", waiting for "go", about to "move", "done" (read 0), "left"
    writers     \* writers[e]: the processes that hold the write end of pipe e

vars == <<pc, turn, p, score, go, out, player, writers>>

UMPIRE   == 0
Players  == {1, 2}
Process  == {UMPIRE} \cup Players
Moves    == 0 .. 2                      \* ROCK, PAPER, SCISSORS
Pipes    == {"std1in", "std1out", "std2in", "std2out"}
Stdin(j) == IF j = 1 THEN "std1in" ELSE "std2in"

Init ==
    /\ pc = "start" /\ turn = 1
    /\ p = [j \in Players |-> <<>>]
    /\ score = [j \in Players |-> 0]
    /\ go = [j \in Players |-> 0]
    /\ out = [j \in Players |-> <<>>]
    /\ player = [j \in Players |-> "none"]
    /\ writers = [e \in Pipes |-> {UMPIRE}]

----------------------------------------------------------------------------
(* The umpire.                                                             *)

\* Faulty variant: the first child closes the write end of its own input, too.
ChildClosesOwn(j) == Pipes \ {Stdin(j)}

\* The child of a fork has the write ends of all pipes.  Only the second one
\* closes one of them, that of its own standard input.
ChildKeeps(j) == Pipes \ (IF j = 2 THEN {"std2in"} ELSE {})

\* Faulty variant: the loop that writes the messages starts at 1.
StartOneShort ==
    /\ pc = "start"
    /\ go' = [go EXCEPT ![turn] = Rounds - 1]
    /\ player' = [player EXCEPT ![turn] = "go"]
    /\ writers' = [e \in Pipes |->
                      IF e \in ChildKeeps(turn) THEN writers[e] \cup {turn} ELSE writers[e]]
    /\ pc' = "read"
    /\ UNCHANGED <<turn, p, score, out>>

\* All GO messages are in the pipe before the player exists.
Start ==
    /\ pc = "start"
    /\ go' = [go EXCEPT ![turn] = Rounds]
    /\ player' = [player EXCEPT ![turn] = "go"]
    /\ writers' = [e \in Pipes |->
                      IF e \in ChildKeeps(turn) THEN writers[e] \cup {turn} ELSE writers[e]]
    /\ pc' = "read"
    /\ UNCHANGED <<turn, p, score, out>>

\* Faulty variant: a character is looked at and stays in the pipe.
PeekMove ==
    /\ pc = "read" /\ out[turn] # <<>>
    /\ p' = [p EXCEPT ![turn] = Append(@, Head(out[turn]))]
    /\ IF Len(p[turn]) + 1 < Rounds THEN UNCHANGED <<pc, turn>>
       ELSE IF turn = 1 THEN pc' = "start" /\ turn' = 2
       ELSE pc' = "score" /\ UNCHANGED turn
    /\ UNCHANGED <<out, score, go, player, writers>>

\* One character.  The umpire itself holds the write end of the pipe that it
\* reads, so an empty pipe blocks it, whatever has become of the player.
ReadMove ==
    /\ pc = "read" /\ out[turn] # <<>>
    /\ p' = [p EXCEPT ![turn] = Append(@, Head(out[turn]))]
    /\ out' = [out EXCEPT ![turn] = Tail(@)]
    /\ IF Len(p[turn]) + 1 < Rounds THEN UNCHANGED <<pc, turn>>
       ELSE IF turn = 1 THEN pc' = "start" /\ turn' = 2
       ELSE pc' = "score" /\ UNCHANGED turn
    /\ UNCHANGED <<score, go, player, writers>>

\* Faulty variant: the loser first.
Loses == {<<0, 1>>, <<1, 2>>, <<2, 0>>}

\* The three wins as the code lists them, winner first.
Beats == {<<1, 0>>, <<2, 1>>, <<0, 2>>}

\* Faulty variant: wins less losses.
Margin(a, b) == Cardinality({i \in 1 .. Rounds : <<a[i], b[i]>> \in Beats})
                - Cardinality({i \in 1 .. Rounds : <<b[i], a[i]>> \in Beats})

Wins(a, b) == Cardinality({i \in 1 .. Rounds : <<a[i], b[i]>> \in Beats})

\* Count, print, return: the exit closes the umpire's ends.
Score ==
    /\ pc = "score"
    /\ score' = [j \in Players |-> Wins(p[j], p[3 - j])]
    /\ writers' = [e \in Pipes |-> writers[e] \ {UMPIRE}]
    /\ pc' = "over"
    /\ UNCHANGED <<turn, p, go, out, player>>

----------------------------------------------------------------------------
(* The players.  The umpire sends nothing but GO, so the test of the       *)
(* message never fails.                                                    *)

ReadGo(j) ==
    /\ player[j] = "go" /\ go[j] > 0
    /\ go' = [go EXCEPT ![j] = @ - 1]
    /\ player' = [player EXCEPT ![j] = "move"]
    /\ UNCHANGED <<pc, turn, p, score, out, writers>>

\* chooseMove draws a move.
Move(j) ==
    /\ player[j] = "move"
    /\ \E m \in Moves : out' = [out EXCEPT ![j] = Append(@, m)]
    /\ player' = [player EXCEPT ![j] = "go"]
    /\ UNCHANGED <<pc, turn, p, score, go, writers>>

\* The exit of a player closes its ends.
Ends(j, how) ==
    /\ player' = [player EXCEPT ![j] = how]
    /\ writers' = [e \in Pipes |-> writers[e] \ {j}]
    /\ UNCHANGED <<pc, turn, p, score, go, out>>

\* read returns 0, "end of game": nobody can write to this pipe any more.
SeeEnd(j) ==
    /\ player[j] = "go" /\ go[j] = 0
    /\ writers[Stdin(j)] = {}
    /\ Ends(j, "done")

\* execl fails, or the program ends for a reason of its own.
Leave(j) ==
    /\ j \in Leavers /\ player[j] \in {"go", "move"}
    /\ Ends(j, "left")

----------------------------------------------------------------------------
Next == \/ Start \/ ReadMove \/ Score
        \/ \E j \in Players : ReadGo(j) \/ Move(j) \/ SeeEnd(j) \/ Leave(j)

Spec == Init /\ [][Next]_vars

\* The scheduler gives every process that can run its turns; nothing makes a
\* player leave.
FairSpec == /\ Spec
            /\ WF_vars(Start \/ ReadMove \/ Score)
            /\ \A j \in Players : WF_vars(ReadGo(j) \/ Move(j) \/ SeeEnd(j))

----------------------------------------------------------------------------
TypeOK ==
    /\ pc \in {"start", "read", "score", "over"}
    /\ turn \in Players
    /\ p \in [Players -> Seq(Moves)]
    /\ score \in [Players -> 0 .. Rounds]
    /\ go \in [Players -> 0 .. Rounds]
    /\ out \in [Players -> Seq(Moves)]
    /\ player \in [Players -> {"none", "go", "move", "done", "left"}]
    /\ writers \in [Pipes -> SUBSET Process]

Started(j) == player[j] # "none"

\* Each GO gets exactly one answer and each answer is read once: as long as a
\* player stays, its moves that were read, those under way, the one it is about
\* to make and the messages it has not read yet are together the rounds of the
\* match.  A message or a move lost or read twice would shift the rounds of one
\* player against those of the other (umpire.c:34-39, 61-68, 72-77, 101-108).
RoundsKept ==
    \A j \in Players :
        LET all == Len(p[j]) + Len(out[j]) + go[j]
        IN  /\ player[j] \in {"go", "done"} => all = Rounds
            /\ player[j] = "move" => all + 1 = Rounds
            /\ player[j] = "left" => all <= Rounds
            /\ player[j] = "none" => all = 0

\* The printed scores are those of the rules, a throw wins against its
\* predecessor modulo 3, for two complete lists of moves (umpire.c:110-114).
ScoresFair ==
    pc = "over" =>
        /\ \A j \in Players : Len(p[j]) = Rounds
        /\ \A j \in Players :
              score[j] = Cardinality({i \in 1 .. Rounds : p[j][i] = (p[3-j][i] + 1) % 3})

\* Who learns that the game is over.  Player 1 keeps the write end of its own
\* standard input (umpire.c:45-53 closes nothing), so it never reads 0; player 2
\* does only when player 1 has left, which holds a copy of the other write end
\* as well (both pipes exist before the first fork).
EndOfGame ==
    /\ player[1] # "done"
    /\ player[2] = "done" => pc = "over" /\ player[1] = "left"

\* The match ends, or the umpire waits for a player that has left with moves
\* missing, in a read that can never return (umpire.c:63, 103).
WaitsForLeaver == /\ pc = "read" /\ player[turn] = "left"
                  /\ out[turn] = <<>> /\ Len(p[turn]) < Rounds
MatchEnds == <>(pc = "over" \/ WaitsForLeaver)
=============================================================================
