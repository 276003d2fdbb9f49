----------------------------- MODULE Tournament -----------------------------
(***************************************************************************)
(* The tournament of rock, paper and scissors, Assignment1/Part2/2.2:      *)
(* umpire2.c, gameUtils.c and the players of player.c.                     *)
(*                                                                         *)
(* Level by level, the umpire lets every active player make the moves of a *)
(* match, in the order of their numbers and each for itself, then pairs    *)
(* them and drops the losers.  If their number is odd, getWalkOver names   *)
(* one that is not paired.                                                 *)
(***************************************************************************)
EXTENDS Integers, Sequences, FiniteSets

CONSTANTS
    Games,      \* pairs of a number of players and a number of rounds
    WalkOvers,  \* what getWalkOver may return: {1} for the stub of gameUtils.c
    Missing     \* players whose executable cannot be executed

ASSUME GamesArePairs == Games \subseteq (Nat \ {0}) \X (Nat \ {0})
ASSUME WalkOversArePlaces == WalkOvers \subseteq Nat \ {0}

VARIABLES
    nplayers, nround,
    pc,             \* the umpire: "level", "scan", "ask", "answer", "match", "over", "lost"
    active, nactive,
    record,         \* the rows of all players, one behind the other, and a byte more
    activePlayer,   \* the active players in the order of the scan
    i, k,           \* player and round of the scan
    wid, pair,
    go, out,        \* GO messages in std_in[j], characters in std_out[j]
    player          \* waiting for "go", about to "move", "ended"

game    == <<nplayers, nround>>
left    == <<active, nactive>>
list    == <<activePlayer, i, k>>
pairing == <<wid, pair>>
players == <<go, out, player>>
vars    == <<game, pc, left, record, list, pairing, players>>

Players == 0 .. nplayers - 1
Moves   == 0 .. 2           \* the characters '0', '1', '2'
NUL     == -1
Junk    == -2               \* a cell that was not written

\* record[a][r] of the two-dimensional array.
Cell(a, r) == a * nround + r
Cells      == 0 .. nplayers * nround

Init ==
    /\ \E g \in Games : nplayers = g[1] /\ nround = g[2]
    /\ pc = "level"
    /\ active = [j \in Players |-> TRUE] /\ nactive = nplayers
    /\ record = [c \in Cells |-> Junk]
    /\ activePlayer = <<>>
    /\ i = 0 /\ k = 0 /\ wid = -1 /\ pair = 0
    /\ go = [j \in Players |-> 0] /\ out = [j \in Players |-> <<>>]
    /\ player = [j \in Players |-> IF j \in Missing THEN "ended" ELSE "go"]

----------------------------------------------------------------------------
(* The umpire asks all active players for their moves.                     *)

\* The loop over the levels; record and activePlayer are new variables in each.
NewLevel ==
    /\ pc = "level" /\ nactive # 1
    /\ record' = [c \in Cells |-> Junk]
    /\ activePlayer' = <<>>
    /\ i' = 0 /\ pc' = "scan"
    /\ UNCHANGED <<game, left, k, pairing, players>>

SkipInactive ==
    /\ pc = "scan" /\ i < nplayers /\ ~active[i]
    /\ i' = i + 1
    /\ UNCHANGED <<game, pc, left, record, activePlayer, k, pairing, players>>

\* activePlayer has nactive places.  A store behind them overwrites variables of
\* the umpire; the module does not say what happens then.
TakeActive ==
    /\ pc = "scan" /\ i < nplayers /\ active[i]
    /\ IF Len(activePlayer) < nactive
       THEN activePlayer' = Append(activePlayer, i) /\ k' = 0 /\ pc' = "ask"
       ELSE pc' = "lost" /\ UNCHANGED <<activePlayer, k>>
    /\ UNCHANGED <<game, left, record, i, pairing, players>>

\* Faulty variant: GO is sent once for all rounds.
AskOnce ==
    /\ pc = "ask"
    /\ go' = [go EXCEPT ![i] = IF k = 0 THEN @ + 1 ELSE @]
    /\ pc' = "answer"
    /\ UNCHANGED <<game, left, record, list, pairing, out, player>>

Ask ==
    /\ pc = "ask"
    /\ go' = [go EXCEPT ![i] = @ + 1]
    /\ pc' = "answer"
    /\ UNCHANGED <<game, left, record, list, pairing, out, player>>

\* Faulty variants: one round less, and one round more.
LastButOne == k + 2 >= nround
OneTooMany == k >= nround

LastRound == k + 1 >= nround

\* The umpire holds the write end of the pipe itself: with no character in it,
\* it waits.  Behind its last move each row gets a 0, which is the first cell of
\* the next row; behind the last row it is a byte that is not part of the array.
Answer ==
    /\ pc = "answer" /\ out[i] # <<>>
    /\ out' = [out EXCEPT ![i] = Tail(@)]
    /\ LET read == [record EXCEPT ![Cell(i, k)] = Head(out[i])]
       IN  IF LastRound
           THEN record' = [read EXCEPT ![Cell(i, nround)] = NUL]
                /\ k' = 0 /\ i' = i + 1 /\ pc' = "scan"
           ELSE record' = read /\ k' = k + 1 /\ i' = i /\ pc' = "ask"
    /\ UNCHANGED <<game, left, activePlayer, pairing, go, player>>

\* "Return any number between 1 and numActivePlayers"; the stub returns 1.
getWalkOver(numActivePlayers) == WalkOvers \cap (1 .. numActivePlayers)

Draw ==
    /\ pc = "scan" /\ i = nplayers
    /\ IF nactive % 2 = 1 THEN wid' \in getWalkOver(nactive) ELSE wid' = -1
    /\ pair' = 0 /\ pc' = "match"
    /\ UNCHANGED <<game, left, record, list, players>>

----------------------------------------------------------------------------
(* Pairing.                                                                *)

At(place) == activePlayer[place + 1]
HasAt(place) == place < Len(activePlayer)

\* wid is compared with the number of a player.
GetsWalkOver(place) == HasAt(place) /\ At(place) = wid

SkipWalkOver ==
    /\ pc = "match" /\ GetsWalkOver(pair)
    /\ pair' = pair + 1
    /\ UNCHANGED <<game, pc, left, record, list, wid, players>>

\* Faulty variant: forgets that the walk-over may be next.
AlwaysNext(place) == place + 1

Opponent(place) == IF GetsWalkOver(place + 1) THEN place + 2 ELSE place + 1

Beats == {<<1, 0>>, <<2, 1>>, <<0, 2>>}     \* winner first

Wins(a, b) ==
    Cardinality({r \in 0 .. nround - 1 : <<record[Cell(a, r)], record[Cell(b, r)]>> \in Beats})

Loser(a, b) == IF Wins(a, b) >= Wins(b, a) THEN b ELSE a

Play ==
    /\ pc = "match" /\ HasAt(pair) /\ ~GetsWalkOver(pair)
    /\ HasAt(Opponent(pair))
    /\ active' = [active EXCEPT ![Loser(At(pair), At(Opponent(pair)))] = FALSE]
    /\ nactive' = nactive - 1
    /\ pair' = Opponent(pair) + 1
    /\ UNCHANGED <<game, pc, record, list, wid, players>>

\* The last player has nobody to play against: pid2 is what lies behind
\* activePlayer.  If it happens to be the number of a player, that one or pid1
\* loses; else pid1 loses, or memory outside of active is set to 0.
PlayNobody ==
    /\ pc = "match" /\ HasAt(pair) /\ ~GetsWalkOver(pair)
    /\ ~HasAt(Opponent(pair))
    /\ \/ \E loser \in Players : active' = [active EXCEPT ![loser] = FALSE]
       \/ UNCHANGED active
    /\ nactive' = nactive - 1
    /\ pair' = Opponent(pair) + 1
    /\ UNCHANGED <<game, pc, record, list, wid, players>>

EndLevel ==
    /\ pc = "match" /\ ~HasAt(pair)
    /\ pc' = "level"
    /\ UNCHANGED <<game, left, record, list, pairing, players>>

\* One player is left, as far as nactive says.
Finish ==
    /\ pc = "level" /\ nactive = 1
    /\ pc' = "over"
    /\ UNCHANGED <<game, left, record, list, pairing, players>>

----------------------------------------------------------------------------
(* The players.                                                            *)

ReadGo(j) ==
    /\ player[j] = "go" /\ go[j] > 0
    /\ go' = [go EXCEPT ![j] = @ - 1]
    /\ player' = [player EXCEPT ![j] = "move"]
    /\ UNCHANGED <<game, pc, left, record, list, pairing, out>>

Move(j) ==
    /\ player[j] = "move"
    /\ \E m \in Moves : out' = [out EXCEPT ![j] = Append(@, m)]
    /\ player' = [player EXCEPT ![j] = "go"]
    /\ UNCHANGED <<game, pc, left, record, list, pairing, go>>

\* All pipes exist before the first fork, and child j closes only the write end
\* of its own standard input: all other players keep a copy.
CanWrite(j) == \/ pc # "over"
               \/ \E other \in Players \ {j} : player[other] # "ended"

\* read returns 0, "end of game".
SeeEnd(j) ==
    /\ player[j] = "go" /\ go[j] = 0 /\ ~CanWrite(j)
    /\ player' = [player EXCEPT ![j] = "ended"]
    /\ UNCHANGED <<game, pc, left, record, list, pairing, go, out>>

----------------------------------------------------------------------------
UmpireNext == \/ NewLevel \/ SkipInactive \/ TakeActive \/ Ask \/ Answer \/ Draw
              \/ SkipWalkOver \/ Play \/ PlayNobody \/ EndLevel \/ Finish

PlayerNext(j) == ReadGo(j) \/ Move(j) \/ SeeEnd(j)

Next == UmpireNext \/ \E j \in Players : PlayerNext(j)

Spec == Init /\ [][Next]_vars

\* The scheduler gives every process its turns.
FairSpec == /\ Spec
            /\ WF_vars(UmpireNext)
            /\ WF_vars(\E j \in Players : PlayerNext(j))

----------------------------------------------------------------------------
Active == {j \in Players : active[j]}

TypeOK ==
    /\ <<nplayers, nround>> \in Games
    /\ pc \in {"level", "scan", "ask", "answer", "match", "over", "lost"}
    /\ active \in [Players -> BOOLEAN]
    /\ nactive \in 1 .. nplayers
    /\ record \in [Cells -> Moves \cup {NUL, Junk}]
    /\ activePlayer \in Seq(Players)
    /\ i \in 0 .. nplayers /\ k \in 0 .. nround - 1
    /\ wid \in {-1} \cup 1 .. nplayers
    /\ pair \in 0 .. nplayers + 2
    /\ go \in [Players -> Nat]
    /\ out \in [Players -> Seq(Moves)]
    /\ player \in [Players -> {"go", "move", "ended"}]

\* A level of n players leaves n/2 of them, rounded up, and nactive says so: each
\* of them but the one with the walk-over plays once.  This needs the number
\* that getWalkOver returned to be the number of an active player (umpire2.c:137,
\* 143 compare it with one); if it is not, somebody plays against what lies behind
\* the list, and nactive is one less than half, whatever that does to active.
Missed == Len(activePlayer) % 2 = 1 /\ \A place \in DOMAIN activePlayer : activePlayer[place] # wid

HalfAdvance ==
    pc \in {"level", "over"} /\ activePlayer # <<>> =>
        LET n == Len(activePlayer)
        IN  IF Missed THEN 2 * nactive = n - 1
            ELSE nactive = (n + 1) \div 2 /\ Cardinality(Active) = nactive

\* What gameUtils.c:4-5 promises of the walk-over: it is the n-th active player,
\* so in a level of an odd number of players one of them has it.  The number is
\* used as that of a player, who may be out already (umpire2.c:137, 143).
WalkOverIsActive == pc = "match" => ~Missed

\* When the matches are decided, every active player has made all its moves in
\* this level, none of them is overwritten by the 0 of another row (umpire2.c:130),
\* and no message or move of this level is left over for the next one.
LevelClosed ==
    pc = "match" =>
        /\ \A place \in DOMAIN activePlayer : \A r \in 0 .. nround - 1 :
              record[Cell(activePlayer[place], r)] \in Moves
        /\ \A j \in Players : go[j] = 0 /\ out[j] = <<>> /\ player[j] # "move"

\* Points of a against b by the rules: a throw wins against its predecessor.
Points(a, b) == Cardinality({r \in 0 .. nround - 1 :
                    record[Cell(a, r)] = (record[Cell(b, r)] + 1) % 3})

\* The pairs of a level: the active players in the order of their numbers, without
\* the one that has the walk-over, the first with the second, the third with the
\* fourth, and so on.
Contestants == {place \in DOMAIN activePlayer : activePlayer[place] # wid}
Rank(place) == Cardinality({c \in Contestants : c < place})
Paired(a, b) == \E x, y \in Contestants :
                   /\ activePlayer[x] = a /\ activePlayer[y] = b
                   /\ x # y /\ Rank(x) \div 2 = Rank(y) \div 2

LostTo(a, b) == Points(b, a) > Points(a, b) \/ (Points(b, a) = Points(a, b) /\ b < a)

\* A player is out only after a match against the player that it is paired with in
\* this level, which stays in and has more points, or as many and a smaller number
\* (umpire2.c:141-169).  The exception is the last place of a level in which
\* nobody has the walk-over it needs: there is nobody to play against.
LosersLost ==
    [][\A a \in Players : active[a] /\ ~active'[a] =>
          \/ Missed /\ pair + 1 = Len(activePlayer)
          \/ \E b \in Players : Paired(a, b) /\ active[b] /\ active'[b] /\ LostTo(a, b)]_vars

\* The tournament ends, when all players could be started: no read waits for ever,
\* and the number of active players reaches 1.  The other end is a store behind
\* activePlayer (umpire2.c:112, 118), about which nothing is said from then on; it
\* needs more active players than nactive counts.
Startable == \A j \in Players : j \notin Missing
TournamentEnds ==
    Startable ~> pc = "over" \/ (pc = "lost" /\ nactive < Cardinality(Active))
=============================================================================
