-------------------------- MODULE TournamentProofs --------------------------
(***************************************************************************)
(* Proofs about Tournament, for any number of players and of rounds.       *)
(***************************************************************************)
EXTENDS Tournament, FiniteSetTheorems, SequenceTheorems, TLAPS

\* The active players before b.
Before(b) == {j \in Active : j < b}

\* Up to where the scan has come.
Bound == IF pc = "scan" THEN i ELSE i + 1

\* nactive never exceeds the number of the active players; it is less only after
\* a match against nobody.
Counted == nactive <= Cardinality(Active)

Increasing == \A a, b \in 1 .. Len(activePlayer) : a < b => activePlayer[a] < activePlayer[b]

\* The list is the active players that were scanned.
Scanning ==
    pc \in {"scan", "ask", "answer"} =>
        /\ nactive # 1
        /\ Increasing
        /\ Len(activePlayer) <= nactive
        /\ pc # "scan" => i < nplayers
        /\ \A a \in 1 .. Len(activePlayer) : activePlayer[a] < Bound
        /\ \A j \in Before(Bound) : \E a \in 1 .. Len(activePlayer) : activePlayer[a] = j
        /\ \A a \in 1 .. Len(activePlayer) : active[activePlayer[a]]
        /\ Cardinality(Before(Bound)) = Len(activePlayer)

\* The player with the walk-over is among the first places.
WalkedOver == \E a \in 1 .. Len(activePlayer) : a <= pair /\ activePlayer[a] = wid

\* Every match so far took two places and one player out, and the walk-over one
\* place; all behind them are active.
Regular ==
    /\ pair <= Len(activePlayer)
    /\ pair = 2 * (Len(activePlayer) - nactive) + (IF WalkedOver THEN 1 ELSE 0)
    /\ Cardinality(Active) = nactive
    /\ \A a \in 1 .. Len(activePlayer) : a > pair => active[activePlayer[a]]

\* After a match against nobody.
Irregular == Missed /\ pair = Len(activePlayer) + 1 /\ 2 * nactive = Len(activePlayer) - 1

Pairing ==
    pc = "match" =>
        /\ Len(activePlayer) \in 2 .. nplayers
        /\ Increasing
        /\ Len(activePlayer) % 2 = 0 => wid = -1
        /\ Regular \/ Irregular

\* The inductive invariant.
IInv == TypeOK /\ Counted /\ Scanning /\ Pairing /\ HalfAdvance

----------------------------------------------------------------------------
\* The number of players and the length of the list are natural numbers.
LEMMA Numbers ==
    ASSUME TypeOK
    PROVE  /\ nplayers \in Nat \ {0} /\ nround \in Nat \ {0}
           /\ nactive \in Nat \ {0} /\ Len(activePlayer) \in Nat
           /\ i \in Nat /\ pair \in Nat /\ wid \in Int
           /\ \A a \in 1 .. Len(activePlayer) : activePlayer[a] \in Players
<1>1. nplayers \in Nat \ {0} /\ nround \in Nat \ {0}
  BY GamesArePairs DEF TypeOK
<1>2. nactive \in Nat \ {0} /\ i \in Nat /\ pair \in Nat /\ wid \in Int
  BY <1>1 DEF TypeOK
<1>3. activePlayer \in Seq(Players)
  BY DEF TypeOK
<1>4. Len(activePlayer) \in Nat /\ \A a \in 1 .. Len(activePlayer) : activePlayer[a] \in Players
  BY <1>3
<1> QED
  BY <1>1, <1>2, <1>4

\* The players, and so the active ones, are finitely many.
LEMMA ActiveFinite ==
    ASSUME TypeOK
    PROVE  /\ IsFiniteSet(Active) /\ Cardinality(Active) \in Nat
           /\ \A b : IsFiniteSet(Before(b)) /\ Cardinality(Before(b)) \in Nat
           /\ Cardinality(Active) <= nplayers
<1>1. nplayers \in Nat \ {0}
  BY Numbers
<1>2. IsFiniteSet(Players) /\ Cardinality(Players) = nplayers
  BY <1>1, FS_Interval DEF Players
<1>3. Active \subseteq Players
  BY DEF Active
<1>4. IsFiniteSet(Active) /\ Cardinality(Active) <= nplayers
  BY <1>2, <1>3, FS_Subset
<1>5. \A b : Before(b) \subseteq Active
  BY DEF Before
<1> QED
  BY <1>4, <1>5, FS_Subset, FS_CardinalityType

\* One player that was active is not any more.
LEMMA OneOut ==
    ASSUME TypeOK, NEW a \in Active, active' = [active EXCEPT ![a] = FALSE],
           nplayers' = nplayers
    PROVE  Cardinality(Active') = Cardinality(Active) - 1
<1>1. Active' = Active \ {a}
  BY DEF Active, Players, TypeOK
<1>2. IsFiniteSet(Active)
  BY ActiveFinite
<1> QED
  BY <1>1, <1>2, FS_RemoveElement

\* Whatever one store into active does, at most one player is out.
LEMMA AtMostOneOut ==
    ASSUME TypeOK, NEW a \in Players, active' = [active EXCEPT ![a] = FALSE],
           nplayers' = nplayers
    PROVE  Cardinality(Active') >= Cardinality(Active) - 1
<1>1. CASE a \in Active
  <2>1. Cardinality(Active) \in Nat
    BY ActiveFinite
  <2>2. Cardinality(Active') = Cardinality(Active) - 1
    BY <1>1, OneOut
  <2> QED
    BY <2>1, <2>2
<1>2. CASE a \notin Active
  <2>1. Active' = Active
    BY <1>2 DEF Active, Players, TypeOK
  <2>2. Cardinality(Active) \in Nat
    BY ActiveFinite
  <2> QED
    BY <2>1, <2>2
<1> QED
  BY <1>1, <1>2

----------------------------------------------------------------------------
\* Parity, for natural numbers.
LEMMA Parity ==
    ASSUME NEW m \in Int
    PROVE  (2 * m) % 2 = 0 /\ (2 * m + 1) % 2 = 1 /\ (2 * m) \div 2 = m
           /\ (2 * m + 1) \div 2 = m
OBVIOUS

----------------------------------------------------------------------------
LEMMA InitIInv == Init => IInv
<1> SUFFICES ASSUME Init PROVE IInv
  OBVIOUS
<1>1. PICK g \in Games : nplayers = g[1] /\ nround = g[2]
  BY DEF Init
<1>2. nplayers \in Nat \ {0} /\ nround \in Nat \ {0} /\ <<nplayers, nround>> \in Games
  BY <1>1, GamesArePairs
<1>3. TypeOK
  BY <1>2 DEF Init, TypeOK, Players, Cells
<1>4. Active = Players
  BY DEF Active, Init
<1>5. Cardinality(Active) = nplayers
  BY <1>2, <1>4, FS_Interval DEF Players
<1>6. Counted
  BY <1>2, <1>5 DEF Counted, Init
<1> QED
  BY <1>3, <1>6 DEF IInv, Scanning, Pairing, HalfAdvance, Init

----------------------------------------------------------------------------
\* The scan.

LEMMA NewLevelIInv == IInv /\ NewLevel => IInv'
<1> SUFFICES ASSUME IInv, NewLevel PROVE IInv'
  OBVIOUS
<1>0. TypeOK
  BY DEF IInv
<1>1. TypeOK'
  BY Numbers DEF IInv, NewLevel, TypeOK, Players, Cells, Moves, game, left, pairing, players
<1>2. Active' = Active /\ nactive' = nactive
  BY DEF NewLevel, Active, Players, game, left
<1>3. Counted'
  BY <1>2 DEF IInv, Counted
<1>4. Before(0)' = {}
  BY <1>2 DEF Before, Active, Players
<1>5. Cardinality(Before(0)') = 0
  BY <1>4, FS_EmptySet
<1>6. Scanning'
  <2>1. activePlayer' = <<>> /\ Len(activePlayer') = 0 /\ Bound' = 0 /\ pc' = "scan" /\ nactive' # 1
    BY DEF NewLevel, Bound, left
  <2>2. Before(Bound)' = {}
    BY <1>4, <2>1 DEF Before
  <2>3. nactive' \in Nat /\ 1 .. Len(activePlayer') = {}
    BY <1>0, <1>2, <2>1, Numbers
  <2>4. Increasing' /\ Len(activePlayer') <= nactive'
    BY <2>1, <2>3 DEF Increasing
  <2>5. Cardinality(Before(Bound)') = Len(activePlayer')
    BY <2>1, <2>2, FS_EmptySet
  <2> QED
    BY <2>1, <2>2, <2>3, <2>4, <2>5 DEF Scanning
<1> QED
  BY <1>1, <1>3, <1>6 DEF IInv, Pairing, HalfAdvance, NewLevel

\* The active players before j + 1 are those before j, and j if it is active.
LEMMA BeforeNext ==
    ASSUME TypeOK, NEW j \in Players
    PROVE  Before(j + 1) = IF active[j] THEN Before(j) \cup {j} ELSE Before(j)
<1>1. nplayers \in Nat
  BY Numbers
<1>2. Players \subseteq Int
  BY <1>1 DEF Players
<1>3. \A x \in Players : x < j + 1 <=> (x < j \/ x = j)
  BY <1>2
<1> QED
  BY <1>3 DEF Before, Active

LEMMA SkipInactiveIInv == IInv /\ SkipInactive => IInv'
<1> SUFFICES ASSUME IInv, SkipInactive PROVE IInv'
  OBVIOUS
<1>0. TypeOK
  BY DEF IInv
<1>1. TypeOK'
  BY <1>0, Numbers DEF SkipInactive, TypeOK, Players, Cells, game, left, pairing, players
<1>2. Active' = Active /\ nactive' = nactive /\ nplayers' = nplayers /\ active' = active
  BY DEF SkipInactive, Active, Players, game, left
<1>3. Counted'
  BY <1>2 DEF IInv, Counted
<1>4. i \in Players /\ ~active[i] /\ Bound = i /\ Bound' = i + 1
  BY <1>0, Numbers DEF SkipInactive, Bound, Players
<1>5. Before(i + 1) = Before(i)
  BY <1>0, <1>4, BeforeNext
<1>6. Before(Bound)' = Before(Bound)
  <2>1. Before(Bound)' = {j \in Active' : j < Bound'}
    BY DEF Before
  <2>2. Before(i + 1) = {j \in Active : j < i + 1}
    BY DEF Before
  <2> QED
    BY ONLY <1>2, <1>4, <1>5, <2>1, <2>2
<1>7. activePlayer' = activePlayer /\ pc = "scan" /\ pc' = "scan"
  BY DEF SkipInactive
<1>8. \A a \in 1 .. Len(activePlayer) : activePlayer[a] < Bound'
  BY <1>0, <1>4, <1>7, Numbers DEF IInv, Scanning, Players
<1>9. Scanning'
  BY <1>2, <1>6, <1>7, <1>8 DEF IInv, Scanning, Increasing
<1> QED
  BY <1>1, <1>3, <1>7, <1>9 DEF IInv, Pairing, HalfAdvance

LEMMA TakeActiveIInv == IInv /\ TakeActive => IInv'
<1> SUFFICES ASSUME IInv, TakeActive PROVE IInv'
  OBVIOUS
<1>0. TypeOK
  BY DEF IInv
<1>2. Active' = Active /\ nactive' = nactive /\ nplayers' = nplayers /\ active' = active
  BY DEF TakeActive, Active, Players, game, left
<1>3. Counted'
  BY <1>2 DEF IInv, Counted
<1>4. i \in Players /\ active[i] /\ Bound = i
  BY <1>0, Numbers DEF TakeActive, Bound, Players
<1>5. CASE Len(activePlayer) < nactive
  <2> DEFINE ap == activePlayer
             n == Len(activePlayer)
  <2>1. activePlayer' = Append(ap, i) /\ k' = 0 /\ pc' = "ask" /\ i' = i /\ pc = "scan"
    BY <1>5 DEF TakeActive
  <2>2. ap \in Seq(Players) /\ n \in Nat
    BY <1>0, Numbers DEF TypeOK
  <2>3. /\ Len(activePlayer') = n + 1 /\ activePlayer'[n + 1] = i
        /\ \A a \in 1 .. n : activePlayer'[a] = ap[a]
        /\ activePlayer' \in Seq(Players)
    BY <1>4, <2>1, <2>2
  <2>4. TypeOK'
    <3>1. k' \in 0 .. nround' - 1
      BY <1>0, <2>1, Numbers DEF TakeActive, game
    <3>2. activePlayer' \in Seq(Players') /\ Players' = Players /\ Cells' = Cells
      BY <1>2, <2>3 DEF Players, Cells, TakeActive, game
    <3> QED
      BY <1>0, <2>1, <3>1, <3>2 DEF TakeActive, TypeOK, game, left, pairing, players
  <2>5. Bound' = i + 1
    BY <2>1 DEF Bound
  <2>6. Before(i + 1) = Before(i) \cup {i}
    BY <1>0, <1>4, BeforeNext
  <2>7. Before(Bound)' = Before(Bound) \cup {i}
    BY <1>2, <1>4, <2>5, <2>6 DEF Before
  <2>8. i \notin Before(Bound)
    BY <1>0, <1>4, Numbers DEF Before
  <2>9. Cardinality(Before(Bound)') = n + 1
    <3>1. Cardinality(Before(Bound)) = n
      BY <2>1 DEF IInv, Scanning
    <3> QED
      BY <1>0, <3>1, <2>7, <2>8, ActiveFinite, FS_AddElement
  <2>10. \A a \in 1 .. n : ap[a] < i /\ ap[a] \in Players /\ active[ap[a]]
    BY <1>0, <1>4, <2>1, Numbers DEF IInv, Scanning
  <2>11. Increasing'
    <3> SUFFICES ASSUME NEW a \in 1 .. n + 1, NEW b \in 1 .. n + 1, a < b
                 PROVE  activePlayer'[a] < activePlayer'[b]
      BY <2>3 DEF Increasing
    <3>1. a \in 1 .. n
      BY <2>2
    <3>2. CASE b = n + 1
      BY <3>1, <3>2, <2>3, <2>10
    <3>3. CASE b \in 1 .. n
      BY <3>1, <3>3, <2>1, <2>3 DEF IInv, Scanning, Increasing
    <3> QED
      BY <2>2, <3>2, <3>3
  <2>12. \A a \in 1 .. n + 1 : activePlayer'[a] < Bound' /\ active'[activePlayer'[a]]
    <3> SUFFICES ASSUME NEW a \in 1 .. n + 1
                 PROVE  activePlayer'[a] < i + 1 /\ active[activePlayer'[a]]
      BY <1>2, <2>5
    <3>1. nplayers \in Nat /\ i \in Nat
      BY <1>0, Numbers
    <3>2. CASE a = n + 1
      BY <3>1, <3>2, <2>3, <1>4
    <3>3. CASE a \in 1 .. n
      BY <3>1, <3>3, <2>3, <2>10 DEF Players
    <3> QED
      BY <2>2, <3>2, <3>3
  <2>13. \A j \in Before(Bound)' : \E a \in 1 .. n + 1 : activePlayer'[a] = j
    <3> SUFFICES ASSUME NEW j \in Before(Bound)'
                 PROVE  \E a \in 1 .. n + 1 : activePlayer'[a] = j
      OBVIOUS
    <3>1. CASE j = i
      BY <3>1, <2>2, <2>3
    <3>2. CASE j \in Before(Bound)
      <4>1. PICK a \in 1 .. n : ap[a] = j
        BY <3>2, <2>1 DEF IInv, Scanning
      <4> QED
        BY <4>1, <2>2, <2>3
    <3> QED
      BY <3>1, <3>2, <2>7
  <2>14. n + 1 <= nactive' /\ nactive' # 1 /\ i < nplayers'
    BY <1>0, <1>2, <1>5, <2>1, <2>2, Numbers DEF IInv, Scanning, TakeActive
  <2>15. Scanning'
    BY <2>1, <2>3, <2>9, <2>11, <2>12, <2>13, <2>14 DEF Scanning
  <2> QED
    BY <1>3, <2>1, <2>4, <2>15 DEF IInv, Pairing, HalfAdvance
<1>6. CASE ~(Len(activePlayer) < nactive)
  <2>1. pc' = "lost" /\ UNCHANGED <<activePlayer, k>>
    BY <1>6 DEF TakeActive
  <2>2. TypeOK'
    BY <1>0, <2>1 DEF TakeActive, TypeOK, Players, Cells, game, left, pairing, players
  <2> QED
    BY <1>3, <2>1, <2>2 DEF IInv, Scanning, Pairing, HalfAdvance
<1> QED
  BY <1>5, <1>6

LEMMA AskIInv == IInv /\ Ask => IInv'
<1> SUFFICES ASSUME IInv, Ask PROVE IInv'
  OBVIOUS
<1>0. TypeOK
  BY DEF IInv
<1>1. TypeOK'
  <2>1. go' \in [Players -> Nat]
    <3>1. i \in Players
      BY <1>0, Numbers DEF IInv, Scanning, Ask, Players
    <3> QED
      BY <1>0, <3>1 DEF Ask, TypeOK
  <2>2. Players' = Players /\ Cells' = Cells
    BY DEF Ask, Players, Cells, game
  <2> QED
    BY <1>0, <2>1, <2>2 DEF Ask, TypeOK, game, left, list, pairing
<1>2. Active' = Active /\ nactive' = nactive /\ nplayers' = nplayers /\ active' = active
      /\ activePlayer' = activePlayer /\ i' = i /\ pc = "ask" /\ pc' = "answer"
  BY DEF Ask, Active, Players, game, left, list
<1>3. Before(Bound)' = Before(Bound) /\ Bound' = Bound
  BY <1>2 DEF Before, Bound
<1> QED
  BY <1>1, <1>2, <1>3 DEF IInv, Counted, Scanning, Increasing, Pairing, HalfAdvance

LEMMA AnswerIInv == IInv /\ Answer => IInv'
<1> SUFFICES ASSUME IInv, Answer PROVE IInv'
  OBVIOUS
<1>0. TypeOK
  BY DEF IInv
<1>1. Active' = Active /\ nactive' = nactive /\ nplayers' = nplayers /\ active' = active
      /\ activePlayer' = activePlayer /\ nround' = nround /\ pc = "answer"
      /\ wid' = wid /\ pair' = pair /\ go' = go /\ player' = player
  BY DEF Answer, Active, Players, game, left, pairing
<1>2. i < nplayers /\ i \in Players
  BY <1>0, <1>1, Numbers DEF IInv, Scanning, Players
<1>3. Head(out[i]) \in Moves /\ Tail(out[i]) \in Seq(Moves)
  BY <1>0, <1>2 DEF TypeOK, Answer
<1>4. out' \in [Players -> Seq(Moves)]
  BY <1>0, <1>3 DEF TypeOK, Answer
<1>5. record' \in [Cells -> Moves \cup {NUL, Junk}]
  BY <1>0, <1>3 DEF TypeOK, Answer
<1>6. /\ k' \in 0 .. nround - 1
      /\ \/ pc' = "scan" /\ i' = i + 1
         \/ pc' = "ask" /\ i' = i
  <2>1. CASE LastRound
    BY <1>0, <2>1, Numbers DEF Answer
  <2>2. CASE ~LastRound
    BY <1>0, <2>2, Numbers DEF Answer, LastRound, TypeOK
  <2> QED
    BY <2>1, <2>2
<1>7. i' \in 0 .. nplayers
  BY <1>0, <1>2, <1>6, Numbers
<1>8. TypeOK'
  <2>1. Players' = Players /\ Cells' = Cells
    BY <1>1 DEF Players, Cells
  <2> QED
    BY <1>0, <1>1, <1>4, <1>5, <1>6, <1>7, <2>1 DEF TypeOK
<1>9. Bound' = Bound
  BY <1>1, <1>6 DEF Bound
<1>10. Before(Bound)' = Before(Bound)
  BY <1>1, <1>9 DEF Before
<1>11. Scanning'
  BY <1>1, <1>2, <1>6, <1>9, <1>10 DEF IInv, Scanning, Increasing
<1> QED
  BY <1>1, <1>6, <1>8, <1>11 DEF IInv, Counted, Pairing, HalfAdvance

\* When the scan is over, the list is all active players, and so nactive of them.
LEMMA DrawIInv == IInv /\ Draw => IInv'
<1> SUFFICES ASSUME IInv, Draw PROVE IInv'
  OBVIOUS
<1> DEFINE n == Len(activePlayer)
<1>0. TypeOK
  BY DEF IInv
<1>1. Active' = Active /\ nactive' = nactive /\ nplayers' = nplayers /\ active' = active
      /\ activePlayer' = activePlayer /\ pc = "scan" /\ pc' = "match" /\ pair' = 0 /\ i = nplayers
  BY DEF Draw, Active, Players, game, left, list
<1>2. nplayers \in Nat \ {0} /\ nactive \in Nat \ {0} /\ n \in Nat
  BY <1>0, Numbers
<1>3. Before(Bound) = Active
  BY <1>1, <1>2 DEF Before, Bound, Active, Players
<1>4. Cardinality(Active) = n
  BY <1>1, <1>3 DEF IInv, Scanning
<1>5. n = nactive /\ n \in 2 .. nplayers
  <2>1. nactive <= nplayers
    BY <1>0 DEF TypeOK
  <2> QED
    BY <1>1, <1>2, <1>4, <2>1 DEF IInv, Scanning, Counted
<1>6. wid' \in {-1} \cup 1 .. nplayers /\ (n % 2 = 0 => wid' = -1)
  <2>1. nactive <= nplayers
    BY <1>0 DEF TypeOK
  <2> QED
    BY <1>2, <1>5, <2>1 DEF Draw, getWalkOver
<1>7. TypeOK'
  <2>1. Players' = Players /\ Cells' = Cells
    BY <1>1 DEF Players, Cells, Draw, game
  <2> QED
    BY <1>0, <1>1, <1>2, <1>6, <2>1 DEF TypeOK, Draw, game, left, list, players
<1>8. ~WalkedOver'
  BY <1>1, <1>2 DEF WalkedOver
<1>9. Regular'
  BY <1>1, <1>2, <1>4, <1>5, <1>8 DEF Regular, IInv, Scanning
<1>10. Pairing'
  BY <1>1, <1>5, <1>6, <1>9 DEF Pairing, IInv, Scanning, Increasing
<1> QED
  BY <1>1, <1>7, <1>10 DEF IInv, Counted, Scanning, HalfAdvance

\* The players' steps change nothing that the umpire's list depends on.
LEMMA PlayerIInv == ASSUME NEW j \in Players PROVE IInv /\ PlayerNext(j) => IInv'
<1> SUFFICES ASSUME IInv, PlayerNext(j) PROVE IInv'
  OBVIOUS
<1>0. TypeOK
  BY DEF IInv
<1>1. UNCHANGED <<game, pc, left, record, list, pairing>>
  BY DEF PlayerNext, ReadGo, Move, SeeEnd
<1>2. go' \in [Players -> Nat] /\ out' \in [Players -> Seq(Moves)]
      /\ player' \in [Players -> {"go", "move", "ended"}]
  <2>1. CASE ReadGo(j)
    BY <1>0, <2>1 DEF ReadGo, TypeOK
  <2>2. CASE Move(j)
    BY <1>0, <2>2 DEF Move, TypeOK
  <2>3. CASE SeeEnd(j)
    BY <1>0, <2>3 DEF SeeEnd, TypeOK
  <2> QED
    BY <2>1, <2>2, <2>3 DEF PlayerNext
<1>3. TypeOK'
  BY <1>0, <1>1, <1>2 DEF TypeOK, Players, Cells, game, left, list, pairing
<1> QED
  BY <1>1, <1>3 DEF IInv, Counted, Scanning, Increasing, Pairing, Regular, Irregular, WalkedOver,
     Missed, HalfAdvance, Before, Bound, Active, Players, game, left, list, pairing

----------------------------------------------------------------------------
\* The pairing.

\* What the steps of the pairing leave alone.
LEMMA MatchKeeps ==
    ASSUME IInv, SkipWalkOver \/ Play \/ PlayNobody \/ EndLevel
    PROVE  /\ pc = "match" /\ nplayers' = nplayers /\ nround' = nround
           /\ activePlayer' = activePlayer /\ wid' = wid
           /\ record' = record /\ UNCHANGED <<list, players>>
BY DEF SkipWalkOver, Play, PlayNobody, EndLevel, game, list, left, pairing

\* The list names each player once.
LEMMA Once ==
    ASSUME TypeOK, Increasing, NEW a \in 1 .. Len(activePlayer), NEW b \in 1 .. Len(activePlayer),
           activePlayer[a] = activePlayer[b]
    PROVE  a = b
<1>1. \A c \in 1 .. Len(activePlayer) : activePlayer[c] \in Int
  BY Numbers DEF Players
<1>2. a < b \/ b < a \/ a = b
  OBVIOUS
<1> QED
  BY <1>1, <1>2 DEF Increasing

\* Before the last match the account of the pairing is the regular one.
LEMMA IsRegular ==
    ASSUME IInv, pc = "match", HasAt(pair)
    PROVE  Regular /\ pair < Len(activePlayer)
<1>1. pair < Len(activePlayer) /\ pair \in Nat /\ Len(activePlayer) \in Nat
  BY Numbers DEF IInv, HasAt
<1> QED
  BY <1>1 DEF IInv, Pairing, Irregular

\* Types that a step of the pairing has to keep.
LEMMA MatchTypes ==
    ASSUME IInv, SkipWalkOver \/ Play \/ PlayNobody \/ EndLevel,
           active' \in [Players -> BOOLEAN], nactive' \in 1 .. nplayers,
           pair' \in 0 .. nplayers + 2, pc' \in {"level", "match"}
    PROVE  TypeOK'
<1>1. Players' = Players /\ Cells' = Cells
  BY MatchKeeps DEF Players, Cells
<1> QED
  BY <1>1, MatchKeeps DEF IInv, TypeOK, list, players

LEMMA SkipWalkOverIInv == IInv /\ SkipWalkOver => IInv'
<1> SUFFICES ASSUME IInv, SkipWalkOver PROVE IInv'
  OBVIOUS
<1> DEFINE n == Len(activePlayer)
<1>0. TypeOK /\ Pairing /\ pc = "match" /\ HasAt(pair)
  BY DEF IInv, SkipWalkOver, GetsWalkOver
<1>1. /\ pair' = pair + 1 /\ nactive' = nactive /\ active' = active /\ Active' = Active
      /\ pc' = "match" /\ activePlayer' = activePlayer /\ wid' = wid /\ nplayers' = nplayers
      /\ activePlayer[pair + 1] = wid
  BY DEF SkipWalkOver, left, game, list, Active, Players, GetsWalkOver, At
<1>2. Regular /\ pair < n
  BY <1>0, IsRegular
<1>3. n \in 2 .. nplayers /\ pair \in Nat /\ nactive \in Nat /\ nplayers \in Nat
  BY <1>0, Numbers DEF Pairing
<1>4. TypeOK'
  <2>1. active' \in [Players -> BOOLEAN] /\ nactive' \in 1 .. nplayers
    BY <1>0, <1>1 DEF TypeOK
  <2>2. pair' \in 0 .. nplayers + 2
    BY <1>1, <1>2, <1>3
  <2> QED
    BY <1>1, <2>1, <2>2, MatchTypes
<1>5. ~WalkedOver
  BY <1>0, <1>1, <1>2, <1>3, Once DEF WalkedOver, Pairing
<1>6. WalkedOver'
  BY <1>1, <1>2, <1>3 DEF WalkedOver
<1>7. Regular'
  BY <1>1, <1>2, <1>3, <1>5, <1>6 DEF Regular
<1>8. Pairing'
  BY <1>0, <1>1, <1>7 DEF Pairing, Increasing
<1> QED
  BY <1>0, <1>1, <1>4, <1>8 DEF IInv, Counted, Scanning, HalfAdvance

\* The two places of a match: neither has the walk-over, and if it is between
\* them the second place is one further.
LEMMA Opponents ==
    ASSUME IInv, pc = "match", HasAt(pair), ~GetsWalkOver(pair)
    PROVE  LET n == Len(activePlayer) IN
           \/ Opponent(pair) = pair + 1 /\ (pair + 1 < n => activePlayer[pair + 2] # wid)
           \/ Opponent(pair) = pair + 2 /\ pair + 1 < n /\ activePlayer[pair + 2] = wid /\ ~WalkedOver
<1> DEFINE n == Len(activePlayer)
<1>1. Regular /\ pair < n
  BY IsRegular
<1>2. n \in Nat /\ pair \in Nat /\ TypeOK /\ Increasing
  BY Numbers DEF IInv, Pairing
<1>3. pair + 1 + 1 = pair + 2
  BY <1>2
<1>4. GetsWalkOver(pair + 1) <=> pair + 1 < n /\ activePlayer[pair + 2] = wid
  BY <1>3 DEF GetsWalkOver, HasAt, At
<1>5. CASE GetsWalkOver(pair + 1)
  <2>1. ~WalkedOver
    BY <1>2, <1>4, <1>5, Once DEF WalkedOver
  <2> QED
    BY <1>4, <1>5, <2>1 DEF Opponent
<1>6. CASE ~GetsWalkOver(pair + 1)
  BY <1>4, <1>6 DEF Opponent
<1> QED
  BY <1>5, <1>6

\* A match takes the places up to the opponent's, and one of two players that were
\* active.
LEMMA PlayIInv == IInv /\ Play => IInv'
<1> SUFFICES ASSUME IInv, Play PROVE IInv'
  OBVIOUS
<1> DEFINE n == Len(activePlayer)
           opp == Opponent(pair)
           loser == Loser(At(pair), At(opp))
<1>0. TypeOK /\ Pairing /\ Counted /\ pc = "match" /\ HasAt(pair) /\ HasAt(opp) /\ ~GetsWalkOver(pair)
  BY DEF IInv, Play
<1>1. /\ pair' = opp + 1 /\ nactive' = nactive - 1
      /\ active' = [active EXCEPT ![loser] = FALSE]
      /\ pc' = "match" /\ activePlayer' = activePlayer /\ wid' = wid /\ nplayers' = nplayers
  BY DEF Play, list, game
<1>2. Regular /\ pair < n
  BY <1>0, IsRegular
<1>3. n \in 2 .. nplayers /\ pair \in Nat /\ nactive \in Nat /\ nplayers \in Nat /\ opp < n
      /\ \A a \in 1 .. n : activePlayer[a] \in Players
  BY <1>0, Numbers DEF Pairing, HasAt
<1>4. activePlayer[pair + 1] # wid
  BY <1>0 DEF GetsWalkOver, At
<1>5. \/ opp = pair + 1 /\ activePlayer[pair + 2] # wid
      \/ opp = pair + 2 /\ activePlayer[pair + 2] = wid /\ ~WalkedOver
  BY <1>0, <1>3, Opponents
<1>6. opp \in Nat /\ pair < opp /\ opp <= pair + 2
  BY <1>3, <1>5
<1>7. PICK place \in {pair, opp} : loser = activePlayer[place + 1]
  BY DEF Loser, At
<1>8. place \in Nat /\ place >= pair /\ place <= opp /\ place + 1 \in 1 .. n
  BY <1>3, <1>6, <1>7
<1>9. loser \in Active
  BY <1>2, <1>3, <1>7, <1>8 DEF Regular, Active
<1>10. Cardinality(Active') = nactive'
  <2>1. Cardinality(Active') = Cardinality(Active) - 1
    BY <1>0, <1>1, <1>9, OneOut
  <2> QED
    BY <1>1, <1>2, <2>1 DEF Regular
<1>11. \A a \in 1 .. n : a > pair' => active'[activePlayer[a]]
  <2> SUFFICES ASSUME NEW a \in 1 .. n, a > opp + 1
               PROVE  active'[activePlayer[a]]
    BY <1>1
  <2>1. a # place + 1 /\ a > pair
    BY <1>3, <1>6, <1>8
  <2>2. activePlayer[a] # loser
    BY <1>0, <1>7, <1>8, <2>1, Once DEF Pairing
  <2>3. active[activePlayer[a]] /\ activePlayer[a] \in Players
    BY <1>2, <1>3, <2>1 DEF Regular
  <2> QED
    BY <1>0, <1>1, <2>2, <2>3 DEF TypeOK
<1>12. /\ pair' = 2 * (n - nactive') + (IF WalkedOver' THEN 1 ELSE 0)
  <2>1. pair = 2 * (n - nactive) + (IF WalkedOver THEN 1 ELSE 0)
    BY <1>2 DEF Regular
  <2>2. CASE opp = pair + 1 /\ activePlayer[pair + 2] # wid
    <3>1. WalkedOver' <=> WalkedOver
      <4>1. \A a \in 1 .. n : activePlayer[a] = wid => a # pair + 1 /\ a # pair + 2
        BY <1>4, <2>2
      <4>2. \A a \in 1 .. n : activePlayer[a] = wid => (a <= pair + 2 <=> a <= pair)
        BY <1>3, <4>1
      <4>3. pair' = pair + 2
        BY <1>1, <1>3, <2>2
      <4> QED
        BY <1>1, <4>2, <4>3 DEF WalkedOver
    <3> QED
      BY <1>1, <1>3, <2>1, <2>2, <3>1
  <2>3. CASE opp = pair + 2 /\ activePlayer[pair + 2] = wid /\ ~WalkedOver
    <3>1. WalkedOver'
      BY <1>1, <1>3, <2>3 DEF WalkedOver
    <3> QED
      BY <1>1, <1>3, <2>1, <2>3, <3>1
  <2> QED
    BY <1>5, <2>2, <2>3
<1>13. pair' <= n
  BY <1>1, <1>3, <1>6
<1>14. Regular'
  BY <1>1, <1>10, <1>11, <1>12, <1>13 DEF Regular
<1>15. nactive' \in 1 .. nplayers
  <2>1. 2 * (n - nactive') <= pair'
    <3>1. n - nactive' \in Int
      BY <1>1, <1>3
    <3> QED
      BY <1>12, <3>1
  <2>2. nactive' \in Int /\ nactive <= nplayers
    BY <1>0, <1>1, <1>3 DEF TypeOK
  <2>3. 2 * (n - nactive') <= n
    BY <1>1, <1>3, <1>6, <1>13, <2>1, <2>2
  <2> QED
    BY <1>1, <1>3, <2>2, <2>3
<1>16. TypeOK'
  <2>1. active' \in [Players -> BOOLEAN]
    BY <1>0, <1>1 DEF TypeOK
  <2>2. pair' \in 0 .. nplayers + 2
    BY <1>1, <1>3, <1>6
  <2> QED
    BY <1>1, <1>15, <2>1, <2>2, MatchTypes
<1>17. Pairing'
  BY <1>0, <1>1, <1>14 DEF Pairing, Increasing
<1>18. Counted'
  BY <1>3, <1>10, <1>15 DEF Counted
<1> QED
  BY <1>1, <1>16, <1>17, <1>18 DEF IInv, Scanning, HalfAdvance

\* Nobody is there for the last player only when the number is odd and no place has
\* the walk-over.
LEMMA NobodyThere ==
    ASSUME IInv, PlayNobody
    PROVE  /\ Opponent(pair) = pair + 1 /\ Len(activePlayer) = pair + 1 /\ Missed
           /\ Len(activePlayer) = 2 * (Len(activePlayer) - nactive) + 1
<1> DEFINE n == Len(activePlayer)
           opp == Opponent(pair)
<1>0. TypeOK /\ Pairing /\ pc = "match" /\ HasAt(pair) /\ ~HasAt(opp) /\ ~GetsWalkOver(pair)
  BY DEF IInv, PlayNobody
<1>2. Regular /\ pair < n
  BY <1>0, IsRegular
<1>3. n \in 2 .. nplayers /\ pair \in Nat /\ nactive \in Nat /\ nplayers \in Nat /\ ~(opp < n)
      /\ \A a \in 1 .. n : activePlayer[a] \in Players
  BY <1>0, Numbers DEF Pairing, HasAt
<1>4. activePlayer[pair + 1] # wid
  BY <1>0 DEF GetsWalkOver, At
<1>5. pair = 2 * (n - nactive) + (IF WalkedOver THEN 1 ELSE 0) /\ n - nactive \in Int
  BY <1>2, <1>3 DEF Regular
<1>6. n % 2 = 0 => \A a \in 1 .. n : activePlayer[a] # wid
  <2>1. n % 2 = 0 => wid = -1
    BY <1>0 DEF Pairing
  <2>2. \A a \in 1 .. n : activePlayer[a] # -1
    BY <1>3 DEF Players
  <2> QED
    BY <2>1, <2>2
<1>7. opp = pair + 1 /\ n = pair + 1 /\ ~WalkedOver
  <2>1. CASE opp = pair + 2 /\ pair + 1 < n /\ activePlayer[pair + 2] = wid /\ ~WalkedOver
    <3>1. n = pair + 2 /\ pair = 2 * (n - nactive)
      BY <1>3, <1>5, <2>1
    <3>2. n = 2 * (n - nactive + 1)
      BY <1>3, <3>1
    <3>3. n % 2 = 0
      BY <1>5, <3>2, Parity
    <3> QED
      BY <1>3, <1>6, <2>1, <3>1, <3>3
  <2>2. CASE opp = pair + 1
    <3>1. n = pair + 1
      BY <1>2, <1>3, <2>2
    <3>2. CASE WalkedOver
      <4>1. n = 2 * (n - nactive + 1)
        BY <1>3, <1>5, <3>1, <3>2
      <4>2. n % 2 = 0
        BY <1>5, <4>1, Parity
      <4> QED
        BY <1>6, <3>2, <4>2 DEF WalkedOver
    <3> QED
      BY <2>2, <3>1, <3>2
  <2> QED
    BY <1>0, <2>1, <2>2, Opponents
<1>8. n = 2 * (n - nactive) + 1
  BY <1>3, <1>5, <1>7
<1>9. n % 2 = 1
  BY <1>5, <1>8, Parity
<1>10. \A a \in 1 .. n : activePlayer[a] # wid
  <2>1. \A a \in 1 .. n : a <= pair \/ a = pair + 1
    BY <1>3, <1>7
  <2> QED
    BY <1>4, <1>7, <2>1 DEF WalkedOver
<1>11. Missed
  <2>1. DOMAIN activePlayer = 1 .. n
    BY <1>0 DEF TypeOK
  <2> QED
    BY <1>9, <1>10, <2>1 DEF Missed
<1> QED
  BY <1>7, <1>8, <1>11

\* A match against nobody counts one player out, whatever it does to active.
LEMMA PlayNobodyIInv == IInv /\ PlayNobody => IInv'
<1> SUFFICES ASSUME IInv, PlayNobody PROVE IInv'
  OBVIOUS
<1> DEFINE n == Len(activePlayer)
           opp == Opponent(pair)
<1>0. TypeOK /\ Pairing /\ Counted /\ pc = "match" /\ HasAt(pair) /\ ~HasAt(opp) /\ ~GetsWalkOver(pair)
  BY DEF IInv, PlayNobody
<1>1. /\ pair' = opp + 1 /\ nactive' = nactive - 1
      /\ pc' = "match" /\ activePlayer' = activePlayer /\ wid' = wid /\ nplayers' = nplayers
  BY DEF PlayNobody, list, game
<1>2. Regular
  BY <1>0, IsRegular
<1>3. n \in 2 .. nplayers /\ pair \in Nat /\ nactive \in Nat /\ nplayers \in Nat
  BY <1>0, Numbers DEF Pairing
<1>7. opp = pair + 1 /\ n = pair + 1 /\ n = 2 * (n - nactive) + 1
  BY NobodyThere
<1>11. Missed'
  BY <1>1, NobodyThere DEF Missed
<1>12. pair' = n + 1 /\ 2 * nactive' = n - 1
  BY <1>1, <1>3, <1>7
<1>13. Pairing'
  BY <1>0, <1>1, <1>11, <1>12 DEF Pairing, Irregular, Increasing
<1>14. nactive' \in 1 .. nplayers
  <2>1. nactive \in 1 .. nplayers
    BY <1>0 DEF TypeOK
  <2> QED
    BY <1>1, <1>3, <1>12, <2>1
<1>15. active' \in [Players -> BOOLEAN] /\ Cardinality(Active') >= nactive - 1
  <2>1. CASE UNCHANGED active
    <3>1. Active' = Active
      BY <1>1, <2>1 DEF Active, Players
    <3> QED
      BY <1>0, <1>2, <1>3, <2>1, <3>1 DEF TypeOK, Regular
  <2>2. CASE \E loser \in Players : active' = [active EXCEPT ![loser] = FALSE]
    <3>1. PICK loser \in Players : active' = [active EXCEPT ![loser] = FALSE]
      BY <2>2
    <3>2. Cardinality(Active') >= Cardinality(Active) - 1
      BY <1>0, <1>1, <3>1, AtMostOneOut
    <3> QED
      BY <1>0, <1>2, <3>1, <3>2 DEF TypeOK, Regular
  <2> QED
    BY <2>1, <2>2 DEF PlayNobody
<1>16. TypeOK'
  <2>1. pair' \in 0 .. nplayers + 2
    BY <1>3, <1>12
  <2> QED
    BY <1>1, <1>14, <1>15, <2>1, MatchTypes
<1>17. Counted'
  BY <1>1, <1>15 DEF Counted
<1> QED
  BY <1>1, <1>13, <1>16, <1>17 DEF IInv, Scanning, HalfAdvance

\* The account of the pairing, at its end.
LEMMA EndLevelIInv == IInv /\ EndLevel => IInv'
<1> SUFFICES ASSUME IInv, EndLevel PROVE IInv'
  OBVIOUS
<1> DEFINE n == Len(activePlayer)
<1>0. TypeOK /\ Pairing /\ Counted /\ pc = "match" /\ ~HasAt(pair)
  BY DEF IInv, EndLevel
<1>1. /\ pc' = "level" /\ nplayers' = nplayers /\ active' = active /\ nactive' = nactive
      /\ pair' = pair /\ activePlayer' = activePlayer /\ wid' = wid /\ Active' = Active
  BY DEF EndLevel, game, left, list, pairing, Active, Players
<1>2. TypeOK'
  <2>1. active' \in [Players -> BOOLEAN] /\ nactive' \in 1 .. nplayers /\ pair' \in 0 .. nplayers + 2
    BY <1>0, <1>1 DEF TypeOK
  <2> QED
    BY <1>1, <2>1, MatchTypes
<1>3. n \in 2 .. nplayers /\ nplayers \in Nat /\ pair \in Nat /\ nactive \in Nat /\ n - nactive \in Int /\ n - nactive + 1 \in Int
      /\ ~(pair < n) /\ DOMAIN activePlayer = 1 .. n
  BY <1>0, Numbers DEF Pairing, HasAt, TypeOK
<1>4. IF Missed THEN 2 * nactive = n - 1
      ELSE nactive = (n + 1) \div 2 /\ Cardinality(Active) = nactive
  <2>1. CASE Irregular
    BY <2>1 DEF Irregular
  <2>2. CASE Regular
    <3>1. pair = n /\ n = 2 * (n - nactive) + (IF WalkedOver THEN 1 ELSE 0)
          /\ Cardinality(Active) = nactive
      <4>1. /\ pair <= n /\ Cardinality(Active) = nactive
            /\ pair = 2 * (n - nactive) + (IF WalkedOver THEN 1 ELSE 0)
        BY <2>2 DEF Regular
      <4>2. n \in Nat /\ pair \in Nat /\ ~(pair < n)
        BY <1>3
      <4>3. pair <= n
        BY <4>1
      <4>4. pair = n
        BY <4>2, <4>3
      <4> QED
        BY <4>1, <4>4
    <3>2. CASE WalkedOver
      <4>1. n = 2 * (n - nactive) + 1
        BY <3>1, <3>2
      <4>2. (n + 1) \div 2 = n - nactive + 1
        <5>1. n + 1 = 2 * (n - nactive + 1)
          BY <1>3, <4>1
        <5> QED
          BY <1>3, <5>1, Parity
      <4>3. ~Missed
        BY <1>3, <3>2 DEF Missed, WalkedOver
      <4> QED
        BY <1>3, <3>1, <4>1, <4>2, <4>3
    <3>3. CASE ~WalkedOver
      <4>1. n = 2 * (n - nactive)
        BY <3>1, <3>3, <1>3
      <4>2. n % 2 = 0 /\ (n + 1) \div 2 = n - nactive
        <5>1. n + 1 = 2 * (n - nactive) + 1
          BY <1>3, <4>1
        <5> QED
          BY <1>3, <4>1, <5>1, Parity
      <4>3. ~Missed
        BY <4>2 DEF Missed
      <4> QED
        BY <1>3, <3>1, <4>1, <4>2, <4>3
    <3> QED
      BY <3>2, <3>3
  <2> QED
    BY <1>0, <2>1, <2>2 DEF Pairing
<1>5. HalfAdvance'
  BY <1>1, <1>4 DEF HalfAdvance, Missed
<1>6. Counted'
  BY <1>0, <1>1 DEF Counted
<1> QED
  BY <1>1, <1>2, <1>5, <1>6 DEF IInv, Scanning, Pairing

LEMMA FinishIInv == IInv /\ Finish => IInv'
<1> SUFFICES ASSUME IInv, Finish PROVE IInv'
  OBVIOUS
<1>1. UNCHANGED <<game, left, record, list, pairing, players>> /\ pc = "level" /\ pc' = "over"
  BY DEF Finish
<1>2. TypeOK'
  BY <1>1 DEF IInv, TypeOK, Players, Cells, game, left, list, pairing, players
<1> QED
  BY <1>1, <1>2 DEF IInv, Counted, Scanning, Pairing, Missed, HalfAdvance, Active, Players,
     game, left, list, pairing

LEMMA StutterIInv == IInv /\ UNCHANGED vars => IInv'
<1> SUFFICES ASSUME IInv, UNCHANGED vars PROVE IInv'
  OBVIOUS
<1>1. UNCHANGED <<game, pc, left, record, list, pairing, players>>
  BY DEF vars
<1>2. TypeOK'
  BY <1>1 DEF IInv, TypeOK, Players, Cells, game, left, list, pairing, players
<1> QED
  BY <1>1, <1>2 DEF IInv, Counted, Scanning, Increasing, Pairing, Regular, Irregular, WalkedOver,
     Missed, HalfAdvance, Before, Bound, Active, Players, game, left, list, pairing

LEMMA NextIInv == IInv /\ [Next]_vars => IInv'
<1> SUFFICES ASSUME IInv, [Next]_vars PROVE IInv'
  OBVIOUS
<1>1. CASE UmpireNext
  BY <1>1, NewLevelIInv, SkipInactiveIInv, TakeActiveIInv, AskIInv, AnswerIInv, DrawIInv,
     SkipWalkOverIInv, PlayIInv, PlayNobodyIInv, EndLevelIInv, FinishIInv DEF UmpireNext
<1>2. CASE \E j \in Players : PlayerNext(j)
  BY <1>2, PlayerIInv
<1>3. CASE UNCHANGED vars
  BY <1>3, StutterIInv
<1> QED
  BY <1>1, <1>2, <1>3 DEF Next

LEMMA Invariant == Spec => []IInv
BY InitIInv, NextIInv, PTL DEF Spec

----------------------------------------------------------------------------
\* The variables keep their types; in particular nactive never becomes 0, at which
\* the loop over the levels would go on for ever (umpire2.c:110).
THEOREM TypeCorrect == Spec => []TypeOK
<1>1. IInv => TypeOK
  BY DEF IInv
<1> QED
  BY <1>1, Invariant, PTL

\* Whatever getWalkOver returns, a level leaves half of its players exactly when
\* the walk-over is the number of one of them (umpire2.c:134-171).
THEOREM HalfAdvances == Spec => []HalfAdvance
<1>1. IInv => HalfAdvance
  BY DEF IInv
<1> QED
  BY <1>1, Invariant, PTL

----------------------------------------------------------------------------
(* Messages and moves of a level.                                          *)

\* No message is on its way to player j or from it.
Quiet(j) == go[j] = 0 /\ out[j] = <<>> /\ player[j] # "move"

\* Player j has been asked for one move: the GO is in its pipe, or it has read it,
\* or its move is in the other pipe.
Asked(j) == \/ go[j] = 1 /\ out[j] = <<>> /\ player[j] # "move"
            \/ go[j] = 0 /\ out[j] = <<>> /\ player[j] = "move"
            \/ go[j] = 0 /\ Len(out[j]) = 1 /\ player[j] # "move"

\* The umpire speaks with one player at a time.
Talk ==
    /\ \A j \in Players : pc # "answer" \/ j # i => Quiet(j)
    /\ pc = "answer" => Asked(i)

\* The first n moves of player a are in its row.
RowMoved(a, n) == \A r \in 0 .. n - 1 : record[Cell(a, r)] \in Moves

Rows ==
    /\ pc \in {"scan", "ask", "answer"} =>
          \A a \in 1 .. Len(activePlayer) : activePlayer[a] < i => RowMoved(activePlayer[a], nround)
    /\ pc \in {"ask", "answer"} => RowMoved(i, k)
    /\ pc = "match" => \A a \in 1 .. Len(activePlayer) : RowMoved(activePlayer[a], nround)

TInv == Talk /\ Rows

\* The cells of a row lie before those of the rows behind it.
LEMMA RowBefore ==
    ASSUME NEW a \in Nat, NEW b \in Nat, NEW m \in Nat, NEW r \in 0 .. m - 1, a < b
    PROVE  a * m + r < b * m
<1>1. PICK d \in Nat : b = a + 1 + d
  <2>1. b - a - 1 \in Nat /\ b = a + 1 + (b - a - 1)
    OBVIOUS
  <2> QED
    BY <2>1
<1>2. b * m = a * m + m + d * m
  BY <1>1
<1>3. d * m \in Nat /\ a * m \in Nat
  OBVIOUS
<1> QED
  BY <1>2, <1>3

\* A row is in the table.
LEMMA RowInTable ==
    ASSUME NEW a \in Nat, NEW b \in Nat, NEW m \in Nat, NEW r \in 0 .. m - 1, a < b
    PROVE  a * m + r \in 0 .. b * m /\ a * m + r < a * m + m
<1>1. a * m + r < b * m
  BY RowBefore
<1>2. a * m \in Nat /\ b * m \in Nat
  OBVIOUS
<1> QED
  BY <1>1, <1>2

\* The only element of a sequence.
LEMMA OnlyElement ==
    ASSUME NEW S, NEW s \in Seq(S), Len(s) = 1
    PROVE  Head(s) \in S /\ Tail(s) = <<>>
<1>1. s # <<>> /\ Head(s) \in S
  OBVIOUS
<1>2. Tail(s) \in Seq(S) /\ Len(Tail(s)) = 0
  BY <1>1, HeadTailProperties
<1> QED
  BY <1>1, <1>2, EmptySeq

LEMMA TInvInit == Init => TInv
<1> SUFFICES ASSUME Init PROVE TInv
  OBVIOUS
<1>1. pc = "level"
  BY DEF Init
<1>2. \A j \in Players : Quiet(j)
  BY DEF Init, Quiet
<1> QED
  BY <1>1, <1>2 DEF TInv, Talk, Rows

\* The steps of the umpire that send and read nothing.
LEMMA TalkKept ==
    ASSUME Talk, pc # "answer", pc' # "answer", UNCHANGED <<game, players>>
    PROVE  Talk'
<1>1. Players' = Players /\ \A j \in Players : Quiet(j)' <=> Quiet(j)
  BY DEF Players, Quiet, game, players
<1> QED
  BY <1>1 DEF Talk

LEMMA NewLevelTInv == IInv /\ TInv /\ NewLevel => TInv'
<1> SUFFICES ASSUME IInv, TInv, NewLevel PROVE TInv'
  OBVIOUS
<1>1. Talk'
  BY TalkKept DEF NewLevel, TInv
<1>2. pc' = "scan" /\ 1 .. Len(activePlayer') = {}
  BY DEF NewLevel
<1> QED
  BY <1>1, <1>2 DEF TInv, Rows

LEMMA SkipInactiveTInv == IInv /\ TInv /\ SkipInactive => TInv'
<1> SUFFICES ASSUME IInv, TInv, SkipInactive PROVE TInv'
  OBVIOUS
<1>1. /\ pc = "scan" /\ pc' = "scan" /\ i' = i + 1 /\ ~active[i]
      /\ UNCHANGED <<nround, record, activePlayer>>
  BY DEF SkipInactive, game
<1>2. Talk'
  BY <1>1, TalkKept DEF SkipInactive, TInv
<1>3. ASSUME NEW a \in 1 .. Len(activePlayer)
      PROVE  RowMoved(activePlayer[a], nround)
  <2>1. activePlayer[a] < i
    BY <1>1 DEF IInv, Scanning, Bound
  <2> QED
    BY <1>1, <2>1 DEF TInv, Rows
<1> QED
  BY <1>1, <1>2, <1>3 DEF TInv, Rows, RowMoved, Cell

LEMMA TakeActiveTInv == IInv /\ TInv /\ TakeActive => TInv'
<1> SUFFICES ASSUME IInv, TInv, TakeActive PROVE TInv'
  OBVIOUS
<1>1. pc = "scan" /\ i' = i /\ nround' = nround /\ record' = record
  BY DEF TakeActive, game
<1>2. pc' \in {"ask", "lost"} /\ UNCHANGED <<game, players>>
  BY DEF TakeActive
<1>3. Talk'
  BY <1>1, <1>2, TalkKept DEF TInv
<1>4. CASE pc' = "lost"
  BY <1>3, <1>4 DEF TInv, Rows
<1>5. CASE pc' = "ask"
  <2> DEFINE n == Len(activePlayer)
  <2>1. activePlayer' = Append(activePlayer, i) /\ k' = 0
    BY <1>5 DEF TakeActive
  <2>2. activePlayer \in Seq(Players) /\ i \in Nat /\ n \in Nat
    BY Numbers DEF IInv, TypeOK
  <2>3. /\ Len(activePlayer') = n + 1 /\ activePlayer'[n + 1] = i
        /\ \A a \in 1 .. n : activePlayer'[a] = activePlayer[a]
    <3>1. activePlayer \in Seq(Players \cup {i})
      BY <2>2
    <3> QED
      BY <2>1, <3>1
  <2>4. RowMoved(i, k)'
    BY <2>1 DEF RowMoved
  <2>5. ASSUME NEW a \in 1 .. n + 1, activePlayer'[a] < i
        PROVE  RowMoved(activePlayer[a], nround) /\ activePlayer'[a] = activePlayer[a]
    <3>1. a # n + 1
      BY <2>2, <2>3, <2>5
    <3>2. a \in 1 .. n
      BY <2>2, <3>1
    <3>3. activePlayer[a] < i
      BY <2>3, <2>5, <3>2
    <3> QED
      BY <1>1, <2>3, <3>2, <3>3 DEF TInv, Rows
  <2>6. \A a \in 1 .. Len(activePlayer') : activePlayer'[a] < i' => RowMoved(activePlayer[a], nround)'
    BY <1>1, <2>3, <2>5 DEF RowMoved, Cell
  <2> QED
    BY <1>3, <1>5, <2>4, <2>6 DEF TInv, Rows
<1> QED
  BY <1>2, <1>4, <1>5

LEMMA AskTInv == IInv /\ TInv /\ Ask => TInv'
<1> SUFFICES ASSUME IInv, TInv, Ask PROVE TInv'
  OBVIOUS
<1>1. /\ pc = "ask" /\ pc' = "answer" /\ go' = [go EXCEPT ![i] = @ + 1] /\ i' = i /\ k' = k
      /\ UNCHANGED <<nplayers, nround, record, activePlayer, out, player>>
  BY DEF Ask, game, list
<1>2. i \in Players /\ go \in [Players -> Nat] /\ Players' = Players
  BY <1>1, Numbers DEF IInv, Scanning, TypeOK, Players
<1>3. \A j \in Players : j # i => Quiet(j)'
  BY <1>1, <1>2 DEF TInv, Talk, Quiet
<1>4. Asked(i)'
  <2>1. Quiet(i)
    BY <1>1, <1>2 DEF TInv, Talk
  <2>2. go'[i] = 1
    BY <1>1, <1>2, <2>1 DEF Quiet
  <2> QED
    BY <1>1, <2>1, <2>2 DEF Quiet, Asked
<1>5. Rows'
  BY <1>1 DEF TInv, Rows, RowMoved, Cell
<1> QED
  BY <1>1, <1>2, <1>3, <1>4, <1>5 DEF TInv, Talk

\* A move goes into its cell and, behind the last round, a 0 into the first cell of
\* the next row; neither is in the rows that are complete.
LEMMA AnswerTInv == IInv /\ TInv /\ Answer => TInv'
<1> SUFFICES ASSUME IInv, TInv, Answer PROVE TInv'
  OBVIOUS
<1> DEFINE here == Cell(i, k)
           read == [record EXCEPT ![here] = Head(out[i])]
<1>1. /\ pc = "answer" /\ out[i] # <<>> /\ out' = [out EXCEPT ![i] = Tail(@)]
      /\ UNCHANGED <<nplayers, nround, activePlayer, go, player>>
  BY DEF Answer, game
<1>2. \/ /\ k + 1 >= nround /\ record' = [read EXCEPT ![Cell(i, nround)] = NUL]
         /\ i' = i + 1 /\ pc' = "scan"
      \/ /\ ~(k + 1 >= nround) /\ record' = read
         /\ k' = k + 1 /\ i' = i /\ pc' = "ask"
  BY DEF Answer, LastRound
<1>3. /\ i \in Players /\ i \in Nat /\ nplayers \in Nat /\ i < nplayers /\ nround \in Nat \ {0}
      /\ k \in 0 .. nround - 1 /\ out \in [Players -> Seq(Moves)] /\ Players' = Players
      /\ record \in [Cells -> Moves \cup {NUL, Junk}]
      /\ \A a \in 1 .. Len(activePlayer) : activePlayer[a] \in Nat /\ activePlayer[a] <= i
  <2>1. TypeOK /\ i < nplayers
    BY <1>1 DEF IInv, Scanning
  <2>2. nplayers \in Nat /\ i \in Nat /\ nround \in Nat \ {0}
    BY <2>1, Numbers
  <2>3. \A a \in 1 .. Len(activePlayer) : activePlayer[a] \in Players /\ activePlayer[a] < i + 1
    BY <1>1, <2>1, Numbers DEF IInv, Scanning, Bound
  <2>4. \A a \in 1 .. Len(activePlayer) : activePlayer[a] \in Nat /\ activePlayer[a] <= i
    BY <2>2, <2>3 DEF Players
  <2> QED
    BY <1>1, <2>1, <2>2, <2>4 DEF TypeOK, Players
<1>4. Len(out[i]) = 1 /\ go[i] = 0 /\ player[i] # "move"
  BY <1>1 DEF TInv, Talk, Asked
<1>5. Head(out[i]) \in Moves /\ Tail(out[i]) = <<>>
  <2>1. out[i] \in Seq(Moves)
    BY <1>3
  <2> QED
    BY <1>4, <2>1, OnlyElement
<1>6. Talk'
  <2> SUFFICES ASSUME NEW j \in Players PROVE Quiet(j)'
    BY <1>2, <1>3 DEF Talk
  <2>1. CASE j = i
    BY <1>1, <1>3, <1>4, <1>5, <2>1 DEF Quiet
  <2>2. CASE j # i
    BY <1>1, <1>3, <2>2 DEF TInv, Talk, Quiet
  <2> QED
    BY <2>1, <2>2
<1>7. here = i * nround + k /\ Cell(i, nround) = i * nround + nround
      /\ i * nround \in Nat
  BY <1>3 DEF Cell
<1>8. here \in Cells
  <2>1. i * nround + k \in 0 .. nplayers * nround
    BY <1>3, RowInTable
  <2> QED
    BY <1>7, <2>1 DEF Cells
<1>9. read[here] = Head(out[i]) /\ \A c \in Cells : c # here => read[c] = record[c]
      /\ DOMAIN read = Cells
  BY <1>3, <1>8
<1> HIDE DEF here, read
\* Cells of row i that are not the one behind it keep what was read.
<1>10. \A c \in Cells : c < i * nround + nround => record'[c] = read[c]
  <2> SUFFICES ASSUME NEW c \in Cells, c < i * nround + nround
               PROVE  record'[c] = read[c]
    OBVIOUS
  <2>1. c # Cell(i, nround)
    BY <1>3, <1>7 DEF Cells
  <2>2. record' = read \/ record' = [read EXCEPT ![Cell(i, nround)] = NUL]
    BY <1>2
  <2>3. [read EXCEPT ![Cell(i, nround)] = NUL][c] = read[c]
    BY <1>9, <2>1
  <2> QED
    BY <2>2, <2>3
<1>11. ASSUME NEW a \in Nat, a < i, RowMoved(a, nround)
       PROVE  RowMoved(a, nround)'
  <2> SUFFICES ASSUME NEW r \in 0 .. nround - 1
               PROVE  record'[Cell(a, r)] \in Moves
    BY <1>1 DEF RowMoved, Cell
  <2>1. Cell(a, r) = a * nround + r /\ a * nround + r < i * nround
    BY <1>3, <1>11, RowBefore DEF Cell
  <2>2. a * nround + r \in 0 .. nplayers * nround /\ a * nround + r \in Int
    <3>1. a < nplayers
      BY <1>3, <1>11
    <3>2. a * nround + r \in 0 .. nplayers * nround
      BY <1>3, <3>1, RowInTable
    <3> QED
      BY <3>2
  <2>3. a * nround + r # here /\ a * nround + r < i * nround + nround
    <3> DEFINE c == a * nround + r
               base == i * nround
    <3>1. c \in Int /\ base \in Nat /\ c < base /\ here = base + k
      BY <1>7, <2>1, <2>2
    <3> HIDE DEF c, base
    <3>2. c # here /\ c < base + nround
      BY <1>3, <3>1
    <3> QED
      BY <3>2 DEF c, base
  <2>4. Cell(a, r) \in Cells /\ Cell(a, r) # here /\ Cell(a, r) < i * nround + nround
    BY <2>1, <2>2, <2>3 DEF Cells
  <2>5. record'[Cell(a, r)] = record[Cell(a, r)]
    BY <1>9, <1>10, <2>4
  <2> QED
    BY <1>11, <2>5 DEF RowMoved
<1>12. ASSUME NEW r \in 0 .. k
       PROVE  record'[Cell(i, r)] \in Moves
  <2> DEFINE c == i * nround + r
  <2>0. Cell(i, r) = c
    BY DEF Cell
  <2>1. c \in Cells /\ c < i * nround + nround
    <3>1. r \in 0 .. nround - 1
      BY <1>3
    <3> QED
      BY <1>3, <3>1, RowInTable DEF Cells
  <2>2. record'[c] = read[c]
    BY <1>10, <2>1
  <2>3. CASE r = k
    BY <1>5, <1>7, <1>9, <2>0, <2>2, <2>3
  <2>4. CASE r # k
    <3>1. r \in 0 .. k - 1
      BY <1>3, <2>4
    <3>2. c # here
      BY <1>3, <1>7, <2>4
    <3>3. record[Cell(i, r)] \in Moves
      BY <1>1, <3>1 DEF TInv, Rows, RowMoved
    <3> QED
      BY <1>9, <2>0, <2>1, <2>2, <3>2, <3>3
  <2> QED
    BY <2>3, <2>4
<1>13. \A a \in 1 .. Len(activePlayer) : activePlayer[a] < i => RowMoved(activePlayer[a], nround)'
  BY <1>1, <1>3, <1>11 DEF TInv, Rows
<1>14. CASE k + 1 >= nround
  <2>1. i' = i + 1 /\ pc' = "scan" /\ k + 1 = nround
    BY <1>2, <1>3, <1>14
  <2>2. ASSUME NEW a \in 1 .. Len(activePlayer), activePlayer[a] = i
        PROVE  RowMoved(activePlayer[a], nround)'
    <3>1. \A r \in 0 .. nround - 1 : record'[Cell(i, r)] \in Moves
      <4>1. \A r \in 0 .. nround - 1 : r \in 0 .. k
        BY <1>3, <2>1
      <4> QED
        BY <1>12, <4>1
    <3> QED
      BY <1>1, <2>2, <3>1 DEF RowMoved, Cell
  <2>3. \A a \in 1 .. Len(activePlayer) : activePlayer[a] < i \/ activePlayer[a] = i
    BY <1>3
  <2>4. \A a \in 1 .. Len(activePlayer) : RowMoved(activePlayer[a], nround)'
    BY <1>13, <2>2, <2>3
  <2> QED
    BY <1>1, <1>6, <2>1, <2>4 DEF TInv, Rows
<1>15. CASE ~(k + 1 >= nround)
  <2>1. i' = i /\ pc' = "ask" /\ k' = k + 1
    BY <1>2, <1>15
  <2>2. RowMoved(i, k)'
    <3>1. \A r \in 0 .. k' - 1 : r \in 0 .. k
      BY <1>3, <2>1
    <3> QED
      BY <1>1, <1>12, <2>1, <3>1 DEF RowMoved, Cell
  <2> QED
    BY <1>1, <1>6, <1>13, <2>1, <2>2 DEF TInv, Rows
<1> QED
  BY <1>14, <1>15

LEMMA DrawTInv == IInv /\ TInv /\ Draw => TInv'
<1> SUFFICES ASSUME IInv, TInv, Draw PROVE TInv'
  OBVIOUS
<1>1. /\ pc = "scan" /\ pc' = "match" /\ i = nplayers
      /\ UNCHANGED <<nround, record, activePlayer>>
  BY DEF Draw, game, list
<1>2. Talk'
  BY <1>1, TalkKept DEF Draw, TInv
<1>3. ASSUME NEW a \in 1 .. Len(activePlayer)
      PROVE  RowMoved(activePlayer[a], nround)
  <2>1. activePlayer[a] < i
    BY <1>1 DEF IInv, Scanning, Bound
  <2> QED
    BY <1>1, <2>1 DEF TInv, Rows
<1> QED
  BY <1>1, <1>2, <1>3 DEF TInv, Rows, RowMoved, Cell

\* The matches read the record and write nothing into it.
LEMMA MatchTInv ==
    IInv /\ TInv /\ (SkipWalkOver \/ Play \/ PlayNobody \/ EndLevel \/ Finish) => TInv'
<1> SUFFICES ASSUME IInv, TInv, SkipWalkOver \/ Play \/ PlayNobody \/ EndLevel \/ Finish
             PROVE  TInv'
  OBVIOUS
<1>1. /\ UNCHANGED <<game, record, list, players>> /\ pc # "answer"
      /\ pc' = pc \/ pc' \in {"level", "over"}
  BY DEF SkipWalkOver, Play, PlayNobody, EndLevel, Finish
<1>2. Talk'
  BY <1>1, TalkKept DEF TInv
<1>3. Rows'
  BY <1>1 DEF TInv, Rows, RowMoved, Cell, game, list
<1> QED
  BY <1>2, <1>3 DEF TInv

\* Only the player that was asked reads and answers.
LEMMA PlayerTInv == IInv /\ TInv /\ (\E j \in Players : PlayerNext(j)) => TInv'
<1> SUFFICES ASSUME IInv, TInv, NEW j \in Players, PlayerNext(j)
             PROVE  TInv'
  OBVIOUS
<1>1. UNCHANGED <<game, pc, record, list>>
  BY DEF PlayerNext, ReadGo, Move, SeeEnd
<1>2. Rows'
  BY <1>1 DEF TInv, Rows, RowMoved, Cell, game, list
<1>3. Players' = Players /\ i' = i /\ go \in [Players -> Nat] /\ out \in [Players -> Seq(Moves)]
      /\ player \in [Players -> {"go", "move", "ended"}]
  BY <1>1 DEF IInv, TypeOK, Players, game, list
<1>4. \A l \in Players \ {j} : go'[l] = go[l] /\ out'[l] = out[l] /\ player'[l] = player[l]
  BY <1>3 DEF PlayerNext, ReadGo, Move, SeeEnd
<1>5. \A l \in Players \ {j} : (Quiet(l) => Quiet(l)') /\ (l = i /\ Asked(l) => Asked(i)')
  BY <1>3, <1>4 DEF Quiet, Asked
<1>6. CASE ReadGo(j)
  <2>1. go[j] > 0 /\ go' = [go EXCEPT ![j] = @ - 1] /\ out' = out
        /\ player' = [player EXCEPT ![j] = "move"]
    BY <1>6 DEF ReadGo
  <2>2. ~Quiet(j)
    BY <1>3, <2>1 DEF Quiet
  <2>3. pc = "answer" /\ j = i /\ Asked(i)
    BY <2>2 DEF TInv, Talk
  <2>4. go[i] = 1 /\ out[i] = <<>>
    BY <1>3, <2>1, <2>3 DEF Asked
  <2>5. Asked(i)'
    BY <1>3, <2>1, <2>3, <2>4 DEF Asked
  <2> QED
    BY <1>1, <1>2, <1>3, <1>5, <2>3, <2>5 DEF TInv, Talk
<1>7. CASE Move(j)
  <2>1. PICK m \in Moves : out' = [out EXCEPT ![j] = Append(@, m)]
    BY <1>7 DEF Move
  <2>2. player[j] = "move" /\ player' = [player EXCEPT ![j] = "go"] /\ go' = go
    BY <1>7 DEF Move
  <2>3. pc = "answer" /\ j = i /\ Asked(i)
    BY <2>2 DEF TInv, Talk, Quiet
  <2>4. go[i] = 0 /\ out[i] = <<>>
    BY <2>2, <2>3 DEF Asked
  <2>5. out'[i] = <<m>>
    BY <1>3, <2>1, <2>3, <2>4
  <2>6. Asked(i)'
    BY <1>3, <2>2, <2>3, <2>4, <2>5 DEF Asked
  <2> QED
    BY <1>1, <1>2, <1>3, <1>5, <2>3, <2>6 DEF TInv, Talk
<1>8. CASE SeeEnd(j)
  <2>1. pc = "over" /\ go' = go /\ out' = out /\ player'[j] = "ended"
    BY <1>3, <1>8 DEF SeeEnd, CanWrite
  <2>2. Quiet(j)'
    BY <2>1 DEF TInv, Talk, Quiet
  <2> QED
    BY <1>1, <1>2, <1>3, <1>5, <2>1, <2>2 DEF TInv, Talk
<1> QED
  BY <1>6, <1>7, <1>8 DEF PlayerNext

LEMMA TInvNext == IInv /\ TInv /\ [Next]_vars => TInv'
<1> SUFFICES ASSUME IInv, TInv, [Next]_vars PROVE TInv'
  OBVIOUS
<1>1. CASE UmpireNext
  BY <1>1, NewLevelTInv, SkipInactiveTInv, TakeActiveTInv, AskTInv, AnswerTInv, DrawTInv,
     MatchTInv DEF UmpireNext
<1>2. CASE \E j \in Players : PlayerNext(j)
  BY <1>2, PlayerTInv
<1>3. CASE UNCHANGED vars
  BY <1>3 DEF vars, TInv, Talk, Rows, Quiet, Asked, RowMoved, Cell, Players, game, list, players
<1> QED
  BY <1>1, <1>2, <1>3 DEF Next

LEMMA TInvAlways == Spec => [](IInv /\ TInv)
<1>1. Init => IInv /\ TInv
  BY InitIInv, TInvInit
<1>2. IInv /\ TInv /\ [Next]_vars => (IInv /\ TInv)'
  BY NextIInv, TInvNext
<1> QED
  BY <1>1, <1>2, PTL DEF Spec

\* umpire2.c:110-131: when the matches begin, every row of a player that takes part
\* is complete, and no message is left over.
THEOREM LevelsClosed == Spec => []LevelClosed
<1>1. IInv /\ TInv => LevelClosed
  <2> SUFFICES ASSUME IInv, TInv, pc = "match" PROVE LevelClosed
    BY DEF LevelClosed
  <2>1. DOMAIN activePlayer = 1 .. Len(activePlayer)
    BY DEF IInv, TypeOK
  <2> QED
    BY <2>1 DEF LevelClosed, TInv, Talk, Rows, RowMoved, Quiet
<1> QED
  BY <1>1, TInvAlways, PTL

----------------------------------------------------------------------------
\* For moves, winning is being one ahead, modulo 3.
LEMMA BeatsIsNext ==
    ASSUME NEW x \in Moves, NEW y \in Moves
    PROVE  <<x, y>> \in Beats <=> x = (y + 1) % 3
<1>1. x \in {0, 1, 2} /\ y \in {0, 1, 2}
  BY DEF Moves
<1>2. CASE y = 0
  BY <1>1, <1>2 DEF Beats
<1>3. CASE y = 1
  BY <1>1, <1>3 DEF Beats
<1>4. CASE y = 2
  BY <1>1, <1>4 DEF Beats
<1> QED
  BY <1>1, <1>2, <1>3, <1>4

\* Of complete rows the umpire counts the points of the rules.
LEMMA WinsArePoints ==
    ASSUME NEW a, NEW b, RowMoved(a, nround), RowMoved(b, nround), nround \in Nat
    PROVE  Wins(a, b) = Points(a, b) /\ Points(a, b) \in Nat
<1> DEFINE won == {r \in 0 .. nround - 1 : <<record[Cell(a, r)], record[Cell(b, r)]>> \in Beats}
           ahead == {r \in 0 .. nround - 1 : record[Cell(a, r)] = (record[Cell(b, r)] + 1) % 3}
<1>1. ASSUME NEW r \in 0 .. nround - 1
      PROVE  <<record[Cell(a, r)], record[Cell(b, r)]>> \in Beats
             <=> record[Cell(a, r)] = (record[Cell(b, r)] + 1) % 3
  BY BeatsIsNext DEF RowMoved
<1>2. won = ahead
  BY <1>1
<1>3. Wins(a, b) = Cardinality(won) /\ Points(a, b) = Cardinality(ahead)
  BY DEF Wins, Points
<1>4. IsFiniteSet(0 .. nround - 1) /\ ahead \subseteq 0 .. nround - 1
  BY FS_Interval
<1> HIDE DEF won, ahead
<1>5. Cardinality(ahead) \in Nat
  BY <1>4, FS_Subset, FS_CardinalityType
<1> QED
  BY <1>2, <1>3, <1>5

\* The loser of a match has lost it by the rules.
LEMMA LoserLost ==
    ASSUME NEW p \in Nat, NEW q \in Nat, p < q, nround \in Nat,
           RowMoved(p, nround), RowMoved(q, nround)
    PROVE  \/ Loser(p, q) = q /\ LostTo(q, p)
           \/ Loser(p, q) = p /\ LostTo(p, q)
<1>1. /\ Wins(p, q) = Points(p, q) /\ Points(p, q) \in Nat
      /\ Wins(q, p) = Points(q, p) /\ Points(q, p) \in Nat
  BY WinsArePoints
<1>2. CASE Wins(p, q) >= Wins(q, p)
  <2>1. Points(p, q) > Points(q, p) \/ Points(p, q) = Points(q, p)
    BY <1>1, <1>2
  <2> QED
    BY <1>2, <2>1 DEF Loser, LostTo
<1>3. CASE ~(Wins(p, q) >= Wins(q, p))
  <2>1. Points(q, p) > Points(p, q)
    BY <1>1, <1>3
  <2> QED
    BY <1>3, <2>1 DEF Loser, LostTo
<1> QED
  BY <1>2, <1>3

\* Before a match an even number of contestants have been paired.
LEMMA RankOfPlace ==
    ASSUME IInv, pc = "match", HasAt(pair)
    PROVE  Rank(pair + 1) = 2 * (Len(activePlayer) - nactive)
<1> DEFINE n == Len(activePlayer)
           before == {c \in Contestants : c < pair + 1}
<1>1. TypeOK /\ Increasing /\ Regular /\ pair < n
  BY IsRegular DEF IInv, Pairing
<1>2. n \in Nat /\ pair \in Nat /\ nactive \in Nat /\ DOMAIN activePlayer = 1 .. n
  BY <1>1, Numbers DEF TypeOK
<1>3. pair = 2 * (n - nactive) + (IF WalkedOver THEN 1 ELSE 0)
  BY <1>1 DEF Regular
<1>4. before = {c \in 1 .. pair : activePlayer[c] # wid}
  BY <1>1, <1>2 DEF Contestants
<1>5. IsFiniteSet(1 .. pair) /\ Cardinality(1 .. pair) = pair
  BY <1>2, FS_Interval
<1>6. CASE WalkedOver
  <2>1. PICK w \in 1 .. n : w <= pair /\ activePlayer[w] = wid
    BY <1>6 DEF WalkedOver
  <2>2. w \in 1 .. pair
    BY <1>2, <2>1
  <2>3. \A c \in 1 .. pair : activePlayer[c] # wid <=> c # w
    <3>1. \A c \in 1 .. pair : c \in 1 .. n
      BY <1>1, <1>2
    <3> QED
      BY <1>1, <2>1, <3>1, Once
  <2>4. before = (1 .. pair) \ {w}
    BY <1>4, <2>3
  <2>5. Cardinality((1 .. pair) \ {w}) = pair - 1
    BY <1>5, <2>2, FS_RemoveElement
  <2>6. pair - 1 = 2 * (n - nactive)
    BY <1>2, <1>3, <1>6
  <2>7. Cardinality(before) = pair - 1
    BY ONLY <2>4, <2>5
  <2> QED
    BY <2>6, <2>7 DEF Rank
<1>7. CASE ~WalkedOver
  <2>1. \A c \in 1 .. pair : c \in 1 .. n /\ c <= pair
    BY <1>1, <1>2
  <2>2. before = 1 .. pair
    BY <1>4, <1>7, <2>1 DEF WalkedOver
  <2>3. pair = 2 * (n - nactive)
    BY <1>2, <1>3, <1>7
  <2>4. Cardinality(before) = pair
    BY ONLY <1>5, <2>2
  <2> QED
    BY <2>3, <2>4 DEF Rank
<1> QED
  BY <1>6, <1>7

\* The umpire's match is one of the pairs.
LEMMA PlayPaired ==
    ASSUME IInv, Play
    PROVE  /\ Paired(At(pair), At(Opponent(pair)))
           /\ Paired(At(Opponent(pair)), At(pair))
<1> DEFINE n == Len(activePlayer)
           opp == Opponent(pair)
           before == {c \in Contestants : c < pair + 1}
           after == {c \in Contestants : c < opp + 1}
           m == n - nactive
<1>1. TypeOK /\ pc = "match" /\ HasAt(pair) /\ HasAt(opp) /\ ~GetsWalkOver(pair)
  BY DEF IInv, Play
<1>2. n \in Nat /\ pair \in Nat /\ m \in Int /\ pair < n /\ opp < n
      /\ DOMAIN activePlayer = 1 .. n
  BY <1>1, Numbers DEF HasAt, TypeOK
<1>3. activePlayer[pair + 1] # wid
  BY <1>1 DEF GetsWalkOver, At
<1>4. \/ opp = pair + 1 /\ activePlayer[pair + 2] # wid
      \/ opp = pair + 2 /\ pair + 1 < n /\ activePlayer[pair + 2] = wid
  BY <1>1, <1>2, Opponents
<1>5. activePlayer[opp + 1] # wid
  <2>1. CASE opp = pair + 1 /\ activePlayer[pair + 2] # wid
    <3>1. opp + 1 = pair + 2
      BY <1>2, <2>1
    <3> QED
      BY <2>1, <3>1
  <2>2. CASE opp = pair + 2 /\ pair + 1 < n /\ activePlayer[pair + 2] = wid
    <3>1. opp + 1 \in 1 .. n /\ pair + 2 \in 1 .. n /\ opp + 1 # pair + 2
      BY <1>2, <2>2
    <3>2. Increasing
      BY <1>1 DEF IInv, Pairing
    <3> QED
      BY <1>1, <2>2, <3>1, <3>2, Once
  <2> QED
    BY <1>4, <2>1, <2>2
<1>6. pair + 1 \in Contestants /\ opp + 1 \in Contestants /\ pair + 1 # opp + 1
  <2>1. pair + 1 \in 1 .. n /\ opp + 1 \in 1 .. n /\ pair + 1 # opp + 1
    BY <1>2, <1>4
  <2> QED
    BY <1>2, <1>3, <1>5, <2>1 DEF Contestants
<1>7. after = before \cup {pair + 1}
  <2>1. \A c \in Contestants : c \in 1 .. n /\ activePlayer[c] # wid
    BY <1>2 DEF Contestants
  <2>2. ASSUME NEW c \in Contestants
        PROVE  c < opp + 1 <=> c < pair + 1 \/ c = pair + 1
    <3>1. c \in Nat /\ (activePlayer[pair + 2] = wid => c # pair + 2)
      BY <1>2, <2>1
    <3> QED
      BY <1>2, <1>4, <3>1
  <2> QED
    BY <1>6, <2>2
<1>8. Cardinality(before) = 2 * m
  BY <1>1, RankOfPlace DEF Rank
<1>9. Cardinality(after) = 2 * m + 1
  <2>1. IsFiniteSet(before)
    <3>1. IsFiniteSet(1 .. n)
      BY <1>2, FS_Interval
    <3>2. before \subseteq 1 .. n
      BY <1>2 DEF Contestants
    <3> QED
      BY <3>1, <3>2, FS_Subset
  <2>2. pair + 1 \notin before
    BY <1>2
  <2>3. Cardinality(before \cup {pair + 1}) = Cardinality(before) + 1
    <3> HIDE DEF before
    <3> QED
      BY <2>1, <2>2, FS_AddElement
  <2> QED
    BY <1>7, <1>8, <2>3
<1>10. Rank(pair + 1) = 2 * m /\ Rank(opp + 1) = 2 * m + 1
  BY <1>8, <1>9 DEF Rank
<1> HIDE DEF m
<1>11. Rank(pair + 1) \div 2 = m /\ Rank(opp + 1) \div 2 = m
  BY <1>2, <1>10, Parity
<1> QED
  BY <1>6, <1>11 DEF Paired, At

\* In a match one of the two stays in and the other one has lost to it.
LEMMA PlayLost ==
    ASSUME IInv, TInv, Play, NEW a \in Players, active[a], ~active'[a]
    PROVE  \E b \in Players : Paired(a, b) /\ active[b] /\ active'[b] /\ LostTo(a, b)
<1> DEFINE n == Len(activePlayer)
           opp == Opponent(pair)
           p == At(pair)
           q == At(opp)
<1>1. TypeOK /\ Pairing /\ pc = "match" /\ HasAt(pair) /\ HasAt(opp) /\ ~GetsWalkOver(pair)
      /\ active' = [active EXCEPT ![Loser(p, q)] = FALSE]
  BY DEF IInv, Play
<1>2. Regular /\ pair < n /\ opp < n
  BY <1>1, IsRegular DEF HasAt
<1>3. n \in Nat /\ pair \in Nat /\ nround \in Nat /\ nplayers \in Nat
      /\ \A x \in 1 .. n : activePlayer[x] \in Players
  BY <1>1, Numbers
<1>4. opp = pair + 1 \/ opp = pair + 2
  BY <1>1, Opponents
<1>5. pair + 1 \in 1 .. n /\ opp + 1 \in 1 .. n /\ pair + 1 < opp + 1
      /\ pair + 1 > pair /\ opp + 1 > pair
  BY <1>2, <1>3, <1>4
<1>6. p \in Players /\ q \in Players /\ p < q /\ active[p] /\ active[q]
  BY <1>1, <1>2, <1>3, <1>5 DEF At, Pairing, Increasing, Regular
<1>7. RowMoved(p, nround) /\ RowMoved(q, nround)
  BY <1>1, <1>5 DEF At, TInv, Rows
<1>14. Paired(p, q) /\ Paired(q, p)
  BY PlayPaired
<1> HIDE DEF p, q
<1>8. p \in Nat /\ q \in Nat
  BY <1>3, <1>6 DEF Players
<1>9. \/ Loser(p, q) = q /\ LostTo(q, p)
      \/ Loser(p, q) = p /\ LostTo(p, q)
  BY <1>3, <1>6, <1>7, <1>8, LoserLost
<1>10. active \in [Players -> BOOLEAN] /\ p # q
  BY <1>1, <1>6, <1>8 DEF TypeOK
<1>11. a = Loser(p, q)
  BY <1>1, <1>10
<1>12. CASE a = q /\ LostTo(q, p)
  <2>1. active'[p]
    BY <1>1, <1>6, <1>10, <1>11, <1>12
  <2> QED
    BY <1>6, <1>12, <1>14, <2>1
<1>13. CASE a = p /\ LostTo(p, q)
  <2>1. active'[q]
    BY <1>1, <1>6, <1>10, <1>11, <1>13
  <2> QED
    BY <1>6, <1>13, <1>14, <2>1
<1> QED
  BY <1>9, <1>11, <1>12, <1>13

\* umpire2.c:134-171: a player goes out only by a match it has lost against the one
\* it is paired with, but for the match against nobody.
THEOREM OnlyLosersOut == Spec => LosersLost
<1>1. ASSUME IInv, TInv, [Next]_vars
      PROVE  [\A a \in Players : active[a] /\ ~active'[a] =>
                 \/ Missed /\ pair + 1 = Len(activePlayer)
                 \/ \E b \in Players : Paired(a, b) /\ active[b] /\ active'[b] /\ LostTo(a, b)]_vars
  <2> SUFFICES ASSUME NEW a \in Players, active[a], ~active'[a]
               PROVE  \/ Missed /\ pair + 1 = Len(activePlayer)
                      \/ \E b \in Players :
                            Paired(a, b) /\ active[b] /\ active'[b] /\ LostTo(a, b)
    OBVIOUS
  <2>1. active' # active
    OBVIOUS
  <2>2. Play \/ PlayNobody
    BY <1>1, <2>1 DEF Next, UmpireNext, PlayerNext, NewLevel, SkipInactive, TakeActive, Ask, Answer,
       Draw, SkipWalkOver, EndLevel, Finish, ReadGo, Move, SeeEnd, left, vars
  <2> QED
    BY <1>1, <2>2, PlayLost, NobodyThere
<1> QED
  BY <1>1, TInvAlways, PTL DEF Spec, LosersLost
=============================================================================
