--------------------------- MODULE MailboxProofs ---------------------------
(***************************************************************************)
(* The code of msg_queue.c implements Mailboxes, for every number of       *)
(* processes, queues and messages.                                         *)
(***************************************************************************)
EXTENDS MsgQueueProofs

\* What the refinement mapping of MsgQueue puts for the variables of Mailboxes.
Letter(m)  == [from |-> m.from_pid, txt |-> m.txt]
Letters(s) == [i \in DOMAIN s |-> [from |-> s[i].from_pid, txt |-> s[i].txt]]
Mine(q, p) == Keep(msg_buffer[q], Addressed(q, p))

Member  == [q \in Queues |-> Range(member_pid[q])]
Mailbox == [q \in Queues |-> [p \in Pids |-> Letters(Mine(q, p))]]
Blocked == [q \in Queues |-> {b \in Pids \X Pids : /\ IsMember(q, b[1])
                                                   /\ b[2] \in RowOf(q, Place(q, b[1]))}]

\* The messages for p.
To(p) == {m \in Message : m.to_pid = p}

----------------------------------------------------------------------------
\* Letters of lists of messages.
LEMMA LettersEmpty == Letters(<<>>) = <<>>
<1>1. DOMAIN <<>> = {}
  OBVIOUS
<1> QED BY <1>1 DEF Letters

LEMMA LettersAppend ==
  ASSUME NEW s \in Seq(Message), NEW m \in Message
  PROVE  Letters(Append(s, m)) = Append(Letters(s), Letter(m))
<1> DEFINE n == Len(s)
           u == Append(s, m)
           L == [from: Pids, txt: Texts]
<1>1. /\ u \in Seq(Message) /\ Len(u) = n + 1 /\ n \in Nat
      /\ u[n + 1] = m /\ \A i \in 1 .. n : u[i] = s[i]
  OBVIOUS
<1>2. DOMAIN u = 1 .. n + 1 /\ DOMAIN s = 1 .. n
  BY <1>1
<1>3. \A i \in 1 .. n : s[i] \in Message
  OBVIOUS
<1> HIDE DEF n, u
<1>4. /\ Letters(s) \in Seq(L) /\ Len(Letters(s)) = n
      /\ \A i \in 1 .. n : Letters(s)[i] = Letter(s[i])
  BY <1>1, <1>2, <1>3 DEF Letters, Letter, Message
<1>5. /\ Letters(u) \in Seq(L) /\ Len(Letters(u)) = n + 1
      /\ \A i \in 1 .. n + 1 : Letters(u)[i] = Letter(u[i])
  BY <1>1, <1>2, <1>3 DEF Letters, Letter, Message
<1>6. Letter(m) \in L
  BY DEF Letter, Message
<1> HIDE DEF L
<1>7. /\ Append(Letters(s), Letter(m)) \in Seq(L)
      /\ Len(Append(Letters(s), Letter(m))) = n + 1
      /\ \A i \in 1 .. n : Append(Letters(s), Letter(m))[i] = Letters(s)[i]
      /\ Append(Letters(s), Letter(m))[n + 1] = Letter(m)
  BY <1>4, <1>6, AppendProperties
<1>8. \A i \in 1 .. n + 1 : Letters(u)[i] = Append(Letters(s), Letter(m))[i]
  <2>1. ASSUME NEW i \in 1 .. n + 1
        PROVE  Letters(u)[i] = Append(Letters(s), Letter(m))[i]
    <3>1. CASE i = n + 1
      BY <3>1, <1>1, <1>5, <1>7
    <3>2. CASE i # n + 1
      <4>1. i \in 1 .. n
        BY <3>2, <1>1
      <4> QED BY <4>1, <1>1, <1>4, <1>5, <1>7
    <3> QED BY <3>1, <3>2
  <2> QED BY <2>1
<1>9. Letters(u) = Append(Letters(s), Letter(m))
  BY <1>5, <1>7, <1>8, SeqEqual
<1> QED BY <1>9 DEF u

LEMMA LettersTail ==
  ASSUME NEW s \in Seq(Message), NEW m \in Message
  PROVE  /\ Letters(<<m>> \o s) # <<>>
         /\ Tail(Letters(<<m>> \o s)) = Letters(s)
<1> DEFINE n == Len(s)
           u == <<m>> \o s
           L == [from: Pids, txt: Texts]
<1>1. /\ u \in Seq(Message) /\ Len(u) = n + 1 /\ n \in Nat
      /\ \A i \in 1 .. n : u[i + 1] = s[i]
  OBVIOUS
<1>2. DOMAIN u = 1 .. n + 1 /\ DOMAIN s = 1 .. n
  BY <1>1
<1>3. \A i \in 1 .. n : s[i] \in Message
  OBVIOUS
<1> HIDE DEF n, u
<1>a. \A i \in 1 .. n + 1 : u[i] \in Message
  BY <1>1
<1>4. /\ Letters(s) \in Seq(L) /\ Len(Letters(s)) = n
      /\ \A i \in 1 .. n : Letters(s)[i] = Letter(s[i])
  BY <1>1, <1>2, <1>3 DEF Letters, Letter, Message
<1>5. /\ Letters(u) \in Seq(L) /\ Len(Letters(u)) = n + 1
      /\ \A i \in 1 .. n + 1 : Letters(u)[i] = Letter(u[i])
  BY <1>1, <1>2, <1>a DEF Letters, Letter, Message
<1> HIDE DEF L
<1>6. Letters(u) # <<>>
  BY <1>1, <1>5, EmptySeq
<1>7. /\ Tail(Letters(u)) \in Seq(L)
      /\ Len(Tail(Letters(u))) = n
      /\ \A i \in 1 .. n : Tail(Letters(u))[i] = Letters(u)[i + 1]
  BY <1>1, <1>5, <1>6, HeadTailProperties
<1>8. \A i \in 1 .. n : Tail(Letters(u))[i] = Letters(s)[i]
  <2>1. ASSUME NEW i \in 1 .. n
        PROVE  Tail(Letters(u))[i] = Letters(s)[i]
    <3>1. i + 1 \in 1 .. n + 1
      BY <1>1
    <3> QED BY <3>1, <1>1, <1>4, <1>5, <1>7
  <2> QED BY <2>1
<1>9. Tail(Letters(u)) = Letters(s)
  BY <1>4, <1>7, <1>8, SeqEqual
<1> QED BY <1>6, <1>9 DEF u

----------------------------------------------------------------------------
\* The mailbox of p when b is the buffer of a queue.
Box(b, p) == Letters(Keep(b, To(p)))

LEMMA KeepAddressed ==
  ASSUME NEW b \in Seq(Message), NEW p
  PROVE  Keep(b, {m \in Range(b) : m.to_pid = p}) = Keep(b, To(p))
<1>1. \A m \in Range(b) : m \in Message
  BY RangeOfSeq
<1>2. \A m \in Range(b) : m \in {x \in Range(b) : x.to_pid = p} <=> m \in To(p)
  BY <1>1 DEF To
<1> QED BY <1>2, KeepSame

LEMMA MailboxIs ==
  ASSUME TypeOK, NEW q \in Queues, NEW p \in Pids
  PROVE  Mailbox[q][p] = Box(msg_buffer[q], p)
<1>1. msg_buffer[q] \in Seq(Message)
  BY DEF TypeOK
<1>2. Mine(q, p) = Keep(msg_buffer[q], To(p))
  BY <1>1, KeepAddressed DEF Mine, Addressed
<1> QED BY <1>2 DEF Mailbox, Box

LEMMA MailboxIsNext ==
  ASSUME TypeOK', NEW q \in Queues, NEW p \in Pids
  PROVE  Mailbox'[q][p] = Box(msg_buffer'[q], p)
<1>1. msg_buffer'[q] \in Seq(Message)
  BY DEF TypeOK
<1>2. Mine(q, p)' = Keep(msg_buffer'[q], To(p))
  BY <1>1, KeepAddressed DEF Mine, Addressed
<1> QED BY <1>2 DEF Mailbox, Box

LEMMA BoxEmpty == ASSUME NEW p PROVE Box(<<>>, p) = <<>>
BY KeepEmpty, LettersEmpty DEF Box

LEMMA BoxAppend ==
  ASSUME NEW b \in Seq(Message), NEW m \in Message, NEW p
  PROVE  Box(Append(b, m), p) = IF m.to_pid = p THEN Append(Box(b, p), Letter(m)) ELSE Box(b, p)
<1>1. Keep(Append(b, m), To(p)) =
         IF m \in To(p) THEN Append(Keep(b, To(p)), m) ELSE Keep(b, To(p))
  BY KeepAppend
<1>2. Keep(b, To(p)) \in Seq(Message)
  BY KeepProperties
<1>3. Letters(Append(Keep(b, To(p)), m)) = Append(Letters(Keep(b, To(p))), Letter(m))
  BY <1>2, LettersAppend
<1>4. m \in To(p) <=> m.to_pid = p
  BY DEF To
<1> QED BY <1>1, <1>3, <1>4 DEF Box

\* do_msg_queue_send to all: one copy for each receiver.
LEMMA CopiesAppend ==
  ASSUME NEW to \in Seq(Pids), NEW r \in Pids, NEW s \in Pids, NEW t \in Texts
  PROVE  Copies(Append(to, r), s, t) =
            Append(Copies(to, s, t), [from_pid |-> s, to_pid |-> r, txt |-> t])
<1> DEFINE n == Len(to)
           u == Append(to, r)
           m(x) == [from_pid |-> s, to_pid |-> x, txt |-> t]
<1>1. /\ u \in Seq(Pids) /\ Len(u) = n + 1 /\ n \in Nat
      /\ u[n + 1] = r /\ \A i \in 1 .. n : u[i] = to[i]
  OBVIOUS
<1>2. \A i \in 1 .. n : to[i] \in Pids
  OBVIOUS
<1>3. \A x \in Pids : m(x) \in Message
  BY DEF Message
<1>4. /\ Copies(to, s, t) = [i \in 1 .. n |-> m(to[i])]
      /\ Copies(u, s, t) = [i \in 1 .. n + 1 |-> m(u[i])]
  BY <1>1 DEF Copies
<1> HIDE DEF n, u, m
<1>5. /\ Copies(to, s, t) \in Seq(Message) /\ Len(Copies(to, s, t)) = n
      /\ \A i \in 1 .. n : Copies(to, s, t)[i] = m(to[i])
  BY <1>1, <1>2, <1>3, <1>4
<1>6. /\ Copies(u, s, t) \in Seq(Message) /\ Len(Copies(u, s, t)) = n + 1
      /\ \A i \in 1 .. n + 1 : Copies(u, s, t)[i] = m(u[i])
  BY <1>1, <1>2, <1>3, <1>4
<1>7. /\ Append(Copies(to, s, t), m(r)) \in Seq(Message)
      /\ Len(Append(Copies(to, s, t), m(r))) = n + 1
      /\ \A i \in 1 .. n : Append(Copies(to, s, t), m(r))[i] = Copies(to, s, t)[i]
      /\ Append(Copies(to, s, t), m(r))[n + 1] = m(r)
  BY <1>3, <1>5, AppendProperties
<1>8. ASSUME NEW i \in 1 .. n + 1
      PROVE  Copies(u, s, t)[i] = Append(Copies(to, s, t), m(r))[i]
  <2>1. CASE i = n + 1
    BY <2>1, <1>1, <1>6, <1>7
  <2>2. CASE i # n + 1
    <3>1. i \in 1 .. n
      BY <2>2, <1>1
    <3> QED BY <3>1, <1>1, <1>5, <1>6, <1>7
  <2> QED BY <2>1, <2>2
<1>9. Copies(u, s, t) = Append(Copies(to, s, t), m(r))
  BY <1>6, <1>7, <1>8, SeqEqual
<1> QED BY <1>9 DEF u, m

LEMMA CopiesType ==
  ASSUME NEW to \in Seq(Pids), NEW s \in Pids, NEW t \in Texts
  PROVE  Copies(to, s, t) \in Seq(Message)
BY DEF Copies, Message

LEMMA BoxCopies ==
  ASSUME NEW b \in Seq(Message), NEW s \in Pids, NEW t \in Texts, NEW r \in Pids,
         NEW to \in Seq(Pids), NoRepeats(to)
  PROVE  Box(b \o Copies(to, s, t), r) =
            IF r \in Range(to) THEN Append(Box(b, r), [from |-> s, txt |-> t]) ELSE Box(b, r)
<1> DEFINE Right(w) == Box(b \o Copies(w, s, t), r) =
              IF r \in Range(w) THEN Append(Box(b, r), [from |-> s, txt |-> t]) ELSE Box(b, r)
           T == {w \in Seq(Pids) : NoRepeats(w) => Right(w)}
<1>1. <<>> \in T
  <2>1. Copies(<<>>, s, t) = <<>>
    BY DEF Copies
  <2>2. b \o <<>> = b
    BY ConcatEmptySeq
  <2>3. Range(<<>>) = {}
    BY DEF Range
  <2>4. Box(b \o Copies(<<>>, s, t), r) = Box(b, r)
    BY <2>1, <2>2, Zenon
  <2>5. Right(<<>>)
    BY <2>3, <2>4
  <2> HIDE DEF Right
  <2> QED BY <2>5
<1>2. ASSUME NEW w \in T, NEW e \in Pids
      PROVE  Append(w, e) \in T
  <2> DEFINE m == [from_pid |-> s, to_pid |-> e, txt |-> t]
             c == b \o Copies(w, s, t)
  <2>1. /\ w \in Seq(Pids) /\ Append(w, e) \in Seq(Pids) /\ m \in Message
        /\ m.to_pid = e /\ Letter(m) = [from |-> s, txt |-> t]
    BY DEF Message, Letter
  <2>2. Copies(w, s, t) \in Seq(Message)
    BY <2>1, CopiesType
  <2>3. c \in Seq(Message)
    BY <2>2, ConcatProperties
  <2>4. b \o Copies(Append(w, e), s, t) = Append(c, m)
    <3> HIDE DEF m
    <3>1. Copies(Append(w, e), s, t) = Append(Copies(w, s, t), m)
      BY <2>1, CopiesAppend DEF m
    <3> QED BY <3>1, <2>1, <2>2, ConcatAppend
  <2> HIDE DEF c
  <2>5. Box(Append(c, m), r) = IF e = r THEN Append(Box(c, r), [from |-> s, txt |-> t]) ELSE Box(c, r)
    <3> HIDE DEF m
    <3> QED BY <2>1, <2>3, BoxAppend
  <2>6. NoRepeats(Append(w, e)) <=> NoRepeats(w) /\ e \notin Range(w)
    BY <2>1, NoRepeatsAppend
  <2>7. Range(Append(w, e)) = Range(w) \cup {e}
    BY <2>1, RangeOfAppend
  <2>8. NoRepeats(w) =>
           Box(c, r) = IF r \in Range(w) THEN Append(Box(b, r), [from |-> s, txt |-> t])
                                         ELSE Box(b, r)
    BY DEF c
  <2>9. NoRepeats(Append(w, e)) => Right(Append(w, e))
    <3> HIDE DEF m
    <3> QED BY <2>4, <2>5, <2>6, <2>7, <2>8
  <2> HIDE DEF Right
  <2> QED BY <2>1, <2>9
<1>3. T = Seq(Pids)
  <2>1. T \in SUBSET Seq(Pids)
    OBVIOUS
  <2> HIDE DEF T
  <2> QED BY <1>1, <1>2, <2>1, AllSequences
<1> QED BY <1>3

\* do_msg_queue_rcv: the first message for p leaves.
LEMMA BoxRcv ==
  ASSUME NEW b \in Seq(Message), NEW p, NEW n \in 1 .. Len(b),
         b[n].to_pid = p, \A j \in 1 .. n-1 : b[j].to_pid # p
  PROVE  /\ Box(b, p) # <<>> /\ Box(RemoveAt(b, n), p) = Tail(Box(b, p))
         /\ \A r : r # p => Box(RemoveAt(b, n), r) = Box(b, r)
<1> DEFINE before == SubSeq(b, 1, n-1)
           behind == SubSeq(b, n+1, Len(b))
           m == b[n]
           from == <<m>> \o behind
<1>1. /\ before \in Seq(Message) /\ behind \in Seq(Message) /\ m \in Message
      /\ <<m>> \in Seq(Message)
      /\ Len(b) \in Nat /\ n \in Nat
  OBVIOUS
<1>2. b = before \o from
  <2>1. SubSeq(b, n, Len(b)) = from
    BY SubSeqRecursiveFirst
  <2>2. SubSeq(b, 1, n-1) \o SubSeq(b, n-1+1, Len(b)) = SubSeq(b, 1, Len(b))
    <3>1. 1 \in 1 .. Len(b)+1 /\ n-1 \in 1-1 .. Len(b) /\ Len(b) \in n-1 .. Len(b)
      BY <1>1
    <3> QED BY <3>1, ConcatAdjacentSubSeq
  <2>3. n-1+1 = n
    BY <1>1
  <2>4. SubSeq(b, 1, Len(b)) = b
    BY SubSeqFull
  <2> HIDE DEF from
  <2> QED BY <2>1, <2>2, <2>3, <2>4
<1>3. RemoveAt(b, n) = before \o behind
  BY DEF RemoveAt
<1>4. \A x \in Range(before) : x.to_pid # p
  <2>1. ASSUME NEW i \in DOMAIN before
        PROVE  before[i].to_pid # p
    <3>1. i \in 1 .. n-1 /\ before[i] = b[i]
      BY <1>1
    <3> QED BY <3>1
  <2> HIDE DEF before
  <2> QED BY <2>1 DEF Range
<1>5. from \in Seq(Message)
  BY <1>1, ConcatProperties
<1> HIDE DEF before, behind, from, m
<1>6. ASSUME NEW X
      PROVE  /\ Keep(RemoveAt(b, n), X) = Keep(before, X) \o Keep(behind, X)
             /\ Keep(b, X) = Keep(before, X) \o Keep(from, X)
             /\ Keep(from, X) = IF m \in X THEN <<m>> \o Keep(behind, X) ELSE Keep(behind, X)
             /\ Keep(behind, X) \in Seq(Message) /\ Keep(before, X) \in Seq(Message)
             /\ Keep(from, X) \in Seq(Message)
  <2>1. Keep(before \o behind, X) = Keep(before, X) \o Keep(behind, X)
    <3>1. before \in Seq(Message) /\ behind \in Seq(Message)
      BY <1>1
    <3> QED BY ONLY <3>1, KeepConcat
  <2>2. Keep(before \o from, X) = Keep(before, X) \o Keep(from, X)
    <3>1. before \in Seq(Message) /\ from \in Seq(Message)
      BY <1>1, <1>5
    <3> QED BY ONLY <3>1, KeepConcat
  <2>3. Keep(<<m>> \o behind, X) = Keep(<<m>>, X) \o Keep(behind, X)
    <3> DEFINE one == <<m>>
    <3>1. one \in Seq(Message)
      BY <1>1
    <3> HIDE DEF one
    <3>2. behind \in Seq(Message)
      BY <1>1
    <3>3. Keep(one \o behind, X) = Keep(one, X) \o Keep(behind, X)
      BY ONLY <3>1, <3>2, KeepConcat
    <3> QED BY <3>3 DEF one
  <2>4. Keep(<<m>>, X) = IF m \in X THEN <<m>> ELSE <<>>
    <3>1. <<>> \in Seq(Message) /\ Append(<<>>, m) = <<m>>
      BY <1>1
    <3>2. Keep(Append(<<>>, m), X) = IF m \in X THEN Append(Keep(<<>>, X), m) ELSE Keep(<<>>, X)
      BY <3>1, <1>1, KeepAppend
    <3>3. Keep(<<>>, X) = <<>>
      BY KeepEmpty
    <3> QED BY <3>1, <3>2, <3>3
  <2>5. /\ Keep(behind, X) \in Seq(Message) /\ Keep(before, X) \in Seq(Message)
        /\ Keep(from, X) \in Seq(Message)
    BY <1>1, <1>5, KeepProperties
  <2>6. <<>> \o Keep(behind, X) = Keep(behind, X)
    BY <2>5, ConcatEmptySeq
  <2>7. Keep(from, X) = IF m \in X THEN <<m>> \o Keep(behind, X) ELSE Keep(behind, X)
    BY <2>3, <2>4, <2>6 DEF from
  <2> QED BY <1>2, <1>3, <2>1, <2>2, <2>5, <2>7
<1>7. Box(b, p) # <<>> /\ Box(RemoveAt(b, n), p) = Tail(Box(b, p))
  <2> DEFINE X == To(p)
  <2>1. Keep(before, X) = <<>>
    <3>1. Range(before) \cap X = {}
      BY <1>4 DEF To
    <3> HIDE DEF X
    <3> QED BY <3>1, <1>1, KeepNone
  <2>2. m \in X
    BY <1>1 DEF To, m
  <2> HIDE DEF X
  <2>3. Keep(b, X) = <<m>> \o Keep(behind, X) /\ Keep(RemoveAt(b, n), X) = Keep(behind, X)
    <3>1. <<>> \o Keep(behind, X) = Keep(behind, X) /\ <<>> \o Keep(from, X) = Keep(from, X)
      BY <1>6, ConcatEmptySeq
    <3> QED BY <3>1, <1>6, <2>1, <2>2
  <2>4. /\ Letters(<<m>> \o Keep(behind, X)) # <<>>
        /\ Tail(Letters(<<m>> \o Keep(behind, X))) = Letters(Keep(behind, X))
    BY <1>1, <1>6, LettersTail
  <2>5. Box(b, p) = Letters(Keep(b, X)) /\ Box(RemoveAt(b, n), p) = Letters(Keep(RemoveAt(b, n), X))
    BY DEF Box, X
  <2> QED BY <2>3, <2>4, <2>5
<1>8. ASSUME NEW r, r # p
      PROVE  Box(RemoveAt(b, n), r) = Box(b, r)
  <2>1. m \notin To(r)
    BY <1>8 DEF To, m
  <2>2. Keep(RemoveAt(b, n), To(r)) = Keep(b, To(r))
    <3> DEFINE X == To(r)
    <3>1. m \notin X
      BY <2>1
    <3> HIDE DEF X
    <3>2. Keep(RemoveAt(b, n), X) = Keep(b, X)
      BY <3>1, <1>6
    <3> QED BY <3>2 DEF X
  <2> QED BY <2>2 DEF Box
<1> QED BY <1>7, <1>8

\* do_msg_queue_close: the messages for p go.
Others(b, p) == {m \in Range(b) : m.to_pid # p}

LEMMA BoxWithout ==
  ASSUME NEW b \in Seq(Message), NEW p, NEW r
  PROVE  Box(Keep(b, Others(b, p)), r) = IF r = p THEN <<>> ELSE Box(b, r)
<1> DEFINE others == Others(b, p)
<1> USE DEF Others
<1>1. Keep(Keep(b, others), To(r)) = Keep(b, others \cap To(r))
  BY KeepKeep
<1>2. CASE r = p
  <2>1. Range(b) \cap (others \cap To(r)) = {}
    BY <1>2 DEF To
  <2>2. Keep(b, others \cap To(r)) = <<>>
    BY <2>1, KeepNone
  <2> QED BY <1>1, <1>2, <2>2, LettersEmpty DEF Box
<1>3. CASE r # p
  <2>1. \A m \in Range(b) : m \in others \cap To(r) <=> m \in To(r)
    BY <1>3 DEF To
  <2>2. Keep(b, others \cap To(r)) = Keep(b, To(r))
    BY <2>1, KeepSame
  <2> QED BY <1>1, <1>3, <2>2 DEF Box
<1> QED BY <1>2, <1>3

----------------------------------------------------------------------------
(* The steps.  First the variables of Mailboxes place by place.            *)

LEMMA Members ==
  ASSUME NEW q \in Queues, NEW p
  PROVE  p \in Member[q] <=> IsMember(q, p)
BY DEF Member, Range, IsMember

LEMMA Blocks ==
  ASSUME NEW q \in Queues, NEW r \in Pids, NEW s \in Pids
  PROVE  <<r, s>> \in Blocked[q] <=> IsMember(q, r) /\ s \in RowOf(q, Place(q, r))
BY DEF Blocked

LEMMA Boxes ==
  ASSUME TypeOK
  PROVE  Mailbox = [q \in Queues |-> [p \in Pids |-> Box(msg_buffer[q], p)]]
<1>1. \A q \in Queues, p \in Pids : Mailbox[q][p] = Box(msg_buffer[q], p)
  BY MailboxIs
<1>2. Mailbox = [q \in Queues |-> [p \in Pids |-> Mailbox[q][p]]]
  BY DEF Mailbox
<1> QED BY <1>1, <1>2

LEMMA BoxesNext ==
  ASSUME TypeOK'
  PROVE  Mailbox' = [q \in Queues |-> [p \in Pids |-> Box(msg_buffer'[q], p)]]
<1>1. \A q \in Queues, p \in Pids : Mailbox'[q][p] = Box(msg_buffer'[q], p)
  BY MailboxIsNext
<1>2. Mailbox' = [q \in Queues |-> [p \in Pids |-> Mailbox'[q][p]]]
  BY DEF Mailbox
<1> QED BY <1>1, <1>2

LEMMA SameMembers ==
  ASSUME UNCHANGED <<member_pid, block_process>>
  PROVE  Member' = Member /\ Blocked' = Blocked
BY DEF Member, Blocked, IsMember, Place, RowOf

\* What a send of l to the processes of R does to the mailboxes.
Sent(q, R, l) == [Mailbox EXCEPT ![q] =
                    [r \in Pids |-> IF r \in R THEN Append(@[r], l) ELSE @[r]]]

LEMMA Delivered ==
  ASSUME TypeOK, TypeOK', NEW q \in Queues, NEW R, NEW l,
         \A x \in Queues : x # q => msg_buffer'[x] = msg_buffer[x],
         \A r \in Pids : Box(msg_buffer'[q], r) =
            IF r \in R THEN Append(Box(msg_buffer[q], r), l) ELSE Box(msg_buffer[q], r)
  PROVE  Mailbox' = Sent(q, R, l)
<1> DEFINE old(x, r) == Box(msg_buffer[x], r)
           new(x, r) == Box(msg_buffer'[x], r)
<1>1. Mailbox = [x \in Queues |-> [r \in Pids |-> old(x, r)]]
  BY Boxes
<1>2. Mailbox' = [x \in Queues |-> [r \in Pids |-> new(x, r)]]
  BY BoxesNext
<1>3. \A x \in Queues, r \in Pids :
         new(x, r) = IF x = q /\ r \in R THEN Append(old(x, r), l) ELSE old(x, r)
  OBVIOUS
<1> HIDE DEF old, new
<1> QED BY <1>1, <1>2, <1>3 DEF Sent

LEMMA UnicastStep ==
  ASSUME IInv, TypeOK', NEW p \in Pids, NEW fd \in Fds, NEW q \in Queues,
         NEW m \in Message, SendUnicast(p, fd, q, m)
  PROVE  MB!Unicast(p, q, m.to_pid, m.txt)
<1>1. /\ TypeOK /\ msg_buffer[q] \in Seq(Message) /\ m.to_pid \in Pids
      /\ Letter(m) = [from |-> p, txt |-> m.txt]
  BY DEF IInv, TypeOK, SendUnicast, Message, Letter
<1>2. Member' = Member /\ Blocked' = Blocked
  BY SameMembers DEF SendUnicast
<1>3. p \in Member[q] /\ m.to_pid \in Member[q] \ {p}
  BY Members DEF SendUnicast, Uses, UnicastAccepted
<1>4. <<m.to_pid, p>> \notin Blocked[q]
  BY <1>1, Blocks DEF SendUnicast, UnicastAccepted, CellsScanned
<1>5. msg_buffer'[q] = Append(msg_buffer[q], m) /\ \A x \in Queues : x # q => msg_buffer'[x] = msg_buffer[x]
  BY <1>1 DEF SendUnicast, TypeOK
<1>6. \A r \in Pids : Box(msg_buffer'[q], r) =
         IF r \in {m.to_pid} THEN Append(Box(msg_buffer[q], r), Letter(m)) ELSE Box(msg_buffer[q], r)
  <2> DEFINE b == msg_buffer[q]
  <2>1. \A r \in Pids : Box(Append(b, m), r) =
           IF m.to_pid = r THEN Append(Box(b, r), Letter(m)) ELSE Box(b, r)
    <3>1. b \in Seq(Message)
      BY <1>1
    <3> HIDE DEF b
    <3> QED BY <3>1, BoxAppend
  <2> QED BY <1>5, <2>1
<1>7. Mailbox' = Sent(q, {m.to_pid}, [from |-> p, txt |-> m.txt])
  BY <1>1, <1>5, <1>6, Delivered
<1> QED
  BY <1>2, <1>3, <1>4, <1>7
     DEF Sent, MB!Unicast, MB!Reachable, MB!Deliver, Member, Mailbox, Blocked, Mine, Letters

LEMMA BroadcastStep ==
  ASSUME IInv, TypeOK', NEW p \in Pids, NEW fd \in Fds, NEW q \in Queues,
         NEW t \in Texts, SendBroadcast(p, fd, q, t)
  PROVE  MB!Broadcast(p, q, t)
<1> DEFINE to == Receivers(q, p)
           R == {r \in Member[q] \ {p} : <<r, p>> \notin Blocked[q]}
           l == [from |-> p, txt |-> t]
<1>1. /\ TypeOK /\ msg_buffer[q] \in Seq(Message) /\ member_pid[q] \in Seq(Pids)
      /\ NoRepeats(member_pid[q])
  BY DEF IInv, TypeOK, MembersHoldDescriptors, NoRepeats
<1>2. Member' = Member /\ Blocked' = Blocked
  BY SameMembers DEF SendBroadcast
<1>3. p \in Member[q]
  BY Members DEF SendBroadcast, Uses
<1>4. to \in Seq(Pids) /\ NoRepeats(to)
  BY <1>1, KeepProperties, KeepNoRepeats DEF Receivers
<1>5. Range(to) = R
  <2> DEFINE Y == {r \in Range(member_pid[q]) : r # p /\ p \notin RowOf(q, Place(q, r))}
  <2>1. Range(to) = Range(member_pid[q]) \cap Y
    BY <1>1, KeepProperties DEF Receivers
  <2>2. Range(to) = Y
    BY <2>1
  <2>3. Range(member_pid[q]) \subseteq Pids /\ Member[q] = Range(member_pid[q])
    BY <1>1, RangeOfSeq DEF Member
  <2>4. \A r \in Range(member_pid[q]) : <<r, p>> \in Blocked[q] <=> p \in RowOf(q, Place(q, r))
    BY <2>3, Blocks, Members
  <2> QED BY <2>2, <2>3, <2>4
<1>6. /\ msg_buffer'[q] = msg_buffer[q] \o Copies(to, p, t)
      /\ \A x \in Queues : x # q => msg_buffer'[x] = msg_buffer[x]
  BY <1>1 DEF SendBroadcast, TypeOK
<1>7. \A r \in Pids : Box(msg_buffer'[q], r) =
         IF r \in R THEN Append(Box(msg_buffer[q], r), l) ELSE Box(msg_buffer[q], r)
  <2> DEFINE b == msg_buffer[q]
  <2>1. \A r \in Pids : Box(b \o Copies(to, p, t), r) =
           IF r \in Range(to) THEN Append(Box(b, r), [from |-> p, txt |-> t]) ELSE Box(b, r)
    <3>1. b \in Seq(Message)
      BY <1>1
    <3> HIDE DEF b, to
    <3> QED BY <1>4, <3>1, BoxCopies
  <2> QED BY <1>5, <1>6, <2>1
<1>8. Mailbox' = Sent(q, R, l)
  <2> HIDE DEF R, l
  <2> QED BY <1>1, <1>6, <1>7, Delivered
<1> HIDE DEF to
<1> QED
  BY <1>2, <1>3, <1>8
     DEF Sent, MB!Broadcast, MB!Reachable, MB!Deliver, Member, Mailbox, Blocked, Mine, Letters

\* The mailbox of p after it has read.
Read(q, p) == [Mailbox EXCEPT ![q][p] = Tail(@)]

LEMMA ReceiveStep ==
  ASSUME IInv, TypeOK', NEW p \in Pids, NEW fd \in Fds, NEW q \in Queues, Rcv(p, fd, q)
  PROVE  MB!Receive(p, q)
<1>1. /\ TypeOK /\ msg_buffer[q] \in Seq(Message)
      /\ DOMAIN msg_buffer[q] = 1 .. Len(msg_buffer[q])
  BY DEF IInv, TypeOK
<1>2. Member' = Member /\ Blocked' = Blocked
  BY SameMembers DEF Rcv
<1>3. p \in Member[q]
  BY Members DEF Rcv, Uses
<1>4. PICK n \in 1 .. Len(msg_buffer[q]) :
             /\ msg_buffer[q][n].to_pid = p
             /\ \A j \in 1 .. n-1 : msg_buffer[q][j].to_pid # p
             /\ msg_buffer' = [msg_buffer EXCEPT ![q] = RemoveAt(msg_buffer[q], n)]
  BY <1>1 DEF Rcv
<1>5. /\ msg_buffer'[q] = RemoveAt(msg_buffer[q], n)
      /\ \A x \in Queues : x # q => msg_buffer'[x] = msg_buffer[x]
  BY <1>1, <1>4 DEF TypeOK
<1>6. /\ Box(msg_buffer[q], p) # <<>>
      /\ Box(msg_buffer'[q], p) = Tail(Box(msg_buffer[q], p))
      /\ \A r : r # p => Box(msg_buffer'[q], r) = Box(msg_buffer[q], r)
  <2> DEFINE b == msg_buffer[q]
  <2>1. /\ b \in Seq(Message) /\ n \in 1 .. Len(b)
        /\ b[n].to_pid = p /\ \A j \in 1 .. n-1 : b[j].to_pid # p
    BY <1>1, <1>4
  <2> HIDE DEF b
  <2>2. /\ Box(b, p) # <<>> /\ Box(RemoveAt(b, n), p) = Tail(Box(b, p))
        /\ \A r : r # p => Box(RemoveAt(b, n), r) = Box(b, r)
    BY <2>1, BoxRcv
  <2> QED BY <1>5, <2>2 DEF b
<1>7. Mailbox[q][p] # <<>>
  BY <1>1, <1>6, MailboxIs
<1>8. Mailbox' = Read(q, p)
  <2> DEFINE old(x, r) == Box(msg_buffer[x], r)
             new(x, r) == Box(msg_buffer'[x], r)
  <2>1. Mailbox = [x \in Queues |-> [r \in Pids |-> old(x, r)]]
    BY <1>1, Boxes
  <2>2. Mailbox' = [x \in Queues |-> [r \in Pids |-> new(x, r)]]
    BY BoxesNext
  <2>3. \A x \in Queues, r \in Pids :
           new(x, r) = IF x = q /\ r = p THEN Tail(old(x, r)) ELSE old(x, r)
    BY <1>5, <1>6
  <2> HIDE DEF old, new
  <2> QED BY <2>1, <2>2, <2>3 DEF Read
<1> QED
  BY <1>2, <1>3, <1>7, <1>8
     DEF Read, MB!Receive, Member, Mailbox, Blocked, Mine, Letters

LEMMA SameMailboxes ==
  ASSUME UNCHANGED msg_buffer
  PROVE  Mailbox' = Mailbox
BY DEF Mailbox, Letters, Mine, Addressed

LEMMA BlockStep ==
  ASSUME IInv, NEW p \in Pids, NEW fd \in Fds, NEW q \in Queues, NEW pid \in Pids,
         Block(p, fd, q, pid)
  PROVE  MB!Block(p, q, pid)
<1> DEFINE n == Place(q, p)
<1>1. PICK k \in Places :
             /\ block_process[q][n][k] = NoPid
             /\ block_process' = [block_process EXCEPT ![q][n][k] = pid]
  BY DEF Block
<1>2. /\ IsMember(q, p) /\ IsMember(q, pid) /\ p # pid
      /\ UNCHANGED <<member_pid, msg_buffer>>
  BY DEF Block, Uses, BlockAccepted
<1>3. Member' = Member /\ Mailbox' = Mailbox
  BY <1>2, SameMailboxes DEF Member
<1>4. {p, pid} \subseteq Member[q]
  BY <1>2, Members
<1>5. n \in Places /\ n \in DOMAIN member_pid[q] /\ member_pid[q][n] = p
  <2>1. n \in DOMAIN member_pid[q] /\ member_pid[q][n] = p
    BY <1>2, PlaceProperties
  <2>2. member_pid[q] \in Seq(Pids) /\ Len(member_pid[q]) <= MAX_MEMBERS /\ MAX_MEMBERS \in Nat
    BY Bounds DEF IInv, TypeOK, MembersHoldDescriptors
  <2> QED BY <2>1, <2>2 DEF Places
<1> DEFINE Row(x, i)  == {block_process[x][i][j] : j \in Places}
           Row1(x, i) == {block_process'[x][i][j] : j \in Places}
<1>6. ASSUME NEW x \in Queues, NEW i \in Places, NEW s \in Pids
      PROVE  s \in Row1(x, i) <=> s \in Row(x, i) \/ (x = q /\ i = n /\ s = pid)
  <2>1. s # NoPid
    BY Bounds DEF Pids, NoPid
  <2>2. block_process \in [Queues -> [Places -> [Places -> Pids \cup {NoPid}]]]
    BY DEF IInv, TypeOK
  <2>3. \A j \in Places : block_process'[x][i][j] =
           IF x = q /\ i = n /\ j = k THEN pid ELSE block_process[x][i][j]
    BY <1>1, <1>5, <2>2
  <2> QED BY <1>1, <2>1, <2>3
<1>7. \A x \in Queues, r \in Pids : IsMember(x, r) => Place(x, r) \in Places
  <2>1. ASSUME NEW x \in Queues, NEW r \in Pids, IsMember(x, r)
        PROVE  Place(x, r) \in Places
    <3>1. Place(x, r) \in DOMAIN member_pid[x]
      BY <2>1, PlaceProperties
    <3>2. member_pid[x] \in Seq(Pids) /\ Len(member_pid[x]) <= MAX_MEMBERS /\ MAX_MEMBERS \in Nat
      BY Bounds DEF IInv, TypeOK, MembersHoldDescriptors
    <3> QED BY <3>1, <3>2 DEF Places
  <2> QED BY <2>1
<1>8. \A r \in Pids : IsMember(q, r) /\ Place(q, r) = n => r = p
  BY <1>5, PlaceProperties
<1>9. Blocked' = [Blocked EXCEPT ![q] = @ \cup {<<p, pid>>}]
  <2>1. Blocked = [x \in Queues |-> {b \in Pids \X Pids : IsMember(x, b[1]) /\ b[2] \in Row(x, Place(x, b[1]))}]
    BY DEF Blocked, RowOf
  <2>2. Blocked' = [x \in Queues |-> {b \in Pids \X Pids : IsMember(x, b[1]) /\ b[2] \in Row1(x, Place(x, b[1]))}]
    BY <1>2 DEF Blocked, RowOf, IsMember, Place
  <2> HIDE DEF Row, Row1, n
  <2>3. ASSUME NEW x \in Queues, NEW b \in Pids \X Pids, IsMember(x, b[1])
        PROVE  b[2] \in Row1(x, Place(x, b[1])) <=>
                  b[2] \in Row(x, Place(x, b[1])) \/ (x = q /\ b = <<p, pid>>)
    <3>1. /\ b[1] \in Pids /\ b[2] \in Pids /\ b = <<b[1], b[2]>>
          /\ Place(x, b[1]) \in Places
      BY <2>3, <1>7
    <3>2. b[2] \in Row1(x, Place(x, b[1])) <=>
             b[2] \in Row(x, Place(x, b[1])) \/ (x = q /\ Place(x, b[1]) = n /\ b[2] = pid)
      BY <3>1, <1>6
    <3>3. x = q /\ Place(x, b[1]) = n /\ b[2] = pid <=> x = q /\ b = <<p, pid>>
      BY <3>1, <2>3, <1>8 DEF n
    <3> QED BY <3>2, <3>3
  <2>4. <<p, pid>> \in Pids \X Pids /\ IsMember(q, <<p, pid>>[1])
    BY <1>2
  <2>5. ASSUME NEW x \in Queues
        PROVE  Blocked'[x] = IF x = q THEN Blocked[q] \cup {<<p, pid>>} ELSE Blocked[x]
    BY <2>1, <2>2, <2>3, <2>4
  <2> QED BY <2>1, <2>2, <2>5
<1> QED
  BY <1>2, <1>3, <1>4, <1>9
     DEF MB!Block, Member, Mailbox, Blocked, Mine, Letters

----------------------------------------------------------------------------
(* The steps that change the member lists.                                 *)

\* The place of x in a list without repetitions.
Spot(m, x) == CHOOSE i \in DOMAIN m : m[i] = x

LEMMA SpotIs ==
  ASSUME NEW m, NEW i \in DOMAIN m, \A j, k \in DOMAIN m : m[j] = m[k] => j = k
  PROVE  Spot(m, m[i]) = i
<1> DEFINE P(j) == j \in DOMAIN m /\ m[j] = m[i]
<1>1. P(CHOOSE j : P(j))
  BY Zenon
<1>2. Spot(m, m[i]) \in DOMAIN m /\ m[Spot(m, m[i])] = m[i]
  BY DEF Spot
<1> QED BY <1>2

\* Blocked after a step, from the member lists and the rows after it.
LEMMA BlockedNext ==
  Blocked' = [q \in Queues |-> {b \in Pids \X Pids :
                 /\ \E i \in DOMAIN member_pid'[q] : member_pid'[q][i] = b[1]
                 /\ \E k \in Places : block_process'[q][Spot(member_pid'[q], b[1])][k] = b[2]}]
<1>1. \A q, r : IsMember(q, r)' = \E i \in DOMAIN member_pid'[q] : member_pid'[q][i] = r
  BY DEF IsMember
<1>2. \A q, r : Place(q, r)' = Spot(member_pid'[q], r)
  BY DEF Place, Spot
<1>3. \A q, i : RowOf(q, i)' = {block_process'[q][i][k] : k \in Places}
  BY DEF RowOf
<1> QED BY <1>1, <1>2, <1>3 DEF Blocked

\* The same from the pairs: r refuses s.
LEMMA BlockedPairs ==
  ASSUME NEW q \in Queues, NEW B \in SUBSET (Pids \X Pids),
         \A r, s \in Pids : <<r, s>> \in B <=>
            /\ \E i \in DOMAIN member_pid'[q] : member_pid'[q][i] = r
            /\ \E k \in Places : block_process'[q][Spot(member_pid'[q], r)][k] = s
  PROVE  Blocked'[q] = B
<1> DEFINE Now(r, s) == /\ \E i \in DOMAIN member_pid'[q] : member_pid'[q][i] = r
                        /\ \E k \in Places : block_process'[q][Spot(member_pid'[q], r)][k] = s
<1>1. Blocked'[q] = {b \in Pids \X Pids : Now(b[1], b[2])}
  BY BlockedNext
<1>2. \A r, s \in Pids : <<r, s>> \in B <=> Now(r, s)
  OBVIOUS
<1> HIDE DEF Now
<1>3. \A b \in Pids \X Pids : b[1] \in Pids /\ b[2] \in Pids /\ b = <<b[1], b[2]>>
  OBVIOUS
<1> QED BY <1>1, <1>2, <1>3

\* The lists, rows and pairs of the queues that a step does not touch.
LEMMA BlockedSame ==
  ASSUME NEW q \in Queues, member_pid'[q] = member_pid[q], block_process'[q] = block_process[q]
  PROVE  Blocked'[q] = Blocked[q]
BY DEF Blocked, IsMember, Place, RowOf

LEMMA CreateStep ==
  ASSUME IInv, TypeOK', NEW p \in Pids, NEW q \in Queues, Create(p, q)
  PROVE  MB!Open(p, q)
<1>1. /\ member_pid[q] = <<>> /\ TypeOK
      /\ member_pid' = [member_pid EXCEPT ![q] = <<p>>]
      /\ block_process' = [block_process EXCEPT ![q] = EmptyTable]
      /\ msg_buffer' = [msg_buffer EXCEPT ![q] = <<>>]
  BY DEF Create, IInv, MembersHoldDescriptors
<1>2. /\ member_pid'[q] = <<p>> /\ block_process'[q] = EmptyTable
      /\ \A x \in Queues : x # q => /\ member_pid'[x] = member_pid[x]
                                   /\ block_process'[x] = block_process[x]
  BY <1>1 DEF TypeOK
<1>3. Member' = [Member EXCEPT ![q] = {p}]
  <2>1. Range(<<p>>) = {p}
    BY DEF Range
  <2>2. Member' = [x \in Queues |-> Range(member_pid'[x])]
    BY DEF Member
  <2> QED BY <2>1, <2>2, <1>2 DEF Member
<1>4. Member[q] = {}
  BY <1>1 DEF Member, Range
<1>5. Mailbox' = Mailbox
  <2>1. msg_buffer[q] = <<>>
    <3>1. \A i \in DOMAIN msg_buffer[q] : FALSE
      BY <1>1 DEF IInv, PendingForMembers, IsMember
    <3>2. msg_buffer[q] \in Seq(Message) /\ Range(msg_buffer[q]) = {}
      BY <1>1, <3>1 DEF TypeOK, Range
    <3> QED BY <3>2, RangeEmpty
  <2>2. UNCHANGED msg_buffer
    BY <1>1, <2>1 DEF TypeOK
  <2> QED BY <2>2, SameMailboxes
<1>6. Blocked' = Blocked
  <2>1. Blocked[q] = {}
    BY <1>1 DEF Blocked, IsMember
  <2>2. Blocked'[q] = {}
    <3>1. Spot(<<p>>, p) \in Places
      <4>1. DOMAIN <<p>> = {1} /\ <<p>>[1] = p
        OBVIOUS
      <4>2. Spot(<<p>>, p) = 1
        BY <4>1 DEF Spot
      <4> QED BY <4>2, Bounds DEF Places
    <3>2. \A r \in Pids : r # NoPid
      BY Bounds DEF Pids, NoPid
    <3>3. \A r, s \in Pids : ~ (/\ \E i \in DOMAIN <<p>> : <<p>>[i] = r
                              /\ \E k \in Places : EmptyTable[Spot(<<p>>, r)][k] = s)
      <4>1. \A i \in DOMAIN <<p>> : <<p>>[i] = p
        OBVIOUS
      <4> QED BY <3>1, <3>2, <4>1 DEF EmptyTable, EmptyRow
    <3> DEFINE none == {}
    <3>4. /\ none \in SUBSET (Pids \X Pids)
          /\ \A r, s \in Pids : <<r, s>> \in none <=>
               /\ \E i \in DOMAIN member_pid'[q] : member_pid'[q][i] = r
               /\ \E k \in Places : block_process'[q][Spot(member_pid'[q], r)][k] = s
      BY <3>3, <1>2
    <3> HIDE DEF none
    <3>5. Blocked'[q] = none
      BY <3>4, BlockedPairs
    <3> QED BY <3>5 DEF none
  <2>3. Blocked' = [x \in Queues |-> Blocked'[x]] /\ Blocked = [x \in Queues |-> Blocked[x]]
    BY DEF Blocked
  <2>4. \A x \in Queues : Blocked'[x] = Blocked[x]
    BY <1>2, <2>1, <2>2, BlockedSame
  <2> QED BY <2>3, <2>4
<1> QED
  BY <1>3, <1>4, <1>5, <1>6
     DEF MB!Open, Member, Mailbox, Blocked, Mine, Letters

LEMMA ForkStep ==
  ASSUME IInv, IInv', NEW p \in Pids, NEW c \in Pids, Fork(p, c)
  PROVE  MB!Join(p, c)
<1>1. /\ c \notin live /\ TypeOK
      /\ block_process' = block_process /\ msg_buffer' = msg_buffer
  BY DEF Fork, IInv
<1>2. \A q \in Queues : ~ IsMember(q, c)
  BY <1>1 DEF IInv, MembersHoldDescriptors
<1>3. \A q \in Queues : c \notin Member[q]
  BY <1>2, Members
<1>4. Mailbox' = Mailbox
  BY <1>1, SameMailboxes
<1> DEFINE Listed(q, x) == \E i \in DOMAIN member_pid'[q] : member_pid'[q][i] = x
<1>5. ASSUME NEW q \in Queues
      PROVE  /\ Len(member_pid[q]) \in Nat
             /\ DOMAIN member_pid[q] = 1 .. Len(member_pid[q])
             /\ DOMAIN member_pid'[q] =
                   IF IsMember(q, p) THEN 1 .. Len(member_pid[q]) + 1 ELSE 1 .. Len(member_pid[q])
             /\ \A i \in 1 .. Len(member_pid[q]) : member_pid'[q][i] = member_pid[q][i]
             /\ IsMember(q, p) => member_pid'[q][Len(member_pid[q]) + 1] = c
             /\ Len(member_pid[q]) < MAX_MEMBERS
  BY ForkLists
<1>6. ASSUME NEW q \in Queues, NEW x
      PROVE  Listed(q, x) <=> IsMember(q, x) \/ (x = c /\ IsMember(q, p))
  <2> DEFINE n == Len(member_pid[q])
  <2>1. n \in Nat /\ 1 .. n + 1 = 1 .. n \cup {n + 1}
    BY <1>5
  <2>2. IsMember(q, x) <=> \E i \in 1 .. n : member_pid[q][i] = x
    BY <1>5 DEF IsMember
  <2>3. DOMAIN member_pid'[q] = IF IsMember(q, p) THEN 1 .. n \cup {n + 1} ELSE 1 .. n
    BY <1>5, <2>1
  <2>4. /\ \A i \in 1 .. n : member_pid'[q][i] = member_pid[q][i]
        /\ IsMember(q, p) => member_pid'[q][n + 1] = c
    BY <1>5
  <2> HIDE DEF n
  <2> QED BY <2>2, <2>3, <2>4
<1>7. Member' = [q \in Queues |-> IF p \in Member[q] THEN Member[q] \cup {c} ELSE Member[q]]
  <2>1. Member' = [q \in Queues |-> Range(member_pid'[q])]
    BY DEF Member
  <2>2. \A q \in Queues : \A x : x \in Range(member_pid'[q]) <=> Listed(q, x)
    BY DEF Range
  <2> HIDE DEF Listed
  <2>3. ASSUME NEW q \in Queues
        PROVE  Range(member_pid'[q]) = IF p \in Member[q] THEN Member[q] \cup {c} ELSE Member[q]
    <3>1. \A x : x \in Member[q] <=> IsMember(q, x)
      BY Members
    <3>2. \A x : x \in Range(member_pid'[q]) <=> IsMember(q, x) \/ (x = c /\ IsMember(q, p))
      BY <2>2, <1>6
    <3> QED BY <3>1, <3>2
  <2> QED BY <2>1, <2>3
<1>8. ASSUME NEW q \in Queues
      PROVE  Blocked'[q] = Blocked[q]
  <2> DEFINE n == Len(member_pid[q])
             new == member_pid'[q]
             table == block_process[q]
  <2>1. \A j, k \in DOMAIN new : new[j] = new[k] => j = k
    BY DEF IInv, MembersHoldDescriptors
  <2>2. ASSUME NEW r \in Pids, NEW s \in Pids
        PROVE  <<r, s>> \in Blocked[q] <=>
                  Listed(q, r) /\ \E k \in Places : table[Spot(new, r)][k] = s
    <3>1. CASE IsMember(q, r)
      <4>1. PICK i \in 1 .. n : member_pid[q][i] = r
        BY <3>1, <1>5 DEF IsMember
      <4>2. Place(q, r) = i
        BY <3>1, <4>1, <1>5, PlaceProperties DEF IInv, MembersHoldDescriptors
      <4>3. i \in DOMAIN new /\ new[i] = r
        BY <4>1, <1>5
      <4> HIDE DEF n, new
      <4>4. Spot(new, r) = i
        BY <4>3, <2>1, SpotIs
      <4>5. s \in RowOf(q, i) <=> \E k \in Places : table[i][k] = s
        BY DEF RowOf
      <4> QED BY <3>1, <4>2, <4>4, <4>5, <1>6, Blocks
    <3>2. CASE ~ IsMember(q, r) /\ Listed(q, r)
      <4>1. r = c /\ IsMember(q, p)
        BY <3>2, <1>6
      <4>2. n + 1 \in DOMAIN new /\ new[n + 1] = r
        BY <4>1, <1>5
      <4>3. n \in Nat /\ n < MAX_MEMBERS /\ MAX_MEMBERS \in Nat
        BY <1>5, Bounds
      <4>4. \A k \in Places : table[n + 1][k] = NoPid
        BY <4>3 DEF IInv, RowsNameOtherMembers, Places
      <4>5. s # NoPid
        BY Bounds DEF Pids, NoPid
      <4>6. Spot(new, r) = n + 1
        <5> DEFINE i == n + 1
        <5>1. i \in DOMAIN new /\ new[i] = r
          BY <4>2
        <5> HIDE DEF i, new
        <5>2. Spot(new, r) = i
          BY <5>1, <2>1, SpotIs
        <5> QED BY <5>2 DEF i
      <4> HIDE DEF n, new
      <4> QED BY <3>2, <4>4, <4>5, <4>6, Blocks
    <3>3. CASE ~ Listed(q, r)
      BY <3>3, <1>6, Blocks
    <3> QED BY <3>1, <3>2, <3>3
  <2>3. Blocked[q] \in SUBSET (Pids \X Pids)
    BY DEF Blocked
  <2>4. block_process'[q] = table
    BY <1>1
  <2> DEFINE B == Blocked[q]
  <2> HIDE DEF B
  <2>5. B \in SUBSET (Pids \X Pids) /\ \A r, s \in Pids : <<r, s>> \in B <=>
            /\ \E i \in DOMAIN member_pid'[q] : member_pid'[q][i] = r
            /\ \E k \in Places : block_process'[q][Spot(member_pid'[q], r)][k] = s
    BY <2>2, <2>3, <2>4 DEF B
  <2>6. Blocked'[q] = B
    BY <2>5, BlockedPairs
  <2> QED BY <2>6 DEF B
<1>9. Blocked' = Blocked
  <2>1. Blocked' = [x \in Queues |-> Blocked'[x]] /\ Blocked = [x \in Queues |-> Blocked[x]]
    BY DEF Blocked
  <2> QED BY <1>8, <2>1
<1> QED
  BY <1>3, <1>4, <1>7, <1>9
     DEF MB!Join, Member, Mailbox, Blocked, Mine, Letters

LEMMA LeaveStep ==
  ASSUME IInv, IInv', NEW p \in Pids, NEW Q \in SUBSET Queues,
         \A q \in Q : IsMember(q, p), LeaveQueues(p, Q)
  PROVE  MB!Leave(p, Q)
<1>1. TypeOK /\ TypeOK' /\ MembersHoldDescriptors
  BY DEF IInv
<1>2. ASSUME NEW q \in Q
      PROVE  /\ q \in Queues /\ IsMember(q, p)
             /\ member_pid'[q] = MembersWithout(q, p)
             /\ msg_buffer'[q] = MessagesWithout(q, p)
             /\ block_process'[q] = BlocksWithout(q, p)
  BY DEF LeaveQueues
<1>3. ASSUME NEW q \in Queues, q \notin Q
      PROVE  /\ member_pid'[q] = member_pid[q]
             /\ msg_buffer'[q] = msg_buffer[q]
             /\ block_process'[q] = block_process[q]
  BY <1>3 DEF LeaveQueues
<1>4. \A q \in Q : p \in Member[q]
  BY <1>2, Members
<1>5. Member' = [q \in Queues |-> IF q \in Q THEN Member[q] \ {p} ELSE Member[q]]
  <2>1. Member' = [q \in Queues |-> Range(member_pid'[q])]
    BY DEF Member
  <2>2. ASSUME NEW q \in Q
        PROVE  Range(member_pid'[q]) = Member[q] \ {p}
    <3>1. \A x : (\E i \in DOMAIN member_pid'[q] : member_pid'[q][i] = x) <=> IsMember(q, x) /\ x # p
      BY <1>1, <1>2, MembersWithoutProperties
    <3>2. \A x : x \in Range(member_pid'[q]) <=> IsMember(q, x) /\ x # p
      BY <3>1 DEF Range
    <3>3. \A x : x \in Member[q] <=> IsMember(q, x)
      BY <1>2, Members
    <3> QED BY <3>2, <3>3
  <2>3. \A q \in Queues : q \notin Q => Range(member_pid'[q]) = Member[q]
    BY <1>3 DEF Member
  <2> QED BY <2>1, <2>2, <2>3
<1>6. Mailbox' = [q \in Queues |-> IF q \in Q THEN [Mailbox[q] EXCEPT ![p] = <<>>] ELSE Mailbox[q]]
  <2> DEFINE old(x, r) == Box(msg_buffer[x], r)
             new(x, r) == Box(msg_buffer'[x], r)
  <2>1. Mailbox = [x \in Queues |-> [r \in Pids |-> old(x, r)]]
    BY <1>1, Boxes
  <2>2. Mailbox' = [x \in Queues |-> [r \in Pids |-> new(x, r)]]
    BY <1>1, BoxesNext
  <2>3. ASSUME NEW x \in Q, NEW r \in Pids
        PROVE  new(x, r) = IF r = p THEN <<>> ELSE old(x, r)
    <3> DEFINE b == msg_buffer[x]
    <3>1. b \in Seq(Message)
      BY <1>1, <1>2 DEF TypeOK
    <3>2. msg_buffer'[x] = Keep(b, Others(b, p))
      BY <1>2 DEF MessagesWithout, Others
    <3> HIDE DEF b
    <3>3. Box(Keep(b, Others(b, p)), r) = IF r = p THEN <<>> ELSE Box(b, r)
      BY <3>1, BoxWithout
    <3> QED BY <3>2, <3>3 DEF b
  <2>4. \A x \in Queues : x \notin Q => \A r \in Pids : new(x, r) = old(x, r)
    BY <1>3
  <2> HIDE DEF old, new
  <2> QED BY <2>1, <2>2, <2>3, <2>4
<1>7. ASSUME NEW q \in Q
      PROVE  Blocked'[q] = {b \in Blocked[q] : p \notin {b[1], b[2]}}
  <2> DEFINE m == member_pid[q]
             n == Len(m)
             pl == Place(q, p)
             new == member_pid'[q]
             table == block_process[q]
             up == RowsMovedUp(q, p)
             B == {b \in Blocked[q] : p \notin {b[1], b[2]}}
             Listed(x) == \E i \in DOMAIN new : new[i] = x
  <2>1. /\ n \in Nat /\ pl \in 1 .. n /\ n <= MAX_MEMBERS /\ MAX_MEMBERS \in Nat
        /\ DOMAIN m = 1 .. n /\ DOMAIN new = 1 .. n - 1 /\ m[pl] = p
        /\ \A i \in 1 .. n - 1 : new[i] = IF i < pl THEN m[i] ELSE m[i+1]
        /\ \A x : Listed(x) <=> IsMember(q, x) /\ x # p
        /\ \A i, j \in DOMAIN new : new[i] = new[j] => i = j
    <3>1. new = MembersWithout(q, p) /\ q \in Queues /\ IsMember(q, p)
      BY <1>2
    <3>2. /\ MembersWithout(q, p) \in Seq(Pids)
          /\ Len(MembersWithout(q, p)) = n - 1
          /\ Place(q, p) \in 1 .. n
          /\ n \in Nat
          /\ \A i \in 1 .. n - 1 :
                MembersWithout(q, p)[i] =
                  IF i < Place(q, p) THEN member_pid[q][i] ELSE member_pid[q][i+1]
          /\ \A x : (\E i \in DOMAIN MembersWithout(q, p) : MembersWithout(q, p)[i] = x)
                      <=> IsMember(q, x) /\ x # p
          /\ \A i, j \in DOMAIN MembersWithout(q, p) :
                MembersWithout(q, p)[i] = MembersWithout(q, p)[j] => i = j
      BY <1>1, <3>1, MembersWithoutProperties
    <3>3. DOMAIN m = 1 .. n /\ n <= MAX_MEMBERS /\ MAX_MEMBERS \in Nat /\ m[pl] = p
      BY <1>1, <3>1, PlaceProperties, Bounds DEF TypeOK, MembersHoldDescriptors
    <3>4. DOMAIN MembersWithout(q, p) = 1 .. n - 1
      BY <3>2
    <3> HIDE DEF n, m, pl
    <3> QED BY <3>1, <3>2, <3>3, <3>4 DEF pl, m
  <2>2. \A i, k \in Places : block_process'[q][i][k] = IF up[i][k] = p THEN NoPid ELSE up[i][k]
    <3>1. block_process'[q] = BlocksWithout(q, p)
      BY <1>2
    <3> QED BY <3>1 DEF BlocksWithout
  <2>3. \A i \in Places : up[i] = IF i = n THEN EmptyRow
                                ELSE IF pl <= i /\ i < MAX_MEMBERS THEN table[i+1]
                                ELSE table[i]
    BY DEF RowsMovedUp
  <2>4. q \in Queues
    OBVIOUS
  <2> HIDE DEF up, Listed
  <2>5. ASSUME NEW r \in Pids, NEW s \in Pids
        PROVE  <<r, s>> \in B <=>
                  Listed(r) /\ \E k \in Places : block_process'[q][Spot(new, r)][k] = s
    <3>0. <<r, s>> \in B <=> <<r, s>> \in Blocked[q] /\ r # p /\ s # p
      OBVIOUS
    <3> HIDE DEF B
    <3>1. CASE ~ (IsMember(q, r) /\ r # p)
      BY <3>0, <3>1, <2>1, <2>4, Blocks
    <3>2. CASE IsMember(q, r) /\ r # p
      <4> DEFINE j == Place(q, r)
                 i == IF j < pl THEN j ELSE j - 1
      <4>1. j \in 1 .. n /\ m[j] = r
        BY <3>2, <2>1, <2>4, PlaceProperties
      <4>2. j # pl
        BY <4>1, <3>2, <2>1
      <4> HIDE DEF j
      <4>3. /\ i \in 1 .. n - 1 /\ i \in Places /\ i # n
            /\ IF i < pl THEN j = i ELSE j = i + 1 /\ i < MAX_MEMBERS
        BY <4>1, <4>2, <2>1 DEF Places
      <4> HIDE DEF i, n, pl, m, new
      <4>4. i \in DOMAIN new /\ new[i] = r
        BY <4>1, <4>3, <2>1
      <4>5. Spot(new, r) = i
        BY <4>4, <2>1, SpotIs
      <4>6. up[i] = table[j]
        <5>1. CASE i < pl
          <6>1. ~ (pl <= i)
            BY <5>1, <4>3, <2>1
          <6> QED BY <5>1, <6>1, <4>3, <2>3
        <5>2. CASE ~ (i < pl)
          <6>1. pl <= i
            BY <5>2, <4>3, <2>1
          <6> QED BY <5>2, <6>1, <4>3, <2>3
        <5> QED BY <5>1, <5>2
      <4>7. s # NoPid
        BY Bounds DEF Pids, NoPid
      <4>8. (\E k \in Places : block_process'[q][i][k] = s)
               <=> s # p /\ \E k \in Places : table[j][k] = s
        BY <4>3, <4>6, <4>7, <2>2
      <4>9. s \in RowOf(q, j) <=> \E k \in Places : table[j][k] = s
        BY DEF RowOf
      <4>10. <<r, s>> \in Blocked[q] <=> s \in RowOf(q, j)
        BY <3>2, <2>4, Blocks DEF j
      <4>11. Listed(r)
        BY <3>2, <2>1
      <4> HIDE DEF table
      <4> QED BY <3>0, <3>2, <4>5, <4>8, <4>9, <4>10, <4>11
    <3> QED BY <3>1, <3>2
  <2>6. B \in SUBSET (Pids \X Pids)
    BY DEF Blocked
  <2> HIDE DEF B
  <2>7. \A r, s \in Pids : <<r, s>> \in B <=>
            /\ \E i \in DOMAIN member_pid'[q] : member_pid'[q][i] = r
            /\ \E k \in Places : block_process'[q][Spot(member_pid'[q], r)][k] = s
    BY <2>5 DEF Listed
  <2>8. Blocked'[q] = B
    BY <2>4, <2>6, <2>7, BlockedPairs
  <2> QED BY <2>8 DEF B
<1>8. Blocked' = [q \in Queues |-> IF q \in Q THEN {b \in Blocked[q] : p \notin {b[1], b[2]}}
                                             ELSE Blocked[q]]
  <2>1. Blocked' = [x \in Queues |-> Blocked'[x]]
    BY DEF Blocked
  <2>2. \A x \in Queues : x \notin Q => Blocked'[x] = Blocked[x]
    BY <1>3, BlockedSame
  <2> QED BY <1>7, <2>1, <2>2
<1> QED
  BY <1>4, <1>5, <1>6, <1>8
     DEF MB!Leave, Member, Mailbox, Blocked, Mine, Letters

----------------------------------------------------------------------------
\* Every queue starts without members, letters and blocking.
LEMMA MailboxInit == Init => MB!Init
<1> SUFFICES ASSUME Init
             PROVE  MB!Init
  OBVIOUS
<1>1. \A q \in Queues : member_pid[q] = <<>> /\ msg_buffer[q] = <<>>
  BY DEF Init
<1>2. Member = [q \in Queues |-> {}]
  BY <1>1 DEF Member, Range
<1>3. Mailbox = [q \in Queues |-> [p \in Pids |-> <<>>]]
  <2>1. Mailbox = [q \in Queues |-> [p \in Pids |-> Box(msg_buffer[q], p)]]
    BY TypeInit, Boxes
  <2> QED BY <2>1, <1>1, BoxEmpty
<1>4. Blocked = [q \in Queues |-> {}]
  BY <1>1 DEF Blocked, IsMember
<1> QED BY <1>2, <1>3, <1>4 DEF MB!Init, Member, Mailbox, Blocked, Mine, Letters

\* Every call is a step of Mailboxes; a call of the closing kind leaves one
\* queue, do_exit all of the process.
LEMMA MailboxNext == IInv /\ IInv' /\ Next => MB!Next
<1> SUFFICES ASSUME IInv, IInv', NEW p \in Pids,
                    \/ \E q \in Queues : Create(p, q)
                    \/ \E fd \in Fds, q \in Queues : UseQueue(p, fd, q)
                    \/ \E c \in Pids : Fork(p, c)
                    \/ Exit(p)
             PROVE  MB!Next
  BY DEF Next
<1>0. TypeOK'
  BY DEF IInv
<1>1. ASSUME NEW q \in Queues, Create(p, q)
      PROVE  MB!Next
  BY <1>0, <1>1, CreateStep DEF MB!Next
<1>2. ASSUME NEW c \in Pids, Fork(p, c)
      PROVE  MB!Next
  BY <1>2, ForkStep DEF MB!Next
<1>3. ASSUME Exit(p)
      PROVE  MB!Next
  <2> DEFINE Q == {q \in Held(p) : IsMember(q, p)}
  <2>1. Q \in SUBSET Queues /\ (\A q \in Q : IsMember(q, p)) /\ LeaveQueues(p, Q)
    BY <1>3 DEF Exit, Held, IInv, TypeOK
  <2> HIDE DEF Q
  <2>2. PICK R \in SUBSET Queues : (\A q \in R : IsMember(q, p)) /\ LeaveQueues(p, R)
    <3>1. \E R \in SUBSET Queues : R = Q
      BY <2>1
    <3>2. ASSUME NEW R \in SUBSET Queues, R = Q
          PROVE  (\A q \in R : IsMember(q, p)) /\ LeaveQueues(p, R)
      BY <2>1, <3>2 DEF LeaveQueues
    <3> QED BY <3>1, <3>2
  <2>3. MB!Leave(p, R)
    BY <2>2, LeaveStep
  <2> QED BY <2>3 DEF MB!Next
<1>4. ASSUME NEW fd \in Fds, NEW q \in Queues, UseQueue(p, fd, q)
      PROVE  MB!Next
  <2>1. ASSUME NEW m \in Message, SendUnicast(p, fd, q, m)
        PROVE  MB!Next
    <3>1. m.to_pid \in Pids /\ m.txt \in Texts
      BY DEF Message
    <3>2. MB!Unicast(p, q, m.to_pid, m.txt)
      BY <1>0, <2>1, UnicastStep
    <3> QED BY <3>1, <3>2 DEF MB!Next
  <2>2. ASSUME NEW t \in Texts, SendBroadcast(p, fd, q, t)
        PROVE  MB!Next
    BY <1>0, <2>2, BroadcastStep DEF MB!Next
  <2>3. ASSUME Rcv(p, fd, q)
        PROVE  MB!Next
    BY <1>0, <2>3, ReceiveStep DEF MB!Next
  <2>4. ASSUME NEW pid \in Pids, Block(p, fd, q, pid)
        PROVE  MB!Next
    BY <2>4, BlockStep DEF MB!Next
  <2>5. ASSUME Close(p, fd, q)
        PROVE  MB!Next
    <3> DEFINE Q == {q}
    <3>1. Q \in SUBSET Queues /\ (\A x \in Q : IsMember(x, p)) /\ LeaveQueues(p, Q)
      BY <2>5 DEF Close, Uses
    <3> HIDE DEF Q
    <3>2. MB!Leave(p, Q)
      BY <3>1, LeaveStep
    <3> QED BY <3>1, <3>2 DEF MB!Next
  <2> QED BY <1>4, <2>1, <2>2, <2>3, <2>4, <2>5 DEF UseQueue
<1> QED BY <1>1, <1>2, <1>3, <1>4

LEMMA MailboxStutters == UNCHANGED vars => UNCHANGED MB!vars
BY DEF vars, queueVars, MB!vars, IsMember, Place, RowOf, Addressed

\* msg_queue.c keeps the promise of Mailboxes for every number of processes,
\* members, descriptors, queues, bodies and pending messages: a message reaches
\* the members it is for, once and in order, blocking stays with the pair it was
\* asked for, and a member that leaves or appears disturbs nobody else.
THEOREM RefinesMailboxes == Spec => ImplementsMailboxes
<1>1. Init => MB!Init
  BY MailboxInit
<1>2. IInv /\ IInv' /\ [Next]_vars => [MB!Next]_(MB!vars)
  BY MailboxNext, MailboxStutters
<1> QED BY <1>1, <1>2, Consistent, PTL DEF Spec, ImplementsMailboxes, MB!Spec

----------------------------------------------------------------------------
(* A block lasts.  First the table: what a step of Mailboxes does to it.   *)

Parted(x, Q) ==
  /\ Member' = [q \in Queues |-> IF q \in Q THEN Member[q] \ {x} ELSE Member[q]]
  /\ Blocked' = [q \in Queues |-> IF q \in Q THEN {b \in Blocked[q] : x \notin {b[1], b[2]}}
                                             ELSE Blocked[q]]

LEMMA BlockedSteps ==
  ASSUME MB!Next
  PROVE  \/ Blocked' = Blocked
         \/ \E x \in Pids, Q \in SUBSET Queues : Parted(x, Q)
         \/ \E x, s \in Pids, q \in Queues :
               Blocked' = [Blocked EXCEPT ![q] = @ \cup {<<x, s>>}]
<1> PICK x \in Pids :
       \/ \E c \in Pids : MB!Join(x, c)
       \/ \E Q \in SUBSET Queues : MB!Leave(x, Q)
       \/ \E q \in Queues :
             \/ MB!Open(x, q)
             \/ MB!Receive(x, q)
             \/ \E s \in Pids : MB!Block(x, q, s)
             \/ \E t \in Texts : MB!Broadcast(x, q, t)
             \/ \E r \in Pids, t \in Texts : MB!Unicast(x, q, r, t)
  BY DEF MB!Next
<1>1. ASSUME NEW c \in Pids, MB!Join(x, c)
      PROVE  Blocked' = Blocked
  BY <1>1 DEF MB!Join, Blocked
<1>2. ASSUME NEW Q \in SUBSET Queues, MB!Leave(x, Q)
      PROVE  Parted(x, Q)
  BY <1>2 DEF MB!Leave, Member, Blocked, Parted
<1>3. ASSUME NEW q \in Queues, NEW s \in Pids, MB!Block(x, q, s)
      PROVE  Blocked' = [Blocked EXCEPT ![q] = @ \cup {<<x, s>>}]
  BY <1>3 DEF MB!Block, Blocked
<1>4. ASSUME NEW q \in Queues,
             \/ MB!Open(x, q)
             \/ MB!Receive(x, q)
             \/ \E t \in Texts : MB!Broadcast(x, q, t)
             \/ \E r \in Pids, t \in Texts : MB!Unicast(x, q, r, t)
      PROVE  Blocked' = Blocked
  BY <1>4 DEF MB!Open, MB!Receive, MB!Broadcast, MB!Unicast, MB!Deliver, Blocked
<1> QED BY <1>1, <1>2, <1>3, <1>4

LEMMA PairStays ==
  ASSUME MB!Next, NEW q \in Queues, NEW r \in Pids, NEW s \in Pids,
         <<r, s>> \in Blocked[q], r \in Member'[q], s \in Member'[q]
  PROVE  <<r, s>> \in Blocked'[q]
<1>1. CASE Blocked' = Blocked
  BY <1>1
<1>2. ASSUME NEW x \in Pids, NEW Q \in SUBSET Queues, Parted(x, Q)
      PROVE  <<r, s>> \in Blocked'[q]
  BY <1>2 DEF Parted
<1>3. ASSUME NEW x \in Pids, NEW y \in Pids, NEW z \in Queues,
             Blocked' = [Blocked EXCEPT ![z] = @ \cup {<<x, y>>}]
      PROVE  <<r, s>> \in Blocked'[q]
  <2>1. Blocked = [u \in Queues |-> Blocked[u]]
    BY DEF Blocked
  <2> QED BY <1>3, <2>1
<1> QED BY <1>1, <1>2, <1>3, BlockedSteps

----------------------------------------------------------------------------
(* Then the messages of p that r has still to read.                        *)

From(p, r) == {m \in Message : m.from_pid = p /\ m.to_pid = r}

LEMMA PendingIs ==
  ASSUME NEW b \in Seq(Message), NEW p, NEW r
  PROVE  /\ Keep(b, {m \in Range(b) : m.from_pid = p /\ m.to_pid = r}) = Keep(b, From(p, r))
         /\ Keep(b, From(p, r)) \in Seq(Message)
<1>1. \A m \in Range(b) : m \in Message
  BY RangeOfSeq
<1>2. \A m \in Range(b) :
         m \in {x \in Range(b) : x.from_pid = p /\ x.to_pid = r} <=> m \in From(p, r)
  BY <1>1 DEF From
<1>3. Keep(b, {m \in Range(b) : m.from_pid = p /\ m.to_pid = r}) = Keep(b, From(p, r))
  BY <1>2, KeepSame
<1> QED BY <1>3, KeepProperties

\* Copies of a message that is not from p, or that r is not to get.
LEMMA NoCopyFrom ==
  ASSUME NEW b \in Seq(Message), NEW to \in Seq(Pids), NEW x \in Pids, NEW t \in Texts,
         NEW p, NEW r, x # p \/ r \notin Range(to)
  PROVE  Keep(b \o Copies(to, x, t), From(p, r)) = Keep(b, From(p, r))
<1> DEFINE c == Copies(to, x, t)
           X == From(p, r)
<1>1. c \in Seq(Message)
  BY CopiesType
<1>2. Range(c) \cap X = {}
  <2>1. ASSUME NEW i \in DOMAIN c
        PROVE  c[i] \notin X
    <3>1. i \in 1 .. Len(to) /\ c[i] = [from_pid |-> x, to_pid |-> to[i], txt |-> t]
      BY DEF Copies
    <3>2. to[i] \in Range(to)
      BY <3>1 DEF Range
    <3> QED BY <3>1, <3>2 DEF From
  <2> HIDE DEF c, X
  <2> QED BY <2>1 DEF Range
<1> HIDE DEF c, X
<1>3. Keep(c, X) = <<>> /\ Keep(b, X) \in Seq(Message)
  BY <1>1, <1>2, KeepNone, KeepProperties
<1>4. Keep(b \o c, X) = Keep(b, X) \o Keep(c, X)
  BY ONLY <1>1, b \in Seq(Message), KeepConcat
<1> QED BY <1>3, <1>4, ConcatEmptySeq DEF c, X

\* Taking one message away leaves no more of any kind.
LEMMA KeepAfterRemoval ==
  ASSUME NEW b \in Seq(Message), NEW n \in 1 .. Len(b), NEW X
  PROVE  Len(Keep(RemoveAt(b, n), X)) <= Len(Keep(b, X))
<1> DEFINE before == SubSeq(b, 1, n-1)
           behind == SubSeq(b, n+1, Len(b))
           m == b[n]
           upto == Append(before, m)
<1>1. /\ before \in Seq(Message) /\ behind \in Seq(Message) /\ m \in Message
      /\ Len(b) \in Nat /\ n \in Nat
  OBVIOUS
<1>2. upto \in Seq(Message) /\ upto = SubSeq(b, 1, n)
  <2>1. 1 \in 1 .. Len(b) /\ n \in 1 .. Len(b) /\ 1 \in Nat
    BY <1>1
  <2>2. SubSeq(b, 1, n) = SubSeq(b, 1, n-1) \o << b[n] >>
    BY <2>1, SubSeqRecursiveSecond
  <2>3. Append(before, b[n]) = before \o << b[n] >>
    <3> HIDE DEF before
    <3> QED BY <1>1, AppendIsConcat
  <2> QED BY <1>1, <2>2, <2>3
<1>3. b = upto \o behind
  <2>1. SubSeq(b, 1, n) \o SubSeq(b, n+1, Len(b)) = SubSeq(b, 1, Len(b))
    <3>1. 1 \in 1 .. Len(b)+1 /\ n \in 1-1 .. Len(b) /\ Len(b) \in n .. Len(b)
      BY <1>1
    <3> QED BY <3>1, ConcatAdjacentSubSeq
  <2>2. SubSeq(b, 1, Len(b)) = b
    BY SubSeqFull
  <2> QED BY <1>2, <2>1, <2>2
<1>4. RemoveAt(b, n) = before \o behind
  BY DEF RemoveAt
<1>5. Keep(upto, X) = IF m \in X THEN Append(Keep(before, X), m) ELSE Keep(before, X)
  <2> HIDE DEF before, behind, m
  <2> QED BY <1>1, KeepAppend
<1> HIDE DEF before, behind, upto, m
<1>6. /\ Keep(before \o behind, X) = Keep(before, X) \o Keep(behind, X)
      /\ Keep(upto \o behind, X) = Keep(upto, X) \o Keep(behind, X)
  <2>1. before \in Seq(Message) /\ behind \in Seq(Message)
    BY <1>1
  <2>2. Keep(before \o behind, X) = Keep(before, X) \o Keep(behind, X)
    BY ONLY <2>1, KeepConcat
  <2>3. upto \in Seq(Message) /\ behind \in Seq(Message)
    BY <1>1, <1>2
  <2>4. Keep(upto \o behind, X) = Keep(upto, X) \o Keep(behind, X)
    BY ONLY <2>3, KeepConcat
  <2> QED BY <2>2, <2>4
<1>7. /\ Keep(before, X) \in Seq(Message) /\ Keep(behind, X) \in Seq(Message)
      /\ Keep(upto, X) \in Seq(Message)
  BY <1>1, <1>2, KeepProperties
<1>8. Len(Keep(before, X)) <= Len(Keep(upto, X))
  BY <1>1, <1>5, <1>7
<1>9. /\ Len(Keep(RemoveAt(b, n), X)) = Len(Keep(before, X)) + Len(Keep(behind, X))
      /\ Len(Keep(b, X)) = Len(Keep(upto, X)) + Len(Keep(behind, X))
  <2>1. /\ Len(Keep(before, X) \o Keep(behind, X)) = Len(Keep(before, X)) + Len(Keep(behind, X))
        /\ Len(Keep(upto, X) \o Keep(behind, X)) = Len(Keep(upto, X)) + Len(Keep(behind, X))
    BY ONLY <1>7, ConcatProperties
  <2> QED BY <1>3, <1>4, <1>6, <2>1
<1> QED BY <1>7, <1>8, <1>9, LenProperties

\* The messages that go with a member that leaves.
LEMMA KeepOthers ==
  ASSUME NEW b \in Seq(Message), NEW x, NEW p, NEW r
  PROVE  Keep(Keep(b, Others(b, x)), From(p, r)) = IF r = x THEN <<>> ELSE Keep(b, From(p, r))
<1>1. Keep(Keep(b, Others(b, x)), From(p, r)) = Keep(b, Others(b, x) \cap From(p, r))
  BY KeepKeep
<1>2. CASE r = x
  <2>1. Range(b) \cap (Others(b, x) \cap From(p, r)) = {}
    BY <1>2 DEF Others, From
  <2>2. Keep(b, Others(b, x) \cap From(p, r)) = <<>>
    BY <2>1, KeepNone
  <2> QED BY <1>1, <1>2, <2>2
<1>3. CASE r # x
  <2>1. \A m \in Range(b) : m \in Others(b, x) \cap From(p, r) <=> m \in From(p, r)
    BY <1>3 DEF Others, From
  <2>2. Keep(b, Others(b, x) \cap From(p, r)) = Keep(b, From(p, r))
    BY <2>1, KeepSame
  <2> QED BY <1>1, <1>3, <2>2
<1> QED BY <1>2, <1>3

\* What a step does to the buffer of a queue, as far as a blocked sender goes.
LEMMA BufferSteps ==
  ASSUME IInv, Next, NEW q \in Queues, NEW p \in Pids, NEW r \in Pids,
         IsMember(q, r), p \in RowOf(q, Place(q, r))
  PROVE  \/ msg_buffer'[q] = msg_buffer[q]
         \/ msg_buffer'[q] = <<>>
         \/ \E m \in Message : m \notin From(p, r) /\ msg_buffer'[q] = Append(msg_buffer[q], m)
         \/ \E to \in Seq(Pids), x \in Pids, t \in Texts :
               /\ x # p \/ r \notin Range(to)
               /\ msg_buffer'[q] = msg_buffer[q] \o Copies(to, x, t)
         \/ \E n \in 1 .. Len(msg_buffer[q]) : msg_buffer'[q] = RemoveAt(msg_buffer[q], n)
         \/ \E x \in Pids : msg_buffer'[q] = Keep(msg_buffer[q], Others(msg_buffer[q], x))
<1> DEFINE Goal == \/ msg_buffer'[q] = msg_buffer[q]
                   \/ msg_buffer'[q] = <<>>
                   \/ \E m \in Message : m \notin From(p, r) /\ msg_buffer'[q] = Append(msg_buffer[q], m)
                   \/ \E to \in Seq(Pids), x \in Pids, t \in Texts :
                         /\ x # p \/ r \notin Range(to)
                         /\ msg_buffer'[q] = msg_buffer[q] \o Copies(to, x, t)
                   \/ \E n \in 1 .. Len(msg_buffer[q]) : msg_buffer'[q] = RemoveAt(msg_buffer[q], n)
                   \/ \E x \in Pids : msg_buffer'[q] = Keep(msg_buffer[q], Others(msg_buffer[q], x))
<1> SUFFICES Goal
  OBVIOUS
<1>0. /\ TypeOK
      /\ msg_buffer \in [Queues -> Seq(Message)]
      /\ member_pid[q] \in Seq(Pids)
      /\ msg_buffer[q] \in Seq(Message) /\ DOMAIN msg_buffer[q] = 1 .. Len(msg_buffer[q])
  BY DEF IInv, TypeOK
<1> PICK x \in Pids :
       \/ \E z \in Queues : Create(x, z)
       \/ \E fd \in Fds, z \in Queues : UseQueue(x, fd, z)
       \/ \E c \in Pids : Fork(x, c)
       \/ Exit(x)
  BY DEF Next
<1>1. ASSUME NEW z \in Queues, Create(x, z)
      PROVE  Goal
  <2>1. msg_buffer' = [msg_buffer EXCEPT ![z] = <<>>]
    BY <1>1 DEF Create
  <2>2. msg_buffer'[q] = IF q = z THEN <<>> ELSE msg_buffer[q]
    BY <1>0, <2>1
  <2> QED BY <2>2
<1>2. ASSUME NEW c \in Pids, Fork(x, c)
      PROVE  Goal
  BY <1>2 DEF Fork
<1>3. ASSUME NEW Q, LeaveQueues(x, Q)
      PROVE  Goal
  <2>1. msg_buffer'[q] = IF q \in Q THEN MessagesWithout(q, x) ELSE msg_buffer[q]
    BY <1>3 DEF LeaveQueues
  <2>2. MessagesWithout(q, x) = Keep(msg_buffer[q], Others(msg_buffer[q], x))
    BY DEF MessagesWithout, Others
  <2> QED BY <2>1, <2>2
<1>4. ASSUME NEW fd \in Fds, NEW z \in Queues, UseQueue(x, fd, z)
      PROVE  Goal
  <2>1. ASSUME NEW m \in Message, SendUnicast(x, fd, z, m)
        PROVE  Goal
    <3>1. msg_buffer'[q] = IF q = z THEN Append(msg_buffer[q], m) ELSE msg_buffer[q]
      BY <1>0, <2>1 DEF SendUnicast
    <3>2. q = z => m \notin From(p, r)
      <4>1. /\ m.from_pid = x /\ x \notin CellsScanned(z, Place(z, m.to_pid))
        BY <2>1 DEF SendUnicast, UnicastAccepted
      <4>2. RowOf(z, Place(z, m.to_pid)) \subseteq CellsScanned(z, Place(z, m.to_pid))
        BY DEF CellsScanned
      <4> QED BY <4>1, <4>2 DEF From
    <3> QED BY <3>1, <3>2
  <2>2. ASSUME NEW t \in Texts, SendBroadcast(x, fd, z, t)
        PROVE  Goal
    <3>1. msg_buffer'[q] = IF q = z THEN msg_buffer[q] \o Copies(Receivers(q, x), x, t) ELSE msg_buffer[q]
      BY <1>0, <2>2 DEF SendBroadcast
    <3> DEFINE to == Receivers(q, x)
    <3>2. to \in Seq(Pids)
      BY <1>0, KeepProperties DEF Receivers
    <3>3. x # p \/ r \notin Range(to)
      <4> DEFINE Y == {y \in Range(member_pid[q]) : y # x /\ x \notin RowOf(q, Place(q, y))}
      <4>1. Range(to) = Range(member_pid[q]) \cap Y
        BY <1>0, KeepProperties DEF Receivers
      <4> QED BY <4>1
    <3> HIDE DEF to
    <3>4. msg_buffer'[q] = IF q = z THEN msg_buffer[q] \o Copies(to, x, t) ELSE msg_buffer[q]
      BY <3>1 DEF to
    <3> QED BY <3>2, <3>3, <3>4
  <2>3. ASSUME Rcv(x, fd, z)
        PROVE  Goal
    <3>1. PICK n \in DOMAIN msg_buffer[z] :
             msg_buffer' = [msg_buffer EXCEPT ![z] = RemoveAt(msg_buffer[z], n)]
      BY <2>3 DEF Rcv
    <3>2. msg_buffer'[q] = IF q = z THEN RemoveAt(msg_buffer[q], n) ELSE msg_buffer[q]
      BY <1>0, <3>1
    <3>3. q = z => n \in 1 .. Len(msg_buffer[q])
      BY <1>0
    <3> QED BY <3>2, <3>3
  <2>4. ASSUME NEW pid \in Pids, Block(x, fd, z, pid)
        PROVE  Goal
    BY <2>4 DEF Block
  <2>5. ASSUME Close(x, fd, z)
        PROVE  Goal
    <3>1. LeaveQueues(x, {z})
      BY <2>5 DEF Close
    <3> QED BY <3>1, <1>3
  <2> QED BY <1>4, <2>1, <2>2, <2>3, <2>4, <2>5 DEF UseQueue
<1>5. ASSUME Exit(x)
      PROVE  Goal
  <2>1. LeaveQueues(x, {z \in Held(x) : IsMember(z, x)})
    BY <1>5 DEF Exit
  <2> QED BY <2>1, <1>3
<1> QED BY <1>1, <1>2, <1>4, <1>5

LEMMA NoMoreFrom ==
  ASSUME IInv, TypeOK', Next, NEW q \in Queues, NEW p \in Pids, NEW r \in Pids,
         IsMember(q, r), p \in RowOf(q, Place(q, r))
  PROVE  Len(PendingFrom(q, p, r)') <= Len(PendingFrom(q, p, r))
<1> DEFINE b == msg_buffer[q]
           d == msg_buffer'[q]
           X == From(p, r)
<1>1. b \in Seq(Message) /\ d \in Seq(Message)
  BY DEF IInv, TypeOK
<1>2. PendingFrom(q, p, r) = Keep(b, X) /\ PendingFrom(q, p, r)' = Keep(d, X)
  BY <1>1, PendingIs DEF PendingFrom
<1>3. Keep(b, X) \in Seq(Message) /\ Keep(d, X) \in Seq(Message)
  BY <1>1, PendingIs
<1>4. Len(Keep(b, X)) \in Nat
  BY <1>3
<1>5. \/ d = b
      \/ d = <<>>
      \/ \E m \in Message : m \notin X /\ d = Append(b, m)
      \/ \E to \in Seq(Pids), x \in Pids, t \in Texts :
            /\ x # p \/ r \notin Range(to)
            /\ d = b \o Copies(to, x, t)
      \/ \E n \in 1 .. Len(b) : d = RemoveAt(b, n)
      \/ \E x \in Pids : d = Keep(b, Others(b, x))
  BY BufferSteps
<1> HIDE DEF b, d, X
<1>6. d = b => Keep(d, X) = Keep(b, X)
  OBVIOUS
<1>7. d = <<>> => Keep(d, X) = <<>>
  BY KeepEmpty
<1>8. ASSUME NEW m \in Message, m \notin X, d = Append(b, m)
      PROVE  Keep(d, X) = Keep(b, X)
  BY <1>1, <1>8, KeepAppend
<1>9. ASSUME NEW to \in Seq(Pids), NEW x \in Pids, NEW t \in Texts,
             x # p \/ r \notin Range(to), d = b \o Copies(to, x, t)
      PROVE  Keep(d, X) = Keep(b, X)
  BY <1>1, <1>9, NoCopyFrom DEF X
<1>10. ASSUME NEW n \in 1 .. Len(b), d = RemoveAt(b, n)
       PROVE  Len(Keep(d, X)) <= Len(Keep(b, X))
  BY <1>1, <1>10, KeepAfterRemoval
<1>11. ASSUME NEW x \in Pids, d = Keep(b, Others(b, x))
       PROVE  Keep(d, X) = <<>> \/ Keep(d, X) = Keep(b, X)
  BY <1>1, <1>11, KeepOthers DEF X
<1>12. Keep(d, X) = <<>> \/ Keep(d, X) = Keep(b, X) \/ Len(Keep(d, X)) <= Len(Keep(b, X))
  BY <1>5, <1>6, <1>7, <1>8, <1>9, <1>10, <1>11
<1>13. Len(Keep(d, X)) <= Len(Keep(b, X))
  BY <1>4, <1>12
<1> QED BY <1>2, <1>13

LEMMA BlockLasts ==
  ASSUME IInv, IInv', Next, NEW q \in Queues, NEW p \in Pids, NEW r \in Pids,
         IsMember(q, r), p \in RowOf(q, Place(q, r)), IsMember(q, r)', IsMember(q, p)'
  PROVE  /\ p \in RowOf(q, Place(q, r))'
         /\ Len(PendingFrom(q, p, r)') <= Len(PendingFrom(q, p, r))
<1>1. MB!Next
  BY MailboxNext
<1>2. <<r, p>> \in Blocked[q]
  BY Blocks
<1>3. r \in Member'[q] /\ p \in Member'[q]
  BY DEF Member, Range, IsMember
<1>4. <<r, p>> \in Blocked'[q]
  BY <1>1, <1>2, <1>3, PairStays
<1>5. p \in RowOf(q, Place(q, r))'
  BY <1>4 DEF Blocked
<1> QED BY <1>5, NoMoreFrom DEF IInv

\* Once a member has blocked another one, it gets no further message of it, by
\* unicast or by broadcast, while both are members, whatever number of others
\* joins and leaves and moves the rows of the table.
THEOREM BlockingLasts == Spec => BlocksLast
<1>1. IInv /\ IInv' /\ [Next]_vars =>
         [\A q \in Queues, p, r \in Pids :
            /\ IsMember(q, r) /\ p \in RowOf(q, Place(q, r))
            /\ IsMember(q, r)' /\ IsMember(q, p)'
            => /\ p \in RowOf(q, Place(q, r))'
               /\ Len(PendingFrom(q, p, r)') <= Len(PendingFrom(q, p, r))]_vars
  BY BlockLasts
<1> QED BY <1>1, Consistent, PTL DEF Spec, BlocksLast
=============================================================================
