-------------------------- MODULE MsgQueueProofs --------------------------
(***************************************************************************)
(* Proofs about MsgQueue, for every number of processes, queues and        *)
(* messages.                                                               *)
(***************************************************************************)
EXTENDS MsgQueue, KeepingProofs, SequenceTheorems, FiniteSetTheorems

LEMMA PidsFinite == IsFiniteSet(Pids)
<1>1. 1 \in Int /\ MAX_PROCESSES - 1 \in Int
  BY Bounds
<1> QED BY <1>1, FS_Interval DEF Pids

LEMMA FdsFinite == IsFiniteSet(Fds)
BY Bounds, FS_Interval DEF Fds

LEMMA PlaceProperties ==
  ASSUME NEW q \in Queues, NEW p, IsMember(q, p)
  PROVE  Place(q, p) \in DOMAIN member_pid[q] /\ member_pid[q][Place(q, p)] = p
BY DEF IsMember, Place

----------------------------------------------------------------------------
\* What the calls store in a queue is well typed: a step lemma for each of the
\* variables that are more than a set.
LEMMA LeaveTypes ==
  ASSUME TypeOK, NEW p \in Pids, NEW Q \in SUBSET Queues,
         \A q \in Q : IsMember(q, p), LeaveQueues(p, Q)
  PROVE  /\ allocated' \subseteq Queues
         /\ member_pid' \in [Queues -> Seq(Pids)]
         /\ block_process' \in [Queues -> [Places -> [Places -> Pids \cup {NoPid}]]]
         /\ page_tail' \in [Queues -> SUBSET Pids]
         /\ msg_buffer' \in [Queues -> Seq(Message)]
<1>1. ASSUME NEW q \in Q
      PROVE  /\ MembersWithout(q, p) \in Seq(Pids)
             /\ MessagesWithout(q, p) \in Seq(Message)
             /\ BlocksWithout(q, p) \in [Places -> [Places -> Pids \cup {NoPid}]]
  <2>1. q \in Queues /\ member_pid[q] \in Seq(Pids) /\ msg_buffer[q] \in Seq(Message)
    BY DEF TypeOK
  <2>2. Place(q, p) \in 1 .. Len(member_pid[q])
    BY <2>1, PlaceProperties
  <2>3. MembersWithout(q, p) \in Seq(Pids)
    BY <2>1, <2>2, RemoveAtProperties DEF MembersWithout
  <2>4. MessagesWithout(q, p) \in Seq(Message)
    BY <2>1, KeepProperties DEF MessagesWithout
  <2>5. RowsMovedUp(q, p) \in [Places -> [Places -> Pids \cup {NoPid}]]
    <3> SUFFICES ASSUME NEW i \in Places
                 PROVE  RowsMovedUp(q, p)[i] \in [Places -> Pids \cup {NoPid}]
      BY DEF RowsMovedUp
    <3>1. MAX_MEMBERS \in Nat
      BY Bounds
    <3>2. i < MAX_MEMBERS => i + 1 \in Places
      BY <3>1 DEF Places
    <3>3. EmptyRow \in [Places -> Pids \cup {NoPid}]
      BY DEF EmptyRow
    <3> QED BY <2>1, <3>2, <3>3 DEF RowsMovedUp, TypeOK
  <2>6. BlocksWithout(q, p) \in [Places -> [Places -> Pids \cup {NoPid}]]
    BY <2>5 DEF BlocksWithout
  <2> QED BY <2>3, <2>4, <2>6
<1> QED BY <1>1 DEF LeaveQueues, TypeOK

LEMMA TypeInit == Init => TypeOK
<1> SUFFICES ASSUME Init
             PROVE  TypeOK
  OBVIOUS
<1>1. 1 \in Pids
  BY Bounds DEF Pids
<1>2. EmptyTable \in [Places -> [Places -> Pids \cup {NoPid}]]
  BY DEF EmptyTable, EmptyRow
<1>3. <<>> \in Seq(Pids) /\ <<>> \in Seq(Message)
  OBVIOUS
<1> QED BY <1>1, <1>2, <1>3 DEF Init, TypeOK

LEMMA TypeStep == TypeOK /\ [Next]_vars => TypeOK'
<1> SUFFICES ASSUME TypeOK, [Next]_vars
             PROVE  TypeOK'
  OBVIOUS
<1>1. ASSUME NEW p \in Pids, NEW q \in Queues, Create(p, q)
      PROVE  TypeOK'
  <2>1. EmptyTable \in [Places -> [Places -> Pids \cup {NoPid}]]
    BY DEF EmptyTable, EmptyRow
  <2>2. files' \in [Pids -> [Fds -> Queues \cup {NULL}]]
    BY <1>1 DEF Create, TypeOK
  <2>3. <<p>> \in Seq(Pids) /\ <<>> \in Seq(Message)
    OBVIOUS
  <2>4. page_tail' \in [Queues -> SUBSET Pids]
    BY <1>1, TailsArePids DEF Create, TypeOK
  <2>5. member_pid' \in [Queues -> Seq(Pids)] /\ msg_buffer' \in [Queues -> Seq(Message)]
    BY <1>1, <2>3 DEF Create, TypeOK
  <2>6. block_process' \in [Queues -> [Places -> [Places -> Pids \cup {NoPid}]]]
    BY <1>1, <2>1 DEF Create, TypeOK
  <2> QED BY <1>1, <2>2, <2>4, <2>5, <2>6 DEF Create, TypeOK
<1>2. ASSUME NEW p \in Pids, NEW fd \in Fds, NEW q \in Queues, NEW m \in Message,
             SendUnicast(p, fd, q, m)
      PROVE  TypeOK'
  BY <1>2 DEF SendUnicast, TypeOK
<1>3. ASSUME NEW p \in Pids, NEW fd \in Fds, NEW q \in Queues, NEW t \in Texts,
             SendBroadcast(p, fd, q, t)
      PROVE  TypeOK'
  <2>1. member_pid[q] \in Seq(Pids) /\ msg_buffer[q] \in Seq(Message)
    BY DEF TypeOK
  <2>2. Receivers(q, p) \in Seq(Pids)
    BY <2>1, KeepProperties DEF Receivers
  <2>3. Copies(Receivers(q, p), p, t) \in Seq(Message)
    BY <2>2 DEF Copies, Message
  <2>4. msg_buffer[q] \o Copies(Receivers(q, p), p, t) \in Seq(Message)
    BY <2>1, <2>3
  <2> QED BY <1>3, <2>4 DEF SendBroadcast, TypeOK
<1>4. ASSUME NEW p \in Pids, NEW fd \in Fds, NEW q \in Queues, Rcv(p, fd, q)
      PROVE  TypeOK'
  <2>1. msg_buffer[q] \in Seq(Message)
    BY DEF TypeOK
  <2>2. PICK i \in 1 .. Len(msg_buffer[q]) :
               msg_buffer' = [msg_buffer EXCEPT ![q] = RemoveAt(msg_buffer[q], i)]
    BY <1>4, <2>1, LenProperties DEF Rcv
  <2>3. RemoveAt(msg_buffer[q], i) \in Seq(Message)
    BY <2>1, RemoveAtProperties
  <2>4. msg_buffer' \in [Queues -> Seq(Message)]
    <3> DEFINE b == RemoveAt(msg_buffer[q], i)
    <3>1. b \in Seq(Message) /\ msg_buffer' = [msg_buffer EXCEPT ![q] = b]
      BY <2>2, <2>3
    <3> HIDE DEF b
    <3> QED BY <3>1 DEF TypeOK
  <2> QED BY <1>4, <2>4 DEF Rcv, TypeOK
<1>5. ASSUME NEW p \in Pids, NEW fd \in Fds, NEW q \in Queues, NEW pid \in Pids,
             Block(p, fd, q, pid)
      PROVE  TypeOK'
  <2>1. PICK k \in Places :
          block_process' = [block_process EXCEPT ![q][Place(q, p)][k] = pid]
    BY <1>5 DEF Block
  <2>2. block_process' \in [Queues -> [Places -> [Places -> Pids \cup {NoPid}]]]
    <3> DEFINE j == Place(q, p)
               old == block_process[q]
               rows == [old EXCEPT ![j][k] = pid]
    <3>1. block_process' = [block_process EXCEPT ![q] = rows]
      BY <2>1
    <3>2. rows \in [Places -> [Places -> Pids \cup {NoPid}]]
      <4>1. old \in [Places -> [Places -> Pids \cup {NoPid}]]
        BY DEF TypeOK
      <4>2. \A i \in Places : [old[i] EXCEPT ![k] = pid] \in [Places -> Pids \cup {NoPid}]
        BY <4>1
      <4> HIDE DEF j, old
      <4> QED BY <4>1, <4>2
    <3> HIDE DEF rows
    <3> QED BY <3>1, <3>2 DEF TypeOK
  <2> QED BY <1>5, <2>2 DEF Block, TypeOK
<1>6. ASSUME NEW p \in Pids, NEW fd \in Fds, NEW q \in Queues, Close(p, fd, q)
      PROVE  TypeOK'
  <2>1. LeaveQueues(p, {q}) /\ IsMember(q, p)
    BY <1>6 DEF Close, Uses
  <2>2. files' \in [Pids -> [Fds -> Queues \cup {NULL}]] /\ live' \subseteq Pids
    BY <1>6 DEF Close, TypeOK
  <2> QED BY <2>1, <2>2, LeaveTypes DEF TypeOK
<1>7. ASSUME NEW p \in Pids, NEW c \in Pids, Fork(p, c)
      PROVE  TypeOK'
  <2>1. files' \in [Pids -> [Fds -> Queues \cup {NULL}]] /\ live' \subseteq Pids
    BY <1>7 DEF Fork, TypeOK
  <2>2. ASSUME NEW q \in Queues
        PROVE  Cardinality({fd \in Fds : files[p][fd] = q}) \in Nat
    BY FdsFinite, FS_Subset, FS_CardinalityType
  <2>3. ASSUME NEW q \in Queues
        PROVE  member_pid'[q] \in Seq(Pids)
    <3> DEFINE n == Cardinality({fd \in Fds : files[p][fd] = q})
               new == [i \in 1 .. n |-> c]
    <3>1. n \in Nat
      BY <2>2
    <3> HIDE DEF n
    <3>2. new \in Seq(Pids)
      BY <3>1
    <3>3. member_pid'[q] = member_pid[q] \o new
      BY <1>7 DEF Fork, n
    <3>4. member_pid[q] \in Seq(Pids)
      BY DEF TypeOK
    <3> QED BY <3>2, <3>3, <3>4
  <2>4. member_pid' = [q \in Queues |-> member_pid'[q]]
    BY <1>7 DEF Fork
  <2>5. member_pid' \in [Queues -> Seq(Pids)]
    BY <2>3, <2>4
  <2> QED BY <1>7, <2>1, <2>5 DEF Fork, TypeOK
<1>8. ASSUME NEW p \in Pids, Exit(p)
      PROVE  TypeOK'
  <2> DEFINE Q == {q \in Held(p) : IsMember(q, p)}
  <2>1. Q \in SUBSET Queues
    BY DEF Held, TypeOK
  <2>2. LeaveQueues(p, Q) /\ \A q \in Q : IsMember(q, p)
    BY <1>8 DEF Exit
  <2>3. files' \in [Pids -> [Fds -> Queues \cup {NULL}]] /\ live' \subseteq Pids
    BY <1>8 DEF Exit, TypeOK
  <2> HIDE DEF Q
  <2> QED BY <2>1, <2>2, <2>3, LeaveTypes DEF TypeOK
<1>9. CASE UNCHANGED vars
  BY <1>9 DEF vars, queueVars, TypeOK
<1> QED BY <1>1, <1>2, <1>3, <1>4, <1>5, <1>6, <1>7, <1>8, <1>9 DEF Next, UseQueue

\* Every variable keeps its type, whatever the sizes of the tables.
THEOREM TypeCorrect == Spec => []TypeOK
<1>1. Init => TypeOK
  BY TypeInit
<1>2. TypeOK /\ [Next]_vars => TypeOK'
  BY TypeStep
<1> QED BY <1>1, <1>2, PTL DEF Spec

----------------------------------------------------------------------------
\* The inductive invariant.  Each conjunct leans on the others: a leaving member
\* can be taken out of the list because it is there once, a new queue is unknown
\* to every process because only queues with members are named by descriptors,
\* and a child finds no trace of its pid because a free pid is in no list.
IInv == /\ TypeOK
        /\ OneDescriptor
        /\ MembersHoldDescriptors
        /\ PendingForMembers
        /\ RowsNameOtherMembers

LEMMA InvInit == Init => IInv
<1> SUFFICES ASSUME Init
             PROVE  IInv
  OBVIOUS
<1>1. TypeOK
  BY TypeInit
<1>2. OneDescriptor
  BY DEF Init, OneDescriptor
<1>3. MembersHoldDescriptors
  <2>1. MAX_MEMBERS \in Nat
    BY Bounds
  <2>2. ASSUME NEW p \in Pids, NEW fd \in Fds, NEW q \in Queues
        PROVE  files[p][fd] # q
    BY NullIsNoQueue DEF Init
  <2> QED BY <2>1, <2>2 DEF Init, MembersHoldDescriptors, IsMember
<1>4. PendingForMembers
  BY DEF Init, PendingForMembers
<1>5. RowsNameOtherMembers
  BY DEF Init, RowsNameOtherMembers, EmptyTable, EmptyRow
<1> QED BY <1>1, <1>2, <1>3, <1>4, <1>5 DEF IInv

\* A call that changes nothing but the messages of a queue keeps the rest.
LEMMA MessagesOnly ==
  ASSUME IInv, TypeOK', PendingForMembers',
         UNCHANGED <<live, files, allocated, member_pid, block_process>>
  PROVE  IInv'
BY DEF IInv, OneDescriptor, MembersHoldDescriptors, RowsNameOtherMembers, IsMember

\* Taking a member out of a list without repetitions.
LEMMA MembersWithoutProperties ==
  ASSUME TypeOK, MembersHoldDescriptors,
         NEW q \in Queues, NEW p \in Pids, IsMember(q, p)
  PROVE  /\ MembersWithout(q, p) \in Seq(Pids)
         /\ Place(q, p) \in 1 .. Len(member_pid[q])
         /\ Len(member_pid[q]) \in Nat
         /\ Len(MembersWithout(q, p)) = Len(member_pid[q]) - 1
         /\ \A i \in 1 .. Len(member_pid[q]) - 1 :
               MembersWithout(q, p)[i] =
                  IF i < Place(q, p) THEN member_pid[q][i] ELSE member_pid[q][i+1]
         /\ \A x : (\E i \in DOMAIN MembersWithout(q, p) : MembersWithout(q, p)[i] = x)
                   <=> IsMember(q, x) /\ x # p
         /\ \A i, j \in DOMAIN MembersWithout(q, p) :
               MembersWithout(q, p)[i] = MembersWithout(q, p)[j] => i = j
<1> DEFINE m == member_pid[q]
           n == Place(q, p)
           t == MembersWithout(q, p)
<1>1. m \in Seq(Pids) /\ Len(m) \in Nat /\ DOMAIN m = 1 .. Len(m)
  BY DEF TypeOK
<1>2. n \in 1 .. Len(m) /\ m[n] = p
  BY <1>1, PlaceProperties
<1>3. /\ t \in Seq(Pids) /\ Len(t) = Len(m) - 1
      /\ \A i \in 1 .. Len(m) - 1 : t[i] = IF i < n THEN m[i] ELSE m[i+1]
  BY <1>1, <1>2, RemoveAtProperties DEF MembersWithout
<1>4. \A i, j \in 1 .. Len(m) : m[i] = m[j] => i = j
  BY <1>1 DEF MembersHoldDescriptors
<1>5. \A x : IsMember(q, x) <=> \E i \in 1 .. Len(m) : m[i] = x
  BY <1>1 DEF IsMember
<1>6. DOMAIN t = 1 .. Len(m) - 1
  BY <1>3
<1> HIDE DEF m, n, t
<1>7. ASSUME NEW x
      PROVE  (\E i \in 1 .. Len(m) - 1 : t[i] = x) <=> IsMember(q, x) /\ x # p
  <2>1. ASSUME NEW i \in 1 .. Len(m) - 1, t[i] = x
        PROVE  IsMember(q, x) /\ x # p
    <3>1. CASE i < n
      <4>1. m[i] = x /\ i \in 1 .. Len(m) /\ i # n
        BY <3>1, <2>1, <1>2, <1>3
      <4> QED BY <4>1, <1>2, <1>4, <1>5
    <3>2. CASE ~ (i < n)
      <4>1. m[i+1] = x /\ i+1 \in 1 .. Len(m) /\ i+1 # n
        BY <3>2, <2>1, <1>1, <1>2, <1>3
      <4> QED BY <4>1, <1>2, <1>4, <1>5
    <3> QED BY <3>1, <3>2
  <2>2. ASSUME IsMember(q, x), x # p
        PROVE  \E i \in 1 .. Len(m) - 1 : t[i] = x
    <3>1. PICK i \in 1 .. Len(m) : m[i] = x
      BY <2>2, <1>5
    <3>2. i # n
      BY <3>1, <2>2, <1>2
    <3>3. CASE i < n
      <4>1. i \in 1 .. Len(m) - 1 /\ t[i] = x
        BY <3>1, <3>3, <1>1, <1>2, <1>3
      <4> QED BY <4>1
    <3>4. CASE n < i
      <4>1. i-1 \in 1 .. Len(m) - 1 /\ ~ (i-1 < n) /\ (i-1) + 1 = i
        BY <3>4, <1>1, <1>2
      <4>2. t[i-1] = x
        BY <4>1, <3>1, <1>3
      <4> QED BY <4>1, <4>2
    <3> QED BY <3>2, <3>3, <3>4, <1>2
  <2> QED BY <2>1, <2>2
<1>8. ASSUME NEW i \in 1 .. Len(m) - 1, NEW j \in 1 .. Len(m) - 1, t[i] = t[j]
      PROVE  i = j
  <2> DEFINE old(k) == IF k < n THEN k ELSE k + 1
  <2>1. /\ old(i) \in 1 .. Len(m) /\ t[i] = m[old(i)]
        /\ old(j) \in 1 .. Len(m) /\ t[j] = m[old(j)]
    BY <1>1, <1>2, <1>3
  <2>2. old(i) = old(j)
    <3> HIDE DEF old
    <3> QED BY <2>1, <1>4, <1>8
  <2> QED BY <2>2, <1>1, <1>2
<1> QED BY <1>1, <1>2, <1>3, <1>6, <1>7, <1>8 DEF m, n, t

\* do_msg_queue_close, and do_exit, which closes every queue of the process.
LEMMA LeaveInv ==
  ASSUME IInv, TypeOK', NEW p \in live, NEW Q \in SUBSET Queues,
         \A q \in Q : IsMember(q, p),
         LeaveQueues(p, Q),
         \/ live' = live
         \/ live' = live \ {p} /\ \A q \in Queues : IsMember(q, p) => q \in Q,
         \A x \in Pids, fd \in Fds :
            files'[x][fd] = IF x = p /\ files[x][fd] \in Q THEN NULL ELSE files[x][fd]
  PROVE  IInv'
<1> USE DEF IInv
<1>1. p \in Pids /\ TypeOK /\ MembersHoldDescriptors
  BY DEF TypeOK
<1>2. ASSUME NEW q \in Q
      PROVE  /\ q \in Queues /\ IsMember(q, p)
             /\ member_pid'[q] = MembersWithout(q, p)
             /\ msg_buffer'[q] = MessagesWithout(q, p)
             /\ block_process'[q] = BlocksWithout(q, p)
  BY DEF LeaveQueues
<1>3. ASSUME NEW q \in Queues, q \notin Q
      PROVE  /\ member_pid'[q] = member_pid[q]
             /\ msg_buffer'[q] = msg_buffer[q]
             /\ block_process'[q] = block_process[q]
  BY <1>3 DEF LeaveQueues
<1> DEFINE Remains(q, x) == \E j \in DOMAIN member_pid'[q] : member_pid'[q][j] = x
<1>4. ASSUME NEW q \in Queues, NEW x
      PROVE  Remains(q, x) <=> IsMember(q, x) /\ ~ (q \in Q /\ x = p)
  <2>1. CASE q \in Q
    <3>1. member_pid'[q] = MembersWithout(q, p) /\ IsMember(q, p)
      BY <2>1, <1>2
    <3>2. (\E j \in DOMAIN MembersWithout(q, p) : MembersWithout(q, p)[j] = x)
             <=> IsMember(q, x) /\ x # p
      BY <3>1, <1>1, MembersWithoutProperties
    <3> QED BY <2>1, <3>1, <3>2
  <2>2. CASE q \notin Q
    BY <2>2, <1>3 DEF IsMember
  <2> QED BY <2>1, <2>2
<1> HIDE DEF Remains
<1>5. OneDescriptor'
  <2>1. ASSUME NEW x \in Pids, NEW f \in Fds, NEW g \in Fds,
               files'[x][f] = files'[x][g], files'[x][f] # NULL
        PROVE  f = g
    BY <2>1 DEF OneDescriptor
  <2>2. ASSUME NEW x \in Pids, x \notin live', NEW fd \in Fds
        PROVE  files'[x][fd] = NULL
    <3>1. CASE x \notin live
      BY <3>1 DEF OneDescriptor
    <3>2. CASE x \in live
      <4>1. x = p /\ \A q \in Queues : IsMember(q, p) => q \in Q
        BY <3>2, <2>2
      <4>2. files[p][fd] \in Queues => IsMember(files[p][fd], p)
        BY <1>1 DEF MembersHoldDescriptors
      <4>3. files[p][fd] \in Queues \cup {NULL}
        BY <1>1 DEF TypeOK
      <4> QED BY <4>1, <4>2, <4>3
    <3> QED BY <3>1, <3>2
  <2> QED BY <2>1, <2>2 DEF OneDescriptor
<1>6. MembersHoldDescriptors'
  <2> SUFFICES ASSUME NEW q \in Queues
               PROVE  /\ \A x \in Pids :
                           Remains(q, x) <=> x \in live' /\ \E fd \in Fds : files'[x][fd] = q
                      /\ \A i, j \in DOMAIN member_pid'[q] :
                           member_pid'[q][i] = member_pid'[q][j] => i = j
                      /\ Len(member_pid'[q]) <= MAX_MEMBERS
                      /\ q \in allocated' <=> member_pid'[q] # <<>>
    BY DEF MembersHoldDescriptors, Remains, IsMember
  <2>1. q # NULL
    BY NullIsNoQueue
  <2>2. ASSUME NEW x \in Pids
        PROVE  Remains(q, x) <=> x \in live' /\ \E fd \in Fds : files'[x][fd] = q
    <3>1. IsMember(q, x) <=> x \in live /\ \E fd \in Fds : files[x][fd] = q
      BY DEF MembersHoldDescriptors
    <3>2. CASE x = p /\ q \in Q
      BY <3>2, <2>1, <1>4
    <3>3. CASE ~ (x = p /\ q \in Q)
      <4>1. \A fd \in Fds : files'[x][fd] = q <=> files[x][fd] = q
        BY <3>3, <2>1
      <4>2. Remains(q, x) <=> IsMember(q, x)
        BY <3>3, <1>4
      <4>3. IsMember(q, x) => (x \in live' <=> x \in live)
        BY <3>3
      <4>4. x \in live' => x \in live
        OBVIOUS
      <4> QED BY <4>1, <4>2, <4>3, <4>4, <3>1
    <3> QED BY <3>2, <3>3
  <2>3. CASE q \in Q
    <3>1. member_pid'[q] = MembersWithout(q, p)
      BY <2>3, <1>2
    <3>2. /\ MembersWithout(q, p) \in Seq(Pids)
          /\ Len(member_pid[q]) \in Nat /\ Len(member_pid[q]) <= MAX_MEMBERS
          /\ Len(MembersWithout(q, p)) = Len(member_pid[q]) - 1
          /\ \A i, j \in DOMAIN MembersWithout(q, p) :
               MembersWithout(q, p)[i] = MembersWithout(q, p)[j] => i = j
      BY <2>3, <1>1, <1>2, MembersWithoutProperties DEF MembersHoldDescriptors
    <3>3. MAX_MEMBERS \in Nat
      BY Bounds
    <3>4. q \in allocated
      <4>1. member_pid[q] # <<>>
        BY <2>3, <1>2 DEF IsMember
      <4> QED BY <4>1 DEF MembersHoldDescriptors
    <3>5. q \in allocated' <=> Len(member_pid[q]) # 1
      BY <2>3, <3>4 DEF LeaveQueues
    <3>6. Len(member_pid[q]) # 1 <=> MembersWithout(q, p) # <<>>
      <4>1. MembersWithout(q, p) = <<>> => Len(MembersWithout(q, p)) = 0
        BY EmptySeq
      <4>2. MembersWithout(q, p) # <<>> => Len(MembersWithout(q, p)) # 0
        BY <3>2, EmptySeq
      <4> QED BY <3>2, <4>1, <4>2
    <3> QED BY <2>2, <3>1, <3>2, <3>3, <3>5, <3>6
  <2>4. CASE q \notin Q
    <3>1. q \in allocated' <=> q \in allocated
      BY <2>4 DEF LeaveQueues
    <3> QED BY <2>2, <2>4, <1>3, <3>1 DEF MembersHoldDescriptors
  <2> QED BY <2>3, <2>4
<1>7. PendingForMembers'
  <2> SUFFICES ASSUME NEW q \in Queues, NEW i \in DOMAIN msg_buffer'[q]
               PROVE  Remains(q, msg_buffer'[q][i].to_pid)
    BY DEF PendingForMembers, Remains, IsMember
  <2>1. CASE q \in Q
    <3> DEFINE others == {m \in Range(msg_buffer[q]) : m.to_pid # p}
    <3>1. msg_buffer'[q] = Keep(msg_buffer[q], others)
      BY <2>1, <1>2 DEF MessagesWithout
    <3>2. msg_buffer[q] \in Seq(Message)
      BY <1>1 DEF TypeOK
    <3> HIDE DEF others
    <3>3. msg_buffer'[q][i] \in Range(Keep(msg_buffer[q], others))
      BY <3>1 DEF Range
    <3>4. msg_buffer'[q][i] \in Range(msg_buffer[q]) \cap others
      BY <3>2, <3>3, KeepProperties
    <3>5. PICK j \in DOMAIN msg_buffer[q] : msg_buffer'[q][i] = msg_buffer[q][j]
      BY <3>4 DEF Range
    <3>6. IsMember(q, msg_buffer'[q][i].to_pid) /\ msg_buffer'[q][i].to_pid # p
      BY <3>4, <3>5 DEF PendingForMembers, others
    <3> QED BY <3>6, <1>4
  <2>2. CASE q \notin Q
    BY <2>2, <1>3, <1>4 DEF PendingForMembers
  <2> QED BY <2>1, <2>2
<1>8. RowsNameOtherMembers'
  <2> SUFFICES ASSUME NEW q \in Queues, NEW i \in Places, NEW k \in Places,
                      block_process'[q][i][k] # NoPid
               PROVE  /\ i <= Len(member_pid'[q])
                      /\ Remains(q, block_process'[q][i][k])
                      /\ block_process'[q][i][k] # member_pid'[q][i]
                      /\ \A l \in Places :
                           block_process'[q][i][l] = block_process'[q][i][k] => l = k
    BY DEF RowsNameOtherMembers, Remains, IsMember
  <2>1. CASE q \notin Q
    BY <2>1, <1>3, <1>4 DEF RowsNameOtherMembers
  <2>2. CASE q \in Q
    <3> DEFINE n == Len(member_pid[q])
               pl == Place(q, p)
               up == RowsMovedUp(q, p)
               b == block_process'[q][i][k]
    <3>1. /\ n \in Nat /\ pl \in 1 .. n /\ n <= MAX_MEMBERS
          /\ Len(member_pid'[q]) = n - 1
          /\ \A j \in 1 .. n - 1 :
                member_pid'[q][j] = IF j < pl THEN member_pid[q][j] ELSE member_pid[q][j+1]
      BY <2>2, <1>1, <1>2, MembersWithoutProperties DEF MembersHoldDescriptors
    <3>2. MAX_MEMBERS \in Nat /\ i \in 1 .. MAX_MEMBERS
      BY Bounds DEF Places
    <3>3. \A l \in Places : block_process'[q][i][l] = IF up[i][l] = p THEN NoPid ELSE up[i][l]
      <4>1. block_process'[q] = BlocksWithout(q, p)
        BY <2>2, <1>2
      <4>2. \A l \in Places : BlocksWithout(q, p)[i][l] = IF up[i][l] = p THEN NoPid ELSE up[i][l]
        BY DEF BlocksWithout
      <4> QED BY <4>1, <4>2
    <3>4. up[i] = IF i = n THEN EmptyRow
                  ELSE IF pl <= i /\ i < MAX_MEMBERS THEN block_process[q][i+1]
                  ELSE block_process[q][i]
      BY DEF RowsMovedUp
    <3> HIDE DEF n, pl, up
    <3>5. b = up[i][k] /\ b # p /\ b # NoPid
      BY <3>3
    <3>6. i # n
      BY <3>4, <3>5 DEF EmptyRow
    <3>7. ASSUME NEW r \in Places, up[i] = block_process[q][r]
          PROVE  /\ r <= n /\ IsMember(q, b) /\ b # member_pid[q][r]
                 /\ \A l \in Places : up[i][l] = b => l = k
      BY <3>5, <3>7 DEF RowsNameOtherMembers, n
    <3>8. CASE pl <= i /\ i < MAX_MEMBERS
      <4>1. i + 1 \in Places /\ up[i] = block_process[q][i+1]
        BY <3>2, <3>4, <3>6, <3>8 DEF Places
      <4>2. i + 1 <= n /\ IsMember(q, b) /\ b # member_pid[q][i+1]
        BY <4>1, <3>7
      <4>3. i \in 1 .. n-1 /\ ~ (i < pl)
        BY <4>2, <3>1, <3>2, <3>8
      <4>4. b # member_pid'[q][i] /\ i <= Len(member_pid'[q])
        BY <4>2, <4>3, <3>1
      <4> QED BY <4>1, <4>2, <4>4, <3>3, <3>5, <3>7, <1>4
    <3>9. CASE ~ (pl <= i /\ i < MAX_MEMBERS)
      <4>1. up[i] = block_process[q][i]
        BY <3>4, <3>6, <3>9
      <4>2. i <= n /\ IsMember(q, b) /\ b # member_pid[q][i]
        BY <4>1, <3>7
      <4>3. i \in 1 .. n-1 /\ i < pl
        BY <4>2, <3>1, <3>2, <3>6, <3>9
      <4>4. b # member_pid'[q][i] /\ i <= Len(member_pid'[q])
        BY <4>2, <4>3, <3>1
      <4> QED BY <4>1, <4>2, <4>4, <3>3, <3>5, <3>7, <1>4
    <3> QED BY <3>8, <3>9
  <2> QED BY <2>1, <2>2
<1> QED BY <1>5, <1>6, <1>7, <1>8

\* do_create_msg_queue.
LEMMA CreateInv ==
  ASSUME IInv, TypeOK', NEW p \in Pids, NEW q \in Queues, Create(p, q)
  PROVE  IInv'
<1> USE DEF IInv
<1>1. PICK fd \in Fds : files' = [files EXCEPT ![p][fd] = q] /\ files[p][fd] = NULL
  BY DEF Create
<1>2. /\ q \notin allocated /\ allocated' = allocated \cup {q}
      /\ p \in live /\ live' = live
      /\ q # NULL
      /\ member_pid' = [member_pid EXCEPT ![q] = <<p>>]
      /\ msg_buffer' = [msg_buffer EXCEPT ![q] = <<>>]
      /\ block_process' = [block_process EXCEPT ![q] = EmptyTable]
  BY NullIsNoQueue DEF Create
<1>3. \A x \in Pids, f \in Fds :
         /\ files'[x][f] = IF x = p /\ f = fd THEN q ELSE files[x][f]
         /\ files[x][f] # q
  <2>1. member_pid[q] = <<>>
    BY <1>2 DEF MembersHoldDescriptors
  <2>2. \A x \in Pids : ~ IsMember(q, x)
    BY <2>1 DEF IsMember
  <2>3. ASSUME NEW x \in Pids, NEW f \in Fds
        PROVE  files[x][f] # q
    BY <2>2, <1>2 DEF MembersHoldDescriptors, OneDescriptor
  <2> QED BY <1>1, <2>3 DEF TypeOK
<1>4. \A r \in Queues : r # q => /\ member_pid'[r] = member_pid[r]
                                 /\ msg_buffer'[r] = msg_buffer[r]
                                 /\ block_process'[r] = block_process[r]
  BY <1>2 DEF TypeOK
<1>5. member_pid'[q] = <<p>> /\ msg_buffer'[q] = <<>> /\ block_process'[q] = EmptyTable
  BY <1>2 DEF TypeOK
<1>6. OneDescriptor'
  <2>1. ASSUME NEW x \in Pids, NEW f \in Fds, NEW g \in Fds,
               files'[x][f] = files'[x][g], files'[x][f] # NULL
        PROVE  f = g
    BY <2>1, <1>3 DEF OneDescriptor
  <2>2. ASSUME NEW x \in Pids \ live', NEW f \in Fds
        PROVE  files'[x][f] = NULL
    BY <1>2, <1>3 DEF OneDescriptor
  <2> QED BY <2>1, <2>2 DEF OneDescriptor
<1>7. MembersHoldDescriptors'
  <2> SUFFICES ASSUME NEW r \in Queues
               PROVE  /\ \A x \in Pids :
                           (\E j \in DOMAIN member_pid'[r] : member_pid'[r][j] = x)
                              <=> x \in live' /\ \E f \in Fds : files'[x][f] = r
                      /\ \A i, j \in DOMAIN member_pid'[r] :
                           member_pid'[r][i] = member_pid'[r][j] => i = j
                      /\ Len(member_pid'[r]) <= MAX_MEMBERS
                      /\ r \in allocated' <=> member_pid'[r] # <<>>
    BY DEF MembersHoldDescriptors, IsMember
  <2>1. CASE r = q
    <3>1. MAX_MEMBERS \in Nat \ {0}
      BY Bounds
    <3>2. DOMAIN <<p>> = {1} /\ Len(<<p>>) = 1 /\ <<p>>[1] = p /\ <<p>> # <<>>
      OBVIOUS
    <3>3. \A x \in Pids : (\E f \in Fds : files'[x][f] = q) <=> x = p
      BY <1>3
    <3>4. \A x \in Pids : (\E j \in DOMAIN <<p>> : <<p>>[j] = x) <=> x = p
      BY <3>2
    <3>5. \A i, j \in DOMAIN <<p>> : <<p>>[i] = <<p>>[j] => i = j
      BY <3>2
    <3>6. Len(<<p>>) <= MAX_MEMBERS
      BY <3>1, <3>2
    <3>7. member_pid'[r] = <<p>> /\ r \in allocated' /\ p \in live'
      BY <2>1, <1>2, <1>5
    <3> QED BY <2>1, <3>2, <3>3, <3>4, <3>5, <3>6, <3>7
  <2>2. CASE r # q
    <3>1. \A x \in Pids, f \in Fds : files'[x][f] = r <=> files[x][f] = r
      BY <2>2, <1>1, <1>3, NullIsNoQueue
    <3> QED BY <2>2, <3>1, <1>2, <1>4 DEF MembersHoldDescriptors, IsMember
  <2> QED BY <2>1, <2>2
<1>8. PendingForMembers'
  BY <1>4, <1>5 DEF PendingForMembers, IsMember
<1>9. RowsNameOtherMembers'
  BY <1>4, <1>5 DEF RowsNameOtherMembers, IsMember, EmptyTable, EmptyRow
<1> QED BY <1>6, <1>7, <1>8, <1>9

\* do_msg_queue_block: the new entry is another member, not in the row before.
LEMMA BlockInv ==
  ASSUME IInv, TypeOK', NEW p \in Pids, NEW fd \in Fds, NEW q \in Queues,
         NEW pid \in Pids, Block(p, fd, q, pid)
  PROVE  IInv'
<1> USE DEF IInv
<1> DEFINE n == Place(q, p)
<1>1. PICK k \in Places : /\ block_process[q][n][k] = NoPid
                          /\ block_process' = [block_process EXCEPT ![q][n][k] = pid]
  BY DEF Block
<1>2. UNCHANGED <<live, files, allocated, member_pid, msg_buffer>>
  BY DEF Block
<1>3. IsMember(q, p) /\ IsMember(q, pid) /\ pid # p /\ pid \notin RowOf(q, n)
  BY DEF Block, Uses, BlockAccepted
<1>4. n \in 1 .. Len(member_pid[q]) /\ member_pid[q][n] = p /\ Len(member_pid[q]) \in Nat
  BY <1>3, PlaceProperties DEF TypeOK
<1>5. n \in Places
  <2>1. Len(member_pid[q]) <= MAX_MEMBERS /\ MAX_MEMBERS \in Nat
    BY Bounds DEF MembersHoldDescriptors
  <2> QED BY <2>1, <1>4 DEF Places
<1>6. pid # NoPid
  BY Bounds DEF Pids, NoPid
<1> HIDE DEF n
<1>7. \A r \in Queues, i, l \in Places :
         block_process'[r][i][l] =
            IF r = q /\ i = n /\ l = k THEN pid ELSE block_process[r][i][l]
  BY <1>1, <1>5 DEF TypeOK
<1>8. RowsNameOtherMembers'
  <2> SUFFICES ASSUME NEW r \in Queues, NEW i \in Places, NEW l \in Places,
                      block_process'[r][i][l] # NoPid
               PROVE  /\ i <= Len(member_pid[r])
                      /\ block_process'[r][i][l] # member_pid[r][i]
                      /\ \A j \in Places :
                            block_process'[r][i][j] = block_process'[r][i][l] => j = l
    <3>1. ASSUME NEW r \in Queues, NEW i \in Places, NEW l \in Places,
                 block_process'[r][i][l] # NoPid
          PROVE  \E j \in DOMAIN member_pid[r] : member_pid[r][j] = block_process'[r][i][l]
      BY <3>1, <1>3, <1>7 DEF RowsNameOtherMembers, IsMember
    <3> QED BY <3>1, <1>2 DEF RowsNameOtherMembers, IsMember
  <2>1. CASE r = q /\ i = n /\ l = k
    <3>1. \A j \in Places : j # k => block_process[q][n][j] # pid
      BY <1>3 DEF RowOf
    <3> QED BY <2>1, <3>1, <1>3, <1>4, <1>5, <1>7
  <2>2. CASE r = q /\ i = n /\ l # k
    <3>1. block_process[q][n][l] # pid
      BY <1>3 DEF RowOf
    <3> QED BY <2>2, <3>1, <1>1, <1>5, <1>7 DEF RowsNameOtherMembers
  <2>3. CASE ~ (r = q /\ i = n)
    BY <2>3, <1>7 DEF RowsNameOtherMembers
  <2> QED BY <2>1, <2>2, <2>3
<1> QED BY <1>2, <1>8 DEF OneDescriptor, MembersHoldDescriptors, PendingForMembers, IsMember

\* A process that exists and is in a queue's list only once cannot make the list
\* longer than the number of processes.
LEMMA MembersBound ==
  ASSUME TypeOK, MembersHoldDescriptors, NEW q \in Queues
  PROVE  Len(member_pid[q]) <= Cardinality(live)
<1> DEFINE m == member_pid[q]
<1>1. m \in Seq(Pids) /\ Len(m) \in Nat /\ DOMAIN m = 1 .. Len(m)
  BY DEF TypeOK
<1>2. \A i \in 1 .. Len(m) : m[i] \in live
  BY <1>1 DEF MembersHoldDescriptors, IsMember
<1>3. m \in Injection(1 .. Len(m), live)
  <2>1. m \in [1 .. Len(m) -> live]
    BY <1>1, <1>2
  <2>2. \A i, j \in DOMAIN m : m[i] = m[j] => i = j
    BY <1>1 DEF MembersHoldDescriptors
  <2> QED BY <2>1, <2>2 DEF Injection, IsInjective
<1>4. IsFiniteSet(live)
  <2>1. live \in SUBSET Pids
    BY DEF TypeOK
  <2> QED BY <2>1, PidsFinite, FS_Subset
<1>5. Cardinality(1 .. Len(m)) = Len(m)
  BY <1>1, FS_Interval
<1> HIDE DEF m
<1>6. Cardinality(1 .. Len(m)) <= Cardinality(live)
  BY <1>3, <1>4, FS_Injection
<1> QED BY <1>5, <1>6 DEF m

\* do_fork on a member list: the child is put behind the last member, once,
\* if the parent is a member.
LEMMA ForkLists ==
  ASSUME IInv, NEW p \in Pids, NEW c \in Pids, Fork(p, c), NEW q \in Queues
  PROVE  /\ member_pid[q] \in Seq(Pids) /\ Len(member_pid[q]) \in Nat
         /\ DOMAIN member_pid[q] = 1 .. Len(member_pid[q])
         /\ member_pid'[q] \in Seq(Pids)
         /\ DOMAIN member_pid'[q] = 1 .. Len(member_pid'[q])
         /\ \A i \in 1 .. Len(member_pid[q]) : member_pid'[q][i] = member_pid[q][i]
         /\ IsMember(q, p) => /\ Len(member_pid'[q]) = Len(member_pid[q]) + 1
                              /\ member_pid'[q][Len(member_pid[q]) + 1] = c
         /\ ~ IsMember(q, p) => Len(member_pid'[q]) = Len(member_pid[q])
         /\ Len(member_pid[q]) < MAX_MEMBERS
<1> USE DEF IInv
<1> DEFINE named == {fd \in Fds : files[p][fd] = q}
           m == member_pid[q]
           add == [i \in 1 .. Cardinality(named) |-> c]
<1>1. p \in live /\ Cardinality(live) < MAX_LIVE /\ m \in Seq(Pids) /\ Len(m) \in Nat /\ DOMAIN m = 1 .. Len(m)
  BY DEF Fork, TypeOK
<1>2. member_pid'[q] = m \o add
  BY DEF Fork
<1>3. Cardinality(named) = IF IsMember(q, p) THEN 1 ELSE 0
  <2>1. IsMember(q, p) <=> \E fd \in Fds : files[p][fd] = q
    BY <1>1 DEF MembersHoldDescriptors
  <2>2. CASE IsMember(q, p)
    <3>1. PICK fd \in Fds : files[p][fd] = q
      BY <2>1, <2>2
    <3>2. named = {fd}
      BY <3>1, NullIsNoQueue DEF OneDescriptor
    <3> QED BY <2>2, <3>2, FS_Singleton
  <2>3. CASE ~ IsMember(q, p)
    <3>1. named = {}
      BY <2>1, <2>3
    <3> QED BY <2>3, <3>1, FS_EmptySet
  <2> QED BY <2>2, <2>3
<1> HIDE DEF named
<1>4. /\ add \in Seq(Pids)
      /\ IsMember(q, p) => Len(add) = 1 /\ add[1] = c
      /\ ~ IsMember(q, p) => Len(add) = 0
  BY <1>3
<1>5. Len(m) < MAX_MEMBERS
  <2>1. Len(m) <= Cardinality(live)
    BY MembersBound
  <2>2. Cardinality(live) \in Nat
    <3>1. live \in SUBSET Pids
      BY DEF TypeOK
    <3> QED BY <3>1, PidsFinite, FS_Subset, FS_CardinalityType
  <2> QED BY <2>1, <2>2, <1>1, Bounds
<1> HIDE DEF m, add
<1>6. /\ m \o add \in Seq(Pids)
      /\ Len(m \o add) = Len(m) + Len(add)
      /\ \A i \in 1 .. Len(m) + Len(add) :
            (m \o add)[i] = IF i <= Len(m) THEN m[i] ELSE add[i - Len(m)]
  BY <1>1, <1>4, ConcatProperties
<1>7. Len(add) \in Nat
  BY <1>4
<1>8. \A i \in 1 .. Len(m) : (m \o add)[i] = m[i]
  BY <1>1, <1>6, <1>7
<1>9. ASSUME IsMember(q, p)
      PROVE  Len(m \o add) = Len(m) + 1 /\ (m \o add)[Len(m) + 1] = c
  <2>1. Len(add) = 1 /\ add[1] = c
    BY <1>4, <1>9
  <2>2. (Len(m) + 1) - Len(m) = 1 /\ ~ (Len(m) + 1 <= Len(m)) /\ Len(m) + 1 \in 1 .. Len(m) + 1
    BY <1>1
  <2> QED BY <1>6, <2>1, <2>2
<1>10. ~ IsMember(q, p) => Len(m \o add) = Len(m)
  BY <1>1, <1>4, <1>6
<1> QED BY <1>1, <1>2, <1>5, <1>6, <1>8, <1>9, <1>10, LenProperties DEF m

\* do_fork: the child is a new member of exactly the queues of its parent.
LEMMA ForkInv ==
  ASSUME IInv, TypeOK', NEW p \in Pids, NEW c \in Pids, Fork(p, c)
  PROVE  IInv'
<1> USE DEF IInv
<1>1. /\ p \in live /\ c \notin live /\ live' = live \cup {c} /\ c # p
      /\ UNCHANGED <<allocated, block_process, msg_buffer>>
      /\ files' = [files EXCEPT ![c] = files[p]]
      /\ Cardinality(live) < MAX_LIVE
  BY DEF Fork
<1>3. \A q \in Queues : ~ IsMember(q, c)
  BY <1>1 DEF MembersHoldDescriptors
<1>4. \A x \in Pids, fd \in Fds : files'[x][fd] = IF x = c THEN files[p][fd] ELSE files[x][fd]
  BY <1>1 DEF TypeOK
<1>6. ASSUME NEW q \in Queues
      PROVE  /\ member_pid[q] \in Seq(Pids) /\ Len(member_pid[q]) \in Nat
             /\ DOMAIN member_pid[q] = 1 .. Len(member_pid[q])
             /\ member_pid'[q] \in Seq(Pids)
             /\ DOMAIN member_pid'[q] = 1 .. Len(member_pid'[q])
             /\ \A i \in 1 .. Len(member_pid[q]) : member_pid'[q][i] = member_pid[q][i]
             /\ IsMember(q, p) => /\ Len(member_pid'[q]) = Len(member_pid[q]) + 1
                                  /\ member_pid'[q][Len(member_pid[q]) + 1] = c
             /\ ~ IsMember(q, p) => Len(member_pid'[q]) = Len(member_pid[q])
             /\ Len(member_pid[q]) < MAX_MEMBERS
  BY ForkLists
<1> DEFINE Listed(q, x) == \E i \in DOMAIN member_pid'[q] : member_pid'[q][i] = x
<1>7. ASSUME NEW q \in Queues, NEW x
      PROVE  Listed(q, x) <=> IsMember(q, x) \/ (x = c /\ IsMember(q, p))
  <2>1. DOMAIN member_pid[q] = 1 .. Len(member_pid[q])
    BY <1>6
  <2>2. CASE IsMember(q, p)
    <3>1. 1 .. Len(member_pid'[q]) = 1 .. Len(member_pid[q]) \cup {Len(member_pid[q]) + 1}
      BY <2>2, <1>6
    <3> QED BY <2>1, <2>2, <3>1, <1>6 DEF IsMember
  <2>3. CASE ~ IsMember(q, p)
    <3>1. 1 .. Len(member_pid'[q]) = 1 .. Len(member_pid[q])
      BY <2>3, <1>6
    <3> QED BY <2>1, <2>3, <3>1, <1>6 DEF IsMember
  <2> QED BY <2>2, <2>3
<1> HIDE DEF Listed
<1>8. OneDescriptor'
  <2>1. ASSUME NEW x \in Pids, NEW f \in Fds, NEW g \in Fds,
               files'[x][f] = files'[x][g], files'[x][f] # NULL
        PROVE  f = g
    BY <2>1, <1>4 DEF OneDescriptor
  <2>2. ASSUME NEW x \in Pids \ live', NEW f \in Fds
        PROVE  files'[x][f] = NULL
    BY <1>1, <1>4 DEF OneDescriptor
  <2> QED BY <2>1, <2>2 DEF OneDescriptor
<1>9. MembersHoldDescriptors'
  <2> SUFFICES ASSUME NEW q \in Queues
               PROVE  /\ \A x \in Pids :
                           Listed(q, x) <=> x \in live' /\ \E fd \in Fds : files'[x][fd] = q
                      /\ \A i, j \in DOMAIN member_pid'[q] :
                           member_pid'[q][i] = member_pid'[q][j] => i = j
                      /\ Len(member_pid'[q]) <= MAX_MEMBERS
                      /\ q \in allocated' <=> member_pid'[q] # <<>>
    BY DEF MembersHoldDescriptors, IsMember, Listed
  <2>1. ASSUME NEW x \in Pids
        PROVE  Listed(q, x) <=> x \in live' /\ \E fd \in Fds : files'[x][fd] = q
    <3>1. CASE x = c
      BY <3>1, <1>1, <1>3, <1>4, <1>7 DEF MembersHoldDescriptors
    <3>2. CASE x # c
      BY <3>2, <1>1, <1>4, <1>7 DEF MembersHoldDescriptors
    <3> QED BY <3>1, <3>2
  <2>2. ASSUME NEW i \in DOMAIN member_pid'[q], NEW j \in DOMAIN member_pid'[q],
               member_pid'[q][i] = member_pid'[q][j]
        PROVE  i = j
    <3> DEFINE n == Len(member_pid[q])
    <3>1. n \in Nat /\ DOMAIN member_pid[q] = 1 .. n
      BY <1>6
    <3>2. \A k \in 1 .. n : member_pid'[q][k] = member_pid[q][k] /\ member_pid[q][k] # c
      BY <3>1, <1>3, <1>6 DEF IsMember
    <3>3. \A k \in DOMAIN member_pid'[q] : k \in 1 .. n \/ (k = n + 1 /\ member_pid'[q][k] = c)
      BY <3>1, <1>6
    <3>4. \A k, l \in 1 .. n : member_pid[q][k] = member_pid[q][l] => k = l
      BY <3>1 DEF MembersHoldDescriptors
    <3> HIDE DEF n
    <3> QED BY <2>2, <3>2, <3>3, <3>4
  <2>3. Len(member_pid'[q]) <= MAX_MEMBERS
    BY <1>6, Bounds
  <2>4. q \in allocated' <=> member_pid'[q] # <<>>
    <3>1. q \in allocated' <=> member_pid[q] # <<>>
      BY <1>1 DEF MembersHoldDescriptors
    <3>2. IsMember(q, p) => member_pid[q] # <<>>
      BY DEF IsMember
    <3>3. member_pid[q] # <<>> <=> Len(member_pid[q]) # 0
      BY <1>6, EmptySeq
    <3>4. member_pid'[q] # <<>> <=> Len(member_pid'[q]) # 0
      <4>1. member_pid'[q] \in Seq(Pids)
        BY DEF TypeOK
      <4> QED BY <4>1, EmptySeq
    <3> QED BY <3>1, <3>2, <3>3, <3>4, <1>6
  <2> QED BY <2>1, <2>2, <2>3, <2>4
<1>10. PendingForMembers'
  <2> SUFFICES ASSUME NEW q \in Queues, NEW i \in DOMAIN msg_buffer'[q]
               PROVE  Listed(q, msg_buffer'[q][i].to_pid)
    BY DEF PendingForMembers, IsMember, Listed
  <2> QED BY <1>1, <1>7 DEF PendingForMembers
<1>11. RowsNameOtherMembers'
  <2> SUFFICES ASSUME NEW q \in Queues, NEW i \in Places, NEW k \in Places,
                      block_process'[q][i][k] # NoPid
               PROVE  /\ i <= Len(member_pid'[q])
                      /\ Listed(q, block_process'[q][i][k])
                      /\ block_process'[q][i][k] # member_pid'[q][i]
                      /\ \A l \in Places :
                           block_process'[q][i][l] = block_process'[q][i][k] => l = k
    BY DEF RowsNameOtherMembers, IsMember, Listed
  <2>1. /\ i <= Len(member_pid[q]) /\ IsMember(q, block_process[q][i][k])
        /\ block_process[q][i][k] # member_pid[q][i]
        /\ \A l \in Places : block_process[q][i][l] = block_process[q][i][k] => l = k
        /\ block_process' = block_process
    BY <1>1 DEF RowsNameOtherMembers
  <2>2. i \in 1 .. Len(member_pid[q])
    BY <2>1, <1>6, Bounds DEF Places
  <2>3. member_pid'[q][i] = member_pid[q][i] /\ i <= Len(member_pid'[q])
    BY <2>2, <1>6
  <2> QED BY <2>1, <2>3, <1>7
<1> QED BY <1>8, <1>9, <1>10, <1>11

\* do_msg_queue_send to one member: the receiver was found in the list.
LEMMA UnicastInv ==
  ASSUME IInv, TypeOK', NEW p \in Pids, NEW fd \in Fds, NEW q \in Queues,
         NEW m \in Message, SendUnicast(p, fd, q, m)
  PROVE  IInv'
<1>1. UNCHANGED <<live, files, allocated, member_pid, block_process>>
  BY DEF SendUnicast
<1>2. IsMember(q, m.to_pid)
  BY DEF SendUnicast, UnicastAccepted
<1>3. msg_buffer[q] \in Seq(Message) /\ msg_buffer \in [Queues -> Seq(Message)]
  BY DEF IInv, TypeOK
<1>4. msg_buffer'[q] = Append(msg_buffer[q], m)
  BY <1>3 DEF SendUnicast
<1>5. \A r \in Queues : r # q => msg_buffer'[r] = msg_buffer[r]
  BY <1>3 DEF SendUnicast
<1>6. PendingForMembers'
  <2> SUFFICES ASSUME NEW r \in Queues, NEW i \in DOMAIN msg_buffer'[r]
               PROVE  \E j \in DOMAIN member_pid[r] : member_pid[r][j] = msg_buffer'[r][i].to_pid
    BY <1>1 DEF PendingForMembers, IsMember
  <2>1. CASE r = q
    <3>1. \/ i \in DOMAIN msg_buffer[q] /\ msg_buffer'[q][i] = msg_buffer[q][i]
          \/ msg_buffer'[q][i] = m
      BY <2>1, <1>3, <1>4
    <3> QED BY <2>1, <3>1, <1>2 DEF IInv, PendingForMembers, IsMember
  <2>2. CASE r # q
    BY <2>2, <1>5 DEF IInv, PendingForMembers, IsMember
  <2> QED BY <2>1, <2>2
<1> QED BY <1>1, <1>6, MessagesOnly

\* do_msg_queue_send to all: the receivers are taken from the list.
LEMMA BroadcastInv ==
  ASSUME IInv, TypeOK', NEW p \in Pids, NEW fd \in Fds, NEW q \in Queues,
         NEW t \in Texts, SendBroadcast(p, fd, q, t)
  PROVE  IInv'
<1> DEFINE to == Receivers(q, p)
           new == Copies(to, p, t)
<1>1. UNCHANGED <<live, files, allocated, member_pid, block_process>>
  BY DEF SendBroadcast
<1>2. /\ msg_buffer[q] \in Seq(Message) /\ msg_buffer \in [Queues -> Seq(Message)]
      /\ member_pid[q] \in Seq(Pids)
  BY DEF IInv, TypeOK
<1>3. to \in Seq(Pids) /\ Range(to) \subseteq Range(member_pid[q])
  BY <1>2, KeepProperties DEF Receivers
<1>4. ASSUME NEW i \in 1 .. Len(to)
      PROVE  IsMember(q, to[i])
  <2>1. to[i] \in Range(to)
    BY <1>3 DEF Range
  <2> QED BY <2>1, <1>3 DEF Range, IsMember
<1> HIDE DEF to
<1>5. /\ new \in Seq(Message) /\ Len(new) = Len(to)
      /\ \A i \in 1 .. Len(to) : new[i].to_pid = to[i]
  BY <1>3 DEF Copies, Message
<1> HIDE DEF new
<1>6. /\ msg_buffer'[q] = msg_buffer[q] \o new
      /\ \A r \in Queues : r # q => msg_buffer'[r] = msg_buffer[r]
  BY <1>2 DEF SendBroadcast, to, new
<1>7. Range(msg_buffer'[q]) = Range(msg_buffer[q]) \cup Range(new)
  BY <1>2, <1>5, <1>6, RangeConcatenation
<1>8. PendingForMembers'
  <2> SUFFICES ASSUME NEW r \in Queues, NEW i \in DOMAIN msg_buffer'[r]
               PROVE  \E j \in DOMAIN member_pid[r] : member_pid[r][j] = msg_buffer'[r][i].to_pid
    BY <1>1 DEF PendingForMembers, IsMember
  <2>1. CASE r = q
    <3>1. msg_buffer'[q][i] \in Range(msg_buffer[q]) \cup Range(new)
      BY <2>1, <1>7 DEF Range
    <3>2. CASE msg_buffer'[q][i] \in Range(msg_buffer[q])
      BY <2>1, <3>2 DEF IInv, PendingForMembers, IsMember, Range
    <3>3. CASE msg_buffer'[q][i] \in Range(new)
      <4>1. PICK j \in DOMAIN new : msg_buffer'[q][i] = new[j]
        BY <3>3 DEF Range
      <4>2. j \in 1 .. Len(to)
        BY <1>5, LenProperties
      <4> QED BY <2>1, <4>1, <4>2, <1>4, <1>5 DEF IsMember
    <3> QED BY <3>1, <3>2, <3>3
  <2>2. CASE r # q
    BY <2>2, <1>6 DEF IInv, PendingForMembers, IsMember
  <2> QED BY <2>1, <2>2
<1> QED BY <1>1, <1>8, MessagesOnly

\* do_msg_queue_rcv: what stays was there before.
LEMMA RcvInv ==
  ASSUME IInv, TypeOK', NEW p \in Pids, NEW fd \in Fds, NEW q \in Queues, Rcv(p, fd, q)
  PROVE  IInv'
<1>1. UNCHANGED <<live, files, allocated, member_pid, block_process>>
  BY DEF Rcv
<1>2. /\ msg_buffer[q] \in Seq(Message) /\ msg_buffer \in [Queues -> Seq(Message)]
      /\ DOMAIN msg_buffer[q] = 1 .. Len(msg_buffer[q])
      /\ Len(msg_buffer[q]) \in Nat
  BY DEF IInv, TypeOK
<1>3. PICK n \in 1 .. Len(msg_buffer[q]) :
             msg_buffer' = [msg_buffer EXCEPT ![q] = RemoveAt(msg_buffer[q], n)]
  BY <1>2 DEF Rcv
<1>4. msg_buffer'[q] = RemoveAt(msg_buffer[q], n)
  BY <1>2, <1>3
<1>5. \A r \in Queues : r # q => msg_buffer'[r] = msg_buffer[r]
  BY <1>2, <1>3
<1>6. /\ msg_buffer'[q] \in Seq(Message)
      /\ Len(msg_buffer'[q]) = Len(msg_buffer[q]) - 1
      /\ \A i \in 1 .. Len(msg_buffer[q]) - 1 :
            msg_buffer'[q][i] = IF i < n THEN msg_buffer[q][i] ELSE msg_buffer[q][i+1]
  BY <1>2, <1>4, RemoveAtProperties
<1>7. PendingForMembers'
  <2> SUFFICES ASSUME NEW r \in Queues, NEW i \in DOMAIN msg_buffer'[r]
               PROVE  \E j \in DOMAIN member_pid[r] : member_pid[r][j] = msg_buffer'[r][i].to_pid
    BY <1>1 DEF PendingForMembers, IsMember
  <2>1. CASE r = q
    <3>1. i \in 1 .. Len(msg_buffer[q]) - 1
      BY <2>1, <1>6, LenProperties
    <3>2. i \in DOMAIN msg_buffer[q] /\ i+1 \in DOMAIN msg_buffer[q]
      BY <3>1, <1>2
    <3>3. \/ msg_buffer'[q][i] = msg_buffer[q][i]
          \/ msg_buffer'[q][i] = msg_buffer[q][i+1]
      BY <3>1, <1>6
    <3> QED BY <2>1, <3>2, <3>3 DEF IInv, PendingForMembers, IsMember
  <2>2. CASE r # q
    BY <2>2, <1>5 DEF IInv, PendingForMembers, IsMember
  <2> QED BY <2>1, <2>2
<1> QED BY <1>1, <1>7, MessagesOnly

LEMMA InvStep == IInv /\ [Next]_vars => IInv'
<1> SUFFICES ASSUME IInv, [Next]_vars
             PROVE  IInv'
  OBVIOUS
<1>1. TypeOK'
  BY TypeStep DEF IInv
<1>2. ASSUME NEW p \in Pids, NEW fd \in Fds, NEW q \in Queues, Close(p, fd, q)
      PROVE  IInv'
  <2>1. /\ p \in live /\ IsMember(q, p) /\ files[p][fd] = q
        /\ LeaveQueues(p, {q}) /\ live' = live
        /\ files' = [files EXCEPT ![p][fd] = NULL]
    BY <1>2 DEF Close, Uses
  <2>2. ASSUME NEW x \in Pids, NEW f \in Fds
        PROVE  files'[x][f] = IF x = p /\ files[x][f] \in {q} THEN NULL ELSE files[x][f]
    <3>1. x = p /\ files[x][f] = q => f = fd
      BY <2>1, NullIsNoQueue DEF IInv, OneDescriptor
    <3>2. files'[x][f] = IF x = p /\ f = fd THEN NULL ELSE files[x][f]
      BY <2>1 DEF IInv, TypeOK
    <3> QED BY <2>1, <3>1, <3>2
  <2> QED BY <2>1, <2>2, <1>1, LeaveInv
<1>3. ASSUME NEW p \in Pids, Exit(p)
      PROVE  IInv'
  <2> DEFINE Q == {q \in Held(p) : IsMember(q, p)}
  <2>1. /\ p \in live /\ LeaveQueues(p, Q) /\ live' = live \ {p}
        /\ files' = [files EXCEPT ![p] = [fd \in Fds |-> NULL]]
    BY <1>3 DEF Exit
  <2>2. Q \in SUBSET Queues /\ \A q \in Q : IsMember(q, p)
    BY DEF Held, IInv, TypeOK
  <2>3. \A q \in Queues : IsMember(q, p) => q \in Q
    BY <2>1, NullIsNoQueue DEF Held, IInv, MembersHoldDescriptors
  <2>4. ASSUME NEW x \in Pids, NEW f \in Fds
        PROVE  files'[x][f] = IF x = p /\ files[x][f] \in Q THEN NULL ELSE files[x][f]
    <3>1. files'[x][f] = IF x = p THEN NULL ELSE files[x][f]
      BY <2>1 DEF IInv, TypeOK
    <3>2. files[p][f] \in Queues => IsMember(files[p][f], p)
      BY <2>1 DEF IInv, MembersHoldDescriptors
    <3>3. files[p][f] \in Queues \cup {NULL}
      BY DEF IInv, TypeOK
    <3>4. files[p][f] \in Q \/ files[p][f] = NULL
      BY <2>3, <3>2, <3>3
    <3> HIDE DEF Q
    <3> QED BY <3>1, <3>4
  <2> HIDE DEF Q
  <2> QED BY <2>1, <2>2, <2>3, <2>4, <1>1, LeaveInv
<1>4. ASSUME NEW p \in Pids, NEW fd \in Fds, NEW q \in Queues, UseQueue(p, fd, q)
      PROVE  IInv'
  BY <1>4, <1>1, <1>2, UnicastInv, BroadcastInv, RcvInv, BlockInv DEF UseQueue
<1>5. CASE UNCHANGED vars
  <2>1. PendingForMembers'
    BY <1>5 DEF vars, queueVars, IInv, PendingForMembers, IsMember
  <2> QED BY <2>1, <1>1, <1>5, MessagesOnly DEF vars, queueVars
<1> QED BY <1>1, <1>3, <1>4, <1>5, CreateInv, ForkInv DEF Next

\* The member lists, the descriptor tables, the pending messages and the block
\* table agree in every reachable state.
THEOREM Consistent == Spec => []IInv
<1>1. Init => IInv
  BY InvInit
<1>2. IInv /\ [Next]_vars => IInv'
  BY InvStep
<1> QED BY <1>1, <1>2, PTL DEF Spec

\* msg_queue.c:286-322 and entry.c:15-68: members, descriptors and pages agree.
THEOREM MembershipCorrect == Spec => []MembersHoldDescriptors
<1>1. IInv => MembersHoldDescriptors
  BY DEF IInv
<1> QED BY <1>1, Consistent, PTL

\* msg_queue.c:56-60, 286-322 and entry.c:15-30: no call and no fork gives a process a
\* second descriptor of a queue, and no exit leaves one behind.
THEOREM DescriptorsCorrect == Spec => []OneDescriptor
<1>1. IInv => OneDescriptor
  BY DEF IInv
<1> QED BY <1>1, Consistent, PTL

\* msg_queue.c:306-313: no message is pending for a process that is not a member.
THEOREM PendingCorrect == Spec => []PendingForMembers
<1>1. IInv => PendingForMembers
  BY DEF IInv
<1> QED BY <1>1, Consistent, PTL

\* msg_queue.c:288-303: the block table follows its owners.
THEOREM BlockTableCorrect == Spec => []RowsNameOtherMembers
<1>1. IInv => RowsNameOtherMembers
  BY DEF IInv
<1> QED BY <1>1, Consistent, PTL

\* msg_queue.c:268-274: the row of a member has room for every other member, so
\* the loop over its cells always finds a place.
LEMMA RowHasRoom == IInv => BlockNeverFails
<1> SUFFICES ASSUME IInv, NEW q \in Queues, NEW p \in Pids, NEW pid \in Pids,
                    IsMember(q, p), IsMember(q, pid), p # pid,
                    RowOf(q, Place(q, p)) \cap {pid, NoPid} = {}
             PROVE  FALSE
  BY DEF BlockNeverFails, BlockAccepted
<1> DEFINE m == member_pid[q]
           n == Place(q, p)
           row == block_process[q][n]
           R == Range(m) \ {p, pid}
<1>1. m \in Seq(Pids) /\ Len(m) \in Nat /\ DOMAIN m = 1 .. Len(m)
  BY DEF IInv, TypeOK
<1>2. n \in 1 .. Len(m) /\ m[n] = p
  BY <1>1, PlaceProperties
<1>3. Len(m) <= MAX_MEMBERS /\ MAX_MEMBERS \in Nat /\ n \in Places
  BY <1>1, <1>2, Bounds DEF IInv, MembersHoldDescriptors, Places
<1>4. row \in [Places -> Pids \cup {NoPid}]
  BY <1>3 DEF IInv, TypeOK
<1>5. ASSUME NEW k \in Places
      PROVE  /\ row[k] \in R
             /\ \A l \in Places : row[l] = row[k] => l = k
  <2>1. row[k] # NoPid /\ row[k] # pid
    BY DEF RowOf
  <2>2. /\ IsMember(q, row[k]) /\ row[k] # m[n]
        /\ \A l \in Places : row[l] = row[k] => l = k
    BY <2>1, <1>3 DEF IInv, RowsNameOtherMembers
  <2> QED BY <2>1, <2>2, <1>2 DEF IsMember, Range
<1>6. IsFiniteSet(Range(m)) /\ Cardinality(Range(m)) <= Len(m) /\ Cardinality(Range(m)) \in Nat
  <2>1. m \in Surjection(1 .. Len(m), Range(m))
    <3>1. m \in [1 .. Len(m) -> Range(m)]
      BY <1>1 DEF Range
    <3> QED BY <1>1, <3>1 DEF Surjection, Range
  <2>2. IsFiniteSet(1 .. Len(m)) /\ Cardinality(1 .. Len(m)) = Len(m)
    BY <1>1, FS_Interval
  <2> HIDE DEF m
  <2> QED BY <2>1, <2>2, FS_Surjection, FS_CardinalityType
<1>7. p \in Range(m)
  BY <1>1, <1>2 DEF Range
<1> HIDE DEF m, row
<1>8. IsFiniteSet(R) /\ Cardinality(R) < MAX_MEMBERS
  <2>1. IsFiniteSet(Range(m) \ {p}) /\ Cardinality(Range(m) \ {p}) = Cardinality(Range(m)) - 1
    BY <1>6, <1>7, FS_RemoveElement
  <2>2. R \in SUBSET (Range(m) \ {p})
    OBVIOUS
  <2>3. IsFiniteSet(R) /\ Cardinality(R) <= Cardinality(Range(m) \ {p}) /\ Cardinality(R) \in Nat
    BY <2>1, <2>2, FS_Subset, FS_CardinalityType
  <2> QED BY <2>1, <2>3, <1>1, <1>3, <1>6
<1>9. IsFiniteSet(Places) /\ Cardinality(Places) = MAX_MEMBERS
  BY <1>3, FS_Interval DEF Places
<1>10. row \in [Places -> R]
  BY <1>4, <1>5
<1> HIDE DEF R
<1>11. \E x, y \in Places : x # y /\ row[x] = row[y]
  BY <1>8, <1>9, <1>10, FS_PigeonHole
<1> QED BY <1>5, <1>11

\* A member can always block another member.
THEOREM BlockingAlwaysWorks == Spec => []BlockNeverFails
BY Consistent, RowHasRoom, PTL

\* msg_queue.c:184-195 and entry.c:15-30: a child, whose pid may have belonged to
\* an earlier member, finds no message and no blocking of its own.
LEMMA FreshStep ==
  ASSUME IInv, IInv', Next, NEW q \in Queues, NEW c \in Pids,
         ~ IsMember(q, c), IsMember(q, c)'
  PROVE  /\ Addressed(q, c)' = {}
         /\ RowOf(q, Place(q, c))' = {NoPid}
         /\ \A i \in Places : c \notin RowOf(q, i)'
<1>1. MAX_MEMBERS \in Nat \ {0} /\ c # NoPid
  BY Bounds DEF Pids, NoPid
<1>2. PICK i \in DOMAIN member_pid'[q] : /\ member_pid'[q][i] = c
                                         /\ i = Place(q, c)'
  BY DEF IsMember, Place
<1>3. ASSUME NEW p \in Pids, Create(p, q)
      PROVE  /\ Addressed(q, c)' = {}
             /\ RowOf(q, Place(q, c))' = {NoPid}
             /\ \A j \in Places : c \notin RowOf(q, j)'
  <2>1. msg_buffer'[q] = <<>> /\ block_process'[q] = EmptyTable /\ member_pid'[q] = <<p>>
    BY <1>3 DEF Create, IInv, TypeOK
  <2>2. i = 1 /\ 1 \in Places
    BY <1>1, <1>2, <2>1 DEF Places
  <2>3. \A j \in Places : RowOf(q, j)' = {NoPid}
    <3>1. Places # {}
      BY <2>2
    <3> QED BY <2>1, <3>1 DEF RowOf, EmptyTable, EmptyRow
  <2>4. RowOf(q, Place(q, c))' = {NoPid}
    <3>1. RowOf(q, Place(q, c))' = {block_process'[q][i][k] : k \in Places}
      BY <1>2 DEF RowOf
    <3>2. \A k \in Places : block_process'[q][i][k] = NoPid
      BY <2>1, <2>2 DEF EmptyTable, EmptyRow
    <3> QED BY <2>2, <3>1, <3>2
  <2> QED BY <2>1, <2>3, <2>4, <1>1 DEF Addressed, Range
<1>4. ASSUME NEW p \in Pids, Fork(p, c)
      PROVE  /\ Addressed(q, c)' = {}
             /\ RowOf(q, Place(q, c))' = {NoPid}
             /\ \A j \in Places : c \notin RowOf(q, j)'
  <2>1. /\ msg_buffer' = msg_buffer /\ block_process' = block_process
        /\ member_pid'[q] =
              member_pid[q] \o [k \in 1 .. Cardinality({fd \in Fds : files[p][fd] = q}) |-> c]
    BY <1>4 DEF Fork
  <2>2. \A j, k \in Places : block_process[q][j][k] # c
    BY <1>1 DEF IInv, RowsNameOtherMembers
  <2>3. \A j \in DOMAIN msg_buffer[q] : msg_buffer[q][j].to_pid # c
    BY DEF IInv, PendingForMembers
  <2>4. /\ member_pid[q] \in Seq(Pids) /\ Len(member_pid[q]) \in Nat
        /\ member_pid'[q] \in Seq(Pids) /\ Len(member_pid'[q]) <= MAX_MEMBERS
    BY DEF IInv, TypeOK, MembersHoldDescriptors
  <2>5. i \in Places
    <3>1. i \in 1 .. Len(member_pid'[q])
      BY <2>4
    <3> QED BY <3>1, <2>4, <1>1 DEF Places
  <2>6. ~ (i <= Len(member_pid[q]))
    <3> DEFINE n == Cardinality({fd \in Fds : files[p][fd] = q})
    <3>1. n \in Nat
      BY FdsFinite, FS_Subset, FS_CardinalityType
    <3> HIDE DEF n
    <3>2. [k \in 1 .. n |-> c] \in Seq(Pids)
      BY <3>1
    <3>3. member_pid'[q] = member_pid[q] \o [k \in 1 .. n |-> c]
      BY <2>1 DEF n
    <3>4. \A j \in 1 .. Len(member_pid[q]) : member_pid'[q][j] = member_pid[q][j]
      BY <2>4, <3>2, <3>3, ConcatProperties
    <3>5. i \in 1 .. Len(member_pid'[q])
      BY <2>4
    <3>6. i <= Len(member_pid[q]) => i \in 1 .. Len(member_pid[q]) /\ i \in DOMAIN member_pid[q]
      BY <2>4, <3>5
    <3> QED BY <3>4, <3>6, <1>2 DEF IsMember
  <2>7. \A k \in Places : block_process[q][i][k] = NoPid
    BY <2>5, <2>6 DEF IInv, RowsNameOtherMembers
  <2>8. RowOf(q, Place(q, c))' = {NoPid}
    <3>1. RowOf(q, Place(q, c))' = {block_process[q][i][k] : k \in Places}
      BY <1>2, <2>1 DEF RowOf
    <3>2. 1 \in Places
      BY <1>1 DEF Places
    <3> QED BY <2>7, <3>1, <3>2
  <2> QED BY <2>1, <2>2, <2>3, <2>8 DEF Addressed, Range, RowOf
<1>5. ASSUME NEW p \in Pids, NEW d \in Pids, Fork(p, d), d # c
      PROVE  FALSE
  <2>1. c \in live /\ \E fd \in Fds : files[c][fd] = q
    <3>1. c \in live' /\ \E fd \in Fds : files'[c][fd] = q
      BY DEF IInv, MembersHoldDescriptors
    <3>2. live' = live \cup {d} /\ files' = [files EXCEPT ![d] = files[p]]
      BY <1>5 DEF Fork
    <3> QED BY <3>1, <3>2, <1>5 DEF IInv, TypeOK
  <2> QED BY <2>1 DEF IInv, MembersHoldDescriptors
<1>6. ASSUME NEW p \in Pids, NEW r \in Queues, Create(p, r), r # q
      PROVE  FALSE
  BY <1>6 DEF Create, IsMember, IInv, TypeOK
<1>7. ASSUME NEW p \in Pids, NEW fd \in Fds, NEW r \in Queues, UseQueue(p, fd, r)
      PROVE  FALSE
  <2>1. CASE Close(p, fd, r)
    <3>1. c \in live' /\ \E f \in Fds : files'[c][f] = q
      BY DEF IInv, MembersHoldDescriptors
    <3>2. live' = live /\ files' = [files EXCEPT ![p][fd] = NULL]
      BY <2>1 DEF Close
    <3>3. \A f \in Fds : files'[c][f] = q => files[c][f] = q
      BY <3>2, NullIsNoQueue DEF IInv, TypeOK
    <3> QED BY <3>1, <3>2, <3>3 DEF IInv, MembersHoldDescriptors
  <2>2. CASE ~ Close(p, fd, r)
    <3>1. member_pid' = member_pid
      BY <1>7, <2>2 DEF UseQueue, SendUnicast, SendBroadcast, Rcv, Block
    <3> QED BY <3>1 DEF IsMember
  <2> QED BY <2>1, <2>2
<1>8. ASSUME NEW p \in Pids, Exit(p)
      PROVE  FALSE
  <2>1. c \in live' /\ \E f \in Fds : files'[c][f] = q
    BY DEF IInv, MembersHoldDescriptors
  <2>2. live' = live \ {p} /\ files' = [files EXCEPT ![p] = [f \in Fds |-> NULL]]
    BY <1>8 DEF Exit
  <2>3. c # p /\ files'[c] = files[c]
    BY <2>1, <2>2 DEF IInv, TypeOK
  <2> QED BY <2>1, <2>2, <2>3 DEF IInv, MembersHoldDescriptors
<1> QED BY <1>3, <1>4, <1>5, <1>6, <1>7, <1>8 DEF Next

THEOREM NewMembersFresh == Spec => NewMemberStartsFresh
<1>1. IInv /\ IInv' /\ [Next]_vars =>
         [\A q \in Queues, c \in Pids :
            ~ IsMember(q, c) /\ IsMember(q, c)' =>
              /\ Addressed(q, c)' = {}
              /\ RowOf(q, Place(q, c))' = {NoPid}
              /\ \A i \in Places : c \notin RowOf(q, i)']_vars
  BY FreshStep
<1> QED BY <1>1, Consistent, PTL DEF Spec, NewMemberStartsFresh
=============================================================================
