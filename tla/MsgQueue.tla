------------------------------ MODULE MsgQueue ------------------------------
(***************************************************************************)
(* The message queues of gemOS: Assignment2/msg_queue.c, with the parts of *)
(* do_fork and do_exit (Assignment2/entry.c) that call into it.            *)
(*                                                                         *)
(* One call is one step, and the steps of the processes interleave in any  *)
(* order.  This takes it that the gate of int 0x80 is an interrupt gate,   *)
(* as IDT_DESC_TYPE_INT_SW of include/idt.h:10-13 describes it, so that a  *)
(* call runs with interrupts disabled on the one processor: the gates are  *)
(* set in a part of gemOS that comes as object code.  A call that returns  *)
(* an error changes nothing: its guard is false here.                      *)
(*                                                                         *)
(* The environment keeps to what the kernel is built for: at most MAX_LIVE *)
(* processes exist, at most BUF_SLOTS messages are pending in a queue, and *)
(* a queue descriptor is never the argument of dup2 (fd_dup2 knows nothing *)
(* of queues; see README).                                                 *)
(***************************************************************************)
EXTENDS Integers, FiniteSets, SequencesExt, Keeping

CONSTANTS
    MAX_PROCESSES,  \* process ids are 0 .. MAX_PROCESSES - 1; 0 is the swapper
    MAX_LIVE,       \* processes that exist at a time
    MAX_MEMBERS,    \* places in member_pid, and rows and columns of block_process
    MAX_OPEN_FILES, \* a process has descriptors 0 .. MAX_OPEN_FILES - 1
    BUF_SLOTS,      \* messages pending in a queue at a time
    Queues,         \* the struct file objects that can name a queue
    NULL,           \* an empty descriptor
    Texts,          \* message bodies
    Tails           \* what a page can hold just behind block_process

NoPid == -1  \* an unused cell of block_process

Pids == 1 .. MAX_PROCESSES - 1
Fds  == 3 .. MAX_OPEN_FILES - 1

ASSUME Bounds ==
    /\ {MAX_PROCESSES, MAX_LIVE, MAX_MEMBERS, MAX_OPEN_FILES, BUF_SLOTS} \subseteq Nat \ {0}
    /\ MAX_LIVE <= MAX_MEMBERS
    /\ MAX_MEMBERS <= MAX_PROCESSES
    /\ MAX_PROCESSES <= 2 * MAX_MEMBERS
    /\ MAX_PROCESSES > 1
ASSUME NullIsNoQueue == NULL \notin Queues
ASSUME TailsArePids == Tails \subseteq SUBSET Pids

Message == [from_pid: Pids, to_pid: Pids, txt: Texts]
Places  == 1 .. MAX_MEMBERS

VARIABLES
    live,           \* processes whose state is not UNUSED
    files,          \* files[p][fd]: the queue descriptor fd of p names
    allocated,      \* queues whose pages are in use
    member_pid,     \* member_pid[q]: the first member_count places of the array
    block_process,  \* block_process[q][i]: row i, whom the i-th member refuses
    page_tail,      \* page_tail[q]: pids in the words behind block_process
    msg_buffer      \* msg_buffer[q]: the first msg_count messages

queueVars == <<member_pid, block_process, page_tail, msg_buffer>>
vars == <<live, files, allocated, queueVars>>

EmptyRow   == [k \in Places |-> NoPid]
EmptyTable == [i \in Places |-> EmptyRow]

Init == /\ live = {1}
        /\ files = [p \in Pids |-> [fd \in Fds |-> NULL]]
        /\ allocated = {}
        /\ member_pid = [q \in Queues |-> <<>>]
        /\ block_process = [q \in Queues |-> EmptyTable]
        /\ page_tail = [q \in Queues |-> {}]
        /\ msg_buffer = [q \in Queues |-> <<>>]

----------------------------------------------------------------------------
\* The loop over the members that every call begins with.
IsMember(q, p) == \E i \in DOMAIN member_pid[q] : member_pid[q][i] = p
Place(q, p)    == CHOOSE i \in DOMAIN member_pid[q] : member_pid[q][i] = p

\* The queue behind a descriptor of a running process, if it may use it.
Uses(p, fd, q) == /\ p \in live
                  /\ files[p][fd] = q
                  /\ q \in Queues
                  /\ IsMember(q, p)

Addressed(q, p) == {m \in Range(msg_buffer[q]) : m.to_pid = p}
HasRoom(q, n)   == Len(msg_buffer[q]) + n <= BUF_SLOTS

----------------------------------------------------------------------------
\* do_create_msg_queue: the lowest free descriptor from 3 on, a new queue whose
\* only member is the caller.
Create(p, q) ==
    LET free == {fd \in Fds : files[p][fd] = NULL} IN
    /\ p \in live
    /\ free # {}
    /\ q \notin allocated
    /\ \E fd \in free :
          /\ \A f \in free : fd <= f
          /\ files' = [files EXCEPT ![p][fd] = q]
    /\ allocated' = allocated \cup {q}
    /\ member_pid' = [member_pid EXCEPT ![q] = <<p>>]
    /\ block_process' = [block_process EXCEPT ![q] = EmptyTable]
    /\ \E T \in Tails : page_tail' = [page_tail EXCEPT ![q] = T]
    /\ msg_buffer' = [msg_buffer EXCEPT ![q] = <<>>]
    /\ UNCHANGED live

\* The test of a broadcast: the cells of the receiver's row.
RowOf(q, i) == {block_process[q][i][k] : k \in Places}

\* The test of a unicast runs to MAX_PROCESSES over a row of MAX_MEMBERS cells
\* and so goes on into the next row, or behind the table after the last one.
CellsScanned(q, i) ==
    RowOf(q, i) \cup
        (IF i < MAX_MEMBERS
           THEN {block_process[q][i+1][k] : k \in 1 .. MAX_PROCESSES - MAX_MEMBERS}
           ELSE page_tail[q])

\* Faulty variant: looks into the row of the sender.
AcceptedBySenderRow(q, p, r) ==
    /\ r # p
    /\ IsMember(q, r)
    /\ r \notin CellsScanned(q, Place(q, p))

\* Whether the guards of do_msg_queue_send let a unicast from p to r through.
UnicastAccepted(q, p, r) ==
    /\ r # p
    /\ IsMember(q, r)
    /\ p \notin CellsScanned(q, Place(q, r))

SendUnicast(p, fd, q, m) ==
    /\ Uses(p, fd, q)
    /\ m.from_pid = p
    /\ UnicastAccepted(q, p, m.to_pid)
    /\ HasRoom(q, 1)
    /\ msg_buffer' = [msg_buffer EXCEPT ![q] = Append(@, m)]
    /\ UNCHANGED <<live, files, allocated, member_pid, block_process, page_tail>>

\* The members a broadcast of p is stored for, in the order of their places.
Receivers(q, p) ==
    Keep(member_pid[q],
         {r \in Range(member_pid[q]) : r # p /\ p \notin RowOf(q, Place(q, r))})

\* Faulty variant: the copies keep the receiver of the broadcast, 0xffffffff.
CopiesAsSent(to, p, t) == [i \in 1 .. Len(to) |-> [from_pid |-> p, to_pid |-> NoPid, txt |-> t]]

Copies(to, p, t) == [i \in 1 .. Len(to) |-> [from_pid |-> p, to_pid |-> to[i], txt |-> t]]

SendBroadcast(p, fd, q, t) ==
    /\ Uses(p, fd, q)
    /\ HasRoom(q, Len(Receivers(q, p)))
    /\ msg_buffer' = [msg_buffer EXCEPT ![q] = @ \o Copies(Receivers(q, p), p, t)]
    /\ UNCHANGED <<live, files, allocated, member_pid, block_process, page_tail>>

\* Faulty variant: the last message addressed to the caller is taken.
RcvNewest(p, fd, q) ==
    /\ Uses(p, fd, q)
    /\ \E i \in DOMAIN msg_buffer[q] :
          /\ msg_buffer[q][i].to_pid = p
          /\ \A j \in i+1 .. Len(msg_buffer[q]) : msg_buffer[q][j].to_pid # p
          /\ msg_buffer' = [msg_buffer EXCEPT ![q] = RemoveAt(@, i)]
    /\ UNCHANGED <<live, files, allocated, member_pid, block_process, page_tail>>

\* do_msg_queue_rcv: the first message addressed to the caller is copied out and
\* those behind it move up.
Rcv(p, fd, q) ==
    /\ Uses(p, fd, q)
    /\ \E i \in DOMAIN msg_buffer[q] :
          /\ msg_buffer[q][i].to_pid = p
          /\ \A j \in 1 .. i-1 : msg_buffer[q][j].to_pid # p
          /\ msg_buffer' = [msg_buffer EXCEPT ![q] = RemoveAt(@, i)]
    /\ UNCHANGED <<live, files, allocated, member_pid, block_process, page_tail>>

\* Whether do_msg_queue_block(pid) by p returns 0: another member, already in the
\* row of p or with a free cell there.
BlockAccepted(q, p, pid) ==
    /\ IsMember(q, pid)
    /\ pid # p
    /\ RowOf(q, Place(q, p)) \cap {pid, NoPid} # {}

\* Faulty variant: does not look whether pid is in the row already.
BlockAgain(p, fd, q, pid) ==
    LET i == Place(q, p) IN
    /\ Uses(p, fd, q)
    /\ BlockAccepted(q, p, pid)
    /\ \E k \in Places :
          /\ block_process[q][i][k] = NoPid
          /\ \A l \in 1 .. k-1 : block_process[q][i][l] # NoPid
          /\ block_process' = [block_process EXCEPT ![q][i][k] = pid]
    /\ UNCHANGED <<live, files, allocated, member_pid, page_tail, msg_buffer>>

Block(p, fd, q, pid) ==
    LET i == Place(q, p) IN
    /\ Uses(p, fd, q)
    /\ BlockAccepted(q, p, pid)
    /\ pid \notin RowOf(q, i)
    /\ \E k \in Places :
          /\ block_process[q][i][k] = NoPid
          /\ \A l \in 1 .. k-1 : block_process[q][i][l] # NoPid
          /\ block_process' = [block_process EXCEPT ![q][i][k] = pid]
    /\ UNCHANGED <<live, files, allocated, member_pid, page_tail, msg_buffer>>

----------------------------------------------------------------------------
\* Faulty variants of a close: the last place is given up instead of the one of
\* p; the rows stay where they are; p stays in the rows of others; its messages
\* stay; its descriptor stays.
MembersButLast(q, p) == Front(member_pid[q])

RowsStay(q, p) == [block_process[q] EXCEPT ![Len(member_pid[q])] = EmptyRow]

\* do_msg_queue_close on the members, the block table and the messages of q.
MembersWithout(q, p) == RemoveAt(member_pid[q], Place(q, p))

\* The rows behind the one of p move up by one, the row of the place that is no
\* longer used is cleared, and p is taken out of every row.
RowsMovedUp(q, p) ==
    [i \in Places |->
        IF i = Len(member_pid[q]) THEN EmptyRow
        ELSE IF Place(q, p) <= i /\ i < MAX_MEMBERS THEN block_process[q][i+1]
        ELSE block_process[q][i]]
BlocksStay(q, p) == RowsMovedUp(q, p)
BlocksWithout(q, p) ==
    [i \in Places |-> [k \in Places |->
        IF RowsMovedUp(q, p)[i][k] = p THEN NoPid ELSE RowsMovedUp(q, p)[i][k]]]

MessagesStay(q, p) == msg_buffer[q]
MessagesWithout(q, p) ==
    Keep(msg_buffer[q], {m \in Range(msg_buffer[q]) : m.to_pid # p})

\* p closes the queues of Q; the pages of those it was the last member of are freed.
LeaveQueues(p, Q) ==
    /\ member_pid' = [q \in Queues |-> IF q \in Q THEN MembersWithout(q, p)
                                                  ELSE member_pid[q]]
    /\ block_process' = [q \in Queues |-> IF q \in Q THEN BlocksWithout(q, p)
                                                     ELSE block_process[q]]
    /\ msg_buffer' = [q \in Queues |-> IF q \in Q THEN MessagesWithout(q, p)
                                                  ELSE msg_buffer[q]]
    /\ allocated' = allocated \ {q \in Q : Len(member_pid[q]) = 1}
    /\ UNCHANGED page_tail

CloseKeepsDescriptor(p, fd, q) ==
    /\ Uses(p, fd, q)
    /\ LeaveQueues(p, {q})
    /\ UNCHANGED <<live, files>>

Close(p, fd, q) ==
    /\ Uses(p, fd, q)
    /\ LeaveQueues(p, {q})
    /\ files' = [files EXCEPT ![p][fd] = NULL]
    /\ UNCHANGED live

\* Faulty variant: only the lowest descriptor is looked at.
HeldLowest(p) ==
    {files[p][fd] : fd \in {f \in Fds : \A g \in 3 .. f-1 : files[p][g] = NULL}} \ {NULL}

Held(p) == {files[p][fd] : fd \in Fds} \ {NULL}

\* do_fork: the child takes the lowest free pid, gets a copy of the descriptors
\* and is made a member once for every descriptor of a queue.
Fork(p, c) ==
    /\ p \in live
    /\ Cardinality(live) < MAX_LIVE
    /\ c \in Pids \ live
    /\ \A d \in Pids \ live : c <= d
    /\ live' = live \cup {c}
    /\ files' = [files EXCEPT ![c] = files[p]]
    /\ member_pid' = [q \in Queues |->
          member_pid[q] \o [i \in 1 .. Cardinality({fd \in Fds : files[p][fd] = q}) |-> c]]
    /\ UNCHANGED <<allocated, block_process, page_tail, msg_buffer>>

\* do_exit: do_msg_queue_cleanup closes every queue descriptor, one after the
\* other (each names another queue: OneDescriptor), then the pid is free again.
Exit(p) ==
    /\ p \in live
    /\ LeaveQueues(p, {q \in Held(p) : IsMember(q, p)})
    /\ files' = [files EXCEPT ![p] = [fd \in Fds |-> NULL]]
    /\ live' = live \ {p}

UseQueue(p, fd, q) ==
    \/ \E m \in Message : SendUnicast(p, fd, q, m)
    \/ \E t \in Texts : SendBroadcast(p, fd, q, t)
    \/ Rcv(p, fd, q)
    \/ \E pid \in Pids : Block(p, fd, q, pid)
    \/ Close(p, fd, q)

Next ==
    \E p \in Pids :
        \/ \E q \in Queues : Create(p, q)
        \/ \E fd \in Fds, q \in Queues : UseQueue(p, fd, q)
        \/ \E c \in Pids : Fork(p, c)
        \/ Exit(p)

Spec == Init /\ [][Next]_vars

----------------------------------------------------------------------------
TypeOK ==
    /\ live \subseteq Pids
    /\ files \in [Pids -> [Fds -> Queues \cup {NULL}]]
    /\ allocated \subseteq Queues
    /\ member_pid \in [Queues -> Seq(Pids)]
    /\ block_process \in [Queues -> [Places -> [Places -> Pids \cup {NoPid}]]]
    /\ page_tail \in [Queues -> SUBSET Pids]
    /\ msg_buffer \in [Queues -> Seq(Message)]

\* A process names a queue by one descriptor only, and a pid that is free names
\* none.  do_msg_queue_close gives up the membership with the first descriptor
\* that is closed, so a second one would be left pointing into freed pages.
OneDescriptor ==
    /\ \A p \in Pids : \A f, g \in Fds :
          files[p][f] = files[p][g] /\ files[p][f] # NULL => f = g
    /\ \A p \in Pids \ live : \A fd \in Fds : files[p][fd] = NULL

\* The member list of a queue and the descriptor tables agree: the members are,
\* without repetition, the running processes that hold a descriptor of it, they
\* fit into member_pid (for which the code relies on MAX_LIVE <= MAX_MEMBERS), and
\* the pages of a queue are in use exactly while it has a member.  So nobody holds
\* a descriptor of freed pages, no queue leaks, and the pid of a process that
\* exited is in no list when it is given out again.
MembersHoldDescriptors ==
    \A q \in Queues :
        /\ \A p \in Pids :
              IsMember(q, p) <=> p \in live /\ \E fd \in Fds : files[p][fd] = q
        /\ \A i, j \in DOMAIN member_pid[q] :
              member_pid[q][i] = member_pid[q][j] => i = j
        /\ Len(member_pid[q]) <= MAX_MEMBERS
        /\ q \in allocated <=> member_pid[q] # <<>>

\* Every pending message is addressed to a current member, so it can still be
\* read, and none is left for a process that gets the pid of one that left.
PendingForMembers ==
    \A q \in Queues : \A i \in DOMAIN msg_buffer[q] : IsMember(q, msg_buffer[q][i].to_pid)

\* Row i of block_process belongs to the i-th member although the rows move when
\* a member leaves: it names other current members, each once, and the rows
\* behind the last member are empty.
RowsNameOtherMembers ==
    \A q \in Queues : \A i, k \in Places :
        LET b == block_process[q][i][k] IN
        b # NoPid =>
            /\ i <= Len(member_pid[q])
            /\ IsMember(q, b)
            /\ b # member_pid[q][i]
            /\ \A l \in Places : block_process[q][i][l] = b => l = k

\* With no more processes than MAX_LIVE <= MAX_MEMBERS allows, a member can block
\* any other member at any time: the -EINVAL at the end of do_msg_queue_block,
\* for a row without a free cell, is never reached.
BlockNeverFails ==
    \A q \in Queues, p, pid \in Pids :
        IsMember(q, p) /\ IsMember(q, pid) /\ p # pid => BlockAccepted(q, p, pid)

\* -EINVAL for a unicast to another member says that this member has blocked the
\* caller, which is what the test program block.c takes it to mean.  The code does
\* not meet this: its test reads past the row of the receiver.
RefusedMeansBlocked ==
    \A q \in Queues, p, r \in Pids :
        /\ IsMember(q, p) /\ IsMember(q, r) /\ p # r
        /\ ~ UnicastAccepted(q, p, r)
        => p \in RowOf(q, Place(q, r))

\* The messages of p that r has still to read.
PendingFrom(q, p, r) ==
    Keep(msg_buffer[q], {m \in Range(msg_buffer[q]) : m.from_pid = p /\ m.to_pid = r})

\* There is no call that takes a block back: it lasts while both stay members,
\* whoever else joins or leaves and moves the rows, and as long no further message
\* of the blocked one is stored for the blocker, by neither of the two tests that
\* do_msg_queue_send makes, for a unicast and for a broadcast.
BlocksLast ==
    [][\A q \in Queues, p, r \in Pids :
          /\ IsMember(q, r) /\ p \in RowOf(q, Place(q, r))
          /\ IsMember(q, r)' /\ IsMember(q, p)'
          => /\ p \in RowOf(q, Place(q, r))'
             /\ Len(PendingFrom(q, p, r)') <= Len(PendingFrom(q, p, r))]_vars

\* Whoever becomes a member, be it with the pid of a process that was a member
\* before, starts afresh: nothing is pending for it, nobody refuses its messages
\* and it refuses nobody's (do_add_child_to_msg_queue initialises none of this).
NewMemberStartsFresh ==
    [][\A q \in Queues, c \in Pids :
          ~ IsMember(q, c) /\ IsMember(q, c)' =>
              /\ Addressed(q, c)' = {}
              /\ RowOf(q, Place(q, c))' = {NoPid}
              /\ \A i \in Places : c \notin RowOf(q, i)']_vars

\* The queues implement the mailboxes of Mailboxes.tla: per-receiver order,
\* delivery to the members a broadcast is for and to no other, blocking that
\* stays with the pair it was asked for, and a departure nobody else notices.
MB == INSTANCE Mailboxes WITH
        member  <- [q \in Queues |-> Range(member_pid[q])],
        mailbox <- [q \in Queues |-> [p \in Pids |->
                      LET mine == Keep(msg_buffer[q], Addressed(q, p))
                      IN  [i \in DOMAIN mine |->
                             [from |-> mine[i].from_pid, txt |-> mine[i].txt]]]],
        blocked <- [q \in Queues |->
                      {b \in Pids \X Pids : /\ IsMember(q, b[1])
                                            /\ b[2] \in RowOf(q, Place(q, b[1]))}]
ImplementsMailboxes == MB!Spec
=============================================================================
