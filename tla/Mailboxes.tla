----------------------------- MODULE Mailboxes -----------------------------
(***************************************************************************)
(* What the message queues of Assignment2/msg_queue.c promise to the       *)
(* processes that share them, with no word about how they are stored: a    *)
(* queue is a set of members, each with a mailbox of its own that it reads *)
(* in order, and a relation that says who refuses messages from whom.      *)
(*                                                                         *)
(* A call that fails is a step that changes nothing.  MsgQueue.tla, the    *)
(* model of the code, is shown to implement this specification.            *)
(***************************************************************************)
EXTENDS Integers, Sequences

CONSTANTS Pids,     \* process ids
          Queues,   \* queue objects
          Texts     \* message bodies

VARIABLES member,   \* member[q]: the processes that share queue q
          mailbox,  \* mailbox[q][p]: what p has still to read from q, oldest first
          blocked   \* blocked[q]: pairs <<r, s>>, r refuses messages from s on q

vars == <<member, mailbox, blocked>>

Letter == [from: Pids, txt: Texts]

Init == /\ member  = [q \in Queues |-> {}]
        /\ mailbox = [q \in Queues |-> [p \in Pids |-> <<>>]]
        /\ blocked = [q \in Queues |-> {}]

----------------------------------------------------------------------------
\* p opens a queue that nobody is using.
Open(p, q) ==
    /\ member[q] = {}
    /\ member' = [member EXCEPT ![q] = {p}]
    /\ UNCHANGED <<mailbox, blocked>>

\* A process that exists nowhere yet becomes a member of every queue of its
\* parent: no letter waits for it, and it neither blocks nor is blocked.
Join(p, c) ==
    /\ \A q \in Queues : c \notin member[q]
    /\ member' = [q \in Queues |-> IF p \in member[q] THEN member[q] \cup {c}
                                                      ELSE member[q]]
    /\ UNCHANGED <<mailbox, blocked>>

\* p leaves the queues of Q: its mailboxes go, and so does everything that
\* was said about blocking by it or against it.  Nobody else notices.
Leave(p, Q) ==
    /\ \A q \in Q : p \in member[q]
    /\ member'  = [q \in Queues |-> IF q \in Q THEN member[q] \ {p} ELSE member[q]]
    /\ mailbox' = [q \in Queues |-> IF q \in Q
                                      THEN [mailbox[q] EXCEPT ![p] = <<>>]
                                      ELSE mailbox[q]]
    /\ blocked' = [q \in Queues |-> IF q \in Q
                                      THEN {b \in blocked[q] : p \notin {b[1], b[2]}}
                                      ELSE blocked[q]]

\* The members of q that p can write to.
Reachable(p, q) == {r \in member[q] \ {p} : <<r, p>> \notin blocked[q]}

\* p writes the same letter to every process of R.
Deliver(p, q, R, t) ==
    /\ mailbox' = [mailbox EXCEPT ![q] =
                     [r \in Pids |-> IF r \in R
                                       THEN Append(@[r], [from |-> p, txt |-> t])
                                       ELSE @[r]]]
    /\ UNCHANGED <<member, blocked>>

Unicast(p, q, r, t) ==
    /\ p \in member[q]
    /\ r \in Reachable(p, q)
    /\ Deliver(p, q, {r}, t)

\* A broadcast reaches everybody that does not refuse it.
Broadcast(p, q, t) ==
    /\ p \in member[q]
    /\ Deliver(p, q, Reachable(p, q), t)

\* p reads its oldest letter.
Receive(p, q) ==
    /\ p \in member[q]
    /\ mailbox[q][p] # <<>>
    /\ mailbox' = [mailbox EXCEPT ![q][p] = Tail(@)]
    /\ UNCHANGED <<member, blocked>>

Block(p, q, s) ==
    /\ {p, s} \subseteq member[q]
    /\ p # s
    /\ blocked' = [blocked EXCEPT ![q] = @ \cup {<<p, s>>}]
    /\ UNCHANGED <<member, mailbox>>

Next ==
    \E p \in Pids :
        \/ \E c \in Pids : Join(p, c)
        \/ \E Q \in SUBSET Queues : Leave(p, Q)
        \/ \E q \in Queues :
              \/ Open(p, q)
              \/ Receive(p, q)
              \/ \E s \in Pids : Block(p, q, s)
              \/ \E t \in Texts : Broadcast(p, q, t)
              \/ \E r \in Pids, t \in Texts : Unicast(p, q, r, t)

Spec == Init /\ [][Next]_vars
=============================================================================
