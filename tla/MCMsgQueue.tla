---------------------------- MODULE MCMsgQueue ----------------------------
(***************************************************************************)
(* Small instances of MsgQueue for TLC.                                    *)
(***************************************************************************)
EXTENDS MsgQueue

\* Pages that were never used before, and pages that may hold a small number
\* (here: any one pid, or none) behind the block table.
CleanTails == {{}}
StaleTails == {{}} \cup {{p} : p \in Pids}

Symmetry == Permutations(Queues) \cup Permutations(Texts)

----------------------------------------------------------------------------
\* A receiver that has a message goes on calling msg_queue_rcv, as the test
\* programs do (bcast.c:66-67); the timer gives every process its turns.
FairSpec == /\ Spec
            /\ \A p \in Pids, fd \in Fds, q \in Queues : WF_vars(Rcv(p, fd, q))

\* Two pending messages always differ, so that a message can be followed from the
\* send that stores it to the rcv that takes it.
Distinguishable == \A q \in Queues : \A i, j \in DOMAIN msg_buffer[q] :
                      msg_buffer[q][i] = msg_buffer[q][j] => i = j

\* A pending message is received or its receiver leaves the queue: no stream of
\* later messages keeps it waiting (do_msg_queue_rcv takes the oldest one).
EveryMessageLeaves ==
    []Distinguishable =>
        \A q \in Queues, m \in Message :
            m \in Range(msg_buffer[q]) ~> m \notin Range(msg_buffer[q])
=============================================================================
