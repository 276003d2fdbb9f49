------------------------------- MODULE MCExec -------------------------------
(***************************************************************************)
(* The two programs of Assignment1/Part1 for TLC, started side by side.    *)
(* They share nothing: every behaviour of each is there while the other    *)
(* one has its simplest input.                                             *)
(***************************************************************************)
EXTENDS ExecParallel, ExecCommand

\* Outputs without the message, shorter than a block, a block, longer, and longer
\* than a pipe; just the message; a block and the message; the message at both
\* ends; the message across the end of the first block.
Prints(n, offsets) == [found |-> TRUE, size |-> n, says |-> offsets]
SomePrograms == {Prints(0, {}), Prints(1, {}), Prints(3, {}), Prints(7, {}),
                 Prints(2, {0}), Prints(5, {3}), Prints(4, {0, 2})}

Init == /\ ExecInit /\ CommandInit
        /\ \/ present = {}
           \/ program = [c \in Commands |-> NotFound] /\ file = <<>>

Next == \/ ExecNext /\ UNCHANGED commandVars
        \/ CommandNext /\ UNCHANGED execVars

Spec     == Init /\ [][Next]_<<execVars, commandVars>>
FairSpec == Spec /\ ExecFairness
=============================================================================
