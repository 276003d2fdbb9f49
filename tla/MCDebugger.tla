---------------------------- MODULE MCDebugger ----------------------------
(***************************************************************************)
(* Small instances of Debugger for TLC.                                    *)
(***************************************************************************)
EXTENDS Debugger

Symmetry == Permutations(Funcs)

----------------------------------------------------------------------------
\* For liveness: the program of every process but the first ends after so many
\* steps of its own, or stops at a breakpoint before; the timer gives every
\* process that is not waiting its turns.
FairSpec == Spec /\ \A p \in Pids : SF_vars(Exit(p) /\ p # 1) /\ WF_vars(GoOn(p))

\* The first process gets out of wait_and_continue, also when the child it has
\* continued is a debugger and waits for children itself: every hand-over along
\* the chain is handed back.
WaitReturns == state[1] = "WAITING" ~> state[1] # "WAITING"
=============================================================================
