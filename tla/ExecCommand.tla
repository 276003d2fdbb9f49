---------------------------- MODULE ExecCommand ----------------------------
(***************************************************************************)
(* executeCommand, Assignment1/Part1/1.1/executeCommand.c: for each        *)
(* directory of CS330_PATH in turn a child is forked that tries to execute *)
(* the command from there; the first child that ends with 0 ends the       *)
(* search.                                                                 *)
(***************************************************************************)
EXTENDS Integers, Sequences

CONSTANTS
    ndirs,      \* number of directories in the path
    Codes,      \* exit codes of programs
    KILLED      \* in place of a code: ended by a signal

ASSUME CodesAreBytes == ndirs \in Nat /\ Codes \subseteq 0 .. 255 /\ KILLED \notin Codes

VARIABLES
    present,    \* the directories in which execv finds a program
    token,      \* the directory of this round
    step,       \* the parent: "fork", "wait", "over"
    process,    \* the child: "none", "forked", "runs", or how it ended
    ran,        \* history: <<directory, end>> of each run of the command
    result      \* what the call returns

commandVars == <<present, token, step, process, ran, result>>

Dirs == 1 .. ndirs

CommandInit ==
    /\ present \in SUBSET Dirs
    /\ token = 1
    /\ step = "fork" /\ process = "none"
    /\ ran = <<>> /\ result = 0

----------------------------------------------------------------------------
ForkChild ==
    /\ step = "fork" /\ token <= ndirs
    /\ process' = "forked" /\ step' = "wait"
    /\ UNCHANGED <<present, token, ran, result>>

\* execv; if it returns, exit(-1).
Execv ==
    /\ process = "forked"
    /\ process' = IF token \in present THEN "runs" ELSE "exit -1"
    /\ UNCHANGED <<present, token, step, ran, result>>

EndProgram ==
    /\ process = "runs"
    /\ \E end \in Codes \cup {KILLED} : ran' = Append(ran, <<token, end>>)
    /\ process' = "ended"
    /\ UNCHANGED <<present, token, step, result>>

\* Faulty variant: a child ended by a signal is one that failed.
SignalFails(end) == IF end = KILLED THEN 255 ELSE end

\* WEXITSTATUS: of a child that was ended by a signal, too.
WEXITSTATUS(end) == IF end = KILLED THEN 0 ELSE end

ChildStatus == IF process = "exit -1" THEN 255 ELSE WEXITSTATUS(ran[Len(ran)][2])

WaitChild ==
    /\ step = "wait" /\ process \in {"exit -1", "ended"}
    /\ process' = "none"
    /\ IF ChildStatus = 0 THEN step' = "over" /\ UNCHANGED token
                          ELSE step' = "fork" /\ token' = token + 1
    /\ UNCHANGED <<present, ran, result>>

\* All directories were tried: "UNABLE TO EXECUTE", and -1.
GiveUp ==
    /\ step = "fork" /\ token > ndirs
    /\ step' = "over" /\ result' = -1
    /\ UNCHANGED <<present, token, process, ran>>

CommandNext == ForkChild \/ Execv \/ EndProgram \/ WaitChild \/ GiveUp
CommandSpec == CommandInit /\ [][CommandNext]_commandVars

----------------------------------------------------------------------------
Succeeded(run) == run[2] \in {0, KILLED}

\* The command runs from the directories that have it, in the order of the path,
\* until one run ends with 0 or by a signal: a run that fails is followed by the
\* next directory's, as if the command had not been found (executeCommand.c:40-43),
\* and -1 is returned only when all have failed.
RunsUntilSuccess ==
    LET n == Len(ran)
    IN  /\ \A r \in 1 .. n : ran[r][1] \in present
        /\ \A r \in 1 .. n - 1 : ran[r][1] < ran[r + 1][1] /\ ~Succeeded(ran[r])
        /\ step = "over" =>
              IF result = 0 THEN n > 0 /\ Succeeded(ran[n])
              ELSE /\ \A d \in present : \E r \in 1 .. n : ran[r][1] = d
                   /\ \A r \in 1 .. n : ~Succeeded(ran[r])
=============================================================================
