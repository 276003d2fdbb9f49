---------------------------- MODULE ExecParallel ----------------------------
(***************************************************************************)
(* executeInParallel, Assignment1/Part1/1.2/executeInParallel.c: one child *)
(* and one pipe per command; the parent waits for one child, then copies   *)
(* what it finds in the pipes, one after the other, to outfile.            *)
(*                                                                         *)
(* Of the bytes that a command prints the model keeps the number and where *)
(* among them the message "UNABLE TO EXECUTE\n" stands, and in the file    *)
(* the command that each byte comes from.                                  *)
(***************************************************************************)
EXTENDS Integers, Sequences, FiniteSets

CONSTANTS
    CM_SZ,      \* 50, the room for commands: nothing checks it
    ncmd,       \* number of commands in infile
    PIPE_SIZE,  \* capacity of a pipe
    BLOCK,      \* 4096, the most that one read takes
    MESSAGE,    \* 18, the length of "UNABLE TO EXECUTE\n"
    Programs,   \* what a program may print: how many bytes, and the offsets of the message
    OldSizes    \* how long outfile may be before the call

ASSUME Lengths ==
    /\ CM_SZ \in Nat /\ ncmd \in 1 .. CM_SZ
    /\ BLOCK \in Nat /\ MESSAGE \in 1 .. BLOCK - 1
    /\ PIPE_SIZE \in Nat /\ BLOCK <= PIPE_SIZE
    /\ OldSizes \subseteq Nat

\* The message ends the only line it has: two of them cannot overlap.
ASSUME Texts ==
    /\ Programs \subseteq [found : {TRUE}, size : Nat, says : SUBSET Nat]
    /\ \A p \in Programs : \A o \in p.says :
          o + MESSAGE <= p.size /\ \A q \in p.says : q > o => q >= o + MESSAGE

VARIABLES
    program,    \* what each command is
    pc, cmd,    \* the parent: "fork", "wait", "read" or "over", and the command it is at
    child,      \* "none", "running", "exited"
    left,       \* left[c]: how much the child has still to write
    pipe,       \* pipe[c]: how much is in its pipe
    file, pos,  \* outfile: the origin of each byte, 0 for the old contents; the offset
    status,
    cut         \* history: the commands that ran on when the last read of their pipe returned

execVars == <<program, pc, cmd, child, left, pipe, file, pos, status, cut>>

Commands == 1 .. ncmd
Size(c)  == program[c].size
Says(c)  == program[c].says

\* No directory of the path has the command: the child prints the message itself.
NotFound == [found |-> FALSE, size |-> MESSAGE, says |-> {0}]

\* outfile is opened without O_TRUNC: what was in it stays.
ExecInit ==
    /\ program \in [Commands -> Programs \cup {NotFound}]
    /\ pc = "fork" /\ cmd = 1
    /\ child = [c \in Commands |-> "none"]
    /\ left = [c \in Commands |-> Size(c)]
    /\ pipe = [c \in Commands |-> 0]
    /\ \E n \in OldSizes : file = [b \in 1 .. n |-> 0]
    /\ pos = 0 /\ status = 0 /\ cut = {}

----------------------------------------------------------------------------
\* Faulty variant: one round too many.
OneMoreCmd == cmd <= ncmd

\* i < ncmd after the increment, in both loops.
MoreCmds == cmd < ncmd

\* The loop over the commands; the children run from here on.
Fork ==
    /\ pc = "fork"
    /\ child' = [child EXCEPT ![cmd] = "running"]
    /\ IF MoreCmds THEN cmd' = cmd + 1 /\ UNCHANGED pc
                   ELSE cmd' = 1 /\ pc' = "wait"
    /\ UNCHANGED <<program, left, pipe, file, pos, status, cut>>

\* A program prints in pieces, as far as there is room; the message of a child
\* that has tried all directories is one short write, which is never split.
Write(c) ==
    /\ child[c] = "running" /\ left[c] > 0
    /\ \E n \in 1 .. left[c] :
          /\ pipe[c] + n <= PIPE_SIZE
          /\ program[c] = NotFound => n = MESSAGE
          /\ pipe' = [pipe EXCEPT ![c] = @ + n]
          /\ left' = [left EXCEPT ![c] = @ - n]
    /\ UNCHANGED <<program, pc, cmd, child, file, pos, status, cut>>

Exit(c) ==
    /\ child[c] = "running" /\ left[c] = 0
    /\ child' = [child EXCEPT ![c] = "exited"]
    /\ UNCHANGED <<program, pc, cmd, left, pipe, file, pos, status, cut>>

\* wait(NULL), once: any of the children.
Wait ==
    /\ pc = "wait" /\ \E c \in Commands : child[c] = "exited"
    /\ pc' = "read"
    /\ UNCHANGED <<program, cmd, child, left, pipe, file, pos, status, cut>>

\* Faulty variant: outfile is opened with O_APPEND instead of O_TRUNC.
Appended(c, n) == file \o [b \in 1 .. n |-> c]

\* n bytes of command c at the offset.
Written(c, n) ==
    [b \in 1 .. (IF pos + n > Len(file) THEN pos + n ELSE Len(file)) |->
        IF b \in pos + 1 .. pos + n THEN c ELSE file[b]]

\* How much of an output has been taken out of its pipe.
Taken(c) == Size(c) - left[c] - pipe[c]

\* The next n bytes are the message, all of it and nothing else; who printed it
\* does not matter.
IsMessage(c, n) == n = MESSAGE /\ Taken(c) \in Says(c)

\* Faulty variant: each command has its own status, the last one is returned.
LastStatus(c, n) == IF IsMessage(c, n) THEN -1 ELSE 0

\* The first message that is recognized decides.
StatusAfter(c, n) == IF status = 0 /\ IsMessage(c, n) THEN -1 ELSE status

\* Faulty variants: a read takes one byte too many for the loop to go on; all
\* reads are followed by another one.
GoesOnIfLonger(n) == n > BLOCK
GoesOn(n) == n > 0

ReadAgain(n) == n >= BLOCK

\* A read takes what is there, at most a block, and waits when there is nothing:
\* the parent has not closed the write end, so there is no end of file.  A short
\* read is taken for the end of the output.
Read ==
    /\ pc = "read" /\ pipe[cmd] > 0
    /\ LET n == IF pipe[cmd] > BLOCK THEN BLOCK ELSE pipe[cmd]
       IN  /\ pipe' = [pipe EXCEPT ![cmd] = @ - n]
           /\ file' = Written(cmd, n) /\ pos' = pos + n
           /\ status' = StatusAfter(cmd, n)
           /\ cut' = IF child[cmd] = "running" THEN cut \cup {cmd} ELSE cut \ {cmd}
           /\ IF ReadAgain(n) THEN UNCHANGED <<pc, cmd>>
              ELSE IF MoreCmds THEN cmd' = cmd + 1 /\ UNCHANGED pc
              ELSE pc' = "over" /\ UNCHANGED cmd
    /\ UNCHANGED <<program, child, left>>

----------------------------------------------------------------------------
Parent   == Fork \/ Wait \/ Read
Child(c) == Write(c) \/ Exit(c)
ExecNext == Parent \/ \E c \in Commands : Child(c)
ExecSpec == ExecInit /\ [][ExecNext]_execVars

\* The scheduler gives every process its turns.
ExecFairness == WF_execVars(Parent) /\ \A c \in Commands : WF_execVars(Child(c))

----------------------------------------------------------------------------
ExecTypeOK ==
    /\ program \in [Commands -> Programs \cup {NotFound}]
    /\ pc \in {"fork", "wait", "read", "over"} /\ cmd \in Commands
    /\ child \in [Commands -> {"none", "running", "exited"}]
    /\ left \in [Commands -> Nat]
    /\ pipe \in [Commands -> 0 .. PIPE_SIZE]
    /\ file \in Seq({0} \cup Commands) /\ pos \in 0 .. Len(file)
    /\ status \in {0, -1} /\ cut \subseteq Commands

Copied(c) == Cardinality({b \in 1 .. pos : file[b] = c})
Passed(c) == pc = "over" \/ (pc = "read" /\ c < cmd)

\* The file begins with the outputs in the order of the commands, however the
\* children were scheduled, and what is not there of an output is still in its
\* pipe or was not written yet.
OutputInOrder ==
    /\ \A a, b \in 1 .. pos : a < b => file[a] <= file[b]
    /\ \A c \in Commands : Copied(c) + pipe[c] + left[c] = Size(c)

\* An output is cut off only if its command was still running when the parent
\* took a short read for the end (executeInParallel.c:120).
OnlyRunningAreCut ==
    \A c \in Commands : Passed(c) /\ c \notin cut => Copied(c) = Size(c)

\* What the file has of an output ends with the message, and the message begins
\* at a whole number of blocks.
EndsWithMessage(c) ==
    \E o \in Says(c) : Copied(c) = o + MESSAGE /\ \E k \in 0 .. o : o = k * BLOCK

\* A command that was not found makes the result -1, although its message is
\* recognized by the text of one of many partial reads (executeInParallel.c:115).
\* A command that was found does so, too, if what is copied of its output ends
\* like that, as executeCommand's does (executeCommand.c:44); nothing else does,
\* however the children's writes and the parent's reads fall together.
StatusTells ==
    \A c \in Commands : Passed(c) /\ program[c] = NotFound => status = -1
StatusRight ==
    /\ StatusTells
    /\ status = -1 <=> \E c \in Commands : Passed(c) /\ EndsWithMessage(c)

\* When the call returns: some output fits into a pipe, so that its child ends
\* before anybody reads (line 103), and no output is empty or a number of whole
\* blocks, after which the parent reads once more (lines 109, 120).
Returnable == /\ \E c \in Commands : Size(c) <= PIPE_SIZE
              /\ \A c \in Commands : Size(c) % BLOCK # 0
Returns == Returnable ~> pc = "over"
=============================================================================
