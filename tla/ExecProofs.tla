----------------------------- MODULE ExecProofs -----------------------------
(***************************************************************************)
(* Proofs about ExecParallel and ExecCommand, for every number of commands *)
(* that there is room for, every number of directories, every length of    *)
(* the outputs, and every size of the pipes and of a read.                 *)
(***************************************************************************)
EXTENDS ExecParallel, ExecCommand, FiniteSetTheorems, SequenceTheorems, TLAPS

LEMMA Numbers ==
  /\ ncmd \in Nat /\ ncmd > 0 /\ BLOCK \in Nat /\ MESSAGE \in Nat /\ PIPE_SIZE \in Nat
  /\ 0 < MESSAGE /\ MESSAGE < BLOCK /\ BLOCK <= PIPE_SIZE
BY Lengths

\* A child that has ended has nothing left to write, and no child waits to be
\* forked when the parent has left its first loop.
Children ==
    /\ \A c \in Commands : child[c] = "exited" => left[c] = 0
    /\ \A c \in Commands : child[c] = "none" => pc = "fork" /\ c >= cmd

\* The message of a child that found no program is written in one piece.
Messages ==
    \A c \in Commands : program[c] = NotFound =>
        \/ left[c] = MESSAGE /\ pipe[c] = 0
        \/ left[c] = 0 /\ pipe[c] \in {0, MESSAGE}

\* Nothing is copied before the parent reads; the commands it has not come to have
\* nothing in the file.
Origins ==
    /\ pc \in {"fork", "wait"} => pos = 0
    /\ pc = "wait" => cmd = 1
    /\ pc \in {"read", "over"} => \A b \in 1 .. pos : file[b] \in 1 .. cmd

\* Until the short read that ends its loop, whole blocks are copied of an output.
WholeBlocks ==
    \A c \in Commands : ~ Passed(c) => \E k \in Nat : Copied(c) = k * BLOCK

\* An output that was not cut off is in the file as a whole.
Whole == \A c \in Commands : Passed(c) /\ c \notin cut => pipe[c] = 0 /\ left[c] = 0

EInv == /\ ExecTypeOK
        /\ Children /\ Messages /\ Origins /\ Whole /\ WholeBlocks
        /\ OutputInOrder
        /\ StatusRight

\* The part of an interval that has a property can be counted.
LEMMA Countable ==
  ASSUME NEW S, NEW m \in Nat, S \subseteq 1 .. m
  PROVE  IsFiniteSet(S) /\ Cardinality(S) \in Nat
<1>1. IsFiniteSet(1 .. m)
  BY FS_Interval
<1>2. IsFiniteSet(S)
  BY <1>1, FS_Subset
<1> QED BY <1>2, FS_CardinalityType

LEMMA CopiedIsNat == ASSUME ExecTypeOK, NEW c PROVE Copied(c) \in Nat
<1> DEFINE Bytes == {b \in 1 .. pos : file[b] = c}
<1>1. pos \in Nat /\ Bytes \subseteq 1 .. pos
  BY DEF ExecTypeOK
<1>2. Copied(c) = Cardinality(Bytes)
  BY DEF Copied
<1> HIDE DEF Bytes
<1> QED BY <1>1, <1>2, Countable

LEMMA Outputs ==
  ASSUME ExecTypeOK, NEW c \in Commands
  PROVE  /\ Size(c) \in Nat /\ Says(c) \subseteq Nat
         /\ program[c] = NotFound => Size(c) = MESSAGE /\ Says(c) = {0}
<1>1. program[c] \in Programs \cup {NotFound}
  BY DEF ExecTypeOK
<1>2. CASE program[c] \in Programs
  <2>1. program[c] \in [found : {TRUE}, size : Nat, says : SUBSET Nat]
    BY <1>2, Texts
  <2>2. program[c].found
    BY <2>1
  <2>3. program[c] # NotFound
    BY <2>2 DEF NotFound
  <2> QED BY <2>1, <2>3 DEF Size, Says
<1>3. CASE program[c] = NotFound
  BY <1>3, Numbers DEF NotFound, Size, Says
<1> QED BY <1>1, <1>2, <1>3

\* A number of whole blocks and a part of one are determined by their sum.
LEMMA BlocksAndRest ==
  ASSUME NEW B \in Nat, NEW k \in Nat, NEW j \in Nat, NEW m \in Nat, NEW n \in Nat,
         0 < m, m < B, 0 < n, n < B, k * B + m = j * B + n
  PROVE  k * B = j * B /\ m = n
<1>1. ~ k < j
  <2>1. ASSUME k < j
        PROVE  FALSE
    <3>1. PICK d \in Nat : j = k + 1 + d
      <4>1. j - k - 1 \in Nat /\ j = k + 1 + (j - k - 1)
        BY <2>1
      <4> QED BY <4>1
    <3>2. j * B = k * B + B + d * B
      BY <3>1
    <3>3. d * B \in Nat /\ k * B \in Nat /\ j * B \in Nat
      OBVIOUS
    <3> QED BY <3>2, <3>3
  <2> QED BY <2>1
<1>2. ~ j < k
  <2>1. ASSUME j < k
        PROVE  FALSE
    <3>1. PICK d \in Nat : k = j + 1 + d
      <4>1. k - j - 1 \in Nat /\ k = j + 1 + (k - j - 1)
        BY <2>1
      <4> QED BY <4>1
    <3>2. k * B = j * B + B + d * B
      BY <3>1
    <3>3. d * B \in Nat /\ k * B \in Nat /\ j * B \in Nat
      OBVIOUS
    <3> QED BY <3>2, <3>3
  <2> QED BY <2>1
<1>3. k = j
  BY <1>1, <1>2
<1>4. k * B = j * B /\ k * B \in Nat
  BY <1>3
<1> QED BY <1>4

\* The number of blocks in o is at most o.
LEMMA FewerBlocks ==
  ASSUME NEW B \in Nat, NEW k \in Nat, 0 < B
  PROVE  k \in 0 .. k * B
<1>1. k * B = k + k * (B - 1)
  OBVIOUS
<1>2. k * (B - 1) \in Nat /\ k * B \in Nat
  OBVIOUS
<1> QED BY <1>1, <1>2

LEMMA EInvInit == ExecInit => EInv
<1> SUFFICES ASSUME ExecInit
             PROVE  EInv
  OBVIOUS
<1>1. PICK n \in OldSizes : file = [b \in 1 .. n |-> 0]
  BY DEF ExecInit
<1>2. n \in Nat
  BY Lengths
<1>3. \A c \in Commands : Size(c) \in Nat
  <2> SUFFICES ASSUME NEW c \in Commands
               PROVE  Size(c) \in Nat
    OBVIOUS
  <2>1. program[c] \in Programs \cup {NotFound}
    BY DEF ExecInit
  <2>2. CASE program[c] \in Programs
    BY <2>2, Texts DEF Size
  <2>3. CASE program[c] = NotFound
    BY <2>3, Numbers DEF NotFound, Size
  <2> QED BY <2>1, <2>2, <2>3
<1>4. file \in Seq({0} \cup Commands) /\ Len(file) = n
  BY <1>1, <1>2
<1>5. ExecTypeOK
  <2>1. left \in [Commands -> Nat]
    BY <1>3 DEF ExecInit
  <2>2. pipe \in [Commands -> 0 .. PIPE_SIZE]
    BY Numbers DEF ExecInit
  <2>3. child \in [Commands -> {"none", "running", "exited"}] /\ cmd \in Commands
    BY Numbers DEF ExecInit, Commands
  <2>4. pos \in 0 .. Len(file)
    <3>1. pos = 0
      BY DEF ExecInit
    <3> QED BY <1>2, <1>4, <3>1
  <2> QED BY <1>4, <2>1, <2>2, <2>3, <2>4 DEF ExecInit, ExecTypeOK
<1>6. \A c \in Commands : Copied(c) = 0
  <2>1. \A c \in Commands : {b \in 1 .. pos : file[b] = c} = {}
    BY DEF ExecInit
  <2> QED BY <2>1, FS_EmptySet DEF Copied
<1>7. OutputInOrder
  BY <1>3, <1>6 DEF ExecInit, OutputInOrder
<1>8. Children /\ Origins /\ Whole /\ StatusRight
  BY Numbers DEF ExecInit, Children, Origins, Whole, StatusRight, StatusTells, Passed, Commands
<1>9. Messages
  BY <1>5, Outputs DEF ExecInit, Messages
<1>10. WholeBlocks
  <2>1. 0 \in Nat /\ 0 * BLOCK = 0
    BY Numbers
  <2> QED BY <1>6, <2>1 DEF WholeBlocks
<1> QED BY <1>5, <1>7, <1>8, <1>9, <1>10 DEF EInv

\* Steps after which the same is copied of each command, and the same are passed.
LEMMA NothingCopied ==
  ASSUME EInv, UNCHANGED <<program, file, pos, status>>,
         \A c \in Commands : Passed(c)' <=> Passed(c)
  PROVE  StatusRight' /\ WholeBlocks'
<1>1. \A c \in Commands : Copied(c)' = Copied(c) /\ Says(c)' = Says(c)
  BY DEF Copied, Says
<1>2. \A c \in Commands : EndsWithMessage(c)' <=> EndsWithMessage(c)
  BY <1>1 DEF EndsWithMessage
<1>3. StatusTells'
  BY DEF EInv, StatusRight, StatusTells
<1>4. WholeBlocks'
  BY <1>1 DEF EInv, WholeBlocks
<1>5. status = -1 <=> \E c \in Commands : Passed(c) /\ EndsWithMessage(c)
  BY DEF EInv, StatusRight
<1>6. status' = -1 <=> \E c \in Commands : Passed(c)' /\ EndsWithMessage(c)'
  BY <1>2, <1>5
<1> QED BY <1>3, <1>4, <1>6 DEF StatusRight

----------------------------------------------------------------------------
\* The parent before it reads, and the children.
LEMMA EInvFork == EInv /\ Fork => EInv'
<1> SUFFICES ASSUME EInv, Fork
             PROVE  EInv'
  OBVIOUS
<1>1. /\ pc = "fork" /\ UNCHANGED <<program, left, pipe, file, pos, status, cut>>
      /\ child' = [child EXCEPT ![cmd] = "running"]
      /\ \/ cmd < ncmd /\ cmd' = cmd + 1 /\ pc' = pc
         \/ ~ (cmd < ncmd) /\ cmd' = 1 /\ pc' = "wait"
  BY DEF Fork, MoreCmds
<1>2. cmd \in 1 .. ncmd /\ pos = 0 /\ child \in [Commands -> {"none", "running", "exited"}]
  BY <1>1 DEF EInv, ExecTypeOK, Commands, Origins
<1>3. ExecTypeOK'
  <2>1. cmd' \in Commands /\ pc' \in {"fork", "wait", "read", "over"}
    BY <1>1, <1>2, Numbers DEF Commands
  <2>2. child' \in [Commands -> {"none", "running", "exited"}]
    BY <1>1, <1>2
  <2> QED BY <1>1, <2>1, <2>2 DEF EInv, ExecTypeOK
<1>4. Children'
  BY <1>1, <1>2, Numbers DEF EInv, Children, Commands
<1>5. Messages' /\ Origins' /\ Whole'
  BY <1>1, <1>2 DEF EInv, Messages, Origins, Whole, Passed
<1>6. OutputInOrder'
  BY <1>1 DEF EInv, OutputInOrder, Copied, Size
<1>7. StatusRight' /\ WholeBlocks'
  <2>1. \A c \in Commands : ~ Passed(c) /\ ~ Passed(c)'
    BY <1>1 DEF Passed
  <2> QED BY <1>1, <2>1, NothingCopied
<1> QED BY <1>3, <1>4, <1>5, <1>6, <1>7 DEF EInv

LEMMA EInvWait == EInv /\ Wait => EInv'
<1> SUFFICES ASSUME EInv, Wait
             PROVE  EInv'
  OBVIOUS
<1>1. /\ pc = "wait" /\ pc' = "read"
      /\ UNCHANGED <<program, cmd, child, left, pipe, file, pos, status, cut>>
  BY DEF Wait
<1>2. pos = 0 /\ cmd = 1
  BY <1>1 DEF EInv, Origins
<1>3. ExecTypeOK' /\ Children' /\ Messages' /\ Origins'
  BY <1>1, <1>2 DEF EInv, ExecTypeOK, Children, Messages, Origins
<1>4. \A c \in Commands : ~ Passed(c) /\ ~ Passed(c)'
  BY <1>1, <1>2 DEF Passed, Commands
<1>5. Whole' /\ StatusRight' /\ WholeBlocks'
  BY <1>1, <1>4, NothingCopied DEF Whole
<1>6. OutputInOrder'
  BY <1>1 DEF EInv, OutputInOrder, Copied, Size
<1> QED BY <1>3, <1>5, <1>6 DEF EInv

LEMMA EInvWrite == ASSUME EInv, NEW c \in Commands, Write(c) PROVE EInv'
<1>1. PICK n \in 1 .. left[c] :
        /\ child[c] = "running" /\ left[c] > 0 /\ pipe[c] + n <= PIPE_SIZE
        /\ program[c] = NotFound => n = MESSAGE
        /\ pipe' = [pipe EXCEPT ![c] = pipe[c] + n]
        /\ left' = [left EXCEPT ![c] = left[c] - n]
        /\ UNCHANGED <<program, pc, cmd, child, file, pos, status, cut>>
  BY DEF Write
<1>2. /\ left \in [Commands -> Nat] /\ pipe \in [Commands -> 0 .. PIPE_SIZE]
      /\ n \in Nat /\ n <= left[c] /\ pipe[c] \in Nat /\ left[c] \in Nat
  BY <1>1, Numbers DEF EInv, ExecTypeOK
<1>3. /\ pipe'[c] = pipe[c] + n /\ left'[c] = left[c] - n
      /\ \A e \in Commands \ {c} : pipe'[e] = pipe[e] /\ left'[e] = left[e]
  BY <1>1, <1>2
<1>4. ExecTypeOK'
  <2>1. pipe' \in [Commands -> 0 .. PIPE_SIZE] /\ left' \in [Commands -> Nat]
    BY <1>1, <1>2, Numbers
  <2> QED BY <1>1, <2>1 DEF EInv, ExecTypeOK
<1>5. Children' /\ Origins'
  BY <1>1, <1>3 DEF EInv, Children, Origins
<1>6. Messages'
  BY <1>1, <1>2, <1>3, Numbers DEF EInv, Messages
<1>7. Whole'
  BY <1>1, <1>2, <1>3 DEF EInv, Whole, Passed
<1>8. StatusRight' /\ WholeBlocks'
  BY <1>1, NothingCopied DEF Passed
<1>9. OutputInOrder'
  <2>1. \A e \in Commands : Copied(e) + pipe[e] + left[e] = Size(e)
    BY DEF EInv, OutputInOrder
  <2>2. \A e \in Commands : Copied(e)' = Copied(e) /\ Size(e)' = Size(e)
    BY <1>1 DEF Copied, Size
  <2>3. Copied(c) \in Nat
    BY CopiedIsNat DEF EInv
  <2>4. \A e \in Commands : Copied(e)' + pipe'[e] + left'[e] = Size(e)'
    BY <1>2, <1>3, <2>1, <2>2, <2>3
  <2> QED BY <1>1, <2>4 DEF EInv, OutputInOrder
<1> QED BY <1>4, <1>5, <1>6, <1>7, <1>8, <1>9 DEF EInv

LEMMA EInvExit == ASSUME EInv, NEW c \in Commands, Exit(c) PROVE EInv'
<1>1. /\ child[c] = "running" /\ left[c] = 0
      /\ child' = [child EXCEPT ![c] = "exited"]
      /\ UNCHANGED <<program, pc, cmd, left, pipe, file, pos, status, cut>>
  BY DEF Exit
<1>2. child \in [Commands -> {"none", "running", "exited"}]
  BY DEF EInv, ExecTypeOK
<1>3. ExecTypeOK' /\ Children'
  BY <1>1, <1>2 DEF EInv, ExecTypeOK, Children
<1>4. Messages' /\ Origins' /\ Whole'
  BY <1>1 DEF EInv, Messages, Origins, Whole, Passed
<1>5. OutputInOrder'
  BY <1>1 DEF EInv, OutputInOrder, Copied, Size
<1>6. StatusRight' /\ WholeBlocks'
  BY <1>1, NothingCopied DEF Passed
<1> QED BY <1>3, <1>4, <1>5, <1>6 DEF EInv

----------------------------------------------------------------------------
\* n bytes of command c reach the file at the offset.
LEMMA WrittenProperties ==
  ASSUME ExecTypeOK, NEW c \in Commands, NEW n \in Nat
  PROVE  /\ Written(c, n) \in Seq({0} \cup Commands)
         /\ pos + n \in 0 .. Len(Written(c, n))
         /\ \A b \in 1 .. pos + n : Written(c, n)[b] = IF b > pos THEN c ELSE file[b]
<1> DEFINE len == IF pos + n > Len(file) THEN pos + n ELSE Len(file)
           w == Written(c, n)
<1>1. file \in Seq({0} \cup Commands) /\ pos \in Nat /\ pos <= Len(file) /\ Len(file) \in Nat
  BY DEF ExecTypeOK
<1>2. len \in Nat /\ pos + n <= len /\ \A b \in 1 .. len : b \notin pos + 1 .. pos + n => b \in 1 .. Len(file)
  BY <1>1
<1>3. w = [b \in 1 .. len |-> IF b \in pos + 1 .. pos + n THEN c ELSE file[b]]
  BY DEF Written
<1> HIDE DEF len, w
<1>4. \A b \in 1 .. len : w[b] \in {0} \cup Commands
  BY <1>1, <1>2, <1>3
<1>5. w \in Seq({0} \cup Commands) /\ Len(w) = len
  BY <1>2, <1>3, <1>4
<1>6. \A b \in 1 .. pos + n : w[b] = IF b > pos THEN c ELSE file[b]
  BY <1>1, <1>2, <1>3
<1>7. pos + n \in 0 .. Len(w)
  BY <1>1, <1>2, <1>5
<1> QED BY <1>5, <1>6, <1>7 DEF w

\* What a read adds to the count of each command.
LEMMA CopiedAfter ==
  ASSUME ExecTypeOK, NEW c \in Commands, NEW n \in Nat, NEW e,
         file' = Written(c, n), pos' = pos + n
  PROVE  /\ Copied(e) \in Nat
         /\ Copied(e)' = IF e = c THEN Copied(e) + n ELSE Copied(e)
<1> DEFINE Old == {b \in 1 .. pos : file[b] = e}
           New == {b \in pos + 1 .. pos + n : e = c}
           All == {b \in 1 .. pos + n : file'[b] = e}
<1>1. pos \in Nat
  BY DEF ExecTypeOK
<1>2. \A b \in 1 .. pos + n : file'[b] = IF b > pos THEN c ELSE file[b]
  BY WrittenProperties
<1>3. All = Old \cup New
  <2>1. \A b \in 1 .. pos + n : b \in All <=> b \in Old \/ b \in New
    BY <1>1, <1>2
  <2> QED BY <1>1, <2>1
<1>4. IsFiniteSet(Old) /\ Cardinality(Old) \in Nat
  <2>1. Old \subseteq 1 .. pos
    OBVIOUS
  <2> HIDE DEF Old
  <2> QED BY <1>1, <2>1, Countable
<1>5. IsFiniteSet(New) /\ Cardinality(New) = IF e = c THEN n ELSE 0
  <2>1. CASE e = c
    <3>1. New = pos + 1 .. pos + n
      BY <2>1
    <3> DEFINE i == pos + 1  j == pos + n
    <3>2. i \in Int /\ j \in Int /\ (IF i > j THEN 0 ELSE j - i + 1) = n
      BY <1>1
    <3> HIDE DEF i, j
    <3>3. IsFiniteSet(i .. j) /\ Cardinality(i .. j) = IF i > j THEN 0 ELSE j - i + 1
      BY <3>2, FS_Interval
    <3>4. New = i .. j
      BY <3>1 DEF i, j
    <3> HIDE DEF New
    <3> QED BY <2>1, <3>2, <3>3, <3>4
  <2>2. CASE e # c
    <3>1. New = {}
      BY <2>2
    <3> QED BY <2>2, <3>1, FS_EmptySet
  <2> QED BY <2>1, <2>2
<1>6. Old \cap New = {}
  BY <1>1
<1>7. Copied(e) = Cardinality(Old) /\ Copied(e)' = Cardinality(All)
  BY DEF Copied
<1> HIDE DEF Old, New, All
<1>8. Cardinality(All) = Cardinality(Old) + Cardinality(New)
  <2>1. Cardinality(Old \cup New) = Cardinality(Old) + Cardinality(New) - Cardinality({})
    BY <1>4, <1>5, <1>6, FS_Union
  <2> QED BY <1>3, <1>4, <1>5, <2>1, FS_EmptySet
<1> QED BY <1>4, <1>5, <1>7, <1>8

LEMMA EInvRead == EInv /\ Read => EInv'
<1> SUFFICES ASSUME EInv, Read
             PROVE  EInv'
  OBVIOUS
<1>1. PICK n : n = IF pipe[cmd] > BLOCK THEN BLOCK ELSE pipe[cmd]
  OBVIOUS
<1>2. /\ pc = "read" /\ pipe[cmd] > 0
      /\ pipe' = [pipe EXCEPT ![cmd] = pipe[cmd] - n]
      /\ file' = Written(cmd, n) /\ pos' = pos + n
      /\ status' = StatusAfter(cmd, n)
      /\ cut' = IF child[cmd] = "running" THEN cut \cup {cmd} ELSE cut \ {cmd}
      /\ UNCHANGED <<program, child, left>>
  BY <1>1 DEF Read
<1>3. \/ n >= BLOCK /\ pc' = pc /\ cmd' = cmd
      \/ n < BLOCK /\ cmd < ncmd /\ cmd' = cmd + 1 /\ pc' = pc
      \/ n < BLOCK /\ ~ (cmd < ncmd) /\ cmd' = cmd /\ pc' = "over"
  <2>1. n \in Nat
    BY <1>1, Numbers DEF EInv, ExecTypeOK
  <2> QED BY <1>1, <2>1, Numbers DEF Read, ReadAgain, MoreCmds
<1>4. /\ ExecTypeOK /\ cmd \in Commands /\ cmd \in 1 .. ncmd /\ pos \in Nat
      /\ pipe \in [Commands -> 0 .. PIPE_SIZE] /\ pipe[cmd] \in Nat
      /\ n \in Nat /\ 0 < n /\ n <= pipe[cmd] /\ (n < BLOCK => n = pipe[cmd])
  <2>1. ExecTypeOK /\ cmd \in Commands /\ pipe \in [Commands -> 0 .. PIPE_SIZE] /\ pos \in Nat
    BY DEF EInv, ExecTypeOK
  <2>2. pipe[cmd] \in Nat
    BY <2>1, Numbers
  <2> QED BY <1>1, <1>2, <2>1, <2>2, Numbers DEF Commands
<1>5. /\ file' \in Seq({0} \cup Commands) /\ pos' \in 0 .. Len(file')
      /\ \A b \in 1 .. pos' : file'[b] = IF b > pos THEN cmd ELSE file[b]
  BY <1>2, <1>4, WrittenProperties
<1>6. /\ pipe'[cmd] = pipe[cmd] - n
      /\ \A c \in Commands \ {cmd} : pipe'[c] = pipe[c]
  BY <1>2, <1>4
<1>7. ExecTypeOK'
  <2>1. pipe' \in [Commands -> 0 .. PIPE_SIZE]
    BY <1>2, <1>4, Numbers
  <2>2. status' \in {0, -1}
    BY <1>2 DEF StatusAfter, EInv, ExecTypeOK
  <2>3. cmd' \in Commands /\ pc' \in {"fork", "wait", "read", "over"}
    BY <1>2, <1>3, <1>4, Numbers DEF Commands
  <2>4. cut' \subseteq Commands
    BY <1>2, <1>4 DEF ExecTypeOK
  <2> QED BY <1>2, <1>4, <1>5, <2>1, <2>2, <2>3, <2>4 DEF ExecTypeOK
<1>8. Children'
  BY <1>2 DEF EInv, Children
<1>9. program[cmd] = NotFound => n = MESSAGE
  BY <1>1, <1>2, <1>4, Numbers DEF EInv, Messages
<1>10. Messages'
  BY <1>2, <1>4, <1>6, <1>9, Numbers DEF EInv, Messages
<1>11. \A b \in 1 .. pos' : file'[b] \in 1 .. cmd
  <2>1. \A b \in 1 .. pos : file[b] \in 1 .. cmd
    BY <1>2 DEF EInv, Origins
  <2>2. \A b \in 1 .. pos' : b > pos \/ b \in 1 .. pos
    BY <1>2, <1>4
  <2>3. cmd \in 1 .. cmd
    BY <1>4
  <2> QED BY <1>5, <2>1, <2>2, <2>3
<1>12. Origins'
  BY <1>2, <1>3, <1>4, <1>11 DEF Origins
<1>13. ASSUME NEW c \in Commands, Passed(c)'
       PROVE  Passed(c) \/ (c = cmd /\ n < BLOCK)
  <2>1. c \in 1 .. ncmd
    BY DEF Commands
  <2>2. pc' = "over" => n < BLOCK /\ cmd = ncmd
    BY <1>2, <1>3, <1>4, Numbers
  <2>3. pc' # "over" => c < cmd'
    BY <1>13 DEF Passed
  <2>4. c < cmd \/ (c = cmd /\ n < BLOCK)
    BY <1>3, <1>4, <2>1, <2>2, <2>3, Numbers
  <2> QED BY <1>2, <2>4 DEF Passed
<1>14. ~ Passed(cmd)
  BY <1>2, <1>4 DEF Passed
<1>15. Whole'
  <2> SUFFICES ASSUME NEW c \in Commands, Passed(c)', c \notin cut'
               PROVE  pipe'[c] = 0 /\ left'[c] = 0
    BY DEF Whole
  <2>1. CASE c = cmd
    <3>1. n = pipe[cmd]
      BY <1>4, <1>13, <1>14, <2>1
    <3>2. child[cmd] = "exited"
      BY <1>2, <1>4, <2>1 DEF EInv, ExecTypeOK, Children
    <3> QED BY <1>2, <1>4, <1>6, <2>1, <3>1, <3>2 DEF EInv, Children
  <2>2. CASE c # cmd
    <3>1. Passed(c) /\ c \notin cut
      BY <1>2, <1>13, <2>2
    <3> QED BY <1>2, <1>6, <2>2, <3>1 DEF EInv, Whole
  <2> QED BY <2>1, <2>2
<1>16. OutputInOrder'
  <2>1. ASSUME NEW a \in 1 .. pos', NEW b \in 1 .. pos', a < b
        PROVE  file'[a] <= file'[b]
    <3>1. CASE b > pos
      BY <1>4, <1>5, <1>11, <3>1
    <3>2. CASE b <= pos
      <4>1. a \in 1 .. pos /\ b \in 1 .. pos
        BY <1>2, <1>4, <2>1, <3>2
      <4> QED BY <1>4, <1>5, <2>1, <4>1 DEF EInv, OutputInOrder
    <3> QED BY <1>4, <3>1, <3>2
  <2>2. ASSUME NEW c \in Commands
        PROVE  Copied(c)' + pipe'[c] + left'[c] = Size(c)'
    <3>1. Copied(c) \in Nat /\ Copied(c)' = IF c = cmd THEN Copied(c) + n ELSE Copied(c)
      BY <1>2, <1>4, CopiedAfter
    <3>2. Copied(c) + pipe[c] + left[c] = Size(c)
      BY DEF EInv, OutputInOrder
    <3>3. pipe[c] \in Nat /\ left[c] \in Nat /\ left'[c] = left[c] /\ Size(c)' = Size(c)
      BY <1>2, <1>4, Numbers DEF ExecTypeOK, Size
    <3> QED BY <1>4, <1>6, <3>1, <3>2, <3>3
  <2> QED BY <2>1, <2>2 DEF OutputInOrder
<1> PICK me \in Commands : me = cmd
  BY <1>4
<1>17. \A c \in Commands \ {me} : Passed(c)' <=> Passed(c)
  <2> SUFFICES ASSUME NEW c \in Commands, c # me
               PROVE  Passed(c)' <=> Passed(c)
    OBVIOUS
  <2>1. c \in 1 .. ncmd /\ (Passed(c) <=> c < cmd)
    BY <1>2 DEF Commands, Passed
  <2>2. CASE pc' = pc /\ cmd' = cmd
    BY <2>2 DEF Passed
  <2>3. CASE pc' = pc /\ cmd' = cmd + 1
    BY <1>2, <1>4, <2>1, <2>3 DEF Passed
  <2>4. CASE pc' = "over" /\ ~ (cmd < ncmd)
    <3>1. c < cmd
      BY <1>4, <2>1, <2>4, Numbers
    <3> QED BY <2>1, <2>4, <3>1 DEF Passed
  <2> QED BY <1>3, <2>2, <2>3, <2>4
<1>18. Passed(me)' <=> n < BLOCK
  BY <1>2, <1>3, <1>4, Numbers DEF Passed
<1>19. PICK j \in Nat : Copied(me) = j * BLOCK
  BY <1>4, <1>14 DEF EInv, WholeBlocks
<1>20. \A c \in Commands : Copied(c)' = IF c = me THEN Copied(c) + n ELSE Copied(c)
  BY <1>2, <1>4, CopiedAfter
<1>21. Taken(me) = Copied(me) /\ Copied(me) \in Nat
  <2>1. Copied(me) + pipe[cmd] + left[cmd] = Size(me)
    BY <1>4 DEF EInv, OutputInOrder
  <2>2. Copied(me) \in Nat /\ left[cmd] \in Nat
    BY <1>4, CopiedIsNat DEF ExecTypeOK
  <2> QED BY <1>4, <2>1, <2>2 DEF Taken
<1>22. WholeBlocks'
  <2> SUFFICES ASSUME NEW c \in Commands, ~ Passed(c)'
               PROVE  \E k \in Nat : Copied(c)' = k * BLOCK
    BY DEF WholeBlocks
  <2>1. CASE c = me
    <3>1. n = BLOCK
      BY <1>1, <1>4, <1>18, <2>1, Numbers
    <3>2. (j + 1) * BLOCK = j * BLOCK + BLOCK /\ j + 1 \in Nat
      BY Numbers
    <3> QED BY <1>19, <1>20, <2>1, <3>1, <3>2
  <2>2. CASE c # me
    BY <1>17, <1>20, <2>2 DEF EInv, WholeBlocks
  <2> QED BY <2>1, <2>2
<1>23. status' = -1 <=> status = -1 \/ IsMessage(me, n)
  BY <1>2 DEF StatusAfter, EInv, ExecTypeOK
<1>24. StatusTells'
  <2>1. program[cmd] = NotFound => Taken(me) \in Says(me)
    <3> SUFFICES ASSUME program[cmd] = NotFound
                 PROVE  Taken(me) = 0 /\ Says(me) = {0}
      OBVIOUS
    <3>1. Size(me) = MESSAGE /\ Says(me) = {0}
      BY <1>4, Outputs
    <3>2. left[cmd] = 0 /\ pipe[cmd] = MESSAGE
      BY <1>2, <1>4, Numbers DEF EInv, Messages
    <3> QED BY <3>1, <3>2, Numbers DEF Taken
  <2>2. program[cmd] = NotFound => status' = -1
    BY <1>9, <1>23, <2>1 DEF IsMessage
  <2> SUFFICES ASSUME NEW c \in Commands, Passed(c)', program[c] = NotFound
               PROVE  status' = -1
    BY <1>2 DEF StatusTells
  <2> QED BY <1>13, <1>23, <2>2 DEF EInv, StatusRight, StatusTells
<1>25. n < BLOCK => (IsMessage(me, n) <=> EndsWithMessage(me)')
  <2> SUFFICES ASSUME n < BLOCK
               PROVE  IsMessage(me, n) <=> EndsWithMessage(me)'
    OBVIOUS
  <2>1. /\ Copied(me)' = j * BLOCK + n /\ Taken(me) = j * BLOCK /\ j * BLOCK \in Nat
    BY <1>4, <1>19, <1>20, <1>21
  <2>2. Says(me) \subseteq Nat
    BY <1>4, Outputs
  <2>3. EndsWithMessage(me)' <=>
          \E o \in Says(me) : j * BLOCK + n = o + MESSAGE /\ \E k \in 0 .. o : o = k * BLOCK
    BY <1>2, <2>1 DEF EndsWithMessage, Says
  <2>4. ASSUME IsMessage(me, n)
        PROVE  EndsWithMessage(me)'
    <3>1. n = MESSAGE /\ j * BLOCK \in Says(me)
      BY <2>1, <2>4 DEF IsMessage
    <3>2. j \in 0 .. j * BLOCK
      BY Numbers, FewerBlocks
    <3> QED BY <2>3, <3>1, <3>2
  <2>5. ASSUME EndsWithMessage(me)'
        PROVE  IsMessage(me, n)
    <3>1. PICK o \in Says(me) : j * BLOCK + n = o + MESSAGE /\ \E k \in 0 .. o : o = k * BLOCK
      BY <2>3, <2>5
    <3>2. PICK k \in Nat : o = k * BLOCK
      BY <2>2, <3>1
    <3>3. k * BLOCK + MESSAGE = j * BLOCK + n
      BY <3>1, <3>2
    <3>4. k * BLOCK = j * BLOCK /\ MESSAGE = n
      BY <1>4, <3>3, Numbers, BlocksAndRest
    <3> QED BY <2>1, <3>1, <3>2, <3>4 DEF IsMessage
  <2> QED BY <2>4, <2>5
<1>26. StatusRight'
  <2>1. \A c \in Commands \ {me} : EndsWithMessage(c)' <=> EndsWithMessage(c)
    BY <1>2, <1>20 DEF EndsWithMessage, Says
  <2>2. IsMessage(me, n) => n < BLOCK
    BY Numbers DEF IsMessage
  <2>3. IsMessage(me, n) <=> Passed(me)' /\ EndsWithMessage(me)'
    BY <1>18, <1>25, <2>2
  <2>4. status = -1 <=> \E c \in Commands : Passed(c) /\ EndsWithMessage(c)
    BY DEF EInv, StatusRight
  <2>5. status = -1 <=> \E c \in Commands \ {me} : Passed(c)' /\ EndsWithMessage(c)'
    BY <1>14, <1>17, <2>1, <2>4
  <2>6. status' = -1 <=> \E c \in Commands : Passed(c)' /\ EndsWithMessage(c)'
    BY <1>4, <1>23, <2>3, <2>5
  <2> QED BY <1>24, <2>6 DEF StatusRight
<1> QED BY <1>7, <1>8, <1>10, <1>12, <1>15, <1>16, <1>22, <1>26 DEF EInv

LEMMA EInvNext == EInv /\ [ExecNext]_execVars => EInv'
<1> SUFFICES ASSUME EInv, [ExecNext]_execVars
             PROVE  EInv'
  OBVIOUS
<1>1. CASE UNCHANGED execVars
  <2>1. UNCHANGED <<program, pc, cmd, child, left, pipe, file, pos, status, cut>>
    BY <1>1 DEF execVars
  <2>2. ExecTypeOK' /\ Children' /\ Messages' /\ Origins'
    BY <2>1 DEF EInv, ExecTypeOK, Children, Messages, Origins
  <2>3. Whole' /\ StatusRight' /\ WholeBlocks'
    BY <2>1, NothingCopied DEF EInv, Whole, Passed
  <2>4. OutputInOrder'
    BY <2>1 DEF EInv, OutputInOrder, Copied, Size
  <2> QED BY <2>2, <2>3, <2>4 DEF EInv
<1> QED BY <1>1, EInvFork, EInvWait, EInvRead, EInvWrite, EInvExit DEF ExecNext, Parent, Child

LEMMA EInvAlways == ExecSpec => []EInv
BY EInvInit, EInvNext, PTL DEF ExecSpec

\* executeInParallel.c: the types; no pipe holds more than its capacity, and the
\* offset stays inside outfile.
THEOREM ExecTypes == ExecSpec => []ExecTypeOK
<1>1. EInv => ExecTypeOK
  BY DEF EInv
<1> QED BY <1>1, EInvAlways, PTL

\* executeInParallel.c:100-124: outfile has the outputs in the order of infile, and
\* no byte of an output is lost or there twice.
THEOREM OrderKept == ExecSpec => []OutputInOrder
<1>1. EInv => OutputInOrder
  BY DEF EInv
<1> QED BY <1>1, EInvAlways, PTL

\* executeInParallel.c:109-120: an output that is cut off is one whose command was
\* still running when the last read of its pipe returned.
THEOREM CutOnlyWhileRunning == ExecSpec => []OnlyRunningAreCut
<1>1. EInv => OnlyRunningAreCut
  <2> SUFFICES ASSUME EInv, NEW c \in Commands, Passed(c), c \notin cut
               PROVE  Copied(c) = Size(c)
    BY DEF OnlyRunningAreCut
  <2>1. pipe[c] = 0 /\ left[c] = 0
    BY DEF EInv, Whole
  <2>2. Copied(c) + pipe[c] + left[c] = Size(c)
    BY DEF EInv, OutputInOrder
  <2>3. Copied(c) \in Nat
    BY CopiedIsNat DEF EInv
  <2> QED BY <2>1, <2>2, <2>3
<1> QED BY <1>1, EInvAlways, PTL

\* executeInParallel.c:115: -1 is returned for a command that was not found, and else
\* just when what was copied of some output ends with the message, at the beginning
\* of a block.
THEOREM StatusCorrect == ExecSpec => []StatusRight
<1>1. EInv => StatusRight
  BY DEF EInv
<1> QED BY <1>1, EInvAlways, PTL

----------------------------------------------------------------------------
\* The search along the path.
Ends == Codes \cup {KILLED}

CommandTypes ==
    /\ present \subseteq Dirs /\ token \in 1 .. ndirs + 1
    /\ step \in {"fork", "wait", "over"}
    /\ process \in {"none", "forked", "runs", "exit -1", "ended"}
    /\ ran \in Seq(present \X Ends)
    /\ result \in {0, -1}

\* The child belongs to the directory of this round; there is one just while the
\* parent waits.
Round ==
    /\ step = "wait" <=> process # "none"
    /\ step = "wait" => token \in Dirs
    /\ process \in {"runs", "ended"} => token \in present
    /\ process = "exit -1" => token \notin present
    /\ result # 0 => step = "over"

\* The runs, in the order of the path, all but the last without success.
Runs ==
    /\ \A r \in 1 .. Len(ran) - 1 : ran[r][1] < ran[r + 1][1] /\ ~ Succeeded(ran[r])
    /\ step # "over" /\ process # "ended" =>
          \A r \in 1 .. Len(ran) : ran[r][1] < token /\ ~ Succeeded(ran[r])
    /\ process = "ended" =>
          /\ Len(ran) > 0 /\ ran[Len(ran)][1] = token
          /\ \A r \in 1 .. Len(ran) : ran[r][1] <= token

\* No directory that was passed has been left out.
Covered ==
    \A d \in present : d < token \/ (process = "ended" /\ d = token) =>
        \E r \in 1 .. Len(ran) : ran[r][1] = d

Outcome ==
    step = "over" =>
        IF result = 0 THEN Len(ran) > 0 /\ Succeeded(ran[Len(ran)])
        ELSE token > ndirs /\ \A r \in 1 .. Len(ran) : ~ Succeeded(ran[r])

KInv == CommandTypes /\ Round /\ Runs /\ Covered /\ Outcome

LEMMA KInvInit == CommandInit => KInv
<1> SUFFICES ASSUME CommandInit
             PROVE  KInv
  OBVIOUS
<1>1. ran = <<>> /\ Len(ran) = 0 /\ ran \in Seq(present \X Ends)
  BY DEF CommandInit
<1>2. CommandTypes
  BY <1>1, CodesAreBytes DEF CommandInit, CommandTypes
<1>3. Round /\ Outcome
  BY DEF CommandInit, Round, Outcome
<1>4. Runs /\ Covered
  BY <1>1 DEF CommandInit, Runs, Covered, Dirs
<1> QED BY <1>2, <1>3, <1>4 DEF KInv

LEMMA KInvForkChild == KInv /\ ForkChild => KInv'
<1> SUFFICES ASSUME KInv, ForkChild
             PROVE  KInv'
  OBVIOUS
<1>1. /\ step = "fork" /\ token <= ndirs /\ process' = "forked" /\ step' = "wait"
      /\ UNCHANGED <<present, token, ran, result>>
  BY DEF ForkChild
<1>2. token \in Dirs
  <2>1. token \in 1 .. ndirs + 1 /\ ndirs \in Nat
    BY CodesAreBytes DEF KInv, CommandTypes
  <2>2. token <= ndirs
    BY <1>1
  <2> QED BY <2>1, <2>2 DEF Dirs
<1>3. CommandTypes' /\ Outcome'
  BY <1>1 DEF KInv, CommandTypes, Outcome
<1>4. Round'
  BY <1>1, <1>2 DEF KInv, Round
<1>5. Runs' /\ Covered'
  BY <1>1 DEF KInv, Runs, Covered, Round
<1> QED BY <1>3, <1>4, <1>5 DEF KInv

LEMMA KInvExecv == KInv /\ Execv => KInv'
<1> SUFFICES ASSUME KInv, Execv
             PROVE  KInv'
  OBVIOUS
<1>1. /\ process = "forked"
      /\ process' = IF token \in present THEN "runs" ELSE "exit -1"
      /\ UNCHANGED <<present, token, step, ran, result>>
  BY DEF Execv
<1>2. process' \in {"runs", "exit -1"}
  BY <1>1
<1>3. CommandTypes' /\ Outcome'
  BY <1>1, <1>2 DEF KInv, CommandTypes, Outcome
<1>4. Round'
  BY <1>1 DEF KInv, Round
<1>5. Runs' /\ Covered'
  BY <1>1, <1>2 DEF KInv, Runs, Covered
<1> QED BY <1>3, <1>4, <1>5 DEF KInv

LEMMA KInvEnd == KInv /\ EndProgram => KInv'
<1> SUFFICES ASSUME KInv, EndProgram
             PROVE  KInv'
  OBVIOUS
<1>1. PICK end \in Ends : ran' = Append(ran, <<token, end>>)
  BY DEF EndProgram, Ends
<1>2. /\ process = "runs" /\ process' = "ended"
      /\ UNCHANGED <<present, token, step, result>>
  BY DEF EndProgram
<1> DEFINE n == Len(ran)
           u == ran'
<1>3. /\ step = "wait" /\ token \in present /\ ran \in Seq(present \X Ends)
      /\ token \in 1 .. ndirs + 1 /\ n \in Nat /\ present \subseteq Dirs
      /\ \A r \in 1 .. n : ran[r][1] \in Dirs
  <2>1. /\ step = "wait" /\ token \in present /\ ran \in Seq(present \X Ends)
        /\ token \in 1 .. ndirs + 1 /\ present \subseteq Dirs
    BY <1>2 DEF KInv, Round, CommandTypes
  <2>2. ASSUME NEW r \in 1 .. n
        PROVE  ran[r][1] \in Dirs
    <3>1. ran[r] \in present \X Ends
      BY <2>1, ElementOfSeq
    <3> QED BY <2>1, <3>1
  <2> QED BY <2>1, <2>2
<1>4. /\ u \in Seq(present \X Ends) /\ Len(u) = n + 1
      /\ u[n + 1] = <<token, end>> /\ \A r \in 1 .. n : u[r] = ran[r]
  BY <1>1, <1>3
<1>5. \A r \in 1 .. n : ran[r][1] < token /\ ~ Succeeded(ran[r])
  BY <1>2, <1>3 DEF KInv, Runs
<1> HIDE DEF n, u
<1>6. CommandTypes'
  BY <1>2, <1>4 DEF KInv, CommandTypes, u
<1>7. Round' /\ Outcome'
  BY <1>2, <1>3 DEF KInv, Round, Outcome
<1>8. Runs'
  <2>1. ASSUME NEW r \in 1 .. n
        PROVE  u[r][1] < u[r + 1][1] /\ ~ Succeeded(u[r])
    <3>1. CASE r = n
      <4>1. u[r + 1][1] = token
        BY <1>4, <3>1
      <4> QED BY <1>4, <1>5, <4>1
    <3>2. CASE r # n
      <4>1. r + 1 \in 1 .. n /\ r \in 1 .. Len(ran) - 1
        BY <1>3, <3>2 DEF n
      <4>2. ran[r][1] < ran[r + 1][1]
        BY <4>1 DEF KInv, Runs
      <4> QED BY <1>4, <1>5, <4>1, <4>2
    <3> QED BY <3>1, <3>2
  <2>2. \A r \in 1 .. n + 1 : u[r][1] <= token
    <3> SUFFICES ASSUME NEW r \in 1 .. n + 1
                 PROVE  u[r][1] <= token
      OBVIOUS
    <3>1. CASE r = n + 1
      BY <1>3, <1>4, <3>1
    <3>2. CASE r \in 1 .. n
      <4>1. ran[r][1] \in Nat
        BY <1>3, <3>2 DEF Dirs
      <4> QED BY <1>3, <1>4, <1>5, <3>2, <4>1
    <3> QED BY <1>3, <3>1, <3>2
  <2>3. Len(u) > 0 /\ u[Len(u)][1] = token /\ Len(u) - 1 = n
    BY <1>3, <1>4
  <2> QED BY <1>2, <1>4, <2>1, <2>2, <2>3 DEF Runs, u
<1>9. Covered'
  <2> SUFFICES ASSUME NEW d \in present, d < token \/ d = token
               PROVE  \E r \in 1 .. n + 1 : u[r][1] = d
    BY <1>2, <1>4 DEF Covered, u
  <2>1. CASE d = token
    BY <1>3, <1>4, <2>1
  <2>2. CASE d < token
    <3>1. PICK r \in 1 .. n : ran[r][1] = d
      BY <2>2 DEF KInv, Covered, n
    <3> QED BY <1>3, <1>4, <3>1
  <2> QED BY <2>1, <2>2
<1> QED BY <1>6, <1>7, <1>8, <1>9 DEF KInv

LEMMA KInvWaitChild == KInv /\ WaitChild => KInv'
<1> SUFFICES ASSUME KInv, WaitChild
             PROVE  KInv'
  OBVIOUS
<1>1. /\ step = "wait" /\ process \in {"exit -1", "ended"} /\ process' = "none"
      /\ UNCHANGED <<present, ran, result>>
      /\ \/ ChildStatus = 0 /\ step' = "over" /\ token' = token
         \/ ChildStatus # 0 /\ step' = "fork" /\ token' = token + 1
  BY DEF WaitChild
<1>2. /\ token \in Dirs /\ token \in 1 .. ndirs /\ result = 0 /\ present \subseteq Dirs
      /\ Len(ran) \in Nat
  <2>1. token \in Dirs
    BY <1>1 DEF KInv, Round
  <2>2. result \in {0, -1} /\ present \subseteq Dirs /\ ran \in Seq(present \X Ends)
    BY DEF KInv, CommandTypes
  <2>3. result = 0
    BY <1>1 DEF KInv, Round
  <2> QED BY <2>1, <2>2, <2>3 DEF Dirs
<1>3. ChildStatus = 0 <=> process = "ended" /\ Succeeded(ran[Len(ran)])
  <2>1. CASE process = "exit -1"
    <3>1. ChildStatus = 255
      BY <2>1 DEF ChildStatus
    <3>2. ChildStatus # 0
      BY <3>1, 255 # 0
    <3>3. process # "ended"
      BY <2>1
    <3> QED BY <3>2, <3>3
  <2>2. CASE process = "ended"
    <3>1. ChildStatus = WEXITSTATUS(ran[Len(ran)][2])
      BY <2>2 DEF ChildStatus
    <3> QED BY <2>2, <3>1 DEF WEXITSTATUS, Succeeded
  <2> QED BY <1>1, <2>1, <2>2
<1>4. CommandTypes'
  <2>1. token' \in 1 .. ndirs + 1
    <3>1. token' = token \/ token' = token + 1
      BY <1>1
    <3> QED BY <1>2, <3>1, CodesAreBytes
  <2>2. step' \in {"over", "fork"}
    BY <1>1
  <2> QED BY <1>1, <2>1, <2>2 DEF KInv, CommandTypes
<1>5. Round'
  BY <1>1, <1>2 DEF Round
<1>6. process = "ended" => Len(ran) > 0
  BY DEF KInv, Runs
<1>7. Outcome'
  BY <1>1, <1>2, <1>3, <1>6 DEF Outcome
<1>8. ASSUME NEW r \in 1 .. Len(ran)
      PROVE  ran[r][1] \in Nat /\ ran[r][1] <= token
  <2>1. ran[r] \in present \X Ends
    BY ElementOfSeq DEF KInv, CommandTypes
  <2>2. ran[r][1] \in Nat
    BY <1>2, <2>1 DEF Dirs
  <2>3. ran[r][1] < token \/ ran[r][1] <= token
    <3>1. CASE process = "exit -1"
      BY <1>1, <3>1 DEF KInv, Runs
    <3>2. CASE process = "ended"
      BY <3>2 DEF KInv, Runs
    <3> QED BY <1>1, <3>1, <3>2
  <2>4. token \in Nat
    BY <1>2
  <2> QED BY <2>2, <2>3, <2>4
<1>9. ASSUME step' # "over", NEW r \in 1 .. Len(ran)
      PROVE  ~ Succeeded(ran[r])
  <2>1. CASE process = "exit -1"
    BY <1>1, <2>1 DEF KInv, Runs
  <2>2. CASE process = "ended"
    <3>1. ~ Succeeded(ran[Len(ran)])
      BY <1>1, <1>3, <1>9, <2>2
    <3>2. r = Len(ran) \/ r \in 1 .. Len(ran) - 1
      BY <1>2
    <3> QED BY <3>1, <3>2 DEF KInv, Runs
  <2> QED BY <1>1, <2>1, <2>2
<1>10. Runs'
  <2>1. \A r \in 1 .. Len(ran) - 1 : ran[r][1] < ran[r + 1][1] /\ ~ Succeeded(ran[r])
    BY DEF KInv, Runs
  <2>2. step' # "over" => \A r \in 1 .. Len(ran) : ran[r][1] < token' /\ ~ Succeeded(ran[r])
    <3> SUFFICES ASSUME step' # "over", NEW r \in 1 .. Len(ran)
                 PROVE  ran[r][1] < token' /\ ~ Succeeded(ran[r])
      OBVIOUS
    <3>1. token' = token + 1
      BY <1>1
    <3>2. ran[r][1] \in Nat /\ ran[r][1] <= token /\ token \in Nat
      BY <1>2, <1>8
    <3>3. ~ Succeeded(ran[r])
      BY <1>9
    <3> QED BY <3>1, <3>2, <3>3
  <2> QED BY <1>1, <2>1, <2>2 DEF Runs
<1>11. Covered'
  <2> SUFFICES ASSUME NEW d \in present, d < token'
               PROVE  \E r \in 1 .. Len(ran) : ran[r][1] = d
    BY <1>1 DEF Covered
  <2>1. d \in Nat
    BY <1>2 DEF Dirs
  <2>2. d < token \/ d = token
    <3>1. token' = token \/ token' = token + 1
      BY <1>1
    <3>2. token \in Nat
      BY <1>2
    <3> QED BY <2>1, <3>1, <3>2
  <2>3. d = token => process = "ended"
    BY <1>1 DEF KInv, Round
  <2> QED BY <2>2, <2>3 DEF KInv, Covered
<1> QED BY <1>4, <1>5, <1>7, <1>10, <1>11 DEF KInv

LEMMA KInvGiveUp == KInv /\ GiveUp => KInv'
<1> SUFFICES ASSUME KInv, GiveUp
             PROVE  KInv'
  OBVIOUS
<1>1. /\ step = "fork" /\ token > ndirs /\ step' = "over" /\ result' = -1
      /\ UNCHANGED <<present, token, process, ran>>
  BY DEF GiveUp
<1>2. process = "none"
  BY <1>1 DEF KInv, Round
<1>3. CommandTypes'
  BY <1>1 DEF KInv, CommandTypes
<1>4. Round'
  BY <1>1, <1>2 DEF KInv, Round
<1>5. Runs' /\ Covered'
  BY <1>1, <1>2 DEF KInv, Runs, Covered
<1>6. Outcome'
  BY <1>1, <1>2 DEF KInv, Runs, Outcome
<1> QED BY <1>3, <1>4, <1>5, <1>6 DEF KInv

LEMMA KInvNext == KInv /\ [CommandNext]_commandVars => KInv'
<1> SUFFICES ASSUME KInv, [CommandNext]_commandVars
             PROVE  KInv'
  OBVIOUS
<1>1. CASE UNCHANGED commandVars
  BY <1>1 DEF commandVars, KInv, CommandTypes, Round, Runs, Covered, Outcome
<1> QED BY <1>1, KInvForkChild, KInvExecv, KInvEnd, KInvWaitChild, KInvGiveUp DEF CommandNext

\* executeCommand.c:24-48: the directories are tried in the order of the path until
\* one run succeeds, and -1 means that all were tried in vain.
THEOREM SearchCorrect == CommandSpec => []RunsUntilSuccess
<1>1. KInv => RunsUntilSuccess
  <2> SUFFICES ASSUME KInv
               PROVE  RunsUntilSuccess
    OBVIOUS
  <2>1. ASSUME NEW r \in 1 .. Len(ran)
        PROVE  ran[r][1] \in present
    <3>1. ran[r] \in present \X Ends
      BY ElementOfSeq DEF KInv, CommandTypes
    <3> QED BY <3>1
  <2>2. ASSUME step = "over", result # 0, NEW d \in present
        PROVE  \E r \in 1 .. Len(ran) : ran[r][1] = d
    <3>1. d < token
      <4>1. token > ndirs /\ present \subseteq Dirs /\ token \in 1 .. ndirs + 1
        BY <2>2 DEF KInv, Outcome, CommandTypes
      <4>2. d \in 1 .. ndirs
        BY <4>1 DEF Dirs
      <4> QED BY <4>1, <4>2, CodesAreBytes
    <3> QED BY <3>1 DEF KInv, Covered
  <2> QED BY <2>1, <2>2 DEF RunsUntilSuccess, KInv, Runs, Outcome
<1> QED BY <1>1, KInvInit, KInvNext, PTL DEF CommandSpec
=============================================================================
