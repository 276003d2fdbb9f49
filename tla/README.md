# A TLA+ development for CS330_Assignments

The repository holds the assignments of an operating systems course: four
programs around `fork`, `exec` and pipes (Assignment 1), file objects, a flat
file system and message queues inside the teaching kernel gemOS (Assignment 2),
and a breakpoint debugger inside gemOS (Assignments 3 and 4; the file
`Assignment3/mmap.c` is, in spite of its name, the same text as
`Assignment4/debug.c`). The kernel core (scheduler, context switch, memory,
interrupt entry) is present as object files only.

This directory models the parts in which several processes meet in shared
state: the **message queues**, the **file objects** over the flat file system,
the **debugger**, and the four programs of Assignment 1, in which processes meet
in pipes.

## 1. Inventory

### Message queues (`Assignment2/msg_queue.c`, 326 lines; `include/msg_queue.h`)

- *State*: per queue the member list (`member_pid`, `member_count`), the table
  `block_process[MAX_MEMBERS][MAX_MEMBERS]` whose row *i* belongs to the member
  in place *i*, and one array of pending messages for all receivers; per
  process the descriptor table `files[16]`, whose entries point to the queue.
- *Operations*: create, send (to one member or, with `to_pid = BROADCAST_PID`,
  to all), receive, block a sender, close, and two queries. Two handlers are
  called by others: `do_add_child_to_msg_queue` by `do_fork`,
  `do_msg_queue_cleanup` by `do_exit`.
- *Interaction*: `entry.c` checks that the descriptor is a queue and calls the
  handler; a child inherits descriptors and memberships.
- *Hard*: departures shift the member list and the rows of the block table;
  pids are given out again while queues live on; three structures (descriptor
  tables, member lists, block table) have to agree after any sequence of calls
  of several processes; the tests in the repository run one short straight-line
  scenario each.
- *Correct when*: members are exactly the holders of descriptors, rows follow
  their owners, nothing of a departed process remains, each receiver gets its
  messages in order, blocking affects the pair it was asked for and no other.

### System call handlers (`Assignment2/entry.c`)

The dispatcher of gemOS: `do_fork`, `do_exit`, wrappers of the calls of files
and queues, and calls into code that is present as object files only (sleep,
vfork, mmap, signals). `do_fork` copies the whole context, the descriptor table
included; `do_exit` leaves queues, then drops file references, then frees the
pid.

### File objects (`Assignment2/file.c`) and flat file system (`fs.c`)

- *State*: file objects with mode, offset and `ref_count`; inodes with size and
  data; the descriptor tables.
- *Operations*: open, close, read, write, lseek, dup2, sendfile, exit.
- *Hard*: reference counts that `do_fork` does not maintain, `dup2` of a
  descriptor onto itself, offsets that take up an error code, `sendfile` that
  fails half way.
- *Correct when*: a file object lives exactly as long as a descriptor names it,
  and an offset stays between 0 and the size of the file.

### Breakpoint debugger (`Assignment4/debug.c`, `debug.h`)

- *State*: per debugger a list of breakpoints with a size and a counter, and
  the backtrace of the last stop; one byte at the beginning of each function,
  in code pages that parent and children share; the scheduling state of both
  processes; stack and frame pointer of the debuggee.
- *Operations*: become_debugger, set, remove, enable, disable and list
  breakpoints, read registers, read the backtrace, wait_and_continue; the INT3
  handler, the fork handler and the exit handler.
- *Interaction*: whoever traps, exits or continues writes the *other* process'
  `state` and return register. A child finds its debugger by pid.
- *Hard*: the hand-over (exactly one side may run), the emulated `push %rbp`,
  the frame walk, a list and a code byte that must agree.
- *Correct when*: the sides take turns, the debuggee does not notice, list,
  code and reported data are true.

### Assignment 1: programs on a Unix system

- `Part1/1.1/executeCommand.c`: tries the directories of `CS330_PATH` one after
  the other, one child each, and takes exit status 0 for "found".
- `Part1/1.2/executeInParallel.c`: starts all commands of a file, each writing
  into its pipe, waits for *one* child, then copies the pipes in order; a short
  read is taken for the end of the output. *Hard*: what is in a pipe when the
  parent reads depends on the scheduling. *Correct when*: outputs are complete,
  in order, and the result tells whether a command was not found.
- `Part2/2.1/umpire.c`, `player.c`: two players play ten rounds of
  rock-paper-scissors, each through two pipes. *Hard*: who holds which end of
  which pipe, hence who sees end-of-file and who waits for ever. *Correct when*:
  messages and moves stay in step, and the match ends.
- `Part2/2.2/umpire2.c`, `gameUtils.c`: a knock-out tournament with a walk-over
  when the number of players is odd. *Hard*: the number of the walk-over against
  the list of active players, over several levels; rows of moves that lie one
  behind the other. *Correct when*: each level halves the players, only losers
  of a match leave, and one is left at the end.

### Not part of the program's logic

User library (`user/lib.c`: system call stubs), test programs and headers. They
tell which calls processes make and are used to choose inputs and fairness.

## 2. Modules

| module | role |
|---|---|
| `Mailboxes` | abstract specification: a queue is a set of members, a mailbox per member and a relation "refuses messages from" |
| `MsgQueue` | the code of `msg_queue.c` with its callers in `entry.c` |
| `Keeping` | the compaction of an array in place, used by close and broadcast |
| `MCMsgQueue` | instances, symmetry, and the fair specification for liveness |
| `KeepingProofs`, `MsgQueueProofs`, `MailboxProofs` | theorems; the last one proves that `MsgQueue` implements `Mailboxes` |
| `Files` | the code of `file.c` over `fs.c`, with its callers in `entry.c` |
| `MCFiles` | symmetry |
| `FilesProofs` | theorems |
| `Debugger` | the code of `debug.c` with the debuggee it acts on |
| `MCDebugger` | symmetry and the fair specification |
| `DebuggerProofs` | theorems |
| `Umpire`, `UmpireProofs` | the match of `Part2/2.1`, and theorems |
| `Tournament`, `MCTournament`, `TournamentProofs` | the tournament of `Part2/2.2`, its instances, and theorems |
| `ExecParallel`, `ExecCommand` | the two programs of `Part1` |
| `MCExec` | the two side by side, for TLC; they share nothing |
| `ExecProofs` | theorems about both |

Operators with a comment "Faulty variant" are not used by any specification.
Each is a plausible mistake in the operator that follows it, and `PROJECT.json`
names the property it violates.

### `MsgQueue` and the code

| code | model |
|---|---|
| `ctx->state != UNUSED` | `live` |
| `ctx->files[fd]` (queue entries; other files only take descriptors away) | `files[p][fd]` |
| `member_pid[0 .. member_count-1]` | sequence `member_pid[q]`; place *i* is index *i-1* |
| `block_process[i][k]` | `block_process[q][i][k]`, `NoPid` for -1 |
| the words behind `block_process` in the page | `page_tail[q]`, the pids among them |
| `msg_buffer[0 .. msg_count-1]` | sequence `msg_buffer[q]` |
| pages given back by `free_msg_queue_*` | `allocated` |
| `do_create_msg_queue` | `Create` |
| `do_msg_queue_send` | `SendUnicast`, `SendBroadcast` |
| `do_msg_queue_rcv` | `Rcv` |
| `do_msg_queue_block` | `Block` |
| `do_msg_queue_close` | `Close` |
| `do_fork`, `do_add_child_to_msg_queue` | `Fork` |
| `do_exit`, `do_msg_queue_cleanup` | `Exit` |

A system call is one step. This is an assumption: that the gate of `int 0x80`
is an interrupt gate, so that the timer does not interrupt a handler on the one
processor. `include/idt.h:10-13` defines the constants of such a gate
(`IDT_DESC_TYPE_INT_SW`), but the gates are set in code that is present as an object
file only. Calls of different processes interleave freely. A call that returns
an error without changing anything is no step. `Exit` closes the queues of a
process in one step although the code loops, because the loop is inside one
system call.

`CellsScanned` models the scan of `do_msg_queue_send` as it is compiled: row
*i* of `MAX_MEMBERS` cells is read up to index `MAX_PROCESSES-1`, which covers
the beginning of row *i+1* or, behind the last row, whatever the page held.

*What the environment must keep to* (the code breaks in ways the model has no
state for when it does not; each point is in the hazard list):

- `MAX_LIVE <= MAX_MEMBERS`: never more processes than a member list holds.
  With the code's numbers (7 pids, of which 6 are for user processes, and 4 members)
  that is four processes; neither `do_fork` nor the fork handler of the queues
  checks it. That members fit into `member_pid` and that blocking always works
  (`BlockNeverFails`) hold under this assumption only.
- At most `BUF_SLOTS` messages are pending. The slots of the code's array lie
  `sizeof(struct message)` structures (not bytes) apart, 1024 bytes, so that only
  the first four are inside the page that was allocated.
- A queue descriptor is never an argument of `dup2`.
- Allocation succeeds.

### `Files` and the code

| code | model |
|---|---|
| `ctx->state != UNUSED` | `live` |
| `ctx->files[fd]` | `files[p][fd]` |
| pages taken by `alloc_file`, given back by `free_file_object` | `allocated` |
| `struct file` (`inode`, `mode`, `offp`, `ref_count`) | `file[o]` |
| valid inodes; `mode` and `file_size` of an inode | `created`; `inode[n]` |
| `do_regular_file_open`, `lookup_inode`, `create_inode` | `OpenFile`, with `FindOrCreate` |
| `open_standard_IO`, `create_standard_IO` | `OpenStandard` |
| `do_close`, `do_file_close`, `std_close` | `Close` |
| `fd_dup2` | `Dup2` |
| `do_read_regular`, `flat_read` | `Read`, with `BytesRead` |
| `do_write_regular`, `flat_write` | `Write`, with `WriteTo`, `BytesWritten`, `SizeAfter` |
| `do_lseek_regular`, `do_sendfile` | `Lseek`, `Sendfile` |
| `do_fork`, `do_file_exit` | `Fork`, `Exit` |

`offp` and `ref_count` are `u32`: their arithmetic is modulo `WORD`, and
`flat_read` and `flat_write`, which take a pointer to an `int`, see the upper
half of the numbers as negative (`Signed`). The contents of a file are abstracted
to its size. Descriptors 0, 1 and 2 are the standard ones (`FIRST_FD` is 3 in the
code, less in the runs).

`Careless` says which of three uses the processes of an instance make: a fork
with descriptors, a `dup2` of a descriptor onto itself, a write that does not fit.
Each breaks one of the properties; the runs and theorems that hold say which of
them they leave out.

*Environment*: no step uses an object after it was freed (its page may hold
anything then, a buffer of `sendfile` for instance); descriptors passed to calls
are inside the table; a standard file is opened again only while a descriptor is
free; `sendfile` is called on regular files; the object of a message queue is no
argument of these calls; allocation succeeds.

### `Debugger` and the code

| code | model |
|---|---|
| `ctx->state` | `state`; `READY` stands for `READY` and `RUNNING` |
| `ctx->ppid` | `ppid` |
| `ctx->dbg` | `dbg` (who has one) and `info` (what is in it) |
| the byte at the address of a breakpoint | `code[f]` |
| `parent_ctx->regs.rax` on the way out of `wait_and_continue` | `told` |
| user stack of a process | `stack`: words, addresses are places in the sequence |
| `regs.rbp`, `regs.entry_rip` | `rbp`, `rip` |
| (nothing) | `calls`: history variable, what the program has called |
| `do_become_debugger` | `BecomeDebugger` |
| `do_set_breakpoint` | `SetBreakpoint` (`NewBreakpoint` or the existing one) |
| `do_remove_breakpoint` | `RemoveBreakpoint` |
| `do_enable_/do_disable_breakpoint` | `EnableBreakpoint`, `DisableBreakpoint` |
| `do_info_breakpoints`, `do_backtrace`, `do_info_registers` | read only: `InfoBreakpoints`, `Shown`, `ReportedRsp` |
| `do_wait_and_continue` | `WaitAndContinue` |
| `int3_handler` | `Hit`, with `Emulated`, and `Backtrace` for its loop (`Frames`, `ReturnAddress`, `LastRound`) |
| `debugger_on_fork`, `debugger_on_exit` | `Fork`, `Exit` |
| user code (external) | `Call`, `GoOn`, `Return`: `push %rbp; mov %rsp,%rbp` ... `leave; ret` |

A hit breakpoint stops the debuggee between `push %rbp` (done for it by
`int3_handler`) and `mov %rsp,%rbp`, which it does with `GoOn` when it is
continued. That is why `rip` knows a state `Behind(f)`.

*Environment*: a process becomes a debugger at most once and forks only as a
debugger; functions with a breakpoint are called only by children of a
debugger; allocation succeeds; parent and children share the code pages.

### The programs of Assignment 1 and the code

Here a step is what happens between two points at which another process can
make a difference: one `read` or `write` of a pipe, a `fork`, an `exit`, a `wait`.
The bytes of a message are not told apart, except in the moves.

| code | model |
|---|---|
| `umpire.c`: pipes `std1`, `std2` | contents `go[j]`, `out[j]`; who holds each write end, `writers` |
| `fork`, `dup2`, `close` in `umpire.c:36-57, 74-94` | `Start`, with `ChildKeeps` |
| loops that read the moves; counting of scores | `ReadMove`; `Score`, with `Wins` |
| `player.c` | `ReadGo`, `Move`, `SeeEnd`; `Leave` for a program that cannot be executed or ends |
| `umpire2.c`: `active`, `nactive`, `activePlayer`, `wid`, `record` | the same names; `record` is one row behind the other, `Cell(a, r)` |
| loop over the levels; loop over players and rounds | `NewLevel`, `SkipInactive`, `TakeActive`, `Ask`, `Answer` |
| `getWalkOver` (`gameUtils.c`) | `Draw`; `WalkOvers` is what it may return |
| loop over the pairs | `SkipWalkOver`, `Play`, `PlayNobody`, `EndLevel` |
| `executeInParallel.c`: loops that fork, `wait(NULL)`, loop that reads | `Fork`, `Wait`, `Read` |
| children: `dup2`, the search of the path, the program | `Write`, `Exit` (external but for the message) |
| `buff`, `strcmp` with the message | `StatusAfter`, with `IsMessage`: the bytes of a read are the message, all of it and nothing else; `Says` is where in its output a command prints it |
| `outfile` | `file`, the origin of each byte, and the offset `pos` |
| `executeCommand.c`: `strtok`, `fork`, `execv`, `wait` | `token`, `ForkChild`, `Execv`, `WaitChild`, `GiveUp` |

*Environment*: system calls do not fail (but `exec` may); `CS330_PATH` is set;
a tournament has players and rounds; what lies behind `activePlayer` and
`active` in memory is any value, and a store there is not described (`PlayNobody`
leaves `active` alone then, `TakeActive` ends in `"lost"`). Programs print text,
without bytes 0; any program may print the message `UNABLE TO EXECUTE`, as
`executeCommand` itself does. The programs of Part 1 have limits they do not check, and
the models stay within them: at most `CM_SZ` (50) commands, each with a word in it; an
infile of less than 2049 bytes, and a 0 behind it in `str`; a name of a
command that `strcat` finds room for behind the directory (`tok`, `curr_path`); and
the byte that `executeInParallel.c:114` writes one past a full `buff` hits nothing
the program uses.

## 3. What TLC checks

All runs have `CHECK_DEADLOCK FALSE`: the system really ends, when every process
has exited, or when the first debugger has exited and its children sleep.

| run | question | states |
|---|---|---|
| `mq_one` | one queue, three processes, three user pids: are members, rows and messages consistent through every reuse of a pid? can a block fail, or end too early? does the queue implement `Mailboxes`? does every pending message leave? | 48 080 |
| `mq_two` | two queues, two processes, stale words behind the block table: one descriptor per queue, and `Mailboxes` again | 9 176 |
| `mq_unicast_block` | does a refused unicast mean that the receiver blocked the sender? **No** | 5-state trace |
| `files_refs` | two processes, three descriptors, three objects on one file: do counters count, are objects freed just when nobody names them, do offsets stay in the file? | 368 952 |
| `files_fork` | is an object in use while a descriptor names it? **Not after a fork** | 3-state trace |
| `files_write` | does a read start inside the file? **Not after a write that failed** | 3-state trace |
| `dbg_one` | one debugger, children, two breakpoints, four frames, three backtrace entries: are list, code and backtrace true, does the debuggee notice nothing? | 458 703 |
| `dbg_nested` | debuggees that are debuggers, reuse of pids: do the sides take turns, are the registers right, does `wait_and_continue` return? | 257 915 |
| `umpire` | a match whose players may end early: rounds, scores, end of game, end of the match | 23 006 |
| `tournament` | six tournaments with up to seven players and several walk-overs | 47 435 |
| `tournament_walkover` | is there a walk-over in every level with an odd number of players? **No** | 57-state trace |
| `exec` | two commands with outputs around the block and the pipe size, with and without the message in them: order, loss, result, end; the search of a path of three directories | 90 836 |

### Properties

*Message queues.* `MembersHoldDescriptors` relates three structures: member
lists, descriptor tables and pages in use. `OneDescriptor` is what close and
exit need (the first close ends the membership). `RowsNameOtherMembers` says
that the rows of the block table follow their owners when members move up.
`PendingForMembers` and the action property `NewMemberStartsFresh` are about
reused pids: a child inherits nothing from the last user of its pid, although
`do_add_child_to_msg_queue` clears nothing. `BlockNeverFails` is the limit of
the row, for as many processes as fit into `member_pid`. The action property
`BlocksLast` says that a block stays in force while both are members, although
the rows move with every departure, and that neither of the two differently
written tests of send lets a message of the blocked one through.
`ImplementsMailboxes` contains the order per receiver, the set of
receivers of a broadcast, the blocking relation and that a departure leaves
everybody else untouched. `EveryMessageLeaves` is the liveness property.

*Files.* `NamedAreAllocated` and `RefCountsCount` relate the descriptor tables of
all processes, the counters and the pages in use; `FreedWithLastName` is the other
direction: close, dup2 and exit do not lose an object. `OffsetsInFile` relates an
object to an inode that others write through other objects. `ReadsStayInFile` is
what a comment in `fs.c` says of a read, checked with the code's own `flat_read`.
`TypeOK` of `Files` contains that no size passes `FILE_SIZE`.

*Debugger.* `OneRuns`: exactly one process can run as long as the first one
lives. `Transparent`: stack, frame pointer and function of a debuggee are what
its calls and returns alone make them. `RegistersAtBreakpoint`: what
`info_registers` shows of a stopped child are the registers it had at the first
instruction of the function, before `int3_handler` emulated the push.
`BacktraceShowsCalls`: what the
debugger reads after a stop is the call stack, innermost first, cut off where
the buffer ends. `CodeMatchesList` and `InfoInOrder`: the list against the code
and against its own size. `WaitReturns`: process 1 does not sleep for ever.

*Umpire.* `RoundsKept` counts messages, moves under way and moves read over both
sides: one that were lost, or read twice, would shift all later rounds.
`ScoresFair` compares the three wins that the code lists with the rule modulo 3.
`EndOfGame` says who can learn that the game is over from the copies of write
ends that `fork` made: player 1 never, player 2 only after player 1 has gone.
`MatchEnds`: the match ends or the umpire waits in a read for a player that has left.

*Tournament.* `HalfAdvance` relates `nactive`, `active` and the list of a level, also
for a walk-over that names nobody in the list. `LevelClosed`: when matches are
decided all rows are complete, although the 0 behind each row is the first cell
of the next, and no message is left for the next level. `LosersLost`: who leaves lost,
ties included, to the player it is paired with in this level (`Paired`: first and second,
third and fourth of the list without the walk-over), who stays. `TournamentEnds` is the
liveness property: one player is left, or the loop over the players has stored behind
`activePlayer`, of which nothing is said from then on.

*Commands.* `OutputInOrder`: whatever the scheduling, the outfile has the outputs in
the order of the commands and no byte is lost between the pipe and the file.
`OnlyRunningAreCut`: the only output cut off is that of a command that was still
running when its pipe was left. `StatusRight`: the result is -1 whenever a command was
not found; for another command exactly when what is copied of its output ends with the
same message, begun at a whole number of blocks. The result is not "a command was not
found": a command that was found and prints the message gives -1 as well. `RunsUntilSuccess`: which directories are tried and what the call
returns. `Returns`: the call returns under the conditions it needs (below).

### Why the bounds are enough

- `mq_one`: three user pids (`MAX_PROCESSES` 4, pid 0 is the swapper), all of
  which may be alive, is the least in which a pid is given out again while two
  others use the queue; three members is the least in
  which a departure moves a row past another one, and in which the scan of a
  unicast crosses into a row that belongs to a third process. One process has
  one descriptor, enough for one queue. Two pending messages are enough for
  "the oldest of mine" and for messages of two receivers to mix; they are told
  apart by sender and receiver.
- `mq_two`: two queues and two descriptors for an exit that leaves several
  queues and a queue that is created again. The row that the scan of a unicast
  leaves the table from is in use here, so the words behind the table are any
  one pid or none (`StaleTails`).
- `files_refs`: two pids with two descriptors each besides the standard one give
  objects that one process names twice and again as a standard file; three
  objects are one more than are needed to open a page that was freed before.
  Sizes up to 2 let one object be inside, at the end, and behind what another
  one on the same file has written. `WORD` is any number with room for twice the
  largest offset. Calls that move more than one byte are calls that move one,
  repeated, as far as these properties go (`MAX_COUNT`).
- `files_fork`, `files_write`: the traces are short, the bounds only have to be
  larger.
- `dbg_one`: two functions give lists of length two, the code's list operations
  distinguish head and tail only; three backtrace entries and four frames
  (`Main` and `MAX_DEPTH` 3) reach a buffer that is too small, exactly filled and
  larger than needed. Three breakpoint numbers allow to remove and set again.
- `dbg_nested`: chains of two debuggers and a debuggee, with one pid more that
  may be an orphan: a child whose debugger exited and whose pid another process
  got. Two of the places for parents are then used again.
- `umpire`: three rounds are the least with a first, a middle and a last one; both
  players may leave at any point (`Leavers`).
- `tournament`: one player; two players and three rounds, three players and two
  rounds, to have rows overlap and the walk-over play in the next level; five
  (walk-overs in two levels), six (a walk-over in the second level only, when its
  number may be out), and seven, of which the last cannot be executed. The
  walk-over is 1, as in the stub, 3 or 5.
- `exec`: a block of 3 and pipes of 6, so that outputs are empty, short, a block,
  more than a block, more than a pipe; a message of 2 that a program prints alone, behind a
  full block, at both ends of its output, or not at all (`SomePrograms`); an old outfile that is
  shorter or longer than the output. Three directories give a search that skips
  one, runs one, and goes on. The inputs of the two programs vary one at a time.
- `MAX_NUM` and `MAX_DEPTH` bound the counters; nothing in the properties is
  about them.

### Fairness

- `mq_one`: a member that has a message goes on calling `msg_queue_rcv`, as the
  test programs do (`user/test_cases_part2/bcast.c:63-67` polls and receives);
  the timer gives every ready process a turn (`pick_next_context` is used
  round robin). Nothing is assumed of senders. `EveryMessageLeaves` is about the
  behaviours in which pending messages differ from each other, so that a message
  can be followed.
- `dbg_nested`: the program of a debuggee ends after so many of its own steps
  (strong fairness of `Exit` for every process but the first, because a process
  is stopped and continued on its way to the end) and goes on behind a
  breakpoint (weak fairness of `GoOn`). Without the first, a debuggee in an endless
  loop keeps its debugger waiting, which is as it should be. Nothing is assumed
  of the calls of a debugger.
- `umpire`, `tournament`, `exec`: the scheduler gives every process its turns: weak
  fairness of the umpire or parent, and of each player or child (in `tournament`,
  of the players together, of which never more than one has a move to make
  before the end). Nothing makes a player leave. A program of `exec` prints what it has to
  print and ends. `Returns` holds only if some output fits into a pipe, or the
  parent waits for children that wait for a reader, and if no output is empty or
  a number of whole blocks, or it reads once more from a pipe whose write end it
  holds itself.

## 4. What is proved

TLAPS proves the following for every value of the constants that satisfies the
named assumptions (`Bounds`, `NullIsNoQueue`, `TailsArePids`; `Sizes`,
`DebuggersArePids`, `Addresses`; `FileBounds`, `NullIsNoObject`,
`OpenModesAreModes`; `RoundsPositive`; `GamesArePairs`, `WalkOversArePlaces`; `Lengths`,
`Texts`, `CodesAreBytes`). Every invariant and every action property of the passing runs is
stated by one of these theorems. The assumptions are about numbers (positive, a pipe holds
a block, a message is shorter than one) and about values that the code keeps apart:
`Addresses` says that the addresses of functions, `main` and `END_ADDR` differ, from each
other and from stack addresses, and that no function lies at 0 (`CHILD_EXIT`, `debug.h:14`) or at
what `told` holds before the first stop.

- `TypeCorrect`: `Spec => []TypeOK` of `MsgQueue`.
- `Consistent`, and from it `MembershipCorrect`, `DescriptorsCorrect`,
  `PendingCorrect`, `BlockTableCorrect`. The inductive invariant `IInv` is the conjunction of
  `TypeOK`, `OneDescriptor`, `MembersHoldDescriptors`, `PendingForMembers` and
  `RowsNameOtherMembers`. None of the last four is inductive alone: taking one
  place out of a member list removes a pid only because the list has no
  repetitions; a fresh queue is in nobody's table only because descriptors name
  queues with members; `Fork` may append a pid only because a free pid is in no
  list; and it finds an empty row in its place only because rows behind the
  last member are empty.
- `BlockingAlwaysWorks`: by counting, from `IInv`. A full row of `MAX_MEMBERS`
  different cells would name all members, the owner included.
- `NewMembersFresh`: the action property, from `IInv`.
- `RefinesMailboxes`: `Spec => ImplementsMailboxes`. One lemma for each operation
  says which step of `Mailboxes` it is (`CreateStep`, `UnicastStep`, `BroadcastStep`,
  `ReceiveStep`, `BlockStep`, `ForkStep`, `LeaveStep`). What they rest on is the
  algebra of `Keep`: the mailbox of a member is what the shared array keeps for it,
  and keeping distributes over appending, over the copies of a broadcast, over the
  removal of the first match, and over another keeping (the messages that a
  departure leaves). For the relation of refusals, places and rows move up
  together when a member leaves. The steps need `IInv`: a departed process takes
  its mailbox along because members have no second descriptor, and a member that
  joins finds the empty mailbox of the abstract step because nothing is pending
  for a process that is not a member.
- `BlockingLasts`: `BlocksLast`. That the block stays is read off the abstract
  specification: of the steps of `Mailboxes` only a departure takes pairs out, those of the
  one who leaves (`BlockedSteps`, `PairStays`). That no message is added is shown on
  the array: `BufferSteps` lists what a call can do to it, and a lemma for each
  (`NoCopyFrom`, `KeepAfterRemoval`, `KeepOthers`) says that it leaves no more messages of
  the blocked sender for the blocker.
- `KeepProperties`: what compaction in place keeps, for sequences of every
  length. The proof is an induction by least counterexample.
- `TurnsTaken`: `OneRuns`. The invariant `Turns` says that the live processes
  contain a chain from process 1 down to the one that runs, in which each is the
  only child of a debugger above it. It is needed because a
  trap and an exit wake the parent *by pid*: without the chain nothing says that
  the process so found sleeps for this very child.
- `BreakpointsTransparent`: `Transparent`, inductive with the types of the
  frames. The lemmas `CallFrame` and `ReturnFrame` say what one call and one
  return do to a well-formed stack.

- `InfoCorrect`: `InfoInOrder`. The property speaks of the order of numbers and of
  distinct addresses; inductive is that the list has decreasing numbers from the
  head, all at most `breakpt_num`, no address twice, and `size` entries (`ListOK`,
  `InfoOK`). The lemmas `ListAdd`, `ListRemove` and `ListStatus` are about lists
  of any length. That a counter does not give a number twice is what lets a
  removed entry be replaced.
- `CodeCorrect`: `CodeMatchesList`. The invariant `CInv` adds what holds before and
  after the debugger's time: a lone process that has not become a debugger has
  planted nothing, and after its exit nobody can fork, so that its pid, and with it
  the claim, stays free. The steps need the list invariant above: a breakpoint that
  were in the list twice would be removed once and its INT3 with it.
- `BacktraceCorrect` and `RegistersCorrect`: `BacktraceShowsCalls` and
  `RegistersAtBreakpoint`. The loop of `int3_handler` is a recursive function over the
  rounds; `FramesExist` and `FramesUnfold` show by least counterexample that it has
  the value it is defined to have, and `RoundsFollowCalls` that on a stack as calls
  leave it (`AsCalled`, from `BreakpointsTransparent`) round *i* reads the return address
  of the *i*-th call from the end. `LoopEnds`, `LoopShows` and `BacktraceReturns` carry that
  through the two cut-offs, that of the handler and that of `do_backtrace`. The invariant
  `SInv` keeps it until the debugger looks: while `told[d]` is a function, a child of
  `d` sleeps at it with the backtrace of its calls. That needs the chain of `Turns`
  again (nobody else may trap into this debugger meanwhile), strengthened by: of the processes
  of the chain none above the one that runs has trapped.
- `TypeCorrect` of `DebuggerProofs`: `Spec => []TypeOK`, from all of these together.

- `TypeCorrect` of `FilesProofs`: `Spec => []TypeOK`, for all uses, the careless
  ones included.
- `OffsetsStayInFile`: `OffsetsInFile` when writes fit. The invariant `Inside` says
  more than the property: of objects that are freed too, because they keep their
  offset, and that an object's file exists, because creating a file sets its size
  to zero and would shrink it under an object that is open on it.
- `AllocatedWhileNamed`, `CountersCorrect`, `NoObjectLost`: `NamedAreAllocated`,
  `RefCountsCount` and `FreedWithLastName` when nobody forks with descriptors or
  duplicates one onto itself. The invariant `Referenced` takes the first two
  together: neither is inductive, a counter that is too small frees the object
  under a descriptor, and a descriptor of a freed object gets a counter that was
  set for others. The lemmas `Gains`, `Loses` and `Untouched` say what a step may
  do to one object, `NamesAfter` what it does to the set of its descriptors. That
  counters do not wrap follows from the number of descriptors
  (`MAX_PROCESSES * MAX_OPEN_FILES < WORD`).

- `UmpireProofs`: `TypeCorrect`, `RoundsCorrect`, `ScoresCorrect`, `EndCorrect`, for any
  number of rounds and any set of leavers: all four invariants of the run. The
  inductive invariant adds to them where the umpire is: what has been read of each
  player follows from `pc` and `turn`, and who holds the write ends follows from who has
  been started and who has ended. Without the first `ScoresFair` does not know
  that both lists are complete, without the second `EndOfGame` does not know
  that the umpire or player 1 still holds an end.
- `TournamentProofs`: all invariants and the action property of the run, for any number of players and
  rounds and any `getWalkOver` that returns a place. `TypeCorrect` and `HalfAdvances` rest on
  an invariant of four parts.
  `Counted`: `nactive` never exceeds the number of active players; it is less only
  after a match against nobody, so equality would not be inductive. `Scanning`: the list is the active players below `i`, in
  order. `Pairing`: of the places up to `pair`, two for each match, one for the
  walk-over, one player per match is out and all behind are active; that the last
  match is complete takes the parity of the list (`Parity`, `Opponents`, `OneOut`).
- `LevelsClosed`: `LevelClosed`. Two more parts: `Talk`, the umpire has one message or
  move under way, with the player it asked, and `Rows`, the rows of the
  list below `i` are complete and row `i` is up to `k`. The 0 behind a row falls into the
  next row, which is filled later if at all: the list is scanned upwards, and
  `RowBefore` and `RowInTable` say that all cells of a lower row lie before it.
- `OnlyLosersOut`: the action property `LosersLost`. `BeatsIsNext` and `WinsArePoints`: on
  complete rows the wins that the code lists are those of the rule modulo 3;
  `LoserLost`: of two numbers in order the loser is the one with less points, or the
  higher one. `RankOfPlace` counts the places of a list that come before another,
  the walk-over left out, and `PlayPaired` concludes that the two of a match are one of the
  pairs of the property; `NobodyThere` says when there is no second one. `PlayLost` puts it
  together with the pairing invariant: the two are different, and both active before the match.
- `ExecProofs`: all invariants of the two programs of Part 1, for any number of commands up to
  `CM_SZ`, any number of directories, any outputs, and any sizes of block, pipe and message. `OrderKept`:
  `OutputInOrder` counts the bytes of each command in the file, the pipe and the child, and is inductive
  with what `Children` and `Origins` say of the commands the parent has not come to.
  `StatusCorrect` needs `Messages`: the text of a child that found no program is in the pipe whole
  or not at all, so that one read sees it whole; and `WholeBlocks`: while the parent is at a pipe,
  a whole number of blocks has been taken out of it, so that a read is the message just
  when the copied output then ends with one that begins at a block (`BlocksAndRest`, `Outputs`,
  which counts what is copied). `CutOnlyWhileRunning` needs `Whole`: a read
  shorter than a block has emptied the pipe. `SearchCorrect`: `RunsUntilSuccess`; inductive are the
  state of the child against the round (`Round`), that the runs so far are below `token` and have
  failed (`Runs`), that no directory with the program was passed over (`Covered`), and what the end of the search means
  (`Outcome`).

*Model-checked only*: the five liveness properties (`EveryMessageLeaves`, `WaitReturns`,
`MatchEnds`, `TournamentEnds`, `Returns`), which the prover cannot do under fairness, and the
properties of the violation runs, which do not hold.

## 5. Disagreements found

1. **A unicast is refused because of somebody else's blocking**
   (`mq_unicast_block`, `RefusedMeansBlocked`). `msg_queue.c:170` scans
   `MAX_PROCESSES` cells of a row of `MAX_MEMBERS`, so a cell of the next
   member's row can refuse the message. The broadcast branch (line 154) stops at
   the right place; `block.c` of the tests takes the error to mean that the
   addressee blocked the sender.
2. **A fork does not count references** (`files_fork`, `NamedAreAllocated`).
   `do_fork` copies the descriptor table (`entry.c:21`); the first close of parent
   or child finds `ref_count` 1 and frees the object under the other. The comments
   in `file.c:111` and `175` take the counter for the number of users.
3. **A failed write moves the offset back** (`files_write`, `ReadsStayInFile`).
   `do_write_regular` adds the -1 of `flat_write` to the offset (`file.c:168`); at
   the beginning of a file the next read returns the byte in front of it, while
   `fs.c:303` says that reads begin at `s_pos`, inclusive.

4. **A level without a walk-over** (`tournament_walkover`, `WalkOverIsActive`).
   `getWalkOver` returns "any number between 1 and numActivePlayers", "the nth active
   player" (`gameUtils.c:4-5`), a place in the list; `umpire2.c:137` and `143` compare it
   with the number of a player, counted from 0. With the stub, which returns 1, a level of
   three can begin after player 1 has lost; then the last player of the list is
   paired with what lies behind it (`Missed`, `PlayNobody`), and two players may be
   active when `nactive` says one.

Further ones that have no run of their own:

- `dup2(fd, fd)` frees the object it then names (with `Careless` set to `{"dup2"}` in
  `files_fork.cfg`, TLC finds it in one step), and the test of flags against the
  mode of a file at `file.c:253` is parsed as `mode & (flags != flags)` and
  refuses nothing.
- `do_info_registers` adds a word to the stack pointer and takes one from the
  instruction pointer, which is right only for a child that sleeps in
  `int3_handler`; `RegistersAtBreakpoint` is about those. Before the first stop of
  a child the registers shown are off by these.
- A player of Part 2 that cannot be executed leaves the umpire in a `read` for ever
  (`WaitsForLeaver`), because the umpire holds the write end of that pipe; for the
  same reason player 1 of a match never reads the end of the game.
- `executeInParallel` loses output when it reads a pipe before the command has
  written all (`cut`), does not return when an output is empty, a number of whole
  blocks, or when none fits into a pipe, and leaves the end of a longer old outfile.
  It returns -1 for a command that was found and prints the message of a failed
  search, alone or behind a whole number of blocks.
- `executeCommand` runs a command that failed again from the next directory, and
  returns 0 for one that was killed by a signal.

## 6. Not modelled

- *Addresses of the message queue pages*: where the slots of messages and the member
  list lie (`msg_queue.c:68`, `174`). The factor by which each is off is a constant of
  the code; there is no behaviour to explore, and `BUF_SLOTS` takes up its
  consequence.
- *One table of pages for files and queues*: `dup2` of a queue descriptor, and the
  stale `msg_queue` pointer in a page that `alloc_file` reuses (`file.c:25`,
  `msg_queue.c:190`). The handlers write the same page under two types then; which
  fields overlap is a matter of the build, and both modules exclude the call.
- *Failing allocation* (`msg_queue.c:80`, `debug.c`): a page is lost, no other state
  changes.
- *Kernel core* (scheduler, memory, interrupt entry): object files only; what the
  modules use of it is named under "Environment" and "Fairness".
- *User library and test programs* (`user/lib.c`, `user/ulib.h`): stubs of system calls and
  straight-line scenarios; `Assignment3/mmap.c` is a second copy of `debug.c`.
- Formatting of output.
