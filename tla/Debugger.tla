------------------------------ MODULE Debugger ------------------------------
(***************************************************************************)
(* The breakpoint debugger of gemOS: Assignment4/debug.c.  A process that  *)
(* called become_debugger plants INT3 in the functions of the children it  *)
(* forks; debugger and debuggee hand the processor to each other by        *)
(* setting each other's state.                                             *)
(*                                                                         *)
(* What is not in the repository is modelled from the way debug.c uses it: *)
(* schedule and the timer (any process that is not waiting may take the    *)
(* next step; READY stands for RUNNING too), do_fork, which calls          *)
(* debugger_on_fork when the parent is a debugger, do_exit, which calls    *)
(* debugger_on_exit, and the user code, whose functions begin with         *)
(* push %rbp; mov %rsp,%rbp and whose pages a child shares.                *)
(*                                                                         *)
(* The environment: a process calls become_debugger at most once, forks    *)
(* only when it has done so, and functions that can carry a breakpoint are *)
(* called only below a debugger (a trap anywhere else returns -1 to code   *)
(* that is not in the repository).                                         *)
(***************************************************************************)
EXTENDS Integers, FiniteSets, SequencesExt

CONSTANTS
    MAX_PROCESSES,    \* process ids are 0 .. MAX_PROCESSES - 1
    MAX_BREAKPOINTS,  \* breakpoints of a debugger at a time
    MAX_BACKTRACE,    \* entries of backtrace_info
    MAX_DEPTH,        \* bound: functions a process is inside of
    MAX_NUM,          \* bound: breakpoints a debugger ever sets
    Debuggers,        \* the processes whose program calls become_debugger
    Funcs,            \* functions, each with the address of its first byte
    Main,             \* the function every program starts in
    END_ADDR          \* the return address of Main

Pids == 1 .. MAX_PROCESSES - 1

\* What wait_and_continue has told its caller, other than the address of a function.
NothingYet == "-1"
CHILD_EXIT == "0"

ASSUME Sizes ==
    /\ {MAX_BREAKPOINTS, MAX_BACKTRACE, MAX_DEPTH, MAX_NUM} \subseteq Nat \ {0}
    /\ MAX_PROCESSES \in Nat /\ MAX_PROCESSES > 1
ASSUME DebuggersArePids == Debuggers \subseteq Pids
ASSUME Addresses == /\ Main # END_ADDR
                    /\ Funcs \cap {Main, END_ADDR} = {}
                    /\ Nat \cap {Main, END_ADDR} = {}
                    /\ Funcs \cap {NothingYet, CHILD_EXIT} = {}

Code       == {"INT3_OPCODE", "PUSHRBP_OPCODE"}
Breakpoint == [num: 1 .. MAX_NUM, status: {0, 1}, addr: Funcs]
Word       == Funcs \cup {Main, END_ADDR} \cup Nat
DebugInfo  == [list: Seq(Breakpoint), size: Int, breakpt_num: Nat,
               backtrace_info: [0 .. MAX_BACKTRACE - 1 -> Word]]

EmptyInfo  == [list |-> <<>>, size |-> 0, breakpt_num |-> 0,
               backtrace_info |-> [k \in 0 .. MAX_BACKTRACE - 1 |-> 0]]

VARIABLES
    state,   \* state[p]: UNUSED, READY or WAITING
    ppid,    \* ppid[p]: the pid of the process that forked p
    dbg,     \* the processes whose dbg is not NULL
    info,    \* info[p]: the debug_info of p, its list with the head first
    code,    \* code[f]: the first byte of f, in the pages all processes share
    told,    \* told[p]: what the last wait_and_continue of p returned
    stack,   \* stack[p]: the words p has pushed; rsp is the last of them
    rbp,     \* rbp[p]: the place of the saved rbp of the frame p is in
    rip,     \* rip[p]: the function p is in and whether it is at its second byte
    calls    \* calls[p]: history, the functions p has called and not left

debugVars == <<dbg, info, code, told>>
userVars  == <<stack, rbp, rip, calls>>
vars == <<state, ppid, debugVars, userVars>>

live == {p \in Pids : state[p] # "UNUSED"}

\* A process in the body of f; one that trapped is behind the byte of the INT3.
In(f)     == [func |-> f, trapped |-> FALSE]
Behind(f) == [func |-> f, trapped |-> TRUE]

\* p executes user code and may make a system call.
Runs(p) == state[p] = "READY" /\ ~ rip[p].trapped

Init == /\ state = [p \in Pids |-> IF p = 1 THEN "READY" ELSE "UNUSED"]
        /\ ppid = [p \in Pids |-> 0]
        /\ dbg = {}
        /\ info = [p \in Pids |-> EmptyInfo]
        /\ code = [f \in Funcs |-> "PUSHRBP_OPCODE"]
        /\ told = [p \in Pids |-> NothingYet]
        /\ stack = [p \in Pids |-> <<END_ADDR, 0>>]
        /\ rbp = [p \in Pids |-> 2]
        /\ rip = [p \in Pids |-> In(Main)]
        /\ calls = [p \in Pids |-> <<Main>>]

----------------------------------------------------------------------------
\* Breakpoints.  A call for an address that is in no list returns -1.
RunsDebugger(d) == d \in dbg /\ Runs(d)
HasBreakpoint(d, f) == \E i \in DOMAIN info[d].list : info[d].list[i].addr = f
IndexOf(d, f)       == CHOOSE i \in DOMAIN info[d].list :
                          /\ info[d].list[i].addr = f
                          /\ \A j \in 1 .. i-1 : info[d].list[j].addr # f

BecomeDebugger(d) ==
    /\ d \in Debuggers \ dbg
    /\ Runs(d)
    /\ dbg' = dbg \cup {d}
    /\ info' = [info EXCEPT ![d] = EmptyInfo]
    /\ UNCHANGED <<state, ppid, code, told, userVars>>

\* Faulty variant, then the code: what the first byte of a function becomes when
\* the status of its breakpoint becomes s.
Int3Always(s) == "INT3_OPCODE"
Opcode(s)     == IF s = 1 THEN "INT3_OPCODE" ELSE "PUSHRBP_OPCODE"

SetStatus(d, f, s) ==
    /\ RunsDebugger(d)
    /\ HasBreakpoint(d, f)
    /\ info' = [info EXCEPT ![d].list[IndexOf(d, f)].status = s]
    /\ code' = [code EXCEPT ![f] = Opcode(s)]
    /\ UNCHANGED <<state, ppid, dbg, told, userVars>>

EnableBreakpoint(d, f)  == SetStatus(d, f, 1)
DisableBreakpoint(d, f) == SetStatus(d, f, 0)

\* The number of a new breakpoint.  (Faulty variant: the counter before ++.)
LastNum(d) == info[d].breakpt_num
NextNum(d) == info[d].breakpt_num + 1

\* A new breakpoint goes to the head of the list.
NewBreakpoint(d, f) ==
    LET n == NextNum(d) IN
    /\ RunsDebugger(d)
    /\ ~ HasBreakpoint(d, f)
    /\ info[d].size < MAX_BREAKPOINTS
    /\ n <= MAX_NUM
    /\ info' = [info EXCEPT
          ![d].list = <<[num |-> n, status |-> 1, addr |-> f]>> \o @,
          ![d].size = @ + 1,
          ![d].breakpt_num = n]
    /\ code' = [code EXCEPT ![f] = Opcode(1)]
    /\ UNCHANGED <<state, ppid, dbg, told, userVars>>

SetBreakpoint(d, f) == NewBreakpoint(d, f) \/ SetStatus(d, f, 1)

\* Faulty variant: the size stays.
RemoveKeepsSize(d, f) ==
    /\ RunsDebugger(d)
    /\ HasBreakpoint(d, f)
    /\ info' = [info EXCEPT ![d].list = RemoveAt(@, IndexOf(d, f))]
    /\ code' = [code EXCEPT ![f] = "PUSHRBP_OPCODE"]
    /\ UNCHANGED <<state, ppid, dbg, told, userVars>>

RemoveBreakpoint(d, f) ==
    /\ RunsDebugger(d)
    /\ HasBreakpoint(d, f)
    /\ info' = [info EXCEPT ![d].list = RemoveAt(@, IndexOf(d, f)),
                          ![d].size = @ - 1]
    /\ code' = [code EXCEPT ![f] = "PUSHRBP_OPCODE"]
    /\ UNCHANGED <<state, ppid, dbg, told, userVars>>

\* do_info_breakpoints: entry size-idx-1 of the caller's array is the idx-th of
\* the list; entries are numbered from 0.
InfoBreakpoints(d) ==
    [e \in {info[d].size - i : i \in DOMAIN info[d].list} |->
        info[d].list[info[d].size - e]]

----------------------------------------------------------------------------
\* The hand-over.
Children(d) == {c \in live : ppid[c] = d}
\* The child that wait_and_continue and info_registers mean: the lowest pid.
FirstChild(d) == CHOOSE c \in Children(d) : \A e \in Children(d) : c <= e

\* The state debugger_on_fork leaves a child in.  (Faulty variant: the one the
\* kernel's setup_child_context has given it.)
ChildStateKept == "READY"
ChildState     == "WAITING"

\* do_fork and debugger_on_fork: the child sleeps until it is continued.
Fork(d, c) ==
    /\ RunsDebugger(d)
    /\ c \in Pids \ live
    /\ \A e \in Pids \ live : c <= e
    /\ state' = [state EXCEPT ![c] = ChildState]
    /\ ppid' = [ppid EXCEPT ![c] = d]
    /\ dbg' = dbg \ {c}
    /\ told' = [told EXCEPT ![c] = NothingYet]
    /\ stack' = [stack EXCEPT ![c] = stack[d]]
    /\ rbp' = [rbp EXCEPT ![c] = rbp[d]]
    /\ rip' = [rip EXCEPT ![c] = rip[d]]
    /\ calls' = [calls EXCEPT ![c] = calls[d]]
    /\ UNCHANGED <<info, code>>

WaitAndContinue(d) ==
    /\ RunsDebugger(d)
    /\ Children(d) # {}
    /\ state' = [state EXCEPT ![d] = "WAITING", ![FirstChild(d)] = "READY"]
    /\ told' = [told EXCEPT ![d] = NothingYet]
    /\ UNCHANGED <<ppid, dbg, info, code, userVars>>

\* Whom the exit of p makes ready: its parent, if that is a debugger.
NobodyWoken(p) == {}  \* faulty variant
WokenByExit(p) == {d \in Pids : d = ppid[p] /\ d \in dbg}

\* do_exit and debugger_on_exit, which also frees the list.
Exit(p) ==
    /\ Runs(p)
    /\ state' = [e \in Pids |-> IF e = p THEN "UNUSED"
                                ELSE IF e \in WokenByExit(p) THEN "READY" ELSE state[e]]
    /\ told' = [e \in Pids |-> IF e \in WokenByExit(p) THEN CHILD_EXIT ELSE told[e]]
    /\ dbg' = dbg \ {p}
    /\ info' = [info EXCEPT ![p] = EmptyInfo]
    /\ UNCHANGED <<ppid, code, userVars>>

----------------------------------------------------------------------------
\* A debuggee.  A return address into a function is written as the function.
\* The stack when a function has been called and its push %rbp done, by the
\* processor or by int3_handler in its place.  (Faulty variant: pushes %rsp.)
Entered(p)   == stack[p] \o <<rip[p].func, rbp[p]>>
RspPushed(p) == stack[p] \o <<rip[p].func, Len(stack[p]) + 1>>
Emulated(p)  == Entered(p)

CanCall(p) == Runs(p) /\ ppid[p] \in dbg /\ Len(calls[p]) <= MAX_DEPTH

Call(p, f) ==
    /\ CanCall(p)
    /\ code[f] = "PUSHRBP_OPCODE"
    /\ stack' = [stack EXCEPT ![p] = Entered(p)]
    /\ rbp' = [rbp EXCEPT ![p] = Len(Entered(p))]
    /\ rip' = [rip EXCEPT ![p] = In(f)]
    /\ calls' = [calls EXCEPT ![p] = Append(@, f)]
    /\ UNCHANGED <<state, ppid, debugVars>>

\* Where the loop of int3_handler starts: at the word that was pushed last.  (Faulty variant: at
\* the frame %rbp still points to.)
CallersFrame(s) == s[Len(s)]
FirstFrame(s)   == Len(s)

\* rbp_address in the rounds of the loop of int3_handler: each frame begins with
\* the place of the one before it.
Frames(s) ==
    LET rbp_address[i \in 1 .. MAX_BACKTRACE] ==
            IF i = 1 THEN FirstFrame(s) ELSE s[rbp_address[i-1]]
    IN  rbp_address

ReturnAddress(s, i) == s[Frames(s)[i] - 1]

\* The round that ends the loop: END_ADDR has been read or the array is full.
LastRound(s) == CHOOSE i \in 1 .. MAX_BACKTRACE :
                   /\ i = MAX_BACKTRACE \/ ReturnAddress(s, i) = END_ADDR
                   /\ \A j \in 1 .. i-1 : ReturnAddress(s, j) # END_ADDR

\* What the loop leaves in backtrace_info, whose entries were old.
Backtrace(f, s, old) ==
    [k \in 0 .. MAX_BACKTRACE - 1 |->
        CASE k = 0 -> f
          [] k \in 1 .. LastRound(s) - 1 -> ReturnAddress(s, k)
          [] k = LastRound(s) -> END_ADDR
          [] OTHER -> old[k]]

\* A call of a function with a breakpoint, and int3_handler.
Hit(p, f) ==
    LET d == ppid[p] IN
    /\ CanCall(p)
    /\ code[f] = "INT3_OPCODE"
    /\ stack' = [stack EXCEPT ![p] = Emulated(p)]
    /\ state' = [state EXCEPT ![p] = "WAITING", ![d] = "READY"]
    /\ info' = [info EXCEPT ![d].backtrace_info = Backtrace(f, Emulated(p), @)]
    /\ told' = [told EXCEPT ![d] = f]
    /\ rip' = [rip EXCEPT ![p] = Behind(f)]
    /\ calls' = [calls EXCEPT ![p] = Append(@, f)]
    /\ UNCHANGED <<ppid, dbg, code, rbp>>

\* mov %rsp,%rbp, when the debuggee goes on behind the breakpoint.
GoOn(p) ==
    /\ state[p] = "READY"
    /\ rip[p].trapped
    /\ rbp' = [rbp EXCEPT ![p] = Len(stack[p])]
    /\ rip' = [rip EXCEPT ![p] = In(@.func)]
    /\ UNCHANGED <<state, ppid, debugVars, stack, calls>>

\* leave; ret
Return(p) ==
    LET s == stack[p] IN
    /\ Runs(p)
    /\ s[rbp[p] - 1] # END_ADDR
    /\ rip' = [rip EXCEPT ![p] = In(s[rbp[p] - 1])]
    /\ rbp' = [rbp EXCEPT ![p] = s[rbp[p]]]
    /\ stack' = [stack EXCEPT ![p] = SubSeq(s, 1, rbp[p] - 2)]
    /\ calls' = [calls EXCEPT ![p] = Front(@)]
    /\ UNCHANGED <<state, ppid, debugVars>>

\* The step that a process makes by itself when it is not in the debugger's calls.
UserStep(p) == \/ \E f \in Funcs : Call(p, f) \/ Hit(p, f)
               \/ GoOn(p)
               \/ Return(p)

Next == \E p \in Pids :
    \/ BecomeDebugger(p)
    \/ \E f \in Funcs : \/ SetBreakpoint(p, f)
                        \/ RemoveBreakpoint(p, f)
                        \/ EnableBreakpoint(p, f)
                        \/ DisableBreakpoint(p, f)
    \/ \E c \in Pids : Fork(p, c)
    \/ WaitAndContinue(p)
    \/ UserStep(p)
    \/ Exit(p)

Spec == Init /\ [][Next]_vars

----------------------------------------------------------------------------
TypeOK ==
    /\ state \in [Pids -> {"UNUSED", "READY", "WAITING"}]
    /\ ppid \in [Pids -> 0 .. MAX_PROCESSES - 1]
    /\ dbg \subseteq live
    /\ info \in [Pids -> DebugInfo]
    /\ code \in [Funcs -> Code]
    /\ told \in [Pids -> Funcs \cup {NothingYet, CHILD_EXIT}]
    /\ stack \in [Pids -> Seq(Word)]
    /\ rbp \in [Pids -> Nat]
    /\ rip \in [Pids -> [func: Funcs \cup {Main}, trapped: BOOLEAN]]
    /\ calls \in [Pids -> Seq(Funcs \cup {Main})]

\* Debugger and debuggees take turns: as long as the first process lives, exactly
\* one process can run.  Two would race on code and stack, none would mean that
\* a wake-up was lost.  The hand-over is spread over four functions that write
\* each other's state (debug.c:83, 100-101, 142, 357-358), children may be debuggers
\* themselves, and pids are used again while children of their last user sleep.
OneRuns == 1 \in live => \E p \in Pids : \A e \in Pids : state[e] = "READY" <=> e = p

\* info_breakpoints fills exactly the entries 0 .. size-1 of the caller's array,
\* oldest breakpoint first, no address twice: size, which do_info_breakpoints
\* computes the index from, never disagrees with the list.
InfoInOrder ==
    \A d \in dbg :
        LET ubp == InfoBreakpoints(d) IN
        /\ info[d].size \in 0 .. MAX_BREAKPOINTS
        /\ DOMAIN ubp = 0 .. info[d].size - 1
        /\ \A e, g \in DOMAIN ubp :
              e < g => ubp[e].num < ubp[g].num /\ ubp[e].addr # ubp[g].addr

\* A lone debugger's list tells the truth about the code that is shared by all:
\* INT3 is in exactly the functions with an enabled breakpoint.
CodeMatchesList ==
    \A d \in dbg : Debuggers = {d} =>
        \A f \in Funcs :
            code[f] = "INT3_OPCODE" <=>
                \E b \in Range(info[d].list) : b.addr = f /\ b.status = 1

\* A process with stack s, frame pointer b and instruction pointer r is in the
\* calls c.
AsCalled(s, b, r, c) ==
    LET n == Len(c) IN
    /\ n > 0 /\ r.func = c[n]
    /\ Len(s) = 2 * n
    /\ \A i \in 1 .. n : /\ s[2*i - 1] = IF i = 1 THEN END_ADDR ELSE c[i-1]
                        /\ s[2*i] = 2 * (i-1)
    /\ b = IF r.trapped THEN 2 * (n-1) ELSE 2 * n

\* A breakpoint leaves no trace in the debuggee: the stack, the frame pointer and
\* the function it is in are what its calls and returns alone make them, so
\* every return goes to the caller.  (int3_handler does the push %rbp that the
\* INT3 displaced, debug.c:98-99.)
Transparent == \A p \in live : AsCalled(stack[p], rbp[p], rip[p], calls[p])

\* do_backtrace: the entries before END_ADDR.
Shown(d) ==
    LET bt == info[d].backtrace_info
        n  == CHOOSE i \in 0 .. MAX_BACKTRACE :
                 /\ i = MAX_BACKTRACE \/ bt[i] = END_ADDR
                 /\ \A j \in 0 .. i-1 : bt[j] # END_ADDR
    IN  [i \in 1 .. n |-> bt[i-1]]

\* When wait_and_continue has returned the address of a function, some child
\* sleeps at the breakpoint of that function, and backtrace shows the functions
\* it is in, innermost first, as many as fit.
BacktraceShowsCalls ==
    \A d \in dbg : told[d] \in Funcs =>
        \E c \in Children(d) :
            /\ state[c] = "WAITING"
            /\ rip[c] = Behind(told[d])
            /\ LET depth == Len(calls[c])
                   n == IF depth < MAX_BACKTRACE THEN depth ELSE MAX_BACKTRACE
               IN  Shown(d) = [i \in 1 .. n |-> calls[c][depth + 1 - i]]

\* Faulty variant: entry_rsp as it is.
EntryRsp(d) == Len(stack[FirstChild(d)])

\* do_info_registers reports the stack pointer of the child plus one word, the
\* one that int3_handler pushed; it does so whether the child has trapped or not.
ReportedRsp(d) == Len(stack[FirstChild(d)]) - 1

\* For a child at a breakpoint the reported stack pointer is the one of the
\* debuggee at the first byte of the function: it points to the return address
\* to the caller (debug.c:314 takes back what debug.c:98 did, two system calls
\* and possibly several processes later).
RegistersAtBreakpoint ==
    \A d \in dbg : RunsDebugger(d) /\ Children(d) # {} =>
        LET c == FirstChild(d) IN
        rip[c].trapped => /\ rip[c].func = calls[c][Len(calls[c])]
                          /\ stack[c][ReportedRsp(d)] = calls[c][Len(calls[c]) - 1]
=============================================================================
