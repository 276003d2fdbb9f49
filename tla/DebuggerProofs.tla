--------------------------- MODULE DebuggerProofs ---------------------------
(***************************************************************************)
(* Proofs about Debugger, for every number of processes, breakpoints,      *)
(* backtrace entries and frames.                                           *)
(***************************************************************************)
EXTENDS Debugger, KeepingProofs, SequenceTheorems

\* The part of the type invariant that the proofs need.
Types ==
    /\ state \in [Pids -> {"UNUSED", "READY", "WAITING"}]
    /\ ppid \in [Pids -> 0 .. MAX_PROCESSES - 1]
    /\ dbg \subseteq Pids
    /\ rip = [e \in Pids |-> rip[e]]

\* The processes from the first one down to the one that runs: each but the first
\* is the only one among them whose parent is its parent, that parent is a
\* debugger among them, and the one that runs is nobody's parent.  All above it
\* sleep in wait_and_continue, none at a breakpoint.
Chain(S, p) ==
    /\ {1, p} \subseteq S
    /\ \A e \in Pids : state[e] = "READY" <=> e = p
    /\ \A e \in S \ {1} : ppid[e] \in (S \cap dbg) \ {p}
    /\ \A e, g \in S \ {1} : ppid[e] = ppid[g] => e = g
    /\ \A e \in S \ {p} : ~ rip[e].trapped

\* When the first process has exited, nothing runs any more.
Turns ==
    /\ ppid[1] = 0
    /\ 1 \in live => \E S \in SUBSET live, p \in Pids : Chain(S, p)
    /\ 1 \notin live => \A e \in Pids : state[e] # "READY"

TInv == Types /\ Turns

LEMMA OneIsPid == 1 \in Pids /\ 0 \notin Pids /\ MAX_PROCESSES \in Nat
BY Sizes DEF Pids

LEMMA FirstChildProperties ==
  ASSUME NEW d, Children(d) # {}
  PROVE  FirstChild(d) \in Children(d)
<1>1. Children(d) \subseteq Nat
  BY OneIsPid DEF Children, live, Pids
<1>2. \E c \in Children(d) : \A e \in Children(d) : c <= e
  BY <1>1, LeastNat
<1> QED BY <1>2 DEF FirstChild

LEMMA TurnsInit == Init => TInv
<1> SUFFICES ASSUME Init
             PROVE  TInv
  OBVIOUS
<1>1. Types
  BY OneIsPid, Sizes DEF Init, Types
<1>2. live = {1}
  BY OneIsPid DEF Init, live
<1>3. Chain({1}, 1)
  BY OneIsPid DEF Init, Chain
<1>4. ppid[1] = 0
  BY OneIsPid DEF Init
<1> QED BY <1>1, <1>2, <1>3, <1>4, OneIsPid DEF TInv, Turns

\* A step that changes nobody's state or parent, takes nobody's debug_info and
\* moves only the process that runs.
LEMMA TurnsKept ==
  ASSUME TInv, state' = state, ppid' = ppid, dbg \subseteq dbg', dbg' \subseteq Pids,
         rip' = [e \in Pids |-> rip'[e]],
         \A e \in Pids : state[e] # "READY" => rip'[e] = rip[e]
  PROVE  TInv'
<1>1. Types' /\ ppid'[1] = 0 /\ live' = live
  BY DEF TInv, Types, Turns, live
<1>2. ASSUME NEW S \in SUBSET live, NEW p \in Pids, Chain(S, p)
      PROVE  Chain(S, p)'
  <2>1. \A e \in S \ {p} : rip'[e] = rip[e]
    BY <1>2 DEF Chain, live
  <2> QED BY <1>2, <2>1 DEF Chain
<1>3. 1 \in live' => \E S \in SUBSET live', p \in Pids : Chain(S, p)'
  BY <1>1, <1>2 DEF TInv, Turns
<1> QED BY <1>1, <1>3 DEF TInv, Turns

LEMMA TurnsFork ==
  ASSUME TInv, NEW d \in Pids, NEW c \in Pids, Fork(d, c)
  PROVE  TInv'
<1>1. /\ d \in live /\ state[d] = "READY" /\ c \notin live /\ c # d
      /\ state' = [state EXCEPT ![c] = "WAITING"]
      /\ ppid' = [ppid EXCEPT ![c] = d]
      /\ dbg' = dbg \ {c}
      /\ rip' = [rip EXCEPT ![c] = rip[d]]
  BY DEF Fork, RunsDebugger, Runs, live, ChildState
<1>2. 1 \in live
  BY <1>1 DEF TInv, Turns
<1>3. PICK S \in SUBSET live, p \in Pids : Chain(S, p)
  BY <1>2 DEF TInv, Turns
<1>4. c # 1 /\ c \notin S
  BY <1>1, <1>2, <1>3
<1>5. Types'
  <2>1. state' \in [Pids -> {"UNUSED", "READY", "WAITING"}] /\ dbg' \subseteq Pids
    BY <1>1 DEF TInv, Types
  <2>2. ppid' \in [Pids -> 0 .. MAX_PROCESSES - 1]
    BY <1>1, OneIsPid DEF TInv, Types, Pids
  <2>3. rip' = [e \in Pids |-> rip'[e]]
    BY <1>1 DEF TInv, Types
  <2> QED BY <2>1, <2>2, <2>3 DEF Types
<1>6. live' = live \cup {c}
  BY <1>1 DEF live, TInv, Types
<1>7. Chain(S, p)'
  <2>1. \A e \in Pids : state'[e] = "READY" <=> e = p
    BY <1>1, <1>3 DEF Chain, TInv, Types
  <2>2. \A e \in S : e \in Pids /\ ppid'[e] = ppid[e] /\ rip'[e] = rip[e]
    BY <1>1, <1>3, <1>4 DEF TInv, Types, live
  <2> QED BY <1>1, <1>3, <1>4, <2>1, <2>2 DEF Chain
<1>8. ppid'[1] = 0
  BY <1>1, <1>4, OneIsPid DEF TInv, Turns, Types
<1> QED BY <1>2, <1>3, <1>5, <1>6, <1>7, <1>8 DEF TInv, Turns

LEMMA TurnsWait ==
  ASSUME TInv, NEW d \in Pids, WaitAndContinue(d)
  PROVE  TInv'
<1>1. PICK c \in Pids :
        /\ c \in live /\ ppid[c] = d
        /\ state' = [state EXCEPT ![d] = "WAITING", ![c] = "READY"]
  BY FirstChildProperties DEF WaitAndContinue, Children, live
<1>2. /\ state[d] = "READY" /\ d \in dbg /\ ppid' = ppid /\ dbg' = dbg
      /\ rip' = rip /\ ~ rip[d].trapped
  BY DEF WaitAndContinue, RunsDebugger, Runs, userVars
<1>3. 1 \in live
  BY <1>2 DEF TInv, Turns
<1>4. PICK S \in SUBSET live, p \in Pids : Chain(S, p)
  BY <1>3 DEF TInv, Turns
<1>5. p = d
  BY <1>2, <1>4 DEF Chain
<1>6. c # 1 /\ c \notin S /\ c # d
  <2>1. c # 1
    BY <1>1, OneIsPid DEF TInv, Turns
  <2> QED BY <2>1, <1>1, <1>2, <1>4, <1>5 DEF Chain
<1>7. Types'
  BY <1>1, <1>2 DEF TInv, Types
<1>8. live' = live
  BY <1>1, <1>2 DEF live, TInv, Types
<1>9. Chain(S \cup {c}, c)'
  <2>1. \A e \in Pids : state'[e] = "READY" <=> e = c
    BY <1>1, <1>2, <1>4, <1>5, <1>6 DEF Chain, TInv, Types
  <2>2. \A e \in (S \cup {c}) \ {1} : ppid'[e] \in ((S \cup {c}) \cap dbg') \ {c}
    BY <1>1, <1>2, <1>4, <1>5, <1>6 DEF Chain
  <2>3. \A e, g \in (S \cup {c}) \ {1} : ppid'[e] = ppid'[g] => e = g
    BY <1>1, <1>2, <1>4, <1>5, <1>6 DEF Chain
  <2>4. \A e \in (S \cup {c}) \ {c} : ~ rip'[e].trapped
    BY <1>2, <1>4, <1>5 DEF Chain
  <2> QED BY <1>4, <2>1, <2>2, <2>3, <2>4 DEF Chain
<1> QED BY <1>1, <1>2, <1>3, <1>4, <1>7, <1>8, <1>9 DEF TInv, Turns

\* The end of a chain is taken off it and its parent runs again.
LEMMA ParentRuns ==
  ASSUME TInv, NEW p \in Pids, p # 1, state[p] = "READY", ppid[p] \in dbg,
         NEW s \in {"UNUSED", "WAITING"},
         state' = [e \in Pids |-> IF e = p THEN s
                                  ELSE IF e = ppid[p] THEN "READY" ELSE state[e]],
         ppid' = ppid, dbg \ {p} \subseteq dbg', dbg' \subseteq Pids,
         rip' = [e \in Pids |-> rip'[e]], \A e \in Pids \ {p} : rip'[e] = rip[e]
  PROVE  TInv'
<1>1. 1 \in live
  BY DEF TInv, Turns
<1>2. PICK S \in SUBSET live, r \in Pids : Chain(S, r)
  BY <1>1 DEF TInv, Turns
<1>3. r = p
  BY <1>2 DEF Chain
<1> DEFINE d == ppid[p]
<1>4. d \in S /\ d \in Pids /\ d # p
  BY <1>2, <1>3 DEF Chain, live
<1>5. Types'
  BY <1>4 DEF TInv, Types
<1>6. S \ {p} \subseteq live' /\ 1 \in live'
  BY <1>1, <1>2, <1>4 DEF live, TInv, Types
<1>7. Chain(S \ {p}, d)'
  <2>1. \A e \in Pids : state'[e] = "READY" <=> e = d
    BY <1>2, <1>3, <1>4 DEF Chain
  <2>2. \A e \in (S \ {p}) \ {1} : ppid'[e] \in ((S \ {p}) \cap dbg') \ {d}
    BY <1>2, <1>3, <1>4 DEF Chain
  <2>3. \A e, g \in (S \ {p}) \ {1} : ppid'[e] = ppid'[g] => e = g
    BY <1>2 DEF Chain
  <2>4. {1, d} \subseteq S \ {p}
    BY <1>2, <1>4 DEF Chain
  <2>5. \A e \in (S \ {p}) \ {d} : ~ rip'[e].trapped
    BY <1>2, <1>3 DEF Chain, live
  <2> QED BY <2>1, <2>2, <2>3, <2>4, <2>5 DEF Chain
<1> QED BY <1>4, <1>5, <1>6, <1>7 DEF TInv, Turns

LEMMA TurnsHit ==
  ASSUME TInv, NEW p \in Pids, NEW f \in Funcs, Hit(p, f)
  PROVE  TInv'
<1>1. /\ state[p] = "READY" /\ ppid[p] \in dbg
      /\ state' = [state EXCEPT ![p] = "WAITING", ![ppid[p]] = "READY"]
      /\ ppid' = ppid /\ dbg' = dbg
      /\ rip' = [rip EXCEPT ![p] = Behind(f)]
  BY DEF Hit, CanCall, Runs
<1>2. p # 1
  BY <1>1, OneIsPid DEF TInv, Turns, Types
<1>3. ppid[p] # p
  <2>1. 1 \in live
    BY <1>1 DEF TInv, Turns
  <2>2. PICK S \in SUBSET live, r \in Pids : Chain(S, r)
    BY <2>1 DEF TInv, Turns
  <2> QED BY <2>2, <1>1, <1>2 DEF Chain
<1>4. state' = [e \in Pids |-> IF e = p THEN "WAITING"
                               ELSE IF e = ppid[p] THEN "READY" ELSE state[e]]
  BY <1>1, <1>3 DEF TInv, Types
<1>5. dbg \ {p} \subseteq dbg' /\ dbg' \subseteq Pids
  BY <1>1 DEF TInv, Types
<1>6. rip' = [e \in Pids |-> rip'[e]] /\ \A e \in Pids \ {p} : rip'[e] = rip[e]
  BY <1>1 DEF TInv, Types
<1> HIDE DEF TInv
<1> QED BY <1>1, <1>2, <1>4, <1>5, <1>6, ParentRuns

LEMMA TurnsExit ==
  ASSUME TInv, NEW p \in Pids, Exit(p)
  PROVE  TInv'
<1>1. /\ state[p] = "READY"
      /\ state' = [e \in Pids |-> IF e = p THEN "UNUSED"
                     ELSE IF e \in WokenByExit(p) THEN "READY" ELSE state[e]]
      /\ ppid' = ppid /\ dbg' = dbg \ {p} /\ rip' = rip
  BY DEF Exit, Runs, userVars
<1>2. PICK S \in SUBSET live, r \in Pids : Chain(S, r)
  BY <1>1 DEF TInv, Turns
<1>3. r = p
  BY <1>1, <1>2 DEF Chain
<1>4. CASE p = 1
  <2>1. WokenByExit(p) = {}
    BY <1>4, OneIsPid DEF WokenByExit, TInv, Turns
  <2>2. state' = [e \in Pids |-> IF e = 1 THEN "UNUSED" ELSE state[e]]
    BY <1>1, <1>4, <2>1
  <2>3. \A e \in Pids : state'[e] # "READY"
    BY <2>2, <1>2, <1>3, <1>4 DEF Chain
  <2>4. 1 \notin live'
    BY <2>2, OneIsPid DEF live
  <2>5. Types'
    BY <1>1, <2>2 DEF TInv, Types
  <2> QED BY <1>1, <2>3, <2>4, <2>5 DEF TInv, Turns
<1>5. CASE p # 1
  <2>1. ppid[p] \in dbg /\ ppid[p] \in Pids
    <3>1. p \in S \ {1}
      BY <1>2, <1>3, <1>5 DEF Chain
    <3> QED BY <1>2, <3>1 DEF Chain, TInv, Types
  <2>2. WokenByExit(p) = {ppid[p]}
    BY <2>1 DEF WokenByExit
  <2>3. state' = [e \in Pids |-> IF e = p THEN "UNUSED"
                                 ELSE IF e = ppid[p] THEN "READY" ELSE state[e]]
    BY <1>1, <2>2
  <2>4. dbg \ {p} \subseteq dbg' /\ dbg' \subseteq Pids
    BY <1>1 DEF TInv, Types
  <2>5. rip' = [e \in Pids |-> rip'[e]] /\ \A e \in Pids \ {p} : rip'[e] = rip[e]
    BY <1>1 DEF TInv, Types
  <2> HIDE DEF TInv
  <2> QED BY <1>1, <1>5, <2>1, <2>3, <2>4, <2>5, ParentRuns
<1> QED BY <1>4, <1>5

LEMMA TurnsStep == TInv /\ [Next]_vars => TInv'
<1> SUFFICES ASSUME TInv, [Next]_vars
             PROVE  TInv'
  OBVIOUS
<1>1. CASE UNCHANGED vars
  BY <1>1, TurnsKept DEF vars, debugVars, userVars, TInv, Types
<1>2. ASSUME NEW p \in Pids, BecomeDebugger(p)
      PROVE  TInv'
  BY <1>2, TurnsKept DEF BecomeDebugger, userVars, TInv, Types
<1>3. ASSUME NEW p \in Pids, NEW f \in Funcs,
             \/ SetBreakpoint(p, f)
             \/ RemoveBreakpoint(p, f)
             \/ EnableBreakpoint(p, f)
             \/ DisableBreakpoint(p, f)
      PROVE  TInv'
  <2>1. state' = state /\ ppid' = ppid /\ dbg' = dbg /\ rip' = rip
    BY <1>3 DEF SetBreakpoint, NewBreakpoint, SetStatus, RemoveBreakpoint,
                EnableBreakpoint, DisableBreakpoint, userVars
  <2> QED BY <2>1, TurnsKept DEF TInv, Types
<1>4. ASSUME NEW p \in Pids, (\E f \in Funcs : Call(p, f)) \/ GoOn(p) \/ Return(p)
      PROVE  TInv'
  <2>1. PICK r : rip' = [rip EXCEPT ![p] = r]
    BY <1>4 DEF Call, GoOn, Return
  <2>2. state' = state /\ ppid' = ppid /\ dbg' = dbg /\ state[p] = "READY"
    BY <1>4 DEF Call, GoOn, Return, CanCall, Runs, debugVars
  <2>3. rip' = [e \in Pids |-> rip'[e]] /\ \A e \in Pids \ {p} : rip'[e] = rip[e]
    BY <2>1 DEF TInv, Types
  <2> QED BY <2>2, <2>3, TurnsKept DEF TInv, Types
<1> QED BY <1>1, <1>2, <1>3, <1>4, TurnsFork, TurnsWait, TurnsHit, TurnsExit DEF Next, UserStep

\* debug.c:80-84, 92-101, 139-146, 337-363: debugger and debuggee never run at the
\* same time, and no hand-over leaves both asleep.
THEOREM TurnsTaken == Spec => []OneRuns
<1>1. TInv => OneRuns
  BY DEF TInv, Turns, OneRuns, Chain
<1> QED BY <1>1, TurnsInit, TurnsStep, PTL DEF Spec

----------------------------------------------------------------------------
\* The debuggee's stack.
FrameTypes ==
    /\ dbg \subseteq live
    /\ stack \in [Pids -> Seq(Word)]
    /\ rbp \in [Pids -> Nat]
    /\ rip \in [Pids -> [func: Funcs \cup {Main}, trapped: BOOLEAN]]
    /\ calls \in [Pids -> Seq(Funcs \cup {Main})]

FInv == Types /\ FrameTypes /\ Transparent

\* A call, with the push %rbp of the function done.
LEMMA CallFrame ==
  ASSUME NEW s \in Seq(Word), NEW b \in Nat, NEW c \in Seq(Funcs \cup {Main}),
         NEW r \in [func: Funcs \cup {Main}, trapped: BOOLEAN],
         AsCalled(s, b, r, c), ~ r.trapped, NEW f \in Funcs
  PROVE  /\ s \o <<r.func, b>> \in Seq(Word)
         /\ Len(s \o <<r.func, b>>) = Len(s) + 2
         /\ AsCalled(s \o <<r.func, b>>, Len(s) + 2, In(f), Append(c, f))
         /\ AsCalled(s \o <<r.func, b>>, b, Behind(f), Append(c, f))
<1> DEFINE t == s \o <<r.func, b>>
           d == Append(c, f)
           n == Len(c)
<1>1. /\ n \in Nat /\ n > 0 /\ Len(s) = 2 * n /\ b = 2 * n /\ r.func = c[n]
      /\ \A i \in 1 .. n : /\ s[2*i - 1] = IF i = 1 THEN END_ADDR ELSE c[i-1]
                          /\ s[2*i] = 2 * (i-1)
  BY DEF AsCalled
<1>2. /\ t \in Seq(Word) /\ Len(t) = Len(s) + 2
      /\ \A k \in 1 .. Len(s) : t[k] = s[k]
      /\ t[Len(s) + 1] = r.func /\ t[Len(s) + 2] = b
  <2> DEFINE u == <<r.func, b>>
  <2>1. u \in Seq(Word) /\ Len(u) = 2 /\ u[1] = r.func /\ u[2] = b
    <3>1. r.func \in Word /\ b \in Word
      BY DEF Word
    <3> QED BY <3>1
  <2> HIDE DEF u
  <2>2. /\ s \o u \in Seq(Word)
        /\ Len(s \o u) = Len(s) + 2
        /\ \A k \in 1 .. Len(s) + 2 :
              (s \o u)[k] = IF k <= Len(s) THEN s[k] ELSE u[k - Len(s)]
    <3>1. /\ s \o u \in Seq(Word)
          /\ Len(s \o u) = Len(s) + Len(u)
          /\ \A k \in 1 .. Len(s) + Len(u) :
                (s \o u)[k] = IF k <= Len(s) THEN s[k] ELSE u[k - Len(s)]
      BY <2>1, ConcatProperties
    <3> QED BY <2>1, <3>1
  <2> QED BY <2>1, <2>2, <1>1 DEF u
<1>3. /\ Len(d) = n + 1 /\ d[n + 1] = f
      /\ \A k \in 1 .. n : d[k] = c[k]
  BY <1>1
<1> HIDE DEF t, d
<1>4. ASSUME NEW i \in 1 .. n + 1
      PROVE  /\ t[2*i - 1] = IF i = 1 THEN END_ADDR ELSE d[i-1]
             /\ t[2*i] = 2 * (i-1)
  <2>1. CASE i \in 1 .. n
    <3>1. 2*i - 1 \in 1 .. Len(s) /\ 2*i \in 1 .. Len(s)
      BY <2>1, <1>1
    <3>2. i # 1 => i - 1 \in 1 .. n
      BY <2>1, <1>1
    <3> QED BY <2>1, <3>1, <3>2, <1>1, <1>2, <1>3
  <2>2. CASE i = n + 1
    <3>1. 2*i - 1 = Len(s) + 1 /\ 2*i = Len(s) + 2 /\ i - 1 = n /\ i # 1
      BY <2>2, <1>1
    <3> QED BY <3>1, <1>1, <1>2, <1>3
  <2> QED BY <2>1, <2>2, <1>1
<1>5. In(f).func = f /\ In(f).trapped = FALSE /\ Behind(f).func = f /\ Behind(f).trapped = TRUE
  BY DEF In, Behind
<1>6. AsCalled(t, Len(s) + 2, In(f), d) /\ AsCalled(t, b, Behind(f), d)
  BY <1>1, <1>2, <1>3, <1>4, <1>5 DEF AsCalled
<1> QED BY <1>2, <1>6 DEF t, d

\* leave; ret goes to the caller.
LEMMA ReturnFrame ==
  ASSUME NEW s \in Seq(Word), NEW b \in Nat, NEW c \in Seq(Funcs \cup {Main}),
         NEW r \in [func: Funcs \cup {Main}, trapped: BOOLEAN],
         AsCalled(s, b, r, c), ~ r.trapped, s[b - 1] # END_ADDR
  PROVE  /\ s[b - 1] \in Funcs \cup {Main}
         /\ s[b] \in Nat
         /\ SubSeq(s, 1, b - 2) \in Seq(Word)
         /\ Front(c) \in Seq(Funcs \cup {Main})
         /\ AsCalled(SubSeq(s, 1, b - 2), s[b], In(s[b - 1]), Front(c))
<1> DEFINE t == SubSeq(s, 1, b - 2)
           d == Front(c)
           n == Len(c)
<1>1. /\ n \in Nat /\ n > 0 /\ Len(s) = 2 * n /\ b = 2 * n
      /\ \A i \in 1 .. n : /\ s[2*i - 1] = IF i = 1 THEN END_ADDR ELSE c[i-1]
                          /\ s[2*i] = 2 * (i-1)
  BY DEF AsCalled
<1>2. n > 1 /\ s[b - 1] = c[n-1] /\ s[b] = 2 * (n-1)
  BY <1>1
<1>3. /\ t \in Seq(Word) /\ Len(t) = 2 * (n-1)
      /\ \A k \in 1 .. 2 * (n-1) : t[k] = s[k]
  BY <1>1, <1>2
<1>4. /\ d \in Seq(Funcs \cup {Main}) /\ Len(d) = n - 1
      /\ \A k \in 1 .. n-1 : d[k] = c[k]
  BY <1>1, <1>2 DEF Front
<1> HIDE DEF t, d
<1>5. ASSUME NEW i \in 1 .. n - 1
      PROVE  /\ t[2*i - 1] = IF i = 1 THEN END_ADDR ELSE d[i-1]
             /\ t[2*i] = 2 * (i-1)
  <2>1. 2*i - 1 \in 1 .. 2 * (n-1) /\ 2*i \in 1 .. 2 * (n-1) /\ i \in 1 .. n
    BY <1>1
  <2>2. i # 1 => i - 1 \in 1 .. n-1
    BY <1>1
  <2> QED BY <2>1, <2>2, <1>1, <1>3, <1>4
<1>6. c[n-1] \in Funcs \cup {Main} /\ d[n-1] = c[n-1]
  <2>1. n - 1 \in 1 .. n - 1 /\ n - 1 \in 1 .. Len(c)
    BY <1>1, <1>2
  <2>2. c[n-1] \in Funcs \cup {Main}
    BY <2>1, ElementOfSeq
  <2> HIDE DEF n
  <2> QED BY <2>1, <2>2, <1>4
<1>7. In(s[b-1]).func = c[n-1] /\ In(s[b-1]).trapped = FALSE
  BY <1>2 DEF In
<1>8. AsCalled(t, s[b], In(s[b-1]), d)
  BY <1>1, <1>2, <1>3, <1>4, <1>5, <1>6, <1>7 DEF AsCalled
<1> QED BY <1>1, <1>2, <1>3, <1>4, <1>6, <1>8 DEF t, d

LEMMA FrameInit == Init => FInv
<1> SUFFICES ASSUME Init
             PROVE  FInv
  OBVIOUS
<1>1. Types
  BY TurnsInit DEF TInv
<1>2. FrameTypes
  BY DEF Init, FrameTypes, Word, In, live
<1>3. AsCalled(<<END_ADDR, 0>>, 2, In(Main), <<Main>>)
  BY DEF AsCalled, In
<1>4. Transparent
  BY <1>3 DEF Init, Transparent, live
<1> QED BY <1>1, <1>2, <1>4 DEF FInv

\* A step that leaves the user's registers and stack alone.
LEMMA FramesKept ==
  ASSUME FInv, Types', UNCHANGED userVars, live' \subseteq live, dbg' \subseteq live'
  PROVE  FInv'
BY DEF FInv, FrameTypes, Transparent, userVars

\* A step of p that ends in a frame that is again as its calls made it.
LEMMA FrameStep ==
  ASSUME FInv, Types', live' \subseteq live, dbg' \subseteq live', NEW p \in Pids,
         NEW s \in Seq(Word), NEW b \in Nat, NEW c \in Seq(Funcs \cup {Main}),
         NEW r \in [func: Funcs \cup {Main}, trapped: BOOLEAN],
         AsCalled(s, b, r, c),
         stack' = [stack EXCEPT ![p] = s], rbp' = [rbp EXCEPT ![p] = b],
         rip' = [rip EXCEPT ![p] = r], calls' = [calls EXCEPT ![p] = c]
  PROVE  FInv'
<1>1. FrameTypes'
  BY DEF FInv, FrameTypes
<1>2. ASSUME NEW q \in live'
      PROVE  AsCalled(stack'[q], rbp'[q], rip'[q], calls'[q])
  <2>1. q \in live /\ q \in Pids
    BY DEF live
  <2>2. CASE q = p
    BY <2>1, <2>2 DEF FInv, FrameTypes
  <2>3. CASE q # p
    <3>1. stack'[q] = stack[q] /\ rbp'[q] = rbp[q] /\ rip'[q] = rip[q] /\ calls'[q] = calls[q]
      BY <2>1, <2>3 DEF FInv, FrameTypes
    <3> QED BY <2>1, <3>1 DEF FInv, Transparent
  <2> QED BY <2>2, <2>3
<1> QED BY <1>1, <1>2 DEF FInv, Transparent

\* A process that runs is in its calls.
LEMMA RunningFrame ==
  ASSUME FInv, NEW p \in Pids, state[p] = "READY"
  PROVE  /\ p \in live
         /\ stack[p] \in Seq(Word) /\ rbp[p] \in Nat /\ calls[p] \in Seq(Funcs \cup {Main})
         /\ rip[p] \in [func: Funcs \cup {Main}, trapped: BOOLEAN]
         /\ AsCalled(stack[p], rbp[p], rip[p], calls[p])
<1>1. p \in live
  BY DEF live
<1> QED BY <1>1 DEF FInv, FrameTypes, Transparent

LEMMA FrameCall ==
  ASSUME FInv, Types', NEW p \in Pids, NEW f \in Funcs, Call(p, f)
  PROVE  FInv'
<1>1. /\ state[p] = "READY" /\ ~ rip[p].trapped
      /\ live' = live /\ dbg' = dbg
      /\ stack' = [stack EXCEPT ![p] = Entered(p)]
      /\ rbp' = [rbp EXCEPT ![p] = Len(Entered(p))]
      /\ rip' = [rip EXCEPT ![p] = In(f)]
      /\ calls' = [calls EXCEPT ![p] = Append(calls[p], f)]
  BY DEF Call, CanCall, Runs, live, debugVars, FInv, FrameTypes
<1>2. /\ Entered(p) \in Seq(Word)
      /\ AsCalled(Entered(p), Len(Entered(p)), In(f), Append(calls[p], f))
  <2>1. /\ Entered(p) \in Seq(Word) /\ Len(Entered(p)) = Len(stack[p]) + 2
        /\ AsCalled(Entered(p), Len(stack[p]) + 2, In(f), Append(calls[p], f))
    BY <1>1, RunningFrame, CallFrame DEF Entered
  <2> QED BY <2>1
<1>3. /\ Len(Entered(p)) \in Nat /\ Append(calls[p], f) \in Seq(Funcs \cup {Main})
      /\ In(f) \in [func: Funcs \cup {Main}, trapped: BOOLEAN]
  BY <1>1, <1>2, RunningFrame DEF In
<1>4. live' \subseteq live /\ dbg' \subseteq live'
  BY <1>1 DEF FInv, FrameTypes
<1> QED BY <1>1, <1>2, <1>3, <1>4, FrameStep

LEMMA FrameHit ==
  ASSUME FInv, Types', NEW p \in Pids, NEW f \in Funcs, Hit(p, f)
  PROVE  FInv'
<1>1. /\ state[p] = "READY" /\ ~ rip[p].trapped /\ ppid[p] \in dbg /\ dbg' = dbg
      /\ state' = [state EXCEPT ![p] = "WAITING", ![ppid[p]] = "READY"]
      /\ stack' = [stack EXCEPT ![p] = Entered(p)]
      /\ rbp' = [rbp EXCEPT ![p] = rbp[p]]
      /\ rip' = [rip EXCEPT ![p] = Behind(f)]
      /\ calls' = [calls EXCEPT ![p] = Append(calls[p], f)]
  BY DEF Hit, CanCall, Runs, Emulated, FInv, FrameTypes
<1>2. /\ Entered(p) \in Seq(Word)
      /\ AsCalled(Entered(p), rbp[p], Behind(f), Append(calls[p], f))
  BY <1>1, RunningFrame, CallFrame DEF Entered
<1>3. /\ Append(calls[p], f) \in Seq(Funcs \cup {Main}) /\ rbp[p] \in Nat
      /\ Behind(f) \in [func: Funcs \cup {Main}, trapped: BOOLEAN]
  BY <1>1, RunningFrame DEF Behind
<1>4. live' = live
  BY <1>1 DEF live, FInv, FrameTypes, Types
<1>5. live' \subseteq live /\ dbg' \subseteq live'
  BY <1>1, <1>4 DEF FInv, FrameTypes
<1> QED BY <1>1, <1>2, <1>3, <1>5, FrameStep

LEMMA FrameGoOn ==
  ASSUME FInv, Types', NEW p \in Pids, GoOn(p)
  PROVE  FInv'
<1>1. /\ state[p] = "READY" /\ rip[p].trapped
      /\ live' = live /\ dbg' = dbg
      /\ stack' = [stack EXCEPT ![p] = stack[p]]
      /\ rbp' = [rbp EXCEPT ![p] = Len(stack[p])]
      /\ rip' = [rip EXCEPT ![p] = In(rip[p].func)]
      /\ calls' = [calls EXCEPT ![p] = calls[p]]
  BY DEF GoOn, live, debugVars, In, FInv, FrameTypes
<1>2. AsCalled(stack[p], Len(stack[p]), In(rip[p].func), calls[p])
  BY <1>1, RunningFrame DEF AsCalled, In
<1>3. Len(stack[p]) \in Nat /\ In(rip[p].func) \in [func: Funcs \cup {Main}, trapped: BOOLEAN]
  BY <1>1, RunningFrame DEF In
<1>4. live' \subseteq live /\ dbg' \subseteq live'
  BY <1>1 DEF FInv, FrameTypes
<1> QED BY <1>1, <1>2, <1>3, <1>4, RunningFrame, FrameStep

LEMMA FrameReturn ==
  ASSUME FInv, Types', NEW p \in Pids, Return(p)
  PROVE  FInv'
<1> DEFINE s == stack[p]
           b == rbp[p]
<1>1. /\ state[p] = "READY" /\ ~ rip[p].trapped /\ s[b - 1] # END_ADDR
      /\ live' = live /\ dbg' = dbg
      /\ stack' = [stack EXCEPT ![p] = SubSeq(s, 1, b - 2)]
      /\ rbp' = [rbp EXCEPT ![p] = s[b]]
      /\ rip' = [rip EXCEPT ![p] = In(s[b - 1])]
      /\ calls' = [calls EXCEPT ![p] = Front(calls[p])]
  BY DEF Return, Runs, live, debugVars, FInv, FrameTypes
<1>2. /\ s[b - 1] \in Funcs \cup {Main} /\ s[b] \in Nat
      /\ SubSeq(s, 1, b - 2) \in Seq(Word) /\ Front(calls[p]) \in Seq(Funcs \cup {Main})
      /\ AsCalled(SubSeq(s, 1, b - 2), s[b], In(s[b - 1]), Front(calls[p]))
  BY <1>1, RunningFrame, ReturnFrame
<1>3. In(s[b - 1]) \in [func: Funcs \cup {Main}, trapped: BOOLEAN]
  BY <1>2 DEF In
<1>4. live' \subseteq live /\ dbg' \subseteq live'
  BY <1>1 DEF FInv, FrameTypes
<1> QED BY <1>1, <1>2, <1>3, <1>4, FrameStep

LEMMA FrameFork ==
  ASSUME FInv, Types', NEW d \in Pids, NEW c \in Pids, Fork(d, c)
  PROVE  FInv'
<1>1. /\ state[d] = "READY" /\ dbg' = dbg \ {c}
      /\ state' = [state EXCEPT ![c] = "WAITING"]
      /\ stack' = [stack EXCEPT ![c] = stack[d]]
      /\ rbp' = [rbp EXCEPT ![c] = rbp[d]]
      /\ rip' = [rip EXCEPT ![c] = rip[d]]
      /\ calls' = [calls EXCEPT ![c] = calls[d]]
  BY DEF Fork, RunsDebugger, Runs, ChildState
<1>2. live' = live \cup {c}
  BY <1>1 DEF live, FInv, Types
<1>3. d \in live /\ AsCalled(stack[d], rbp[d], rip[d], calls[d])
  BY <1>1, RunningFrame
<1>4. FrameTypes'
  BY <1>1, <1>2 DEF FInv, FrameTypes
<1>5. ASSUME NEW q \in live'
      PROVE  AsCalled(stack'[q], rbp'[q], rip'[q], calls'[q])
  <2>1. CASE q = c
    <3>1. stack'[q] = stack[d] /\ rbp'[q] = rbp[d] /\ rip'[q] = rip[d] /\ calls'[q] = calls[d]
      BY <1>1, <2>1 DEF FInv, FrameTypes
    <3> QED BY <1>3, <3>1
  <2>2. CASE q # c
    <3>1. q \in live /\ q \in Pids
      BY <1>2, <2>2 DEF live
    <3>2. stack'[q] = stack[q] /\ rbp'[q] = rbp[q] /\ rip'[q] = rip[q] /\ calls'[q] = calls[q]
      BY <1>1, <2>2, <3>1 DEF FInv, FrameTypes
    <3> QED BY <3>1, <3>2 DEF FInv, Transparent
  <2> QED BY <2>1, <2>2
<1> QED BY <1>4, <1>5 DEF FInv, Transparent

LEMMA FrameNext == TInv /\ FInv /\ [Next]_vars => FInv'
<1> SUFFICES ASSUME TInv, FInv, [Next]_vars
             PROVE  FInv'
  OBVIOUS
<1>1. Types'
  BY TurnsStep DEF TInv
<1>2. CASE UNCHANGED vars
  BY <1>1, <1>2, FramesKept DEF vars, debugVars, FInv, FrameTypes, live
<1>3. ASSUME NEW p \in Pids, BecomeDebugger(p)
      PROVE  FInv'
  <2>1. UNCHANGED userVars /\ live' = live /\ p \in live /\ dbg' = dbg \cup {p}
    BY <1>3 DEF BecomeDebugger, Runs, live
  <2> QED BY <1>1, <2>1, FramesKept DEF FInv, FrameTypes
<1>4. ASSUME NEW p \in Pids, NEW f \in Funcs,
             \/ SetBreakpoint(p, f)
             \/ RemoveBreakpoint(p, f)
             \/ EnableBreakpoint(p, f)
             \/ DisableBreakpoint(p, f)
      PROVE  FInv'
  <2>1. UNCHANGED userVars /\ state' = state /\ dbg' = dbg
    BY <1>4 DEF SetBreakpoint, NewBreakpoint, SetStatus, RemoveBreakpoint,
                EnableBreakpoint, DisableBreakpoint
  <2>2. live' = live
    BY <2>1 DEF live
  <2> QED BY <1>1, <2>1, <2>2, FramesKept DEF FInv, FrameTypes
<1>5. ASSUME NEW p \in Pids, WaitAndContinue(p)
      PROVE  FInv'
  <2>1. PICK c \in Pids :
          /\ c \in live /\ p \in live
          /\ state' = [state EXCEPT ![p] = "WAITING", ![c] = "READY"]
    BY <1>5, FirstChildProperties
       DEF WaitAndContinue, Children, RunsDebugger, Runs, live
  <2>2. live' = live
    BY <2>1 DEF live, FInv, Types
  <2>3. UNCHANGED userVars /\ dbg' = dbg
    BY <1>5 DEF WaitAndContinue
  <2> QED BY <1>1, <2>2, <2>3, FramesKept DEF FInv, FrameTypes
<1>6. ASSUME NEW p \in Pids, Exit(p)
      PROVE  FInv'
  <2>1. UNCHANGED userVars /\ dbg' = dbg \ {p}
    BY <1>6 DEF Exit
  <2>2. live' = live \ {p}
    <3>1. state' = [e \in Pids |-> IF e = p THEN "UNUSED"
                       ELSE IF e \in WokenByExit(p) THEN "READY" ELSE state[e]]
      BY <1>6 DEF Exit
    <3>2. \A e \in WokenByExit(p) : e \in live
      BY DEF WokenByExit, FInv, FrameTypes
    <3> QED BY <3>1, <3>2 DEF live
  <2> QED BY <1>1, <2>1, <2>2, FramesKept DEF FInv, FrameTypes
<1> QED BY <1>1, <1>2, <1>3, <1>4, <1>5, <1>6,
           FrameFork, FrameCall, FrameHit, FrameGoOn, FrameReturn DEF Next, UserStep

\* debug.c:92-118: a breakpoint leaves the stack, the frame pointer and the way
\* back of the debuggee as they are without it.
THEOREM BreakpointsTransparent == Spec => []Transparent
<1>1. Init => TInv /\ FInv
  BY TurnsInit, FrameInit
<1>2. TInv /\ FInv /\ [Next]_vars => TInv' /\ FInv'
  BY TurnsStep, FrameNext
<1>3. FInv => Transparent
  BY DEF FInv
<1> QED BY <1>1, <1>2, <1>3, PTL DEF Spec

----------------------------------------------------------------------------
\* The list of breakpoints.  Newer ones are nearer to the head, no number is
\* given twice, and no address is in the list twice.
ListOK(l, n) ==
    /\ l \in Seq(Breakpoint)
    /\ \A i, j \in 1 .. Len(l) :
          i < j => l[j].num < l[i].num /\ l[i].addr # l[j].addr
    /\ \A i \in 1 .. Len(l) : l[i].num <= n

Info(l, z, n, x) == [list |-> l, size |-> z, breakpt_num |-> n, backtrace_info |-> x]

InfoOK(r) ==
    /\ r = Info(r.list, r.size, r.breakpt_num, r.backtrace_info)
    /\ r.breakpt_num \in Nat
    /\ ListOK(r.list, r.breakpt_num)
    /\ r.size = Len(r.list)
    /\ r.size <= MAX_BREAKPOINTS

LEMMA EmptyOK == InfoOK(EmptyInfo)
BY Sizes DEF InfoOK, Info, ListOK, EmptyInfo

LEMMA NoRepeat ==
  ASSUME NEW l, NEW n, ListOK(l, n), NEW i \in 1 .. Len(l), NEW j \in 1 .. Len(l),
         l[i].addr = l[j].addr
  PROVE  i = j
BY DEF ListOK

\* The places that the three operations on a list leave behind.
LEMMA ListAdd ==
  ASSUME NEW l, NEW n \in Nat, ListOK(l, n), NEW b \in Breakpoint, b.num = n + 1,
         \A i \in 1 .. Len(l) : l[i].addr # b.addr
  PROVE  /\ ListOK(<<b>> \o l, n + 1) /\ Len(<<b>> \o l) = Len(l) + 1
         /\ Range(<<b>> \o l) = Range(l) \cup {b}
<1> DEFINE u == <<b>> \o l
<1>1. /\ l \in Seq(Breakpoint) /\ Len(l) \in Nat /\ u \in Seq(Breakpoint) /\ Len(u) = Len(l) + 1
      /\ u[1] = b /\ \A i \in 2 .. Len(l) + 1 : u[i] = l[i-1]
  BY DEF ListOK
<1>2. DOMAIN l = 1 .. Len(l) /\ DOMAIN u = 1 .. Len(l) + 1
  BY <1>1
<1> HIDE DEF u
<1>3. \A i \in 1 .. Len(l) + 1 : i = 1 \/ (i \in 2 .. Len(l) + 1 /\ i-1 \in 1 .. Len(l) /\ u[i] = l[i-1])
  BY <1>1
<1>4. \A i \in 1 .. Len(l) : l[i].num <= n /\ l[i].num \in Nat
  <2>1. \A i \in 1 .. Len(l) : l[i] \in Breakpoint
    BY <1>1
  <2>2. \A x \in Breakpoint : x.num \in Nat
    BY Sizes DEF Breakpoint
  <2> QED BY <2>1, <2>2 DEF ListOK
<1>5. \A i, j \in 1 .. Len(u) : i < j => u[j].num < u[i].num /\ u[i].addr # u[j].addr
  <2> SUFFICES ASSUME NEW i \in 1 .. Len(l) + 1, NEW j \in 1 .. Len(l) + 1, i < j
               PROVE  u[j].num < u[i].num /\ u[i].addr # u[j].addr
    BY <1>1
  <2>1. j-1 \in 1 .. Len(l) /\ u[j] = l[j-1]
    BY <1>1, <1>3
  <2>2. CASE i = 1
    BY <2>1, <2>2, <1>1, <1>4
  <2>3. CASE i # 1
    <3>1. i-1 \in 1 .. Len(l) /\ u[i] = l[i-1] /\ i-1 < j-1
      BY <2>3, <1>3
    <3> QED BY <2>1, <3>1 DEF ListOK
  <2> QED BY <2>2, <2>3
<1>6. \A i \in 1 .. Len(u) : u[i].num <= n + 1
  <2> SUFFICES ASSUME NEW i \in 1 .. Len(l) + 1
               PROVE  u[i].num <= n + 1
    BY <1>1
  <2>1. CASE i = 1
    BY <2>1, <1>1
  <2>2. CASE i # 1
    BY <2>2, <1>3, <1>4
  <2> QED BY <2>1, <2>2
<1>7. Range(u) = Range(l) \cup {b}
  <2>1. ASSUME NEW x \in Range(u)
        PROVE  x \in Range(l) \cup {b}
    <3>1. PICK i \in 1 .. Len(l) + 1 : x = u[i]
      BY <1>2 DEF Range
    <3>2. CASE i = 1
      BY <3>1, <3>2, <1>1
    <3>3. CASE i # 1
      <4>1. i-1 \in DOMAIN l /\ x = l[i-1]
        BY <3>1, <3>3, <1>2, <1>3
      <4> QED BY <4>1 DEF Range
    <3> QED BY <3>2, <3>3
  <2>2. ASSUME NEW i \in DOMAIN l
        PROVE  l[i] \in Range(u)
    <3>1. i + 1 \in DOMAIN u /\ i + 1 \in 2 .. Len(l) + 1 /\ (i + 1) - 1 = i
      BY <1>1, <1>2
    <3>2. u[i + 1] = l[i]
      BY <3>1, <1>1
    <3> QED BY <3>1, <3>2 DEF Range
  <2>3. b \in Range(u)
    <3>1. 1 \in DOMAIN u
      BY <1>1, <1>2
    <3> QED BY <3>1, <1>1 DEF Range
  <2>4. \A x \in Range(l) : x \in Range(u)
    BY <2>2 DEF Range
  <2> QED BY <2>1, <2>3, <2>4
<1> QED BY <1>1, <1>5, <1>6, <1>7 DEF ListOK, u

LEMMA ListRemove ==
  ASSUME NEW l, NEW n \in Nat, ListOK(l, n), NEW k \in 1 .. Len(l)
  PROVE  /\ ListOK(RemoveAt(l, k), n) /\ Len(RemoveAt(l, k)) = Len(l) - 1
         /\ Range(RemoveAt(l, k)) = {b \in Range(l) : b.addr # l[k].addr}
<1> DEFINE u == RemoveAt(l, k)
           at(i) == IF i < k THEN i ELSE i + 1
<1>1. /\ l \in Seq(Breakpoint) /\ Len(l) \in Nat /\ u \in Seq(Breakpoint) /\ Len(u) = Len(l) - 1
      /\ \A i \in 1 .. Len(l) - 1 : u[i] = l[at(i)]
  <2>1. l \in Seq(Breakpoint) /\ Len(l) \in Nat
    BY DEF ListOK
  <2>2. /\ u \in Seq(Breakpoint) /\ Len(u) = Len(l) - 1
        /\ \A i \in 1 .. Len(l) - 1 : u[i] = IF i < k THEN l[i] ELSE l[i+1]
    BY <2>1, RemoveAtProperties
  <2> HIDE DEF u
  <2> QED BY <2>1, <2>2
<1>2. DOMAIN l = 1 .. Len(l) /\ DOMAIN u = 1 .. Len(l) - 1
  BY <1>1
<1>3. /\ \A i \in 1 .. Len(l) - 1 : at(i) \in 1 .. Len(l) /\ at(i) # k
      /\ \A i, j \in 1 .. Len(l) - 1 : i < j => at(i) < at(j)
      /\ \A j \in 1 .. Len(l) : j # k => \E i \in 1 .. Len(l) - 1 : at(i) = j
  <2>1. \A i \in 1 .. Len(l) - 1 : at(i) \in 1 .. Len(l) /\ at(i) # k
    BY <1>1
  <2>2. \A i, j \in 1 .. Len(l) - 1 : i < j => at(i) < at(j)
    BY <1>1
  <2>3. ASSUME NEW j \in 1 .. Len(l), j # k
        PROVE  \E i \in 1 .. Len(l) - 1 : at(i) = j
    <3>1. CASE j < k
      BY <3>1, <1>1
    <3>2. CASE k < j
      <4>1. j-1 \in 1 .. Len(l) - 1 /\ at(j-1) = j
        BY <3>2, <1>1
      <4> QED BY <4>1
    <3> QED BY <3>1, <3>2, <2>3
  <2> QED BY <2>1, <2>2, <2>3
<1> HIDE DEF u, at
<1>4. ListOK(u, n)
  <2>1. \A i \in 1 .. Len(u) : u[i].num <= n
    BY <1>1, <1>3 DEF ListOK
  <2>2. ASSUME NEW i \in 1 .. Len(u), NEW j \in 1 .. Len(u), i < j
        PROVE  u[j].num < u[i].num /\ u[i].addr # u[j].addr
    <3>1. /\ at(i) \in 1 .. Len(l) /\ at(j) \in 1 .. Len(l) /\ at(i) < at(j)
          /\ u[i] = l[at(i)] /\ u[j] = l[at(j)]
      BY <2>2, <1>1, <1>3
    <3> QED BY <3>1 DEF ListOK
  <2> QED BY <1>1, <2>1, <2>2 DEF ListOK
<1>5. Range(u) = {b \in Range(l) : b.addr # l[k].addr}
  <2>1. \A j \in 1 .. Len(l) : l[j].addr = l[k].addr => j = k
    BY NoRepeat
  <2>2. ASSUME NEW x \in Range(u)
        PROVE  x \in Range(l) /\ x.addr # l[k].addr
    <3>1. PICK i \in 1 .. Len(l) - 1 : u[i] = x
      BY <1>2 DEF Range
    <3>2. at(i) \in 1 .. Len(l) /\ at(i) # k /\ x = l[at(i)]
      BY <3>1, <1>1, <1>3
    <3> QED BY <3>2, <2>1, <1>2 DEF Range
  <2>3. ASSUME NEW x \in Range(l), x.addr # l[k].addr
        PROVE  x \in Range(u)
    <3>1. PICK j \in 1 .. Len(l) : l[j] = x
      BY <1>2 DEF Range
    <3>2. j # k
      BY <3>1, <2>3
    <3>3. PICK i \in 1 .. Len(l) - 1 : at(i) = j
      BY <3>2, <1>3
    <3>4. u[i] = x
      BY <3>1, <3>3, <1>1
    <3> QED BY <3>4, <1>2 DEF Range
  <2> QED BY <2>2, <2>3
<1> QED BY <1>1, <1>4, <1>5 DEF u

WithStatus(l, k, s) == [l EXCEPT ![k].status = s]

LEMMA ListStatus ==
  ASSUME NEW l, NEW n \in Nat, ListOK(l, n), NEW k \in 1 .. Len(l), NEW s \in {0, 1}
  PROVE  /\ ListOK(WithStatus(l, k, s), n) /\ Len(WithStatus(l, k, s)) = Len(l)
         /\ \A i \in 1 .. Len(l) :
               /\ WithStatus(l, k, s)[i].addr = l[i].addr
               /\ WithStatus(l, k, s)[i].status = IF i = k THEN s ELSE l[i].status
<1> DEFINE u == WithStatus(l, k, s)
<1> USE DEF WithStatus
<1>1. /\ l \in Seq(Breakpoint) /\ Len(l) \in Nat /\ DOMAIN l = 1 .. Len(l)
      /\ \A i \in 1 .. Len(l) : l[i] \in Breakpoint
  BY DEF ListOK
<1>2. /\ DOMAIN u = 1 .. Len(l)
      /\ \A i \in 1 .. Len(l) : u[i] = IF i = k THEN [l[k] EXCEPT !.status = s] ELSE l[i]
  BY <1>1
<1>3. u = [i \in 1 .. Len(l) |-> u[i]]
  BY <1>1
<1> HIDE DEF u
<1>4. \A i \in 1 .. Len(l) :
         /\ u[i] \in Breakpoint /\ u[i].num = l[i].num /\ u[i].addr = l[i].addr
         /\ u[i].status = IF i = k THEN s ELSE l[i].status
  BY <1>1, <1>2 DEF Breakpoint
<1>5. u \in Seq(Breakpoint) /\ Len(u) = Len(l)
  BY <1>1, <1>3, <1>4
<1>6. ListOK(u, n)
  <2>1. \A i, j \in 1 .. Len(l) : i < j => l[j].num < l[i].num /\ l[i].addr # l[j].addr
    BY DEF ListOK
  <2>2. \A i \in 1 .. Len(l) : l[i].num <= n
    BY DEF ListOK
  <2>3. \A i \in 1 .. Len(u) : u[i].num <= n
    BY <1>4, <1>5, <2>2
  <2>4. \A i, j \in 1 .. Len(u) : i < j => u[j].num < u[i].num /\ u[i].addr # u[j].addr
    BY <1>4, <1>5, <2>1
  <2> QED BY <1>5, <2>3, <2>4 DEF ListOK
<1> QED BY <1>4, <1>5, <1>6 DEF u

BInv == /\ info = [d \in Pids |-> info[d]]
        /\ \A d \in Pids : InfoOK(info[d])

LEMMA IndexOfProperties ==
  ASSUME NEW d, InfoOK(info[d]), NEW f, HasBreakpoint(d, f)
  PROVE  IndexOf(d, f) \in 1 .. Len(info[d].list) /\ info[d].list[IndexOf(d, f)].addr = f
<1> DEFINE l == info[d].list
<1>1. l \in Seq(Breakpoint) /\ DOMAIN l = 1 .. Len(l) /\ Len(l) \in Nat
  BY DEF InfoOK, ListOK
<1>2. PICK i \in 1 .. Len(l) : l[i].addr = f
  BY <1>1 DEF HasBreakpoint
<1>3. \A j \in 1 .. i-1 : l[j].addr # f
  <2>1. ASSUME NEW j \in 1 .. i-1
        PROVE  l[j].addr # f
    <3>1. j \in 1 .. Len(l) /\ j < i
      BY <1>1
    <3> QED BY <3>1, <1>2 DEF InfoOK, ListOK
  <2> QED BY <2>1
<1>4. \E k \in DOMAIN l : l[k].addr = f /\ \A j \in 1 .. k-1 : l[j].addr # f
  BY <1>1, <1>2, <1>3
<1> QED BY <1>1, <1>4 DEF IndexOf

\* What the calls about breakpoints make of a debug_info.
WithList(r, l) == [r EXCEPT !.list = l]
WithSize(r, z) == [r EXCEPT !.size = z]
WithNum(r, n)  == [r EXCEPT !.breakpt_num = n]

Added(r, b)     == WithNum(WithSize(WithList(r, <<b>> \o r.list), r.size + 1), b.num)
Removed(r, k)   == WithSize(WithList(r, RemoveAt(r.list, k)), r.size - 1)
Marked(r, k, s) == WithList(r, WithStatus(r.list, k, s))
Seen(r, x)      == [r EXCEPT !.backtrace_info = x]

LEMMA InfoFields ==
  ASSUME NEW l, NEW z, NEW n, NEW x, NEW y
  PROVE  /\ Info(l, z, n, x).list = l /\ Info(l, z, n, x).size = z
         /\ Info(l, z, n, x).breakpt_num = n /\ Info(l, z, n, x).backtrace_info = x
         /\ WithList(Info(l, z, n, x), y) = Info(y, z, n, x)
         /\ WithSize(Info(l, z, n, x), y) = Info(l, y, n, x)
         /\ WithNum(Info(l, z, n, x), y) = Info(l, z, y, x)
<1>1. WithList(Info(l, z, n, x), y) = Info(y, z, n, x)
  BY DEF Info, WithList
<1>2. WithSize(Info(l, z, n, x), y) = Info(l, y, n, x)
  BY DEF Info, WithSize
<1>3. WithNum(Info(l, z, n, x), y) = Info(l, z, y, x)
  BY DEF Info, WithNum
<1>4. /\ Info(l, z, n, x).list = l /\ Info(l, z, n, x).size = z
      /\ Info(l, z, n, x).breakpt_num = n /\ Info(l, z, n, x).backtrace_info = x
  BY DEF Info
<1> QED BY <1>1, <1>2, <1>3, <1>4

LEMMA AddedOK ==
  ASSUME NEW r, InfoOK(r), NEW b \in Breakpoint, b.num = r.breakpt_num + 1,
         \A i \in 1 .. Len(r.list) : r.list[i].addr # b.addr, r.size < MAX_BREAKPOINTS
  PROVE  /\ InfoOK(Added(r, b)) /\ Added(r, b).list = <<b>> \o r.list
         /\ Added(r, b).backtrace_info = r.backtrace_info
<1> DEFINE l == r.list  z == r.size  n == r.breakpt_num  x == r.backtrace_info  u == <<b>> \o l
<1>1. /\ r = Info(l, z, n, x)
      /\ n \in Nat /\ ListOK(l, n) /\ z = Len(l) /\ z < MAX_BREAKPOINTS /\ b.num = n + 1
  BY DEF InfoOK
<1>2. Len(l) \in Nat
  BY <1>1 DEF ListOK
<1>3. ListOK(u, n + 1) /\ Len(u) = Len(l) + 1
  BY <1>1, ListAdd
<1> HIDE DEF l, z, n, x, u
<1>4. Added(r, b) = Info(u, Len(l) + 1, n + 1, x)
  BY <1>1, InfoFields DEF u, l, z, n, Added
<1>5. Len(l) + 1 <= MAX_BREAKPOINTS
  BY <1>1, <1>2, Sizes
<1> DEFINE w == Added(r, b)
<1>6. /\ w = Info(u, Len(l) + 1, n + 1, x)
      /\ w.list = u /\ w.size = Len(l) + 1 /\ w.breakpt_num = n + 1 /\ w.backtrace_info = x
  <2>1. w = Info(u, Len(l) + 1, n + 1, x)
    BY <1>4
  <2> HIDE DEF w
  <2> QED BY <2>1 DEF Info
<1> HIDE DEF w
<1>7. InfoOK(w)
  BY <1>1, <1>2, <1>5, <1>3, <1>6 DEF InfoOK
<1> QED BY <1>6, <1>7 DEF w, u, l, x

LEMMA RemovedOK ==
  ASSUME NEW r, InfoOK(r), NEW k \in 1 .. Len(r.list)
  PROVE  /\ InfoOK(Removed(r, k)) /\ Removed(r, k).list = RemoveAt(r.list, k)
         /\ Removed(r, k).backtrace_info = r.backtrace_info
<1> DEFINE l == r.list  z == r.size  n == r.breakpt_num  x == r.backtrace_info  u == RemoveAt(l, k)
<1>1. /\ r = Info(l, z, n, x)
      /\ n \in Nat /\ ListOK(l, n) /\ z = Len(l) /\ z <= MAX_BREAKPOINTS
  BY DEF InfoOK
<1>2. Len(l) \in Nat
  BY <1>1 DEF ListOK
<1>3. ListOK(u, n) /\ Len(u) = Len(l) - 1
  BY <1>1, ListRemove
<1> HIDE DEF l, z, n, x, u
<1>4. Removed(r, k) = Info(u, Len(l) - 1, n, x)
  BY <1>1, InfoFields DEF u, l, z, n, Removed
<1>5. Len(l) - 1 <= MAX_BREAKPOINTS
  BY <1>1, <1>2, Sizes
<1> DEFINE w == Removed(r, k)
<1>6. /\ w = Info(u, Len(l) - 1, n, x)
      /\ w.list = u /\ w.size = Len(l) - 1 /\ w.breakpt_num = n /\ w.backtrace_info = x
  <2>1. w = Info(u, Len(l) - 1, n, x)
    BY <1>4
  <2> HIDE DEF w
  <2> QED BY <2>1 DEF Info
<1> HIDE DEF w
<1>7. InfoOK(w)
  BY <1>1, <1>2, <1>5, <1>3, <1>6 DEF InfoOK
<1> QED BY <1>6, <1>7 DEF w, u, l, x

LEMMA MarkedOK ==
  ASSUME NEW r, InfoOK(r), NEW k \in 1 .. Len(r.list), NEW s \in {0, 1}
  PROVE  /\ InfoOK(Marked(r, k, s)) /\ Marked(r, k, s).list = WithStatus(r.list, k, s)
         /\ Marked(r, k, s).backtrace_info = r.backtrace_info
<1> DEFINE l == r.list  z == r.size  n == r.breakpt_num  x == r.backtrace_info  u == WithStatus(l, k, s)
<1>1. /\ r = Info(l, z, n, x)
      /\ n \in Nat /\ ListOK(l, n) /\ z = Len(l) /\ z <= MAX_BREAKPOINTS
  BY DEF InfoOK
<1>3. ListOK(u, n) /\ Len(u) = Len(l)
  BY <1>1, ListStatus
<1> HIDE DEF l, z, n, x, u
<1>4. Marked(r, k, s) = Info(u, z, n, x)
  BY <1>1, InfoFields DEF u, l, z, n, Marked
<1> DEFINE w == Marked(r, k, s)
<1>6. /\ w = Info(u, z, n, x)
      /\ w.list = u /\ w.size = z /\ w.breakpt_num = n /\ w.backtrace_info = x
  <2>1. w = Info(u, z, n, x)
    BY <1>4
  <2> HIDE DEF w
  <2> QED BY <2>1 DEF Info
<1> HIDE DEF w
<1>7. InfoOK(w)
  BY <1>1, <1>3, <1>6 DEF InfoOK
<1> QED BY <1>6, <1>7 DEF w, u, l, x

LEMMA SeenOK ==
  ASSUME NEW r, InfoOK(r), NEW x
  PROVE  InfoOK(Seen(r, x)) /\ Seen(r, x).list = r.list /\ Seen(r, x).backtrace_info = x
BY DEF Seen, Info, InfoOK

\* The list after each kind of step.
LEMMA AddStep ==
  ASSUME BInv, NEW d \in Pids, NEW f \in Funcs, NewBreakpoint(d, f)
  PROVE  /\ BInv'
         /\ \A e \in Pids : e # d => info'[e] = info[e]
         /\ \A e \in Pids : info'[e].backtrace_info = info[e].backtrace_info
         /\ \E n : info'[d].list = <<[num |-> n, status |-> 1, addr |-> f]>> \o info[d].list
         /\ Range(info'[d].list) = Range(info[d].list) \cup
                {[num |-> info[d].breakpt_num + 1, status |-> 1, addr |-> f]}
<1> DEFINE b == [num |-> info[d].breakpt_num + 1, status |-> 1, addr |-> f]
<1>1. /\ info = [e \in Pids |-> info[e]] /\ \A e \in Pids : InfoOK(info[e])
      /\ InfoOK(info[d]) /\ info[d].breakpt_num \in Nat
  BY DEF BInv, InfoOK
<1>2. b \in Breakpoint /\ b.num = info[d].breakpt_num + 1 /\ b.addr = f
  BY <1>1, Sizes DEF Breakpoint, NewBreakpoint, NextNum
<1>3. \A i \in 1 .. Len(info[d].list) : info[d].list[i].addr # b.addr
  BY <1>1 DEF NewBreakpoint, HasBreakpoint, InfoOK, ListOK
<1>4. info' = [info EXCEPT ![d] = Added(info[d], b)]
  BY DEF NewBreakpoint, NextNum, Added, WithList, WithSize, WithNum
<1>5. info[d].size < MAX_BREAKPOINTS
  BY DEF NewBreakpoint
<1> HIDE DEF b
<1>6. /\ InfoOK(Added(info[d], b)) /\ Added(info[d], b).list = <<b>> \o info[d].list
      /\ Added(info[d], b).backtrace_info = info[d].backtrace_info
  BY <1>1, <1>2, <1>3, <1>5, AddedOK
<1>7. info' = [e \in Pids |-> info'[e]] /\ \A e \in Pids : info'[e] = IF e = d THEN Added(info[d], b) ELSE info[e]
  BY <1>1, <1>4
<1>8. BInv'
  BY <1>1, <1>6, <1>7 DEF BInv
<1>9. Range(<<b>> \o info[d].list) = Range(info[d].list) \cup {b}
  BY <1>1, <1>2, <1>3, ListAdd DEF InfoOK
<1> QED BY <1>6, <1>7, <1>8, <1>9 DEF b

LEMMA RemoveStep ==
  ASSUME BInv, NEW d \in Pids, NEW f \in Funcs, RemoveBreakpoint(d, f)
  PROVE  /\ BInv'
         /\ \A e \in Pids : e # d => info'[e] = info[e]
         /\ \A e \in Pids : info'[e].backtrace_info = info[e].backtrace_info
         /\ Range(info'[d].list) = {b \in Range(info[d].list) : b.addr # f}
<1> DEFINE k == IndexOf(d, f)
<1>1. /\ info = [e \in Pids |-> info[e]] /\ \A e \in Pids : InfoOK(info[e])
      /\ InfoOK(info[d])
  BY DEF BInv
<1>2. k \in 1 .. Len(info[d].list) /\ info[d].list[k].addr = f
  BY <1>1, IndexOfProperties DEF RemoveBreakpoint
<1>3. info' = [info EXCEPT ![d] = Removed(info[d], k)]
  BY DEF RemoveBreakpoint, Removed, WithList, WithSize
<1> HIDE DEF k
<1>4. /\ InfoOK(Removed(info[d], k)) /\ Removed(info[d], k).list = RemoveAt(info[d].list, k)
      /\ Removed(info[d], k).backtrace_info = info[d].backtrace_info
  BY <1>1, <1>2, RemovedOK
<1>5. info' = [e \in Pids |-> info'[e]] /\ \A e \in Pids : info'[e] = IF e = d THEN Removed(info[d], k) ELSE info[e]
  BY <1>1, <1>3
<1>6. BInv'
  BY <1>1, <1>4, <1>5 DEF BInv
<1>7. Range(RemoveAt(info[d].list, k)) = {b \in Range(info[d].list) : b.addr # info[d].list[k].addr}
  BY <1>1, <1>2, ListRemove DEF InfoOK
<1> QED BY <1>2, <1>4, <1>5, <1>6, <1>7

LEMMA StatusStep ==
  ASSUME BInv, NEW d \in Pids, NEW f \in Funcs, NEW s \in {0, 1}, SetStatus(d, f, s)
  PROVE  /\ BInv'
         /\ \A e \in Pids : e # d => info'[e] = info[e]
         /\ \A e \in Pids : info'[e].backtrace_info = info[e].backtrace_info
         /\ \A g : (\E b \in Range(info'[d].list) : b.addr = g /\ b.status = 1) <=>
               IF g = f THEN s = 1
                        ELSE \E b \in Range(info[d].list) : b.addr = g /\ b.status = 1
<1> DEFINE k == IndexOf(d, f)
           l == info[d].list
           u == info'[d].list
<1>1. /\ info = [e \in Pids |-> info[e]] /\ \A e \in Pids : InfoOK(info[e])
      /\ InfoOK(info[d])
  BY DEF BInv
<1>2. k \in 1 .. Len(l) /\ l[k].addr = f
  BY <1>1, IndexOfProperties DEF SetStatus
<1>3. info' = [info EXCEPT ![d] = Marked(info[d], k, s)]
  BY DEF SetStatus, Marked, WithList, WithStatus
<1> HIDE DEF k
<1>4. /\ InfoOK(Marked(info[d], k, s)) /\ Marked(info[d], k, s).list = WithStatus(info[d].list, k, s)
      /\ Marked(info[d], k, s).backtrace_info = info[d].backtrace_info
  BY <1>1, <1>2, MarkedOK
<1>5. info' = [e \in Pids |-> info'[e]] /\ \A e \in Pids : info'[e] = IF e = d THEN Marked(info[d], k, s) ELSE info[e]
  BY <1>1, <1>3
<1>6. BInv'
  BY <1>1, <1>4, <1>5 DEF BInv
<1>7. u = WithStatus(l, k, s)
  BY <1>4, <1>5
<1> HIDE DEF u
<1>8. /\ ListOK(u, info[d].breakpt_num) /\ Len(u) = Len(l)
      /\ \A i \in 1 .. Len(l) : /\ u[i].addr = l[i].addr
                               /\ u[i].status = IF i = k THEN s ELSE l[i].status
  <2> DEFINE n == info[d].breakpt_num
  <2>1. n \in Nat /\ ListOK(l, n)
    BY <1>1 DEF InfoOK
  <2> HIDE DEF n, l
  <2>2. /\ ListOK(WithStatus(l, k, s), n) /\ Len(WithStatus(l, k, s)) = Len(l)
        /\ \A i \in 1 .. Len(l) :
               /\ WithStatus(l, k, s)[i].addr = l[i].addr
               /\ WithStatus(l, k, s)[i].status = IF i = k THEN s ELSE l[i].status
    BY <2>1, <1>2, ListStatus
  <2> QED BY <1>7, <2>2 DEF n
<1>9. DOMAIN u = 1 .. Len(l) /\ DOMAIN l = 1 .. Len(l)
  BY <1>1, <1>8 DEF InfoOK, ListOK
<1>10. \A i \in 1 .. Len(l) : l[i].addr = f => i = k
  BY <1>1, <1>2, NoRepeat DEF InfoOK
<1> HIDE DEF l
<1>11. ASSUME NEW g
       PROVE  (\E i \in 1 .. Len(l) : u[i].addr = g /\ u[i].status = 1) <=>
                 IF g = f THEN s = 1
                          ELSE \E i \in 1 .. Len(l) : l[i].addr = g /\ l[i].status = 1
  BY <1>2, <1>8, <1>10
<1>12. \A g : /\ (\E b \in Range(u) : b.addr = g /\ b.status = 1)
                    <=> \E i \in 1 .. Len(l) : u[i].addr = g /\ u[i].status = 1
              /\ (\E b \in Range(l) : b.addr = g /\ b.status = 1)
                    <=> \E i \in 1 .. Len(l) : l[i].addr = g /\ l[i].status = 1
  BY <1>9 DEF Range
<1>13. \A e \in Pids : /\ e # d => info'[e] = info[e]
                       /\ info'[e].backtrace_info = info[e].backtrace_info
  BY <1>4, <1>5
<1> QED BY <1>6, <1>11, <1>12, <1>13 DEF u, l

LEMMA HitList ==
  ASSUME BInv, NEW p \in Pids, NEW f \in Funcs, Hit(p, f)
  PROVE  /\ BInv'
         /\ \A e \in Pids : info'[e].list = info[e].list
         /\ \A e \in Pids : info'[e].backtrace_info =
               IF e = ppid[p] THEN Backtrace(f, Emulated(p), info[e].backtrace_info)
                              ELSE info[e].backtrace_info
<1> DEFINE d == ppid[p]
           x == Backtrace(f, Emulated(p), info[d].backtrace_info)
<1>1. info = [e \in Pids |-> info[e]] /\ \A e \in Pids : InfoOK(info[e])
  BY DEF BInv
<1>2. info' = [info EXCEPT ![d] = Seen(info[d], x)]
  BY DEF Hit, Seen
<1> HIDE DEF x, d
<1>3. info' = [e \in Pids |-> info'[e]] /\ \A e \in Pids : info'[e] = IF e = d THEN Seen(info[e], x) ELSE info[e]
  BY <1>1, <1>2
<1>4. BInv' /\ \A e \in Pids : info'[e].list = info[e].list
  BY <1>1, <1>3, SeenOK DEF BInv
<1>5. \A e \in Pids : info'[e].backtrace_info = IF e = d THEN x ELSE info[e].backtrace_info
  BY <1>1, <1>3, SeenOK
<1> QED BY <1>4, <1>5 DEF x, d

LEMMA BreakpointsInit == Init => BInv
BY EmptyOK DEF Init, BInv

LEMMA BreakpointsReset ==
  ASSUME BInv, NEW d \in Pids, info' = [info EXCEPT ![d] = EmptyInfo]
  PROVE  BInv' /\ info'[d] = EmptyInfo /\ \A e \in Pids : e # d => info'[e] = info[e]
<1> DEFINE none == EmptyInfo
<1>1. info = [e \in Pids |-> info[e]] /\ \A e \in Pids : InfoOK(info[e])
  BY DEF BInv
<1>2. InfoOK(none) /\ info' = [info EXCEPT ![d] = none]
  BY EmptyOK
<1> HIDE DEF none
<1>3. info' = [e \in Pids |-> info'[e]] /\ \A e \in Pids : info'[e] = IF e = d THEN none ELSE info[e]
  BY <1>1, <1>2
<1>4. BInv'
  BY <1>1, <1>2, <1>3 DEF BInv
<1> QED BY <1>3, <1>4 DEF none

\* debug.c:165-260: the list keeps its order.
LEMMA BreakpointsNext == BInv /\ [Next]_vars => BInv'
<1> SUFFICES ASSUME BInv, [Next]_vars
             PROVE  BInv'
  OBVIOUS
<1>1. CASE info' = info
  BY <1>1 DEF BInv
<1>2. ASSUME NEW p \in Pids, BecomeDebugger(p) \/ Exit(p)
      PROVE  BInv'
  BY <1>2, BreakpointsReset DEF BecomeDebugger, Exit
<1>3. ASSUME NEW p \in Pids, NEW f \in Funcs,
             \/ SetBreakpoint(p, f)
             \/ RemoveBreakpoint(p, f)
             \/ EnableBreakpoint(p, f)
             \/ DisableBreakpoint(p, f)
      PROVE  BInv'
  <2>1. ASSUME NEW s \in {0, 1}, SetStatus(p, f, s)
        PROVE  BInv'
    BY <2>1, StatusStep
  <2> QED BY <1>3, <2>1, AddStep, RemoveStep DEF SetBreakpoint, EnableBreakpoint, DisableBreakpoint
<1>4. ASSUME NEW p \in Pids, NEW f \in Funcs, Hit(p, f)
      PROVE  BInv'
  BY <1>4, HitList
<1>5. ASSUME NEW p \in Pids,
             \/ \E c \in Pids : Fork(p, c)
             \/ WaitAndContinue(p)
             \/ \E f \in Funcs : Call(p, f)
             \/ GoOn(p)
             \/ Return(p)
      PROVE  info' = info
  BY <1>5 DEF Fork, WaitAndContinue, Call, GoOn, Return, debugVars
<1>6. UNCHANGED vars => info' = info
  BY DEF vars, debugVars
<1> QED BY <1>1, <1>2, <1>3, <1>4, <1>5, <1>6 DEF Next, UserStep

LEMMA ListInOrder == BInv /\ dbg \subseteq Pids => InfoInOrder
<1> SUFFICES ASSUME BInv, dbg \subseteq Pids, NEW d \in dbg
             PROVE  LET ubp == InfoBreakpoints(d) IN
                    /\ info[d].size \in 0 .. MAX_BREAKPOINTS
                    /\ DOMAIN ubp = 0 .. info[d].size - 1
                    /\ \A e, g \in DOMAIN ubp :
                          e < g => ubp[e].num < ubp[g].num /\ ubp[e].addr # ubp[g].addr
  BY DEF InfoInOrder
<1> DEFINE l == info[d].list
           n == Len(l)
           ubp == InfoBreakpoints(d)
<1>1. InfoOK(info[d])
  BY DEF BInv
<1>2. /\ ListOK(l, info[d].breakpt_num) /\ info[d].size = n /\ n <= MAX_BREAKPOINTS
      /\ n \in Nat /\ DOMAIN l = 1 .. n
  BY <1>1 DEF InfoOK, ListOK
<1>3. ubp = [e \in {n - i : i \in 1 .. n} |-> l[n - e]]
  BY <1>2 DEF InfoBreakpoints
<1> HIDE DEF ubp
<1>4. {n - i : i \in 1 .. n} = 0 .. n - 1
  <2> HIDE DEF n
  <2>1. \A e \in 0 .. n - 1 : n - e \in 1 .. n /\ e = n - (n - e)
    BY <1>2
  <2>2. \A i \in 1 .. n : n - i \in 0 .. n - 1
    BY <1>2
  <2> QED BY <2>1, <2>2
<1>5. DOMAIN ubp = 0 .. n - 1 /\ \A e \in 0 .. n - 1 : ubp[e] = l[n - e]
  BY <1>3, <1>4
<1>6. ASSUME NEW e \in 0 .. n - 1, NEW g \in 0 .. n - 1, e < g
      PROVE  ubp[e].num < ubp[g].num /\ ubp[e].addr # ubp[g].addr
  <2>1. n - e \in 1 .. n /\ n - g \in 1 .. n /\ n - g < n - e
    <3> HIDE DEF n
    <3> QED BY <1>2, <1>6
  <2>2. ubp[e] = l[n - e] /\ ubp[g] = l[n - g]
    BY <1>5
  <2> DEFINE i == n - g  j == n - e
  <2>3. i \in 1 .. Len(l) /\ j \in 1 .. Len(l) /\ i < j
    BY <2>1
  <2> HIDE DEF i, j, l
  <2>4. l[j].num < l[i].num /\ l[i].addr # l[j].addr
    BY <2>3, <1>2 DEF ListOK
  <2> QED BY <2>2, <2>4 DEF i, j
<1>7. info[d].size \in 0 .. MAX_BREAKPOINTS
  BY <1>2, Sizes
<1> QED BY <1>2, <1>5, <1>6, <1>7 DEF ubp

\* debug.c:263-281: info_breakpoints finds size and list in agreement, after
\* any sequence of set, remove, enable and disable.
THEOREM InfoCorrect == Spec => []InfoInOrder
<1>1. TInv /\ BInv => InfoInOrder
  BY ListInOrder DEF TInv, Types
<1> QED BY <1>1, TurnsInit, TurnsStep, BreakpointsInit, BreakpointsNext, PTL DEF Spec

----------------------------------------------------------------------------
\* The code and the list.  A lone debugger that has not begun yet has planted
\* nothing; when it has exited nobody can fork any more, so its pid stays free.
ListTells(d) == \A f \in Funcs : code[f] = "INT3_OPCODE" <=>
                   \E b \in Range(info[d].list) : b.addr = f /\ b.status = 1

CInv ==
    /\ code = [f \in Funcs |-> code[f]]
    /\ dbg \subseteq Debuggers
    /\ \A d : Debuggers = {d} =>
          /\ d \in dbg => ListTells(d)
          /\ d \in live \ dbg => \A f \in Funcs : code[f] = "PUSHRBP_OPCODE"

LEMMA CodeInit == Init => CInv
BY DEF Init, CInv

\* A step that gives nobody life and leaves lists and code alone.
LEMMA CodeKept ==
  ASSUME CInv, live' \subseteq live, dbg' = dbg, code' = code,
         \A e \in dbg : info'[e].list = info[e].list
  PROVE  CInv'
BY DEF CInv, ListTells

LEMMA CodeFork ==
  ASSUME CInv, FInv, NEW p \in Pids, NEW c \in Pids, Fork(p, c)
  PROVE  CInv'
<1>1. /\ info' = info /\ code' = code /\ dbg' = dbg \ {c}
      /\ p \in dbg /\ c \notin live /\ dbg \subseteq live
  BY DEF Fork, RunsDebugger, FInv, FrameTypes
<1>2. dbg' = dbg
  BY <1>1
<1>3. \A d : Debuggers = {d} => d \in dbg
  BY <1>1 DEF CInv
<1> QED BY <1>1, <1>2, <1>3 DEF CInv, ListTells

LEMMA CodeBecome ==
  ASSUME CInv, BInv, NEW p \in Pids, BecomeDebugger(p)
  PROVE  CInv'
<1>1. /\ p \in Debuggers \ dbg /\ p \in live /\ dbg' = dbg \cup {p}
      /\ code' = code /\ live' = live
      /\ info' = [info EXCEPT ![p] = EmptyInfo]
  BY DEF BecomeDebugger, Runs, live
<1>2. Range(info'[p].list) = {}
  <2>1. info'[p] = EmptyInfo
    BY <1>1, BreakpointsReset
  <2> QED BY <2>1 DEF EmptyInfo, Range
<1>3. ASSUME NEW d, Debuggers = {d}
      PROVE  /\ d \in dbg' => ListTells(d)'
             /\ d \in (live \ dbg)' => \A f \in Funcs : code'[f] = "PUSHRBP_OPCODE"
  <2>1. p = d /\ \A f \in Funcs : code[f] = "PUSHRBP_OPCODE"
    BY <1>1, <1>3 DEF CInv
  <2> QED BY <1>1, <1>2, <2>1 DEF ListTells
<1> QED BY <1>1, <1>3 DEF CInv

LEMMA CodeExit ==
  ASSUME CInv, BInv, FInv, NEW p \in Pids, Exit(p)
  PROVE  CInv'
<1>1. /\ code' = code /\ dbg' = dbg \ {p} /\ dbg \subseteq live
      /\ info' = [info EXCEPT ![p] = EmptyInfo]
  BY DEF Exit, FInv, FrameTypes
<1>2. live' = live \ {p}
  <2>1. state' = [e \in Pids |-> IF e = p THEN "UNUSED"
                       ELSE IF e \in WokenByExit(p) THEN "READY" ELSE state[e]]
    BY DEF Exit
  <2>2. \A e \in WokenByExit(p) : e \in live
    BY DEF WokenByExit, FInv, FrameTypes
  <2> QED BY <2>1, <2>2 DEF live
<1>3. \A e \in Pids : e # p => info'[e] = info[e]
  BY <1>1, BreakpointsReset
<1>4. dbg \subseteq Pids
  BY DEF FInv, Types
<1> QED BY <1>1, <1>2, <1>3, <1>4 DEF CInv, ListTells

LEMMA CodeCalls ==
  ASSUME CInv, BInv, FInv, NEW p \in Pids, NEW f \in Funcs,
         \/ SetBreakpoint(p, f)
         \/ RemoveBreakpoint(p, f)
         \/ EnableBreakpoint(p, f)
         \/ DisableBreakpoint(p, f)
  PROVE  CInv'
<1>1. /\ p \in dbg /\ dbg' = dbg /\ live' = live
      /\ code = [g \in Funcs |-> code[g]]
      /\ dbg \subseteq Debuggers
  BY DEF SetBreakpoint, NewBreakpoint, SetStatus, RemoveBreakpoint,
         EnableBreakpoint, DisableBreakpoint, RunsDebugger, live, CInv
<1>2. ASSUME NEW o, code' = [code EXCEPT ![f] = o],
             ListTells(p) => \A g \in Funcs : (IF g = f THEN o ELSE code[g]) = "INT3_OPCODE" <=>
                   \E b \in Range(info'[p].list) : b.addr = g /\ b.status = 1
      PROVE  CInv'
  <2>1. code' = [g \in Funcs |-> code'[g]] /\ \A g \in Funcs : code'[g] = IF g = f THEN o ELSE code[g]
    BY <1>1, <1>2
  <2>2. ListTells(p) => ListTells(p)'
    BY <1>2, <2>1 DEF ListTells
  <2>3. ASSUME NEW d, Debuggers = {d}
        PROVE  d = p /\ ListTells(p)
    BY <1>1, <2>3 DEF CInv
  <2> QED BY <1>1, <2>1, <2>2, <2>3 DEF CInv
<1>3. ASSUME NEW s \in {0, 1}, SetStatus(p, f, s)
      PROVE  CInv'
  <2> DEFINE o == Opcode(s)
  <2>1. code' = [code EXCEPT ![f] = o]
    BY <1>3 DEF SetStatus
  <2>2. \A g : (\E b \in Range(info'[p].list) : b.addr = g /\ b.status = 1) <=>
               IF g = f THEN s = 1
                        ELSE \E b \in Range(info[p].list) : b.addr = g /\ b.status = 1
    BY <1>3, StatusStep
  <2>3. o = "INT3_OPCODE" <=> s = 1
    BY DEF Opcode
  <2> HIDE DEF o
  <2>4. ListTells(p) => \A g \in Funcs : (IF g = f THEN o ELSE code[g]) = "INT3_OPCODE" <=>
                   \E b \in Range(info'[p].list) : b.addr = g /\ b.status = 1
    BY <2>2, <2>3 DEF ListTells
  <2> QED BY <1>2, <2>1, <2>4
<1>4. ASSUME NewBreakpoint(p, f)
      PROVE  CInv'
  <2> DEFINE o == Opcode(1)
             new == [num |-> info[p].breakpt_num + 1, status |-> 1, addr |-> f]
  <2>1. code' = [code EXCEPT ![f] = o]
    BY <1>4 DEF NewBreakpoint
  <2>2. Range(info'[p].list) = Range(info[p].list) \cup {new}
    BY <1>4, AddStep
  <2>3. o = "INT3_OPCODE" /\ new.addr = f /\ new.status = 1
    BY DEF Opcode
  <2> HIDE DEF o, new
  <2>4. ListTells(p) => \A g \in Funcs : (IF g = f THEN o ELSE code[g]) = "INT3_OPCODE" <=>
                   \E b \in Range(info'[p].list) : b.addr = g /\ b.status = 1
    BY <2>2, <2>3 DEF ListTells
  <2> QED BY <1>2, <2>1, <2>4
<1>5. ASSUME RemoveBreakpoint(p, f)
      PROVE  CInv'
  <2> DEFINE o == "PUSHRBP_OPCODE"
  <2>1. code' = [code EXCEPT ![f] = o]
    BY <1>5 DEF RemoveBreakpoint
  <2>2. Range(info'[p].list) = {b \in Range(info[p].list) : b.addr # f}
    BY <1>5, RemoveStep
  <2>3. o # "INT3_OPCODE"
    OBVIOUS
  <2> HIDE DEF o
  <2>4. ListTells(p) => \A g \in Funcs : (IF g = f THEN o ELSE code[g]) = "INT3_OPCODE" <=>
                   \E b \in Range(info'[p].list) : b.addr = g /\ b.status = 1
    BY <2>2, <2>3 DEF ListTells
  <2> QED BY <1>2, <2>1, <2>4
<1> QED BY <1>3, <1>4, <1>5 DEF SetBreakpoint, EnableBreakpoint, DisableBreakpoint

LEMMA CodeNext == TInv /\ FInv /\ BInv /\ CInv /\ [Next]_vars => CInv'
<1> SUFFICES ASSUME TInv, FInv, BInv, CInv, [Next]_vars
             PROVE  CInv'
  OBVIOUS
<1>0. /\ state \in [Pids -> {"UNUSED", "READY", "WAITING"}]
      /\ dbg \subseteq live /\ dbg \subseteq Pids
  BY DEF FInv, Types, FrameTypes
<1>1. CASE UNCHANGED vars
  BY <1>1, CodeKept DEF vars, debugVars, live
<1>2. ASSUME NEW p \in Pids, WaitAndContinue(p)
      PROVE  CInv'
  <2>1. PICK c \in Pids :
          /\ c \in live /\ p \in live
          /\ state' = [state EXCEPT ![p] = "WAITING", ![c] = "READY"]
    BY <1>2, FirstChildProperties
       DEF WaitAndContinue, Children, RunsDebugger, Runs, live
  <2>2. live' = live
    BY <1>0, <2>1 DEF live
  <2> QED BY <1>2, <2>2, CodeKept DEF WaitAndContinue
<1>3. ASSUME NEW p \in Pids, NEW f \in Funcs, Hit(p, f)
      PROVE  CInv'
  <2>1. /\ p \in live /\ ppid[p] \in live /\ code' = code /\ dbg' = dbg
        /\ state' = [state EXCEPT ![p] = "WAITING", ![ppid[p]] = "READY"]
    BY <1>0, <1>3 DEF Hit, CanCall, Runs, live
  <2>2. live' = live
    BY <1>0, <2>1 DEF live
  <2> QED BY <1>0, <1>3, <2>1, <2>2, HitList, CodeKept
<1>4. ASSUME NEW p \in Pids, (\E f \in Funcs : Call(p, f)) \/ GoOn(p) \/ Return(p)
      PROVE  CInv'
  BY <1>4, CodeKept DEF Call, GoOn, Return, debugVars, live
<1> QED BY <1>1, <1>2, <1>3, <1>4, CodeFork, CodeBecome, CodeExit, CodeCalls DEF Next, UserStep

\* debug.c:165-260: a lone debugger can believe its list.
THEOREM CodeCorrect == Spec => []CodeMatchesList
<1>1. CInv => CodeMatchesList
  BY DEF CInv, ListTells, CodeMatchesList
<1>2. Init => TInv /\ FInv /\ BInv /\ CInv
  BY TurnsInit, FrameInit, BreakpointsInit, CodeInit
<1>3. TInv /\ FInv /\ BInv /\ CInv /\ [Next]_vars => TInv' /\ FInv' /\ BInv' /\ CInv'
  BY TurnsStep, FrameNext, BreakpointsNext, CodeNext
<1> QED BY <1>1, <1>2, <1>3, PTL DEF Spec

----------------------------------------------------------------------------
\* The loop of int3_handler, and what backtrace makes of its result.
\* g[i] is the frame of round i, for i up to n.
FramesUpTo(g, s, n) ==
    /\ g = [i \in 1 .. n |-> g[i]]
    /\ \A i \in 1 .. n : g[i] = IF i = 1 THEN FirstFrame(s) ELSE s[g[i-1]]

\* The recursion in Frames has a solution.
LEMMA FramesExist ==
  ASSUME NEW s, NEW n \in Nat
  PROVE  \E g : FramesUpTo(g, s, n)
<1> DEFINE Good(m) == \E g : FramesUpTo(g, s, m)
           Bad == {m \in Nat : ~ Good(m)}
<1>1. Good(0)
  <2> DEFINE g == [i \in 1 .. 0 |-> 0]
  <2>1. g = [i \in 1 .. 0 |-> g[i]] /\ \A i \in 1 .. 0 : FALSE
    OBVIOUS
  <2> QED BY <2>1 DEF FramesUpTo
<1>2. ASSUME NEW m \in Nat, m # 0, Good(m-1)
      PROVE  Good(m)
  <2>1. PICK g : FramesUpTo(g, s, m-1)
    BY <1>2
  <2> DEFINE last == IF m = 1 THEN FirstFrame(s) ELSE s[g[m-1]]
             h == [i \in 1 .. m |-> IF i = m THEN last ELSE g[i]]
  <2>2. h = [i \in 1 .. m |-> h[i]]
    OBVIOUS
  <2>3. ASSUME NEW i \in 1 .. m
        PROVE  h[i] = IF i = 1 THEN FirstFrame(s) ELSE s[h[i-1]]
    <3> HIDE DEF last
    <3>1. CASE i = m
      <4>1. h[i] = last /\ (m # 1 => h[i-1] = g[m-1])
        BY <3>1, <1>2
      <4> QED BY <4>1, <3>1 DEF last
    <3>2. CASE i # m
      <4>1. i \in 1 .. m-1 /\ h[i] = g[i] /\ (i # 1 => h[i-1] = g[i-1])
        BY <3>2, <1>2
      <4> QED BY <4>1, <2>1 DEF FramesUpTo
    <3> QED BY <3>1, <3>2
  <2> HIDE DEF h
  <2>4. FramesUpTo(h, s, m)
    BY <2>2, <2>3 DEF FramesUpTo
  <2> QED BY <2>4
<1> HIDE DEF Good
<1>3. Bad = {}
  <2> SUFFICES ASSUME Bad # {}
               PROVE  FALSE
    OBVIOUS
  <2>1. Bad \in SUBSET Nat
    OBVIOUS
  <2>2. PICK m \in Bad : \A k \in Bad : m <= k
    BY <2>1, LeastNat
  <2>3. m # 0 /\ m-1 \in Nat /\ m - 1 \notin Bad
    BY <1>1, <2>2
  <2> QED BY <1>2, <2>3
<1> QED BY <1>3 DEF Good

LEMMA FramesUnfold == ASSUME NEW s PROVE FramesUpTo(Frames(s), s, MAX_BACKTRACE)
<1> DEFINE n == MAX_BACKTRACE
           Unfolds(h) == h = [i \in 1 .. n |-> IF i = 1 THEN FirstFrame(s) ELSE s[h[i-1]]]
           k == CHOOSE h : Unfolds(h)
<1>1. n \in Nat
  BY Sizes
<1>2. PICK g : FramesUpTo(g, s, n)
  BY <1>1, FramesExist
<1>3. Unfolds(g)
  BY <1>2 DEF FramesUpTo
<1>4. Unfolds(k)
  BY <1>3
<1>5. Frames(s) = k
  BY DEF Frames
<1> HIDE DEF k
<1>6. FramesUpTo(k, s, n)
  BY <1>4 DEF FramesUpTo
<1> QED BY <1>5, <1>6

\* The loop follows the frames of the calls c out to the first one: round i reads
\* the return address of the i-th call from the end.
LEMMA RoundsFollowCalls ==
  ASSUME NEW s, NEW b, NEW r, NEW c \in Seq(Funcs \cup {Main}), AsCalled(s, b, r, c)
  PROVE  \A i \in 1 .. MAX_BACKTRACE : i <= Len(c) =>
            ReturnAddress(s, i) = IF i = Len(c) THEN END_ADDR ELSE c[Len(c) - i]
<1> DEFINE n == Len(c)
           g == Frames(s)
           Bad == {i \in 1 .. MAX_BACKTRACE : i <= n /\ g[i] # 2 * (n - i + 1)}
<1>1. /\ n \in Nat /\ n > 0 /\ Len(s) = 2 * n
      /\ \A i \in 1 .. n : /\ s[2*i - 1] = IF i = 1 THEN END_ADDR ELSE c[i-1]
                          /\ s[2*i] = 2 * (i-1)
  BY DEF AsCalled
<1>2. \A i \in 1 .. MAX_BACKTRACE : g[i] = IF i = 1 THEN 2 * n ELSE s[g[i-1]]
  BY <1>1, FramesUnfold DEF FramesUpTo, FirstFrame
<1>3. MAX_BACKTRACE \in Nat
  BY Sizes
<1> HIDE DEF n, g
<1>4. Bad = {}
  <2> SUFFICES ASSUME Bad # {}
               PROVE  FALSE
    OBVIOUS
  <2>1. Bad \in SUBSET Nat
    BY <1>3
  <2>2. PICK m \in Bad : \A k \in Bad : m <= k
    BY <2>1, LeastNat
  <2>3. m \in 1 .. MAX_BACKTRACE /\ m <= n /\ m # 1
    BY <2>2, <1>1, <1>2, <1>3
  <2>4. m-1 \in 1 .. MAX_BACKTRACE /\ m-1 <= n /\ m-1 \notin Bad
    BY <2>2, <2>3, <1>1, <1>3
  <2> DEFINE j == n - m + 2
  <2>5. g[m-1] = 2 * j /\ j \in 1 .. n
    BY <2>3, <2>4, <1>1, <1>3
  <2>6. j - 1 = n - m + 1
    BY <2>3, <1>1
  <2> HIDE DEF j
  <2>7. g[m] = s[2 * j]
    BY <2>3, <2>5, <1>2
  <2>8. s[2 * j] = 2 * (j - 1)
    BY <2>5, <1>1
  <2>9. m \notin Bad
    BY <2>6, <2>7, <2>8
  <2> QED BY <2>2, <2>9
<1>5. ASSUME NEW i \in 1 .. MAX_BACKTRACE, i <= n
      PROVE  ReturnAddress(s, i) = IF i = n THEN END_ADDR ELSE c[n - i]
  <2> DEFINE j == n - i + 1
  <2>1. g[i] = 2 * j /\ j \in 1 .. n /\ (i = n <=> j = 1) /\ n - i = j - 1
    BY <1>1, <1>3, <1>4, <1>5
  <2> HIDE DEF j
  <2>2. ReturnAddress(s, i) = s[2 * j - 1]
    BY <2>1 DEF ReturnAddress, g
  <2> QED BY <2>1, <2>2, <1>1
<1> QED BY <1>5 DEF n

\* backtrace_info shows the calls c, innermost first.
Shows(bt, c) ==
    \A k \in 0 .. MAX_BACKTRACE - 1 : /\ k < Len(c) => bt[k] = c[Len(c) - k]
                                      /\ k = Len(c) => bt[k] = END_ADDR

LEMMA LoopEnds ==
  ASSUME NEW s, NEW b, NEW r, NEW c \in Seq(Funcs \cup {Main}), AsCalled(s, b, r, c)
  PROVE  LastRound(s) = IF Len(c) < MAX_BACKTRACE THEN Len(c) ELSE MAX_BACKTRACE
<1> DEFINE n == Len(c)
           last == IF n < MAX_BACKTRACE THEN n ELSE MAX_BACKTRACE
           Ends(i) == /\ i = MAX_BACKTRACE \/ ReturnAddress(s, i) = END_ADDR
                      /\ \A j \in 1 .. i-1 : ReturnAddress(s, j) # END_ADDR
<1>1. n \in Nat /\ n > 0
  BY DEF AsCalled
<1>2. MAX_BACKTRACE \in Nat /\ MAX_BACKTRACE > 0
  BY Sizes
<1>3. ASSUME NEW i \in 1 .. MAX_BACKTRACE, i <= n
      PROVE  ReturnAddress(s, i) = END_ADDR <=> i = n
  <2>1. ReturnAddress(s, i) = IF i = n THEN END_ADDR ELSE c[n - i]
    BY <1>3, RoundsFollowCalls
  <2>2. ASSUME i # n
        PROVE  c[n - i] # END_ADDR
    <3>1. n - i \in 1 .. n
      BY <1>1, <1>3, <2>2
    <3>2. c[n - i] \in Funcs \cup {Main}
      BY <3>1, ElementOfSeq
    <3> QED BY <3>2, Addresses
  <2> QED BY <2>1, <2>2
<1> HIDE DEF n
<1>4. last \in 1 .. MAX_BACKTRACE /\ last <= n /\ (last # MAX_BACKTRACE => last = n)
  BY <1>1, <1>2
<1> HIDE DEF last
<1>5. Ends(last)
  <2>1. \A j \in 1 .. last - 1 : j \in 1 .. MAX_BACKTRACE /\ j <= n /\ j # n
    BY <1>1, <1>2, <1>4
  <2> QED BY <1>3, <1>4, <2>1
<1>6. ASSUME NEW i \in 1 .. MAX_BACKTRACE, Ends(i)
      PROVE  i = last
  <2>1. CASE i < last
    <3>1. i <= n /\ i # n /\ i # MAX_BACKTRACE
      BY <2>1, <1>1, <1>2, <1>4
    <3> QED BY <3>1, <1>3, <1>6
  <2>2. CASE last < i
    <3>1. last \in 1 .. i-1 /\ last = n
      BY <2>2, <1>2, <1>4
    <3>2. ReturnAddress(s, last) # END_ADDR
      BY <3>1, <1>6
    <3> QED BY <3>1, <3>2, <1>3, <1>4
  <2> QED BY <2>1, <2>2, <1>4
<1>7. LastRound(s) = CHOOSE i \in 1 .. MAX_BACKTRACE : Ends(i)
  BY DEF LastRound
<1> HIDE DEF Ends
<1>8. LastRound(s) = last
  BY <1>4, <1>5, <1>6, <1>7
<1> QED BY <1>8 DEF last, n

\* What int3_handler leaves in backtrace_info.
LEMMA LoopShows ==
  ASSUME NEW s, NEW b, NEW r, NEW c \in Seq(Funcs \cup {Main}), AsCalled(s, b, r, c),
         NEW old \in [0 .. MAX_BACKTRACE - 1 -> Word]
  PROVE  LET bt == Backtrace(r.func, s, old)
         IN  bt \in [0 .. MAX_BACKTRACE - 1 -> Word] /\ Shows(bt, c)
<1> DEFINE n == Len(c)
           f == r.func
           last == LastRound(s)
           bt == Backtrace(f, s, old)
<1>1. n \in Nat /\ n > 0 /\ f = c[n] /\ MAX_BACKTRACE \in Nat /\ MAX_BACKTRACE > 0
  BY Sizes DEF AsCalled
<1>2. last = IF n < MAX_BACKTRACE THEN n ELSE MAX_BACKTRACE
  BY LoopEnds
<1>3. bt = [k \in 0 .. MAX_BACKTRACE - 1 |->
              CASE k = 0 -> f
                [] k \in 1 .. last - 1 -> ReturnAddress(s, k)
                [] k = last -> END_ADDR
                [] OTHER -> old[k]]
  BY DEF Backtrace
<1>4. \A i \in 1 .. MAX_BACKTRACE : i < n => ReturnAddress(s, i) = c[n - i]
  BY RoundsFollowCalls
<1> HIDE DEF n, f, last, bt
<1>5. ASSUME NEW k \in 0 .. MAX_BACKTRACE - 1
      PROVE  /\ k < n => bt[k] = c[n - k]
             /\ k = n => bt[k] = END_ADDR
             /\ k > n => bt[k] = old[k]
  <2>1. CASE k = 0
    BY <2>1, <1>1, <1>3
  <2>2. CASE k # 0 /\ k < n
    <3>1. k \in 1 .. last - 1 /\ k \in 1 .. MAX_BACKTRACE
      BY <2>2, <1>1, <1>2
    <3> QED BY <2>2, <3>1, <1>1, <1>3, <1>4
  <2>3. CASE k # 0 /\ k >= n
    <3>1. k \notin 1 .. last - 1 /\ (k = last <=> k = n)
      BY <2>3, <1>1, <1>2
    <3>2. bt[k] = IF k = n THEN END_ADDR ELSE old[k]
      BY <2>3, <3>1, <1>3
    <3> QED BY <2>3, <3>2, <1>1
  <2> QED BY <2>1, <2>2, <2>3, <1>1
<1>6. ASSUME NEW k \in 0 .. MAX_BACKTRACE - 1
      PROVE  bt[k] \in Word
  <2>1. CASE k < n
    <3>1. n - k \in 1 .. Len(c)
      BY <2>1, <1>1 DEF n
    <3>2. c[n - k] \in Funcs \cup {Main}
      BY <3>1, ElementOfSeq
    <3> QED BY <2>1, <3>2, <1>5 DEF Word
  <2>2. CASE k = n
    BY <2>2, <1>5 DEF Word
  <2>3. CASE k > n
    BY <2>3, <1>5
  <2> QED BY <2>1, <2>2, <2>3, <1>1
<1>7. bt \in [0 .. MAX_BACKTRACE - 1 -> Word]
  <2>1. bt = [k \in 0 .. MAX_BACKTRACE - 1 |-> bt[k]]
    BY <1>3
  <2> QED BY <2>1, <1>6
<1>8. Shows(bt, c)
  BY <1>5 DEF Shows, n
<1> QED BY <1>7, <1>8 DEF bt, f

\* What backtrace returns from such a backtrace_info.
LEMMA BacktraceReturns ==
  ASSUME NEW d, NEW c \in Seq(Funcs \cup {Main}), c # <<>>,
         Shows(info[d].backtrace_info, c)
  PROVE  LET depth == Len(c)
             n == IF depth < MAX_BACKTRACE THEN depth ELSE MAX_BACKTRACE
         IN  Shown(d) = [i \in 1 .. n |-> c[depth + 1 - i]]
<1> DEFINE bt == info[d].backtrace_info
           depth == Len(c)
           n == IF depth < MAX_BACKTRACE THEN depth ELSE MAX_BACKTRACE
           Ends(i) == /\ i = MAX_BACKTRACE \/ bt[i] = END_ADDR
                      /\ \A j \in 0 .. i-1 : bt[j] # END_ADDR
           z == CHOOSE i \in 0 .. MAX_BACKTRACE : Ends(i)
<1>1. depth \in Nat /\ depth > 0 /\ MAX_BACKTRACE \in Nat /\ MAX_BACKTRACE > 0
  BY Sizes
<1>2. Shown(d) = [i \in 1 .. z |-> bt[i-1]]
  BY DEF Shown
<1> HIDE DEF bt, depth
<1>3. ASSUME NEW k \in 0 .. MAX_BACKTRACE - 1, k < depth
      PROVE  bt[k] = c[depth - k] /\ bt[k] # END_ADDR
  <2>1. bt[k] = c[depth - k]
    BY <1>3 DEF Shows, bt, depth
  <2>2. depth - k \in 1 .. Len(c)
    BY <1>1, <1>3 DEF depth
  <2>3. c[depth - k] \in Funcs \cup {Main}
    BY <2>2, ElementOfSeq
  <2> QED BY <2>1, <2>3, Addresses
<1>4. depth < MAX_BACKTRACE => bt[depth] = END_ADDR
  <2>1. ASSUME depth < MAX_BACKTRACE
        PROVE  bt[depth] = END_ADDR
    <3>1. depth \in 0 .. MAX_BACKTRACE - 1
      BY <1>1, <2>1
    <3> QED BY <3>1 DEF Shows, bt, depth
  <2> QED BY <2>1
<1>5. /\ n \in 0 .. MAX_BACKTRACE /\ n <= depth /\ (n # MAX_BACKTRACE => n = depth)
      /\ (n = depth \/ n = MAX_BACKTRACE)
  BY <1>1
<1> HIDE DEF n
<1>6. Ends(n)
  <2>1. n = MAX_BACKTRACE \/ bt[n] = END_ADDR
    BY <1>1, <1>4, <1>5
  <2>2. ASSUME NEW j \in 0 .. n - 1
        PROVE  bt[j] # END_ADDR
    <3>1. j \in 0 .. MAX_BACKTRACE - 1 /\ j < depth
      BY <1>1, <1>5
    <3> QED BY <3>1, <1>3
  <2> QED BY <2>1, <2>2
<1>7. ASSUME NEW i \in 0 .. MAX_BACKTRACE, Ends(i)
      PROVE  i = n
  <2>1. CASE i < n
    <3>1. i \in 0 .. MAX_BACKTRACE - 1 /\ i < depth /\ i # MAX_BACKTRACE
      BY <2>1, <1>1, <1>5
    <3> QED BY <3>1, <1>3, <1>7
  <2>2. CASE n < i
    <3>1. n \in 0 .. i-1 /\ n = depth /\ depth < MAX_BACKTRACE
      BY <2>2, <1>1, <1>5
    <3> QED BY <3>1, <1>4, <1>7
  <2> QED BY <2>1, <2>2, <1>1, <1>5
<1> HIDE DEF Ends
<1>8. z = n
  BY <1>5, <1>6, <1>7
<1> HIDE DEF z
<1>9. \A i \in 1 .. n : bt[i-1] = c[depth + 1 - i]
  <2> SUFFICES ASSUME NEW i \in 1 .. n
               PROVE  bt[i-1] = c[depth + 1 - i]
    OBVIOUS
  <2>1. i-1 \in 0 .. MAX_BACKTRACE - 1 /\ i-1 < depth /\ depth - (i-1) = depth + 1 - i
    BY <1>1, <1>5
  <2> QED BY <2>1, <1>3
<1>10. Shown(d) = [i \in 1 .. n |-> c[depth + 1 - i]]
  BY <1>2, <1>8, <1>9
<1> QED BY <1>10 DEF n, depth

----------------------------------------------------------------------------
\* What wait_and_continue tells a debugger.
\* Child c of debugger d sleeps at the breakpoint that d has been told of.
AtBreakpoint(d, c) ==
    /\ c \in live /\ ppid[c] = d
    /\ state[c] = "WAITING" /\ rip[c] = Behind(told[d])
    /\ Shows(info[d].backtrace_info, calls[c])

\* What is left of the type invariant; whoever has trapped was called.
DataTypes ==
    /\ told \in [Pids -> Funcs \cup {NothingYet, CHILD_EXIT}]
    /\ code \in [Funcs -> Code]
    /\ \A d \in Pids : info[d].backtrace_info \in [0 .. MAX_BACKTRACE - 1 -> Word]
    /\ \A p \in Pids : rip[p].trapped => Len(calls[p]) > 1

\* Nobody is told of a breakpoint before it is a debugger, and what a debugger has
\* been told of stays so until it goes on.
Told ==
    /\ \A d \in live \ dbg : told[d] \notin Funcs
    /\ \A d \in dbg : told[d] \in Funcs => \E c \in Pids : AtBreakpoint(d, c)

SInv == DataTypes /\ Told

LEMMA TellInit == Init => SInv
<1> SUFFICES ASSUME Init
             PROVE  SInv
  OBVIOUS
<1>1. told = [p \in Pids |-> NothingYet] /\ NothingYet \notin Funcs /\ dbg = {}
  BY Addresses DEF Init
<1>2. \A d \in Pids : info[d].backtrace_info \in [0 .. MAX_BACKTRACE - 1 -> Word]
  BY DEF Init, EmptyInfo, Word
<1>3. code \in [Funcs -> Code] /\ \A p \in Pids : ~ rip[p].trapped
  BY DEF Init, Code, In
<1> QED BY <1>1, <1>2, <1>3 DEF SInv, DataTypes, Told, live

\* The parent of the process that runs is not at a breakpoint itself.
LEMMA ParentUntrapped ==
  ASSUME TInv, NEW p \in Pids, state[p] = "READY", ppid[p] \in dbg
  PROVE  ppid[p] \in Pids \ {p} /\ ~ rip[ppid[p]].trapped
<1>1. p # 1
  BY OneIsPid DEF TInv, Turns, Types
<1>2. PICK S \in SUBSET live, r \in Pids : Chain(S, r)
  BY DEF TInv, Turns
<1>3. r = p /\ p \in S \ {1}
  BY <1>1, <1>2 DEF Chain
<1>4. ppid[p] \in S \ {p}
  BY <1>2, <1>3 DEF Chain
<1> QED BY <1>2, <1>3, <1>4 DEF Chain, live

\* A step that lets those sleep on who are at a breakpoint their debugger has been
\* told of, and tells nobody of another.
LEMMA ToldKept ==
  ASSUME Told, FInv, FInv',
         \A c \in Pids : /\ state[c] = "WAITING" /\ rip[c].trapped
                         /\ ppid[c] \in dbg' /\ told'[ppid[c]] \in Funcs
                         => /\ state'[c] = "WAITING" /\ ppid'[c] = ppid[c]
                            /\ rip'[c] = rip[c] /\ calls'[c] = calls[c],
         \A d \in dbg' : told'[d] \in Funcs =>
             \/ \E c \in Pids : AtBreakpoint(d, c)'
             \/ /\ d \in dbg /\ told'[d] = told[d]
                /\ info'[d].backtrace_info = info[d].backtrace_info,
         \A d \in live' \ dbg' : told'[d] \notin Funcs
  PROVE  Told'
<1>1. ASSUME NEW d \in dbg', told'[d] \in Funcs, d \in dbg, told'[d] = told[d],
             info'[d].backtrace_info = info[d].backtrace_info
      PROVE  \E c \in Pids : AtBreakpoint(d, c)'
  <2>1. PICK c \in Pids : AtBreakpoint(d, c)
    BY <1>1 DEF Told
  <2>2. /\ state[c] = "WAITING" /\ ppid[c] = d /\ rip[c] = Behind(told[d])
        /\ Shows(info[d].backtrace_info, calls[c])
    BY <2>1 DEF AtBreakpoint
  <2>3. rip[c].trapped
    BY <2>2 DEF Behind
  <2>4. /\ state'[c] = "WAITING" /\ ppid'[c] = d
        /\ rip'[c] = rip[c] /\ calls'[c] = calls[c]
    BY <1>1, <2>2, <2>3
  <2>5. AtBreakpoint(d, c)'
    BY <1>1, <2>2, <2>4 DEF AtBreakpoint, live
  <2> QED BY <2>5
<1> QED BY <1>1 DEF Told

LEMMA EmptyTrace == EmptyInfo.backtrace_info \in [0 .. MAX_BACKTRACE - 1 -> Word]
BY DEF EmptyInfo, Word

LEMMA TellFork ==
  ASSUME SInv, FInv, FInv', NEW d \in Pids, NEW c \in Pids, Fork(d, c)
  PROVE  SInv'
<1>1. /\ state[d] = "READY" /\ ~ rip[d].trapped /\ c \notin live /\ dbg' = dbg \ {c}
      /\ state' = [state EXCEPT ![c] = "WAITING"]
      /\ ppid' = [ppid EXCEPT ![c] = d]
      /\ told' = [told EXCEPT ![c] = NothingYet]
      /\ rip' = [rip EXCEPT ![c] = rip[d]]
      /\ calls' = [calls EXCEPT ![c] = calls[d]]
      /\ info' = info /\ code' = code
  BY DEF Fork, RunsDebugger, Runs, ChildState
<1>2. NothingYet \notin Funcs /\ dbg' = dbg
  BY <1>1, Addresses DEF FInv, FrameTypes
<1>3. DataTypes'
  <2>1. told' \in [Pids -> Funcs \cup {NothingYet, CHILD_EXIT}]
    BY <1>1 DEF SInv, DataTypes
  <2>2. \A p \in Pids : rip'[p].trapped => Len(calls'[p]) > 1
    BY <1>1 DEF SInv, DataTypes, FInv, FrameTypes
  <2> QED BY <1>1, <2>1, <2>2 DEF SInv, DataTypes
<1>4. \A e \in Pids : /\ e # c => told'[e] = told[e] /\ state'[e] = state[e]
                      /\ e = c => told'[e] \notin Funcs
  BY <1>1, <1>2 DEF SInv, DataTypes, FInv, Types
<1>5. \A e \in Pids : e # c => ppid'[e] = ppid[e] /\ rip'[e] = rip[e] /\ calls'[e] = calls[e]
  BY <1>1 DEF FInv, Types, FrameTypes
<1>6. \A e \in live' \ dbg' : told'[e] \notin Funcs
  BY <1>2, <1>4 DEF SInv, Told, live
<1>7. \A e \in dbg' : e \in Pids /\ e # c /\ e \in dbg
  BY <1>1, <1>2 DEF FInv, FrameTypes, Types
<1>8. \A e \in Pids : state[e] = "WAITING" => e # c
  BY <1>1 DEF live
<1>9. Told'
  <2> HIDE DEF SInv
  <2> QED BY <1>1, <1>4, <1>5, <1>6, <1>7, <1>8, ToldKept DEF SInv
<1> QED BY <1>3, <1>9 DEF SInv

LEMMA TellWait ==
  ASSUME SInv, TInv, FInv, FInv', NEW d \in Pids, WaitAndContinue(d)
  PROVE  SInv'
<1>1. PICK c \in Pids :
        /\ c \in live /\ ppid[c] = d
        /\ state' = [state EXCEPT ![d] = "WAITING", ![c] = "READY"]
  BY FirstChildProperties DEF WaitAndContinue, Children, live
<1>2. /\ state[d] = "READY" /\ d \in dbg /\ ppid' = ppid /\ dbg' = dbg
      /\ info' = info /\ code' = code /\ UNCHANGED userVars
      /\ told' = [told EXCEPT ![d] = NothingYet]
  BY DEF WaitAndContinue, RunsDebugger, Runs
<1>3. DataTypes'
  BY <1>2 DEF SInv, DataTypes, userVars
<1>4. \A e \in Pids : told'[e] \in Funcs => e # d /\ told'[e] = told[e]
  BY <1>2, Addresses DEF SInv, DataTypes
<1>5. \A e \in Pids : state[e] = "WAITING" /\ e # c => state'[e] = "WAITING"
  BY <1>1 DEF FInv, Types
<1>6. live' \subseteq live
  BY <1>1, <1>2 DEF live, FInv, Types
<1>7. \A e \in live' \ dbg' : told'[e] \notin Funcs
  BY <1>2, <1>4, <1>6 DEF SInv, Told, live
<1>8. dbg \subseteq Pids
  BY DEF FInv, Types
<1>9. Told'
  BY <1>1, <1>2, <1>4, <1>5, <1>7, <1>8, ToldKept DEF SInv, userVars
<1> QED BY <1>3, <1>9 DEF SInv

LEMMA TellExit ==
  ASSUME SInv, TInv, FInv, FInv', BInv, NEW p \in Pids, Exit(p)
  PROVE  SInv'
<1>1. /\ state[p] = "READY" /\ ppid' = ppid /\ dbg' = dbg \ {p} /\ code' = code
      /\ state' = [e \in Pids |-> IF e = p THEN "UNUSED"
                                  ELSE IF e \in WokenByExit(p) THEN "READY" ELSE state[e]]
      /\ told' = [e \in Pids |-> IF e \in WokenByExit(p) THEN CHILD_EXIT ELSE told[e]]
      /\ info' = [info EXCEPT ![p] = EmptyInfo]
      /\ UNCHANGED userVars
  BY DEF Exit, Runs
<1>2. \A e \in WokenByExit(p) : ~ rip[e].trapped
  BY <1>1, ParentUntrapped DEF WokenByExit
<1>3. \A e \in Pids : e # p => info'[e] = info[e]
  BY <1>1, BreakpointsReset
<1>4. info'[p].backtrace_info \in [0 .. MAX_BACKTRACE - 1 -> Word]
  <2>1. info'[p] = EmptyInfo
    BY <1>1, BreakpointsReset
  <2> QED BY <2>1, EmptyTrace
<1>5. DataTypes'
  <2>1. told' \in [Pids -> Funcs \cup {NothingYet, CHILD_EXIT}]
    BY <1>1 DEF SInv, DataTypes
  <2>2. \A d \in Pids : info'[d].backtrace_info \in [0 .. MAX_BACKTRACE - 1 -> Word]
    BY <1>3, <1>4 DEF SInv, DataTypes
  <2> QED BY <1>1, <2>1, <2>2 DEF SInv, DataTypes, userVars
<1>6. \A e \in Pids : told'[e] \in Funcs => told'[e] = told[e]
  BY <1>1, Addresses
<1>7. \A e \in Pids : state[e] = "WAITING" /\ rip[e].trapped => state'[e] = "WAITING"
  BY <1>1, <1>2
<1>8. \A e \in live' \ dbg' : told'[e] \notin Funcs
  <2>1. \A e \in live' : e \in live /\ e # p
    BY <1>1 DEF live, WokenByExit, FInv, FrameTypes
  <2> QED BY <1>1, <1>6, <2>1 DEF SInv, Told, live
<1>9. \A e \in dbg' : e \in Pids /\ e \in dbg /\ info'[e] = info[e]
  BY <1>1, <1>3 DEF FInv, Types
<1>10. Told'
  BY <1>1, <1>6, <1>7, <1>8, <1>9, ToldKept DEF SInv, userVars
<1> QED BY <1>5, <1>10 DEF SInv

LEMMA TellHit ==
  ASSUME SInv, TInv, FInv, FInv', BInv, NEW p \in Pids, NEW f \in Funcs, Hit(p, f)
  PROVE  SInv'
<1>0. PICK d : d = ppid[p]
  OBVIOUS
<1> DEFINE bt == Backtrace(f, Entered(p), info[d].backtrace_info)
<1>1. /\ state[p] = "READY" /\ ~ rip[p].trapped /\ d \in dbg
      /\ ppid' = ppid /\ dbg' = dbg /\ code' = code
      /\ state' = [state EXCEPT ![p] = "WAITING", ![d] = "READY"]
      /\ told' = [told EXCEPT ![d] = f]
      /\ rip' = [rip EXCEPT ![p] = Behind(f)]
      /\ calls' = [calls EXCEPT ![p] = Append(calls[p], f)]
  BY <1>0 DEF Hit, CanCall, Runs
<1>2. d \in Pids \ {p} /\ ~ rip[d].trapped
  BY <1>0, <1>1, ParentUntrapped
<1>3. /\ info'[d].backtrace_info = bt
      /\ \A e \in Pids \ {d} : info'[e].backtrace_info = info[e].backtrace_info
  BY <1>0, <1>2, HitList DEF Emulated
<1>4. /\ calls[p] \in Seq(Funcs \cup {Main}) /\ Append(calls[p], f) \in Seq(Funcs \cup {Main})
      /\ AsCalled(Entered(p), rbp[p], Behind(f), Append(calls[p], f))
      /\ Len(calls[p]) > 0
  <2>1. /\ stack[p] \in Seq(Word) /\ rbp[p] \in Nat /\ calls[p] \in Seq(Funcs \cup {Main})
        /\ rip[p] \in [func: Funcs \cup {Main}, trapped: BOOLEAN]
        /\ AsCalled(stack[p], rbp[p], rip[p], calls[p])
    BY <1>1, RunningFrame
  <2>2. AsCalled(Entered(p), rbp[p], Behind(f), Append(calls[p], f))
    BY <1>1, <2>1, CallFrame DEF Entered
  <2>3. Len(calls[p]) > 0
    BY <2>1 DEF AsCalled
  <2> QED BY <2>1, <2>2, <2>3
<1>5. bt \in [0 .. MAX_BACKTRACE - 1 -> Word] /\ Shows(bt, Append(calls[p], f))
  <2>1. info[d].backtrace_info \in [0 .. MAX_BACKTRACE - 1 -> Word]
    BY <1>2 DEF SInv, DataTypes
  <2>2. Behind(f).func = f
    BY DEF Behind
  <2> DEFINE g == Behind(f).func
  <2>3. LET b == Backtrace(g, Entered(p), info[d].backtrace_info)
        IN  b \in [0 .. MAX_BACKTRACE - 1 -> Word] /\ Shows(b, Append(calls[p], f))
    BY <1>4, <2>1, LoopShows
  <2>4. g = f
    BY <2>2
  <2> HIDE DEF g
  <2> QED BY <2>3, <2>4
<1> HIDE DEF bt
<1>6. DataTypes'
  <2>1. told' \in [Pids -> Funcs \cup {NothingYet, CHILD_EXIT}]
    BY <1>1, <1>2 DEF SInv, DataTypes
  <2>2. \A e \in Pids : info'[e].backtrace_info \in [0 .. MAX_BACKTRACE - 1 -> Word]
    BY <1>3, <1>5 DEF SInv, DataTypes
  <2>3. \A e \in Pids : rip'[e].trapped => Len(calls'[e]) > 1
    <3>1. calls'[p] = Append(calls[p], f) /\ Len(Append(calls[p], f)) > 1
      BY <1>1, <1>4 DEF FInv, FrameTypes
    <3>2. \A e \in Pids \ {p} : rip'[e] = rip[e] /\ calls'[e] = calls[e]
      BY <1>1 DEF FInv, FrameTypes
    <3> QED BY <3>1, <3>2 DEF SInv, DataTypes
  <2> QED BY <1>1, <2>1, <2>2, <2>3 DEF SInv, DataTypes
<1>7. AtBreakpoint(d, p)'
  <2>1. state'[p] = "WAITING" /\ ppid'[p] = d
    BY <1>0, <1>1, <1>2 DEF FInv, Types
  <2>2. told'[d] = f
    BY <1>1, <1>2 DEF SInv, DataTypes
  <2>3. rip'[p] = Behind(f) /\ calls'[p] = Append(calls[p], f)
    BY <1>1 DEF FInv, FrameTypes
  <2> QED BY <1>3, <1>5, <2>1, <2>2, <2>3 DEF AtBreakpoint, live
<1>8. \A e \in Pids \ {d} : told'[e] = told[e]
  BY <1>1 DEF SInv, DataTypes
<1>9. \A e \in Pids : state[e] = "WAITING" /\ rip[e].trapped =>
         state'[e] = "WAITING" /\ rip'[e] = rip[e] /\ calls'[e] = calls[e]
  BY <1>1, <1>2 DEF FInv, Types, FrameTypes
<1>10. \A e \in live' \ dbg' : told'[e] \notin Funcs
  <2>1. live' \subseteq live
    BY <1>1, <1>2 DEF live, FInv, Types, FrameTypes
  <2> QED BY <1>1, <1>8, <2>1 DEF SInv, Told, live
<1>11. \A e \in dbg' : e = d \/ (e \in dbg /\ e \in Pids \ {d})
  BY <1>1 DEF FInv, Types
<1>12. Told'
  BY <1>1, <1>3, <1>7, <1>8, <1>9, <1>10, <1>11, ToldKept DEF SInv
<1> QED BY <1>6, <1>12 DEF SInv

LEMMA TellBecome ==
  ASSUME SInv, FInv, FInv', BInv, NEW p \in Pids, BecomeDebugger(p)
  PROVE  SInv'
<1>1. /\ p \in live \ dbg /\ dbg' = dbg \cup {p} /\ live' = live
      /\ UNCHANGED <<state, ppid, code, told, rip, calls>>
      /\ info' = [info EXCEPT ![p] = EmptyInfo]
  BY DEF BecomeDebugger, Runs, live, userVars
<1>2. \A e \in Pids : e # p => info'[e] = info[e]
  BY <1>1, BreakpointsReset
<1>3. info'[p].backtrace_info \in [0 .. MAX_BACKTRACE - 1 -> Word]
  <2>1. info'[p] = EmptyInfo
    BY <1>1, BreakpointsReset
  <2> QED BY <2>1, EmptyTrace
<1>4. DataTypes'
  BY <1>1, <1>2, <1>3 DEF SInv, DataTypes
<1>5. told[p] \notin Funcs
  BY <1>1 DEF SInv, Told
<1>6. dbg \subseteq Pids
  BY DEF FInv, Types
<1>7. Told'
  BY <1>1, <1>2, <1>5, <1>6, ToldKept DEF SInv, Told
<1> QED BY <1>4, <1>7 DEF SInv

LEMMA TellCalls ==
  ASSUME SInv, FInv, FInv', BInv, NEW p \in Pids, NEW f \in Funcs,
         \/ SetBreakpoint(p, f)
         \/ RemoveBreakpoint(p, f)
         \/ EnableBreakpoint(p, f)
         \/ DisableBreakpoint(p, f)
  PROVE  SInv'
<1>1. UNCHANGED <<state, ppid, dbg, told, rip, calls>> /\ live' = live
  BY DEF SetBreakpoint, NewBreakpoint, SetStatus, RemoveBreakpoint,
         EnableBreakpoint, DisableBreakpoint, live, userVars
<1>2. PICK o \in Code : code' = [code EXCEPT ![f] = o]
  BY DEF SetBreakpoint, NewBreakpoint, SetStatus, RemoveBreakpoint,
         EnableBreakpoint, DisableBreakpoint, Opcode, Code
<1>3. \A e \in Pids : info'[e].backtrace_info = info[e].backtrace_info
  <2>1. ASSUME NEW s \in {0, 1}, SetStatus(p, f, s)
        PROVE  \A e \in Pids : info'[e].backtrace_info = info[e].backtrace_info
    BY <2>1, StatusStep
  <2> QED BY <2>1, AddStep, RemoveStep DEF SetBreakpoint, EnableBreakpoint, DisableBreakpoint
<1>4. code' \in [Funcs -> Code]
  BY <1>2 DEF SInv, DataTypes
<1>5. DataTypes'
  BY <1>1, <1>3, <1>4 DEF SInv, DataTypes
<1>6. dbg \subseteq Pids
  BY DEF FInv, Types
<1>7. Told'
  BY <1>1, <1>3, <1>6, ToldKept DEF SInv, Told
<1> QED BY <1>5, <1>7 DEF SInv

LEMMA TellUser ==
  ASSUME SInv, FInv, FInv', NEW p \in Pids,
         (\E f \in Funcs : Call(p, f)) \/ GoOn(p) \/ Return(p)
  PROVE  SInv'
<1>1. state[p] = "READY" /\ UNCHANGED <<state, ppid, dbg, told, info, code>> /\ live' = live
  BY DEF Call, GoOn, Return, CanCall, Runs, debugVars, live
<1>2. PICK r, c : /\ rip' = [rip EXCEPT ![p] = r] /\ ~ r.trapped
                  /\ calls' = [calls EXCEPT ![p] = c]
  <2>1. \A f : ~ In(f).trapped
    BY DEF In
  <2>2. GoOn(p) => calls' = [calls EXCEPT ![p] = calls[p]]
    BY DEF GoOn, FInv, FrameTypes
  <2>3. GoOn(p) => rip' = [rip EXCEPT ![p] = In(rip[p].func)]
    BY DEF GoOn
  <2>4. CASE GoOn(p)
    BY <2>1, <2>2, <2>3, <2>4
  <2>5. CASE Return(p)
    BY <2>1, <2>5 DEF Return
  <2>6. ASSUME NEW f \in Funcs, Call(p, f)
        PROVE  \E r, c : /\ rip' = [rip EXCEPT ![p] = r] /\ ~ r.trapped
                         /\ calls' = [calls EXCEPT ![p] = c]
    <3>1. /\ rip' = [rip EXCEPT ![p] = In(f)]
          /\ calls' = [calls EXCEPT ![p] = Append(calls[p], f)]
      BY <2>6 DEF Call
    <3> QED BY <2>1, <3>1
  <2> QED BY <2>4, <2>5, <2>6
<1>3. \A e \in Pids : IF e = p THEN ~ rip'[e].trapped
                               ELSE rip'[e] = rip[e] /\ calls'[e] = calls[e]
  BY <1>2 DEF FInv, FrameTypes
<1>4. DataTypes'
  BY <1>1, <1>3 DEF SInv, DataTypes
<1>5. dbg \subseteq Pids
  BY DEF FInv, Types
<1>6. Told'
  BY <1>1, <1>3, <1>5, ToldKept DEF SInv, Told
<1> QED BY <1>4, <1>6 DEF SInv

AllInv == TInv /\ FInv /\ BInv /\ CInv /\ SInv

LEMMA AllInit == Init => AllInv
BY TurnsInit, FrameInit, BreakpointsInit, CodeInit, TellInit DEF AllInv

LEMMA AllNext == AllInv /\ [Next]_vars => AllInv'
<1> SUFFICES ASSUME AllInv, [Next]_vars
             PROVE  AllInv'
  OBVIOUS
<1>1. TInv /\ FInv /\ BInv /\ CInv /\ SInv
  BY DEF AllInv
<1>2. TInv' /\ FInv' /\ BInv' /\ CInv'
  BY <1>1, TurnsStep, FrameNext, BreakpointsNext, CodeNext
<1>3. SInv'
  <2>1. CASE UNCHANGED vars
    <3>1. UNCHANGED <<state, ppid, dbg, told, info, code, rip, calls>>
      BY <2>1 DEF vars, debugVars, userVars
    <3> QED BY <1>1, <3>1 DEF SInv, DataTypes, Told, AtBreakpoint, live
  <2> QED BY <1>1, <1>2, <2>1, TellFork, TellWait, TellExit, TellHit, TellBecome,
             TellCalls, TellUser DEF Next, UserStep
<1> QED BY <1>2, <1>3 DEF AllInv

\* debug.c:92-118, 322-363: when wait_and_continue has told a debugger of a
\* breakpoint, backtrace shows the calls of the child that sleeps there.
THEOREM BacktraceCorrect == Spec => []BacktraceShowsCalls
<1>1. AllInv => BacktraceShowsCalls
  <2> SUFFICES ASSUME AllInv, NEW d \in dbg, told[d] \in Funcs
               PROVE  \E c \in Children(d) :
                         /\ state[c] = "WAITING"
                         /\ rip[c] = Behind(told[d])
                         /\ LET depth == Len(calls[c])
                                n == IF depth < MAX_BACKTRACE THEN depth ELSE MAX_BACKTRACE
                            IN  Shown(d) = [i \in 1 .. n |-> calls[c][depth + 1 - i]]
    BY DEF BacktraceShowsCalls
  <2>1. PICK c \in Pids : AtBreakpoint(d, c)
    BY DEF AllInv, SInv, Told
  <2>2. /\ c \in Children(d) /\ state[c] = "WAITING" /\ rip[c] = Behind(told[d])
        /\ Shows(info[d].backtrace_info, calls[c])
    BY <2>1 DEF AtBreakpoint, Children
  <2>3. calls[c] \in Seq(Funcs \cup {Main}) /\ calls[c] # <<>>
    <3>1. AsCalled(stack[c], rbp[c], rip[c], calls[c])
      BY <2>1 DEF AtBreakpoint, AllInv, FInv, Transparent
    <3>2. calls[c] \in Seq(Funcs \cup {Main}) /\ Len(calls[c]) > 0
      BY <3>1 DEF AllInv, FInv, FrameTypes, AsCalled
    <3> QED BY <3>2
  <2>4. LET depth == Len(calls[c])
            n == IF depth < MAX_BACKTRACE THEN depth ELSE MAX_BACKTRACE
        IN  Shown(d) = [i \in 1 .. n |-> calls[c][depth + 1 - i]]
    BY <2>2, <2>3, BacktraceReturns
  <2> QED BY <2>2, <2>4
<1> QED BY <1>1, AllInit, AllNext, PTL DEF Spec

\* debug.c:283-317: for a child at a breakpoint info_registers reports the stack
\* pointer the child had before the trap.
THEOREM RegistersCorrect == Spec => []RegistersAtBreakpoint
<1>1. AllInv => RegistersAtBreakpoint
  <2> SUFFICES ASSUME AllInv, NEW d \in dbg, Children(d) # {}, rip[FirstChild(d)].trapped
               PROVE  /\ rip[FirstChild(d)].func = calls[FirstChild(d)][Len(calls[FirstChild(d)])]
                      /\ stack[FirstChild(d)][ReportedRsp(d)]
                            = calls[FirstChild(d)][Len(calls[FirstChild(d)]) - 1]
    BY DEF RegistersAtBreakpoint
  <2> DEFINE c == FirstChild(d)
             n == Len(calls[c])
  <2>1. c \in live /\ c \in Pids
    BY FirstChildProperties DEF Children, live
  <2>2. ReportedRsp(d) = Len(stack[c]) - 1
    BY DEF ReportedRsp
  <2> HIDE DEF c
  <2>3. AsCalled(stack[c], rbp[c], rip[c], calls[c]) /\ calls[c] \in Seq(Funcs \cup {Main})
    BY <2>1 DEF AllInv, FInv, Transparent, FrameTypes
  <2>4. n \in Nat /\ n > 1
    BY <2>1, <2>3 DEF AllInv, SInv, DataTypes, c
  <2>5. /\ rip[c].func = calls[c][n] /\ Len(stack[c]) = 2 * n
        /\ stack[c][2 * n - 1] = IF n = 1 THEN END_ADDR ELSE calls[c][n - 1]
    BY <2>3, <2>4 DEF AsCalled
  <2> QED BY <2>2, <2>4, <2>5 DEF c
<1> QED BY <1>1, AllInit, AllNext, PTL DEF Spec

\* Every variable stays in its type, the breakpoint lists and backtraces included.
THEOREM TypeCorrect == Spec => []TypeOK
<1>1. AllInv => TypeOK
  <2> SUFFICES ASSUME AllInv
               PROVE  TypeOK
    OBVIOUS
  <2>1. info \in [Pids -> DebugInfo]
    <3>1. ASSUME NEW d \in Pids
          PROVE  info[d] \in DebugInfo
      <4>1. InfoOK(info[d]) /\ info[d].backtrace_info \in [0 .. MAX_BACKTRACE - 1 -> Word]
        BY DEF AllInv, BInv, SInv, DataTypes
      <4> DEFINE r == info[d]
      <4>2. /\ r = Info(r.list, r.size, r.breakpt_num, r.backtrace_info)
            /\ r.list \in Seq(Breakpoint) /\ r.size \in Int /\ r.breakpt_num \in Nat
        BY <4>1 DEF InfoOK, ListOK
      <4> HIDE DEF r
      <4> QED BY <4>1, <4>2 DEF r, Info, DebugInfo
    <3> QED BY <3>1 DEF AllInv, BInv
  <2> QED BY <2>1 DEF AllInv, TypeOK, FInv, Types, FrameTypes, SInv, DataTypes
<1> QED BY <1>1, AllInit, AllNext, PTL DEF Spec
=============================================================================
