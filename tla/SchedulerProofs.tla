--------------------------- MODULE SchedulerProofs ---------------------------
(***************************************************************************)
(* Proofs about Scheduler, for every table size, quantum, signal set and   *)
(* number of processes: the run queue always has a task to run, and, when  *)
(* no program uses sys_clone's sharing flags, every process keeps a living *)
(* parent, no wake-up is lost and no page table is freed under a task.     *)
(***************************************************************************)
EXTENDS Scheduler, WellFoundedInduction, TLAPS

-------------------------------------------------------------------------------
(* schedule always finds a task to run *)

\* Every non-empty set of natural numbers has a least element.
LEMMA LeastNatural ==
    ASSUME NEW S \in SUBSET Nat, S # {}
    PROVE  \E x \in S : \A y \in S : x <= y
  <1>1. PICK x \in S : \A y \in S : ~(<<y, x>> \in OpToRel(<, Nat))
    BY NatLessThanWellFounded, WFMin, ZenonT(180)
  <1>2. \A y \in S : ~(y < x)
    BY <1>1, ZenonT(180) DEF OpToRel
  <1> QED
    BY <1>2, SMTT(180)

\* What the callers of schedule hand to it: the table as it was, but for the
\* current task, which may have stopped running, and for sleepers woken.
Handed(T) ==
    /\ T \in [Slots -> Task]
    /\ \A s \in Slots : /\ T[s].state = "Running" => s = current
                        /\ T[s].irq = tasks[s].irq
                        /\ s >= len => T[s].state = "None"
    /\ T[current].state \in {"Running", "Blocked", "Zombie"}
    /\ current = IdleSlot => T[current].state = "Running"
    /\ T[IdleSlot].state \in {"Ready", "Running"}
    /\ T[IdleSlot].pid = IdlePid /\ T[IdleSlot].pt = 0 /\ T[IdleSlot].at = "user"

\* When some task is ready the round-robin scan of schedule stops at one.
LEMMA NextExists ==
    ASSUME SchedInv, NEW T, Handed(T), NEW r \in Slots, T[r].state = "Ready"
    PROVE  \E n \in Slots \ {current} : IsNext(T, n)
  <1> DEFINE R == {s \in Slots : T[s].state = "Ready"}
             D == {Distance(s) : s \in R}
  <1>1. \A s \in R : s \in Nat /\ s < len /\ Distance(s) \in Nat
    BY SchedulerAssumption, SMTT(180) DEF Handed, SchedInv, TypeOK, TableShape,
       Distance, Slots
  <1>2. D \in SUBSET Nat /\ D # {}
    BY <1>1, ZenonT(30)
  <1>3. PICK d \in D : \A y \in D : d <= y
    BY <1>2, LeastNatural, ZenonT(180)
  <1>4. PICK n \in R : d = Distance(n)
    BY <1>3, ZenonT(30)
  <1>5. n # current
    BY <1>4, ZenonT(30) DEF Handed
  <1>6. \A s \in Slots : T[s].state = "Ready" => Distance(n) <= Distance(s)
    BY <1>3, <1>4, ZenonT(30)
  <1> QED
    BY <1>4, <1>5, <1>6, ZenonT(30) DEF IsNext

\* u is slot s of table T after the switch to n: only state and irq differ.
IsSwitched(u, T, s, n, preempted) ==
    /\ u \in Task
    /\ u.state = IF s = n THEN "Running"
                 ELSE IF s = current /\ T[s].state = "Running" THEN "Ready" ELSE T[s].state
    /\ u.irq = IF s = n THEN FALSE ELSE IF s = current THEN preempted ELSE T[s].irq
    /\ u.pid = T[s].pid /\ u.parent = T[s].parent /\ u.at = T[s].at
    /\ u.filter = T[s].filter /\ u.pending = T[s].pending /\ u.pt = T[s].pt

\* What a switch of schedule does to each slot.
LEMMA SwitchedSlot ==
    ASSUME NEW T \in [Slots -> Task], NEW n \in Slots, NEW preempted \in BOOLEAN,
           NEW s \in Slots
    PROVE  IsSwitched(Switched(T, n, preempted)[s], T, s, n, preempted)
  <1> DEFINE st == IF s = n THEN "Running"
                   ELSE IF s = current /\ T[s].state = "Running" THEN "Ready" ELSE T[s].state
             ir == IF s = n THEN FALSE ELSE IF s = current THEN preempted ELSE T[s].irq
  <1>1. T[s] \in Task
    OBVIOUS
  <1>2. Switched(T, n, preempted)[s] = [T[s] EXCEPT !.state = st, !.irq = ir]
    BY ZenonT(30) DEF Switched
  <1>3. st \in States /\ ir \in BOOLEAN
    BY <1>1, ZenonT(180) DEF Task, States
  <1> HIDE DEF st, ir
  <1>4. [T[s] EXCEPT !.state = st, !.irq = ir] \in Task
    BY <1>1, <1>3, ZenonT(180) DEF Task
  <1>5. LET t == [T[s] EXCEPT !.state = st, !.irq = ir] IN
           /\ t.state = st /\ t.irq = ir
           /\ t.pid = T[s].pid /\ t.parent = T[s].parent /\ t.at = T[s].at
           /\ t.filter = T[s].filter /\ t.pending = T[s].pending /\ t.pt = T[s].pt
    BY ZenonT(30), <1>1 DEF Task
  <1> QED
    BY ZenonT(30), <1>2, <1>4, <1>5 DEF st, ir, IsSwitched

\* schedule keeps one task Running, the one on the CPU, and the timer in service
\* exactly while the idle task is off it.
LEMMA ScheduleInv ==
    ASSUME SchedInv, NEW T, Handed(T), NEW preempted \in BOOLEAN,
           preempted <=> ~isr, Schedule(T, preempted), UNCHANGED <<len, owned, nextPid>>
    PROVE  SchedInv'
  <1>0. /\ current \in Slots /\ IdleSlot \in Slots /\ len \in 1 .. MaxTasks
        /\ Quantum \in Nat /\ ticks' \in 0 .. Quantum
    BY SchedulerAssumption, SMTT(180) DEF SchedInv, TypeOK, Schedule, Slots,
       IdleSlot
  <1>1. CASE \E n \in Slots \ {current} : IsNext(T, n)
    <2>1. PICK n \in Slots \ {current} :
            /\ IsNext(T, n)
            /\ tasks' = Switched(T, n, preempted)
            /\ current' = n
            /\ isr' = ((isr \/ preempted) /\ ~T[n].irq)
            /\ cr3' = IF T[n].pt \in {0, T[current].pt} THEN cr3 ELSE T[n].pt
      BY <1>1, ZenonT(30) DEF Schedule
    <2>2. n \in Slots /\ T[n].state = "Ready"
      BY <2>1, ZenonT(30) DEF IsNext
    <2>3. T \in [Slots -> Task]
      BY ZenonT(30) DEF Handed
    <2>8. \A s \in Slots : IsSwitched(tasks'[s], T, s, n, preempted)
      BY <2>1, <2>2, <2>3, SwitchedSlot, ZenonT(30)
    <2>9. tasks' \in [Slots -> Task]
      BY <2>1, <2>8, ZenonT(180) DEF Switched, IsSwitched
    <2>10. \A s \in Slots : tasks'[s].state =
             IF s = n THEN "Running"
             ELSE IF s = current /\ T[s].state = "Running" THEN "Ready" ELSE T[s].state
      BY <2>8, ZenonT(180) DEF IsSwitched
    <2>11. \A s \in Slots : /\ T[s].state = "Running" => s = current
                            /\ s >= len => T[s].state = "None"
                            /\ s = IdleSlot => T[s].state \in {"Ready", "Running"}
      BY ZenonT(30) DEF Handed
    <2>4. TypeOK'
      BY <1>0, <2>1, <2>3, <2>9, ZenonT(30) DEF SchedInv, TypeOK, Task
    <2>5. OneRunning'
      BY <1>0, <2>1, <2>2, <2>10, <2>11, SMTT(180) DEF OneRunning
    <2>6. TimerServesIdle'
      BY <1>0, <2>1, <2>2, <2>8, ZenonT(180) DEF TimerServesIdle, Handed,
         SchedInv, IsSwitched
    <2>7. TableShape'
      <3>1. len' = len /\ n < len /\ current < len /\ current' = n
        BY <2>1, <2>2, <1>0, SMTT(180) DEF Handed, Slots, SchedInv, TableShape
      <3>2. \A s \in Slots : s >= len' => tasks'[s].state = "None"
        BY <3>1, <2>10, <2>11, <1>0, SchedulerAssumption DEF Slots
      <3> QED
        BY <1>0, <2>8, <3>1, <3>2, ZenonT(180) DEF TableShape, Handed, Used,
           IsSwitched
    <2> QED
      BY <2>4, <2>5, <2>6, <2>7, ZenonT(30) DEF SchedInv
  <1>2. CASE ~\E n \in Slots \ {current} : IsNext(T, n)
    <2>1. \A s \in Slots : T[s].state # "Ready"
      BY <1>2, NextExists, ZenonT(30)
    <2>2. current = IdleSlot /\ T[current].state = "Running"
      BY <1>0, <2>1, ZenonT(30) DEF Handed
    <2>3. tasks' = T /\ UNCHANGED <<current, isr, cr3>>
      BY ZenonT(30), <1>2 DEF Schedule
    <2>4. TypeOK'
      BY <1>0, <2>3, ZenonT(30) DEF SchedInv, TypeOK, Handed
    <2>5. OneRunning' /\ TimerServesIdle' /\ TableShape'
      BY <1>0, <2>1, <2>2, <2>3, ZenonT(30) DEF OneRunning, TimerServesIdle,
         TableShape, Handed, SchedInv, TypeOK, Used
    <2> QED
      BY ZenonT(30), <2>4, <2>5 DEF SchedInv
  <1> QED
    BY <1>1, <1>2, ZenonT(30)

-------------------------------------------------------------------------------
(* The actions *)

\* A step that stays on the current task.
LEMMA QuietInv ==
    ASSUME SchedInv, NEW T, Handed(T), T[current].state = "Running", tasks' = T,
           UNCHANGED <<len, current, isr>>, ticks' \in 0 .. Quantum,
           cr3' \in {0} \cup PageTables, owned' \in SUBSET PageTables,
           nextPid' \in InitPid + 1 .. MaxPid + 1
    PROVE  SchedInv'
  <1>1. TypeOK'
    BY ZenonT(30) DEF SchedInv, TypeOK, Handed
  <1>2. \A s \in Slots : T[s].state = "Running" => s = current
    BY ZenonT(30) DEF Handed
  <1>3. OneRunning'
    BY <1>2, ZenonT(30) DEF OneRunning, Handed
  <1>4. TimerServesIdle'
    <2>1. IdleSlot \in Slots
      BY SchedulerAssumption, SMTT(180) DEF IdleSlot, Slots
    <2> QED
      BY <2>1, ZenonT(30) DEF SchedInv, TimerServesIdle, Handed
  <1>5. TableShape'
    BY ZenonT(30) DEF SchedInv, TableShape, Handed, Used
  <1> QED
    BY <1>1, <1>3, <1>4, <1>5, ZenonT(30) DEF SchedInv

\* The facts of the invariant that the actions use.
LEMMA Facts ==
    ASSUME SchedInv
    PROVE  /\ Handed(tasks)
           /\ me \in Task /\ me.state = "Running"
           /\ IdleSlot \in Slots /\ current \in Slots
           /\ isr <=> current # IdleSlot
           /\ (me.at # "user" \/ me.pt # 0) => current # IdleSlot
           /\ Quantum \in 0 .. Quantum /\ ticks \in 0 .. Quantum
           /\ cr3 \in {0} \cup PageTables /\ owned \in SUBSET PageTables
           /\ nextPid \in InitPid + 1 .. MaxPid + 1
           /\ (nextPid <= MaxPid => nextPid + 1 \in InitPid + 1 .. MaxPid + 1 /\ nextPid \in Pids)
  <1>1. IdleSlot \in Slots /\ current \in Slots /\ current < len
    BY SchedulerAssumption, SMTT(180) DEF SchedInv, TypeOK, TableShape,
       IdleSlot, Slots
  <1>2. Handed(tasks)
    BY ZenonT(30), <1>1 DEF SchedInv, TypeOK, OneRunning, TableShape, Handed, Used
  <1>3. me \in Task /\ me.state = "Running"
    BY ZenonT(30), <1>1 DEF SchedInv, TypeOK, OneRunning, me
  <1>4. (isr <=> current # IdleSlot) /\ ((me.at # "user" \/ me.pt # 0) => current # IdleSlot)
    BY ZenonT(30) DEF SchedInv, TimerServesIdle, TableShape, me
  <1> QED
    BY <1>1, <1>2, <1>3, <1>4, SchedulerAssumption, SMTT(180) DEF SchedInv,
       TypeOK, InitPid, Pids

\* The current task, not the idle one, moves to another place in the kernel.
LEMMA HandedPlace ==
    ASSUME SchedInv, NEW T, Handed(T), current # IdleSlot, NEW a \in Places
    PROVE  /\ Handed([T EXCEPT ![current].at = a])
           /\ [T EXCEPT ![current].at = a][current].state = T[current].state
  <1> DEFINE U == [T EXCEPT ![current].at = a]
  <1>1. T \in [Slots -> Task] /\ current \in Slots /\ IdleSlot \in Slots
    BY ZenonT(30), Facts DEF Handed
  <1>2. U \in [Slots -> Task]
    BY <1>1, SMTT(180) DEF Task
  <1>3. \A s \in Slots : /\ U[s].state = T[s].state /\ U[s].irq = T[s].irq /\ U[s].pid = T[s].pid
                         /\ U[s].pt = T[s].pt /\ (s # current => U[s].at = T[s].at)
    BY <1>1, SMTT(180) DEF Task
  <1> HIDE DEF U
  <1> QED
    BY <1>1, <1>2, <1>3, SMTT(180) DEF Handed, U

\* Slot s is sent a signal and woken.
LEMMA HandedSignal ==
    ASSUME SchedInv, NEW T, Handed(T), T[current].state = "Running", NEW s \in Slots,
           NEW P \in SUBSET (Signals \cup {SIGCHLD})
    PROVE  LET U == [T EXCEPT ![s].pending = P,
                              ![s].state = IF @ = "Blocked" THEN "Ready" ELSE @]
           IN Handed(U) /\ U[current].state = "Running"
  <1> DEFINE U == [T EXCEPT ![s].pending = P,
                            ![s].state = IF @ = "Blocked" THEN "Ready" ELSE @]
  <1>1. T \in [Slots -> Task] /\ current \in Slots /\ IdleSlot \in Slots
    BY Facts, ZenonT(30) DEF Handed
  <1>2. U = [T EXCEPT ![s] = [T[s] EXCEPT !.pending = P,
                !.state = IF T[s].state = "Blocked" THEN "Ready" ELSE T[s].state]]
    BY <1>1, ZenonT(180) DEF Task
  <1>3. U \in [Slots -> Task]
    BY <1>1, <1>2, SMTT(180) DEF Task, States
  <1>4. \A i \in Slots : /\ U[i].state = IF i = s /\ T[i].state = "Blocked" THEN "Ready" ELSE T[i].state
                         /\ U[i].irq = T[i].irq /\ U[i].pid = T[i].pid
                         /\ U[i].pt = T[i].pt /\ U[i].at = T[i].at
    BY <1>1, <1>2, SMTT(180) DEF Task
  <1> HIDE DEF U
  <1>5. Handed(U) /\ U[current].state = "Running"
    BY <1>1, <1>3, <1>4, SMTT(180) DEF Handed
  <1> QED
    BY ZenonT(30), <1>5 DEF U

\* The current task leaves the program for the end of its system call.
LEMMA ReturningInv ==
    ASSUME SchedInv, NEW T, Handed(T), T[current].state = "Running", current # IdleSlot,
           tasks' = Returning(T),
           UNCHANGED <<len, current, isr, ticks, cr3>>, owned' \in SUBSET PageTables,
           nextPid' \in InitPid + 1 .. MaxPid + 1
    PROVE  SchedInv'
  <1>1. Handed(Returning(T)) /\ Returning(T)[current].state = "Running"
    BY HandedPlace, ZenonT(180) DEF Returning, Places
  <1> QED
    BY <1>1, Facts, QuietInv, ZenonT(30)

\* The timer interrupt, with or without a switch (timer_handler, timer_tick).
LEMMA TimerInv ==
    ASSUME SchedInv, Timer
    PROVE  SchedInv'
  <1>0. ticks \in 0 .. Quantum /\ Quantum \in Nat
    BY ZenonT(30), SchedulerAssumption DEF SchedInv, TypeOK
  <1>1. CASE ticks <= 1
    <2>1. Schedule(tasks, TRUE) /\ ~isr /\ UNCHANGED <<len, owned, nextPid>>
      <3>1. ~(ticks > 1)
        BY <1>0, <1>1
      <3> QED
        BY <3>1, ZenonT(180) DEF Timer
    <2> QED
      BY <2>1, Facts, ScheduleInv, ZenonT(180)
  <1>2. CASE ticks > 1
    <2>1. ticks' = ticks - 1 /\ tasks' = tasks /\ UNCHANGED <<len, current, isr, cr3, owned, nextPid>>
      <3>1. ~(ticks <= 1)
        BY <1>0, <1>2, SMTT(180)
      <3> QED
        BY <3>1, ZenonT(180) DEF Timer
    <2>3. ticks' \in 0 .. Quantum
      BY <1>0, <1>2, <2>1, SMTT(180)
    <2>2. Handed(tasks) /\ tasks[current].state = "Running"
      BY Facts, ZenonT(30) DEF me
    <2> QED
      BY <2>1, <2>2, <2>3, Facts, QuietInv, ZenonT(30)
  <1> QED
    BY <1>0, <1>1, <1>2

\* Ctrl-C only adds a signal and wakes its target (signal_foreground).
LEMMA CtrlCInv ==
    ASSUME SchedInv, CtrlC
    PROVE  SchedInv'
  <1>1. PICK s \in Slots :
          tasks' = [tasks EXCEPT ![s].pending = @ \cup {SIGINT},
                                 ![s].state = IF @ = "Blocked" THEN "Ready" ELSE @]
    BY ZenonT(180) DEF CtrlC
  <1>2. tasks[s].pending \cup {SIGINT} \in SUBSET (Signals \cup {SIGCHLD})
    BY ZenonT(30) DEF CtrlC, SchedInv, TypeOK, Task
  <1>3. Handed(tasks) /\ tasks[current].state = "Running"
    BY Facts, ZenonT(30) DEF me
  <1>4. Handed(tasks') /\ tasks'[current].state = "Running"
    BY <1>1, <1>2, <1>3, HandedSignal, ZenonT(180)
  <1> QED
    BY <1>4, Facts, QuietInv, ZenonT(180) DEF CtrlC

\* A kill only adds a signal and wakes its target (sys_kill).
LEMMA KillInv ==
    ASSUME SchedInv, NEW p, NEW sig \in Signals, Kill(p, sig)
    PROVE  SchedInv'
  <1>1. PICK s \in Slots :
          tasks' = Returning([tasks EXCEPT ![s].pending = @ \cup {sig},
                                           ![s].state = IF @ = "Blocked" THEN "Ready" ELSE @])
    BY ZenonT(180) DEF Kill
  <1> DEFINE T == [tasks EXCEPT ![s].pending = @ \cup {sig},
                                ![s].state = IF @ = "Blocked" THEN "Ready" ELSE @]
  <1>2. tasks[s].pending \cup {sig} \in SUBSET (Signals \cup {SIGCHLD})
    BY ZenonT(30) DEF SchedInv, TypeOK, Task
  <1>3. Handed(tasks) /\ tasks[current].state = "Running" /\ current # IdleSlot
    BY Facts, ZenonT(30) DEF me, Kill, InUser
  <1>4. Handed(T) /\ T[current].state = "Running"
    BY <1>2, <1>3, HandedSignal, ZenonT(180)
  <1> HIDE DEF T
  <1> QED
    BY <1>1, <1>3, <1>4, Facts, ReturningInv, ZenonT(180) DEF T, Kill

\* A task that moves to another place is still a task (Returning).
LEMMA TaskAt ==
    ASSUME NEW r \in Task, NEW a \in Places
    PROVE  [r EXCEPT !.at = a] \in Task
  BY ZenonT(30) DEF Task

\* A task that gets another page table and loses its pending signals is still a
\* task, in the same state (sys_exec).
LEMMA TaskExec ==
    ASSUME NEW r \in Task, NEW p \in PageTables
    PROVE  /\ [r EXCEPT !.pt = p, !.pending = {}] \in Task
           /\ [r EXCEPT !.pt = p, !.pending = {}].state = r.state
           /\ [r EXCEPT !.pt = p, !.pending = {}].irq = r.irq
  <1> DEFINE S == SUBSET (Signals \cup {SIGCHLD})
             P == {0} \cup PageTables
  <1>1. {} \in S /\ p \in P
    OBVIOUS
  <1>2. Task = [pid : Pids, parent : Pids, state : States, at : Places, filter : Pids,
                pending : S, pt : P, irq : BOOLEAN]
    BY ZenonT(30) DEF Task
  <1> HIDE DEF S, P
  <1>3. [r EXCEPT !.pt = p, !.pending = {}] \in Task
    BY <1>1, <1>2, ZenonT(180)
  <1>4. /\ [r EXCEPT !.pt = p, !.pending = {}].state = r.state
        /\ [r EXCEPT !.pt = p, !.pending = {}].irq = r.irq
    BY ZenonT(30), <1>2
  <1> QED
    BY ZenonT(30), <1>3, <1>4

\* spawn_forked, spawn_user: a new task goes into a free slot.
LEMMA InsertInv ==
    ASSUME SchedInv, InUser, NEW t \in Task, t.state = "Ready", ~t.irq, Insert(t),
           UNCHANGED <<current, ticks, isr, cr3>>, owned' \in SUBSET PageTables,
           nextPid' \in InitPid + 1 .. MaxPid + 1
    PROVE  SchedInv'
  <1>0. /\ current \in Slots /\ current # IdleSlot /\ IdleSlot \in Slots
        /\ len \in 1 .. MaxTasks /\ current < len /\ MaxTasks \in Nat
    BY Facts, SchedulerAssumption, ZenonT(30) DEF InUser, SchedInv, TypeOK,
       TableShape
  <1>1. PICK s \in Slots : /\ len < MaxTasks
                           /\ FreeSlot(s)
                           /\ tasks' = Returning([tasks EXCEPT ![s] = t])
                           /\ len' = IF s = len THEN len + 1 ELSE len
    BY ZenonT(30) DEF Insert
  <1>2. s <= len /\ tasks[s].state = "None"
    BY <1>0, <1>1, SMTT(180) DEF FreeSlot, First, Used, SchedInv, TableShape,
       Slots
  <1>3. s # current /\ s # IdleSlot
    BY <1>0, <1>2, ZenonT(30) DEF SchedInv, OneRunning
  <1>4. \A i \in Slots : tasks'[i] = IF i = s THEN t
                                     ELSE IF i = current THEN [tasks[i] EXCEPT !.at = "return"] ELSE tasks[i]
    BY <1>0, <1>1, <1>3, ZenonT(30) DEF Returning, SchedInv, TypeOK
  <1>5. \A i \in Slots : tasks'[i] \in Task
    <2>1. \A i \in Slots : tasks[i] \in Task
      BY ZenonT(30) DEF SchedInv, TypeOK
    <2>2. \A i \in Slots : [tasks[i] EXCEPT !.at = "return"] \in Task
      BY <2>1, TaskAt, ZenonT(180) DEF Places
    <2> QED
      BY <1>4, <2>1, <2>2, ZenonT(180)
  <1>6. tasks' \in [Slots -> Task]
    BY <1>1, <1>5, ZenonT(30) DEF Returning, SchedInv, TypeOK
  <1>7. len' \in 1 .. MaxTasks /\ len <= len' /\ s < len'
    BY <1>0, <1>1, <1>2, SMTT(180) DEF Slots
  <1>8. TypeOK'
    BY ZenonT(30), <1>6, <1>7 DEF SchedInv, TypeOK
  <1>9. /\ \A i \in Slots : i # s => tasks'[i].state = tasks[i].state /\ tasks'[i].irq = tasks[i].irq
        /\ tasks'[IdleSlot] = tasks[IdleSlot]
        /\ tasks'[s].state = "Ready" /\ ~tasks'[s].irq
    BY <1>0, <1>3, <1>4, ZenonT(180) DEF SchedInv, TypeOK, Task
  <1>10. OneRunning'
    BY <1>0, <1>3, <1>9, SMTT(180) DEF SchedInv, OneRunning
  <1>11. TimerServesIdle'
    BY <1>0, <1>3, <1>9, ZenonT(30) DEF SchedInv, TimerServesIdle
  <1>12. TableShape'
    <2>1. \A i \in Slots : i >= len' => i >= len /\ i # s
      BY <1>0, <1>7, SMTT(180) DEF Slots
    <2> QED
      BY <1>0, <1>7, <1>9, <2>1, SMTT(180) DEF SchedInv, TableShape, Used,
         Slots
  <1> QED
    BY ZenonT(30), <1>8, <1>10, <1>11, <1>12 DEF SchedInv

\* The new tasks of the creating calls are well formed.
LEMMA NewTaskType ==
    ASSUME NEW p \in Pids, NEW q \in Pids, NEW pt \in {0} \cup PageTables
    PROVE  NewTask(p, q, pt) \in Task /\ NewTask(p, q, pt).state = "Ready" /\ ~NewTask(p, q, pt).irq
  <1>1. AnyChild \in Pids
    BY SchedulerAssumption DEF AnyChild, Pids
  <1> QED
    BY <1>1, ZenonT(30) DEF NewTask, Task, States, Places

\* The record of an empty slot is a task that neither runs nor waits in the timer handler.
LEMMA EmptySlotType == EmptySlot \in Task /\ EmptySlot.state = "None" /\ ~EmptySlot.irq
  <1>1. NewTask(0, 0, 0) \in Task /\ ~NewTask(0, 0, 0).irq
    BY NewTaskType, SchedulerAssumption DEF Pids
  <1> QED
    BY <1>1, ZenonT(30) DEF EmptySlot, Task, States

\* fork and spawn put a Ready task into a free slot (sys_fork, spawn_forked).
LEMMA ForkInv ==
    ASSUME SchedInv, Fork
    PROVE  SchedInv'
  <1>1. PICK p \in PageTables : Insert(NewTask(nextPid, me.pid, p)) /\ owned' = owned \cup {p}
    BY ZenonT(30) DEF Fork
  <1>2. /\ InUser /\ nextPid \in Pids /\ nextPid' \in InitPid + 1 .. MaxPid + 1
        /\ UNCHANGED <<current, ticks, isr, cr3>>
    BY ZenonT(30), Facts DEF Fork
  <1>3. me.pid \in Pids /\ owned' \in SUBSET PageTables
    BY <1>1, Facts, ZenonT(30) DEF Task
  <1> QED
    BY <1>1, <1>2, <1>3, NewTaskType, InsertInv, ZenonT(180)

\* clone does so with a shared page table or identifier (sys_clone).
LEMMA CloneInv ==
    ASSUME SchedInv, NEW vm \in BOOLEAN, NEW thread \in BOOLEAN, Clone(vm, thread)
    PROVE  SchedInv'
  <1> DEFINE q == IF thread THEN me.pid ELSE nextPid
  <1>1. PICK p \in PageTables : Insert(NewTask(q, me.pid, p)) /\ owned' = owned \cup {p}
    BY ZenonT(30) DEF Clone
  <1>2. /\ InUser /\ nextPid \in Pids /\ nextPid' \in InitPid + 1 .. MaxPid + 1
        /\ UNCHANGED <<current, ticks, isr, cr3>>
    BY Facts, ZenonT(30) DEF Clone
  <1>3. me.pid \in Pids /\ owned' \in SUBSET PageTables
    BY <1>1, Facts, ZenonT(30) DEF Task
  <1>4. q \in Pids
    BY ZenonT(30), <1>2, <1>3
  <1> HIDE DEF q
  <1> QED
    BY <1>1, <1>2, <1>3, <1>4, NewTaskType, InsertInv, ZenonT(180)

\* A refused spawn leaves the table as it was (spawn_forked at MAX_TASKS).
LEMMA SpawnFailsInv ==
    ASSUME SchedInv, NEW leak \in BOOLEAN, SpawnFails(leak)
    PROVE  SchedInv'
  <1>1. Handed(tasks) /\ tasks[current].state = "Running" /\ current # IdleSlot
    BY Facts, ZenonT(30) DEF me, SpawnFails, InUser
  <1>2. owned' \in SUBSET PageTables /\ nextPid' \in InitPid + 1 .. MaxPid + 1
    BY Facts, ZenonT(30) DEF SpawnFails
  <1> QED
    BY <1>1, <1>2, ReturningInv, ZenonT(30) DEF SpawnFails

\* exec replaces the page table of the caller only (sys_exec).
LEMMA ExecInv ==
    ASSUME SchedInv, Exec
    PROVE  SchedInv'
  <1>1. PICK p \in PageTables :
          /\ owned' = (owned \ {me.pt}) \cup {p}
          /\ tasks' = [tasks EXCEPT ![current].pt = p, ![current].pending = {}]
          /\ cr3' = p
    BY ZenonT(180) DEF Exec
  <1>2. /\ Handed(tasks) /\ tasks[current].state = "Running" /\ current # IdleSlot
        /\ tasks \in [Slots -> Task] /\ current \in Slots
    BY Facts, ZenonT(30) DEF me, Exec, InUser, Handed
  <1>3. \A s \in Slots : tasks'[s] = IF s = current THEN [tasks[s] EXCEPT !.pt = p, !.pending = {}] ELSE tasks[s]
    BY <1>1, <1>2, ZenonT(180)
  <1>4. \A s \in Slots : tasks'[s] \in Task /\ tasks'[s].state = tasks[s].state /\ tasks'[s].irq = tasks[s].irq
    <2> TAKE s \in Slots
    <2>1. tasks[s] \in Task
      BY <1>2, ZenonT(30)
    <2>2. CASE s = current
      <3> DEFINE q == [tasks[s] EXCEPT !.pt = p, !.pending = {}]
      <3>1. tasks'[s] = q
        BY <1>3, <2>2, ZenonT(180)
      <3>2. q \in Task /\ q.state = tasks[s].state /\ q.irq = tasks[s].irq
        BY <2>1, TaskExec, ZenonT(180)
      <3> HIDE DEF q
      <3> QED
        BY ZenonT(30), <3>1, <3>2
    <2>3. CASE s # current
      BY <1>3, <2>1, <2>3, ZenonT(180)
    <2> QED
      BY ZenonT(30), <2>2, <2>3
  <1>5. tasks' \in [Slots -> Task]
    BY <1>1, <1>2, <1>4, ZenonT(30)
  <1>6. Handed(tasks') /\ tasks'[current].state = "Running"
    BY <1>2, <1>3, <1>4, <1>5, Facts, ZenonT(180) DEF Handed
  <1>7. /\ owned' \in SUBSET PageTables /\ nextPid' \in InitPid + 1 .. MaxPid + 1
        /\ cr3' \in {0} \cup PageTables /\ ticks' \in 0 .. Quantum
    BY ZenonT(30), <1>1, Facts DEF Exec
  <1> QED
    BY <1>6, <1>7, QuietInv, ZenonT(180) DEF Exec

\* u is slot i of table T after the task in slot s exited.
IsExited(u, T, s, i) ==
    /\ u \in Task
    /\ i = s => u.state = "Zombie"
    /\ i # s => u.state = T[i].state \/ (T[i].state = "Blocked" /\ u.state = "Ready")
    /\ u.pid = T[i].pid /\ u.at = T[i].at /\ u.filter = T[i].filter
    /\ u.pt = T[i].pt /\ u.irq = T[i].irq

\* What exit_current does to each slot.
LEMMA ExitedSlot ==
    ASSUME NEW T \in [Slots -> Task], NEW s \in Slots, NEW i \in Slots
    PROVE  IsExited(Exited(T, s)[i], T, s, i)
  <1> DEFINE named == {j \in Slots : Used(T, j) /\ T[j].pid = T[s].parent /\ T[s].parent # IdlePid}
             sleepers == {j \in named \ {s} : T[j].state = "Blocked"}
             st == IF i = s THEN "Zombie"
                   ELSE IF First(i, sleepers) \/ (First(i, named) /\ i \in sleepers) THEN "Ready"
                   ELSE T[i].state
             pa == IF T[i].pid # T[s].pid /\ Used(T, i) /\ T[i].parent = T[s].pid THEN InitPid
                   ELSE T[i].parent
             pe == IF First(i, named) THEN T[i].pending \cup {SIGCHLD} ELSE T[i].pending
  <1>1. Exited(T, s)[i] = [T[i] EXCEPT !.state = st, !.parent = pa, !.pending = pe]
    BY ZenonT(30) DEF Exited
  <1>2. T[i] \in Task /\ InitPid \in Pids
    BY SchedulerAssumption DEF Pids, InitPid
  <1>3. st \in States /\ (i = s => st = "Zombie")
        /\ (i # s => st = T[i].state \/ (T[i].state = "Blocked" /\ st = "Ready"))
    BY <1>2, ZenonT(30) DEF Task, States, First
  <1>4. pa \in Pids /\ pe \in SUBSET (Signals \cup {SIGCHLD})
    BY <1>2, ZenonT(30) DEF Task
  <1> HIDE DEF st, pa, pe
  <1> QED
    BY <1>1, <1>2, <1>3, <1>4, ZenonT(180) DEF IsExited, Task

\* The table exit_current leaves to schedule: children handed to init, the parent woken.
LEMMA HandedExit ==
    ASSUME SchedInv, NEW T, Handed(T), current # IdleSlot
    PROVE  Handed(Exited(T, current))
  <1>1. T \in [Slots -> Task] /\ current \in Slots /\ IdleSlot \in Slots
    BY Facts, ZenonT(30) DEF Handed
  <1>2. \A i \in Slots : IsExited(Exited(T, current)[i], T, current, i)
    BY <1>1, ExitedSlot, ZenonT(30)
  <1>3. Exited(T, current) \in [Slots -> Task]
    BY <1>2, ZenonT(180) DEF Exited, IsExited
  <1>4. current < len /\ len \in Nat /\ \A i \in Slots : i \in Nat
    BY SchedulerAssumption, SMTT(180) DEF SchedInv, TypeOK, TableShape, Slots
  <1> QED
    BY <1>1, <1>2, <1>3, <1>4, SMTT(180) DEF Handed, IsExited

\* exit makes the caller a zombie and switches away from it (exit_current).
LEMMA ExitInv ==
    ASSUME SchedInv, Exit
    PROVE  SchedInv'
  <1>1. Handed(tasks) /\ current # IdleSlot /\ isr
    BY ZenonT(30), Facts DEF Exit, InUser
  <1>2. Handed(Exited(tasks, current))
    BY ZenonT(30), <1>1, HandedExit
  <1> QED
    BY <1>1, <1>2, ScheduleInv, ZenonT(180) DEF Exit

\* The current task, not the idle one, blocks.
LEMMA HandedBlock ==
    ASSUME SchedInv, NEW T, Handed(T), current # IdleSlot, NEW a \in Places, NEW f \in Pids
    PROVE  /\ Handed([T EXCEPT ![current].state = "Blocked", ![current].at = a])
           /\ Handed([T EXCEPT ![current].state = "Blocked", ![current].at = a, ![current].filter = f])
  <1>1. T \in [Slots -> Task] /\ current \in Slots /\ IdleSlot \in Slots
    BY Facts, ZenonT(30) DEF Handed
  <1>2. current < len /\ len \in Nat /\ \A i \in Slots : i \in Nat
    BY SchedulerAssumption, SMTT(180) DEF SchedInv, TypeOK, TableShape, Slots
  <1>3. ASSUME NEW t \in Task, t.state = "Blocked", t.irq = T[current].irq
        PROVE  Handed([T EXCEPT ![current] = t])
    BY <1>1, <1>2, <1>3, ZenonT(30) DEF Handed
  <1>4. /\ [T[current] EXCEPT !.state = "Blocked", !.at = a] \in Task
        /\ [T[current] EXCEPT !.state = "Blocked", !.at = a, !.filter = f] \in Task
    BY <1>1, ZenonT(180) DEF Task, States
  <1>5. /\ [T EXCEPT ![current].state = "Blocked", ![current].at = a]
             = [T EXCEPT ![current] = [T[current] EXCEPT !.state = "Blocked", !.at = a]]
        /\ [T EXCEPT ![current].state = "Blocked", ![current].at = a, ![current].filter = f]
             = [T EXCEPT ![current] = [T[current] EXCEPT !.state = "Blocked", !.at = a, !.filter = f]]
    BY <1>1, ZenonT(180)
  <1>6. /\ Handed([T EXCEPT ![current] = [T[current] EXCEPT !.state = "Blocked", !.at = a]])
        /\ Handed([T EXCEPT ![current] = [T[current] EXCEPT !.state = "Blocked", !.at = a, !.filter = f]])
    BY <1>1, <1>3, <1>4, ZenonT(180) DEF Task
  <1> QED
    BY ZenonT(30), <1>5, <1>6

\* The three ways round the loop of sys_wait.
LEMMA WaitLoopInv ==
    ASSUME SchedInv, current # IdleSlot, NEW f \in Pids, NoChild(f) \/ Reap(f) \/ Sleep(f)
    PROVE  SchedInv'
  <1>1. Handed(tasks) /\ tasks[current].state = "Running" /\ isr /\ current \in Slots /\ IdleSlot \in Slots
    BY ZenonT(30), Facts DEF me
  <1>2. CASE NoChild(f)
    BY <1>1, <1>2, Facts, ReturningInv, ZenonT(30) DEF NoChild
  <1>3. CASE Reap(f)
    <2>1. PICK s \in Slots : /\ First(s, Reapable(f))
                             /\ tasks' = Returning([tasks EXCEPT ![s] = EmptySlot])
                             /\ owned' = owned \ {tasks[s].pt}
                             /\ UNCHANGED <<len, current, ticks, isr, cr3, nextPid>>
      BY <1>3, ZenonT(180) DEF Reap
    <2>2. tasks[s].state = "Zombie"
      BY ZenonT(30), <2>1 DEF First, Reapable
    <2>3. s # current /\ s # IdleSlot
      BY ZenonT(30), <1>1, <2>2 DEF SchedInv, OneRunning
    <2>4. /\ EmptySlot \in Task
          /\ EmptySlot.state = "None" /\ ~EmptySlot.irq
      BY ZenonT(30), EmptySlotType
    <2>5. ~tasks[s].irq
      BY <2>3, ZenonT(30) DEF SchedInv, TimerServesIdle
    <2>6. Handed([tasks EXCEPT ![s] = EmptySlot]) /\ [tasks EXCEPT ![s] = EmptySlot][current].state = "Running"
      BY <1>1, <2>3, <2>4, <2>5, SMTT(180) DEF Handed, SchedInv, TypeOK, Task
    <2> QED
      BY <2>1, <2>6, Facts, ReturningInv, ZenonT(180)
  <1>4. CASE Sleep(f)
    <2> DEFINE T == [tasks EXCEPT ![current].state = "Blocked", ![current].at = "wait",
                                  ![current].filter = f]
    <2>1. Handed(T)
      BY <1>1, HandedBlock, ZenonT(180) DEF Places
    <2>2. Schedule(T, FALSE) /\ UNCHANGED <<len, owned, nextPid>>
      BY <1>4, ZenonT(180) DEF Sleep
    <2> HIDE DEF T
    <2> QED
      BY <1>1, <2>1, <2>2, ScheduleInv, ZenonT(180)
  <1> QED
    BY ZenonT(30), <1>2, <1>3, <1>4

\* Taking pending signals: nothing, a stop, or an exit (deliver_pending_signals).
LEMMA DeliverInv ==
    ASSUME SchedInv, Deliver
    PROVE  SchedInv'
  <1>1. /\ Handed(tasks) /\ tasks[current].state = "Running" /\ isr /\ current # IdleSlot
        /\ current \in Slots /\ IdleSlot \in Slots /\ tasks \in [Slots -> Task]
    BY Facts, ZenonT(30) DEF me, Deliver, Handed
  <1>2. PICK sig \in me.pending :
          LET T == [tasks EXCEPT ![current].pending = @ \ {sig}] IN
            \/ tasks' = T /\ UNCHANGED <<current, ticks, isr, cr3>>
            \/ tasks' = [T EXCEPT ![current].at = "user"] /\ UNCHANGED <<current, ticks, isr, cr3>>
            \/ Schedule([T EXCEPT ![current].state = "Blocked", ![current].at = "stop"], FALSE)
            \/ Schedule(Exited(T, current), FALSE)
    BY ZenonT(180) DEF Deliver
  <1> DEFINE T == [tasks EXCEPT ![current].pending = @ \ {sig}]
  <1>3. \A s \in Slots : T[s] = IF s = current THEN [tasks[s] EXCEPT !.pending = @ \ {sig}] ELSE tasks[s]
    BY <1>1, ZenonT(30)
  <1>4. \A s \in Slots : T[s] \in Task /\ T[s].state = tasks[s].state /\ T[s].irq = tasks[s].irq
    BY <1>1, <1>3, SMTT(180) DEF Task
  <1>5. T \in [Slots -> Task]
    BY <1>1, <1>4, ZenonT(30)
  <1> HIDE DEF T
  <1>6. Handed(T) /\ T[current].state = "Running"
    BY <1>1, <1>3, <1>4, <1>5 DEF Handed
  <1>7. UNCHANGED <<len, owned, nextPid>>
    BY ZenonT(30) DEF Deliver
  <1>8. CASE tasks' = T /\ UNCHANGED <<current, ticks, isr, cr3>>
    BY ZenonT(30), <1>6, <1>7, <1>8, Facts, QuietInv
  <1>9. CASE tasks' = [T EXCEPT ![current].at = "user"] /\ UNCHANGED <<current, ticks, isr, cr3>>
    BY <1>1, <1>6, <1>7, <1>9, Facts, HandedPlace, QuietInv, ZenonT(180) DEF
       Places
  <1>10. CASE Schedule([T EXCEPT ![current].state = "Blocked", ![current].at = "stop"], FALSE)
    <2>1. Handed([T EXCEPT ![current].state = "Blocked", ![current].at = "stop"])
      <3>1. 0 \in Pids /\ "stop" \in Places
        BY SchedulerAssumption DEF Places, Pids
      <3> QED
        BY <1>1, <1>6, <3>1, HandedBlock, ZenonT(180)
    <2> QED
      BY <1>1, <1>7, <1>10, <2>1, ScheduleInv, ZenonT(180)
  <1>11. CASE Schedule(Exited(T, current), FALSE)
    <2>1. Handed(Exited(T, current))
      BY <1>1, <1>6, HandedExit, ZenonT(30)
    <2> QED
      BY <1>1, <1>7, <1>11, <2>1, ScheduleInv, ZenonT(180)
  <1> QED
    BY <1>2, <1>8, <1>9, <1>10, <1>11, ZenonT(180) DEF T

\* What a program or the kernel does without touching another task.
LEMMA OwnInv ==
    ASSUME SchedInv, Resume \/ Continue \/ Yield \/ OtherSyscall \/ (\E f \in Filters : WaitNoHang(f))
    PROVE  SchedInv'
  <1>1. Handed(tasks) /\ tasks[current].state = "Running" /\ current \in Slots
    BY ZenonT(30), Facts DEF me
  <1>2. CASE Resume
    <2>1. current # IdleSlot
      BY ZenonT(30), <1>2, Facts DEF Resume
    <2> QED
      BY <1>1, <1>2, <2>1, Facts, HandedPlace, QuietInv, ZenonT(180) DEF
         Resume, Places
  <1>3. CASE Continue
    BY <1>1, <1>3, Facts, ReturningInv, ZenonT(30) DEF Continue
  <1>4. CASE Yield
    BY <1>1, <1>4, Facts, ScheduleInv, ZenonT(180) DEF Yield
  <1>5. CASE OtherSyscall
    BY <1>1, <1>5, Facts, ReturningInv, ZenonT(30) DEF OtherSyscall, InUser
  <1>6. CASE \E f \in Filters : WaitNoHang(f)
    BY <1>1, <1>6, Facts, ReturningInv, ZenonT(30) DEF WaitNoHang, InUser
  <1> QED
    BY ZenonT(30), <1>2, <1>3, <1>4, <1>5, <1>6

\* The table as boot leaves it satisfies the invariant.
LEMMA InitInv == Init => SchedInv
  <1> SUFFICES ASSUME Init PROVE SchedInv
    OBVIOUS
  <1> DEFINE idle == [NewTask(IdlePid, 0, 0) EXCEPT !.state = "Running"]
             user == NewTask(InitPid, IdlePid, 1)
             flushd == NewTask(FlushdPid, IdlePid, 0)
  <1>0. /\ MaxTasks \in Nat /\ Kthreads \in {0, 1} /\ MaxTasks > Kthreads + 1
        /\ IdlePid \in Pids /\ InitPid \in Pids /\ FlushdPid \in Pids /\ 0 \in Pids /\ 1 \in PageTables
    BY SchedulerAssumption DEF Pids, IdlePid, InitPid, FlushdPid, PageTables
  <1>1. /\ user \in Task /\ user.state = "Ready" /\ ~user.irq
        /\ flushd \in Task /\ flushd.state = "Ready" /\ ~flushd.irq
        /\ NewTask(IdlePid, 0, 0) \in Task /\ ~NewTask(IdlePid, 0, 0).irq
    BY ZenonT(30), <1>0, NewTaskType
  <1>2. /\ idle \in Task /\ idle.state = "Running" /\ ~idle.irq
        /\ idle.pid = IdlePid /\ idle.pt = 0 /\ idle.at = "user"
    BY <1>1, ZenonT(180) DEF Task, States, NewTask
  <1> HIDE DEF idle, user, flushd
  <1>3. \A s \in Slots : tasks[s] = IF s = IdleSlot THEN idle ELSE IF s = Kthreads + 1 THEN user
                                    ELSE IF s = 1 /\ Kthreads = 1 THEN flushd ELSE EmptySlot
    BY <1>0, SMTT(180) DEF Init, idle, user, flushd, IdleSlot
  <1>4. \A s \in Slots : tasks[s] \in Task
    BY ZenonT(30), <1>1, <1>2, <1>3, EmptySlotType
  <1>9. /\ len = Kthreads + 2 /\ current = 0 /\ ticks = Quantum /\ isr = FALSE /\ cr3 = 0
        /\ owned = {1} /\ nextPid = 3
    BY DEF Init, IdleSlot, InitPid
  <1>5. TypeOK
    <2>1. tasks \in [Slots -> Task]
      BY <1>4, ZenonT(30) DEF Init
    <2> QED
      <3>1. len \in 1 .. MaxTasks /\ current \in Slots /\ ticks \in 0 .. Quantum
        BY <1>0, <1>9, SchedulerAssumption, SMTT(180) DEF Slots
      <3>2. isr \in BOOLEAN /\ cr3 \in {0} \cup PageTables /\ owned \in SUBSET PageTables
        BY <1>0, <1>9, ZenonT(180)
      <3>3. nextPid \in InitPid + 1 .. MaxPid + 1
        BY <1>9, SchedulerAssumption DEF InitPid
      <3> QED
        BY ZenonT(30), <2>1, <3>1, <3>2, <3>3 DEF TypeOK
  <1>6. OneRunning
    BY <1>0, <1>1, <1>2, <1>3, EmptySlotType, SMTT(180) DEF Init, OneRunning,
       IdleSlot, Slots
  <1>7. TimerServesIdle
    BY <1>0, <1>1, <1>2, <1>3, EmptySlotType, SMTT(180) DEF Init,
       TimerServesIdle, IdleSlot, Slots
  <1>8. TableShape
    <2>1. \A s \in Slots : s >= len => tasks[s] = EmptySlot
      BY <1>0, <1>3, <1>9 DEF IdleSlot, Slots
    <2>2. IdleSlot \in Slots /\ current < len
      BY <1>0, <1>9 DEF IdleSlot, Slots
    <2> QED
      BY <1>2, <1>3, <2>1, <2>2, EmptySlotType, ZenonT(30) DEF TableShape, Used
  <1> QED
    BY ZenonT(30), <1>5, <1>6, <1>7, <1>8 DEF SchedInv

\* Every step of the kernel and its programs preserves the invariant.
LEMMA StepInv ==
    ASSUME SchedInv, [Next]_vars
    PROVE  SchedInv'
  <1>1. CASE Timer
    BY ZenonT(30), <1>1, TimerInv
  <1>2. CASE CtrlC
    BY ZenonT(30), <1>2, CtrlCInv
  <1>3. CASE Program
    <2>1. CASE Fork
      BY ZenonT(30), <2>1, ForkInv
    <2>2. CASE Exec
      BY ZenonT(30), <2>2, ExecInv
    <2>3. CASE Exit
      BY ZenonT(30), <2>3, ExitInv
    <2>4. CASE Yield \/ OtherSyscall
      BY ZenonT(30), <2>4, OwnInv
    <2>5. CASE \E leak \in BOOLEAN : SpawnFails(leak)
      BY ZenonT(30), <2>5, SpawnFailsInv
    <2>6. CASE \E vm, thread \in BOOLEAN : Clone(vm, thread)
      BY <2>6, CloneInv, ZenonT(30)
    <2>7. CASE \E f \in Filters : Wait(f)
      BY <2>7, Facts, WaitLoopInv, ZenonT(30) DEF Wait, Filters, InUser
    <2>8. CASE \E f \in Filters : WaitNoHang(f)
      BY ZenonT(30), <2>8, OwnInv
    <2>9. CASE \E p \in Pids \ {IdlePid, FlushdPid}, sig \in Signals : Kill(p, sig)
      BY ZenonT(30), <2>9, KillInv
    <2> QED
      BY <1>3, <2>1, <2>2, <2>3, <2>4, <2>5, <2>6, <2>7, <2>8, <2>9, ZenonT(30)
         DEF Program
  <1>4. CASE WaitAgain
    <2>1. current # IdleSlot /\ me.filter \in Pids
      BY ZenonT(30), <1>4, Facts DEF WaitAgain, Task
    <2> QED
      BY <1>4, <2>1, WaitLoopInv, ZenonT(30) DEF WaitAgain
  <1>5. CASE Deliver
    BY ZenonT(30), <1>5, DeliverInv
  <1>6. CASE Resume \/ Continue
    BY <1>6, OwnInv, ZenonT(30)
  <1>7. CASE UNCHANGED vars
    BY <1>7, ZenonT(30) DEF vars, SchedInv, TypeOK, OneRunning, TimerServesIdle,
       TableShape, Used
  <1> QED
    BY ZenonT(30), <1>1, <1>2, <1>3, <1>4, <1>5, <1>6, <1>7 DEF Next, Kernel

\* In every run of the scheduler, with any number of slots and processes, exactly
\* one task is Running and it is the one on the CPU, the idle task is always
\* runnable, and the timer interrupt is in service exactly while the idle task is
\* off the CPU: a task switched to from the timer handler is never preempted.
THEOREM SchedulerInvariant == Spec => []SchedInv
  <1>1. Init => SchedInv
    BY ZenonT(30), InitInv
  <1>2. SchedInv /\ [Next]_vars => SchedInv'
    BY ZenonT(30), StepInv
  <1> QED
    BY <1>1, <1>2, PTL DEF Spec

\* The two parts of it that the header of scheduler.rs and the interrupt path
\* depend on.
THEOREM OneTaskRuns == Spec => [](OneRunning /\ TimerServesIdle)
  <1>1. SchedInv => OneRunning /\ TimerServesIdle
    BY ZenonT(30) DEF SchedInv
  <1> QED
    BY <1>1, SchedulerInvariant, PTL

-------------------------------------------------------------------------------
(* The inductive invariant, as a predicate of a table: schedule is given *)
(* tables that are not in tasks yet.                                     *)

Lives(T, s) == T[s].state \in {"Ready", "Running", "Blocked"}

Waits(T, s) == T[s].state = "Blocked" /\ T[s].at = "wait"

Child(T, c, s) ==
    Used(T, c) /\ T[c].parent = T[s].pid /\ T[s].filter \in {AnyChild, T[c].pid}

\* Identifiers are unique and come from below n; only user processes are inside
\* a system call.
Named(T, n) ==
    /\ \A s, t \in Slots : Used(T, s) /\ Used(T, t) /\ T[s].pid = T[t].pid => s = t
    /\ \A s \in Slots : Used(T, s) =>
         /\ T[s].pid < n
         /\ T[s].pid > InitPid => T[s].parent # T[s].pid
         /\ T[s].pt # 0 => T[s].pid >= InitPid
         /\ T[s].at # "user" => T[s].pt # 0

\* ParentAlive of table T.
Parents(T) ==
    (\E i \in Slots : Lives(T, i) /\ T[i].pid = InitPid) =>
        \A s \in Slots : Used(T, s) /\ T[s].pid > InitPid =>
            \E i \in Slots : Lives(T, i) /\ T[i].pid = T[s].parent

\* NoLostWakeup of table T.
Woken(T) ==
    \A s \in Slots : Waits(T, s) /\ T[s].pid # InitPid =>
        /\ \E c \in Slots : Child(T, c, s) /\ Lives(T, c)
        /\ \A c \in Slots : Child(T, c, s) => Lives(T, c)

\* The page tables of T are in o, and no two tasks share one.
Tables(T, o) ==
    /\ \A s \in Slots : Used(T, s) => T[s].pt \in o \cup {0}
    /\ \A s, t \in Slots : Used(T, s) /\ Used(T, t) /\ T[s].pt = T[t].pt => s = t \/ T[s].pt = 0

\* The table r in the CPU is in o, and the task in slot c is on it.
Loaded(T, c, o, r) == r \in o \cup {0} /\ T[c].pt \in {0, r}

Kept(T, n, c, o, r) ==
    Named(T, n) /\ Parents(T) /\ Woken(T) /\ Tables(T, o) /\ Loaded(T, c, o, r)

\* Why the properties of processes are inductive: identifiers and page tables
\* are not shared, so exit_current wakes the one parent there is and
\* reap_zombie_child frees a table nobody else has.
ProcInv == SchedInv /\ Kept(tasks, nextPid, current, owned, cr3)

-------------------------------------------------------------------------------
(* Steps that neither create nor end a process *)

\* From T to U tasks are woken, stopped, switched or sent signals; nobody falls
\* asleep in sys_wait.
Calm(T, U) ==
    \A s \in Slots :
        /\ U[s].pid = T[s].pid /\ U[s].parent = T[s].parent /\ U[s].pt = T[s].pt
        /\ U[s].state = "None" <=> T[s].state = "None"
        /\ U[s].state = "Zombie" <=> T[s].state = "Zombie"
        /\ Waits(U, s) => Waits(T, s) /\ U[s].filter = T[s].filter
        /\ U[s].at # "user" => T[s].at # "user" \/ T[s].pt # 0

\* A task lives unless its slot is empty or it is a zombie (TaskState).
LEMMA LivesIff ==
    ASSUME NEW T \in [Slots -> Task]
    PROVE  \A s \in Slots : /\ Lives(T, s) <=> T[s].state \notin {"None", "Zombie"}
                            /\ Lives(T, s) => Used(T, s)
                            /\ Waits(T, s) => Used(T, s) /\ Lives(T, s)
                            /\ T[s].pid \in Nat /\ T[s].parent \in Nat
  <1>1. \A s \in Slots : T[s].state \in States /\ T[s].pid \in Pids /\ T[s].parent \in Pids
    BY ZenonT(30) DEF Task
  <1> QED
    BY <1>1, SchedulerAssumption, SMTT(60) DEF Lives, Used, States, Waits, Pids

\* A calm step keeps the invariant of the processes (yield, kill, Ctrl-C, a stop,
\* the timer).
LEMMA CalmKept ==
    ASSUME NEW T \in [Slots -> Task], NEW U \in [Slots -> Task], Calm(T, U),
           NEW n \in Nat, NEW m \in Nat, n <= m, NEW o, NEW q, o \subseteq q, NEW r,
           NEW c \in Slots, Kept(T, n, c, o, r)
    PROVE  Kept(U, m, c, q, r)
  <1>1. \A s \in Slots : /\ Lives(U, s) <=> Lives(T, s)
                         /\ Used(U, s) <=> Used(T, s)
                         /\ T[s].pid \in Nat
    BY LivesIff, ZenonT(30) DEF Calm, Used
  <1>2. \A s \in Slots : /\ U[s].pid = T[s].pid /\ U[s].parent = T[s].parent /\ U[s].pt = T[s].pt
                         /\ Waits(U, s) => Waits(T, s) /\ U[s].filter = T[s].filter
                         /\ U[s].at # "user" => T[s].at # "user" \/ T[s].pt # 0
    BY ZenonT(30) DEF Calm
  <1>3. Named(U, m)
    BY <1>1, <1>2, SMTT(60) DEF Kept, Named, InitPid
  <1>4. Parents(U)
    BY <1>1, <1>2, SMTT(60) DEF Kept, Parents
  <1>5. Woken(U)
    BY <1>1, <1>2, SMTT(60) DEF Kept, Woken, Child
  <1>6. Tables(U, q) /\ Loaded(U, c, q, r)
    BY <1>1, <1>2, ZenonT(30) DEF Kept, Tables, Loaded
  <1> QED
    BY ZenonT(30), <1>3, <1>4, <1>5, <1>6 DEF Kept

\* schedule only moves tasks between Ready and Running: it keeps the invariant,
\* and loads the page table of the task it switches to.
LEMMA ScheduleKept ==
    ASSUME SchedInv, NEW T, Handed(T), NEW preempted \in BOOLEAN,
           Schedule(T, preempted), UNCHANGED <<owned, nextPid>>,
           Kept(T, nextPid, current, owned, cr3)
    PROVE  Kept(tasks, nextPid, current, owned, cr3)'
  <1>0. T \in [Slots -> Task] /\ current \in Slots /\ nextPid \in Nat
    BY Facts, SMTT(60) DEF Handed, InitPid
  <1>1. CASE \E n \in Slots \ {current} : IsNext(T, n)
    <2>1. PICK n \in Slots \ {current} :
            /\ IsNext(T, n)
            /\ tasks' = Switched(T, n, preempted)
            /\ current' = n
            /\ cr3' = IF T[n].pt \in {0, T[current].pt} THEN cr3 ELSE T[n].pt
      BY <1>1, ZenonT(30) DEF Schedule
    <2>2. T[n].state = "Ready" /\ Used(T, n)
      BY <2>1, ZenonT(30) DEF IsNext, Used
    <2>3. \A s \in Slots : IsSwitched(tasks'[s], T, s, n, preempted)
      BY <1>0, <2>1, SwitchedSlot, ZenonT(30)
    <2>4. tasks' \in [Slots -> Task]
      BY <2>1, <2>3, ZenonT(60) DEF Switched, IsSwitched
    <2>5. Calm(T, tasks')
      <3> DEFINE U == tasks'
      <3>1. \A s \in Slots :
              /\ U[s].pid = T[s].pid /\ U[s].parent = T[s].parent /\ U[s].pt = T[s].pt
              /\ U[s].at = T[s].at /\ U[s].filter = T[s].filter
              /\ U[s].state = IF s = n THEN "Running"
                             ELSE IF s = current /\ T[s].state = "Running" THEN "Ready" ELSE T[s].state
        BY <2>3, ZenonT(60) DEF IsSwitched
      <3> HIDE DEF U
      <3>2. Calm(T, U)
        BY <2>2, <3>1, ZenonT(30) DEF Calm, Waits
      <3> QED
        BY ZenonT(30), <3>2 DEF U
    <2>6. Loaded(T, n, owned, cr3')
      BY <2>1, <2>2, ZenonT(30) DEF Kept, Loaded, Tables
    <2>7. Kept(T, nextPid, n, owned, cr3')
      BY ZenonT(30), <2>6 DEF Kept
    <2> QED
      BY <1>0, <2>1, <2>4, <2>5, <2>7, CalmKept, SMTT(60)
  <1>2. CASE ~\E n \in Slots \ {current} : IsNext(T, n)
    <2>1. tasks' = T /\ current' = current /\ cr3' = cr3
      BY <1>2, ZenonT(30) DEF Schedule
    <2> QED
      BY <2>1, ZenonT(60)
  <1> QED
    BY ZenonT(30), <1>1, <1>2

-------------------------------------------------------------------------------
(* exit *)

\* u is slot i of table T after exit_current in slot s, as far as the parents
\* and children of s are concerned.
IsOrphaned(u, T, s, i) ==
    /\ u.parent = IF T[i].pid # T[s].pid /\ Used(T, i) /\ T[i].parent = T[s].pid
                  THEN InitPid ELSE T[i].parent
    /\ u.state = "Blocked" =>
         ~First(i, {j \in Slots \ {s} : /\ Used(T, j) /\ T[j].pid = T[s].parent
                                        /\ T[s].parent # IdlePid /\ T[j].state = "Blocked"})

\* What exit_current does to the children and to the parent of the caller.
LEMMA OrphanedSlot ==
    ASSUME NEW T \in [Slots -> Task], NEW s \in Slots, NEW i \in Slots
    PROVE  IsOrphaned(Exited(T, s)[i], T, s, i)
  <1> DEFINE named == {j \in Slots : Used(T, j) /\ T[j].pid = T[s].parent /\ T[s].parent # IdlePid}
             sleepers == {j \in named \ {s} : T[j].state = "Blocked"}
             st == IF i = s THEN "Zombie"
                   ELSE IF First(i, sleepers) \/ (First(i, named) /\ i \in sleepers) THEN "Ready"
                   ELSE T[i].state
             pa == IF T[i].pid # T[s].pid /\ Used(T, i) /\ T[i].parent = T[s].pid THEN InitPid
                   ELSE T[i].parent
             pe == IF First(i, named) THEN T[i].pending \cup {SIGCHLD} ELSE T[i].pending
             S == {j \in Slots \ {s} : /\ Used(T, j) /\ T[j].pid = T[s].parent
                                       /\ T[s].parent # IdlePid /\ T[j].state = "Blocked"}
  <1>1. Exited(T, s)[i] = [T[i] EXCEPT !.state = st, !.parent = pa, !.pending = pe]
    BY ZenonT(30) DEF Exited
  <1>2. T[i] \in Task
    OBVIOUS
  <1>3. S = sleepers
    BY ZenonT(60)
  <1>4. st = "Blocked" => ~First(i, S)
    BY <1>3, ZenonT(60)
  <1> HIDE DEF st, pa, pe, S
  <1>5. Exited(T, s)[i].parent = pa /\ Exited(T, s)[i].state = st
    BY <1>1, <1>2, ZenonT(60) DEF Task
  <1> QED
    BY ZenonT(30), <1>4, <1>5 DEF IsOrphaned, pa, S

\* exit_current: the children go to init, a sleeping parent is woken, and nobody
\* else depended on the caller.
LEMMA ExitKept ==
    ASSUME NEW T \in [Slots -> Task], NEW n \in Nat, NEW c \in Slots, NEW o, NEW r,
           T[c].state = "Running", T[c].pt # 0, Kept(T, n, c, o, r)
    PROVE  Kept(Exited(T, c), n, c, o, r)
  <1> DEFINE E == Exited(T, c)
  <1>1. \A i \in Slots : IsExited(E[i], T, c, i) /\ IsOrphaned(E[i], T, c, i)
    BY ExitedSlot, OrphanedSlot, ZenonT(30)
  <1>2. E \in [Slots -> Task]
    BY <1>1, ZenonT(60) DEF Exited, IsExited
  <1> HIDE DEF E
  <1>3. \A i \in Slots : /\ E[i].pid = T[i].pid /\ E[i].pt = T[i].pt /\ E[i].at = T[i].at
                         /\ E[i].filter = T[i].filter
                         /\ Used(E, i) <=> Used(T, i)
                         /\ i # c => (Lives(E, i) <=> Lives(T, i))
                         /\ Waits(E, i) => i # c /\ Waits(T, i)
                         /\ Lives(E, i) => i # c
    BY <1>1, ZenonT(30) DEF IsExited, Used, Lives, Waits
  <1>4. \A i \in Slots : E[i].parent = IF T[i].pid # T[c].pid /\ Used(T, i) /\ T[i].parent = T[c].pid
                                       THEN InitPid ELSE T[i].parent
    BY ZenonT(30), <1>1 DEF IsOrphaned
  <1>5. \A i \in Slots : T[i].pid \in Nat /\ (Lives(T, i) => Used(T, i)) /\ (Waits(T, i) => Used(T, i))
    BY ZenonT(30), LivesIff
  <1>6. Used(T, c) /\ T[c].pid >= InitPid
    BY ZenonT(30) DEF Used, Kept, Named
  <1>7. Named(E, n)
    BY <1>3, <1>4, <1>5, <1>6, SMTT(60) DEF Kept, Named, InitPid
  <1>8. Parents(E)
    <2> SUFFICES ASSUME NEW k \in Slots, Lives(E, k), E[k].pid = InitPid,
                        NEW s \in Slots, Used(E, s), E[s].pid > InitPid
                 PROVE  \E i \in Slots : Lives(E, i) /\ E[i].pid = E[s].parent
      BY ZenonT(30) DEF Parents
    <2>1. Lives(T, k) /\ T[k].pid = InitPid /\ Used(T, s) /\ T[s].pid > InitPid
      BY ZenonT(30), <1>3
    <2>2. PICK i \in Slots : Lives(T, i) /\ T[i].pid = T[s].parent
      BY ZenonT(30), <2>1 DEF Kept, Parents
    <2>3. CASE E[s].parent = InitPid
      BY ZenonT(30), <2>3
    <2>4. CASE E[s].parent # InitPid
      <3>1. E[s].parent = T[s].parent
        BY <1>4, <2>4, ZenonT(30)
      <3>2. i # c
        <4>1. CASE T[s].pid = T[c].pid
          BY <1>6, <2>1, <2>2, <4>1, ZenonT(30) DEF Kept, Named
        <4>2. CASE T[s].pid # T[c].pid
          BY <1>4, <2>1, <2>2, <2>4, <4>2, ZenonT(30)
        <4> QED
          BY ZenonT(30), <4>1, <4>2
      <3> QED
        BY <1>3, <2>2, <3>1, <3>2, ZenonT(30)
    <2> QED
      BY ZenonT(30), <2>3, <2>4
  <1>9. Woken(E)
    <2> SUFFICES ASSUME NEW s \in Slots, Waits(E, s), E[s].pid # InitPid
                 PROVE  /\ \E x \in Slots : Child(E, x, s) /\ Lives(E, x)
                        /\ \A x \in Slots : Child(E, x, s) => Lives(E, x)
      BY ZenonT(30) DEF Woken
    <2>1. s # c /\ Waits(T, s) /\ T[s].pid # InitPid /\ Used(T, s) /\ E[s].state = "Blocked"
      BY <1>3, <1>5, ZenonT(30) DEF Waits
    <2>2. T[s].pid # T[c].pid
      BY <1>6, <2>1, ZenonT(30) DEF Kept, Named
    <2>3. \A x \in Slots : Child(E, x, s) <=> Child(T, x, s)
      <3>1. \A x \in Slots : E[x].parent = T[s].pid <=> T[x].parent = T[s].pid
        BY <1>4, <2>1, <2>2, ZenonT(30)
      <3> QED
        BY <1>3, <3>1, ZenonT(30) DEF Child
    <2>4. T[c].parent # T[s].pid
      <3> SUFFICES ASSUME T[c].parent = T[s].pid PROVE FALSE
        OBVIOUS
      <3>1. T[s].pid # IdlePid
        BY <2>1, SMTT(60) DEF Kept, Named, Waits, InitPid, IdlePid
      <3> DEFINE S == {j \in Slots \ {c} : /\ Used(T, j) /\ T[j].pid = T[c].parent
                                           /\ T[c].parent # IdlePid /\ T[j].state = "Blocked"}
      <3>2. S = {s}
        BY <2>1, <3>1, ZenonT(30) DEF Kept, Named, Waits
      <3>3. First(s, S)
        BY <3>2, SMTT(60) DEF First, Slots
      <3> HIDE DEF S
      <3> QED
        BY <1>1, <2>1, <3>3, ZenonT(30) DEF IsOrphaned, S
    <2>5. /\ \E x \in Slots : Child(T, x, s) /\ Lives(T, x)
          /\ \A x \in Slots : Child(T, x, s) => Lives(T, x) /\ x # c
      BY <2>1, <2>4, ZenonT(30) DEF Kept, Woken, Child
    <2> QED
      BY ZenonT(30), <1>3, <2>3, <2>5
  <1>10. Tables(E, o) /\ Loaded(E, c, o, r)
    BY <1>3, ZenonT(30) DEF Kept, Tables, Loaded
  <1> QED
    BY ZenonT(30), <1>7, <1>8, <1>9, <1>10 DEF Kept, E

-------------------------------------------------------------------------------
(* The table updates of the calm actions *)

\* The current process moves between its program, a system call and a stop.
LEMMA PlaceCalm ==
    ASSUME NEW T \in [Slots -> Task], NEW c \in Slots, T[c].pt # 0,
           NEW a \in Places, T[c].state = "Running"
    PROVE  /\ [T EXCEPT ![c].at = a] \in [Slots -> Task]
           /\ Calm(T, [T EXCEPT ![c].at = a])
  <1> DEFINE U == [T EXCEPT ![c].at = a]
  <1>1. U \in [Slots -> Task]
    BY ZenonT(30) DEF Task
  <1>2. \A s \in Slots : /\ U[s].state = T[s].state /\ U[s].pid = T[s].pid /\ U[s].pt = T[s].pt
                         /\ U[s].parent = T[s].parent /\ U[s].filter = T[s].filter
                         /\ s # c => U[s].at = T[s].at
    BY ZenonT(30) DEF Task
  <1> HIDE DEF U
  <1>3. Calm(T, U)
    BY <1>2, ZenonT(30) DEF Calm, Waits
  <1> QED
    BY ZenonT(30), <1>1, <1>3 DEF U

\* Slot s is sent a signal and woken (send_signal_checked, signal_foreground).
LEMMA SignalCalm ==
    ASSUME NEW T \in [Slots -> Task], NEW s \in Slots, NEW P \in SUBSET (Signals \cup {SIGCHLD})
    PROVE  LET U == [T EXCEPT ![s].pending = P, ![s].state = IF @ = "Blocked" THEN "Ready" ELSE @]
           IN U \in [Slots -> Task] /\ Calm(T, U)
  <1> DEFINE U == [T EXCEPT ![s].pending = P, ![s].state = IF @ = "Blocked" THEN "Ready" ELSE @]
  <1>1. U = [T EXCEPT ![s] = [T[s] EXCEPT !.pending = P,
                !.state = IF T[s].state = "Blocked" THEN "Ready" ELSE T[s].state]]
    BY ZenonT(60) DEF Task
  <1>2. U \in [Slots -> Task]
    BY <1>1, SMTT(60) DEF Task, States
  <1>3. \A i \in Slots : /\ U[i].state = IF i = s /\ T[i].state = "Blocked" THEN "Ready" ELSE T[i].state
                         /\ U[i].parent = T[i].parent /\ U[i].pid = T[i].pid /\ U[i].filter = T[i].filter
                         /\ U[i].pt = T[i].pt /\ U[i].at = T[i].at
    BY <1>1, SMTT(60) DEF Task
  <1> HIDE DEF U
  <1>4. Calm(T, U)
    BY <1>3, ZenonT(30) DEF Calm, Waits
  <1> QED
    BY ZenonT(30), <1>2, <1>4 DEF U

\* Signal sig is taken from the running task (deliver_pending_signals).
LEMMA TakenCalm ==
    ASSUME NEW T \in [Slots -> Task], NEW c \in Slots, NEW sig
    PROVE  LET U == [T EXCEPT ![c].pending = @ \ {sig}]
           IN U \in [Slots -> Task] /\ Calm(T, U) /\ U[c].state = T[c].state /\ U[c].pt = T[c].pt
  <1> DEFINE U == [T EXCEPT ![c].pending = @ \ {sig}]
  <1>1. \A s \in Slots : U[s] = IF s = c THEN [T[s] EXCEPT !.pending = @ \ {sig}] ELSE T[s]
    BY ZenonT(30)
  <1>2. U \in [Slots -> Task]
    BY <1>1, ZenonT(30) DEF Task
  <1>3. \A s \in Slots : /\ U[s].state = T[s].state /\ U[s].pid = T[s].pid /\ U[s].pt = T[s].pt
                         /\ U[s].parent = T[s].parent /\ U[s].filter = T[s].filter /\ U[s].at = T[s].at
    BY <1>1, SMTT(60) DEF Task
  <1> HIDE DEF U
  <1>4. Calm(T, U)
    BY <1>3, ZenonT(30) DEF Calm, Waits
  <1> QED
    BY ZenonT(30), <1>2, <1>3, <1>4 DEF U

\* The running task blocks in a stop (block_and_reschedule under SIGSTOP).
LEMMA StopCalm ==
    ASSUME NEW T \in [Slots -> Task], NEW c \in Slots, T[c].pt # 0, T[c].state = "Running"
    PROVE  LET U == [T EXCEPT ![c].state = "Blocked", ![c].at = "stop"]
           IN U \in [Slots -> Task] /\ Calm(T, U)
  <1> DEFINE U == [T EXCEPT ![c].state = "Blocked", ![c].at = "stop"]
  <1>1. U = [T EXCEPT ![c] = [T[c] EXCEPT !.state = "Blocked", !.at = "stop"]]
    BY ZenonT(60) DEF Task
  <1>2. U \in [Slots -> Task]
    BY <1>1, SMTT(60) DEF Task, States, Places
  <1>3. \A s \in Slots : /\ U[s].state = IF s = c THEN "Blocked" ELSE T[s].state
                         /\ U[s].at = IF s = c THEN "stop" ELSE T[s].at
                         /\ U[s].pid = T[s].pid /\ U[s].pt = T[s].pt
                         /\ U[s].parent = T[s].parent /\ U[s].filter = T[s].filter
    BY <1>1, SMTT(60) DEF Task
  <1> HIDE DEF U
  <1>4. Calm(T, U)
    BY <1>3, ZenonT(30) DEF Calm, Waits
  <1> QED
    BY ZenonT(30), <1>2, <1>4 DEF U

-------------------------------------------------------------------------------
(* wait, fork and exec *)

\* What ProcInv says of the running process and of the shape of the state.
LEMMA ProcFacts ==
    ASSUME ProcInv
    PROVE  /\ SchedInv /\ tasks \in [Slots -> Task] /\ current \in Slots /\ nextPid \in Nat
           /\ tasks[current].state = "Running" /\ me = tasks[current]
           /\ nextPid > InitPid /\ Handed(tasks)
           /\ me.at # "user" => me.pt # 0
           /\ me.pt # 0 => current # IdleSlot /\ me.pid >= InitPid
           /\ Kept(tasks, nextPid, current, owned, cr3)
  <1>1. SchedInv /\ Kept(tasks, nextPid, current, owned, cr3)
    BY ZenonT(30) DEF ProcInv
  <1>2. /\ Handed(tasks) /\ current \in Slots /\ nextPid \in InitPid + 1 .. MaxPid + 1
        /\ me.state = "Running" /\ me = tasks[current] /\ MaxPid \in Nat
        /\ (me.at # "user" \/ me.pt # 0) => current # IdleSlot
    BY ZenonT(30), <1>1, Facts, SchedulerAssumption DEF me
  <1>3. tasks \in [Slots -> Task] /\ nextPid \in Nat /\ nextPid > InitPid
    BY <1>2, SMTT(60) DEF Handed, InitPid
  <1>4. (me.at # "user" => me.pt # 0) /\ (me.pt # 0 => me.pid >= InitPid)
    BY <1>1, <1>2, ZenonT(30) DEF Kept, Named, Used
  <1> QED
    BY ZenonT(30), <1>1, <1>2, <1>3, <1>4

\* block_and_reschedule in sys_wait: the caller has checked that a child is alive
\* and that none has finished, with interrupts off.
LEMMA SleepKept ==
    ASSUME ProcInv, NEW f \in Pids, HasChildren(f), Reapable(f) = {}, me.pt # 0
    PROVE  Kept([tasks EXCEPT ![current].state = "Blocked", ![current].at = "wait",
                              ![current].filter = f], nextPid, current, owned, cr3)
  <1> DEFINE T == tasks
             c == current
             U == [T EXCEPT ![c].state = "Blocked", ![c].at = "wait", ![c].filter = f]
  <1>0. /\ T \in [Slots -> Task] /\ c \in Slots /\ T[c].state = "Running" /\ me = T[c]
        /\ Kept(T, nextPid, c, owned, cr3)
    BY ZenonT(30), ProcFacts
  <1>1. /\ \E x \in Slots : Used(T, x) /\ T[x].parent = T[c].pid /\ f \in {AnyChild, T[x].pid}
        /\ \A x \in Slots : Used(T, x) /\ T[x].parent = T[c].pid /\ f \in {AnyChild, T[x].pid} =>
              T[x].state # "Zombie"
    BY <1>0, ZenonT(30) DEF HasChildren, Reapable, Matches
  <1> HIDE DEF T, c
  <1>2. U = [T EXCEPT ![c] = [T[c] EXCEPT !.state = "Blocked", !.at = "wait", !.filter = f]]
    BY <1>0, ZenonT(60) DEF Task
  <1>3. \A s \in Slots : /\ U[s].state = IF s = c THEN "Blocked" ELSE T[s].state
                         /\ U[s].at = IF s = c THEN "wait" ELSE T[s].at
                         /\ U[s].filter = IF s = c THEN f ELSE T[s].filter
                         /\ U[s].pid = T[s].pid /\ U[s].pt = T[s].pt /\ U[s].parent = T[s].parent
    BY <1>0, <1>2, SMTT(60) DEF Task
  <1> HIDE DEF U
  <1>4. \A s \in Slots : /\ Used(U, s) <=> Used(T, s)
                         /\ Lives(U, s) <=> Lives(T, s)
                         /\ Waits(U, s) => s = c \/ Waits(T, s)
                         /\ \A x \in Slots : s # c => (Child(U, x, s) <=> Child(T, x, s))
                         /\ Used(T, s) /\ T[s].state # "Zombie" => Lives(T, s)
    BY <1>0, <1>3, LivesIff, ZenonT(30) DEF Used, Lives, Waits, Child
  <1>5. Named(U, nextPid) /\ Tables(U, owned) /\ Loaded(U, c, owned, cr3)
    BY <1>0, <1>3, <1>4, ProcFacts, SMTT(60) DEF Kept, Named, Tables, Loaded, T, c
  <1>6. Parents(U)
    BY <1>0, <1>3, <1>4, SMTT(60) DEF Kept, Parents
  <1>7. Woken(U)
    <2> SUFFICES ASSUME NEW s \in Slots, Waits(U, s), U[s].pid # InitPid
                 PROVE  /\ \E x \in Slots : Child(U, x, s) /\ Lives(U, x)
                        /\ \A x \in Slots : Child(U, x, s) => Lives(U, x)
      BY ZenonT(30) DEF Woken
    <2>1. CASE s = c
      <3>1. \A x \in Slots : Child(U, x, c) <=> /\ Used(T, x) /\ T[x].parent = T[c].pid
                                                /\ f \in {AnyChild, T[x].pid}
        <4>1. U[c].filter = f /\ U[c].pid = T[c].pid
          BY <1>0, <1>3, ZenonT(30)
        <4>2. \A x \in Slots : /\ U[x].parent = T[x].parent /\ U[x].pid = T[x].pid
                               /\ Used(U, x) <=> Used(T, x)
          BY <1>3, <1>4, ZenonT(30)
        <4> QED
          BY <4>1, <4>2, ZenonT(30) DEF Child
      <3> QED
        BY ZenonT(30), <1>1, <1>4, <2>1, <3>1
    <2>2. CASE s # c
      <3>1. Waits(T, s)
        BY <1>4, <2>2, ZenonT(30)
      <3>2. T[s].pid # InitPid
        BY <1>3, ZenonT(30)
      <3>3. /\ \E x \in Slots : Child(T, x, s) /\ Lives(T, x)
            /\ \A x \in Slots : Child(T, x, s) => Lives(T, x)
        BY <1>0, <3>1, <3>2, ZenonT(30) DEF Kept, Woken
      <3>4. \A x \in Slots : /\ Child(U, x, s) <=> Child(T, x, s)
                             /\ Lives(U, x) <=> Lives(T, x)
        BY <1>4, <2>2, ZenonT(30)
      <3> QED
        BY <3>3, <3>4, ZenonT(30)
    <2> QED
      BY ZenonT(30), <2>1, <2>2
  <1> QED
    BY ZenonT(30), <1>5, <1>6, <1>7 DEF Kept, U, T, c

\* reap_zombie_child_filtered: a zombie's slot is emptied and its page table freed;
\* nobody else is on that table, and nobody sleeps on that zombie.
LEMMA ReapKept ==
    ASSUME ProcInv, NEW z \in Slots, tasks[z].state = "Zombie", me.pt # 0
    PROVE  /\ [tasks EXCEPT ![z] = EmptySlot] \in [Slots -> Task]
           /\ [tasks EXCEPT ![z] = EmptySlot][current] = tasks[current]
           /\ Kept([tasks EXCEPT ![z] = EmptySlot], nextPid, current, owned \ {tasks[z].pt}, cr3)
  <1> DEFINE T == tasks
             c == current
             U == [T EXCEPT ![z] = EmptySlot]
  <1>0. /\ T \in [Slots -> Task] /\ c \in Slots /\ T[c].state = "Running" /\ T[c].pt # 0
        /\ Kept(T, nextPid, c, owned, cr3)
    BY ZenonT(30), ProcFacts
  <1>1. EmptySlot \in Task /\ EmptySlot.state = "None"
    BY ZenonT(30), EmptySlotType
  <1>2. \A s \in Slots : U[s] = IF s = z THEN EmptySlot ELSE T[s]
    BY ZenonT(30), <1>0
  <1>3. U \in [Slots -> Task] /\ z # c
    BY ZenonT(30), <1>0, <1>1
  <1> HIDE DEF T, c, U
  <1>z. T[z].state = "Zombie"
    BY ZenonT(30) DEF T
  <1>4. \A s \in Slots : /\ Used(U, s) <=> s # z /\ Used(T, s)
                         /\ Lives(U, s) <=> Lives(T, s)
                         /\ Waits(U, s) => s # z /\ Waits(T, s)
                         /\ Lives(U, s) => s # z
                         /\ s # z => U[s] = T[s]
    BY <1>1, <1>2, <1>z, ZenonT(30) DEF Used, Lives, Waits
  <1>5. Named(U, nextPid)
    BY <1>0, <1>4, ZenonT(30) DEF Kept, Named
  <1>6. Tables(U, owned \ {T[z].pt}) /\ Loaded(U, c, owned \ {T[z].pt}, cr3)
    <2>1. Used(T, z) /\ Used(T, c)
      BY ZenonT(30), <1>0, <1>z DEF Used
    <2>2. T[c].pt # T[z].pt /\ \A s \in Slots : Used(T, s) /\ s # z => T[s].pt # T[z].pt \/ T[s].pt = 0
      BY <1>0, <1>3, <2>1, ZenonT(30) DEF Kept, Tables
    <2> QED
      BY <1>0, <1>3, <1>4, <2>2, ZenonT(30) DEF Kept, Tables, Loaded
  <1>7. Parents(U)
    BY <1>0, <1>4, SMTT(60) DEF Kept, Parents
  <1>8. Woken(U)
    <2> SUFFICES ASSUME NEW s \in Slots, Waits(U, s), U[s].pid # InitPid
                 PROVE  /\ \E x \in Slots : Child(U, x, s) /\ Lives(U, x)
                        /\ \A x \in Slots : Child(U, x, s) => Lives(U, x)
      BY ZenonT(30) DEF Woken
    <2>1. \A x \in Slots \ {z} : Child(U, x, s) <=> Child(T, x, s)
      BY <1>4, ZenonT(30) DEF Child
    <2>2. ~Child(U, z, s)
      BY ZenonT(30), <1>4 DEF Child
    <2>3. /\ \E x \in Slots : Child(T, x, s) /\ Lives(T, x)
          /\ \A x \in Slots : Child(T, x, s) => Lives(T, x)
      BY <1>0, <1>4, ZenonT(30) DEF Kept, Woken
    <2> QED
      BY ZenonT(30), <1>4, <2>1, <2>2, <2>3
  <1> QED
    BY ZenonT(30), <1>0, <1>2, <1>3, <1>5, <1>6, <1>7, <1>8 DEF Kept, U, T, c

\* A forked child: a new identifier, a new page table, and a parent that is
\* running and so not asleep in sys_wait.
LEMMA InsertKept ==
    ASSUME ProcInv, me.pt # 0, NEW z \in Slots, ~Used(tasks, z), NEW p \in PageTables \ owned,
           nextPid \in Pids
    PROVE  LET U == [tasks EXCEPT ![z] = NewTask(nextPid, me.pid, p)]
           IN /\ U \in [Slots -> Task]
              /\ U[current] = tasks[current]
              /\ Kept(U, nextPid + 1, current, owned \cup {p}, cr3)
  <1> DEFINE T == tasks
             c == current
             n == nextPid
             t == NewTask(n, T[c].pid, p)
             U == [T EXCEPT ![z] = t]
  <1>0. /\ T \in [Slots -> Task] /\ c \in Slots /\ T[c].state = "Running" /\ T[c].pt # 0
        /\ Kept(T, n, c, owned, cr3) /\ me = T[c] /\ n \in Nat /\ n > InitPid
        /\ T[c].pid >= InitPid
    BY ZenonT(30), ProcFacts
  <1>1. t \in Task
    <2>1. T[c].pid \in Pids /\ p \in {0} \cup PageTables
      BY <1>0, ZenonT(30) DEF Task
    <2> QED
      BY ZenonT(30), <2>1, NewTaskType
  <1>2. /\ t.state = "Ready" /\ t.pid = n /\ t.parent = T[c].pid /\ t.pt = p /\ t.at = "user"
    BY ZenonT(30) DEF NewTask
  <1>3. p # 0
    BY SchedulerAssumption, SMTT(60) DEF PageTables
  <1> HIDE DEF t
  <1>4. \A s \in Slots : U[s] = IF s = z THEN t ELSE T[s]
    BY ZenonT(30), <1>0
  <1>5. U \in [Slots -> Task] /\ z # c
    BY ZenonT(30), <1>0, <1>1 DEF Used
  <1> HIDE DEF T, c, U, n
  <1>z. ~Used(T, z) /\ ~Lives(T, z)
    BY ZenonT(30) DEF T, Used, Lives
  <1>6. \A s \in Slots : /\ Used(U, s) <=> s = z \/ Used(T, s)
                         /\ Lives(U, s) <=> s = z \/ Lives(T, s)
                         /\ Waits(U, s) => s # z /\ Waits(T, s)
                         /\ s # z => U[s] = T[s]
                         /\ T[s].pid \in Nat
                         /\ Waits(T, s) => Used(T, s)
    BY <1>0, <1>2, <1>4, LivesIff, ZenonT(30) DEF Used, Lives, Waits
  <1>7. U[z] = t
    BY ZenonT(30), <1>4
  <1>8. \A s \in Slots : Used(T, s) => T[s].pid < n
    BY ZenonT(30), <1>0 DEF Kept, Named
  <1>9. Used(T, c) /\ Lives(T, c)
    BY ZenonT(30), <1>0 DEF Used, Lives
  <1>10. Named(U, n + 1)
    BY <1>0, <1>2, <1>6, <1>7, <1>8, <1>9, SMTT(60) DEF Kept, Named, InitPid
  <1>11. Parents(U)
    <2> SUFFICES ASSUME NEW k \in Slots, Lives(U, k), U[k].pid = InitPid,
                        NEW s \in Slots, Used(U, s), U[s].pid > InitPid
                 PROVE  \E i \in Slots : Lives(U, i) /\ U[i].pid = U[s].parent
      BY ZenonT(30) DEF Parents
    <2>1. k # z
      BY <1>0, <1>2, <1>7, SMTT(60) DEF InitPid
    <2>2. CASE s = z
      BY <1>0, <1>2, <1>5, <1>6, <1>7, <1>9, <2>2, ZenonT(30)
    <2>3. CASE s # z
      <3>1. PICK i \in Slots : Lives(T, i) /\ T[i].pid = T[s].parent
        BY ZenonT(30), <1>0, <1>6, <2>1, <2>3 DEF Kept, Parents
      <3> QED
        BY ZenonT(30), <1>6, <1>z, <2>3, <3>1
    <2> QED
      BY ZenonT(30), <2>2, <2>3
  <1>12. Woken(U)
    <2> SUFFICES ASSUME NEW s \in Slots, Waits(U, s), U[s].pid # InitPid
                 PROVE  /\ \E x \in Slots : Child(U, x, s) /\ Lives(U, x)
                        /\ \A x \in Slots : Child(U, x, s) => Lives(U, x)
      BY ZenonT(30) DEF Woken
    <2>1. s # z /\ s # c /\ Waits(T, s) /\ U[s] = T[s]
      BY <1>0, <1>6, ZenonT(30) DEF Waits
    <2>2. \A x \in Slots \ {z} : Child(U, x, s) <=> Child(T, x, s)
      BY <1>6, <2>1, ZenonT(30) DEF Child
    <2>3. /\ \E x \in Slots : Child(T, x, s) /\ Lives(T, x)
          /\ \A x \in Slots : Child(T, x, s) => Lives(T, x)
      BY ZenonT(30), <1>0, <2>1 DEF Kept, Woken
    <2> QED
      BY ZenonT(30), <1>6, <1>z, <2>2, <2>3
  <1>13. Tables(U, owned \cup {p}) /\ Loaded(U, c, owned \cup {p}, cr3)
    <2>1. \A s \in Slots : Used(T, s) => T[s].pt \in owned \cup {0}
      BY ZenonT(30), <1>0 DEF Kept, Tables
    <2>2. \A s \in Slots : Used(T, s) => T[s].pt # p
      BY ZenonT(30), <1>3, <2>1
    <2> QED
      BY <1>0, <1>2, <1>5, <1>6, <1>7, <2>1, <2>2, SMTT(60) DEF Kept, Tables, Loaded
  <1> QED
    BY ZenonT(30), <1>0, <1>4, <1>5, <1>10, <1>11, <1>12, <1>13 DEF Kept, U, T, c, n, t

\* sys_exec: the caller leaves its page table, which nobody shares, for a new one.
LEMMA ExecKept ==
    ASSUME ProcInv, me.pt # 0, NEW p \in PageTables \ owned
    PROVE  LET U == [tasks EXCEPT ![current].pt = p, ![current].pending = {}]
           IN Kept(U, nextPid + 1, current, (owned \ {me.pt}) \cup {p}, p)
  <1> DEFINE T == tasks
             c == current
             n == nextPid
             U == [T EXCEPT ![c].pt = p, ![c].pending = {}]
  <1>0. /\ T \in [Slots -> Task] /\ c \in Slots /\ T[c].state = "Running" /\ T[c].pt # 0
        /\ Kept(T, n, c, owned, cr3) /\ me = T[c] /\ n \in Nat /\ n > InitPid
        /\ T[c].pid >= InitPid
    BY ZenonT(30), ProcFacts
  <1> HIDE DEF T, c, n
  <1>1. U = [T EXCEPT ![c] = [T[c] EXCEPT !.pt = p, !.pending = {}]]
    BY <1>0, ZenonT(60) DEF Task
  <1>2. \A s \in Slots : /\ U[s].state = T[s].state /\ U[s].at = T[s].at
                         /\ U[s].filter = T[s].filter
                         /\ U[s].pt = IF s = c THEN p ELSE T[s].pt
                         /\ U[s].pid = T[s].pid /\ U[s].parent = T[s].parent
    BY <1>0, <1>1, SMTT(60) DEF Task
  <1> HIDE DEF U
  <1>3. \A s \in Slots : /\ Used(U, s) <=> Used(T, s)
                         /\ Lives(U, s) <=> Lives(T, s)
                         /\ Waits(U, s) <=> Waits(T, s)
                         /\ T[s].pid \in Nat
                         /\ \A x \in Slots : Child(U, x, s) <=> Child(T, x, s)
    <2>1. \A s \in Slots : /\ Used(U, s) <=> Used(T, s)
                           /\ Lives(U, s) <=> Lives(T, s)
                           /\ Waits(U, s) <=> Waits(T, s)
      BY <1>2, ZenonT(30) DEF Used, Lives, Waits
    <2>2. \A s \in Slots : T[s].pid \in Nat
      BY <1>0, LivesIff, ZenonT(30)
    <2>3. \A s, x \in Slots : Child(U, x, s) <=> Child(T, x, s)
      BY <1>2, <2>1, ZenonT(30) DEF Child
    <2> QED
      BY <2>1, <2>2, <2>3, ZenonT(30)
  <1>4. p # 0 /\ Used(T, c)
    BY <1>0, SchedulerAssumption, SMTT(60) DEF PageTables, Used
  <1>5. Named(U, n + 1)
    BY <1>0, <1>2, <1>3, <1>4, SMTT(60) DEF Kept, Named, InitPid
  <1>6. Parents(U) /\ Woken(U)
    BY <1>0, <1>2, <1>3, SMTT(60) DEF Kept, Parents, Woken
  <1>7. Tables(U, (owned \ {T[c].pt}) \cup {p})
    <2>1. /\ \A s \in Slots : Used(T, s) => T[s].pt \in owned \cup {0}
          /\ \A s, t \in Slots : Used(T, s) /\ Used(T, t) /\ T[s].pt = T[t].pt => s = t \/ T[s].pt = 0
      BY ZenonT(30), <1>0 DEF Kept, Tables
    <2>2. \A s \in Slots \ {c} : Used(T, s) => T[s].pt # p /\ (T[s].pt # T[c].pt)
      <3>1. p \notin owned /\ p # 0 /\ Used(T, c) /\ c \in Slots /\ T[c].pt # 0
        BY ZenonT(30), <1>0, <1>4
      <3> TAKE s \in Slots \ {c}
      <3> HAVE Used(T, s)
      <3>2. T[s].pt # p
        BY <2>1, <3>1, ZenonT(30)
      <3>3. T[s].pt # T[c].pt
        BY <2>1, <3>1, ZenonT(30)
      <3> QED
        BY ZenonT(30), <3>2, <3>3
    <2> QED
      BY <1>2, <1>3, <2>1, <2>2, SMTT(60) DEF Tables
  <1>8. Loaded(U, c, (owned \ {T[c].pt}) \cup {p}, p)
    BY ZenonT(30), <1>0, <1>2 DEF Loaded
  <1> QED
    BY ZenonT(30), <1>0, <1>5, <1>6, <1>7, <1>8 DEF Kept, U, T, c, n

-------------------------------------------------------------------------------
(* The actions *)

Procs == Kept(tasks, nextPid, current, owned, cr3)

\* A system call ends with table T made by a calm step.
LEMMA ReturningKept ==
    ASSUME NEW T \in [Slots -> Task], NEW n \in Nat, current \in Slots, NEW o, NEW r,
           T[current].state = "Running", T[current].pt # 0, Kept(T, n, current, o, r)
    PROVE  Kept(Returning(T), n, current, o, r)
  <1>1. /\ Returning(T) \in [Slots -> Task]
        /\ Calm(T, Returning(T))
    BY PlaceCalm, ZenonT(60) DEF Returning, Places
  <1> QED
    BY <1>1, CalmKept, SMTT(60)

\* Steps that leave the other tasks alone and do not switch.
LEMMA OwnKept ==
    ASSUME ProcInv, \/ Resume \/ Continue \/ OtherSyscall
                    \/ \E f \in Filters : WaitNoHang(f) \/ (InUser /\ NoChild(f))
                    \/ me.at = "wait" /\ NoChild(me.filter)
                    \/ \E leak \in BOOLEAN : SpawnFails(leak)
    PROVE  Procs'
  <1>0. /\ tasks \in [Slots -> Task] /\ current \in Slots /\ nextPid \in Nat
        /\ tasks[current].state = "Running" /\ tasks[current].pt # 0
        /\ Kept(tasks, nextPid, current, owned, cr3)
    BY ProcFacts, ZenonT(30) DEF Resume, Continue, OtherSyscall, WaitNoHang, InUser, SpawnFails
  <1>1. CASE Resume
    <2>1. tasks' \in [Slots -> Task] /\ Calm(tasks, tasks')
      BY <1>0, <1>1, PlaceCalm, ZenonT(60) DEF Resume, Places
    <2>2. UNCHANGED <<current, cr3, owned, nextPid>>
      BY ZenonT(30), <1>1 DEF Resume
    <2> QED
      BY <1>0, <2>1, <2>2, CalmKept, SMTT(60) DEF Procs
  <1>2. CASE \E leak \in BOOLEAN : SpawnFails(leak)
    <2>1. /\ tasks' = Returning(tasks) /\ UNCHANGED <<current, cr3>> /\ nextPid' = nextPid + 1
          /\ owned \subseteq owned'
      BY <1>2, ZenonT(30) DEF SpawnFails
    <2>2. Returning(tasks) \in [Slots -> Task] /\ Calm(tasks, Returning(tasks))
      BY <1>0, PlaceCalm, ZenonT(60) DEF Returning, Places
    <2> QED
      BY <1>0, <2>1, <2>2, CalmKept, SMTT(60) DEF Procs
  <1>3. CASE tasks' = Returning(tasks) /\ UNCHANGED <<current, cr3, owned, nextPid>>
    BY <1>0, <1>3, ReturningKept, ZenonT(30) DEF Procs
  <1> QED
    BY <1>1, <1>2, <1>3, ZenonT(30) DEF Continue, OtherSyscall, WaitNoHang, NoChild

\* Steps that switch from the table as it is (timer_tick, yield_now).
LEMMA SwitchKept ==
    ASSUME ProcInv, Timer \/ Yield
    PROVE  Procs'
  <1>1. SchedInv /\ Handed(tasks) /\ Procs
    BY ZenonT(30), ProcFacts DEF Procs
  <1>2. CASE UNCHANGED <<tasks, current, cr3, owned, nextPid>>
    BY ZenonT(30), <1>1, <1>2 DEF Procs
  <1>3. ASSUME NEW b \in BOOLEAN, Schedule(tasks, b), UNCHANGED <<owned, nextPid>>
        PROVE  Procs'
    BY <1>1, <1>3, ScheduleKept, ZenonT(60) DEF Procs
  <1> QED
    BY <1>2, <1>3, ZenonT(60) DEF Timer, Yield

\* Steps that send a signal (signal_foreground, send_signal_checked).
LEMMA SignalKept ==
    ASSUME ProcInv, CtrlC \/ \E p \in Pids \ {IdlePid, FlushdPid}, sig \in Signals : Kill(p, sig)
    PROVE  Procs'
  <1>0. /\ tasks \in [Slots -> Task] /\ current \in Slots /\ nextPid \in Nat
        /\ tasks[current].state = "Running" /\ me = tasks[current]
        /\ Kept(tasks, nextPid, current, owned, cr3)
    BY ZenonT(30), ProcFacts
  <1>1. ASSUME NEW s \in Slots, NEW sig \in Signals,
               NEW U, U = [tasks EXCEPT ![s].pending = @ \cup {sig},
                                        ![s].state = IF @ = "Blocked" THEN "Ready" ELSE @]
        PROVE  /\ U \in [Slots -> Task]
               /\ U[current].pt = tasks[current].pt /\ U[current].state = "Running"
               /\ Kept(U, nextPid, current, owned, cr3)
    <2> DEFINE P == tasks[s].pending \cup {sig}
    <2>1. P \in SUBSET (Signals \cup {SIGCHLD})
      BY <1>0, ZenonT(30) DEF Task
    <2>2. U = [tasks EXCEPT ![s].pending = P, ![s].state = IF @ = "Blocked" THEN "Ready" ELSE @]
      BY ZenonT(30), <1>1
    <2> HIDE DEF P
    <2>3. U \in [Slots -> Task] /\ Calm(tasks, U)
      BY <1>0, <2>1, <2>2, SignalCalm, ZenonT(60)
    <2>4. U[current].pt = tasks[current].pt
      BY ZenonT(30), <1>0, <2>3 DEF Calm
    <2>5. U[current].state = "Running"
      <3>1. CASE s = current
        <4>1. U = [tasks EXCEPT ![s] = [tasks[s] EXCEPT !.pending = P, !.state = "Running"]]
          BY <1>0, <2>2, <3>1, ZenonT(60) DEF Task
        <4> QED
          BY <1>0, <3>1, <4>1, ZenonT(30) DEF Task
      <3>2. CASE s # current
        BY <1>0, <2>2, <3>2, ZenonT(30)
      <3> QED
        BY ZenonT(30), <3>1, <3>2
    <2> QED
      BY <1>0, <2>3, <2>4, <2>5, CalmKept, SMTT(60)
  <1>2. CASE CtrlC
    <2>1. PICK s \in Slots : tasks' = [tasks EXCEPT ![s].pending = @ \cup {SIGINT},
                                         ![s].state = IF @ = "Blocked" THEN "Ready" ELSE @]
      BY ZenonT(30), <1>2 DEF CtrlC
    <2>2. SIGINT \in Signals /\ UNCHANGED <<current, cr3, owned, nextPid>>
      BY ZenonT(30), <1>2 DEF CtrlC
    <2> QED
      BY <1>1, <2>1, <2>2, ZenonT(60) DEF Procs
  <1>3. CASE \E p \in Pids \ {IdlePid, FlushdPid}, sig \in Signals : Kill(p, sig)
    <2>1. PICK p \in Pids, sig \in Signals : Kill(p, sig)
      BY ZenonT(30), <1>3
    <2>2. PICK s \in Slots :
            tasks' = Returning([tasks EXCEPT ![s].pending = @ \cup {sig},
                                             ![s].state = IF @ = "Blocked" THEN "Ready" ELSE @])
      BY ZenonT(30), <2>1 DEF Kill
    <2> DEFINE U == [tasks EXCEPT ![s].pending = @ \cup {sig},
                                  ![s].state = IF @ = "Blocked" THEN "Ready" ELSE @]
    <2>3. UNCHANGED <<current, cr3, owned, nextPid>> /\ tasks[current].pt # 0
      BY ZenonT(30), <1>0, <2>1 DEF Kill, InUser
    <2>4. tasks' = Returning(U)
      BY ZenonT(30), <2>2
    <2>5. /\ U \in [Slots -> Task] /\ Kept(U, nextPid, current, owned, cr3)
          /\ U[current].state = "Running" /\ U[current].pt # 0
      <3> HIDE DEF U
      <3>1. U = [tasks EXCEPT ![s].pending = @ \cup {sig},
                              ![s].state = IF @ = "Blocked" THEN "Ready" ELSE @]
        BY ZenonT(30) DEF U
      <3> QED
        BY ZenonT(30), <1>1, <2>3, <3>1
    <2> HIDE DEF U
    <2> QED
      BY <1>0, <2>3, <2>4, <2>5, ReturningKept, ZenonT(30) DEF Procs
  <1> QED
    BY ZenonT(30), <1>2, <1>3

\* exit_current of a running process with table T, which a calm step made.
LEMMA ExitStep ==
    ASSUME SchedInv, nextPid \in Nat, NEW T \in [Slots -> Task], Handed(T), current \in Slots,
           T[current].state = "Running", T[current].pt # 0, current # IdleSlot,
           Kept(T, nextPid, current, owned, cr3),
           Schedule(Exited(T, current), FALSE), UNCHANGED <<owned, nextPid>>
    PROVE  Procs'
  <1>1. Kept(Exited(T, current), nextPid, current, owned, cr3)
    BY ZenonT(30), ExitKept
  <1>2. Handed(Exited(T, current))
    BY ZenonT(30), HandedExit
  <1> DEFINE E == Exited(T, current)
  <1> HIDE DEF E
  <1>3. Kept(E, nextPid, current, owned, cr3) /\ Handed(E) /\ Schedule(E, FALSE)
    BY ZenonT(30), <1>1, <1>2 DEF E
  <1> QED
    BY <1>3, ScheduleKept, ZenonT(60) DEF Procs

\* Taking pending signals: nothing, a handler, a stop, or an exit.
LEMMA DeliverKept ==
    ASSUME ProcInv, Deliver
    PROVE  Procs'
  <1>0. /\ tasks \in [Slots -> Task] /\ current \in Slots /\ nextPid \in Nat /\ SchedInv
        /\ tasks[current].state = "Running" /\ tasks[current].pt # 0 /\ current # IdleSlot
        /\ Kept(tasks, nextPid, current, owned, cr3) /\ Handed(tasks)
    BY ProcFacts, ZenonT(30) DEF Deliver
  <1>1. PICK sig \in me.pending :
          LET T == [tasks EXCEPT ![current].pending = @ \ {sig}] IN
            \/ tasks' = T /\ UNCHANGED <<current, cr3>>
            \/ tasks' = [T EXCEPT ![current].at = "user"] /\ UNCHANGED <<current, cr3>>
            \/ Schedule([T EXCEPT ![current].state = "Blocked", ![current].at = "stop"], FALSE)
            \/ Schedule(Exited(T, current), FALSE)
    BY ZenonT(60) DEF Deliver
  <1>2. UNCHANGED <<owned, nextPid>>
    BY ZenonT(30) DEF Deliver
  <1> DEFINE T == [tasks EXCEPT ![current].pending = @ \ {sig}]
  <1>3. T \in [Slots -> Task] /\ Calm(tasks, T) /\ T[current].state = "Running" /\ T[current].pt # 0
    BY <1>0, TakenCalm, ZenonT(60)
  <1>4. \/ tasks' = T /\ UNCHANGED <<current, cr3>>
        \/ tasks' = [T EXCEPT ![current].at = "user"] /\ UNCHANGED <<current, cr3>>
        \/ Schedule([T EXCEPT ![current].state = "Blocked", ![current].at = "stop"], FALSE)
        \/ Schedule(Exited(T, current), FALSE)
    BY ZenonT(30), <1>1
  <1>5. \A s \in Slots : T[s].irq = tasks[s].irq /\ T[s].state = tasks[s].state
    <2>1. \A s \in Slots : T[s] = IF s = current THEN [tasks[s] EXCEPT !.pending = @ \ {sig}] ELSE tasks[s]
      BY <1>0, ZenonT(30)
    <2> QED
      BY <1>0, <2>1, SMTT(60) DEF Task
  <1>6. T[IdleSlot] = tasks[IdleSlot]
    BY <1>0, Facts, ZenonT(30)
  <1> HIDE DEF T
  <1>7. Handed(T)
    BY ZenonT(30), <1>0, <1>3, <1>5, <1>6 DEF Handed
  <1>8. Kept(T, nextPid, current, owned, cr3)
    BY <1>0, <1>3, CalmKept, SMTT(60)
  <1>9. CASE tasks' = T /\ UNCHANGED <<current, cr3>>
    BY ZenonT(30), <1>2, <1>8, <1>9 DEF Procs
  <1>10. CASE tasks' = [T EXCEPT ![current].at = "user"] /\ UNCHANGED <<current, cr3>>
    <2>1. tasks' \in [Slots -> Task] /\ Calm(T, tasks')
      BY <1>0, <1>3, <1>10, PlaceCalm, ZenonT(60) DEF Places
    <2>2. UNCHANGED <<current, cr3>>
      BY ZenonT(30), <1>10
    <2> DEFINE U == tasks'
    <2>3. U \in [Slots -> Task] /\ Calm(T, U)
      BY ZenonT(30), <2>1
    <2> HIDE DEF U
    <2>4. Kept(U, nextPid, current, owned, cr3)
      BY <1>0, <1>3, <1>8, <2>3, CalmKept, SMTT(60)
    <2> QED
      BY ZenonT(30), <1>2, <2>2, <2>4 DEF Procs, U
  <1>11. CASE Schedule([T EXCEPT ![current].state = "Blocked", ![current].at = "stop"], FALSE)
    <2> DEFINE U == [T EXCEPT ![current].state = "Blocked", ![current].at = "stop"]
    <2>1. U \in [Slots -> Task] /\ Calm(T, U)
      BY <1>0, <1>3, StopCalm, ZenonT(60)
    <2>2. Handed(U)
      <3>1. 0 \in Pids /\ "stop" \in Places
        BY SchedulerAssumption DEF Places, Pids
      <3> QED
        BY <1>0, <1>7, <3>1, HandedBlock, ZenonT(60)
    <2> HIDE DEF U
    <2>3. Schedule(U, FALSE)
      BY ZenonT(30), <1>11 DEF U
    <2>4. Kept(U, nextPid, current, owned, cr3)
      BY <1>0, <1>3, <1>8, <2>1, CalmKept, SMTT(60)
    <2> QED
      BY <1>0, <1>2, <2>2, <2>3, <2>4, ScheduleKept, ZenonT(60) DEF Procs
  <1>12. CASE Schedule(Exited(T, current), FALSE)
    BY <1>0, <1>2, <1>3, <1>7, <1>8, <1>12, ExitStep, ZenonT(60)
  <1> QED
    BY ZenonT(30), <1>4, <1>9, <1>10, <1>11, <1>12

\* The loop of sys_wait reaps a child or goes to sleep.
LEMMA WaitKept ==
    ASSUME ProcInv, NEW f \in Pids, me.pt # 0, Reap(f) \/ Sleep(f)
    PROVE  Procs'
  <1>0. /\ tasks \in [Slots -> Task] /\ current \in Slots /\ nextPid \in Nat /\ SchedInv
        /\ tasks[current].state = "Running" /\ tasks[current].pt # 0 /\ current # IdleSlot
        /\ Handed(tasks)
    BY ZenonT(30), ProcFacts
  <1>1. CASE Reap(f)
    <2>1. PICK s \in Slots : /\ First(s, Reapable(f))
                             /\ tasks' = Returning([tasks EXCEPT ![s] = EmptySlot])
                             /\ owned' = owned \ {tasks[s].pt}
                             /\ UNCHANGED <<current, cr3, nextPid>>
      BY <1>1, ZenonT(60) DEF Reap
    <2>2. tasks[s].state = "Zombie"
      BY ZenonT(30), <2>1 DEF First, Reapable
    <2> DEFINE U == [tasks EXCEPT ![s] = EmptySlot]
    <2>3. /\ U \in [Slots -> Task] /\ U[current] = tasks[current]
          /\ Kept(U, nextPid, current, owned', cr3)
      BY ZenonT(30), <2>1, <2>2, ReapKept
    <2> HIDE DEF U
    <2>4. tasks' = Returning(U)
      BY ZenonT(30), <2>1 DEF U
    <2> QED
      BY <1>0, <2>1, <2>3, <2>4, ReturningKept, ZenonT(30) DEF Procs
  <1>2. CASE Sleep(f)
    <2> DEFINE U == [tasks EXCEPT ![current].state = "Blocked", ![current].at = "wait",
                                  ![current].filter = f]
    <2>1. Handed(U)
      BY <1>0, HandedBlock, ZenonT(60) DEF Places
    <2>2. Kept(U, nextPid, current, owned, cr3)
      BY ZenonT(30), <1>2, SleepKept DEF Sleep
    <2>3. Schedule(U, FALSE) /\ UNCHANGED <<owned, nextPid>>
      BY <1>2, ZenonT(60) DEF Sleep
    <2> HIDE DEF U
    <2> QED
      BY <1>0, <2>1, <2>2, <2>3, ScheduleKept, ZenonT(60) DEF Procs
  <1> QED
    BY ZenonT(30), <1>1, <1>2

\* sys_fork and sys_exec.
LEMMA CreateKept ==
    ASSUME ProcInv, Fork \/ Exec
    PROVE  Procs'
  <1>0. /\ tasks \in [Slots -> Task] /\ current \in Slots /\ nextPid \in Nat /\ SchedInv
        /\ tasks[current].state = "Running" /\ tasks[current].pt # 0 /\ me.pt # 0
    BY ZenonT(30), ProcFacts DEF Fork, Exec, InUser
  <1>1. nextPid \in Pids /\ nextPid' = nextPid + 1 /\ nextPid' \in Nat
    BY <1>0, Facts, SMTT(60) DEF Fork, Exec
  <1>2. CASE Fork
    <2>1. PICK p \in PageTables : /\ FreeTable(p) /\ Insert(NewTask(nextPid, me.pid, p))
                                  /\ owned' = owned \cup {p}
      BY ZenonT(30), <1>2 DEF Fork
    <2>2. UNCHANGED <<current, cr3>>
      BY ZenonT(30), <1>2 DEF Fork
    <2>3. p \in PageTables \ owned
      BY ZenonT(30), <2>1 DEF FreeTable, First
    <2>4. PICK s \in Slots : /\ FreeSlot(s)
                             /\ tasks' = Returning([tasks EXCEPT ![s] = NewTask(nextPid, me.pid, p)])
      BY ZenonT(30), <2>1 DEF Insert
    <2>5. ~Used(tasks, s)
      <3>1. len \in Nat
        BY <1>0, SchedulerAssumption, SMTT(60) DEF SchedInv, TypeOK
      <3> QED
        BY <1>0, <2>4, <3>1, SMTT(60) DEF FreeSlot, First, SchedInv, TableShape, Slots
    <2> DEFINE U == [tasks EXCEPT ![s] = NewTask(nextPid, me.pid, p)]
    <2>6. /\ U \in [Slots -> Task] /\ U[current] = tasks[current]
          /\ Kept(U, nextPid', current, owned', cr3)
      BY <1>0, <1>1, <2>1, <2>3, <2>5, InsertKept, ZenonT(60)
    <2> HIDE DEF U
    <2>7. tasks' = Returning(U)
      BY ZenonT(30), <2>4 DEF U
    <2> QED
      BY <1>0, <1>1, <2>2, <2>6, <2>7, ReturningKept, ZenonT(30) DEF Procs
  <1>3. CASE Exec
    <2>1. PICK p \in PageTables :
            /\ FreeTable(p)
            /\ owned' = (owned \ {me.pt}) \cup {p}
            /\ tasks' = [tasks EXCEPT ![current].pt = p, ![current].pending = {}]
            /\ cr3' = p
      BY <1>3, ZenonT(60) DEF Exec
    <2>2. p \in PageTables \ owned /\ current' = current
      BY ZenonT(30), <1>3, <2>1 DEF FreeTable, First, Exec
    <2>3. Kept(tasks', nextPid + 1, current, owned', cr3')
      BY <1>0, <2>1, <2>2, ExecKept, ZenonT(60)
    <2> QED
      BY ZenonT(30), <1>1, <2>2, <2>3 DEF Procs
  <1> QED
    BY ZenonT(30), <1>2, <1>3

\* At boot there are only the kernel's tasks and init (spawn_flushd, run_init).
LEMMA InitKept == Init => ProcInv
  <1> SUFFICES ASSUME Init PROVE Procs
    BY ZenonT(30), InitInv DEF ProcInv, Procs
  <1> DEFINE idle == [NewTask(IdlePid, 0, 0) EXCEPT !.state = "Running"]
  <1>0. Kthreads \in {0, 1} /\ IdleSlot = 0 /\ Kthreads + 1 \in Nat /\ Kthreads + 1 # IdleSlot
    BY SchedulerAssumption DEF IdleSlot
  <1>1. \A s \in Slots :
          /\ s = IdleSlot => tasks[s] = idle
          /\ s = Kthreads + 1 => tasks[s] = NewTask(InitPid, IdlePid, 1)
          /\ s \notin {IdleSlot, Kthreads + 1} =>
               tasks[s] \in {NewTask(FlushdPid, IdlePid, 0), EmptySlot}
          /\ s \notin {IdleSlot, Kthreads + 1} /\ tasks[s] = NewTask(FlushdPid, IdlePid, 0) => s = 1
    <2>1. EmptySlot # NewTask(FlushdPid, IdlePid, 0)
      <3>1. NewTask(FlushdPid, IdlePid, 0).state = "Ready"
        BY ZenonT(30) DEF NewTask
      <3> QED
        BY ZenonT(30), <3>1, EmptySlotType
    <2>2. tasks = [s \in Slots |-> CASE s = IdleSlot -> [NewTask(IdlePid, 0, 0) EXCEPT !.state = "Running"]
                                    [] s = Kthreads + 1 -> NewTask(InitPid, IdlePid, 1)
                                    [] s = 1 /\ Kthreads = 1 -> NewTask(FlushdPid, IdlePid, 0)
                                    [] OTHER -> EmptySlot]
      BY ZenonT(30) DEF Init
    <2> QED
      BY <1>0, <2>1, <2>2, SMTT(60)
  <1>2. /\ idle.pid = 0 /\ idle.state = "Running" /\ idle.at = "user" /\ idle.pt = 0
        /\ idle.parent = 0
    BY ZenonT(30) DEF NewTask, IdlePid
  <1> HIDE DEF idle
  <1>3. LET i == NewTask(InitPid, IdlePid, 1)
        IN i.pid = 2 /\ i.state = "Ready" /\ i.at = "user" /\ i.pt = 1 /\ i.parent = 0
    BY ZenonT(30) DEF NewTask, IdlePid, InitPid
  <1>4. LET i == NewTask(FlushdPid, IdlePid, 0)
        IN i.pid = 1 /\ i.state = "Ready" /\ i.at = "user" /\ i.pt = 0 /\ i.parent = 0
    BY ZenonT(30) DEF NewTask, IdlePid, FlushdPid
  <1>5. EmptySlot.state = "None"
    BY ZenonT(30), EmptySlotType
  <1>6. \A s \in Slots : Used(tasks, s) =>
          /\ tasks[s].at = "user" /\ tasks[s].state # "Blocked"
          /\ \/ s = IdleSlot /\ tasks[s].pid = 0 /\ tasks[s].pt = 0
             \/ s = Kthreads + 1 /\ tasks[s].pid = 2 /\ tasks[s].pt = 1
             \/ s = 1 /\ s # Kthreads + 1 /\ tasks[s].pid = 1 /\ tasks[s].pt = 0
    <2> SUFFICES ASSUME NEW s \in Slots, Used(tasks, s)
                 PROVE  /\ tasks[s].at = "user" /\ tasks[s].state # "Blocked"
                        /\ \/ s = IdleSlot /\ tasks[s].pid = 0 /\ tasks[s].pt = 0
                           \/ s = Kthreads + 1 /\ tasks[s].pid = 2 /\ tasks[s].pt = 1
                           \/ s = 1 /\ s # Kthreads + 1 /\ tasks[s].pid = 1 /\ tasks[s].pt = 0
      BY ZenonT(30)
    <2>1. CASE s = IdleSlot
      BY <1>1, <1>2, <2>1, ZenonT(30)
    <2>2. CASE s = Kthreads + 1
      BY <1>1, <1>3, <2>2, ZenonT(30)
    <2>3. CASE s \notin {IdleSlot, Kthreads + 1}
      <3>1. tasks[s] = NewTask(FlushdPid, IdlePid, 0) /\ s = 1
        BY ZenonT(30), <1>1, <1>5, <2>3 DEF Used
      <3> QED
        BY <1>4, <2>3, <3>1, ZenonT(30)
    <2> QED
      BY ZenonT(30), <2>1, <2>2, <2>3
  <1>7. nextPid = 3 /\ owned = {1} /\ cr3 = 0 /\ current = IdleSlot
    BY SMTT(60) DEF Init, InitPid
  <1>8. Named(tasks, nextPid)
    BY <1>0, <1>6, <1>7, SMTT(60) DEF Named, InitPid
  <1>9. Parents(tasks) /\ Woken(tasks)
    BY <1>6, SMTT(60) DEF Parents, Woken, InitPid, Waits, Used
  <1>10. Tables(tasks, owned)
    BY <1>0, <1>6, <1>7, ZenonT(30) DEF Tables
  <1>11. Loaded(tasks, current, owned, cr3)
    <2>1. IdleSlot \in Slots
      BY SchedulerAssumption DEF IdleSlot, Slots
    <2> QED
      BY <1>1, <1>2, <1>7, <2>1, ZenonT(30) DEF Loaded
  <1> QED
    BY ZenonT(30), <1>8, <1>9, <1>10, <1>11 DEF Procs, Kept

\* Without threads every step of the kernel and its programs preserves the
\* invariant.
LEMMA StepKept ==
    ASSUME Threads = FALSE, ProcInv, [Next]_vars
    PROVE  ProcInv'
  <1> SUFFICES Procs'
    BY ZenonT(30), StepInv DEF ProcInv, Procs
  <1>1. CASE Timer \/ Yield
    BY ZenonT(30), <1>1, SwitchKept
  <1>2. CASE CtrlC \/ \E p \in Pids \ {IdlePid, FlushdPid}, sig \in Signals : Kill(p, sig)
    BY ZenonT(30), <1>2, SignalKept
  <1>3. CASE Fork \/ Exec
    BY ZenonT(30), <1>3, CreateKept
  <1>4. CASE Exit
    <2>1. /\ SchedInv /\ nextPid \in Nat /\ tasks \in [Slots -> Task] /\ Handed(tasks)
          /\ current \in Slots /\ tasks[current].state = "Running" /\ tasks[current].pt # 0
          /\ current # IdleSlot /\ Kept(tasks, nextPid, current, owned, cr3)
      BY ZenonT(30), <1>4, ProcFacts DEF Exit, InUser
    <2> QED
      BY <1>4, <2>1, ExitStep, ZenonT(60) DEF Exit
  <1>5. CASE \/ Resume \/ Continue \/ OtherSyscall
             \/ \E f \in Filters : WaitNoHang(f) \/ (InUser /\ NoChild(f))
             \/ me.at = "wait" /\ NoChild(me.filter)
             \/ \E leak \in BOOLEAN : SpawnFails(leak)
    BY ZenonT(30), <1>5, OwnKept
  <1>6. CASE \E f \in Filters : InUser /\ (Reap(f) \/ Sleep(f))
    BY <1>6, WaitKept, ZenonT(60) DEF InUser, Filters
  <1>7. CASE me.at = "wait" /\ (Reap(me.filter) \/ Sleep(me.filter))
    <2>1. me.pt # 0 /\ me.filter \in Pids
      BY <1>7, ProcFacts, ZenonT(30) DEF Task
    <2> QED
      BY ZenonT(30), <1>7, <2>1, WaitKept
  <1>8. CASE Deliver
    BY ZenonT(30), <1>8, DeliverKept
  <1>9. CASE UNCHANGED vars
    BY <1>9, ZenonT(30) DEF vars, ProcInv, Procs
  <1>10. ~\E vm, thread \in BOOLEAN : Clone(vm, thread)
    BY ZenonT(30) DEF Clone
  <1>11. CASE Program
    BY <1>1, <1>2, <1>3, <1>4, <1>5, <1>6, <1>10, <1>11, ZenonT(60) DEF Program, Wait
  <1>12. CASE Kernel
    BY <1>5, <1>7, <1>8, <1>12, ZenonT(60) DEF Kernel, WaitAgain
  <1> QED
    BY ZenonT(30), <1>1, <1>2, <1>9, <1>11, <1>12 DEF Next

-------------------------------------------------------------------------------
(* The theorems *)

\* Without threads, in every run of the scheduler: identifiers and page tables are
\* unique, and the three properties below hold (task.rs, scheduler.rs, sys_wait,
\* sys_exec).
THEOREM ProcessInvariant == Threads = FALSE => (Spec => []ProcInv)
  <1> SUFFICES ASSUME Threads = FALSE PROVE Spec => []ProcInv
    OBVIOUS
  <1>1. Init => ProcInv
    BY ZenonT(30), InitKept
  <1>2. ProcInv /\ [Next]_vars => ProcInv'
    BY ZenonT(30), StepKept
  <1> QED
    BY <1>1, <1>2, PTL DEF Spec

\* While init lives, every process has a living parent to reap it (exit_current).
THEOREM ParentsLive == Threads = FALSE => (Spec => []ParentAlive)
  <1> SUFFICES ASSUME Threads = FALSE PROVE Spec => []ParentAlive
    OBVIOUS
  <1>1. ProcInv => ParentAlive
    BY ZenonT(30) DEF ProcInv, Kept, Parents, ParentAlive, InitAlive, Alive, Lives
  <1> QED
    BY <1>1, ProcessInvariant, PTL

\* No task but init sleeps in sys_wait with nothing left to wake it: the check for
\* a finished child and the sleep fall into one interrupts-off window, and
\* exit_current wakes the parent in another.
THEOREM WakeupsKept == Threads = FALSE => (Spec => []NoLostWakeup)
  <1> SUFFICES ASSUME Threads = FALSE PROVE Spec => []NoLostWakeup
    OBVIOUS
  <1>1. ProcInv => NoLostWakeup
    <2> SUFFICES ASSUME ProcInv PROVE NoLostWakeup
      OBVIOUS
    <2>1. Woken(tasks)
      BY ZenonT(30) DEF ProcInv, Kept
    <2> QED
      BY <2>1, ZenonT(60) DEF Woken, NoLostWakeup, Asleep, Waits, Alive, Lives, ChildOf, Child
  <1> QED
    BY <1>1, ProcessInvariant, PTL

\* Reaping a child and exec never free a page table that the CPU or a task uses.
THEOREM TablesLive == Threads = FALSE => (Spec => []PageTablesLive)
  <1> SUFFICES ASSUME Threads = FALSE PROVE Spec => []PageTablesLive
    OBVIOUS
  <1>1. ProcInv => PageTablesLive
    BY ZenonT(30) DEF ProcInv, Kept, Tables, Loaded, PageTablesLive, me
  <1> QED
    BY <1>1, ProcessInvariant, PTL

===============================================================================
