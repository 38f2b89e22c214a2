------------------------------ MODULE Scheduler ------------------------------
(***************************************************************************)
(* The task table, the round-robin scheduler, the timer interrupt, signals *)
(* and the process life cycle: fork, clone, exec, exit, wait               *)
(* (kernel/src/task/, kernel/src/arch/idt.rs, the process calls of         *)
(* kernel/src/syscall/handlers.rs).                                        *)
(*                                                                         *)
(* One CPU.  An action is what the kernel does inside one interrupts-off   *)
(* window, so actions interleave exactly where the timer or a voluntary    *)
(* switch may fall.  A switch ends inside the incoming task: when that     *)
(* task was suspended in the timer handler it sends its end-of-interrupt   *)
(* before anything else, as part of the switch.                            *)
(*                                                                         *)
(* Task fields that no property tells apart (names, working directory,     *)
(* credentials, groups) are left out.  A refused call changes nothing and  *)
(* is an instance of OtherSyscall.                                         *)
(***************************************************************************)
EXTENDS Naturals, FiniteSets

CONSTANTS
    MaxTasks,   \* MAX_TASKS
    Quantum,    \* TIME_QUANTUM
    MaxPid,     \* bound on the process identifiers handed out
    Signals,    \* the signal numbers sent
    Threads,    \* whether programs use sys_clone's sharing flags
    Kthreads    \* how many kernel tasks boot spawns: flushd, or none

SIGINT == 2
SIGKILL == 9
SIGTERM == 15
SIGCHLD == 17
SIGCONT == 18
SIGSTOP == 19

ASSUME SchedulerAssumption ==
    /\ Kthreads \in {0, 1}
    /\ MaxTasks \in Nat /\ MaxTasks > Kthreads + 1
    /\ Quantum \in Nat \ {0}
    /\ MaxPid \in Nat /\ MaxPid >= 2
    /\ Signals \subseteq Nat
    /\ Threads \in BOOLEAN

IdleSlot == 0
IdlePid == 0
FlushdPid == 1      \* kernel tasks count up from 1
InitPid == 2        \* 100 in the code: the first user process
AnyChild == 0       \* waitpid(-1)

Slots == 0 .. MaxTasks - 1
Pids == 0 .. MaxPid
PageTables == 1 .. MaxTasks + 1

States == {"None", "Ready", "Running", "Blocked", "Zombie"}

\* Where a task is: in its program; at the end of a system call, where pending
\* signals are taken; asleep in sys_wait; stopped by a signal.
Places == {"user", "return", "wait", "stop"}

Task == [pid : Pids, parent : Pids, state : States, at : Places, filter : Pids,
         pending : SUBSET (Signals \cup {SIGCHLD}), pt : {0} \cup PageTables,
         irq : BOOLEAN]

VARIABLES
    tasks,      \* tasks[s]: slot s; state "None" is an empty slot
    len,        \* tasks.len(): slots at and above it were never used
    current,    \* the slot on the CPU
    ticks,      \* ticks_remaining
    isr,        \* the timer's in-service bit in the interrupt controller
    cr3,        \* the page table loaded in the CPU, 0 for the boot table
    owned,      \* allocated page tables
    nextPid

vars == <<tasks, len, current, ticks, isr, cr3, owned, nextPid>>

NewTask(p, parent, pt) ==
    [pid |-> p, parent |-> parent, state |-> "Ready", at |-> "user",
     filter |-> AnyChild, pending |-> {}, pt |-> pt, irq |-> FALSE]

EmptySlot == [NewTask(0, 0, 0) EXCEPT !.state = "None"]

TypeOK ==
    /\ tasks \in [Slots -> Task]
    /\ len \in 1 .. MaxTasks
    /\ current \in Slots
    /\ ticks \in 0 .. Quantum
    /\ isr \in BOOLEAN
    /\ cr3 \in {0} \cup PageTables
    /\ owned \in SUBSET PageTables
    /\ nextPid \in InitPid + 1 .. MaxPid + 1

\* The boot context in idle_loop, with flushd and init spawned.
Init ==
    /\ tasks = [s \in Slots |-> CASE s = IdleSlot -> [NewTask(IdlePid, 0, 0) EXCEPT !.state = "Running"]
                                  [] s = Kthreads + 1 -> NewTask(InitPid, IdlePid, 1)
                                  [] s = 1 /\ Kthreads = 1 -> NewTask(FlushdPid, IdlePid, 0)
                                  [] OTHER -> EmptySlot]
    /\ len = Kthreads + 2
    /\ current = IdleSlot
    /\ ticks = Quantum
    /\ isr = FALSE
    /\ cr3 = 0
    /\ owned = {1}
    /\ nextPid = InitPid + 1

-------------------------------------------------------------------------------
(* schedule *)

me == tasks[current]

Used(T, s) == T[s].state # "None"

\* s is the first slot of S in table order.
First(s, S) == s \in S /\ \A j \in S : s <= j

\* How far s is from the slot after the current one, going round the table.
Distance(s) == IF s > current THEN s - current - 1 ELSE s + len - current - 1

MutScanFromZero(T, n) == First(n, {s \in Slots : T[s].state = "Ready"})

\* n is the slot the scan of table T stops at.
IsNext(T, n) ==
    /\ n \in Slots
    /\ T[n].state = "Ready"
    /\ \A s \in Slots : T[s].state = "Ready" => Distance(n) <= Distance(s)

\* The table once n has replaced the current task on the CPU.
Switched(T, n, preempted) ==
    [s \in Slots |->
        [T[s] EXCEPT
           !.state = IF s = n THEN "Running" ELSE IF s = current /\ @ = "Running" THEN "Ready" ELSE @,
           !.irq = IF s = n THEN FALSE ELSE IF s = current THEN preempted ELSE @]]

\* schedule() on table T, from the timer handler or not.  An incoming task that
\* was suspended in the handler leaves it now and ends the interrupt.
Schedule(T, preempted) ==
    /\ ticks' = Quantum
    /\ \/ \E n \in Slots \ {current} :
            /\ IsNext(T, n)
            /\ tasks' = Switched(T, n, preempted)
            /\ current' = n
            /\ isr' = ((isr \/ preempted) /\ ~T[n].irq)
            /\ cr3' = IF T[n].pt \in {0, T[current].pt} THEN cr3 ELSE T[n].pt
       \/ /\ ~\E n \in Slots \ {current} : IsNext(T, n)
          /\ tasks' = T
          /\ UNCHANGED <<current, isr, cr3>>

-------------------------------------------------------------------------------
(* Interrupts *)

\* The interrupt flag is set: not inside sys_wait or a stop, whose task was
\* suspended with interrupts off.
Interruptible == me.at \in {"user", "return"}

MutEoiFirst ==
    /\ Interruptible
    /\ ~isr
    /\ \/ /\ ticks > 1
          /\ ticks' = ticks - 1
          /\ UNCHANGED <<tasks, current, isr, cr3>>
       \/ /\ ticks <= 1
          /\ Schedule(tasks, FALSE)
    /\ UNCHANGED <<len, owned, nextPid>>

\* timer_handler: the end-of-interrupt follows timer_tick.
Timer ==
    /\ Interruptible
    /\ ~isr
    /\ \/ /\ ticks > 1
          /\ ticks' = ticks - 1
          /\ UNCHANGED <<tasks, current, isr, cr3>>
       \/ /\ ticks <= 1
          /\ Schedule(tasks, TRUE)
    /\ UNCHANGED <<len, owned, nextPid>>

\* signal_foreground, from the serial line's interrupt: lower in priority than
\* the timer's, so held back while that one is in service.
CtrlC ==
    /\ Interruptible
    /\ ~isr
    /\ SIGINT \in Signals
    /\ \E s \in Slots :
         /\ IF me.pid >= InitPid THEN s = current
            ELSE First(s, {i \in Slots : /\ tasks[i].pid >= InitPid
                                        /\ tasks[i].state \in {"Running", "Ready", "Blocked"}})
         /\ tasks' = [tasks EXCEPT ![s].pending = @ \cup {SIGINT},
                                   ![s].state = IF @ = "Blocked" THEN "Ready" ELSE @]
    /\ UNCHANGED <<len, current, ticks, isr, cr3, owned, nextPid>>

-------------------------------------------------------------------------------
(* Calls that create tasks *)

\* The current task is a user program making a system call.
InUser == me.at = "user" /\ me.pt # 0

\* T with the current task about to take its signals.
Returning(T) == [T EXCEPT ![current].at = "return"]

FreeSlot(s) ==
    \/ First(s, {i \in Slots : i < len /\ ~Used(tasks, i)})
    \/ s = len /\ \A i \in Slots : i < len => Used(tasks, i)

FreeTable(p) == First(p, PageTables \ owned)

\* spawn_forked / spawn_user put a built task into the table.
Insert(t) ==
    /\ len < MaxTasks
    /\ \E s \in Slots :
         /\ FreeSlot(s)
         /\ tasks' = Returning([tasks EXCEPT ![s] = t])
         /\ len' = IF s = len THEN len + 1 ELSE len

MutForkShares ==
    /\ InUser
    /\ nextPid <= MaxPid
    /\ nextPid' = nextPid + 1
    /\ Insert(NewTask(nextPid, me.pid, me.pt))
    /\ UNCHANGED <<current, ticks, isr, cr3, owned>>

\* sys_fork and a successful sys_spawn: a child with an address space of its own.
Fork ==
    /\ InUser
    /\ nextPid <= MaxPid
    /\ nextPid' = nextPid + 1
    /\ \E p \in PageTables :
         /\ FreeTable(p)
         /\ Insert(NewTask(nextPid, me.pid, p))
         /\ owned' = owned \cup {p}
    /\ UNCHANGED <<current, ticks, isr, cr3>>

\* The table has reached MAX_TASKS: fork frees what it built, sys_spawn does
\* not.  Both have taken a process identifier.
SpawnFails(leak) ==
    /\ InUser
    /\ len >= MaxTasks
    /\ nextPid <= MaxPid
    /\ nextPid' = nextPid + 1
    /\ owned' = IF leak THEN owned \cup {p \in PageTables : FreeTable(p)} ELSE owned
    /\ tasks' = Returning(tasks)
    /\ UNCHANGED <<len, current, ticks, isr, cr3>>

\* sys_clone with CLONE_VM, with CLONE_THREAD, or with both (with neither it is
\* Fork): the first shares the page table; a thread takes its parent's identifier
\* as its own and as its parent's.
Clone(vm, thread) ==
    /\ Threads /\ (vm \/ thread)
    /\ InUser
    /\ nextPid <= MaxPid
    /\ nextPid' = IF thread THEN nextPid ELSE nextPid + 1
    /\ \E p \in PageTables :
         /\ IF vm THEN p = me.pt ELSE FreeTable(p)
         /\ Insert(NewTask(IF thread THEN me.pid ELSE nextPid, me.pid, p))
         /\ owned' = owned \cup {p}
    /\ UNCHANGED <<current, ticks, isr, cr3>>

\* sys_exec: the new image is built first, then the old page table is freed.  The
\* identifier taken for the image is not used.
Exec ==
    /\ InUser
    /\ nextPid <= MaxPid
    /\ nextPid' = nextPid + 1
    /\ \E p \in PageTables :
         /\ FreeTable(p)
         /\ owned' = (owned \ {me.pt}) \cup {p}
         /\ tasks' = [tasks EXCEPT ![current].pt = p, ![current].pending = {}]
         /\ cr3' = p
    /\ UNCHANGED <<len, current, ticks, isr>>

-------------------------------------------------------------------------------
(* exit *)

MutExitWakesNobody(T, s) ==
    LET gone == T[s].pid IN
    [i \in Slots |->
        [T[i] EXCEPT
           !.state = IF i = s THEN "Zombie" ELSE @,
           !.parent = IF T[i].pid # gone /\ Used(T, i) /\ @ = gone THEN InitPid ELSE @]]

MutExitKeepsOrphans(T, s) ==
    LET named == {i \in Slots : Used(T, i) /\ T[i].pid = T[s].parent} IN
    [i \in Slots |->
        [T[i] EXCEPT
           !.state = IF i = s THEN "Zombie" ELSE IF i \in named /\ @ = "Blocked" THEN "Ready" ELSE @,
           !.pending = IF First(i, named) THEN @ \cup {SIGCHLD} ELSE @]]

\* The table after the task in slot s has become a zombie: its children go to
\* init, and its parent is woken and told.
Exited(T, s) ==
    LET gone == T[s].pid
        named == {i \in Slots : Used(T, i) /\ T[i].pid = T[s].parent /\ T[s].parent # IdlePid}
        sleepers == {i \in named \ {s} : T[i].state = "Blocked"}
    IN [i \in Slots |->
          [T[i] EXCEPT
             !.state = IF i = s THEN "Zombie"
                       ELSE IF First(i, sleepers) \/ (First(i, named) /\ i \in sleepers) THEN "Ready" ELSE @,
             !.parent = IF T[i].pid # gone /\ Used(T, i) /\ @ = gone THEN InitPid ELSE @,
             !.pending = IF First(i, named) THEN @ \cup {SIGCHLD} ELSE @]]

\* sys_exit, a fatal signal, or a page fault in a user program.
Exit ==
    /\ InUser
    /\ Schedule(Exited(tasks, current), FALSE)
    /\ UNCHANGED <<len, owned, nextPid>>

-------------------------------------------------------------------------------
(* wait *)

\* child_matches_wait_filter
Matches(s, f) ==
    /\ Used(tasks, s)
    /\ tasks[s].parent = me.pid
    /\ f = AnyChild \/ tasks[s].pid = f

HasChildren(f) == \E s \in Slots : Matches(s, f)

Reapable(f) == {s \in Slots : Matches(s, f) /\ tasks[s].state = "Zombie"}

\* reap_zombie_child_filtered: empty the slot, free the page table.
Reap(f) ==
    \E s \in Slots :
        /\ First(s, Reapable(f))
        /\ tasks' = Returning([tasks EXCEPT ![s] = EmptySlot])
        /\ owned' = owned \ {tasks[s].pt}
        /\ UNCHANGED <<len, current, ticks, isr, cr3, nextPid>>

NoChild(f) ==
    /\ ~HasChildren(f)
    /\ tasks' = Returning(tasks)
    /\ UNCHANGED <<len, current, ticks, isr, cr3, owned, nextPid>>

\* block_and_reschedule inside sys_wait's loop.
Sleep(f) ==
    /\ HasChildren(f)
    /\ Reapable(f) = {}
    /\ Schedule([tasks EXCEPT ![current].state = "Blocked", ![current].at = "wait",
                              ![current].filter = f], FALSE)
    /\ UNCHANGED <<len, owned, nextPid>>

\* sys_wait, up to its first return or sleep.
Wait(f) == InUser /\ (NoChild(f) \/ Reap(f) \/ Sleep(f))

\* sys_wait with WNOHANG when no child has finished.
WaitNoHang(f) ==
    /\ InUser
    /\ HasChildren(f)
    /\ Reapable(f) = {}
    /\ tasks' = Returning(tasks)
    /\ UNCHANGED <<len, current, ticks, isr, cr3, owned, nextPid>>

\* The loop of sys_wait goes round after block_and_reschedule returned.
WaitAgain ==
    /\ me.at = "wait"
    /\ NoChild(me.filter) \/ Reap(me.filter) \/ Sleep(me.filter)

-------------------------------------------------------------------------------
(* Signals *)

\* send_signal_checked: the first task named p.
Kill(p, sig) ==
    /\ InUser
    /\ \E s \in Slots :
         /\ First(s, {i \in Slots : Used(tasks, i) /\ tasks[i].pid = p})
         /\ tasks' = Returning([tasks EXCEPT ![s].pending = @ \cup {sig},
                                             ![s].state = IF @ = "Blocked" THEN "Ready" ELSE @])
    /\ UNCHANGED <<len, current, ticks, isr, cr3, owned, nextPid>>

\* default_action, and the signals sys_sigaction accepts.
Ignored(sig) == sig \in {SIGCHLD, SIGCONT}
Stops(sig) == sig = SIGSTOP
Catchable(sig) == sig \notin {SIGKILL, SIGSTOP}

\* deliver_pending_signals: one turn of the loop, lowest signal first.  Whether
\* the program ignores a signal or has a handler for it is its own choice; a
\* handler ends the loop.
Deliver ==
    /\ me.at = "return"
    /\ \E sig \in me.pending :
         LET T == [tasks EXCEPT ![current].pending = @ \ {sig}] IN
         /\ First(sig, me.pending)
         /\ \/ /\ Ignored(sig) \/ Catchable(sig)
               /\ tasks' = T
               /\ UNCHANGED <<current, ticks, isr, cr3>>
            \/ /\ Catchable(sig)
               /\ tasks' = [T EXCEPT ![current].at = "user"]
               /\ UNCHANGED <<current, ticks, isr, cr3>>
            \/ Stops(sig) /\ Schedule([T EXCEPT ![current].state = "Blocked", ![current].at = "stop"], FALSE)
            \/ ~Ignored(sig) /\ ~Stops(sig) /\ Schedule(Exited(T, current), FALSE)
    /\ UNCHANGED <<len, owned, nextPid>>

\* No signal left: back to the program.
Resume ==
    /\ me.at = "return"
    /\ me.pending = {}
    /\ tasks' = [tasks EXCEPT ![current].at = "user"]
    /\ UNCHANGED <<len, current, ticks, isr, cr3, owned, nextPid>>

\* A stopped task that was made runnable goes on with its signals.
Continue ==
    /\ me.at = "stop"
    /\ tasks' = Returning(tasks)
    /\ UNCHANGED <<len, current, ticks, isr, cr3, owned, nextPid>>

-------------------------------------------------------------------------------
(* Everything else a program does *)

\* yield_now: every blocking read, poll, sleep and socket call is a loop of it.
Yield ==
    /\ me.at = "user"
    /\ current # IdleSlot
    /\ Schedule(tasks, FALSE)
    /\ UNCHANGED <<len, owned, nextPid>>

\* A call without effect on the task table.
OtherSyscall ==
    /\ InUser
    /\ tasks' = Returning(tasks)
    /\ UNCHANGED <<len, current, ticks, isr, cr3, owned, nextPid>>

Filters == Pids \ {FlushdPid, InitPid}

Program ==
    \/ Fork \/ Exec \/ Exit \/ Yield \/ OtherSyscall
    \/ \E leak \in BOOLEAN : SpawnFails(leak)
    \/ \E vm, thread \in BOOLEAN : Clone(vm, thread)
    \/ \E f \in Filters : Wait(f) \/ WaitNoHang(f)
    \/ \E p \in Pids \ {IdlePid, FlushdPid}, sig \in Signals : Kill(p, sig)

\* What the kernel does on its own for the task on the CPU.
Kernel == WaitAgain \/ Deliver \/ Resume \/ Continue

Next == Timer \/ CtrlC \/ Program \/ Kernel

Spec == Init /\ [][Next]_vars

\* The timer keeps firing and the kernel finishes what it started.
KernelFair == WF_vars(Timer) /\ WF_vars(Kernel)
FairSpec == Spec /\ KernelFair

\* In addition every program comes back to a call that yields.
CooperativeFair == KernelFair /\ SF_vars(Yield)
CooperativeSpec == Spec /\ CooperativeFair

-------------------------------------------------------------------------------
(* What must hold *)

\* Exactly one task is Running, and it is the one on the CPU; the idle task is
\* always runnable (the header of scheduler.rs).
OneRunning ==
    /\ \A s \in Slots : tasks[s].state = "Running" <=> s = current
    /\ tasks[IdleSlot].state \in {"Ready", "Running"}

\* The timer interrupt is in service exactly while the idle task is off the CPU:
\* it left inside timer_handler, before the end-of-interrupt, and only its return
\* sends it.  So no other task is ever interrupted by the timer.
TimerServesIdle ==
    /\ isr <=> current # IdleSlot
    /\ isr <=> tasks[IdleSlot].irq
    /\ \A s \in Slots \ {IdleSlot} : ~tasks[s].irq

\* Only the first len slots are ever used, the running one among them, and slot 0
\* is the idle task in idle_loop, which makes no system call.
TableShape ==
    /\ current < len
    /\ \A s \in Slots : s >= len => ~Used(tasks, s)
    /\ tasks[IdleSlot].pid = IdlePid
    /\ tasks[IdleSlot].pt = 0
    /\ tasks[IdleSlot].at = "user"

\* The inductive form of the scheduler's own invariants: every switch leaves one
\* Running task, the one on the CPU, and the timer in service for the idle task.
SchedInv == TypeOK /\ OneRunning /\ TimerServesIdle /\ TableShape

Alive(s) == tasks[s].state \in {"Ready", "Running", "Blocked"}

InitAlive == \E s \in Slots : Alive(s) /\ tasks[s].pid = InitPid

\* While init lives, every process has a living parent to reap it: exit_current
\* hands the children of a dying task to init.
ParentAlive ==
    InitAlive => \A s \in Slots : Used(tasks, s) /\ tasks[s].pid > InitPid =>
                    \E i \in Slots : Alive(i) /\ tasks[i].pid = tasks[s].parent

ChildOf(c, s) ==
    /\ Used(tasks, c)
    /\ tasks[c].parent = tasks[s].pid
    /\ tasks[s].filter \in {AnyChild, tasks[c].pid}

Asleep(s) == tasks[s].state = "Blocked" /\ tasks[s].at = "wait"

\* No task but init sleeps in sys_wait with nothing left to wake it: a child it
\* waits for is still running, and none has exited unnoticed.
NoLostWakeup ==
    \A s \in Slots : Asleep(s) /\ tasks[s].pid # InitPid =>
        /\ \E c \in Slots : ChildOf(c, s) /\ Alive(c)
        /\ \A c \in Slots : ChildOf(c, s) => Alive(c)

\* The page table in the CPU and those of all tasks are allocated, and the
\* running program is on its own: freeing on reap and exec never takes a table
\* from under anyone.
PageTablesLive ==
    /\ cr3 \in owned \cup {0}
    /\ me.pt \in {0, cr3}
    /\ \A s \in Slots : Used(tasks, s) => tasks[s].pt \in owned \cup {0}

\* A runnable task gets the CPU: schedule's scan goes round the table.
NoStarvation ==
    \A s \in Slots : tasks[s].state = "Ready" ~> tasks[s].state # "Ready"

-------------------------------------------------------------------------------
(* What comments and documents say of the code *)

\* "Reparent orphan children to init (PID 100) so they can be reaped"
\* (exit_current): init does not sleep in sys_wait over a zombie it may reap.
OrphansReaped ==
    \A s \in Slots : Asleep(s) /\ tasks[s].pid = InitPid =>
        \A c \in Slots : ChildOf(c, s) => Alive(c)

===============================================================================
