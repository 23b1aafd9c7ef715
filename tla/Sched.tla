------------------------------- MODULE Sched -------------------------------
(***************************************************************************)
(* The scheduler: kernel/sched/core.c, kernel/sched/idle.c, irq_exit of    *)
(* kernel/irq.c and the tick of kernel/time/tick.c.                        *)
(*                                                                         *)
(* A thread is a task or the idle task of a CPU, which is named after its  *)
(* CPU.  pc[x] is where thread x is in the kernel; CPU c takes the steps   *)
(* of on[c], the thread whose kernel stack it uses.  A critical section    *)
(* under rq->lock is one step; between two of them the other CPUs, and the *)
(* interrupts of this one where they are enabled, take steps of their own. *)
(* Module Tasks adds the system calls that create, block and end tasks.    *)
(***************************************************************************)
EXTENDS Naturals, Sequences, FiniteSets, SequencesExt

CONSTANTS
    Tasks,              \* task_struct slots
    NR_CPUS,            \* CPUs are 0 .. NR_CPUS - 1; CPU 0 keeps the time
    NoTask

CPUs == 0 .. NR_CPUS - 1
Threads == Tasks \cup CPUs

ASSUME SchedAssumption ==
    /\ NR_CPUS \in Nat \ {0}
    /\ Tasks \cap CPUs = {}
    /\ NoTask \notin Threads

VARIABLES
    rq,      \* rq[c]: the list rq->tasks
    nr,      \* nr[c]: rq->nr_running
    curr,    \* curr[c]: cpu_data[c].curr, which `current` reads
    on,      \* on[c]: the thread whose context CPU c has loaded
    ipi,     \* ipi[c]: a reschedule SGI is pending at c
    state,   \* state[t]: task->state, or "free" for an unused slot
    cpu,     \* cpu[t]: task->cpu
    need,    \* need[t]: task->need_resched
    timer,   \* timer[t]: task->wake_jiffies is set
    pc,      \* pc[x]: where x is in the kernel
    ret,     \* ret[x]: where schedule() will return to
    nxt,     \* nxt[x]: `next` of schedule(), or the task try_pull_task takes
    src      \* src[x]: `busiest` of try_pull_task, `old_cpu` of migrate_task

queues == <<rq, nr>>
cpuvars == <<curr, on>>
locals == <<ret, nxt, src>>
schedVars == <<rq, nr, curr, on, ipi, state, cpu, need, timer, pc, ret, nxt, src>>

Linked(t) == \E c \in CPUs : t \in ToSet(rq[c])

Goto(x, l) == pc' = [pc EXCEPT ![x] = l]

-----------------------------------------------------------------------------
(* Run queues.                                                             *)

(* resched_cpu(d) on CPU c: a flag for oneself, an SGI for the others.     *)
resched_cpus(c, D) ==
    /\ need' = [need EXCEPT ![curr[c]] = @ \/ c \in D]
    /\ ipi' = [d \in CPUs |-> ipi[d] \/ (d \in D /\ d # c)]

(* Mutant: without the list_empty test.                                    *)
enqueue_tasks_relink(q) ==
    LET To(c) == SelectSeq(q, LAMBDA t : cpu[t] = c)
    IN  /\ rq' = [c \in CPUs |-> rq[c] \o To(c)]
        /\ nr' = [c \in CPUs |-> nr[c] + Len(To(c))]
        /\ state' = [t \in Tasks |-> IF t \in ToSet(q) THEN "running" ELSE state[t]]

(* enqueue_task_locked for every task of a sequence: those on a list       *)
(* already are left as they are, whatever their state.                     *)
enqueue_tasks(q) ==
    LET new == SelectSeq(q, LAMBDA t : ~Linked(t))
        To(c) == SelectSeq(new, LAMBDA t : cpu[t] = c)
    IN  /\ rq' = [c \in CPUs |-> rq[c] \o To(c)]
        /\ nr' = [c \in CPUs |-> nr[c] + Len(To(c))]
        /\ state' = [t \in Tasks |-> IF t \in ToSet(new) THEN "running" ELSE state[t]]

(* list_del_init takes t off the list it is on; the count that is          *)
(* decremented is the one of task->cpu.                                    *)
dequeue_task(t) ==
    /\ rq' = [c \in CPUs |-> Remove(rq[c], t)]
    /\ nr' = IF Linked(t) /\ nr[cpu[t]] > 0 THEN [nr EXCEPT ![cpu[t]] = @ - 1]
                                            ELSE nr

(* wake_up_process of the tasks in q, by code running on CPU c, which has  *)
(* reasons of its own to reschedule the CPUs in D.                         *)
wake_up_processes(c, q, D) ==
    LET woken == SelectSeq(q, LAMBDA t : ~(state[t] = "running" /\ Linked(t)))
    IN  /\ enqueue_tasks(woken)
        /\ resched_cpus(c, D \cup {cpu[t] : t \in ToSet(woken)})

(* Mutant: always the head of the list.                                    *)
pick_next_task_head(c, prev) == IF rq[c] = <<>> THEN c ELSE rq[c][1]

(* Round robin: the list entry after prev, or the first one.               *)
pick_next_task(c, prev) ==
    LET q == rq[c]
        next(i) == IF i = Len(q) THEN q[1] ELSE q[i + 1]
    IN  IF q = <<>> THEN c
        ELSE IF prev \in ToSet(q)
             THEN next(CHOOSE i \in 1 .. Len(q) : q[i] = prev)
        ELSE q[1]

(* The CPU with most tasks, if it has at least two more than c.            *)
find_busiest_cpu(c) ==
    {b \in CPUs \ {c} : /\ nr[b] > nr[c] + 1
                        /\ \A d \in CPUs \ {c} : nr[d] <= nr[b]
                        /\ \A d \in CPUs \ {c} : nr[d] = nr[b] => b <= d}

(* From the tail, the first task that is not the one b runs.               *)
pick_migratable_task(b) ==
    LET S == {i \in 1 .. Len(rq[b]) : rq[b][i] # curr[b]}
    IN  IF nr[b] <= 1 \/ S = {} THEN NoTask
        ELSE rq[b][CHOOSE i \in S : \A j \in S : j <= i]

-----------------------------------------------------------------------------
(* schedule(), by thread x on CPU c.                                       *)

InSchedule == {"sched", "pull", "steal", "migrate", "move", "repick", "switch"}

(* Call schedule() and continue at l when it returns.                      *)
CallSchedule(x, l) ==
    /\ Goto(x, "sched")
    /\ ret' = [ret EXCEPT ![x] = l]

(* Continue at ret[x]; the local variables are dead.                       *)
Return(x) ==
    /\ Goto(x, ret[x])
    /\ ret' = [ret EXCEPT ![x] = "none"]
    /\ nxt' = [nxt EXCEPT ![x] = NoTask]
    /\ src' = [src EXCEPT ![x] = 0]

(* `if (next == prev) return; context_switch(prev, next)`                  *)
SwitchOrReturn(x, next) ==
    IF next = x THEN Return(x)
    ELSE /\ Goto(x, "switch")
         /\ nxt' = [nxt EXCEPT ![x] = next]
         /\ UNCHANGED <<ret, src>>

PickNext(c, x) ==
    /\ pc[x] = "sched"
    /\ need' = [need EXCEPT ![curr[c]] = FALSE]
    /\ IF rq[c] = <<>> THEN Goto(x, "pull") /\ UNCHANGED locals
                       ELSE SwitchOrReturn(x, pick_next_task(c, x))
    /\ UNCHANGED <<queues, cpuvars, ipi, state, cpu, timer>>

(* try_pull_task: look for a busier CPU ...                                *)
FindBusiest(c, x) ==
    /\ pc[x] = "pull"
    /\ \/ /\ find_busiest_cpu(c) = {}
          /\ SwitchOrReturn(x, c)
       \/ \E b \in find_busiest_cpu(c) :
            /\ src' = [src EXCEPT ![x] = b]
            /\ Goto(x, "steal")
            /\ UNCHANGED <<ret, nxt>>
    /\ UNCHANGED <<queues, cpuvars, ipi, state, cpu, need, timer>>

(* ... choose one of its tasks under its lock ...                          *)
PickMigratable(c, x) ==
    /\ pc[x] = "steal"
    /\ LET t == pick_migratable_task(src[x])
       IN  IF t = NoTask THEN SwitchOrReturn(x, c)
           ELSE /\ Goto(x, "migrate")
                /\ nxt' = [nxt EXCEPT ![x] = t]
                /\ UNCHANGED <<ret, src>>
    /\ UNCHANGED <<queues, cpuvars, ipi, state, cpu, need, timer>>

(* ... and migrate_task: read task->cpu, then lock both queues ...         *)
ReadOldCpu(c, x) ==
    /\ pc[x] = "migrate"
    /\ src' = [src EXCEPT ![x] = cpu[nxt[x]]]
    /\ Goto(x, IF cpu[nxt[x]] = c THEN "repick" ELSE "move")
    /\ UNCHANGED <<queues, cpuvars, ipi, state, cpu, need, timer, ret, nxt>>

(* Mutant: the task is trusted to be where it was found.                   *)
MigrationValid_trusting(t, old) == t # curr[old]

(* What migrate_task tests again under both locks.                         *)
MigrationValid(t, old) ==
    /\ state[t] = "running"
    /\ Linked(t)
    /\ cpu[t] = old
    /\ t # curr[old]

(* ... and move the task if it is still queued there and not running.      *)
MigrateTask(c, x) ==
    /\ pc[x] = "move"
    /\ LET t == nxt[x]
           old == src[x]
       IN  IF MigrationValid(t, old)
           THEN /\ rq' = [d \in CPUs |-> IF d = c THEN Append(rq[c], t)
                                                  ELSE Remove(rq[d], t)]
                /\ nr' = [nr EXCEPT ![old] = IF @ > 0 THEN @ - 1 ELSE @, ![c] = @ + 1]
                /\ cpu' = [cpu EXCEPT ![t] = c]
                /\ resched_cpus(c, {c})
                /\ Goto(x, "repick")
                /\ UNCHANGED locals
           ELSE SwitchOrReturn(x, c) /\ UNCHANGED <<queues, cpu, need, ipi>>
    /\ UNCHANGED <<cpuvars, state, timer>>

Repick(c, x) ==
    /\ pc[x] = "repick"
    /\ SwitchOrReturn(x, pick_next_task(c, x))
    /\ UNCHANGED <<queues, cpuvars, ipi, state, cpu, need, timer>>

(* context_switch: from set_current on, `current` is the next task ...     *)
SetCurrent(c, x) ==
    /\ pc[x] = "switch"
    /\ need' = [need EXCEPT ![nxt[x]] = FALSE]
    /\ curr' = [curr EXCEPT ![c] = nxt[x]]
    /\ Goto(x, "switch_to")
    /\ UNCHANGED <<queues, on, ipi, state, cpu, timer, locals>>

(* ... and from switch_to on, the CPU uses its stack.                      *)
SwitchTo(c, x) ==
    /\ pc[x] = "switch_to"
    /\ on' = [on EXCEPT ![c] = nxt[x]]
    /\ Return(x)
    /\ UNCHANGED <<queues, curr, ipi, state, cpu, need, timer>>

(* cpu_idle: schedule() again after every interrupt that ends WFI.         *)
IdleLoop(c, x) ==
    /\ x = c
    /\ pc[x] = "idle"
    /\ CallSchedule(x, "wfi")
    /\ UNCHANGED <<queues, cpuvars, ipi, state, cpu, need, timer, nxt, src>>

(* Back from irq_exit's schedule(), or for the first time out of           *)
(* ret_from_fork: eret to user mode.                                       *)
Eret(c, x) ==
    /\ pc[x] \in {"preempted", "forked"}
    /\ Goto(x, "user")
    /\ UNCHANGED <<queues, cpuvars, ipi, state, cpu, need, timer, locals>>

ScheduleStep(c, x) ==
    \/ PickNext(c, x) \/ FindBusiest(c, x) \/ PickMigratable(c, x)
    \/ ReadOldCpu(c, x) \/ MigrateTask(c, x) \/ Repick(c, x)
    \/ SetCurrent(c, x) \/ SwitchTo(c, x)
    \/ IdleLoop(c, x) \/ Eret(c, x)

-----------------------------------------------------------------------------
(* Interrupts.                                                             *)

(* Where the code a thread executes has interrupts enabled.  irq_exit      *)
(* calls schedule() with them masked; everybody else enables them first.   *)
Returning == {"yielded", "slept", "woken", "dead"}
ThreadIrqs(x) ==
    \/ pc[x] \in {"user", "idle", "wfi"} \cup Returning
    \/ pc[x] \in InSchedule /\ ret[x] # "preempted"
(* context_switch restores the DAIF of the next thread before switch_to.   *)
IrqsOn(c) == LET x == on[c]
             IN  IF pc[x] = "switch_to" THEN ThreadIrqs(nxt[x]) ELSE ThreadIrqs(x)

(* irq_exit: an interrupt from user mode reschedules if need_resched is    *)
(* set by now; one that ends WFI lets the idle loop go on.                 *)
irq_exit(x, resched) ==
    IF pc[x] = "user" /\ resched THEN CallSchedule(x, "preempted")
    ELSE IF pc[x] = "wfi" THEN Goto(x, "idle") /\ UNCHANGED ret
    ELSE UNCHANGED <<pc, ret>>

handle_reschedule_ipi(c) ==
    /\ ipi[c]
    /\ IrqsOn(c)
    /\ ipi' = [ipi EXCEPT ![c] = FALSE]
    /\ need' = [need EXCEPT ![curr[c]] = TRUE]
    /\ irq_exit(on[c], TRUE)
    /\ UNCHANGED <<queues, cpuvars, state, cpu, timer, nxt, src>>

(* The tasks tick_wake_sleepers looks at.                                  *)
Sleepers == {t \in Tasks : state[t] = "sleeping" /\ timer[t]}

(* Mutant: a tick that finds its CPU idle does not look at the sleepers.   *)
Expired_busy(c) == IF c = 0 /\ curr[c] # c THEN UNION {SetToSeqs(S) : S \in SUBSET Sleepers}
                   ELSE {<<>>}

(* The tasks whose wake_jiffies have come, in the order of all_tasks: none *)
(* on a CPU that does not keep the time.                                   *)
Expired(c) == IF c = 0 THEN UNION {SetToSeqs(S) : S \in SUBSET Sleepers} ELSE {<<>>}

(* The timer interrupt on CPU c, waking the tasks in q.  The slice of the  *)
(* running task is charged; any tick may be the one that ends it.          *)
handle_arch_tick(c, q, expires) ==
    /\ IrqsOn(c)
    /\ expires => curr[c] \in Tasks /\ state[curr[c]] = "running"
    /\ wake_up_processes(c, q, IF expires THEN {c} ELSE {})
    /\ irq_exit(on[c], need'[curr[c]])
    /\ UNCHANGED <<cpuvars, cpu, timer, nxt, src>>

Interrupt(c) ==
    \/ handle_reschedule_ipi(c)
    \/ \E q \in Expired(c), expires \in BOOLEAN : handle_arch_tick(c, q, expires)

=============================================================================
