------------------------------- MODULE Tasks -------------------------------
(***************************************************************************)
(* The life of tasks on the scheduler of module Sched: fork, nanosleep,    *)
(* sched_yield, kill, exit and wait4 (kernel/fork.c, kernel/exit.c,        *)
(* kernel/time/timer.c and the parts of kernel/signal.c they call).        *)
(*                                                                         *)
(* A user program is any sequence of the system calls in Calls.  A system  *)
(* call is split where another CPU can get between two of its accesses to  *)
(* task->state, task->pending and the run queues.  No signal is blocked    *)
(* and SIGCHLD has its default disposition.                                *)
(***************************************************************************)
EXTENDS Sched

CONSTANT Calls      \* the system calls user programs make

ASSUME TasksAssumption ==
    Calls \subseteq {"yield", "nanosleep", "fork", "kill", "exit", "wait4"}

VARIABLES
    parent,     \* parent[t]: task->parent; never cleared when the parent goes
    pending     \* pending[t]: task->pending

vars == <<schedVars, parent, pending>>

Signals == {"CHLD", "KILL"}

UserPcs == {"user", "forked", "preempted"}
WaitPcs == {"wait", "waitany", "waitsig"}
Pcs == UserPcs \cup WaitPcs \cup InSchedule \cup Returning
        \cup {"idle", "wfi", "switch_to", "sleep", "block", "exit", "notify",
              "notify2", "exited", "wake", "do_signal"}

(* PID 1 runs on the boot CPU, the idle tasks wait for interrupts.         *)
Init ==
    \E i \in Tasks :
        /\ rq = [c \in CPUs |-> IF c = 0 THEN <<i>> ELSE <<>>]
        /\ nr = [c \in CPUs |-> IF c = 0 THEN 1 ELSE 0]
        /\ curr = [c \in CPUs |-> IF c = 0 THEN i ELSE c]
        /\ on = curr
        /\ ipi = [c \in CPUs |-> FALSE]
        /\ state = [t \in Tasks |-> IF t = i THEN "running" ELSE "free"]
        /\ cpu = [t \in Tasks |-> 0]
        /\ need = [x \in Threads |-> FALSE]
        /\ timer = [t \in Tasks |-> FALSE]
        /\ pc = [x \in Threads |-> CASE x = i -> "user" [] x \in CPUs -> "wfi" [] OTHER -> "dead"]
        /\ ret = [x \in Threads |-> "none"]
        /\ nxt = [x \in Threads |-> NoTask]
        /\ src = [x \in Threads |-> 0]
        /\ parent = [t \in Tasks |-> NoTask]
        /\ pending = [t \in Tasks |-> {}]

-----------------------------------------------------------------------------
(* Simple calls.                                                           *)

ksys_sched_yield(c, x) ==
    /\ pc[x] = "user" /\ "yield" \in Calls
    /\ CallSchedule(x, "yielded")
    /\ UNCHANGED <<queues, cpuvars, ipi, state, cpu, need, timer, nxt, src, parent, pending>>

(* task->cpu of the child is whatever kmalloc returned: enqueue_task takes *)
(* it for a CPU if it is one, and uses the parent's CPU otherwise.         *)
ksys_fork(c, x) ==
    /\ pc[x] = "user" /\ "fork" \in Calls
    /\ \E t \in Tasks, d \in CPUs :
         /\ state[t] = "free"
         /\ rq' = [rq EXCEPT ![d] = Append(@, t)]
         /\ nr' = [nr EXCEPT ![d] = @ + 1]
         /\ state' = [state EXCEPT ![t] = "running"]
         /\ cpu' = [cpu EXCEPT ![t] = d]
         /\ need' = [need EXCEPT ![t] = FALSE]
         /\ timer' = [timer EXCEPT ![t] = FALSE]
         /\ pc' = [pc EXCEPT ![t] = "forked", ![x] = "do_signal"]
         /\ parent' = [parent EXCEPT ![t] = x]
         /\ pending' = [pending EXCEPT ![t] = {}]
    /\ UNCHANGED <<cpuvars, ipi, locals>>

(* nanosleep up to sched_block: the deadline is set first.                 *)
ksys_nanosleep(c, x) ==
    /\ pc[x] = "user" /\ "nanosleep" \in Calls
    /\ timer' = [timer EXCEPT ![x] = TRUE]
    /\ Goto(x, "sleep")
    /\ ret' = [ret EXCEPT ![x] = "slept"]
    /\ UNCHANGED <<queues, cpuvars, ipi, state, cpu, need, nxt, src, parent, pending>>

(* sched_block(TASK_SLEEPING): task->state first, the run queue after it.  *)
SetSleeping(c, x) ==
    /\ pc[x] = "sleep"
    /\ state' = [state EXCEPT ![x] = "sleeping"]
    /\ Goto(x, "block")
    /\ UNCHANGED <<queues, cpuvars, ipi, cpu, need, timer, locals, parent, pending>>

sched_block(c, x) ==
    /\ pc[x] = "block"
    /\ dequeue_task(x)
    /\ Goto(x, "sched")
    /\ UNCHANGED <<cpuvars, ipi, state, cpu, need, timer, locals, parent, pending>>

(* Awake again: back on a run queue, if nobody put the task there.         *)
Awake(c, x) ==
    /\ \/ pc[x] = "slept" /\ Goto(x, "do_signal") /\ timer' = [timer EXCEPT ![x] = FALSE]
       \/ pc[x] = "woken" /\ Goto(x, "wait") /\ UNCHANGED timer
       \/ pc[x] = "yielded" /\ Goto(x, "do_signal") /\ UNCHANGED timer
    /\ IF pc[x] = "yielded" THEN UNCHANGED <<queues, state>> ELSE enqueue_tasks(<<x>>)
    /\ UNCHANGED <<cpuvars, ipi, cpu, need, locals, parent, pending>>

-----------------------------------------------------------------------------
(* Signals.                                                                *)

(* Next, x wakes t and goes on at l.                                       *)
WakeThen(x, t, l) ==
    /\ Goto(x, "wake")
    /\ nxt' = [nxt EXCEPT ![x] = t]
    /\ ret' = [ret EXCEPT ![x] = l]

(* signal_queue up to the test of the target's state.  A sleeper is woken  *)
(* in a step of its own; either way x goes on at l.                        *)
signal_queue(x, t, sig, l) ==
    /\ pending' = [pending EXCEPT ![t] = @ \cup {sig}]
    /\ IF state[t] = "sleeping" THEN WakeThen(x, t, l)
                                ELSE Goto(x, l) /\ UNCHANGED <<ret, nxt>>

WakeTarget(c, x) ==
    /\ pc[x] = "wake"
    /\ wake_up_processes(c, <<nxt[x]>>, {})
    /\ Return(x)
    /\ UNCHANGED <<cpuvars, cpu, timer, parent, pending>>

ksys_kill(c, x) ==
    /\ pc[x] = "user" /\ "kill" \in Calls
    /\ \E t \in Tasks : state[t] # "free" /\ signal_queue(x, t, "KILL", "do_signal")
    /\ UNCHANGED <<queues, cpuvars, ipi, state, cpu, need, timer, src, parent>>

(* do_signal on the way to user mode: SIGKILL first, SIGCHLD is ignored.   *)
do_signal(c, x) ==
    /\ pc[x] = "do_signal"
    /\ IF "KILL" \in pending[x]
       THEN /\ pending' = [pending EXCEPT ![x] = @ \ {"KILL"}]
            /\ state' = [state EXCEPT ![x] = "zombie"]
            /\ Goto(x, "exit")
       ELSE /\ pending' = [pending EXCEPT ![x] = @ \ {"CHLD"}]
            /\ Goto(x, "user")
            /\ UNCHANGED state
    /\ UNCHANGED <<queues, cpuvars, ipi, cpu, need, timer, locals, parent>>

-----------------------------------------------------------------------------
(* exit.                                                                   *)

ksys_exit(c, x) ==
    /\ pc[x] = "user" /\ "exit" \in Calls
    /\ state' = [state EXCEPT ![x] = "zombie"]
    /\ Goto(x, "exit")
    /\ UNCHANGED <<queues, cpuvars, ipi, cpu, need, timer, locals, parent, pending>>

(* do_exit: off the run queue ...                                          *)
ExitDequeue(c, x) ==
    /\ pc[x] = "exit"
    /\ dequeue_task(x)
    /\ Goto(x, "notify")
    /\ UNCHANGED <<cpuvars, ipi, state, cpu, need, timer, locals, parent, pending>>

(* Mutant: SIGCHLD is made pending and the parent left asleep.             *)
notify_parent_quiet(c, x) ==
    /\ pc[x] = "notify" /\ parent[x] # NoTask
    /\ pending' = [pending EXCEPT ![parent[x]] = @ \cup {"CHLD"}]
    /\ Goto(x, "exited")
    /\ UNCHANGED <<queues, cpuvars, ipi, state, cpu, need, timer, locals, parent>>

(* ... then SIGCHLD to the parent, who is woken even if it blocks it ...   *)
notify_parent(c, x) ==
    /\ \/ /\ pc[x] = "notify"
          /\ parent[x] # NoTask
          /\ signal_queue(x, parent[x], "CHLD", "notify2")
       \/ /\ pc[x] = "notify2"
          /\ state[parent[x]] = "sleeping"
          /\ WakeThen(x, parent[x], "exited")
          /\ UNCHANGED pending
    /\ UNCHANGED <<queues, cpuvars, ipi, state, cpu, need, timer, src, parent>>

(* ... and the schedule() that never returns.                              *)
ExitSchedule(c, x) ==
    /\ \/ pc[x] = "notify" /\ parent[x] = NoTask
       \/ pc[x] = "notify2" /\ state[parent[x]] # "sleeping"
       \/ pc[x] = "exited"
    /\ CallSchedule(x, "dead")
    /\ UNCHANGED <<queues, cpuvars, ipi, state, cpu, need, timer, nxt, src, parent, pending>>

-----------------------------------------------------------------------------
(* wait4(-1, status, 0 or WNOHANG).                                        *)

Children(x) == {t \in Tasks : parent[t] = x /\ state[t] # "free"}

ksys_wait4(c, x) ==
    /\ pc[x] = "user" /\ "wait4" \in Calls
    /\ Goto(x, "wait")
    /\ UNCHANGED <<queues, cpuvars, ipi, state, cpu, need, timer, locals, parent, pending>>

(* A zombie is reaped: free_task releases its mm, stack and task_struct;   *)
(* what is left in the slot means nothing.                                 *)
wait_reap_zombie(c, x) ==
    /\ pc[x] = "wait"
    /\ \/ \E z \in Children(x) :
            /\ state[z] = "zombie"
            /\ dequeue_task(z)
            /\ state' = [state EXCEPT ![z] = "free"]
            /\ timer' = [timer EXCEPT ![z] = FALSE]
            /\ need' = [need EXCEPT ![z] = FALSE]
            /\ pending' = [pending EXCEPT ![x] = @ \ {"CHLD"}, ![z] = {}]
            /\ Goto(x, "do_signal")
       \/ /\ \A z \in Children(x) : state[z] # "zombie"
          /\ Goto(x, "waitany")
          /\ UNCHANGED <<queues, state, need, timer, pending>>
    /\ UNCHANGED <<cpuvars, ipi, cpu, locals, parent>>

(* No child at all, or WNOHANG: return.                                    *)
WaitAny(c, x) ==
    /\ pc[x] = "waitany"
    /\ \/ Goto(x, "do_signal")
       \/ Children(x) # {} /\ Goto(x, "waitsig")
    /\ UNCHANGED <<queues, cpuvars, ipi, state, cpu, need, timer, locals, parent, pending>>

(* A pending SIGCHLD is consumed and the search repeated; another signal   *)
(* interrupts the call.                                                    *)
WaitSig(c, x) ==
    /\ pc[x] = "waitsig"
    /\ IF pending[x] = {} THEN Goto(x, "sleep") /\ ret' = [ret EXCEPT ![x] = "woken"]
       ELSE /\ Goto(x, IF "CHLD" \in pending[x] THEN "wait" ELSE "do_signal")
            /\ UNCHANGED ret
    /\ pending' = [pending EXCEPT ![x] = @ \ {"CHLD"}]
    /\ UNCHANGED <<queues, cpuvars, ipi, state, cpu, need, timer, nxt, src, parent>>

-----------------------------------------------------------------------------
TaskStep(c, x) ==
    \/ ksys_sched_yield(c, x) \/ ksys_fork(c, x) \/ ksys_nanosleep(c, x)
    \/ ksys_kill(c, x) \/ ksys_exit(c, x) \/ ksys_wait4(c, x)

KernelStep(c, x) ==
    \/ ScheduleStep(c, x) /\ UNCHANGED <<parent, pending>>
    \/ SetSleeping(c, x) \/ sched_block(c, x) \/ Awake(c, x)
    \/ WakeTarget(c, x) \/ do_signal(c, x)
    \/ ExitDequeue(c, x) \/ notify_parent(c, x) \/ ExitSchedule(c, x)
    \/ wait_reap_zombie(c, x) \/ WaitAny(c, x) \/ WaitSig(c, x)

Next ==
    \E c \in CPUs : \/ TaskStep(c, on[c])
                    \/ KernelStep(c, on[c])
                    \/ Interrupt(c) /\ UNCHANGED <<parent, pending>>

Spec == Init /\ [][Next]_vars

-----------------------------------------------------------------------------
(* Fairness: kernel code runs to completion, an interrupt that stays       *)
(* pending is taken as soon as interrupts are enabled, a task that keeps   *)
(* running uses up its slice, and every deadline comes.                    *)
SliceEnds(c) == \E q \in Expired(c) : handle_arch_tick(c, q, TRUE)
DeadlineComes(t) == \E q \in Expired(0), e \in BOOLEAN :
                        t \in ToSet(q) /\ handle_arch_tick(0, q, e)

Fairness ==
    /\ \A c \in CPUs :
         /\ WF_vars(KernelStep(c, on[c]))
         /\ WF_vars(Interrupt(c) /\ UNCHANGED <<parent, pending>>)
         /\ SF_vars(SliceEnds(c) /\ UNCHANGED <<parent, pending>>)
    /\ \A t \in Tasks : SF_vars(DeadlineComes(t) /\ UNCHANGED <<parent, pending>>)

FairSpec == Spec /\ Fairness

-----------------------------------------------------------------------------
(* Properties.                                                             *)

(* Every variable stays in its domain.                                     *)
TypeOK ==
    /\ \A c \in CPUs : ToSet(rq[c]) \subseteq Tasks
    /\ nr \in [CPUs -> Nat]
    /\ curr \in [CPUs -> Threads] /\ on \in [CPUs -> Threads]
    /\ ipi \in [CPUs -> BOOLEAN]
    /\ state \in [Tasks -> {"free", "running", "sleeping", "zombie"}]
    /\ cpu \in [Tasks -> CPUs]
    /\ need \in [Threads -> BOOLEAN] /\ timer \in [Tasks -> BOOLEAN]
    /\ pc \in [Threads -> Pcs] /\ ret \in [Threads -> Pcs \cup {"none"}]
    /\ nxt \in [Threads -> Threads \cup {NoTask}] /\ src \in [Threads -> CPUs]
    /\ parent \in [Tasks -> Tasks \cup {NoTask}]
    /\ pending \in [Tasks -> SUBSET Signals]

(* rq->nr_running counts the list, a task is on one list at most and       *)
(* task->cpu names it, and no runnable task is forgotten: whatever forks,  *)
(* wake-ups, blocks, exits and pulls cross each other, a TASK_RUNNING task *)
(* is on a run queue.                                                      *)
RunQueues ==
    /\ TypeOK
    /\ \A c \in CPUs :
         /\ nr[c] = Len(rq[c])
         /\ Cardinality(ToSet(rq[c])) = Len(rq[c])
         /\ \A t \in ToSet(rq[c]) : cpu[t] = c
    /\ \A t \in Tasks : state[t] = "running" => Linked(t)

(* A task never executes on two CPUs at once: schedule() and migrate_task  *)
(* see to it that the task a CPU runs, or is about to run, is not taken.   *)
OneCpuPerTask == \A c, d \in CPUs : on[c] = on[d] => c = d

(* No CPU still uses the stack and the page tables of a task that wait4    *)
(* has freed, and the schedule() at the end of do_exit does not return.    *)
EndedIsOffCpu ==
    \A c \in CPUs : (on[c] \in Tasks => state[on[c]] # "free") /\ pc[on[c]] # "dead"

(* A task asleep in wait4 with a zombie child will be woken: the child is  *)
(* still on its way to notify_parent.                                      *)
Waiting(x) == state[x] = "sleeping" /\ ~Linked(x) /\ "woken" \in {pc[x], ret[x]}
NoLostChild ==
    \A x \in Tasks, z \in Tasks :
        /\ Waiting(x)
        /\ z \in Children(x) /\ state[z] = "zombie"
        => pc[z] \in {"exit", "notify", "notify2", "wake"}

(* A queued task is run before long, however the others behave.            *)
QueuedRuns ==
    \A t \in Tasks : Linked(t) ~> (~Linked(t) \/ \E c \in CPUs : on[c] = t)

(* nanosleep returns.                                                      *)
SleepEnds == \A t \in Tasks : (state[t] = "sleeping" /\ timer[t]) ~> ~timer[t]

=============================================================================
