------------------------------ MODULE Signals ------------------------------
(***************************************************************************)
(* kernel/signal.c with the parts of kernel/exit.c and kernel/sys.c that   *)
(* it works with: the pending and blocked masks, the wake-up of sleepers,  *)
(* stop and continue, handler frames on the user stack, rt_sigsuspend, and *)
(* the restart of interrupted system calls.                                *)
(*                                                                         *)
(* Signals are their numbers, so that next_pending_signal's order is the   *)
(* code's.  A step is what a CPU does between two reads of state that      *)
(* another CPU or an interrupt can change.  With NCpus = 1 a task in the   *)
(* kernel is disturbed by interrupts only, where they are unmasked; with   *)
(* more CPUs the steps of two tasks interleave.                            *)
(***************************************************************************)
EXTENDS Integers, Sequences, FiniteSets

CONSTANTS
  Tasks,          \* user tasks, none of them pid 1
  Parent,         \* task->parent, which may be outside Tasks
  NCpus,          \* CPUs
  Sigs,           \* the signal numbers in use
  IrqSigs,        \* the ones tty_receive_char sends from the UART interrupt
  NewActions,     \* <<sig, sigaction>> pairs the programs install
  Masks,          \* the masks the programs pass to the kernel
  Calls,          \* the blocking calls they make
  MaxFrames       \* how many signal frames fit on the user stack

SIGKILL == 9
SIGCHLD == 17
SIGCONT == 18
SIGSTOP == 19
StopSigs == {19, 20, 21, 22} \cap Sigs
Ignored == {17, 18, 23, 28}
Unblockable == {SIGKILL, SIGSTOP}

\* struct sigaction: "dfl", "ign" or a handler, with sa_mask and sa_flags.
SigAction == [h : {"dfl", "ign", "fn"}, mask : SUBSET Sigs,
              restart : BOOLEAN, nodefer : BOOLEAN, reset : BOOLEAN]
Default == [h |-> "dfl", mask |-> {}, restart |-> FALSE, nodefer |-> FALSE, reset |-> FALSE]

ASSUME SignalsAssumption ==
  /\ NCpus \in Nat \ {0} /\ MaxFrames \in Nat
  /\ Sigs \subseteq 1..63 /\ SIGCHLD \in Sigs
  /\ IrqSigs \subseteq Sigs \cap {2, 20}     \* SIGINT, SIGTSTP
  /\ NewActions \subseteq (Sigs \ Unblockable) \X SigAction
  /\ Masks \subseteq SUBSET Sigs
  /\ Calls \subseteq {"suspend", "read", "wait"}
  /\ IsFiniteSet(Tasks) /\ Tasks \subseteq DOMAIN Parent /\ \A t \in Tasks : Parent[t] # t

\* The syscall whose result is in regs->x0, and that result: a value, -EINTR, the internal
\* -ERESTARTSYS, or "again": x0 restored and ELR moved back to the svc.
Result == [call : {"suspend", "read", "wait", "other"}, ret : {"ok", "eintr", "restart", "again"}]
Frame == [blocked : SUBSET Sigs, res : Result, want : SUBSET Sigs]

VARIABLE
  task            \* [Tasks -> the fields of task_struct below, and where the task is]

(***************************************************************************)
(* pc: "user"; "test", in the loop of a blocking call; "block", the call   *)
(* decided to sleep; "asleep"; "ret", the head of do_signal's loop;        *)
(* "take", a signal chosen; "stop" and "park", in do_signal_stop;          *)
(* "parked"; "dead".  irqs: interrupts are unmasked although the task is   *)
(* in the kernel, as wait_event_interruptible leaves them.  seen and sig   *)
(* are do_signal's locals.  want and owed are specification variables: the *)
(* mask the program is entitled to in user mode, and the signals sent to   *)
(* it that nothing has consumed yet.                                       *)
(***************************************************************************)
TaskStruct ==
  [st : {"running", "sleeping", "stopped", "zombie", "reaped"}, queued : BOOLEAN,
   pending : SUBSET Sigs, blocked : SUBSET Sigs,
   saved_blocked : SUBSET Sigs, restore_sigmask : BOOLEAN,
   actions : [Sigs -> SigAction], wait_event : {"none", "stopped", "continued"},
   frames : Seq(Frame), res : Result,
   pc : {"user", "test", "block", "asleep", "ret", "take", "stop", "park", "parked", "dead"},
   irqs : BOOLEAN, sig : {0} \cup Sigs, seen : SUBSET Sigs,
   want : SUBSET Sigs, owed : SUBSET Sigs]

Init ==
  task = [t \in Tasks |->
    [st |-> "running", queued |-> TRUE, pending |-> {}, blocked |-> {},
     saved_blocked |-> {}, restore_sigmask |-> FALSE,
     actions |-> [s \in Sigs |-> Default], wait_event |-> "none",
     frames |-> <<>>, res |-> [call |-> "other", ret |-> "ok"], pc |-> "user",
     irqs |-> FALSE, sig |-> 0, seen |-> {}, want |-> {}, owed |-> {}]]

----------------------------------------------------------------------------
(* Sending: what it does to the record of the task that is sent a signal,  *)
(* and to the function T of all tasks.                                     *)

Ready(r) == r.pending \ (r.blocked \ Unblockable)
signal_pending(r) == Ready(r) # {}

\* wake_up_process and enqueue_task: no effect on a task that is on a run queue.
Woken(r) == IF r.queued THEN r ELSE [r EXCEPT !.queued = TRUE, !.st = "running"]
wake_up_process(T, u) == [T EXCEPT ![u] = Woken(@)]

\* What adding s does to a set of pending signals: stop and continue cancel each other.
Queue(set, s) ==
  IF s = SIGCONT THEN (set \cup {s}) \ StopSigs
  ELSE IF s \in StopSigs THEN (set \cup {s}) \ {SIGCONT}
  ELSE set \cup {s}

Pended(r, s) == [r EXCEPT !.pending = Queue(@, s), !.owed = Queue(@, s)]

\* signal_queue for a signal that continues nobody, and the wake-up of a sleeper.
Wakes(r, s) == (r.st = "sleeping" /\ signal_pending(r)) \/ (r.st = "stopped" /\ s = SIGKILL)
Marked(r, s) == IF Wakes(Pended(r, s), s) THEN Woken(Pended(r, s)) ELSE Pended(r, s)
signal_mark(T, u, s) == [T EXCEPT ![u] = Marked(@, s)]

notify_parent_masked(T, u) ==
  IF Parent[u] \notin Tasks THEN T ELSE signal_mark(T, Parent[u], SIGCHLD)

\* notify_parent (exit.c): SIGCHLD, and a wake-up even when SIGCHLD is blocked.
Notified(r) ==
  IF Marked(r, SIGCHLD).st = "sleeping" THEN Woken(Marked(r, SIGCHLD)) ELSE Marked(r, SIGCHLD)
notify_parent(T, u) ==
  IF Parent[u] \notin Tasks THEN T ELSE [T EXCEPT ![Parent[u]] = Notified(@)]

\* signal_queue: SIGCONT to a stopped task tells the parent and wakes the task.
Continued(r) == [Pended(r, SIGCONT) EXCEPT !.st = "running", !.wait_event = "continued"]
signal_queue(T, u, s) ==
  IF s = SIGCONT /\ T[u].st = "stopped"
  THEN wake_up_process(notify_parent([T EXCEPT ![u] = Continued(@)], u), u)
  ELSE signal_mark(T, u, s)

\* do_exit; the task stays a zombie until its parent waits for it.
Exited(r) == [r EXCEPT !.st = "zombie", !.queued = FALSE, !.wait_event = "none",
                       !.pc = "dead", !.irqs = FALSE, !.sig = 0, !.seen = {}]
do_exit(T, u) == notify_parent([T EXCEPT ![u] = Exited(@)], u)

----------------------------------------------------------------------------
(* Who can run.                                                            *)

InKernel(t) == task[t].pc \in {"test", "block", "ret", "take", "stop", "park"}
Busy == {t \in Tasks : InKernel(t)}
HasCpu(t) == Cardinality(Busy \ {t}) < NCpus
At(t, pc) == task[t].pc = pc /\ HasCpu(t)

\* A task in user mode that may make any call: it is not about to re-execute an svc.
Free(t) == At(t, "user") /\ task[t].queued /\ task[t].res.ret # "again"

\* A step that changes the record of t only.
Do(t, r) == task' = [task EXCEPT ![t] = r]

\* A call that returns at once: its result goes to x0 and do_signal follows.
Returns(r) == [r EXCEPT !.pc = "ret", !.res = [call |-> "other", ret |-> "ok"]]

----------------------------------------------------------------------------
(* System calls.                                                           *)

\* kill(pid > 0): the groups are in Jobs.
ksys_kill(t, u, s) ==
  /\ Free(t)
  /\ task[u].st # "reaped"
  /\ task' = [signal_queue(task, u, s) EXCEPT ![t] = Returns(@)]

\* The UART interrupt sends a signal: some CPU has interrupts unmasked.
IrqSignal(u, s) ==
  /\ Cardinality({t \in Busy : ~task[t].irqs}) < NCpus
  /\ task[u].st \notin {"zombie", "reaped"}
  /\ task' = signal_queue(task, u, s)

ksys_rt_sigaction(t, s, a) ==
  /\ Free(t)
  /\ s \notin Unblockable
  /\ Do(t, Returns([task[t] EXCEPT !.actions[s] = [a EXCEPT !.mask = @ \ Unblockable]]))

ksys_rt_sigprocmask(t, how, set) ==
  /\ Free(t)
  /\ LET new == set \ Unblockable
         mask == CASE how = "block" -> task[t].blocked \cup new
                   [] how = "unblock" -> task[t].blocked \ new
                   [] how = "setmask" -> new
     IN Do(t, Returns([task[t] EXCEPT !.blocked = mask, !.want = mask]))

\* The head of rt_sigsuspend: the caller's mask is put aside until the return to user mode.
ksys_rt_sigsuspend(t, set) ==
  /\ "suspend" \in Calls /\ Free(t)
  /\ Do(t, [task[t] EXCEPT !.saved_blocked = task[t].blocked, !.restore_sigmask = TRUE,
                           !.blocked = set \ Unblockable,
                           !.res = [call |-> "suspend", ret |-> "ok"], !.pc = "test"])

\* tty_read's wait_event_interruptible, or wait4(-1, WUNTRACED | WCONTINUED).
Blocking(t, c) ==
  /\ c \in Calls \ {"suspend"} /\ Free(t)
  /\ Do(t, [task[t] EXCEPT !.res = [call |-> c, ret |-> "ok"], !.pc = "test"])

\* The svc is executed again.
Again(t) ==
  /\ At(t, "user") /\ task[t].queued /\ task[t].res.ret = "again"
  /\ Do(t, [task[t] EXCEPT !.res.ret = "ok", !.pc = "test"])

\* rt_sigreturn: registers and mask come from the frame; the result is not written to x0.
ksys_rt_sigreturn(t) ==
  /\ Free(t) /\ task[t].frames # <<>>
  /\ LET f == Head(task[t].frames)
     IN Do(t, [task[t] EXCEPT !.frames = Tail(@), !.res = f.res,
                              !.blocked = f.blocked \ Unblockable, !.want = f.want,
                              !.pc = "ret"])

\* load_elf_binary: handlers revert to the default, SIG_IGN stays, the old stack is gone.
exec_signals(t) ==
  /\ Free(t)
  /\ Do(t, Returns([task[t] EXCEPT !.frames = <<>>,
       !.actions = [s \in Sigs |->
          [Default EXCEPT !.h = IF task[t].actions[s].h = "ign" THEN "ign" ELSE "dfl"]]]))

----------------------------------------------------------------------------
(* The loops of the blocking calls.                                        *)

Children(t) == {u \in Tasks : Parent[u] = t /\ task[u].st # "reaped"}
Reported(t, event) == {u \in Children(t) : task[u].wait_event = event}
Zombies(t) == {u \in Children(t) : task[u].st = "zombie"}

Sleep(t) == Do(t, [task[t] EXCEPT !.pc = "block"])
Leave(t, ret) == Do(t, [task[t] EXCEPT !.pc = "ret", !.res.ret = ret])

SuspendTest(t) ==
  /\ At(t, "test") /\ task[t].res.call = "suspend"
  /\ IF signal_pending(task[t]) THEN Leave(t, "eintr") ELSE Sleep(t)

\* wait_event_interruptible; the condition may have become true.  It returns with interrupts
\* unmasked, and they stay so until the return to user mode.
ReadTest(t) ==
  /\ At(t, "test") /\ task[t].res.call = "read"
  /\ \E ret \in {"ok", "restart", "sleep"} :
       /\ ret = "restart" => signal_pending(task[t])
       /\ ret = "sleep" => ~signal_pending(task[t])
       /\ IF ret = "sleep" THEN Sleep(t)
          ELSE Do(t, [task[t] EXCEPT !.pc = "ret", !.res.ret = ret, !.irqs = TRUE])

Dropped(r) == [r EXCEPT !.pending = @ \ {SIGCHLD}, !.owed = @ \ {SIGCHLD}]

\* wait_reap_zombie: the SIGCHLD of a reaped child is dropped.
Reap(t, u) ==
  task' = [task EXCEPT ![u].st = "reaped", ![t] = [Dropped(@) EXCEPT !.pc = "ret"]]

\* wait_event_child.
Report(t, u) == task' = [task EXCEPT ![u].wait_event = "none", ![t].pc = "ret"]

\* One round of ksys_wait4.
WaitRound(t) ==
  CASE Zombies(t) # {} -> \E u \in Zombies(t) : Reap(t, u)
    [] Zombies(t) = {} /\ Reported(t, "stopped") # {} -> \E u \in Reported(t, "stopped") : Report(t, u)
    [] Zombies(t) = {} /\ Reported(t, "stopped") = {} /\ Reported(t, "continued") # {}
         -> \E u \in Reported(t, "continued") : Report(t, u)
    [] OTHER ->
         IF Children(t) = {} THEN Leave(t, "ok")
         ELSE IF ~signal_pending(task[t]) THEN Sleep(t)
         ELSE IF SIGCHLD \in task[t].pending /\ task[t].actions[SIGCHLD].h # "fn"
         THEN Do(t, Dropped(task[t]))
         ELSE Leave(t, "restart")

WaitTest(t) ==
  /\ At(t, "test") /\ task[t].res.call = "wait"
  /\ WaitRound(t)

\* sched_block(TASK_SLEEPING) and schedule().
Block(t) ==
  /\ At(t, "block")
  /\ Do(t, [task[t] EXCEPT !.st = "sleeping", !.queued = FALSE, !.pc = "asleep"])

\* The data or the hang-up a read waits for arrives: wake_up on its queue.
WakeReader(t) ==
  /\ task[t].pc = "asleep" /\ task[t].res.call = "read" /\ ~task[t].queued
  /\ task' = wake_up_process(task, t)

Resume_clear(t) ==
  /\ task[t].queued
  /\ \/ At(t, "asleep") /\ Do(t, [task[t] EXCEPT !.pc = "test"])
     \/ At(t, "parked") /\ Do(t, [task[t] EXCEPT !.pc = "ret", !.st = "running", !.irqs = FALSE,
                                                !.wait_event = "none"])

\* schedule() returns in a task that was put back on a run queue.
Resume(t) ==
  /\ task[t].queued
  /\ \/ At(t, "asleep") /\ Do(t, [task[t] EXCEPT !.pc = "test"])
     \/ At(t, "parked") /\ Do(t, [task[t] EXCEPT !.pc = "ret", !.st = "running", !.irqs = FALSE])

----------------------------------------------------------------------------
(* The return to user mode: do_signal, then syscall_handler's tail.        *)

next_pending_signal(r) ==
  IF SIGKILL \in Ready(r) THEN SIGKILL
  ELSE IF SIGSTOP \in Ready(r) THEN SIGSTOP
  ELSE CHOOSE s \in Ready(r) : \A u \in Ready(r) : s <= u

syscall_exit_restart_leak(res) == res

\* syscall_exit_restart: with no handler, an interrupted call is made again.
syscall_exit_restart(res) == IF res.ret = "restart" THEN [res EXCEPT !.ret = "again"] ELSE res

\* The tail of syscall_handler.
RestoreMask(r) ==
  IF r.restore_sigmask
  THEN [r EXCEPT !.blocked = r.saved_blocked \ Unblockable, !.restore_sigmask = FALSE]
  ELSE r

Chosen(r) == [r EXCEPT !.pc = "take", !.sig = next_pending_signal(r), !.seen = r.pending]
ToUser(r) ==
  [RestoreMask(r) EXCEPT !.pc = "user", !.irqs = FALSE, !.res = syscall_exit_restart(r.res)]

do_signal_restart(t) ==
  /\ At(t, "ret")
  /\ IF signal_pending(task[t]) /\ task[t].res.ret # "restart"
     THEN Do(t, Chosen(task[t]))
     ELSE Do(t, ToUser(task[t]))

\* pending is read and the bit to clear chosen, or there is nothing to deliver.
do_signal(t) ==
  /\ At(t, "ret")
  /\ IF signal_pending(task[t])
     THEN Do(t, Chosen(task[t]))
     ELSE Do(t, ToUser(task[t]))

\* apply_syscall_restart for a handler.
apply_syscall_restart(res, a) ==
  IF res.ret # "restart" THEN res
  ELSE [res EXCEPT !.ret = IF a.restart THEN "again" ELSE "eintr"]

OldBlocked_current(r) == r.blocked

\* The mask of the interrupted context, which the frame keeps.
OldBlocked(r) == IF r.restore_sigmask THEN r.saved_blocked ELSE r.blocked

\* There is room for another frame below the stack pointer.
signal_frame_ok(r) == Len(r.frames) < MaxFrames

\* handle_signal and setup_signal_frame.
handle_signal(r, s, a) ==
  LET new == (r.blocked \cup a.mask \cup (IF a.nodefer THEN {} ELSE {s})) \ Unblockable
      frame == [blocked |-> OldBlocked(r), res |-> apply_syscall_restart(r.res, a), want |-> r.want]
  IN [r EXCEPT !.frames = <<frame>> \o @, !.restore_sigmask = FALSE,
               !.blocked = new, !.want = new,
               !.actions[s] = IF a.reset THEN [a EXCEPT !.h = "dfl"] ELSE @,
               !.res = [call |-> "other", ret |-> "ok"],
               !.pc = "user", !.irqs = FALSE, !.sig = 0, !.seen = {}]

Cleared_all(r) == {}

\* What do_signal writes back to pending.
Cleared(r) == r.seen \ {r.sig}

\* What becomes of a task with signal s, whose disposition is a; a stack without room for the
\* handler's frame ends the task.
Fate(r, s, a) ==
  CASE s = SIGKILL -> "exit"
    [] s = SIGSTOP -> "stop"
    [] s \notin Unblockable /\ a.h = "ign" -> "ret"
    [] s \notin Unblockable /\ a.h = "dfl" ->
         IF s \in StopSigs THEN "stop" ELSE IF s \in Ignored THEN "ret" ELSE "exit"
    [] s \notin Unblockable /\ a.h = "fn" -> IF signal_frame_ok(r) THEN "handler" ELSE "exit"

\* pending &= ~SIG_BIT(sig), written from the value read, and the disposition of the signal.
Consumed(r) == [r EXCEPT !.pending = Cleared(r), !.owed = @ \ {r.sig}]
Take(t) ==
  /\ At(t, "take")
  /\ LET s == task[t].sig
         a == task[t].actions[s]
         r == Consumed(task[t])
         fate == Fate(r, s, a)
     IN \/ fate = "exit" /\ task' = do_exit([task EXCEPT ![t] = r], t)
        \/ fate \in {"stop", "ret"} /\ Do(t, [r EXCEPT !.pc = fate, !.sig = 0, !.seen = {}])
        \/ fate = "handler" /\ Do(t, handle_signal(r, s, a))

\* do_signal_stop: the parent is told first ...
Stop(t) ==
  /\ At(t, "stop")
  /\ task' = notify_parent(
       [task EXCEPT ![t] = [@ EXCEPT !.wait_event = "stopped", !.pc = "park"]], t)

\* ... and the task leaves its run queue after that.
Park(t) ==
  /\ At(t, "park")
  /\ Do(t, [task[t] EXCEPT !.st = "stopped", !.queued = FALSE, !.pc = "parked"])

----------------------------------------------------------------------------
UserCall(t) ==
  \/ \E u \in Tasks, s \in Sigs : ksys_kill(t, u, s)
  \/ \E n \in NewActions : ksys_rt_sigaction(t, n[1], n[2])
  \/ \E how \in {"block", "unblock", "setmask"}, set \in Masks : ksys_rt_sigprocmask(t, how, set)
  \/ \E set \in Masks : ksys_rt_sigsuspend(t, set)
  \/ \E c \in Calls : Blocking(t, c)
  \/ Again(t)
  \/ ksys_rt_sigreturn(t)
  \/ exec_signals(t)

Kernel(t) ==
  \/ SuspendTest(t) \/ ReadTest(t) \/ WaitTest(t) \/ Block(t)
  \/ do_signal(t) \/ Take(t) \/ Stop(t) \/ Park(t)

Next ==
  \/ \E t \in Tasks : UserCall(t) \/ Kernel(t) \/ Resume(t) \/ WakeReader(t)
  \/ \E u \in Tasks, s \in IrqSigs : IrqSignal(u, s)

Spec == Init /\ [][Next]_task

(***************************************************************************)
(* Fairness: a CPU in the kernel goes on, and the round-robin queue gives  *)
(* a runnable task its turn over and over (Tasks, QueuedRuns), hence the   *)
(* strong fairness of Resume.  Nothing is assumed of programs: one in user *)
(* mode may never make a call again.                                       *)
(***************************************************************************)
Fairness == \A t \in Tasks : WF_task(Kernel(t)) /\ SF_task(Resume(t))
FairSpec == Spec /\ Fairness

----------------------------------------------------------------------------
(* Properties.                                                             *)

\* The type of task_struct; SIGKILL and SIGSTOP are in no mask the kernel uses.
TypeOK ==
  \A t \in Tasks :
    /\ task[t] \in TaskStruct
    /\ task[t].blocked \cap Unblockable = {}
    /\ Len(task[t].frames) <= MaxFrames

\* A program in user mode has the mask it is entitled to: the one it set, widened in a handler by
\* sa_mask and the signal, and after rt_sigreturn the interrupted one, also when the handler
\* interrupted rt_sigsuspend and the mask in force was the temporary one.
\* The frames hold the masks of the contexts they return to.
MaskRestored ==
  /\ TypeOK
  /\ \A t \in Tasks : task[t].pc = "user" =>
       task[t].blocked = task[t].want /\ ~task[t].restore_sigmask
  /\ \A t \in Tasks : \A i \in 1..Len(task[t].frames) :
       task[t].frames[i].blocked = task[t].frames[i].want

\* -ERESTARTSYS never reaches a program, not in a context rt_sigreturn restores either, and
\* rt_sigsuspend always returns -EINTR.
Results ==
  \A t \in Tasks : task[t].pc = "user" =>
    \A res \in {task[t].res} \cup {task[t].frames[i].res : i \in 1..Len(task[t].frames)} :
      /\ res.ret # "restart"
      /\ res.call = "suspend" => res.ret = "eintr"

\* pending is what was sent, less what was delivered, dropped by wait4 or cancelled by its
\* opposite: no update of the mask undoes another.
PendingExact == \A t \in Tasks : task[t].pending = task[t].owed

\* The signals interrupts send, and the one that SIGTSTP cancels.
Keyboard == IrqSigs \cup {SIGCONT}

Same(A, B) == A \ Keyboard = B \ Keyboard

\* When an interrupt comes between do_signal's read of pending and its write, only the keyboard's
\* signals and SIGCONT can be lost or come back: every other signal is pending exactly while it was
\* sent and not yet delivered or dropped by wait4, so that no SIGKILL and no SIGCHLD is lost.
SentKept == \A t \in Tasks : Same(task[t].pending, task[t].owed)

\* A task that sleeps off its run queue has no signal it could take, and one that sleeps in
\* wait4 has no child with something to report.  A stopped task has neither SIGCONT nor SIGKILL
\* outstanding: either would have resumed it.
NoMissedWake ==
  \A t \in Tasks : ~task[t].queued =>
    /\ task[t].pc = "asleep" =>
         /\ ~signal_pending(task[t])
         /\ task[t].res.call = "wait" =>
              Zombies(t) \cup Reported(t, "stopped") \cup Reported(t, "continued") = {}
    /\ task[t].pc = "parked" => {SIGCONT, SIGKILL} \cap task[t].pending = {}

\* A context that rt_sigreturn may restore.
SafeFrame(f) ==
  /\ f.blocked = f.want /\ f.want \cap Unblockable = {}
  /\ f.res.call \in Calls \cup {"other"}
  /\ f.res.ret # "restart" /\ (f.res.call = "suspend" => f.res.ret = "eintr")

\* The mask a task is entitled to is in force, or put aside until its return to user mode; a call
\* is interrupted by what do_signal is about to deliver.
Entitled(r) ==
  /\ r.blocked \cap Unblockable = {} /\ r.want \cap Unblockable = {}
  /\ r.pc # "dead" => OldBlocked(r) = r.want
  /\ r.pc = "user" => ~r.restore_sigmask /\ r.res.ret # "restart"
  /\ r.pc \in {"user", "ret", "take", "stop", "park", "parked"} /\ r.res.call = "suspend"
       => r.res.ret = "eintr"
  /\ r.pc = "take" => r.sig \in Sigs
  /\ r.res.call \in Calls \cup {"other"} /\ (r.irqs => "read" \in Calls)
  /\ Len(r.frames) <= MaxFrames /\ \A i \in 1..Len(r.frames) : SafeFrame(r.frames[i])

IInv == task \in [Tasks -> TaskStruct] /\ \A t \in Tasks : Entitled(task[t])

\* On one CPU: a task is about to sleep or asleep, about to stop or stopped.
Sleeps(r) == r.pc = "block" \/ (r.pc = "asleep" /\ ~r.queued)
Halts(r) == r.pc \in {"stop", "park"} \/ (r.pc = "parked" /\ ~r.queued)

\* SIGCONT is never pending together with a stop signal.
Compatible(set) == SIGCONT \in set => set \cap StopSigs = {}

\* wait4 has something to say about the task.
Unreported(r) == r.st = "zombie" \/ r.wait_event # "none"

\* What a task on its way to sleep or to stop relies on, while the CPU is its own.
Settled(r) ==
  /\ Sleeps(r) => ~signal_pending(r)
  /\ Halts(r) => {SIGCONT, SIGKILL} \cap r.pending = {}
  /\ r.pc = "asleep" /\ ~r.queued => r.st = "sleeping"
  /\ r.pc = "parked" /\ ~r.queued => r.st = "stopped"
  /\ r.irqs => r.pc \in {"ret", "take", "stop", "park", "parked"}
  /\ Compatible(r.pending)
  /\ r.pc = "take" =>
       r.sig \in r.seen /\ (SIGKILL \in r.seen => r.sig = SIGKILL) /\ Compatible(r.seen)
  /\ IF r.pc = "dead" THEN r.st # "stopped" /\ r.wait_event = "none"
     ELSE r.st \notin {"zombie", "reaped"}

OneBusy == \A t, u \in Tasks : InKernel(t) /\ InKernel(u) => t = u
OneCpuInv ==
  /\ IInv /\ OneBusy
  /\ \A t \in Tasks : Settled(task[t])
  /\ \A t, u \in Tasks : Parent[u] = t /\ task[t].res.call = "wait" /\ Sleeps(task[t])
       => ~Unreported(task[u])

\* Up to what the keyboard sends, do_signal's copy of pending is not stale.
Exact(r) == Same(r.pending, r.owed) /\ (r.pc = "take" => Same(r.seen, r.pending))
ExactInv == OneCpuInv /\ \A t \in Tasks : Exact(task[t])

\* A stop is visible to wait4 until it is reported or the task is continued.
StopStep(t) ==
  (task[t].wait_event = "stopped" /\ task'[t].wait_event # "stopped") =>
    \/ task'[t].wait_event = "continued" /\ task'[t].queued
    \/ task'[t].wait_event = "none" /\ (task'[Parent[t]].pc = "ret" \/ task'[t].st = "zombie")
StopReported == [][\A t \in Tasks : Parent[t] \in Tasks => StopStep(t)]_task

\* SIGKILL ends a task that is in the kernel, asleep in a call or stopped when it comes, and one in
\* user mode once that makes a call: do_signal runs on the way out of system calls only.
KillEnds ==
  \A t \in Tasks :
    (SIGKILL \in task[t].owed /\ task[t].pc # "user") ~> task[t].st \in {"zombie", "reaped"}
=============================================================================
