-------------------------------- MODULE Tty --------------------------------
(***************************************************************************)
(* The console's input path: the UART interrupt, the RX ring and the line  *)
(* discipline of drivers/tty/tty.c, and readers that sleep in              *)
(* wait_event_interruptible (kernel/sched/wait.c).  Signals end a read in  *)
(* Signals; echo and output leave no state here.                           *)
(*                                                                         *)
(* tty0.lock is taken with interrupts masked and makes each critical       *)
(* section one step.  The lock of the wait queue is taken with plain       *)
(* spin_lock, by readers with interrupts on as well as by the interrupt,   *)
(* and is modelled.                                                        *)
(***************************************************************************)
EXTENDS Integers, Sequences, FiniteSets

CONSTANTS
  Readers,        \* tasks that read the tty
  NCpus,          \* CPUs; the UART interrupt may be taken on any
  RxSize,         \* TTY_RX_SIZE
  Counts,         \* the sizes readers ask for
  Modes           \* the values TCSETS gives ICANON

ASSUME TtyAssumption ==
  /\ NCpus \in Nat \ {0} /\ RxSize \in Nat \ {0, 1}
  /\ Counts \subseteq Nat \ {0} /\ Modes \subseteq BOOLEAN
  /\ IsFiniteSet(Readers)

Nobody == 0       \* no lock holder; no task was interrupted
ASSUME ReadersAreIds == Readers \subseteq Nat \ {0}

VARIABLES
  rx_buf, rx_head, rx_tail, canonical,    \* tty0
  rd,             \* [Readers -> where the read is, its count, run-queue state and result]
  wq, wq_lock,    \* tty0.read_wait: the tasks queued, and the lock's holder
  irq,            \* "off", or "wake": the handler is about to call wake_up
  over,           \* the task the handler interrupted in the kernel, or Nobody
  tcsets,         \* "off", or "wake": a TCSETS has set the mode and is about to call wake_up
  sent            \* specification: the characters accepted and not read yet

vars == <<rx_buf, rx_head, rx_tail, canonical, rd, wq, wq_lock, irq, over, tcsets, sent>>
ring == <<rx_buf, rx_head, rx_tail, sent>>

\* pc: "idle"; "test", the loop's head; "prep", about to queue; "asleep"; "awake", schedule has
\* returned; "unlink", in remove_wait_queue; "take", the condition was true.
Reader == [pc : {"idle", "test", "prep", "asleep", "awake", "unlink", "take"},
           count : Counts \cup {0}, queued : BOOLEAN, got : Seq({"x", "nl"})]

Init ==
  /\ rx_buf = [i \in 0..(RxSize - 1) |-> "x"] /\ rx_head = 0 /\ rx_tail = 0 /\ canonical = TRUE
  /\ rd = [t \in Readers |-> [pc |-> "idle", count |-> 0, queued |-> TRUE, got |-> <<>>]]
  /\ wq = {} /\ wq_lock = Nobody /\ irq = "off" /\ over = Nobody
  /\ tcsets = "off" /\ sent = <<>>

----------------------------------------------------------------------------
(* The ring.                                                               *)

tty_rx_next(i) == IF i + 1 = RxSize THEN 0 ELSE i + 1

tty_rx_count == IF rx_head >= rx_tail THEN rx_head - rx_tail ELSE RxSize - rx_tail + rx_head

\* The n characters at the tail.
AtTail(n) == [i \in 1..n |-> rx_buf[(rx_tail + i - 1) % RxSize]]

\* The length of the first complete line, or 0.
tty_rx_line_length ==
  LET ends == {n \in 1..tty_rx_count : AtTail(n)[n] = "nl"}
  IN IF ends = {} THEN 0 ELSE CHOOSE n \in ends : \A m \in ends : n <= m

Available == IF canonical THEN tty_rx_line_length ELSE tty_rx_count
tty_read_ready == Available > 0

----------------------------------------------------------------------------
(* Who runs.  Interrupts are masked at "test" and "prep".                  *)

InKernel(t) == rd[t].pc \in {"test", "prep", "awake", "unlink", "take"}
Busy == {t \in Readers : InKernel(t)}
IrqsOn(t) == rd[t].pc \in {"awake", "unlink", "take"}

\* A CPU is left beside the tasks in T, the TCSETS under way, and the handler, which occupies the
\* CPU of the task it interrupted or one of its own.
CpuBeside(T) ==
  Cardinality(T) + (IF tcsets = "wake" THEN 1 ELSE 0)
                 + (IF irq = "wake" /\ over = Nobody THEN 1 ELSE 0) < NCpus
HasCpu(t) == t # over /\ CpuBeside(Busy \ {t})
At(t, pc) == rd[t].pc = pc /\ HasCpu(t)

----------------------------------------------------------------------------
(* tty_receive_char, entered by serial_irq for every character.            *)

Accept_over(c) ==
  /\ rx_buf' = [rx_buf EXCEPT ![rx_head] = c]
  /\ rx_head' = tty_rx_next(rx_head)
  /\ sent' = Append(sent, c)
  /\ UNCHANGED rx_tail

\* A character that finds the ring full is dropped.
Accept(c) ==
  IF tty_rx_next(rx_head) # rx_tail
  THEN /\ rx_buf' = [rx_buf EXCEPT ![rx_head] = c]
       /\ rx_head' = tty_rx_next(rx_head)
       /\ sent' = Append(sent, c)
       /\ UNCHANGED rx_tail
  ELSE UNCHANGED ring

\* The interrupt is taken in user mode, on an idle CPU, or in a task with interrupts on.
tty_receive_char(c) ==
  /\ irq = "off"
  /\ \/ CpuBeside(Busy) /\ over' = Nobody
     \/ \E t \in Busy : IrqsOn(t) /\ over' = t
  /\ Accept(c)
  /\ irq' = "wake"
  /\ UNCHANGED <<canonical, rd, wq, wq_lock, tcsets>>

\* wake_up(&tty0.read_wait): every sleeper on the queue becomes runnable.
wake_up ==
  /\ wq_lock = Nobody
  /\ rd' = [t \in Readers |-> IF t \in wq /\ rd[t].pc = "asleep"
                              THEN [rd[t] EXCEPT !.queued = TRUE] ELSE rd[t]]

\* The handler's tty_wake_reader, whatever the character was.
tty_wake_reader ==
  /\ irq = "wake"
  /\ wake_up
  /\ irq' = "off" /\ over' = Nobody
  /\ UNCHANGED <<ring, canonical, wq, wq_lock, tcsets>>

----------------------------------------------------------------------------
(* tty_read.                                                               *)

Goto(t, pc) == rd' = [rd EXCEPT ![t].pc = pc]

tty_read(t, n) ==
  /\ At(t, "idle")
  /\ rd' = [rd EXCEPT ![t] = [pc |-> "test", count |-> n, queued |-> TRUE, got |-> <<>>]]
  /\ UNCHANGED <<ring, canonical, wq, wq_lock, irq, over, tcsets>>

\* wait_event_interruptible: the condition, with interrupts masked.
Test(t) ==
  /\ At(t, "test")
  /\ Goto(t, IF tty_read_ready THEN "take" ELSE "prep")
  /\ UNCHANGED <<ring, canonical, wq, wq_lock, irq, over, tcsets>>

\* prepare_to_wait, then schedule.
prepare_to_wait(t) ==
  /\ At(t, "prep") /\ wq_lock = Nobody
  /\ wq' = wq \cup {t}
  /\ rd' = [rd EXCEPT ![t].pc = "asleep", ![t].queued = FALSE]
  /\ UNCHANGED <<ring, canonical, wq_lock, irq, over, tcsets>>

\* schedule returns in a task that is on a run queue again.
Resume(t) ==
  /\ At(t, "asleep") /\ rd[t].queued
  /\ Goto(t, "awake")
  /\ UNCHANGED <<ring, canonical, wq, wq_lock, irq, over, tcsets>>

\* finish_wait: remove_wait_queue takes the lock with interrupts on, ...
LockQueue(t) ==
  /\ At(t, "awake") /\ wq_lock = Nobody
  /\ wq_lock' = t
  /\ Goto(t, "unlink")
  /\ UNCHANGED <<ring, canonical, wq, irq, over, tcsets>>

remove_wait_queue_once(t) ==
  /\ At(t, "unlink")
  /\ wq' = wq \ {t} /\ wq_lock' = Nobody
  /\ Goto(t, "take")
  /\ UNCHANGED <<ring, canonical, irq, over, tcsets>>

\* ..., unlinks the entry and the loop goes round.
remove_wait_queue(t) ==
  /\ At(t, "unlink")
  /\ wq' = wq \ {t} /\ wq_lock' = Nobody
  /\ Goto(t, "test")
  /\ UNCHANGED <<ring, canonical, irq, over, tcsets>>

Taken(t) == IF Available > rd[t].count THEN rd[t].count ELSE Available

\* The copy, under tty0.lock: 0 is returned if the input has gone meanwhile.
Take(t) ==
  /\ At(t, "take")
  /\ LET n == Taken(t)
     IN /\ rd' = [rd EXCEPT ![t].pc = "idle", ![t].got = AtTail(n)]
        /\ rx_tail' = (rx_tail + n) % RxSize
        /\ sent' = SubSeq(sent, n + 1, Len(sent))
  /\ UNCHANGED <<rx_buf, rx_head, canonical, wq, wq_lock, irq, over, tcsets>>

\* TCSETS by another task, which has interrupts masked: tty_apply_termios changes the mode ...
tty_apply_termios_silent(icanon) ==
  /\ CpuBeside(Busy) /\ tcsets = "off"
  /\ canonical' = icanon
  /\ UNCHANGED <<ring, rd, wq, wq_lock, irq, over, tcsets>>

tty_apply_termios(icanon) ==
  /\ CpuBeside(Busy) /\ tcsets = "off"
  /\ canonical' = icanon
  /\ tcsets' = "wake"
  /\ UNCHANGED <<ring, rd, wq, wq_lock, irq, over>>

\* ... and wakes the readers, for whom the condition may have become true.
TermiosWake ==
  /\ tcsets = "wake"
  /\ wake_up
  /\ tcsets' = "off"
  /\ UNCHANGED <<ring, canonical, wq, wq_lock, irq, over>>

Next ==
  \/ \E c \in {"x", "nl"} : tty_receive_char(c)
  \/ tty_wake_reader
  \/ \E t \in Readers :
       \/ \E n \in Counts : tty_read(t, n)
       \/ Test(t) \/ prepare_to_wait(t) \/ Resume(t)
       \/ LockQueue(t) \/ remove_wait_queue(t) \/ Take(t)
  \/ \E m \in Modes : tty_apply_termios(m)
  \/ TermiosWake

Spec == Init /\ [][Next]_vars

----------------------------------------------------------------------------
(* Properties.                                                             *)

\* The ring's indices stay inside the ring; a lock holder is where it holds the lock; a queue
\* entry, on its reader's kernel stack, is off the queue when the read returns.
TypeOK ==
  /\ rx_buf \in [0..(RxSize - 1) -> {"x", "nl"}]
  /\ rx_head \in 0..(RxSize - 1) /\ rx_tail \in 0..(RxSize - 1) /\ canonical \in BOOLEAN
  /\ rd \in [Readers -> Reader]
  /\ wq \subseteq {t \in Readers : rd[t].pc \in {"asleep", "awake", "unlink"}}
  /\ irq \in {"off", "wake"} /\ tcsets \in {"off", "wake"} /\ over \in Readers \cup {Nobody}
  /\ wq_lock \in {Nobody} \cup {t \in Readers : rd[t].pc = "unlink"}

\* What the ring holds is what was accepted and not read, in order (tty_receive_char, tty_read).
RingContent == TypeOK /\ AtTail(tty_rx_count) = sent

OneLine(g, n) ==
  /\ \A i \in 1..(Len(g) - 1) : g[i] # "nl"
  /\ Len(g) < n => g[Len(g)] = "nl"

\* A read does not return 0, which is end of file to its caller, whatever the other readers took
\* meanwhile.  In canonical mode it returns at most one line: only its last character can be a
\* newline, and a read that ends earlier than asked ends in a newline (tty_read).
LineRead ==
  [][\A t \in Readers : rd[t].pc = "take" /\ rd'[t].pc = "idle" =>
       rd'[t].got # <<>> /\ (canonical => OneLine(rd'[t].got, rd[t].count))]_vars

\* A reader that sleeps has nothing to read, once the handler or the TCSETS that made input
\* readable is done waking readers (wait_event_interruptible, tty_wake_reader).
NoLostInput ==
  \A t \in Readers :
    (rd[t].pc = "asleep" /\ ~rd[t].queued /\ irq = "off" /\ tcsets = "off") => ~tty_read_ready

\* One CPU does one thing at a time: a read, a TCSETS or the handler, on top of a read that has
\* interrupts on or not.
OneAtATime ==
  /\ \A t, u \in Busy : t = u
  /\ tcsets = "wake" => Busy = {} /\ irq = "off"
  /\ irq = "wake" /\ over = Nobody => Busy = {}
  /\ over # Nobody => irq = "wake" /\ over \in Busy /\ IrqsOn(over)

\* What a reader found out holds until it has acted on it, and a sleeper can be woken.
StillTrue(t) ==
  /\ rd[t].pc = "prep" => ~tty_read_ready
  /\ rd[t].pc = "take" => tty_read_ready
  /\ rd[t].pc = "asleep" /\ ~rd[t].queued =>
       t \in wq /\ (irq = "off" /\ tcsets = "off" => ~tty_read_ready)

OneCpuInv == RingContent /\ OneAtATime /\ \A t \in Readers : StillTrue(t)

\* The handler never waits for a lock the task it interrupted holds.
NoSelfDeadlock == ~(irq = "wake" /\ over # Nobody /\ wq_lock = over)

\* A full ring can be read: a reader is not left waiting for a character there is no room for.
FullReadable == tty_rx_count = RxSize - 1 => tty_read_ready
=============================================================================
