-------------------------------- MODULE Pipe --------------------------------
(***************************************************************************)
(* One pipe and the processes that share it: fs/pipe.c, the wait queues of *)
(* kernel/sched/wait.c, ppoll of fs/poll.c and the reference counts of     *)
(* fs/open.c.                                                              *)
(*                                                                         *)
(* One CPU.  A process is in user mode, asleep, or active inside a system  *)
(* call.  The kernel is not preempted, so at most one process is active: a *)
(* system call runs to its next schedule(), and only interrupts come in    *)
(* between.  pipe_read and pipe_write change the ring with interrupts off  *)
(* and without a lock: one step each here, which on more CPUs they are     *)
(* not.                                                                    *)
(***************************************************************************)
EXTENDS Naturals, Sequences, FiniteSets

CONSTANTS
    Procs,
    PIPE_SIZE,
    Bytes,
    MaxCount    \* bound: bytes asked for in one call

ASSUME PipeAssumption ==
    /\ PIPE_SIZE \in Nat \ {0} /\ MaxCount \in Nat \ {0}
    /\ IsFiniteSet(Procs)

VARIABLES
    buf, head, tail, len,   \* the ring of struct pipe
    readers, writers,       \* open files of each end
    frees,                  \* how often the pipe was given to kfree
    ref,                    \* ref[e]: refcount of the file of end e
    fds,                    \* fds[p]: the ends p has descriptors for
    readq, writeq,          \* processes with an entry on read_wait, write_wait
    pc,                     \* where p is
    runnable,               \* p is TASK_RUNNING, on a run queue
    sig,                    \* a signal is pending for p
    given,                  \* given[p]: bytes p wants to write
    got                     \* got[p]: bytes its read in progress returns

ring == <<buf, head, tail, len>>
ends == <<readers, writers, frees, ref, fds>>
waits == <<readq, writeq, runnable>>
vars == <<ring, ends, waits, pc, sig, given, got>>

Inactive == {"none", "user", "readsleep", "writesleep", "pollsleep"}
Active == {p \in Procs : pc[p] \notin Inactive}

(* p may take a step: it has the CPU, or the CPU is free.                  *)
HasCpu(p) == Active \subseteq {p}

Goto(p, l) == pc' = [pc EXCEPT ![p] = l]

(* Back to user mode; do_signal handles what is pending.                   *)
Return(p) ==
    /\ Goto(p, "user")
    /\ sig' = [sig EXCEPT ![p] = FALSE]
    /\ given' = [given EXCEPT ![p] = <<>>]
    /\ got' = [got EXCEPT ![p] = <<>>]

(* pipe2 by a first process.                                               *)
Init ==
    /\ buf \in [0 .. PIPE_SIZE - 1 -> Bytes]
    /\ head = 0 /\ tail = 0 /\ len = 0
    /\ readers = 1 /\ writers = 1 /\ frees = 0
    /\ ref = [e \in {"r", "w"} |-> 1]
    /\ \E i \in Procs :
         /\ fds = [p \in Procs |-> IF p = i THEN {"r", "w"} ELSE {}]
         /\ pc = [p \in Procs |-> IF p = i THEN "user" ELSE "none"]
    /\ readq = {} /\ writeq = {}
    /\ runnable = [p \in Procs |-> TRUE]
    /\ sig = [p \in Procs |-> FALSE]
    /\ given = [p \in Procs |-> <<>>]
    /\ got = [p \in Procs |-> <<>>]

-----------------------------------------------------------------------------
(* Wait queues.                                                            *)

(* wake_up of the processes in Q.                                          *)
wake_up(Q) == runnable' = [p \in Procs |-> runnable[p] \/ p \in Q]

(* prepare_to_wait on the queue of a blocked reader or writer.             *)
prepare_to_wait(p) ==
    /\ \/ pc[p] = "readwait" /\ Goto(p, "readsleep") /\ readq' = readq \cup {p}
                             /\ UNCHANGED writeq
       \/ pc[p] = "writewait" /\ Goto(p, "writesleep") /\ writeq' = writeq \cup {p}
                              /\ UNCHANGED readq
    /\ runnable' = [runnable EXCEPT ![p] = FALSE]
    /\ UNCHANGED <<ring, ends, sig, given, got>>

(* schedule() returns and finish_wait leaves the queue; a signal ends the  *)
(* call, otherwise the condition is tested again.                          *)
finish_wait(p) ==
    /\ pc[p] \in {"readsleep", "writesleep"}
    /\ runnable[p]
    /\ readq' = readq \ {p} /\ writeq' = writeq \ {p}
    /\ IF sig[p] THEN Return(p)
       ELSE /\ Goto(p, IF pc[p] = "readsleep" THEN "read" ELSE "write")
            /\ UNCHANGED <<sig, given, got>>
    /\ UNCHANGED <<ring, ends, runnable>>

(* A signal for p: signal_queue wakes a sleeper.                           *)
Signal(p) ==
    /\ pc[p] # "none"
    /\ sig' = [sig EXCEPT ![p] = TRUE]
    /\ runnable' = [runnable EXCEPT ![p] = TRUE]
    /\ UNCHANGED <<ring, ends, readq, writeq, pc, given, got>>

-----------------------------------------------------------------------------
(* read and write.                                                         *)

Advance(i, n) == (i + n) % PIPE_SIZE

CallRead(p) ==
    /\ pc[p] = "user" /\ "r" \in fds[p]
    /\ Goto(p, "read")
    /\ UNCHANGED <<ring, ends, waits, sig, given, got>>

CallWrite(p) ==
    /\ pc[p] = "user" /\ "w" \in fds[p]
    /\ \E n \in 1 .. MaxCount : \E s \in [1 .. n -> Bytes] :
         given' = [given EXCEPT ![p] = s]
    /\ Goto(p, "write")
    /\ UNCHANGED <<ring, ends, waits, sig, got>>

(* Mutant: end of file is not told from an empty pipe with writers.        *)
ReadEmpty_noeof(p) ==
    /\ pc[p] = "read" /\ len = 0 /\ writers # 0
    /\ \/ Return(p)
       \/ /\ ~sig[p]
          /\ Goto(p, "readwait")
          /\ UNCHANGED <<sig, given, got>>
    /\ UNCHANGED <<ring, ends, waits>>

(* An empty pipe: end of file, -EAGAIN for a non-blocking file, or a       *)
(* signal; a blocking read waits while there are writers.                  *)
ReadEmpty(p) ==
    /\ pc[p] = "read" /\ len = 0
    /\ \/ Return(p)
       \/ /\ writers # 0 /\ ~sig[p]
          /\ Goto(p, "readwait")
          /\ UNCHANGED <<sig, given, got>>
    /\ UNCHANGED <<ring, ends, waits>>

(* Mutant: tail is advanced before the byte is taken.                      *)
pipe_read_next(p, n) ==
    /\ pc[p] = "read" /\ len > 0
    /\ LET k == IF n > len THEN len ELSE n
       IN  /\ got' = [got EXCEPT ![p] = [i \in 1 .. k |-> buf[Advance(tail, i)]]]
           /\ tail' = Advance(tail, k)
           /\ len' = len - k
    /\ Goto(p, "readwake")
    /\ UNCHANGED <<buf, head, ends, waits, sig, given>>

(* Otherwise up to n bytes leave the ring at tail.                         *)
pipe_read(p, n) ==
    /\ pc[p] = "read" /\ len > 0
    /\ LET k == IF n > len THEN len ELSE n
       IN  /\ got' = [got EXCEPT ![p] = [i \in 1 .. k |-> buf[Advance(tail, i - 1)]]]
           /\ tail' = Advance(tail, k)
           /\ len' = len - k
    /\ Goto(p, "readwake")
    /\ UNCHANGED <<buf, head, ends, waits, sig, given>>

ReadWake(p) ==
    /\ pc[p] = "readwake"
    /\ wake_up(writeq)
    /\ Return(p)
    /\ UNCHANGED <<ring, ends, readq, writeq>>

(* No reader: -EPIPE.  A full pipe: -EAGAIN, a signal, or wait.            *)
WriteFull(p) ==
    /\ pc[p] = "write" /\ (readers = 0 \/ len = PIPE_SIZE)
    /\ \/ Return(p)
       \/ /\ readers # 0 /\ ~sig[p]
          /\ Goto(p, "writewait")
          /\ UNCHANGED <<sig, given, got>>
    /\ UNCHANGED <<ring, ends, waits>>

(* Otherwise as many bytes as there is room for enter the ring at head.    *)
pipe_write(p) ==
    /\ pc[p] = "write" /\ readers # 0 /\ len # PIPE_SIZE
    /\ LET n == Len(given[p])
           k == IF n > PIPE_SIZE - len THEN PIPE_SIZE - len ELSE n
           past(j) == Advance(j, PIPE_SIZE - head)
       IN  /\ buf' = [j \in 0 .. PIPE_SIZE - 1 |->
                         IF past(j) < k THEN given[p][past(j) + 1] ELSE buf[j]]
           /\ head' = Advance(head, k)
           /\ len' = len + k
    /\ given' = [given EXCEPT ![p] = <<>>]
    /\ Goto(p, "writewake")
    /\ UNCHANGED <<tail, ends, waits, sig, got>>

WriteWake(p) ==
    /\ pc[p] = "writewake"
    /\ wake_up(readq)
    /\ Return(p)
    /\ UNCHANGED <<ring, ends, readq, writeq>>

-----------------------------------------------------------------------------
(* ppoll for input and output on the ends p has open, without timeout.     *)

Ready(p) ==
    \/ "r" \in fds[p] /\ (len > 0 \/ writers = 0)
    \/ "w" \in fds[p] /\ (readers = 0 \/ len < PIPE_SIZE)

CallPoll(p) ==
    /\ pc[p] = "user" /\ fds[p] # {}
    /\ Goto(p, "poll")
    /\ UNCHANGED <<ring, ends, waits, sig, given, got>>

(* do_poll_scan queues p on every wait queue before it looks.              *)
PollScan(p) ==
    /\ pc[p] = "poll"
    /\ readq' = IF "r" \in fds[p] THEN readq \cup {p} ELSE readq
    /\ writeq' = IF "w" \in fds[p] THEN writeq \cup {p} ELSE writeq
    /\ Goto(p, "polltest")
    /\ UNCHANGED <<ring, ends, runnable, sig, given, got>>

(* Ready, or a signal: poll_table_finish and return ...                    *)
PollReturn(p) ==
    /\ pc[p] \in {"polltest", "pollrescan"}
    /\ Ready(p) \/ sig[p]
    /\ readq' = readq \ {p} /\ writeq' = writeq \ {p}
    /\ runnable' = [runnable EXCEPT ![p] = TRUE]
    /\ Return(p)
    /\ UNCHANGED <<ring, ends>>

(* ... otherwise sched_block ...                                           *)
PollTest(p) ==
    /\ pc[p] = "polltest" /\ ~Ready(p) /\ ~sig[p]
    /\ Goto(p, "pollblock")
    /\ UNCHANGED <<ring, ends, waits, sig, given, got>>

PollBlock(p) ==
    /\ pc[p] = "pollblock"
    /\ runnable' = [runnable EXCEPT ![p] = FALSE]
    /\ Goto(p, "pollrescan")
    /\ UNCHANGED <<ring, ends, readq, writeq, sig, given, got>>

(* ... and a second scan before schedule().                                *)
PollSchedule(p) ==
    /\ pc[p] = "pollrescan" /\ ~Ready(p) /\ ~sig[p]
    /\ Goto(p, "pollsleep")
    /\ UNCHANGED <<ring, ends, waits, sig, given, got>>

(* Awake: leave the queues, and start over unless there is a signal.       *)
PollAwake(p) ==
    /\ pc[p] = "pollsleep" /\ runnable[p]
    /\ readq' = readq \ {p} /\ writeq' = writeq \ {p}
    /\ IF sig[p] THEN Return(p)
       ELSE Goto(p, "poll") /\ UNCHANGED <<sig, given, got>>
    /\ UNCHANGED <<ring, ends, runnable>>

-----------------------------------------------------------------------------
(* Descriptors.                                                            *)

(* fork: the child shares the open files.                                  *)
fork(p, q) ==
    /\ pc[p] = "user" /\ pc[q] = "none"
    /\ fds' = [fds EXCEPT ![q] = fds[p]]
    /\ ref' = [e \in {"r", "w"} |-> ref[e] + (IF e \in fds[p] THEN 1 ELSE 0)]
    /\ Goto(q, "user")
    /\ UNCHANGED <<ring, readers, writers, frees, waits, sig, given, got>>

(* Mutant: pipe_release wakes nobody.                                      *)
fput_silent(p, e) ==
    /\ pc[p] = "user" /\ e \in fds[p]
    /\ fds' = [fds EXCEPT ![p] = @ \ {e}]
    /\ ref' = [ref EXCEPT ![e] = @ - 1]
    /\ IF ref[e] = 1
       THEN /\ readers' = IF e = "r" THEN readers - 1 ELSE readers
            /\ writers' = IF e = "w" THEN writers - 1 ELSE writers
            /\ Goto(p, "release")
       ELSE UNCHANGED <<readers, writers, pc>>
    /\ UNCHANGED <<ring, frees, waits, sig, given, got>>

(* close, and exit for every descriptor: fput, pipe_release for the last   *)
(* reference ...                                                           *)
fput(p, e) ==
    /\ pc[p] = "user" /\ e \in fds[p]
    /\ fds' = [fds EXCEPT ![p] = @ \ {e}]
    /\ ref' = [ref EXCEPT ![e] = @ - 1]
    /\ IF ref[e] = 1
       THEN /\ readers' = IF e = "r" THEN readers - 1 ELSE readers
            /\ writers' = IF e = "w" THEN writers - 1 ELSE writers
            /\ wake_up((IF readers' = 0 THEN writeq ELSE {})
                        \cup (IF writers' = 0 THEN readq ELSE {}))
            /\ Goto(p, "release")
       ELSE UNCHANGED <<readers, writers, runnable, pc>>
    /\ UNCHANGED <<ring, frees, readq, writeq, sig, given, got>>

(* Mutant: freed as soon as one end is closed.                             *)
pipe_release_either(p) ==
    /\ pc[p] = "release"
    /\ frees' = IF readers = 0 \/ writers = 0 THEN frees + 1 ELSE frees
    /\ Return(p)
    /\ UNCHANGED <<ring, readers, writers, ref, fds, waits>>

(* ... which frees the pipe when both ends are closed.                     *)
pipe_release(p) ==
    /\ pc[p] = "release"
    /\ frees' = IF readers = 0 /\ writers = 0 THEN frees + 1 ELSE frees
    /\ Return(p)
    /\ UNCHANGED <<ring, readers, writers, ref, fds, waits>>

-----------------------------------------------------------------------------
UserStep(p) ==
    \/ CallRead(p) \/ CallWrite(p) \/ CallPoll(p)
    \/ \E q \in Procs : fork(p, q)
    \/ \E e \in {"r", "w"} : fput(p, e)

KernelStep(p) ==
    \/ prepare_to_wait(p) \/ finish_wait(p)
    \/ ReadEmpty(p) \/ ReadWake(p) \/ \E n \in 1 .. MaxCount : pipe_read(p, n)
    \/ WriteFull(p) \/ WriteWake(p) \/ pipe_write(p)
    \/ PollScan(p) \/ PollReturn(p) \/ PollTest(p) \/ PollBlock(p)
    \/ PollSchedule(p) \/ PollAwake(p)
    \/ pipe_release(p)

Next ==
    \E p \in Procs : \/ HasCpu(p) /\ (UserStep(p) \/ KernelStep(p))
                     \/ Signal(p)

Spec == Init /\ [][Next]_vars

(* A runnable process gets a CPU again and again (QueuedRuns of Tasks).    *)
FairSpec == Spec /\ \A p \in Procs : SF_vars(HasCpu(p) /\ KernelStep(p))

-----------------------------------------------------------------------------
(* Properties.                                                             *)

Reading == {"read", "readwait", "readsleep", "readwake"}
Writing == {"write", "writewait", "writesleep", "writewake"}
Polling == {"poll", "polltest", "pollblock", "pollrescan", "pollsleep"}
Pcs == {"none", "user", "release"} \cup Reading \cup Writing \cup Polling

(* The ring indices stay in the ring and no count goes below zero.         *)
TypeOK ==
    /\ head \in 0 .. PIPE_SIZE - 1 /\ tail \in 0 .. PIPE_SIZE - 1
    /\ len \in 0 .. PIPE_SIZE
    /\ head = Advance(tail, len)
    /\ buf \in [0 .. PIPE_SIZE - 1 -> Bytes]
    /\ readers \in 0 .. 1 /\ writers \in 0 .. 1
    /\ ref \in [{"r", "w"} -> Nat]
    /\ fds \in [Procs -> SUBSET {"r", "w"}]
    /\ readq \subseteq Procs /\ writeq \subseteq Procs
    /\ runnable \in [Procs -> BOOLEAN] /\ sig \in [Procs -> BOOLEAN]
    /\ frees \in Nat /\ pc \in [Procs -> Pcs]
    /\ given \in [Procs -> Seq(Bytes)] /\ got \in [Procs -> Seq(Bytes)]

(* No wake-up is lost: a process asleep in pipe_read or pipe_write whose   *)
(* condition has come true is about to be woken by whoever made it true,   *)
(* and so is one asleep in ppoll, which queues itself before it looks and  *)
(* looks again after sched_block.                                          *)
NoLostWakeup ==
    \A p \in Procs :
        ~runnable[p] =>
            /\ pc[p] = "readsleep" /\ (len > 0 \/ writers = 0)
                 => \E q \in Procs : pc[q] = "writewake"
            /\ pc[p] = "writesleep" /\ (len < PIPE_SIZE \/ readers = 0)
                 => \E q \in Procs : pc[q] = "readwake"
            /\ pc[p] = "pollsleep" /\ Ready(p)
                 => \E q \in Procs : pc[q] \in {"readwake", "writewake"}

(* Pipe I/O is interruptible: a process asleep in it with a signal pending *)
(* has been made runnable, wherever the interrupt that sent it came.       *)
Interruptible ==
    \A p \in Procs : pc[p] \in {"readsleep", "writesleep"} /\ sig[p] => runnable[p]

(* The pipe is freed once, when the last descriptor of either end is gone, *)
(* and until then the counts say which ends are open.  A wait-queue entry  *)
(* lives on the stack of its process: none is left on a queue by a system  *)
(* call that returns, whether woken, interrupted or not put to sleep.      *)
Lifetime ==
    /\ TypeOK
    /\ \A p \in readq \cup writeq :
         pc[p] \in {"readsleep", "writesleep", "polltest", "pollblock",
                    "pollrescan", "pollsleep"}
    /\ \A e \in {"r", "w"} : ref[e] = Cardinality({p \in Procs : e \in fds[p]})
    /\ readers = (IF ref["r"] > 0 THEN 1 ELSE 0)
    /\ writers = (IF ref["w"] > 0 THEN 1 ELSE 0)
    /\ frees <= 1
    /\ frees = 1 => \A p \in Procs : fds[p] = {} /\ pc[p] \in {"none", "user"}

(* The bytes come out as they went in, whatever the sizes of the calls,    *)
(* the wrap-around of the ring and the processes sharing the ends.         *)
Contents == [i \in 1 .. len |-> buf[Advance(tail, i - 1)]]
Channel == INSTANCE Fifo WITH Capacity <- PIPE_SIZE, chan <- Contents
RefinesFifo == Channel!Spec

-----------------------------------------------------------------------------
(* Inductive invariants: what makes the safety properties hold.            *)

(* A system call keeps the end it uses open, and the bytes it moves.       *)
InCall(p) ==
    /\ pc[p] = "none" => fds[p] = {}
    /\ pc[p] \in Reading => "r" \in fds[p]
    /\ pc[p] \in Writing => "w" \in fds[p]
    /\ pc[p] \in Polling => fds[p] # {}
    /\ given[p] # <<>> <=> pc[p] \in Writing \ {"writewake"}
    /\ got[p] # <<>> => pc[p] = "readwake"

(* Wait-queue entries live from prepare_to_wait to finish_wait, or from    *)
(* the scan of ppoll to poll_table_finish.                                 *)
Queued(p) ==
    /\ p \in readq \cup writeq =>
         pc[p] \in {"readsleep", "writesleep"} \cup (Polling \ {"poll"})
    /\ pc[p] = "readsleep" => p \in readq
    /\ pc[p] = "writesleep" => p \in writeq
    /\ pc[p] \in Polling \ {"poll"} => /\ "r" \in fds[p] => p \in readq
                                       /\ "w" \in fds[p] => p \in writeq

Holding(e) == {p \in Procs : e \in fds[p]}
Counts ==
    /\ \A e \in {"r", "w"} : ref[e] = Cardinality(Holding(e))
    /\ readers = (IF ref["r"] > 0 THEN 1 ELSE 0)
    /\ writers = (IF ref["w"] > 0 THEN 1 ELSE 0)

IInv == TypeOK /\ (\A p \in Procs : InCall(p) /\ Queued(p)) /\ Counts

Freed ==
    /\ frees <= 1
    /\ frees = 1 => \A p \in Procs : fds[p] = {} /\ pc[p] \in {"none", "user"}

FreedInv == IInv /\ Freed

CanRead == len > 0 \/ writers = 0
CanWrite == len < PIPE_SIZE \/ readers = 0

(* A blocked read ends when the writers are gone, and does not sleep on    *)
(* while there is something to read; a blocked write ends when the readers *)
(* are gone, and does not sleep on while there is room.                    *)
CallsEnd ==
    \A p \in Procs :
        /\ (pc[p] = "readsleep" /\ CanRead)
               ~> (pc[p] = "user" \/ (writers > 0 /\ (pc[p] # "readsleep" \/ len = 0)))
        /\ (pc[p] = "writesleep" /\ CanWrite)
               ~> (pc[p] = "user" \/ (readers > 0 /\ (pc[p] # "writesleep" \/ len = PIPE_SIZE)))

=============================================================================
