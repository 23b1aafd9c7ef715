--------------------------- MODULE SignalsProofs ---------------------------
(***************************************************************************)
(* Proofs about Signals.  A step rewrites the record of the task that      *)
(* takes it, and the signals it sends touch only the pending set, the      *)
(* event and the place on the run queue of others.  IInv carries the masks *)
(* and results on any number of CPUs; OneCpuInv the wake-ups and ExactInv  *)
(* the pending sets, when the kernel runs one task at a time.              *)
(***************************************************************************)
EXTENDS Signals, TLAPS

(* The library's facts about numbers and finite sets make every proof that *)
(* follows them slow: what is needed of them is proved at the end.         *)
Least == \A S \in SUBSET Nat : S # {} => \E n \in S : \A m \in S : n <= m
OneCpu == \A S \in SUBSET Tasks : Cardinality(S) < NCpus => S = {}

(* next_pending_signal finds a signal that is pending and not blocked, and *)
(* SIGKILL before any other.                                               *)
LEMMA NextIs ==
    ASSUME Least, NEW r \in TaskStruct, signal_pending(r)
    PROVE  /\ next_pending_signal(r) \in Ready(r) /\ Ready(r) \subseteq r.pending
           /\ next_pending_signal(r) \in Sigs
           /\ SIGKILL \in r.pending => next_pending_signal(r) = SIGKILL
  <1>0. r.pending \in SUBSET Sigs
    BY DEF TaskStruct
  <1>1. Ready(r) \subseteq r.pending /\ Ready(r) \in SUBSET Sigs
    BY <1>0, Zenon DEF Ready
  <1>2. Sigs \subseteq Nat
    BY SignalsAssumption
  <1>3. \E s \in Ready(r) : \A u \in Ready(r) : s <= u
    BY <1>1, <1>2, Zenon DEF Least, signal_pending
  <1>4. SIGKILL \in r.pending => SIGKILL \in Ready(r)
    BY Zenon DEF Ready, Unblockable
  <1>5. next_pending_signal(r) \in Ready(r)
    BY <1>3, Zenon DEF next_pending_signal
  <1> QED BY <1>1, <1>4, <1>5, Zenon DEF next_pending_signal

----------------------------------------------------------------------------
(***************************************************************************)
(* Sending.                                                                *)
(***************************************************************************)
(* What no signal sent to a task changes.                                  *)
Mild(r, n) ==
    /\ n.pc = r.pc /\ n.irqs = r.irqs /\ n.blocked = r.blocked /\ n.want = r.want
    /\ n.saved_blocked = r.saved_blocked /\ n.restore_sigmask = r.restore_sigmask
    /\ n.frames = r.frames /\ n.res = r.res /\ n.sig = r.sig /\ n.seen = r.seen
    /\ n.actions = r.actions

(* The state: a record for each task.                                      *)
All == [Tasks -> TaskStruct]

(* A wake-up.                                                              *)
LEMMA WokenIs ==
    ASSUME NEW r \in TaskStruct, NEW m, m = Woken(r)
    PROVE  /\ m \in TaskStruct /\ Mild(r, m) /\ m.queued
           /\ m.pending = r.pending /\ m.owed = r.owed /\ m.wait_event = r.wait_event
           /\ m.st = r.st \/ (~r.queued /\ m.st = "running")
  <1>1. CASE r.queued
    BY <1>1, Zenon DEF Woken, Mild
  <1>2. CASE ~r.queued
    <2>1. m \in TaskStruct
      BY <1>2, Zenon DEF Woken, TaskStruct
    <2>2. Mild(r, m)
      BY <1>2, Zenon DEF Woken, TaskStruct, Mild
    <2>3. /\ m.queued /\ m.pending = r.pending /\ m.owed = r.owed
          /\ m.wait_event = r.wait_event /\ m.st = "running"
      BY <1>2, Zenon DEF Woken, TaskStruct
    <2> QED BY <1>2, <2>1, <2>2, <2>3, Zenon
  <1> QED BY <1>1, <1>2, Zenon

(* Stop and continue signals cancel each other.                            *)
LEMMA QueueType ==
    ASSUME NEW S \in SUBSET Sigs, NEW s \in Sigs PROVE Queue(S, s) \in SUBSET Sigs
  BY Zenon DEF Queue

(* A signal becomes pending, ...                                           *)
LEMMA PendedIs ==
    ASSUME NEW r \in TaskStruct, NEW s \in Sigs
    PROVE  /\ Pended(r, s) \in TaskStruct /\ Mild(r, Pended(r, s))
           /\ Pended(r, s).pending = Queue(r.pending, s) /\ Pended(r, s).owed = Queue(r.owed, s)
           /\ Pended(r, s).wait_event = r.wait_event
           /\ Pended(r, s).queued = r.queued /\ Pended(r, s).st = r.st
  <1>1. Queue(r.pending, s) \in SUBSET Sigs /\ Queue(r.owed, s) \in SUBSET Sigs
    <2>1. r.pending \in SUBSET Sigs /\ r.owed \in SUBSET Sigs
      BY Zenon DEF TaskStruct
    <2> QED BY <2>1, QueueType, Zenon
  <1>2. Pended(r, s) \in TaskStruct
    BY <1>1, Zenon DEF Pended, TaskStruct
  <1>3. Mild(r, Pended(r, s))
    BY Zenon DEF Pended, TaskStruct, Mild
  <1>4. /\ Pended(r, s).pending = Queue(r.pending, s) /\ Pended(r, s).owed = Queue(r.owed, s)
        /\ Pended(r, s).wait_event = r.wait_event
        /\ Pended(r, s).queued = r.queued /\ Pended(r, s).st = r.st
    BY Zenon DEF Pended, TaskStruct
  <1> QED BY <1>2, <1>3, <1>4, Zenon

(* ... and wakes a sleeper that may take it, ...                           *)
LEMMA MarkedIs ==
    ASSUME NEW r \in TaskStruct, NEW s \in Sigs, NEW m, m = Marked(r, s)
    PROVE  /\ m \in TaskStruct /\ Mild(r, m)
           /\ m.pending = Queue(r.pending, s) /\ m.owed = Queue(r.owed, s)
           /\ m.wait_event = r.wait_event
           /\ m.queued \/ (~r.queued /\ m.st = r.st /\ ~Wakes(m, s))
           /\ m.st = r.st \/ (~r.queued /\ m.st = "running")
  <1>1. PICK p \in TaskStruct : p = Pended(r, s)
    BY PendedIs, Zenon
  <1>2. /\ Mild(r, p) /\ p.pending = Queue(r.pending, s) /\ p.owed = Queue(r.owed, s)
        /\ p.wait_event = r.wait_event /\ p.queued = r.queued /\ p.st = r.st
    BY <1>1, PendedIs, Zenon
  <1>a. r.queued \in BOOLEAN
    BY Zenon DEF TaskStruct
  <1>3. CASE Wakes(p, s)
    <2>1. m = Woken(p)
      BY <1>1, <1>3, Zenon DEF Marked
    <2>2. /\ m \in TaskStruct /\ Mild(p, m) /\ m.queued
          /\ m.pending = p.pending /\ m.owed = p.owed /\ m.wait_event = p.wait_event
          /\ (m.st = p.st \/ (~p.queued /\ m.st = "running"))
      BY <2>1, WokenIs
    <2>3. Mild(r, m)
      BY <1>2, <2>2, Zenon DEF Mild
    <2> QED BY <1>2, <2>2, <2>3, Zenon
  <1>4. CASE ~Wakes(p, s)
    <2>1. m = p
      BY <1>1, <1>4, Zenon DEF Marked
    <2> QED BY <1>a, <1>2, <1>4, <2>1, Zenon
  <1> QED BY <1>3, <1>4, Zenon

(* ..., and SIGCHLD from notify_parent any sleeper.                        *)
LEMMA NotifiedIs ==
    ASSUME NEW r \in TaskStruct, NEW m, m = Notified(r)
    PROVE  /\ m \in TaskStruct /\ Mild(r, m)
           /\ m.pending = Queue(r.pending, SIGCHLD) /\ m.owed = Queue(r.owed, SIGCHLD)
           /\ m.wait_event = r.wait_event
           /\ m.queued \/ (~r.queued /\ m.st = r.st /\ m.st # "sleeping")
           /\ m.st = r.st \/ (~r.queued /\ m.st = "running")
  <1>0. SIGCHLD \in Sigs
    BY SignalsAssumption, Zenon
  <1>1. PICK p : p = Marked(r, SIGCHLD)
    BY Zenon
  <1>2. /\ p \in TaskStruct /\ Mild(r, p) /\ p.wait_event = r.wait_event
        /\ p.pending = Queue(r.pending, SIGCHLD) /\ p.owed = Queue(r.owed, SIGCHLD)
        /\ (p.queued \/ (~r.queued /\ p.st = r.st))
        /\ (p.st = r.st \/ (~r.queued /\ p.st = "running"))
    BY <1>0, <1>1, MarkedIs
  <1>3. CASE p.st = "sleeping"
    <2>1. m = Woken(p)
      BY <1>1, <1>3, Zenon DEF Notified
    <2>2. /\ m \in TaskStruct /\ Mild(p, m) /\ m.queued
          /\ m.pending = p.pending /\ m.owed = p.owed /\ m.wait_event = p.wait_event
          /\ (m.st = p.st \/ (~p.queued /\ m.st = "running"))
      BY <1>2, <2>1, WokenIs, Zenon
    <2>3. Mild(r, m)
      BY <1>2, <2>2, Zenon DEF Mild
    <2> QED BY <1>2, <2>2, <2>3, Zenon
  <1>4. CASE p.st # "sleeping"
    <2>1. m = p
      BY <1>1, <1>4, Zenon DEF Notified
    <2> QED BY <1>2, <1>4, <2>1, Zenon
  <1> QED BY <1>3, <1>4, Zenon

(* SIGCONT to a stopped task.                                              *)
LEMMA ContinuedIs ==
    ASSUME NEW r \in TaskStruct, SIGCONT \in Sigs, NEW m, m = Continued(r)
    PROVE  /\ m \in TaskStruct /\ Mild(r, m)
           /\ m.pending = Queue(r.pending, SIGCONT) /\ m.owed = Queue(r.owed, SIGCONT)
           /\ m.wait_event = "continued" /\ m.queued = r.queued /\ m.st = "running"
  <1>1. PICK p \in TaskStruct : p = Pended(r, SIGCONT)
    BY PendedIs, Zenon
  <1>2. /\ Mild(r, p) /\ p.pending = Queue(r.pending, SIGCONT) /\ p.owed = Queue(r.owed, SIGCONT)
        /\ p.queued = r.queued
    BY <1>1, PendedIs, Zenon
  <1>3. m = [p EXCEPT !.st = "running", !.wait_event = "continued"]
    BY <1>1, Zenon DEF Continued
  <1>4. m \in TaskStruct
    BY <1>3, Zenon DEF TaskStruct
  <1>5. Mild(p, m)
    BY <1>3, Zenon DEF TaskStruct, Mild
  <1>6. /\ m.pending = p.pending /\ m.owed = p.owed /\ m.queued = p.queued
        /\ m.wait_event = "continued" /\ m.st = "running"
    BY <1>3, Zenon DEF TaskStruct
  <1>7. Mild(r, m)
    BY <1>2, <1>5, Zenon DEF Mild
  <1> QED BY <1>2, <1>4, <1>6, <1>7, Zenon

(* do_exit.                                                                *)
LEMMA ExitedIs ==
    ASSUME NEW r \in TaskStruct, NEW m, m = Exited(r)
    PROVE  /\ m \in TaskStruct /\ m.pc = "dead" /\ m.st = "zombie" /\ ~m.queued /\ ~m.irqs
           /\ m.wait_event = "none" /\ m.pending = r.pending /\ m.owed = r.owed
           /\ m.blocked = r.blocked /\ m.want = r.want /\ m.frames = r.frames /\ m.res = r.res
  <1>1. m \in TaskStruct
    BY Zenon DEF TaskStruct, Exited
  <1>2. /\ m.pc = "dead" /\ m.st = "zombie" /\ ~m.queued /\ ~m.irqs /\ m.wait_event = "none"
        /\ m.pending = r.pending /\ m.owed = r.owed
        /\ m.blocked = r.blocked /\ m.want = r.want /\ m.frames = r.frames /\ m.res = r.res
    BY Zenon DEF TaskStruct, Exited
  <1> QED BY <1>1, <1>2, Zenon

(* notify_parent changes the parent only, ...                              *)
LEMMA NotifyIs ==
    ASSUME NEW T \in All, NEW u \in Tasks, NEW M, M = notify_parent(T, u)
    PROVE  /\ M \in All
           /\ \A v \in Tasks : IF v = Parent[u] THEN M[v] = Notified(T[v]) ELSE M[v] = T[v]
  <1>1. CASE Parent[u] \notin Tasks
    BY <1>1, Zenon DEF notify_parent
  <1>2. CASE Parent[u] \in Tasks
    <2>1. T[Parent[u]] \in TaskStruct
      BY <1>2, Zenon DEF All
    <2>2. PICK n \in TaskStruct : n = Notified(T[Parent[u]])
      BY <2>1, NotifiedIs, Zenon
    <2>3. M = [T EXCEPT ![Parent[u]] = n]
      BY <1>2, <2>2, Zenon DEF notify_parent
    <2>4. M \in All /\ M[Parent[u]] = n /\ \A v \in Tasks : v # Parent[u] => M[v] = T[v]
      <3>1. n \in TaskStruct
        BY <2>2, Zenon
      <3> QED BY <1>2, <2>3, <3>1, Zenon DEF All
    <2> QED BY <2>2, <2>4, Zenon
  <1> QED BY <1>1, <1>2, Zenon

(* ... and signal_queue the target, and its parent if it is continued.     *)
LEMMA SignalQueueIs ==
    ASSUME NEW T \in All, NEW u \in Tasks, NEW s \in Sigs, NEW M, M = signal_queue(T, u, s)
    PROVE  /\ M \in All
           /\ s = SIGCONT /\ T[u].st = "stopped" =>
                /\ M[u] = Woken(Continued(T[u]))
                /\ \A v \in Tasks : v # u =>
                     IF v = Parent[u] THEN M[v] = Notified(T[v]) ELSE M[v] = T[v]
           /\ ~(s = SIGCONT /\ T[u].st = "stopped") =>
                M[u] = Marked(T[u], s) /\ \A v \in Tasks : v # u => M[v] = T[v]
  <1>0. T[u] \in TaskStruct /\ Parent[u] # u
    BY SignalsAssumption, Zenon DEF All
  <1>1. CASE s = SIGCONT /\ T[u].st = "stopped"
    <2>1. PICK n \in TaskStruct : n = Continued(T[u])
      BY <1>0, <1>1, ContinuedIs, Zenon
    <2>2. PICK N : N = [T EXCEPT ![u] = n]
      BY Zenon
    <2>3. N \in All /\ N[u] = n /\ \A v \in Tasks : v # u => N[v] = T[v]
      <3>1. n \in TaskStruct
        BY <2>1, Zenon
      <3> QED BY <2>2, <3>1, Zenon DEF All
    <2>4. PICK P : P = notify_parent(N, u)
      BY Zenon
    <2>5. P \in All /\ \A v \in Tasks : IF v = Parent[u] THEN P[v] = Notified(N[v]) ELSE P[v] = N[v]
      BY <2>3, <2>4, NotifyIs
    <2>6. PICK w \in TaskStruct : w = Woken(n)
      BY <2>1, WokenIs, Zenon
    <2>7. P[u] = n
      BY <1>0, <2>3, <2>5, Zenon
    <2>8. M = [P EXCEPT ![u] = Woken(P[u])]
      BY <1>1, <2>1, <2>2, <2>4, Zenon DEF signal_queue, wake_up_process
    <2>9. M = [P EXCEPT ![u] = w]
      BY <2>6, <2>7, <2>8, Zenon
    <2>10. M \in All /\ M[u] = w /\ \A v \in Tasks : v # u => M[v] = P[v]
      <3>1. w \in TaskStruct /\ P \in All
        BY <2>5, <2>6, Zenon
      <3> QED BY <2>9, <3>1, Zenon DEF All
    <2>11. ASSUME NEW v \in Tasks, v # u
           PROVE  IF v = Parent[u] THEN M[v] = Notified(T[v]) ELSE M[v] = T[v]
      BY <2>3, <2>5, <2>10, <2>11, Zenon
    <2> QED BY <1>1, <2>1, <2>6, <2>10, <2>11, Zenon
  <1>2. CASE ~(s = SIGCONT /\ T[u].st = "stopped")
    <2>1. PICK n \in TaskStruct : n = Marked(T[u], s)
      BY <1>0, MarkedIs, Zenon
    <2>2. M = [T EXCEPT ![u] = n]
      BY <1>2, <2>1, Zenon DEF signal_queue, signal_mark
    <2> QED BY <1>2, <2>1, <2>2, Zenon DEF All
  <1> QED BY <1>1, <1>2, Zenon

(* Both are mild with everybody.                                           *)
LEMMA SendsMild ==
    ASSUME NEW T \in All, NEW u \in Tasks, NEW M,
           M = notify_parent(T, u) \/ \E s \in Sigs : M = signal_queue(T, u, s)
    PROVE  M \in All /\ \A v \in Tasks : Mild(T[v], M[v])
  <1>0. \A v \in Tasks : T[v] \in TaskStruct /\ Mild(T[v], T[v]) /\ Mild(T[v], Notified(T[v]))
    <2>1. \A v \in Tasks : T[v] \in TaskStruct
      BY Zenon DEF All
    <2>2. \A v \in Tasks : Mild(T[v], T[v])
      BY Zenon DEF Mild
    <2> QED BY <2>1, <2>2, NotifiedIs, Zenon
  <1>1. CASE M = notify_parent(T, u)
    BY <1>0, <1>1, NotifyIs
  <1>2. ASSUME NEW s \in Sigs, M = signal_queue(T, u, s)
        PROVE  M \in All /\ \A v \in Tasks : Mild(T[v], M[v])
    <2>1. CASE s = SIGCONT /\ T[u].st = "stopped"
      <3>1. PICK n \in TaskStruct : n = Continued(T[u]) /\ Mild(T[u], n)
        BY <1>0, <2>1, ContinuedIs, Zenon
      <3>2. Mild(n, Woken(n))
        BY <3>1, WokenIs, Zenon
      <3>3. Mild(T[u], Woken(n))
        BY <3>1, <3>2, Zenon DEF Mild
      <3>4. /\ M \in All /\ M[u] = Woken(n)
            /\ \A v \in Tasks : v # u =>
                 IF v = Parent[u] THEN M[v] = Notified(T[v]) ELSE M[v] = T[v]
        BY <1>2, <2>1, <3>1, SignalQueueIs
      <3>5. ASSUME NEW v \in Tasks PROVE Mild(T[v], M[v])
        BY <1>0, <3>3, <3>4, Zenon
      <3> QED BY <3>4, <3>5, Zenon
    <2>2. CASE ~(s = SIGCONT /\ T[u].st = "stopped")
      <3>1. M \in All /\ M[u] = Marked(T[u], s) /\ \A v \in Tasks : v # u => M[v] = T[v]
        BY <1>2, <2>2, SignalQueueIs
      <3>2. Mild(T[u], Marked(T[u], s))
        BY <1>0, MarkedIs, Zenon
      <3> QED BY <1>0, <3>1, <3>2, Zenon
    <2> QED BY <2>1, <2>2, Zenon
  <1> QED BY <1>1, <1>2, Zenon

----------------------------------------------------------------------------
(***************************************************************************)
(* Masks, results and frames.                                              *)
(***************************************************************************)
(* A signal sent leaves a task entitled to what it was entitled to.        *)
LEMMA EntitledMild == ASSUME NEW r, NEW n, Mild(r, n), Entitled(r) PROVE Entitled(n)
  BY Zenon DEF Mild, Entitled, OldBlocked

(* A step of t keeps the invariant if t's new record does, ...             *)
LEMMA DoKeeps ==
    ASSUME IInv, NEW t \in Tasks, NEW n \in TaskStruct, Entitled(n), Do(t, n)
    PROVE  IInv'
  <1>1. task' \in [Tasks -> TaskStruct] /\ task'[t] = n
        /\ \A v \in Tasks : v # t => task'[v] = task[v]
    BY Zenon DEF IInv, Do
  <1>2. ASSUME NEW v \in Tasks PROVE Entitled(task'[v])
    BY <1>1, Zenon DEF IInv
  <1> QED BY <1>1, <1>2, Zenon DEF IInv

(* ... also when it goes on to send signals.                               *)
LEMMA SendKeeps ==
    ASSUME IInv, NEW T \in All, NEW u \in Tasks, \A v \in Tasks : Entitled(T[v]),
           task' = notify_parent(T, u) \/ \E s \in Sigs : task' = signal_queue(T, u, s)
    PROVE  IInv'
  <1>1. PICK M : M = task'
    BY Zenon
  <1>2. M = notify_parent(T, u) \/ \E s \in Sigs : M = signal_queue(T, u, s)
    BY <1>1, Zenon
  <1>3. M \in All /\ \A v \in Tasks : Mild(T[v], M[v])
    BY <1>2, SendsMild, Zenon
  <1>4. \A v \in Tasks : Entitled(M[v])
    BY <1>3, EntitledMild, Zenon
  <1> QED BY <1>1, <1>3, <1>4, Zenon DEF IInv, All

(* A frame pushed comes before the others.                                 *)
LEMMA FramePushed ==
    ASSUME NEW f \in Seq(Frame), NEW e \in Frame
    PROVE  /\ <<e>> \o f \in Seq(Frame) /\ Len(<<e>> \o f) = Len(f) + 1
           /\ \A i \in 1 .. Len(<<e>> \o f) :
                (<<e>> \o f)[i] = e \/ \E j \in 1 .. Len(f) : (<<e>> \o f)[i] = f[j]
  <1>1. /\ <<e>> \o f \in Seq(Frame) /\ Len(<<e>> \o f) = Len(f) + 1
    OBVIOUS
  <1>2. ASSUME NEW i \in 1 .. Len(<<e>> \o f)
        PROVE  (<<e>> \o f)[i] = e \/ \E j \in 1 .. Len(f) : (<<e>> \o f)[i] = f[j]
    <2>1. CASE i = 1
      BY <2>1
    <2>2. CASE i # 1
      <3>1. i - 1 \in 1 .. Len(f) /\ (<<e>> \o f)[i] = f[i - 1]
        BY <1>1, <2>2
      <3> QED BY <3>1, Zenon
    <2> QED BY <2>1, <2>2, Zenon
  <1> QED BY <1>1, <1>2, Zenon

(* Of a frame popped, the rest were there before.                          *)
LEMMA FramePopped ==
    ASSUME NEW f \in Seq(Frame), f # <<>>
    PROVE  /\ Tail(f) \in Seq(Frame) /\ Len(Tail(f)) <= Len(f) /\ Head(f) \in Frame
           /\ 1 \in 1 .. Len(f) /\ Head(f) = f[1]
           /\ \A i \in 1 .. Len(Tail(f)) : \E j \in 1 .. Len(f) : Tail(f)[i] = f[j]
  <1>1. /\ Tail(f) \in Seq(Frame) /\ Len(Tail(f)) = Len(f) - 1 /\ Len(f) \in Nat /\ Head(f) \in Frame
        /\ Len(f) # 0 /\ Head(f) = f[1]
    OBVIOUS
  <1>2. ASSUME NEW i \in 1 .. Len(Tail(f)) PROVE \E j \in 1 .. Len(f) : Tail(f)[i] = f[j]
    <2>1. i + 1 \in 1 .. Len(f) /\ Tail(f)[i] = f[i + 1]
      BY <1>1
    <2> QED BY <2>1, Zenon
  <1>3. Len(Tail(f)) <= Len(f) /\ 1 \in 1 .. Len(f)
    BY <1>1
  <1> QED BY <1>1, <1>2, <1>3, Zenon

(* The initial state.                                                      *)
LEMMA InitEntitled == Init => IInv
  <1> SUFFICES ASSUME Init PROVE IInv
    OBVIOUS
  <1>1. PICK r : r = [st |-> "running", queued |-> TRUE, pending |-> {}, blocked |-> {},
     saved_blocked |-> {}, restore_sigmask |-> FALSE,
     actions |-> [s \in Sigs |-> Default], wait_event |-> "none",
     frames |-> <<>>, res |-> [call |-> "other", ret |-> "ok"], pc |-> "user",
     irqs |-> FALSE, sig |-> 0, seen |-> {}, want |-> {}, owed |-> {}]
    BY Zenon
  <1>2. r \in TaskStruct
    <2>1. [s \in Sigs |-> Default] \in [Sigs -> SigAction]
      BY Zenon DEF Default, SigAction
    <2>2. [call |-> "other", ret |-> "ok"] \in Result
      BY Zenon DEF Result
    <2>3. <<>> \in Seq(Frame)
      OBVIOUS
    <2> QED BY <1>1, <2>1, <2>2, <2>3, Zenon DEF TaskStruct
  <1>3. Entitled(r)
    <2>1. /\ r.blocked = {} /\ r.want = {} /\ r.pc = "user" /\ r.restore_sigmask = FALSE
          /\ r.res.ret = "ok" /\ r.res.call = "other" /\ r.frames = <<>> /\ r.irqs = FALSE
      BY <1>1, Zenon
    <2>2. Len(r.frames) <= MaxFrames /\ \A i \in 1 .. Len(r.frames) : SafeFrame(r.frames[i])
      BY <2>1, SignalsAssumption
    <2> QED BY <2>1, <2>2, Zenon DEF Entitled, OldBlocked
  <1>4. task = [t \in Tasks |-> r]
    BY <1>1, Zenon DEF Init
  <1> QED BY <1>2, <1>3, <1>4, Zenon DEF IInv

(* A step inside the kernel that leaves masks and frames alone.            *)
Calm(r, n) ==
    /\ n.blocked = r.blocked /\ n.want = r.want /\ n.frames = r.frames
    /\ n.saved_blocked = r.saved_blocked /\ n.restore_sigmask = r.restore_sigmask

(* Such a step keeps the invariant, if its result may go back to a caller. *)
LEMMA CalmKeeps ==
    ASSUME NEW r, NEW n, Entitled(r), Calm(r, n), r.pc # "dead", n.pc # "user",
           n.pc = "take" => n.sig \in Sigs,
           n.res.call \in Calls \cup {"other"}, n.irqs => "read" \in Calls,
           n.pc \in {"ret", "take", "stop", "park", "parked"} /\ n.res.call = "suspend"
             => n.res.ret = "eintr"
    PROVE  Entitled(n)
  <1>1. OldBlocked(n) = n.want
    BY Zenon DEF Entitled, Calm, OldBlocked
  <1> QED BY <1>1, Zenon DEF Entitled, Calm

(* A call that returns at once.                                            *)
LEMMA ReturnsIs ==
    ASSUME NEW r \in TaskStruct, NEW n, n = Returns(r)
    PROVE  /\ n \in TaskStruct /\ n.pc = "ret" /\ n.res.call = "other" /\ Calm(r, n)
           /\ n.pending = r.pending /\ n.owed = r.owed /\ n.queued = r.queued /\ n.st = r.st
           /\ n.wait_event = r.wait_event /\ n.irqs = r.irqs
  <1>1. PICK e \in Result : e = [call |-> "other", ret |-> "ok"]
    BY Zenon DEF Result
  <1>2. e.call = "other"
    BY <1>1, Zenon
  <1>3. n = [r EXCEPT !.pc = "ret", !.res = e]
    BY <1>1, Zenon DEF Returns
  <1>4. n \in TaskStruct
    BY <1>1, <1>3, Zenon DEF TaskStruct
  <1>5. n.pc = "ret" /\ n.res = e /\ Calm(r, n)
    BY <1>3, Zenon DEF TaskStruct, Calm
  <1>6. /\ n.pending = r.pending /\ n.owed = r.owed /\ n.queued = r.queued /\ n.st = r.st
        /\ n.wait_event = r.wait_event /\ n.irqs = r.irqs
    BY <1>3, Zenon DEF TaskStruct
  <1> QED BY <1>2, <1>4, <1>5, <1>6, Zenon

(* It keeps the invariant.                                                 *)
LEMMA ReturnsKeep ==
    ASSUME NEW r \in TaskStruct, NEW n, n = Returns(r), Entitled(r), r.pc = "user"
    PROVE  n \in TaskStruct /\ Entitled(n)
  <1>1. n \in TaskStruct /\ n.pc = "ret" /\ n.res.call = "other" /\ Calm(r, n) /\ n.irqs = r.irqs
    BY ReturnsIs
  <1>2. n.res.call \in Calls \cup {"other"} /\ (n.irqs => "read" \in Calls)
    BY <1>1, Zenon DEF Entitled
  <1> QED BY <1>1, <1>2, CalmKeeps, Zenon

(* kill.                                                                   *)
LEMMA KillKeeps ==
    ASSUME IInv, NEW t \in Tasks, NEW u \in Tasks, NEW s \in Sigs, ksys_kill(t, u, s) PROVE IInv'
  <1>1. PICK M : M = signal_queue(task, u, s)
    BY Zenon
  <1>2. M \in All /\ \A v \in Tasks : Mild(task[v], M[v])
    <2>1. task \in All
      BY Zenon DEF IInv, All
    <2> QED BY <1>1, <2>1, SendsMild, Zenon
  <1>3. \A v \in Tasks : M[v] \in TaskStruct /\ Entitled(M[v])
    BY <1>2, EntitledMild, Zenon DEF IInv, All
  <1>4. M[t].pc = "user"
    BY <1>2, Zenon DEF ksys_kill, Free, At, Mild
  <1>5. PICK n : n = Returns(M[t])
    BY Zenon
  <1>6. n \in TaskStruct /\ Entitled(n)
    BY <1>3, <1>4, <1>5, ReturnsKeep, Zenon
  <1>8. task' = [M EXCEPT ![t] = n]
    BY <1>1, <1>5, Zenon DEF ksys_kill
  <1>9. task' \in [Tasks -> TaskStruct] /\ \A v \in Tasks : Entitled(task'[v])
    BY <1>2, <1>3, <1>6, <1>8, Zenon DEF All
  <1> QED BY <1>9, Zenon DEF IInv

(* The calls that change handlers and masks.                               *)
LEMMA MaskCallsKeep ==
    ASSUME IInv, NEW t \in Tasks,
           \/ \E n \in NewActions : ksys_rt_sigaction(t, n[1], n[2])
           \/ \E how \in {"block", "unblock", "setmask"}, set \in Masks : ksys_rt_sigprocmask(t, how, set)
           \/ \E set \in Masks : ksys_rt_sigsuspend(t, set)
    PROVE  IInv'
  <1> DEFINE R == task[t]
  <1>0. /\ R \in TaskStruct /\ Entitled(R) /\ R.pc = "user" /\ R.blocked = R.want
        /\ ~R.restore_sigmask /\ R.blocked \in SUBSET Sigs
    <2>1. R \in TaskStruct /\ Entitled(R) /\ R.pc = "user"
      BY Zenon DEF IInv, ksys_rt_sigaction, ksys_rt_sigprocmask, ksys_rt_sigsuspend, Free, At
    <2> QED BY <2>1, Zenon DEF Entitled, OldBlocked, TaskStruct
  <1> HIDE DEF R
  <1>1. ASSUME NEW n \in NewActions, ksys_rt_sigaction(t, n[1], n[2]) PROVE IInv'
    <2>1. PICK s \in Sigs, a \in SigAction : s = n[1] /\ a = n[2]
      BY SignalsAssumption, Zenon
    <2>2. PICK b \in SigAction : b = [a EXCEPT !.mask = @ \ Unblockable]
      <3>1. [a EXCEPT !.mask = a.mask \ Unblockable] \in SigAction
        BY Zenon DEF SigAction
      <3> QED BY <3>1, Zenon
    <2>3. PICK r : r = [R EXCEPT !.actions[s] = b]
      BY Zenon
    <2>4. r \in TaskStruct
      BY <1>0, <2>1, <2>2, <2>3, Zenon DEF TaskStruct
    <2>5. Calm(R, r) /\ r.pc = R.pc /\ r.res = R.res /\ r.irqs = R.irqs
      BY <1>0, <2>3, Zenon DEF TaskStruct, Calm
    <2>6. Entitled(r)
      BY <1>0, <2>5, Zenon DEF Entitled, Calm, OldBlocked
    <2>7. PICK m : m = Returns(r)
      BY Zenon
    <2>8. r.pc = "user"
      BY <1>0, <2>5, Zenon
    <2>9. m \in TaskStruct /\ Entitled(m)
      BY <2>4, <2>6, <2>7, <2>8, ReturnsKeep, Zenon
    <2>10. Do(t, m)
      BY <1>1, <2>1, <2>2, <2>3, <2>7, Zenon DEF ksys_rt_sigaction, R
    <2> QED BY <2>9, <2>10, DoKeeps, Zenon
  <1>2. ASSUME NEW how \in {"block", "unblock", "setmask"}, NEW set \in Masks,
               ksys_rt_sigprocmask(t, how, set)
        PROVE  IInv'
    <2>1. PICK new \in SUBSET Sigs : new = set \ Unblockable /\ new \cap Unblockable = {}
      <3>1. set \ Unblockable \in SUBSET Sigs /\ (set \ Unblockable) \cap Unblockable = {}
        BY SignalsAssumption, Zenon
      <3> QED BY <3>1, Zenon
    <2>2. PICK mask \in SUBSET Sigs :
            /\ mask \cap Unblockable = {}
            /\ Do(t, Returns([R EXCEPT !.blocked = mask, !.want = mask]))
      <3>1. R.blocked \cup new \in SUBSET Sigs /\ R.blocked \ new \in SUBSET Sigs
        BY <1>0, Zenon
      <3>2. R.blocked \cap Unblockable = {}
        BY <1>0, Zenon DEF Entitled
      <3>3. CASE how = "block"
        BY <1>2, <2>1, <3>1, <3>2, <3>3, Zenon DEF ksys_rt_sigprocmask, R
      <3>4. CASE how = "unblock"
        BY <1>2, <2>1, <3>1, <3>2, <3>4, Zenon DEF ksys_rt_sigprocmask, R
      <3>5. CASE how = "setmask"
        BY <1>2, <2>1, <3>1, <3>2, <3>5, Zenon DEF ksys_rt_sigprocmask, R
      <3> QED BY <3>3, <3>4, <3>5, Zenon
    <2>3. PICK r : r = [R EXCEPT !.blocked = mask, !.want = mask]
      BY Zenon
    <2>4. r \in TaskStruct
      BY <1>0, <2>2, <2>3, Zenon DEF TaskStruct
    <2>5. /\ r.pc = R.pc /\ r.res = R.res /\ r.blocked = mask /\ r.want = mask /\ r.frames = R.frames
          /\ r.restore_sigmask = R.restore_sigmask /\ r.irqs = R.irqs
      BY <1>0, <2>3, Zenon DEF TaskStruct
    <2>6. Entitled(r)
      BY <1>0, <2>2, <2>5, Zenon DEF Entitled, OldBlocked
    <2>7. PICK m : m = Returns(r)
      BY Zenon
    <2>8. r.pc = "user"
      BY <1>0, <2>5, Zenon
    <2>9. m \in TaskStruct /\ Entitled(m)
      BY <2>4, <2>6, <2>7, <2>8, ReturnsKeep, Zenon
    <2>10. Do(t, m)
      BY <2>2, <2>3, <2>7, Zenon
    <2> QED BY <2>9, <2>10, DoKeeps, Zenon
  <1>3. ASSUME NEW set \in Masks, ksys_rt_sigsuspend(t, set) PROVE IInv'
    <2>1. PICK new \in SUBSET Sigs : new = set \ Unblockable /\ new \cap Unblockable = {}
      <3>1. set \ Unblockable \in SUBSET Sigs /\ (set \ Unblockable) \cap Unblockable = {}
        BY SignalsAssumption, Zenon
      <3> QED BY <3>1, Zenon
    <2>2. PICK e \in Result : e = [call |-> "suspend", ret |-> "ok"]
      BY Zenon DEF Result
    <2>3. PICK m : m = [R EXCEPT !.saved_blocked = R.blocked, !.restore_sigmask = TRUE,
                                 !.blocked = new, !.res = e, !.pc = "test"]
      BY Zenon
    <2>4. m \in TaskStruct
      BY <1>0, <2>1, <2>2, <2>3, Zenon DEF TaskStruct
    <2>5. /\ m.pc = "test" /\ m.blocked = new /\ m.want = R.want /\ m.frames = R.frames
          /\ m.restore_sigmask /\ m.saved_blocked = R.blocked /\ m.irqs = R.irqs /\ m.res = e
      BY <1>0, <2>3, Zenon DEF TaskStruct
    <2>a. e.call \in Calls
      BY <1>3, <2>2, Zenon DEF ksys_rt_sigsuspend
    <2>6. Entitled(m)
      BY <1>0, <2>1, <2>a, <2>5, Zenon DEF Entitled, OldBlocked
    <2>7. Do(t, m)
      BY <1>3, <2>1, <2>2, <2>3, Zenon DEF ksys_rt_sigsuspend, R
    <2> QED BY <2>4, <2>6, <2>7, DoKeeps, Zenon
  <1> QED BY <1>1, <1>2, <1>3, Zenon

(* The other calls: a blocking call begun or made again, rt_sigreturn and  *)
(* execve.                                                                 *)
LEMMA OtherCallsKeep ==
    ASSUME IInv, NEW t \in Tasks,
           (\E c \in Calls : Blocking(t, c)) \/ Again(t) \/ ksys_rt_sigreturn(t) \/ exec_signals(t)
    PROVE  IInv'
  <1> DEFINE R == task[t]
  <1>0. /\ R \in TaskStruct /\ Entitled(R) /\ R.pc = "user"
        /\ R.res \in Result /\ R.frames \in Seq(Frame)
    <2>1. R \in TaskStruct /\ Entitled(R) /\ R.pc = "user"
      BY Zenon DEF IInv, Blocking, Again, ksys_rt_sigreturn, exec_signals, Free, At
    <2> QED BY <2>1, Zenon DEF TaskStruct
  <1> HIDE DEF R
  <1>1. ASSUME NEW e \in Result, e.call \in Calls \cup {"other"},
               Do(t, [R EXCEPT !.res = e, !.pc = "test"])
        PROVE  IInv'
    <2>1. PICK m : m = [R EXCEPT !.res = e, !.pc = "test"]
      BY Zenon
    <2>2. m \in TaskStruct
      BY <1>0, <2>1, Zenon DEF TaskStruct
    <2>3. m.pc = "test" /\ Calm(R, m) /\ m.res = e /\ m.irqs = R.irqs
      BY <1>0, <2>1, Zenon DEF TaskStruct, Calm
    <2>a. m.res.call \in Calls \cup {"other"} /\ (m.irqs => "read" \in Calls)
      BY <1>0, <1>1, <2>3, Zenon DEF Entitled
    <2>4. Entitled(m)
      BY <1>0, <2>3, <2>a, CalmKeeps, Zenon
    <2> QED BY <1>1, <2>1, <2>2, <2>4, DoKeeps, Zenon
  <1>2. ASSUME NEW c \in Calls, Blocking(t, c) PROVE IInv'
    <2>1. [call |-> c, ret |-> "ok"] \in Result /\ [call |-> c, ret |-> "ok"].call \in Calls \cup {"other"}
      BY SignalsAssumption, Zenon DEF Result
    <2> QED BY <1>1, <1>2, <2>1, Zenon DEF Blocking, R
  <1>3. CASE Again(t)
    <2>1. PICK e \in Result : e = [R.res EXCEPT !.ret = "ok"]
      BY <1>0, Zenon DEF Result
    <2>2. Do(t, [R EXCEPT !.res = e, !.pc = "test"])
      BY <1>3, <2>1, Zenon DEF Again, R
    <2>3. e.call = R.res.call
      BY <1>0, <2>1, Zenon DEF Result
    <2>4. e.call \in Calls \cup {"other"}
      BY <1>0, <2>3, Zenon DEF Entitled
    <2> QED BY <1>1, <2>1, <2>2, <2>4, Zenon
  <1>4. CASE ksys_rt_sigreturn(t)
    <2>1. PICK f \in Frame, b \in SUBSET Sigs : f = Head(R.frames) /\ b = f.blocked \ Unblockable
      <3>1. Head(R.frames) \in Frame
        BY <1>0, <1>4, FramePopped, Zenon DEF ksys_rt_sigreturn, R
      <3>2. Head(R.frames).blocked \in SUBSET Sigs
        BY <3>1, Zenon DEF Frame
      <3> QED BY <3>1, <3>2, Zenon
    <2>2. PICK g \in Seq(Frame) : g = Tail(R.frames)
      BY <1>0, <1>4, FramePopped, Zenon DEF ksys_rt_sigreturn, R
    <2>3. SafeFrame(f)
      BY <1>0, <1>4, <2>1, FramePopped, Zenon DEF ksys_rt_sigreturn, R, Entitled
    <2>4. Len(g) <= MaxFrames /\ \A i \in 1 .. Len(g) : SafeFrame(g[i])
      <3>1. Len(g) <= Len(R.frames) /\ \A i \in 1 .. Len(g) : \E j \in 1 .. Len(R.frames) : g[i] = R.frames[j]
        BY <1>0, <1>4, <2>2, FramePopped, Zenon DEF ksys_rt_sigreturn, R
      <3>2. Len(R.frames) <= MaxFrames /\ \A i \in 1 .. Len(R.frames) : SafeFrame(R.frames[i])
        BY <1>0, Zenon DEF Entitled
      <3>3. Len(g) <= MaxFrames
        BY <1>0, <2>2, <3>1, <3>2, SignalsAssumption
      <3> QED BY <3>1, <3>2, <3>3, Zenon
    <2>5. PICK e \in Result, w \in SUBSET Sigs : e = f.res /\ w = f.want
      BY <2>1, Zenon DEF Frame
    <2>6. PICK m : m = [R EXCEPT !.frames = g, !.res = e, !.blocked = b, !.want = w, !.pc = "ret"]
      BY Zenon
    <2>7. m \in TaskStruct
      <3>1. g \in Seq(Frame) /\ e \in Result /\ b \in SUBSET Sigs /\ w \in SUBSET Sigs
        BY <2>1, <2>2, <2>5, Zenon
      <3> QED BY <1>0, <2>6, <3>1, Zenon DEF TaskStruct
    <2>8. /\ m.frames = g /\ m.res = e /\ m.blocked = b /\ m.want = w /\ m.pc = "ret"
          /\ m.restore_sigmask = R.restore_sigmask /\ m.irqs = R.irqs
      BY <1>0, <2>6, Zenon DEF TaskStruct
    <2>9. /\ b = w /\ w \cap Unblockable = {} /\ (e.call = "suspend" => e.ret = "eintr")
          /\ e.call \in Calls \cup {"other"}
      BY <2>1, <2>3, <2>5, Zenon DEF SafeFrame
    <2>10. Entitled(m)
      BY <1>0, <2>4, <2>8, <2>9, Zenon DEF Entitled, OldBlocked
    <2>11. Do(t, m)
      BY <1>4, <2>1, <2>2, <2>5, <2>6, Zenon DEF ksys_rt_sigreturn, R
    <2> QED BY <2>7, <2>10, <2>11, DoKeeps, Zenon
  <1>5. CASE exec_signals(t)
    <2>1. PICK a \in [Sigs -> SigAction] :
            a = [s \in Sigs |-> [Default EXCEPT !.h = IF R.actions[s].h = "ign" THEN "ign" ELSE "dfl"]]
      <3>1. \A h \in {"ign", "dfl"} : [Default EXCEPT !.h = h] \in SigAction
        BY Zenon DEF Default, SigAction
      <3> QED BY <3>1, Zenon
    <2>2. PICK r : r = [R EXCEPT !.frames = <<>>, !.actions = a]
      BY Zenon
    <2>3. <<>> \in Seq(Frame) /\ Len(<<>>) <= MaxFrames /\ 1 .. Len(<<>>) = {}
      BY SignalsAssumption
    <2>4. r \in TaskStruct
      BY <1>0, <2>1, <2>2, <2>3, Zenon DEF TaskStruct
    <2>5. /\ r.pc = R.pc /\ r.res = R.res /\ r.frames = <<>> /\ r.blocked = R.blocked
          /\ r.want = R.want /\ r.restore_sigmask = R.restore_sigmask
          /\ r.saved_blocked = R.saved_blocked /\ r.irqs = R.irqs
      BY <1>0, <2>2, Zenon DEF TaskStruct
    <2>6. Entitled(r)
      BY <1>0, <2>3, <2>5, Zenon DEF Entitled, OldBlocked
    <2>7. PICK m : m = Returns(r)
      BY Zenon
    <2>8. r.pc = "user"
      BY <1>0, <2>5, Zenon
    <2>9. m \in TaskStruct /\ Entitled(m)
      BY <2>4, <2>6, <2>7, <2>8, ReturnsKeep, Zenon
    <2>10. Do(t, m)
      BY <1>5, <2>1, <2>2, <2>7, Zenon DEF exec_signals, R
    <2> QED BY <2>9, <2>10, DoKeeps, Zenon
  <1> QED BY <1>2, <1>3, <1>4, <1>5, Zenon

(* The tests of the blocking calls: a sleep, ...                           *)
LEMMA SleepIs ==
    ASSUME NEW t \in Tasks, task[t] \in TaskStruct, Sleep(t)
    PROVE  \E n \in TaskStruct :
             /\ Do(t, n) /\ Calm(task[t], n) /\ n.pc = "block" /\ n.res = task[t].res
             /\ n.pending = task[t].pending /\ n.owed = task[t].owed /\ n.irqs = task[t].irqs
             /\ n.queued = task[t].queued /\ n.st = task[t].st /\ n.wait_event = task[t].wait_event
  <1>1. PICK n : n = [task[t] EXCEPT !.pc = "block"]
    BY Zenon
  <1>2. n \in TaskStruct
    BY <1>1, Zenon DEF TaskStruct
  <1>3. /\ Calm(task[t], n) /\ n.pc = "block" /\ n.res = task[t].res
        /\ n.pending = task[t].pending /\ n.owed = task[t].owed /\ n.irqs = task[t].irqs
        /\ n.queued = task[t].queued /\ n.st = task[t].st /\ n.wait_event = task[t].wait_event
    BY <1>1, Zenon DEF TaskStruct, Calm
  <1>4. Do(t, n)
    BY <1>1, Zenon DEF Sleep
  <1> QED BY <1>2, <1>3, <1>4, Zenon

(* ... or a result.                                                        *)
LEMMA LeaveIs ==
    ASSUME NEW t \in Tasks, task[t] \in TaskStruct, NEW ret \in {"ok", "eintr", "restart"},
           \/ Leave(t, ret)
           \/ /\ task[t].res.call = "read"
              /\ Do(t, [task[t] EXCEPT !.pc = "ret", !.res.ret = ret, !.irqs = TRUE])
    PROVE  \E n \in TaskStruct :
             /\ Do(t, n) /\ Calm(task[t], n) /\ n.pc = "ret"
             /\ n.irqs = task[t].irqs \/ task[t].res.call = "read"
             /\ n.res.call = task[t].res.call /\ n.res.ret = ret
             /\ n.pending = task[t].pending /\ n.owed = task[t].owed
             /\ n.queued = task[t].queued /\ n.st = task[t].st /\ n.wait_event = task[t].wait_event
  <1>0. task[t].res \in Result /\ task[t].irqs \in BOOLEAN
    BY Zenon DEF TaskStruct
  <1>1. PICK e \in Result : e = [task[t].res EXCEPT !.ret = ret]
    BY <1>0, Zenon DEF Result
  <1>2. e.call = task[t].res.call /\ e.ret = ret
    BY <1>0, <1>1, Zenon DEF Result
  <1>a. PICK i \in BOOLEAN : /\ Do(t, [task[t] EXCEPT !.pc = "ret", !.res = e, !.irqs = i])
                             /\ i = task[t].irqs \/ task[t].res.call = "read"
    <2>1. CASE /\ task[t].res.call = "read"
               /\ Do(t, [task[t] EXCEPT !.pc = "ret", !.res.ret = ret, !.irqs = TRUE])
      <3>1. Do(t, [task[t] EXCEPT !.pc = "ret", !.res = e, !.irqs = TRUE])
        BY <1>1, <2>1, Zenon
      <3> QED BY <2>1, <3>1, Zenon
    <2>2. CASE Leave(t, ret)
      <3>1. Do(t, [task[t] EXCEPT !.pc = "ret", !.res = e])
        BY <1>1, <2>2, Zenon DEF Leave
      <3>2. [task[t] EXCEPT !.pc = "ret", !.res = e]
              = [task[t] EXCEPT !.pc = "ret", !.res = e, !.irqs = task[t].irqs]
        BY Zenon DEF TaskStruct
      <3>3. Do(t, [task[t] EXCEPT !.pc = "ret", !.res = e, !.irqs = task[t].irqs])
        BY <3>1, <3>2, Zenon
      <3> QED BY <1>0, <3>3, Zenon
    <2> QED BY <2>1, <2>2, Zenon
  <1>3. PICK n : n = [task[t] EXCEPT !.pc = "ret", !.res = e, !.irqs = i]
    BY Zenon
  <1>4. n \in TaskStruct
    BY <1>1, <1>3, Zenon DEF TaskStruct
  <1>5. /\ Calm(task[t], n) /\ n.pc = "ret" /\ n.res = e /\ n.irqs = i
        /\ n.pending = task[t].pending /\ n.owed = task[t].owed
        /\ n.queued = task[t].queued /\ n.st = task[t].st /\ n.wait_event = task[t].wait_event
    BY <1>3, Zenon DEF TaskStruct, Calm
  <1>6. Do(t, n) /\ (n.irqs = task[t].irqs \/ task[t].res.call = "read")
    BY <1>a, <1>3, <1>5, Zenon
  <1> QED BY <1>2, <1>4, <1>5, <1>6, Zenon

(* A step of t inside the kernel.                                          *)
LEMMA MoveKeeps ==
    ASSUME IInv, NEW t \in Tasks, NEW n \in TaskStruct, Do(t, n), Calm(task[t], n),
           task[t].pc # "dead", n.pc # "user", n.pc = "take" => n.sig \in Sigs,
           n.res.call = task[t].res.call \/ n.res.call = "other",
           n.irqs = task[t].irqs \/ "read" \in Calls,
           n.pc \in {"ret", "take", "stop", "park", "parked"} /\ n.res.call = "suspend"
             => n.res.ret = "eintr"
    PROVE  IInv'
  <1>1. Entitled(task[t])
    BY Zenon DEF IInv
  <1>2. n.res.call \in Calls \cup {"other"} /\ (n.irqs => "read" \in Calls)
    BY <1>1, Zenon DEF Entitled
  <1>3. Entitled(n)
    BY <1>1, <1>2, CalmKeeps, Zenon
  <1> QED BY <1>3, DoKeeps, Zenon

(* rt_sigsuspend and read.                                                 *)
LEMMA TestsKeep ==
    ASSUME IInv, NEW t \in Tasks, SuspendTest(t) \/ ReadTest(t) PROVE IInv'
  <1>0. task[t] \in TaskStruct /\ task[t].pc = "test" /\ task[t].irqs \in BOOLEAN
    <2>1. task[t] \in TaskStruct /\ task[t].pc = "test"
      BY Zenon DEF IInv, SuspendTest, ReadTest, At
    <2> QED BY <2>1, Zenon DEF TaskStruct
  <1>1. CASE Sleep(t)
    <2>1. PICK n \in TaskStruct : /\ Do(t, n) /\ Calm(task[t], n) /\ n.pc = "block"
                                 /\ n.res.call = task[t].res.call /\ n.irqs = task[t].irqs
      BY <1>0, <1>1, SleepIs, Zenon
    <2> QED BY <1>0, <2>1, MoveKeeps, Zenon
  <1>2. CASE task[t].res.call = "suspend" /\ Leave(t, "eintr")
    <2>1. PICK n \in TaskStruct : /\ Do(t, n) /\ Calm(task[t], n) /\ n.pc = "ret" /\ n.res.ret = "eintr"
                                 /\ n.res.call = task[t].res.call /\ n.irqs = task[t].irqs
      BY <1>0, <1>2, LeaveIs, Zenon
    <2> QED BY <1>0, <2>1, MoveKeeps, Zenon
  <1>3. ASSUME NEW ret \in {"ok", "restart"}, task[t].res.call = "read",
               Do(t, [task[t] EXCEPT !.pc = "ret", !.res.ret = ret, !.irqs = TRUE])
        PROVE  IInv'
    <2>0. ret \in {"ok", "eintr", "restart"}
      BY Zenon
    <2>1. PICK n \in TaskStruct :
            Do(t, n) /\ Calm(task[t], n) /\ n.pc = "ret" /\ n.res.call = task[t].res.call
      BY <1>0, <1>3, <2>0, LeaveIs, Zenon
    <2>2. n.res.call # "suspend" /\ "read" \in Calls
      BY <1>3, <2>1, Zenon DEF IInv, Entitled
    <2> QED BY <1>0, <2>1, <2>2, MoveKeeps, Zenon
  <1> QED BY <1>1, <1>2, <1>3, Zenon DEF SuspendTest, ReadTest

(* wait4: what one round does to the caller, ...                           *)
Rounds(t) ==
    /\ Calm(task[t], task'[t]) /\ task'[t].pc \in {"ret", "block", "test"}
    /\ task'[t].res.call = "wait" /\ task'[t].irqs = task[t].irqs
    /\ task'[t].queued = task[t].queued /\ task'[t].st = task[t].st
    /\ task'[t].wait_event = task[t].wait_event
    /\ \/ task'[t].pending = task[t].pending /\ task'[t].owed = task[t].owed
       \/ /\ task'[t].pending = task[t].pending \ {SIGCHLD}
          /\ task'[t].owed = task[t].owed \ {SIGCHLD}
    /\ task'[t].pc = "block" =>
         /\ ~signal_pending(task[t]) /\ task'[t].pending = task[t].pending
         /\ Zombies(t) = {} /\ Reported(t, "stopped") = {} /\ Reported(t, "continued") = {}

(* ... and to the child it reports.                                        *)
ChildSeen(t, v) ==
    /\ Parent[v] = t /\ task'[t].pc = "ret"
    /\ \/ task[v].st = "zombie" /\ task'[v] = [task[v] EXCEPT !.st = "reaped"]
       \/ task'[v] = [task[v] EXCEPT !.wait_event = "none"]

(* What a round is.                                                        *)
LEMMA RoundIs ==
    ASSUME NEW t \in Tasks, WaitTest(t)
    PROVE  \/ \E u \in Zombies(t) : Reap(t, u)
           \/ \E u \in Reported(t, "stopped") \cup Reported(t, "continued") : Report(t, u)
           \/ Leave(t, "ok") \/ Leave(t, "restart") \/ Do(t, Dropped(task[t]))
           \/ /\ Sleep(t) /\ ~signal_pending(task[t])
              /\ Zombies(t) = {} /\ Reported(t, "stopped") = {} /\ Reported(t, "continued") = {}
  <1>1. CASE Zombies(t) # {}
    BY <1>1, Zenon DEF WaitTest, WaitRound
  <1>2. CASE Zombies(t) = {} /\ Reported(t, "stopped") # {}
    BY <1>2, Zenon DEF WaitTest, WaitRound
  <1>3. CASE Zombies(t) = {} /\ Reported(t, "stopped") = {} /\ Reported(t, "continued") # {}
    BY <1>3, Zenon DEF WaitTest, WaitRound
  <1>4. CASE Zombies(t) = {} /\ Reported(t, "stopped") = {} /\ Reported(t, "continued") = {}
    BY <1>4, Zenon DEF WaitTest, WaitRound
  <1> QED BY <1>1, <1>2, <1>3, <1>4, Zenon

(* A child whose event is reported.                                        *)
LEMMA SeenIs ==
    ASSUME NEW r \in TaskStruct, NEW m,
           m = [r EXCEPT !.st = "reaped"] \/ m = [r EXCEPT !.wait_event = "none"]
    PROVE  m \in TaskStruct /\ Mild(r, m)
  <1>1. ASSUME m = [r EXCEPT !.st = "reaped"] PROVE m \in TaskStruct
    BY <1>1, Zenon DEF TaskStruct
  <1>2. ASSUME m = [r EXCEPT !.wait_event = "none"] PROVE m \in TaskStruct
    BY <1>2, Zenon DEF TaskStruct
  <1>3. Mild(r, m)
    BY Zenon DEF TaskStruct, Mild
  <1> QED BY <1>1, <1>2, <1>3, Zenon

(* What it does.                                                           *)
LEMMA WaitIs ==
    ASSUME NEW t \in Tasks, task \in All, WaitTest(t)
    PROVE  /\ task' \in All /\ task[t].pc = "test" /\ task[t].res.call = "wait" /\ Rounds(t)
           /\ \A v \in Tasks : v # t => task'[v] = task[v] \/ ChildSeen(t, v)
  <1> DEFINE R == task[t]
  <1>0. R \in TaskStruct /\ R.pc = "test" /\ R.res.call = "wait" /\ t \in Tasks
        /\ \A v \in Tasks : task[v] \in TaskStruct
    BY Zenon DEF All, WaitTest, At
  <1>d. PICK d : d = Dropped(R)
    BY Zenon
  <1>1. d \in TaskStruct /\ Calm(R, d) /\ d.pending = R.pending \ {SIGCHLD}
        /\ d.owed = R.owed \ {SIGCHLD} /\ d.pc = R.pc /\ d.res = R.res /\ d.irqs = R.irqs
        /\ d.queued = R.queued /\ d.st = R.st /\ d.wait_event = R.wait_event
    <2>0. d = [R EXCEPT !.pending = R.pending \ {SIGCHLD}, !.owed = R.owed \ {SIGCHLD}]
      BY <1>0, <1>d, Zenon DEF Dropped, TaskStruct
    <2>1. R.pending \ {SIGCHLD} \in SUBSET Sigs /\ R.owed \ {SIGCHLD} \in SUBSET Sigs
      BY <1>0, Zenon DEF TaskStruct
    <2>2. d \in TaskStruct
      BY <1>0, <2>0, <2>1, Zenon DEF TaskStruct
    <2>3. Calm(R, d) /\ d.pc = R.pc /\ d.res = R.res /\ d.irqs = R.irqs
          /\ d.queued = R.queued /\ d.st = R.st /\ d.wait_event = R.wait_event
      BY <1>0, <2>0, Zenon DEF TaskStruct, Calm
    <2>4. d.pending = R.pending \ {SIGCHLD} /\ d.owed = R.owed \ {SIGCHLD}
      BY <1>0, <2>0, Zenon DEF TaskStruct
    <2> QED BY <2>2, <2>3, <2>4, Zenon
  <1>2. ASSUME NEW n \in TaskStruct, Do(t, n)
        PROVE  task' \in All /\ task'[t] = n /\ \A v \in Tasks : v # t => task'[v] = task[v]
    BY <1>2, Zenon DEF Do, All
  <1> DEFINE Others == \A v \in Tasks : v # t => task'[v] = task[v] \/ ChildSeen(t, v)
  <1> SUFFICES task' \in All /\ Rounds(t) /\ Others
    BY <1>0, Zenon DEF R
  <1>3. ASSUME NEW r \in {"ok", "restart"}, Leave(t, r) PROVE task' \in All /\ Rounds(t) /\ Others
    <2>0. r \in {"ok", "eintr", "restart"} /\ task[t].res.call # "read"
      BY <1>0, Zenon
    <2>1. PICK n \in TaskStruct :
            /\ Do(t, n) /\ Calm(R, n) /\ n.pc = "ret" /\ n.irqs = R.irqs
            /\ n.res.call = R.res.call /\ n.pending = R.pending /\ n.owed = R.owed
            /\ n.queued = R.queued /\ n.st = R.st /\ n.wait_event = R.wait_event
      BY <1>0, <1>3, <2>0, LeaveIs, Zenon
    <2>2. task' \in All /\ task'[t] = n /\ \A v \in Tasks : v # t => task'[v] = task[v]
      BY <1>2, <2>1, Zenon
    <2>3. Rounds(t)
      BY <1>0, <2>1, <2>2, Zenon DEF Rounds
    <2> QED BY <2>2, <2>3, Zenon
  <1>4. CASE /\ Sleep(t) /\ ~signal_pending(task[t])
             /\ Zombies(t) = {} /\ Reported(t, "stopped") = {} /\ Reported(t, "continued") = {}
    <2>1. PICK n \in TaskStruct :
            /\ Do(t, n) /\ Calm(R, n) /\ n.pc = "block" /\ n.irqs = R.irqs
            /\ n.res = R.res /\ n.pending = R.pending /\ n.owed = R.owed
            /\ n.queued = R.queued /\ n.st = R.st /\ n.wait_event = R.wait_event
      BY <1>0, <1>4, SleepIs, Zenon
    <2>2. task' \in All /\ task'[t] = n /\ \A v \in Tasks : v # t => task'[v] = task[v]
      BY <1>2, <2>1, Zenon
    <2>3. Rounds(t)
      BY <1>0, <1>4, <2>1, <2>2, Zenon DEF Rounds
    <2> QED BY <2>2, <2>3, Zenon
  <1>5. CASE Do(t, Dropped(task[t]))
    <2>1. Do(t, d)
      BY <1>5, <1>d, Zenon
    <2>2. task' \in All /\ task'[t] = d /\ \A v \in Tasks : v # t => task'[v] = task[v]
      BY <1>1, <1>2, <2>1, Zenon
    <2>3. Rounds(t)
      BY <1>0, <1>1, <2>2, Zenon DEF Rounds
    <2> QED BY <2>2, <2>3, Zenon
  <1>6. ASSUME NEW u \in Zombies(t), Reap(t, u) PROVE task' \in All /\ Rounds(t) /\ Others
    <2>0. u \in Tasks /\ u # t /\ Parent[u] = t /\ task[u].st = "zombie"
      BY SignalsAssumption, Zenon DEF Zombies, Children
    <2>1. PICK n : n = [d EXCEPT !.pc = "ret"]
      BY Zenon
    <2>2. n \in TaskStruct
      BY <1>1, <2>1, Zenon DEF TaskStruct
    <2>3. /\ Calm(d, n) /\ n.pc = "ret" /\ n.irqs = d.irqs /\ n.res = d.res /\ n.pending = d.pending
          /\ n.owed = d.owed /\ n.queued = d.queued /\ n.st = d.st /\ n.wait_event = d.wait_event
      BY <1>1, <2>1, Zenon DEF TaskStruct, Calm
    <2>4. PICK m : m = [task[u] EXCEPT !.st = "reaped"]
      BY Zenon
    <2>5. m \in TaskStruct
      BY <1>0, <2>0, <2>4, SeenIs, Zenon
    <2>6. task' = [task EXCEPT ![u] = m, ![t] = n]
      BY <1>6, <1>d, <2>0, <2>1, <2>4, Zenon DEF Reap, All
    <2>7. /\ task' \in All /\ task'[t] = n /\ task'[u] = m
          /\ \A v \in Tasks : v # t /\ v # u => task'[v] = task[v]
      BY <2>0, <2>2, <2>5, <2>6, Zenon DEF All
    <2>8. Rounds(t)
      BY <1>0, <1>1, <2>3, <2>7, Zenon DEF Rounds, Calm
    <2>9. ChildSeen(t, u)
      BY <2>0, <2>3, <2>4, <2>7, Zenon DEF ChildSeen
    <2> QED BY <2>7, <2>8, <2>9, Zenon
  <1>7. ASSUME NEW u \in Reported(t, "stopped") \cup Reported(t, "continued"), Report(t, u)
        PROVE  task' \in All /\ Rounds(t) /\ Others
    <2>0. u \in Tasks /\ u # t /\ Parent[u] = t
      BY SignalsAssumption, Zenon DEF Reported, Children
    <2>1. PICK n : n = [R EXCEPT !.pc = "ret"]
      BY Zenon
    <2>2. n \in TaskStruct
      BY <1>0, <2>1, Zenon DEF TaskStruct
    <2>3. /\ Calm(R, n) /\ n.pc = "ret" /\ n.irqs = R.irqs /\ n.res = R.res /\ n.pending = R.pending
          /\ n.owed = R.owed /\ n.queued = R.queued /\ n.st = R.st /\ n.wait_event = R.wait_event
      BY <1>0, <2>1, Zenon DEF TaskStruct, Calm
    <2>4. PICK m : m = [task[u] EXCEPT !.wait_event = "none"]
      BY Zenon
    <2>5. m \in TaskStruct
      BY <1>0, <2>0, <2>4, SeenIs, Zenon
    <2>6. task' = [task EXCEPT ![u] = m, ![t] = n]
      BY <1>7, <2>0, <2>1, <2>4, Zenon DEF Report, All
    <2>7. /\ task' \in All /\ task'[t] = n /\ task'[u] = m
          /\ \A v \in Tasks : v # t /\ v # u => task'[v] = task[v]
      BY <2>0, <2>2, <2>5, <2>6, Zenon DEF All
    <2>8. Rounds(t)
      BY <1>0, <2>3, <2>7, Zenon DEF Rounds
    <2>9. ChildSeen(t, u)
      BY <2>0, <2>3, <2>4, <2>7, Zenon DEF ChildSeen
    <2> QED BY <2>7, <2>8, <2>9, Zenon
  <1> QED BY <1>3, <1>4, <1>5, <1>6, <1>7, RoundIs, Zenon

(* So wait4 keeps the invariant.                                           *)
LEMMA WaitKeeps == ASSUME IInv, NEW t \in Tasks, WaitTest(t) PROVE IInv'
  <1>0. task \in All
    BY Zenon DEF IInv, All
  <1>1. /\ task' \in All /\ task[t].pc = "test" /\ task[t].res.call = "wait" /\ Rounds(t)
        /\ \A v \in Tasks : v # t => task'[v] = task[v] \/ ChildSeen(t, v)
    BY <1>0, WaitIs, Zenon
  <1>2. Entitled(task'[t])
    <2>1. /\ Calm(task[t], task'[t]) /\ task'[t].pc \in {"ret", "block", "test"}
          /\ task'[t].res.call = "wait" /\ task'[t].irqs = task[t].irqs
      BY <1>1, Zenon DEF Rounds
    <2>2. task'[t].res.call \in Calls \cup {"other"} /\ (task'[t].irqs => "read" \in Calls)
      BY <1>1, <2>1, Zenon DEF IInv, Entitled
    <2> QED BY <1>1, <2>1, <2>2, CalmKeeps, Zenon DEF IInv
  <1>3. ASSUME NEW v \in Tasks, v # t PROVE Entitled(task'[v])
    <2>1. CASE task'[v] = task[v]
      BY <2>1, Zenon DEF IInv
    <2>2. CASE ChildSeen(t, v)
      <3>1. task[v] \in TaskStruct /\ Entitled(task[v])
        BY Zenon DEF IInv
      <3>2. Mild(task[v], task'[v])
        BY <2>2, <3>1, SeenIs, Zenon DEF ChildSeen
      <3> QED BY <3>1, <3>2, EntitledMild, Zenon
    <2> QED BY <1>1, <1>3, <2>1, <2>2, Zenon
  <1> QED BY <1>1, <1>2, <1>3, Zenon DEF IInv, All

(* What the wait queues and the parent see of a task.                      *)
Kept(r, n) ==
    /\ n.pending = r.pending /\ n.owed = r.owed /\ n.queued = r.queued
    /\ n.st = r.st /\ n.wait_event = r.wait_event

(* do_signal finds the signal to deliver, ...                              *)
LEMMA ChosenIs ==
    ASSUME Least, NEW r \in TaskStruct, signal_pending(r), NEW n, n = Chosen(r)
    PROVE  /\ n \in TaskStruct /\ Calm(r, n) /\ Kept(r, n) /\ n.pc = "take" /\ n.irqs = r.irqs
           /\ n.res = r.res /\ n.seen = r.pending /\ n.sig \in Sigs /\ n.sig \in r.pending
           /\ SIGKILL \in r.pending => n.sig = SIGKILL
  <1>1. PICK s : s = next_pending_signal(r)
    BY Zenon
  <1>2. s \in r.pending /\ s \in Sigs /\ (SIGKILL \in r.pending => s = SIGKILL)
    BY <1>1, NextIs, Zenon
  <1>3. n = [r EXCEPT !.pc = "take", !.sig = s, !.seen = r.pending]
    BY <1>1, Zenon DEF Chosen
  <1>4. n \in TaskStruct
    <2>1. s \in {0} \cup Sigs
      BY <1>2, Zenon
    <2> QED BY <1>3, <2>1, Zenon DEF TaskStruct
  <1>5. n.pc = "take" /\ n.irqs = r.irqs /\ n.res = r.res /\ n.seen = r.pending /\ n.sig = s
    BY <1>3, Zenon DEF TaskStruct
  <1>6. Calm(r, n) /\ Kept(r, n)
    BY <1>3, Zenon DEF TaskStruct, Calm, Kept
  <1> QED BY <1>2, <1>4, <1>5, <1>6, Zenon

(* ... or the task returns to user mode, with its mask and its result.     *)
LEMMA ToUserIs ==
    ASSUME NEW r \in TaskStruct, Entitled(r), r.pc = "ret", NEW n, n = ToUser(r)
    PROVE  n \in TaskStruct /\ Entitled(n) /\ Kept(r, n) /\ n.pc = "user" /\ n.irqs = FALSE
  <1>0. /\ r.res \in Result /\ r.saved_blocked \in SUBSET Sigs /\ r.blocked \in SUBSET Sigs
        /\ r.want \cap Unblockable = {} /\ OldBlocked(r) = r.want /\ r.restore_sigmask \in BOOLEAN
    BY Zenon DEF TaskStruct, Entitled
  <1>1. PICK e : e = syscall_exit_restart(r.res)
    BY Zenon
  <1>2. /\ e \in Result /\ e.call = r.res.call /\ e.ret # "restart"
        /\ e.call = "suspend" => e.ret = "eintr"
    <2>1. r.res.call = "suspend" => r.res.ret = "eintr"
      BY Zenon DEF Entitled
    <2>2. CASE r.res.ret # "restart"
      BY <1>0, <1>1, <2>1, <2>2, Zenon DEF syscall_exit_restart
    <2>3. CASE r.res.ret = "restart"
      BY <1>0, <1>1, <2>1, <2>3, Zenon DEF syscall_exit_restart, Result
    <2> QED BY <2>2, <2>3, Zenon
  <1>3. n = [r EXCEPT !.blocked = r.want, !.restore_sigmask = FALSE,
                      !.pc = "user", !.irqs = FALSE, !.res = e]
    <2>1. CASE r.restore_sigmask
      <3>1. r.saved_blocked \ Unblockable = r.want
        BY <1>0, <2>1, Zenon DEF OldBlocked
      <3> QED BY <1>1, <2>1, <3>1, Zenon DEF ToUser, RestoreMask, TaskStruct
    <2>2. CASE r.restore_sigmask = FALSE
      <3>1. r.blocked = r.want
        BY <1>0, <2>2, Zenon DEF OldBlocked
      <3> QED BY <1>1, <2>2, <3>1, Zenon DEF ToUser, RestoreMask, TaskStruct
    <2> QED BY <1>0, <2>1, <2>2, Zenon
  <1>4. n \in TaskStruct
    BY <1>2, <1>3, Zenon DEF TaskStruct
  <1>5. /\ n.blocked = r.want /\ n.want = r.want /\ n.restore_sigmask = FALSE /\ n.pc = "user"
        /\ n.irqs = FALSE /\ n.res = e /\ n.frames = r.frames
    BY <1>3, Zenon DEF TaskStruct
  <1>6. Kept(r, n)
    BY <1>3, Zenon DEF TaskStruct, Kept
  <1>7. Entitled(n)
    BY <1>0, <1>2, <1>5, Zenon DEF Entitled, OldBlocked
  <1> QED BY <1>4, <1>5, <1>6, <1>7, Zenon

(* The head of the loop.                                                   *)
LEMMA SignalIs ==
    ASSUME Least, NEW t \in Tasks, task[t] \in TaskStruct, Entitled(task[t]), do_signal(t)
    PROVE  /\ task[t].pc = "ret" /\ HasCpu(t)
           /\ \E n \in TaskStruct :
                /\ Do(t, n) /\ Entitled(n) /\ Kept(task[t], n)
                /\ \/ n.pc = "user" /\ n.irqs = FALSE
                   \/ /\ n.pc = "take" /\ n.irqs = task[t].irqs /\ n.seen = task[t].pending
                      /\ n.sig \in task[t].pending
                      /\ SIGKILL \in task[t].pending => n.sig = SIGKILL
  <1>0. task[t].pc = "ret" /\ HasCpu(t)
    BY Zenon DEF do_signal, At
  <1>1. CASE signal_pending(task[t])
    <2>1. PICK n : n = Chosen(task[t])
      BY Zenon
    <2>2. /\ n \in TaskStruct /\ Calm(task[t], n) /\ Kept(task[t], n) /\ n.pc = "take"
          /\ n.irqs = task[t].irqs /\ n.res = task[t].res /\ n.seen = task[t].pending
          /\ n.sig \in Sigs /\ n.sig \in task[t].pending
          /\ SIGKILL \in task[t].pending => n.sig = SIGKILL
      BY <1>1, <2>1, ChosenIs, Zenon
    <2>3. /\ n.res.call \in Calls \cup {"other"} /\ (n.irqs => "read" \in Calls)
          /\ n.res.call = "suspend" => n.res.ret = "eintr"
      BY <1>0, <2>2, Zenon DEF Entitled
    <2>4. Entitled(n)
      BY <1>0, <2>2, <2>3, CalmKeeps, Zenon
    <2>5. Do(t, n)
      BY <1>1, <2>1, Zenon DEF do_signal
    <2> QED BY <1>0, <2>2, <2>4, <2>5, Zenon
  <1>2. CASE ~signal_pending(task[t])
    <2>1. PICK n : n = ToUser(task[t])
      BY Zenon
    <2>2. n \in TaskStruct /\ Entitled(n) /\ Kept(task[t], n) /\ n.pc = "user" /\ n.irqs = FALSE
      BY <1>0, <2>1, ToUserIs, Zenon
    <2>3. Do(t, n)
      BY <1>2, <2>1, Zenon DEF do_signal
    <2> QED BY <1>0, <2>2, <2>3, Zenon
  <1> QED BY <1>1, <1>2, Zenon

(* The signal leaves the set that was read.                                *)
LEMMA ConsumedIs ==
    ASSUME NEW r \in TaskStruct, NEW c, c = Consumed(r)
    PROVE  /\ c \in TaskStruct /\ Calm(r, c) /\ c.pc = r.pc /\ c.irqs = r.irqs /\ c.res = r.res
           /\ c.sig = r.sig /\ c.queued = r.queued /\ c.st = r.st /\ c.wait_event = r.wait_event
           /\ c.pending = r.seen \ {r.sig} /\ c.owed = r.owed \ {r.sig} /\ c.actions = r.actions
  <1>0. r.seen \ {r.sig} \in SUBSET Sigs /\ r.owed \ {r.sig} \in SUBSET Sigs
    BY Zenon DEF TaskStruct
  <1>1. c = [r EXCEPT !.pending = r.seen \ {r.sig}, !.owed = r.owed \ {r.sig}]
    BY Zenon DEF Consumed, Cleared, TaskStruct
  <1>2. c \in TaskStruct
    BY <1>0, <1>1, Zenon DEF TaskStruct
  <1>3. /\ c.pc = r.pc /\ c.irqs = r.irqs /\ c.res = r.res /\ c.sig = r.sig
        /\ c.queued = r.queued /\ c.st = r.st /\ c.wait_event = r.wait_event /\ c.actions = r.actions
        /\ c.pending = r.seen \ {r.sig} /\ c.owed = r.owed \ {r.sig}
    BY <1>1, Zenon DEF TaskStruct
  <1>4. Calm(r, c)
    BY <1>1, Zenon DEF TaskStruct, Calm
  <1> QED BY <1>2, <1>3, <1>4, Zenon

(* Stop signals stop, and a handler runs when its frame fits.              *)
LEMMA FateIs ==
    ASSUME NEW r, NEW s \in Sigs, NEW a \in SigAction
    PROVE  /\ Fate(r, s, a) = "stop" => s \in StopSigs /\ s # SIGKILL
           /\ Fate(r, s, a) = "handler" => signal_frame_ok(r)
  <1>0. a.h \in {"dfl", "ign", "fn"}
    BY Zenon DEF SigAction
  <1>1. SIGSTOP \in Sigs => SIGSTOP \in StopSigs
    BY Zenon DEF SIGSTOP, StopSigs
  <1>2. SIGKILL # SIGSTOP /\ SIGKILL \notin StopSigs
    BY DEF SIGKILL, SIGSTOP, StopSigs
  <1>3. CASE s = SIGKILL
    BY <1>2, <1>3 DEF Fate, Unblockable
  <1>4. CASE s = SIGSTOP
    BY <1>1, <1>2, <1>4 DEF Fate, Unblockable
  <1>5. CASE s \notin Unblockable
    <2>1. s # SIGKILL /\ s # SIGSTOP
      BY <1>5, Zenon DEF Unblockable
    <2>2. CASE a.h = "ign"
      BY <1>5, <2>1, <2>2 DEF Fate
    <2>3. CASE a.h = "dfl"
      BY <1>5, <2>1, <2>3 DEF Fate
    <2>4. CASE a.h = "fn"
      BY <1>5, <2>1, <2>4 DEF Fate
    <2> QED BY <1>0, <2>2, <2>3, <2>4, Zenon
  <1> QED BY <1>3, <1>4, <1>5, Zenon DEF Unblockable

(* The result a handler's frame keeps.                                     *)
LEMMA RestartIs ==
    ASSUME NEW res \in Result, NEW a \in SigAction, res.call = "suspend" => res.ret = "eintr",
           NEW e, e = apply_syscall_restart(res, a)
    PROVE  /\ e \in Result /\ e.call = res.call /\ e.ret # "restart"
           /\ e.call = "suspend" => e.ret = "eintr"
  <1>1. CASE res.ret # "restart"
    BY <1>1, Zenon DEF apply_syscall_restart
  <1>2. CASE res.ret = "restart" /\ a.restart
    BY <1>2, Zenon DEF apply_syscall_restart, Result
  <1>3. CASE res.ret = "restart" /\ ~a.restart
    BY <1>3, Zenon DEF apply_syscall_restart, Result
  <1> QED BY <1>1, <1>2, <1>3, Zenon

(* A handler starts: the frame holds the context it interrupts.            *)
LEMMA HandleIs ==
    ASSUME NEW r \in TaskStruct, NEW s \in Sigs, NEW a \in SigAction, signal_frame_ok(r),
           Entitled(r), r.pc = "take", NEW n, n = handle_signal(r, s, a)
    PROVE  n \in TaskStruct /\ Entitled(n) /\ Kept(r, n) /\ n.pc = "user" /\ n.irqs = FALSE
  <1>0. /\ r.res \in Result /\ r.frames \in Seq(Frame) /\ r.blocked \in SUBSET Sigs
        /\ r.want \in SUBSET Sigs /\ r.actions \in [Sigs -> SigAction] /\ a.mask \in SUBSET Sigs
    BY Zenon DEF TaskStruct, SigAction
  <1>1. /\ OldBlocked(r) = r.want /\ r.want \cap Unblockable = {}
        /\ r.res.call = "suspend" => r.res.ret = "eintr"
        /\ r.res.call \in Calls \cup {"other"}
        /\ \A i \in 1 .. Len(r.frames) : SafeFrame(r.frames[i])
    BY Zenon DEF Entitled
  <1>2. PICK e : e = apply_syscall_restart(r.res, a)
    BY Zenon
  <1>3. e \in Result /\ e.call = r.res.call /\ e.ret # "restart" /\ (e.call = "suspend" => e.ret = "eintr")
    BY <1>0, <1>1, <1>2, RestartIs, Zenon
  <1>4. PICK f : f = [blocked |-> r.want, res |-> e, want |-> r.want]
    BY Zenon
  <1>5. f \in Frame
    BY <1>0, <1>3, <1>4, Zenon DEF Frame
  <1>6. SafeFrame(f)
    BY <1>1, <1>3, <1>4, Zenon DEF SafeFrame
  <1>7. PICK g : g = <<f>> \o r.frames
    BY Zenon
  <1>8. g \in Seq(Frame) /\ Len(g) <= MaxFrames /\ \A i \in 1 .. Len(g) : SafeFrame(g[i])
    <2>1. /\ g \in Seq(Frame) /\ Len(g) = Len(r.frames) + 1
          /\ \A i \in 1 .. Len(g) : g[i] = f \/ \E j \in 1 .. Len(r.frames) : g[i] = r.frames[j]
      BY <1>0, <1>5, <1>7, FramePushed
    <2>2. Len(g) <= MaxFrames
      BY <1>0, <2>1, SignalsAssumption DEF signal_frame_ok
    <2>3. \A i \in 1 .. Len(g) : SafeFrame(g[i])
      BY <1>1, <1>6, <2>1, Zenon
    <2> QED BY <2>1, <2>2, <2>3, Zenon
  <1>9. PICK new \in SUBSET Sigs :
          /\ new = (r.blocked \cup a.mask \cup (IF a.nodefer THEN {} ELSE {s})) \ Unblockable
          /\ new \cap Unblockable = {}
    <2>1. (IF a.nodefer THEN {} ELSE {s}) \in SUBSET Sigs
      BY Zenon
    <2>2. \A d \in SUBSET Sigs : /\ (r.blocked \cup a.mask \cup d) \ Unblockable \in SUBSET Sigs
                               /\ ((r.blocked \cup a.mask \cup d) \ Unblockable) \cap Unblockable = {}
      BY <1>0, Zenon
    <2> QED BY <2>1, <2>2, Zenon
  <1>10. PICK b \in SigAction : b = IF a.reset THEN [a EXCEPT !.h = "dfl"] ELSE r.actions[s]
    <2>1. [a EXCEPT !.h = "dfl"] \in SigAction
      BY Zenon DEF SigAction
    <2>2. r.actions[s] \in SigAction
      BY <1>0, Zenon
    <2> QED BY <2>1, <2>2, Zenon
  <1>11. PICK o \in Result : o = [call |-> "other", ret |-> "ok"]
    BY Zenon DEF Result
  <1>12. n = [r EXCEPT !.frames = g, !.restore_sigmask = FALSE, !.blocked = new, !.want = new,
                       !.actions[s] = b, !.res = o,
                       !.pc = "user", !.irqs = FALSE, !.sig = 0, !.seen = {}]
    BY <1>0, <1>1, <1>2, <1>4, <1>7, <1>9, <1>10, <1>11, Zenon DEF handle_signal, TaskStruct
  <1>13. n \in TaskStruct
    <2>1. g \in Seq(Frame) /\ new \in SUBSET Sigs /\ b \in SigAction /\ o \in Result
      BY <1>8, <1>9, <1>10, <1>11, Zenon
    <2>2. PICK x \in [Sigs -> SigAction] : x = [r.actions EXCEPT ![s] = b]
      BY <1>0, <2>1, Zenon
    <2>3. PICK m : m = [r EXCEPT !.frames = g, !.restore_sigmask = FALSE, !.blocked = new,
                                 !.want = new, !.actions = x]
      BY Zenon
    <2>4. x \in [Sigs -> SigAction]
      BY <2>2, Zenon
    <2>5. m \in TaskStruct
      BY <2>1, <2>3, <2>4, Zenon DEF TaskStruct
    <2>6. n = [m EXCEPT !.res = o, !.pc = "user", !.irqs = FALSE, !.sig = 0, !.seen = {}]
      BY <1>12, <2>2, <2>3, Zenon DEF TaskStruct
    <2> QED BY <2>1, <2>5, <2>6, Zenon DEF TaskStruct
  <1>14. /\ n.frames = g /\ n.restore_sigmask = FALSE /\ n.blocked = new /\ n.want = new
         /\ n.res = o /\ n.pc = "user" /\ n.irqs = FALSE
    BY <1>12, Zenon DEF TaskStruct
  <1>15. Kept(r, n)
    BY <1>12, Zenon DEF TaskStruct, Kept
  <1>16. Entitled(n)
    <2>1. o.call = "other" /\ o.ret = "ok"
      BY <1>11, Zenon
    <2>2. new \cap Unblockable = {}
      BY <1>9, Zenon
    <2> QED BY <1>8, <1>14, <2>1, <2>2, Zenon DEF Entitled, OldBlocked
  <1> QED BY <1>13, <1>14, <1>15, <1>16, Zenon

(* The signal is taken: the task ends, goes on, stops or runs a handler.   *)
TakesTo(t, n) ==
    /\ n.pending = task[t].seen \ {task[t].sig} /\ n.owed = task[t].owed \ {task[t].sig}
    /\ \/ /\ n.pc = "dead" /\ n.st = "zombie" /\ ~n.queued /\ ~n.irqs /\ n.wait_event = "none"
          /\ task' = notify_parent([task EXCEPT ![t] = n], t)
       \/ /\ Do(t, n) /\ n.queued = task[t].queued /\ n.st = task[t].st
          /\ n.wait_event = task[t].wait_event
          /\ \/ n.pc = "user" /\ n.irqs = FALSE
             \/ n.pc = "ret" /\ n.irqs = task[t].irqs
             \/ /\ n.pc = "stop" /\ n.irqs = task[t].irqs
                /\ task[t].sig \in StopSigs /\ task[t].sig # SIGKILL

(* Delivery does one of these, and keeps the invariant.                    *)
LEMMA TakeIs ==
    ASSUME NEW t \in Tasks, task \in All, Entitled(task[t]), Take(t)
    PROVE  /\ task[t].pc = "take" /\ HasCpu(t)
           /\ \E n \in TaskStruct : Entitled(n) /\ TakesTo(t, n)
  <1> DEFINE R == task[t]
  <1>0. R \in TaskStruct /\ Entitled(R) /\ R.pc = "take" /\ HasCpu(t)
    BY Zenon DEF Take, At, All
  <1>1. PICK s, a : s = R.sig /\ a = R.actions[s]
    BY Zenon
  <1>2. s \in Sigs /\ a \in SigAction
    <2>1. s \in Sigs
      BY <1>0, <1>1, Zenon DEF Entitled
    <2>2. R.actions \in [Sigs -> SigAction]
      BY <1>0, Zenon DEF TaskStruct
    <2> QED BY <1>1, <2>1, <2>2, Zenon
  <1>3. PICK c : c = Consumed(R)
    BY Zenon
  <1>4. /\ c \in TaskStruct /\ Calm(R, c) /\ c.pc = R.pc /\ c.irqs = R.irqs /\ c.res = R.res
        /\ c.sig = R.sig /\ c.queued = R.queued /\ c.st = R.st /\ c.wait_event = R.wait_event
        /\ c.pending = R.seen \ {R.sig} /\ c.owed = R.owed \ {R.sig}
    BY <1>0, <1>3, ConsumedIs, Zenon
  <1>5. Entitled(c)
    BY <1>0, <1>4, Zenon DEF Entitled, Calm, OldBlocked
  <1>6. /\ c.res.call \in Calls \cup {"other"} /\ (c.irqs => "read" \in Calls)
        /\ c.res.call = "suspend" => c.res.ret = "eintr"
    BY <1>0, <1>4, <1>5, Zenon DEF Entitled
  <1>7. PICK fate : fate = Fate(c, s, a)
    BY Zenon
  <1>8. \/ fate = "exit" /\ task' = do_exit([task EXCEPT ![t] = c], t)
        \/ fate \in {"stop", "ret"} /\ Do(t, [c EXCEPT !.pc = fate, !.sig = 0, !.seen = {}])
        \/ fate = "handler" /\ Do(t, handle_signal(c, s, a))
    BY <1>1, <1>3, <1>7, Zenon DEF Take
  <1>9. CASE task' = do_exit([task EXCEPT ![t] = c], t)
    <2>1. PICK n : n = Exited(c)
      BY Zenon
    <2>2. /\ n \in TaskStruct /\ n.pc = "dead" /\ n.st = "zombie" /\ ~n.queued /\ ~n.irqs
          /\ n.wait_event = "none" /\ n.pending = c.pending /\ n.owed = c.owed
          /\ n.blocked = c.blocked /\ n.want = c.want /\ n.frames = c.frames /\ n.res = c.res
      BY <1>4, <2>1, ExitedIs, Zenon
    <2>3. Entitled(n)
      BY <1>5, <2>2, Zenon DEF Entitled
    <2>4. [[task EXCEPT ![t] = c] EXCEPT ![t] = Exited([task EXCEPT ![t] = c][t])] = [task EXCEPT ![t] = n]
      BY <2>1, Zenon DEF All
    <2>5. task' = notify_parent([task EXCEPT ![t] = n], t)
      BY <1>9, <2>4, Zenon DEF do_exit
    <2> QED BY <1>0, <1>4, <2>2, <2>3, <2>5, Zenon DEF TakesTo
  <1>10. CASE fate \in {"stop", "ret"} /\ Do(t, [c EXCEPT !.pc = fate, !.sig = 0, !.seen = {}])
    <2>1. PICK n : n = [c EXCEPT !.pc = fate, !.sig = 0, !.seen = {}]
      BY Zenon
    <2>2. n \in TaskStruct
      BY <1>4, <1>10, <2>1, Zenon DEF TaskStruct
    <2>3. Calm(c, n) /\ Kept(c, n) /\ n.pc = fate /\ n.res = c.res /\ n.irqs = c.irqs
      BY <1>4, <2>1, Zenon DEF TaskStruct, Calm, Kept
    <2>a. /\ c.pc # "dead" /\ n.pc # "user" /\ n.pc # "take" /\ n.res.call \in Calls \cup {"other"}
          /\ (n.irqs => "read" \in Calls) /\ (n.res.call = "suspend" => n.res.ret = "eintr")
      BY <1>0, <1>4, <1>6, <1>10, <2>3, Zenon
    <2>4. Entitled(n)
      BY <1>5, <2>a, <2>3, CalmKeeps, Zenon
    <2>5. fate = "stop" => R.sig \in StopSigs /\ R.sig # SIGKILL
      BY <1>1, <1>2, <1>7, FateIs, Zenon
    <2>6. Do(t, n)
      BY <1>10, <2>1, Zenon
    <2>7. /\ n.pending = R.seen \ {R.sig} /\ n.owed = R.owed \ {R.sig} /\ n.queued = R.queued
          /\ n.st = R.st /\ n.wait_event = R.wait_event /\ n.irqs = R.irqs
      BY <1>4, <2>3, Zenon DEF Kept
    <2> QED BY <1>0, <1>10, <2>2, <2>3, <2>4, <2>5, <2>6, <2>7, Zenon DEF TakesTo
  <1>11. CASE fate = "handler" /\ Do(t, handle_signal(c, s, a))
    <2>1. PICK n : n = handle_signal(c, s, a)
      BY Zenon
    <2>2. signal_frame_ok(c)
      BY <1>2, <1>7, <1>11, FateIs, Zenon
    <2>3. n \in TaskStruct /\ Entitled(n) /\ Kept(c, n) /\ n.pc = "user" /\ n.irqs = FALSE
      <3>1. c \in TaskStruct /\ c.pc = "take"
        BY <1>0, <1>4, Zenon
      <3> QED BY <1>2, <1>5, <2>1, <2>2, <3>1, HandleIs, Zenon
    <2>4. Do(t, n)
      BY <1>11, <2>1, Zenon
    <2>5. /\ n.pending = R.seen \ {R.sig} /\ n.owed = R.owed \ {R.sig} /\ n.queued = R.queued
          /\ n.st = R.st /\ n.wait_event = R.wait_event
      BY <1>4, <2>3, Zenon DEF Kept
    <2> QED BY <1>0, <2>3, <2>4, <2>5, Zenon DEF TakesTo
  <1> QED BY <1>8, <1>9, <1>10, <1>11, Zenon

(* Steps off the CPU and back.                                             *)
TurnsTo(t, n) ==
    /\ n.pending = task[t].pending /\ n.owed = task[t].owed /\ n.wait_event = task[t].wait_event
    /\ n.res = task[t].res
    /\ \/ /\ task[t].pc = "block" /\ n.pc = "asleep" /\ n.st = "sleeping" /\ n.queued = FALSE
          /\ n.irqs = task[t].irqs
       \/ /\ task[t].pc = "park" /\ n.pc = "parked" /\ n.st = "stopped" /\ n.queued = FALSE
          /\ n.irqs = task[t].irqs
       \/ /\ task[t].pc = "asleep" /\ task[t].queued /\ n.pc = "test" /\ n.st = task[t].st
          /\ n.queued = task[t].queued /\ n.irqs = task[t].irqs
       \/ /\ task[t].pc = "parked" /\ task[t].queued /\ n.pc = "ret" /\ n.st = "running"
          /\ n.queued = task[t].queued /\ n.irqs = FALSE

(* Block, Park and Resume take these steps, with the CPU.                  *)
LEMMA TurnIs ==
    ASSUME NEW t \in Tasks, task[t] \in TaskStruct, Block(t) \/ Park(t) \/ Resume(t)
    PROVE  HasCpu(t) /\ \E n \in TaskStruct : Do(t, n) /\ Calm(task[t], n) /\ TurnsTo(t, n)
  <1>1. CASE Block(t)
    <2>0. HasCpu(t) /\ task[t].pc = "block"
      BY <1>1, Zenon DEF Block, At
    <2>1. PICK n : n = [task[t] EXCEPT !.st = "sleeping", !.queued = FALSE, !.pc = "asleep"]
      BY Zenon
    <2>2. n \in TaskStruct
      BY <2>1, Zenon DEF TaskStruct
    <2>3. Calm(task[t], n) /\ TurnsTo(t, n)
      BY <2>0, <2>1, Zenon DEF TaskStruct, Calm, TurnsTo
    <2> QED BY <1>1, <2>0, <2>1, <2>2, <2>3, Zenon DEF Block
  <1>2. CASE Park(t)
    <2>0. HasCpu(t) /\ task[t].pc = "park"
      BY <1>2, Zenon DEF Park, At
    <2>1. PICK n : n = [task[t] EXCEPT !.st = "stopped", !.queued = FALSE, !.pc = "parked"]
      BY Zenon
    <2>2. n \in TaskStruct
      BY <2>1, Zenon DEF TaskStruct
    <2>3. Calm(task[t], n) /\ TurnsTo(t, n)
      BY <2>0, <2>1, Zenon DEF TaskStruct, Calm, TurnsTo
    <2> QED BY <1>2, <2>0, <2>1, <2>2, <2>3, Zenon DEF Park
  <1>3. CASE task[t].queued /\ At(t, "asleep") /\ Do(t, [task[t] EXCEPT !.pc = "test"])
    <2>0. HasCpu(t) /\ task[t].pc = "asleep" /\ task[t].queued
      BY <1>3, Zenon DEF At
    <2>1. PICK n : n = [task[t] EXCEPT !.pc = "test"]
      BY Zenon
    <2>2. n \in TaskStruct
      BY <2>1, Zenon DEF TaskStruct
    <2>3. Calm(task[t], n) /\ TurnsTo(t, n)
      BY <2>0, <2>1, Zenon DEF TaskStruct, Calm, TurnsTo
    <2> QED BY <1>3, <2>0, <2>1, <2>2, <2>3, Zenon
  <1>4. CASE /\ task[t].queued /\ At(t, "parked")
             /\ Do(t, [task[t] EXCEPT !.pc = "ret", !.st = "running", !.irqs = FALSE])
    <2>0. HasCpu(t) /\ task[t].pc = "parked" /\ task[t].queued
      BY <1>4, Zenon DEF At
    <2>1. PICK n : n = [task[t] EXCEPT !.pc = "ret", !.st = "running", !.irqs = FALSE]
      BY Zenon
    <2>2. n \in TaskStruct
      BY <2>1, Zenon DEF TaskStruct
    <2>3. Calm(task[t], n) /\ TurnsTo(t, n)
      BY <2>0, <2>1, Zenon DEF TaskStruct, Calm, TurnsTo
    <2> QED BY <1>4, <2>0, <2>1, <2>2, <2>3, Zenon
  <1> QED BY <1>1, <1>2, <1>3, <1>4, Zenon DEF Resume

(* The first half of do_signal_stop.                                       *)
LEMMA StopIs ==
    ASSUME NEW t \in Tasks, task \in All, Stop(t)
    PROVE  /\ task[t].pc = "stop" /\ HasCpu(t)
           /\ \E n \in TaskStruct :
                /\ task' = notify_parent([task EXCEPT ![t] = n], t)
                /\ Calm(task[t], n) /\ n.pc = "park" /\ n.wait_event = "stopped"
                /\ n.pending = task[t].pending /\ n.owed = task[t].owed /\ n.queued = task[t].queued
                /\ n.st = task[t].st /\ n.irqs = task[t].irqs /\ n.res = task[t].res
  <1>0. task[t] \in TaskStruct /\ task[t].pc = "stop" /\ HasCpu(t)
    BY Zenon DEF Stop, At, All
  <1>1. PICK n : n = [task[t] EXCEPT !.wait_event = "stopped", !.pc = "park"]
    BY Zenon
  <1>2. n \in TaskStruct
    BY <1>0, <1>1, Zenon DEF TaskStruct
  <1>3. /\ n.pc = "park" /\ n.wait_event = "stopped"
        /\ n.pending = task[t].pending /\ n.owed = task[t].owed /\ n.queued = task[t].queued
        /\ n.st = task[t].st /\ n.irqs = task[t].irqs /\ n.res = task[t].res
    BY <1>0, <1>1, Zenon DEF TaskStruct
  <1>4. Calm(task[t], n)
    BY <1>0, <1>1, Zenon DEF TaskStruct, Calm
  <1>5. task' = notify_parent([task EXCEPT ![t] = n], t)
    BY <1>1, Zenon DEF Stop
  <1> QED BY <1>0, <1>2, <1>3, <1>4, <1>5, Zenon

(* The kernel's steps keep the invariant, ...                              *)
LEMMA KernelKeeps ==
    ASSUME Least, IInv, NEW t \in Tasks, Kernel(t) \/ Resume(t) \/ WakeReader(t) PROVE IInv'
  <1>0. /\ task \in All /\ task[t] \in TaskStruct /\ Entitled(task[t])
        /\ \A v \in Tasks : Entitled(task[v])
    BY Zenon DEF IInv, All
  <1>n. ASSUME NEW n \in TaskStruct, Entitled(n), task' = notify_parent([task EXCEPT ![t] = n], t)
        PROVE  IInv'
    <2>1. PICK T : T = [task EXCEPT ![t] = n]
      BY Zenon
    <2>2. T \in All /\ \A v \in Tasks : Entitled(T[v])
      BY <1>0, <1>n, <2>1, Zenon DEF All
    <2>3. task' = notify_parent(T, t)
      BY <1>n, <2>1, Zenon
    <2> QED BY <2>2, <2>3, SendKeeps, Zenon
  <1>1. CASE SuspendTest(t) \/ ReadTest(t)
    BY <1>1, TestsKeep, Zenon
  <1>2. CASE WaitTest(t)
    BY <1>2, WaitKeeps, Zenon
  <1>3. CASE Block(t) \/ Park(t) \/ Resume(t)
    <2>1. PICK n \in TaskStruct : Do(t, n) /\ Calm(task[t], n) /\ TurnsTo(t, n)
      BY <1>0, <1>3, TurnIs, Zenon
    <2>2. /\ task[t].pc # "dead" /\ n.pc # "user" /\ n.pc # "take" /\ n.res = task[t].res
          /\ n.irqs = task[t].irqs \/ n.irqs = FALSE
          /\ n.pc \in {"ret", "parked"} => task[t].pc \in {"park", "parked"}
          /\ n.pc \in {"asleep", "test", "ret", "parked"}
      BY <2>1, Zenon DEF TurnsTo
    <2>3. /\ n.res.call \in Calls \cup {"other"} /\ (n.irqs => "read" \in Calls)
          /\ n.pc \in {"ret", "parked"} /\ n.res.call = "suspend" => n.res.ret = "eintr"
      BY <1>0, <2>2, Zenon DEF Entitled
    <2>4. n.pc \in {"ret", "take", "stop", "park", "parked"} => n.pc \in {"ret", "parked"}
      BY <2>2, Zenon
    <2>5. Entitled(n)
      BY <1>0, <2>1, <2>2, <2>3, <2>4, CalmKeeps, Zenon
    <2> QED BY <2>1, <2>5, DoKeeps, Zenon
  <1>4. CASE do_signal(t)
    <2>1. PICK n \in TaskStruct : Do(t, n) /\ Entitled(n)
      BY <1>0, <1>4, SignalIs, Zenon
    <2> QED BY <2>1, DoKeeps, Zenon
  <1>5. CASE Take(t)
    <2>1. PICK n \in TaskStruct : Entitled(n) /\ TakesTo(t, n)
      BY <1>0, <1>5, TakeIs, Zenon
    <2>2. Do(t, n) \/ task' = notify_parent([task EXCEPT ![t] = n], t)
      BY <2>1, Zenon DEF TakesTo
    <2> QED BY <1>n, <2>1, <2>2, DoKeeps, Zenon
  <1>6. CASE Stop(t)
    <2>1. PICK n \in TaskStruct :
            /\ task' = notify_parent([task EXCEPT ![t] = n], t) /\ task[t].pc = "stop"
            /\ Calm(task[t], n) /\ n.pc = "park" /\ n.irqs = task[t].irqs /\ n.res = task[t].res
      BY <1>0, <1>6, StopIs, Zenon
    <2>2. /\ n.res.call \in Calls \cup {"other"} /\ (n.irqs => "read" \in Calls)
          /\ n.res.call = "suspend" => n.res.ret = "eintr"
      BY <1>0, <2>1, Zenon DEF Entitled
    <2>3. Entitled(n)
      BY <1>0, <2>1, <2>2, CalmKeeps, Zenon
    <2> QED BY <1>n, <2>1, <2>3, Zenon
  <1>7. CASE WakeReader(t)
    <2>1. PICK n : n = Woken(task[t])
      BY Zenon
    <2>2. n \in TaskStruct /\ Mild(task[t], n)
      BY <1>0, <2>1, WokenIs, Zenon
    <2>3. Do(t, n)
      BY <1>7, <2>1, Zenon DEF WakeReader, wake_up_process, Do
    <2> QED BY <1>0, <2>2, <2>3, EntitledMild, DoKeeps, Zenon
  <1> QED BY <1>1, <1>2, <1>3, <1>4, <1>5, <1>6, <1>7, Zenon DEF Kernel

(* ... and so does every step.                                             *)
LEMMA StepKeeps == ASSUME Least, IInv, [Next]_task PROVE IInv'
  <1>1. ASSUME NEW t \in Tasks, UserCall(t) PROVE IInv'
    BY <1>1, KillKeeps, MaskCallsKeep, OtherCallsKeep, Zenon DEF UserCall
  <1>2. ASSUME NEW u \in Tasks, NEW s \in IrqSigs, IrqSignal(u, s) PROVE IInv'
    <2>1. s \in Sigs /\ task \in All /\ \A v \in Tasks : Entitled(task[v])
      BY SignalsAssumption, Zenon DEF IInv, All
    <2>2. task' = signal_queue(task, u, s)
      BY <1>2, Zenon DEF IrqSignal
    <2> QED BY <2>1, <2>2, SendKeeps, Zenon
  <1>3. CASE UNCHANGED task
    BY <1>3, Zenon DEF IInv
  <1> QED BY <1>1, <1>2, <1>3, KernelKeeps, Zenon DEF Next

----------------------------------------------------------------------------
(***************************************************************************)
(* Stops and their reports.                                                *)
(***************************************************************************)
(* A system call other than kill.                                          *)
LEMMA CallIs ==
    ASSUME NEW t \in Tasks, task[t] \in TaskStruct, UserCall(t),
           ~ \E u \in Tasks, s \in Sigs : ksys_kill(t, u, s)
    PROVE  /\ task[t].pc = "user" /\ HasCpu(t)
           /\ \E n : Do(t, n) /\ Kept(task[t], n) /\ n.irqs = task[t].irqs /\ n.pc \in {"ret", "test"}
  <1> DEFINE R == task[t]
             Good(n) == Kept(R, n) /\ n.irqs = R.irqs /\ n.pc \in {"ret", "test"}
  <1>0. R \in TaskStruct /\ R.pc = "user" /\ HasCpu(t)
    BY Zenon DEF UserCall, ksys_rt_sigaction, ksys_rt_sigprocmask, ksys_rt_sigsuspend, Blocking,
                 Again, ksys_rt_sigreturn, exec_signals, Free, At
  <1>1. SUFFICES \E n : Do(t, n) /\ Good(n)
    BY <1>0, Zenon
  <1> HIDE DEF R
  <1>2. ASSUME NEW a PROVE Good(Returns([R EXCEPT !.actions = a]))
    BY <1>0, Zenon DEF Returns, Kept, TaskStruct
  <1>3. ASSUME NEW f, NEW a PROVE Good(Returns([R EXCEPT !.frames = f, !.actions = a]))
    BY <1>0, Zenon DEF Returns, Kept, TaskStruct
  <1>4. ASSUME NEW m PROVE Good(Returns([R EXCEPT !.blocked = m, !.want = m]))
    BY <1>0, Zenon DEF Returns, Kept, TaskStruct
  <1>5. ASSUME NEW b, NEW c, NEW e
        PROVE  Good([R EXCEPT !.saved_blocked = b, !.restore_sigmask = TRUE, !.blocked = c,
                              !.res = e, !.pc = "test"])
    BY <1>0, Zenon DEF Kept, TaskStruct
  <1>6. ASSUME NEW e PROVE Good([R EXCEPT !.res = e, !.pc = "test"])
    BY <1>0, Zenon DEF Kept, TaskStruct
  <1>7. ASSUME NEW f, NEW e, NEW b, NEW w
        PROVE  Good([R EXCEPT !.frames = f, !.res = e, !.blocked = b, !.want = w, !.pc = "ret"])
    BY <1>0, Zenon DEF Kept, TaskStruct
  <1> HIDE DEF Good
  <1>8. ASSUME NEW n \in NewActions, ksys_rt_sigaction(t, n[1], n[2]) PROVE \E m : Do(t, m) /\ Good(m)
    BY <1>2, <1>8, Zenon DEF ksys_rt_sigaction, R
  <1>9. ASSUME NEW how \in {"block", "unblock", "setmask"}, NEW set \in Masks,
               ksys_rt_sigprocmask(t, how, set)
        PROVE  \E m : Do(t, m) /\ Good(m)
    BY <1>4, <1>9, Zenon DEF ksys_rt_sigprocmask, R
  <1>10. ASSUME NEW set \in Masks, ksys_rt_sigsuspend(t, set) PROVE \E m : Do(t, m) /\ Good(m)
    BY <1>5, <1>10, Zenon DEF ksys_rt_sigsuspend, R
  <1>11. ASSUME NEW c \in Calls, Blocking(t, c) PROVE \E m : Do(t, m) /\ Good(m)
    BY <1>6, <1>11, Zenon DEF Blocking, R
  <1>12. CASE Again(t)
    BY <1>6, <1>12, Zenon DEF Again, R
  <1>13. CASE ksys_rt_sigreturn(t)
    BY <1>7, <1>13, Zenon DEF ksys_rt_sigreturn, R
  <1>14. CASE exec_signals(t)
    BY <1>3, <1>14, Zenon DEF exec_signals, R
  <1> QED BY <1>8, <1>9, <1>10, <1>11, <1>12, <1>13, <1>14, Zenon DEF UserCall

(* What a signal sent does to the event to be reported.                    *)
LEMMA SendsEvents ==
    ASSUME NEW T \in All, NEW u \in Tasks, NEW M,
           M = notify_parent(T, u) \/ \E s \in Sigs : M = signal_queue(T, u, s)
    PROVE  \A v \in Tasks : M[v].wait_event = T[v].wait_event
                          \/ (M[v].wait_event = "continued" /\ M[v].queued)
  <1>0. \A v \in Tasks : T[v] \in TaskStruct /\ Notified(T[v]).wait_event = T[v].wait_event
    <2>1. \A v \in Tasks : T[v] \in TaskStruct
      BY Zenon DEF All
    <2> QED BY <2>1, NotifiedIs, Zenon
  <1>1. CASE M = notify_parent(T, u)
    BY <1>0, <1>1, NotifyIs
  <1>2. ASSUME NEW s \in Sigs, M = signal_queue(T, u, s)
        PROVE  \A v \in Tasks : M[v].wait_event = T[v].wait_event
                              \/ (M[v].wait_event = "continued" /\ M[v].queued)
    <2>1. CASE s = SIGCONT /\ T[u].st = "stopped"
      <3>1. PICK n \in TaskStruct : n = Continued(T[u]) /\ n.wait_event = "continued"
        BY <1>0, <2>1, ContinuedIs, Zenon
      <3>2. PICK w : w = Woken(n)
        BY Zenon
      <3>3. w.wait_event = n.wait_event /\ w.queued
        BY <3>1, <3>2, WokenIs
      <3>4. /\ M[u] = w
            /\ \A v \in Tasks : v # u =>
                 IF v = Parent[u] THEN M[v] = Notified(T[v]) ELSE M[v] = T[v]
        BY <1>2, <2>1, <3>1, <3>2, SignalQueueIs
      <3> QED BY <1>0, <3>1, <3>3, <3>4, Zenon
    <2>2. CASE ~(s = SIGCONT /\ T[u].st = "stopped")
      <3>1. M[u] = Marked(T[u], s) /\ \A v \in Tasks : v # u => M[v] = T[v]
        BY <1>2, <2>2, SignalQueueIs
      <3>2. PICK m : m = Marked(T[u], s)
        BY Zenon
      <3>3. m.wait_event = T[u].wait_event
        BY <1>0, <3>2, MarkedIs
      <3> QED BY <3>1, <3>2, <3>3, Zenon
    <2> QED BY <2>1, <2>2, Zenon
  <1> QED BY <1>1, <1>2, Zenon

(* kill.                                                                   *)
LEMMA KillIs ==
    ASSUME task \in All, NEW t \in Tasks, NEW u \in Tasks, NEW s \in Sigs, ksys_kill(t, u, s)
    PROVE  \E M \in All :
             /\ M = signal_queue(task, u, s) /\ task[t].pc = "user" /\ HasCpu(t)
             /\ task'[t].pc = "ret" /\ Kept(M[t], task'[t]) /\ task'[t].irqs = M[t].irqs
             /\ \A v \in Tasks : v # t => task'[v] = M[v]
  <1>1. PICK M : M = signal_queue(task, u, s)
    BY Zenon
  <1>2. M \in All
    BY <1>1, SendsMild, Zenon
  <1>3. M[t] \in TaskStruct
    BY <1>2, Zenon DEF All
  <1>4. PICK n : n = Returns(M[t])
    BY Zenon
  <1>5. n.pc = "ret" /\ Kept(M[t], n) /\ n.irqs = M[t].irqs
    BY <1>3, <1>4, ReturnsIs, Zenon DEF Kept
  <1>6. task' = [M EXCEPT ![t] = n]
    BY <1>1, <1>4, Zenon DEF ksys_kill
  <1>7. task'[t] = n /\ \A v \in Tasks : v # t => task'[v] = M[v]
    BY <1>2, <1>6, Zenon DEF All
  <1>8. task[t].pc = "user" /\ HasCpu(t)
    BY Zenon DEF ksys_kill, Free, At
  <1> QED BY <1>1, <1>2, <1>5, <1>7, <1>8, Zenon

(* The two outcomes of the tests of read and rt_sigsuspend.                *)
LEMMA TestIs ==
    ASSUME NEW t \in Tasks, task[t] \in TaskStruct, SuspendTest(t) \/ ReadTest(t)
    PROVE  /\ task[t].pc = "test" /\ HasCpu(t) /\ task[t].res.call # "wait"
           /\ \E n \in TaskStruct :
                /\ Do(t, n) /\ Calm(task[t], n) /\ Kept(task[t], n) /\ n.res.call = task[t].res.call
                /\ \/ n.pc = "block" /\ ~signal_pending(task[t]) /\ n.irqs = task[t].irqs
                   \/ n.pc = "ret"
  <1>0. task[t].pc = "test" /\ HasCpu(t) /\ task[t].res.call # "wait"
    BY Zenon DEF SuspendTest, ReadTest, At
  <1>1. CASE Sleep(t) /\ ~signal_pending(task[t])
    BY <1>0, <1>1, SleepIs, Zenon DEF Kept
  <1>2. CASE Leave(t, "eintr")
    BY <1>0, <1>2, LeaveIs, Zenon DEF Kept
  <1>3. ASSUME NEW ret \in {"ok", "restart"}, task[t].res.call = "read",
               Do(t, [task[t] EXCEPT !.pc = "ret", !.res.ret = ret, !.irqs = TRUE])
        PROVE  \E n \in TaskStruct :
                 /\ Do(t, n) /\ Calm(task[t], n) /\ Kept(task[t], n) /\ n.res.call = task[t].res.call
                 /\ n.pc = "ret"
    <2>0. ret \in {"ok", "eintr", "restart"}
      BY Zenon
    <2> QED BY <1>3, <2>0, LeaveIs, Zenon DEF Kept
  <1> QED BY <1>0, <1>1, <1>2, <1>3, Zenon DEF SuspendTest, ReadTest

(* The event of every task, after every step.                              *)
LEMMA EventStep ==
    ASSUME Least, IInv, [Next]_task, NEW v \in Tasks
    PROVE  \/ task'[v].wait_event = task[v].wait_event \/ task'[v].wait_event = "stopped"
           \/ task'[v].wait_event = "continued" /\ task'[v].queued
           \/ /\ task'[v].wait_event = "none"
              /\ task'[v].st = "zombie" \/ (Parent[v] \in Tasks /\ task'[Parent[v]].pc = "ret")
  <1> DEFINE Good(r, n) == \/ n.wait_event = r.wait_event \/ n.wait_event = "stopped"
                           \/ n.wait_event = "continued" /\ n.queued
                           \/ n.wait_event = "none" /\ n.st = "zombie"
             Seen == Parent[v] \in Tasks /\ task'[Parent[v]].pc = "ret" /\ task'[v].wait_event = "none"
  <1> SUFFICES Good(task[v], task'[v]) \/ Seen
    BY Zenon
  <1>0. task \in All /\ \A t \in Tasks : task[t] \in TaskStruct /\ Entitled(task[t])
    BY Zenon DEF IInv, All
  <1>a. ASSUME NEW t \in Tasks, NEW n, Do(t, n), n.wait_event = task[t].wait_event
        PROVE  Good(task[v], task'[v])
    <2>1. IF v = t THEN task'[v] = n ELSE task'[v] = task[v]
      BY <1>0, <1>a, Zenon DEF Do, All
    <2> QED BY <1>a, <2>1, Zenon
  <1>b. ASSUME NEW t \in Tasks, NEW n \in TaskStruct, Good(task[t], n),
               task' = notify_parent([task EXCEPT ![t] = n], t)
        PROVE  Good(task[v], task'[v])
    <2>1. PICK T : T = [task EXCEPT ![t] = n]
      BY Zenon
    <2>2. T \in All /\ T[t] = n /\ \A w \in Tasks : w # t => T[w] = task[w]
      BY <1>0, <2>1, Zenon DEF All
    <2>3. PICK M : M = notify_parent(T, t)
      BY Zenon
    <2>4. \A w \in Tasks : IF w = Parent[t] THEN M[w] = Notified(T[w]) ELSE M[w] = T[w]
      BY <2>2, <2>3, NotifyIs
    <2>5. task' = M /\ Parent[t] # t
      BY <1>b, <2>1, <2>3, SignalsAssumption, Zenon
    <2>6. CASE v = t
      BY <1>b, <2>2, <2>4, <2>5, <2>6, Zenon
    <2>7. CASE v # t
      <3>1. M[v].wait_event = T[v].wait_event \/ (M[v].wait_event = "continued" /\ M[v].queued)
        BY <2>2, <2>3, SendsEvents, Zenon
      <3> QED BY <2>2, <2>5, <2>7, <3>1, Zenon
    <2> QED BY <2>6, <2>7, Zenon
  <1>c. ASSUME NEW u \in Tasks, NEW s \in Sigs, NEW M, M = signal_queue(task, u, s),
               task'[v] = M[v] \/ Kept(M[v], task'[v])
        PROVE  Good(task[v], task'[v])
    <2>1. M[v].wait_event = task[v].wait_event \/ (M[v].wait_event = "continued" /\ M[v].queued)
      BY <1>0, <1>c, SendsEvents, Zenon
    <2>2. task'[v].wait_event = M[v].wait_event /\ task'[v].queued = M[v].queued
      BY <1>c, Zenon DEF Kept
    <2> QED BY <2>1, <2>2, Zenon
  <1>1. ASSUME NEW t \in Tasks, UserCall(t) PROVE Good(task[v], task'[v])
    <2>1. ASSUME NEW u \in Tasks, NEW s \in Sigs, ksys_kill(t, u, s) PROVE Good(task[v], task'[v])
      <3>0. task \in All
        BY <1>0, Zenon
      <3>1. PICK M \in All : /\ M = signal_queue(task, u, s) /\ Kept(M[t], task'[t])
                            /\ \A w \in Tasks : w # t => task'[w] = M[w]
        BY <2>1, <3>0, KillIs
      <3>2. M = signal_queue(task, u, s) /\ (task'[v] = M[v] \/ Kept(M[v], task'[v]))
        BY <3>1, Zenon
      <3> QED BY <1>c, <3>2, Zenon
    <2>2. CASE ~ \E u \in Tasks, s \in Sigs : ksys_kill(t, u, s)
      <3>1. PICK n : Do(t, n) /\ Kept(task[t], n)
        BY <1>0, <1>1, <2>2, CallIs, Zenon
      <3> QED BY <1>a, <3>1, Zenon DEF Kept
    <2> QED BY <2>1, <2>2, Zenon
  <1>2. ASSUME NEW t \in Tasks, Kernel(t) \/ Resume(t) \/ WakeReader(t)
        PROVE  Good(task[v], task'[v]) \/ Seen
    <2>1. CASE SuspendTest(t) \/ ReadTest(t)
      <3>1. PICK n \in TaskStruct : Do(t, n) /\ Kept(task[t], n)
        BY <1>0, <2>1, TestIs, Zenon
      <3> QED BY <1>a, <3>1, Zenon DEF Kept
    <2>2. CASE WaitTest(t)
      <3>1. Rounds(t) /\ (v # t => task'[v] = task[v] \/ ChildSeen(t, v))
        BY <1>0, <2>2, WaitIs, Zenon
      <3>2. CASE v = t
        BY <3>1, <3>2, Zenon DEF Rounds
      <3>3. CASE task'[v] = task[v]
        BY <3>3, Zenon
      <3>4. CASE ChildSeen(t, v)
        BY <1>0, <3>4, Zenon DEF ChildSeen, TaskStruct
      <3> QED BY <3>1, <3>2, <3>3, <3>4, Zenon
    <2>3. CASE Block(t) \/ Park(t) \/ Resume(t)
      <3>1. PICK n \in TaskStruct : Do(t, n) /\ n.wait_event = task[t].wait_event
        BY <1>0, <2>3, TurnIs, Zenon DEF TurnsTo
      <3> QED BY <1>a, <3>1, Zenon
    <2>4. CASE do_signal(t)
      <3>1. PICK n \in TaskStruct : Do(t, n) /\ Kept(task[t], n)
        BY <1>0, <2>4, SignalIs, Zenon
      <3> QED BY <1>a, <3>1, Zenon DEF Kept
    <2>5. CASE Take(t)
      <3>1. PICK n \in TaskStruct : TakesTo(t, n)
        BY <1>0, <2>5, TakeIs, Zenon
      <3>2. \/ Do(t, n) /\ n.wait_event = task[t].wait_event
            \/ /\ task' = notify_parent([task EXCEPT ![t] = n], t)
               /\ n.wait_event = "none" /\ n.st = "zombie"
        BY <3>1, Zenon DEF TakesTo
      <3> QED BY <1>a, <1>b, <3>1, <3>2, Zenon
    <2>6. CASE Stop(t)
      <3>1. PICK n \in TaskStruct :
              task' = notify_parent([task EXCEPT ![t] = n], t) /\ n.wait_event = "stopped"
        BY <1>0, <2>6, StopIs, Zenon
      <3> QED BY <1>b, <3>1, Zenon
    <2>7. CASE WakeReader(t)
      <3>1. PICK n : n = Woken(task[t])
        BY Zenon
      <3>2. n.wait_event = task[t].wait_event
        BY <1>0, <3>1, WokenIs, Zenon
      <3>3. Do(t, n)
        BY <2>7, <3>1, Zenon DEF WakeReader, wake_up_process, Do
      <3> QED BY <1>a, <3>2, <3>3, Zenon
    <2> QED BY <1>2, <2>1, <2>2, <2>3, <2>4, <2>5, <2>6, <2>7, Zenon DEF Kernel
  <1>3. ASSUME NEW u \in Tasks, NEW s \in IrqSigs, IrqSignal(u, s) PROVE Good(task[v], task'[v])
    <2>1. s \in Sigs /\ task' = signal_queue(task, u, s)
      BY <1>3, SignalsAssumption, Zenon DEF IrqSignal
    <2> QED BY <1>c, <2>1, Zenon
  <1>4. CASE UNCHANGED task
    BY <1>4, Zenon
  <1> QED BY <1>1, <1>2, <1>3, <1>4, Zenon DEF Next

----------------------------------------------------------------------------
(***************************************************************************)
(* One CPU: what a signal sent leaves of a task that sleeps or stops.      *)
(***************************************************************************)
(* Signals that differ.                                                    *)
LEMMA Numbers ==
    /\ SIGCONT \notin StopSigs /\ SIGKILL \notin StopSigs /\ SIGKILL # SIGCONT
    /\ SIGCHLD \notin StopSigs /\ SIGCHLD # SIGCONT /\ SIGCHLD # SIGKILL
    /\ SIGCONT \notin IrqSigs /\ SIGKILL \notin IrqSigs
  BY SignalsAssumption DEF SIGCONT, SIGKILL, SIGCHLD, StopSigs

(* A signal queued adds itself, and drops what it cancels.                 *)
LEMMA QueueIs ==
    ASSUME NEW S, NEW s, Compatible(S)
    PROVE  Queue(S, s) \subseteq S \cup {s} /\ Compatible(Queue(S, s))
  <1>1. Queue(S, s) \subseteq S \cup {s}
    BY Zenon DEF Queue
  <1>2. CASE s = SIGCONT
    BY <1>2, Zenon DEF Queue, Compatible
  <1>3. CASE s # SIGCONT /\ s \in StopSigs
    BY <1>3, Zenon DEF Queue, Compatible
  <1>4. CASE s # SIGCONT /\ s \notin StopSigs
    <2>1. Queue(S, s) = S \cup {s}
      BY <1>4, Zenon DEF Queue
    <2>2. SIGCONT \in S \cup {s} => SIGCONT \in S
      BY <1>4, Zenon
    <2>3. (S \cup {s}) \cap StopSigs = S \cap StopSigs
      BY <1>4, Zenon
    <2> QED BY <1>1, <2>1, <2>2, <2>3, Zenon DEF Compatible
  <1> QED BY <1>1, <1>2, <1>3, <1>4, Zenon

(* What is enough to stay settled.                                         *)
LEMMA SettledSent ==
    ASSUME NEW r, NEW m, Settled(r), Mild(r, m), r.pc # "block", Compatible(m.pending),
           m.wait_event = r.wait_event \/ r.st = "stopped", m.st = r.st \/ m.st = "running",
           ~m.queued => ~r.queued /\ m.st = r.st /\ (m.st = "sleeping" => ~signal_pending(m)),
           Halts(m) => {SIGCONT, SIGKILL} \cap m.pending = {}
    PROVE  Settled(m)
  <1>1. m.pc = r.pc /\ m.irqs = r.irqs /\ m.sig = r.sig /\ m.seen = r.seen
    BY Zenon DEF Mild
  <1>2. m.pc = "asleep" /\ ~m.queued => m.st = "sleeping"
    BY <1>1, Zenon DEF Settled
  <1>3. m.pc = "parked" /\ ~m.queued => m.st = "stopped"
    BY <1>1, Zenon DEF Settled
  <1>4. Sleeps(m) => ~signal_pending(m)
    BY <1>1, <1>2, Zenon DEF Sleeps
  <1>5. m.irqs => m.pc \in {"ret", "take", "stop", "park", "parked"}
    BY <1>1, Zenon DEF Settled
  <1>6. m.pc = "take" =>
          m.sig \in m.seen /\ (SIGKILL \in m.seen => m.sig = SIGKILL) /\ Compatible(m.seen)
    BY <1>1, Zenon DEF Settled
  <1>7. IF m.pc = "dead" THEN m.st # "stopped" /\ m.wait_event = "none"
        ELSE m.st \notin {"zombie", "reaped"}
    BY <1>1, Zenon DEF Settled
  <1> QED BY <1>2, <1>3, <1>4, <1>5, <1>6, <1>7, Zenon DEF Settled

(* A signal that continues nobody, ...                                     *)
LEMMA MarkedSettled ==
    ASSUME NEW r \in TaskStruct, NEW s \in Sigs, Settled(r), NEW m, m = Marked(r, s),
           r.pc # "block", r.pc \in {"stop", "park"} => s \notin {SIGCONT, SIGKILL},
           ~(s = SIGCONT /\ r.st = "stopped")
    PROVE  Settled(m)
  <1>1. /\ Mild(r, m) /\ m.pending = Queue(r.pending, s) /\ m.wait_event = r.wait_event
        /\ (m.queued \/ (~r.queued /\ m.st = r.st /\ ~Wakes(m, s)))
        /\ (m.st = r.st \/ m.st = "running")
    BY MarkedIs
  <1>2. Compatible(r.pending)
    BY Zenon DEF Settled
  <1>3. Queue(r.pending, s) \subseteq r.pending \cup {s} /\ Compatible(Queue(r.pending, s))
    BY <1>2, QueueIs, Zenon
  <1>4. ~m.queued => ~r.queued /\ m.st = r.st /\ (m.st = "sleeping" => ~signal_pending(m))
    BY <1>1, Zenon DEF Wakes
  <1>5. ASSUME Halts(m) PROVE {SIGCONT, SIGKILL} \cap m.pending = {}
    <2>1. s \notin {SIGCONT, SIGKILL} /\ Halts(r)
      <3>1. m.pc = r.pc
        BY <1>1, Zenon DEF Mild
      <3>2. CASE r.pc \in {"stop", "park"}
        BY <3>2, Zenon DEF Halts
      <3>3. CASE r.pc = "parked" /\ ~m.queued
        <4>1. ~r.queued /\ r.st = "stopped" /\ m.st = "stopped" /\ ~Wakes(m, s)
          BY <1>1, <3>3, Zenon DEF Settled
        <4>2. s # SIGKILL /\ s # SIGCONT
          BY <4>1, Zenon DEF Wakes
        <4> QED BY <3>3, <4>1, <4>2, Zenon DEF Halts
      <3> QED BY <1>5, <3>1, <3>2, <3>3, Zenon DEF Halts
    <2>2. {SIGCONT, SIGKILL} \cap r.pending = {}
      BY <2>1, Zenon DEF Settled
    <2> QED BY <1>1, <1>3, <2>1, <2>2, Zenon
  <1> QED BY <1>1, <1>3, <1>4, <1>5, SettledSent, Zenon

(* ... SIGCHLD from notify_parent, which lets nobody sleep, ...            *)
LEMMA NotifiedSettled ==
    ASSUME NEW r \in TaskStruct, Settled(r), NEW m, m = Notified(r), r.pc # "block"
    PROVE  Settled(m) /\ ~Sleeps(m)
  <1>1. /\ Mild(r, m) /\ m.pending = Queue(r.pending, SIGCHLD) /\ m.wait_event = r.wait_event
        /\ (m.queued \/ (~r.queued /\ m.st = r.st /\ m.st # "sleeping"))
        /\ (m.st = r.st \/ m.st = "running")
    BY NotifiedIs
  <1>2. Compatible(r.pending)
    BY Zenon DEF Settled
  <1>3. Queue(r.pending, SIGCHLD) \subseteq r.pending \cup {SIGCHLD} /\ Compatible(Queue(r.pending, SIGCHLD))
    BY <1>2, QueueIs, Zenon
  <1>4. ~m.queued => ~r.queued /\ m.st = r.st /\ (m.st = "sleeping" => ~signal_pending(m))
    BY <1>1, Zenon
  <1>5. ASSUME Halts(m) PROVE {SIGCONT, SIGKILL} \cap m.pending = {}
    <2>1. Halts(r)
      BY <1>1, <1>5, Zenon DEF Halts, Mild
    <2>2. {SIGCONT, SIGKILL} \cap r.pending = {}
      BY <2>1, Zenon DEF Settled
    <2> QED BY <1>1, <1>3, <2>2, Numbers, Zenon
  <1>6. Settled(m)
    BY <1>1, <1>3, <1>4, <1>5, SettledSent, Zenon
  <1>7. ~Sleeps(m)
    BY <1>1, <1>6, Zenon DEF Sleeps, Settled, Mild
  <1> QED BY <1>6, <1>7, Zenon

(* ... and SIGCONT to a stopped task.                                      *)
LEMMA ContinuedSettled ==
    ASSUME NEW r \in TaskStruct, SIGCONT \in Sigs, Settled(r), r.st = "stopped",
           r.pc \notin {"block", "stop", "park"}, NEW m, m = Woken(Continued(r))
    PROVE  Settled(m) /\ ~Sleeps(m)
  <1>1. PICK n : n = Continued(r)
    BY Zenon
  <1>2. /\ n \in TaskStruct /\ Mild(r, n) /\ n.pending = Queue(r.pending, SIGCONT)
        /\ n.st = "running"
    BY <1>1, ContinuedIs, Zenon
  <1>3. m = Woken(n)
    BY <1>1, Zenon
  <1>4. /\ Mild(n, m) /\ m.queued /\ m.pending = n.pending
        /\ (m.st = n.st \/ m.st = "running")
    BY <1>2, <1>3, WokenIs
  <1>5. Mild(r, m)
    BY <1>2, <1>4, Zenon DEF Mild
  <1>6. Compatible(m.pending)
    <2>1. Compatible(r.pending)
      BY Zenon DEF Settled
    <2>2. Compatible(Queue(r.pending, SIGCONT))
      BY <2>1, QueueIs, Zenon
    <2> QED BY <1>2, <1>4, <2>2, Zenon
  <1>7. ~Halts(m) /\ ~Sleeps(m) /\ m.st = "running" /\ r.pc # "block"
    BY <1>2, <1>4, <1>5, Zenon DEF Halts, Sleeps, Mild
  <1> QED BY <1>4, <1>5, <1>6, <1>7, SettledSent, Zenon

(***************************************************************************)
(* One CPU: a task in the kernel keeps the others out.                     *)
(***************************************************************************)
(* So a step of t is taken while no other task is in the kernel, ...   *)
LEMMA Alone ==
    ASSUME OneCpu, NEW t \in Tasks, HasCpu(t), NEW u \in Tasks, InKernel(u) PROVE u = t
  <1>1. Busy \ {t} \in SUBSET Tasks
    BY Zenon DEF Busy
  <1>2. Busy \ {t} = {}
    BY <1>1, Zenon DEF OneCpu, HasCpu
  <1> QED BY <1>2, Zenon DEF Busy

(* ... and an interrupt while the one that is has them unmasked.           *)
LEMMA Unmasked ==
    ASSUME OneCpu, NEW s, NEW w \in Tasks, IrqSignal(w, s), NEW u \in Tasks, InKernel(u)
    PROVE  task[u].irqs
  <1>1. {t \in Busy : ~task[t].irqs} \in SUBSET Tasks
    BY Zenon DEF Busy
  <1>2. {t \in Busy : ~task[t].irqs} = {}
    BY <1>1, Zenon DEF OneCpu, IrqSignal
  <1> QED BY <1>2, Zenon DEF Busy

(* A step of t alone, or a wake-up, keeps what one CPU guarantees.         *)
LEMMA DoOne ==
    ASSUME OneCpuInv, OneCpu, IInv', NEW t \in Tasks, NEW n, Do(t, n),
           HasCpu(t) \/ n.pc = task[t].pc, Settled(n), Unreported(n) => Unreported(task[t]),
           Sleeps(n) /\ n.res.call = "wait" =>
             \/ Sleeps(task[t]) /\ task[t].res.call = "wait"
             \/ \A u \in Tasks : Parent[u] = t => ~Unreported(task[u])
    PROVE  OneCpuInv'
  <1>1. task'[t] = n /\ \A v \in Tasks : v # t => task'[v] = task[v]
    BY Zenon DEF OneCpuInv, IInv, Do
  <1>2. OneBusy'
    <2>1. ASSUME NEW u \in Tasks, NEW w \in Tasks, InKernel(u)', InKernel(w)' PROVE u = w
      <3>1. CASE HasCpu(t)
        <4>1. \A v \in Tasks : v # t => ~InKernel(v)
          BY <3>1, Alone, Zenon
        <4> QED BY <1>1, <2>1, <4>1, Zenon DEF InKernel
      <3>2. CASE n.pc = task[t].pc
        <4>1. InKernel(u) /\ InKernel(w)
          BY <1>1, <2>1, <3>2, Zenon DEF InKernel
        <4> QED BY <4>1, Zenon DEF OneCpuInv, OneBusy
      <3> QED BY <3>1, <3>2, Zenon
    <2> QED BY <2>1, Zenon DEF OneBusy
  <1>3. ASSUME NEW v \in Tasks PROVE Settled(task'[v])
    BY <1>1, Zenon DEF OneCpuInv
  <1>4. ASSUME NEW p \in Tasks, NEW c \in Tasks, Parent[c] = p, task'[p].res.call = "wait",
               Sleeps(task'[p])
        PROVE  ~Unreported(task'[c])
    <2>1. ~Unreported(task[c])
      <3>1. CASE p = t
        BY <1>1, <1>4, <3>1, Zenon DEF OneCpuInv
      <3>2. CASE p # t
        BY <1>1, <1>4, <3>2, Zenon DEF OneCpuInv
      <3> QED BY <3>1, <3>2, Zenon
    <2> QED BY <1>1, <2>1, Zenon
  <1> QED BY <1>2, <1>3, <1>4, Zenon DEF OneCpuInv

(* So does one that goes on to tell the parent.                            *)
LEMMA NotifyOne ==
    ASSUME OneCpuInv, OneCpu, IInv', NEW t \in Tasks, NEW n \in TaskStruct, HasCpu(t),
           task' = notify_parent([task EXCEPT ![t] = n], t), Settled(n), ~Sleeps(n)
    PROVE  OneCpuInv'
  <1>0. task \in All /\ \A v \in Tasks : task[v] \in TaskStruct /\ Settled(task[v])
    BY Zenon DEF OneCpuInv, IInv, All
  <1>1. PICK T : T = [task EXCEPT ![t] = n]
    BY Zenon
  <1>2. T \in All /\ T[t] = n /\ \A v \in Tasks : v # t => T[v] = task[v]
    BY <1>0, <1>1, Zenon DEF All
  <1>3. PICK M : M = notify_parent(T, t)
    BY Zenon
  <1>4. \A v \in Tasks : IF v = Parent[t] THEN M[v] = Notified(T[v]) ELSE M[v] = T[v]
    BY <1>2, <1>3, NotifyIs
  <1>5. task' = M /\ Parent[t] # t
    BY <1>1, <1>3, SignalsAssumption, Zenon
  <1>6. task'[t] = n
    BY <1>2, <1>4, <1>5, Zenon
  <1>7. ASSUME NEW v \in Tasks, v # t
        PROVE  /\ Settled(task'[v]) /\ (Unreported(task'[v]) => Unreported(task[v]))
               /\ task'[v].pc = task[v].pc /\ task'[v].res = task[v].res
               /\ Sleeps(task'[v]) => v # Parent[t] /\ Sleeps(task[v])
    <2>1. CASE v # Parent[t]
      BY <1>0, <1>2, <1>4, <1>5, <1>7, <2>1, Zenon
    <2>2. CASE v = Parent[t]
      <3>1. PICK m : m = Notified(task[v])
        BY Zenon
      <3>2. task'[v] = m
        BY <1>2, <1>4, <1>5, <1>7, <2>2, <3>1, Zenon
      <3>3. task[v].pc # "block"
        BY <1>7, Alone, Zenon DEF InKernel
      <3>4. Settled(m) /\ ~Sleeps(m)
        BY <1>0, <3>1, <3>3, NotifiedSettled, Zenon
      <3>5. /\ Mild(task[v], m) /\ m.wait_event = task[v].wait_event
            /\ m.st = task[v].st \/ m.st = "running"
        BY <1>0, <3>1, NotifiedIs, Zenon
      <3>6. m.pc = task[v].pc /\ m.res = task[v].res /\ (Unreported(m) => Unreported(task[v]))
        BY <3>5, Zenon DEF Mild, Unreported
      <3> QED BY <3>2, <3>4, <3>6, Zenon
    <2> QED BY <2>1, <2>2, Zenon
  <1>8. OneBusy'
    <2>1. ASSUME NEW u \in Tasks, NEW w \in Tasks, InKernel(u)', InKernel(w)' PROVE u = w
      <3>1. \A v \in Tasks : v # t => ~InKernel(v)
        BY Alone, Zenon
      <3> QED BY <1>7, <2>1, <3>1, Zenon DEF InKernel
    <2> QED BY <2>1, Zenon DEF OneBusy
  <1>9. ASSUME NEW p \in Tasks, NEW c \in Tasks, Parent[c] = p, task'[p].res.call = "wait",
               Sleeps(task'[p])
        PROVE  ~Unreported(task'[c])
    <2>1. p # t /\ p # Parent[t] /\ Sleeps(task[p]) /\ task[p].res.call = "wait"
      BY <1>6, <1>7, <1>9, Zenon
    <2>2. c # t /\ ~Unreported(task[c])
      BY <1>9, <2>1, Zenon DEF OneCpuInv
    <2> QED BY <1>7, <2>2, Zenon
  <1>10. \A v \in Tasks : Settled(task'[v])
    BY <1>6, <1>7, Zenon
  <1> QED BY <1>8, <1>9, <1>10, Zenon DEF OneCpuInv

(* A signal sent, where nobody is about to sleep, or to stop if it would   *)
(* be resumed.                                                             *)
LEMMA QueueOne ==
    ASSUME OneCpuInv, NEW u \in Tasks, NEW s \in Sigs, NEW M, M = signal_queue(task, u, s),
           \A v \in Tasks : /\ task[v].pc # "block"
                            /\ task[v].pc \in {"stop", "park"} => s \notin {SIGCONT, SIGKILL}
    PROVE  /\ \A v \in Tasks : Settled(M[v]) /\ Mild(task[v], M[v])
           /\ \A p, c \in Tasks : Parent[c] = p /\ M[p].res.call = "wait" /\ Sleeps(M[p])
                => ~Unreported(M[c])
  <1>0. task \in All /\ \A v \in Tasks : task[v] \in TaskStruct /\ Settled(task[v])
    BY Zenon DEF OneCpuInv, IInv, All
  <1>m. \A v \in Tasks : Mild(task[v], M[v])
    BY <1>0, SendsMild, Zenon
  <1>1. CASE s = SIGCONT /\ task[u].st = "stopped"
    <2>1. /\ M[u] = Woken(Continued(task[u]))
          /\ \A v \in Tasks : v # u =>
               IF v = Parent[u] THEN M[v] = Notified(task[v]) ELSE M[v] = task[v]
      BY <1>0, <1>1, SignalQueueIs
    <2>2. Settled(M[u]) /\ ~Sleeps(M[u])
      <3>1. task[u].pc \notin {"block", "stop", "park"} /\ SIGCONT \in Sigs
        BY <1>1, Zenon
      <3>2. PICK m : m = Woken(Continued(task[u]))
        BY Zenon
      <3>3. Settled(m) /\ ~Sleeps(m)
        BY <1>0, <1>1, <3>1, <3>2, ContinuedSettled
      <3> QED BY <2>1, <3>2, <3>3, Zenon
    <2>3. ASSUME NEW v \in Tasks, v # u
          PROVE  /\ Settled(M[v]) /\ (Unreported(M[v]) => Unreported(task[v]))
                 /\ M[v].res = task[v].res /\ (Sleeps(M[v]) => v # Parent[u] /\ Sleeps(task[v]))
      <3>1. CASE v # Parent[u]
        BY <1>0, <2>1, <2>3, <3>1, Zenon
      <3>2. CASE v = Parent[u]
        <4>1. PICK m : m = Notified(task[v])
          BY Zenon
        <4>2. Settled(m) /\ ~Sleeps(m)
          BY <1>0, <4>1, NotifiedSettled, Zenon
        <4>3. /\ Mild(task[v], m) /\ m.wait_event = task[v].wait_event
              /\ m.st = task[v].st \/ m.st = "running"
          BY <1>0, <4>1, NotifiedIs, Zenon
        <4>4. m.res = task[v].res /\ (Unreported(m) => Unreported(task[v]))
          BY <4>3, Zenon DEF Mild, Unreported
        <4> QED BY <2>1, <2>3, <3>2, <4>1, <4>2, <4>4, Zenon
      <3> QED BY <3>1, <3>2, Zenon
    <2>4. ASSUME NEW p \in Tasks, NEW c \in Tasks, Parent[c] = p, M[p].res.call = "wait", Sleeps(M[p])
          PROVE  ~Unreported(M[c])
      <3>1. p # u /\ p # Parent[u] /\ Sleeps(task[p]) /\ task[p].res.call = "wait"
        BY <2>2, <2>3, <2>4, Zenon
      <3>2. c # u /\ ~Unreported(task[c])
        BY <2>4, <3>1, Zenon DEF OneCpuInv
      <3> QED BY <2>3, <3>2, Zenon
    <2> QED BY <1>m, <2>2, <2>3, <2>4, Zenon
  <1>2. CASE ~(s = SIGCONT /\ task[u].st = "stopped")
    <2>1. PICK m : m = Marked(task[u], s)
      BY Zenon
    <2>2. M[u] = m /\ \A v \in Tasks : v # u => M[v] = task[v]
      BY <1>0, <1>2, <2>1, SignalQueueIs
    <2>3. Settled(m)
      BY <1>0, <1>2, <2>1, MarkedSettled
    <2>4. /\ Mild(task[u], m) /\ m.wait_event = task[u].wait_event
          /\ m.queued \/ ~task[u].queued
          /\ m.st = task[u].st \/ m.st = "running"
      BY <1>0, <2>1, MarkedIs
    <2>5. /\ m.res = task[u].res /\ (Unreported(m) => Unreported(task[u]))
          /\ Sleeps(m) => Sleeps(task[u])
      BY <2>4, Zenon DEF Mild, Unreported, Sleeps
    <2>6. ASSUME NEW p \in Tasks, NEW c \in Tasks, Parent[c] = p, M[p].res.call = "wait", Sleeps(M[p])
          PROVE  ~Unreported(M[c])
      <3>1. Sleeps(task[p]) /\ task[p].res.call = "wait"
        BY <2>2, <2>5, <2>6, Zenon
      <3>2. ~Unreported(task[c])
        BY <2>6, <3>1, Zenon DEF OneCpuInv
      <3> QED BY <2>2, <2>5, <3>2, Zenon
    <2>7. \A v \in Tasks : Settled(M[v])
      BY <1>0, <2>2, <2>3, Zenon
    <2> QED BY <1>m, <2>6, <2>7, Zenon
  <1> QED BY <1>1, <1>2, Zenon

(* A task that is neither asleep nor stopped nor taking a signal.          *)
LEMMA SettledAt ==
    ASSUME NEW r, NEW n, Settled(r), r.pc # "dead", n.pc \in {"user", "ret", "test"},
           Compatible(n.pending), n.st = r.st \/ n.st = "running", n.irqs => n.pc = "ret"
    PROVE  Settled(n) /\ ~Sleeps(n)
  <1>1. ~Sleeps(n) /\ ~Halts(n)
    BY Zenon DEF Sleeps, Halts
  <1>2. n.st \notin {"zombie", "reaped"}
    BY Zenon DEF Settled
  <1> QED BY <1>1, <1>2, Zenon DEF Settled

(* kill, from a program: nobody is in the kernel.                          *)
LEMMA KillOne ==
    ASSUME OneCpuInv, OneCpu, IInv', NEW t \in Tasks, NEW u \in Tasks, NEW s \in Sigs,
           ksys_kill(t, u, s)
    PROVE  OneCpuInv'
  <1>0. task \in All
    BY Zenon DEF OneCpuInv, IInv, All
  <1>1. PICK M \in All :
             /\ M = signal_queue(task, u, s) /\ task[t].pc = "user" /\ HasCpu(t)
             /\ task'[t].pc = "ret" /\ Kept(M[t], task'[t]) /\ task'[t].irqs = M[t].irqs
             /\ \A v \in Tasks : v # t => task'[v] = M[v]
    BY <1>0, KillIs
  <1>2. \A v \in Tasks : ~InKernel(v)
    <2>1. ~InKernel(t)
      BY <1>1, Zenon DEF InKernel
    <2> QED BY <1>1, <2>1, Alone, Zenon
  <1>3. \A v \in Tasks : /\ task[v].pc # "block"
                         /\ task[v].pc \in {"stop", "park"} => s \notin {SIGCONT, SIGKILL}
    BY <1>2, Zenon DEF InKernel
  <1>4. M = signal_queue(task, u, s)
    BY <1>1, Zenon
  <1>5. /\ \A v \in Tasks : Settled(M[v]) /\ Mild(task[v], M[v])
        /\ \A p, c \in Tasks : Parent[c] = p /\ M[p].res.call = "wait" /\ Sleeps(M[p]) => ~Unreported(M[c])
    BY <1>3, <1>4, QueueOne, Zenon
  <1>6. Settled(task'[t]) /\ ~Sleeps(task'[t]) /\ (Unreported(task'[t]) => Unreported(M[t]))
    <2>1. /\ M[t].pc # "dead" /\ Compatible(task'[t].pending) /\ task'[t].st = M[t].st
          /\ Unreported(task'[t]) => Unreported(M[t])
      BY <1>1, <1>5 DEF Kept, Settled, Mild, Unreported
    <2> QED BY <1>1, <1>5, <2>1, SettledAt, Zenon
  <1>7. OneBusy'
    <2>1. ASSUME NEW v \in Tasks, v # t PROVE ~InKernel(v)'
      <3>1. task'[v].pc = task[v].pc
        BY <1>1, <1>5, <2>1, Zenon DEF Mild
      <3> QED BY <1>2, <3>1, Zenon DEF InKernel
    <2> QED BY <2>1, Zenon DEF OneBusy
  <1>8. \A v \in Tasks : Settled(task'[v])
    BY <1>1, <1>5, <1>6, Zenon
  <1>9. ASSUME NEW p \in Tasks, NEW c \in Tasks, Parent[c] = p, task'[p].res.call = "wait",
               Sleeps(task'[p])
        PROVE  ~Unreported(task'[c])
    <2>1. p # t /\ task'[p] = M[p]
      BY <1>1, <1>6, <1>9, Zenon
    <2>2. ~Unreported(M[c])
      BY <1>5, <1>9, <2>1, Zenon
    <2> QED BY <1>1, <1>6, <2>2, Zenon
  <1> QED BY <1>7, <1>8, <1>9, Zenon DEF OneCpuInv

(* The interrupt: whoever is in the kernel has left the wait queues, and   *)
(* the keyboard sends neither SIGCONT nor SIGKILL.                         *)
LEMMA IrqOne ==
    ASSUME OneCpuInv, OneCpu, IInv', NEW u \in Tasks, NEW s \in IrqSigs, IrqSignal(u, s)
    PROVE  OneCpuInv'
  <1>0. task \in All /\ s \in Sigs /\ \A v \in Tasks : Settled(task[v])
    BY SignalsAssumption, Zenon DEF OneCpuInv, IInv, All
  <1>1. \A v \in Tasks : /\ task[v].pc # "block"
                         /\ task[v].pc \in {"stop", "park"} => s \notin {SIGCONT, SIGKILL}
    <2>1. s \notin {SIGCONT, SIGKILL}
      BY Numbers, Zenon
    <2>2. ASSUME NEW v \in Tasks, task[v].pc = "block" PROVE FALSE
      <3>1. task[v].irqs
        BY <2>2, Unmasked, Zenon DEF InKernel
      <3> QED BY <1>0, <2>2, <3>1, Zenon DEF Settled
    <2> QED BY <2>1, <2>2, Zenon
  <1>2. PICK M : M = signal_queue(task, u, s)
    BY Zenon
  <1>3. /\ \A v \in Tasks : Settled(M[v]) /\ Mild(task[v], M[v])
        /\ \A p, c \in Tasks : Parent[c] = p /\ M[p].res.call = "wait" /\ Sleeps(M[p]) => ~Unreported(M[c])
    BY <1>0, <1>1, <1>2, QueueOne, Zenon
  <1>4. task' = M
    BY <1>2, Zenon DEF IrqSignal
  <1>5. OneBusy'
    BY <1>3, <1>4, Zenon DEF OneCpuInv, OneBusy, InKernel, Mild
  <1> QED BY <1>3, <1>4, <1>5, Zenon DEF OneCpuInv

(* Signals that are dropped leave the others compatible.                   *)
LEMMA FewerCompatible == ASSUME NEW S, NEW D, Compatible(S), D \subseteq S PROVE Compatible(D)
  BY Zenon DEF Compatible

(* A child reported is no longer worth a report.                           *)
LEMMA SeenSettled ==
    ASSUME NEW r \in TaskStruct, Settled(r), NEW m,
           \/ r.st = "zombie" /\ m = [r EXCEPT !.st = "reaped"]
           \/ m = [r EXCEPT !.wait_event = "none"]
    PROVE  /\ Settled(m) /\ m.pc = r.pc /\ m.res = r.res
           /\ (Sleeps(m) => Sleeps(r)) /\ (Unreported(m) => Unreported(r))
  <1>1. Mild(r, m)
    BY SeenIs, Zenon
  <1>2. /\ m.pending = r.pending /\ m.queued = r.queued
        /\ \/ r.st = "zombie" /\ m.st = "reaped" /\ m.wait_event = r.wait_event
           \/ m.st = r.st /\ m.wait_event = "none"
    BY Zenon DEF TaskStruct
  <1>3. m.pc = r.pc /\ m.res = r.res /\ m.blocked = r.blocked /\ m.irqs = r.irqs
        /\ m.sig = r.sig /\ m.seen = r.seen
    BY <1>1, Zenon DEF Mild
  <1>4. (Sleeps(m) <=> Sleeps(r)) /\ (Halts(m) <=> Halts(r)) /\ (Unreported(m) => Unreported(r))
    BY <1>2, <1>3, Zenon DEF Sleeps, Halts, Unreported
  <1>5. signal_pending(m) <=> signal_pending(r)
    BY <1>2, <1>3, Zenon DEF signal_pending, Ready
  <1>6. /\ m.pc = "asleep" /\ ~m.queued => m.st = "sleeping"
        /\ m.pc = "parked" /\ ~m.queued => m.st = "stopped"
        /\ IF m.pc = "dead" THEN m.st # "stopped" /\ m.wait_event = "none"
           ELSE m.st \notin {"zombie", "reaped"}
    BY <1>2, <1>3, Zenon DEF Settled
  <1>7. Settled(m)
    BY <1>2, <1>3, <1>4, <1>5, <1>6, Zenon DEF Settled
  <1> QED BY <1>3, <1>4, <1>7, Zenon

(* wait4 looks at its children and sleeps without giving up the CPU.       *)
LEMMA WaitOne ==
    ASSUME OneCpuInv, OneCpu, IInv', NEW t \in Tasks, WaitTest(t) PROVE OneCpuInv'
  <1>0. /\ task \in All /\ HasCpu(t)
        /\ \A v \in Tasks : task[v] \in TaskStruct /\ Settled(task[v])
    BY Zenon DEF OneCpuInv, IInv, All, WaitTest, At
  <1>1. /\ task' \in All /\ task[t].pc = "test" /\ task[t].res.call = "wait" /\ Rounds(t)
        /\ \A v \in Tasks : v # t => task'[v] = task[v] \/ ChildSeen(t, v)
    BY <1>0, WaitIs, Zenon
  <1>2. ASSUME NEW v \in Tasks, v # t
        PROVE  /\ Settled(task'[v]) /\ task'[v].pc = task[v].pc /\ task'[v].res = task[v].res
               /\ (Sleeps(task'[v]) => Sleeps(task[v]))
               /\ (Unreported(task'[v]) => Unreported(task[v]))
    <2>1. CASE task'[v] = task[v]
      BY <1>0, <2>1, Zenon
    <2>2. CASE ChildSeen(t, v)
      <3>1. \/ task[v].st = "zombie" /\ task'[v] = [task[v] EXCEPT !.st = "reaped"]
            \/ task'[v] = [task[v] EXCEPT !.wait_event = "none"]
        BY <2>2, Zenon DEF ChildSeen
      <3> QED BY <1>0, <3>1, SeenSettled, Zenon
    <2> QED BY <1>1, <1>2, <2>1, <2>2, Zenon
  <1>3. /\ task[t].irqs = FALSE /\ task[t].irqs = task'[t].irqs
        /\ task'[t].st = task[t].st /\ task'[t].wait_event = task[t].wait_event
        /\ task'[t].pc \in {"ret", "block", "test"} /\ task'[t].blocked = task[t].blocked
    <2>1. task[t].irqs \in BOOLEAN /\ ~task[t].irqs
      BY <1>0, <1>1, Zenon DEF Settled, TaskStruct
    <2> QED BY <1>1, <2>1, Zenon DEF Rounds, Calm
  <1>4. Compatible(task'[t].pending)
    <2>1. Compatible(task[t].pending)
      BY <1>0, Zenon DEF Settled
    <2>2. task'[t].pending \subseteq task[t].pending
      BY <1>1, Zenon DEF Rounds
    <2> QED BY <2>1, <2>2, FewerCompatible, Zenon
  <1>5. ASSUME task'[t].pc = "block"
        PROVE  /\ ~signal_pending(task[t]) /\ task'[t].pending = task[t].pending
               /\ \A c \in Tasks : Parent[c] = t => ~Unreported(task[c])
    <2>1. /\ ~signal_pending(task[t]) /\ task'[t].pending = task[t].pending
          /\ Zombies(t) = {} /\ Reported(t, "stopped") = {} /\ Reported(t, "continued") = {}
      BY <1>1, <1>5, Zenon DEF Rounds
    <2>2. ASSUME NEW c \in Tasks, Parent[c] = t PROVE ~Unreported(task[c])
      <3>1. task[c].wait_event \in {"none", "stopped", "continued"}
        BY <1>0, Zenon DEF TaskStruct
      <3>2. CASE task[c].st = "reaped"
        BY <1>0, <3>2, Zenon DEF Settled, Unreported
      <3>3. CASE task[c].st # "reaped"
        <4>1. c \in Children(t)
          BY <2>2, <3>3, Zenon DEF Children
        <4> QED BY <2>1, <3>1, <4>1, Zenon DEF Zombies, Reported, Unreported
      <3> QED BY <3>2, <3>3, Zenon
    <2> QED BY <2>1, <2>2, Zenon
  <1>6. Settled(task'[t])
    <2>1. CASE task'[t].pc # "block"
      <3>1. task[t].pc # "dead" /\ task'[t].pc \in {"user", "ret", "test"} /\ ~task'[t].irqs
        BY <1>1, <1>3, <2>1, Zenon
      <3> QED BY <1>0, <1>3, <1>4, <3>1, SettledAt, Zenon
    <2>2. CASE task'[t].pc = "block"
      <3>1. ~signal_pending(task'[t])
        BY <1>3, <1>5, <2>2, Zenon DEF signal_pending, Ready
      <3>2. ~Halts(task'[t]) /\ ~task'[t].irqs
        BY <1>3, <2>2, Zenon DEF Halts
      <3>3. task'[t].st \notin {"zombie", "reaped"}
        BY <1>0, <1>1, <1>3, Zenon DEF Settled
      <3> QED BY <1>4, <2>2, <3>1, <3>2, <3>3, Zenon DEF Settled
    <2> QED BY <2>1, <2>2, Zenon
  <1>7. OneBusy'
    <2>1. \A v \in Tasks : v # t => ~InKernel(v)
      BY <1>0, Alone, Zenon
    <2>2. ASSUME NEW v \in Tasks, v # t PROVE ~InKernel(v)'
      BY <1>2, <2>1, <2>2, Zenon DEF InKernel
    <2> QED BY <2>2, Zenon DEF OneBusy
  <1>8. ASSUME NEW p \in Tasks, NEW c \in Tasks, Parent[c] = p, task'[p].res.call = "wait",
               Sleeps(task'[p])
        PROVE  ~Unreported(task'[c])
    <2>1. ~Unreported(task[c])
      <3>1. CASE p = t
        <4>1. task'[t].pc = "block"
          BY <1>3, <1>8, <3>1, Zenon DEF Sleeps
        <4> QED BY <1>5, <1>8, <3>1, <4>1, Zenon
      <3>2. CASE p # t
        BY <1>2, <1>8, <3>2, Zenon DEF OneCpuInv
      <3> QED BY <3>1, <3>2, Zenon
    <2>2. Unreported(task'[t]) => Unreported(task[t])
      BY <1>3, Zenon DEF Unreported
    <2> QED BY <1>2, <2>1, <2>2, Zenon
  <1>9. \A v \in Tasks : Settled(task'[v])
    BY <1>2, <1>6, Zenon
  <1> QED BY <1>7, <1>8, <1>9, Zenon DEF OneCpuInv

(* The other steps that leave the rest of the tasks alone.                 *)
LEMMA OwnOne ==
    ASSUME Least, OneCpuInv, OneCpu, IInv', NEW t \in Tasks,
           \/ UserCall(t) /\ ~ \E u \in Tasks, s \in Sigs : ksys_kill(t, u, s)
           \/ SuspendTest(t) \/ ReadTest(t) \/ Block(t) \/ Park(t) \/ Resume(t)
           \/ do_signal(t) \/ WakeReader(t)
    PROVE  OneCpuInv'
  <1> DEFINE R == task[t]
  <1>0. R \in TaskStruct /\ Settled(R) /\ Entitled(R) /\ Compatible(R.pending)
    BY Zenon DEF OneCpuInv, IInv, Settled
  <1>k. ASSUME NEW n, Kept(R, n) PROVE /\ (Unreported(n) => Unreported(R)) /\ n.st = R.st
                                       /\ Compatible(n.pending) /\ n.queued = R.queued
    BY <1>0, <1>k, Zenon DEF Kept, Unreported
  <1>a. ASSUME NEW n, Do(t, n), HasCpu(t), Kept(R, n), R.pc # "dead",
               n.pc \in {"user", "ret", "test"}, n.irqs => n.pc = "ret"
        PROVE  OneCpuInv'
    <2>1. (Unreported(n) => Unreported(R)) /\ n.st = R.st /\ Compatible(n.pending)
      BY <1>a, <1>k, Zenon
    <2>2. Settled(n) /\ ~Sleeps(n)
      BY <1>0, <1>a, <2>1, SettledAt, Zenon
    <2> QED BY <1>a, <2>1, <2>2, DoOne, Zenon
  <1>1. CASE UserCall(t) /\ ~ \E u \in Tasks, s \in Sigs : ksys_kill(t, u, s)
    <2>1. PICK n : /\ Do(t, n) /\ Kept(R, n) /\ n.irqs = R.irqs /\ n.pc \in {"ret", "test"}
                   /\ R.pc = "user" /\ HasCpu(t)
      BY <1>0, <1>1, CallIs, Zenon
    <2>2. ~n.irqs /\ R.pc # "dead" /\ n.pc \in {"user", "ret", "test"}
      BY <1>0, <2>1, Zenon DEF Settled
    <2> QED BY <1>a, <2>1, <2>2, Zenon
  <1>2. CASE SuspendTest(t) \/ ReadTest(t)
    <2>1. PICK n \in TaskStruct :
                /\ R.pc = "test" /\ HasCpu(t) /\ R.res.call # "wait"
                /\ Do(t, n) /\ Calm(R, n) /\ Kept(R, n) /\ n.res.call = R.res.call
                /\ \/ n.pc = "block" /\ ~signal_pending(R) /\ n.irqs = R.irqs
                   \/ n.pc = "ret"
      BY <1>0, <1>2, TestIs, Zenon
    <2>2. CASE n.pc = "ret"
      BY <1>a, <2>1, <2>2, Zenon
    <2>3. CASE n.pc = "block" /\ ~signal_pending(R) /\ n.irqs = R.irqs
      <3>1. (Unreported(n) => Unreported(R)) /\ n.st = R.st /\ Compatible(n.pending)
        BY <1>k, <2>1, Zenon
      <3>2. ~signal_pending(n) /\ ~n.irqs /\ n.st \notin {"zombie", "reaped"} /\ ~Halts(n)
        BY <1>0, <2>1, <2>3, Zenon DEF Settled, Calm, Kept, signal_pending, Ready, Halts
      <3>3. Settled(n)
        BY <2>3, <3>1, <3>2, Zenon DEF Settled
      <3> QED BY <2>1, <3>1, <3>3, DoOne, Zenon
    <2> QED BY <2>1, <2>2, <2>3, Zenon
  <1>3. CASE Block(t) \/ Park(t) \/ Resume(t)
    <2>1. PICK n \in TaskStruct : HasCpu(t) /\ Do(t, n) /\ Calm(R, n) /\ TurnsTo(t, n)
      BY <1>0, <1>3, TurnIs, Zenon
    <2>2. /\ n.pending = R.pending /\ n.wait_event = R.wait_event /\ n.res = R.res
          /\ (signal_pending(n) <=> signal_pending(R))
      BY <2>1, Zenon DEF TurnsTo, Calm, signal_pending, Ready
    <2>3. CASE R.pc = "block" /\ n.pc = "asleep" /\ n.st = "sleeping" /\ n.queued = FALSE /\ n.irqs = R.irqs
      <3>1. Sleeps(R) /\ ~signal_pending(n) /\ ~n.irqs /\ ~Halts(n) /\ Compatible(n.pending)
        BY <1>0, <2>2, <2>3, Zenon DEF Settled, Sleeps, Halts
      <3>2. Settled(n)
        BY <2>3, <3>1, Zenon DEF Settled
      <3>3. Unreported(n) => Unreported(R)
        BY <2>2, <2>3, Zenon DEF Unreported
      <3> QED BY <2>1, <2>2, <3>1, <3>2, <3>3, DoOne, Zenon
    <2>4. CASE R.pc = "park" /\ n.pc = "parked" /\ n.st = "stopped" /\ n.queued = FALSE /\ n.irqs = R.irqs
      <3>1. {SIGCONT, SIGKILL} \cap n.pending = {} /\ ~Sleeps(n) /\ Compatible(n.pending)
        BY <1>0, <2>2, <2>4, Zenon DEF Settled, Sleeps, Halts
      <3>2. Settled(n)
        BY <2>4, <3>1, Zenon DEF Settled
      <3>3. Unreported(n) => Unreported(R)
        BY <2>2, <2>4, Zenon DEF Unreported
      <3> QED BY <2>1, <3>1, <3>2, <3>3, DoOne, Zenon
    <2>5. CASE /\ R.pc = "asleep" /\ n.pc = "test" /\ n.st = R.st /\ n.irqs = R.irqs
      <3>1. ~n.irqs /\ Compatible(n.pending) /\ R.pc # "dead" /\ n.pc \in {"user", "ret", "test"}
        BY <1>0, <2>2, <2>5, Zenon DEF Settled
      <3>2. Settled(n) /\ ~Sleeps(n)
        BY <1>0, <2>5, <3>1, SettledAt, Zenon
      <3>3. Unreported(n) => Unreported(R)
        BY <2>2, <2>5, Zenon DEF Unreported
      <3> QED BY <2>1, <3>2, <3>3, DoOne, Zenon
    <2>6. CASE R.pc = "parked" /\ n.pc = "ret" /\ n.st = "running" /\ n.irqs = FALSE
      <3>1. Compatible(n.pending) /\ R.pc # "dead" /\ n.pc \in {"user", "ret", "test"}
        BY <1>0, <2>2, <2>6, Zenon
      <3>2. Settled(n) /\ ~Sleeps(n)
        BY <1>0, <2>6, <3>1, SettledAt, Zenon
      <3>3. Unreported(n) => Unreported(R)
        BY <2>2, <2>6, Zenon DEF Unreported
      <3> QED BY <2>1, <3>2, <3>3, DoOne, Zenon
    <2> QED BY <2>1, <2>3, <2>4, <2>5, <2>6, Zenon DEF TurnsTo
  <1>4. CASE do_signal(t)
    <2>1. PICK n \in TaskStruct :
                /\ R.pc = "ret" /\ HasCpu(t) /\ Do(t, n) /\ Kept(R, n)
                /\ \/ n.pc = "user" /\ n.irqs = FALSE
                   \/ /\ n.pc = "take" /\ n.irqs = R.irqs /\ n.seen = R.pending
                      /\ n.sig \in R.pending
                      /\ SIGKILL \in R.pending => n.sig = SIGKILL
      BY <1>0, <1>4, SignalIs, Zenon
    <2>2. CASE n.pc = "user" /\ n.irqs = FALSE
      BY <1>a, <2>1, <2>2, Zenon
    <2>3. CASE n.pc = "take"
      <3>1. (Unreported(n) => Unreported(R)) /\ n.st = R.st /\ Compatible(n.pending)
        BY <1>k, <2>1, Zenon
      <3>2. /\ ~Sleeps(n) /\ ~Halts(n) /\ n.st \notin {"zombie", "reaped"}
            /\ n.sig \in n.seen /\ (SIGKILL \in n.seen => n.sig = SIGKILL) /\ Compatible(n.seen)
        BY <1>0, <2>1, <2>3, <3>1, Zenon DEF Settled, Sleeps, Halts
      <3>3. Settled(n)
        BY <2>3, <3>1, <3>2, Zenon DEF Settled
      <3> QED BY <2>1, <3>1, <3>2, <3>3, DoOne, Zenon
    <2> QED BY <2>1, <2>2, <2>3, Zenon
  <1>5. CASE WakeReader(t)
    <2>1. PICK n : n = Woken(R)
      BY Zenon
    <2>2. /\ Mild(R, n) /\ n.queued /\ n.pending = R.pending /\ n.wait_event = R.wait_event
          /\ n.st = R.st \/ n.st = "running"
      BY <1>0, <2>1, WokenIs
    <2>3. Do(t, n) /\ R.pc = "asleep"
      BY <1>5, <2>1, Zenon DEF WakeReader, wake_up_process, Do
    <2>4. n.pc = "asleep" /\ ~Halts(n) /\ ~Sleeps(n) /\ (Unreported(n) => Unreported(R))
      BY <2>2, <2>3, Zenon DEF Mild, Halts, Sleeps, Unreported
    <2>5. Settled(n)
      BY <1>0, <2>2, <2>3, <2>4, SettledSent, Zenon
    <2> QED BY <2>3, <2>4, <2>5, DoOne, Zenon
  <1> QED BY <1>1, <1>2, <1>3, <1>4, <1>5, Zenon

(* A signal taken, and the first half of a stop.                           *)
LEMMA TakeOne ==
    ASSUME OneCpuInv, OneCpu, IInv', NEW t \in Tasks, Take(t) \/ Stop(t) PROVE OneCpuInv'
  <1> DEFINE R == task[t]
  <1>0. task \in All /\ R \in TaskStruct /\ Settled(R) /\ Entitled(R)
    BY Zenon DEF OneCpuInv, IInv, All
  <1>1. CASE Take(t)
    <2>1. PICK n \in TaskStruct : R.pc = "take" /\ HasCpu(t) /\ TakesTo(t, n)
      BY <1>0, <1>1, TakeIs, Zenon
    <2>2. R.sig \in R.seen /\ (SIGKILL \in R.seen => R.sig = SIGKILL) /\ Compatible(R.seen)
      BY <1>0, <2>1, Zenon DEF Settled
    <2>3. n.pending = R.seen \ {R.sig}
      BY <2>1, Zenon DEF TakesTo
    <2>4. Compatible(n.pending)
      BY <2>2, <2>3, FewerCompatible, Zenon
    <2>5. CASE /\ n.pc = "dead" /\ n.st = "zombie" /\ ~n.queued /\ ~n.irqs /\ n.wait_event = "none"
               /\ task' = notify_parent([task EXCEPT ![t] = n], t)
      <3>1. Settled(n) /\ ~Sleeps(n)
        BY <2>4, <2>5, Zenon DEF Settled, Sleeps, Halts
      <3> QED BY <2>1, <2>5, <3>1, NotifyOne, Zenon
    <2>6. CASE /\ Do(t, n) /\ n.st = R.st /\ n.wait_event = R.wait_event
               /\ \/ n.pc = "user" /\ n.irqs = FALSE
                  \/ n.pc = "ret" /\ n.irqs = R.irqs
      <3>1. R.pc # "dead" /\ n.pc \in {"user", "ret", "test"} /\ (n.irqs => n.pc = "ret")
        BY <2>1, <2>6, Zenon
      <3>2. Settled(n) /\ ~Sleeps(n)
        BY <1>0, <2>4, <2>6, <3>1, SettledAt, Zenon
      <3>3. Unreported(n) => Unreported(R)
        BY <2>6, Zenon DEF Unreported
      <3> QED BY <2>1, <2>6, <3>2, <3>3, DoOne, Zenon
    <2>7. CASE /\ Do(t, n) /\ n.st = R.st /\ n.wait_event = R.wait_event
               /\ n.pc = "stop" /\ R.sig \in StopSigs /\ R.sig # SIGKILL
      <3>1. {SIGCONT, SIGKILL} \cap n.pending = {}
        <4>1. SIGCONT \notin R.seen /\ SIGKILL \notin R.seen
          BY <2>2, <2>7, Zenon DEF Compatible
        <4> QED BY <2>3, <4>1, Zenon
      <3>2. ~Sleeps(n) /\ n.st \notin {"zombie", "reaped"} /\ (Unreported(n) => Unreported(R))
        BY <1>0, <2>1, <2>7, Zenon DEF Settled, Sleeps, Unreported
      <3>3. Settled(n)
        BY <2>4, <2>7, <3>1, <3>2, Zenon DEF Settled
      <3> QED BY <2>1, <2>7, <3>2, <3>3, DoOne, Zenon
    <2> QED BY <2>1, <2>5, <2>6, <2>7, Zenon DEF TakesTo
  <1>2. CASE Stop(t)
    <2>1. PICK n \in TaskStruct :
                /\ R.pc = "stop" /\ HasCpu(t) /\ task' = notify_parent([task EXCEPT ![t] = n], t)
                /\ n.pc = "park" /\ n.pending = R.pending /\ n.st = R.st
      BY <1>0, <1>2, StopIs, Zenon
    <2>2. /\ {SIGCONT, SIGKILL} \cap n.pending = {} /\ Compatible(n.pending) /\ ~Sleeps(n)
          /\ n.st \notin {"zombie", "reaped"}
      BY <1>0, <2>1, Zenon DEF Settled, Sleeps, Halts
    <2>3. Settled(n)
      BY <2>1, <2>2, Zenon DEF Settled
    <2> QED BY <2>1, <2>2, <2>3, NotifyOne, Zenon
  <1> QED BY <1>1, <1>2, Zenon

(* Every step, on one CPU.                                                 *)
LEMMA StepOne == ASSUME Least, OneCpu, OneCpuInv, [Next]_task PROVE OneCpuInv'
  <1>0. IInv'
    BY StepKeeps, Zenon DEF OneCpuInv
  <1>1. ASSUME NEW t \in Tasks, UserCall(t) PROVE OneCpuInv'
    <2>1. CASE \E u \in Tasks, s \in Sigs : ksys_kill(t, u, s)
      BY <1>0, <2>1, KillOne, Zenon
    <2>2. CASE ~ \E u \in Tasks, s \in Sigs : ksys_kill(t, u, s)
      BY <1>0, <1>1, <2>2, OwnOne, Zenon
    <2> QED BY <2>1, <2>2, Zenon
  <1>2. ASSUME NEW t \in Tasks, Kernel(t) \/ Resume(t) \/ WakeReader(t) PROVE OneCpuInv'
    <2>1. CASE WaitTest(t)
      BY <1>0, <2>1, WaitOne, Zenon
    <2>2. CASE Take(t) \/ Stop(t)
      BY <1>0, <2>2, TakeOne, Zenon
    <2>3. CASE \/ SuspendTest(t) \/ ReadTest(t) \/ Block(t) \/ Park(t) \/ Resume(t)
               \/ do_signal(t) \/ WakeReader(t)
      BY <1>0, <2>3, OwnOne, Zenon
    <2> QED BY <1>2, <2>1, <2>2, <2>3, Zenon DEF Kernel
  <1>3. ASSUME NEW u \in Tasks, NEW s \in IrqSigs, IrqSignal(u, s) PROVE OneCpuInv'
    BY <1>0, <1>3, IrqOne, Zenon
  <1>4. CASE UNCHANGED task
    <2>1. OneBusy' /\ \A t \in Tasks : Settled(task'[t])
      BY <1>4, Zenon DEF OneCpuInv, OneBusy, InKernel
    <2>2. \A t, u \in Tasks : Parent[u] = t /\ task'[t].res.call = "wait" /\ Sleeps(task'[t])
            => ~Unreported(task'[u])
      BY <1>4, Zenon DEF OneCpuInv
    <2> QED BY <1>0, <2>1, <2>2, Zenon DEF OneCpuInv
  <1> QED BY <1>1, <1>2, <1>3, <1>4, Zenon DEF Next

(* The initial state.                                                      *)
LEMMA InitOne == Init => ExactInv
  <1> SUFFICES ASSUME Init PROVE ExactInv
    OBVIOUS
  <1>0. IInv
    BY InitEntitled, Zenon
  <1>1. ASSUME NEW t \in Tasks
        PROVE  /\ task[t].pc = "user" /\ task[t].irqs = FALSE /\ task[t].st = "running"
               /\ task[t].pending = {} /\ task[t].owed = {}
    BY <1>1, Zenon DEF Init
  <1>2. OneBusy
    BY <1>1, Zenon DEF OneBusy, InKernel
  <1>3. ASSUME NEW t \in Tasks PROVE Settled(task[t]) /\ ~Sleeps(task[t]) /\ Exact(task[t])
    BY <1>1, <1>3, Zenon DEF Settled, Sleeps, Halts, Compatible, Exact, Same
  <1> QED BY <1>0, <1>2, <1>3, Zenon DEF ExactInv, OneCpuInv

(* Same is an equality that what the kernel does to both sides keeps, and  *)
(* that does not see what the keyboard sends.                              *)
LEMMA SameQueued ==
    ASSUME NEW A, NEW B, Same(A, B), NEW s PROVE Same(Queue(A, s), Queue(B, s))
  BY DEF Same, Queue, Keyboard

(* The same of taking or dropping a signal.                                *)
LEMMA SameTaken == ASSUME NEW A, NEW B, Same(A, B), NEW s PROVE Same(A \ {s}, B \ {s})
  BY DEF Same, Keyboard

(* The keyboard's signals and what they cancel are left out.               *)
LEMMA SameUnseen ==
    ASSUME NEW s \in IrqSigs, NEW A PROVE s # SIGCONT /\ s \in Sigs /\ Same(Queue(A, s), A)
  BY SignalsAssumption DEF Same, Queue, Keyboard, StopSigs, SIGCONT

(* What is pending and what is owed change alike when a signal is sent.    *)
LEMMA SendsExact ==
    ASSUME NEW T \in All, NEW u \in Tasks, NEW M, NEW v \in Tasks,
           M = notify_parent(T, u) \/ \E s \in Sigs : M = signal_queue(T, u, s),
           Same(T[v].pending, T[v].owed)
    PROVE  Same(M[v].pending, M[v].owed)
  <1>0. T[v] \in TaskStruct /\ T[u] \in TaskStruct
    BY Zenon DEF All
  <1>1. ASSUME M[v] = Notified(T[v]) PROVE Same(M[v].pending, M[v].owed)
    <2>1. PICK m : m = Notified(T[v])
      BY Zenon
    <2>2. m.pending = Queue(T[v].pending, SIGCHLD) /\ m.owed = Queue(T[v].owed, SIGCHLD)
      BY <1>0, <2>1, NotifiedIs
    <2>3. Same(Queue(T[v].pending, SIGCHLD), Queue(T[v].owed, SIGCHLD))
      BY SameQueued, Zenon
    <2> QED BY <1>1, <2>1, <2>2, <2>3, Zenon
  <1>2. CASE M = notify_parent(T, u)
    <2>1. IF v = Parent[u] THEN M[v] = Notified(T[v]) ELSE M[v] = T[v]
      BY <1>2, NotifyIs
    <2> QED BY <1>1, <2>1, Zenon
  <1>3. ASSUME NEW s \in Sigs, M = signal_queue(T, u, s) PROVE Same(M[v].pending, M[v].owed)
    <2>1. CASE s = SIGCONT /\ T[u].st = "stopped"
      <3>1. PICK n : n = Continued(T[u])
        BY Zenon
      <3>2. /\ n \in TaskStruct /\ n.pending = Queue(T[u].pending, SIGCONT)
            /\ n.owed = Queue(T[u].owed, SIGCONT)
        BY <1>0, <2>1, <3>1, ContinuedIs
      <3>3. PICK w : w = Woken(n)
        BY Zenon
      <3>4. w.pending = n.pending /\ w.owed = n.owed
        BY <3>2, <3>3, WokenIs
      <3>5. /\ M[u] = w
            /\ v # u => IF v = Parent[u] THEN M[v] = Notified(T[v]) ELSE M[v] = T[v]
        BY <1>3, <2>1, <3>1, <3>3, SignalQueueIs
      <3>6. v = u => Same(Queue(T[u].pending, SIGCONT), Queue(T[u].owed, SIGCONT))
        BY SameQueued, Zenon
      <3> QED BY <1>1, <3>2, <3>4, <3>5, <3>6, Zenon
    <2>2. CASE ~(s = SIGCONT /\ T[u].st = "stopped")
      <3>1. PICK m : m = Marked(T[u], s)
        BY Zenon
      <3>2. m.pending = Queue(T[u].pending, s) /\ m.owed = Queue(T[u].owed, s)
        BY <1>0, <3>1, MarkedIs
      <3>3. M[u] = m /\ (v # u => M[v] = T[v])
        BY <1>3, <2>2, <3>1, SignalQueueIs
      <3>4. v = u => Same(Queue(T[u].pending, s), Queue(T[u].owed, s))
        BY SameQueued, Zenon
      <3> QED BY <3>2, <3>3, <3>4, Zenon
    <2> QED BY <2>1, <2>2, Zenon
  <1> QED BY <1>2, <1>3, Zenon

(* Every step, whatever interrupts send and when.                          *)
LEMMA StepExact ==
    ASSUME Least, OneCpu, ExactInv, [Next]_task
    PROVE  ExactInv'
  <1>0. /\ task \in All /\ OneCpuInv'
        /\ \A v \in Tasks : /\ task[v] \in TaskStruct /\ Entitled(task[v]) /\ Settled(task[v])
                             /\ Exact(task[v]) /\ Same(task[v].pending, task[v].owed)
    BY StepOne, Zenon DEF ExactInv, OneCpuInv, IInv, All, Exact
  <1> DEFINE Good == \A v \in Tasks : Exact(task'[v])
  <1> SUFFICES Good
    BY <1>0, Zenon DEF ExactInv
  <1>a. ASSUME NEW t \in Tasks, NEW n, Do(t, n), Exact(n) PROVE Good
    <2>1. task'[t] = n /\ \A v \in Tasks : v # t => task'[v] = task[v]
      BY <1>0, <1>a, Zenon DEF Do, All
    <2> QED BY <1>0, <1>a, <2>1, Zenon
  <1>b. ASSUME NEW t \in Tasks, NEW n \in TaskStruct, HasCpu(t), n.pc # "take", Same(n.pending, n.owed),
               task' = notify_parent([task EXCEPT ![t] = n], t)
        PROVE  Good
    <2>1. PICK T : T = [task EXCEPT ![t] = n]
      BY Zenon
    <2>2. T \in All /\ T[t] = n /\ \A v \in Tasks : v # t => T[v] = task[v]
      BY <1>0, <2>1, Zenon DEF All
    <2>3. PICK M : M = notify_parent(T, t)
      BY Zenon
    <2>a. T \in All /\ \A v \in Tasks : Same(T[v].pending, T[v].owed)
      BY <1>0, <1>b, <2>2, Zenon
    <2>b. \A v \in Tasks : Same(M[v].pending, M[v].owed)
      BY <2>3, <2>a, SendsExact, Zenon
    <2>c. \A v \in Tasks : Mild(T[v], M[v])
      BY <2>3, <2>a, SendsMild, Zenon
    <2>5. \A v \in Tasks : T[v].pc # "take"
      BY <1>b, <2>2, Alone, Zenon DEF InKernel
    <2>6. task' = M
      BY <1>b, <2>1, <2>3, Zenon
    <2> QED BY <2>b, <2>c, <2>5, <2>6, Zenon DEF Exact, Mild
  <1>c. ASSUME NEW u \in Tasks, NEW s \in Sigs, NEW M, M = signal_queue(task, u, s),
               \A v \in Tasks : ~InKernel(v)
        PROVE  \A v \in Tasks : Exact(M[v]) /\ Same(M[v].pending, M[v].owed)
    <2>0. task \in All /\ \E q \in Sigs : M = signal_queue(task, u, q)
      BY <1>0, <1>c, Zenon
    <2>1. \A v \in Tasks : Same(M[v].pending, M[v].owed)
      BY <1>0, <2>0, SendsExact, Zenon
    <2>2. \A v \in Tasks : Mild(task[v], M[v])
      BY <2>0, SendsMild, Zenon
    <2>3. \A v \in Tasks : task[v].pc # "take"
      BY <1>c, Zenon DEF InKernel
    <2> QED BY <2>1, <2>2, <2>3, Zenon DEF Exact, Mild
  <1>1. ASSUME NEW t \in Tasks, UserCall(t) PROVE Good
    <2>1. ASSUME NEW u \in Tasks, NEW s \in Sigs, ksys_kill(t, u, s) PROVE Good
      <3>0. task \in All
        BY <1>0, Zenon
      <3>1. PICK M \in All :
              /\ M = signal_queue(task, u, s) /\ task[t].pc = "user" /\ HasCpu(t)
              /\ task'[t].pc = "ret" /\ Kept(M[t], task'[t])
              /\ \A v \in Tasks : v # t => task'[v] = M[v]
        BY <2>1, <3>0, KillIs
      <3>2. ~InKernel(t)
        BY <3>1, Zenon DEF InKernel
      <3>3. \A v \in Tasks : ~InKernel(v)
        BY <3>1, <3>2, Alone, Zenon
      <3>4. M = signal_queue(task, u, s)
        BY <3>1, Zenon
      <3>5. \A v \in Tasks : Exact(M[v]) /\ Same(M[v].pending, M[v].owed)
        BY <1>c, <3>3, <3>4
      <3>6. Exact(task'[t])
        BY <3>1, <3>5, Zenon DEF Exact, Kept
      <3> QED BY <3>1, <3>5, <3>6, Zenon
    <2>2. CASE ~ \E u \in Tasks, s \in Sigs : ksys_kill(t, u, s)
      <3>1. PICK n : Do(t, n) /\ Kept(task[t], n) /\ n.pc \in {"ret", "test"}
        BY <1>0, <1>1, <2>2, CallIs, Zenon
      <3>2. Exact(n)
        BY <1>0, <3>1, Zenon DEF Exact, Kept
      <3> QED BY <1>a, <3>1, <3>2, Zenon
    <2> QED BY <2>1, <2>2, Zenon
  <1>2. ASSUME NEW t \in Tasks, Kernel(t) \/ Resume(t) \/ WakeReader(t) PROVE Good
    <2>1. CASE SuspendTest(t) \/ ReadTest(t)
      <3>1. PICK n \in TaskStruct : Do(t, n) /\ Kept(task[t], n) /\ n.pc \in {"block", "ret"}
        BY <1>0, <2>1, TestIs, Zenon
      <3>2. Exact(n)
        BY <1>0, <3>1, Zenon DEF Exact, Kept
      <3> QED BY <1>a, <3>1, <3>2, Zenon
    <2>2. CASE WaitTest(t)
      <3>1. Rounds(t) /\ \A v \in Tasks : v # t => task'[v] = task[v] \/ ChildSeen(t, v)
        BY <1>0, <2>2, WaitIs, Zenon
      <3>x. /\ Same(task[t].pending, task[t].owed)
            /\ Same(task[t].pending \ {SIGCHLD}, task[t].owed \ {SIGCHLD})
        BY <1>0, SameTaken, Zenon DEF Exact
      <3>2. Exact(task'[t])
        BY <3>1, <3>x, Zenon DEF Exact, Rounds
      <3>3. ASSUME NEW v \in Tasks, ChildSeen(t, v) PROVE Exact(task'[v])
        <4>1. /\ task'[v].pending = task[v].pending /\ task'[v].owed = task[v].owed
              /\ task'[v].pc = task[v].pc /\ task'[v].seen = task[v].seen
          BY <1>0, <3>3, Zenon DEF ChildSeen, TaskStruct
        <4> QED BY <1>0, <4>1, Zenon DEF Exact
      <3> QED BY <1>0, <3>1, <3>2, <3>3, Zenon
    <2>3. CASE Block(t) \/ Park(t) \/ Resume(t)
      <3>1. PICK n \in TaskStruct : /\ Do(t, n) /\ n.pending = task[t].pending /\ n.owed = task[t].owed
                                   /\ n.pc # "take"
        BY <1>0, <2>3, TurnIs, Zenon DEF TurnsTo
      <3>2. Exact(n)
        BY <1>0, <3>1, Zenon DEF Exact
      <3> QED BY <1>a, <3>1, <3>2, Zenon
    <2>4. CASE do_signal(t)
      <3>0. task[t] \in TaskStruct /\ Entitled(task[t])
        BY <1>0, Zenon
      <3>1. PICK n \in TaskStruct :
              /\ Do(t, n) /\ Entitled(n) /\ Kept(task[t], n)
              /\ \/ n.pc = "user" /\ n.irqs = FALSE
                 \/ /\ n.pc = "take" /\ n.irqs = task[t].irqs /\ n.seen = task[t].pending
                    /\ n.sig \in task[t].pending
                    /\ SIGKILL \in task[t].pending => n.sig = SIGKILL
        BY <2>4, <3>0, SignalIs, Zenon
      <3>2. Exact(n)
        BY <1>0, <3>1, Zenon DEF Exact, Kept, Same
      <3> QED BY <1>a, <3>1, <3>2, Zenon
    <2>5. CASE Take(t)
      <3>1. PICK n \in TaskStruct : task[t].pc = "take" /\ HasCpu(t) /\ TakesTo(t, n)
        BY <1>0, <2>5, TakeIs, Zenon
      <3>2. /\ n.pending = task[t].seen \ {task[t].sig} /\ n.owed = task[t].owed \ {task[t].sig}
            /\ n.pc # "take" /\ (Do(t, n) \/ task' = notify_parent([task EXCEPT ![t] = n], t))
        BY <3>1, Zenon DEF TakesTo
      <3>3. Same(task[t].seen, task[t].owed)
        BY <1>0, <3>1, Zenon DEF Exact, Same
      <3>4. Same(task[t].seen \ {task[t].sig}, task[t].owed \ {task[t].sig})
        BY <3>3, SameTaken, Zenon
      <3>5. Same(n.pending, n.owed) /\ Exact(n)
        BY <3>2, <3>4, Zenon DEF Exact
      <3> QED BY <1>a, <1>b, <3>1, <3>2, <3>5, Zenon
    <2>6. CASE Stop(t)
      <3>1. PICK n \in TaskStruct :
              /\ task' = notify_parent([task EXCEPT ![t] = n], t) /\ HasCpu(t) /\ n.pc = "park"
              /\ n.pending = task[t].pending /\ n.owed = task[t].owed
        BY <1>0, <2>6, StopIs, Zenon
      <3>2. Same(n.pending, n.owed) /\ n.pc # "take"
        BY <1>0, <3>1, Zenon
      <3> QED BY <1>b, <3>1, <3>2, Zenon
    <2>7. CASE WakeReader(t)
      <3>1. PICK n : n = Woken(task[t])
        BY Zenon
      <3>2. Mild(task[t], n) /\ n.pending = task[t].pending /\ n.owed = task[t].owed
        BY <1>0, <3>1, WokenIs
      <3>3. Do(t, n)
        BY <2>7, <3>1, Zenon DEF WakeReader, wake_up_process, Do
      <3>4. Exact(n)
        BY <1>0, <3>2, Zenon DEF Exact, Mild
      <3> QED BY <1>a, <3>3, <3>4, Zenon
    <2> QED BY <1>2, <2>1, <2>2, <2>3, <2>4, <2>5, <2>6, <2>7, Zenon DEF Kernel
  <1>3. ASSUME NEW u \in Tasks, NEW s \in IrqSigs, IrqSignal(u, s) PROVE Good
    <2>1. s \in Sigs /\ s # SIGCONT /\ task' = signal_queue(task, u, s) /\ task \in All
      BY <1>0, <1>3, SameUnseen, Zenon DEF IrqSignal
    <2>2. PICK m : m = Marked(task[u], s)
      BY Zenon
    <2>3. /\ m.pending = Queue(task[u].pending, s) /\ m.owed = Queue(task[u].owed, s)
          /\ Mild(task[u], m)
      BY <1>0, <2>1, <2>2, MarkedIs
    <2>4. task'[u] = m /\ \A v \in Tasks : v # u => task'[v] = task[v]
      BY <2>1, <2>2, SignalQueueIs
    <2>5. Same(Queue(task[u].pending, s), Queue(task[u].owed, s))
      BY <1>0, SameQueued, Zenon DEF Exact
    <2>6. Same(Queue(task[u].pending, s), task[u].pending) /\ m.pc = task[u].pc /\ m.seen = task[u].seen
      BY <2>3, SameUnseen, Zenon DEF Mild
    <2>7. Exact(m)
      BY <1>0, <2>3, <2>5, <2>6, Zenon DEF Exact, Same
    <2> QED BY <1>0, <2>4, <2>7, Zenon
  <1>4. CASE UNCHANGED task
    BY <1>0, <1>4, Zenon
  <1> QED BY <1>1, <1>2, <1>3, <1>4, Zenon DEF Next

----------------------------------------------------------------------------
(***************************************************************************)
(* The library's facts, and the theorems.                                  *)
(***************************************************************************)
WF == INSTANCE WellFoundedInduction

(* A set of numbers that is not empty has a smallest member.               *)
LEMMA Smallest ==
    ASSUME NEW S \in SUBSET Nat, S # {} PROVE \E n \in S : \A m \in S : n <= m
  <1>1. PICK R : R = WF!OpToRel(<, Nat)
    BY Zenon
  <1>2. WF!IsWellFoundedOn(R, Nat)
    BY <1>1, WF!NatLessThanWellFounded, Zenon
  <1>3. PICK n \in S : \A m \in S : <<m, n>> \notin R
    BY <1>2, WF!WFMin, Zenon
  <1>4. \A k, m \in Nat : <<m, k>> \in R <=> m < k
    BY <1>1, Zenon DEF WF!OpToRel
  <1>5. \A m \in S : ~(m < n)
    BY <1>3, <1>4, Zenon
  <1> QED BY <1>5

FS == INSTANCE FiniteSetTheorems

(* The instance's operators are those of FiniteSets.                       *)
LEMMA SameSets ==
    ASSUME NEW S
    PROVE  (FS!IsFiniteSet(S) <=> IsFiniteSet(S)) /\ FS!Cardinality(S) = Cardinality(S)
  <1>1. FS!IsFiniteSet(S) <=> IsFiniteSet(S)
    BY Zenon DEF FS!IsFiniteSet, IsFiniteSet
  <1>2. FS!Cardinality(S) = Cardinality(S)
    BY Zenon DEF FS!Cardinality, Cardinality
  <1> QED BY <1>1, <1>2, Zenon

(* Less than one task is none, ...                                         *)
LEMMA LessThanOne ==
    ASSUME NCpus = 1, NEW S \in SUBSET Tasks, Cardinality(S) < NCpus PROVE S = {}
  <1>1. FS!IsFiniteSet(S)
    BY SignalsAssumption, SameSets, FS!FS_Subset, Zenon
  <1>2. Cardinality(S) \in Nat /\ (Cardinality(S) = 0 <=> S = {})
    BY <1>1, SameSets, FS!FS_CardinalityType, FS!FS_EmptySet, Zenon
  <1>3. Cardinality(S) = 0
    BY <1>2
  <1> QED BY <1>2, <1>3, Zenon

(* The two facts assumed above.                                            *)
LEMMA LibraryFacts == Least /\ (NCpus = 1 => OneCpu)
  <1>1. Least
    <2> SUFFICES ASSUME NEW S \in SUBSET Nat, S # {}
                 PROVE  \E n \in S : \A m \in S : n <= m
      BY Zenon DEF Least
    <2> QED BY Smallest, Zenon
  <1>2. NCpus = 1 => OneCpu
    BY LessThanOne, Zenon DEF OneCpu
  <1> QED BY <1>1, <1>2, Zenon

(* Masks: on any number of CPUs, a program in user mode has the mask it    *)
(* set or its handler is to run with, and each frame the mask it will      *)
(* restore, rt_sigsuspend's temporary one never (MaskRestored).            *)
THEOREM MasksRestored == Spec => []MaskRestored
  <1>1. IInv => MaskRestored
    <2>1. ASSUME NEW r, Entitled(r)
          PROVE  /\ r.blocked \cap Unblockable = {} /\ Len(r.frames) <= MaxFrames
                 /\ r.pc = "user" => r.blocked = r.want /\ ~r.restore_sigmask
                 /\ \A i \in 1 .. Len(r.frames) : r.frames[i].blocked = r.frames[i].want
      BY <2>1, Zenon DEF Entitled, OldBlocked, SafeFrame
    <2> QED BY <2>1, Zenon DEF IInv, MaskRestored, TypeOK
  <1> QED BY <1>1, InitEntitled, StepKeeps, LibraryFacts, PTL DEF Spec

(* Results: on any number of CPUs, -ERESTARTSYS reaches no program, now or *)
(* through a frame, and rt_sigsuspend returns -EINTR (Results).            *)
THEOREM ResultsSeen == Spec => []Results
  <1>1. IInv => Results
    <2>1. ASSUME NEW r, Entitled(r), r.pc = "user"
          PROVE  \A res \in {r.res} \cup {r.frames[i].res : i \in 1 .. Len(r.frames)} :
                   res.ret # "restart" /\ (res.call = "suspend" => res.ret = "eintr")
      BY <2>1, Zenon DEF Entitled, SafeFrame
    <2> QED BY <2>1, Zenon DEF IInv, Results
  <1> QED BY <1>1, InitEntitled, StepKeeps, LibraryFacts, PTL DEF Spec

(* Stops are reported: on any number of CPUs, a stop stays visible to      *)
(* wait4 until the parent has it, SIGCONT replaces it by a continuation    *)
(* and wakes the task, or the task has ended (StopReported).               *)
THEOREM StopsReported == Spec => StopReported
  <1>1. IInv /\ [Next]_task => [\A t \in Tasks : Parent[t] \in Tasks => StopStep(t)]_task
    <2> SUFFICES ASSUME IInv, [Next]_task, NEW t \in Tasks, Parent[t] \in Tasks PROVE StopStep(t)
      OBVIOUS
    <2> QED BY EventStep, LibraryFacts, Zenon DEF StopStep
  <1> QED BY <1>1, InitEntitled, StepKeeps, LibraryFacts, PTL DEF Spec, StopReported

(* No missed wake-up: on one CPU, a task that sleeps has no signal to take *)
(* and no child to report, and a stopped task neither SIGCONT nor SIGKILL  *)
(* outstanding, whatever the keyboard sends (NoMissedWake).                *)
THEOREM WakesNotMissed == ASSUME NCpus = 1 PROVE Spec => []NoMissedWake
  <1>1. OneCpuInv => NoMissedWake
    <2> SUFFICES ASSUME OneCpuInv, NEW t \in Tasks, ~task[t].queued
                 PROVE  /\ task[t].pc = "asleep" =>
                             /\ ~signal_pending(task[t])
                             /\ task[t].res.call = "wait" =>
                                  Zombies(t) \cup Reported(t, "stopped") \cup Reported(t, "continued") = {}
                        /\ task[t].pc = "parked" => {SIGCONT, SIGKILL} \cap task[t].pending = {}
      BY Zenon DEF NoMissedWake
    <2>1. Settled(task[t])
      BY Zenon DEF OneCpuInv
    <2>2. task[t].pc = "parked" => {SIGCONT, SIGKILL} \cap task[t].pending = {}
      BY <2>1, Zenon DEF Settled, Halts
    <2>3. ASSUME task[t].pc = "asleep" PROVE Sleeps(task[t]) /\ ~signal_pending(task[t])
      BY <2>1, <2>3, Zenon DEF Settled, Sleeps
    <2>4. ASSUME task[t].pc = "asleep", task[t].res.call = "wait"
          PROVE  Zombies(t) \cup Reported(t, "stopped") \cup Reported(t, "continued") = {}
      <3>1. \A u \in Tasks : Parent[u] = t => ~Unreported(task[u])
        BY <2>3, <2>4, Zenon DEF OneCpuInv
      <3> QED BY <3>1 DEF Zombies, Reported, Children, Unreported
    <2> QED BY <2>2, <2>3, <2>4, Zenon
  <1>2. Least /\ OneCpu
    BY LibraryFacts, Zenon
  <1>3. Init => OneCpuInv
    BY InitOne, Zenon DEF ExactInv
  <1> QED BY <1>1, <1>2, <1>3, StepOne, PTL DEF Spec

(* No lost signal: on one CPU, wherever interrupts come, no SIGKILL, no    *)
(* SIGCHLD and no other signal but the keyboard's and SIGCONT is lost or   *)
(* invented by do_signal's unlocked update of pending (SentKept).          *)
THEOREM SignalsKept == ASSUME NCpus = 1 PROVE Spec => []SentKept
  <1>1. ExactInv => SentKept
    BY Zenon DEF ExactInv, Exact, SentKept
  <1>2. Least /\ OneCpu
    BY LibraryFacts, Zenon
  <1> QED BY <1>1, <1>2, InitOne, StepExact, PTL DEF Spec

=============================================================================
