----------------------------- MODULE PipeProofs -----------------------------
(***************************************************************************)
(* Theorems about Pipe: for every size of the ring and every number of     *)
(* processes on one CPU, a pipe is a bounded channel and is freed once.    *)
(***************************************************************************)
EXTENDS Pipe, TLAPS

-----------------------------------------------------------------------------
(* The ring.                                                               *)

(* An index moves on by at most one turn.                                  *)
LEMMA AdvanceIs ==
    ASSUME NEW i \in 0 .. PIPE_SIZE - 1, NEW n \in 0 .. PIPE_SIZE
    PROVE  Advance(i, n) = IF i + n < PIPE_SIZE THEN i + n ELSE i + n - PIPE_SIZE
  <1>1. PIPE_SIZE \in Nat \ {0} /\ i \in Nat /\ n \in Nat
    BY PipeAssumption
  <1>2. CASE i + n < PIPE_SIZE
    BY <1>1, <1>2 DEF Advance
  <1>3. CASE i + n >= PIPE_SIZE
    BY <1>1, <1>3 DEF Advance
  <1> QED BY <1>1, <1>2, <1>3

(* ... and stays in the ring.                                              *)
LEMMA AdvanceIn ==
    ASSUME NEW i \in 0 .. PIPE_SIZE - 1, NEW n \in 0 .. PIPE_SIZE
    PROVE  Advance(i, n) \in 0 .. PIPE_SIZE - 1
  BY AdvanceIs, PipeAssumption

(* Two moves are one.                                                      *)
LEMMA AdvanceTwice ==
    ASSUME NEW i \in 0 .. PIPE_SIZE - 1, NEW m \in Nat, NEW n \in Nat, m + n <= PIPE_SIZE
    PROVE  Advance(Advance(i, m), n) = Advance(i, m + n)
  <1>1. PIPE_SIZE \in Nat \ {0}
    BY PipeAssumption, Zenon
  <1>2. m \in 0 .. PIPE_SIZE /\ n \in 0 .. PIPE_SIZE /\ m + n \in 0 .. PIPE_SIZE
    BY <1>1
  <1>3. PICK j \in 0 .. PIPE_SIZE - 1 : j = Advance(i, m)
    BY <1>2, AdvanceIn, Zenon
  <1>4. /\ j = IF i + m < PIPE_SIZE THEN i + m ELSE i + m - PIPE_SIZE
        /\ Advance(j, n) = IF j + n < PIPE_SIZE THEN j + n ELSE j + n - PIPE_SIZE
        /\ Advance(i, m + n) =
              IF i + (m + n) < PIPE_SIZE THEN i + (m + n) ELSE i + (m + n) - PIPE_SIZE
    BY <1>2, <1>3, AdvanceIs, Zenon
  <1> QED BY <1>1, <1>3, <1>4

(* What pipe_read moves.                                                   *)
LEMMA ReadRing ==
    ASSUME TypeOK, NEW p \in Procs, NEW n \in 1 .. MaxCount, pipe_read(p, n)
    PROVE  \E k \in 1 .. len :
              /\ got' = [got EXCEPT ![p] = [i \in 1 .. k |-> buf[Advance(tail, i - 1)]]]
              /\ tail' = Advance(tail, k) /\ len' = len - k
              /\ \A i \in 1 .. k : buf[Advance(tail, i - 1)] \in Bytes
  <1>1. PIPE_SIZE \in Nat \ {0} /\ n \in Nat /\ len \in Nat /\ len > 0 /\ n > 0
    BY PipeAssumption DEF TypeOK, pipe_read
  <1>2. PICK k \in 1 .. len : k = IF n > len THEN len ELSE n
    BY <1>1
  <1>3. ASSUME NEW i \in 1 .. k PROVE buf[Advance(tail, i - 1)] \in Bytes
    <2>1. i - 1 \in 0 .. PIPE_SIZE
      BY <1>1, <1>2 DEF TypeOK
    <2> QED BY <2>1, AdvanceIn, Zenon DEF TypeOK
  <1> QED BY <1>2, <1>3, Zenon DEF pipe_read

(* What pipe_write moves.                                                  *)
LEMMA WriteRing ==
    ASSUME TypeOK, NEW p \in Procs, InCall(p), pipe_write(p)
    PROVE  \E k \in 1 .. Len(given[p]) :
              /\ k <= PIPE_SIZE - len
              /\ buf' = [j \in 0 .. PIPE_SIZE - 1 |->
                           IF Advance(j, PIPE_SIZE - head) < k
                           THEN given[p][Advance(j, PIPE_SIZE - head) + 1] ELSE buf[j]]
              /\ head' = Advance(head, k) /\ len' = len + k
  <1>1. /\ PIPE_SIZE \in Nat \ {0} /\ len \in Nat /\ len < PIPE_SIZE
        /\ given[p] \in Seq(Bytes) /\ given[p] # <<>>
    BY PipeAssumption DEF TypeOK, pipe_write, InCall, Writing
  <1>2. Len(given[p]) \in Nat /\ Len(given[p]) > 0
    BY <1>1
  <1>3. PICK k \in 1 .. Len(given[p]) :
            k = IF Len(given[p]) > PIPE_SIZE - len THEN PIPE_SIZE - len ELSE Len(given[p])
    BY <1>1, <1>2
  <1>4. k <= PIPE_SIZE - len
    BY <1>1, <1>2, <1>3
  <1>5. /\ buf' = [j \in 0 .. PIPE_SIZE - 1 |->
                    IF Advance(j, PIPE_SIZE - head) < k
                    THEN given[p][Advance(j, PIPE_SIZE - head) + 1] ELSE buf[j]]
        /\ head' = Advance(head, k) /\ len' = len + k
    BY <1>3, Zenon DEF pipe_write
  <1> QED BY <1>4, <1>5, Zenon

-----------------------------------------------------------------------------
(* Steps inside a system call, and calls from user mode.                   *)

(* What a step of p inside a system call may do.                           *)
Frame(p) ==
    /\ pc[p] \notin {"none", "user"} /\ pc'[p] \in Pcs /\ pc' = [pc EXCEPT ![p] = pc'[p]]
    /\ UNCHANGED <<readers, writers, ref, fds>>
    /\ frees' = frees \/ pipe_release(p)
    /\ readq' \in {readq, readq \cup {p}, readq \ {p}}
    /\ writeq' \in {writeq, writeq \cup {p}, writeq \ {p}}
    /\ runnable' \in [Procs -> BOOLEAN]
    /\ \/ UNCHANGED ring /\ (Return(p) \/ UNCHANGED <<sig, given, got>>)
       \/ \E n \in 1 .. MaxCount : pipe_read(p, n)
       \/ pipe_write(p)

(* ... and nothing else.                                                   *)
LEMMA KernelFrame == ASSUME TypeOK, NEW p \in Procs, KernelStep(p) PROVE Frame(p)
  <1>0. pc \in [Procs -> Pcs] /\ runnable \in [Procs -> BOOLEAN]
    BY Zenon DEF TypeOK
  <1>1. CASE prepare_to_wait(p)
    BY <1>0, <1>1, Zenon DEF prepare_to_wait, Frame, Goto, ends, waits, Pcs, Reading,
       Writing, Polling
  <1>2. CASE finish_wait(p)
    BY <1>0, <1>2, Zenon DEF finish_wait, Return, Frame, Goto, ends, waits, Pcs, Reading,
       Writing, Polling
  <1>3. CASE ReadEmpty(p)
    BY <1>0, <1>3, Zenon DEF ReadEmpty, Return, Frame, Goto, ends, waits, Pcs, Reading,
       Writing, Polling
  <1>4. CASE ReadWake(p)
    BY <1>0, <1>4, Zenon DEF ReadWake, Return, wake_up, Frame, Goto, ends, waits, Pcs,
       Reading, Writing, Polling
  <1>5. ASSUME NEW n \in 1 .. MaxCount, pipe_read(p, n)
      PROVE  Frame(p)
    BY <1>0, <1>5, Zenon DEF pipe_read, Frame, Goto, ends, waits, Pcs, Reading, Writing,
       Polling
  <1>6. CASE WriteFull(p)
    BY <1>0, <1>6, Zenon DEF WriteFull, Return, Frame, Goto, ends, waits, Pcs, Reading,
       Writing, Polling
  <1>7. CASE WriteWake(p)
    BY <1>0, <1>7, Zenon DEF WriteWake, Return, wake_up, Frame, Goto, ends, waits, Pcs,
       Reading, Writing, Polling
  <1>8. CASE pipe_write(p)
    BY <1>0, <1>8, Zenon DEF pipe_write, Frame, Goto, ends, waits, Pcs, Reading, Writing,
       Polling
  <1>9. CASE PollScan(p)
    BY <1>0, <1>9, Zenon DEF PollScan, Frame, Goto, ends, waits, Pcs, Reading, Writing,
       Polling
  <1>10. CASE PollReturn(p)
    BY <1>0, <1>10, Zenon DEF PollReturn, Return, Frame, Goto, ends, waits, Pcs, Reading,
       Writing, Polling
  <1>11. CASE PollTest(p)
    BY <1>0, <1>11, Zenon DEF PollTest, Frame, Goto, ends, waits, Pcs, Reading, Writing,
       Polling
  <1>12. CASE PollBlock(p)
    BY <1>0, <1>12, Zenon DEF PollBlock, Frame, Goto, ends, waits, Pcs, Reading, Writing,
       Polling
  <1>13. CASE PollSchedule(p)
    BY <1>0, <1>13, Zenon DEF PollSchedule, Frame, Goto, ends, waits, Pcs, Reading,
       Writing, Polling
  <1>14. CASE PollAwake(p)
    BY <1>0, <1>14, Zenon DEF PollAwake, Return, Frame, Goto, ends, waits, Pcs, Reading,
       Writing, Polling
  <1>15. CASE pipe_release(p)
    BY <1>0, <1>15, Zenon DEF pipe_release, Return, Frame, Goto, ends, waits, Pcs, Reading,
       Writing, Polling
  <1> QED BY <1>1, <1>2, <1>3, <1>4, <1>5, <1>6, <1>7, <1>8, <1>9, <1>10,
             <1>11, <1>12, <1>13, <1>14, <1>15, Zenon DEF KernelStep

(* A step of p inside a system call.                                       *)
LEMMA KernelTypes == ASSUME IInv, NEW p \in Procs, KernelStep(p) PROVE TypeOK'
  <1>0. TypeOK /\ InCall(p) /\ Frame(p)
    BY KernelFrame, Zenon DEF IInv
  <1>1. /\ pc' \in [Procs -> Pcs] /\ runnable' \in [Procs -> BOOLEAN]
        /\ readq' \subseteq Procs /\ writeq' \subseteq Procs
        /\ UNCHANGED <<readers, writers, ref, fds>>
    BY <1>0, Zenon DEF Frame, TypeOK
  <1>2. frees' \in Nat
    BY <1>0 DEF Frame, TypeOK, pipe_release
  <1>3. CASE UNCHANGED ring /\ (Return(p) \/ UNCHANGED <<sig, given, got>>)
    <2>1. sig' \in [Procs -> BOOLEAN]
      BY <1>0, <1>3, Zenon DEF Return, TypeOK
    <2>2. <<>> \in Seq(Bytes)
      OBVIOUS
    <2>3. given' \in [Procs -> Seq(Bytes)] /\ got' \in [Procs -> Seq(Bytes)]
      BY <1>0, <1>3, <2>2, Zenon DEF Return, TypeOK
    <2> QED BY <1>0, <1>1, <1>2, <1>3, <2>1, <2>3, Zenon DEF TypeOK, ring
  <1>4. ASSUME NEW n \in 1 .. MaxCount, pipe_read(p, n)
      PROVE  TypeOK'
    <2>1. PICK k \in 1 .. len :
              /\ got' = [got EXCEPT ![p] = [i \in 1 .. k |-> buf[Advance(tail, i - 1)]]]
              /\ tail' = Advance(tail, k) /\ len' = len - k
              /\ \A i \in 1 .. k : buf[Advance(tail, i - 1)] \in Bytes
      BY <1>0, <1>4, ReadRing, Zenon
    <2>2. /\ PIPE_SIZE \in Nat \ {0} /\ len \in Nat /\ len <= PIPE_SIZE
          /\ tail \in 0 .. PIPE_SIZE - 1 /\ k \in 0 .. PIPE_SIZE
      BY <1>0, PipeAssumption DEF TypeOK
    <2>3. tail' \in 0 .. PIPE_SIZE - 1 /\ len' \in 0 .. PIPE_SIZE
      BY <2>1, <2>2, AdvanceIn
    <2>4. head' = Advance(tail', len')
      <3>1. head' = Advance(tail, len) /\ len' \in Nat /\ k + len' = len
        BY <1>0, <1>4, <2>1, <2>2 DEF TypeOK, pipe_read
      <3> QED BY <2>1, <2>2, <3>1, AdvanceTwice
    <2>5. [i \in 1 .. k |-> buf[Advance(tail, i - 1)]] \in Seq(Bytes)
      BY <2>1, <2>2
    <2>6. got' \in [Procs -> Seq(Bytes)]
      BY <1>0, <2>1, <2>5, Zenon DEF TypeOK
    <2> QED BY <1>0, <1>1, <1>2, <1>4, <2>3, <2>4, <2>6, Zenon DEF TypeOK, pipe_read
  <1>5. CASE pipe_write(p)
    <2>1. PICK k \in 1 .. Len(given[p]) :
              /\ k <= PIPE_SIZE - len
              /\ buf' = [j \in 0 .. PIPE_SIZE - 1 |->
                           IF Advance(j, PIPE_SIZE - head) < k
                           THEN given[p][Advance(j, PIPE_SIZE - head) + 1] ELSE buf[j]]
              /\ head' = Advance(head, k) /\ len' = len + k
      BY <1>0, <1>5, WriteRing, Zenon
    <2>2. /\ PIPE_SIZE \in Nat \ {0} /\ len \in Nat /\ len <= PIPE_SIZE /\ k \in Nat
          /\ head \in 0 .. PIPE_SIZE - 1 /\ k \in 0 .. PIPE_SIZE /\ given[p] \in Seq(Bytes)
      BY <1>0, <2>1, PipeAssumption DEF TypeOK
    <2>3. head' = Advance(head, k) /\ len' = len + k /\ len + k <= PIPE_SIZE
      BY <2>1, <2>2
    <2>a. head' \in 0 .. PIPE_SIZE - 1 /\ len' \in 0 .. PIPE_SIZE
      BY <2>2, <2>3, AdvanceIn
    <2>4. tail' = tail /\ tail \in 0 .. PIPE_SIZE - 1 /\ head = Advance(tail, len)
      BY <1>0, <1>5, Zenon DEF TypeOK, pipe_write
    <2>b. head' = Advance(tail', len')
      BY <2>2, <2>3, <2>4, AdvanceTwice, Zenon
    <2>5. ASSUME NEW j \in 0 .. PIPE_SIZE - 1 PROVE buf'[j] \in Bytes
      <3>1. PIPE_SIZE - head \in 0 .. PIPE_SIZE
        BY <2>2
      <3>2. PICK i \in 0 .. PIPE_SIZE - 1 : i = Advance(j, PIPE_SIZE - head)
        BY <3>1, AdvanceIn, Zenon
      <3>3. i < k => given[p][i + 1] \in Bytes
        BY <2>1, <2>2
      <3> QED BY <1>0, <2>1, <3>2, <3>3, Zenon DEF TypeOK
    <2>6. buf' \in [0 .. PIPE_SIZE - 1 -> Bytes]
      BY <2>1, <2>5, Zenon
    <2>7. given' \in [Procs -> Seq(Bytes)]
      BY <1>0, <1>5 DEF TypeOK, pipe_write
    <2> QED BY <1>0, <1>1, <1>2, <1>5, <2>a, <2>b, <2>6, <2>7, Zenon DEF TypeOK, pipe_write
  <1> QED BY <1>0, <1>3, <1>4, <1>5, Zenon DEF Frame

(* The step leaves the call of q alone.                                    *)
Aside(q) ==
    /\ pc'[q] = pc[q] /\ fds'[q] = fds[q] /\ given'[q] = given[q] /\ got'[q] = got[q]
    /\ q \in readq' <=> q \in readq
    /\ q \in writeq' <=> q \in writeq

(* ... so that it keeps what it holds.                                     *)
LEMMA AsideKeeps ==
    ASSUME NEW q \in Procs, InCall(q), Queued(q), Aside(q) PROVE InCall(q)' /\ Queued(q)'
  <1>1. InCall(q)'
    BY Zenon DEF InCall, Aside
  <1>2. Queued(q)'
    BY Zenon DEF Queued, Aside
  <1> QED BY <1>1, <1>2, Zenon

(* Steps of p in its own system call.                                      *)
LEMMA KernelAside ==
    ASSUME TypeOK, NEW p \in Procs, Frame(p), NEW q \in Procs, q # p PROVE Aside(q)
  <1>1. given'[q] = given[q] /\ got'[q] = got[q]
    BY Zenon DEF Frame, TypeOK, Return, pipe_read, pipe_write
  <1> QED BY <1>1, Zenon DEF Frame, TypeOK, Aside

(* What a step of p in its own system call leaves p with.                  *)
LEMMA KernelKeeps ==
    ASSUME IInv, NEW p \in Procs, KernelStep(p) PROVE InCall(p)' /\ Queued(p)'
  <1>0. /\ pc \in [Procs -> Pcs] /\ given \in [Procs -> Seq(Bytes)] /\ got \in [Procs -> Seq(Bytes)]
        /\ fds \in [Procs -> SUBSET {"r", "w"}] /\ InCall(p) /\ Queued(p)
    BY Zenon DEF IInv, TypeOK
  <1> USE DEF InCall, Queued, ends, waits, Goto, Return, Reading, Writing, Polling
  <1>1. CASE prepare_to_wait(p)
    BY <1>0, <1>1, Zenon DEF prepare_to_wait
  <1>2. CASE finish_wait(p)
    BY <1>0, <1>2, Zenon DEF finish_wait
  <1>3. CASE ReadEmpty(p)
    BY <1>0, <1>3, Zenon DEF ReadEmpty
  <1>4. CASE ReadWake(p)
    BY <1>0, <1>4, Zenon DEF ReadWake
  <1>5. ASSUME NEW n \in 1 .. MaxCount, pipe_read(p, n)
      PROVE  InCall(p)' /\ Queued(p)'
    BY <1>0, <1>5, Zenon DEF pipe_read
  <1>6. CASE WriteFull(p)
    BY <1>0, <1>6 DEF WriteFull
  <1>7. CASE WriteWake(p)
    BY <1>0, <1>7, Zenon DEF WriteWake
  <1>8. CASE pipe_write(p)
    BY <1>0, <1>8, Zenon DEF pipe_write
  <1>9. CASE PollScan(p)
    BY <1>0, <1>9, Zenon DEF PollScan
  <1>10. CASE PollReturn(p)
    BY <1>0, <1>10, Zenon DEF PollReturn
  <1>11. CASE PollTest(p)
    BY <1>0, <1>11, Zenon DEF PollTest
  <1>12. CASE PollBlock(p)
    BY <1>0, <1>12, Zenon DEF PollBlock
  <1>13. CASE PollSchedule(p)
    BY <1>0, <1>13, Zenon DEF PollSchedule
  <1>14. CASE PollAwake(p)
    BY <1>0, <1>14, Zenon DEF PollAwake
  <1>15. CASE pipe_release(p)
    BY <1>0, <1>15, Zenon DEF pipe_release
  <1> QED BY <1>1, <1>2, <1>3, <1>4, <1>5, <1>6, <1>7, <1>8, <1>9, <1>10,
             <1>11, <1>12, <1>13, <1>14, <1>15, Zenon DEF KernelStep

(* A call, a fork or a close by p.                                         *)
LEMMA UserKeeps ==
    ASSUME IInv, NEW p \in Procs, UserStep(p), NEW r \in Procs
    PROVE  InCall(r)' /\ Queued(r)'
  <1>0. /\ pc \in [Procs -> Pcs] /\ given \in [Procs -> Seq(Bytes)] /\ got \in [Procs -> Seq(Bytes)]
        /\ fds \in [Procs -> SUBSET {"r", "w"}] /\ InCall(r) /\ Queued(r)
    BY Zenon DEF IInv, TypeOK
  <1> USE DEF InCall, Queued, ends, waits, Goto, Reading, Writing, Polling
  <1>1. CASE CallRead(p)
    BY <1>0, <1>1, Zenon DEF CallRead
  <1>2. CASE CallWrite(p)
    <2>1. PICK n \in 1 .. MaxCount : \E s \in [1 .. n -> Bytes] : given' = [given EXCEPT ![p] = s]
      BY <1>2, Zenon DEF CallWrite
    <2>2. PICK s \in [1 .. n -> Bytes] : given' = [given EXCEPT ![p] = s]
      BY <2>1, Zenon
    <2>3. s # <<>>
      BY <2>2, PipeAssumption
    <2> QED BY <1>0, <1>2, <2>2, <2>3, Zenon DEF CallWrite
  <1>3. CASE CallPoll(p)
    BY <1>0, <1>3, Zenon DEF CallPoll
  <1>4. ASSUME NEW q \in Procs, fork(p, q)
      PROVE  InCall(r)' /\ Queued(r)'
    BY <1>0, <1>4, Zenon DEF fork
  <1>5. ASSUME NEW e \in {"r", "w"}, fput(p, e)
      PROVE  InCall(r)' /\ Queued(r)'
    BY <1>0, <1>5, Zenon DEF fput
  <1> QED BY <1>1, <1>2, <1>3, <1>4, <1>5, Zenon DEF UserStep

-----------------------------------------------------------------------------
(* The channel.                                                            *)

(* The bytes in the ring, from tail on.                                    *)
LEMMA ContentsSeq ==
    ASSUME TypeOK
    PROVE  /\ Contents \in Seq(Bytes) /\ Len(Contents) = len
           /\ \A i \in 1 .. len : Contents[i] = buf[Advance(tail, i - 1)]
  <1>1. PIPE_SIZE \in Nat \ {0} /\ len \in Nat /\ len <= PIPE_SIZE
    BY PipeAssumption DEF TypeOK
  <1>2. ASSUME NEW i \in 1 .. len PROVE buf[Advance(tail, i - 1)] \in Bytes
    <2>1. i - 1 \in 0 .. PIPE_SIZE
      BY <1>1
    <2> QED BY <2>1, AdvanceIn, Zenon DEF TypeOK
  <1> QED BY <1>1, <1>2 DEF Contents

(* ... and the same after a step.                                          *)
LEMMA ContentsNext ==
    ASSUME TypeOK'
    PROVE  /\ Contents' \in Seq(Bytes) /\ Len(Contents') = len'
           /\ \A i \in 1 .. len' : Contents'[i] = buf'[Advance(tail', i - 1)]
  <1>1. PIPE_SIZE \in Nat \ {0} /\ len' \in Nat /\ len' <= PIPE_SIZE
    BY PipeAssumption DEF TypeOK
  <1>2. ASSUME NEW i \in 1 .. len' PROVE buf'[Advance(tail', i - 1)] \in Bytes
    <2>1. i - 1 \in 0 .. PIPE_SIZE
      BY <1>1
    <2> QED BY <2>1, AdvanceIn, Zenon DEF TypeOK
  <1>3. Contents' = [i \in 1 .. len' |-> buf'[Advance(tail', i - 1)]]
    BY Zenon DEF Contents, Advance
  <1> QED BY <1>1, <1>2, <1>3

(* Sequences are equal element by element.                                 *)
LEMMA SameSeq ==
    ASSUME NEW S, NEW s \in Seq(S), NEW t \in Seq(S), Len(s) = Len(t),
           \A i \in 1 .. Len(s) : s[i] = t[i]
    PROVE  s = t
  OBVIOUS

(* What a concatenation holds.                                             *)
LEMMA ConcatIs ==
    ASSUME NEW S, NEW s \in Seq(S), NEW t \in Seq(S)
    PROVE  /\ s \o t \in Seq(S) /\ Len(s \o t) = Len(s) + Len(t)
           /\ \A i \in 1 .. Len(s) : (s \o t)[i] = s[i]
           /\ \A i \in 1 .. Len(t) : (s \o t)[Len(s) + i] = t[i]
  OBVIOUS

(* pipe_read takes a prefix off the channel.                               *)
LEMMA ReadGets ==
    ASSUME IInv, IInv', NEW p \in Procs, NEW n \in 1 .. MaxCount, pipe_read(p, n)
    PROVE  Channel!Get(p)
  <1>0. TypeOK /\ TypeOK' /\ InCall(p)
    BY Zenon DEF IInv
  <1>1. PICK k \in 1 .. len :
            /\ got' = [got EXCEPT ![p] = [i \in 1 .. k |-> buf[Advance(tail, i - 1)]]]
            /\ tail' = Advance(tail, k) /\ len' = len - k
            /\ \A i \in 1 .. k : buf[Advance(tail, i - 1)] \in Bytes
    BY <1>0, ReadRing, Zenon
  <1>2. /\ PIPE_SIZE \in Nat \ {0} /\ len \in Nat /\ len <= PIPE_SIZE /\ k \in Nat
        /\ tail \in 0 .. PIPE_SIZE - 1 /\ buf' = buf /\ given' = given /\ got[p] = <<>>
    BY <1>0, PipeAssumption DEF TypeOK, pipe_read, InCall
  <1>3. /\ Contents \in Seq(Bytes) /\ Len(Contents) = len
        /\ \A i \in 1 .. len : Contents[i] = buf[Advance(tail, i - 1)]
    BY <1>0, ContentsSeq, Zenon
  <1>4. /\ Contents' \in Seq(Bytes) /\ Len(Contents') = len - k
        /\ \A i \in 1 .. len - k : Contents'[i] = buf[Advance(Advance(tail, k), i - 1)]
    BY <1>0, <1>1, <1>2, ContentsNext, Zenon
  <1>5. SubSeq(Contents, 1, k) = [i \in 1 .. k |-> buf[Advance(tail, i - 1)]]
    <2>1. /\ SubSeq(Contents, 1, k) \in Seq(Bytes) /\ Len(SubSeq(Contents, 1, k)) = k
          /\ \A i \in 1 .. k : SubSeq(Contents, 1, k)[i] = Contents[i]
      BY <1>2, <1>3
    <2>2. \A i \in 1 .. k : Contents[i] = buf[Advance(tail, i - 1)]
      BY <1>2, <1>3
    <2> QED BY <1>2, <2>1, <2>2
  <1>6. Contents' = SubSeq(Contents, k + 1, Len(Contents))
    <2>1. /\ SubSeq(Contents, k + 1, Len(Contents)) \in Seq(Bytes)
          /\ Len(SubSeq(Contents, k + 1, Len(Contents))) = len - k
          /\ \A i \in 1 .. len - k :
                SubSeq(Contents, k + 1, Len(Contents))[i] = Contents[i + k]
      BY <1>2, <1>3
    <2>2. ASSUME NEW i \in 1 .. len - k PROVE Contents'[i] = Contents[i + k]
      <3>1. i - 1 \in Nat /\ k + (i - 1) <= PIPE_SIZE /\ k + (i - 1) = (i + k) - 1 /\ i + k \in 1 .. len
        BY <1>2
      <3>2. Advance(Advance(tail, k), i - 1) = Advance(tail, k + (i - 1))
        BY <1>2, <3>1, AdvanceTwice, Zenon
      <3> QED BY <1>3, <1>4, <3>1, <3>2, Zenon
    <2> QED BY <1>4, <2>1, <2>2, SameSeq, Zenon
  <1>7. k \in 1 .. Len(Contents)
    BY <1>3, Zenon
  <1>8. got' = [got EXCEPT ![p] = SubSeq(Contents, 1, k)]
    BY <1>1, <1>5, Zenon
  <1> QED BY <1>2, <1>6, <1>7, <1>8, Zenon DEF Channel!Get

(* pipe_write appends a prefix of what its caller hands over.              *)
LEMMA WritePuts ==
    ASSUME IInv, IInv', NEW p \in Procs, pipe_write(p)
    PROVE  Channel!Put(p)
  <1>0. TypeOK /\ TypeOK' /\ InCall(p)
    BY Zenon DEF IInv
  <1>1. PICK k \in 1 .. Len(given[p]) :
            /\ k <= PIPE_SIZE - len
            /\ buf' = [j \in 0 .. PIPE_SIZE - 1 |->
                          IF Advance(j, PIPE_SIZE - head) < k
                          THEN given[p][Advance(j, PIPE_SIZE - head) + 1] ELSE buf[j]]
            /\ head' = Advance(head, k) /\ len' = len + k
    BY <1>0, WriteRing, Zenon
  <1>a. \A j \in 0 .. PIPE_SIZE - 1 :
            LET d == Advance(j, PIPE_SIZE - head)
            IN  buf'[j] = IF d < k THEN given[p][d + 1] ELSE buf[j]
    BY <1>1, Zenon
  <1>b. k <= PIPE_SIZE - len /\ len' = len + k
    BY <1>1, Zenon
  <1>2. /\ PIPE_SIZE \in Nat \ {0} /\ len \in Nat /\ k \in Nat /\ len + k <= PIPE_SIZE
        /\ tail \in 0 .. PIPE_SIZE - 1 /\ head \in 0 .. PIPE_SIZE - 1
        /\ tail' = tail /\ got' = got /\ given[p] \in Seq(Bytes) /\ len' = len + k
        /\ Len(given[p]) \in Nat /\ k <= Len(given[p]) /\ k >= 1
        /\ head = Advance(tail, len) /\ given' = [given EXCEPT ![p] = <<>>]
    <2>1. /\ PIPE_SIZE \in Nat \ {0} /\ len \in Nat /\ given[p] \in Seq(Bytes)
          /\ tail \in 0 .. PIPE_SIZE - 1 /\ head \in 0 .. PIPE_SIZE - 1 /\ head = Advance(tail, len)
      BY <1>0, PipeAssumption DEF TypeOK
    <2>2. tail' = tail /\ got' = got /\ given' = [given EXCEPT ![p] = <<>>]
      BY Zenon DEF pipe_write
    <2>3. Len(given[p]) \in Nat
      BY <2>1
    <2> QED BY <1>b, <2>1, <2>2, <2>3
  <1>3. /\ Contents \in Seq(Bytes) /\ Len(Contents) = len
        /\ \A i \in 1 .. len : Contents[i] = buf[Advance(tail, i - 1)]
    BY <1>0, ContentsSeq, Zenon
  <1>4. /\ Contents' \in Seq(Bytes) /\ Len(Contents') = len + k
        /\ \A i \in 1 .. len + k : Contents'[i] = buf'[Advance(tail, i - 1)]
    BY <1>0, <1>2, ContentsNext, Zenon
  <1>5. ASSUME NEW i \in 1 .. len + k
        PROVE  /\ Advance(tail, i - 1) \in 0 .. PIPE_SIZE - 1
               /\ i <= len => Advance(Advance(tail, i - 1), PIPE_SIZE - head) >= k
               /\ i > len => Advance(Advance(tail, i - 1), PIPE_SIZE - head) = i - 1 - len
    <2>1. i \in Nat /\ i - 1 \in 0 .. PIPE_SIZE /\ PIPE_SIZE - head \in 0 .. PIPE_SIZE /\ len \in 0 .. PIPE_SIZE
      BY <1>2
    <2>2. PICK j \in 0 .. PIPE_SIZE - 1 : j = Advance(tail, i - 1)
      BY <1>2, <2>1, AdvanceIn, Zenon
    <2>3. /\ j = IF tail + (i - 1) < PIPE_SIZE THEN tail + (i - 1) ELSE tail + (i - 1) - PIPE_SIZE
          /\ head = IF tail + len < PIPE_SIZE THEN tail + len ELSE tail + len - PIPE_SIZE
          /\ Advance(j, PIPE_SIZE - head) =
                IF j + (PIPE_SIZE - head) < PIPE_SIZE THEN j + (PIPE_SIZE - head)
                ELSE j + (PIPE_SIZE - head) - PIPE_SIZE
      BY <1>2, <2>1, <2>2, AdvanceIs, Zenon
    <2>4. i <= len => Advance(j, PIPE_SIZE - head) >= k
      BY <1>2, <2>1, <2>3
    <2>5. i > len => Advance(j, PIPE_SIZE - head) = i - 1 - len
      BY <1>2, <2>1, <2>3
    <2> QED BY <2>2, <2>4, <2>5, Zenon
  <1>6. /\ SubSeq(given[p], 1, k) \in Seq(Bytes) /\ Len(SubSeq(given[p], 1, k)) = k
        /\ \A i \in 1 .. k : SubSeq(given[p], 1, k)[i] = given[p][i]
    BY <1>2
  <1>7. Contents' = Contents \o SubSeq(given[p], 1, k)
    <2>1. PICK t \in Seq(Bytes) : /\ t = SubSeq(given[p], 1, k) /\ Len(t) = k
                                /\ \A i \in 1 .. k : t[i] = given[p][i]
      BY <1>6, Zenon
    <2>2. Contents \o t \in Seq(Bytes) /\ Len(Contents \o t) = len + k
      BY <1>3, <2>1, ConcatIs, Zenon
    <2>3. ASSUME NEW i \in 1 .. len + k PROVE Contents'[i] = (Contents \o t)[i]
      <3>0. PICK j \in 0 .. PIPE_SIZE - 1 : j = Advance(tail, i - 1)
        BY <1>5, Zenon
      <3>1. CASE i <= len
        <4>1. i \in 1 .. len
          BY <1>2, <3>1
        <4>2. (Contents \o t)[i] = buf[j]
          BY <1>3, <2>1, <3>0, <4>1, ConcatIs
        <4>a. PICK d \in 0 .. PIPE_SIZE - 1 : d = Advance(j, PIPE_SIZE - head)
          <5>1. PIPE_SIZE - head \in 0 .. PIPE_SIZE
            BY <1>2
          <5> QED BY <5>1, AdvanceIn, Zenon
        <4>b. d >= k
          BY <1>5, <3>0, <3>1, <4>a, Zenon
        <4>3. ~(Advance(j, PIPE_SIZE - head) < k)
          BY <1>2, <4>a, <4>b
        <4>4. buf'[j] = buf[j]
          BY <1>a, <4>3, Zenon
        <4> QED BY <1>4, <3>0, <4>2, <4>4, Zenon
      <3>2. CASE i > len
        <4>1. i - len \in 1 .. k
          BY <1>2, <3>2
        <4>2. (Contents \o t)[i] = given[p][i - len]
          <5>1. \A m \in 1 .. k : (Contents \o t)[len + m] = t[m]
            <6>1. Contents \in Seq(Bytes) /\ t \in Seq(Bytes)
              BY <1>3, Zenon
            <6>2. \A m \in 1 .. Len(t) : (Contents \o t)[Len(Contents) + m] = t[m]
              BY <6>1, ConcatIs
            <6> QED BY <1>3, <2>1, <6>2, Zenon
          <5>2. len + (i - len) = i
            BY <1>2
          <5> QED BY <2>1, <4>1, <5>1, <5>2, Zenon
        <4>3. Advance(j, PIPE_SIZE - head) = i - 1 - len
          BY <1>5, <3>0, <3>2, Zenon
        <4>4. buf'[j] = given[p][(i - 1 - len) + 1]
          BY <1>2, <1>a, <4>1, <4>3
        <4>5. (i - 1 - len) + 1 = i - len
          BY <1>2
        <4>6. Contents'[i] = buf'[j]
          BY <1>4, <3>0, Zenon
        <4> QED BY <4>2, <4>4, <4>5, <4>6, Zenon
      <3>3. i <= len \/ i > len
        BY <1>2
      <3> QED BY <3>1, <3>2, <3>3, Zenon
    <2>4. \A i \in 1 .. Len(Contents') : Contents'[i] = (Contents \o t)[i]
      BY <1>4, <2>3, Zenon
    <2> QED BY <1>4, <2>1, <2>2, <2>4, SameSeq, Zenon
  <1> QED BY <1>1, <1>2, <1>3, <1>7, Zenon DEF Channel!Put

(* A call that returns gives up the bytes it was to write, or hands over   *)
(* those it read.                                                          *)
LEMMA ReturnEnds ==
    ASSUME IInv, NEW p \in Procs, Return(p), UNCHANGED ring
    PROVE  Channel!Fail(p) \/ Channel!Done(p)
  <1>0. /\ given \in [Procs -> Seq(Bytes)] /\ got \in [Procs -> Seq(Bytes)]
        /\ given' = [given EXCEPT ![p] = <<>>] /\ got' = [got EXCEPT ![p] = <<>>]
    BY Zenon DEF IInv, TypeOK, Return
  <1>1. Contents' = Contents
    BY Zenon DEF Contents, ring
  <1>2. CASE got[p] = <<>>
    <2>1. got' = got
      BY <1>0, <1>2, Zenon
    <2> QED BY <1>0, <1>1, <2>1, Zenon DEF Channel!Fail
  <1>3. CASE got[p] # <<>>
    <2>1. given[p] = <<>>
      BY <1>3, Zenon DEF IInv, InCall, Writing
    <2>2. given' = given
      BY <1>0, <2>1, Zenon
    <2> QED BY <1>0, <1>1, <2>2, Zenon DEF Channel!Done
  <1> QED BY <1>2, <1>3, Zenon

(* A system call that writes asks for it.                                  *)
LEMMA CallAsks ==
    ASSUME IInv, NEW p \in Procs, CallWrite(p) PROVE Channel!Ask(p)
  <1>1. PICK n \in 1 .. MaxCount : \E s \in [1 .. n -> Bytes] : given' = [given EXCEPT ![p] = s]
    BY Zenon DEF CallWrite
  <1>2. PICK s \in [1 .. n -> Bytes] : given' = [given EXCEPT ![p] = s]
    BY <1>1, Zenon
  <1>3. s # <<>> /\ s \in Seq(Bytes)
    BY <1>2, PipeAssumption
  <1>4. given \in [Procs -> Seq(Bytes)] /\ given[p] = <<>>
    BY Zenon DEF IInv, TypeOK, InCall, CallWrite, Writing
  <1>5. given'[p] = s
    BY <1>2, <1>4, Zenon
  <1>6. Contents' = Contents /\ got' = got
    BY Zenon DEF CallWrite, Contents, ring
  <1> QED BY <1>2, <1>3, <1>4, <1>5, <1>6, Zenon DEF Channel!Ask

(* Every step of the pipe is one of the channel, or none.                  *)
Stutters == UNCHANGED <<Contents, given, got>>

(* Steps from user mode.                                                   *)
LEMMA UserFifo ==
    ASSUME IInv, NEW p \in Procs, UserStep(p) PROVE Channel!Next \/ Stutters
  <1> USE DEF Stutters, Contents, ring
  <1>1. CASE CallRead(p)
    BY <1>1, Zenon DEF CallRead
  <1>2. CASE CallWrite(p)
    BY <1>2, CallAsks, Zenon DEF Channel!Next
  <1>3. CASE CallPoll(p)
    BY <1>3, Zenon DEF CallPoll
  <1>4. ASSUME NEW q \in Procs, fork(p, q)
      PROVE  Channel!Next \/ Stutters
    BY <1>4, Zenon DEF fork
  <1>5. ASSUME NEW e \in {"r", "w"}, fput(p, e)
      PROVE  Channel!Next \/ Stutters
    BY <1>5, Zenon DEF fput
  <1> QED BY <1>1, <1>2, <1>3, <1>4, <1>5, Zenon DEF UserStep

(* Steps in a system call.                                                 *)
LEMMA KernelFifo ==
    ASSUME IInv, IInv', NEW p \in Procs, KernelStep(p) PROVE Channel!Next \/ Stutters
  <1>1. Return(p) /\ UNCHANGED ring => Channel!Next
    BY ReturnEnds, Zenon DEF Channel!Next
  <1>2. UNCHANGED ring /\ UNCHANGED <<given, got>> => Stutters
    BY Zenon DEF Stutters, Contents, ring
  <1>3. ASSUME NEW n \in 1 .. MaxCount, pipe_read(p, n) PROVE Channel!Next
    BY <1>3, ReadGets, Zenon DEF Channel!Next
  <1>4. pipe_write(p) => Channel!Next
    BY WritePuts, Zenon DEF Channel!Next
  <1>5. Frame(p)
    BY KernelFrame, Zenon DEF IInv
  <1> QED BY <1>1, <1>2, <1>3, <1>4, <1>5, Zenon DEF Frame

(* Any step of the system.                                                 *)
LEMMA StepFifo ==
    ASSUME IInv, IInv', [Next]_vars PROVE [Channel!Next]_(Channel!vars)
  <1>1. ASSUME NEW p \in Procs, UserStep(p) PROVE Channel!Next \/ Stutters
    BY <1>1, UserFifo, Zenon
  <1>2. ASSUME NEW p \in Procs, KernelStep(p) PROVE Channel!Next \/ Stutters
    BY <1>2, KernelFifo, Zenon
  <1>3. ASSUME NEW p \in Procs, Signal(p) PROVE Stutters
    BY <1>3, Zenon DEF Signal, Stutters, Contents, ring
  <1>4. ASSUME UNCHANGED vars PROVE Stutters
    BY <1>4, Zenon DEF vars, Stutters, Contents, ring
  <1>5. Channel!Next \/ Stutters
    BY <1>1, <1>2, <1>3, <1>4, Zenon DEF Next
  <1> QED BY <1>5, Zenon DEF Stutters, Channel!vars

(* The empty pipe is the empty channel.                                    *)
LEMMA InitFifo == Init => Channel!Init
  <1> SUFFICES ASSUME Init PROVE Channel!Init
    BY Zenon
  <1>1. Contents = <<>>
    BY DEF Init, Contents
  <1> QED BY <1>1, Zenon DEF Init, Channel!Init

-----------------------------------------------------------------------------
(* Freeing the pipe.                                                       *)

(* From user mode nothing is freed, and no call is made on a pipe without  *)
(* descriptors.                                                            *)
LEMMA UserFreed == ASSUME IInv, Freed, NEW p \in Procs, UserStep(p) PROVE Freed'
  <1>0. Freed /\ frees \in Nat /\ pc \in [Procs -> Pcs] /\ fds \in [Procs -> SUBSET {"r", "w"}]
    BY Zenon DEF IInv, TypeOK
  <1> USE DEF Freed, ends, Goto
  <1>1. CASE CallRead(p)
    BY <1>0, <1>1, Zenon DEF CallRead
  <1>2. CASE CallWrite(p)
    BY <1>0, <1>2, Zenon DEF CallWrite
  <1>3. CASE CallPoll(p)
    BY <1>0, <1>3, Zenon DEF CallPoll
  <1>4. ASSUME NEW q \in Procs, fork(p, q)
      PROVE  Freed'
    BY <1>0, <1>4, Zenon DEF fork
  <1>5. ASSUME NEW e \in {"r", "w"}, fput(p, e)
      PROVE  Freed'
    BY <1>0, <1>5, Zenon DEF fput
  <1> QED BY <1>1, <1>2, <1>3, <1>4, <1>5, Zenon DEF UserStep

-----------------------------------------------------------------------------
(* Counting descriptors and processes.                                     *)

FS == INSTANCE FiniteSetTheorems

(* The operators of FiniteSets are the same there.                         *)
LEMMA SameSets ==
    ASSUME NEW S
    PROVE  (FS!IsFiniteSet(S) <=> IsFiniteSet(S)) /\ FS!Cardinality(S) = Cardinality(S)
  <1>1. FS!IsFiniteSet(S) <=> IsFiniteSet(S)
    BY Zenon DEF FS!IsFiniteSet, IsFiniteSet
  <1>2. FS!Cardinality(S) = Cardinality(S)
    BY Zenon DEF FS!Cardinality, Cardinality
  <1> QED BY <1>1, <1>2, Zenon

(* A set of processes has a number of members, none only if it is empty.   *)
LEMMA ProcsCount ==
    ASSUME NEW S \in SUBSET Procs
    PROVE  IsFiniteSet(S) /\ Cardinality(S) \in Nat /\ (Cardinality(S) = 0 <=> S = {})
  <1>1. IsFiniteSet(S)
    BY PipeAssumption, SameSets, FS!FS_Subset, Zenon
  <1> QED BY <1>1, SameSets, FS!FS_CardinalityType, FS!FS_EmptySet, Zenon

(* One more, one less, one.                                                *)
LEMMA CountOne ==
    ASSUME NEW S \in SUBSET Procs, NEW p \in Procs
    PROVE  /\ p \notin S => Cardinality(S \cup {p}) = Cardinality(S) + 1
           /\ p \in S => Cardinality(S \ {p}) = Cardinality(S) - 1
           /\ Cardinality({p}) = 1
  <1>0. FS!IsFiniteSet(S)
    BY ProcsCount, SameSets, Zenon
  <1>1. p \notin S => Cardinality(S \cup {p}) = Cardinality(S) + 1
    BY <1>0, SameSets, FS!FS_AddElement, Zenon
  <1>2. p \in S => Cardinality(S \ {p}) = Cardinality(S) - 1
    BY <1>0, SameSets, FS!FS_RemoveElement, Zenon
  <1>3. Cardinality({p}) = 1
    BY SameSets, FS!FS_Singleton, Zenon
  <1> QED BY <1>1, <1>2, <1>3, Zenon

(* A descriptor is counted.                                                *)
LEMMA HeldCounts ==
    ASSUME Counts, NEW p \in Procs, NEW e \in {"r", "w"}, e \in fds[p]
    PROVE  ref[e] \in Nat /\ ref[e] # 0
  <1>1. Holding(e) \in SUBSET Procs /\ Holding(e) # {}
    BY Zenon DEF Holding
  <1> QED BY <1>1, ProcsCount, Zenon DEF Counts

(* A call, a fork or a close by p.                                         *)
LEMMA UserTypes == ASSUME IInv, NEW p \in Procs, UserStep(p) PROVE TypeOK'
  <1>0. TypeOK /\ Counts
    BY Zenon DEF IInv
  <1>a. \A l \in {"none", "user", "release", "read", "write", "poll"} : l \in Pcs
    BY Zenon DEF Pcs, Reading, Writing, Polling
  <1>1. CASE CallRead(p)
    BY <1>0, <1>a, <1>1, Zenon DEF CallRead, Goto, TypeOK, ring, ends, waits
  <1>2. CASE CallWrite(p)
    <2>1. PICK n \in 1 .. MaxCount : \E s \in [1 .. n -> Bytes] : given' = [given EXCEPT ![p] = s]
      BY <1>2, Zenon DEF CallWrite
    <2>2. PICK s \in [1 .. n -> Bytes] : given' = [given EXCEPT ![p] = s]
      BY <2>1, Zenon
    <2>3. s \in Seq(Bytes)
      BY <2>2, PipeAssumption
    <2>4. pc' \in [Procs -> Pcs] /\ given' \in [Procs -> Seq(Bytes)]
      BY <1>0, <1>a, <1>2, <2>2, <2>3, Zenon DEF CallWrite, Goto, TypeOK
    <2> QED BY <1>0, <1>2, <2>4, Zenon DEF CallWrite, TypeOK, ring, ends, waits
  <1>3. CASE CallPoll(p)
    BY <1>0, <1>a, <1>3, Zenon DEF CallPoll, Goto, TypeOK, ring, ends, waits
  <1>4. ASSUME NEW q \in Procs, fork(p, q)
      PROVE  TypeOK'
    <2>1. fds' \in [Procs -> SUBSET {"r", "w"}] /\ pc' \in [Procs -> Pcs]
      BY <1>0, <1>a, <1>4, Zenon DEF fork, Goto, TypeOK
    <2>2. ref' \in [{"r", "w"} -> Nat]
      BY <1>0, <1>4 DEF fork, TypeOK
    <2> QED BY <1>0, <1>4, <2>1, <2>2, Zenon DEF fork, TypeOK, ring, waits
  <1>5. ASSUME NEW e \in {"r", "w"}, fput(p, e)
      PROVE  TypeOK'
    <2>1. ref[e] \in Nat /\ ref[e] # 0
      BY <1>0, <1>5, HeldCounts, Zenon DEF fput
    <2>2. fds' \in [Procs -> SUBSET {"r", "w"}]
      BY <1>0, <1>5, Zenon DEF fput, TypeOK
    <2>3. ref' \in [{"r", "w"} -> Nat]
      BY <1>0, <1>5, <2>1 DEF fput, TypeOK
    <2>4. pc' \in [Procs -> Pcs]
      BY <1>0, <1>a, <1>5, Zenon DEF fput, Goto, TypeOK
    <2>5. runnable' \in [Procs -> BOOLEAN]
      BY <1>0, <1>5, Zenon DEF fput, wake_up, TypeOK
    <2>6. readers' \in 0 .. 1 /\ writers' \in 0 .. 1
      BY <1>0, <1>5, <2>1 DEF fput, Counts, TypeOK
    <2> QED BY <1>0, <1>5, <2>2, <2>3, <2>4, <2>5, <2>6, Zenon DEF fput, TypeOK, ring
  <1> QED BY <1>1, <1>2, <1>3, <1>4, <1>5, Zenon DEF UserStep

(* fork and fput count the descriptors.                                    *)
LEMMA UserCounts == ASSUME IInv, NEW p \in Procs, UserStep(p) PROVE Counts'
  <1>0. TypeOK /\ Counts /\ \A q \in Procs : InCall(q)
    BY Zenon DEF IInv
  <1>a. \A e \in {"r", "w"} : Holding(e) \in SUBSET Procs
    BY Zenon DEF Holding
  <1>1. CASE CallRead(p)
    BY <1>0, <1>1, Zenon DEF CallRead, ends, Counts, Holding
  <1>2. CASE CallWrite(p)
    BY <1>0, <1>2, Zenon DEF CallWrite, ends, Counts, Holding
  <1>3. CASE CallPoll(p)
    BY <1>0, <1>3, Zenon DEF CallPoll, ends, Counts, Holding
  <1>4. ASSUME NEW q \in Procs, fork(p, q)
      PROVE  Counts'
    <2>1. /\ pc[p] = "user" /\ pc[q] = "none" /\ fds[q] = {}
          /\ fds' = [fds EXCEPT ![q] = fds[p]] /\ UNCHANGED <<readers, writers>>
          /\ ref' = [e \in {"r", "w"} |-> ref[e] + (IF e \in fds[p] THEN 1 ELSE 0)]
      BY <1>0, <1>4, Zenon DEF fork, InCall
    <2>2. ASSUME NEW e \in {"r", "w"} PROVE ref'[e] = Cardinality(Holding(e)')
      <3>1. CASE e \in fds[p]
        <4>1. Holding(e)' = Holding(e) \cup {q} /\ q \notin Holding(e)
          BY <1>0, <2>1, <3>1, Zenon DEF Holding, TypeOK
        <4>2. Cardinality(Holding(e)') = Cardinality(Holding(e)) + 1
          BY <1>a, <4>1, CountOne, Zenon
        <4> QED BY <1>0, <2>1, <3>1, <4>2, Zenon DEF Counts
      <3>2. CASE e \notin fds[p]
        <4>1. Holding(e)' = Holding(e)
          BY <1>0, <2>1, <3>2, Zenon DEF Holding, TypeOK
        <4> QED BY <1>0, <2>1, <3>2, <4>1 DEF Counts, TypeOK
      <3> QED BY <3>1, <3>2, Zenon
    <2>3. \A e \in {"r", "w"} : ref'[e] > 0 <=> ref[e] > 0
      <3>1. ASSUME NEW e \in {"r", "w"}, e \in fds[p] PROVE ref[e] > 0
        BY <1>0, <3>1, HeldCounts
      <3> QED BY <1>0, <2>1, <3>1 DEF TypeOK
    <2> QED BY <1>0, <2>1, <2>2, <2>3, Zenon DEF Counts
  <1>5. ASSUME NEW e \in {"r", "w"}, fput(p, e)
      PROVE  Counts'
    <2>1. /\ e \in fds[p] /\ fds' = [fds EXCEPT ![p] = @ \ {e}] /\ ref' = [ref EXCEPT ![e] = @ - 1]
          /\ ref[e] \in Nat /\ ref[e] > 0
      BY <1>0, <1>5, HeldCounts DEF fput
    <2>2. ASSUME NEW d \in {"r", "w"} PROVE ref'[d] = Cardinality(Holding(d)')
      <3>1. CASE d = e
        <4>1. Holding(e)' = Holding(e) \ {p} /\ p \in Holding(e)
          BY <1>0, <2>1, Zenon DEF Holding, TypeOK
        <4>2. Cardinality(Holding(e)') = Cardinality(Holding(e)) - 1
          BY <1>a, <4>1, CountOne, Zenon
        <4> QED BY <1>0, <2>1, <3>1, <4>2, Zenon DEF Counts, TypeOK
      <3>2. CASE d # e
        <4>1. Holding(d)' = Holding(d)
          BY <1>0, <2>1, <3>2, Zenon DEF Holding, TypeOK
        <4> QED BY <1>0, <2>1, <3>2, <4>1, Zenon DEF Counts, TypeOK
      <3> QED BY <3>1, <3>2, Zenon
    <2>3. /\ readers' = (IF ref'["r"] > 0 THEN 1 ELSE 0)
          /\ writers' = (IF ref'["w"] > 0 THEN 1 ELSE 0)
      BY <1>0, <1>5, <2>1 DEF fput, Counts, TypeOK
    <2> QED BY <2>2, <2>3, Zenon DEF Counts
  <1> QED BY <1>1, <1>2, <1>3, <1>4, <1>5, Zenon DEF UserStep

(* Before the first call there is one process with both ends.              *)
LEMMA InitIInv == Init => IInv
  <1> SUFFICES ASSUME Init PROVE IInv
    BY Zenon
  <1>1. PICK i \in Procs :
          /\ fds = [p \in Procs |-> IF p = i THEN {"r", "w"} ELSE {}]
          /\ pc = [p \in Procs |-> IF p = i THEN "user" ELSE "none"]
    BY Zenon DEF Init
  <1>2. pc \in [Procs -> Pcs] /\ fds \in [Procs -> SUBSET {"r", "w"}]
    BY <1>1, Zenon DEF Pcs
  <1>3. /\ <<>> \in Seq(Bytes) /\ 0 \in 0 .. PIPE_SIZE - 1 /\ 0 \in 0 .. PIPE_SIZE
        /\ 0 = Advance(0, 0)
    BY PipeAssumption, AdvanceIs
  <1>4. TypeOK
    BY <1>2, <1>3 DEF Init, TypeOK
  <1>5. \A p \in Procs : InCall(p) /\ Queued(p)
    BY <1>1, Zenon DEF Init, InCall, Queued, Reading, Writing, Polling
  <1>6. \A e \in {"r", "w"} : Cardinality(Holding(e)) = 1
    <2>1. \A e \in {"r", "w"} : Holding(e) = {i}
      BY <1>1, Zenon DEF Holding
    <2> QED BY <2>1, CountOne, Zenon
  <1> QED BY <1>4, <1>5, <1>6 DEF IInv, Init, Counts

(* Every step keeps them.                                                  *)
LEMMA StepIInv == ASSUME IInv, [Next]_vars PROVE IInv'
  <1>0. TypeOK /\ Counts /\ \A q \in Procs : InCall(q) /\ Queued(q)
    BY Zenon DEF IInv
  <1>1. ASSUME NEW p \in Procs, UserStep(p) PROVE IInv'
    BY <1>1, UserTypes, UserKeeps, UserCounts, Zenon DEF IInv
  <1>2. ASSUME NEW p \in Procs, KernelStep(p) PROVE IInv'
    <2>1. TypeOK' /\ \A q \in Procs : InCall(q)' /\ Queued(q)'
      BY <1>0, <1>2, KernelFrame, KernelTypes, KernelKeeps, KernelAside, AsideKeeps, Zenon
    <2>2. Counts'
      BY <1>0, <1>2, KernelFrame, Zenon DEF Frame, Counts, Holding
    <2> QED BY <2>1, <2>2, Zenon DEF IInv
  <1>3. ASSUME NEW p \in Procs, Signal(p) PROVE IInv'
    <2>1. TypeOK'
      BY <1>0, <1>3, Zenon DEF Signal, TypeOK, ring, ends
    <2>2. \A q \in Procs : Aside(q)
      BY <1>3, Zenon DEF Signal, Aside, ends
    <2>3. Counts'
      BY <1>0, <1>3, Zenon DEF Signal, Counts, Holding, ends
    <2> QED BY <1>0, <2>1, <2>2, <2>3, AsideKeeps, Zenon DEF IInv
  <1>4. CASE UNCHANGED vars
    BY <1>4 DEF IInv, TypeOK, InCall, Queued, Counts, Holding, vars, ring, ends, waits
  <1> QED BY <1>1, <1>2, <1>3, <1>4, Zenon DEF Next

(* Nobody holds an end that is closed.                                     *)
LEMMA ClosedEnds ==
    ASSUME IInv, readers = 0, writers = 0 PROVE \A q \in Procs : fds[q] = {}
  <1>1. \A e \in {"r", "w"} : ref[e] = 0
    BY DEF IInv, TypeOK, Counts
  <1>2. ASSUME NEW q \in Procs, NEW e \in {"r", "w"} PROVE e \notin fds[q]
    BY <1>1, HeldCounts, Zenon DEF IInv
  <1> QED BY <1>2, Zenon DEF IInv, TypeOK

(* The last close frees the pipe, and nobody is left to use it.            *)
LEMMA ReleaseFrees ==
    ASSUME IInv, Freed, NEW p \in Procs, pipe_release(p),
           \A q \in Procs : q # p => pc[q] \in Inactive
    PROVE  Freed'
  <1>1. frees = 0
    <2>1. pc[p] = "release"
      BY Zenon DEF pipe_release
    <2>2. frees \in Nat /\ frees <= 1
      BY Zenon DEF IInv, TypeOK, Freed
    <2>3. frees # 1
      BY <2>1, Zenon DEF Freed
    <2> QED BY <2>2, <2>3
  <1>2. fds' = fds /\ pc' = [pc EXCEPT ![p] = "user"] /\ pc \in [Procs -> Pcs]
    BY Zenon DEF IInv, TypeOK, pipe_release, Return, Goto
  <1>3. CASE readers = 0 /\ writers = 0
    <2>1. \A q \in Procs : fds[q] = {}
      BY <1>3, ClosedEnds, Zenon
    <2>2. ASSUME NEW q \in Procs, q # p PROVE pc[q] \in {"none", "user"}
      <3>1. pc[q] \notin Reading /\ pc[q] \notin Writing /\ pc[q] \notin Polling
        BY <2>1, Zenon DEF IInv, InCall
      <3> QED BY <2>2, <3>1, Zenon DEF Inactive, Reading, Writing, Polling
    <2>3. frees' = 1
      BY <1>1, <1>3 DEF pipe_release
    <2> QED BY <1>2, <2>1, <2>2, <2>3 DEF Freed
  <1>4. CASE ~(readers = 0 /\ writers = 0)
    BY <1>1, <1>4, Zenon DEF Freed, pipe_release
  <1> QED BY <1>3, <1>4, Zenon

(* The other steps in a system call free nothing, and none is taken once   *)
(* the pipe is gone.                                                       *)
LEMMA KernelFreed ==
    ASSUME IInv, Freed, NEW p \in Procs, KernelStep(p), \A q \in Procs : q # p => pc[q] \in Inactive
    PROVE  Freed'
  <1>1. Frame(p) /\ frees \in Nat
    BY KernelFrame, Zenon DEF IInv, TypeOK
  <1>2. CASE pipe_release(p)
    BY <1>2, ReleaseFrees, Zenon
  <1>3. CASE frees' = frees
    BY <1>1, <1>3, Zenon DEF Frame, Freed
  <1> QED BY <1>1, <1>2, <1>3, Zenon DEF Frame

(* While the pipe is not freed too early ...                               *)
LEMMA InitFreed == Init => FreedInv
  <1> SUFFICES ASSUME Init PROVE FreedInv
    BY Zenon
  <1>1. frees = 0
    BY Zenon DEF Init
  <1> QED BY <1>1, InitIInv DEF FreedInv, Freed

(* ... no step frees it too early: the process that takes one is the only  *)
(* one inside the kernel.                                                  *)
LEMMA StepFreed == ASSUME FreedInv, [Next]_vars PROVE FreedInv'
  <1>0. IInv /\ IInv' /\ Freed
    BY StepIInv, Zenon DEF FreedInv
  <1>1. ASSUME NEW p \in Procs, HasCpu(p), UserStep(p) \/ KernelStep(p) PROVE FreedInv'
    <2>1. \A q \in Procs : q # p => pc[q] \in Inactive
      BY <1>1, Zenon DEF HasCpu, Active
    <2> QED BY <1>0, <1>1, <2>1, UserFreed, KernelFreed, Zenon DEF FreedInv
  <1>2. ASSUME NEW p \in Procs, Signal(p) PROVE FreedInv'
    BY <1>0, <1>2, Zenon DEF Signal, Freed, FreedInv, ends
  <1>3. CASE UNCHANGED vars
    BY <1>0, <1>3, Zenon DEF vars, Freed, FreedInv, ends
  <1> QED BY <1>1, <1>2, <1>3, Zenon DEF Next

-----------------------------------------------------------------------------
(* Results.                                                                *)

(* The ring stays a ring, the counts of pipe_release are those of the      *)
(* descriptors, and a wait-queue entry lives as long as the system call    *)
(* whose stack holds it.                                                   *)
THEOREM Invariance == Spec => []IInv
  <1>1. Init => IInv
    BY InitIInv, Zenon
  <1>2. IInv /\ [Next]_vars => IInv'
    BY StepIInv, Zenon
  <1> QED BY <1>1, <1>2, PTL DEF Spec

(* pipe_read and pipe_write are a bounded first-in first-out channel:      *)
(* RefinesFifo.                                                            *)
THEOREM Refinement == Spec => RefinesFifo
  <1>1. Init => Channel!Init
    BY InitFifo, Zenon
  <1>2. IInv /\ IInv' /\ [Next]_vars => [Channel!Next]_(Channel!vars)
    BY StepFifo, Zenon
  <1> QED BY <1>1, <1>2, Invariance, PTL DEF Spec, RefinesFifo, Channel!Spec

(* The pipe is freed once, when nobody can reach it any more.              *)
THEOREM FreedOnce == Spec => []Lifetime
  <1>1. Init => FreedInv
    BY InitFreed, Zenon
  <1>2. FreedInv /\ [Next]_vars => FreedInv'
    BY StepFreed, Zenon
  <1>3. ASSUME FreedInv PROVE Lifetime
    <2>1. TypeOK /\ Counts /\ Freed /\ \A p \in Procs : Queued(p)
      BY <1>3, Zenon DEF FreedInv, IInv
    <2>2. \A p \in readq \cup writeq :
            pc[p] \in {"readsleep", "writesleep", "polltest", "pollblock", "pollrescan", "pollsleep"}
      BY <2>1, Zenon DEF TypeOK, Queued, Polling
    <2> QED BY <2>1, <2>2, Zenon DEF Lifetime, Counts, Holding, Freed
  <1> QED BY <1>1, <1>2, <1>3, PTL DEF Spec

=============================================================================
