----------------------------- MODULE JobsProofs -----------------------------
(***************************************************************************)
(* For every number of processes: session leaders keep their groups.       *)
(***************************************************************************)
EXTENDS Jobs, TLAPS

\* Every session in use is named after a process that was created, so that a pid handed out by
\* ksys_fork names no session yet.
SidCreated ==
  \A p \in Pids : proc[p].st # "none" => proc[p].sid \in Pids /\ proc[proc[p].sid].st # "none"

IInv == TypeOK /\ SidCreated /\ LeaderStays

\* The boot state: PID 1 leads its own group and session.
LEMMA InitInv == Init => IInv
<1> SUFFICES ASSUME Init PROVE IInv
  OBVIOUS
<1>1. 1 \in Pids
  BY JobsAssumption DEF Pids
<1>2. TypeOK
  BY <1>1 DEF Init, TypeOK, Process, None
<1>3. SidCreated
  BY <1>1 DEF Init, SidCreated, None
<1>4. LeaderStays
  BY DEF Init, LeaderStays, Live, None
<1> QED BY <1>2, <1>3, <1>4 DEF IInv

\* Every call keeps the ids well typed and the leaders in place.
LEMMA NextInv == IInv /\ [Next]_vars => IInv'
<1> SUFFICES ASSUME IInv, [Next]_vars PROVE IInv'
  OBVIOUS
<1> USE DEF IInv, TypeOK, SidCreated, LeaderStays, Live, Process, Quiet
<1>0. 0 \notin Pids
  BY JobsAssumption DEF Pids
<1>1. ASSUME NEW t \in Pids, ksys_fork(t) PROVE IInv'
  <2>1. PICK c \in Pids : /\ proc[c].st = "none"
                          /\ proc' = [proc EXCEPT ![c] = Child(t)]
    BY <1>1 DEF ksys_fork
  <2>2. /\ Child(t) \in Process /\ Child(t).st = "live"
        /\ Child(t).pgid = proc[t].pgid /\ Child(t).sid = proc[t].sid
    BY <1>1 DEF ksys_fork, Child
  <2>3. TypeOK'
    BY <1>1, <2>1, <2>2 DEF ksys_fork
  <2>4. SidCreated'
    BY <1>1, <2>1, <2>2 DEF ksys_fork
  <2>5. proc[t].sid # c
    BY <1>1, <2>1 DEF ksys_fork
  <2>6. LeaderStays'
    BY <1>1, <2>1, <2>2, <2>5 DEF ksys_fork
  <2> QED BY <2>3, <2>4, <2>6
<1>2. ASSUME NEW t \in Pids, do_exit(t) PROVE IInv'
  <2>1. TypeOK'
    BY <1>2 DEF do_exit
  <2>2. SidCreated'
    BY <1>2 DEF do_exit
  <2>3. LeaderStays'
    BY <1>2 DEF do_exit
  <2> QED BY <2>1, <2>2, <2>3
<1>3. ASSUME NEW t \in Pids, NEW c \in Pids, free_task(t, c) PROVE IInv'
  <2>1. TypeOK'
    BY <1>3 DEF free_task
  <2>2. SidCreated'
    BY <1>3 DEF free_task
  <2>3. LeaderStays'
    BY <1>3 DEF free_task
  <2> QED BY <2>1, <2>2, <2>3
<1>4. ASSUME NEW t \in Pids, NEW p \in Pids, NEW g \in Pids, ksys_setpgid(t, p, g) PROVE IInv'
  <2>1. TypeOK'
    BY <1>0, <1>4 DEF ksys_setpgid, None
  <2>2. SidCreated'
    BY <1>4 DEF ksys_setpgid
  <2>3. LeaderStays'
    BY <1>4 DEF ksys_setpgid, Movable
  <2> QED BY <2>1, <2>2, <2>3
<1>5. ASSUME NEW t \in Pids, ksys_setsid(t) PROVE IInv'
  <2>1. /\ proc' = [proc EXCEPT ![t] = [proc[t] EXCEPT !.sid = t, !.pgid = t]]
        /\ proc[t].st = "live"
    BY <1>5 DEF ksys_setsid
  <2>2. TypeOK'
    <3>0. proc[t] \in Process
      OBVIOUS
    <3>1. [proc[t] EXCEPT !.sid = t, !.pgid = t] \in Process
      BY <3>0
    <3> QED BY <1>0, <1>5, <2>1, <3>1 DEF ksys_setsid, None
  <2>3. SidCreated'
    BY <2>1
  <2>4. LeaderStays'
    BY <2>1
  <2> QED BY <2>2, <2>3, <2>4
<1>6. ASSUME NEW t \in Pids, NEW g \in Pids, tty_setpgrp(t, g) PROVE IInv'
  BY <1>6 DEF tty_setpgrp
<1>7. ASSUME NEW t \in Pids, tty_sets_controlling(t) PROVE IInv'
  BY <1>7 DEF tty_sets_controlling
<1>8. ASSUME NEW t \in Pids, tty_release_controlling(t) PROVE IInv'
  BY <1>8 DEF tty_release_controlling
<1>9. ASSUME NEW cur \in {None} \cup Pids, tty_receive_char(cur) PROVE IInv'
  <2>1. hit' \subseteq Pids
    BY <1>9 DEF tty_receive_char, KillSet, Group
  <2> QED BY <1>9, <2>1 DEF tty_receive_char
<1>10. CASE UNCHANGED vars
  BY <1>10 DEF vars
<1> QED BY <1>1, <1>2, <1>3, <1>4, <1>5, <1>6, <1>7, <1>8, <1>9, <1>10 DEF Next

\* The inductive invariant holds in every reachable state.
THEOREM Invariance == Spec => []IInv
  BY InitInv, NextInv, PTL DEF Spec

\* ksys_setpgid never moves a live session leader out of the group it leads.
THEOREM LeadersStay == Spec => []LeaderStays
<1>1. IInv => LeaderStays
  BY DEF IInv
<1> QED BY <1>1, Invariance, PTL

=============================================================================
