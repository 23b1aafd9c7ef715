-------------------------------- MODULE Jobs --------------------------------
(***************************************************************************)
(* Process groups, sessions and the console's foreground group:            *)
(* kernel/pid.c, the group part of kernel/signal.c, and the session half   *)
(* of drivers/tty/tty.c.  Every call runs to its end with interrupts       *)
(* masked, so on one CPU it is one step.                                   *)
(***************************************************************************)
EXTENDS Integers, FiniteSets

CONSTANT MaxPid           \* how many processes are ever created

ASSUME JobsAssumption == MaxPid \in Nat \ {0}

Pids == 1..MaxPid
None == 0

VARIABLES
  proc,                   \* [Pids -> the task with that pid]
  tty,                    \* tty0: session_id and foreground_pgid
  hit                     \* the tasks the last Ctrl-C or Ctrl-Z reached

vars == <<proc, tty, hit>>

Process == [st : {"none", "live", "zombie", "gone"}, parent : {None} \cup Pids,
            pgid : {None} \cup Pids, sid : {None} \cup Pids]

\* kernel_thread gives pid 1 a group and a session of its own; init_stdio attaches the tty.
Init ==
  /\ proc = [p \in Pids |-> IF p = 1 THEN [st |-> "live", parent |-> None, pgid |-> 1, sid |-> 1]
                            ELSE [st |-> "none", parent |-> None, pgid |-> None, sid |-> None]]
  /\ tty = [session_id |-> 1, foreground_pgid |-> 1]
  /\ hit = {}

Live(p) == proc[p].st = "live"
Group(g) == {p \in Pids : Live(p) /\ proc[p].pgid = g}
pgid_exists(g) == Group(g) # {}
find_task_by_pid(p) == p \in Pids /\ proc[p].st \in {"live", "zombie"}
Quiet == hit' = {}

----------------------------------------------------------------------------
\* The fields ksys_fork gives the child: its parent's group and session.
Child(t) == [proc[t] EXCEPT !.parent = t]

\* ksys_fork: the next pid.
ksys_fork(t) ==
  /\ Live(t)
  /\ \E c \in Pids :
       /\ proc[c].st = "none" /\ \A p \in 1..(c - 1) : proc[p].st # "none"
       /\ proc' = [proc EXCEPT ![c] = Child(t)]
  /\ Quiet /\ UNCHANGED tty

\* do_exit; PID 1 does not exit.
do_exit(t) ==
  /\ Live(t) /\ t # 1
  /\ proc' = [proc EXCEPT ![t].st = "zombie"]
  /\ Quiet /\ UNCHANGED tty

\* free_task, by the parent's wait4.
free_task(t, c) ==
  /\ Live(t) /\ proc[c].st = "zombie" /\ proc[c].parent = t
  /\ proc' = [proc EXCEPT ![c].st = "gone"]
  /\ Quiet /\ UNCHANGED tty

Movable_any(p) == TRUE

\* A session leader keeps its group.
Movable(p) == proc[p].sid # p

ksys_setpgid(t, p, g) ==
  /\ Live(t) /\ find_task_by_pid(p)
  /\ p = t \/ proc[p].parent = t
  /\ g = p \/ pgid_exists(g)
  /\ Movable(p)
  /\ proc[p].sid = proc[t].sid
  /\ proc' = [proc EXCEPT ![p].pgid = g]
  /\ Quiet /\ UNCHANGED tty

\* ksys_setsid fails when the caller's pid is already a group.
ksys_setsid(t) ==
  /\ Live(t) /\ ~pgid_exists(t)
  /\ proc' = [proc EXCEPT ![t].sid = t, ![t].pgid = t]
  /\ Quiet /\ UNCHANGED tty

----------------------------------------------------------------------------
\* TIOCSPGRP: the caller and every live member of the group are in the tty's session, if any.
InSession(p) == tty.session_id = None \/ proc[p].sid = tty.session_id

tty_setpgrp(t, g) ==
  /\ Live(t) /\ InSession(t)
  /\ pgid_exists(g) /\ \A p \in Group(g) : InSession(p)
  /\ tty' = [tty EXCEPT !.foreground_pgid = g]
  /\ Quiet /\ UNCHANGED proc

\* TIOCSCTTY, by a session leader.
tty_sets_controlling(t) ==
  /\ Live(t) /\ proc[t].sid = t
  /\ tty' = [session_id |-> proc[t].sid, foreground_pgid |-> proc[t].pgid]
  /\ Quiet /\ UNCHANGED proc

\* TIOCNOTTY.
tty_release_controlling(t) ==
  /\ Live(t) /\ tty.session_id = proc[t].sid
  /\ tty' = [session_id |-> None, foreground_pgid |-> None]
  /\ Quiet /\ UNCHANGED proc

\* ksys_kill for pid <= 0, called by (or in an interrupt of) the task cur.
KillSet(pid, cur) ==
  IF pid = 0 THEN Group(proc[cur].pgid)
  ELSE IF pid < -1 THEN Group(-pid)
  ELSE {p \in Pids : find_task_by_pid(p)} \ {cur}

\* tty_receive_char on Ctrl-C and Ctrl-Z: ksys_kill(-foreground_pgid, sig).  cur is the
\* interrupted task, or None when the CPU is idle.
tty_receive_char(cur) ==
  /\ cur \in {None} \cup {p \in Pids : Live(p)}
  /\ tty.foreground_pgid # None
  /\ hit' = KillSet(-tty.foreground_pgid, cur)
  /\ UNCHANGED <<proc, tty>>

Next ==
  \/ \E t \in Pids :
       \/ ksys_fork(t) \/ do_exit(t) \/ ksys_setsid(t)
       \/ \E c \in Pids : free_task(t, c)
       \/ \E p, g \in Pids : ksys_setpgid(t, p, g)
       \/ \E g \in Pids : tty_setpgrp(t, g)
       \/ tty_sets_controlling(t) \/ tty_release_controlling(t)
  \/ \E cur \in {None} \cup Pids : tty_receive_char(cur)

Spec == Init /\ [][Next]_vars

----------------------------------------------------------------------------
\* The types of the task's ids and of tty0; a task that was created is in a group and a session.
TypeOK ==
  /\ proc \in [Pids -> Process]
  /\ \A p \in Pids : proc[p].st # "none" => proc[p].pgid # None /\ proc[p].sid # None
  /\ tty \in [session_id : {None} \cup Pids, foreground_pgid : {None} \cup Pids]
  /\ hit \subseteq Pids

\* A live session leader leads the group of its own pid: setpgid never moves it.
LeaderStays == \A p \in Pids : (Live(p) /\ proc[p].sid = p) => proc[p].pgid = p

\* Live tasks of one process group are in one session (ksys_setpgid's "same session" test).
GroupInOneSession ==
  \A p, q \in Pids : (Live(p) /\ Live(q) /\ proc[p].pgid = proc[q].pgid) => proc[p].sid = proc[q].sid

\* Ctrl-C and Ctrl-Z reach members of the foreground group only (tty_receive_char).
ForegroundOnly == hit \subseteq {p \in Pids : proc[p].pgid = tty.foreground_pgid}
=============================================================================
