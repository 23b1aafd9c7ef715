----------------------------- MODULE MCSignals -----------------------------
(* Signals for TLC: a parent and its child.                                *)
EXTENDS Signals, TLC

CONSTANTS parent, child, init

MCParent == (parent :> init) @@ (child :> parent)

Fn(mask, restart) == [h |-> "fn", mask |-> mask, restart |-> restart,
                      nodefer |-> FALSE, reset |-> FALSE]

(* Handlers of the mask run: SIGINT (2) blocks SIGUSR2 (12) and restarts;  *)
(* SIGUSR2 interrupts.                                                       *)
Handlers == {<<2, Fn({12}, TRUE)>>, <<12, Fn({}, FALSE)>>}
HandlerMasks == {{}, {12}, {2}}

(* The job-control run installs no handler and may block SIGCHLD.          *)
NoActions == {}
JobMasks == {{17}}

(* Bound of that run: the parent waits, the child also reads.              *)
ParentWaits == task[parent].res.call # "read"
=============================================================================
