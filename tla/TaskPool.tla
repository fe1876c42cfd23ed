------------------------------ MODULE TaskPool ------------------------------
(***************************************************************************)
(* What a task service promises for each request: it is submitted, then    *)
(* started by at most one thread, then done, and only then may be          *)
(* submitted again.  A request canceled in time is done without being      *)
(* started, and a thread that is being stopped may drop the one it has     *)
(* taken.                                                                  *)
(*                                                                         *)
(* TaskService implements this specification.                              *)
(***************************************************************************)
CONSTANT Requests

VARIABLE status

Statuses == {"idle", "submitted", "started", "done", "dropped"}

Init == status = [r \in Requests |-> "idle"]

Move(r, from, to) ==
    /\ status[r] = from
    /\ status' = [status EXCEPT ![r] = to]

Submit(r) == Move(r, "idle", "submitted")
Start(r) == Move(r, "submitted", "started")
Finish(r) == Move(r, "started", "done")
Skip(r) == Move(r, "submitted", "done")
Recycle(r) == Move(r, "done", "idle")
Drop(r) == Move(r, "submitted", "dropped")

Next ==
    \E r \in Requests : \/ Submit(r) \/ Start(r) \/ Finish(r)
                        \/ Skip(r) \/ Recycle(r) \/ Drop(r)

Spec == Init /\ [][Next]_status
=============================================================================
