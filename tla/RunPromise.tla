----------------------------- MODULE RunPromise -----------------------------
(***************************************************************************)
(* What a task run promises whoever reads the task database: a run is       *)
(* created running, ends once and stays as it ended, and is cancelled only  *)
(* if somebody stopped it.  TaskRun is shown to implement this.             *)
(***************************************************************************)
CONSTANT Runs           \* ids of rows of task_runs

VARIABLES
  status,               \* [Runs -> Statuses]: task_runs.status
  stopped               \* [Runs -> BOOLEAN]: somebody asked to stop the run

vars == <<status, stopped>>

Terminal == {"completed", "failed", "cancelled"}

Init ==
  /\ status = [r \in Runs |-> "none"]
  /\ stopped = [r \in Runs |-> FALSE]

Create(r) ==
  /\ status[r] = "none"
  /\ status' = [status EXCEPT ![r] = "running"]
  /\ UNCHANGED stopped

Stop(r) ==
  /\ status[r] # "none"
  /\ stopped' = [stopped EXCEPT ![r] = TRUE]
  /\ UNCHANGED status

End(r, s) ==
  /\ status[r] = "running"
  /\ s = "cancelled" => stopped[r]
  /\ status' = [status EXCEPT ![r] = s]
  /\ UNCHANGED stopped

Next == \E r \in Runs : Create(r) \/ Stop(r) \/ \E s \in Terminal : End(r, s)

Spec == Init /\ [][Next]_vars
=============================================================================
