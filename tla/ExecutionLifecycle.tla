-------------------------- MODULE ExecutionLifecycle --------------------------
(***************************************************************************)
(* What a reader of the executions table may rely on, whatever goroutines, *)
(* deletions and crashes lie behind it: an execution is inserted once, is  *)
(* pending, perhaps running, gets one verdict that never changes, and once *)
(* its row is deleted it never comes back.                                 *)
(***************************************************************************)
EXTENDS Integers

CONSTANTS Execs,      \* identifiers of executions
          ExitCodes,  \* exit codes of commands, -1 for "could not tell"
          NoExit      \* exit_code IS NULL

VARIABLES status,  \* status[e] of the row of e
          exit     \* exit[e], its exit_code

Unfinished == {"pending", "running"}
Finished == {"success", "failed"}
Statuses == {"absent", "deleted"} \cup Unfinished \cup Finished

Init == /\ status = [e \in Execs |-> "absent"]
        /\ exit = [e \in Execs |-> NoExit]

Insert(e) == /\ status[e] = "absent"
             /\ status' = [status EXCEPT ![e] = "pending"]
             /\ UNCHANGED exit

Begin(e) == /\ status[e] = "pending"
            /\ status' = [status EXCEPT ![e] = "running"]
            /\ UNCHANGED exit

Finish(e) == /\ status[e] \in Unfinished
             /\ \E x \in ExitCodes :
                  /\ exit' = [exit EXCEPT ![e] = x]
                  /\ status' = [status EXCEPT ![e] =
                                    IF x = 0 THEN "success" ELSE "failed"]

\* Deleting a command or an app removes the rows of any set of executions.
Delete(D) == /\ \A e \in D : status[e] \in Unfinished \cup Finished
             /\ status' = [e \in Execs |->
                               IF e \in D THEN "deleted" ELSE status[e]]
             /\ exit' = [e \in Execs |-> IF e \in D THEN NoExit ELSE exit[e]]

Next == \/ \E e \in Execs : Insert(e) \/ Begin(e) \/ Finish(e)
        \/ \E D \in SUBSET Execs : Delete(D)

Spec == Init /\ [][Next]_<<status, exit>>
===============================================================================
