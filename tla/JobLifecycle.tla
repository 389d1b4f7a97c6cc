---------------------------- MODULE JobLifecycle ----------------------------
(***************************************************************************)
(* What the local API promises about a job, however many goroutines drive  *)
(* it: the steps its status may take, progress that moves only while the   *)
(* job is open, and one ending, which is "completed" only for a whole      *)
(* file.                                                                   *)
(***************************************************************************)
EXTENDS Naturals

CONSTANT FileSize

VARIABLES status, progress

vars == <<status, progress>>

Ended   == {"completed", "failed", "cancelled"}
Working == {"connecting", "transferring"}
Waiting == {"queued", "offered", "accepted", "interrupted", "retryable"}

Init == status = "none" /\ progress = 0

Create == /\ status = "none"
          /\ status' \in {"queued", "offered"} /\ progress' = 0

Forward == {<<"queued", "offered">>, <<"offered", "accepted">>, <<"accepted", "connecting">>,
            <<"connecting", "transferring">>, <<"connecting", "interrupted">>,
            <<"transferring", "interrupted">>, <<"interrupted", "retryable">>,
            <<"retryable", "connecting">>}

Advance == <<status, status'>> \in Forward /\ UNCHANGED progress

Report == status \in Working \cup Waiting /\ progress' \in 0..FileSize /\ UNCHANGED status

Finish == status = "transferring" /\ status' = "completed" /\ progress' = FileSize

GiveUp == /\ status \in Working \cup Waiting
          /\ status' \in {"failed", "cancelled"} /\ UNCHANGED progress

Next == Create \/ Advance \/ Report \/ Finish \/ GiveUp

Spec == Init /\ [][Next]_vars
=============================================================================
