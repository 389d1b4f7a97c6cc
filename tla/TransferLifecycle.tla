------------------------- MODULE TransferLifecycle -------------------------
(***************************************************************************)
(* What the server promises about the status of a transfer, however the    *)
(* requests of agents, browsers and operators interleave: a transfer moves *)
(* forward through the hand-shake, may be interrupted and taken up again   *)
(* while its endpoints are connected, and ends once.                       *)
(***************************************************************************)
CONSTANT Transfers

VARIABLE status

Final == {"completed", "failed", "cancelled", "expired"}
Open  == {"created", "offered", "accepted", "connecting", "transferring", "interrupted",
          "retryable"}

\* The hand-shake and the way back from an interruption.
Forward == {<<"created", "offered">>, <<"offered", "accepted">>, <<"accepted", "connecting">>,
            <<"connecting", "transferring">>, <<"interrupted", "retryable">>,
            <<"retryable", "connecting">>}

Broken == {<<"connecting", "interrupted">>, <<"transferring", "interrupted">>}

Init == status = [t \in Transfers |-> "none"]

Become(t, from, to) == status[t] = from /\ status' = [status EXCEPT ![t] = to]

Create(t) == Become(t, "none", "created")

Proceed(t) == \E move \in Forward \cup Broken : Become(t, move[1], move[2])

\* Only a transfer whose bytes flow completes; everything open can be given up.
Finish(t) == Become(t, "transferring", "completed")

GiveUp(t) ==
    /\ status[t] \in Open
    /\ \E to \in Final \ {"completed"} : status' = [status EXCEPT ![t] = to]

Next == \E t \in Transfers : Create(t) \/ Proceed(t) \/ Finish(t) \/ GiveUp(t)

Spec == Init /\ [][Next]_status
=============================================================================
