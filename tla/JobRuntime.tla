----------------------------- MODULE JobRuntime -----------------------------
(***************************************************************************)
(* One transfer job of an agent and every goroutine of the daemon that     *)
(* moves it: the creating request, the RunTransfer goroutines of a send    *)
(* job, the always-on RunReceiver loop, the live sender or receiver        *)
(* goroutines they spawn and the cancel requests of the local API.         *)
(*                                                                         *)
(* The JobManager applies one mutation at a time under its lock.  The      *)
(* helpers above it (markTransferStarted, completeTransferJob,             *)
(* markJobRetryableIfMutable, failTransferJob, handleRunTransferError)     *)
(* first read a copy of the job, then make up to four such calls; between  *)
(* any two of them the other goroutines run.  A goroutine therefore has a  *)
(* list of calls still to make: a helper's name is replaced, at the moment *)
(* it reads the job, by the calls it decides on, and the first call that   *)
(* the JobManager refuses drops the rest.                                  *)
(*                                                                         *)
(* The peer is an environment: it may send any message of Mail, in any     *)
(* order.  The bytes of the transfer are module ChunkStream's subject;     *)
(* here a stream just ends, well or badly.                                 *)
(***************************************************************************)
EXTENDS Naturals, Sequences

CONSTANTS
    Directions, \* what the job may be: "send", "receive"
    FileSize,   \* Job.FileSizeBytes
    Runs,       \* RunTransfer goroutines: one by creation, the others by resume
    FirstRun,   \* the one that creates the job
    Lives,      \* live WebRTC sessions and their goroutines
    Cancels,    \* cancel requests
    Mail,       \* per direction: the types of message that may arrive
    None,       \* no session, no owner
    MaxMail     \* bound: messages received and cancel requests made

Loop == "RunReceiver"

MailTypes == {"offer", "webrtc_offer", "accepted", "answer", "started", "progress", "retryable",
              "completed", "failed", "denied", "expired", "cancelled"}

ASSUME DirectionAssumption == Directions \subseteq {"send", "receive"}
ASSUME SizeAssumption      == FileSize \in Nat /\ MaxMail \in Nat
ASSUME MailAssumption      == Mail \in [Directions -> SUBSET MailTypes]
ASSUME RunAssumption       == FirstRun \in Runs /\ None \notin Lives \cup Runs \cup {Loop}
ASSUME ProcAssumption      == /\ Loop \notin Runs \cup Lives \cup Cancels
                              /\ Runs \cap (Lives \cup Cancels) = {} /\ Lives \cap Cancels = {}

Procs == Runs \cup Lives \cup Cancels \cup {Loop}

VARIABLES
    job,      \* the job in the JobManager
    touched,  \* runs whose copy of the job has an older UpdatedAt than the job
    procs,    \* per goroutine: where it is and the calls it still makes
    current,  \* BackendLoop.live[TransferID]: the session in the map
    owner,    \* per session: the run that owns it, None for the loop
    closed,   \* sessions whose peer is closed
    mailed,   \* messages received and cancel requests made
    told,     \* history: the largest progress the peer reported
    wrote,    \* history: a destination file was committed
    blame     \* history: who failed the job over a race, or that the cause was real

vars == <<job, touched, procs, current, owner, closed, mailed, told, wrote, blame>>

-----------------------------------------------------------------------------
(* JobManager: the mutations, as functions on the statuses they accept.    *)

Terminal == {"completed", "failed", "cancelled"}
Open     == {"queued", "offered", "accepted", "connecting", "transferring", "interrupted",
             "retryable"}
Statuses == {"none"} \cup Open \cup Terminal

transition(from, to) == [s \in {from} |-> to]

MarkOffered      == transition("queued", "offered")
MarkAccepted     == transition("offered", "accepted")
\* Seeded fault: an interrupted job may start without having been made retryable.
MarkConnectingEarly ==
    [s \in {"accepted", "retryable", "connecting", "transferring", "interrupted"} |->
        IF s = "transferring" THEN s ELSE "connecting"]

MarkConnecting   == [s \in {"accepted", "retryable", "connecting", "transferring"} |->
                        IF s = "transferring" THEN s ELSE "connecting"]
MarkTransferring == transition("connecting", "transferring")
Interrupt        == [s \in {"connecting", "transferring"} |-> "interrupted"]
MarkRetryable    == transition("interrupted", "retryable")
ClaimRetryable   == transition("retryable", "connecting")
Complete         == transition("transferring", "completed")
Fail             == [s \in Open |-> "failed"]
Cancel           == [s \in Open |-> "cancelled"]
UpdateProgress   == [s \in Open |-> s]
AttachTransfer   == [s \in Open |-> s]
AttachTransferKey == [s \in Open |-> s]
AttachPublicLink == [s \in Open |-> s]

\* handleEnvelope ignores an invalid status, not a terminal one.
MarkAcceptedOnce == [s \in Open |-> IF s = "offered" THEN "accepted" ELSE s]

\* Fail, with ErrJobTerminal ignored.
failJobIfMutable == [s \in Statuses |-> IF s \in Open THEN "failed" ELSE s]

\* An error that has nothing to do with the status.
refuse == [s \in {} |-> s]

Moves == [MarkOffered |-> MarkOffered, MarkAccepted |-> MarkAccepted,
          MarkConnecting |-> MarkConnecting, MarkTransferring |-> MarkTransferring,
          Interrupt |-> Interrupt, MarkRetryable |-> MarkRetryable, Complete |-> Complete,
          Fail |-> Fail, Cancel |-> Cancel, UpdateProgress |-> UpdateProgress,
          AttachTransfer |-> AttachTransfer, AttachTransferKey |-> AttachTransferKey,
          AttachPublicLink |-> AttachPublicLink, MarkAcceptedOnce |-> MarkAcceptedOnce,
          failJobIfMutable |-> failJobIfMutable, refuse |-> refuse]

-----------------------------------------------------------------------------
(* The helpers: the calls each makes, decided on the job it reads.         *)

markTransferStarted ==
    CASE job.status = "offered"                   -> <<"MarkAccepted", "MarkConnecting",
                                                       "MarkTransferring">>
      [] job.status \in {"accepted", "retryable"}     -> <<"MarkConnecting", "MarkTransferring">>
      [] job.status = "connecting"                    -> <<"MarkTransferring">>
      [] job.status \in {"transferring", "completed"} -> <<>>
      [] OTHER                                        -> <<"refuse">>

\* Seeded fault: the progress of a send job is not looked at.
completeTransferringUnchecked ==
    CASE job.status = "completed"    -> <<>>
      [] job.status = "transferring" -> <<"Complete">>
      [] OTHER                       -> <<"refuse">>

completeTransferring ==
    LET whole == job.direction = "receive" \/ job.progress = FileSize
    IN  CASE job.status = "completed"              -> <<>>
          [] job.status = "transferring" /\ whole  -> <<"Complete">>
          [] OTHER                                 -> <<"refuse">>

completeTransferJob ==
    IF job.status \in {"completed", "transferring"}
      THEN completeTransferring
      ELSE <<"markTransferStarted", "completeTransferring">>

\* Seeded fault: a broken stream is interrupted but not made retryable.
markJobRetryableHalf ==
    CASE job.status = "retryable"                       -> <<>>
      [] job.status \in {"offered", "accepted"}         -> <<"MarkConnecting", "Interrupt",
                                                             "MarkRetryable">>
      [] job.status = "interrupted"                     -> <<"MarkRetryable">>
      [] job.status \in {"connecting", "transferring"}  -> <<"Interrupt">>
      [] OTHER                                          -> <<"failJobIfMutable">>

markJobRetryableIfMutable ==
    CASE job.status = "retryable"                       -> <<>>
      [] job.status = "offered"                         -> <<"MarkAccepted", "MarkConnecting",
                                                             "Interrupt", "MarkRetryable">>
      [] job.status = "accepted"                        -> <<"MarkConnecting", "Interrupt",
                                                             "MarkRetryable">>
      [] job.status = "interrupted"                     -> <<"MarkRetryable">>
      [] job.status \in {"connecting", "transferring"}  -> <<"Interrupt", "MarkRetryable">>
      [] OTHER                                          -> <<"failJobIfMutable">>

failTransferJob == IF job.status \in Terminal THEN <<>> ELSE <<"Fail">>

\* A progress message counts for a send job whose stream is under way.
handleProgress ==
    IF job.direction = "send" /\ job.status \in {"connecting", "transferring"}
      THEN <<"UpdateProgress">> ELSE <<>>

\* The receiver's OnProgress callback.
OnProgress == IF job.status \in {"connecting", "transferring"} THEN <<"UpdateProgress">> ELSE <<>>

\* Seeded fault: the run does not compare UpdatedAt.
handleRunTransferErrorAlways(r) ==
    IF job.status \in {"retryable", "interrupted"} THEN <<>> ELSE <<"Fail">>

\* A failed run blames the job only if nothing has touched it since the run began.
handleRunTransferError(r) ==
    IF r \in touched \/ job.status \in {"retryable", "interrupted"} THEN <<>> ELSE <<"Fail">>

Helpers == {"markTransferStarted", "completeTransferring", "completeTransferJob",
            "retryTransferJob", "failTransferJob", "handleProgress", "OnProgress",
            "handleRunTransferError"}

Calls(helper, p) ==
    CASE helper = "markTransferStarted"    -> markTransferStarted
      [] helper = "completeTransferring"   -> completeTransferring
      [] helper = "completeTransferJob"    -> completeTransferJob
      [] helper = "retryTransferJob"       -> markJobRetryableIfMutable
      [] helper = "failTransferJob"        -> failTransferJob
      [] helper = "handleProgress"         -> handleProgress
      [] helper = "OnProgress"             -> OnProgress
      [] helper = "handleRunTransferError" -> handleRunTransferError(p)

-----------------------------------------------------------------------------
(* A goroutine: pc, the calls to make, their argument, whether the last    *)
(* call failed, what follows, and whether its complaint is a real one.     *)

Absent == [pc |-> "absent", todo |-> <<>>, n |-> 0, err |-> FALSE, then |-> "", real |-> FALSE]

Go(p, pc, todo, n, then, real) ==
    procs' = [procs EXCEPT ![p] = [pc |-> pc, todo |-> todo, n |-> n, err |-> FALSE,
                                   then |-> then, real |-> real]]

Started == {r \in Runs : procs[r].pc # "absent"}

Init ==
    /\ \E d \in Directions :
          job = [direction |-> d, status |-> "none", progress |-> 0, bound |-> FALSE, keyed |-> FALSE]
    /\ touched = {} /\ current = None /\ closed = {} /\ mailed = 0
    /\ owner = [g \in Lives |-> None]
    /\ procs = [p \in Procs |-> IF p = Loop THEN [Absent EXCEPT !.pc = "reading"] ELSE Absent]
    /\ told = 0 /\ wrote = FALSE /\ blame = "none"

\* A helper reads the job and decides which calls to make.
Decide(p) ==
    /\ procs[p].todo # <<>> /\ Head(procs[p].todo) \in Helpers
    /\ procs' = [procs EXCEPT ![p].todo = Calls(Head(@), p) \o Tail(@)]
    /\ UNCHANGED <<job, touched, current, owner, closed, mailed, told, wrote, blame>>

Accepts(call, n) ==
    /\ job.status \in DOMAIN Moves[call]
    /\ call = "UpdateProgress" => n <= FileSize

\* JobManager.update: one mutation under the lock, or an error that ends the helper.
update(p) ==
    LET call == Head(procs[p].todo)
        n    == procs[p].n
        to   == Moves[call][job.status]
    IN  /\ procs[p].todo # <<>> /\ call \in DOMAIN Moves
        /\ Accepts(call, n)
        /\ job' = [job EXCEPT !.status   = to,
                              !.progress = CASE call = "UpdateProgress" -> n
                                             [] call = "Complete"       -> FileSize
                                             [] OTHER                   -> @,
                              !.bound    = @ \/ call = "AttachTransfer",
                              !.keyed    = @ \/ call = "AttachTransferKey"]
        /\ touched' = CASE call = "MarkOffered" -> touched \ {p}
                        [] call \in {"MarkConnecting", "MarkAcceptedOnce", "failJobIfMutable"}
                             /\ to = job.status -> touched
                        [] OTHER                -> touched \cup Started
        /\ blame' = IF to = "failed" /\ job.status # "failed"
                      THEN IF procs[p].real THEN "real" ELSE IF p = Loop THEN "loop" ELSE "run"
                      ELSE blame
        /\ procs' = [procs EXCEPT ![p].todo = Tail(@)]
        /\ UNCHANGED <<current, owner, closed, mailed, told, wrote>>

updateError(p) ==
    LET call == Head(procs[p].todo)
    IN  /\ procs[p].todo # <<>> /\ call \in DOMAIN Moves
        /\ ~Accepts(call, procs[p].n)
        /\ procs' = [procs EXCEPT ![p].todo = <<>>, ![p].err = TRUE,
                                  ![p].real = @ \/ call = "refuse"]
        /\ UNCHANGED <<job, touched, current, owner, closed, mailed, told, wrote, blame>>

At(p, pc) == procs[p].pc = pc /\ procs[p].todo = <<>>

-----------------------------------------------------------------------------
(* The session map.                                                        *)

\* Seeded fault: the peer is closed without looking whether there is a session.
closeLiveSessionBlindly == current' = None /\ closed' = closed \cup {current}

closeLiveSession ==
    /\ current' = None
    /\ closed' = closed \cup ({current} \ {None})

closeLiveSessionForOwner(r) ==
    IF current # None /\ owner[current] = r
      THEN closeLiveSession
      ELSE UNCHANGED <<current, closed>>

closeLiveSessionIfCurrent(g) ==
    IF current = g THEN closeLiveSession ELSE UNCHANGED <<current, closed>>

-----------------------------------------------------------------------------
(* Creating, resuming and cancelling, from the local API.                  *)

CreateSendJob ==
    /\ job.direction = "send" /\ procs[FirstRun].pc = "absent"
    /\ job' = [job EXCEPT !.status = "queued"]
    /\ Go(FirstRun, "creating", <<>>, 0, "", TRUE)
    /\ UNCHANGED <<touched, current, owner, closed, mailed, told, wrote, blame>>

\* The server answers the create request; a key or a token may still be missing.
CreateTransferAnswered ==
    /\ At(FirstRun, "creating")
    /\ \E calls \in {<<"Fail", "refuse">>,
                     <<"AttachTransfer", "Fail", "refuse">>,
                     <<"AttachTransfer", "MarkOffered">>,
                     <<"AttachTransfer", "AttachTransferKey", "MarkOffered">>,
                     <<"AttachTransfer", "AttachTransferKey", "AttachPublicLink", "MarkOffered">>} :
          Go(FirstRun, "binding", calls, 0, "", TRUE)
    /\ UNCHANGED <<job, touched, current, owner, closed, mailed, told, wrote, blame>>

\* createSendJob starts RunTransfer on the job it got, or gives the error back.
CreateSendTransfer ==
    /\ At(FirstRun, "binding")
    /\ procs' = [procs EXCEPT ![FirstRun] =
                    [Absent EXCEPT !.pc = IF procs[FirstRun].err THEN "returned" ELSE "reading"]]
    /\ UNCHANGED <<job, touched, current, owner, closed, mailed, told, wrote, blame>>

handleResumeTransfer(r) ==
    /\ job.direction = "send" /\ r # FirstRun /\ procs[r].pc = "absent"
    /\ job.status \in DOMAIN ClaimRetryable
    /\ job' = [job EXCEPT !.status = ClaimRetryable[@]]
    /\ touched' = touched \cup Started
    /\ Go(r, "reading", <<>>, 0, "", FALSE)
    /\ UNCHANGED <<current, owner, closed, mailed, told, wrote, blame>>

\* handleTransferOffer holds BackendLoop.mu, which closeLiveSession needs, while it accepts.
OfferLocked == job.direction = "receive" /\ job.status = "offered"

\* CancelTransfer reads the job and closes the live session before it asks the server.
handleCancelTransfer(c) ==
    /\ procs[c].pc = "absent" /\ job.status # "none" /\ ~OfferLocked
    /\ mailed < MaxMail /\ mailed' = mailed + 1
    /\ IF job.status \in Terminal
         THEN Go(c, "returned", <<>>, 0, "", FALSE) /\ UNCHANGED <<current, closed>>
         ELSE /\ Go(c, "cancelling", <<>>, 0, IF job.bound THEN "server" ELSE "local", FALSE)
              /\ IF job.bound THEN closeLiveSession ELSE UNCHANGED <<current, closed>>
    /\ UNCHANGED <<job, touched, owner, told, wrote, blame>>

CancelTransfer(c) ==
    /\ At(c, "cancelling")
    /\ \/ Go(c, "applying", <<"Cancel">>, 0, "", FALSE)
       \/ procs[c].then = "server" /\ Go(c, "returned", <<>>, 0, "", FALSE)
    /\ UNCHANGED <<job, touched, current, owner, closed, mailed, told, wrote, blame>>

CancelReturns(c) ==
    /\ At(c, "applying")
    /\ Go(c, "returned", <<>>, 0, "", FALSE)
    /\ UNCHANGED <<job, touched, current, owner, closed, mailed, told, wrote, blame>>

-----------------------------------------------------------------------------
(* Messages, read by a run or by the always-on loop.                       *)

\* The peer speaks of a transfer once it was offered, answers an offer, and reports on a stream
\* once the sessions are negotiated.
Sent(type) ==
    /\ job.bound /\ type \in Mail[job.direction]
    /\ job.direction = "send" => procs[FirstRun].pc \notin {"creating", "binding"}
    /\ type = "answer" => \E g \in Lives : procs[g].pc # "absent"
    /\ type \in {"started", "progress", "retryable", "completed"} =>
          \E g \in Lives : procs[g].pc \notin {"absent", "signaling"}

\* Route prefers the socket of the transfer: the loop gets what arrives while no run is connected.
Routed(h) == h = Loop => \A r \in Runs : procs[r].pc \notin {"reading", "handling"}

\* Reader h takes a message and begins to handle it.
Arrives(h, type) ==
    /\ Sent(type) /\ Routed(h) /\ At(h, "reading")
    /\ mailed < MaxMail /\ mailed' = mailed + 1

Take(h, type, todo, n, then, real) ==
    Arrives(h, type) /\ Go(h, "handling", todo, n, then, real)

\* A known transfer: the loop answers again.  A new one that the policy lets in has a key: the job
\* is created offered, gets its key and is accepted, all under BackendLoop.mu.
handleTransferOffer ==
    /\ job.direction = "receive" /\ "offer" \in Mail[job.direction] /\ At(Loop, "reading")
    /\ mailed < MaxMail /\ mailed' = mailed + 1
    /\ IF job.bound
         THEN UNCHANGED <<job, procs>>
         ELSE /\ job' = [job EXCEPT !.status = "offered", !.bound = TRUE]
              /\ Go(Loop, "handling", <<"AttachTransferKey", "MarkAccepted">>, 0, "read", FALSE)
    /\ UNCHANGED <<touched, current, owner, closed, told, wrote, blame>>

handleAccepted(h) ==
    /\ job.direction = "send"
    /\ Take(h, "accepted", <<"MarkAcceptedOnce">>, 0, "dial", FALSE)
    /\ UNCHANGED <<job, touched, current, owner, closed, told, wrote, blame>>

\* The session in the map, unless another run left it there.
liveSessionForOwner(run) ==
    IF current # None /\ run # None /\ owner[current] \notin {None, run} THEN None ELSE current

\* The reader goes on reading, or its handler returns an error that has nothing to do with the job.
ReadsOn  == [Absent EXCEPT !.pc = "reading"]
Complain == [Absent EXCEPT !.pc = "handling", !.todo = <<"refuse">>, !.then = "read"]

\* The offer is made on the run's live session, on a new one if there is none; a session that
\* has a peer is taken as it is.  Without a key nothing is done.  A session without a peer, left
\* behind when none can be made, is no session here: the next offer makes the peer.
startSenderWebRTC(h) ==
    LET run   == IF h = Loop THEN None ELSE h
        found == liveSessionForOwner(run)
    IN  /\ At(h, "handling") /\ ~procs[h].err /\ procs[h].then = "dial"
        /\ \/ /\ ~job.keyed
              /\ procs' = [procs EXCEPT ![h] = Complain]
              /\ UNCHANGED <<current, owner, closed>>
           \/ /\ job.keyed /\ found # None
              /\ owner' = [owner EXCEPT ![current] = IF @ = None THEN run ELSE @]
              /\ procs' = [procs EXCEPT ![h] = ReadsOn]
              /\ UNCHANGED <<current, closed>>
           \/ /\ job.keyed /\ found = None
              /\ procs' = [procs EXCEPT ![h] = Complain]
              /\ closeLiveSession
              /\ UNCHANGED owner
           \/ /\ job.keyed /\ found = None
              /\ \E g \in Lives, reader \in {ReadsOn, Complain} :
                    /\ procs[g].pc = "absent"
                    /\ procs' = [procs EXCEPT ![g].pc = "signaling", ![h] = reader]
                    /\ owner' = [owner EXCEPT ![g] = run]
                    /\ current' = g
              /\ closed' = closed \cup ({current} \ {None})
        /\ UNCHANGED <<job, touched, mailed, told, wrote, blame>>

\* An answer to an open offer starts the live sender, any other answer is an error.
AnswerExpected == current # None /\ procs[current].pc = "signaling" /\ current \notin closed

handleWebRTCAnswer(h) ==
    /\ job.direction = "send"
    /\ \/ /\ AnswerExpected
          /\ Arrives(h, "answer")
          /\ procs' = [procs EXCEPT ![current].pc = "waiting"]
       \/ /\ ~AnswerExpected
          /\ Take(h, "answer", <<"refuse">>, 0, "read", FALSE)
    /\ UNCHANGED <<job, touched, current, owner, closed, told, wrote, blame>>

\* An offer while no session is in the map starts a live receiver; the peer of the last attempt,
\* closed or in use, does not take it.
handleWebRTCOffer ==
    /\ job.direction = "receive"
    /\ \/ /\ current = None /\ Arrives(Loop, "webrtc_offer")
          /\ \E g \in Lives :
                /\ procs[g].pc = "absent"
                /\ procs' = [procs EXCEPT ![g].pc = "waiting"]
                /\ current' = g
       \/ /\ current # None /\ Take(Loop, "webrtc_offer", <<"refuse">>, 0, "read", FALSE)
          /\ UNCHANGED current
    /\ UNCHANGED <<job, touched, owner, closed, told, wrote, blame>>

handleStarted(h) ==
    /\ Take(h, "started", <<"markTransferStarted">>, 0, "read", FALSE)
    /\ UNCHANGED <<job, touched, current, owner, closed, told, wrote, blame>>

handleTransferProgress(h) ==
    /\ \E n \in 1..FileSize :
          /\ Take(h, "progress", <<"handleProgress">>, n, "read", FALSE)
          /\ told' = IF n \in told..FileSize THEN n ELSE told
    /\ UNCHANGED <<job, touched, current, owner, closed, wrote, blame>>

handleTransferRetryable(h) ==
    /\ \E n \in 0..FileSize :
          /\ Take(h, "retryable",
                  IF job.direction = "send" THEN <<"UpdateProgress", "retryTransferJob">>
                                        ELSE <<"retryTransferJob">>,
                  n, "fail", FALSE)
          /\ told' = IF n \in told..FileSize THEN n ELSE told
    /\ closeLiveSession
    /\ UNCHANGED <<job, touched, owner, wrote, blame>>

\* Seeded fault: the job's direction is not looked at.
handleCompletedAnyDirection(h) ==
    /\ Take(h, "completed", <<"completeTransferJob">>, 0, "return", FALSE)
    /\ UNCHANGED <<job, touched, current, owner, closed, told, wrote, blame>>

handleCompleted(h) ==
    /\ Take(h, "completed", IF job.direction = "send" THEN <<"completeTransferJob">> ELSE <<"refuse">>,
            0, "return", FALSE)
    /\ UNCHANGED <<job, touched, current, owner, closed, told, wrote, blame>>

handleFailed(h) ==
    /\ \E type \in {"failed", "denied", "expired"} :
          Take(h, type, <<"failTransferJob">>, 0, "fail", TRUE)
    /\ closeLiveSession
    /\ UNCHANGED <<job, touched, owner, told, wrote, blame>>

handleCancelled(h) ==
    /\ Take(h, "cancelled", <<"Cancel">>, 0, "fail", FALSE)
    /\ closeLiveSession
    /\ UNCHANGED <<job, touched, owner, told, wrote, blame>>

\* runReceiverOnce: an error fails the job the message names, then the loop reads on.
LoopHandled ==
    /\ \/ At(Loop, "failing")
       \/ At(Loop, "handling") /\ ~procs[Loop].err /\ procs[Loop].then # "dial"
    /\ Go(Loop, "reading", <<>>, 0, "", FALSE)
    /\ UNCHANGED <<job, touched, current, owner, closed, mailed, told, wrote, blame>>

LoopHandlerError ==
    /\ At(Loop, "handling") /\ procs[Loop].err
    /\ Go(Loop, "failing", <<"failTransferJob">>, 0, "", procs[Loop].real)
    /\ UNCHANGED <<job, touched, current, owner, closed, mailed, told, wrote, blame>>

\* RunTransfer returns: nil after a completion, an error after any other verdict.
RunHandled(r) ==
    /\ At(r, "handling") /\ ~procs[r].err /\ procs[r].then # "dial"
    /\ \/ /\ procs[r].then = "read"
          /\ Go(r, "reading", <<>>, 0, "", FALSE)
          /\ UNCHANGED <<current, closed>>
       \/ /\ procs[r].then = "return"
          /\ Go(r, "returned", <<>>, 0, "", FALSE)
          /\ closeLiveSessionForOwner(r)
       \/ /\ procs[r].then = "fail"
          /\ Go(r, "erring", <<"handleRunTransferError">>, 0, "", procs[r].real)
          /\ closeLiveSessionForOwner(r)
    /\ UNCHANGED <<job, touched, owner, mailed, told, wrote, blame>>

RunHandlerError(r) ==
    /\ At(r, "handling") /\ procs[r].err
    /\ Go(r, "erring", <<"handleRunTransferError">>, 0, "", procs[r].real)
    /\ closeLiveSessionForOwner(r)
    /\ UNCHANGED <<job, touched, owner, mailed, told, wrote, blame>>

\* The run's socket breaks, or was never opened.
RunDisconnected(r) ==
    /\ At(r, "reading")
    /\ Go(r, "erring", <<"handleRunTransferError">>, 0, "", TRUE)
    /\ closeLiveSessionForOwner(r)
    /\ UNCHANGED <<job, touched, owner, mailed, told, wrote, blame>>

\* The run's own live sender reports an error.
RunSessionError(r) ==
    /\ At(r, "reading") /\ current # None /\ owner[current] = r
    /\ procs[current].pc = "returned" /\ procs[current].err
    /\ Go(r, "erring", <<"handleRunTransferError">>, 0, "", TRUE)
    /\ closeLiveSessionForOwner(r)
    /\ UNCHANGED <<job, touched, owner, mailed, told, wrote, blame>>

RunReturns(r) ==
    /\ At(r, "erring")
    /\ procs' = [procs EXCEPT ![r].pc = "returned"]
    /\ UNCHANGED <<job, touched, current, owner, closed, mailed, told, wrote, blame>>

-----------------------------------------------------------------------------
(* The live goroutine of a session: runLiveSenderOnce or                   *)
(* runLiveReceiverOnce, whose defer takes the session out of the map.      *)

Live(g, pc, todo, real) ==
    /\ Go(g, pc, todo, 0, "", real)
    /\ UNCHANGED <<job, touched, current, owner, closed, mailed, told, wrote, blame>>

LiveOpened(g) == At(g, "waiting") /\ Live(g, "starting", <<"markTransferStarted">>, FALSE)

LiveStarted(g) == At(g, "starting") /\ ~procs[g].err /\ Live(g, "streaming", <<>>, FALSE)

\* Waiting for the channel, streaming or the commit fails: retryable, or for good.
LiveInterrupted(g) ==
    /\ At(g, "waiting") \/ (job.direction = "send" /\ At(g, "streaming"))
    /\ Live(g, "ending", <<"retryTransferJob">>, FALSE)

\* The retryable closure of a receiver reads the recorded progress, makes the job retryable, then
\* looks at the partial file, whether or not the job could be moved.
ReceiverInterrupted(g) ==
    /\ job.direction = "receive" /\ At(g, "streaming")
    /\ Go(g, "retrying", <<"retryTransferJob">>, job.progress, "", FALSE)
    /\ UNCHANGED <<job, touched, current, owner, closed, mailed, told, wrote, blame>>

\* The file is as long as the progress, or is cut to it; it is shorter, and the progress follows;
\* or it cannot be looked at or cut, and the job fails.
ReceiverKeepsPartial(g) ==
    /\ At(g, "retrying")
    /\ \/ Go(g, "ending", <<>>, 0, "", FALSE)
       \/ \E n \in 0..procs[g].n : /\ n < procs[g].n
                                   /\ Go(g, "ending", <<"UpdateProgress">>, n, "", FALSE)
       \/ Go(g, "ending", <<"failTransferJob">>, 0, "", TRUE)
    /\ UNCHANGED <<job, touched, current, owner, closed, mailed, told, wrote, blame>>

LiveFailed(g) ==
    /\ At(g, "waiting") \/ At(g, "streaming") \/ At(g, "committing")
    /\ Live(g, "ending", <<"failTransferJob">>, TRUE)

LiveProgress(g) ==
    /\ job.direction = "receive" /\ At(g, "streaming")
    /\ \E n \in job.progress + 1..FileSize : Go(g, "streaming", <<"OnProgress">>, n, "", FALSE)
    /\ UNCHANGED <<job, touched, current, owner, closed, mailed, told, wrote, blame>>

\* The receiver has the manifest, looks at the job once more, commits the file, then reports.
LiveVerified(g) ==
    /\ job.direction = "receive" /\ At(g, "streaming") /\ job.status \notin Terminal
    /\ Live(g, "committing", <<>>, FALSE)

LiveCommitted(g) ==
    /\ At(g, "committing")
    /\ Go(g, "completing", <<"completeTransferJob">>, 0, "", FALSE)
    /\ wrote' = TRUE
    /\ UNCHANGED <<job, touched, current, owner, closed, mailed, told, blame>>

\* The goroutine ends: its stream was sent in full, its job was found terminal, one of the
\* branches above has run, or a receiver met an error of the file system (Lstat of the
\* destination, Close of the partial file) that it returns without a word to the job.
LiveReturns(g) ==
    /\ \/ job.direction = "send" /\ At(g, "streaming") /\ g \notin closed
       \/ job.direction = "receive" /\ At(g, "streaming")
       \/ At(g, "starting") /\ procs[g].err
       \/ At(g, "ending")
       \/ At(g, "completing")
    /\ procs' = [procs EXCEPT ![g].pc = "returned",
                              ![g].err = CASE procs[g].pc = "ending"    -> TRUE
                                           [] procs[g].pc = "streaming" -> job.direction = "receive"
                                           [] OTHER                     -> @]
    /\ IF job.direction = "receive" THEN closeLiveSessionIfCurrent(g) ELSE UNCHANGED <<current, closed>>
    /\ UNCHANGED <<job, touched, owner, mailed, told, wrote, blame>>

-----------------------------------------------------------------------------
Readers == Runs \cup {Loop}

Handle(h) ==
    \/ handleAccepted(h) \/ startSenderWebRTC(h) \/ handleWebRTCAnswer(h) \/ handleStarted(h)
    \/ handleTransferProgress(h) \/ handleTransferRetryable(h) \/ handleCompleted(h)
    \/ handleFailed(h) \/ handleCancelled(h)

RunStep(r) ==
    \/ handleResumeTransfer(r) \/ RunHandled(r) \/ RunHandlerError(r) \/ RunDisconnected(r)
    \/ RunSessionError(r) \/ RunReturns(r)

LiveStep(g) ==
    \/ LiveOpened(g) \/ LiveStarted(g) \/ LiveInterrupted(g) \/ ReceiverInterrupted(g)
    \/ ReceiverKeepsPartial(g) \/ LiveFailed(g) \/ LiveProgress(g)
    \/ LiveVerified(g) \/ LiveCommitted(g) \/ LiveReturns(g)

CancelStep(c) == handleCancelTransfer(c) \/ CancelTransfer(c) \/ CancelReturns(c)

Next ==
    \/ CreateSendJob \/ CreateTransferAnswered \/ CreateSendTransfer
    \/ handleTransferOffer \/ handleWebRTCOffer \/ LoopHandled \/ LoopHandlerError
    \/ \E p \in Procs : Decide(p) \/ update(p) \/ updateError(p)
    \/ \E h \in Readers : Handle(h)
    \/ \E r \in Runs : RunStep(r)
    \/ \E g \in Lives : LiveStep(g)
    \/ \E c \in Cancels : CancelStep(c)

Spec == Init /\ [][Next]_vars

-----------------------------------------------------------------------------
(* Properties.                                                             *)

\* The types: a goroutine's calls are calls of the JobManager or helpers above it.
TypeOK ==
    /\ job \in [direction : Directions, status : Statuses, progress : 0..FileSize, bound : BOOLEAN,
               keyed : BOOLEAN]
    /\ touched \subseteq Runs /\ closed \subseteq Lives
    /\ current \in Lives \cup {None} /\ owner \in [Lives -> Runs \cup {None}]
    /\ procs \in [Procs -> [pc : {"absent", "creating", "binding", "reading", "handling", "failing",
                                  "erring", "signaling", "waiting", "starting", "streaming",
                                  "committing", "completing", "retrying", "ending", "cancelling",
                                  "applying", "returned"},
                            todo : Seq(DOMAIN Moves \cup Helpers), n : 0..FileSize,
                            err : BOOLEAN,
                            then : {"", "read", "dial", "return", "fail", "server", "local"},
                            real : BOOLEAN]]
    /\ mailed \in 0..MaxMail /\ told \in 0..FileSize
    /\ wrote \in BOOLEAN /\ blame \in {"none", "real", "loop", "run"}

\* "interrupted" is a state markJobRetryableIfMutable passes through: whoever interrupts the job,
\* and whatever the other goroutines then do to it, somebody still has to call MarkRetryable, so
\* that no job is left interrupted, where neither a resume nor a message takes it up.
InterruptedIsBrief ==
    job.status = "interrupted" =>
        \E p \in Procs : procs[p].todo # <<>> /\ Head(procs[p].todo) = "MarkRetryable"

\* A send job is completed only once the peer has reported all bytes, however early, late or
\* repeated its completion message is (completeTransferJob).
CompletedWasReported == job.direction = "send" /\ job.status = "completed" => told = FileSize

\* A receive job is completed by the goroutine that committed its file, never by a message.
CompletedHasCommit == job.direction = "receive" /\ job.status = "completed" => wrote

\* The goroutines of a run and of a stream never fail a job only because another goroutine got in
\* their way: handleRunTransferError keeps quiet about a job that has moved since the run began.
RunsBlameFairly == blame # "run"

\* Nor does any other goroutine: starting a job that another goroutine is starting, or
\* interrupting one that another goroutine is interrupting, is harmless.
FailedForCause == blame \in {"none", "real"}

\* A run starts fresh: it never takes over a session whose goroutine is already ending.  The code
\* does not keep this (liveSessionForOwner; see the README).
AdoptsLiveSessions ==
    [][\A g \in Lives : owner[g] = None /\ owner'[g] # None =>
          procs[g].pc \notin {"ending", "returned"}]_vars

Lifecycle == INSTANCE JobLifecycle WITH status <- job.status, progress <- job.progress

\* However the goroutines interleave, a client of the local API sees the documented life of a job.
FollowsLifecycle == Lifecycle!Spec

Settled == job.status \in Terminal \cup {"retryable"}

\* Nobody works on the job, and the always-on loop has not taken over a session of it.
Quiet ==
    /\ procs[Loop].pc = "reading"
    /\ \A r \in Runs : procs[r].pc \in {"absent", "returned"}
    /\ \A g \in Lives : procs[g].pc \in {"absent", "signaling", "returned"}
    /\ \A c \in Cancels : procs[c].pc \in {"absent", "returned"}
    /\ \A g \in Lives : procs[g].pc # "absent" => owner[g] # None

\* When nobody works on a send job any more it has ended or can be resumed: an endpoint that
\* disappears fails the transfer, as the lifecycle's documentation has it.  The code does not keep
\* this (handleRunTransferError; see the README).
DisappearedEndpointSettles == job.direction = "send" /\ job.status # "none" /\ Quiet => Settled
=============================================================================
