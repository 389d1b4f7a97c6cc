----------------------------- MODULE LiveSender -----------------------------
(***************************************************************************)
(* The sending daemon: the RunTransfer goroutine that offers the file, the *)
(* always-on loop that reads what arrives when no run is connected, the    *)
(* live session they share and the live sender goroutine of each attempt.  *)
(***************************************************************************)
EXTENDS LiveWire

VARIABLES
    sjob,     \* the send job: status, progress
    touched,  \* the job's UpdatedAt is newer than the run's copy
    session,  \* BackendLoop.live[TransferID]: the attempt of its peer, its owner, pendingICE
    stream    \* per attempt: the runLiveSender goroutine

senderVars == <<sjob, touched, session, stream>>

NoSession == [att |-> 0, owner |-> 0, pending |-> <<>>]
NoStream  == [pc |-> "none", via |-> 0, next |-> 0]

SenderInit ==
    /\ sjob = [status |-> "offered", progress |-> 0] /\ touched = FALSE
    /\ session = NoSession
    /\ stream = [a \in Attempts |-> NoStream]

-----------------------------------------------------------------------------
(* Runs.                                                                   *)

\* ConnectTransfer, then sendTransferOffer, then the loop that reads.
RunTransfer ==
    /\ run.no = 0 /\ MaxRuns > 0
    /\ run' = [no |-> 1, on |-> TRUE, reads |-> FALSE]
    /\ UNCHANGED <<plan, online, mail, peers, net, cuts, late, senderVars>>

sendTransferOffer ==
    /\ run.on /\ ~run.reads
    /\ run' = [run EXCEPT !.reads = TRUE]
    /\ mail' = ToRecipient(mail, <<Message("offer", 0)>>)
    /\ UNCHANGED <<plan, online, peers, net, cuts, late, senderVars>>

ClaimRetryable == [sjob EXCEPT !.status = "connecting"]

\* The claimed job is given to a new run; LiveTransfer says when.
handleResumeTransfer ==
    /\ ~run.on /\ run.no \in 1 .. MaxRuns - 1
    /\ sjob.status = "retryable"
    /\ sjob' = ClaimRetryable
    /\ touched' = FALSE
    /\ run' = [no |-> run.no + 1, on |-> TRUE, reads |-> FALSE]
    /\ late' = late \ {"run"}
    /\ UNCHANGED <<plan, online, mail, peers, net, cuts, session, stream>>

\* A run that ends in an error blames a job that nobody touched since.
handleRunTransferError(j, t) ==
    IF t \/ j.status = "retryable" \/ j.status \in Terminal
      THEN j ELSE [j EXCEPT !.status = "failed"]

-----------------------------------------------------------------------------
(* A message has been handled: the job, the session and the peers are j, s *)
(* and p.  In a run an error or a verdict ends the run, which closes the   *)
(* session it owns; in the loop an error fails the job and is reported.    *)

Reader(box) == IF box = "run" THEN run.no ELSE 0

\* A reader whose handler is still making an offer reads nothing.
Reads(box, type) ==
    /\ box = "run" => run.reads
    /\ Read(box, type)
    /\ \A a \in Attempts : ~(/\ peers["sender"][a].state = "making"
                             /\ peers["sender"][a].via = Reader(box))

Ended(j, t, s, p, failed) ==
    LET own == s.owner = run.no
    IN  /\ sjob' = IF failed THEN handleRunTransferError(j, t) ELSE j
        /\ touched' = t
        /\ run' = [run EXCEPT !.on = FALSE, !.reads = FALSE]
        /\ session' = IF own THEN NoSession ELSE s
        /\ peers' = IF own THEN CloseAt(p, "sender", s.att) ELSE p

Handled(box, j, t, s, p, err, verdict) ==
    IF box = "run" /\ (err \/ verdict # "none")
      THEN /\ Ended(j, t, s, p, err \/ verdict = "failed")
           /\ mail' = [mail EXCEPT !.run = <<>>]
      ELSE /\ sjob' = IF err THEN [j EXCEPT !.status = failTransferJob(@)] ELSE j
           /\ touched' = (t \/ (err /\ j.status \notin Terminal))
           /\ session' = s /\ peers' = p /\ UNCHANGED run
           /\ mail' = LET m == [mail EXCEPT ![box] = Tail(@)]
                      IN  IF err THEN ToRecipient(m, <<Message("failed", 0)>>) ELSE m

\* startSenderWebRTC, up to the offer: the session gets a peer unless it has one.
NewPeer(s, via) ==
    [NoPeer EXCEPT !.state = "making", !.via = via, !.held = s.pending, !.left = plan.gather]

NextAttempt == Cardinality({a \in Attempts : peers["sender"][a].state # "none"}) + 1

\* A session is never found owned by another run: there is one run at a time, and a run that ends
\* closes the session it owns.
handleAccepted(box) ==
    LET own == [session EXCEPT !.owner = IF @ = 0 THEN Reader(box) ELSE @]
        j   == [sjob EXCEPT !.status = IF @ = "offered" THEN "accepted" ELSE @]
        a   == NextAttempt
    IN  /\ Reads(box, "accepted")
        /\ CASE sjob.status \in Terminal ->
                  Handled(box, sjob, touched, session, peers, TRUE, "none")
             [] sjob.status \notin Terminal /\ session.att # 0 ->
                  Handled(box, j, touched \/ j # sjob, own, peers, FALSE, "none")
             [] sjob.status \notin Terminal /\ session.att = 0 ->
                  /\ a \in Attempts
                  /\ Handled(box, j, touched \/ j # sjob,
                             [own EXCEPT !.att = a, !.pending = <<>>],
                             [peers EXCEPT !["sender"][a] = NewPeer(session, Reader(box))],
                             FALSE, "none")
        /\ UNCHANGED <<plan, online, net, cuts, late, stream>>

SendWebRTCOffer(a) ==
    /\ peers["sender"][a].state = "making"
    /\ peers' = [peers EXCEPT !["sender"][a].state = "offered"]
    /\ mail' = ToRecipient(mail, <<Message("webrtc_offer", a)>>)
    /\ UNCHANGED <<plan, online, run, net, cuts, late, senderVars>>

\* liveSenderResumeManifest: where the stream begins, by the copy of the job read now.
liveSenderResumeManifest(j) == IF j.status = "retryable" THEN j.progress ELSE 0

handleWebRTCAnswer(box) ==
    LET a  == session.att
        ok == a # 0 /\ peers["sender"][a].state = "offered"
    IN  /\ Reads(box, "answer")
        /\ Handled(box, sjob, touched, session,
                   IF ok THEN [peers EXCEPT !["sender"][a] = flushPendingICE(@, a, "stable")]
                   ELSE peers,
                   ~ok, "none")
        /\ stream' = IF ~ok THEN stream
                     ELSE [stream EXCEPT ![a] = [pc |-> "waiting", via |-> Reader(box),
                                                 next |-> liveSenderResumeManifest(sjob)]]
        /\ UNCHANGED <<plan, online, net, cuts, late>>

\* A candidate for a session that has no peer yet waits in the session.
handleWebRTCICE(box) ==
    LET a == session.att
        c == Head(mail[box]).n
    IN  /\ Reads(box, "ice")
        /\ IF sjob.status \in Terminal
             THEN /\ Handled(box, sjob, touched, session, peers, FALSE, "none")
                  /\ UNCHANGED late
             ELSE IF a = 0
             THEN LET full == Full(session.pending)
                  IN  /\ Handled(box, sjob, touched,
                                 IF full THEN session
                                 ELSE [session EXCEPT !.pending = Append(@, c)],
                                 peers, full, "none")
                      /\ UNCHANGED late
             ELSE \E refused \in AddRefusals(peers["sender"][a]) :
                      /\ Handled(box, sjob, touched, session,
                                 [peers EXCEPT !["sender"][a] = AddICECandidate(@, a, c)],
                                 refused, "none")
                      /\ late' = late \cup IF refused /\ peers["sender"][a].state = "closed"
                                             THEN {"candidate"} ELSE {}
        /\ UNCHANGED <<plan, online, net, cuts, stream>>

\* The reader may have read the job before the goroutine of the attempt started it.
handleStarted(box) ==
    /\ Reads(box, "started")
    /\ \E refused \in StartRefusals(sjob.status, box \in late) :
          LET j == IF refused THEN sjob ELSE [sjob EXCEPT !.status = markTransferStarted(@)]
          IN  /\ Handled(box, j, touched \/ j # sjob, session, peers, refused, "none")
              /\ late' = (late \ {box}) \cup RefusedStart(sjob.status, refused)
    /\ UNCHANGED <<plan, online, net, cuts, stream>>

handleProgress(box) ==
    LET counts == sjob.status \in {"connecting", "transferring"}
    IN  /\ Reads(box, "progress")
        /\ Handled(box, IF counts THEN [sjob EXCEPT !.progress = Head(mail[box]).n] ELSE sjob,
                   touched \/ counts, session, peers, FALSE, "none")
        /\ UNCHANGED <<plan, online, net, cuts, late, stream>>

\* The session is closed, the recipient's durable progress taken over, the job made retryable.
handleTransferRetryable(box) ==
    LET err == sjob.status \in Terminal
    IN  /\ Reads(box, "retryable")
        /\ Handled(box, IF err THEN sjob
                        ELSE [status   |-> markJobRetryableIfMutable(sjob.status),
                              progress |-> Head(mail[box]).n],
                   touched \/ ~err, NoSession, CloseAt(peers, "sender", session.att), err, "failed")
        /\ UNCHANGED <<plan, online, net, cuts, late, stream>>

\* A send job completes when the recipient has reported every byte before.
completeTransferJob(j) ==
    j.status = "completed" \/ (~CannotStart(j.status) /\ j.progress = plan.size)

handleCompleted(box) ==
    LET ok == completeTransferJob(sjob)
        j  == [sjob EXCEPT !.status = IF ok THEN "completed" ELSE markTransferStarted(@)]
    IN  /\ Reads(box, "completed")
        /\ Handled(box, j, touched \/ j # sjob, session, peers, ~ok, "completed")
        /\ UNCHANGED <<plan, online, net, cuts, late, stream>>

handleFailed(box, type) ==
    LET j == [sjob EXCEPT !.status = failTransferJob(@)]
    IN  /\ Reads(box, type)
        /\ Handled(box, j, touched \/ j # sjob, NoSession,
                   CloseAt(peers, "sender", session.att), FALSE, "failed")
        /\ UNCHANGED <<plan, online, net, cuts, late, stream>>

-----------------------------------------------------------------------------
(* The live sender goroutine.                                              *)

Returned(pc) == [NoStream EXCEPT !.pc = pc]

Say(a, out) == mail' = IF CanSend(stream[a].via) THEN ToRecipient(mail, out) ELSE mail

\* The data channel is open: the job starts, unless it is over or a reader started it after the
\* goroutine had read it.
SenderStarts(a) ==
    /\ stream[a].pc = "waiting" /\ net[a].open
    /\ \E refused \in StartRefusals(sjob.status, TRUE) :
          LET j == IF refused THEN sjob ELSE [sjob EXCEPT !.status = markTransferStarted(@)]
          IN  /\ sjob' = j /\ touched' = (touched \/ j # sjob)
              /\ stream' = [stream EXCEPT ![a] = IF refused THEN Returned("failed")
                                                 ELSE [@ EXCEPT !.pc = "streaming"]]
              /\ IF refused THEN UNCHANGED mail ELSE Say(a, <<Message("started", 0)>>)
              /\ late' = late \cup RefusedStart(sjob.status, refused)
                              \cup {box \in {"run", "loop"} : Reads(box, "started") /\ j # sjob}
    /\ UNCHANGED <<plan, online, run, peers, net, cuts, session>>

\* Seeded fault: the job is completed when the manifest is sent.
SendFrameCompletes(a) ==
    LET next  == stream[a].next
        count == IF plan.size = 0 THEN 1 ELSE plan.size
    IN  /\ stream[a].pc = "streaming" /\ peers["sender"][a].state # "closed"
        /\ IF next < count
             THEN /\ Transmit(a, EncodeFrame(next, IF plan.size = 0 THEN <<>> ELSE <<next + 1>>))
                  /\ stream' = [stream EXCEPT ![a].next = @ + 1]
                  /\ UNCHANGED sjob
             ELSE /\ Transmit(a, EncodeManifestFrame(plan.size, count, Source(plan.size)))
                  /\ stream' = [stream EXCEPT ![a] = Returned("done")]
                  /\ sjob' = [sjob EXCEPT !.status = "completed"]
        /\ UNCHANGED <<plan, online, run, mail, peers, cuts, late, touched, session>>

\* StreamReader: a chunk, the sentinel of an empty file, or the manifest.  The progress messages
\* that go with the chunks are left out: a receiving agent ignores them and a page shows them.
SendFrame(a) ==
    LET next  == stream[a].next
        count == IF plan.size = 0 THEN 1 ELSE plan.size
    IN  /\ stream[a].pc = "streaming" /\ peers["sender"][a].state # "closed"
        /\ IF next < count
             THEN /\ Transmit(a, EncodeFrame(next, IF plan.size = 0 THEN <<>> ELSE <<next + 1>>))
                  /\ stream' = [stream EXCEPT ![a].next = @ + 1]
             ELSE /\ Transmit(a, EncodeManifestFrame(plan.size, count, Source(plan.size)))
                  /\ stream' = [stream EXCEPT ![a] = Returned("done")]
        /\ UNCHANGED <<plan, online, run, mail, peers, cuts, late, sjob, touched, session>>

\* The peer closed before the channel opened or before the last frame was sent.
SenderInterrupted(a) ==
    /\ stream[a].pc \in {"waiting", "streaming"} /\ peers["sender"][a].state = "closed"
    /\ sjob' = [sjob EXCEPT !.status = markJobRetryableIfMutable(@)]
    /\ touched' = (touched \/ sjob.status \notin Terminal \cup {"retryable"})
    /\ stream' = [stream EXCEPT ![a] = Returned("failed")]
    /\ Say(a, <<Message("retryable", sjob.progress)>>)
    /\ UNCHANGED <<plan, online, run, peers, net, cuts, late, session>>

\* The run reads session.done of the session it owns; a nil error changes nothing.
RunReadsDone ==
    /\ run.reads /\ session.att # 0 /\ session.owner = run.no
    /\ stream[session.att].pc = "failed"
    /\ Ended(sjob, touched, session, peers, TRUE)
    /\ mail' = [mail EXCEPT !.run = <<>>]
    /\ UNCHANGED <<plan, online, net, cuts, late, stream>>

handleEnvelope(box) ==
    \/ handleAccepted(box) \/ handleWebRTCAnswer(box) \/ handleWebRTCICE(box)
    \/ handleStarted(box) \/ handleProgress(box) \/ handleTransferRetryable(box)
    \/ handleCompleted(box) \/ handleFailed(box, "failed") \/ handleFailed(box, "denied")

SenderNext ==
    \/ RunTransfer \/ sendTransferOffer \/ RunReadsDone
    \/ \E box \in {"run", "loop"} : handleEnvelope(box)
    \/ \E a \in Attempts :
          SendWebRTCOffer(a) \/ SenderStarts(a) \/ SendFrame(a) \/ SenderInterrupted(a)
=============================================================================
