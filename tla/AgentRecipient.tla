--------------------------- MODULE AgentRecipient ---------------------------
(***************************************************************************)
(* The receiving daemon: the always-on RunReceiver loop that answers the   *)
(* offer and negotiates, and the live receiver goroutine of each attempt,  *)
(* which writes the partial file and commits it.                           *)
(***************************************************************************)
EXTENDS LiveWire

VARIABLES
    rjob,      \* the receive job: status ("none" before the offer), progress
    rsession,  \* BackendLoop.live[TransferID] of the receiving daemon
    recv,      \* per attempt: the runLiveReceiver goroutine
    part,      \* the partial file
    file       \* the committed file

agentVars == <<rjob, rsession, recv, part, file>>

\* No source has a chunk 0.
NoFile      == <<0>>
NoRSession  == [att |-> 0, pending |-> <<>>]
NoReceiver  == [pc |-> "none", status |-> "none", progress |-> 0, resumed |-> FALSE]

AgentInit ==
    /\ rjob = [status |-> "none", progress |-> 0]
    /\ rsession = NoRSession
    /\ recv = [a \in Attempts |-> NoReceiver]
    /\ part = NoFile /\ file = NoFile

\* The loop reads nothing while its handler is making an answer.
AgentReads(type) ==
    /\ plan.kind = "agent" /\ Read("recipient", type)
    /\ \A a \in Attempts : peers["recipient"][a].state # "answering"

\* A handler's error fails the job and is reported, if the job is known.
AgentHandled(j, s, p, out, err) ==
    /\ rjob' = IF err THEN [j EXCEPT !.status = failTransferJob(@)] ELSE j
    /\ rsession' = s /\ peers' = p
    /\ mail' = ToSender([mail EXCEPT !.recipient = Tail(@)],
                        IF err THEN Append(out, Message("failed", 0)) ELSE out)

\* A known transfer is accepted again; a new one if the policy, the key and the inbox allow it.
handleTransferOffer ==
    /\ AgentReads("offer")
    /\ IF rjob.status # "none"
         THEN AgentHandled(rjob, rsession, peers, <<Message("accepted", 0)>>, FALSE)
         ELSE \/ AgentHandled([rjob EXCEPT !.status = "accepted"], rsession, peers,
                              <<Message("accepted", 0)>>, FALSE)
              \/ AgentHandled(rjob, rsession, peers, <<Message("denied", 0)>>, FALSE)
    /\ UNCHANGED <<plan, online, run, net, cuts, late, recv, part, file>>

\* Seeded fault: the candidates that arrived before the offer are forgotten.
flushLiveSessionICENever(peer, a, pending) == peer

flushLiveSessionICE(peer, a, pending) == [peer EXCEPT !.added = @ + CountOf(a, pending)]

\* The offer makes the peer, which answers it; the receiver goroutine gets the job as it is now.
\* The closed peer of an attempt whose goroutine has not returned cannot take the offer.
handleWebRTCOffer ==
    LET a    == Head(mail.recipient).n
        peer == [NoPeer EXCEPT !.state = "answering", !.left = plan.gather]
    IN  /\ AgentReads("webrtc_offer")
        /\ IF rsession.att # 0
             THEN AgentHandled(rjob, rsession, peers, <<>>, TRUE) /\ UNCHANGED recv
             ELSE /\ AgentHandled(rjob, [att |-> a, pending |-> <<>>],
                                  [peers EXCEPT !["recipient"][a] =
                                      flushLiveSessionICE(peer, a, rsession.pending)],
                                  <<>>, FALSE)
                  /\ recv' = [recv EXCEPT ![a] = [pc |-> "answering", status |-> rjob.status,
                                                  progress |-> rjob.progress, resumed |-> FALSE]]
        /\ UNCHANGED <<plan, online, run, net, cuts, late, part, file>>

SendAnswer(a) ==
    /\ recv[a].pc = "answering" /\ peers["recipient"][a].state = "answering"
    /\ peers' = [peers EXCEPT !["recipient"][a].state = "stable"]
    /\ recv' = [recv EXCEPT ![a].pc = "waiting"]
    /\ mail' = ToSender(mail, <<Message("answer", a)>>)
    /\ UNCHANGED <<plan, online, run, net, cuts, late, rjob, rsession, part, file>>

AgentICE ==
    LET a == rsession.att
        c == Head(mail.recipient).n
    IN  /\ AgentReads("ice")
        /\ IF rjob.status \in Terminal
             THEN AgentHandled(rjob, rsession, peers, <<>>, FALSE) /\ UNCHANGED late
             ELSE IF a = 0
             THEN LET full == Full(rsession.pending)
                  IN  /\ AgentHandled(rjob, IF full THEN rsession
                                            ELSE [rsession EXCEPT !.pending = Append(@, c)],
                                      peers, <<>>, full)
                      /\ UNCHANGED late
             ELSE \E refused \in AddRefusals(peers["recipient"][a]) :
                      /\ AgentHandled(rjob, rsession,
                                      [peers EXCEPT !["recipient"][a] = AddICECandidate(@, a, c)],
                                      <<>>, refused)
                      /\ late' = late \cup IF refused /\ peers["recipient"][a].state = "closed"
                                             THEN {"candidate"} ELSE {}
        /\ UNCHANGED <<plan, online, run, net, cuts, recv, part, file>>

\* The loop may have read the job before the receiver goroutine started it.
AgentStarted ==
    /\ AgentReads("started")
    /\ \E refused \in StartRefusals(rjob.status, "recipient" \in late) :
          /\ AgentHandled(IF refused THEN rjob ELSE [rjob EXCEPT !.status = markTransferStarted(@)],
                          rsession, peers, <<>>, refused)
          /\ late' = (late \ {"recipient"}) \cup RefusedStart(rjob.status, refused)
    /\ UNCHANGED <<plan, online, run, net, cuts, recv, part, file>>

AgentRetryable ==
    /\ AgentReads("retryable")
    /\ AgentHandled([rjob EXCEPT !.status = markJobRetryableIfMutable(@)], NoRSession,
                    CloseAt(peers, "recipient", rsession.att), <<>>, FALSE)
    /\ UNCHANGED <<plan, online, run, net, cuts, late, recv, part, file>>

AgentFailed ==
    /\ AgentReads("failed")
    /\ AgentHandled([rjob EXCEPT !.status = failTransferJob(@)], NoRSession,
                    CloseAt(peers, "recipient", rsession.att), <<>>, FALSE)
    /\ UNCHANGED <<plan, online, run, net, cuts, late, recv, part, file>>

-----------------------------------------------------------------------------
(* The live receiver goroutine.                                            *)

\* The goroutine returns: its session is closed if it is still the current one.
ReceiverReturns(a, out) ==
    /\ recv' = [recv EXCEPT ![a] = [NoReceiver EXCEPT !.pc = "done"]]
    /\ rsession' = IF rsession.att = a THEN NoRSession ELSE rsession
    /\ peers' = IF rsession.att = a THEN CloseAt(peers, "recipient", a) ELSE peers
    /\ mail' = ToSender(mail, out)

ReceiverFails(a, out) ==
    /\ rjob' = [rjob EXCEPT !.status = failTransferJob(@)]
    /\ ReceiverReturns(a, Append(out, Message("failed", 0)))

\* The channel is open: start the job, look at the destination, take up or drop the partial file.
\* A goroutine whose start is refused, perhaps because the loop was faster, returns silently.
ReceiverStarts(a) ==
    LET resumes == recv[a].status = "retryable" /\ recv[a].progress > 0 /\ part \notin {NoFile, <<>>}
        started == [rjob EXCEPT !.status = markTransferStarted(@)]
        told    == <<Message("started", 0)>>
    IN  /\ recv[a].pc = "waiting" /\ net[a].open
        /\ \E refused \in StartRefusals(rjob.status, TRUE) :
              /\ CASE refused ->
                        ReceiverReturns(a, <<>>) /\ UNCHANGED <<rjob, part>>
                   [] ~refused /\ (file # NoFile \/ (resumes /\ Len(part) # recv[a].progress)) ->
                        ReceiverFails(a, told) /\ UNCHANGED part
                   [] OTHER ->
                        /\ rjob' = started
                        /\ part' = IF resumes THEN part ELSE <<>>
                        /\ recv' = [recv EXCEPT ![a].pc = "receiving", ![a].resumed = resumes,
                                                ![a].progress = IF resumes THEN Len(part) ELSE 0]
                        /\ mail' = ToSender(mail, told)
                        /\ UNCHANGED <<rsession, peers>>
              /\ late' = late \cup RefusedStart(rjob.status, refused)
                              \cup IF AgentReads("started") /\ rjob' # rjob THEN {"recipient"} ELSE {}
        /\ UNCHANGED <<plan, online, run, net, cuts, file>>

ReceiverNeverOpens(a) ==
    /\ recv[a].pc = "waiting" /\ peers["recipient"][a].state = "closed"
    /\ rjob' = [rjob EXCEPT !.status = markJobRetryableIfMutable(@)]
    /\ ReceiverReturns(a, <<Message("retryable", recv[a].progress)>>)
    /\ UNCHANGED <<plan, online, run, net, cuts, late, part, file>>

\* The next sequence number; an empty file's sentinel leaves no byte behind.
Fits(a, frame) ==
    /\ Number(frame, "seq") = recv[a].progress
    /\ Number(frame, "offset") = Len(part)

Matches(a, frame) ==
    /\ Number(frame, "total_bytes") = Len(part)
    /\ Number(frame, "chunk_count") = recv[a].progress
    /\ frame.data = part

Incoming(a) ==
    /\ recv[a].pc = "receiving" /\ net[a].frames # <<>>
    /\ net' = [net EXCEPT ![a].frames = Tail(@)]

\* The new file of a failed goroutine is removed, a resumed one is kept.
ReceiverRefuses(a) ==
    LET frame == Head(net[a].frames)
    IN  /\ Incoming(a)
        /\ ~IF frame.type = "chunk" THEN Fits(a, frame) ELSE Matches(a, frame)
        /\ ReceiverFails(a, <<>>)
        /\ part' = IF recv[a].resumed THEN part ELSE NoFile
        /\ UNCHANGED <<plan, online, run, cuts, late, file>>

\* Seeded fault: the chunk is written and the sender is not told.
AcceptChunkQuietly(a) ==
    LET frame == Head(net[a].frames)
    IN  /\ Incoming(a) /\ frame.type = "chunk" /\ Fits(a, frame)
        /\ part' = part \o frame.data
        /\ recv' = [recv EXCEPT ![a].progress = @ + 1]
        /\ rjob' = [rjob EXCEPT !.progress = Len(part')]
        /\ UNCHANGED <<plan, online, run, mail, peers, cuts, late, rsession, file>>

\* A chunk is written; the progress counts while the job is under way.
AcceptChunk(a) ==
    LET frame == Head(net[a].frames)
        live  == rjob.status \in {"connecting", "transferring"}
        size  == Len(part) + Len(frame.data)
    IN  /\ Incoming(a) /\ frame.type = "chunk" /\ Fits(a, frame)
        /\ part' = part \o frame.data
        /\ recv' = [recv EXCEPT ![a].progress = @ + 1]
        /\ rjob' = IF live THEN [rjob EXCEPT !.progress = size] ELSE rjob
        /\ mail' = IF live THEN ToSender(mail, <<Message("progress", size)>>) ELSE mail
        /\ UNCHANGED <<plan, online, run, peers, cuts, late, rsession, file>>

\* The manifest matches: commit, complete and tell the sender, unless the job is over.
AcceptManifest(a) ==
    LET frame == Head(net[a].frames)
    IN  /\ Incoming(a) /\ frame.type = "manifest" /\ Matches(a, frame)
        /\ IF rjob.status \in Terminal
             THEN /\ ReceiverReturns(a, <<>>)
                  /\ part' = IF recv[a].resumed THEN part ELSE NoFile
                  /\ UNCHANGED <<rjob, file>>
             ELSE /\ ReceiverReturns(a, <<Message("completed", 0)>>)
                  /\ rjob' = [status |-> "completed", progress |-> plan.size]
                  /\ file' = part /\ part' = NoFile
        /\ UNCHANGED <<plan, online, run, cuts, late>>

\* The peer closed: the partial file is kept as long as the recorded progress.
ReceiverInterrupted(a) ==
    LET kept == IF Len(part) > rjob.progress THEN SubSeq(part, 1, rjob.progress) ELSE part
    IN  /\ recv[a].pc = "receiving" /\ peers["recipient"][a].state = "closed"
        /\ rjob' = [status   |-> markJobRetryableIfMutable(rjob.status),
                    progress |-> IF rjob.status \in Terminal THEN rjob.progress ELSE Len(kept)]
        /\ part' = kept
        /\ ReceiverReturns(a, <<Message("retryable", Len(kept))>>)
        /\ UNCHANGED <<plan, online, run, net, cuts, late, file>>

AgentNext ==
    \/ handleTransferOffer \/ handleWebRTCOffer \/ AgentICE
    \/ AgentStarted \/ AgentRetryable \/ AgentFailed
    \/ \E a \in Attempts :
          \/ SendAnswer(a) \/ ReceiverStarts(a) \/ ReceiverNeverOpens(a) \/ ReceiverRefuses(a)
          \/ AcceptChunk(a) \/ AcceptManifest(a) \/ ReceiverInterrupted(a)
=============================================================================
