---------------------------- MODULE LiveTransfer ----------------------------
(***************************************************************************)
(* One live transfer from end to end: the sending daemon, the signaling    *)
(* sockets, the WebRTC peers and the data channel, and the recipient, who  *)
(* is another daemon or a browser.                                         *)
(***************************************************************************)
EXTENDS LiveSender, AgentRecipient, BrowserRecipient

vars == <<wire, senderVars, agentVars, browserVars>>

Init == WireInit /\ SenderInit /\ AgentInit /\ BrowserInit

WireNext ==
    \/ \E side \in Sides, a \in Attempts : Gather(side, a) \/ PeerCloses(side, a)
    \/ \E a \in Attempts : OpenChannel(a) \/ Cut(a)

\* An assumption about the people who resume a transfer, nothing the code enforces: they do it when
\* everything the last attempt left behind has been dealt with.  A resume on top of an attempt still
\* at work is the subject of JobRuntime and ChunkStream.
Calm ==
    /\ \A box \in DOMAIN mail : mail[box] = <<>>
    /\ \A a \in Attempts :
          /\ stream[a].pc \notin {"waiting", "streaming"} /\ net[a].frames = <<>>
          /\ recv[a].pc \in {"none", "done"}

Resume == Calm /\ handleResumeTransfer

Next ==
    \/ WireNext    /\ UNCHANGED <<senderVars, agentVars, browserVars>>
    \/ (SenderNext \/ Resume) /\ UNCHANGED <<agentVars, browserVars>>
    \/ AgentNext   /\ UNCHANGED <<senderVars, browserVars>>
    \/ BrowserNext /\ UNCHANGED <<senderVars, agentVars>>

Spec == Init /\ [][Next]_vars

-----------------------------------------------------------------------------
(* Fairness.  Sockets deliver, goroutines and page handlers run, peers     *)
(* gather and connect: as long as one of these can go on, one of them      *)
(* does, and none can go on for ever.  Nothing is owed by the network,     *)
(* which need not break, nor by the people who resume a transfer or open   *)
(* the link.                                                               *)

Owed ==
    \/ /\ \/ \E side \in Sides, a \in Attempts : Gather(side, a) \/ PeerCloses(side, a)
          \/ \E a \in Attempts : OpenChannel(a)
       /\ UNCHANGED <<senderVars, agentVars, browserVars>>
    \/ SenderNext /\ UNCHANGED <<agentVars, browserVars>>
    \/ AgentNext /\ UNCHANGED <<senderVars, browserVars>>
    \/ BrowserNext /\ online /\ UNCHANGED <<senderVars, agentVars>>

FairSpec == Spec /\ WF_vars(Owed)

-----------------------------------------------------------------------------
(* Properties.                                                             *)

Lateness == {"candidate", "start", "run", "loop", "recipient"}
Statuses == {"none", "offered", "accepted", "connecting", "transferring", "retryable"} \cup Terminal

\* Jobs, sessions, goroutines and files have the shape the code gives them; what waits for a
\* description never outgrows the two limits of 64 candidates.
TypeOK ==
    /\ plan \in Plans
    /\ online \in BOOLEAN /\ late \subseteq Lateness /\ touched \in BOOLEAN
    /\ run \in [no : 0 .. MaxRuns, on : BOOLEAN, reads : BOOLEAN] /\ cuts \in 0 .. plan.cuts
    /\ {sjob.status, rjob.status} \subseteq Statuses
    /\ {sjob.progress, rjob.progress, Len(part), Len(file)} \subseteq 0 .. plan.size + 1
    /\ session.att \in 0 .. MaxAttempts /\ session.owner \in 0 .. MaxRuns
    /\ rsession.att \in 0 .. MaxAttempts
    /\ Len(session.pending) <= MaxPending /\ Len(rsession.pending) <= MaxPending
    /\ \A a \in Attempts :
          /\ stream[a].pc \in {"none", "waiting", "streaming", "done", "failed"}
          /\ recv[a].pc \in {"none", "answering", "waiting", "receiving", "done"}
          /\ \A side \in Sides : /\ Len(peers[side][a].held) <= MaxPending
                                 /\ {peers[side][a].added, peers[side][a].left} \subseteq 0 .. plan.gather
          /\ feeds[a] \in 0 .. Len(states)
    /\ imports \subseteq Handlers

Content   == IF plan.kind = "agent" THEN file ELSE saved
Delivered == Content = Source(plan.size)

\* Whatever the recipient saves is the sender's file, and the sender's job is completed only
\* when the recipient has saved it: across cuts, resumed runs and attempts of the loop, with
\* messages left over from earlier attempts (completeTransferJob, commitDestinationNoReplace,
\* completeBrowserReceive).
DeliversSource ==
    /\ Content \in {NoFile, Source(plan.size)}
    /\ sjob.status = "completed" => Delivered

Candidates(box, a) == Cardinality({i \in DOMAIN mail[box] : mail[box][i] = Message("ice", a)})

\* The candidates of the other side's peer that have reached this side, in whatever state.
Arrived(side, a) ==
    LET peer == peers[side][a]
    IN  peer.added + CountOf(a, peer.held)
          + IF side = "sender"
              THEN CountOf(a, session.pending) + Candidates("run", a) + Candidates("loop", a)
              ELSE CountOf(a, rsession.pending) + Candidates("recipient", a)

\* A candidate that was sent is added, held by the peer or the session, or still on its way,
\* as long as both peers live and the job is not over: however offer, answer and candidates
\* overtake one another, in the first attempt and in one that is resumed when nothing of the last
\* is at work (handleWebRTCICE, flushLiveSessionICE, flushPendingICE).  Left out are the candidates for a browser page,
\* which drops them while its key is being imported.
NoCandidateLost ==
    \A a \in Attempts, side \in Sides :
        LET from == peers[Other(side)][a]
        IN  /\ from.state \notin {"none", "closed"} /\ peers[side][a].state # "closed"
            /\ IF side = "sender" THEN sjob.status \notin Terminal
               ELSE plan.kind = "agent" /\ rjob.status \notin Terminal
            => from.left + Arrived(side, a) = plan.gather

\* Nothing went wrong that the code cannot mend: the connection held, no closed peer refused a
\* late candidate, no start was refused because the job's other goroutine was faster, and the
\* recipient's policy did not deny the offer.
Undisturbed ==
    /\ cuts = 0 /\ late \cap {"candidate", "start"} = {}
    /\ ~(plan.kind = "agent" /\ rjob.status = "none" /\ sjob.status = "failed")

\* A transfer that is offered to a connected recipient, with no more candidates than the limit,
\* is delivered and both ends know it, unless it is disturbed: by a cut, by a denial, by a
\* candidate for a peer that has closed, or by the two goroutines of one end starting the job at
\* the same time, which fails a healthy transfer (JobRuntime's FailedForCause).  An empty file to
\* a browser is left to EmptyReachesBrowser.
UndisturbedDelivers ==
    /\ run.no > 0 /\ online /\ plan.gather \in 1 .. MaxPending
    /\ plan.size > 0 \/ plan.kind = "agent"
    ~> (Delivered /\ sjob.status = "completed") \/ ~Undisturbed

\* A broken connection to an agent ends the attempt at both ends: both goroutines return, and
\* with them the run that owns the session, so that a resume finds nothing of it at work
\* (PeerCloses, RunReadsDone, closeLiveSessionIfCurrent).  The run of a sender that has sent its
\* last frame goes on when the receiver's start was refused: that goroutine returns without a word.
CutEndsAttempt ==
    plan.kind = "agent" /\ (\E a \in Attempts : net[a].cut)
    ~> \A a \in Attempts : net[a].cut => /\ stream[a].pc \notin {"waiting", "streaming"}
                                         /\ recv[a].pc \notin {"waiting", "receiving"}
                                         /\ run.on /\ "start" \notin late => session.att # a

InFlight(a) == Len(SelectSeq(net[a].frames, LAMBDA f : f.type = "chunk"))

\* A sender that knows the receiver's durable offset streams from there: while both are at work
\* and the send job's progress is the receiver's, the next chunk the receiver wants is the one
\* the sender sends next or one in flight (handleTransferRetryable, liveSenderResumeManifest,
\* liveReceiverResumeState).  A transfer where a start was refused is left out.
EndsAgreeOnOffset ==
    "start" \notin late => \A a \in Attempts :
        /\ stream[a].pc = "streaming" /\ recv[a].pc = "receiving" /\ ~net[a].cut
        /\ sjob.progress = recv[a].progress
        => stream[a].next = recv[a].progress + InFlight(a)

\* An empty file reaches a browser like any other: its job does not fail while the connection
\* holds (EncodeManifestFrame, completeBrowserReceive).
EmptyReachesBrowser ==
    plan.kind = "browser" /\ plan.size = 0 /\ cuts = 0 => sjob.status # "failed"
=============================================================================
