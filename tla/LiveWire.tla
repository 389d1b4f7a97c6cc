------------------------------ MODULE LiveWire ------------------------------
(***************************************************************************)
(* What the two ends of a live transfer share: the signaling sockets, one  *)
(* pair of WebRTC peers per attempt and the data channel between them.     *)
(*                                                                         *)
(* A signaling socket delivers in order.  The sending daemon reads two of  *)
(* them: the socket of the RunTransfer in progress and the one of the      *)
(* always-on loop; the server routes to the run while it is connected.     *)
(*                                                                         *)
(* A peer trickles its candidates from the moment it has a local           *)
(* description, in its own goroutine: they may overtake the offer or the   *)
(* answer they belong to.  A candidate is known by the attempt whose peer  *)
(* gathered it.                                                            *)
(***************************************************************************)
EXTENDS Naturals, Sequences, FiniteSets

CONSTANTS
    Plans,       \* the transfers: who receives, the file's chunks, the candidates per peer,
                 \* and how often the connection breaks (a bound)
    MaxPending,  \* maxPendingLiveICECandidates, maxRemotePendingICECandidates
    MaxRuns,     \* bound: RunTransfer goroutines, the first and the resumed ones
    MaxAttempts  \* bound: pairs of peers

ASSUME PlanAssumption  == Plans \subseteq [kind : {"agent", "browser"}, size : Nat, gather : Nat,
                                         cuts : Nat]
ASSUME BoundAssumption == {MaxPending, MaxRuns, MaxAttempts} \subseteq Nat

Attempts == 1 .. MaxAttempts
Sides    == {"sender", "recipient"}
Other(side) == IF side = "sender" THEN "recipient" ELSE "sender"

VARIABLES
    plan,    \* the transfer, one of Plans
    online,  \* the recipient's signaling socket is connected
    run,     \* the RunTransfer in progress: its number, whether its socket is open, whether
             \* it has made its offer and reads
    mail,    \* per socket: the messages not yet read
    peers,   \* per side and attempt: the RemoteWebRTCPeer, or the browser's peer
    net,     \* per attempt: the data channel
    cuts,    \* broken connections so far
    late     \* what came too late: a "candidate" that a closed peer refused, a "start" that the
             \* JobManager refused, and the sockets whose next message says "started" and was
             \* there when a goroutine of this side started the job

wire == <<plan, online, run, mail, peers, net, cuts, late>>

-----------------------------------------------------------------------------
(* Signaling.                                                              *)

Message(type, n) == [type |-> type, n |-> n]

\* Route.  A message to an agent or a browser that is not connected is answered with an error
\* envelope, which every reader ignores.
ToRecipient(m, out) == IF online THEN [m EXCEPT !.recipient = @ \o out] ELSE m

\* Route prefers the socket of the transfer, here at once when the run returns: that the server
\* notices a closed socket later is module Signaling's subject.
ToSender(m, out) == [m EXCEPT ![IF run.on THEN "run" ELSE "loop"] = @ \o out]

Deliver(m, side, out) == IF side = "sender" THEN ToRecipient(m, out) ELSE ToSender(m, out)

\* The send function a goroutine or callback was given writes to the socket it was made for:
\* the loop's (0), or that of a run, which is closed when the run returns.
CanSend(via) == via = 0 \/ (run.on /\ run.no = via)

Read(box, type) == mail[box] # <<>> /\ Head(mail[box]).type = type

-----------------------------------------------------------------------------
(* Peers.  "making" and "answering": the local description is set and the  *)
(* handler has still to send it.                                           *)

NoPeer == [state |-> "none", via |-> 0, held |-> <<>>, added |-> 0, left |-> 0]

Described(peer) == peer.state \in {"answering", "stable"}

CountOf(a, pending) == Cardinality({i \in DOMAIN pending : pending[i] = a})

\* Nothing a closed peer knew matters any more.
Close(peer) == IF peer.state = "none" THEN peer ELSE [NoPeer EXCEPT !.state = "closed"]

CloseAt(p, side, a) == IF a = 0 THEN p ELSE [p EXCEPT ![side][a] = Close(@)]

\* Seeded fault: one candidate too many is kept.
FullLate(pending) == Len(pending) > MaxPending

Full(pending) == Len(pending) >= MaxPending

\* peer belongs to attempt a, the candidate to attempt c: only a matching one is of use.
AddICECandidate(peer, a, c) ==
    CASE Described(peer)       -> [peer EXCEPT !.added = IF c = a THEN @ + 1 ELSE @]
      [] peer.state = "closed" -> peer
      [] OTHER                 -> IF Full(peer.held) THEN Close(peer)
                                  ELSE [peer EXCEPT !.held = Append(@, c)]

\* The error AddICECandidate returns; whether a closed connection refuses is the library's.
AddRefusals(peer) ==
    CASE Described(peer)       -> {FALSE}
      [] peer.state = "closed" -> BOOLEAN
      [] OTHER                 -> {Full(peer.held)}

\* SetRemoteDescription, then flushPendingICE.
flushPendingICE(peer, a, state) ==
    [peer EXCEPT !.state = state, !.added = @ + CountOf(a, peer.held), !.held = <<>>]

\* OnICECandidate: the next candidate goes out, if the socket is still there.
Gather(side, a) ==
    LET peer == peers[side][a]
    IN  /\ peer.state \in {"making", "offered", "answering", "stable"} /\ peer.left > 0
        /\ peers' = [peers EXCEPT ![side][a].left = @ - 1]
        /\ mail' = IF CanSend(peer.via) THEN Deliver(mail, side, <<Message("ice", a)>>) ELSE mail
        /\ UNCHANGED <<plan, online, run, net, cuts, late>>

-----------------------------------------------------------------------------
(* The connection.                                                         *)

NoChannel == [open |-> FALSE, cut |-> FALSE, frames |-> <<>>]

\* The channel opens when both ends know each other's description and one can reach the other.
OpenChannel(a) ==
    /\ \A side \in Sides : peers[side][a].state = "stable"
    /\ \E side \in Sides : peers[side][a].added > 0
    /\ ~net[a].open /\ ~net[a].cut
    /\ net' = [net EXCEPT ![a].open = TRUE]
    /\ UNCHANGED <<plan, online, run, mail, peers, cuts, late>>

\* The connection breaks: some of what is in flight is lost, and all that is sent later.
Cut(a) ==
    /\ cuts < plan.cuts /\ cuts' = cuts + 1
    /\ \A side \in Sides : peers[side][a].state = "stable"
    /\ ~net[a].cut
    /\ \E k \in 0 .. Len(net[a].frames) :
          net' = [net EXCEPT ![a].cut = TRUE, ![a].frames = SubSeq(@, 1, k)]
    /\ UNCHANGED <<plan, online, run, mail, peers, late>>

\* Seeded fault: only the offering peer watches the state of its connection.
PeerClosesOffering(side, a) ==
    /\ side = "sender" /\ peers[side][a].state = "stable"
    /\ net[a].cut \/ peers[Other(side)][a].state = "closed"
    /\ peers' = CloseAt(peers, side, a)
    /\ UNCHANGED <<plan, online, run, mail, net, cuts, late>>

\* OnConnectionStateChange, OnClose: an agent's peer closes when the connection does.
PeerCloses(side, a) ==
    /\ side = "recipient" => plan.kind = "agent"
    /\ peers[side][a].state = "stable"
    /\ net[a].cut \/ peers[Other(side)][a].state = "closed"
    /\ peers' = CloseAt(peers, side, a)
    /\ UNCHANGED <<plan, online, run, mail, net, cuts, late>>

Transmit(a, frame) ==
    net' = IF net[a].cut THEN net ELSE [net EXCEPT ![a].frames = Append(@, frame)]

-----------------------------------------------------------------------------
(* Frames.  The numbers of a frame are encoded as JSON with omitempty: a   *)
(* zero is not there.                                                      *)

Source(size) == [i \in 1 .. size |-> i]

omitempty(numbers) == [k \in {k \in DOMAIN numbers : numbers[k] # 0} |-> numbers[k]]

EncodeFrame(seq, data) ==
    [type |-> "chunk", numbers |-> omitempty([seq |-> seq, offset |-> seq]), data |-> data]

EncodeManifestFrame(total, count, content) ==
    [type |-> "manifest", numbers |-> omitempty([total_bytes |-> total, chunk_count |-> count]),
     data |-> content]

\* A missing number is zero: to Go's decoder, and to the browser where it says "?? 0".
Number(frame, k) == IF k \in DOMAIN frame.numbers THEN frame.numbers[k] ELSE 0

-----------------------------------------------------------------------------
(* Jobs.  The calls of a helper are one step here, the interleavings of    *)
(* module JobRuntime are left to it, but for one: the goroutine of an      *)
(* attempt and the reader of the other end's "started" start the same job. *)

Terminal == {"completed", "failed", "cancelled"}

markTransferStarted(status) ==
    IF status \in {"offered", "accepted", "retryable", "connecting"} THEN "transferring" ELSE status

CannotStart(status) == status \in Terminal \ {"completed"}

\* Whether the start is refused.  Who has read the job before another goroutine moved it calls
\* MarkTransferring on a job that is not connecting any more.
StartRefusals(status, raced) ==
    IF CannotStart(status) THEN {TRUE}
    ELSE IF raced /\ status \in {"transferring", "retryable", "completed"} THEN BOOLEAN ELSE {FALSE}

RefusedStart(status, refused) == IF refused /\ ~CannotStart(status) THEN {"start"} ELSE {}

markJobRetryableIfMutable(status) == IF status \in Terminal THEN status ELSE "retryable"

failTransferJob(status) == IF status \in Terminal THEN status ELSE "failed"

WireInit ==
    /\ plan \in Plans
    /\ online \in IF plan.kind = "agent" THEN BOOLEAN ELSE {FALSE}
    /\ run = [no |-> 0, on |-> FALSE, reads |-> FALSE]
    /\ mail = [run |-> <<>>, loop |-> <<>>, recipient |-> <<>>]
    /\ peers = [side \in Sides |-> [a \in Attempts |-> NoPeer]]
    /\ net = [a \in Attempts |-> NoChannel]
    /\ cuts = 0 /\ late = {}
=============================================================================
