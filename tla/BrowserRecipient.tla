-------------------------- MODULE BrowserRecipient --------------------------
(***************************************************************************)
(* The recipient page in a browser.  Its handlers are asynchronous: while  *)
(* one waits for the key to be imported, the next message is handled, so   *)
(* that the opening of the socket and the first offer may each make a      *)
(* receive state, of which the later replaces the earlier.                 *)
(***************************************************************************)
EXTENDS LiveWire

VARIABLES
    imports,  \* handlers of prepareBrowserReceive that wait for importKey
    states,   \* the receive states made, in order; the last is receiveState
    feeds,    \* per attempt: the state its data channel writes to
    saved     \* what was offered for download

browserVars == <<imports, states, feeds, saved>>

Handlers   == {"open", "offer"}
NotSaved   == <<0>>
FreshState == [peer |-> 0, pending |-> <<>>, chunks |-> <<>>, next |-> 0]
Current    == Len(states)

BrowserInit ==
    /\ imports = {} /\ states = <<>> /\ saved = NotSaved
    /\ feeds = [a \in Attempts |-> 0]

Answer(type, n) == ToSender([mail EXCEPT !.recipient = Tail(@)], <<Message(type, n)>>)

BrowserReads(type) == plan.kind = "browser" /\ Read("recipient", type)

\* The visitor consents; the socket opens and asks for the key before it accepts.  The link is
\* handed out by the request that starts the run, which is connected by the time it is used.
connectReceiver ==
    /\ plan.kind = "browser" /\ ~online /\ run.no > 0
    /\ online' = TRUE /\ imports' = {"open"}
    /\ UNCHANGED <<plan, run, mail, peers, net, cuts, late, states, feeds, saved>>

BrowserOffer ==
    /\ BrowserReads("offer")
    /\ IF Current > 0
         THEN mail' = Answer("accepted", 0) /\ UNCHANGED imports
         ELSE /\ mail' = [mail EXCEPT !.recipient = Tail(@)]
              /\ imports' = imports \cup {"offer"}
    /\ UNCHANGED <<plan, online, run, peers, net, cuts, late, states, feeds, saved>>

\* importKey resolves: a new receive state, then the acceptance.
prepareBrowserReceive(handler) ==
    /\ handler \in imports
    /\ imports' = imports \ {handler}
    /\ states' = Append(states, FreshState)
    /\ mail' = ToSender(mail, <<Message("accepted", 0)>>)
    /\ UNCHANGED <<plan, online, run, peers, net, cuts, late, feeds, saved>>

\* A new peer replaces the old one; what was received before stays in the state.
acceptWebRTCOffer ==
    LET a   == Head(mail.recipient).n
        now == states[Current]
    IN  /\ BrowserReads("webrtc_offer")
        /\ peers' = [CloseAt(peers, "recipient", now.peer) EXCEPT !["recipient"][a] =
                        [NoPeer EXCEPT !.state = "answering", !.left = plan.gather,
                                       !.added = CountOf(a, now.pending)]]
        /\ states' = [states EXCEPT ![Current].peer = a, ![Current].pending = <<>>]
        /\ feeds' = [feeds EXCEPT ![a] = Current]
        /\ mail' = [mail EXCEPT !.recipient = Tail(@)]
        /\ UNCHANGED <<plan, online, run, net, cuts, late, imports, saved>>

BrowserAnswer(a) ==
    /\ plan.kind = "browser" /\ peers["recipient"][a].state = "answering"
    /\ peers' = [peers EXCEPT !["recipient"][a].state = "stable"]
    /\ mail' = ToSender(mail, <<Message("answer", a)>>)
    /\ UNCHANGED <<plan, online, run, net, cuts, late, browserVars>>

\* A candidate goes to the current state: to its peer, or kept for it.  Without a state it is lost.
BrowserICE ==
    LET c   == Head(mail.recipient).n
        now == states[Current]
    IN  /\ BrowserReads("ice")
        /\ mail' = [mail EXCEPT !.recipient = Tail(@)]
        /\ CASE Current = 0 -> UNCHANGED <<peers, states>>
             [] Current > 0 /\ now.peer # 0 ->
                  /\ peers' = [peers EXCEPT !["recipient"][now.peer] =
                                  AddICECandidate(@, now.peer, c)]
                  /\ UNCHANGED states
             [] Current > 0 /\ now.peer = 0 ->
                  /\ states' = [states EXCEPT ![Current].pending = Append(@, c)]
                  /\ UNCHANGED peers
        /\ UNCHANGED <<plan, online, run, net, cuts, late, imports, feeds, saved>>

\* Everything else the sender says is only shown.
BrowserLogs ==
    /\ \E type \in {"started", "retryable", "failed"} : BrowserReads(type)
    /\ mail' = [mail EXCEPT !.recipient = Tail(@)]
    /\ UNCHANGED <<plan, online, run, peers, net, cuts, late, browserVars>>

-----------------------------------------------------------------------------
(* Frames, one at a time through the state's messageQueue.                 *)

Queued(a) ==
    /\ plan.kind = "browser" /\ feeds[a] # 0 /\ net[a].frames # <<>>
    /\ net' = [net EXCEPT ![a].frames = Tail(@)]

chunkFits(state, frame) ==
    /\ Number(frame, "seq") = state.next
    /\ Number(frame, "offset") = Len(state.chunks)
    /\ Len(state.chunks) + Len(frame.data) <= plan.size

\* total_bytes and chunk_count are read without a default: a missing one equals nothing.
manifestMatches(state, frame) ==
    /\ {"total_bytes", "chunk_count"} \subseteq DOMAIN frame.numbers
    /\ frame.numbers.total_bytes = Len(state.chunks)
    /\ frame.numbers.chunk_count = state.next
    /\ frame.data = state.chunks

acceptBrowserChunk(a) ==
    LET frame == Head(net[a].frames)
        state == states[feeds[a]]
    IN  /\ Queued(a) /\ frame.type = "chunk" /\ chunkFits(state, frame)
        /\ states' = [states EXCEPT ![feeds[a]].chunks = @ \o frame.data,
                                    ![feeds[a]].next = @ + 1]
        /\ mail' = ToSender(mail, <<Message("progress", Len(state.chunks) + Len(frame.data))>>)
        /\ UNCHANGED <<plan, online, run, peers, cuts, late, imports, feeds, saved>>

completeBrowserReceive(a) ==
    LET frame == Head(net[a].frames)
        state == states[feeds[a]]
    IN  /\ Queued(a) /\ frame.type = "manifest" /\ manifestMatches(state, frame)
        /\ saved' = state.chunks
        /\ mail' = ToSender(mail, <<Message("completed", 0)>>)
        /\ UNCHANGED <<plan, online, run, peers, cuts, late, imports, states, feeds>>

\* A frame that does not fit is reported; the frames after it are looked at all the same.
BrowserRefuses(a) ==
    LET frame == Head(net[a].frames)
        state == states[feeds[a]]
    IN  /\ Queued(a)
        /\ ~IF frame.type = "chunk" THEN chunkFits(state, frame) ELSE manifestMatches(state, frame)
        /\ mail' = ToSender(mail, <<Message("failed", 0)>>)
        /\ UNCHANGED <<plan, online, run, peers, cuts, late, browserVars>>

BrowserNext ==
    \/ connectReceiver \/ BrowserOffer \/ acceptWebRTCOffer \/ BrowserICE \/ BrowserLogs
    \/ \E handler \in Handlers : prepareBrowserReceive(handler)
    \/ \E a \in Attempts :
          BrowserAnswer(a) \/ acceptBrowserChunk(a) \/ completeBrowserReceive(a) \/ BrowserRefuses(a)
=============================================================================
