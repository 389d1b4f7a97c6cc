----------------------------- MODULE Signaling -----------------------------
(***************************************************************************)
(* The signaling server: one handler goroutine per WebSocket               *)
(* (handleSignalingWebSocket), the RoomManager that maps agents, devices   *)
(* and transfers to peers, and the PresenceRegistry.  The two maps have    *)
(* locks of their own, so a handler registers and attaches in two steps,   *)
(* detaches and goes offline in two steps, and a routed envelope is looked *)
(* up, recorded and written in separate steps, while other handlers run.   *)
(*                                                                         *)
(* An always-on agent socket sits in the room under AlwaysOn, a socket     *)
(* opened with a ticket under its transfer.  The time stamps of presence,  *)
(* payloads, and ping and pong are left out.  The server installs no       *)
(* disconnect callback, so the active map is only written.                 *)
(***************************************************************************)
EXTENDS Naturals, FiniteSets

CONSTANTS
    Conns,      \* WebSocket connections, each used once
    Agents, Devices, Transfers,
    AlwaysOn,   \* the scope of an authenticated agent socket
    None,
    Identity,   \* per connection: [agent, device, scope, browser]
    Parties,    \* per transfer: [from, to, target]; to is the browser's id for a link
    MaxRouting  \* bound: envelopes handled at a time

Scopes == Transfers \cup {AlwaysOn}
Kinds  == {"offer", "answer", "progress"}
Slots  == Scopes \X Agents \X Devices

Identities == [agent : Agents, device : Devices, scope : Scopes, browser : BOOLEAN]
PartySet   == [from : Agents, to : Agents, target : {"agent", "browser_link"}]

ASSUME ScopeAssumption    == AlwaysOn \notin Transfers /\ None \notin Conns
ASSUME BoundAssumption    == MaxRouting \in Nat
ASSUME IdentityAssumption == Identity \in [Conns -> Identities] /\ Parties \in [Transfers -> PartySet]

\* A ticket makes its holder the sender of the transfer, or the browser it is for
\* (handleAgentWebSocket, handleBrowserReceiverWebSocket).
ASSUME TicketAssumption ==
    \A c \in Conns :
        LET i == Identity[c]
        IN  i.scope # AlwaysOn =>
                i.agent = IF i.browser THEN Parties[i.scope].to ELSE Parties[i.scope].from

Envelopes == [transfer : Transfers, from : Agents, to : Agents, kind : Kinds]

VARIABLES
    presence, \* the devices PresenceRegistry holds
    rooms,    \* RoomManager.peers and transferPeers: the connection in each slot
    active,   \* RoomManager.active: per transfer, the agents recorded
    usable,   \* per transfer: VerifyTransferUsable succeeds
    handler   \* per connection: the locals of its goroutine

vars == <<presence, rooms, active, usable, handler>>

NoEnvelope == None

Init ==
    /\ presence = {}
    /\ rooms = [s \in Slots |-> None]
    /\ active = [t \in Transfers |-> {}]
    /\ usable = [t \in Transfers |-> TRUE]
    /\ handler = [c \in Conns |-> [pc |-> "idle", envelope |-> NoEnvelope, peer |-> None]]

Device(c) == <<Identity[c].agent, Identity[c].device>>
Slot(c)   == <<Identity[c].scope, Identity[c].agent, Identity[c].device>>

Goto(c, pc) == handler' = [handler EXCEPT ![c].pc = pc]

----------------------------------------------------------------------------
(* A connection comes                                                      *)

\* The ticket or token was good, readHello returned: presence.Register.
Register(c) ==
    /\ handler[c].pc = "idle"
    /\ Identity[c].scope # AlwaysOn => usable[Identity[c].scope]
    /\ presence' = presence \cup {Device(c)}
    /\ Goto(c, "registered")
    /\ UNCHANGED <<rooms, active, usable>>

\* Seeded fault: a ticket socket is attached as if it were always on.
AttachUnscoped(c) ==
    /\ handler[c].pc = "registered"
    /\ rooms' = [rooms EXCEPT ![<<AlwaysOn, Identity[c].agent, Identity[c].device>>] = c]
    /\ Goto(c, "serving")
    /\ UNCHANGED <<presence, active, usable>>

\* AttachPeer or AttachTransferPeer: the newest connection of a device wins.
Attach(c) ==
    /\ handler[c].pc = "registered"
    /\ rooms' = [rooms EXCEPT ![Slot(c)] = c]
    /\ Goto(c, "serving")
    /\ UNCHANGED <<presence, active, usable>>

----------------------------------------------------------------------------
(* An envelope is routed                                                   *)

\* authorizeTransferRole
authorizeTransferRole(kind, fromSender) ==
    \/ kind = "offer" /\ fromSender
    \/ kind = "answer" /\ ~fromSender
    \/ kind = "progress"

\* The targets a ticket holder may address.
allowsTarget(c, agent) ==
    LET p == Parties[Identity[c].scope]
    IN  agent = p.to \/ (Identity[c].browser /\ agent = p.from)

\* authorizeOutboundEnvelope: a ticket holder speaks in its transfer to its
\* counterpart, an agent in the transfers it is a party of, each in its role.
authorizeOutboundEnvelope(c, e) ==
    LET i == Identity[c]
        p == Parties[e.transfer]
        sending   == i.agent = p.from /\ e.to = p.to
        receiving == i.agent = p.to /\ e.to = p.from
    IN  /\ e.from = i.agent
        /\ usable[e.transfer]
        /\ IF i.scope # AlwaysOn
           THEN /\ e.transfer = i.scope /\ allowsTarget(c, e.to)
                /\ p.target = "agent" /\ sending => authorizeTransferRole(e.kind, TRUE)
           ELSE /\ p.target = "agent"
                /\ \/ sending /\ authorizeTransferRole(e.kind, TRUE)
                   \/ ~sending /\ receiving /\ authorizeTransferRole(e.kind, FALSE)

Routing(c) == handler[c].envelope # NoEnvelope

\* An envelope of a usable transfer is read.
Receive(c, e) ==
    /\ handler[c].pc = "serving" /\ usable[e.transfer]
    /\ Cardinality({o \in Conns : Routing(o)}) < MaxRouting
    /\ handler' = [handler EXCEPT ![c] = [pc |-> "authorizing", envelope |-> e, peer |-> None]]
    /\ UNCHANGED <<presence, rooms, active, usable>>

\* Any envelope of a transfer that is over ends the connection, always-on or not.
ReceiveForDead(c, t) ==
    /\ handler[c].pc = "serving" /\ ~usable[t]
    /\ Goto(c, "detaching")
    /\ UNCHANGED <<presence, rooms, active, usable>>

Back(c) == [handler EXCEPT ![c] = [pc |-> "serving", envelope |-> NoEnvelope, peer |-> None]]

\* The sender is told and the handler reads on.
Refuse(c) ==
    /\ handler[c].pc = "authorizing" /\ ~authorizeOutboundEnvelope(c, handler[c].envelope)
    /\ handler' = Back(c)
    /\ UNCHANGED <<presence, rooms, active, usable>>

Authorize(c) ==
    /\ handler[c].pc = "authorizing" /\ authorizeOutboundEnvelope(c, handler[c].envelope)
    /\ Goto(c, "routing")
    /\ UNCHANGED <<presence, rooms, active, usable>>

Peers(scope, agent) == {rooms[<<scope, agent, d>>] : d \in Devices} \ {None}

\* Seeded fault: anybody in the transfer's room will do.
firstTransferPeerAnyAgent(c) ==
    LET e == handler[c].envelope
    IN  /\ handler[c].pc = "routing"
        /\ \E to \in Agents : \E p \in Peers(e.transfer, to) :
              handler' = [handler EXCEPT ![c].pc = "tracking", ![c].peer = p]
        /\ UNCHANGED <<presence, rooms, active, usable>>

\* Route, first look-up: any device of the target in the transfer's room.
firstTransferPeer(c) ==
    LET e == handler[c].envelope
    IN  /\ handler[c].pc = "routing"
        /\ \E p \in Peers(e.transfer, e.to) :
              handler' = [handler EXCEPT ![c].pc = "tracking", ![c].peer = p]
        /\ UNCHANGED <<presence, rooms, active, usable>>

noTransferPeer(c) ==
    LET e == handler[c].envelope
    IN  /\ handler[c].pc = "routing" /\ Peers(e.transfer, e.to) = {}
        /\ Goto(c, "falling back")
        /\ UNCHANGED <<presence, rooms, active, usable>>

\* Route, second look-up: any always-on socket of the target.
firstPeer(c) ==
    LET e == handler[c].envelope
    IN  /\ handler[c].pc = "falling back"
        /\ \E p \in Peers(AlwaysOn, e.to) :
              handler' = [handler EXCEPT ![c].pc = "tracking", ![c].peer = p]
        /\ UNCHANGED <<presence, rooms, active, usable>>

\* ErrAgentOffline goes back to the sender.
AgentOffline(c) ==
    /\ handler[c].pc = "falling back" /\ Peers(AlwaysOn, handler[c].envelope.to) = {}
    /\ handler' = Back(c)
    /\ UNCHANGED <<presence, rooms, active, usable>>

trackActive(c) ==
    LET e == handler[c].envelope
    IN  /\ handler[c].pc = "tracking"
        /\ active' = [active EXCEPT ![e.transfer] = @ \cup {e.from, e.to}]
        /\ Goto(c, "sending")
        /\ UNCHANGED <<presence, rooms, usable>>

\* The peer's socket takes the envelope, or is gone and the sender is told.
Send(c) ==
    /\ handler[c].pc = "sending"
    /\ handler' = Back(c)
    /\ UNCHANGED <<presence, rooms, active, usable>>

----------------------------------------------------------------------------
(* A connection goes                                                       *)

\* The client closed the socket or it broke: ReadJSON fails.
Drop(c) ==
    /\ handler[c].pc = "serving"
    /\ Goto(c, "detaching")
    /\ UNCHANGED <<presence, rooms, active, usable>>

\* Seeded fault: whoever is in the device's slot is removed.
detachLockedAnyPeer(c) ==
    LET left == [s \in Slots |-> IF s = Slot(c) THEN None ELSE rooms[s]]
    IN  /\ handler[c].pc = "detaching"
        /\ rooms' = left
        /\ active' = active
        /\ Goto(c, IF \A s \in Slots : <<s[2], s[3]>> = Device(c) => left[s] = None
                   THEN "leaving" ELSE "closed")
        /\ UNCHANGED <<presence, usable>>

\* Seeded fault: the rooms of the transfers are not searched.
detachLockedForgetsRooms(c) ==
    /\ handler[c].pc = "detaching"
    /\ rooms' = [s \in Slots |-> IF rooms[s] = c /\ s[1] = AlwaysOn THEN None ELSE rooms[s]]
    /\ Goto(c, "leaving")
    /\ UNCHANGED <<presence, active, usable>>

\* Seeded fault: presence is not cleared when the device's last socket goes.
detachLockedKeepsPresence(c) ==
    /\ handler[c].pc = "detaching"
    /\ rooms' = [s \in Slots |-> IF rooms[s] = c THEN None ELSE rooms[s]]
    /\ Goto(c, "closed")
    /\ UNCHANGED <<presence, active, usable>>

\* detach under the lock: only this connection's own slots are freed; the agent's
\* transfers are forgotten when that was its last one.
detachLocked(c) ==
    LET left    == [s \in Slots |-> IF rooms[s] = c THEN None ELSE rooms[s]]
        removed == left # rooms
    IN  /\ handler[c].pc = "detaching"
        /\ rooms' = left
        /\ active' = IF removed /\ \A s \in Slots : s[2] = Identity[c].agent => left[s] = None
                     THEN [t \in Transfers |-> IF Identity[c].agent \in active[t] THEN {}
                                               ELSE active[t]]
                     ELSE active
        /\ Goto(c, IF removed /\ \A s \in Slots : <<s[2], s[3]>> = Device(c) => left[s] = None
                   THEN "leaving" ELSE "closed")
        /\ UNCHANGED <<presence, usable>>

\* The lock is released; then presence.Disconnect, on what was seen under it.
Disconnect(c) ==
    /\ handler[c].pc = "leaving"
    /\ presence' = presence \ {Device(c)}
    /\ Goto(c, "closed")
    /\ UNCHANGED <<rooms, active, usable>>

\* The transfer ends or expires in the session service.
Retire(t) ==
    /\ usable[t]
    /\ usable' = [usable EXCEPT ![t] = FALSE]
    /\ UNCHANGED <<presence, rooms, active, handler>>

----------------------------------------------------------------------------
Step(c) ==
    \/ Attach(c) \/ Refuse(c) \/ Authorize(c) \/ firstTransferPeer(c) \/ noTransferPeer(c)
    \/ firstPeer(c) \/ AgentOffline(c) \/ trackActive(c) \/ Send(c)
    \/ detachLocked(c) \/ Disconnect(c)

Next ==
    \/ \E c \in Conns : Register(c) \/ Drop(c) \/ Step(c)
    \/ \E c \in Conns, e \in Envelopes : Receive(c, e)
    \/ \E c \in Conns, t \in Transfers : ReceiveForDead(c, t)
    \/ \E t \in Transfers : Retire(t)

Spec == Init /\ [][Next]_vars

----------------------------------------------------------------------------
(* Properties                                                              *)

HandlerState ==
    [pc : {"idle", "registered", "serving", "authorizing", "routing", "falling back", "tracking",
           "sending", "detaching", "leaving", "closed"},
     envelope : Envelopes \cup {NoEnvelope}, peer : Conns \cup {None}]

\* The type of every variable; a connection sits in no slot but its own.
TypeOK ==
    /\ presence \subseteq Agents \X Devices
    /\ rooms \in [Slots -> Conns \cup {None}]
    /\ \A s \in Slots : rooms[s] # None => s = Slot(rooms[s])
    /\ active \in [Transfers -> SUBSET Agents]
    /\ usable \in [Transfers -> BOOLEAN]
    /\ handler \in [Conns -> HandlerState]

Attached(c) == handler[c].pc \notin {"idle", "registered", "leaving", "closed"}

\* No slot of a room points at a connection whose handler has left it, so a
\* look-up never finds a peer that detached before.
RoomsHoldLivePeers == \A s \in Slots : rooms[s] # None => Attached(rooms[s])

\* The late detach of an old connection of a device takes neither the slot nor
\* the reachability of the newer one: a slot is freed only by its own handler.
NewerSurvives ==
    [][\A s \in Slots :
          rooms[s] # None /\ rooms'[s] = None => handler[rooms[s]].pc = "detaching"]_vars

\* A device none of whose handlers is running is not shown as present.
NoGhosts ==
    \A d \in presence : \E c \in Conns : Device(c) = d /\ handler[c].pc \notin {"idle", "closed"}

\* What is about to be written to a socket was said by one party of its transfer
\* to the other, and a socket opened for a transfer only hears of that one.
Isolation ==
    \A c \in Conns :
        handler[c].pc \in {"tracking", "sending"} =>
            LET e == handler[c].envelope
                i == Identity[handler[c].peer]
            IN  /\ i.agent = e.to /\ i.scope \in {AlwaysOn, e.transfer}
                /\ {e.from, e.to} \subseteq {Parties[e.transfer].from, Parties[e.transfer].to}

\* An attached socket that is its device's current one keeps the device present.
PresenceTellsTruth == \A c \in Conns : Attached(c) /\ rooms[Slot(c)] = c => Device(c) \in presence
=============================================================================
