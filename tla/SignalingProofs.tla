--------------------------- MODULE SignalingProofs ---------------------------
(***************************************************************************)
(* Proofs about the signaling server, for any number of connections,       *)
(* devices, agents and transfers.                                          *)
(*                                                                         *)
(* NoGhosts is not inductive: presence is cleared after the lock of the    *)
(* rooms was released.  PresenceIsHeld names who will clear it.  Isolation *)
(* is decided steps before the envelope is written: Authorized carries the *)
(* verdict from the step that authorizes to the step that sends.           *)
(***************************************************************************)
EXTENDS Signaling, TLAPS

\* Each device shown as present has a connection that has still to attach, sits in a room, or is
\* about to clear the presence.
PresenceIsHeld ==
    \A d \in presence : \E c \in Conns :
        /\ Device(c) = d
        /\ \/ handler[c].pc \in {"registered", "leaving"}
           \/ \E s \in Slots : rooms[s] = c

Busy == {"authorizing", "routing", "falling back", "tracking", "sending"}

\* A handler that deals with an envelope has one.
EnvelopesAtHand == \A c \in Conns : handler[c].pc \in Busy => handler[c].envelope \in Envelopes

InParties(e) == {e.from, e.to} \subseteq {Parties[e.transfer].from, Parties[e.transfer].to}

\* What passed authorizeOutboundEnvelope was said by one party of the transfer to the other.
Authorized ==
    \A c \in Conns :
        handler[c].pc \in Busy \ {"authorizing"} => InParties(handler[c].envelope)

IsFor(p, e) == Identity[p].agent = e.to /\ Identity[p].scope \in {AlwaysOn, e.transfer}

\* The peer that a look-up found was attached for the target, always on or in this transfer.
PeerIsTarget ==
    \A c \in Conns :
        handler[c].pc \in {"tracking", "sending"} => IsFor(handler[c].peer, handler[c].envelope)

Handlers == EnvelopesAtHand /\ Authorized /\ PeerIsTarget

IInv == TypeOK /\ Handlers /\ RoomsHoldLivePeers /\ PresenceIsHeld

----------------------------------------------------------------------------
(* The constants                                                           *)

\* The slot and the device of a connection are slots and devices of the server.
LEMMA SlotType ==
  ASSUME NEW c \in Conns
  PROVE  /\ Slot(c) \in Slots /\ Device(c) \in Agents \X Devices
         /\ Slot(c)[1] = Identity[c].scope /\ Slot(c)[2] = Identity[c].agent
         /\ <<Slot(c)[2], Slot(c)[3]>> = Device(c)
  BY IdentityAssumption DEF Slot, Device, Slots, Scopes, Identities

\* An authorized envelope stays between the parties of its transfer.
LEMMA AuthorizedParties ==
  ASSUME NEW c \in Conns, NEW e \in Envelopes, authorizeOutboundEnvelope(c, e)
  PROVE  InParties(e)
  <1>1. e.from = Identity[c].agent
    BY DEF authorizeOutboundEnvelope
  <1>2. CASE Identity[c].scope # AlwaysOn
    <2>1. e.transfer = Identity[c].scope /\ allowsTarget(c, e.to)
      BY <1>2 DEF authorizeOutboundEnvelope
    <2>2. e.to \in {Parties[e.transfer].to, Parties[e.transfer].from}
      BY <2>1 DEF allowsTarget
    <2>3. e.from \in {Parties[e.transfer].to, Parties[e.transfer].from}
      BY <1>1, <1>2, <2>1, TicketAssumption
    <2> QED
      BY <2>2, <2>3 DEF InParties
  <1>3. CASE Identity[c].scope = AlwaysOn
    BY <1>1, <1>3 DEF authorizeOutboundEnvelope, InParties
  <1> QED
    BY <1>2, <1>3

----------------------------------------------------------------------------
(* One handler moves on                                                    *)

\* The new locals k of handler c are as good as the old ones.
GoodLocals(k) ==
    /\ k \in HandlerState
    /\ k.pc \in Busy => k.envelope \in Envelopes
    /\ k.pc \in Busy \ {"authorizing"} => InParties(k.envelope)
    /\ k.pc \in {"tracking", "sending"} => IsFor(k.peer, k.envelope)

\* Each handler's locals are good, and that is all the invariant says of handlers alone.
LEMMA HandlersAreGood ==
  (handler \in [Conns -> HandlerState] /\ Handlers)
     <=> (handler \in [Conns -> HandlerState] /\ \A c \in Conns : GoodLocals(handler[c]))
  BY DEF Handlers, EnvelopesAtHand, Authorized, PeerIsTarget, GoodLocals

\* A handler whose new locals are good keeps the invariant on handlers.
LEMMA HandlerMoves ==
  ASSUME handler \in [Conns -> HandlerState], Handlers, NEW c \in Conns, NEW k, GoodLocals(k),
         handler' = [handler EXCEPT ![c] = k]
  PROVE  handler' \in [Conns -> HandlerState] /\ Handlers'
  <1>1. handler' \in [Conns -> HandlerState]
    BY DEF GoodLocals
  <1>2. \A o \in Conns : GoodLocals(handler'[o])
    <2>1. \A o \in Conns : GoodLocals(handler[o])
      BY HandlersAreGood
    <2> QED
      BY <2>1
  <1> QED
    BY <1>1, <1>2 DEF Handlers, EnvelopesAtHand, Authorized, PeerIsTarget, GoodLocals

AttachedStates == {"serving", "authorizing", "routing", "falling back", "tracking", "sending",
                   "detaching"}

\* A handler that stays attached disturbs neither the rooms nor the presence.
LEMMA StaysAttached ==
  ASSUME IInv, NEW c \in Conns, NEW k, GoodLocals(k), handler' = [handler EXCEPT ![c] = k],
         handler[c].pc \in AttachedStates, k.pc \in AttachedStates,
         UNCHANGED <<presence, rooms, usable>>, active' \in [Transfers -> SUBSET Agents]
  PROVE  IInv'
  <1>0. TypeOK /\ Handlers /\ RoomsHoldLivePeers /\ PresenceIsHeld /\ handler \in [Conns -> HandlerState]
    BY DEF IInv, TypeOK
  <1>1. handler' \in [Conns -> HandlerState] /\ Handlers'
    BY <1>0, HandlerMoves
  <1>2. TypeOK'
    BY <1>0, <1>1 DEF TypeOK
  <1>3. handler'[c].pc \in AttachedStates /\ \A o \in Conns \ {c} : handler'[o] = handler[o]
    BY <1>0
  <1>4. RoomsHoldLivePeers'
    BY <1>0, <1>3 DEF RoomsHoldLivePeers, Attached, AttachedStates, TypeOK
  <1>5. PresenceIsHeld'
    BY <1>0, <1>3 DEF PresenceIsHeld, AttachedStates
  <1> QED
    BY <1>1, <1>2, <1>4, <1>5 DEF IInv

----------------------------------------------------------------------------
(* The inductive invariant                                                 *)

\* It holds while nobody is connected.
LEMMA InvInit == Init => IInv
  <1> SUFFICES ASSUME Init PROVE IInv
    OBVIOUS
  <1>1. [pc |-> "idle", envelope |-> NoEnvelope, peer |-> None] \in HandlerState
    BY DEF HandlerState
  <1>2. TypeOK
    BY <1>1 DEF Init, TypeOK
  <1>3. Handlers
    BY DEF Init, Handlers, EnvelopesAtHand, Authorized, PeerIsTarget, Busy
  <1>4. RoomsHoldLivePeers /\ PresenceIsHeld
    BY DEF Init, RoomsHoldLivePeers, PresenceIsHeld
  <1> QED
    BY <1>2, <1>3, <1>4 DEF IInv

\* The steps of a handler between its attachment and its detachment.
LEMMA ServingStep ==
  ASSUME IInv, NEW c \in Conns,
         \/ Refuse(c) \/ Authorize(c) \/ firstTransferPeer(c) \/ noTransferPeer(c)
         \/ firstPeer(c) \/ AgentOffline(c) \/ trackActive(c) \/ Send(c) \/ Drop(c)
         \/ \E e \in Envelopes : Receive(c, e)
         \/ \E t \in Transfers : ReceiveForDead(c, t)
  PROVE  IInv'
  <1>0. TypeOK /\ Handlers /\ handler \in [Conns -> HandlerState] /\ handler[c] \in HandlerState
        /\ active \in [Transfers -> SUBSET Agents] /\ rooms \in [Slots -> Conns \cup {None}]
    BY DEF IInv, TypeOK
  <1>g. GoodLocals(handler[c])
    BY <1>0, HandlersAreGood
  <1> DEFINE back == [pc |-> "serving", envelope |-> NoEnvelope, peer |-> None]
             at(pc) == [handler[c] EXCEPT !.pc = pc]
             found(p) == [handler[c] EXCEPT !.pc = "tracking", !.peer = p]
  <1>b. GoodLocals(back) /\ back.pc = "serving"
    BY DEF GoodLocals, HandlerState, Busy
  <1>a. ASSUME NEW pc \in AttachedStates
        PROVE  at(pc) \in HandlerState /\ at(pc).pc = pc /\ at(pc).envelope = handler[c].envelope
               /\ at(pc).peer = handler[c].peer
    BY <1>0 DEF HandlerState, AttachedStates
  <1>d. GoodLocals(at("detaching"))
    BY <1>a DEF GoodLocals, AttachedStates, Busy
  <1>1. CASE Refuse(c) \/ AgentOffline(c) \/ Send(c)
    <2>1. /\ handler' = [handler EXCEPT ![c] = back]
          /\ handler[c].pc \in AttachedStates /\ UNCHANGED <<presence, rooms, active, usable>>
      BY <1>1 DEF Refuse, AgentOffline, Send, Back, AttachedStates
    <2> HIDE DEF back
    <2> QED
      BY <1>0, <1>b, <2>1, StaysAttached DEF AttachedStates
  <1>2. CASE Drop(c) \/ \E t \in Transfers : ReceiveForDead(c, t)
    <2>1. /\ handler' = [handler EXCEPT ![c] = at("detaching")]
          /\ handler[c].pc = "serving" /\ UNCHANGED <<presence, rooms, active, usable>>
      BY <1>0, <1>2 DEF Drop, ReceiveForDead, Goto
    <2>2. at("detaching").pc = "detaching"
      BY <1>a DEF AttachedStates
    <2> HIDE DEF at
    <2> QED
      BY <1>0, <1>d, <2>1, <2>2, StaysAttached DEF AttachedStates
  <1>3. ASSUME NEW e \in Envelopes, Receive(c, e) PROVE IInv'
    <2> DEFINE k == [pc |-> "authorizing", envelope |-> e, peer |-> None]
    <2>1. GoodLocals(k) /\ k.pc = "authorizing"
      BY DEF GoodLocals, HandlerState, Busy
    <2>2. /\ handler' = [handler EXCEPT ![c] = k]
          /\ handler[c].pc = "serving" /\ UNCHANGED <<presence, rooms, active, usable>>
      BY <1>3 DEF Receive
    <2> HIDE DEF k
    <2> QED
      BY <1>0, <2>1, <2>2, StaysAttached DEF AttachedStates
  <1>4. CASE Authorize(c)
    <2>1. /\ handler' = [handler EXCEPT ![c] = at("routing")]
          /\ handler[c].pc = "authorizing" /\ UNCHANGED <<presence, rooms, active, usable>>
          /\ authorizeOutboundEnvelope(c, handler[c].envelope)
      BY <1>0, <1>4 DEF Authorize, Goto
    <2>2. handler[c].envelope \in Envelopes
      BY <1>g, <2>1 DEF GoodLocals, Busy
    <2>3. InParties(handler[c].envelope)
      BY <2>1, <2>2, AuthorizedParties
    <2>4. GoodLocals(at("routing")) /\ at("routing").pc = "routing"
      BY <1>a, <2>2, <2>3 DEF GoodLocals, AttachedStates, Busy
    <2> HIDE DEF at
    <2> QED
      BY <1>0, <2>1, <2>4, StaysAttached DEF AttachedStates
  <1>5. CASE noTransferPeer(c)
    <2>1. /\ handler' = [handler EXCEPT ![c] = at("falling back")]
          /\ handler[c].pc = "routing" /\ UNCHANGED <<presence, rooms, active, usable>>
      BY <1>0, <1>5 DEF noTransferPeer, Goto
    <2>2. GoodLocals(at("falling back")) /\ at("falling back").pc = "falling back"
      BY <1>a, <1>g, <2>1 DEF GoodLocals, AttachedStates, Busy
    <2> HIDE DEF at
    <2> QED
      BY <1>0, <2>1, <2>2, StaysAttached DEF AttachedStates
  <1>6. ASSUME NEW scope \in Scopes,
               handler[c].pc \in {"routing", "falling back"},
               scope \in {AlwaysOn, handler[c].envelope.transfer},
               NEW p \in Peers(scope, handler[c].envelope.to),
               handler' = [handler EXCEPT ![c].pc = "tracking", ![c].peer = p],
               UNCHANGED <<presence, rooms, active, usable>>
        PROVE  IInv'
    <2>1. handler[c].envelope \in Envelopes /\ InParties(handler[c].envelope)
      BY <1>g, <1>6 DEF GoodLocals, Busy
    <2>2. PICK d \in Devices : p = rooms[<<scope, handler[c].envelope.to, d>>] /\ p # None
      BY <1>6 DEF Peers
    <2>3. <<scope, handler[c].envelope.to, d>> \in Slots
      BY <2>1 DEF Slots, Envelopes
    <2>4. p \in Conns /\ Slot(p) = <<scope, handler[c].envelope.to, d>>
      BY <1>0, <2>2, <2>3 DEF TypeOK
    <2>5. IsFor(p, handler[c].envelope)
      BY <1>6, <2>4 DEF Slot, IsFor
    <2>6. GoodLocals(found(p)) /\ found(p).pc = "tracking"
      BY <1>0, <2>1, <2>4, <2>5 DEF GoodLocals, HandlerState
    <2>7. handler' = [handler EXCEPT ![c] = found(p)]
      BY <1>0, <1>6
    <2> HIDE DEF found
    <2> QED
      BY <1>0, <1>6, <2>6, <2>7, StaysAttached DEF AttachedStates
  <1>7. CASE firstTransferPeer(c)
    <2>1. handler[c].pc = "routing" /\ UNCHANGED <<presence, rooms, active, usable>>
      BY <1>7 DEF firstTransferPeer
    <2>2. PICK p \in Peers(handler[c].envelope.transfer, handler[c].envelope.to) :
              handler' = [handler EXCEPT ![c].pc = "tracking", ![c].peer = p]
      BY <1>7 DEF firstTransferPeer
    <2>3. handler[c].envelope.transfer \in Scopes
      BY <1>g, <2>1 DEF GoodLocals, Busy, Envelopes, Scopes
    <2> QED
      BY <1>6, <2>1, <2>2, <2>3
  <1>8. CASE firstPeer(c)
    <2>1. handler[c].pc = "falling back" /\ UNCHANGED <<presence, rooms, active, usable>>
      BY <1>8 DEF firstPeer
    <2>2. PICK p \in Peers(AlwaysOn, handler[c].envelope.to) :
              handler' = [handler EXCEPT ![c].pc = "tracking", ![c].peer = p]
      BY <1>8 DEF firstPeer
    <2>3. AlwaysOn \in Scopes
      BY DEF Scopes
    <2> QED
      BY <1>6, <2>1, <2>2, <2>3
  <1>9. CASE trackActive(c)
    <2>1. /\ handler' = [handler EXCEPT ![c] = at("sending")]
          /\ handler[c].pc = "tracking" /\ UNCHANGED <<presence, rooms, usable>>
      BY <1>0, <1>9 DEF trackActive, Goto
    <2>2. GoodLocals(at("sending")) /\ at("sending").pc = "sending"
      BY <1>a, <1>g, <2>1 DEF GoodLocals, AttachedStates, Busy
    <2>3. handler[c].envelope \in Envelopes
      BY <1>g, <2>1 DEF GoodLocals, Busy
    <2>4. active' \in [Transfers -> SUBSET Agents]
      BY <1>0, <1>9, <2>3 DEF trackActive, Envelopes
    <2> HIDE DEF at
    <2> QED
      BY <1>0, <2>1, <2>2, <2>4, StaysAttached DEF AttachedStates
  <1> QED
    BY <1>1, <1>2, <1>3, <1>4, <1>5, <1>7, <1>8, <1>9

\* A connection registers: its device is present, and it has still to attach.
LEMMA RegisterInv == ASSUME IInv, NEW c \in Conns, Register(c) PROVE IInv'
  <1> DEFINE k == [handler[c] EXCEPT !.pc = "registered"]
  <1>0. TypeOK /\ Handlers /\ RoomsHoldLivePeers /\ PresenceIsHeld
        /\ handler \in [Conns -> HandlerState] /\ handler[c] \in HandlerState
    BY DEF IInv, TypeOK
  <1>1. /\ handler[c].pc = "idle" /\ handler' = [handler EXCEPT ![c] = k]
        /\ presence' = presence \cup {Device(c)} /\ UNCHANGED <<rooms, active, usable>>
    BY <1>0 DEF Register, Goto
  <1>2. GoodLocals(k) /\ k.pc = "registered"
    BY <1>0 DEF GoodLocals, HandlerState, Busy
  <1> HIDE DEF k
  <1>3. handler' \in [Conns -> HandlerState] /\ Handlers'
    BY <1>0, <1>1, <1>2, HandlerMoves
  <1>4. handler'[c].pc = "registered" /\ \A o \in Conns \ {c} : handler'[o] = handler[o]
    BY <1>0, <1>1, <1>2
  <1>5. TypeOK'
    BY <1>0, <1>1, <1>3, SlotType DEF TypeOK
  <1>6. RoomsHoldLivePeers'
    BY <1>0, <1>1, <1>4 DEF RoomsHoldLivePeers, Attached, TypeOK
  <1>7. PresenceIsHeld'
    <2> SUFFICES ASSUME NEW d \in presence'
                 PROVE  \E o \in Conns : /\ Device(o) = d
                                         /\ \/ handler'[o].pc \in {"registered", "leaving"}
                                            \/ \E s \in Slots : rooms'[s] = o
      BY DEF PresenceIsHeld, Device
    <2>1. CASE d = Device(c)
      BY <1>4, <2>1
    <2>2. CASE d \in presence
      <3>1. PICK o \in Conns : /\ Device(o) = d
                               /\ \/ handler[o].pc \in {"registered", "leaving"}
                                  \/ \E s \in Slots : rooms[s] = o
        BY <1>0, <2>2 DEF PresenceIsHeld
      <3> QED
        BY <1>1, <1>4, <3>1
    <2> QED
      BY <1>1, <2>1, <2>2
  <1> QED
    BY <1>3, <1>5, <1>6, <1>7 DEF IInv

\* A connection takes its slot; the one that held it before is of the same device.
LEMMA AttachInv == ASSUME IInv, NEW c \in Conns, Attach(c) PROVE IInv'
  <1> DEFINE k == [handler[c] EXCEPT !.pc = "serving"]
  <1>0. TypeOK /\ Handlers /\ RoomsHoldLivePeers /\ PresenceIsHeld
        /\ handler \in [Conns -> HandlerState] /\ handler[c] \in HandlerState
        /\ rooms \in [Slots -> Conns \cup {None}]
    BY DEF IInv, TypeOK
  <1>s. Slot(c) \in Slots /\ None \notin Conns
    BY SlotType, ScopeAssumption
  <1>1. /\ handler[c].pc = "registered" /\ handler' = [handler EXCEPT ![c] = k]
        /\ rooms' = [rooms EXCEPT ![Slot(c)] = c] /\ UNCHANGED <<presence, active, usable>>
    BY <1>0 DEF Attach, Goto
  <1>2. GoodLocals(k) /\ k.pc = "serving"
    BY <1>0 DEF GoodLocals, HandlerState, Busy
  <1> HIDE DEF k
  <1>3. handler' \in [Conns -> HandlerState] /\ Handlers'
    BY <1>0, <1>1, <1>2, HandlerMoves
  <1>4. handler'[c].pc = "serving" /\ \A o \in Conns \ {c} : handler'[o] = handler[o]
    BY <1>0, <1>1, <1>2
  <1>5. /\ rooms' \in [Slots -> Conns \cup {None}] /\ rooms'[Slot(c)] = c
        /\ \A s \in Slots \ {Slot(c)} : rooms'[s] = rooms[s]
    BY <1>0, <1>1, <1>s
  <1>6. \A s \in Slots : rooms'[s] # None => s = Slot(rooms'[s])
    BY <1>0, <1>5 DEF TypeOK
  <1>7. TypeOK'
    BY <1>0, <1>1, <1>3, <1>5, <1>6 DEF TypeOK, Slot
  <1>8. RoomsHoldLivePeers'
    BY <1>0, <1>4, <1>5 DEF RoomsHoldLivePeers, Attached
  <1>9. PresenceIsHeld'
    <2> SUFFICES ASSUME NEW d \in presence
                 PROVE  \E o \in Conns : /\ Device(o) = d
                                         /\ \/ handler'[o].pc \in {"registered", "leaving"}
                                            \/ \E s \in Slots : rooms'[s] = o
      BY <1>1 DEF PresenceIsHeld, Device
    <2>1. PICK o \in Conns : /\ Device(o) = d
                             /\ \/ handler[o].pc \in {"registered", "leaving"}
                                \/ \E s \in Slots : rooms[s] = o
      BY <1>0 DEF PresenceIsHeld
    <2>2. CASE o = c
      BY <1>5, <1>s, <2>1, <2>2
    <2>3. CASE o # c /\ handler[o].pc \in {"registered", "leaving"}
      BY <1>4, <2>1, <2>3
    <2>4. ASSUME NEW s \in Slots, rooms[s] = o, s # Slot(c)
          PROVE  rooms'[s] = o
      BY <1>5, <2>4
    <2>5. ASSUME NEW s \in Slots, rooms[s] = o, s = Slot(c)
          PROVE  Device(c) = d
      <3>1. Slot(o) = Slot(c)
        BY <1>0, <1>s, <2>5 DEF TypeOK
      <3> QED
        BY <2>1, <3>1, SlotType
    <2> QED
      BY <1>5, <1>s, <2>1, <2>2, <2>3, <2>4, <2>5
  <1> QED
    BY <1>3, <1>7, <1>8, <1>9 DEF IInv

\* A connection leaves the rooms: its device stays reachable, or it is the one to clear it.
LEMMA DetachInv == ASSUME IInv, NEW c \in Conns, detachLocked(c) PROVE IInv'
  <1> DEFINE left    == [s \in Slots |-> IF rooms[s] = c THEN None ELSE rooms[s]]
             last    == left # rooms /\ \A s \in Slots : <<s[2], s[3]>> = Device(c) => left[s] = None
             k       == [handler[c] EXCEPT !.pc = IF last THEN "leaving" ELSE "closed"]
  <1>0. TypeOK /\ Handlers /\ RoomsHoldLivePeers /\ PresenceIsHeld
        /\ handler \in [Conns -> HandlerState] /\ handler[c] \in HandlerState
        /\ rooms \in [Slots -> Conns \cup {None}]
        /\ active \in [Transfers -> SUBSET Agents]
    BY DEF IInv, TypeOK
  <1>1. /\ handler[c].pc = "detaching" /\ handler' = [handler EXCEPT ![c] = k]
        /\ rooms' = left /\ UNCHANGED <<presence, usable>>
    BY <1>0 DEF detachLocked, Goto
  <1>2. GoodLocals(k) /\ k.pc = IF last THEN "leaving" ELSE "closed"
    BY <1>0 DEF GoodLocals, HandlerState, Busy
  <1>a. active' \in [Transfers -> SUBSET Agents]
    BY <1>0 DEF detachLocked
  <1>5. /\ left \in [Slots -> Conns \cup {None}]
        /\ \A s \in Slots : left[s] = IF rooms[s] = c THEN None ELSE rooms[s]
    BY <1>0
  <1>l. last <=> left # rooms /\ \A s \in Slots : <<s[2], s[3]>> = Device(c) => left[s] = None
    OBVIOUS
  <1> HIDE DEF k, left, last
  <1>3. handler' \in [Conns -> HandlerState] /\ Handlers'
    BY <1>0, <1>1, <1>2, HandlerMoves
  <1>4. /\ handler'[c].pc = IF last THEN "leaving" ELSE "closed"
        /\ \A o \in Conns \ {c} : handler'[o] = handler[o]
    BY <1>0, <1>1, <1>2
  <1>6. \A s \in Slots : left[s] # None => s = Slot(left[s]) /\ left[s] \in Conns \ {c}
    BY <1>0, <1>5 DEF TypeOK
  <1>7. TypeOK'
    BY <1>0, <1>1, <1>3, <1>5, <1>6, <1>a DEF TypeOK, Slot
  <1>8. RoomsHoldLivePeers'
    BY <1>0, <1>1, <1>4, <1>5, <1>6 DEF RoomsHoldLivePeers, Attached
  <1>9. PresenceIsHeld'
    <2> SUFFICES ASSUME NEW d \in presence
                 PROVE  \E o \in Conns : /\ Device(o) = d
                                         /\ \/ handler'[o].pc \in {"registered", "leaving"}
                                            \/ \E s \in Slots : left[s] = o
      BY <1>1 DEF PresenceIsHeld, Device
    <2>1. PICK o \in Conns : /\ Device(o) = d
                             /\ \/ handler[o].pc \in {"registered", "leaving"}
                                \/ \E s \in Slots : rooms[s] = o
      BY <1>0 DEF PresenceIsHeld
    <2>2. CASE o # c
      BY <1>4, <1>5, <2>1, <2>2
    <2>3. CASE o = c
      <3>1. PICK s \in Slots : rooms[s] = c
        BY <1>1, <2>1, <2>3
      <3>2. left # rooms
        BY <1>5, <3>1, ScopeAssumption
      <3>3. CASE last
        BY <1>4, <2>1, <2>3, <3>3
      <3>4. CASE ~last
        <4>1. PICK q \in Slots : <<q[2], q[3]>> = Device(c) /\ left[q] # None
          BY <1>l, <3>2, <3>4
        <4>2. left[q] \in Conns /\ q = Slot(left[q])
          BY <1>6, <4>1
        <4>3. Device(left[q]) = d
          BY <2>1, <2>3, <4>1, <4>2, SlotType
        <4> QED
          BY <4>2, <4>3
      <3> QED
        BY <3>3, <3>4
    <2> QED
      BY <2>2, <2>3
  <1> QED
    BY <1>3, <1>7, <1>8, <1>9 DEF IInv

\* The presence of the device is cleared, and with it the duty to clear it.
LEMMA DisconnectInv == ASSUME IInv, NEW c \in Conns, Disconnect(c) PROVE IInv'
  <1> DEFINE k == [handler[c] EXCEPT !.pc = "closed"]
  <1>0. TypeOK /\ Handlers /\ RoomsHoldLivePeers /\ PresenceIsHeld
        /\ handler \in [Conns -> HandlerState] /\ handler[c] \in HandlerState
    BY DEF IInv, TypeOK
  <1>1. /\ handler[c].pc = "leaving" /\ handler' = [handler EXCEPT ![c] = k]
        /\ presence' = presence \ {Device(c)} /\ UNCHANGED <<rooms, active, usable>>
    BY <1>0 DEF Disconnect, Goto
  <1>2. GoodLocals(k) /\ k.pc = "closed"
    BY <1>0 DEF GoodLocals, HandlerState, Busy
  <1> HIDE DEF k
  <1>3. handler' \in [Conns -> HandlerState] /\ Handlers'
    BY <1>0, <1>1, <1>2, HandlerMoves
  <1>4. handler'[c].pc = "closed" /\ \A o \in Conns \ {c} : handler'[o] = handler[o]
    BY <1>0, <1>1, <1>2
  <1>5. TypeOK'
    BY <1>0, <1>1, <1>3 DEF TypeOK
  <1>6. RoomsHoldLivePeers'
    BY <1>0, <1>1, <1>4 DEF RoomsHoldLivePeers, Attached, TypeOK
  <1>7. PresenceIsHeld'
    <2> SUFFICES ASSUME NEW d \in presence, d # Device(c)
                 PROVE  \E o \in Conns : /\ Device(o) = d
                                         /\ \/ handler'[o].pc \in {"registered", "leaving"}
                                            \/ \E s \in Slots : rooms'[s] = o
      BY <1>1 DEF PresenceIsHeld, Device
    <2>1. PICK o \in Conns : /\ Device(o) = d
                             /\ \/ handler[o].pc \in {"registered", "leaving"}
                                \/ \E s \in Slots : rooms[s] = o
      BY <1>0 DEF PresenceIsHeld
    <2> QED
      BY <1>1, <1>4, <2>1
  <1> QED
    BY <1>3, <1>5, <1>6, <1>7 DEF IInv

\* Every step keeps the invariant.
LEMMA InvStep == IInv /\ [Next]_vars => IInv'
  <1> SUFFICES ASSUME IInv, [Next]_vars PROVE IInv'
    OBVIOUS
  <1>1. ASSUME NEW c \in Conns, Register(c) \/ Drop(c) \/ Step(c) PROVE IInv'
    BY <1>1, RegisterInv, AttachInv, ServingStep, DetachInv, DisconnectInv DEF Step
  <1>2. ASSUME NEW c \in Conns,
               (\E e \in Envelopes : Receive(c, e)) \/ (\E t \in Transfers : ReceiveForDead(c, t))
        PROVE  IInv'
    BY <1>2, ServingStep
  <1>3. ASSUME NEW t \in Transfers, Retire(t) PROVE IInv'
    BY <1>3 DEF Retire, IInv, TypeOK, Handlers, EnvelopesAtHand, Authorized, PeerIsTarget,
                RoomsHoldLivePeers, Attached, PresenceIsHeld, Slot, Device
  <1>4. CASE UNCHANGED vars
    BY <1>4 DEF vars, IInv, TypeOK, Handlers, EnvelopesAtHand, Authorized, PeerIsTarget,
                RoomsHoldLivePeers, Attached, PresenceIsHeld, Slot, Device
  <1> QED
    BY <1>1, <1>2, <1>3, <1>4 DEF Next

\* The invariant holds in every state the server reaches.
LEMMA Invariance == Spec => []IInv
  BY InvInit, InvStep, PTL DEF Spec

----------------------------------------------------------------------------
(* The results                                                             *)

\* Maps and handlers have their types, and a connection sits in no slot but the one of its own
\* agent, device and scope (AttachPeer, AttachTransferPeer).
THEOREM TypeCorrect == Spec => []TypeOK
  <1>1. IInv => TypeOK
    BY DEF IInv
  <1> QED
    BY <1>1, Invariance, PTL

\* No slot of a room holds a connection whose handler has left it, so that Route never finds a
\* peer that detached before its look-up (detachLocked, firstPeer, firstTransferPeer).
THEOREM RoomsAreLive == Spec => []RoomsHoldLivePeers
  <1>1. IInv => RoomsHoldLivePeers
    BY DEF IInv
  <1> QED
    BY <1>1, Invariance, PTL

\* A device none of whose handlers is running is not shown as present, although presence is
\* cleared outside the lock of the rooms (detach, PresenceRegistry.Disconnect).
THEOREM NoGhostIsPresent == Spec => []NoGhosts
  <1>1. ASSUME IInv PROVE NoGhosts
    <2> SUFFICES ASSUME NEW d \in presence
                 PROVE  \E c \in Conns : Device(c) = d /\ handler[c].pc \notin {"idle", "closed"}
      BY DEF NoGhosts
    <2>1. PICK c \in Conns : /\ Device(c) = d
                             /\ \/ handler[c].pc \in {"registered", "leaving"}
                                \/ \E s \in Slots : rooms[s] = c
      BY <1>1 DEF IInv, PresenceIsHeld
    <2>2. ASSUME NEW s \in Slots, rooms[s] = c PROVE handler[c].pc \notin {"idle", "closed"}
      BY <1>1, <2>2, ScopeAssumption DEF IInv, RoomsHoldLivePeers, Attached
    <2> QED
      BY <2>1, <2>2
  <1> QED
    BY <1>1, Invariance, PTL

\* What is about to be written to a socket was said by one party of its transfer to the other,
\* and a socket opened for a transfer hears of no other (authorizeOutboundEnvelope, Route).
THEOREM RoutesAreIsolated == Spec => []Isolation
  <1>1. IInv => Isolation
    BY DEF IInv, Handlers, Authorized, PeerIsTarget, Isolation, InParties, IsFor, Busy
  <1> QED
    BY <1>1, Invariance, PTL

\* A slot is freed only by the handler of the connection in it: the late detach of a device's old
\* socket leaves the newer one reachable (detachLocked).
THEOREM NewerIsKept == Spec => NewerSurvives
  <1>1. ASSUME IInv, [Next]_vars
        PROVE  \A s \in Slots : rooms[s] # None /\ rooms'[s] = None => handler[rooms[s]].pc = "detaching"
    <2> SUFFICES ASSUME NEW s \in Slots, rooms[s] # None, rooms'[s] = None
                 PROVE  handler[rooms[s]].pc = "detaching"
      OBVIOUS
    <2>0. rooms \in [Slots -> Conns \cup {None}]
      BY <1>1 DEF IInv, TypeOK
    <2>1. PICK c \in Conns : Attach(c) \/ detachLocked(c)
      <3>1. ~UNCHANGED rooms
        OBVIOUS
      <3> QED
        BY <1>1, <3>1 DEF Next, Step, Register, Drop, Refuse, Authorize, firstTransferPeer,
               noTransferPeer, firstPeer, AgentOffline, trackActive, Send, Disconnect, Receive,
               ReceiveForDead, Retire, vars
    <2>2. CASE Attach(c)
      BY <2>0, <2>2, ScopeAssumption DEF Attach
    <2>3. CASE detachLocked(c)
      <3>1. rooms'[s] = IF rooms[s] = c THEN None ELSE rooms[s]
        BY <2>3 DEF detachLocked
      <3> QED
        BY <2>3, <3>1 DEF detachLocked
    <2> QED
      BY <2>1, <2>2, <2>3
  <1>2. IInv /\ [Next]_vars =>
          [\A s \in Slots : rooms[s] # None /\ rooms'[s] = None => handler[rooms[s]].pc = "detaching"]_vars
    BY <1>1
  <1> QED
    BY <1>2, Invariance, PTL DEF Spec, NewerSurvives
=============================================================================
