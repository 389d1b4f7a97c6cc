----------------------- MODULE TransferSessionsProofs -----------------------
(***************************************************************************)
(* Proofs about the server's transfers, for every number of transfers,     *)
(* requests and tickets and every life time.                               *)
(*                                                                         *)
(* The invariants are not inductive by themselves: a request that is under *)
(* way acts on what it read before.  SnapshotsHold says what such a        *)
(* snapshot is still worth, Grants that what is stored was handed out and  *)
(* what is about to be stored is new, NoneIsAbsent that a record which     *)
(* does not exist yet holds nothing.                                       *)
(***************************************************************************)
EXTENDS TransferSessions, TLAPS

\* A transfer that was not created has an empty record.
NoneIsAbsent == \A t \in Transfers : sessions[t].status = "none" => sessions[t] = Absent

Created(t) == t \in Transfers /\ sessions[t].status # "none"

Grant(t, k, e) == [id |-> t, ticket |-> k, expiresAt |-> e]

\* What a request under way has read: its transfer exists, the ticket it is about to store was
\* drawn and dies with the transfer, the ticket it is about to honour was granted.
SnapshotsHold ==
    \A c \in Callers :
        /\ calls[c].pc # "idle" => Created(calls[c].id)
        /\ calls[c].pc \in {"drawn", "checking"} =>
              /\ calls[c].ticket # NoTicket
              /\ calls[c].expiresAt <= sessions[calls[c].id].expiresAt
        /\ calls[c].pc = "checking" => Grant(calls[c].id, calls[c].ticket, calls[c].expiresAt) \in granted

\* Tickets are granted and browsers admitted for transfers that exist.
HistoryIsOfCreated ==
    /\ \A g \in granted : Created(g.id)
    /\ \A a \in admitted : Created(a.id)

\* The ticket of a record is one that was handed out for it, with the same expiry.
StoredWasGranted ==
    \A t \in Transfers : sessions[t].ticket # NoTicket =>
        Grant(t, sessions[t].ticket, sessions[t].ticketExpiresAt) \in granted

\* A ticket that was drawn and not stored yet is held by one request and by no browser.
DrawnIsFresh ==
    \A c \in Callers : calls[c].pc = "drawn" =>
        /\ \A g \in granted : g.ticket # calls[c].ticket
        /\ \A d \in Callers \ {c} : calls[d].pc = "drawn" => calls[d].ticket # calls[c].ticket

Grants == StoredWasGranted /\ DrawnIsFresh

Records == TicketWithinTransfer /\ CountsDownloads /\ StampsTellStatus /\ NoneIsAbsent

IInv == TypeOK /\ Records /\ SnapshotsHold /\ HistoryIsOfCreated /\ AdmittedWithTicket /\ Grants

----------------------------------------------------------------------------
(* Type correctness                                                        *)

\* The initial state is well typed: no transfer, no request.
LEMMA TypeInit == Init => TypeOK
  BY TicketAssumption DEF Init, TypeOK, Session, Call, Absent, Idle, Statuses, Targets, Final, NoTicket

\* The steps that only write one record, of an open transfer or a new one.
LEMMA UpdateType ==
  ASSUME TypeOK, NEW t \in Transfers, Update(t)
  PROVE  TypeOK'
  <1> USE DEF Rest, Open, Statuses, Final
  <1>1. sessions' \in [Transfers -> Session]
    <2> SUFFICES sessions' \in [Transfers -> Session]
      OBVIOUS
    <2>0. sessions \in [Transfers -> Session]
      BY DEF TypeOK
    <2>1. ASSUME NEW from, NEW to \in Statuses, transition(t, from, to)
          PROVE  sessions' \in [Transfers -> Session]
      BY <2>0, <2>1 DEF transition, Session
    <2>2. CASE MarkOffered(t) \/ MarkAccepted(t) \/ MarkConnecting(t) \/ MarkTransferStarted(t)
                 \/ MarkRetryable(t)
      BY <2>1, <2>2 DEF MarkOffered, MarkAccepted, MarkConnecting, MarkTransferStarted, MarkRetryable
    <2>a. sessions[t] \in Session
      BY <2>0
    <2>3. CASE MarkCompleted(t)
      BY <2>0, <2>3 DEF MarkCompleted, Session
    <2>4. CASE MarkInterrupted(t)
      BY <2>0, <2>a, <2>4 DEF MarkInterrupted, Session
    <2>5. CASE MarkFailed(t)
      BY <2>0, <2>a, <2>5 DEF MarkFailed, Session
    <2>6. CASE Cancel(t)
      BY <2>0, <2>a, <2>6 DEF Cancel, Session
    <2>7. CASE Expire(t)
      BY <2>0, <2>a, <2>7 DEF Expire, Session
    <2> QED
      BY <2>2, <2>3, <2>4, <2>5, <2>6, <2>7 DEF Update
  <1>2. UNCHANGED <<now, drawn, calls, granted, admitted>>
    BY DEF Update, MarkOffered, MarkAccepted, MarkConnecting, MarkTransferStarted, MarkRetryable,
           MarkCompleted, MarkInterrupted, MarkFailed, Cancel, Expire
  <1> QED
    BY <1>1, <1>2 DEF TypeOK, Session, Call

\* More tickets drawn, and later instants, only enlarge the types.
LEMMA TypesGrow ==
  ASSUME drawn \in Nat, drawn' \in Nat, drawn <= drawn'
  PROVE  Session \subseteq Session' /\ Call \subseteq Call'
  BY DEF Session, Call

\* The steps of a request keep the types, given what its snapshot is worth.
LEMMA RequestType ==
  ASSUME TypeOK, SnapshotsHold, NEW c \in Callers, Request(c)
  PROVE  TypeOK'
  <1>0. sessions \in [Transfers -> Session] /\ calls \in [Callers -> Call] /\ calls[c] \in Call
        /\ now \in Nat /\ drawn \in 0..MaxTickets /\ drawn \in Nat
    BY TicketAssumption DEF TypeOK
  <1>s. /\ calls[c].pc # "idle" => calls[c].id \in Transfers
        /\ calls[c].pc \in {"drawn", "checking"} => calls[c].ticket # 0
    BY Zenon DEF SnapshotsHold, Created, NoTicket
  <1>k. calls[c].ticket \in 0..drawn /\ calls[c].expiresAt \in Nat
    BY <1>0 DEF Call
  <1>i. Idle \in Call
    BY <1>0, TicketAssumption DEF Idle, Call, NoTicket
  <1>1. ASSUME NEW t \in Transfers, BeginIssue(c, t) PROVE TypeOK'
    BY <1>0, <1>1 DEF TypeOK, BeginIssue, Session, Call
  <1>2. CASE DrawTicket(c)
    <2>1. drawn' = drawn + 1 /\ drawn' \in 0..MaxTickets
      BY <1>0, <1>2, TicketAssumption DEF DrawTicket
    <2>2. Session \subseteq Session' /\ Call \subseteq Call'
      BY <1>0, <2>1, TicketAssumption, TypesGrow
    <2>3. calls' \in [Callers -> Call']
      <3> DEFINE e == Min2(now + TicketTTL, sessions[calls[c].id].expiresAt)
      <3>1. calls[c].id \in Transfers
        BY <1>2, <1>s DEF DrawTicket
      <3>2. e \in Nat
        BY <1>0, <3>1, TimeAssumption DEF Min2, Session
      <3> HIDE DEF e
      <3>a. calls[c] \in Call' /\ drawn + 1 \in 0..drawn'
        BY <1>0, <2>1, <2>2
      <3>3. [calls[c] EXCEPT !.pc = "drawn", !.ticket = drawn + 1, !.expiresAt = e] \in Call'
        BY <3>a, <3>2 DEF Call
      <3>4. calls' = [calls EXCEPT ![c] = [calls[c] EXCEPT !.pc = "drawn", !.ticket = drawn + 1,
                                                           !.expiresAt = e]]
        BY <1>0, <1>2 DEF DrawTicket, e
      <3> QED
        BY <1>0, <2>2, <3>3, <3>4
    <2>4. granted' \subseteq [id : Transfers, ticket : 1..drawn', expiresAt : Nat]
          /\ admitted' \subseteq [id : Transfers, ticket : 1..drawn', at : 0..now']
      BY <1>0, <1>2, <2>1 DEF TypeOK, DrawTicket
    <2> QED
      BY <1>0, <1>2, <2>1, <2>2, <2>3, <2>4 DEF TypeOK, DrawTicket
  <1>3. CASE StoreTicket(c)
    <2>1. calls[c].id \in Transfers /\ calls[c].ticket \in 1..drawn /\ calls[c].expiresAt \in Nat
      BY <1>0, <1>3, <1>s, <1>k DEF StoreTicket
    <2>2. sessions' \in [Transfers -> Session]
      <3> DEFINE new == [sessions[calls[c].id] EXCEPT !.ticket = calls[c].ticket,
                                                      !.ticketExpiresAt = calls[c].expiresAt]
      <3>0. sessions[calls[c].id] \in Session /\ calls[c].ticket \in 0..drawn
        BY <1>0, <2>1
      <3>1. new \in Session
        BY <2>1, <3>0 DEF Session
      <3>2. sessions' = [sessions EXCEPT ![calls[c].id] = new]
        BY <1>0, <1>3, <2>1 DEF StoreTicket
      <3> HIDE DEF new
      <3> QED
        BY <1>0, <2>1, <3>1, <3>2
    <2>3. calls' \in [Callers -> Call]
      BY <1>0, <1>3, <1>i DEF StoreTicket
    <2>4. granted' \subseteq [id : Transfers, ticket : 1..drawn, expiresAt : Nat]
      BY <1>0, <1>3, <2>1 DEF StoreTicket, TypeOK
    <2> QED
      BY <1>0, <1>3, <2>2, <2>3, <2>4 DEF TypeOK, StoreTicket, Session, Call
  <1>4. CASE RefuseTicket(c)
    <2>1. calls' \in [Callers -> Call]
      BY <1>0, <1>4, <1>i DEF RefuseTicket
    <2> QED
      BY <1>0, <1>4, <2>1 DEF TypeOK, RefuseTicket, Session, Call
  <1>5. ASSUME NEW t \in Transfers, NEW k \in Presented, BeginAdmit(c, t, k) PROVE TypeOK'
    <2>1. k \in 0..drawn /\ sessions[t].ticketExpiresAt \in Nat
      BY <1>0, <1>5 DEF BeginAdmit, Session
    <2>2. calls' \in [Callers -> Call]
      BY <1>0, <1>5, <2>1 DEF BeginAdmit, Call
    <2> QED
      BY <1>0, <1>5, <2>2 DEF TypeOK, BeginAdmit, Session, Call
  <1>6. CASE Admit(c)
    <2>1. [id |-> calls[c].id, ticket |-> calls[c].ticket, at |-> now]
             \in [id : Transfers, ticket : 1..drawn, at : 0..now]
      BY <1>0, <1>6, <1>s, <1>k DEF Admit
    <2>2. calls' \in [Callers -> Call]
      BY <1>0, <1>6, <1>i DEF Admit
    <2> QED
      BY <1>0, <1>6, <2>1, <2>2 DEF TypeOK, Admit, Session, Call
  <1>7. CASE RefuseAdmit(c)
    <2>1. calls' \in [Callers -> Call]
      BY <1>0, <1>7, <1>i DEF RefuseAdmit
    <2> QED
      BY <1>0, <1>7, <2>1 DEF TypeOK, RefuseAdmit, Session, Call
  <1> QED
    BY <1>1, <1>2, <1>3, <1>4, <1>5, <1>6, <1>7 DEF Request

\* The clock and a new transfer keep the types.
LEMMA OtherType ==
  ASSUME TypeOK,
         \/ Tick
         \/ \E t \in Transfers, target \in Targets, ttl \in TTLs : CreateTransfer(t, target, ttl)
  PROVE  TypeOK'
  <1>1. CASE Tick
    BY <1>1 DEF TypeOK, Tick, Session, Call
  <1>2. ASSUME NEW t \in Transfers, NEW target \in Targets, NEW ttl \in TTLs,
               CreateTransfer(t, target, ttl)
        PROVE  TypeOK'
    <2>0. now + ttl \in Nat /\ drawn \in Nat
      BY TimeAssumption, TicketAssumption DEF TypeOK
    <2>1. [Absent EXCEPT !.status = "created", !.target = target, !.expiresAt = now + ttl] \in Session
      <3>1. Absent \in Session
        BY <2>0 DEF Absent, Session, Statuses, Targets, NoTicket
      <3> QED
        BY <2>0, <3>1 DEF Session, Statuses
    <2> QED
      BY <1>2, <2>1 DEF TypeOK, CreateTransfer, Session, Call
  <1> QED
    BY <1>1, <1>2

----------------------------------------------------------------------------
(* What a step may do to a record                                          *)

\* A transition touches one open record; it stays within the lifecycle, and neither the expiry
\* nor the ticket changes.
LEMMA UpdateEffect ==
  ASSUME TypeOK, NEW t \in Transfers, Update(t)
  PROVE  /\ UNCHANGED <<now, drawn, calls, granted, admitted>>
         /\ \A u \in Transfers \ {t} : sessions'[u] = sessions[u]
         /\ sessions[t].status \in Open
         /\ sessions'[t].expiresAt = sessions[t].expiresAt
         /\ sessions'[t].ticket = sessions[t].ticket
         /\ sessions'[t].ticketExpiresAt = sessions[t].ticketExpiresAt
         /\ sessions'[t].status # "none"
  <1>0. sessions \in [Transfers -> Session] /\ sessions[t] \in Session
    BY DEF TypeOK
  <1> USE DEF Rest, Open, Statuses, Final
  <1>1. CASE MarkOffered(t)
    BY <1>0, <1>1 DEF MarkOffered, transition, Session
  <1>2. CASE MarkAccepted(t)
    BY <1>0, <1>2 DEF MarkAccepted, transition, Session
  <1>3. CASE MarkConnecting(t)
    BY <1>0, <1>3 DEF MarkConnecting, transition, Session
  <1>4. CASE MarkTransferStarted(t)
    BY <1>0, <1>4 DEF MarkTransferStarted, transition, Session
  <1>5. CASE MarkRetryable(t)
    BY <1>0, <1>5 DEF MarkRetryable, transition, Session
  <1>6. CASE MarkCompleted(t)
    BY <1>0, <1>6 DEF MarkCompleted, Session
  <1>7. CASE MarkInterrupted(t)
    BY <1>0, <1>7 DEF MarkInterrupted, Session
  <1>8. CASE MarkFailed(t)
    BY <1>0, <1>8 DEF MarkFailed, Session
  <1>9. CASE Cancel(t)
    BY <1>0, <1>9 DEF Cancel, Session
  <1>10. CASE Expire(t)
    BY <1>0, <1>10 DEF Expire, Session
  <1> QED
    BY <1>1, <1>2, <1>3, <1>4, <1>5, <1>6, <1>7, <1>8, <1>9, <1>10 DEF Update

\* A transition counts a download exactly when it completes the transfer, and stamps the final
\* status it reaches and the interruptions.
LEMMA UpdateStamps ==
  ASSUME TypeOK, NEW t \in Transfers, Update(t), CountsDownloads, StampsTellStatus
  PROVE  CountsDownloads' /\ StampsTellStatus'
  <1> DEFINE Good(s) == /\ s.downloads = IF s.status = "completed" THEN 1 ELSE 0
                        /\ s.stamps \cap Final = {s.status} \cap Final
                        /\ s.reason <=> s.stamps \cap {"failed", "interrupted"} # {}
  <1>0. sessions \in [Transfers -> Session] /\ sessions[t] \in Session
    BY DEF TypeOK
  <1>g. Good(sessions[t])
    BY DEF CountsDownloads, StampsTellStatus
  <1>1. Good(sessions'[t])
    <2> USE DEF Open, Statuses, Final
    <2>1. ASSUME NEW from, NEW to \in Open, transition(t, from, to)
          PROVE  Good(sessions'[t])
      BY <1>0, <1>g, <2>1 DEF transition, Session
    <2>2. CASE MarkOffered(t) \/ MarkAccepted(t) \/ MarkConnecting(t) \/ MarkTransferStarted(t)
                 \/ MarkRetryable(t)
      BY <2>1, <2>2 DEF MarkOffered, MarkAccepted, MarkConnecting, MarkTransferStarted, MarkRetryable
    <2>3. CASE MarkCompleted(t)
      BY <1>0, <1>g, <2>3 DEF MarkCompleted, Session
    <2>4. CASE MarkInterrupted(t)
      BY <1>0, <1>g, <2>4 DEF MarkInterrupted, Session
    <2>5. CASE MarkFailed(t)
      BY <1>0, <1>g, <2>5 DEF MarkFailed, Session
    <2>6. CASE Cancel(t)
      BY <1>0, <1>g, <2>6 DEF Cancel, Session
    <2>7. CASE Expire(t)
      BY <1>0, <1>g, <2>7 DEF Expire, Session
    <2> QED
      BY <2>2, <2>3, <2>4, <2>5, <2>6, <2>7 DEF Update
  <1>2. \A u \in Transfers \ {t} : sessions'[u] = sessions[u]
    BY UpdateEffect
  <1> QED
    BY <1>1, <1>2 DEF CountsDownloads, StampsTellStatus

----------------------------------------------------------------------------
(* The inductive invariant                                                 *)

\* The invariant holds before anything was created.
LEMMA InvInit == Init => IInv
  <1> SUFFICES ASSUME Init PROVE IInv
    OBVIOUS
  <1>1. TypeOK
    BY TypeInit
  <1>2. Records
    BY DEF Init, Records, TicketWithinTransfer, CountsDownloads, StampsTellStatus, NoneIsAbsent,
           Absent, Final
  <1>3. SnapshotsHold /\ HistoryIsOfCreated /\ AdmittedWithTicket /\ Grants
    BY DEF Init, SnapshotsHold, HistoryIsOfCreated, AdmittedWithTicket, Idle, Absent, Grants,
           StoredWasGranted, DrawnIsFresh
  <1> QED
    BY <1>1, <1>2, <1>3 DEF IInv

\* Records that keep their expiry and are not forgotten keep every snapshot and the history true.
LEMMA RecordsKept ==
  ASSUME SnapshotsHold, HistoryIsOfCreated, AdmittedWithTicket,
         UNCHANGED <<calls, granted, admitted>>,
         \A u \in Transfers : Created(u) => Created(u)' /\ sessions'[u].expiresAt = sessions[u].expiresAt
  PROVE  SnapshotsHold' /\ HistoryIsOfCreated' /\ AdmittedWithTicket'
  <1>1. HistoryIsOfCreated' /\ AdmittedWithTicket'
    BY DEF HistoryIsOfCreated, AdmittedWithTicket, Created
  <1>2. SnapshotsHold'
    BY DEF SnapshotsHold, Created
  <1> QED
    BY <1>1, <1>2

\* Records that keep their tickets keep what is known of the tickets.
LEMMA GrantsKept ==
  ASSUME Grants, UNCHANGED <<calls, granted>>,
         \A u \in Transfers : /\ sessions'[u].ticket = sessions[u].ticket
                              /\ sessions'[u].ticketExpiresAt = sessions[u].ticketExpiresAt
  PROVE  Grants'
  BY DEF Grants, StoredWasGranted, DrawnIsFresh, Grant

\* A new transfer is recorded in an empty place.
LEMMA CreateInv ==
  ASSUME IInv, NEW t \in Transfers, NEW target \in Targets, NEW ttl \in TTLs,
         CreateTransfer(t, target, ttl)
  PROVE  IInv'
  <1> DEFINE new == [Absent EXCEPT !.status = "created", !.target = target, !.expiresAt = now + ttl]
  <1>0. TypeOK /\ sessions \in [Transfers -> Session]
    BY DEF IInv, TypeOK
  <1>1. TypeOK'
    BY <1>0, OtherType
  <1>2. sessions' = [sessions EXCEPT ![t] = new] /\ sessions[t].status = "none"
    BY DEF CreateTransfer
  <1>3. /\ new.status = "created" /\ new.downloads = 0 /\ new.stamps = {} /\ new.reason = FALSE
        /\ new.ticketExpiresAt = 0 /\ new.expiresAt = now + ttl /\ now + ttl \in Nat
    BY <1>0, TimeAssumption DEF Absent, TypeOK
  <1> HIDE DEF new
  <1>4. Records'
    <2>1. sessions'[t] = new /\ \A u \in Transfers \ {t} : sessions'[u] = sessions[u]
      BY <1>0, <1>2
    <2>2. Records
      BY DEF IInv
    <2>3. TicketWithinTransfer' /\ CountsDownloads'
      BY <1>3, <2>1, <2>2 DEF Records, TicketWithinTransfer, CountsDownloads
    <2>4. StampsTellStatus'
      BY <1>3, <2>1, <2>2 DEF Records, StampsTellStatus, Final
    <2>5. NoneIsAbsent'
      BY <1>3, <2>1, <2>2 DEF Records, NoneIsAbsent
    <2> QED
      BY <2>3, <2>4, <2>5 DEF Records
  <1>5. \A u \in Transfers : Created(u) => Created(u)' /\ sessions'[u].expiresAt = sessions[u].expiresAt
    BY <1>0, <1>2 DEF Created
  <1>6. SnapshotsHold' /\ HistoryIsOfCreated' /\ AdmittedWithTicket'
    BY <1>5, RecordsKept DEF IInv, CreateTransfer
  <1>7. Grants'
    <2>1. sessions[t] = Absent
      BY <1>2 DEF IInv, Records, NoneIsAbsent
    <2>2. new.ticket = NoTicket
      BY DEF new, Absent
    <2>3. \A u \in Transfers : /\ sessions'[u].ticket = sessions[u].ticket
                               /\ sessions'[u].ticketExpiresAt = sessions[u].ticketExpiresAt
      BY <1>0, <1>2, <1>3, <2>1, <2>2 DEF Absent
    <2> QED
      BY <2>3, GrantsKept DEF IInv, CreateTransfer
  <1> QED
    BY <1>1, <1>4, <1>6, <1>7 DEF IInv

\* A transition keeps the invariant, although requests hold snapshots from before it.
LEMMA UpdateInv ==
  ASSUME IInv, NEW t \in Transfers, Update(t)
  PROVE  IInv'
  <1>0. TypeOK /\ Records
    BY DEF IInv
  <1>1. TypeOK'
    BY <1>0, UpdateType
  <1>2. /\ UNCHANGED <<now, drawn, calls, granted, admitted>>
        /\ \A u \in Transfers \ {t} : sessions'[u] = sessions[u]
        /\ sessions'[t].expiresAt = sessions[t].expiresAt
        /\ sessions'[t].ticket = sessions[t].ticket
        /\ sessions'[t].ticketExpiresAt = sessions[t].ticketExpiresAt
        /\ sessions'[t].status # "none"
    BY <1>0, UpdateEffect
  <1>3. CountsDownloads' /\ StampsTellStatus'
    BY <1>0, UpdateStamps DEF Records
  <1>4. TicketWithinTransfer' /\ NoneIsAbsent'
    BY <1>0, <1>2 DEF Records, TicketWithinTransfer, NoneIsAbsent
  <1>5. \A u \in Transfers : Created(u) => Created(u)' /\ sessions'[u].expiresAt = sessions[u].expiresAt
    BY <1>2 DEF Created
  <1>6. SnapshotsHold' /\ HistoryIsOfCreated' /\ AdmittedWithTicket'
    BY <1>2, <1>5, RecordsKept DEF IInv
  <1>7. Grants'
    BY <1>2, GrantsKept DEF IInv
  <1> QED
    BY <1>1, <1>3, <1>4, <1>6, <1>7 DEF IInv, Records

\* Caller c goes on to k and no record changes: the other requests are as they were.
LEMMA CallMoves ==
  ASSUME SnapshotsHold, HistoryIsOfCreated, AdmittedWithTicket, Records,
         NEW c \in Callers, NEW k, calls \in [Callers -> Call],
         calls' = [calls EXCEPT ![c] = k],
         UNCHANGED <<sessions, granted>>,
         k.pc # "idle" => Created(k.id),
         k.pc \in {"drawn", "checking"} => k.ticket # NoTicket
                                           /\ k.expiresAt <= sessions[k.id].expiresAt,
         k.pc = "checking" => Grant(k.id, k.ticket, k.expiresAt) \in granted
  PROVE  SnapshotsHold' /\ Records'
  <1>1. Records'
    BY DEF Records, TicketWithinTransfer, CountsDownloads, StampsTellStatus, NoneIsAbsent
  <1>2. SnapshotsHold'
    <2> SUFFICES ASSUME NEW d \in Callers
                 PROVE  /\ calls'[d].pc # "idle" => Created(calls'[d].id)
                        /\ calls'[d].pc \in {"drawn", "checking"} =>
                              /\ calls'[d].ticket # NoTicket
                              /\ calls'[d].expiresAt <= sessions[calls'[d].id].expiresAt
                        /\ calls'[d].pc = "checking" =>
                              Grant(calls'[d].id, calls'[d].ticket, calls'[d].expiresAt) \in granted
      BY DEF SnapshotsHold, Created
    <2>1. CASE d = c
      <3>1. calls'[d] = k
        BY <2>1
      <3> QED
        BY <3>1
    <2>2. CASE d # c
      <3>1. calls'[d] = calls[d]
        BY <2>2
      <3> QED
        BY <3>1 DEF SnapshotsHold
    <2> QED
      BY <2>1, <2>2
  <1> QED
    BY <1>1, <1>2

\* A request that draws a ticket draws a new one, and one that stores its ticket hands it out.
LEMMA GrantsRequest ==
  ASSUME IInv, NEW c \in Callers, Request(c)
  PROVE  Grants'
  <1>0. /\ sessions \in [Transfers -> Session] /\ calls \in [Callers -> Call]
        /\ drawn \in Nat /\ StoredWasGranted /\ DrawnIsFresh
        /\ granted \subseteq [id : Transfers, ticket : 1..drawn, expiresAt : Nat]
    BY TicketAssumption DEF IInv, TypeOK, Grants
  <1>1. ASSUME NEW k, k.pc # "drawn", calls' = [calls EXCEPT ![c] = k], UNCHANGED <<sessions, granted>>
        PROVE  Grants'
    <2>1. \A d \in Callers : calls'[d].pc = "drawn" => d # c /\ calls'[d] = calls[d]
      BY <1>0, <1>1
    <2> QED
      BY <1>0, <1>1, <2>1 DEF Grants, StoredWasGranted, DrawnIsFresh
  <1>i. Idle.pc = "idle"
    BY DEF Idle
  <1>2. ASSUME NEW t \in Transfers, BeginIssue(c, t) PROVE Grants'
    <2> DEFINE k == [calls[c] EXCEPT !.pc = "verified", !.id = t]
    <2>1. k.pc = "verified" /\ calls' = [calls EXCEPT ![c] = k] /\ UNCHANGED <<sessions, granted>>
      BY <1>0, <1>2 DEF BeginIssue, Call
    <2> HIDE DEF k
    <2> QED
      BY <1>1, <2>1
  <1>3. ASSUME NEW t \in Transfers, NEW n \in Presented, BeginAdmit(c, t, n) PROVE Grants'
    <2> DEFINE k == [pc |-> "checking", id |-> t, ticket |-> n,
                     expiresAt |-> sessions[t].ticketExpiresAt]
    <2>1. k.pc = "checking" /\ calls' = [calls EXCEPT ![c] = k] /\ UNCHANGED <<sessions, granted>>
      BY <1>3 DEF BeginAdmit
    <2> HIDE DEF k
    <2> QED
      BY <1>1, <2>1
  <1>4. CASE RefuseTicket(c) \/ Admit(c) \/ RefuseAdmit(c)
    <2>1. calls' = [calls EXCEPT ![c] = Idle] /\ UNCHANGED <<sessions, granted>>
      BY <1>4 DEF RefuseTicket, Admit, RefuseAdmit
    <2> QED
      BY <1>1, <1>i, <2>1
  <1>5. CASE DrawTicket(c)
    <2>1. calls'[c].ticket = drawn + 1 /\ \A d \in Callers \ {c} : calls'[d] = calls[d]
      BY <1>0, <1>5 DEF DrawTicket, Call
    <2>2. UNCHANGED <<sessions, granted>>
      BY <1>5 DEF DrawTicket
    <2>3. \A g \in granted : g.ticket \in 1..drawn
      BY <1>0
    <2>4. \A d \in Callers : calls[d].ticket \in 0..drawn
      BY <1>0 DEF Call
    <2>5. StoredWasGranted'
      BY <1>0, <2>2 DEF StoredWasGranted
    <2>6. DrawnIsFresh'
      <3> SUFFICES ASSUME NEW d \in Callers, calls'[d].pc = "drawn"
                   PROVE  /\ \A g \in granted : g.ticket # calls'[d].ticket
                          /\ \A e \in Callers \ {d} : calls'[e].pc = "drawn" =>
                                                         calls'[e].ticket # calls'[d].ticket
        BY <2>2 DEF DrawnIsFresh
      <3>1. CASE d = c
        BY <1>0, <2>1, <2>3, <2>4, <3>1
      <3>2. CASE d # c
        <4>1. calls'[d] = calls[d]
          BY <2>1, <3>2
        <4> QED
          BY <1>0, <2>1, <2>4, <3>2, <4>1 DEF DrawnIsFresh
      <3> QED
        BY <3>1, <3>2
    <2> QED
      BY <2>5, <2>6 DEF Grants
  <1>6. CASE StoreTicket(c)
    <2> DEFINE k == calls[c]
    <2>1. k.pc = "drawn" /\ k.id \in Transfers
      <3>1. k.pc = "drawn"
        BY <1>6 DEF StoreTicket
      <3>2. SnapshotsHold
        BY DEF IInv
      <3> QED
        BY <3>1, <3>2, Zenon DEF SnapshotsHold, Created
    <2>2. granted' = granted \cup {Grant(k.id, k.ticket, k.expiresAt)}
      BY <1>6 DEF StoreTicket, Grant
    <2>3. /\ \A u \in Transfers \ {k.id} : sessions'[u] = sessions[u]
          /\ sessions'[k.id].ticket = k.ticket /\ sessions'[k.id].ticketExpiresAt = k.expiresAt
      BY <1>0, <1>6, <2>1 DEF StoreTicket, Session
    <2>4. StoredWasGranted'
      BY <1>0, <2>2, <2>3 DEF StoredWasGranted
    <2>5. \A d \in Callers : calls'[d].pc = "drawn" => d # c /\ calls'[d] = calls[d]
      BY <1>0, <1>6, <1>i DEF StoreTicket
    <2>6. DrawnIsFresh'
      <3>1. \A g \in granted' : g \in granted \/ g.ticket = k.ticket
        BY <2>2 DEF Grant
      <3> QED
        BY <1>0, <2>1, <2>5, <3>1 DEF DrawnIsFresh
    <2> QED
      BY <2>4, <2>6 DEF Grants
  <1> QED
    BY <1>2, <1>3, <1>4, <1>5, <1>6 DEF Request

\* The steps of a request keep the invariant: what it stores or honours, it checked or computed
\* from a snapshot that cannot have become better than the record.
LEMMA RequestInv ==
  ASSUME IInv, NEW c \in Callers, Request(c)
  PROVE  IInv'
  <1>0. TypeOK /\ SnapshotsHold /\ HistoryIsOfCreated /\ AdmittedWithTicket /\ Records
        /\ sessions \in [Transfers -> Session] /\ calls \in [Callers -> Call] /\ calls[c] \in Call
        /\ now \in Nat /\ drawn \in Nat
    BY TicketAssumption DEF IInv, TypeOK
  <1>t. TypeOK'
    BY <1>0, RequestType
  <1>s. /\ calls[c].pc # "idle" => Created(calls[c].id)
        /\ calls[c].pc \in {"drawn", "checking"} =>
              calls[c].ticket # NoTicket /\ calls[c].expiresAt <= sessions[calls[c].id].expiresAt
        /\ calls[c].pc = "checking" => Grant(calls[c].id, calls[c].ticket, calls[c].expiresAt) \in granted
    BY <1>0, Zenon DEF SnapshotsHold
  <1>g. Grants'
    BY GrantsRequest
  <1>i. Idle.pc = "idle"
    BY DEF Idle
  <1>h. ASSUME UNCHANGED <<sessions, granted, admitted>>
        PROVE  HistoryIsOfCreated' /\ AdmittedWithTicket'
    BY <1>0, <1>h DEF HistoryIsOfCreated, AdmittedWithTicket, Created
  <1>1. ASSUME NEW t \in Transfers, BeginIssue(c, t) PROVE IInv'
    <2> DEFINE k == [calls[c] EXCEPT !.pc = "verified", !.id = t]
    <2>1. calls' = [calls EXCEPT ![c] = k] /\ UNCHANGED <<sessions, granted, admitted>>
      BY <1>0, <1>1 DEF BeginIssue
    <2>2. k.pc = "verified" /\ k.id = t
      BY <1>0 DEF Call
    <2>3. Created(t)
      BY <1>1 DEF BeginIssue, VerifyPublicToken, isTransferUsable, Created
    <2> HIDE DEF k
    <2>4. SnapshotsHold' /\ Records'
      BY <1>0, <2>1, <2>2, <2>3, CallMoves
    <2> QED
      BY <1>t, <1>g, <1>h, <2>1, <2>4 DEF IInv
  <1>2. CASE DrawTicket(c)
    <2> DEFINE e == Min2(now + TicketTTL, sessions[calls[c].id].expiresAt)
               k == [calls[c] EXCEPT !.pc = "drawn", !.ticket = drawn + 1, !.expiresAt = e]
    <2>1. calls' = [calls EXCEPT ![c] = k] /\ UNCHANGED <<sessions, granted, admitted>>
      BY <1>0, <1>2 DEF DrawTicket
    <2>2. k.pc = "drawn" /\ k.id = calls[c].id /\ k.ticket = drawn + 1 /\ k.expiresAt = e
      BY <1>0 DEF Call
    <2>3. Created(calls[c].id)
      BY <1>2, <1>s DEF DrawTicket
    <2>4. e <= sessions[calls[c].id].expiresAt
      BY <1>0, <2>3, TimeAssumption DEF Min2, Created, Session
    <2>5. drawn + 1 # NoTicket
      BY <1>0 DEF NoTicket
    <2> HIDE DEF k, e
    <2>6. SnapshotsHold' /\ Records'
      BY <1>0, <2>1, <2>2, <2>3, <2>4, <2>5, CallMoves
    <2> QED
      BY <1>t, <1>g, <1>h, <2>1, <2>6 DEF IInv
  <1>3. CASE StoreTicket(c)
    <2> DEFINE k == calls[c]
               new == [sessions[k.id] EXCEPT !.ticket = k.ticket, !.ticketExpiresAt = k.expiresAt]
    <2>1. k.pc = "drawn" /\ k.id \in Transfers /\ Created(k.id)
          /\ k.expiresAt <= sessions[k.id].expiresAt
      BY <1>3, <1>s DEF StoreTicket, Created
    <2>2. /\ sessions' = [sessions EXCEPT ![k.id] = new]
          /\ calls' = [calls EXCEPT ![c] = Idle]
          /\ granted' = granted \cup {Grant(k.id, k.ticket, k.expiresAt)}
          /\ admitted' = admitted
      BY <1>0, <1>3, <2>1 DEF StoreTicket, Grant
    <2>3. /\ new.ticketExpiresAt = k.expiresAt
          /\ new.status = sessions[k.id].status /\ new.expiresAt = sessions[k.id].expiresAt
          /\ new.downloads = sessions[k.id].downloads /\ new.stamps = sessions[k.id].stamps
          /\ new.reason = sessions[k.id].reason
      BY <1>0, <2>1 DEF Session
    <2> HIDE DEF new
    <2>4. \A u \in Transfers : /\ sessions'[u].status = sessions[u].status
                               /\ sessions'[u].expiresAt = sessions[u].expiresAt
                               /\ sessions'[u].downloads = sessions[u].downloads
                               /\ sessions'[u].stamps = sessions[u].stamps
                               /\ sessions'[u].reason = sessions[u].reason
                               /\ u # k.id => sessions'[u] = sessions[u]
      BY <1>0, <2>1, <2>2, <2>3
    <2>5. Records'
      <3>1. TicketWithinTransfer'
        BY <1>0, <2>1, <2>2, <2>3, <2>4 DEF Records, TicketWithinTransfer
      <3>2. CountsDownloads' /\ StampsTellStatus'
        <4>1. CountsDownloads /\ StampsTellStatus
          BY <1>0 DEF Records
        <4> QED
          BY <2>4, <4>1 DEF CountsDownloads, StampsTellStatus
      <3>3. NoneIsAbsent'
        <4>1. NoneIsAbsent
          BY <1>0 DEF Records
        <4> QED
          BY <2>1, <2>4, <4>1 DEF NoneIsAbsent, Created
      <3> QED
        BY <3>1, <3>2, <3>3 DEF Records
    <2>6. HistoryIsOfCreated' /\ AdmittedWithTicket'
      <3>1. HistoryIsOfCreated /\ AdmittedWithTicket
        BY <1>0
      <3> QED
        BY <2>1, <2>2, <2>4, <3>1 DEF HistoryIsOfCreated, AdmittedWithTicket, Created, Grant
    <2>7. SnapshotsHold'
      <3> SUFFICES ASSUME NEW d \in Callers
                   PROVE  /\ calls'[d].pc # "idle" => calls'[d].id \in Transfers
                                                       /\ sessions'[calls'[d].id].status # "none"
                          /\ calls'[d].pc \in {"drawn", "checking"} =>
                                /\ calls'[d].ticket # NoTicket
                                /\ calls'[d].expiresAt <= sessions'[calls'[d].id].expiresAt
                          /\ calls'[d].pc = "checking" =>
                                Grant(calls'[d].id, calls'[d].ticket, calls'[d].expiresAt) \in granted'
        BY DEF SnapshotsHold, Created
      <3>1. CASE d = c
        BY <1>0, <1>i, <2>2, <3>1
      <3>2. CASE d # c
        <4>1. calls'[d] = calls[d]
          BY <1>0, <2>2, <3>2
        <4>2. /\ calls[d].pc # "idle" => Created(calls[d].id)
              /\ calls[d].pc \in {"drawn", "checking"} =>
                    calls[d].ticket # NoTicket /\ calls[d].expiresAt <= sessions[calls[d].id].expiresAt
              /\ calls[d].pc = "checking" => Grant(calls[d].id, calls[d].ticket, calls[d].expiresAt) \in granted
          BY <1>0, Zenon DEF SnapshotsHold
        <4> QED
          BY <2>2, <2>4, <4>1, <4>2 DEF Created
      <3> QED
        BY <3>1, <3>2
    <2> QED
      BY <1>t, <1>g, <2>5, <2>6, <2>7 DEF IInv
  <1>4. CASE RefuseTicket(c)
    <2>1. calls' = [calls EXCEPT ![c] = Idle] /\ UNCHANGED <<sessions, granted, admitted>>
      BY <1>4 DEF RefuseTicket
    <2>2. SnapshotsHold' /\ Records'
      BY <1>0, <1>i, <2>1, CallMoves
    <2> QED
      BY <1>t, <1>g, <1>h, <2>1, <2>2 DEF IInv
  <1>5. ASSUME NEW t \in Transfers, NEW n \in Presented, BeginAdmit(c, t, n) PROVE IInv'
    <2> DEFINE k == [pc |-> "checking", id |-> t, ticket |-> n,
                     expiresAt |-> sessions[t].ticketExpiresAt]
    <2>1. calls' = [calls EXCEPT ![c] = k] /\ UNCHANGED <<sessions, granted, admitted>>
      BY <1>5 DEF BeginAdmit
    <2>2. Created(t)
      BY <1>5 DEF BeginAdmit, VerifyPublicToken, isTransferUsable, Created
    <2>3. n # NoTicket /\ Grant(t, n, sessions[t].ticketExpiresAt) \in granted
      BY <1>5 DEF BeginAdmit, IInv, Grants, StoredWasGranted
    <2>4. sessions[t].ticketExpiresAt <= sessions[t].expiresAt
      BY <1>0 DEF Records, TicketWithinTransfer
    <2>5. k.pc = "checking" /\ k.id = t /\ k.ticket = n /\ k.expiresAt = sessions[t].ticketExpiresAt
      OBVIOUS
    <2> HIDE DEF k
    <2>6. SnapshotsHold' /\ Records'
      BY <1>0, <1>5, <2>1, <2>2, <2>3, <2>4, <2>5, CallMoves
    <2> QED
      BY <1>t, <1>g, <1>h, <2>1, <2>6 DEF IInv
  <1>6. CASE Admit(c)
    <2>1. calls' = [calls EXCEPT ![c] = Idle] /\ UNCHANGED <<sessions, granted>>
      BY <1>6 DEF Admit
    <2>2. SnapshotsHold' /\ Records'
      BY <1>0, <1>i, <2>1, CallMoves
    <2>3. /\ Created(calls[c].id) /\ now < calls[c].expiresAt
          /\ Grant(calls[c].id, calls[c].ticket, calls[c].expiresAt) \in granted
      BY <1>6, <1>s DEF Admit
    <2>4. HistoryIsOfCreated' /\ AdmittedWithTicket'
      <3>1. admitted' = admitted \cup {[id |-> calls[c].id, ticket |-> calls[c].ticket, at |-> now]}
        BY <1>6 DEF Admit
      <3>2. \E g \in granted : g.id = calls[c].id /\ g.ticket = calls[c].ticket /\ now < g.expiresAt
        BY <2>3 DEF Grant
      <3> QED
        BY <1>0, <2>1, <2>3, <3>1, <3>2 DEF HistoryIsOfCreated, AdmittedWithTicket, Created
    <2> QED
      BY <1>t, <1>g, <2>2, <2>4 DEF IInv
  <1>7. CASE RefuseAdmit(c)
    <2>1. calls' = [calls EXCEPT ![c] = Idle] /\ UNCHANGED <<sessions, granted, admitted>>
      BY <1>7 DEF RefuseAdmit
    <2>2. SnapshotsHold' /\ Records'
      BY <1>0, <1>i, <2>1, CallMoves
    <2> QED
      BY <1>t, <1>g, <1>h, <2>1, <2>2 DEF IInv
  <1> QED
    BY <1>1, <1>2, <1>3, <1>4, <1>5, <1>6, <1>7 DEF Request

\* Every step keeps the invariant.
LEMMA InvStep == IInv /\ [Next]_vars => IInv'
  <1> SUFFICES ASSUME IInv, [Next]_vars PROVE IInv'
    OBVIOUS
  <1>1. CASE Tick
    <2>1. TypeOK'
      BY <1>1, OtherType DEF IInv
    <2>2. UNCHANGED <<sessions, calls, granted, admitted>>
      BY <1>1 DEF Tick
    <2> QED
      BY <2>1, <2>2 DEF IInv, Records, TicketWithinTransfer, CountsDownloads, StampsTellStatus,
                        NoneIsAbsent, SnapshotsHold, HistoryIsOfCreated, AdmittedWithTicket, Created,
                        Grants, StoredWasGranted, DrawnIsFresh
  <1>2. ASSUME NEW t \in Transfers, NEW target \in Targets, NEW ttl \in TTLs,
               CreateTransfer(t, target, ttl)
        PROVE  IInv'
    BY <1>2, CreateInv
  <1>3. ASSUME NEW t \in Transfers, Update(t) PROVE IInv'
    BY <1>3, UpdateInv
  <1>4. ASSUME NEW c \in Callers, Request(c) PROVE IInv'
    BY <1>4, RequestInv
  <1>5. CASE UNCHANGED vars
    BY <1>5 DEF vars, IInv, TypeOK, Session, Call, Records, TicketWithinTransfer, CountsDownloads,
                StampsTellStatus, NoneIsAbsent, SnapshotsHold, HistoryIsOfCreated,
                AdmittedWithTicket, Created, Grants, StoredWasGranted, DrawnIsFresh
  <1> QED
    BY <1>1, <1>2, <1>3, <1>4, <1>5 DEF Next

\* The invariant holds in every state the server reaches.
LEMMA Invariance == Spec => []IInv
  BY InvInit, InvStep, PTL DEF Spec

----------------------------------------------------------------------------
(* The results                                                             *)

\* The records, requests and histories have the shape of their types, and no ticket is in use
\* that was not drawn (TransferSession, TransferRepository).
THEOREM TypeCorrect == Spec => []TypeOK
  <1>1. IInv => TypeOK
    BY DEF IInv
  <1> QED
    BY <1>1, Invariance, PTL

\* The receiver ticket of a transfer never outlives the transfer, however the requests that issue
\* tickets interleave with its transitions (IssueBrowserReceiverTicket).
THEOREM TicketsAreWithin == Spec => []TicketWithinTransfer
  <1>1. IInv => TicketWithinTransfer
    BY DEF IInv, Records
  <1> QED
    BY <1>1, Invariance, PTL

\* Whatever token and ticket a browser presents, VerifyBrowserReceiverTicket lets it in only with
\* a ticket handed out for that very transfer, before the expiry told with the ticket.
THEOREM AdmissionIsSound == Spec => []AdmittedWithTicket
  <1>1. IInv => AdmittedWithTicket
    BY DEF IInv
  <1> QED
    BY <1>1, Invariance, PTL

\* A transfer counts one download when it is completed and none before (MarkCompleted).
THEOREM DownloadsAreCounted == Spec => []CountsDownloads
  <1>1. IInv => CountsDownloads
    BY DEF IInv, Records
  <1> QED
    BY <1>1, Invariance, PTL

\* The time stamps and the reason of a record tell how it ended, after every sequence of
\* interruptions and retries (transition, MarkInterrupted, MarkFailed).
THEOREM StampsAreTrue == Spec => []StampsTellStatus
  <1>1. IInv => StampsTellStatus
    BY DEF IInv, Records
  <1> QED
    BY <1>1, Invariance, PTL

----------------------------------------------------------------------------
(* What a step may never do                                                *)

\* What a step of any kind leaves alone in a transfer that exists; only StoreTicket, which has
\* just looked at the record again, changes its ticket.
LEMMA StepEffect ==
  ASSUME IInv, [Next]_vars, NEW t \in Transfers
  PROVE  /\ now' \in Nat /\ now <= now'
         /\ Created(t) => /\ sessions'[t].expiresAt = sessions[t].expiresAt
                          /\ sessions[t].status \in Final => sessions'[t].status = sessions[t].status
                          /\ sessions'[t].status # "none"
         /\ sessions'[t].ticket # sessions[t].ticket => isTransferUsable(t)
  <1> DEFINE Effect ==
               /\ now' \in Nat /\ now <= now'
               /\ Created(t) => /\ sessions'[t].expiresAt = sessions[t].expiresAt
                                /\ sessions[t].status \in Final => sessions'[t].status = sessions[t].status
                                /\ sessions'[t].status # "none"
               /\ sessions'[t].ticket # sessions[t].ticket => isTransferUsable(t)
  <1>0. TypeOK /\ now \in Nat /\ sessions \in [Transfers -> Session] /\ SnapshotsHold /\ NoneIsAbsent
    BY DEF IInv, TypeOK, Records
  <1>1. CASE Tick
    BY <1>0, <1>1 DEF Tick, Created
  <1>2. ASSUME NEW u \in Transfers, NEW target \in Targets, NEW ttl \in TTLs,
               CreateTransfer(u, target, ttl)
        PROVE  Effect
    <2>1. CASE u = t
      <3>1. sessions[t] = Absent
        BY <1>0, <1>2, <2>1 DEF NoneIsAbsent, CreateTransfer
      <3>2. sessions'[t].ticket = NoTicket
        BY <1>0, <1>2, <2>1 DEF CreateTransfer, Absent
      <3> QED
        BY <1>0, <1>2, <2>1, <3>1, <3>2 DEF CreateTransfer, Created, Absent
    <2>2. CASE u # t
      BY <1>0, <1>2, <2>2 DEF CreateTransfer, Created
    <2> QED
      BY <2>1, <2>2
  <1>3. ASSUME NEW u \in Transfers, Update(u) PROVE Effect
    <2>1. /\ UNCHANGED now
          /\ \A v \in Transfers \ {u} : sessions'[v] = sessions[v]
          /\ sessions[u].status \notin Final
          /\ sessions'[u].expiresAt = sessions[u].expiresAt
          /\ sessions'[u].ticket = sessions[u].ticket
          /\ sessions'[u].status # "none"
      BY <1>0, <1>3, UpdateEffect DEF Open
    <2> QED
      BY <1>0, <2>1 DEF Created
  <1>4. ASSUME NEW c \in Callers, Request(c) PROVE Effect
    <2>1. CASE StoreTicket(c)
      <3>1. calls[c].id \in Transfers
        <4>1. calls[c].pc # "idle"
          BY <2>1 DEF StoreTicket
        <4> QED
          BY <1>0, <4>1, Zenon DEF SnapshotsHold, Created
      <3>2. now' = now /\ \A v \in Transfers \ {calls[c].id} : sessions'[v] = sessions[v]
        BY <1>0, <2>1, <3>1 DEF StoreTicket
      <3>3. isTransferUsable(calls[c].id)
        BY <2>1 DEF StoreTicket, VerifyPublicToken
      <3>4. /\ sessions'[calls[c].id].expiresAt = sessions[calls[c].id].expiresAt
            /\ sessions'[calls[c].id].status = sessions[calls[c].id].status
        BY <1>0, <2>1, <3>1 DEF StoreTicket, Session
      <3> QED
        BY <1>0, <3>1, <3>2, <3>3, <3>4 DEF Created
    <2>2. CASE ~StoreTicket(c)
      <3>1. UNCHANGED <<now, sessions>>
        BY <1>4, <2>2 DEF Request, BeginIssue, BeginAdmit, DrawTicket, RefuseTicket, Admit, RefuseAdmit
      <3> QED
        BY <1>0, <3>1 DEF Created
    <2> QED
      BY <2>1, <2>2
  <1>5. CASE UNCHANGED vars
    BY <1>0, <1>5 DEF vars, Created
  <1> QED
    BY <1>1, <1>2, <1>3, <1>4, <1>5 DEF Next

\* A transfer that has ended or whose time is up is never usable again, whatever messages and
\* requests come late (isTransferUsable, transition).
THEOREM DeadIsDead == Spec => DeadStaysDead
  <1>1. ASSUME IInv, [Next]_vars
        PROVE  \A t \in Transfers : sessions[t].status # "none" /\ ~isTransferUsable(t)
                                       => ~isTransferUsable(t)'
    <2> SUFFICES ASSUME NEW t \in Transfers, sessions[t].status # "none", ~isTransferUsable(t)
                 PROVE  ~isTransferUsable(t)'
      OBVIOUS
    <2>1. /\ now' \in Nat /\ now <= now' /\ Created(t)
          /\ sessions'[t].expiresAt = sessions[t].expiresAt
          /\ sessions[t].status \in Final => sessions'[t].status = sessions[t].status
      BY <1>1, StepEffect DEF Created
    <2>2. now \in Nat /\ sessions[t].expiresAt \in Nat
      BY <1>1 DEF IInv, TypeOK, Session
    <2> QED
      BY <2>1, <2>2 DEF isTransferUsable
  <1>2. IInv /\ [Next]_vars =>
          [\A t \in Transfers : sessions[t].status # "none" /\ ~isTransferUsable(t)
                                   => ~isTransferUsable(t)']_vars
    BY <1>1
  <1> QED
    BY <1>2, Invariance, PTL DEF Spec, DeadStaysDead

\* No ticket is stored for a transfer that ended or expired while the request for it was under
\* way (IssueBrowserReceiverTicket's second look at the record).
THEOREM DeadGetsNoTicket == Spec => NoTicketForDead
  <1>1. IInv /\ [Next]_vars =>
          [\A t \in Transfers : sessions[t].ticket' # sessions[t].ticket => isTransferUsable(t)]_vars
    BY StepEffect
  <1> QED
    BY <1>1, Invariance, PTL DEF Spec, NoTicketForDead

\* A ticket that was replaced is never stored again: requests that issue tickets for the same
\* transfer may store them in any order, each one once (IssueBrowserReceiverTicket).
THEOREM ReplacedIsReplaced == Spec => ReplacedStaysReplaced
  <1> DEFINE A == \A t \in Transfers : sessions[t].ticket' # sessions[t].ticket =>
                      \A g \in granted : g.ticket # sessions[t].ticket'
  <1>1. ASSUME IInv, [Next]_vars PROVE A
    <2>0. TypeOK /\ sessions \in [Transfers -> Session] /\ SnapshotsHold /\ NoneIsAbsent /\ DrawnIsFresh
      BY <1>1 DEF IInv, TypeOK, Records, Grants
    <2>1. CASE Tick \/ UNCHANGED vars
      BY <2>1 DEF Tick, vars
    <2>2. ASSUME NEW u \in Transfers, NEW target \in Targets, NEW ttl \in TTLs,
                 CreateTransfer(u, target, ttl)
          PROVE  A
      <3>1. sessions[u] = Absent
        BY <2>0, <2>2 DEF NoneIsAbsent, CreateTransfer
      <3> QED
        BY <2>0, <2>2, <3>1 DEF CreateTransfer, Absent
    <2>3. ASSUME NEW u \in Transfers, Update(u) PROVE A
      BY <2>0, <2>3, UpdateEffect
    <2>4. ASSUME NEW c \in Callers, Request(c) PROVE A
      <3>1. CASE StoreTicket(c)
        <4>1. calls[c].pc = "drawn"
          BY <3>1 DEF StoreTicket
        <4>2. calls[c].id \in Transfers
          BY <2>0, <4>1, Zenon DEF SnapshotsHold, Created
        <4>3. \A g \in granted : g.ticket # calls[c].ticket
          BY <2>0, <4>1 DEF DrawnIsFresh
        <4>4. /\ \A t \in Transfers \ {calls[c].id} : sessions'[t] = sessions[t]
              /\ sessions'[calls[c].id].ticket = calls[c].ticket
          BY <2>0, <3>1, <4>2 DEF StoreTicket, Session
        <4> QED
          BY <4>3, <4>4
      <3>2. CASE ~StoreTicket(c)
        BY <2>4, <3>2 DEF Request, BeginIssue, BeginAdmit, DrawTicket, RefuseTicket, Admit, RefuseAdmit
      <3> QED
        BY <3>1, <3>2
    <2> QED
      BY <1>1, <2>1, <2>2, <2>3, <2>4 DEF Next
  <1>2. IInv /\ [Next]_vars => [A]_vars
    BY <1>1
  <1> QED
    BY <1>2, Invariance, PTL DEF Spec, ReplacedStaysReplaced

----------------------------------------------------------------------------
(* The refinement of the abstract lifecycle                                *)

StatusMap == [t \in Transfers |-> sessions[t].status]

\* A step that changes the status of one transfer, seen in the abstract specification.
LEMMA StatusMoves ==
  ASSUME sessions \in [Transfers -> Session], sessions' \in [Transfers -> Session'],
         NEW t \in Transfers, \A u \in Transfers \ {t} : sessions'[u] = sessions[u]
  PROVE  StatusMap' = [StatusMap EXCEPT ![t] = sessions'[t].status]
  BY DEF StatusMap

\* The status a transition finds and the one it leaves, by the abstract action it implements.
LEMMA UpdateMoves ==
  ASSUME TypeOK, NEW t \in Transfers, Update(t)
  PROVE  \/ <<sessions[t].status, sessions'[t].status>> \in Lifecycle!Forward \cup Lifecycle!Broken
         \/ sessions[t].status = "transferring" /\ sessions'[t].status = "completed"
         \/ /\ sessions[t].status \in Lifecycle!Open
            /\ sessions'[t].status \in Lifecycle!Final \ {"completed"}
  <1>0. sessions \in [Transfers -> Session] /\ sessions[t] \in Session
    BY DEF TypeOK
  <1> DEFINE from == sessions[t].status
             to   == sessions'[t].status
  <1>1. CASE MarkOffered(t)
    <2>1. from = "created" /\ to = "offered"
      BY <1>0, <1>1 DEF MarkOffered, transition, Session
    <2> QED
      BY <2>1 DEF Lifecycle!Forward
  <1>2. CASE MarkAccepted(t)
    <2>1. from = "offered" /\ to = "accepted"
      BY <1>0, <1>2 DEF MarkAccepted, transition, Session
    <2> QED
      BY <2>1 DEF Lifecycle!Forward
  <1>3. CASE MarkConnecting(t)
    <2>1. from \in {"retryable", "accepted"} /\ to = "connecting"
      BY <1>0, <1>3 DEF MarkConnecting, transition, Session
    <2> QED
      BY <2>1 DEF Lifecycle!Forward
  <1>4. CASE MarkTransferStarted(t)
    <2>1. from = "connecting" /\ to = "transferring"
      BY <1>0, <1>4 DEF MarkTransferStarted, transition, Session
    <2> QED
      BY <2>1 DEF Lifecycle!Forward
  <1>5. CASE MarkRetryable(t)
    <2>1. from = "interrupted" /\ to = "retryable"
      BY <1>0, <1>5 DEF MarkRetryable, transition, Session
    <2> QED
      BY <2>1 DEF Lifecycle!Forward
  <1>6. CASE MarkCompleted(t)
    BY <1>0, <1>6 DEF MarkCompleted, Session
  <1>7. CASE MarkInterrupted(t)
    <2>1. from \in {"connecting", "transferring"} /\ to = "interrupted"
      BY <1>0, <1>7 DEF MarkInterrupted, Session
    <2> QED
      BY <2>1 DEF Lifecycle!Broken
  <1>o. Open \subseteq Lifecycle!Open
    BY DEF Open, Statuses, Final, Lifecycle!Open
  <1>8. CASE MarkFailed(t)
    <2>1. from \in Open /\ to = "failed"
      BY <1>0, <1>8 DEF MarkFailed, Session
    <2> QED
      BY <1>o, <2>1 DEF Lifecycle!Final
  <1>9. CASE Cancel(t)
    <2>1. from \in Open /\ to = "cancelled"
      BY <1>0, <1>9 DEF Cancel, Session
    <2> QED
      BY <1>o, <2>1 DEF Lifecycle!Final
  <1>10. CASE Expire(t)
    <2>1. from \in Open /\ to = "expired"
      BY <1>0, <1>10 DEF Expire, Session
    <2> QED
      BY <1>o, <2>1 DEF Lifecycle!Final
  <1> QED
    BY <1>1, <1>2, <1>3, <1>4, <1>5, <1>6, <1>7, <1>8, <1>9, <1>10 DEF Update

\* The initial records are the abstract initial state.
LEMMA LifecycleInit == Init => Lifecycle!Init
  BY DEF Init, Absent, Lifecycle!Init

\* Every step of the server is a step of the lifecycle of one transfer or of none.
LEMMA LifecycleStep == IInv /\ [Next]_vars => [Lifecycle!Next]_StatusMap
  <1> SUFFICES ASSUME IInv, [Next]_vars PROVE [Lifecycle!Next]_StatusMap
    OBVIOUS
  <1>0. TypeOK /\ sessions \in [Transfers -> Session] /\ SnapshotsHold
    BY DEF IInv, TypeOK
  <1>t. sessions' \in [Transfers -> Session']
    BY InvStep DEF IInv, TypeOK
  <1>1. ASSUME NEW t \in Transfers, NEW target \in Targets, NEW ttl \in TTLs,
               CreateTransfer(t, target, ttl)
        PROVE  Lifecycle!Next
    <2>1. /\ sessions[t].status = "none" /\ sessions'[t].status = "created"
          /\ \A u \in Transfers \ {t} : sessions'[u] = sessions[u]
      BY <1>0, <1>1 DEF CreateTransfer, Absent
    <2>2. StatusMap' = [StatusMap EXCEPT ![t] = "created"] /\ StatusMap[t] = "none"
      BY <1>0, <1>t, <2>1, StatusMoves DEF StatusMap
    <2> QED
      BY <2>2 DEF Lifecycle!Next, Lifecycle!Create, Lifecycle!Become, StatusMap
  <1>2. ASSUME NEW t \in Transfers, Update(t) PROVE Lifecycle!Next
    <2> DEFINE from == sessions[t].status
               to   == sessions'[t].status
    <2>1. StatusMap' = [StatusMap EXCEPT ![t] = to] /\ StatusMap[t] = from
      BY <1>0, <1>t, <1>2, StatusMoves, UpdateEffect DEF StatusMap
    <2>2. \/ <<from, to>> \in Lifecycle!Forward \cup Lifecycle!Broken
          \/ from = "transferring" /\ to = "completed"
          \/ from \in Lifecycle!Open /\ to \in Lifecycle!Final \ {"completed"}
      BY <1>0, <1>2, UpdateMoves
    <2> HIDE DEF from, to
    <2>3. CASE <<from, to>> \in Lifecycle!Forward \cup Lifecycle!Broken
      <3>1. \E move \in Lifecycle!Forward \cup Lifecycle!Broken : from = move[1] /\ to = move[2]
        BY <2>3
      <3> QED
        BY <2>1, <3>1 DEF Lifecycle!Next, Lifecycle!Proceed, Lifecycle!Become, StatusMap
    <2>4. CASE from = "transferring" /\ to = "completed"
      BY <2>1, <2>4 DEF Lifecycle!Next, Lifecycle!Finish, Lifecycle!Become, StatusMap
    <2>5. CASE from \in Lifecycle!Open /\ to \in Lifecycle!Final \ {"completed"}
      BY <2>1, <2>5 DEF Lifecycle!Next, Lifecycle!GiveUp, Lifecycle!Become, StatusMap
    <2> QED
      BY <2>2, <2>3, <2>4, <2>5
  <1>3. ASSUME NEW c \in Callers, Request(c) PROVE UNCHANGED StatusMap
    <2>1. CASE StoreTicket(c)
      <3>1. calls[c].pc # "idle"
        BY <2>1 DEF StoreTicket
      <3>2. calls[c].id \in Transfers
        BY <1>0, <3>1, Zenon DEF SnapshotsHold, Created
      <3>3. \A u \in Transfers : sessions'[u].status = sessions[u].status
        BY <1>0, <2>1, <3>2 DEF StoreTicket, Session
      <3> QED
        BY <3>3 DEF StatusMap
    <2>2. CASE ~StoreTicket(c)
      BY <1>3, <2>2 DEF StatusMap, Request, BeginIssue, BeginAdmit, DrawTicket, RefuseTicket, Admit,
                        RefuseAdmit
    <2> QED
      BY <2>1, <2>2
  <1>4. CASE Tick \/ UNCHANGED vars
    BY <1>4 DEF StatusMap, Tick, vars
  <1> QED
    BY <1>1, <1>2, <1>3, <1>4 DEF Next

\* The server's records implement the abstract lifecycle: however requests interleave, a transfer
\* moves forward, is interrupted only while its endpoints are connected, and ends once.
THEOREM LifecycleRefined == Spec => FollowsLifecycle
  <1>1. Init => Lifecycle!Init
    BY LifecycleInit
  <1>2. IInv /\ [Next]_vars => [Lifecycle!Next]_([t \in Transfers |-> sessions[t].status])
    BY LifecycleStep DEF StatusMap
  <1> QED
    BY <1>1, <1>2, Invariance, PTL DEF Spec, FollowsLifecycle, Lifecycle!Spec
=============================================================================
