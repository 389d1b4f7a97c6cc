-------------------------- MODULE TransferSessions --------------------------
(***************************************************************************)
(* The server's record of transfers: TransferSession and its transitions,  *)
(* the repository that applies an update under a lock, the Service on top  *)
(* of it, and the clock that makes a transfer unusable without anybody     *)
(* touching its record.                                                    *)
(*                                                                         *)
(* IssueBrowserReceiverTicket and VerifyBrowserReceiverTicket read a       *)
(* snapshot and act on it later; every such request is a caller with its   *)
(* own locals, and any number of other requests may run in between.  A     *)
(* request that is refused changes nothing and is not an action, except    *)
(* where it ends a request already under way.                              *)
(*                                                                         *)
(* Tokens and tickets are random: a public token is identified with its    *)
(* transfer, a receiver ticket with the number of the ticket drawn; a      *)
(* number that was not drawn is a ticket somebody made up.                 *)
(***************************************************************************)
EXTENDS Naturals

CONSTANTS
    Transfers,   \* transfer ids
    Callers,     \* concurrent requests on the public API
    None,        \* no transfer
    TTLs,        \* CreateTransferInput.TTL
    TicketTTL,   \* receiverTicketTTL
    MaxTime,     \* bound: the last instant
    MaxTickets   \* bound: tickets drawn

ASSUME TimeAssumption   == TTLs \subseteq Nat \ {0} /\ TicketTTL \in Nat \ {0} /\ MaxTime \in Nat
ASSUME TicketAssumption == MaxTickets \in Nat
ASSUME NoneAssumption   == None \notin Transfers

NoTicket == 0

VARIABLES
    now,      \* the server's clock
    sessions, \* the repository
    drawn,    \* receiver tickets drawn so far
    calls,    \* per caller: the locals of its request
    granted,  \* history: tickets handed to a browser, with the expiry it was told
    admitted  \* history: browser connections accepted

vars == <<now, sessions, drawn, calls, granted, admitted>>

Targets  == {"agent", "browser_link"}
Final    == {"completed", "failed", "cancelled", "expired"}
Statuses == {"none", "created", "offered", "accepted", "connecting", "transferring",
             "interrupted", "retryable"} \cup Final

Min2(a, b) == IF a < b THEN a ELSE b

Absent == [status |-> "none", target |-> "agent", expiresAt |-> 0, ticket |-> NoTicket,
           ticketExpiresAt |-> 0, downloads |-> 0, stamps |-> {}, reason |-> FALSE]

Idle == [pc |-> "idle", id |-> None, ticket |-> NoTicket, expiresAt |-> 0]

Init ==
    /\ now = 0 /\ drawn = 0
    /\ sessions = [t \in Transfers |-> Absent]
    /\ calls = [c \in Callers |-> Idle]
    /\ granted = {} /\ admitted = {}

\* isTransferUsable: not terminal, and before its expiry.
isTransferUsable(t) ==
    sessions[t].status \notin Final \cup {"none"} /\ now < sessions[t].expiresAt

\* VerifyPublicToken: the token's transfer is a usable browser link.
VerifyPublicToken(t) == sessions[t].target = "browser_link" /\ isTransferUsable(t)

Tick ==
    /\ now < MaxTime
    /\ now' = now + 1
    /\ UNCHANGED <<sessions, drawn, calls, granted, admitted>>

CreateTransfer(t, target, ttl) ==
    /\ sessions[t].status = "none"
    /\ sessions' = [sessions EXCEPT ![t] = [Absent EXCEPT !.status = "created",
                                            !.target = target, !.expiresAt = now + ttl]]
    /\ UNCHANGED <<now, drawn, calls, granted, admitted>>

----------------------------------------------------------------------------
(* repo.Update with the transitions of TransferSession                     *)

\* transition: from one status to the next; a terminal session refuses.
transition(t, from, to) ==
    /\ sessions[t].status \in from \ Final
    /\ sessions' = [sessions EXCEPT ![t].status = to]

Open == Statuses \ (Final \cup {"none"})

Rest == UNCHANGED <<now, drawn, calls, granted, admitted>>

\* Seeded fault: connecting gives the transfer a fresh life time.
MarkConnectingRenews(t) ==
    /\ sessions[t].status \in {"retryable", "accepted"}
    /\ \E ttl \in TTLs : sessions' = [sessions EXCEPT ![t].status = "connecting",
                                                      ![t].expiresAt = now + ttl]
    /\ Rest

MarkOffered(t)         == transition(t, {"created"}, "offered") /\ Rest
MarkAccepted(t)        == transition(t, {"offered"}, "accepted") /\ Rest
MarkConnecting(t)      == transition(t, {"retryable", "accepted"}, "connecting") /\ Rest
MarkTransferStarted(t) == transition(t, {"connecting"}, "transferring") /\ Rest
MarkRetryable(t)       == transition(t, {"interrupted"}, "retryable") /\ Rest

\* Seeded fault: a retried transfer counts its download when it starts again.
MarkCompletedTwice(t) ==
    /\ sessions[t].status \in {"transferring", "interrupted"}
    /\ sessions' = [sessions EXCEPT
                      ![t].status = IF @ = "transferring" THEN "completed" ELSE "retryable",
                      ![t].downloads = @ + 1, ![t].stamps = @ \cup {"completed"}]
    /\ Rest

MarkCompleted(t) ==
    /\ sessions[t].status = "transferring"
    /\ sessions' = [sessions EXCEPT ![t].status = "completed", ![t].downloads = @ + 1,
                                    ![t].stamps = @ \cup {"completed"}]
    /\ Rest

\* Seeded fault: a transfer can be interrupted before its endpoints connect.
MarkInterruptedEarly(t) ==
    /\ sessions[t].status \in {"accepted", "connecting", "transferring"}
    /\ sessions' = [sessions EXCEPT ![t].status = "interrupted", ![t].reason = TRUE,
                                    ![t].stamps = @ \cup {"interrupted"}]
    /\ Rest

MarkInterrupted(t) ==
    /\ sessions[t].status \in {"connecting", "transferring"}
    /\ sessions' = [sessions EXCEPT ![t].status = "interrupted", ![t].reason = TRUE,
                                    ![t].stamps = @ \cup {"interrupted"}]
    /\ Rest

\* Seeded fault: only a completed transfer refuses to fail.
MarkFailedAgain(t) ==
    /\ sessions[t].status \notin {"none", "completed"}
    /\ sessions' = [sessions EXCEPT ![t].status = "failed", ![t].reason = TRUE,
                                    ![t].stamps = @ \cup {"failed"}]
    /\ Rest

MarkFailed(t) ==
    /\ sessions[t].status \in Open
    /\ sessions' = [sessions EXCEPT ![t].status = "failed", ![t].reason = TRUE,
                                    ![t].stamps = @ \cup {"failed"}]
    /\ Rest

Cancel(t) ==
    /\ sessions[t].status \in Open
    /\ sessions' = [sessions EXCEPT ![t].status = "cancelled", ![t].stamps = @ \cup {"cancelled"}]
    /\ Rest

\* Expire marks the record; nothing ties it to the clock.
Expire(t) ==
    /\ sessions[t].status \in Open
    /\ sessions' = [sessions EXCEPT ![t].status = "expired", ![t].stamps = @ \cup {"expired"}]
    /\ Rest

----------------------------------------------------------------------------
(* Requests of a browser                                                   *)

\* IssueBrowserReceiverTicket, first read: consent, token and password hold.
BeginIssue(c, t) ==
    /\ calls[c].pc = "idle"
    /\ VerifyPublicToken(t)
    /\ calls' = [calls EXCEPT ![c].pc = "verified", ![c].id = t]
    /\ UNCHANGED <<now, sessions, drawn, granted, admitted>>

\* Seeded fault: two requests may draw the same ticket.
DrawTicketTwice(c) ==
    /\ calls[c].pc = "verified" /\ drawn < MaxTickets
    /\ calls' = [calls EXCEPT ![c].pc = "drawn", ![c].ticket = drawn + 1,
                              ![c].expiresAt = Min2(now + TicketTTL,
                                                    sessions[calls[c].id].expiresAt)]
    /\ UNCHANGED <<now, sessions, drawn, granted, admitted>>

\* Seeded fault: the ticket's life is not capped by the transfer's.
DrawTicketUncapped(c) ==
    /\ calls[c].pc = "verified" /\ drawn < MaxTickets
    /\ drawn' = drawn + 1
    /\ calls' = [calls EXCEPT ![c].pc = "drawn", ![c].ticket = drawn + 1,
                              ![c].expiresAt = now + TicketTTL]
    /\ UNCHANGED <<now, sessions, granted, admitted>>

\* The clock is read and a ticket drawn; ExpiresAt comes from the snapshot.
DrawTicket(c) ==
    /\ calls[c].pc = "verified" /\ drawn < MaxTickets
    /\ drawn' = drawn + 1
    /\ calls' = [calls EXCEPT ![c].pc = "drawn", ![c].ticket = drawn + 1,
                              ![c].expiresAt = Min2(now + TicketTTL,
                                                    sessions[calls[c].id].expiresAt)]
    /\ UNCHANGED <<now, sessions, granted, admitted>>

\* Seeded fault: the update trusts the snapshot the request began with.
StoreTicketBlindly(c) ==
    LET k == calls[c]
    IN  /\ k.pc = "drawn"
        /\ sessions' = [sessions EXCEPT ![k.id].ticket = k.ticket,
                                        ![k.id].ticketExpiresAt = k.expiresAt]
        /\ granted' = granted \cup {[id |-> k.id, ticket |-> k.ticket, expiresAt |-> k.expiresAt]}
        /\ calls' = [calls EXCEPT ![c] = Idle]
        /\ UNCHANGED <<now, drawn, admitted>>

\* The update looks at the record again, overwrites an older ticket, and the
\* raw ticket goes to the browser.
StoreTicket(c) ==
    LET k == calls[c]
    IN  /\ k.pc = "drawn" /\ VerifyPublicToken(k.id)
        /\ sessions' = [sessions EXCEPT ![k.id].ticket = k.ticket,
                                        ![k.id].ticketExpiresAt = k.expiresAt]
        /\ granted' = granted \cup {[id |-> k.id, ticket |-> k.ticket, expiresAt |-> k.expiresAt]}
        /\ calls' = [calls EXCEPT ![c] = Idle]
        /\ UNCHANGED <<now, drawn, admitted>>

\* The transfer ended or expired between the two reads.
RefuseTicket(c) ==
    /\ calls[c].pc = "drawn" /\ ~VerifyPublicToken(calls[c].id)
    /\ calls' = [calls EXCEPT ![c] = Idle]
    /\ UNCHANGED <<now, sessions, drawn, granted, admitted>>

\* Seeded fault: a ticket opens every transfer, not only the one it was issued for.
BeginAdmitUnbound(c, t, k) ==
    /\ calls[c].pc = "idle" /\ VerifyPublicToken(t) /\ sessions[t].ticket # NoTicket
    /\ \E u \in Transfers : sessions[u].ticket = k
    /\ calls' = [calls EXCEPT ![c] = [pc |-> "checking", id |-> t, ticket |-> k,
                                      expiresAt |-> sessions[t].ticketExpiresAt]]
    /\ UNCHANGED <<now, sessions, drawn, granted, admitted>>

\* VerifyBrowserReceiverTicket with the token of transfer t and the ticket k: one was issued for
\* the transfer, and the hash in the snapshot is that of k bound to this transfer.
BeginAdmit(c, t, k) ==
    /\ calls[c].pc = "idle" /\ VerifyPublicToken(t)
    /\ sessions[t].ticket # NoTicket /\ sessions[t].ticket = k
    /\ calls' = [calls EXCEPT ![c] = [pc |-> "checking", id |-> t, ticket |-> k,
                                      expiresAt |-> sessions[t].ticketExpiresAt]]
    /\ UNCHANGED <<now, sessions, drawn, granted, admitted>>

\* Then the clock is read again; a ticket that is still fresh admits.
Admit(c) ==
    /\ calls[c].pc = "checking" /\ now < calls[c].expiresAt
    /\ admitted' = admitted \cup {[id |-> calls[c].id, ticket |-> calls[c].ticket, at |-> now]}
    /\ calls' = [calls EXCEPT ![c] = Idle]
    /\ UNCHANGED <<now, sessions, drawn, granted>>

RefuseAdmit(c) ==
    /\ calls[c].pc = "checking" /\ now >= calls[c].expiresAt
    /\ calls' = [calls EXCEPT ![c] = Idle]
    /\ UNCHANGED <<now, sessions, drawn, granted, admitted>>

----------------------------------------------------------------------------
\* What a browser may present: a ticket of this or of another transfer, replaced or not, one
\* that was never issued, or none.
Presented == NoTicket..MaxTickets

Update(t) ==
    \/ MarkOffered(t) \/ MarkAccepted(t) \/ MarkConnecting(t) \/ MarkTransferStarted(t)
    \/ MarkRetryable(t) \/ MarkCompleted(t) \/ MarkInterrupted(t) \/ MarkFailed(t)
    \/ Cancel(t) \/ Expire(t)

Request(c) ==
    \/ \E t \in Transfers : BeginIssue(c, t)
    \/ \E t \in Transfers, k \in Presented : BeginAdmit(c, t, k)
    \/ DrawTicket(c) \/ StoreTicket(c) \/ RefuseTicket(c) \/ Admit(c) \/ RefuseAdmit(c)

Next ==
    \/ Tick
    \/ \E t \in Transfers, target \in Targets, ttl \in TTLs : CreateTransfer(t, target, ttl)
    \/ \E t \in Transfers : Update(t)
    \/ \E c \in Callers : Request(c)

Spec == Init /\ [][Next]_vars

----------------------------------------------------------------------------
(* Properties                                                              *)

Session == [status : Statuses, target : Targets, expiresAt : Nat, ticket : 0..drawn,
            ticketExpiresAt : Nat, downloads : Nat,
            stamps : SUBSET (Final \cup {"interrupted"}), reason : BOOLEAN]

Call == [pc : {"idle", "verified", "drawn", "checking"}, id : Transfers \cup {None},
         ticket : 0..drawn, expiresAt : Nat]

\* The type of every variable; no ticket is in use that was not drawn.
TypeOK ==
    /\ now \in Nat /\ drawn \in 0..MaxTickets
    /\ sessions \in [Transfers -> Session]
    /\ calls \in [Callers -> Call]
    /\ granted \subseteq [id : Transfers, ticket : 1..drawn, expiresAt : Nat]
    /\ admitted \subseteq [id : Transfers, ticket : 1..drawn, at : 0..now]

\* The receiver ticket of a transfer never outlives the transfer.
TicketWithinTransfer == \A t \in Transfers : sessions[t].ticketExpiresAt <= sessions[t].expiresAt

\* Whatever token and ticket a browser presents, it is let in only with a ticket that was handed
\* out for that very transfer and before the expiry told with it, although the ticket may be
\* replaced between the snapshot and the admission.
AdmittedWithTicket ==
    \A a \in admitted :
        \E g \in granted : g.id = a.id /\ g.ticket = a.ticket /\ a.at < g.expiresAt

\* A ticket that another request replaced stays replaced: what is stored is never a ticket that
\* somebody holds already, of this transfer or of another.
ReplacedStaysReplaced ==
    [][\A t \in Transfers : sessions[t].ticket' # sessions[t].ticket =>
           \A g \in granted : g.ticket # sessions[t].ticket']_vars

\* A transfer that has stopped being usable, by status or by clock, is never
\* usable again.
DeadStaysDead ==
    [][\A t \in Transfers : sessions[t].status # "none" /\ ~isTransferUsable(t)
                               => ~isTransferUsable(t)']_vars

\* No ticket is stored for a transfer that ended or expired while the request
\* for it was under way.
NoTicketForDead ==
    [][\A t \in Transfers : sessions[t].ticket' # sessions[t].ticket => isTransferUsable(t)]_vars

\* A transfer is downloaded once, and only a completed one was downloaded.
CountsDownloads ==
    \A t \in Transfers : sessions[t].downloads = IF sessions[t].status = "completed" THEN 1 ELSE 0

\* Of the four final time stamps exactly the one of the final status is set,
\* and what broke or failed says why.
StampsTellStatus ==
    \A t \in Transfers :
        LET s == sessions[t]
        IN  /\ s.stamps \cap Final = {s.status} \cap Final
            /\ s.reason <=> s.stamps \cap {"failed", "interrupted"} # {}

Lifecycle == INSTANCE TransferLifecycle WITH status <- [t \in Transfers |-> sessions[t].status]

\* Whatever requests and transitions interleave, every transfer's status follows the
\* abstract lifecycle, expiry by the clock and retries included.
FollowsLifecycle == Lifecycle!Spec
=============================================================================
