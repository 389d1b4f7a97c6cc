# A TLA+ model of Postamat

Postamat moves one file from an agent to another agent, or to a browser, over an
encrypted WebRTC data channel. A small server keeps a record of the transfer and
relays signaling messages; it never sees the file. This directory models the parts
of it in which state is shared, read early and used late, or lost half-way: the data
stream and its resumes, the agent's jobs, the inbox, the negotiation between two ends,
the page of a browser recipient, the server's transfer records and the signaling rooms.

## The system

| component | state | operations | talks to |
|---|---|---|---|
| chunk stream (`internal/p2p/sender.go`, `receiver.go`, `chunks.go`; `runLiveSenderOnce`, `runLiveReceiverOnce` in `internal/agentd/backend_client.go`; `transfer_runtime.go`) | offsets, sequence numbers and running digests of both ends; the `.part` file; the destination | stream, resume from a prefix, accept a frame, truncate, commit without replacing | the data channel, the file system, the receive job |
| agent jobs (`internal/agentd/jobs.go`) | per job: status, progress, ids, key | `MarkOffered` ... `Complete`, `Fail`, `Cancel`, `ClaimRetryable`, each under one lock | everybody in the daemon |
| backend loop (`backend_client.go`) | the map of live sessions (peer, owner, done channel) | `RunReceiver`, `RunTransfer`, `handleEnvelope`, `CancelTransfer`, one live goroutine per session | the server's WebSocket, the jobs, the stream |
| local API (`internal/agentd/api.go`) | none of its own | create, resume, cancel; it judges the error of a run that ended | jobs, backend loop |
| transfer sessions (`internal/sessions`, `internal/api/public_transfer.go`) | per transfer: status, expiry, receiver ticket, download count, time stamps | twelve transitions; issuing and verifying receiver tickets | the clock, HTTP requests, WebSocket admission |
| signaling (`internal/signaling`, `internal/api/ws.go`) | rooms (always-on and per transfer), presence | register, attach, authorise, route, detach | sessions (is the transfer usable), sockets |
| WebRTC peers (`internal/p2p/webrtc.go`) | per peer: descriptions, held candidates, open and done channels | offer, answer, add a candidate, flush, close | the other end's peer, the live session |
| inbox (`internal/agentd/inbox.go`) | reserved destinations, metadata files | reserve a unique name | file system, receiver goroutines |
| browser recipient (`web/recipient/src/main.ts`) | receive states of a page: peer, pending candidates, chunks | connect, import the key, answer, receive frames, offer the download | signaling, data channel |
| local runner (`LocalWebRTCTransferRunner`, used by tests) | two jobs and a stream in one process | run, resume | jobs, stream |
| encryption, SQL repositories, authentication, audit, CLI | | | |

What is hard here:

* **goroutines over one job.** The `JobManager` makes each call atomic, but the helpers
  above it read a copy and then make up to four calls. The always-on loop, one or more
  runs, live senders and receivers and API requests all do so for the same job.
* **attempts over one file.** A transfer is retried over new peer connections, while a
  receiver goroutine of the last attempt may still hold the partial file.
* **a source that is not frozen.** The sender re-reads the file for every attempt.
* **snapshots.** Tickets and admissions are decided on a copy of the transfer record; a
  run's error is judged by comparing time stamps of copies.
* **two locks for one fact.** Rooms and presence are locked separately.
* **messages that overtake.** Candidates have a goroutine of their own and arrive before
  or after the description they belong to; a run that ends leaves messages unread.
* **two readers of one format.** A Go receiver and a page decode the same frames.
* **a directory that is not ours.** The inbox shares its names with metadata files,
  partial files and whatever the user puts there, and outlives the daemon.
* **the clock.** A transfer dies by time alone, without an update of its record.

`PROJECT.json` lists these, line by line, under `hazards`, with the properties that
would catch each going wrong.

## The modules

| module | models | composed with |
|---|---|---|
| `ChunkStream` | one transfer's data plane over several attempts | |
| `ChunkStreamProofs` | theorems about `ChunkStream` | extends `ChunkStream` |
| `TransferSessions` | the server's transfer records, their requests and the clock | `INSTANCE TransferLifecycle` |
| `TransferSessionsProofs` | theorems about `TransferSessions` | extends it |
| `TransferLifecycle` | abstract: what the life of a transfer promises | |
| `Signaling` | sockets, rooms, presence, routing | |
| `SignalingProofs` | theorems about `Signaling` | extends it |
| `JobRuntime` | one job of an agent and every goroutine that moves it | `INSTANCE JobLifecycle` |
| `JobRuntimeProofs` | theorems about `JobRuntime` | extends it |
| `JobLifecycle` | abstract: what a client of the local API sees of a job | |
| `Inbox` | the inbox directory: reservations, receivers' files, user, restarts | |
| `InboxProofs` | theorems about `Inbox` | extends it |
| `LiveWire` | what two ends share: sockets, peers, data channel, frames | |
| `LiveSender` | the sending daemon: runs, loop, live senders | extends `LiveWire` |
| `AgentRecipient` | the receiving daemon: loop, live receivers, partial file | extends `LiveWire` |
| `BrowserRecipient` | the recipient page | extends `LiveWire` |
| `LiveTransfer` | one transfer from end to end | extends the three above |
| `LiveTransferProofs` | theorems about `LiveTransfer`: what is delivered | extends it |
| `LiveLedgerProofs` | theorems about `LiveTransfer`: the candidates | extends `LiveTransferProofs` |
| `LiveCandidatesProofs` | theorems about `LiveTransfer`: no candidate is lost | extends `LiveLedgerProofs` |
| `MC...` | values of constants and symmetry for TLC | extends its component |

Definitions that begin with the comment "Seeded fault" belong to no specification.
Each is a plausible mistake in the code, and `PROJECT.json` names, for every property
of every run, one that the property catches.

### ChunkStream

A byte is a member of `Block`, a digest is the content it is the digest of, so that
SHA-256 is taken to be collision free. Every attempt `a` has a sender (`snd[a]`, the
locals of `StreamReader`), a channel (`net[a]`, `up[a]`) and a receiver (`rcv[a]`, the
locals of `runLiveReceiverOnce` and `p2p.Receiver`). All attempts share the receive job,
the partial path and the destination path. Files are inodes (`file`), because a
goroutine keeps its handle when another one removes or recreates the path (`part`).

The sender's actions are `SenderStart` (size check, resume manifest, digest of the
skipped prefix), one `SendChunk` per read, `SendSentinel` for the empty file,
`SendManifest` and `SenderStop`. The receiver's are `ReceiverStart`, the two ways to
prepare the partial file and their errors, one `AcceptChunk` per frame (the progress is
reported to the sender also when the job refuses to record it),
`AcceptManifest`, `RefuseFrame`, `ReceiverInterrupted` (the `retryable` closure, with its
truncation), `Commit`, `CommitError`, `Complete`; `ReceiverReturn` is the deferred
clean-up and closing of the session. The environment opens attempts, cuts connections,
delivers `transfer.retryable` and terminal messages, rewrites the source and damages the
partial file.

The sender resumes at 0 or at any progress value the receiver ever reported. Which one
the sender's job really holds is decided by the control plane; the model allows all.
The helpers on the job are atomic here; their interleavings are `JobRuntime`'s subject.
`Commit` is one step: the exclusive create, the copy, both digests and the removal of
the partial. In the code the destination path exists from the exclusive create on, so
that for a moment an unverified copy is visible there; the properties speak of
destinations whose commit returned.

### TransferSessions

`sessions` is the repository; every `Mark...` action is one locked `Update`. A request on
the public API is a caller with locals: `BeginIssue` reads the transfer by its public
token, `DrawTicket` draws the ticket and computes its lifetime from that copy,
`StoreTicket` or `RefuseTicket` is the update; `BeginAdmit`, `Admit`, `RefuseAdmit` are
the same for a browser's WebSocket, which may present any ticket with any public token
(`Presented`); the stored hash binds a ticket to its transfer. `Tick` is the clock. A refused request changes
nothing and is an action only where it ends a request under way.

### Signaling

`handler[c]` is the goroutine of connection `c`: `Register`, `Attach`, then `Receive`,
`Authorize` or `Refuse`, the look-up in the transfer's room and then in the agent's,
`trackActive`, `Send`, and after a `Drop` the two steps `detachLocked` and `Disconnect`.
`Retire` ends a transfer at any moment (its record, or its time, is over). The server
installs no disconnect callback, so that `active` is only written.

### JobRuntime

A goroutine is a place (`pc`) and a list of calls still to make (`todo`). A call of the
`JobManager` is a function on the statuses it accepts (`Moves`), applied by `update` or
refused by `updateError`, which drops the rest of the list. A helper's name is replaced,
at the moment it reads the job (`Decide`), by the calls it decides on. `touched` holds the
runs whose copy of the job has an older `UpdatedAt`; two updates within one clock tick
are taken to be ordered. `current`, `owner` and `closed` are the map of live sessions.
The peer is an environment that sends any message of `Mail` that the code's own checks
and the server's routing would let through (`Sent`, `Routed`). The job is a send or a
receive job (`job.direction`, one of `Directions`). A receive job is created offered, gets its
key and is accepted in three calls, all under the lock that `closeLiveSession` needs
(`OfferLocked`). `startSenderWebRTC` may find no key, or be unable to make the peer or its
offer (`Complain`); `handleWebRTCOffer` is refused by a peer that is already in the map. An
interrupted receiver first makes the job retryable (`ReceiverInterrupted`), then looks at its
partial file and corrects the progress, or fails the job (`ReceiverKeepsPartial`). Errors of
the file system that the receiver returns without telling the job are part of `LiveReturns`.

### Inbox

`files` is the directory: what is at each path and who made it. Paths are sequences of
tokens, so that `a (1).part` is three tokens and the by-products of a name (`Partial`,
`Metadata`) are names like others. `ReserveChoose` and `Reserve` are the two halves of
`Inbox.Reserve`: the choice of a candidate under the lock, and the exclusive create of its
metadata file. Then every accepted transfer has a receiver goroutine with one action per
call of the file system that others can notice: `CheckDestination`,
`prepareLiveReceiverPartial` (which takes up whatever regular file of the right length is at
the partial path, whoever made it, and removes what does not fit),
`openPartialForAppend`, `Interrupted`, `Refused`, `CommitBegin` (the exclusive create) and
its two outcomes. `Restart` forgets entries and jobs at any moment. The user puts files
at names of interest and takes finished files and metadata away. He leaves partial and
half-copied files alone: damage to those is `ChunkStream`'s `RotPartial`.

### LiveWire, LiveSender, AgentRecipient, BrowserRecipient, LiveTransfer

A message is its type and a number (a progress, or the attempt a description or a
candidate belongs to). `mail` has one queue per socket: the run's, the always-on loop's,
the recipient's. A peer is `making` or `answering` between its local description, from
which on it gathers candidates, and the message that carries it, so that `Gather` may
overtake both. `held` is the peer's own queue of candidates, the session's is `pending`;
both have the limit `MaxPending`. A chunk of a file is its index, a digest is the content.
Frames carry their numbers through `omitempty`; `Number` reads them back as Go and the
page's `??` do, `manifestMatches` as the page does where it has no default.

`Handled` is what a reader does with a handler's error: a run ends, closes the session it
owns and is judged by `handleRunTransferError`; the loop fails the job and says so. On the
page, `imports` holds the handlers that wait for `importKey`; each makes a receive state,
and `feeds` remembers which one a data channel writes to.

The start of a job is the one helper whose steps another goroutine of the same daemon meets
in every transfer: the reader handles the peer's `transfer.started` while the live goroutine
starts the job itself. Each of `handleStarted`, `SenderStarts`, `AgentStarted` and
`ReceiverStarts` may therefore be refused when the other was faster (`StartRefusals`). A
refused reader fails the job or ends the run; a refused live goroutine returns without a word
to its peer (`backend_client.go:1157`). A closed pion connection may or may not refuse a late
candidate, hence `AddRefusals`. `late` remembers which of the two happened, and which reader had
a `transfer.started` to handle when the live goroutine started its job.

What this composition takes for granted:

* The other helpers on a job run to their end; `JobRuntime` is about what happens when they
  do not.
* A transfer is resumed once the last attempt has left nothing at work (`Calm`). The code does
  not enforce this: `handleResumeTransfer` (`api.go:198`) takes any retryable job at any time.
  Every result about `LiveTransfer` that speaks of a resume rests on this assumption; a resume
  on top of goroutines of the last attempt is in `JobRuntime` (the job and the live sessions)
  and, with `Overlap`, in `ChunkStream` (the files). With it one run is at work at a time, and
  a run closes the session it owns, so that `handleAccepted` never meets a session of another
  run (`backend_client.go:1330`, which `JobRuntime` has in `liveSessionForOwner`).
* `ToSender` routes to the run as long as it has not returned, and from then on to the loop.
  In the code a message that reaches the server after the run returned and before the server
  detached its socket is lost. `Signaling` has the late detach.
* The run's own socket does not break (that is `RunDisconnected` of `JobRuntime`), and the
  page is opened while the run is connected.

## The runs

Deadlock checking is off in all of them: a transfer, a job and a connection end, and
the bounded environment falls silent.

| run | checks | shows |
|---|---|---|
| `stream_integrity` | `TypeOK`, `CommittedWasPromised`, `CommittedIsSource`, `CompletedHasFile`, `PromisesSource`, `NoReplace` | with the source rewritten and the partial file damaged at any moment and two overlapping attempts, only a file whose digest a manifest carried is committed, it is the source if that was left alone, and nothing is replaced |
| `stream_retry` | `RetryableMatchesPartial`, `ResumedDelivers`, `ReceiverReturns` | attempts that do not overlap: a retryable job's progress is the length of its partial file; a resumed attempt whose ends agree on the offset delivers unless it is disturbed again; no receiver goroutine waits for ever |
| `sessions` | `TypeOK`, `TicketWithinTransfer`, `AdmittedWithTicket`, `CountsDownloads`, `StampsTellStatus`, `ReplacedStaysReplaced`, `NoTicketForDead`, `DeadStaysDead`, `FollowsLifecycle` | two transfers and two concurrent requests against the clock and all transitions; the records implement `TransferLifecycle`; browsers present any ticket with any public token (of the other transfer, replaced, never issued, none) and only the one granted for that transfer admits |
| `signaling_rooms` | `TypeOK`, `RoomsHoldLivePeers`, `NoGhosts`, `Isolation`, `NewerSurvives` | two always-on sockets of one device in a row, a counterpart's ticket socket and a browser, two transfers that end at any moment |
| `signaling_presence` (violation) | `PresenceTellsTruth` | see finding 1 |
| `jobs` | `TypeOK`, `InterruptedIsBrief`, `RunsBlameFairly`, `CompletedWasReported`, `CompletedHasCommit`, `FollowsLifecycle` | a send or a receive job under two runs, the loop, two live goroutines and a cancel request implements `JobLifecycle` |
| `job_start` (violation) | `FailedForCause` | see finding 2 |
| `inbox` | `TypeOK`, `DistinctDestinations`, `MetadataTellsOrigin`, `PartialsAreOwn`, `KeepsFinishedFiles` | names that are by-products of each other, a user, failed writes and restarts: no two transfers share a destination, metadata tells where a file came from, no finished file is lost but at a `.part` name |
| `inbox_part` (violation) | `DefendsAgainstCollisions` | see finding 3 |
| `live` | `TypeOK`, `DeliversSource`, `NoCandidateLost`, `UndisturbedDelivers`, `CutEndsAttempt` | five transfers from end to end: to an agent and to a page, empty and not, with too many candidates, with a cut and a resume; the goroutines of either end race to start its job |
| `live_resume` (violation) | `EndsAgreeOnOffset` | see finding 4 |
| `browser_empty` (violation) | `EmptyReachesBrowser` | see finding 5 |

**Bounds.** Three bytes and chunks of two give a full chunk and a short one; two attempts give
a resume and, where `Overlap` allows it, two goroutines over one partial file; a rewrite
to nothing gives the stream of an empty source, and an empty file that is offered as such
is one of the transfers of `live`. One rewrite is enough to tear a
stream and one fault to damage the partial, and the theorems show that no number of
attempts, cuts, rewrites and faults matters for safety. Transfers share nothing in the
repository but the tickets that browsers present, so two of them with two callers and two
tickets show every race between requests, a replaced ticket, and one presented where it does
not belong or before it was issued; one tick of the clock ends transfers and tickets at every
point of a request. There a ticket lives as long as its transfer; one that expires earlier
needs a longer clock and is left to the theorems `AdmissionIsSound` and `TicketsAreWithin`.
Four connections allow an old and a new socket of one device beside a counterpart's ticket
socket and a browser's. `MaxRouting` is 1: handlers share nothing
between envelopes but the maps, which the other connections change meanwhile. Two runs
and two live sessions are the least with which a run meets what another left behind;
four messages suffice to accept, answer and disturb, and the findings need three or
four. A file of size 1 distinguishes no progress from full progress, which is all the
job's guards look at. Two transfers named `a`, `a.part` or `a.postamat.json` are the least
in which a destination of one is a by-product of the other, four numbers are more than
they can use up, and two events allow a file that appears, or is taken away, before or
after a restart. In `live` two chunks give a resume in the middle; `MaxPending` 1 with one
candidate per peer is a queue that is just full, with two it overflows; one cut needs two
attempts and two runs. With three attempts or three runs `live` has the same states.

**Fairness.** `FairSpec` of `ChunkStream` asks weak fairness of each sender and receiver
goroutine: the Go scheduler runs a runnable goroutine, and a closed peer wakes the
`select`. Nothing is assumed of users, peers or cuts. `FairSpec` of `LiveTransfer` asks only
that as long as a socket has mail, a goroutine or handler can go on, or a peer can gather,
connect or notice a close, one of these happens (`Owed`). Each such step uses something up,
a message, a frame, a candidate, a place in a goroutine, so that none can go on for ever
and the weaker assumption is enough. A cut, a resume and the opening of the link are owed
by nobody. The other components are checked for safety only.

## What is proved

Each result holds for every value of the constants that the named assumptions of its
module allow, and TLC checked it first on the run of its component. An inductive invariant
was checked by TLC on the same instance before it was proved.

**`ChunkStreamProofs`**, for every `Block`, chunk size, file size, number of attempts, cuts,
rewrites and faults (chunk size at least one, sizes natural, originals have the declared
size):

* `TypeCorrect`: `TypeOK`, inductive as it stands because it contains
  `WritersHoldInode` (a goroutine that writes has a file to write to).
* `PromisesSourceHolds`: a stream the source stood still for ends in a manifest of the
  whole source, resumed or not. Needs `SenderInv`: the running digest covers exactly
  `total` bytes, and as long as the stream is not torn it is the prefix of the source.
* `Integrity`: `CommittedWasPromised`. A manifest passes from sender to channel to
  receiver to the commit, so the invariant `CommitInv` says at each of these places that
  it was promised and that its total is the length of what it is the digest of.
* `Fidelity`: with a source nobody rewrites, what is committed is that source; from
  `CommitInv` and the part of `SenderInv` about an unedited source.
* `NeverReplaces`: the action property `NoReplace`.
* `CompletedIsTrue`: `CompletedHasFile`, from `CompletedInv`, which adds that a receiver
  past its commit has left a file.
* `ResumeMatches`: `RetryableMatchesPartial`, under the hypothesis `~Overlap` of the run that
  checks it (with overlapping attempts it is false, see below). `ResumeInv` says that one
  receiver runs at a time, that its snapshot of the job is still good until it has opened the
  partial file, and that while it receives the job's progress lags behind the length of the
  partial file, which nobody else has; the truncation of an interruption then makes both
  equal.

The proof that a step preserves an invariant first separates the actions that leave the
relevant variables alone (the `Frame` lemmas) from the few that do not.

**`TransferSessionsProofs`**, for any number of transfers, requests and tickets: the five
invariants and three action properties of the run `sessions`, and
`LifecycleRefined`, the refinement of `TransferLifecycle`. `AdmissionIsSound` and
`ReplacedIsReplaced` hold whatever token and ticket a browser presents; both rest on `Grants`,
which says that a stored ticket was granted for the transfer it is stored with and that a
drawn one is nobody's yet. A request acts on what it read before, so the inductive
invariant adds `SnapshotsHold` (what such a snapshot is still worth when it is used),
`NoneIsAbsent` and `HistoryIsOfCreated` (nothing exists, is granted or admitted for a
transfer that was not created). Assumed: lifetimes are positive.

**`SignalingProofs`**, for any number of connections, devices, agents and transfers: `TypeOK`,
`RoomsHoldLivePeers`, `NoGhosts`, `Isolation` and the action property `NewerSurvives`.
`NoGhosts` needs `PresenceIsHeld`, which names the handler that will clear a presence;
`Isolation` needs `Authorized` and `PeerIsTarget`, which carry the verdict on an envelope
from the step that authorises it to the step that writes it. Assumed (`TicketAssumption`):
the holder of a transfer's ticket is its sender, or the browser it is for, as `ws.go` makes
sure before it attaches the socket.

**`InboxProofs`**, for any transfers, names, files of the user and restarts: the four
invariants of the run `inbox` and `KeepsFinishedFiles`. The inductive invariant says what the
code relies on without a word: every job has its entry and the candidate being reserved has
none (`Bookkept`), the metadata at a job's destination is its own (`MetadataIsOwn`), no
received file appears at the candidate (`CandidateIsUnused`) and nobody replaces a copy that
is being verified (`CopiesAreOwn`). That `uniqueDestination` finds a free name uses the
least number with that property (`DestinationIsFree`). Assumed (`NumberAssumption`): the
numbers of the candidates are texts.

**`JobRuntimeProofs`**, for any number of runs, sessions, cancel requests and messages and
every file size: the five invariants of the run `jobs` and `LifecycleRefined`, the refinement of
`JobLifecycle`. The properties are about the job, but what keeps them true is what each
goroutine still has to do. `Sound` says of every goroutine where it may be before the job is
offered (`Placed`), that on its list an `Interrupt` is followed by a `MarkRetryable`
(`Paired`), that it completes only a file that has arrived (`Entitled`), who makes which
call (`Worded`), and that a run without a real complaint meets an error only after the job
has moved or ended (`Fair`). `Young` is about how the job comes into being. `Decisions` and
`MoveFacts` state once what every helper decides on and what every call does; most
actions then reduce to a goroutine with nothing left to do that begins a new list
(`GoPreserves`). Assumed (`ProcAssumption`): the kinds of goroutines are disjoint.

**`LiveTransferProofs`**, for every file size, any number of candidates, cuts, runs and attempts:
`DeliveryIsSound`, that is `DeliversSource`. The inductive invariant `Shape` types the two
ends and what is between them, and two of these types carry the argument. Every frame in
flight is one the sender makes of its file (`Genuine`), so that a recipient whose manifest
matches holds the whole file in order. Every message that waits to be read says what is true
(`Letter`): a "completed" was sent by a recipient that had saved the file, and nothing takes
a saved file back. `Met` says that a page which accepted has a receive state for the offer
that follows. Assumed (`PlanAssumption`, `BoundAssumption`): a plan is of an agent or a
browser and its numbers, like the bounds, are natural.

**`LiveLedgerProofs`**, from the same assumptions: `TypeCorrect`, that is `TypeOK` of
`LiveTransfer`, with the limits on every queue of candidates and with no peer ever given more
candidates than the other one gathered. The limits follow from `Shape`; the last part needs to
know where all the candidates are, which `Ledger` says (`LedgerIsKept`):

* `Budget`: what a peer has still to gather, and what the other side has of it in its queues,
  its session, its page and its peer, together are at most `plan.gather`, and nothing before
  the peer is made;
* `Once`: the offer of an attempt is on its way, or has made the recipient's peer, but never
  both, and neither before the sender has sent it. Without this a second offer of one attempt
  would make a peer that gathers anew;
* `InOrder`: the attempts are made one after the other, so that `NextAttempt`, which counts
  them, is one without a peer.

Most steps only take candidates away (`Descent`). A candidate that moves is taken from one
place and put into one other (`SenderTakes`, `RecipientTakes`, `GatherKeeps`), and a new peer
takes over what was kept for it (`NewSender`, `NewRecipient`).

**`LiveCandidatesProofs`**, from the same assumptions and from `Calm`, a guard of every resume
(see above): `NothingIsLost`, that is
`NoCandidateLost` with an agent, and with a page until the transfer is resumed. `Ledger`
bounds the candidates from above; that none is missing depends on what can be at work at the
same time, which two invariants say:

* `Order`, for both kinds of recipient: the loop has no mail while a run is
  connected and the run none when it is not (`Lines`); the sender's live peer is the one of
  the session, and a session with an owner belongs to the connected run (`OwnedBy`); before
  the first run, and while the recipient is away, nothing is sent (`Unheard => Silent`), so
  that a candidate that goes out finds a socket;
* `Calls`, for an agent: an offer and its acceptance travel alone and find
  both daemons idle (`Opening => Fresh`), which is what a resume relies on; the run owns the
  session it works on, and the receiver's session is that of a goroutine that has not returned
  (`OneSession`); both ends are on the same attempt, and "retryable" or "failed" reaches the
  agent only when the sender's peer is closed (`Matching`).

Both are what `Calm` and the routing of the model give, and no claim about the code.

On these rest `SenderHas` and `RecipientHas`, the lower bounds: what the other peer has still
to gather, with what this side has of it, is at least `plan.gather`. With `Budget` that gives
the equation. The proof first reduces the actions to the few ways in which they touch peers,
sessions and mail (`SenderTable`, `AgentTable`, `PageIsRecipient`, `WireTable`); a step then
either keeps every part, moves one candidate, or closes a peer, after which nothing is owed.
The theorem has the hypothesis `InScope`: the recipient is an agent, or no run was resumed. With
a page the loop may make a session, from an acceptance that comes late, before the next run is
connected; until that run has adopted the session, a run that ended in an error would take unread
candidates with it and leave the session behind. TLC finds that such a run always fails the job.
Why it does depends on the order of all that a page has sent since its first acceptance, and that
part of `NoCandidateLost` is only model-checked.

Only model-checked are also the liveness properties (`ResumedDelivers` and `ReceiverReturns` of
`ChunkStream`, `UndisturbedDelivers` and `CutEndsAttempt` of `LiveTransfer`), since the prover
has no ENABLED. Every other invariant and action property of a passing run, and both
refinements, are proved.

## Findings

1. `signaling_presence`: `rooms.go` decides that a device is gone under its lock and
   clears presence after releasing it; a new connection in between becomes invisible.
2. `job_start`: `transfer.started` and the live receiver start a job at the same time;
   the second `MarkTransferring` is refused, and the loop fails a healthy job. The same
   happens when `transfer.retryable` meets the live receiver's own retry. `LiveTransfer` has
   the race from end to end: `UndisturbedDelivers` excuses a transfer that lost it, and in
   `CutEndsAttempt` the run of a sender whose receiver returned without a word may go on.
3. `inbox_part`: a name is chosen without a look at the partial path it implies, so that
   receiving `a` removes a finished file `a.part` (`backend_client.go:1134`).
4. `live_resume`: the API claims a job before it runs it, so that the sender's copy is
   connecting, never retryable, and the stream begins at 0; the receiver expects its
   durable offset and fails. With a claim that leaves the job retryable the property holds.
   Without its premise that both jobs agree on the offset it fails on a second path: a run
   that ends before it has read the receiver's last message keeps an older offset.
5. `browser_empty`: the manifest of an empty file has no `total_bytes`; the page compares
   the missing number with 0 and fails the transfer. Were the zero encoded, the property
   would hold.

Four more behaviours show when the named property is added to a configuration:

* `RetryableMatchesPartial` with `Overlap = TRUE`: a receiver goroutine of an earlier
  attempt, still running when the next begins, parts the job's progress from its partial
  file (`backend_client.go:1240`). The data stays safe (`Integrity`), the resume fails.
* `DisappearedEndpointSettles` of `JobRuntime` (`Mail <- DialMail`): a run that loses its
  socket between "accepted" and the data channel leaves its job accepted for ever, and it
  cannot be resumed. With `AllMail` it also fails when a late `transfer.started` takes a
  retryable job back to transferring and the run then ends.
* `AdoptsLiveSessions` of `JobRuntime`: a session the loop created stays in the map when
  its goroutine ends; a resumed run adopts it, makes no offer and fails with the old error.
* `UndisturbedDelivers` of `LiveTransfer` without `"candidate" \notin late`: a candidate that
  reaches a closed peer and is refused ends the run, and with it the completed message it has
  not read. Without `"start" \notin late` it fails as in finding 2.

The state diagram of `ARCHITECTURE.md` also lacks the interrupted and retryable states
that `session.go` has; `TransferLifecycle` states the life of a transfer as the code has it.

## What is not modelled

* SDP, connectivity checks and a new offer on a peer that is open; the shutdown of the
  daemon.
* Encryption and key wrapping: a frame that decrypts is a frame the peer sent.
* Backpressure: channels hold the whole file.
* Errors of the file system in `ChunkStream`, other than a file that is not as it should
  be; in `Inbox`, other than a metadata file that cannot be written.
* File names that the inbox refuses, and symbolic links: checks of an input.
* The answer of the server to an offer for an agent that is offline: the run ignores it,
  and the job stays offered until somebody cancels it. In `LiveTransfer` the offer is lost.
* A page whose connection breaks after the last frame: it reports nothing, and nobody
  settles the send job. `CutEndsAttempt` is about agents.
* A second consent on the same page, which makes a second socket.
* Progress values beyond the file size in a peer's message, in `JobRuntime` (the
  `JobManager` refuses them); the sender's progress messages, which nobody acts on.
* `LocalWebRTCTransferRunner`: only tests use it; the helpers it shares with the live path
  are modelled there.
* The event log, HTTP parsing, SQL, authentication, configuration, command line.
* `PresenceRegistry.Touch` and `RemoveStale`: the server never calls the second.

## Plan

1. Done: `ChunkStream` with its proofs; `TransferSessions`; `Signaling`; `JobRuntime`;
   `Inbox`; `LiveTransfer` with its parts.
2. Done: proofs of every safety property and both refinements of `TransferSessions`,
   `Signaling`, `Inbox` and `JobRuntime`; `DeliversSource`, `TypeOK` and `NoCandidateLost` of
   `LiveTransfer`.
3. Left: `NoCandidateLost` for a run resumed with a page, from an invariant on what the page
   has still to send.
