------------------------- MODULE LiveTransferProofs -------------------------
(***************************************************************************)
(* What a live transfer delivers, for every size of the file, every number *)
(* of candidates, cuts, runs and attempts.                                 *)
(*                                                                         *)
(* Two facts carry the argument.  Every frame in flight is one the sender  *)
(* makes of its file, so that a recipient whose manifest matches holds the *)
(* file; and every "completed" that waits for the sender was sent by a     *)
(* recipient that had saved it, which nothing takes back.                  *)
(***************************************************************************)
EXTENDS LiveTransfer, FiniteSetTheorems, TLAPS

-----------------------------------------------------------------------------
(* The inductive invariant.                                                *)

Boxes      == {"run", "loop", "recipient"}
ChunkCount == IF plan.size = 0 THEN 1 ELSE plan.size

\* The frames the sender makes of its file.
Chunk(k)  == EncodeFrame(k, IF plan.size = 0 THEN <<>> ELSE <<k + 1>>)
Manifest  == EncodeManifestFrame(plan.size, ChunkCount, Source(plan.size))
Genuine   == {Chunk(k) : k \in 0 .. ChunkCount - 1} \cup {Manifest}

\* A page that has accepted has a receive state for the offer that follows.
Met == plan.kind = "browser" => states # <<>>

Types == {"offer", "accepted", "denied", "webrtc_offer", "answer", "ice", "started", "progress",
          "retryable", "completed", "failed"}

\* What a message says is true when it is sent, and stays so.
Letter ==
    {m \in [type : Types, n : Nat] :
        /\ m.type \in {"progress", "retryable"} => m.n <= plan.size
        /\ m.type \in {"webrtc_offer", "answer", "ice"} => m.n \in Attempts
        /\ m.type \in {"accepted", "webrtc_offer"} => Met
        /\ m.type = "completed" => Delivered}

Waiting  == {h \in Seq(Attempts) : Len(h) <= MaxPending}
Peer     == [state : {"none", "making", "offered", "answering", "stable", "closed"},
             via : 0 .. MaxRuns, held : Waiting, added : Nat, left : Nat]
Peers    == [Sides -> [Attempts -> Peer]]
Channel  == [open : BOOLEAN, cut : BOOLEAN, frames : Seq(Genuine)]
Job      == [status : Statuses, progress : 0 .. plan.size]
Session  == [att : 0 .. MaxAttempts, owner : 0 .. MaxRuns, pending : Waiting]
RSession == [att : 0 .. MaxAttempts, pending : Waiting]
Stream   == [pc : {"none", "waiting", "streaming", "done", "failed"},
             via : 0 .. MaxRuns, next : Nat]
Receiver == [pc : {"none", "answering", "waiting", "receiving", "done"},
             status : Statuses, progress : Nat, resumed : BOOLEAN]
Part     == {p \in Seq(Nat) : Len(p) <= plan.size} \cup {NoFile}
State    == [peer : 0 .. MaxAttempts, pending : Seq(Attempts),
             chunks : {c \in Seq(Nat) : Len(c) <= plan.size}, next : Nat]

WireShape ==
    /\ plan \in Plans
    /\ online \in BOOLEAN /\ late \subseteq Lateness
    /\ run \in [no : 0 .. MaxRuns, on : BOOLEAN, reads : BOOLEAN]
    /\ cuts \in 0 .. plan.cuts
    /\ mail \in [Boxes -> Seq(Letter)]
    /\ peers \in Peers
    /\ net \in [Attempts -> Channel]
    /\ \A a \in Attempts : peers["sender"][a].state # "none" => Met

SenderShape ==
    /\ sjob \in Job /\ touched \in BOOLEAN
    /\ session \in Session
    /\ stream \in [Attempts -> Stream]
    /\ sjob.status = "completed" => Delivered

AgentShape ==
    /\ rjob \in Job
    /\ rsession \in RSession
    /\ recv \in [Attempts -> Receiver]
    /\ \A a \in Attempts : /\ recv[a].pc # "none" => plan.kind = "agent"
                           /\ recv[a].pc \in {"answering", "waiting"} => recv[a].progress <= plan.size
    /\ part \in Part
    /\ file \in {NoFile, Source(plan.size)}

BrowserShape ==
    /\ imports \subseteq Handlers
    /\ states \in Seq(State)
    /\ feeds \in [Attempts -> 0 .. Len(states)]
    /\ saved \in {NoFile, Source(plan.size)}

Shape == WireShape /\ SenderShape /\ AgentShape /\ BrowserShape

-----------------------------------------------------------------------------
(* Plans, sets and sequences.                                              *)

\* What a plan promises.
LEMMA PlanFacts ==
    ASSUME plan \in Plans
    PROVE  /\ plan.kind \in {"agent", "browser"} /\ plan.size \in Nat
           /\ plan.gather \in Nat /\ plan.cuts \in Nat
           /\ ChunkCount \in Nat
  BY PlanAssumption DEF ChunkCount

LEMMA Bounds == MaxPending \in Nat /\ MaxRuns \in Nat /\ MaxAttempts \in Nat
  BY BoundAssumption

\* A sequence over a set is one over every larger set.
LEMMA SeqGrows ==
    ASSUME NEW S, NEW T, S \subseteq T, NEW s \in Seq(S)
    PROVE  s \in Seq(T)
  OBVIOUS

\* The rest of a queue that is not empty, and its head.
LEMMA TailOf ==
    ASSUME NEW S, NEW s \in Seq(S), s # <<>>
    PROVE  Tail(s) \in Seq(S) /\ Head(s) \in S /\ Len(Tail(s)) = Len(s) - 1
  OBVIOUS

LEMMA CatOf ==
    ASSUME NEW S, NEW s \in Seq(S), NEW t \in Seq(S)
    PROVE  /\ s \o t \in Seq(S) /\ Len(s \o t) = Len(s) + Len(t)
           /\ Len(s) \in Nat /\ Len(t) \in Nat
  OBVIOUS

LEMMA OneOf ==
    ASSUME NEW S, NEW x \in S
    PROVE  <<x>> \in Seq(S)
  OBVIOUS

\* The candidates of one attempt among those that wait are finitely many.
LEMMA CountNat ==
    ASSUME NEW S, NEW s \in Seq(S), NEW a
    PROVE  CountOf(a, s) \in Nat
<1>1. IsFiniteSet(1 .. Len(s))
  BY FS_Interval
<1>2. {i \in DOMAIN s : s[i] = a} \subseteq 1 .. Len(s)
  OBVIOUS
<1> QED
  BY <1>1, <1>2, FS_Subset, FS_CardinalityType DEF CountOf

-----------------------------------------------------------------------------
(* Frames: the numbers that are left out come back as zero.                *)

\* A chunk is found where its numbers say, and lies within the file; a manifest is the file's.
LEMMA FrameFacts ==
    ASSUME plan \in Plans, NEW f \in Genuine
    PROVE  /\ f.type \in {"chunk", "manifest"}
           /\ f.type = "chunk" => /\ f.data \in Seq(Nat)
                                  /\ Number(f, "offset") + Len(f.data) <= plan.size
           /\ f.type = "manifest" => f.data = Source(plan.size)
<1>0. plan.size \in Nat /\ ChunkCount \in Nat
  BY PlanFacts
<1>1. CASE f = Manifest
  BY <1>1 DEF Manifest, EncodeManifestFrame
<1>2. ASSUME NEW k \in 0 .. ChunkCount - 1, f = Chunk(k)
      PROVE  /\ f.type = "chunk" /\ f.data \in Seq(Nat)
             /\ Number(f, "offset") + Len(f.data) <= plan.size
  <2>1. f.type = "chunk" /\ f.data = (IF plan.size = 0 THEN <<>> ELSE <<k + 1>>)
    BY <1>2 DEF Chunk, EncodeFrame
  <2>2. f.numbers = omitempty([seq |-> k, offset |-> k])
    BY <1>2 DEF Chunk, EncodeFrame
  <2>3. Number(f, "offset") = k
    <3>1. CASE k = 0
      BY <2>2, <3>1 DEF Number, omitempty
    <3>2. CASE k # 0
      BY <2>2, <3>2 DEF Number, omitempty
    <3> QED
      BY <3>1, <3>2
  <2>4. CASE plan.size = 0
    BY <1>0, <2>1, <2>3, <2>4 DEF ChunkCount
  <2>5. CASE plan.size # 0
    BY <1>0, <2>1, <2>3, <2>5 DEF ChunkCount
  <2> QED
    BY <2>1, <2>4, <2>5
<1> QED
  BY <1>1, <1>2 DEF Genuine

-----------------------------------------------------------------------------
(* Peers.                                                                  *)

\* One peer is replaced by another.
LEMMA SetPeer ==
    ASSUME NEW p \in Peers, NEW side \in Sides, NEW a \in Attempts, NEW q \in Peer
    PROVE  /\ [p EXCEPT ![side][a] = q] \in Peers
           /\ \A s \in Sides, b \in Attempts :
                 [p EXCEPT ![side][a] = q][s][b] = IF s = side /\ b = a THEN q ELSE p[s][b]
  BY DEF Peers

LEMMA SetSender ==
    ASSUME NEW p \in Peers, NEW a \in Attempts, NEW q \in Peer
    PROVE  /\ [p EXCEPT !["sender"][a] = q] \in Peers
           /\ \A b \in Attempts :
                 [p EXCEPT !["sender"][a] = q]["sender"][b] = IF b = a THEN q ELSE p["sender"][b]
  BY DEF Peers, Sides

LEMMA SetRecipient ==
    ASSUME NEW p \in Peers, NEW a \in Attempts, NEW q \in Peer
    PROVE  /\ [p EXCEPT !["recipient"][a] = q] \in Peers
           /\ \A b \in Attempts : [p EXCEPT !["recipient"][a] = q]["sender"][b] = p["sender"][b]
  BY DEF Peers, Sides

LEMMA NoPeerShape == NoPeer \in Peer
  BY Bounds DEF NoPeer, Peer, Waiting

LEMMA CloseShape ==
    ASSUME NEW q \in Peer
    PROVE  /\ Close(q) \in Peer
           /\ Close(q).state = IF q.state = "none" THEN "none" ELSE "closed"
  BY NoPeerShape DEF Close, NoPeer, Peer

LEMMA CloseAtShape ==
    ASSUME NEW p \in Peers, NEW side \in Sides, NEW a \in 0 .. MaxAttempts
    PROVE  /\ CloseAt(p, side, a) \in Peers
           /\ \A s \in Sides, b \in Attempts :
                 CloseAt(p, side, a)[s][b] = IF s = side /\ b = a THEN Close(p[s][b]) ELSE p[s][b]
<1>1. CASE a = 0
  BY <1>1, Bounds DEF CloseAt, Attempts
<1>2. CASE a # 0
  <2>1. a \in Attempts
    BY <1>2, Bounds DEF Attempts
  <2>2. p[side][a] \in Peer
    BY <2>1 DEF Peers
  <2>3. Close(p[side][a]) \in Peer
    BY <2>2, CloseShape
  <2>4. CloseAt(p, side, a) = [p EXCEPT ![side][a] = Close(p[side][a])]
    BY <1>2, <2>1 DEF CloseAt, Peers
  <2>5. /\ [p EXCEPT ![side][a] = Close(p[side][a])] \in Peers
        /\ \A s \in Sides, b \in Attempts :
              [p EXCEPT ![side][a] = Close(p[side][a])][s][b]
                = IF s = side /\ b = a THEN Close(p[side][a]) ELSE p[s][b]
    BY <2>1, <2>3, SetPeer
  <2> QED
    BY <2>4, <2>5
<1> QED
  BY <1>1, <1>2

\* Closing peers makes none.
LEMMA CloseAtNone ==
    ASSUME NEW p \in Peers, NEW side \in Sides, NEW a \in 0 .. MaxAttempts,
           NEW s \in Sides, NEW b \in Attempts
    PROVE  (CloseAt(p, side, a)[s][b].state = "none") <=> (p[s][b].state = "none")
<1>1. p[s][b] \in Peer
  BY DEF Peers
<1>2. Close(p[s][b]).state = IF p[s][b].state = "none" THEN "none" ELSE "closed"
  BY <1>1, CloseShape
<1>3. CloseAt(p, side, a)[s][b] = IF s = side /\ b = a THEN Close(p[s][b]) ELSE p[s][b]
  BY CloseAtShape
<1> QED
  BY <1>2, <1>3

\* A candidate that arrives leaves a peer a peer.
LEMMA AddShape ==
    ASSUME NEW q \in Peer, NEW a, NEW c \in Attempts
    PROVE  /\ AddICECandidate(q, a, c) \in Peer
           /\ (AddICECandidate(q, a, c).state = "none") <=> (q.state = "none")
<1>1. CASE Described(q)
  <2>1. AddICECandidate(q, a, c) = [q EXCEPT !.added = IF c = a THEN q.added + 1 ELSE q.added]
    BY <1>1 DEF AddICECandidate, Described, Peer
  <2>2. (IF c = a THEN q.added + 1 ELSE q.added) \in Nat
    BY DEF Peer
  <2> QED
    BY <2>1, <2>2 DEF Peer
<1>2. CASE ~Described(q) /\ q.state = "closed"
  <2>1. AddICECandidate(q, a, c) = q
    BY <1>2 DEF AddICECandidate, Described
  <2> QED
    BY <2>1
<1>3. CASE ~Described(q) /\ q.state # "closed" /\ Full(q.held)
  BY <1>3, CloseShape DEF AddICECandidate
<1>4. CASE ~Described(q) /\ q.state # "closed" /\ ~Full(q.held)
  <2>1. AddICECandidate(q, a, c) = [q EXCEPT !.held = Append(q.held, c)]
    BY <1>4 DEF AddICECandidate, Peer
  <2>2. Append(q.held, c) \in Waiting
    BY <1>4, Bounds DEF Full, Peer, Waiting
  <2> QED
    BY <2>1, <2>2, <1>4 DEF Peer
<1> QED
  BY <1>1, <1>2, <1>3, <1>4

LEMMA RefusalsShape ==
    ASSUME NEW q
    PROVE  AddRefusals(q) \subseteq BOOLEAN
<1>1. CASE Described(q)
  BY <1>1, Zenon DEF AddRefusals, Described
<1>2. CASE q.state = "closed"
  <2>1. AddRefusals(q) = BOOLEAN
    BY <1>2 DEF AddRefusals, Described
  <2> QED
    BY <2>1
<1>3. CASE ~Described(q) /\ q.state # "closed"
  <2>1. AddRefusals(q) = {Full(q.held)}
    BY <1>3 DEF AddRefusals
  <2>2. Full(q.held) \in BOOLEAN
    BY DEF Full
  <2> QED
    BY <2>1, <2>2
<1> QED
  BY <1>1, <1>2, <1>3

LEMMA FlushShape ==
    ASSUME NEW q \in Peer, NEW a
    PROVE  flushPendingICE(q, a, "stable") \in Peer
<1>1. CountOf(a, q.held) \in Nat
  BY CountNat DEF Peer, Waiting
<1>2. <<>> \in Waiting
  BY Bounds DEF Waiting
<1>3. q.added + CountOf(a, q.held) \in Nat
  BY <1>1 DEF Peer
<1>4. flushPendingICE(q, a, "stable")
        = [q EXCEPT !.state = "stable", !.added = q.added + CountOf(a, q.held), !.held = <<>>]
  BY DEF flushPendingICE, Peer
<1> QED
  BY <1>2, <1>3, <1>4 DEF Peer

-----------------------------------------------------------------------------
(* Mail.                                                                   *)

Mail == [Boxes -> Seq(Letter)]

LEMMA ToRecipientShape ==
    ASSUME NEW m \in Mail, NEW out \in Seq(Letter)
    PROVE  ToRecipient(m, out) \in Mail
  BY CatOf DEF ToRecipient, Mail, Boxes

LEMMA ToSenderShape ==
    ASSUME NEW m \in Mail, NEW out \in Seq(Letter)
    PROVE  ToSender(m, out) \in Mail
  BY CatOf DEF ToSender, Mail, Boxes

LEMMA ReadShape ==
    ASSUME NEW m \in Mail, NEW box \in Boxes, m[box] # <<>>
    PROVE  [m EXCEPT ![box] = Tail(@)] \in Mail /\ Head(m[box]) \in Letter
<1>1. m[box] \in Seq(Letter)
  BY DEF Mail
<1>2. Tail(m[box]) \in Seq(Letter) /\ Head(m[box]) \in Letter
  BY <1>1, TailOf
<1> QED
  BY <1>2 DEF Mail

LEMMA ClearShape ==
    ASSUME NEW m \in Mail
    PROVE  [m EXCEPT !.run = <<>>] \in Mail
<1>1. <<>> \in Seq(Letter)
  OBVIOUS
<1> QED
  BY <1>1 DEF Mail, Boxes

\* A message that claims nothing.
LEMMA PlainLetter ==
    ASSUME NEW t \in {"offer", "denied", "failed", "started"}
    PROVE  Message(t, 0) \in Letter
  BY DEF Message, Letter, Types

LEMMA OfferLetter ==
    ASSUME Met, NEW a \in Attempts
    PROVE  Message("webrtc_offer", a) \in Letter
  BY Bounds DEF Message, Letter, Types, Attempts

LEMMA AttemptLetter ==
    ASSUME NEW a \in Attempts, NEW t \in {"answer", "ice"}
    PROVE  Message(t, a) \in Letter
  BY Bounds DEF Message, Letter, Types, Attempts

LEMMA ProgressLetter ==
    ASSUME NEW n \in Nat, n <= plan.size, NEW t \in {"progress", "retryable"}
    PROVE  Message(t, n) \in Letter
  BY DEF Message, Letter, Types

LEMMA AcceptedLetter ==
    ASSUME Met
    PROVE  Message("accepted", 0) \in Letter
  BY DEF Message, Letter, Types

-----------------------------------------------------------------------------
(* Statuses.                                                               *)

LEMMA StatusFacts ==
    ASSUME NEW s \in Statuses
    PROVE  /\ markTransferStarted(s) \in Statuses
           /\ markTransferStarted(s) = "completed" <=> s = "completed"
           /\ markJobRetryableIfMutable(s) \in Statuses
           /\ markJobRetryableIfMutable(s) = "completed" <=> s = "completed"
           /\ failTransferJob(s) \in Statuses
           /\ failTransferJob(s) = "completed" <=> s = "completed"
  BY DEF markTransferStarted, markJobRetryableIfMutable, failTransferJob, Statuses, Terminal

\* A job with another status.
LEMMA JobStatus ==
    ASSUME NEW j \in Job, NEW s \in Statuses
    PROVE  [j EXCEPT !.status = s] \in Job /\ [j EXCEPT !.status = s].status = s
  BY DEF Job

-----------------------------------------------------------------------------
(* What a step leaves alone.                                               *)

\* The sets the invariant is written with are those of the plan, of what has been saved and of
\* whether the page has a receive state.
LEMMA SameSets ==
    ASSUME plan' = plan, file' = file, saved' = saved, states' = states
    PROVE  /\ Letter' = Letter /\ Genuine' = Genuine /\ Channel' = Channel /\ Job' = Job
           /\ Part' = Part /\ State' = State /\ (Met <=> Met') /\ (Delivered <=> Delivered')
           /\ Mail' = Mail
  BY DEF Letter, Genuine, Channel, Job, Part, State, Met, Delivered, Content, Chunk, Manifest,
         ChunkCount, Mail

\* What a refused start leaves behind.
LEMMA RefusalFacts ==
    ASSUME NEW status, NEW raced, NEW refused \in StartRefusals(status, raced)
    PROVE  /\ refused \in BOOLEAN /\ (CannotStart(status) => refused)
           /\ RefusedStart(status, refused) \subseteq Lateness
<1>1. refused \in BOOLEAN /\ (CannotStart(status) => refused)
  <2>1. CASE CannotStart(status)
    BY <2>1, Zenon DEF StartRefusals
  <2>2. CASE ~CannotStart(status)
    <3>1. StartRefusals(status, raced) = BOOLEAN \/ StartRefusals(status, raced) = {FALSE}
      BY <2>2, Zenon DEF StartRefusals
    <3>2. refused \in BOOLEAN
      BY <3>1, Zenon
    <3> QED
      BY <2>2, <3>2
  <2> QED
    BY <2>1, <2>2
<1>2. RefusedStart(status, refused) \subseteq {"start"}
  BY DEF RefusedStart
<1> QED
  BY <1>1, <1>2 DEF Lateness

\* The start of a job by each of the four who do it.
LEMMA StartedRead ==
    ASSUME late \subseteq Lateness, NEW box \in {"run", "loop"}, handleStarted(box)
    PROVE  /\ Reads(box, "started") /\ late' \subseteq Lateness
           /\ UNCHANGED <<plan, online, net, cuts, stream>>
           /\ \E refused \in BOOLEAN :
                 /\ CannotStart(sjob.status) => refused
                 /\ \E j \in {sjob, [sjob EXCEPT !.status = markTransferStarted(@)]} :
                       Handled(box, j, touched \/ j # sjob, session, peers, refused, "none")
<1> DEFINE j(r) == IF r THEN sjob ELSE [sjob EXCEPT !.status = markTransferStarted(@)]
<1>1. PICK refused \in StartRefusals(sjob.status, box \in late) :
          /\ Handled(box, j(refused), touched \/ j(refused) # sjob, session, peers, refused, "none")
          /\ late' = (late \ {box}) \cup RefusedStart(sjob.status, refused)
  BY DEF handleStarted
<1>2. /\ refused \in BOOLEAN /\ (CannotStart(sjob.status) => refused)
      /\ RefusedStart(sjob.status, refused) \subseteq Lateness
  BY RefusalFacts
<1>3. j(refused) \in {sjob, [sjob EXCEPT !.status = markTransferStarted(@)]}
  OBVIOUS
<1>4. Reads(box, "started") /\ UNCHANGED <<plan, online, net, cuts, stream>>
  BY DEF handleStarted
<1> HIDE DEF j
<1> QED
  BY <1>1, <1>2, <1>3, <1>4

LEMMA SenderStarted ==
    ASSUME late \subseteq Lateness, NEW a, SenderStarts(a)
    PROVE  /\ stream[a].pc = "waiting" /\ net[a].open /\ late' \subseteq Lateness
           /\ UNCHANGED <<plan, online, run, peers, net, cuts, session>>
           /\ sjob' \in {sjob, [sjob EXCEPT !.status = markTransferStarted(@)]}
           /\ touched' = (touched \/ sjob' # sjob)
           /\ \E refused \in BOOLEAN :
                 /\ CannotStart(sjob.status) => refused
                 /\ stream' = [stream EXCEPT ![a] = IF refused THEN Returned("failed")
                                                    ELSE [@ EXCEPT !.pc = "streaming"]]
                 /\ IF refused THEN UNCHANGED mail ELSE Say(a, <<Message("started", 0)>>)
<1> DEFINE j(r) == IF r THEN sjob ELSE [sjob EXCEPT !.status = markTransferStarted(@)]
           overtaken(k) == {box \in {"run", "loop"} : Reads(box, "started") /\ k # sjob}
<1>1. PICK refused \in StartRefusals(sjob.status, TRUE) :
          /\ sjob' = j(refused) /\ touched' = (touched \/ j(refused) # sjob)
          /\ stream' = [stream EXCEPT ![a] = IF refused THEN Returned("failed")
                                             ELSE [@ EXCEPT !.pc = "streaming"]]
          /\ IF refused THEN UNCHANGED mail ELSE Say(a, <<Message("started", 0)>>)
          /\ late' = late \cup RefusedStart(sjob.status, refused) \cup overtaken(j(refused))
  BY DEF SenderStarts
<1>2. /\ refused \in BOOLEAN /\ (CannotStart(sjob.status) => refused)
      /\ RefusedStart(sjob.status, refused) \subseteq Lateness
  BY RefusalFacts
<1>3. j(refused) \in {sjob, [sjob EXCEPT !.status = markTransferStarted(@)]}
  OBVIOUS
<1>4. overtaken(j(refused)) \subseteq Lateness
  BY DEF Lateness
<1>5. /\ stream[a].pc = "waiting" /\ net[a].open
      /\ UNCHANGED <<plan, online, run, peers, net, cuts, session>>
  BY DEF SenderStarts
<1> HIDE DEF j, overtaken
<1> QED
  BY <1>1, <1>2, <1>3, <1>4, <1>5

LEMMA StartedAtAgent ==
    ASSUME late \subseteq Lateness, AgentStarted
    PROVE  /\ AgentReads("started") /\ late' \subseteq Lateness
           /\ UNCHANGED <<plan, online, run, net, cuts, recv, part, file>>
           /\ \E refused \in BOOLEAN :
                 /\ CannotStart(rjob.status) => refused
                 /\ \E j \in {rjob, [rjob EXCEPT !.status = markTransferStarted(@)]} :
                       AgentHandled(j, rsession, peers, <<>>, refused)
<1> DEFINE j(r) == IF r THEN rjob ELSE [rjob EXCEPT !.status = markTransferStarted(@)]
<1>1. PICK refused \in StartRefusals(rjob.status, "recipient" \in late) :
          /\ AgentHandled(j(refused), rsession, peers, <<>>, refused)
          /\ late' = (late \ {"recipient"}) \cup RefusedStart(rjob.status, refused)
  BY DEF AgentStarted
<1>2. /\ refused \in BOOLEAN /\ (CannotStart(rjob.status) => refused)
      /\ RefusedStart(rjob.status, refused) \subseteq Lateness
  BY RefusalFacts
<1>3. j(refused) \in {rjob, [rjob EXCEPT !.status = markTransferStarted(@)]}
  OBVIOUS
<1>4. AgentReads("started") /\ UNCHANGED <<plan, online, run, net, cuts, recv, part, file>>
  BY DEF AgentStarted
<1> HIDE DEF j
<1> QED
  BY <1>1, <1>2, <1>3, <1>4

LEMMA ReceiverStarted ==
    ASSUME late \subseteq Lateness, NEW a, ReceiverStarts(a)
    PROVE  LET resumes == recv[a].status = "retryable" /\ recv[a].progress > 0
                            /\ part \notin {NoFile, <<>>}
               told    == <<Message("started", 0)>>
               wrong   == file # NoFile \/ (resumes /\ Len(part) # recv[a].progress)
           IN  /\ recv[a].pc = "waiting" /\ net[a].open /\ late' \subseteq Lateness
               /\ UNCHANGED <<plan, online, run, net, cuts, file>>
               /\ \/ ReceiverReturns(a, <<>>) /\ UNCHANGED <<rjob, part>>
                  \/ /\ ~CannotStart(rjob.status) /\ wrong
                     /\ ReceiverFails(a, told) /\ UNCHANGED part
                  \/ /\ ~CannotStart(rjob.status) /\ ~wrong
                     /\ rjob' = [rjob EXCEPT !.status = markTransferStarted(@)]
                     /\ part' = IF resumes THEN part ELSE <<>>
                     /\ recv' = [recv EXCEPT ![a].pc = "receiving", ![a].resumed = resumes,
                                             ![a].progress = IF resumes THEN Len(part) ELSE 0]
                     /\ mail' = ToSender(mail, told)
                     /\ UNCHANGED <<rsession, peers>>
<1> DEFINE resumes == recv[a].status = "retryable" /\ recv[a].progress > 0 /\ part \notin {NoFile, <<>>}
           told    == <<Message("started", 0)>>
           wrong   == file # NoFile \/ (resumes /\ Len(part) # recv[a].progress)
           starts  == /\ rjob' = [rjob EXCEPT !.status = markTransferStarted(@)]
                      /\ part' = IF resumes THEN part ELSE <<>>
                      /\ recv' = [recv EXCEPT ![a].pc = "receiving", ![a].resumed = resumes,
                                              ![a].progress = IF resumes THEN Len(part) ELSE 0]
                      /\ mail' = ToSender(mail, told)
                      /\ UNCHANGED <<rsession, peers>>
           overtaken == IF AgentReads("started") /\ rjob' # rjob THEN {"recipient"} ELSE {}
<1>1. PICK refused \in StartRefusals(rjob.status, TRUE) :
          /\ CASE refused            -> ReceiverReturns(a, <<>>) /\ UNCHANGED <<rjob, part>>
               [] ~refused /\ wrong -> ReceiverFails(a, told) /\ UNCHANGED part
               [] OTHER              -> starts
          /\ late' = late \cup RefusedStart(rjob.status, refused) \cup overtaken
  BY DEF ReceiverStarts
<1>2. /\ refused \in BOOLEAN /\ (CannotStart(rjob.status) => refused)
      /\ RefusedStart(rjob.status, refused) \subseteq Lateness
  BY RefusalFacts
<1>3. overtaken \subseteq Lateness
  BY DEF Lateness
<1>4. recv[a].pc = "waiting" /\ net[a].open /\ UNCHANGED <<plan, online, run, net, cuts, file>>
  BY DEF ReceiverStarts
<1> HIDE DEF overtaken, starts, wrong
<1>5. \/ ReceiverReturns(a, <<>>) /\ UNCHANGED <<rjob, part>>
      \/ ~CannotStart(rjob.status) /\ wrong /\ ReceiverFails(a, told) /\ UNCHANGED part
      \/ ~CannotStart(rjob.status) /\ ~wrong /\ starts
  BY <1>1, <1>2
<1>6. late' \subseteq Lateness
  BY <1>1, <1>2, <1>3
<1> QED
  BY <1>4, <1>5, <1>6 DEF wrong, starts

\* A step of the wire or of the sender.
LEMMA SenderMoves ==
    ASSUME Shape, plan' = plan, UNCHANGED agentVars, UNCHANGED browserVars,
           online' \in BOOLEAN, late' \subseteq Lateness, touched' \in BOOLEAN,
           run' \in [no : 0 .. MaxRuns, on : BOOLEAN, reads : BOOLEAN],
           cuts' \in 0 .. plan.cuts,
           mail' \in Mail, peers' \in Peers, net' \in [Attempts -> Channel],
           \A a \in Attempts : peers'["sender"][a].state # "none" => Met,
           sjob' \in Job, sjob'.status = "completed" => Delivered,
           session' \in Session, stream' \in [Attempts -> Stream]
    PROVE  Shape'
<1>1. file' = file /\ saved' = saved /\ states' = states
  BY DEF agentVars, browserVars
<1>2. /\ Letter' = Letter /\ Genuine' = Genuine /\ Channel' = Channel /\ Job' = Job
      /\ Part' = Part /\ State' = State /\ (Met <=> Met') /\ (Delivered <=> Delivered')
  BY <1>1, SameSets
<1>3. WireShape'
  BY <1>2 DEF Shape, WireShape, Mail
<1>4. SenderShape'
  BY <1>2 DEF Shape, SenderShape
<1>5. AgentShape'
  BY <1>2 DEF Shape, AgentShape, agentVars
<1>6. BrowserShape'
  BY <1>2 DEF Shape, BrowserShape, browserVars
<1> QED
  BY <1>3, <1>4, <1>5, <1>6 DEF Shape

-----------------------------------------------------------------------------
(* The sender's handlers.                                                  *)

\* What a handler of the sender leaves behind.
SenderSound ==
    /\ run' \in [no : 0 .. MaxRuns, on : BOOLEAN, reads : BOOLEAN]
    /\ mail' \in Mail /\ peers' \in Peers
    /\ \A a \in Attempts : peers'["sender"][a].state # "none" => Met
    /\ sjob' \in Job /\ (sjob'.status = "completed" => Delivered)
    /\ touched' \in BOOLEAN /\ session' \in Session

LEMMA NoSessionShape == NoSession \in Session
  BY Bounds DEF NoSession, Session, Waiting

\* A run ends.
LEMMA EndedShape ==
    ASSUME Shape, NEW j \in Job, j.status = "completed" => Delivered, NEW t \in BOOLEAN,
           NEW s \in Session, NEW p \in Peers,
           \A a \in Attempts : p["sender"][a].state # "none" => Met,
           NEW failed \in BOOLEAN, Ended(j, t, s, p, failed), mail' = [mail EXCEPT !.run = <<>>]
    PROVE  SenderSound
<1>1. run' \in [no : 0 .. MaxRuns, on : BOOLEAN, reads : BOOLEAN]
  BY DEF Ended, Shape, WireShape
<1>2. mail' \in Mail
  BY ClearShape DEF Shape, WireShape, Mail
<1>3. s.att \in 0 .. MaxAttempts /\ "sender" \in Sides
  BY DEF Session, Sides
<1>4. CloseAt(p, "sender", s.att) \in Peers
  BY <1>3, CloseAtShape
<1>5. \A a \in Attempts : (CloseAt(p, "sender", s.att)["sender"][a].state = "none")
                             <=> (p["sender"][a].state = "none")
  BY <1>3, CloseAtNone
<1>6. peers' = CloseAt(p, "sender", s.att) \/ peers' = p
  BY DEF Ended
<1>7. peers' \in Peers /\ \A a \in Attempts : peers'["sender"][a].state # "none" => Met
  BY <1>4, <1>5, <1>6
<1>8. session' \in Session
  BY NoSessionShape DEF Ended
<1>9. sjob' = j \/ sjob' = [j EXCEPT !.status = "failed"]
  BY DEF Ended, handleRunTransferError
<1>10. "failed" \in Statuses
  BY DEF Statuses, Terminal
<1>11. sjob' \in Job /\ (sjob'.status = "completed" => Delivered)
  BY <1>9, <1>10, JobStatus
<1>12. touched' \in BOOLEAN
  BY DEF Ended
<1> QED
  BY <1>1, <1>2, <1>7, <1>8, <1>11, <1>12 DEF SenderSound

\* A message has been handled.
LEMMA HandledShape ==
    ASSUME Shape, NEW box \in {"run", "loop"}, mail[box] # <<>>,
           NEW j \in Job, j.status = "completed" => Delivered, NEW t \in BOOLEAN,
           NEW s \in Session, NEW p \in Peers,
           \A a \in Attempts : p["sender"][a].state # "none" => Met,
           NEW err \in BOOLEAN, NEW verdict, Handled(box, j, t, s, p, err, verdict)
    PROVE  SenderSound
<1>1. CASE box = "run" /\ (err \/ verdict # "none")
  <2>1. /\ Ended(j, t, s, p, err \/ verdict = "failed")
        /\ mail' = [mail EXCEPT !.run = <<>>]
    BY <1>1 DEF Handled
  <2>2. (err \/ verdict = "failed") \in BOOLEAN
    OBVIOUS
  <2> HIDE DEF Ended
  <2>3. ASSUME NEW f \in BOOLEAN, Ended(j, t, s, p, f)
        PROVE  SenderSound
    BY <2>1, <2>3, EndedShape
  <2> QED
    BY <2>1, <2>2, <2>3
<1>2. CASE ~(box = "run" /\ (err \/ verdict # "none"))
  <2>1. /\ sjob' = IF err THEN [j EXCEPT !.status = failTransferJob(@)] ELSE j
        /\ touched' = (t \/ (err /\ j.status \notin Terminal))
        /\ session' = s /\ peers' = p /\ UNCHANGED run
        /\ mail' = LET m == [mail EXCEPT ![box] = Tail(@)]
                   IN  IF err THEN ToRecipient(m, <<Message("failed", 0)>>) ELSE m
    BY <1>2 DEF Handled
  <2>2. j.status \in Statuses /\ sjob' \in {j, [j EXCEPT !.status = failTransferJob(j.status)]}
    BY <2>1 DEF Job
  <2>3. sjob' \in Job /\ (sjob'.status = "completed" => Delivered)
    <3>1. CASE sjob' = j
      BY <3>1
    <3>2. CASE sjob' = [j EXCEPT !.status = failTransferJob(j.status)]
      <4>1. /\ failTransferJob(j.status) \in Statuses
            /\ failTransferJob(j.status) = "completed" <=> j.status = "completed"
        BY <2>2, StatusFacts
      <4>2. sjob' \in Job /\ sjob'.status = failTransferJob(j.status)
        BY <3>2, <4>1, JobStatus
      <4> QED
        BY <4>1, <4>2
    <3> QED
      BY <2>2, <3>1, <3>2
  <2>4. touched' \in BOOLEAN
    BY <2>1
  <2>5. run' \in [no : 0 .. MaxRuns, on : BOOLEAN, reads : BOOLEAN]
    BY <2>1 DEF Shape, WireShape
  <2>6. mail \in Mail /\ box \in Boxes
    BY DEF Shape, WireShape, Mail, Boxes
  <2>7. [mail EXCEPT ![box] = Tail(@)] \in Mail
    BY <2>6, ReadShape
  <2>8. <<Message("failed", 0)>> \in Seq(Letter)
    BY PlainLetter, OneOf
  <2>9. mail' \in Mail
    BY <2>1, <2>7, <2>8, ToRecipientShape
  <2> QED
    BY <2>1, <2>3, <2>4, <2>5, <2>9 DEF SenderSound
<1> QED
  BY <1>1, <1>2

\* A handler of the sender touches nothing else that the invariant is about.
LEMMA SenderStep ==
    ASSUME Shape, SenderSound, UNCHANGED <<plan, online, net, cuts>>,
           UNCHANGED agentVars, UNCHANGED browserVars,
           late' \subseteq Lateness, stream' \in [Attempts -> Stream]
    PROVE  Shape'
  BY SenderMoves DEF SenderSound, Shape, WireShape

\* What a reader finds at the head of its queue.
LEMMA ReadFacts ==
    ASSUME Shape, NEW box \in {"run", "loop"}, NEW type, Reads(box, type)
    PROVE  /\ mail[box] # <<>> /\ Head(mail[box]) \in Letter /\ Head(mail[box]).type = type
           /\ Reader(box) \in 0 .. MaxRuns
<1>1. mail \in Mail /\ box \in Boxes
  BY DEF Shape, WireShape, Mail, Boxes
<1>2. mail[box] # <<>> /\ Head(mail[box]).type = type
  BY DEF Reads, Read
<1>3. Head(mail[box]) \in Letter
  BY <1>1, <1>2, ReadShape
<1>4. Reader(box) \in 0 .. MaxRuns
  BY Bounds DEF Reader, Shape, WireShape
<1> QED
  BY <1>2, <1>3, <1>4

LEMMA SenderFacts ==
    ASSUME Shape
    PROVE  /\ sjob \in Job /\ sjob.status \in Statuses /\ touched \in BOOLEAN
           /\ (sjob.status = "completed" => Delivered)
           /\ session \in Session /\ session.att \in 0 .. MaxAttempts
           /\ stream \in [Attempts -> Stream] /\ late \subseteq Lateness
           /\ peers \in Peers /\ "sender" \in Sides
           /\ \A a \in Attempts : peers["sender"][a] \in Peer
           /\ \A a \in Attempts : peers["sender"][a].state # "none" => Met
           /\ plan \in Plans /\ mail \in Mail
  BY DEF Shape, WireShape, SenderShape, Job, Session, Peers, Sides, Mail

LEMMA AcceptedShape ==
    ASSUME Shape, NEW box \in {"run", "loop"}, handleAccepted(box)
    PROVE  SenderSound
<1> DEFINE own == [session EXCEPT !.owner = IF @ = 0 THEN Reader(box) ELSE @]
           j   == [sjob EXCEPT !.status = IF @ = "offered" THEN "accepted" ELSE @]
           t   == touched \/ j # sjob
           a   == NextAttempt
<1>1. Reads(box, "accepted")
  BY DEF handleAccepted
<1>2. /\ mail[box] # <<>> /\ Head(mail[box]) \in Letter /\ Head(mail[box]).type = "accepted"
      /\ Reader(box) \in 0 .. MaxRuns
  BY <1>1, ReadFacts
<1>3. Met
  BY <1>2 DEF Letter
<1>4. own \in Session
  BY <1>2, SenderFacts DEF Session
<1>5. j \in Job /\ (j.status = "completed" => Delivered)
  BY SenderFacts DEF Job, Statuses
<1>6. t \in BOOLEAN
  OBVIOUS
<1>7. CASE sjob.status \in Terminal
  <2>1. Handled(box, sjob, touched, session, peers, TRUE, "none")
    BY <1>7 DEF handleAccepted
  <2> QED
    BY <1>2, <2>1, SenderFacts, HandledShape
<1>8. CASE sjob.status \notin Terminal /\ session.att # 0
  <2>1. Handled(box, j, t, own, peers, FALSE, "none")
    BY <1>8 DEF handleAccepted
  <2> HIDE DEF own, j, t
  <2> QED
    BY <1>2, <1>4, <1>5, <1>6, <2>1, SenderFacts, HandledShape
<1>9. CASE sjob.status \notin Terminal /\ session.att = 0
  <2> DEFINE s == [own EXCEPT !.att = a, !.pending = <<>>]
             p == [peers EXCEPT !["sender"][a] = NewPeer(session, Reader(box))]
  <2>1. a \in Attempts /\ Handled(box, j, t, s, p, FALSE, "none")
    BY <1>9 DEF handleAccepted
  <2>2. NewPeer(session, Reader(box)) \in Peer
    BY <1>2, SenderFacts, PlanFacts, NoPeerShape DEF NewPeer, NoPeer, Peer, Session
  <2>3. p \in Peers
    BY <2>1, <2>2, SenderFacts, SetPeer
  <2>4. <<>> \in Waiting /\ a \in 0 .. MaxAttempts
    BY <2>1, Bounds DEF Waiting, Attempts
  <2>5. s \in Session
    BY <1>4, <2>4 DEF Session
  <2>6. \A b \in Attempts : p["sender"][b].state # "none" => Met
    BY <1>3
  <2> HIDE DEF own, j, t, s, p, a
  <2> QED
    BY <1>2, <1>5, <1>6, <2>1, <2>3, <2>5, <2>6, HandledShape
<1> QED
  BY <1>7, <1>8, <1>9

LEMMA AnswerShape ==
    ASSUME Shape, NEW box \in {"run", "loop"}, handleWebRTCAnswer(box)
    PROVE  SenderSound /\ stream' \in [Attempts -> Stream]
<1> DEFINE a  == session.att
           ok == a # 0 /\ peers["sender"][a].state = "offered"
           p  == IF ok THEN [peers EXCEPT !["sender"][a] = flushPendingICE(@, a, "stable")] ELSE peers
<1>1. /\ Reads(box, "answer") /\ Handled(box, sjob, touched, session, p, ~ok, "none")
      /\ stream' = IF ~ok THEN stream
                   ELSE [stream EXCEPT ![a] = [pc |-> "waiting", via |-> Reader(box),
                                               next |-> liveSenderResumeManifest(sjob)]]
  BY DEF handleWebRTCAnswer
<1>2. mail[box] # <<>> /\ Reader(box) \in 0 .. MaxRuns
  BY <1>1, ReadFacts
<1>3. ok => a \in Attempts
  BY SenderFacts, Bounds DEF Attempts
<1>4. p \in Peers /\ \A b \in Attempts : p["sender"][b].state # "none" => Met
  <2>1. CASE ok
    <3>1. a \in Attempts /\ peers["sender"][a] \in Peer
      BY <1>3, <2>1, SenderFacts
    <3> DEFINE q == flushPendingICE(peers["sender"][a], a, "stable")
    <3>2. q \in Peer
      BY <3>1, FlushShape
    <3>3. p = [peers EXCEPT !["sender"][a] = q]
      BY <2>1, <3>1, SenderFacts DEF Peers
    <3>4. peers \in Peers
      BY SenderFacts
    <3> HIDE DEF q, p, a
    <3>6. /\ [peers EXCEPT !["sender"][a] = q] \in Peers
          /\ \A b \in Attempts : [peers EXCEPT !["sender"][a] = q]["sender"][b]
                                    = IF b = a THEN q ELSE peers["sender"][b]
      BY <3>1, <3>2, <3>4, SetSender
    <3>7. p \in Peers /\ \A b \in Attempts : p["sender"][b] = IF b = a THEN q ELSE peers["sender"][b]
      BY <3>3, <3>6
    <3>5. Met
      BY <2>1, <3>1, SenderFacts
    <3> QED
      BY <3>7, <3>5
  <2>2. CASE ~ok
    BY <2>2, SenderFacts
  <2> QED
    BY <2>1, <2>2
<1>5. SenderSound
  <2>1. (~ok) \in BOOLEAN
    OBVIOUS
  <2> HIDE DEF ok, p
  <2> QED
    BY <1>1, <1>2, <1>4, <2>1, SenderFacts, HandledShape
<1>6. stream' \in [Attempts -> Stream]
  <2>1. liveSenderResumeManifest(sjob) \in Nat
    BY SenderFacts, PlanFacts DEF liveSenderResumeManifest, Job
  <2>2. [pc |-> "waiting", via |-> Reader(box), next |-> liveSenderResumeManifest(sjob)] \in Stream
    BY <1>2, <2>1 DEF Stream
  <2> QED
    BY <1>1, <1>3, <2>2, SenderFacts
<1> QED
  BY <1>5, <1>6

LEMMA ICEShape ==
    ASSUME Shape, NEW box \in {"run", "loop"}, handleWebRTCICE(box)
    PROVE  SenderSound /\ late' \subseteq Lateness
<1> DEFINE a == session.att
           c == Head(mail[box]).n
<1>1. Reads(box, "ice")
  BY DEF handleWebRTCICE
<1>2. mail[box] # <<>> /\ Head(mail[box]) \in Letter /\ Head(mail[box]).type = "ice"
  BY <1>1, ReadFacts
<1>3. c \in Attempts
  BY <1>2 DEF Letter
<1>4. CASE sjob.status \in Terminal
  <2>1. Handled(box, sjob, touched, session, peers, FALSE, "none") /\ late' = late
    BY <1>4 DEF handleWebRTCICE
  <2> QED
    BY <1>2, <2>1, SenderFacts, HandledShape
<1>5. CASE sjob.status \notin Terminal /\ a = 0
  <2> DEFINE full == Full(session.pending)
             s    == IF full THEN session ELSE [session EXCEPT !.pending = Append(@, c)]
  <2>1. Handled(box, sjob, touched, s, peers, full, "none") /\ late' = late
    BY <1>5 DEF handleWebRTCICE
  <2>2. s \in Session
    <3>1. CASE full
      BY <3>1, SenderFacts
    <3>2. CASE ~full
      <4>1. Append(session.pending, c) \in Waiting
        BY <1>3, <3>2, SenderFacts, Bounds DEF Full, Session, Waiting
      <4> QED
        BY <3>2, <4>1, SenderFacts DEF Session
    <3> QED
      BY <3>1, <3>2
  <2>3. full \in BOOLEAN
    BY DEF Full
  <2> HIDE DEF full, s
  <2> QED
    BY <1>2, <2>1, <2>2, <2>3, SenderFacts, HandledShape
<1>6. CASE sjob.status \notin Terminal /\ a # 0
  <2>1. PICK refused \in AddRefusals(peers["sender"][a]) :
            /\ Handled(box, sjob, touched, session,
                       [peers EXCEPT !["sender"][a] = AddICECandidate(@, a, c)], refused, "none")
            /\ late' = late \cup IF refused /\ peers["sender"][a].state = "closed"
                                   THEN {"candidate"} ELSE {}
    BY <1>6 DEF handleWebRTCICE
  <2>2. refused \in BOOLEAN
    BY <2>1, RefusalsShape
  <2>3. a \in Attempts
    BY <1>6, SenderFacts, Bounds DEF Attempts
  <2> DEFINE q == AddICECandidate(peers["sender"][a], a, c)
             p == [peers EXCEPT !["sender"][a] = q]
  <2>4. q \in Peer /\ (q.state = "none" <=> peers["sender"][a].state = "none")
    BY <1>3, <2>3, SenderFacts, AddShape
  <2>5. [peers EXCEPT !["sender"][a] = AddICECandidate(@, a, c)] = p
    BY <2>3, SenderFacts DEF Peers
  <2> HIDE DEF q
  <2>6. p \in Peers /\ \A b \in Attempts : p["sender"][b] = IF b = a THEN q ELSE peers["sender"][b]
    BY <2>3, <2>4, SenderFacts, SetSender
  <2>7. \A b \in Attempts : p["sender"][b].state # "none" => Met
    BY <2>4, <2>6, <2>3, SenderFacts
  <2>8. Handled(box, sjob, touched, session, p, refused, "none")
    BY <2>1, <2>5
  <2> HIDE DEF p
  <2>9. SenderSound
    BY <1>2, <2>2, <2>6, <2>7, <2>8, SenderFacts, HandledShape
  <2>10. late' \subseteq Lateness
    BY <2>1, SenderFacts DEF Lateness
  <2> QED
    BY <2>9, <2>10
<1> QED
  BY <1>4, <1>5, <1>6

LEMMA StartedShape ==
    ASSUME Shape, NEW box \in {"run", "loop"}, handleStarted(box)
    PROVE  SenderSound /\ late' \subseteq Lateness
<1>1. PICK err \in BOOLEAN, j \in {sjob, [sjob EXCEPT !.status = markTransferStarted(@)]} :
          Handled(box, j, touched \/ j # sjob, session, peers, err, "none")
  BY StartedRead, SenderFacts
<1>2. mail[box] # <<>> /\ late' \subseteq Lateness
  BY StartedRead, SenderFacts, ReadFacts
<1>3. j \in {sjob, [sjob EXCEPT !.status = markTransferStarted(sjob.status)]}
  BY SenderFacts DEF Job
<1>4. /\ markTransferStarted(sjob.status) \in Statuses
      /\ markTransferStarted(sjob.status) = "completed" <=> sjob.status = "completed"
  BY SenderFacts, StatusFacts
<1>5. j \in Job /\ j.status \in {sjob.status, markTransferStarted(sjob.status)}
  BY <1>3, <1>4, SenderFacts, JobStatus
<1> DEFINE t == touched \/ j # sjob
<1>6. t \in BOOLEAN
  OBVIOUS
<1> HIDE DEF t
<1>7. j.status = "completed" => Delivered
  BY <1>4, <1>5, SenderFacts
<1>8. Handled(box, j, t, session, peers, err, "none")
  BY <1>1 DEF t
<1>9. SenderSound
  BY <1>2, <1>5, <1>6, <1>7, <1>8, SenderFacts, HandledShape
<1> QED
  BY <1>2, <1>9

LEMMA ProgressShape ==
    ASSUME Shape, NEW box \in {"run", "loop"}, handleProgress(box)
    PROVE  SenderSound
<1> DEFINE counts == sjob.status \in {"connecting", "transferring"}
           j      == IF counts THEN [sjob EXCEPT !.progress = Head(mail[box]).n] ELSE sjob
           t      == touched \/ counts
<1>1. Reads(box, "progress") /\ Handled(box, j, t, session, peers, FALSE, "none")
  BY DEF handleProgress
<1>2. mail[box] # <<>> /\ Head(mail[box]) \in Letter /\ Head(mail[box]).type = "progress"
  BY <1>1, ReadFacts
<1>3. Head(mail[box]).n \in 0 .. plan.size
  BY <1>2, SenderFacts, PlanFacts DEF Letter
<1>4. j \in Job /\ (j.status = "completed" => Delivered)
  BY <1>3, SenderFacts DEF Job
<1>5. t \in BOOLEAN
  OBVIOUS
<1> HIDE DEF j, t
<1> QED
  BY <1>1, <1>2, <1>4, <1>5, SenderFacts, HandledShape

\* The sender's peer is closed with its session.
LEMMA ClosedSession ==
    ASSUME Shape
    PROVE  /\ CloseAt(peers, "sender", session.att) \in Peers
           /\ \A a \in Attempts : CloseAt(peers, "sender", session.att)["sender"][a].state # "none" => Met
<1>1. CloseAt(peers, "sender", session.att) \in Peers
  BY SenderFacts, CloseAtShape
<1>2. \A a \in Attempts : (CloseAt(peers, "sender", session.att)["sender"][a].state = "none")
                             <=> (peers["sender"][a].state = "none")
  BY SenderFacts, CloseAtNone
<1> QED
  BY <1>1, <1>2, SenderFacts

LEMMA RetryableShape ==
    ASSUME Shape, NEW box \in {"run", "loop"}, handleTransferRetryable(box)
    PROVE  SenderSound
<1> DEFINE err == sjob.status \in Terminal
           j   == IF err THEN sjob
                  ELSE [status   |-> markJobRetryableIfMutable(sjob.status),
                        progress |-> Head(mail[box]).n]
           t   == touched \/ ~err
           p   == CloseAt(peers, "sender", session.att)
<1>1. Reads(box, "retryable") /\ Handled(box, j, t, NoSession, p, err, "failed")
  BY DEF handleTransferRetryable
<1>2. mail[box] # <<>> /\ Head(mail[box]) \in Letter /\ Head(mail[box]).type = "retryable"
  BY <1>1, ReadFacts
<1>3. Head(mail[box]).n \in 0 .. plan.size
  BY <1>2, SenderFacts, PlanFacts DEF Letter
<1>4. /\ markJobRetryableIfMutable(sjob.status) \in Statuses
      /\ markJobRetryableIfMutable(sjob.status) = "completed" <=> sjob.status = "completed"
  BY SenderFacts, StatusFacts
<1>5. j \in Job /\ (j.status = "completed" => Delivered)
  BY <1>3, <1>4, SenderFacts DEF Job
<1>6. t \in BOOLEAN /\ err \in BOOLEAN
  OBVIOUS
<1>7. p \in Peers /\ \A a \in Attempts : p["sender"][a].state # "none" => Met
  BY ClosedSession
<1> HIDE DEF err, j, t, p
<1> QED
  BY <1>1, <1>2, <1>5, <1>6, <1>7, SenderFacts, NoSessionShape, HandledShape

\* Only a message that tells the truth completes the job.
LEMMA CompletedShape ==
    ASSUME Shape, NEW box \in {"run", "loop"}, handleCompleted(box)
    PROVE  SenderSound
<1> DEFINE ok == completeTransferJob(sjob)
           j  == [sjob EXCEPT !.status = IF ok THEN "completed" ELSE markTransferStarted(@)]
           t  == touched \/ j # sjob
<1>1. Reads(box, "completed") /\ Handled(box, j, t, session, peers, ~ok, "completed")
  BY DEF handleCompleted
<1>2. mail[box] # <<>> /\ Head(mail[box]) \in Letter /\ Head(mail[box]).type = "completed"
  BY <1>1, ReadFacts
<1>3. Delivered
  BY <1>2 DEF Letter
<1>4. markTransferStarted(sjob.status) \in Statuses /\ "completed" \in Statuses
  BY SenderFacts, StatusFacts DEF Statuses, Terminal
<1>5. j \in Job
  BY <1>4, SenderFacts DEF Job
<1>6. t \in BOOLEAN /\ (~ok) \in BOOLEAN
  OBVIOUS
<1> HIDE DEF ok, j, t
<1> QED
  BY <1>1, <1>2, <1>3, <1>5, <1>6, SenderFacts, HandledShape

LEMMA FailedShape ==
    ASSUME Shape, NEW box \in {"run", "loop"}, NEW type, handleFailed(box, type)
    PROVE  SenderSound
<1> DEFINE j == [sjob EXCEPT !.status = failTransferJob(@)]
           t == touched \/ j # sjob
           p == CloseAt(peers, "sender", session.att)
<1>1. Reads(box, type) /\ Handled(box, j, t, NoSession, p, FALSE, "failed")
  BY DEF handleFailed
<1>2. mail[box] # <<>>
  BY <1>1, ReadFacts
<1>3. j = [sjob EXCEPT !.status = failTransferJob(sjob.status)]
  BY SenderFacts DEF Job
<1>4. /\ failTransferJob(sjob.status) \in Statuses
      /\ failTransferJob(sjob.status) = "completed" <=> sjob.status = "completed"
  BY SenderFacts, StatusFacts
<1>5. j \in Job /\ j.status = failTransferJob(sjob.status)
  BY <1>3, <1>4, SenderFacts, JobStatus
<1>6. t \in BOOLEAN
  OBVIOUS
<1>7. p \in Peers /\ \A a \in Attempts : p["sender"][a].state # "none" => Met
  BY ClosedSession
<1> HIDE DEF j, t, p
<1>8. j.status = "completed" => Delivered
  BY <1>4, <1>5, SenderFacts
<1> QED
  BY <1>1, <1>2, <1>5, <1>6, <1>7, <1>8, NoSessionShape, HandledShape

\* Every message the sender reads.
LEMMA EnvelopeShape ==
    ASSUME Shape, NEW box \in {"run", "loop"}, handleEnvelope(box),
           UNCHANGED agentVars, UNCHANGED browserVars
    PROVE  Shape'
<1>1. SenderSound
  BY AcceptedShape, AnswerShape, ICEShape, StartedShape, ProgressShape, RetryableShape,
     CompletedShape, FailedShape DEF handleEnvelope
<1>2. stream' \in [Attempts -> Stream]
  <2>1. CASE handleWebRTCAnswer(box)
    BY <2>1, AnswerShape
  <2>2. CASE ~handleWebRTCAnswer(box)
    <3>1. stream' = stream
      BY <2>2 DEF handleEnvelope, handleAccepted, handleWebRTCICE, handleStarted, handleProgress,
                  handleTransferRetryable, handleCompleted, handleFailed
    <3> QED
      BY <3>1, SenderFacts
  <2> QED
    BY <2>1, <2>2
<1>3. late' \subseteq Lateness
  <2>1. CASE handleWebRTCICE(box) \/ handleStarted(box)
    BY <2>1, ICEShape, StartedShape
  <2>2. CASE ~(handleWebRTCICE(box) \/ handleStarted(box))
    <3>1. late' = late
      BY <2>2 DEF handleEnvelope, handleAccepted, handleWebRTCAnswer, handleProgress,
                  handleTransferRetryable, handleCompleted, handleFailed
    <3> QED
      BY <3>1, SenderFacts
  <2> QED
    BY <2>1, <2>2
<1>4. UNCHANGED <<plan, online, net, cuts>>
  BY DEF handleEnvelope, handleAccepted, handleWebRTCAnswer, handleWebRTCICE, handleStarted,
         handleProgress, handleTransferRetryable, handleCompleted, handleFailed
<1> QED
  BY <1>1, <1>2, <1>3, <1>4, SenderStep

\* What the sender knows besides.
LEMMA WireFacts ==
    ASSUME Shape
    PROVE  /\ plan \in Plans /\ online \in BOOLEAN /\ late \subseteq Lateness
           /\ run \in [no : 0 .. MaxRuns, on : BOOLEAN, reads : BOOLEAN]
           /\ cuts \in 0 .. plan.cuts /\ mail \in Mail /\ peers \in Peers
           /\ net \in [Attempts -> Channel]
           /\ \A a \in Attempts : peers["sender"][a].state # "none" => Met
           /\ sjob \in Job /\ touched \in BOOLEAN /\ session \in Session
           /\ stream \in [Attempts -> Stream]
           /\ (sjob.status = "completed" => Delivered)
  BY DEF Shape, WireShape, SenderShape, Mail

LEMMA SayShape ==
    ASSUME Shape, NEW a, NEW out \in Seq(Letter), Say(a, out)
    PROVE  mail' \in Mail
<1>1. mail \in Mail
  BY WireFacts
<1> QED
  BY <1>1, ToRecipientShape DEF Say

\* The run, the offers and what the run makes of the goroutine's end.
LEMMA RunShape ==
    ASSUME Shape, UNCHANGED agentVars, UNCHANGED browserVars,
           RunTransfer \/ sendTransferOffer \/ RunReadsDone
             \/ (\E a \in Attempts : SendWebRTCOffer(a)) \/ Resume
    PROVE  Shape'
<1>1. CASE RunTransfer
  <2>1. run' \in [no : 0 .. MaxRuns, on : BOOLEAN, reads : BOOLEAN]
    BY <1>1, Bounds DEF RunTransfer
  <2> QED
    BY <1>1, <2>1, WireFacts, SenderMoves DEF RunTransfer, senderVars
<1>2. CASE sendTransferOffer
  <2>1. run' \in [no : 0 .. MaxRuns, on : BOOLEAN, reads : BOOLEAN]
    BY <1>2, WireFacts DEF sendTransferOffer
  <2>2. <<Message("offer", 0)>> \in Seq(Letter)
    BY PlainLetter, OneOf
  <2>3. mail' \in Mail
    BY <1>2, <2>2, WireFacts, ToRecipientShape DEF sendTransferOffer
  <2> QED
    BY <1>2, <2>1, <2>3, WireFacts, SenderMoves DEF sendTransferOffer, senderVars
<1>3. CASE RunReadsDone
  <2>1. Ended(sjob, touched, session, peers, TRUE) /\ mail' = [mail EXCEPT !.run = <<>>]
    BY <1>3 DEF RunReadsDone
  <2>2. SenderSound
    BY <2>1, WireFacts, EndedShape
  <2>3. UNCHANGED <<plan, online, net, cuts, late, stream>>
    BY <1>3 DEF RunReadsDone
  <2> QED
    BY <2>2, <2>3, WireFacts, SenderStep
<1>4. ASSUME NEW a \in Attempts, SendWebRTCOffer(a)
      PROVE  Shape'
  <2>1. peers["sender"][a] \in Peer /\ peers["sender"][a].state = "making"
    BY <1>4, SenderFacts DEF SendWebRTCOffer
  <2> DEFINE q == [peers["sender"][a] EXCEPT !.state = "offered"]
  <2>2. q \in Peer
    BY <2>1 DEF Peer
  <2>3. peers' = [peers EXCEPT !["sender"][a] = q]
    BY <1>4, <2>1, WireFacts DEF SendWebRTCOffer, Peers, Sides
  <2>4. Met
    BY <2>1, WireFacts
  <2> HIDE DEF q
  <2>5. peers' \in Peers
    BY <2>2, <2>3, WireFacts, SetSender
  <2>6. <<Message("webrtc_offer", a)>> \in Seq(Letter)
    BY <2>4, OfferLetter, OneOf
  <2>7. mail' \in Mail
    BY <1>4, <2>6, WireFacts, ToRecipientShape DEF SendWebRTCOffer
  <2> QED
    BY <1>4, <2>4, <2>5, <2>7, WireFacts, SenderMoves DEF SendWebRTCOffer, senderVars
<1>5. CASE Resume
  <2>1. run' \in [no : 0 .. MaxRuns, on : BOOLEAN, reads : BOOLEAN]
    BY <1>5, Bounds DEF Resume, handleResumeTransfer
  <2>2. sjob' \in Job /\ sjob'.status = "connecting"
    BY <1>5, WireFacts DEF Resume, handleResumeTransfer, ClaimRetryable, Job, Statuses
  <2> QED
    BY <1>5, <2>1, <2>2, WireFacts, SenderMoves DEF Resume, handleResumeTransfer
<1> QED
  BY <1>1, <1>2, <1>3, <1>4, <1>5

LEMMA TransmitShape ==
    ASSUME Shape, NEW a \in Attempts, NEW frame \in Genuine, Transmit(a, frame)
    PROVE  net' \in [Attempts -> Channel]
<1>1. net \in [Attempts -> Channel] /\ net[a].frames \in Seq(Genuine)
  BY WireFacts DEF Channel
<1>2. Append(net[a].frames, frame) \in Seq(Genuine)
  BY <1>1
<1>3. net' = net \/ net' = [net EXCEPT ![a] = [net[a] EXCEPT !.frames = Append(net[a].frames, frame)]]
  BY <1>1 DEF Transmit
<1>4. [net[a] EXCEPT !.frames = Append(net[a].frames, frame)] \in Channel
  BY <1>1, <1>2 DEF Channel
<1> QED
  BY <1>1, <1>3, <1>4

\* The goroutine of an attempt: every frame it sends is one of its file.
LEMMA StreamShape ==
    ASSUME Shape, UNCHANGED agentVars, UNCHANGED browserVars, NEW a \in Attempts,
           SenderStarts(a) \/ SendFrame(a) \/ SenderInterrupted(a)
    PROVE  Shape'
<1>0. stream[a] \in Stream /\ sjob.status \in Statuses /\ sjob.progress \in 0 .. plan.size
  BY WireFacts DEF Job
<1>a. \A pc \in {"done", "failed"} : Returned(pc) \in Stream
  BY Bounds DEF Returned, NoStream, Stream
<1>1. CASE SenderStarts(a)
  <2>0. /\ sjob' \in {sjob, [sjob EXCEPT !.status = markTransferStarted(@)]}
        /\ touched' = (touched \/ sjob' # sjob) /\ late' \subseteq Lateness
        /\ UNCHANGED <<plan, online, run, peers, net, cuts, session>>
    BY <1>1, WireFacts, SenderStarted
  <2>1. PICK err \in BOOLEAN :
           /\ stream' = [stream EXCEPT ![a] = IF err THEN Returned("failed")
                                              ELSE [@ EXCEPT !.pc = "streaming"]]
           /\ IF err THEN UNCHANGED mail ELSE Say(a, <<Message("started", 0)>>)
    BY <1>1, WireFacts, SenderStarted
  <2>2. sjob' \in {sjob, [sjob EXCEPT !.status = markTransferStarted(sjob.status)]}
    BY <2>0, WireFacts DEF Job
  <2>3. /\ markTransferStarted(sjob.status) \in Statuses
        /\ markTransferStarted(sjob.status) = "completed" <=> sjob.status = "completed"
    BY <1>0, StatusFacts
  <2>4. sjob' \in Job /\ sjob'.status \in {sjob.status, markTransferStarted(sjob.status)}
    <3> DEFINE moved == [sjob EXCEPT !.status = markTransferStarted(sjob.status)]
    <3>1. sjob \in Job
      BY WireFacts
    <3>2. moved \in Job /\ moved.status = markTransferStarted(sjob.status)
      BY <2>3, <3>1, JobStatus
    <3>3. sjob' \in {sjob, moved}
      BY <2>2
    <3> HIDE DEF moved
    <3> QED
      BY <3>1, <3>2, <3>3
  <2>5. touched' \in BOOLEAN
    BY <2>0
  <2>6. stream' \in [Attempts -> Stream]
    <3>1. [stream[a] EXCEPT !.pc = "streaming"] \in Stream
      BY <1>0 DEF Stream
    <3> QED
      BY <1>a, <2>1, <3>1, WireFacts
  <2>7. <<Message("started", 0)>> \in Seq(Letter)
    BY PlainLetter, OneOf
  <2>8. mail' \in Mail
    BY <2>1, <2>7, WireFacts, SayShape
  <2>9. sjob' \in Job /\ (sjob'.status = "completed" => Delivered)
    BY <2>3, <2>4, WireFacts
  <2> QED
    BY <2>0, <2>5, <2>6, <2>8, <2>9, WireFacts, SenderMoves
<1>2. CASE SendFrame(a)
  <2> DEFINE next  == stream[a].next
             count == IF plan.size = 0 THEN 1 ELSE plan.size
  <2>1. next \in Nat /\ count = ChunkCount /\ ChunkCount \in Nat
    BY <1>0, WireFacts, PlanFacts DEF Stream, ChunkCount
  <2>2. CASE next < count
    <3>1. Transmit(a, Chunk(next)) /\ stream' = [stream EXCEPT ![a].next = @ + 1]
      BY <1>2, <2>2 DEF SendFrame, Chunk
    <3>2. Chunk(next) \in Genuine
      BY <2>1, <2>2 DEF Genuine
    <3>3. net' \in [Attempts -> Channel]
      BY <3>1, <3>2, TransmitShape
    <3>4. [stream[a] EXCEPT !.next = next + 1] \in Stream
      BY <1>0, <2>1 DEF Stream
    <3>5. stream' \in [Attempts -> Stream]
      BY <3>1, <3>4, WireFacts
    <3> QED
      BY <1>2, <3>3, <3>5, WireFacts, SenderMoves DEF SendFrame
  <2>3. CASE ~(next < count)
    <3>1. /\ Transmit(a, EncodeManifestFrame(plan.size, count, Source(plan.size)))
          /\ stream' = [stream EXCEPT ![a] = Returned("done")]
      BY <1>2, <2>3 DEF SendFrame
    <3>2. Transmit(a, Manifest) /\ Manifest \in Genuine
      BY <3>1 DEF Manifest, ChunkCount, Genuine
    <3>3. net' \in [Attempts -> Channel]
      BY <3>2, TransmitShape
    <3>4. stream' \in [Attempts -> Stream]
      BY <1>a, <3>1, WireFacts
    <3> QED
      BY <1>2, <3>3, <3>4, WireFacts, SenderMoves DEF SendFrame
  <2> QED
    BY <2>2, <2>3
<1>3. CASE SenderInterrupted(a)
  <2>1. /\ sjob' = [sjob EXCEPT !.status = markJobRetryableIfMutable(@)]
        /\ touched' = (touched \/ sjob.status \notin Terminal \cup {"retryable"})
        /\ stream' = [stream EXCEPT ![a] = Returned("failed")]
        /\ Say(a, <<Message("retryable", sjob.progress)>>)
        /\ UNCHANGED <<plan, online, run, peers, net, cuts, late, session>>
    BY <1>3 DEF SenderInterrupted
  <2>2. sjob' = [sjob EXCEPT !.status = markJobRetryableIfMutable(sjob.status)]
    BY <2>1, WireFacts DEF Job
  <2>3. /\ markJobRetryableIfMutable(sjob.status) \in Statuses
        /\ markJobRetryableIfMutable(sjob.status) = "completed" <=> sjob.status = "completed"
    BY <1>0, StatusFacts
  <2>4. sjob' \in Job /\ sjob'.status = markJobRetryableIfMutable(sjob.status)
    BY <2>2, <2>3, WireFacts, JobStatus
  <2>5. sjob'.status = "completed" => Delivered
    BY <2>3, <2>4, WireFacts
  <2>6. touched' \in BOOLEAN /\ stream' \in [Attempts -> Stream]
    BY <1>a, <2>1, WireFacts
  <2>7. <<Message("retryable", sjob.progress)>> \in Seq(Letter)
    BY <1>0, WireFacts, PlanFacts, ProgressLetter, OneOf
  <2>8. mail' \in Mail
    BY <2>1, <2>7, SayShape
  <2> QED
    BY <2>1, <2>4, <2>5, <2>6, <2>8, WireFacts, SenderMoves
<1> QED
  BY <1>1, <1>2, <1>3

-----------------------------------------------------------------------------
(* The wire.                                                               *)

LEMMA DeliverShape ==
    ASSUME NEW m \in Mail, NEW side, NEW out \in Seq(Letter)
    PROVE  Deliver(m, side, out) \in Mail
  BY ToRecipientShape, ToSenderShape DEF Deliver

LEMMA WireKeeps ==
    ASSUME Shape, WireNext, UNCHANGED <<senderVars, agentVars, browserVars>>
    PROVE  Shape'
<1>0. \A side \in Sides, a \in Attempts : peers[side][a] \in Peer
  BY WireFacts DEF Peers
<1>1. ASSUME NEW side \in Sides, NEW a \in Attempts, Gather(side, a)
      PROVE  Shape'
  <2> DEFINE q == [peers[side][a] EXCEPT !.left = @ - 1]
  <2>1. q \in Peer /\ q.state = peers[side][a].state
    BY <1>0, <1>1 DEF Gather, Peer
  <2>2. peers' = [peers EXCEPT ![side][a] = q]
    BY <1>1, WireFacts DEF Gather, Peers
  <2> HIDE DEF q
  <2>3. /\ peers' \in Peers
        /\ \A s \in Sides, b \in Attempts : peers'[s][b] = IF s = side /\ b = a THEN q ELSE peers[s][b]
    <3>1. peers \in Peers
      BY WireFacts
    <3>2. /\ [peers EXCEPT ![side][a] = q] \in Peers
          /\ \A s \in Sides, b \in Attempts :
                [peers EXCEPT ![side][a] = q][s][b] = IF s = side /\ b = a THEN q ELSE peers[s][b]
      BY <2>1, <3>1, SetPeer
    <3> QED
      BY <2>2, <3>2
  <2>4. \A b \in Attempts : peers'["sender"][b].state # "none" => Met
    BY <2>1, <2>3, WireFacts DEF Sides
  <2>5. <<Message("ice", a)>> \in Seq(Letter)
    BY AttemptLetter, OneOf
  <2>6. mail' \in Mail
    BY <1>1, <2>5, WireFacts, DeliverShape DEF Gather
  <2> QED
    BY <1>1, <2>3, <2>4, <2>6, WireFacts, SenderMoves DEF Gather, senderVars
<1>2. ASSUME NEW side \in Sides, NEW a \in Attempts, PeerCloses(side, a)
      PROVE  Shape'
  <2>1. peers' = CloseAt(peers, side, a) /\ a \in 0 .. MaxAttempts
    BY <1>2, Bounds DEF PeerCloses, Attempts
  <2>2. peers' \in Peers
    BY <2>1, WireFacts, CloseAtShape
  <2>3. \A b \in Attempts : (peers'["sender"][b].state = "none") <=> (peers["sender"][b].state = "none")
    BY <2>1, WireFacts, CloseAtNone DEF Sides
  <2> QED
    BY <1>2, <2>2, <2>3, WireFacts, SenderMoves DEF PeerCloses, senderVars
<1>3. ASSUME NEW a \in Attempts, OpenChannel(a)
      PROVE  Shape'
  <2>1. [net[a] EXCEPT !.open = TRUE] \in Channel
    BY WireFacts DEF Channel
  <2>2. net' \in [Attempts -> Channel]
    BY <1>3, <2>1, WireFacts DEF OpenChannel
  <2> QED
    BY <1>3, <2>2, WireFacts, SenderMoves DEF OpenChannel, senderVars
<1>4. ASSUME NEW a \in Attempts, Cut(a)
      PROVE  Shape'
  <2>1. PICK k \in 0 .. Len(net[a].frames) :
            net' = [net EXCEPT ![a].cut = TRUE, ![a].frames = SubSeq(@, 1, k)]
    BY <1>4 DEF Cut
  <2>2. net[a] \in Channel /\ net[a].frames \in Seq(Genuine)
    BY WireFacts DEF Channel
  <2>3. SubSeq(net[a].frames, 1, k) \in Seq(Genuine)
    BY <2>1, <2>2
  <2>4. [net[a] EXCEPT !.cut = TRUE, !.frames = SubSeq(net[a].frames, 1, k)] \in Channel
    BY <2>2, <2>3 DEF Channel
  <2>5. net' = [net EXCEPT ![a] = [net[a] EXCEPT !.cut = TRUE, !.frames = SubSeq(net[a].frames, 1, k)]]
    BY <2>1, <2>2, WireFacts DEF Channel
  <2>6. net' \in [Attempts -> Channel]
    BY <2>4, <2>5, WireFacts
  <2>7. cuts' \in 0 .. plan.cuts
    BY <1>4, WireFacts, PlanFacts DEF Cut
  <2> QED
    BY <1>4, <2>6, <2>7, WireFacts, SenderMoves DEF Cut, senderVars
<1> QED
  BY <1>1, <1>2, <1>3, <1>4 DEF WireNext

-----------------------------------------------------------------------------
(* The receiving agent.                                                    *)

\* What an attempt's goroutine is about.
Received(r) ==
    /\ r \in [Attempts -> Receiver]
    /\ \A a \in Attempts : /\ r[a].pc # "none" => plan.kind = "agent"
                           /\ r[a].pc \in {"answering", "waiting"} => r[a].progress <= plan.size

LEMMA AgentFacts ==
    ASSUME Shape
    PROVE  /\ rjob \in Job /\ rjob.status \in Statuses /\ rjob.progress \in 0 .. plan.size
           /\ rsession \in RSession /\ rsession.att \in 0 .. MaxAttempts
           /\ Received(recv) /\ part \in Part
           /\ file \in {NoFile, Source(plan.size)} /\ "recipient" \in Sides
           /\ plan \in Plans /\ late \subseteq Lateness /\ mail \in Mail /\ peers \in Peers
           /\ \A a \in Attempts : peers["recipient"][a] \in Peer
           /\ net \in [Attempts -> Channel] /\ plan.size \in Nat
  BY PlanFacts
     DEF Shape, WireShape, AgentShape, Received, Job, RSession, Sides, Peers, Mail

LEMMA NoRSessionShape == NoRSession \in RSession
  BY Bounds DEF NoRSession, RSession, Waiting

LEMMA NoReceiverShape == [NoReceiver EXCEPT !.pc = "done"] \in Receiver
  BY DEF NoReceiver, Receiver, Statuses

\* A step of the agent, which may commit the file.
LEMMA AgentGrows ==
    ASSUME Shape, UNCHANGED senderVars, UNCHANGED browserVars,
           UNCHANGED <<plan, online, run, cuts>>, late' \subseteq Lateness,
           mail' \in Mail', peers' \in Peers,
           \A a \in Attempts : peers'["sender"][a] = peers["sender"][a],
           net' \in [Attempts -> Channel], rjob' \in Job, rsession' \in RSession,
           Received(recv'), part' \in Part, file' \in {NoFile, Source(plan.size)},
           Delivered => Delivered'
    PROVE  Shape'
<1>1. /\ Channel' = Channel /\ Job' = Job /\ Part' = Part /\ State' = State /\ (Met <=> Met')
  BY DEF browserVars, Genuine, Channel, Job, Part, State, Met, Chunk, Manifest, ChunkCount
<1>2. WireShape'
  BY <1>1 DEF Shape, WireShape, Mail
<1>3. SenderShape'
  BY <1>1 DEF Shape, SenderShape, senderVars
<1>4. AgentShape'
  BY <1>1 DEF Shape, AgentShape, Received
<1>5. BrowserShape'
  BY <1>1 DEF Shape, BrowserShape, browserVars
<1> QED
  BY <1>2, <1>3, <1>4, <1>5 DEF Shape

\* A step of the agent that commits nothing.
LEMMA AgentMoves ==
    ASSUME Shape, UNCHANGED senderVars, UNCHANGED browserVars,
           UNCHANGED <<plan, online, run, cuts, file>>, late' \subseteq Lateness,
           mail' \in Mail, peers' \in Peers,
           \A a \in Attempts : peers'["sender"][a] = peers["sender"][a],
           net' \in [Attempts -> Channel], rjob' \in Job, rsession' \in RSession,
           Received(recv'), part' \in Part
    PROVE  Shape'
<1>1. Mail' = Mail /\ (Delivered <=> Delivered')
  BY SameSets DEF browserVars
<1>2. file' \in {NoFile, Source(plan.size)} /\ mail' \in Mail'
  BY <1>1, AgentFacts
<1> QED
  BY <1>1, <1>2, AgentGrows

\* The recipient's queue has been read.
LEMMA AgentReadFacts ==
    ASSUME Shape, NEW type, AgentReads(type)
    PROVE  /\ plan.kind = "agent" /\ Head(mail.recipient) \in Letter
           /\ Head(mail.recipient).type = type
           /\ [mail EXCEPT !.recipient = Tail(@)] \in Mail
<1>1. plan.kind = "agent" /\ mail["recipient"] # <<>> /\ Head(mail["recipient"]).type = type
  BY DEF AgentReads, Read
<1>2. mail \in Mail /\ "recipient" \in Boxes
  BY AgentFacts DEF Boxes
<1> QED
  BY <1>1, <1>2, ReadShape

\* What a handler of the agent leaves behind.
LEMMA AgentHandledShape ==
    ASSUME Shape, NEW j \in Job, NEW s \in RSession, NEW p \in Peers,
           NEW out \in Seq(Letter), NEW err \in BOOLEAN,
           [mail EXCEPT !.recipient = Tail(@)] \in Mail,
           AgentHandled(j, s, p, out, err)
    PROVE  rjob' \in Job /\ rsession' = s /\ peers' = p /\ mail' \in Mail
<1>1. j.status \in Statuses /\ rjob' \in {j, [j EXCEPT !.status = failTransferJob(j.status)]}
  BY DEF AgentHandled, Job
<1>2. failTransferJob(j.status) \in Statuses
  BY <1>1, StatusFacts
<1>3. [j EXCEPT !.status = failTransferJob(j.status)] \in Job
  BY <1>2, JobStatus
<1>4. Message("failed", 0) \in Letter
  BY PlainLetter
<1>5. Append(out, Message("failed", 0)) \in Seq(Letter)
  BY <1>4
<1>6. mail' \in Mail
  BY <1>5, ToSenderShape DEF AgentHandled
<1> QED
  BY <1>1, <1>3, <1>6 DEF AgentHandled

LEMMA OfferShape ==
    ASSUME Shape, handleTransferOffer, UNCHANGED senderVars, UNCHANGED browserVars
    PROVE  Shape'
<1>1. AgentReads("offer")
  BY DEF handleTransferOffer
<1>2. plan.kind = "agent" /\ [mail EXCEPT !.recipient = Tail(@)] \in Mail
  BY <1>1, AgentReadFacts
<1>3. Met
  BY <1>2 DEF Met
<1>4. <<Message("accepted", 0)>> \in Seq(Letter) /\ <<Message("denied", 0)>> \in Seq(Letter)
  BY <1>3, AcceptedLetter, PlainLetter, OneOf
<1>5. rjob \in Job /\ [rjob EXCEPT !.status = "accepted"] \in Job /\ rsession \in RSession /\ peers \in Peers
  BY AgentFacts, JobStatus DEF Statuses
<1>6. PICK j \in {rjob, [rjob EXCEPT !.status = "accepted"]},
           out \in {<<Message("accepted", 0)>>, <<Message("denied", 0)>>} :
         AgentHandled(j, rsession, peers, out, FALSE)
  BY DEF handleTransferOffer
<1>7. rjob' \in Job /\ rsession' = rsession /\ peers' = peers /\ mail' \in Mail
  BY <1>2, <1>4, <1>5, <1>6, AgentHandledShape
<1> QED
  BY <1>7, AgentFacts, AgentMoves DEF handleTransferOffer

LEMMA WebRTCOfferShape ==
    ASSUME Shape, handleWebRTCOffer, UNCHANGED senderVars, UNCHANGED browserVars
    PROVE  Shape'
<1> DEFINE a    == Head(mail.recipient).n
           peer == [NoPeer EXCEPT !.state = "answering", !.left = plan.gather]
           q    == flushLiveSessionICE(peer, a, rsession.pending)
<1>1. AgentReads("webrtc_offer")
  BY DEF handleWebRTCOffer
<1>2. /\ plan.kind = "agent" /\ Head(mail.recipient) \in Letter
      /\ Head(mail.recipient).type = "webrtc_offer"
      /\ [mail EXCEPT !.recipient = Tail(@)] \in Mail
  BY <1>1, AgentReadFacts
<1>3. a \in Attempts /\ <<>> \in Seq(Letter)
  BY <1>2 DEF Letter
<1>4. UNCHANGED <<plan, online, run, net, cuts, late, part, file>>
  BY DEF handleWebRTCOffer
<1>5. CASE rsession.att # 0
  <2>1. AgentHandled(rjob, rsession, peers, <<>>, TRUE) /\ recv' = recv
    BY <1>5 DEF handleWebRTCOffer
  <2>2. rjob' \in Job /\ rsession' = rsession /\ peers' = peers /\ mail' \in Mail
    BY <1>2, <1>3, <2>1, AgentFacts, AgentHandledShape
  <2> QED
    BY <1>4, <2>1, <2>2, AgentFacts, AgentMoves
<1>6. CASE rsession.att = 0
  <2> DEFINE s == [att |-> a, pending |-> <<>>]
             r == [pc |-> "answering", status |-> rjob.status, progress |-> rjob.progress,
                   resumed |-> FALSE]
  <2>1. /\ AgentHandled(rjob, s, [peers EXCEPT !["recipient"][a] = q], <<>>, FALSE)
        /\ recv' = [recv EXCEPT ![a] = r]
    BY <1>6 DEF handleWebRTCOffer
  <2>2. q \in Peer
    <3>1. peer \in Peer /\ peer.added = 0
      BY NoPeerShape, AgentFacts, PlanFacts DEF NoPeer, Peer
    <3>2. CountOf(a, rsession.pending) \in Nat
      BY AgentFacts, CountNat DEF RSession, Waiting
    <3> HIDE DEF peer, a
    <3>3. q = [peer EXCEPT !.added = peer.added + CountOf(a, rsession.pending)]
      BY <3>1 DEF flushLiveSessionICE, Peer
    <3>4. peer.added + CountOf(a, rsession.pending) \in Nat
      BY <3>1, <3>2
    <3> QED
      BY <3>1, <3>3, <3>4 DEF Peer
  <2>3. s \in RSession
    BY <1>3, Bounds DEF RSession, Waiting, Attempts
  <2>4. Received(recv')
    <3>1. r \in Receiver /\ r.progress <= plan.size
      BY AgentFacts, PlanFacts DEF Receiver
    <3> QED
      BY <1>2, <1>3, <2>1, <3>1, AgentFacts DEF Received
  <2> HIDE DEF a, q, s, r
  <2>5. /\ [peers EXCEPT !["recipient"][a] = q] \in Peers
        /\ \A b \in Attempts : [peers EXCEPT !["recipient"][a] = q]["sender"][b] = peers["sender"][b]
    BY <1>3, <2>2, AgentFacts, SetRecipient
  <2>6. /\ rjob' \in Job /\ rsession' = s /\ peers' = [peers EXCEPT !["recipient"][a] = q]
        /\ mail' \in Mail
    BY <1>2, <1>3, <2>1, <2>3, <2>5, AgentFacts, AgentHandledShape
  <2> QED
    BY <1>4, <2>3, <2>4, <2>5, <2>6, AgentFacts, AgentMoves
<1> QED
  BY <1>5, <1>6

LEMMA SendAnswerShape ==
    ASSUME Shape, NEW a \in Attempts, SendAnswer(a), UNCHANGED senderVars, UNCHANGED browserVars
    PROVE  Shape'
<1> DEFINE q == [peers["recipient"][a] EXCEPT !.state = "stable"]
           r == [recv[a] EXCEPT !.pc = "waiting"]
<1>1. /\ peers["recipient"][a] \in Peer /\ plan.kind = "agent" /\ recv[a] \in Receiver
      /\ recv[a].progress <= plan.size
  BY AgentFacts DEF SendAnswer, Received
<1>2. q \in Peer
  BY <1>1 DEF Peer
<1>3. peers' = [peers EXCEPT !["recipient"][a] = q] /\ recv' = [recv EXCEPT ![a] = r]
  BY AgentFacts DEF SendAnswer, Peers, Received
<1>4. <<Message("answer", a)>> \in Seq(Letter)
  BY AttemptLetter, OneOf
<1>5. mail' \in Mail
  BY <1>4, AgentFacts, ToSenderShape DEF SendAnswer
<1> HIDE DEF q
<1>6. /\ [peers EXCEPT !["recipient"][a] = q] \in Peers
      /\ \A b \in Attempts : [peers EXCEPT !["recipient"][a] = q]["sender"][b] = peers["sender"][b]
  BY <1>2, AgentFacts, SetRecipient
<1>7. Received(recv')
  BY <1>1, <1>3, AgentFacts DEF Received, Receiver
<1> QED
  BY <1>3, <1>5, <1>6, <1>7, AgentFacts, AgentMoves DEF SendAnswer

LEMMA AgentICEShape ==
    ASSUME Shape, AgentICE, UNCHANGED senderVars, UNCHANGED browserVars
    PROVE  Shape'
<1> DEFINE a == rsession.att
           c == Head(mail.recipient).n
<1>1. AgentReads("ice")
  BY DEF AgentICE
<1>2. /\ Head(mail.recipient) \in Letter /\ Head(mail.recipient).type = "ice"
      /\ [mail EXCEPT !.recipient = Tail(@)] \in Mail
  BY <1>1, AgentReadFacts
<1>3. c \in Attempts /\ <<>> \in Seq(Letter)
  BY <1>2 DEF Letter
<1>4. UNCHANGED <<plan, online, run, net, cuts, recv, part, file>>
  BY DEF AgentICE
<1>5. CASE rjob.status \in Terminal
  <2>1. AgentHandled(rjob, rsession, peers, <<>>, FALSE) /\ late' = late
    BY <1>5 DEF AgentICE
  <2>2. rjob' \in Job /\ rsession' = rsession /\ peers' = peers /\ mail' \in Mail
    BY <1>2, <1>3, <2>1, AgentFacts, AgentHandledShape
  <2> QED
    BY <1>4, <2>1, <2>2, AgentFacts, AgentMoves
<1>6. CASE rjob.status \notin Terminal /\ a = 0
  <2> DEFINE full == Full(rsession.pending)
             s    == IF full THEN rsession ELSE [rsession EXCEPT !.pending = Append(@, c)]
  <2>1. AgentHandled(rjob, s, peers, <<>>, full) /\ late' = late
    BY <1>6 DEF AgentICE
  <2>2. s \in RSession
    <3>1. CASE full
      BY <3>1, AgentFacts
    <3>2. CASE ~full
      <4>1. Append(rsession.pending, c) \in Waiting
        BY <1>3, <3>2, AgentFacts, Bounds DEF Full, RSession, Waiting
      <4> QED
        BY <3>2, <4>1, AgentFacts DEF RSession
    <3> QED
      BY <3>1, <3>2
  <2>3. full \in BOOLEAN
    BY DEF Full
  <2> HIDE DEF full, s
  <2>4. rjob' \in Job /\ rsession' = s /\ peers' = peers /\ mail' \in Mail
    BY <1>2, <1>3, <2>1, <2>2, <2>3, AgentFacts, AgentHandledShape
  <2> QED
    BY <1>4, <2>1, <2>2, <2>4, AgentFacts, AgentMoves
<1>7. CASE rjob.status \notin Terminal /\ a # 0
  <2>1. PICK refused \in AddRefusals(peers["recipient"][a]) :
            /\ AgentHandled(rjob, rsession,
                            [peers EXCEPT !["recipient"][a] = AddICECandidate(@, a, c)], <<>>, refused)
            /\ late' = late \cup IF refused /\ peers["recipient"][a].state = "closed"
                                   THEN {"candidate"} ELSE {}
    BY <1>7 DEF AgentICE
  <2>2. refused \in BOOLEAN /\ late' \subseteq Lateness
    BY <2>1, RefusalsShape, AgentFacts DEF Lateness
  <2>3. a \in Attempts
    BY <1>7, AgentFacts, Bounds DEF Attempts
  <2> DEFINE q == AddICECandidate(peers["recipient"][a], a, c)
             p == [peers EXCEPT !["recipient"][a] = q]
  <2>4. q \in Peer
    BY <1>3, <2>3, AgentFacts, AddShape
  <2>5. [peers EXCEPT !["recipient"][a] = AddICECandidate(@, a, c)] = p
    BY <2>3, AgentFacts DEF Peers
  <2> HIDE DEF q
  <2>6. p \in Peers /\ \A b \in Attempts : p["sender"][b] = peers["sender"][b]
    BY <2>3, <2>4, AgentFacts, SetRecipient
  <2>7. AgentHandled(rjob, rsession, p, <<>>, refused)
    BY <2>1, <2>5
  <2> HIDE DEF p
  <2>8. rjob' \in Job /\ rsession' = rsession /\ peers' = p /\ mail' \in Mail
    BY <1>2, <1>3, <2>2, <2>6, <2>7, AgentFacts, AgentHandledShape
  <2> QED
    BY <1>4, <2>2, <2>6, <2>8, AgentFacts, AgentMoves
<1> QED
  BY <1>5, <1>6, <1>7

\* The agent's peer is closed with its session.
LEMMA ClosedRSession ==
    ASSUME Shape, NEW a \in 0 .. MaxAttempts
    PROVE  /\ CloseAt(peers, "recipient", a) \in Peers
           /\ \A b \in Attempts : CloseAt(peers, "recipient", a)["sender"][b] = peers["sender"][b]
<1>1. /\ CloseAt(peers, "recipient", a) \in Peers
      /\ \A s \in Sides, b \in Attempts :
            CloseAt(peers, "recipient", a)[s][b]
              = IF s = "recipient" /\ b = a THEN Close(peers[s][b]) ELSE peers[s][b]
  BY AgentFacts, CloseAtShape
<1> QED
  BY <1>1 DEF Sides

LEMMA AgentToldShape ==
    ASSUME Shape, AgentStarted \/ AgentRetryable \/ AgentFailed,
           UNCHANGED senderVars, UNCHANGED browserVars
    PROVE  Shape'
<1>0. /\ markTransferStarted(rjob.status) \in Statuses
      /\ markJobRetryableIfMutable(rjob.status) \in Statuses
      /\ failTransferJob(rjob.status) \in Statuses
  BY AgentFacts, StatusFacts
<1>a. \A s \in Statuses : [rjob EXCEPT !.status = s] \in Job
  BY AgentFacts, JobStatus
<1>b. \A t \in {"started", "retryable", "failed"} :
          AgentReads(t) => [mail EXCEPT !.recipient = Tail(@)] \in Mail
  BY AgentReadFacts
<1>c. <<>> \in Seq(Letter)
  OBVIOUS
<1>d. CloseAt(peers, "recipient", rsession.att) \in Peers
  BY AgentFacts, ClosedRSession
<1>1. CASE AgentStarted
  <2>0. /\ AgentReads("started") /\ late' \subseteq Lateness
        /\ UNCHANGED <<plan, online, run, net, cuts, recv, part, file>>
    BY <1>1, AgentFacts, StartedAtAgent
  <2>a. ASSUME NEW err \in BOOLEAN, NEW j \in Job, AgentHandled(j, rsession, peers, <<>>, err)
        PROVE  rjob' \in Job /\ rsession' = rsession /\ peers' = peers /\ mail' \in Mail
    <3>1. [mail EXCEPT !.recipient = Tail(@)] \in Mail
      BY <1>b, <2>0
    <3>2. rsession \in RSession /\ peers \in Peers
      BY AgentFacts
    <3> QED
      BY <1>c, <2>a, <3>1, <3>2, AgentHandledShape
  <2>1. PICK err \in BOOLEAN, j \in {rjob, [rjob EXCEPT !.status = markTransferStarted(@)]} :
           AgentHandled(j, rsession, peers, <<>>, err)
    BY <1>1, AgentFacts, StartedAtAgent
  <2>2. j \in Job
    BY <1>0, <1>a, <2>1, AgentFacts DEF Job
  <2>3. rjob' \in Job /\ rsession' = rsession /\ peers' = peers /\ mail' \in Mail
    BY <2>a, <2>1, <2>2, Zenon
  <2> QED
    BY <2>0, <2>3, AgentFacts, AgentMoves
<1>2. CASE AgentRetryable
  <2> DEFINE j == [rjob EXCEPT !.status = markJobRetryableIfMutable(@)]
  <2>1. /\ AgentHandled(j, NoRSession, CloseAt(peers, "recipient", rsession.att), <<>>, FALSE)
        /\ [mail EXCEPT !.recipient = Tail(@)] \in Mail
    BY <1>2, <1>b DEF AgentRetryable
  <2>2. j \in Job
    BY <1>0, <1>a, AgentFacts DEF Job
  <2> HIDE DEF j
  <2>3. /\ rjob' \in Job /\ rsession' = NoRSession /\ mail' \in Mail
        /\ peers' = CloseAt(peers, "recipient", rsession.att)
    BY <1>c, <1>d, <2>1, <2>2, NoRSessionShape, AgentHandledShape
  <2> QED
    BY <1>2, <2>3, AgentFacts, NoRSessionShape, ClosedRSession, AgentMoves DEF AgentRetryable
<1>3. CASE AgentFailed
  <2> DEFINE j == [rjob EXCEPT !.status = failTransferJob(@)]
  <2>1. /\ AgentHandled(j, NoRSession, CloseAt(peers, "recipient", rsession.att), <<>>, FALSE)
        /\ [mail EXCEPT !.recipient = Tail(@)] \in Mail
    BY <1>3, <1>b DEF AgentFailed
  <2>2. j \in Job
    BY <1>0, <1>a, AgentFacts DEF Job
  <2> HIDE DEF j
  <2>3. /\ rjob' \in Job /\ rsession' = NoRSession /\ mail' \in Mail
        /\ peers' = CloseAt(peers, "recipient", rsession.att)
    BY <1>c, <1>d, <2>1, <2>2, NoRSessionShape, AgentHandledShape
  <2> QED
    BY <1>3, <2>3, AgentFacts, NoRSessionShape, ClosedRSession, AgentMoves DEF AgentFailed
<1> QED
  BY <1>1, <1>2, <1>3

-----------------------------------------------------------------------------
(* The agent's receiver goroutine.                                         *)

\* It returns; what it reports is in out.
LEMMA ReturnsShape ==
    ASSUME Shape, NEW a \in Attempts, recv[a].pc # "none", NEW out,
           ReceiverReturns(a, out)
    PROVE  /\ Received(recv') /\ rsession' \in RSession /\ peers' \in Peers
           /\ \A b \in Attempts : peers'["sender"][b] = peers["sender"][b]
           /\ mail' = ToSender(mail, out)
<1>1. plan.kind = "agent" /\ a \in 0 .. MaxAttempts
  BY AgentFacts, Bounds DEF Received, Attempts
<1>2. recv' = [recv EXCEPT ![a] = [NoReceiver EXCEPT !.pc = "done"]]
  BY DEF ReceiverReturns
<1>3. [NoReceiver EXCEPT !.pc = "done"].pc = "done"
  BY DEF NoReceiver
<1>4. Received(recv')
  BY <1>1, <1>2, <1>3, AgentFacts, NoReceiverShape DEF Received
<1>5. rsession' \in RSession
  BY AgentFacts, NoRSessionShape DEF ReceiverReturns
<1>6. peers' \in Peers /\ \A b \in Attempts : peers'["sender"][b] = peers["sender"][b]
  BY <1>1, AgentFacts, ClosedRSession DEF ReceiverReturns
<1> QED
  BY <1>4, <1>5, <1>6 DEF ReceiverReturns

LEMMA FailsShape ==
    ASSUME Shape, NEW a \in Attempts, recv[a].pc # "none", NEW out \in Seq(Letter),
           ReceiverFails(a, out)
    PROVE  /\ Received(recv') /\ rsession' \in RSession /\ peers' \in Peers
           /\ \A b \in Attempts : peers'["sender"][b] = peers["sender"][b]
           /\ mail' \in Mail /\ rjob' \in Job
<1>1. Message("failed", 0) \in Letter
  BY PlainLetter
<1>2. Append(out, Message("failed", 0)) \in Seq(Letter)
  BY <1>1
<1>3. /\ Received(recv') /\ rsession' \in RSession /\ peers' \in Peers
      /\ \A b \in Attempts : peers'["sender"][b] = peers["sender"][b]
      /\ mail' = ToSender(mail, Append(out, Message("failed", 0)))
  BY ReturnsShape DEF ReceiverFails
<1>4. mail' \in Mail
  BY <1>2, <1>3, AgentFacts, ToSenderShape
<1>5. rjob' = [rjob EXCEPT !.status = failTransferJob(rjob.status)]
  BY AgentFacts DEF ReceiverFails, Job
<1>6. failTransferJob(rjob.status) \in Statuses
  BY AgentFacts, StatusFacts
<1>7. rjob' \in Job
  BY <1>5, <1>6, AgentFacts, JobStatus
<1> QED
  BY <1>3, <1>4, <1>7

\* An empty or a cut-off partial file is one.
LEMMA PartFacts ==
    ASSUME Shape
    PROVE  /\ part \in Seq(Nat) /\ Len(part) \in Nat
           /\ part = NoFile \/ Len(part) <= plan.size
           /\ NoFile \in Part /\ <<>> \in Part
<1>1. NoFile \in Seq(Nat) /\ <<>> \in Seq(Nat) /\ Len(<<>>) = 0
  BY DEF NoFile
<1>2. part \in Seq(Nat) /\ (part = NoFile \/ Len(part) <= plan.size)
  BY <1>1, AgentFacts DEF Part
<1>3. NoFile \in Part /\ <<>> \in Part
  BY <1>1, AgentFacts DEF Part
<1> QED
  BY <1>2, <1>3

LEMMA ReceiverStartsShape ==
    ASSUME Shape, NEW a \in Attempts, ReceiverStarts(a), UNCHANGED senderVars, UNCHANGED browserVars
    PROVE  Shape'
<1> DEFINE resumes == recv[a].status = "retryable" /\ recv[a].progress > 0 /\ part \notin {NoFile, <<>>}
           told    == <<Message("started", 0)>>
           starts  == /\ rjob' = [rjob EXCEPT !.status = markTransferStarted(@)]
                      /\ part' = IF resumes THEN part ELSE <<>>
                      /\ recv' = [recv EXCEPT ![a].pc = "receiving", ![a].resumed = resumes,
                                              ![a].progress = IF resumes THEN Len(part) ELSE 0]
                      /\ mail' = ToSender(mail, told)
                      /\ UNCHANGED <<rsession, peers>>
<1>0. /\ recv[a].pc = "waiting" /\ UNCHANGED <<plan, online, run, net, cuts, file>>
      /\ late' \subseteq Lateness
  BY AgentFacts, ReceiverStarted
<1>b. \/ ReceiverReturns(a, <<>>) /\ UNCHANGED <<rjob, part>>
      \/ ReceiverFails(a, told) /\ UNCHANGED part
      \/ starts
  BY AgentFacts, ReceiverStarted
<1>a. told \in Seq(Letter) /\ <<>> \in Seq(Letter)
  BY PlainLetter, OneOf
<1>1. CASE ReceiverReturns(a, <<>>) /\ UNCHANGED <<rjob, part>>
  <2>1. ReceiverReturns(a, <<>>) /\ UNCHANGED <<rjob, part>>
    BY <1>1
  <2>2. /\ Received(recv') /\ rsession' \in RSession /\ peers' \in Peers
        /\ \A b \in Attempts : peers'["sender"][b] = peers["sender"][b]
        /\ mail' = ToSender(mail, <<>>)
    BY <1>0, <2>1, ReturnsShape
  <2>3. mail' \in Mail
    BY <1>a, <2>2, AgentFacts, ToSenderShape
  <2> QED
    BY <1>0, <2>1, <2>2, <2>3, AgentFacts, AgentMoves
<1>2. CASE ReceiverFails(a, told) /\ UNCHANGED part
  <2>1. ReceiverFails(a, told) /\ UNCHANGED part
    BY <1>2
  <2> HIDE DEF told
  <2>2. /\ Received(recv') /\ rsession' \in RSession /\ peers' \in Peers
        /\ \A b \in Attempts : peers'["sender"][b] = peers["sender"][b]
        /\ mail' \in Mail /\ rjob' \in Job
    BY <1>0, <1>a, <2>1, FailsShape
  <2> QED
    BY <1>0, <2>1, <2>2, AgentFacts, AgentMoves
<1>3. CASE starts
  <2>1. /\ rjob' = [rjob EXCEPT !.status = markTransferStarted(@)]
        /\ part' = IF resumes THEN part ELSE <<>>
        /\ recv' = [recv EXCEPT ![a].pc = "receiving", ![a].resumed = resumes,
                                ![a].progress = IF resumes THEN Len(part) ELSE 0]
        /\ mail' = ToSender(mail, told)
        /\ UNCHANGED <<rsession, peers>>
    BY <1>3
  <2>2. markTransferStarted(rjob.status) \in Statuses
    BY AgentFacts, StatusFacts
  <2>3. rjob' \in Job
    BY <2>1, <2>2, AgentFacts DEF Job
  <2>4. part' \in Part
    BY <2>1, AgentFacts, PartFacts
  <2>5. mail' \in Mail
    BY <1>a, <2>1, AgentFacts, ToSenderShape
  <2>6. Received(recv')
    <3>1. recv[a] \in Receiver /\ plan.kind = "agent"
      BY <1>0, AgentFacts DEF Received
    <3>2. resumes \in BOOLEAN /\ (IF resumes THEN Len(part) ELSE 0) \in Nat
      BY PartFacts
    <3> HIDE DEF resumes
    <3> DEFINE r == [recv[a] EXCEPT !.pc = "receiving", !.resumed = resumes,
                                    !.progress = IF resumes THEN Len(part) ELSE 0]
    <3>3. r \in Receiver /\ r.pc = "receiving"
      BY <3>1, <3>2 DEF Receiver
    <3>4. recv' = [recv EXCEPT ![a] = r]
      BY <2>1, <3>1, AgentFacts DEF Received, Receiver
    <3> HIDE DEF r
    <3> QED
      BY <3>1, <3>3, <3>4, AgentFacts DEF Received
  <2> QED
    BY <1>0, <2>1, <2>3, <2>4, <2>5, <2>6, AgentFacts, AgentMoves
<1> QED
  BY <1>b, <1>1, <1>2, <1>3

LEMMA NeverOpensShape ==
    ASSUME Shape, NEW a \in Attempts, ReceiverNeverOpens(a), UNCHANGED senderVars, UNCHANGED browserVars
    PROVE  Shape'
<1>1. recv[a].pc = "waiting" /\ ReceiverReturns(a, <<Message("retryable", recv[a].progress)>>)
  BY DEF ReceiverNeverOpens
<1>2. recv[a].progress \in Nat /\ recv[a].progress <= plan.size
  BY <1>1, AgentFacts DEF Received, Receiver
<1>3. <<Message("retryable", recv[a].progress)>> \in Seq(Letter)
  BY <1>2, ProgressLetter, OneOf
<1>4. /\ Received(recv') /\ rsession' \in RSession /\ peers' \in Peers
      /\ \A b \in Attempts : peers'["sender"][b] = peers["sender"][b]
      /\ mail' = ToSender(mail, <<Message("retryable", recv[a].progress)>>)
  BY <1>1, ReturnsShape
<1>5. mail' \in Mail
  BY <1>3, <1>4, AgentFacts, ToSenderShape
<1>6. markJobRetryableIfMutable(rjob.status) \in Statuses
  BY AgentFacts, StatusFacts
<1>7. rjob' \in Job
  BY <1>6, AgentFacts DEF ReceiverNeverOpens, Job
<1> QED
  BY <1>4, <1>5, <1>7, AgentFacts, AgentMoves DEF ReceiverNeverOpens

\* What arrives at a goroutine that receives.
LEMMA IncomingFacts ==
    ASSUME Shape, NEW a \in Attempts, Incoming(a)
    PROVE  /\ recv[a].pc = "receiving" /\ recv[a] \in Receiver /\ plan.kind = "agent"
           /\ Head(net[a].frames) \in Genuine
           /\ net' \in [Attempts -> Channel]
<1>1. recv[a].pc = "receiving" /\ net[a].frames # <<>> /\ net' = [net EXCEPT ![a].frames = Tail(@)]
  BY DEF Incoming
<1>2. net[a] \in Channel /\ net[a].frames \in Seq(Genuine)
  BY AgentFacts DEF Channel
<1>3. Tail(net[a].frames) \in Seq(Genuine) /\ Head(net[a].frames) \in Genuine
  BY <1>1, <1>2, TailOf
<1>4. [net[a] EXCEPT !.frames = Tail(net[a].frames)] \in Channel
  BY <1>2, <1>3 DEF Channel
<1>5. net' = [net EXCEPT ![a] = [net[a] EXCEPT !.frames = Tail(net[a].frames)]]
  BY <1>1, <1>2, AgentFacts DEF Channel
<1>6. net' \in [Attempts -> Channel]
  BY <1>4, <1>5, AgentFacts
<1> QED
  BY <1>1, <1>3, <1>6, AgentFacts DEF Received

LEMMA RefusesShape ==
    ASSUME Shape, NEW a \in Attempts, ReceiverRefuses(a), UNCHANGED senderVars, UNCHANGED browserVars
    PROVE  Shape'
<1>1. Incoming(a) /\ ReceiverFails(a, <<>>) /\ part' \in {part, NoFile}
  BY DEF ReceiverRefuses
<1>2. recv[a].pc # "none" /\ net' \in [Attempts -> Channel] /\ <<>> \in Seq(Letter)
  BY <1>1, IncomingFacts
<1>3. /\ Received(recv') /\ rsession' \in RSession /\ peers' \in Peers
      /\ \A b \in Attempts : peers'["sender"][b] = peers["sender"][b]
      /\ mail' \in Mail /\ rjob' \in Job
  BY <1>1, <1>2, FailsShape
<1>4. part' \in Part
  BY <1>1, AgentFacts, PartFacts
<1> QED
  BY <1>2, <1>3, <1>4, AgentFacts, AgentMoves DEF ReceiverRefuses

\* A chunk that fits ends within the file.
LEMMA AcceptChunkShape ==
    ASSUME Shape, NEW a \in Attempts, AcceptChunk(a), UNCHANGED senderVars, UNCHANGED browserVars
    PROVE  Shape'
<1> DEFINE frame == Head(net[a].frames)
           size  == Len(part) + Len(frame.data)
           live  == rjob.status \in {"connecting", "transferring"}
<1>1. /\ Incoming(a) /\ frame.type = "chunk" /\ Number(frame, "offset") = Len(part)
      /\ part' = part \o frame.data
      /\ recv' = [recv EXCEPT ![a].progress = @ + 1]
      /\ rjob' = IF live THEN [rjob EXCEPT !.progress = size] ELSE rjob
      /\ mail' = IF live THEN ToSender(mail, <<Message("progress", size)>>) ELSE mail
      /\ UNCHANGED <<plan, online, run, peers, cuts, late, rsession, file>>
  BY DEF AcceptChunk, Fits
<1>2. /\ recv[a].pc = "receiving" /\ recv[a] \in Receiver /\ plan.kind = "agent"
      /\ frame \in Genuine /\ net' \in [Attempts -> Channel]
  BY <1>1, IncomingFacts
<1>3. frame.data \in Seq(Nat) /\ Number(frame, "offset") + Len(frame.data) <= plan.size
  BY <1>1, <1>2, AgentFacts, FrameFacts
<1> HIDE DEF frame
<1>4. size \in Nat /\ size <= plan.size
  BY <1>1, <1>3, PartFacts
<1>5. part' \in Seq(Nat) /\ Len(part') = size
  BY <1>1, <1>3, PartFacts
<1>6. part' \in Part
  BY <1>4, <1>5 DEF Part
<1>7. rjob' \in Job
  <2>1. size \in 0 .. plan.size
    BY <1>4, AgentFacts
  <2>2. rjob' \in {rjob, [rjob EXCEPT !.progress = size]}
    BY <1>1
  <2> HIDE DEF size
  <2> QED
    BY <2>1, <2>2, AgentFacts DEF Job
<1>8. <<Message("progress", size)>> \in Seq(Letter)
  BY <1>4, ProgressLetter, OneOf
<1>9. mail' \in Mail
  BY <1>1, <1>8, AgentFacts, ToSenderShape
<1>10. Received(recv')
  <2>1. recv' = [recv EXCEPT ![a] = [recv[a] EXCEPT !.progress = recv[a].progress + 1]]
    BY <1>1, AgentFacts DEF Received, Receiver
  <2>2. [recv[a] EXCEPT !.progress = recv[a].progress + 1] \in Receiver
    BY <1>2 DEF Receiver
  <2> QED
    BY <1>2, <2>1, <2>2, AgentFacts DEF Received, Receiver
<1> QED
  BY <1>1, <1>2, <1>6, <1>7, <1>9, <1>10, AgentFacts, AgentMoves

\* The mail of a step that delivers the file: what was true stays true, and it may say so.
LEMMA MailGrows ==
    ASSUME plan' = plan, Met => Met', Delivered => Delivered'
    PROVE  Letter \subseteq Letter' /\ Mail \subseteq Mail'
<1>1. Letter \subseteq Letter'
  BY DEF Letter
<1>2. \A s \in Seq(Letter) : s \in Seq(Letter')
  BY <1>1, SeqGrows
<1> QED
  BY <1>1, <1>2 DEF Mail

LEMMA AcceptManifestShape ==
    ASSUME Shape, NEW a \in Attempts, AcceptManifest(a), UNCHANGED senderVars, UNCHANGED browserVars
    PROVE  Shape'
<1> DEFINE frame == Head(net[a].frames)
<1>1. /\ Incoming(a) /\ frame.type = "manifest" /\ frame.data = part
      /\ UNCHANGED <<plan, online, run, cuts, late>>
  BY DEF AcceptManifest, Matches
<1>2. /\ recv[a].pc # "none" /\ plan.kind = "agent"
      /\ frame \in Genuine /\ net' \in [Attempts -> Channel]
  BY <1>1, IncomingFacts
<1>3. part = Source(plan.size)
  BY <1>1, <1>2, AgentFacts, FrameFacts
<1>4. CASE rjob.status \in Terminal
  <2>1. ReceiverReturns(a, <<>>) /\ part' \in {part, NoFile} /\ UNCHANGED <<rjob, file>>
    BY <1>4 DEF AcceptManifest
  <2>2. /\ Received(recv') /\ rsession' \in RSession /\ peers' \in Peers
        /\ \A b \in Attempts : peers'["sender"][b] = peers["sender"][b]
        /\ mail' = ToSender(mail, <<>>)
    BY <1>2, <2>1, ReturnsShape
  <2>3. mail' \in Mail
    <3>1. <<>> \in Seq(Letter)
      OBVIOUS
    <3> QED
      BY <2>2, <3>1, AgentFacts, ToSenderShape
  <2>4. part' \in Part
    BY <2>1, AgentFacts, PartFacts
  <2> QED
    BY <1>1, <1>2, <2>1, <2>2, <2>3, <2>4, AgentFacts, AgentMoves
<1>5. CASE rjob.status \notin Terminal
  <2>1. /\ ReceiverReturns(a, <<Message("completed", 0)>>)
        /\ rjob' = [status |-> "completed", progress |-> plan.size]
        /\ file' = part /\ part' = NoFile
    BY <1>5 DEF AcceptManifest
  <2>2. /\ Received(recv') /\ rsession' \in RSession /\ peers' \in Peers
        /\ \A b \in Attempts : peers'["sender"][b] = peers["sender"][b]
        /\ mail' = ToSender(mail, <<Message("completed", 0)>>)
    BY <1>2, <2>1, ReturnsShape
  <2>3. Delivered' /\ (Met => Met')
    BY <1>1, <1>2, <1>3, <2>1 DEF Delivered, Content, Met
  <2>4. Message("completed", 0) \in Letter'
    BY <2>3 DEF Letter, Message, Types
  <2>5. mail' \in Mail'
    <3>1. mail \in [Boxes -> Seq(Letter')]
      BY <1>1, <2>3, AgentFacts, MailGrows DEF Mail
    <3>2. \A box \in Boxes : mail[box] \o <<Message("completed", 0)>> \in Seq(Letter')
      BY <2>4, <3>1, OneOf, CatOf
    <3>3. mail' \in [Boxes -> Seq(Letter')]
      BY <2>2, <3>1, <3>2 DEF ToSender, Boxes
    <3> QED
      BY <3>3 DEF Mail
  <2>6. rjob' \in Job
    BY <2>1, AgentFacts DEF Job, Statuses, Terminal
  <2>7. part' \in Part /\ file' \in {NoFile, Source(plan.size)}
    BY <1>3, <2>1, PartFacts
  <2> QED
    BY <1>1, <1>2, <2>2, <2>3, <2>5, <2>6, <2>7, AgentFacts, AgentGrows
<1> QED
  BY <1>4, <1>5

LEMMA InterruptedShape ==
    ASSUME Shape, NEW a \in Attempts, ReceiverInterrupted(a), UNCHANGED senderVars, UNCHANGED browserVars
    PROVE  Shape'
<1> DEFINE kept == IF Len(part) > rjob.progress THEN SubSeq(part, 1, rjob.progress) ELSE part
<1>1. /\ recv[a].pc = "receiving" /\ part' = kept
      /\ rjob' = [status   |-> markJobRetryableIfMutable(rjob.status),
                  progress |-> IF rjob.status \in Terminal THEN rjob.progress ELSE Len(kept)]
      /\ ReceiverReturns(a, <<Message("retryable", Len(kept))>>)
      /\ UNCHANGED <<plan, online, run, net, cuts, late, file>>
  BY DEF ReceiverInterrupted
<1>2. kept \in Seq(Nat) /\ Len(kept) \in Nat /\ Len(kept) <= plan.size
  <2>1. CASE Len(part) > rjob.progress
    BY <2>1, AgentFacts, PartFacts
  <2>2. CASE ~(Len(part) > rjob.progress)
    BY <2>2, AgentFacts, PartFacts
  <2> QED
    BY <2>1, <2>2
<1> HIDE DEF kept
<1>3. part' \in Part
  BY <1>1, <1>2 DEF Part
<1>4. markJobRetryableIfMutable(rjob.status) \in Statuses
  BY AgentFacts, StatusFacts
<1>5. rjob' \in Job
  BY <1>1, <1>2, <1>4, AgentFacts DEF Job
<1>6. <<Message("retryable", Len(kept))>> \in Seq(Letter)
  BY <1>2, ProgressLetter, OneOf
<1>7. /\ Received(recv') /\ rsession' \in RSession /\ peers' \in Peers
      /\ \A b \in Attempts : peers'["sender"][b] = peers["sender"][b]
      /\ mail' = ToSender(mail, <<Message("retryable", Len(kept))>>)
  BY <1>1, ReturnsShape
<1>8. mail' \in Mail
  BY <1>6, <1>7, AgentFacts, ToSenderShape
<1> QED
  BY <1>1, <1>3, <1>5, <1>7, <1>8, AgentFacts, AgentMoves

LEMMA AgentKeeps ==
    ASSUME Shape, AgentNext, UNCHANGED <<senderVars, browserVars>>
    PROVE  Shape'
  BY OfferShape, WebRTCOfferShape, AgentICEShape, AgentToldShape, SendAnswerShape,
     ReceiverStartsShape, NeverOpensShape, RefusesShape, AcceptChunkShape, AcceptManifestShape,
     InterruptedShape DEF AgentNext

-----------------------------------------------------------------------------
(* The page.                                                               *)

LEMMA PageFacts ==
    ASSUME Shape
    PROVE  /\ plan \in Plans /\ plan.size \in Nat /\ online \in BOOLEAN /\ mail \in Mail
           /\ peers \in Peers /\ \A a \in Attempts : peers["recipient"][a] \in Peer
           /\ net \in [Attempts -> Channel] /\ imports \subseteq Handlers
           /\ states \in Seq(State) /\ Len(states) \in Nat
           /\ feeds \in [Attempts -> 0 .. Len(states)]
           /\ saved \in {NoFile, Source(plan.size)}
  BY PlanFacts DEF Shape, WireShape, BrowserShape, Mail, Peers, Sides

\* A step of the page.
LEMMA PageMoves ==
    ASSUME Shape, UNCHANGED senderVars, UNCHANGED agentVars, UNCHANGED <<plan, run, cuts, late>>,
           online' \in BOOLEAN, mail' \in Mail', peers' \in Peers,
           \A a \in Attempts : peers'["sender"][a] = peers["sender"][a],
           net' \in [Attempts -> Channel], imports' \subseteq Handlers,
           states' \in Seq(State), feeds' \in [Attempts -> 0 .. Len(states')],
           saved' \in {NoFile, Source(plan.size)},
           Met => Met', Delivered => Delivered'
    PROVE  Shape'
<1>1. /\ Channel' = Channel /\ Job' = Job /\ Part' = Part /\ State' = State
  BY DEF Genuine, Channel, Job, Part, State, Chunk, Manifest, ChunkCount
<1>2. WireShape'
  BY <1>1 DEF Shape, WireShape, Mail
<1>3. SenderShape'
  BY <1>1 DEF Shape, SenderShape, senderVars
<1>4. AgentShape'
  BY <1>1 DEF Shape, AgentShape, agentVars
<1>5. BrowserShape'
  BY <1>1 DEF Shape, BrowserShape
<1> QED
  BY <1>2, <1>3, <1>4, <1>5 DEF Shape

\* A step of the page that saves nothing and keeps its receive states.
LEMMA PageStays ==
    ASSUME Shape, UNCHANGED senderVars, UNCHANGED agentVars, UNCHANGED <<plan, run, cuts, late>>,
           online' \in BOOLEAN, mail' \in Mail, peers' \in Peers,
           \A a \in Attempts : peers'["sender"][a] = peers["sender"][a],
           net' \in [Attempts -> Channel], imports' \subseteq Handlers,
           states' \in Seq(State), Len(states') >= Len(states),
           feeds' \in [Attempts -> 0 .. Len(states')], saved' = saved
    PROVE  Shape'
<1>1. Met => Met'
  <2>1. states # <<>> => states' # <<>>
    BY PageFacts
  <2> QED
    BY <2>1 DEF Met
<1>2. Delivered <=> Delivered'
  BY DEF Delivered, Content, agentVars
<1>3. mail' \in Mail'
  BY <1>1, <1>2, MailGrows
<1>4. saved' \in {NoFile, Source(plan.size)}
  BY PageFacts
<1> QED
  BY <1>1, <1>2, <1>3, <1>4, PageMoves

LEMMA PageReadFacts ==
    ASSUME Shape, NEW type, BrowserReads(type)
    PROVE  /\ plan.kind = "browser" /\ Head(mail.recipient) \in Letter
           /\ Head(mail.recipient).type = type
           /\ [mail EXCEPT !.recipient = Tail(@)] \in Mail
<1>1. plan.kind = "browser" /\ mail["recipient"] # <<>> /\ Head(mail["recipient"]).type = type
  BY DEF BrowserReads, Read
<1>2. mail \in Mail /\ "recipient" \in Boxes
  BY PageFacts DEF Boxes
<1> QED
  BY <1>1, <1>2, ReadShape

LEMMA FreshShape == ASSUME plan.size \in Nat PROVE FreshState \in State
<1>1. <<>> \in Seq(Nat) /\ Len(<<>>) = 0 /\ <<>> \in Seq(Attempts)
  OBVIOUS
<1> QED
  BY <1>1, Bounds DEF FreshState, State

LEMMA PagePrepares ==
    ASSUME Shape, UNCHANGED senderVars, UNCHANGED agentVars,
           connectReceiver \/ BrowserOffer \/ BrowserLogs
             \/ (\E handler \in Handlers : prepareBrowserReceive(handler))
             \/ (\E a \in Attempts : BrowserAnswer(a))
    PROVE  Shape'
<1>1. CASE connectReceiver
  <2>1. imports' \subseteq Handlers
    BY <1>1 DEF connectReceiver, Handlers
  <2> QED
    BY <1>1, <2>1, PageFacts, PageStays DEF connectReceiver
<1>2. CASE BrowserOffer
  <2>1. plan.kind = "browser" /\ [mail EXCEPT !.recipient = Tail(@)] \in Mail
    BY <1>2, PageReadFacts DEF BrowserOffer
  <2>2. CASE Current > 0
    <3>1. Met
      BY <2>2, PageFacts DEF Met, Current
    <3>2. <<Message("accepted", 0)>> \in Seq(Letter)
      BY <3>1, AcceptedLetter, OneOf
    <3>3. mail' \in Mail /\ imports' = imports
      BY <1>2, <2>1, <2>2, <3>2, ToSenderShape DEF BrowserOffer, Answer
    <3> QED
      BY <1>2, <3>3, PageFacts, PageStays DEF BrowserOffer
  <2>3. CASE ~(Current > 0)
    <3>1. mail' \in Mail /\ imports' \subseteq Handlers
      BY <1>2, <2>1, <2>3, PageFacts DEF BrowserOffer, Handlers
    <3> QED
      BY <1>2, <3>1, PageFacts, PageStays DEF BrowserOffer
  <2> QED
    BY <2>2, <2>3
<1>3. CASE BrowserLogs
  <2>1. PICK type \in {"started", "retryable", "failed"} : BrowserReads(type)
    BY <1>3 DEF BrowserLogs
  <2>2. mail' \in Mail
    BY <1>3, <2>1, PageReadFacts DEF BrowserLogs
  <2> QED
    BY <1>3, <2>2, PageFacts, PageStays DEF BrowserLogs, browserVars
<1>4. ASSUME NEW handler \in Handlers, prepareBrowserReceive(handler)
      PROVE  Shape'
  <2>1. /\ imports' = imports \ {handler} /\ states' = Append(states, FreshState)
        /\ mail' = ToSender(mail, <<Message("accepted", 0)>>)
        /\ UNCHANGED <<plan, online, run, peers, net, cuts, late, feeds, saved>>
    BY <1>4 DEF prepareBrowserReceive
  <2>2. states' \in Seq(State) /\ Len(states') = Len(states) + 1
    BY <2>1, PageFacts, FreshShape
  <2>3. Met' /\ (Delivered <=> Delivered')
    <3>1. states' # <<>>
      BY <2>2, PageFacts
    <3> QED
      BY <2>1, <3>1 DEF Met, Delivered, Content, agentVars
  <2>4. mail \in Mail'
    BY <2>1, <2>3, PageFacts, MailGrows
  <2>5. Message("accepted", 0) \in Letter'
    BY <2>3 DEF Letter, Message, Types
  <2>6. mail' \in Mail'
    <3>1. mail \in [Boxes -> Seq(Letter')]
      BY <2>4 DEF Mail
    <3>2. \A box \in Boxes : mail[box] \o <<Message("accepted", 0)>> \in Seq(Letter')
      BY <2>5, <3>1, OneOf, CatOf
    <3>3. mail' \in [Boxes -> Seq(Letter')]
      BY <2>1, <3>1, <3>2 DEF ToSender, Boxes
    <3> QED
      BY <3>3 DEF Mail
  <2>7. feeds' \in [Attempts -> 0 .. Len(states')]
    BY <2>1, <2>2, PageFacts
  <2> QED
    BY <2>1, <2>2, <2>3, <2>6, <2>7, PageFacts, PageMoves
<1>5. ASSUME NEW a \in Attempts, BrowserAnswer(a)
      PROVE  Shape'
  <2> DEFINE q == [peers["recipient"][a] EXCEPT !.state = "stable"]
  <2>1. q \in Peer
    BY PageFacts DEF Peer
  <2>2. peers' = [peers EXCEPT !["recipient"][a] = q]
    BY <1>5, PageFacts DEF BrowserAnswer, Peers
  <2> HIDE DEF q
  <2>3. /\ [peers EXCEPT !["recipient"][a] = q] \in Peers
        /\ \A b \in Attempts : [peers EXCEPT !["recipient"][a] = q]["sender"][b] = peers["sender"][b]
    BY <2>1, PageFacts, SetRecipient
  <2>4. <<Message("answer", a)>> \in Seq(Letter)
    BY AttemptLetter, OneOf
  <2>5. mail' \in Mail
    BY <1>5, <2>4, PageFacts, ToSenderShape DEF BrowserAnswer
  <2>6. UNCHANGED <<plan, online, run, net, cuts, late, imports, states, feeds, saved>>
    BY <1>5 DEF BrowserAnswer, browserVars
  <2>7. peers' \in Peers /\ \A b \in Attempts : peers'["sender"][b] = peers["sender"][b]
    BY <2>2, <2>3
  <2> QED
    BY <2>5, <2>6, <2>7, PageFacts, PageStays
<1> QED
  BY <1>1, <1>2, <1>3, <1>4, <1>5

\* A receive state is replaced by another.
LEMMA SetState ==
    ASSUME Shape, NEW i \in 1 .. Len(states), NEW s \in State
    PROVE  [states EXCEPT ![i] = s] \in Seq(State) /\ Len([states EXCEPT ![i] = s]) = Len(states)
  BY PageFacts

LEMMA WebRTCOfferToPage ==
    ASSUME Shape, acceptWebRTCOffer, UNCHANGED senderVars, UNCHANGED agentVars
    PROVE  Shape'
<1> DEFINE a    == Head(mail.recipient).n
           now  == states[Current]
           q    == [NoPeer EXCEPT !.state = "answering", !.left = plan.gather,
                                  !.added = CountOf(a, now.pending)]
           p    == CloseAt(peers, "recipient", now.peer)
           next == [now EXCEPT !.peer = a, !.pending = <<>>]
<1>1. /\ BrowserReads("webrtc_offer")
      /\ peers' = [p EXCEPT !["recipient"][a] = q]
      /\ states' = [states EXCEPT ![Current].peer = a, ![Current].pending = <<>>]
      /\ feeds' = [feeds EXCEPT ![a] = Current]
      /\ mail' = [mail EXCEPT !.recipient = Tail(@)]
      /\ UNCHANGED <<plan, online, run, net, cuts, late, imports, saved>>
  BY DEF acceptWebRTCOffer
<1>2. /\ plan.kind = "browser" /\ Head(mail.recipient) \in Letter
      /\ Head(mail.recipient).type = "webrtc_offer" /\ mail' \in Mail
  BY <1>1, PageReadFacts
<1>3. a \in Attempts /\ Met
  BY <1>2 DEF Letter
<1>4. Current \in 1 .. Len(states)
  BY <1>2, <1>3, PageFacts DEF Met, Current
<1>5. now \in State
  BY <1>4, PageFacts
<1> HIDE DEF now, a
<1>6. q \in Peer
  <2>1. CountOf(a, now.pending) \in Nat
    BY <1>5, CountNat DEF State
  <2> QED
    BY <2>1, NoPeerShape, PageFacts, PlanFacts DEF NoPeer, Peer
<1>7. p \in Peers /\ \A b \in Attempts : p["sender"][b] = peers["sender"][b]
  BY <1>5, ClosedRSession DEF State
<1> HIDE DEF p, q
<1>8. /\ [p EXCEPT !["recipient"][a] = q] \in Peers
      /\ \A b \in Attempts : [p EXCEPT !["recipient"][a] = q]["sender"][b] = p["sender"][b]
  BY <1>3, <1>6, <1>7, SetRecipient
<1>9. next \in State
  <2>1. a \in 0 .. MaxAttempts /\ <<>> \in Seq(Attempts)
    BY <1>3, Bounds DEF Attempts
  <2> QED
    BY <1>5, <2>1 DEF State
<1>10. states' = [states EXCEPT ![Current] = next]
  BY <1>1, <1>4, <1>5, PageFacts DEF now, State
<1> HIDE DEF next
<1>11. states' \in Seq(State) /\ Len(states') = Len(states)
  BY <1>4, <1>9, <1>10, SetState
<1>12. feeds' \in [Attempts -> 0 .. Len(states')]
  <2>1. feeds \in [Attempts -> 0 .. Len(states)] /\ Len(states) \in Nat
    BY PageFacts
  <2>2. Current \in 0 .. Len(states)
    BY <1>4, <2>1
  <2>3. feeds' \in [Attempts -> 0 .. Len(states)]
    BY <1>1, <2>1, <2>2
  <2> QED
    BY <1>11, <2>3
<1>13. peers' \in Peers /\ \A b \in Attempts : peers'["sender"][b] = peers["sender"][b]
  BY <1>1, <1>7, <1>8
<1> QED
  BY <1>1, <1>2, <1>11, <1>12, <1>13, PageFacts, PageStays

LEMMA ICEToPage ==
    ASSUME Shape, BrowserICE, UNCHANGED senderVars, UNCHANGED agentVars
    PROVE  Shape'
<1> DEFINE c   == Head(mail.recipient).n
           now == states[Current]
<1>1. /\ BrowserReads("ice") /\ mail' = [mail EXCEPT !.recipient = Tail(@)]
      /\ UNCHANGED <<plan, online, run, net, cuts, late, imports, feeds, saved>>
  BY DEF BrowserICE
<1>2. /\ Head(mail.recipient) \in Letter /\ Head(mail.recipient).type = "ice" /\ mail' \in Mail
  BY <1>1, PageReadFacts
<1>3. c \in Attempts
  BY <1>2 DEF Letter
<1>4. CASE Current = 0
  <2>1. UNCHANGED <<peers, states>>
    BY <1>4 DEF BrowserICE
  <2> QED
    BY <1>1, <1>2, <2>1, PageFacts, PageStays
<1>5. CASE Current > 0 /\ now.peer # 0
  <2>0. Current # 0
    BY <1>5, PageFacts DEF Current
  <2>1. /\ peers' = [peers EXCEPT !["recipient"][now.peer] = AddICECandidate(@, now.peer, c)]
        /\ states' = states
    BY <1>5, <2>0, Zenon DEF BrowserICE
  <2>2. now \in State
    BY <1>5, PageFacts DEF Current
  <2> DEFINE b == now.peer
             q == AddICECandidate(peers["recipient"][b], b, c)
  <2>3. b \in Attempts
    BY <1>5, <2>2, Bounds DEF State, Attempts
  <2>4. q \in Peer
    BY <1>3, <2>3, PageFacts, AddShape
  <2>5. peers' = [peers EXCEPT !["recipient"][b] = q]
    BY <2>1, <2>3, PageFacts DEF Peers
  <2> HIDE DEF q, b
  <2>6. /\ [peers EXCEPT !["recipient"][b] = q] \in Peers
        /\ \A d \in Attempts : [peers EXCEPT !["recipient"][b] = q]["sender"][d] = peers["sender"][d]
    BY <2>3, <2>4, PageFacts, SetRecipient
  <2>7. peers' \in Peers /\ \A d \in Attempts : peers'["sender"][d] = peers["sender"][d]
    BY <2>5, <2>6
  <2> QED
    BY <1>1, <1>2, <2>1, <2>7, PageFacts, PageStays
<1>6. CASE Current > 0 /\ now.peer = 0
  <2>1. states' = [states EXCEPT ![Current].pending = Append(@, c)] /\ peers' = peers
    BY <1>6 DEF BrowserICE
  <2>2. now \in State /\ Current \in 1 .. Len(states)
    BY <1>6, PageFacts DEF Current
  <2> DEFINE next == [now EXCEPT !.pending = Append(now.pending, c)]
  <2>3. next \in State
    <3>1. Append(now.pending, c) \in Seq(Attempts)
      BY <1>3, <2>2 DEF State
    <3> QED
      BY <2>2, <3>1 DEF State
  <2>4. states' = [states EXCEPT ![Current] = next]
    BY <2>1, <2>2, PageFacts DEF State
  <2> HIDE DEF next
  <2>5. states' \in Seq(State) /\ Len(states') = Len(states)
    BY <2>2, <2>3, <2>4, SetState
  <2> QED
    BY <1>1, <1>2, <2>1, <2>5, PageFacts, PageStays
<1>7. Current = 0 \/ Current > 0
  BY PageFacts DEF Current
<1> QED
  BY <1>4, <1>5, <1>6, <1>7

\* A frame is taken from the channel of the state it feeds.
LEMMA QueuedFacts ==
    ASSUME Shape, NEW a \in Attempts, Queued(a)
    PROVE  /\ plan.kind = "browser" /\ Head(net[a].frames) \in Genuine
           /\ feeds[a] \in 1 .. Len(states) /\ states[feeds[a]] \in State
           /\ net' \in [Attempts -> Channel]
<1>1. /\ plan.kind = "browser" /\ feeds[a] # 0 /\ net[a].frames # <<>>
      /\ net' = [net EXCEPT ![a].frames = Tail(@)]
  BY DEF Queued
<1>2. net[a] \in Channel /\ net[a].frames \in Seq(Genuine)
  BY PageFacts DEF Channel
<1>3. Tail(net[a].frames) \in Seq(Genuine) /\ Head(net[a].frames) \in Genuine
  BY <1>1, <1>2, TailOf
<1>4. [net[a] EXCEPT !.frames = Tail(net[a].frames)] \in Channel
  BY <1>2, <1>3 DEF Channel
<1>5. net' = [net EXCEPT ![a] = [net[a] EXCEPT !.frames = Tail(net[a].frames)]]
  BY <1>1, <1>2, PageFacts DEF Channel
<1>6. net' \in [Attempts -> Channel]
  BY <1>4, <1>5, PageFacts
<1>7. feeds[a] \in 1 .. Len(states)
  BY <1>1, PageFacts
<1> QED
  BY <1>1, <1>3, <1>6, <1>7, PageFacts

LEMMA ChunkToPage ==
    ASSUME Shape, NEW a \in Attempts, acceptBrowserChunk(a), UNCHANGED senderVars, UNCHANGED agentVars
    PROVE  Shape'
<1> DEFINE frame == Head(net[a].frames)
           i     == feeds[a]
           state == states[i]
           size  == Len(state.chunks) + Len(frame.data)
<1>1. /\ Queued(a) /\ frame.type = "chunk" /\ size <= plan.size
      /\ states' = [states EXCEPT ![i].chunks = @ \o frame.data, ![i].next = @ + 1]
      /\ mail' = ToSender(mail, <<Message("progress", size)>>)
      /\ UNCHANGED <<plan, online, run, peers, cuts, late, imports, feeds, saved>>
  BY DEF acceptBrowserChunk, chunkFits
<1>2. /\ frame \in Genuine /\ i \in 1 .. Len(states) /\ state \in State
      /\ net' \in [Attempts -> Channel]
  BY <1>1, QueuedFacts
<1>3. frame.data \in Seq(Nat)
  BY <1>1, <1>2, PageFacts, FrameFacts
<1> HIDE DEF frame
<1>4. state.chunks \in Seq(Nat) /\ state.next \in Nat
  BY <1>2 DEF State
<1> DEFINE chunks == state.chunks \o frame.data
           next   == [state EXCEPT !.chunks = chunks, !.next = state.next + 1]
<1>6. states' = [states EXCEPT ![i] = next]
  BY <1>1, <1>2, PageFacts DEF State
<1> HIDE DEF state
<1>a. /\ chunks \in Seq(Nat) /\ Len(chunks) = Len(state.chunks) + Len(frame.data)
      /\ Len(state.chunks) \in Nat /\ Len(frame.data) \in Nat
  BY <1>3, <1>4, CatOf
<1> HIDE DEF chunks
<1>b. size = Len(state.chunks) + Len(frame.data)
  OBVIOUS
<1> HIDE DEF size
<1>5. chunks \in Seq(Nat) /\ Len(chunks) = size /\ size \in Nat
  <2>1. \A m, n \in Nat : m + n \in Nat
    OBVIOUS
  <2>2. size \in Nat
    BY <1>a, <1>b, <2>1, Zenon
  <2>3. Len(chunks) = size
    BY <1>a, <1>b, Zenon
  <2> QED
    BY <1>a, <2>2, <2>3
<1>7. next \in State
  <2>1. chunks \in {c \in Seq(Nat) : Len(c) <= plan.size} /\ state.next + 1 \in Nat
    BY <1>1, <1>4, <1>5
  <2> QED
    BY <1>2, <2>1 DEF State
<1> HIDE DEF next
<1>8. states' \in Seq(State) /\ Len(states') = Len(states)
  BY <1>2, <1>6, <1>7, SetState
<1>9. <<Message("progress", size)>> \in Seq(Letter)
  BY <1>1, <1>5, ProgressLetter, OneOf
<1>10. mail' \in Mail
  BY <1>1, <1>9, PageFacts, ToSenderShape
<1>11. feeds' \in [Attempts -> 0 .. Len(states')]
  BY <1>1, <1>8, PageFacts
<1> QED
  BY <1>1, <1>2, <1>8, <1>10, <1>11, PageFacts, PageStays

\* The page saves what the manifest describes, which is the file.
LEMMA ManifestToPage ==
    ASSUME Shape, NEW a \in Attempts, completeBrowserReceive(a), UNCHANGED senderVars, UNCHANGED agentVars
    PROVE  Shape'
<1> DEFINE frame == Head(net[a].frames)
           state == states[feeds[a]]
<1>1. /\ Queued(a) /\ frame.type = "manifest" /\ frame.data = state.chunks
      /\ saved' = state.chunks
      /\ mail' = ToSender(mail, <<Message("completed", 0)>>)
      /\ UNCHANGED <<plan, online, run, peers, cuts, late, imports, states, feeds>>
  BY DEF completeBrowserReceive, manifestMatches
<1>2. plan.kind = "browser" /\ frame \in Genuine /\ net' \in [Attempts -> Channel]
  BY <1>1, QueuedFacts
<1>3. saved' = Source(plan.size)
  BY <1>1, <1>2, PageFacts, FrameFacts
<1>4. Delivered' /\ (Met => Met')
  BY <1>1, <1>2, <1>3 DEF Delivered, Content, Met
<1>5. Message("completed", 0) \in Letter'
  BY <1>4 DEF Letter, Message, Types
<1>6. mail \in [Boxes -> Seq(Letter')]
  BY <1>1, <1>4, PageFacts, MailGrows DEF Mail
<1>7. \A box \in Boxes : mail[box] \o <<Message("completed", 0)>> \in Seq(Letter')
  BY <1>5, <1>6, OneOf, CatOf
<1>8. mail' \in [Boxes -> Seq(Letter')]
  BY <1>1, <1>6, <1>7 DEF ToSender, Boxes
<1>9. mail' \in Mail'
  BY <1>8 DEF Mail
<1> QED
  BY <1>1, <1>2, <1>3, <1>4, <1>9, PageFacts, PageMoves

LEMMA RefusalOfPage ==
    ASSUME Shape, NEW a \in Attempts, BrowserRefuses(a), UNCHANGED senderVars, UNCHANGED agentVars
    PROVE  Shape'
<1>1. /\ Queued(a) /\ mail' = ToSender(mail, <<Message("failed", 0)>>)
      /\ UNCHANGED <<plan, online, run, peers, cuts, late, imports, states, feeds, saved>>
  BY DEF BrowserRefuses, browserVars
<1>2. net' \in [Attempts -> Channel]
  BY <1>1, QueuedFacts
<1>3. <<Message("failed", 0)>> \in Seq(Letter)
  BY PlainLetter, OneOf
<1>4. mail' \in Mail
  BY <1>1, <1>3, PageFacts, ToSenderShape
<1> QED
  BY <1>1, <1>2, <1>4, PageFacts, PageStays

LEMMA PageKeeps ==
    ASSUME Shape, BrowserNext, UNCHANGED <<senderVars, agentVars>>
    PROVE  Shape'
  BY PagePrepares, WebRTCOfferToPage, ICEToPage, ChunkToPage, ManifestToPage, RefusalOfPage
     DEF BrowserNext

-----------------------------------------------------------------------------
(* Every behaviour.                                                        *)

LEMMA ShapeInit ==
    ASSUME Init
    PROVE  Shape
<1>1. plan \in Plans /\ plan.size \in Nat /\ plan.cuts \in Nat
  BY PlanFacts DEF Init, WireInit
<1>2. WireShape
  <2>1. online \in BOOLEAN /\ late \subseteq Lateness /\ cuts \in 0 .. plan.cuts
    <3>1. online \in IF plan.kind = "agent" THEN BOOLEAN ELSE {FALSE}
      BY DEF Init, WireInit
    <3>2. online \in BOOLEAN
      BY <3>1, Zenon
    <3>3. late \subseteq Lateness
      BY DEF Init, WireInit
    <3>4. cuts \in 0 .. plan.cuts
      BY <1>1 DEF Init, WireInit
    <3> QED
      BY <3>2, <3>3, <3>4
  <2>2. run \in [no : 0 .. MaxRuns, on : BOOLEAN, reads : BOOLEAN]
    BY Bounds DEF Init, WireInit
  <2>3. <<>> \in Seq(Letter) /\ <<>> \in Seq(Genuine)
    OBVIOUS
  <2>4. mail \in [Boxes -> Seq(Letter)]
    <3>1. mail = [run |-> <<>>, loop |-> <<>>, recipient |-> <<>>]
      BY DEF Init, WireInit
    <3>2. mail = [box \in Boxes |-> <<>>]
      BY <3>1 DEF Boxes
    <3> QED
      BY <2>3, <3>2
  <2>5. peers \in Peers /\ \A a \in Attempts : peers["sender"][a].state = "none"
    <3>1. peers \in Peers
      BY NoPeerShape DEF Init, WireInit, Peers
    <3>2. "sender" \in Sides /\ NoPeer.state = "none"
      BY DEF Sides, NoPeer
    <3> QED
      BY <3>1, <3>2 DEF Init, WireInit
  <2>6. net \in [Attempts -> Channel]
    <3>1. NoChannel \in Channel
      BY <2>3 DEF NoChannel, Channel
    <3> QED
      BY <3>1 DEF Init, WireInit
  <2> QED
    BY <1>1, <2>1, <2>2, <2>4, <2>5, <2>6 DEF WireShape
<1>3. SenderShape
  <2>1. sjob \in Job /\ sjob.status # "completed" /\ touched \in BOOLEAN
    <3>1. sjob = [status |-> "offered", progress |-> 0] /\ touched = FALSE
      BY DEF Init, SenderInit
    <3>2. sjob \in Job /\ sjob.status # "completed"
      BY <1>1, <3>1 DEF Job, Statuses
    <3>3. touched \in BOOLEAN
      BY <3>1
    <3> QED
      BY <3>2, <3>3
  <2>2. NoStream \in Stream
    BY Bounds DEF NoStream, Stream
  <2> QED
    BY <2>1, <2>2, NoSessionShape DEF Init, SenderInit, SenderShape
<1>4. AgentShape
  <2>1. rjob \in Job
    BY <1>1 DEF Init, AgentInit, Job, Statuses
  <2>2. NoReceiver \in Receiver /\ NoReceiver.pc = "none"
    BY DEF NoReceiver, Receiver, Statuses
  <2>3. part \in Part /\ file = NoFile
    BY DEF Init, AgentInit, Part
  <2> QED
    BY <2>1, <2>2, <2>3, NoRSessionShape DEF Init, AgentInit, AgentShape
<1>5. BrowserShape
  <2>1. states \in Seq(State) /\ Len(states) = 0 /\ saved = NoFile /\ imports = {}
    BY DEF Init, BrowserInit, NotSaved, NoFile
  <2> QED
    BY <2>1 DEF Init, BrowserInit, BrowserShape
<1> QED
  BY <1>2, <1>3, <1>4, <1>5 DEF Shape

LEMMA ShapeStep ==
    ASSUME Shape, [Next]_vars
    PROVE  Shape'
<1>1. CASE UNCHANGED vars
  <2>1. /\ Letter' = Letter /\ Genuine' = Genuine /\ Channel' = Channel /\ Job' = Job
        /\ Part' = Part /\ State' = State /\ (Met <=> Met') /\ (Delivered <=> Delivered')
    BY <1>1, SameSets DEF vars, wire, agentVars, browserVars
  <2>2. WireShape' /\ SenderShape'
    BY <1>1, <2>1 DEF vars, wire, senderVars, Shape, WireShape, SenderShape
  <2>3. AgentShape' /\ BrowserShape'
    BY <1>1, <2>1 DEF vars, wire, agentVars, browserVars, Shape, AgentShape, BrowserShape
  <2> QED
    BY <2>2, <2>3 DEF Shape
<1>2. CASE WireNext /\ UNCHANGED <<senderVars, agentVars, browserVars>>
  BY <1>2, WireKeeps
<1>3. CASE (SenderNext \/ Resume) /\ UNCHANGED <<agentVars, browserVars>>
  BY <1>3, EnvelopeShape, RunShape, StreamShape DEF SenderNext
<1>4. CASE AgentNext /\ UNCHANGED <<senderVars, browserVars>>
  BY <1>4, AgentKeeps
<1>5. CASE BrowserNext /\ UNCHANGED <<senderVars, agentVars>>
  BY <1>5, PageKeeps
<1> QED
  BY <1>1, <1>2, <1>3, <1>4, <1>5 DEF Next

\* The invariant holds of every behaviour.
THEOREM Shapes == Spec => []Shape
  BY ShapeInit, ShapeStep, PTL DEF Spec

\* Whatever the recipient saves, agent or page, is the sender's file, whole and in order; and the
\* sender's job is completed only when the recipient has saved it.  This holds for every size,
\* with any number of cuts, resumed runs, attempts and messages left over from earlier attempts.
THEOREM DeliveryIsSound == Spec => []DeliversSource
<1>1. Shape => DeliversSource
  BY DEF Shape, SenderShape, AgentShape, BrowserShape, DeliversSource, Content
<1> QED
  BY <1>1, Shapes, PTL
=============================================================================
