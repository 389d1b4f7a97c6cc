------------------------ MODULE LiveCandidatesProofs ------------------------
(***************************************************************************)
(* That no candidate is lost.  The ledger bounds the candidates from       *)
(* above; that none disappears rests on which attempts can be at work at   *)
(* the same time: whose session the sender's live peer belongs to, what a  *)
(* resumed run finds of the attempt before, and what is still on its way.  *)
(***************************************************************************)
EXTENDS LiveLedgerProofs

Alive(q) == q.state \notin {"none", "closed"}
Said(q)  == {q[i] : i \in 1 .. Len(q)}
Active   == {"waiting", "streaming"}
Busy     == {"answering", "waiting", "receiving"}

\* The server routes to the run while it is connected, and to the loop otherwise.
Lines ==
    /\ run.on => mail["loop"] = <<>> /\ run.no # 0
    /\ ~run.on => mail["run"] = <<>> /\ ~run.reads

\* Before the first run, and while the recipient is away, nothing happens.
Unheard == run.no = 0 \/ ~online

Silent ==
    /\ \A box \in Boxes : mail[box] = <<>>
    /\ \A a \in Attempts :
          /\ \A side \in Sides : peers[side][a].state = "none"
          /\ stream[a].pc = "none" /\ recv[a].pc = "none" /\ net[a].frames = <<>>
    /\ imports = {}

\* A live peer of the sender is the one of the session; a session that has an owner belongs to
\* the run that is connected, and every session that the first run meets is its own.
OwnedBy(r, s, p) ==
    /\ s.att = 0 => s.owner = 0
    /\ s.owner # 0 => r.on /\ s.owner = r.no
    /\ s.att # 0 /\ r.on /\ r.no <= 1 => s.owner = r.no
    /\ s.att # 0 => p["sender"][s.att].state # "none"
    /\ \A a \in Attempts : Alive(p["sender"][a]) =>
          s.att = a /\ (p["sender"][a].via # 0 => s.owner = p["sender"][a].via)

\* A recipient's peer answers, and sends through the loop.
Answerer(q)  == q.via = 0 /\ q.state \in {"none", "answering", "stable", "closed"}
Answerers(p) == \A a \in Attempts : Answerer(p["recipient"][a])

Order == Lines /\ (Unheard => Silent) /\ OwnedBy(run, session, peers) /\ Answerers(peers)

-----------------------------------------------------------------------------
(* Queues.                                                                 *)

LEMMA SaidNone == Said(<<>>) = {}
  BY DEF Said

LEMMA SaidOne ==
    ASSUME NEW x
    PROVE  Said(<<x>>) = {x}
<1>1. Len(<<x>>) = 1 /\ <<x>>[1] = x
  OBVIOUS
<1>2. 1 .. 1 = {1}
  OBVIOUS
<1> QED
  BY <1>1, <1>2 DEF Said

LEMMA SaidCat ==
    ASSUME NEW S, NEW s \in Seq(S), NEW t \in Seq(S)
    PROVE  Said(s \o t) = Said(s) \cup Said(t)
<1>1. /\ Len(s \o t) = Len(s) + Len(t) /\ Len(s) \in Nat /\ Len(t) \in Nat
      /\ \A i \in 1 .. Len(s) : (s \o t)[i] = s[i]
      /\ \A i \in 1 .. Len(t) : (s \o t)[Len(s) + i] = t[i]
      /\ \A i \in 1 .. Len(s \o t) : i \in 1 .. Len(s) \/ i - Len(s) \in 1 .. Len(t)
  OBVIOUS
<1>2. Said(s) \subseteq Said(s \o t)
  BY <1>1 DEF Said
<1>3. Said(t) \subseteq Said(s \o t)
  <2>1. \A i \in 1 .. Len(t) : Len(s) + i \in 1 .. Len(s \o t)
    BY <1>1
  <2> QED
    BY <1>1, <2>1 DEF Said
<1>4. Said(s \o t) \subseteq Said(s) \cup Said(t)
  <2>1. ASSUME NEW i \in 1 .. Len(s \o t)
        PROVE  (s \o t)[i] \in Said(s) \cup Said(t)
    <3>1. CASE i \in 1 .. Len(s)
      BY <1>1, <3>1 DEF Said
    <3>2. CASE i - Len(s) \in 1 .. Len(t)
      <4>1. i = Len(s) + (i - Len(s))
        BY <1>1
      <4>2. (s \o t)[i] = t[i - Len(s)]
        BY <1>1, <3>2, <4>1
      <4> QED
        BY <3>2, <4>2 DEF Said
    <3> QED
      BY <1>1, <3>1, <3>2
  <2> QED
    BY <2>1 DEF Said
<1> QED
  BY <1>2, <1>3, <1>4

LEMMA SaidTail ==
    ASSUME NEW S, NEW s \in Seq(S), s # <<>>
    PROVE  Said(s) = {Head(s)} \cup Said(Tail(s))
<1>1. /\ Len(s) \in Nat /\ Len(s) >= 1 /\ Len(Tail(s)) = Len(s) - 1 /\ Head(s) = s[1]
      /\ \A i \in 1 .. Len(Tail(s)) : Tail(s)[i] = s[i + 1]
  OBVIOUS
<1>2. Said(Tail(s)) \subseteq Said(s) /\ Head(s) \in Said(s)
  BY <1>1 DEF Said
<1>3. ASSUME NEW i \in 1 .. Len(s)
      PROVE  s[i] \in {Head(s)} \cup Said(Tail(s))
  <2>1. CASE i = 1
    BY <1>1, <2>1
  <2>2. CASE i # 1
    <3>1. i - 1 \in 1 .. Len(Tail(s)) /\ Tail(s)[i - 1] = s[i]
      BY <1>1, <2>2
    <3> QED
      BY <3>1 DEF Said
  <2> QED
    BY <2>1, <2>2
<1> QED
  BY <1>2, <1>3 DEF Said

\* The boxes are m, and then out is sent to the sender.
LEMMA ToSenderBoxes ==
    ASSUME NEW m \in Posts, NEW out \in Seq(Post)
    PROVE  /\ ToSender(m, out)["recipient"] = m["recipient"]
           /\ ToSender(m, out)["run"] = IF run.on THEN m["run"] \o out ELSE m["run"]
           /\ ToSender(m, out)["loop"] = IF run.on THEN m["loop"] ELSE m["loop"] \o out
  BY DEF ToSender, Posts, Boxes

LEMMA ToRecipientBoxes ==
    ASSUME NEW m \in Posts, NEW out \in Seq(Post)
    PROVE  /\ ToRecipient(m, out)["run"] = m["run"] /\ ToRecipient(m, out)["loop"] = m["loop"]
           /\ ToRecipient(m, out)["recipient"]
                = IF online THEN m["recipient"] \o out ELSE m["recipient"]
  BY DEF ToRecipient, Posts, Boxes

LEMMA ReadBoxes ==
    ASSUME NEW m \in Posts, NEW box \in Boxes, m[box] # <<>>
    PROVE  /\ [m EXCEPT ![box] = Tail(@)] \in Posts
           /\ \A b \in Boxes : [m EXCEPT ![box] = Tail(@)][b] = IF b = box THEN Tail(m[b]) ELSE m[b]
  BY TailOf DEF Posts

\* What is added takes nothing away.
LEMMA CountGrows ==
    ASSUME NEW S, NEW x, NEW s \in Seq(S), NEW t \in Seq(S)
    PROVE  CountOf(x, s) <= CountOf(x, s \o t)
<1> DEFINE A == {i \in DOMAIN s : s[i] = x}
           B == {i \in DOMAIN (s \o t) : (s \o t)[i] = x}
<1>1. A \subseteq B /\ B \subseteq 1 .. Len(s \o t) /\ Len(s \o t) \in Int
  OBVIOUS
<1>2. IsFiniteSet(1 .. Len(s \o t))
  BY <1>1, FS_Interval
<1>3. IsFiniteSet(B)
  BY <1>1, <1>2, FS_Subset
<1> HIDE DEF A, B
<1>4. Cardinality(A) <= Cardinality(B)
  BY <1>1, <1>3, FS_Subset
<1> QED
  BY <1>4 DEF A, B, CountOf

-----------------------------------------------------------------------------
(* What a step does to the mail.                                           *)

Took(box) == [mail EXCEPT ![box] = Tail(@)]

\* Messages of some types only, from the recipient and from the sender.
Speaks(out, types) == out \in Seq(Post) /\ \A x \in Said(out) : x.type \in types
Sends(m, types)    == \E out : Speaks(out, types) /\ mail' = ToSender(m, out)
Writes(m, types)   == \E out : Speaks(out, types) /\ mail' = ToRecipient(m, out)

LEMMA SendsNothing ==
    ASSUME NEW m \in Posts
    PROVE  ToSender(m, <<>>) = m /\ ToRecipient(m, <<>>) = m
<1>1. \A box \in Boxes : m[box] \in Seq(Post)
  BY DEF Posts
<1>2. \A box \in Boxes : m[box] \o <<>> = m[box]
  BY <1>1
<1>3. \A box \in Boxes : [m EXCEPT ![box] = @ \o <<>>] = m
  BY <1>2 DEF Posts
<1> QED
  BY <1>3 DEF ToSender, ToRecipient, Boxes

LEMMA SpeaksFew ==
    ASSUME NEW types, NEW t \in types \cap Types, NEW n \in Nat
    PROVE  /\ Speaks(<<>>, types) /\ Speaks(<<Message(t, n)>>, types)
           /\ \A u \in types \cap Types : Speaks(Append(<<Message(t, n)>>, Message(u, 0)), types)
<1>1. \A u \in types \cap Types, k \in Nat : Message(u, k) \in Post /\ Message(u, k).type \in types
  BY DEF Message, Post
<1>2. Speaks(<<>>, types)
  BY SaidNone DEF Speaks
<1>3. Speaks(<<Message(t, n)>>, types)
  BY <1>1, SaidOne DEF Speaks
<1>4. ASSUME NEW u \in types \cap Types
      PROVE  Speaks(Append(<<Message(t, n)>>, Message(u, 0)), types)
  <2> DEFINE x == Message(t, n)
             y == Message(u, 0)
  <2>1. x \in Post /\ y \in Post /\ x.type \in types /\ y.type \in types
    BY <1>1
  <2> HIDE DEF x, y
  <2>2. Append(<<x>>, y) = <<x>> \o <<y>> /\ <<x>> \in Seq(Post) /\ <<y>> \in Seq(Post)
    BY <2>1
  <2>6. Said(<<x>> \o <<y>>) = Said(<<x>>) \cup Said(<<y>>)
    BY <2>2, SaidCat
  <2>7. Said(<<x>>) = {x} /\ Said(<<y>>) = {y}
    BY SaidOne
  <2>3. Said(Append(<<x>>, y)) = {x} \cup {y}
    BY <2>2, <2>6, <2>7, Zenon
  <2>4. Append(<<x>>, y) \in Seq(Post)
    BY <2>1
  <2>5. Speaks(Append(<<x>>, y), types)
    BY <2>1, <2>3, <2>4 DEF Speaks
  <2> QED
    BY <2>5 DEF x, y
<1> QED
  BY <1>2, <1>3, <1>4

LEMMA GrowingBox ==
    ASSUME NEW s \in Seq(Post), NEW types, NEW out, Speaks(out, types)
    PROVE  /\ \A x \in Said(s \o out) : x \in Said(s) \/ x.type \in types
           /\ \A a : CountOf(Message("ice", a), s) <= CountOf(Message("ice", a), s \o out)
<1>1. out \in Seq(Post)
  BY DEF Speaks
<1>2. Said(s \o out) = Said(s) \cup Said(out)
  BY <1>1, SaidCat
<1>3. \A a : CountOf(Message("ice", a), s) <= CountOf(Message("ice", a), s \o out)
  BY <1>1, CountGrows
<1> QED
  BY <1>2, <1>3 DEF Speaks

LEMMA SameBox ==
    ASSUME NEW s \in Seq(Post), NEW x
    PROVE  CountOf(x, s) <= CountOf(x, s)
<1>1. CountOf(x, s) \in Nat
  BY CountNat
<1> QED
  BY <1>1

LEMMA Sent ==
    ASSUME NEW m \in Posts, NEW types, Sends(m, types)
    PROVE  /\ mail'["recipient"] = m["recipient"]
           /\ run.on => mail'["loop"] = m["loop"]
           /\ ~run.on => mail'["run"] = m["run"]
           /\ \A b \in Boxes : \A x \in Said(mail'[b]) : x \in Said(m[b]) \/ x.type \in types
           /\ \A b \in Boxes : \A a : Ice(m, b, a) <= Ice(mail', b, a)
<1>1. PICK out : Speaks(out, types) /\ mail' = ToSender(m, out)
  BY DEF Sends
<1>2. out \in Seq(Post)
  BY <1>1 DEF Speaks
<1>3. /\ mail'["recipient"] = m["recipient"]
      /\ mail'["run"] = IF run.on THEN m["run"] \o out ELSE m["run"]
      /\ mail'["loop"] = IF run.on THEN m["loop"] ELSE m["loop"] \o out
  BY <1>1, <1>2, ToSenderBoxes
<1>4. ASSUME NEW b \in Boxes
      PROVE  /\ \A x \in Said(mail'[b]) : x \in Said(m[b]) \/ x.type \in types
             /\ \A a : Ice(m, b, a) <= Ice(mail', b, a)
  <2>1. m[b] \in Seq(Post)
    BY DEF Posts
  <2>2. mail'[b] = m[b] \/ mail'[b] = m[b] \o out
    BY <1>3 DEF Boxes
  <2>3. /\ \A x \in Said(m[b] \o out) : x \in Said(m[b]) \/ x.type \in types
        /\ \A a : CountOf(Message("ice", a), m[b]) <= CountOf(Message("ice", a), m[b] \o out)
    BY <1>1, <2>1, GrowingBox
  <2>4. \A a : CountOf(Message("ice", a), m[b]) <= CountOf(Message("ice", a), m[b])
    BY <2>1, SameBox
  <2> QED
    BY <2>2, <2>3, <2>4 DEF Ice
<1> QED
  BY <1>3, <1>4

LEMMA Written ==
    ASSUME NEW m \in Posts, NEW types, Writes(m, types)
    PROVE  /\ mail'["loop"] = m["loop"] /\ mail'["run"] = m["run"]
           /\ \A b \in Boxes : \A x \in Said(mail'[b]) : x \in Said(m[b]) \/ x.type \in types
           /\ \A b \in Boxes : \A a : Ice(m, b, a) <= Ice(mail', b, a)
<1>1. PICK out : Speaks(out, types) /\ mail' = ToRecipient(m, out)
  BY DEF Writes
<1>2. out \in Seq(Post)
  BY <1>1 DEF Speaks
<1>3. /\ mail'["run"] = m["run"] /\ mail'["loop"] = m["loop"]
      /\ mail'["recipient"] = IF online THEN m["recipient"] \o out ELSE m["recipient"]
  BY <1>1, <1>2, ToRecipientBoxes
<1>4. ASSUME NEW b \in Boxes
      PROVE  /\ \A x \in Said(mail'[b]) : x \in Said(m[b]) \/ x.type \in types
             /\ \A a : Ice(m, b, a) <= Ice(mail', b, a)
  <2>1. m[b] \in Seq(Post)
    BY DEF Posts
  <2>2. mail'[b] = m[b] \/ mail'[b] = m[b] \o out
    BY <1>3 DEF Boxes
  <2>3. /\ \A x \in Said(m[b] \o out) : x \in Said(m[b]) \/ x.type \in types
        /\ \A a : CountOf(Message("ice", a), m[b]) <= CountOf(Message("ice", a), m[b] \o out)
    BY <1>1, <2>1, GrowingBox
  <2>4. \A a : CountOf(Message("ice", a), m[b]) <= CountOf(Message("ice", a), m[b])
    BY <2>1, SameBox
  <2> QED
    BY <2>2, <2>3, <2>4 DEF Ice
<1> QED
  BY <1>3, <1>4

\* A message is read.
LEMMA Taken ==
    ASSUME Shape, NEW box \in Boxes, mail[box] # <<>>
    PROVE  /\ Took(box) \in Posts /\ mail \in Posts /\ mail[box] \in Seq(Post)
           /\ Head(mail[box]) \in Post /\ Head(mail[box]) \in Letter /\ Head(mail[box]) \in Said(mail[box])
           /\ \A b \in Boxes : Took(box)[b] = IF b = box THEN Tail(mail[b]) ELSE mail[b]
           /\ \A b \in Boxes : Said(Took(box)[b]) \subseteq Said(mail[b])
           /\ \A b \in Boxes, a \in Attempts :
                 Ice(mail, b, a) = Ice(Took(box), b, a)
                    + IF b = box /\ Head(mail[box]) = Message("ice", a) THEN 1 ELSE 0
<1>1. mail \in Posts /\ mail \in Mail
  BY SameParts, WireFacts
<1>2. /\ Took(box) \in Posts
      /\ \A b \in Boxes : Took(box)[b] = IF b = box THEN Tail(mail[b]) ELSE mail[b]
  BY <1>1, ReadBoxes DEF Took
<1>3. mail[box] \in Seq(Post) /\ mail[box] \in Seq(Letter)
  BY <1>1 DEF Posts, Mail
<1>4. Head(mail[box]) \in Post /\ Head(mail[box]) \in Letter
  BY <1>3, TailOf
<1>5. Said(mail[box]) = {Head(mail[box])} \cup Said(Tail(mail[box]))
  BY <1>3, SaidTail
<1>6. \A b \in Boxes : Said(Took(box)[b]) \subseteq Said(mail[b])
  BY <1>2, <1>5
<1>7. ASSUME NEW b \in Boxes, NEW a \in Attempts
      PROVE  Ice(mail, b, a) = Ice(Took(box), b, a)
                    + IF b = box /\ Head(mail[box]) = Message("ice", a) THEN 1 ELSE 0
  <2>1. CASE b = box
    <3>1. CountOf(Message("ice", a), mail[box]) = CountOf(Message("ice", a), Tail(mail[box]))
             + IF Head(mail[box]) = Message("ice", a) THEN 1 ELSE 0
      BY <1>3, CountTail
    <3> QED
      BY <1>2, <2>1, <3>1 DEF Ice
  <2>2. CASE b # box
    <3>1. Ice(mail, b, a) \in Nat /\ Took(box)[b] = mail[b]
      BY <1>1, <1>2, <2>2, PostNat
    <3> QED
      BY <2>2, <3>1 DEF Ice
  <2> QED
    BY <2>1, <2>2
<1> QED
  BY <1>1, <1>2, <1>3, <1>4, <1>5, <1>6, <1>7

-----------------------------------------------------------------------------
(* The steps of the agent, by what they do to the peers, the session, the  *)
(* goroutines and the mail.                                                *)

AgentOffered ==
    /\ AgentReads("offer")
    /\ \E t \in {"accepted", "denied"} : mail' = ToSender(Took("recipient"), <<Message(t, 0)>>)
    /\ UNCHANGED <<peers, rsession, recv>>

\* A message that concerns no peer: one that is out of place, or a candidate that comes first.
AgentTold ==
    \E type \in {"webrtc_offer", "ice", "started"} :
        /\ AgentReads(type) /\ Sends(Took("recipient"), {"failed"})
        /\ UNCHANGED <<peers, recv>> /\ rsession'.att = rsession.att
        /\ \/ rsession' = rsession /\ (type = "ice" => rjob'.status \in Terminal)
           \/ type = "ice" /\ rsession'.pending = Append(rsession.pending, Head(mail["recipient"]).n)

AgentAdds ==
    /\ AgentReads("ice") /\ rsession.att # 0
    /\ Sends(Took("recipient"), {"failed"})
    /\ peers' = [peers EXCEPT !["recipient"][rsession.att] =
                    AddICECandidate(@, rsession.att, Head(mail["recipient"]).n)]
    /\ UNCHANGED <<rsession, recv>>

\* The peer that answers has the candidates that came before.
AgentMakes ==
    \E q \in Peer : \E r :
        LET a == Head(mail["recipient"]).n
        IN  /\ AgentReads("webrtc_offer") /\ rsession.att = 0
            /\ mail' = Took("recipient")
            /\ rsession' = [att |-> a, pending |-> <<>>]
            /\ q.state = "answering" /\ q.via = 0 /\ q.left = plan.gather
            /\ q.added = CountOf(a, rsession.pending)
            /\ peers' = [peers EXCEPT !["recipient"][a] = q]
            /\ r.pc = "answering" /\ recv' = [recv EXCEPT ![a] = r]

AgentDrops ==
    /\ AgentReads("retryable") \/ AgentReads("failed")
    /\ mail' = Took("recipient")
    /\ rsession' = NoRSession /\ peers' = CloseAt(peers, "recipient", rsession.att)
    /\ UNCHANGED recv

AgentAnswers(a) ==
    /\ peers["recipient"][a].state = "answering" /\ recv[a].pc = "answering"
    /\ peers' = [peers EXCEPT !["recipient"][a].state = "stable"]
    /\ \E r : r.pc = "waiting" /\ recv' = [recv EXCEPT ![a] = r]
    /\ Sends(mail, {"answer"})
    /\ UNCHANGED rsession

ReceiverGoes(a) ==
    /\ recv[a].pc \in {"waiting", "receiving"}
    /\ \E r : r.pc = "receiving" /\ recv' = [recv EXCEPT ![a] = r]
    /\ Sends(mail, {"started", "progress"})
    /\ UNCHANGED <<peers, rsession>>

ReceiverStops(a) ==
    /\ recv[a].pc \in {"waiting", "receiving"}
    /\ \E r : r.pc = "done" /\ recv' = [recv EXCEPT ![a] = r]
    /\ Sends(mail, {"started", "retryable", "failed", "completed"})
    /\ rsession' = IF rsession.att = a THEN NoRSession ELSE rsession
    /\ peers' = IF rsession.att = a THEN CloseAt(peers, "recipient", a) ELSE peers

AgentSteps ==
    \/ AgentOffered \/ AgentTold \/ AgentAdds \/ AgentMakes \/ AgentDrops
    \/ \E a \in Attempts : AgentAnswers(a) \/ ReceiverGoes(a) \/ ReceiverStops(a)

\* A handler's message to the sender, in the form of the steps above.
LEMMA HandledSays ==
    ASSUME Shape, NEW type, AgentReads(type), NEW j, NEW s, NEW p, NEW err \in BOOLEAN,
           AgentHandled(j, s, p, <<>>, err)
    PROVE  /\ Sends(Took("recipient"), {"failed"})
           /\ ~err => mail' = Took("recipient")
           /\ rsession' = s /\ peers' = p
           /\ rjob' = IF err THEN [j EXCEPT !.status = failTransferJob(@)] ELSE j
<1>1. "failed" \in {"failed"} \cap Types /\ 0 \in Nat
  BY DEF Types
<1>2. Speaks(<<>>, {"failed"}) /\ Speaks(<<Message("failed", 0)>>, {"failed"})
  BY <1>1, SpeaksFew
<1>3. Append(<<>>, Message("failed", 0)) = <<Message("failed", 0)>>
  OBVIOUS
<1>4. mail' = ToSender(Took("recipient"), IF err THEN <<Message("failed", 0)>> ELSE <<>>)
  BY <1>3 DEF AgentHandled, Took
<1>5. mail["recipient"] # <<>> /\ "recipient" \in Boxes
  BY DEF AgentReads, Read, Boxes
<1>6. Took("recipient") \in Posts
  BY <1>5, Taken
<1>7. ~err => mail' = Took("recipient")
  BY <1>4, <1>6, SendsNothing
<1>8. Sends(Took("recipient"), {"failed"})
  BY <1>2, <1>4 DEF Sends
<1> QED
  BY <1>7, <1>8 DEF AgentHandled

LEMMA AgentReadsFacts ==
    ASSUME Shape, NEW type, AgentReads(type)
    PROVE  /\ mail["recipient"] # <<>> /\ "recipient" \in Boxes
           /\ Head(mail["recipient"]).type = type
           /\ type \in {"webrtc_offer", "ice"} => Head(mail["recipient"]).n \in Attempts
<1>1. mail["recipient"] # <<>> /\ "recipient" \in Boxes /\ Head(mail["recipient"]).type = type
  BY DEF AgentReads, Read, Boxes
<1>2. Head(mail["recipient"]) \in Letter
  BY <1>1, Taken
<1> QED
  BY <1>1, <1>2 DEF Letter

\* The agent's handlers.
LEMMA AgentHandlers ==
    ASSUME Shape,
           handleTransferOffer \/ handleWebRTCOffer \/ AgentICE \/ AgentStarted \/ AgentRetryable
             \/ AgentFailed
    PROVE  AgentSteps
<1>s. rjob \in Job /\ [rjob EXCEPT !.status = failTransferJob(@)].status \in Terminal
  BY AgentFacts DEF Job, failTransferJob, Terminal
<1>1. CASE handleTransferOffer
  <2>1. /\ AgentReads("offer") /\ UNCHANGED recv /\ peers' = peers /\ rsession' = rsession
        /\ \E t \in {"accepted", "denied"} : mail' = ToSender(Took("recipient"), <<Message(t, 0)>>)
    BY <1>1 DEF handleTransferOffer, AgentHandled, Took
  <2> QED
    BY <2>1 DEF AgentSteps, AgentOffered
<1>2. CASE handleWebRTCOffer
  <2> DEFINE a == Head(mail["recipient"]).n
  <2>1. AgentReads("webrtc_offer") /\ a \in Attempts
    BY <1>2, AgentReadsFacts DEF handleWebRTCOffer
  <2>2. CASE rsession.att # 0
    <3>1. AgentHandled(rjob, rsession, peers, <<>>, TRUE) /\ UNCHANGED recv
      BY <1>2, <2>2 DEF handleWebRTCOffer
    <3>2. Sends(Took("recipient"), {"failed"}) /\ rsession' = rsession /\ peers' = peers
      BY <2>1, <3>1, HandledSays
    <3>3. AgentTold
      BY <2>1, <2>2, <3>1, <3>2 DEF AgentTold
    <3> QED
      BY <3>3 DEF AgentSteps
  <2>3. CASE rsession.att = 0
    <3> DEFINE peer == [NoPeer EXCEPT !.state = "answering", !.left = plan.gather]
               n    == CountOf(a, rsession.pending)
               q    == flushLiveSessionICE(peer, a, rsession.pending)
               s    == [att |-> a, pending |-> <<>>]
               p    == [peers EXCEPT !["recipient"][a] = q]
               r    == [pc |-> "answering", status |-> rjob.status, progress |-> rjob.progress,
                        resumed |-> FALSE]
    <3>1. AgentHandled(rjob, s, p, <<>>, FALSE) /\ recv' = [recv EXCEPT ![a] = r]
      BY <1>2, <2>3 DEF handleWebRTCOffer
    <3>2. n \in Nat
      BY SameParts, CountNat
    <3>3. /\ peer \in Peer /\ peer.added = 0 /\ peer.state = "answering" /\ peer.left = plan.gather
          /\ peer.via = 0
      BY NoPeerShape, WireFacts, PlanFacts DEF NoPeer, Peer
    <3>4. q = [peer EXCEPT !.added = peer.added + n]
      BY DEF flushLiveSessionICE
    <3>5. r.pc = "answering"
      OBVIOUS
    <3> HIDE DEF peer, n, q, r, s, p
    <3>6. /\ q \in Peer /\ q.state = "answering" /\ q.via = 0 /\ q.left = plan.gather
          /\ q.added = n
      BY <3>2, <3>3, <3>4 DEF Peer
    <3>7. mail' = Took("recipient") /\ rsession' = s /\ peers' = p
      BY <2>1, <3>1, HandledSays
    <3>8. AgentMakes
      BY <2>1, <2>3, <3>1, <3>5, <3>6, <3>7 DEF AgentMakes, s, p, n
    <3> QED
      BY <3>8 DEF AgentSteps
  <2> QED
    BY <2>2, <2>3
<1>3. CASE AgentICE
  <2> DEFINE c == Head(mail["recipient"]).n
  <2>1. AgentReads("ice") /\ UNCHANGED recv
    BY <1>3 DEF AgentICE
  <2>2. CASE rjob.status \in Terminal
    <3>1. AgentHandled(rjob, rsession, peers, <<>>, FALSE)
      BY <1>3, <2>2 DEF AgentICE
    <3>2. /\ Sends(Took("recipient"), {"failed"}) /\ rsession' = rsession /\ peers' = peers
          /\ rjob' = rjob
      BY <2>1, <3>1, HandledSays
    <3>3. AgentTold
      BY <2>1, <2>2, <3>2 DEF AgentTold
    <3> QED
      BY <3>3 DEF AgentSteps
  <2>3. CASE rjob.status \notin Terminal /\ rsession.att = 0
    <3> DEFINE full == Full(rsession.pending)
               s    == IF full THEN rsession ELSE [rsession EXCEPT !.pending = Append(@, c)]
    <3>1. AgentHandled(rjob, s, peers, <<>>, full)
      BY <1>3, <2>3 DEF AgentICE
    <3>2. full \in BOOLEAN
      BY DEF Full
    <3>3. IF full THEN s = rsession
          ELSE s.att = rsession.att /\ s.pending = Append(rsession.pending, c)
      BY AgentFacts DEF RSession
    <3> HIDE DEF full, s
    <3>4. /\ Sends(Took("recipient"), {"failed"}) /\ rsession' = s /\ peers' = peers
          /\ rjob' = IF full THEN [rjob EXCEPT !.status = failTransferJob(@)] ELSE rjob
      BY <2>1, <3>1, <3>2, HandledSays
    <3>5. AgentTold
      BY <1>s, <2>1, <3>3, <3>4 DEF AgentTold
    <3> QED
      BY <3>5 DEF AgentSteps
  <2>4. CASE rjob.status \notin Terminal /\ rsession.att # 0
    <3> DEFINE p == [peers EXCEPT !["recipient"][rsession.att] = AddICECandidate(@, rsession.att, c)]
    <3>1. PICK refused \in AddRefusals(peers["recipient"][rsession.att]) :
            AgentHandled(rjob, rsession, p, <<>>, refused)
      BY <1>3, <2>4 DEF AgentICE
    <3>2. refused \in BOOLEAN
      BY RefusalsShape
    <3> HIDE DEF p
    <3>3. Sends(Took("recipient"), {"failed"}) /\ rsession' = rsession /\ peers' = p
      BY <2>1, <3>1, <3>2, HandledSays
    <3>4. AgentAdds
      BY <2>1, <2>4, <3>3 DEF AgentAdds, p
    <3> QED
      BY <3>4 DEF AgentSteps
  <2> QED
    BY <2>2, <2>3, <2>4
<1>4. CASE AgentStarted
  <2>1. AgentReads("started") /\ UNCHANGED recv
    BY <1>4, AgentFacts, StartedAtAgent
  <2>2. PICK err \in BOOLEAN, j \in {rjob, [rjob EXCEPT !.status = markTransferStarted(@)]} :
           AgentHandled(j, rsession, peers, <<>>, err)
    BY <1>4, AgentFacts, StartedAtAgent
  <2>3. Sends(Took("recipient"), {"failed"}) /\ rsession' = rsession /\ peers' = peers
    BY <2>1, <2>2, HandledSays
  <2>4. AgentTold
    BY <2>1, <2>3 DEF AgentTold
  <2> QED
    BY <2>4 DEF AgentSteps
<1>5. CASE AgentRetryable \/ AgentFailed
  <2>1. PICK j : /\ AgentReads("retryable") \/ AgentReads("failed")
                 /\ AgentHandled(j, NoRSession, CloseAt(peers, "recipient", rsession.att), <<>>, FALSE)
                 /\ UNCHANGED recv
    BY <1>5 DEF AgentRetryable, AgentFailed
  <2>2. /\ mail' = Took("recipient") /\ rsession' = NoRSession
        /\ peers' = CloseAt(peers, "recipient", rsession.att)
    BY <2>1, HandledSays
  <2>3. AgentDrops
    BY <2>1, <2>2 DEF AgentDrops
  <2> QED
    BY <2>3 DEF AgentSteps
<1> QED
  BY <1>1, <1>2, <1>3, <1>4, <1>5

LEMMA GoroutineReturns ==
    ASSUME NEW a \in Attempts, recv[a].pc \in {"waiting", "receiving"}, NEW out,
           Speaks(out, {"started", "retryable", "failed", "completed"}), ReceiverReturns(a, out)
    PROVE  ReceiverStops(a)
<1>1. Sends(mail, {"started", "retryable", "failed", "completed"})
  BY DEF Sends, ReceiverReturns
<1>2. [NoReceiver EXCEPT !.pc = "done"].pc = "done"
  BY DEF NoReceiver
<1>3. \E r : r.pc = "done" /\ recv' = [recv EXCEPT ![a] = r]
  BY <1>2 DEF ReceiverReturns
<1> QED
  BY <1>1, <1>3 DEF ReceiverStops, ReceiverReturns

\* The receiver's goroutine.
LEMMA AgentGoroutine ==
    ASSUME Shape, NEW a \in Attempts,
           \/ SendAnswer(a) \/ ReceiverStarts(a) \/ ReceiverNeverOpens(a) \/ ReceiverRefuses(a)
           \/ AcceptChunk(a) \/ AcceptManifest(a) \/ ReceiverInterrupted(a)
    PROVE  AgentAnswers(a) \/ ReceiverGoes(a) \/ ReceiverStops(a)
<1> DEFINE stops == {"started", "retryable", "failed", "completed"}
           goes  == {"started", "progress"}
<1>1. /\ recv \in [Attempts -> Receiver] /\ recv[a] \in Receiver /\ recv[a].progress \in Nat
      /\ mail \in Posts
  BY SameParts DEF Shape, AgentShape, Receiver
<1>2. \A n \in Nat : \A t \in stops : Speaks(<<Message(t, n)>>, stops)
  BY SpeaksFew DEF Types
<1>3. Speaks(<<>>, stops) /\ Speaks(<<>>, goes)
  BY SaidNone DEF Speaks
<1>4. Speaks(Append(<<Message("started", 0)>>, Message("failed", 0)), stops)
  <2>1. "started" \in stops \cap Types /\ "failed" \in stops \cap Types /\ 0 \in Nat
    BY DEF Types
  <2> QED
    BY <2>1, SpeaksFew
<1>5. Append(<<>>, Message("failed", 0)) = <<Message("failed", 0)>>
  OBVIOUS
<1>6. \A n \in Nat : \A t \in goes : Speaks(<<Message(t, n)>>, goes)
  BY SpeaksFew DEF Types
<1>7. CASE SendAnswer(a)
  <2>1. Speaks(<<Message("answer", a)>>, {"answer"})
    <3>1. "answer" \in {"answer"} \cap Types /\ a \in Nat
      BY Bounds DEF Types, Attempts
    <3> QED
      BY <3>1, SpeaksFew
  <2>2. Sends(mail, {"answer"})
    BY <1>7, <2>1 DEF SendAnswer, Sends
  <2>3. [recv[a] EXCEPT !.pc = "waiting"].pc = "waiting"
    BY <1>1 DEF Receiver
  <2>4. recv' = [recv EXCEPT ![a] = [recv[a] EXCEPT !.pc = "waiting"]]
    BY <1>7 DEF SendAnswer
  <2>5. AgentAnswers(a)
    BY <1>7, <2>2, <2>3, <2>4 DEF SendAnswer, AgentAnswers
  <2> QED
    BY <2>5
<1>8. CASE ReceiverStarts(a)
  <2> DEFINE resumes == recv[a].status = "retryable" /\ recv[a].progress > 0 /\ part \notin {NoFile, <<>>}
             r == [recv[a] EXCEPT !.pc = "receiving", !.resumed = resumes,
                                  !.progress = IF resumes THEN Len(part) ELSE 0]
  <2>1. recv[a].pc = "waiting"
    BY <1>8, AgentFacts, ReceiverStarted
  <2>2. \/ ReceiverReturns(a, <<>>)
        \/ ReceiverReturns(a, Append(<<Message("started", 0)>>, Message("failed", 0)))
        \/ /\ recv' = [recv EXCEPT ![a] = r]
           /\ mail' = ToSender(mail, <<Message("started", 0)>>) /\ UNCHANGED <<rsession, peers>>
    <3>1. \/ ReceiverReturns(a, <<>>)
          \/ ReceiverFails(a, <<Message("started", 0)>>)
          \/ /\ recv' = [recv EXCEPT ![a].pc = "receiving", ![a].resumed = resumes,
                                     ![a].progress = IF resumes THEN Len(part) ELSE 0]
             /\ mail' = ToSender(mail, <<Message("started", 0)>>) /\ UNCHANGED <<rsession, peers>>
      BY <1>8, AgentFacts, ReceiverStarted
    <3> QED
      BY <1>1, <3>1 DEF ReceiverFails, Receiver
  <2>3. r.pc = "receiving"
    BY <1>1 DEF Receiver
  <2> HIDE DEF r
  <2>4. ReceiverReturns(a, <<>>) => ReceiverStops(a)
    BY <1>3, <2>1, GoroutineReturns
  <2>5. ReceiverReturns(a, Append(<<Message("started", 0)>>, Message("failed", 0))) => ReceiverStops(a)
    BY <1>4, <2>1, GoroutineReturns
  <2>6. CASE /\ recv' = [recv EXCEPT ![a] = r]
             /\ mail' = ToSender(mail, <<Message("started", 0)>>) /\ UNCHANGED <<rsession, peers>>
    <3>1. Sends(mail, goes)
      BY <1>6, <2>6 DEF Sends
    <3> QED
      BY <2>1, <2>3, <2>6, <3>1 DEF ReceiverGoes
  <2> QED
    BY <2>2, <2>4, <2>5, <2>6
<1>9. CASE ReceiverNeverOpens(a)
  <2>1. recv[a].pc = "waiting" /\ ReceiverReturns(a, <<Message("retryable", recv[a].progress)>>)
    BY <1>9 DEF ReceiverNeverOpens
  <2>2. Speaks(<<Message("retryable", recv[a].progress)>>, stops)
    BY <1>1, <1>2
  <2> QED
    BY <2>1, <2>2, GoroutineReturns
<1>10. CASE ReceiverRefuses(a)
  <2>1. recv[a].pc = "receiving" /\ ReceiverReturns(a, <<Message("failed", 0)>>)
    BY <1>5, <1>10 DEF ReceiverRefuses, Incoming, ReceiverFails
  <2>2. Speaks(<<Message("failed", 0)>>, stops)
    BY <1>2
  <2> QED
    BY <2>1, <2>2, GoroutineReturns
<1>11. CASE AcceptChunk(a)
  <2> DEFINE size == Len(part) + Len(Head(net[a].frames).data)
             r    == [recv[a] EXCEPT !.progress = recv[a].progress + 1]
  <2>1. /\ recv[a].pc = "receiving" /\ recv' = [recv EXCEPT ![a] = r]
        /\ UNCHANGED <<peers, rsession>>
        /\ mail' = mail \/ mail' = ToSender(mail, <<Message("progress", size)>>)
    BY <1>11 DEF AcceptChunk, Incoming
  <2>2. r.pc = "receiving"
    BY <1>1, <2>1 DEF Receiver
  <2>3. size \in Nat
    <3>1. Head(net[a].frames) \in Genuine /\ Head(net[a].frames).type = "chunk"
      BY <1>11, IncomingFacts DEF AcceptChunk
    <3>2. Head(net[a].frames).data \in Seq(Nat)
      BY <3>1, FrameFacts, WireFacts
    <3> QED
      BY <3>2, PartFacts
  <2> HIDE DEF size, r
  <2>4. mail = ToSender(mail, <<>>)
    BY <1>1, SendsNothing
  <2>5. Sends(mail, goes)
    BY <1>3, <1>6, <2>1, <2>3, <2>4 DEF Sends
  <2> QED
    BY <2>1, <2>2, <2>5 DEF ReceiverGoes
<1>12. CASE AcceptManifest(a)
  <2>1. /\ recv[a].pc = "receiving"
        /\ ReceiverReturns(a, <<>>) \/ ReceiverReturns(a, <<Message("completed", 0)>>)
    BY <1>12 DEF AcceptManifest, Incoming
  <2>2. Speaks(<<Message("completed", 0)>>, stops)
    BY <1>2
  <2> QED
    BY <1>3, <2>1, <2>2, GoroutineReturns
<1>13. CASE ReceiverInterrupted(a)
  <2> DEFINE kept == IF Len(part) > rjob.progress THEN SubSeq(part, 1, rjob.progress) ELSE part
  <2>1. recv[a].pc = "receiving" /\ ReceiverReturns(a, <<Message("retryable", Len(kept))>>)
    BY <1>13 DEF ReceiverInterrupted
  <2>2. Len(kept) \in Nat
    BY PartFacts, AgentFacts
  <2>3. Speaks(<<Message("retryable", Len(kept))>>, stops)
    BY <1>2, <2>2
  <2> QED
    BY <2>1, <2>3, GoroutineReturns
<1> QED
  BY <1>7, <1>8, <1>9, <1>10, <1>11, <1>12, <1>13

LEMMA AgentTable ==
    ASSUME Shape, AgentNext
    PROVE  AgentSteps
<1>1. CASE handleTransferOffer \/ handleWebRTCOffer \/ AgentICE \/ AgentStarted \/ AgentRetryable
             \/ AgentFailed
  BY <1>1, AgentHandlers
<1>2. CASE \E a \in Attempts :
              \/ SendAnswer(a) \/ ReceiverStarts(a) \/ ReceiverNeverOpens(a) \/ ReceiverRefuses(a)
              \/ AcceptChunk(a) \/ AcceptManifest(a) \/ ReceiverInterrupted(a)
  BY <1>2, AgentGoroutine DEF AgentSteps
<1> QED
  BY <1>1, <1>2 DEF AgentNext

-----------------------------------------------------------------------------
(* What all steps of a recipient, agent or page, have in common.           *)

\* A peer is made with all its candidates to gather, closes, or keeps what it has to gather.
Turns(q2, q) ==
    /\ Answerer(q2)
    /\ \/ q2.left = q.left /\ (Alive(q2) => Alive(q))
       \/ q2.state = "closed"
       \/ q2.left = plan.gather

PeersTurn ==
    \A a \in Attempts : /\ peers'["sender"][a] = peers["sender"][a]
                        /\ Turns(peers'["recipient"][a], peers["recipient"][a])

RecipientMoves ==
    /\ PeersTurn
    /\ run.on => mail'["loop"] = mail["loop"]
    /\ ~run.on => mail'["run"] = mail["run"]
    /\ \A b \in {"run", "loop"}, a \in Attempts : Ice(mail, b, a) <= Ice(mail', b, a)

LEMMA TurnSame ==
    ASSUME NEW q, Answerer(q)
    PROVE  Turns(q, q)
  BY DEF Turns

LEMMA TurnClose ==
    ASSUME NEW q \in Peer, Answerer(q)
    PROVE  Turns(Close(q), q)
<1>1. CASE q.state = "none"
  BY <1>1 DEF Turns, Close
<1>2. CASE q.state # "none"
  <2>1. [NoPeer EXCEPT !.state = "closed"].via = 0 /\ [NoPeer EXCEPT !.state = "closed"].state = "closed"
    BY DEF NoPeer
  <2>2. Close(q) = [NoPeer EXCEPT !.state = "closed"]
    BY <1>2 DEF Close
  <2>3. Close(q).via = 0 /\ Close(q).state = "closed"
    BY <2>1, <2>2
  <2> QED
    BY <2>3 DEF Turns, Answerer
<1> QED
  BY <1>1, <1>2

LEMMA TurnAdd ==
    ASSUME NEW q \in Peer, Answerer(q), NEW a, NEW c
    PROVE  Turns(AddICECandidate(q, a, c), q)
<1>1. CASE Described(q)
  <2>1. AddICECandidate(q, a, c) = [q EXCEPT !.added = IF c = a THEN q.added + 1 ELSE q.added]
    BY <1>1 DEF AddICECandidate, Described, Peer
  <2> QED
    BY <2>1 DEF Turns, Answerer, Alive, Peer
<1>2. CASE ~Described(q) /\ q.state = "closed"
  <2>1. AddICECandidate(q, a, c) = q
    BY <1>2 DEF AddICECandidate, Described
  <2> QED
    BY <2>1, TurnSame
<1>3. CASE ~Described(q) /\ q.state # "closed" /\ Full(q.held)
  BY <1>3, TurnClose DEF AddICECandidate
<1>4. CASE ~Described(q) /\ q.state # "closed" /\ ~Full(q.held)
  <2>1. AddICECandidate(q, a, c) = [q EXCEPT !.held = Append(q.held, c)]
    BY <1>4 DEF AddICECandidate, Peer
  <2> QED
    BY <2>1 DEF Turns, Answerer, Alive, Peer
<1> QED
  BY <1>1, <1>2, <1>3, <1>4

LEMMA TurnOne ==
    ASSUME Shape, Answerers(peers), NEW a \in Attempts, NEW q \in Peer,
           Turns(q, peers["recipient"][a]), peers' = [peers EXCEPT !["recipient"][a] = q]
    PROVE  PeersTurn
<1>1. peers \in Peers /\ Sides = {"sender", "recipient"}
  BY AgentFacts DEF Sides
<1>2. \A s \in Sides, b \in Attempts :
         peers'[s][b] = IF s = "recipient" /\ b = a THEN q ELSE peers[s][b]
  BY <1>1, SetPeer
<1>3. \A b \in Attempts : Turns(peers["recipient"][b], peers["recipient"][b])
  BY TurnSame DEF Answerers
<1> QED
  BY <1>1, <1>2, <1>3 DEF PeersTurn

LEMMA TurnNone ==
    ASSUME Answerers(peers), peers' = peers
    PROVE  PeersTurn
  BY TurnSame DEF PeersTurn, Answerers

LEMMA TurnClosed ==
    ASSUME Shape, Answerers(peers), NEW a \in 0 .. MaxAttempts, peers' = CloseAt(peers, "recipient", a)
    PROVE  PeersTurn
<1>1. peers \in Peers /\ Sides = {"sender", "recipient"}
  BY AgentFacts DEF Sides
<1>2. \A s \in Sides, b \in Attempts :
         peers'[s][b] = IF s = "recipient" /\ b = a THEN Close(peers[s][b]) ELSE peers[s][b]
  BY <1>1, CloseAtShape
<1>3. \A b \in Attempts : peers["recipient"][b] \in Peer /\ Answerer(peers["recipient"][b])
  BY AgentFacts DEF Answerers
<1>4. \A b \in Attempts : /\ Turns(peers["recipient"][b], peers["recipient"][b])
                          /\ Turns(Close(peers["recipient"][b]), peers["recipient"][b])
  BY <1>3, TurnSame, TurnClose
<1> QED
  BY <1>1, <1>2, <1>4 DEF PeersTurn

LEMMA SaidBack ==
    ASSUME Shape, NEW m \in Posts, m["run"] = mail["run"], m["loop"] = mail["loop"],
           NEW types, Sends(m, types), PeersTurn
    PROVE  RecipientMoves
  BY Sent DEF RecipientMoves, Boxes, Ice

LEMMA TookBack ==
    ASSUME Shape, mail["recipient"] # <<>>
    PROVE  /\ Took("recipient") \in Posts
           /\ Took("recipient")["run"] = mail["run"] /\ Took("recipient")["loop"] = mail["loop"]
  BY Taken DEF Boxes

\* Nothing is said.
LEMMA SentNone ==
    ASSUME NEW m \in Posts, mail' = m
    PROVE  \A types : Sends(m, types) /\ Writes(m, types)
<1>1. ToSender(m, <<>>) = m /\ ToRecipient(m, <<>>) = m
  BY SendsNothing
<1>2. \A types : Speaks(<<>>, types)
  BY SaidNone DEF Speaks
<1> QED
  BY <1>1, <1>2 DEF Sends, Writes

LEMMA StableTurn ==
    ASSUME Shape, Answerers(peers), NEW a \in Attempts, peers["recipient"][a].state = "answering",
           peers' = [peers EXCEPT !["recipient"][a].state = "stable"]
    PROVE  PeersTurn
<1> DEFINE q == peers["recipient"][a]
           n == [q EXCEPT !.state = "stable"]
<1>1. q \in Peer /\ Answerer(q)
  BY AgentFacts DEF Answerers
<1>2. peers' = [peers EXCEPT !["recipient"][a] = n]
  BY AgentFacts DEF Peers
<1>3. n \in Peer /\ Turns(n, q)
  BY <1>1 DEF Peer, Turns, Alive, Answerer
<1> HIDE DEF n
<1> QED
  BY <1>2, <1>3, TurnOne

LEMMA AgentIsRecipient ==
    ASSUME Shape, Answerers(peers), AgentSteps
    PROVE  RecipientMoves
<1>1. mail \in Posts /\ rsession.att \in 0 .. MaxAttempts /\ 0 \in Nat
  BY SameParts, AgentFacts
<1>2. CASE AgentOffered
  <2>1. mail["recipient"] # <<>>
    BY <1>2, AgentReadsFacts DEF AgentOffered
  <2>2. PICK t \in {"accepted", "denied"} : mail' = ToSender(Took("recipient"), <<Message(t, 0)>>)
    BY <1>2 DEF AgentOffered
  <2>3. t \in {t} \cap Types
    BY DEF Types
  <2>4. Speaks(<<Message(t, 0)>>, {t})
    BY <1>1, <2>3, SpeaksFew
  <2>5. Sends(Took("recipient"), {t})
    BY <2>2, <2>4 DEF Sends
  <2>6. PeersTurn
    BY <1>2, TurnNone DEF AgentOffered
  <2> QED
    BY <2>1, <2>5, <2>6, TookBack, SaidBack
<1>3. CASE AgentTold
  <2>1. mail["recipient"] # <<>> /\ Sends(Took("recipient"), {"failed"}) /\ peers' = peers
    BY <1>3, AgentReadsFacts DEF AgentTold
  <2> QED
    BY <2>1, TookBack, SaidBack, TurnNone
<1>4. CASE AgentAdds
  <2> DEFINE a == rsession.att
             c == Head(mail["recipient"]).n
             q == AddICECandidate(peers["recipient"][a], a, c)
  <2>1. mail["recipient"] # <<>> /\ Sends(Took("recipient"), {"failed"}) /\ c \in Attempts
    BY <1>4, AgentReadsFacts DEF AgentAdds
  <2>2. a \in Attempts
    BY <1>1, <1>4, Bounds DEF AgentAdds, Attempts
  <2>3. peers["recipient"][a] \in Peer /\ Answerer(peers["recipient"][a])
    BY <2>2, AgentFacts DEF Answerers
  <2>4. q \in Peer /\ Turns(q, peers["recipient"][a])
    BY <2>1, <2>3, AddShape, TurnAdd
  <2>5. peers' = [peers EXCEPT !["recipient"][a] = q]
    BY <1>4, <2>2, AgentFacts DEF AgentAdds, Peers
  <2> HIDE DEF q
  <2>6. PeersTurn
    BY <2>2, <2>4, <2>5, TurnOne
  <2> QED
    BY <2>1, <2>6, TookBack, SaidBack
<1>5. CASE AgentMakes
  <2> DEFINE a == Head(mail["recipient"]).n
  <2>1. PICK q \in Peer : /\ q.state = "answering" /\ q.via = 0 /\ q.left = plan.gather
                          /\ peers' = [peers EXCEPT !["recipient"][a] = q]
    BY <1>5 DEF AgentMakes
  <2>2. mail["recipient"] # <<>> /\ a \in Attempts /\ mail' = Took("recipient")
    BY <1>5, AgentReadsFacts DEF AgentMakes
  <2>3. Turns(q, peers["recipient"][a])
    BY <2>1 DEF Turns, Answerer
  <2>4. PeersTurn
    BY <2>1, <2>2, <2>3, TurnOne
  <2>5. Took("recipient") \in Posts
    BY <2>2, TookBack
  <2>6. Sends(Took("recipient"), {})
    BY <2>2, <2>5, SentNone
  <2> QED
    BY <2>2, <2>4, <2>6, TookBack, SaidBack
<1>6. CASE AgentDrops
  <2>1. /\ mail["recipient"] # <<>> /\ mail' = Took("recipient")
        /\ peers' = CloseAt(peers, "recipient", rsession.att)
    BY <1>6, AgentReadsFacts DEF AgentDrops
  <2>2. PeersTurn
    BY <1>1, <2>1, TurnClosed
  <2>3. Took("recipient") \in Posts
    BY <2>1, TookBack
  <2>4. Sends(Took("recipient"), {})
    BY <2>1, <2>3, SentNone
  <2> QED
    BY <2>1, <2>2, <2>4, TookBack, SaidBack
<1>7. ASSUME NEW a \in Attempts, AgentAnswers(a)
      PROVE  RecipientMoves
  <2>1. PeersTurn
    BY <1>7, StableTurn DEF AgentAnswers
  <2> QED
    BY <1>1, <1>7, <2>1, SaidBack DEF AgentAnswers
<1>8. ASSUME NEW a \in Attempts, ReceiverGoes(a)
      PROVE  RecipientMoves
  BY <1>1, <1>8, TurnNone, SaidBack DEF ReceiverGoes
<1>9. ASSUME NEW a \in Attempts, ReceiverStops(a)
      PROVE  RecipientMoves
  <2>1. a \in 0 .. MaxAttempts
    BY Bounds DEF Attempts
  <2>2. PeersTurn
    BY <1>9, <2>1, TurnNone, TurnClosed DEF ReceiverStops
  <2> QED
    BY <1>1, <1>9, <2>2, SaidBack DEF ReceiverStops
<1> QED
  BY <1>2, <1>3, <1>4, <1>5, <1>6, <1>7, <1>8, <1>9 DEF AgentSteps

LEMMA PageReadsFacts ==
    ASSUME Shape, NEW type, BrowserReads(type)
    PROVE  /\ mail["recipient"] # <<>> /\ Head(mail["recipient"]) \in Letter
           /\ Head(mail["recipient"]).type = type
<1>1. mail["recipient"] # <<>> /\ "recipient" \in Boxes /\ Head(mail["recipient"]).type = type
  BY DEF BrowserReads, Read, Boxes
<1> QED
  BY <1>1, Taken

LEMMA PageIsRecipient ==
    ASSUME Shape, Answerers(peers), BrowserNext
    PROVE  RecipientMoves
<1>1. mail \in Posts /\ 0 \in Nat
  BY SameParts
<1>2. CASE connectReceiver
  <2>1. mail' = mail /\ peers' = peers
    BY <1>2 DEF connectReceiver
  <2>2. Sends(mail, {})
    BY <1>1, <2>1, SentNone
  <2> QED
    BY <1>1, <2>1, <2>2, TurnNone, SaidBack
<1>3. CASE BrowserOffer
  <2>1. /\ mail["recipient"] # <<>> /\ peers' = peers
        /\ mail' = Took("recipient") \/ mail' = ToSender(Took("recipient"), <<Message("accepted", 0)>>)
    BY <1>3, PageReadsFacts DEF BrowserOffer, Answer, Took
  <2>2. Took("recipient") \in Posts
    BY <2>1, TookBack
  <2>3. Speaks(<<Message("accepted", 0)>>, {"accepted"})
    <3>1. "accepted" \in {"accepted"} \cap Types
      BY DEF Types
    <3> QED
      BY <1>1, <3>1, SpeaksFew
  <2>4. Sends(Took("recipient"), {"accepted"})
    BY <2>1, <2>2, <2>3, SentNone DEF Sends
  <2> QED
    BY <2>1, <2>4, TurnNone, TookBack, SaidBack
<1>4. CASE acceptWebRTCOffer
  <2> DEFINE a   == Head(mail.recipient).n
             now == states[Current]
             q   == [NoPeer EXCEPT !.state = "answering", !.left = plan.gather,
                                   !.added = CountOf(a, now.pending)]
             p   == CloseAt(peers, "recipient", now.peer)
  <2>1. /\ BrowserReads("webrtc_offer") /\ mail' = Took("recipient")
        /\ peers' = [p EXCEPT !["recipient"][a] = q]
    BY <1>4 DEF acceptWebRTCOffer, Took
  <2>2. /\ mail["recipient"] # <<>> /\ Head(mail["recipient"]) \in Letter
        /\ Head(mail["recipient"]).type = "webrtc_offer" /\ plan.kind = "browser"
    BY <2>1, PageReadsFacts DEF BrowserReads
  <2>3. a \in Attempts /\ Met
    BY <2>2 DEF Letter
  <2>4. Current \in 1 .. Len(states)
    BY <2>2, <2>3, PageFacts DEF Met, Current
  <2>5. now \in State
    BY <2>4, PageFacts
  <2>6. CountOf(a, now.pending) \in Nat /\ now.peer \in 0 .. MaxAttempts
    BY <2>5, CountNat DEF State
  <2>7. /\ q \in Peer /\ q.state = "answering" /\ q.via = 0 /\ q.left = plan.gather
    <3> DEFINE n == CountOf(a, now.pending)
    <3> HIDE DEF n
    <3>1. n \in Nat
      BY <2>6 DEF n
    <3>2. q = [NoPeer EXCEPT !.state = "answering", !.left = plan.gather, !.added = n]
      BY DEF n
    <3> QED
      BY <3>1, <3>2, NoPeerShape, WireFacts, PlanFacts DEF NoPeer, Peer
  <2>8. /\ p \in Peers /\ Sides = {"sender", "recipient"}
        /\ \A s \in Sides, b \in Attempts :
              p[s][b] = IF s = "recipient" /\ b = now.peer THEN Close(peers[s][b]) ELSE peers[s][b]
    BY <2>6, AgentFacts, CloseAtShape DEF Sides
  <2> HIDE DEF q, p, now
  <2>9. \A s \in Sides, b \in Attempts :
           peers'[s][b] = IF s = "recipient" /\ b = a THEN q ELSE p[s][b]
    BY <2>1, <2>3, <2>7, <2>8, SetPeer
  <2>10. ASSUME NEW b \in Attempts
         PROVE  /\ peers'["sender"][b] = peers["sender"][b]
                /\ Turns(peers'["recipient"][b], peers["recipient"][b])
    <3>1. peers["recipient"][b] \in Peer /\ Answerer(peers["recipient"][b])
      BY AgentFacts DEF Answerers
    <3>2. /\ Turns(peers["recipient"][b], peers["recipient"][b])
          /\ Turns(Close(peers["recipient"][b]), peers["recipient"][b])
      BY <3>1, TurnSame, TurnClose
    <3>3. Turns(q, peers["recipient"][b])
      BY <2>7 DEF Turns, Answerer
    <3> QED
      BY <2>8, <2>9, <3>2, <3>3
  <2>11. Took("recipient") \in Posts
    BY <2>2, TookBack
  <2>12. Sends(Took("recipient"), {})
    BY <2>1, <2>11, SentNone
  <2>13. PeersTurn
    BY <2>10 DEF PeersTurn
  <2> QED
    BY <2>2, <2>12, <2>13, TookBack, SaidBack
<1>5. CASE BrowserICE
  <2> DEFINE c   == Head(mail.recipient).n
             now == states[Current]
             b   == now.peer
             q   == AddICECandidate(peers["recipient"][b], b, c)
  <2>1. BrowserReads("ice") /\ mail' = Took("recipient")
    BY <1>5 DEF BrowserICE, Took
  <2>2. /\ mail["recipient"] # <<>> /\ Head(mail["recipient"]) \in Letter
        /\ Head(mail["recipient"]).type = "ice"
    BY <2>1, PageReadsFacts
  <2>3. c \in Attempts
    BY <2>2 DEF Letter
  <2>4. Current = 0 \/ Current > 0
    BY PageFacts DEF Current
  <2>5. PeersTurn
    <3>1. CASE Current = 0
      <4>1. peers' = peers
        BY <1>5, <3>1 DEF BrowserICE
      <4> QED
        BY <4>1, TurnNone
    <3>2. CASE Current > 0 /\ now.peer = 0
      <4>1. peers' = peers
        BY <1>5, <3>2 DEF BrowserICE
      <4> QED
        BY <4>1, TurnNone
    <3>3. CASE Current > 0 /\ now.peer # 0
      <4>1. Current # 0
        BY <3>3, PageFacts DEF Current
      <4>2. peers' = [peers EXCEPT !["recipient"][b] = AddICECandidate(@, b, c)]
        BY <1>5, <3>3, <4>1, Zenon DEF BrowserICE
      <4>3. now \in State
        BY <3>3, PageFacts DEF Current
      <4>4. b \in Attempts
        BY <3>3, <4>3, Bounds DEF State, Attempts
      <4>5. peers["recipient"][b] \in Peer /\ Answerer(peers["recipient"][b])
        BY <4>4, AgentFacts DEF Answerers
      <4>6. q \in Peer /\ Turns(q, peers["recipient"][b])
        BY <2>3, <4>5, AddShape, TurnAdd
      <4>7. peers' = [peers EXCEPT !["recipient"][b] = q]
        BY <4>2, <4>4, AgentFacts DEF Peers
      <4> HIDE DEF q, b
      <4> QED
        BY <4>4, <4>6, <4>7, TurnOne
    <3> QED
      BY <2>4, <3>1, <3>2, <3>3
  <2>6. Took("recipient") \in Posts
    BY <2>2, TookBack
  <2>7. Sends(Took("recipient"), {})
    BY <2>1, <2>6, SentNone
  <2> QED
    BY <2>2, <2>5, <2>7, TookBack, SaidBack
<1>6. CASE BrowserLogs
  <2>1. mail["recipient"] # <<>> /\ mail' = Took("recipient") /\ peers' = peers
    BY <1>6, PageReadsFacts DEF BrowserLogs, Took
  <2>2. Took("recipient") \in Posts
    BY <2>1, TookBack
  <2>3. Sends(Took("recipient"), {})
    BY <2>1, <2>2, SentNone
  <2> QED
    BY <2>1, <2>3, TurnNone, TookBack, SaidBack
<1>7. ASSUME NEW t \in {"accepted", "progress", "completed", "failed", "answer"}, NEW n \in Nat,
             mail' = ToSender(mail, <<Message(t, n)>>), PeersTurn
      PROVE  RecipientMoves
  <2>1. t \in {t} \cap Types
    BY DEF Types
  <2>2. Speaks(<<Message(t, n)>>, {t})
    BY <2>1, SpeaksFew
  <2>3. Sends(mail, {t})
    BY <1>7, <2>2 DEF Sends
  <2> QED
    BY <1>1, <1>7, <2>3, SaidBack
<1>8. ASSUME NEW handler \in Handlers, prepareBrowserReceive(handler)
      PROVE  RecipientMoves
  <2>1. mail' = ToSender(mail, <<Message("accepted", 0)>>) /\ peers' = peers
    BY <1>8 DEF prepareBrowserReceive
  <2> QED
    BY <1>1, <1>7, <2>1, TurnNone
<1>9. ASSUME NEW a \in Attempts, BrowserAnswer(a)
      PROVE  RecipientMoves
  <2>1. PeersTurn
    BY <1>9, StableTurn DEF BrowserAnswer
  <2>3. a \in Nat
    BY Bounds DEF Attempts
  <2>2. mail' = ToSender(mail, <<Message("answer", a)>>)
    BY <1>9 DEF BrowserAnswer
  <2> QED
    BY <1>7, <2>1, <2>2, <2>3
<1>10. ASSUME NEW a \in Attempts, acceptBrowserChunk(a)
       PROVE  RecipientMoves
  <2> DEFINE frame == Head(net[a].frames)
             size  == Len(states[feeds[a]].chunks) + Len(frame.data)
  <2>1. /\ Queued(a) /\ frame.type = "chunk" /\ peers' = peers
        /\ mail' = ToSender(mail, <<Message("progress", size)>>)
    BY <1>10 DEF acceptBrowserChunk
  <2>2. frame \in Genuine /\ states[feeds[a]] \in State
    BY <2>1, QueuedFacts
  <2>3. frame.data \in Seq(Nat)
    BY <2>1, <2>2, FrameFacts, WireFacts
  <2>4. size \in Nat
    <3> DEFINE state == states[feeds[a]]
    <3>4. size = Len(state.chunks) + Len(frame.data)
      OBVIOUS
    <3> HIDE DEF state, frame, size
    <3>1. state \in State
      BY <2>2 DEF state
    <3>2. state.chunks \in Seq(Nat)
      BY <3>1 DEF State
    <3>3. Len(state.chunks) \in Nat /\ Len(frame.data) \in Nat
      BY <2>3, <3>2
    <3>5. \A x \in Nat, y \in Nat : x + y \in Nat
      OBVIOUS
    <3>6. Len(state.chunks) + Len(frame.data) \in Nat
      BY <3>3, <3>5, Zenon
    <3> QED
      BY <3>4, <3>6, Zenon
  <2> HIDE DEF size
  <2>5. PeersTurn
    BY <2>1, TurnNone
  <2> QED
    BY <1>7, <2>1, <2>4, <2>5
<1>11. ASSUME NEW a \in Attempts, completeBrowserReceive(a) \/ BrowserRefuses(a)
       PROVE  RecipientMoves
  <2>1. PICK t \in {"completed", "failed"} : mail' = ToSender(mail, <<Message(t, 0)>>)
    BY <1>11 DEF completeBrowserReceive, BrowserRefuses
  <2>2. PeersTurn
    BY <1>11, TurnNone DEF completeBrowserReceive, BrowserRefuses
  <2> QED
    BY <1>1, <1>7, <2>1, <2>2
<1> QED
  BY <1>2, <1>3, <1>4, <1>5, <1>6, <1>8, <1>9, <1>10, <1>11 DEF BrowserNext

-----------------------------------------------------------------------------
(* The steps of the sender, likewise.                                      *)

\* The run ends, and closes the session it owns; a verdict closes any.
Ends ==
    /\ run.on /\ run' = [run EXCEPT !.on = FALSE, !.reads = FALSE]
    /\ mail["run"] # <<>> \/ session.att # 0
    /\ mail' = [mail EXCEPT !.run = <<>>]
    /\ UNCHANGED stream
    /\ \/ session' = NoSession /\ peers' = CloseAt(peers, "sender", session.att)
       \/ /\ session.owner # run.no /\ session' = session
          /\ peers' = peers \/ peers' = CloseAt(peers, "sender", session.att)

\* A message is read and no run ends: only the loop answers with an error.
Keeps(box, type) ==
    /\ mail[box] # <<>> /\ Head(mail[box]).type = type /\ (box = "run" => run.on) /\ run' = run
    /\ Writes(Took(box), {"failed"}) /\ (box = "run" => mail' = Took(box))

Ignores(box) ==
    \E type \in Types :
        /\ Keeps(box, type) /\ (type \in {"ice", "accepted"} => sjob'.status \in Terminal)
        /\ UNCHANGED <<session, peers, stream>>

Owner(box) == IF session.owner = 0 THEN Reader(box) ELSE session.owner

Adopts(box) ==
    /\ Keeps(box, "accepted") /\ session.att # 0
    /\ session'.att = session.att /\ session'.owner = Owner(box) /\ session'.pending = session.pending
    /\ UNCHANGED <<peers, stream>>

SenderMakes(box) ==
    \E a \in Attempts, q \in Peer :
        /\ Keeps(box, "accepted") /\ mail' = Took(box) /\ session.att = 0
        /\ peers["sender"][a].state = "none"
        /\ q.state = "making" /\ q.via = Reader(box) /\ q.left = plan.gather
        /\ peers' = [peers EXCEPT !["sender"][a] = q]
        /\ session'.att = a /\ session'.owner = Owner(box)
        /\ UNCHANGED stream

Answered(box) ==
    /\ Keeps(box, "answer") /\ session.att # 0 /\ peers["sender"][session.att].state = "offered"
    /\ peers' = [peers EXCEPT !["sender"][session.att] = flushPendingICE(@, session.att, "stable")]
    /\ \E r : stream' = [stream EXCEPT ![session.att] = r]
    /\ UNCHANGED session

SenderAdds(box) ==
    /\ Keeps(box, "ice") /\ session.att # 0
    /\ peers' = [peers EXCEPT !["sender"][session.att] =
                    AddICECandidate(@, session.att, Head(mail[box]).n)]
    /\ UNCHANGED <<session, stream>>

Saves(box) ==
    /\ Keeps(box, "ice") /\ session.att = 0 /\ session'.att = 0 /\ session'.owner = session.owner
    /\ UNCHANGED <<peers, stream>>

SenderDrops(box) ==
    \E type \in Types \ {"ice", "accepted"} :
        /\ Keeps(box, type)
        /\ session' = NoSession /\ peers' = CloseAt(peers, "sender", session.att)
        /\ UNCHANGED stream

EnvelopeSteps(box) ==
    \/ Ends \/ Ignores(box) \/ Adopts(box) \/ SenderMakes(box) \/ Answered(box)
    \/ SenderAdds(box) \/ Saves(box) \/ SenderDrops(box)

Streams(a) ==
    /\ stream[a].pc \in Active /\ UNCHANGED <<run, peers, session>>
    /\ \E r : stream' = [stream EXCEPT ![a] = r]
    /\ \/ Writes(mail, {"started"})
       \/ Writes(mail, {"retryable"}) /\ peers["sender"][a].state = "closed"

LEMMA SenderReads ==
    ASSUME Shape, Lines, NEW box \in {"run", "loop"}, NEW type, Reads(box, type)
    PROVE  /\ mail[box] # <<>> /\ Head(mail[box]).type = type /\ box \in Boxes
           /\ box = "run" => run.on /\ run.no # 0
           /\ type \in {"ice", "answer"} => Head(mail[box]).n \in Attempts
<1>1. mail[box] # <<>> /\ Head(mail[box]).type = type /\ box \in Boxes
  BY DEF Reads, Read, Boxes
<1>2. box = "run" => run.on /\ run.no # 0
  <2>1. run.on \in BOOLEAN
    BY WireFacts
  <2> QED
    BY <2>1 DEF Reads, Lines
<1>3. Head(mail[box]) \in Letter
  BY <1>1, Taken
<1> QED
  BY <1>1, <1>2, <1>3 DEF Letter

\* Where no run ends.
LEMMA HandledKeeps ==
    ASSUME Shape, Lines, NEW box \in {"run", "loop"}, NEW type, Reads(box, type),
           NEW j \in Job, NEW t, NEW s, NEW p, NEW err \in BOOLEAN, NEW verdict,
           Handled(box, j, t, s, p, err, verdict),
           ~(box = "run" /\ (err \/ verdict # "none"))
    PROVE  /\ Keeps(box, type) /\ session' = s /\ peers' = p
           /\ ~err => mail' = Took(box)
           /\ err \/ j.status \in Terminal => sjob'.status \in Terminal
<1>1. /\ mail[box] # <<>> /\ Head(mail[box]).type = type /\ box \in Boxes /\ (box = "run" => run.on)
  BY SenderReads
<1>2. /\ sjob' = IF err THEN [j EXCEPT !.status = failTransferJob(@)] ELSE j
      /\ session' = s /\ peers' = p /\ run' = run
      /\ mail' = IF err THEN ToRecipient(Took(box), <<Message("failed", 0)>>) ELSE Took(box)
  BY DEF Handled, Took
<1>3. Took(box) \in Posts
  BY <1>1, Taken
<1>4. Speaks(<<Message("failed", 0)>>, {"failed"})
  <2>1. "failed" \in {"failed"} \cap Types /\ 0 \in Nat
    BY DEF Types
  <2> QED
    BY <2>1, SpeaksFew
<1>5. Writes(Took(box), {"failed"})
  BY <1>2, <1>3, <1>4, SentNone DEF Writes
<1>6. err \/ j.status \in Terminal => sjob'.status \in Terminal
  BY <1>2 DEF Job, failTransferJob, Terminal
<1> QED
  BY <1>1, <1>2, <1>5, <1>6 DEF Keeps

\* Where a run ends.
LEMMA HandledEnds ==
    ASSUME Shape, Lines, NEW type, Reads("run", type),
           NEW j, NEW t, NEW s, NEW p, NEW err \in BOOLEAN, NEW verdict,
           Handled("run", j, t, s, p, err, verdict), err \/ verdict # "none", UNCHANGED stream,
           \/ s = session /\ p = peers
           \/ s = session /\ p = CloseAt(peers, "sender", session.att)
           \/ s = NoSession /\ p = CloseAt(peers, "sender", session.att)
    PROVE  Ends
<1>1. run.on /\ run.no # 0 /\ mail["run"] # <<>>
  BY SenderReads
<1>2. /\ mail' = [mail EXCEPT !.run = <<>>]
      /\ run' = [run EXCEPT !.on = FALSE, !.reads = FALSE]
      /\ session' = IF s.owner = run.no THEN NoSession ELSE s
      /\ peers' = IF s.owner = run.no THEN CloseAt(p, "sender", s.att) ELSE p
  BY DEF Handled, Ended
<1>3. NoSession.owner = 0
  BY DEF NoSession
<1>4. CloseAt(CloseAt(peers, "sender", session.att), "sender", session.att)
        = CloseAt(peers, "sender", session.att)
  <2> DEFINE a == session.att
  <2>1. CASE a = 0
    BY <2>1 DEF CloseAt
  <2>2. CASE a # 0
    <3>1. a \in Attempts /\ peers \in Peers /\ "sender" \in Sides
      BY <2>2, SenderFacts, Bounds DEF Attempts
    <3>2. \A q : Close(Close(q)) = Close(q)
      BY DEF Close, NoPeer
    <3>3. CloseAt(peers, "sender", a) = [peers EXCEPT !["sender"][a] = Close(peers["sender"][a])]
      BY <2>2, <3>1 DEF CloseAt, Peers
    <3> DEFINE c == Close(peers["sender"][a])
    <3>4. Close(c) = c
      BY <3>2
    <3> HIDE DEF c
    <3>5. [[peers EXCEPT !["sender"][a] = c] EXCEPT !["sender"][a] = Close(@)]
             = [peers EXCEPT !["sender"][a] = c]
      BY <3>1, <3>4 DEF Peers
    <3> QED
      BY <2>2, <3>3, <3>5 DEF CloseAt, c
  <2> QED
    BY <2>1, <2>2
<1>5. CASE s = session /\ p = peers
  BY <1>1, <1>2, <1>5 DEF Ends
<1>6. CASE s = session /\ p = CloseAt(peers, "sender", session.att)
  BY <1>1, <1>2, <1>4, <1>6 DEF Ends
<1>7. CASE s = NoSession /\ p = CloseAt(peers, "sender", session.att)
  BY <1>1, <1>2, <1>3, <1>7 DEF Ends
<1> QED
  BY <1>5, <1>6, <1>7

LEMMA PlainHandled ==
    ASSUME Shape, Lines, NEW box \in {"run", "loop"}, NEW type \in Types, Reads(box, type),
           NEW j \in Job, NEW t, NEW err \in BOOLEAN, NEW verdict,
           Handled(box, j, t, session, peers, err, verdict), UNCHANGED stream,
           type \in {"ice", "accepted"} => err \/ j.status \in Terminal
    PROVE  Ends \/ Ignores(box)
<1>1. CASE box = "run" /\ (err \/ verdict # "none")
  BY <1>1, HandledEnds
<1>2. CASE ~(box = "run" /\ (err \/ verdict # "none"))
  <2>1. /\ Keeps(box, type) /\ session' = session /\ peers' = peers
        /\ err \/ j.status \in Terminal => sjob'.status \in Terminal
    BY <1>2, HandledKeeps
  <2> QED
    BY <2>1 DEF Ignores
<1> QED
  BY <1>1, <1>2

LEMMA DropHandled ==
    ASSUME Shape, Lines, NEW box \in {"run", "loop"}, NEW type \in Types \ {"ice", "accepted"},
           Reads(box, type), NEW j \in Job, NEW t, NEW err \in BOOLEAN,
           Handled(box, j, t, NoSession, CloseAt(peers, "sender", session.att), err, "failed"),
           UNCHANGED stream
    PROVE  Ends \/ SenderDrops(box)
<1>1. CASE box = "run"
  BY <1>1, HandledEnds
<1>2. CASE box # "run"
  <2>1. /\ Keeps(box, type) /\ session' = NoSession
        /\ peers' = CloseAt(peers, "sender", session.att)
    BY <1>2, HandledKeeps
  <2> QED
    BY <2>1 DEF SenderDrops
<1> QED
  BY <1>1, <1>2

LEMMA SenderJobs ==
    ASSUME Shape
    PROVE  /\ sjob \in Job
           /\ \A s \in Statuses : [sjob EXCEPT !.status = s] \in Job
           /\ markTransferStarted(sjob.status) \in Statuses /\ failTransferJob(sjob.status) \in Statuses
           /\ markJobRetryableIfMutable(sjob.status) \in Statuses
           /\ {"accepted", "completed"} \subseteq Statuses
<1>1. sjob \in Job /\ sjob.status \in Statuses
  BY SenderFacts
<1>2. \A s \in Statuses : [sjob EXCEPT !.status = s] \in Job
  BY <1>1, JobStatus
<1>3. /\ markTransferStarted(sjob.status) \in Statuses /\ failTransferJob(sjob.status) \in Statuses
      /\ markJobRetryableIfMutable(sjob.status) \in Statuses
  BY <1>1, StatusFacts
<1> QED
  BY <1>1, <1>2, <1>3 DEF Statuses, Terminal

LEMMA AcceptedTable ==
    ASSUME Shape, Lines, Ledger, NEW box \in {"run", "loop"}, handleAccepted(box)
    PROVE  EnvelopeSteps(box)
<1> DEFINE own == [session EXCEPT !.owner = IF @ = 0 THEN Reader(box) ELSE @]
           j   == [sjob EXCEPT !.status = IF @ = "offered" THEN "accepted" ELSE @]
           a   == NextAttempt
<1>1. Reads(box, "accepted") /\ stream' = stream /\ "accepted" \in Types
  BY DEF handleAccepted, Types
<1>2. session \in Session /\ own.att = session.att /\ own.owner = Owner(box)
      /\ own.pending = session.pending
  BY SenderFacts DEF Session, Owner
<1>3. j \in Job
  <2>1. sjob \in Job /\ sjob.status \in Statuses
    BY SenderFacts
  <2>2. (IF sjob.status = "offered" THEN "accepted" ELSE sjob.status) \in Statuses
    BY <2>1 DEF Statuses
  <2>3. j = [sjob EXCEPT !.status = IF sjob.status = "offered" THEN "accepted" ELSE sjob.status]
    BY <2>1 DEF Job
  <2> QED
    BY <2>1, <2>2, <2>3, JobStatus
<1>4. CASE sjob.status \in Terminal
  <2>1. Handled(box, sjob, touched, session, peers, TRUE, "none")
    BY <1>4 DEF handleAccepted
  <2>2. Ends \/ Ignores(box)
    BY <1>1, <2>1, SenderJobs, PlainHandled
  <2> QED
    BY <2>2 DEF EnvelopeSteps
<1>5. CASE sjob.status \notin Terminal /\ session.att # 0
  <2>1. Handled(box, j, touched \/ j # sjob, own, peers, FALSE, "none")
    BY <1>5 DEF handleAccepted
  <2> HIDE DEF j, own
  <2>2. Keeps(box, "accepted") /\ session' = own /\ peers' = peers
    BY <1>1, <1>3, <2>1, HandledKeeps
  <2>3. Adopts(box)
    BY <1>1, <1>2, <1>5, <2>2 DEF Adopts
  <2> QED
    BY <2>3 DEF EnvelopeSteps
<1>6. CASE sjob.status \notin Terminal /\ session.att = 0
  <2> DEFINE s == [own EXCEPT !.att = a, !.pending = <<>>]
             q == NewPeer(session, Reader(box))
             p == [peers EXCEPT !["sender"][a] = q]
  <2>1. a \in Attempts /\ Handled(box, j, touched \/ j # sjob, s, p, FALSE, "none")
    BY <1>6 DEF handleAccepted
  <2>2. peers["sender"][a].state = "none"
    BY <2>1, FirstFree, SenderFacts DEF Ledger, Books
  <2>3. q \in Peer /\ q.state = "making" /\ q.via = Reader(box) /\ q.left = plan.gather
    <3>1. Reader(box) \in 0 .. MaxRuns
      BY <1>1, ReadFacts
    <3>2. session.pending \in Waiting /\ plan.gather \in Nat
      BY <1>2, WireFacts, PlanFacts DEF Session
    <3> QED
      BY <3>1, <3>2, NoPeerShape DEF NewPeer, Peer, NoPeer
  <2>4. s.att = a /\ s.owner = Owner(box)
    <3> HIDE DEF a
    <3> QED
      BY <1>2 DEF Session, Owner
  <2> HIDE DEF j, own, s, p, q, a
  <2>5. Keeps(box, "accepted") /\ session' = s /\ peers' = p /\ mail' = Took(box)
    BY <1>1, <1>3, <2>1, HandledKeeps
  <2>6. SenderMakes(box)
    BY <1>1, <1>6, <2>1, <2>2, <2>3, <2>4, <2>5 DEF SenderMakes, p
  <2> QED
    BY <2>6 DEF EnvelopeSteps
<1> QED
  BY <1>4, <1>5, <1>6

LEMMA AnswerTable ==
    ASSUME Shape, Lines, NEW box \in {"run", "loop"}, handleWebRTCAnswer(box)
    PROVE  EnvelopeSteps(box)
<1> DEFINE a  == session.att
           ok == a # 0 /\ peers["sender"][a].state = "offered"
           p  == [peers EXCEPT !["sender"][a] = flushPendingICE(@, a, "stable")]
           r  == [pc |-> "waiting", via |-> Reader(box), next |-> liveSenderResumeManifest(sjob)]
<1>1. Reads(box, "answer") /\ "answer" \in Types
  BY DEF handleWebRTCAnswer, Types
<1>2. CASE ok
  <2>1. /\ Handled(box, sjob, touched, session, p, FALSE, "none")
        /\ stream' = [stream EXCEPT ![a] = r]
    BY <1>2 DEF handleWebRTCAnswer
  <2> HIDE DEF p, r
  <2>2. Keeps(box, "answer") /\ session' = session /\ peers' = p
    BY <1>1, <2>1, SenderJobs, HandledKeeps
  <2>3. Answered(box)
    BY <1>2, <2>1, <2>2 DEF Answered, p
  <2> QED
    BY <2>3 DEF EnvelopeSteps
<1>3. CASE ~ok
  <2>1. Handled(box, sjob, touched, session, peers, TRUE, "none") /\ stream' = stream
    BY <1>3 DEF handleWebRTCAnswer
  <2>2. Ends \/ Ignores(box)
    BY <1>1, <2>1, SenderJobs, PlainHandled
  <2> QED
    BY <2>2 DEF EnvelopeSteps
<1> QED
  BY <1>2, <1>3

\* A peer that refuses a candidate is closed, or is closed for it.
LEMMA RefusalCloses ==
    ASSUME NEW q \in Peer, TRUE \in AddRefusals(q), NEW a, NEW c
    PROVE  /\ q.state = "closed" => AddICECandidate(q, a, c) = q
           /\ q.state # "closed" => AddICECandidate(q, a, c) = Close(q)
<1>1. CASE Described(q)
  <2>1. AddRefusals(q) = {FALSE}
    BY <1>1, Zenon DEF AddRefusals, Described
  <2> QED
    BY <2>1
<1>2. CASE q.state = "closed"
  BY <1>2 DEF AddICECandidate, Described
<1>3. CASE ~Described(q) /\ q.state # "closed"
  <2>1. AddRefusals(q) = {Full(q.held)} /\ Full(q.held) \in BOOLEAN
    BY <1>3 DEF AddRefusals, Full
  <2>2. Full(q.held)
    BY <2>1
  <2> QED
    BY <1>3, <2>2 DEF AddICECandidate
<1> QED
  BY <1>1, <1>2, <1>3

LEMMA ICETable ==
    ASSUME Shape, Lines, NEW box \in {"run", "loop"}, handleWebRTCICE(box)
    PROVE  EnvelopeSteps(box)
<1> DEFINE a == session.att
           c == Head(mail[box]).n
<1>1. Reads(box, "ice") /\ stream' = stream /\ "ice" \in Types
  BY DEF handleWebRTCICE, Types
<1>2. session \in Session /\ c \in Attempts
  BY <1>1, SenderFacts, SenderReads
<1>3. CASE sjob.status \in Terminal
  <2>1. Handled(box, sjob, touched, session, peers, FALSE, "none")
    BY <1>3 DEF handleWebRTCICE
  <2>2. Ends \/ Ignores(box)
    BY <1>1, <1>3, <2>1, SenderJobs, PlainHandled
  <2> QED
    BY <2>2 DEF EnvelopeSteps
<1>4. CASE sjob.status \notin Terminal /\ a = 0
  <2> DEFINE full == Full(session.pending)
             s    == IF full THEN session ELSE [session EXCEPT !.pending = Append(@, c)]
  <2>1. Handled(box, sjob, touched, s, peers, full, "none")
    BY <1>4 DEF handleWebRTCICE
  <2>2. full \in BOOLEAN
    BY DEF Full
  <2>3. IF full THEN s = session ELSE s.att = session.att /\ s.owner = session.owner
    BY <1>2 DEF Session
  <2> HIDE DEF s, full
  <2>4. CASE full
    <3>1. Handled(box, sjob, touched, session, peers, full, "none")
      BY <2>1, <2>3, <2>4
    <3>2. Ends \/ Ignores(box)
      BY <1>1, <2>2, <2>4, <3>1, SenderJobs, PlainHandled
    <3> QED
      BY <3>2 DEF EnvelopeSteps
  <2>5. CASE ~full
    <3>1. Keeps(box, "ice") /\ session' = s /\ peers' = peers
      BY <1>1, <2>1, <2>2, <2>5, SenderJobs, HandledKeeps
    <3>2. Saves(box)
      BY <1>1, <1>4, <2>3, <2>5, <3>1 DEF Saves
    <3> QED
      BY <3>2 DEF EnvelopeSteps
  <2> QED
    BY <2>4, <2>5
<1>5. CASE sjob.status \notin Terminal /\ a # 0
  <2> DEFINE p == [peers EXCEPT !["sender"][a] = AddICECandidate(@, a, c)]
             q == peers["sender"][a]
  <2>1. PICK refused \in AddRefusals(q) : Handled(box, sjob, touched, session, p, refused, "none")
    BY <1>5 DEF handleWebRTCICE
  <2>2. refused \in BOOLEAN
    BY RefusalsShape
  <2>3. CASE box = "run" /\ refused
    <3>1. a \in Attempts /\ peers \in Peers /\ q \in Peer
      BY <1>2, <1>5, SenderFacts, Bounds DEF Session, Attempts
    <3>2. p = [peers EXCEPT !["sender"][a] = AddICECandidate(q, a, c)]
      BY <3>1 DEF Peers
    <3>3. CloseAt(peers, "sender", a) = [peers EXCEPT !["sender"][a] = Close(q)]
      BY <1>5, <3>1 DEF CloseAt, Peers
    <3>4. TRUE \in AddRefusals(q)
      BY <2>3
    <3>5. /\ q.state = "closed" => AddICECandidate(q, a, c) = q
          /\ q.state # "closed" => AddICECandidate(q, a, c) = Close(q)
      BY <3>1, <3>4, RefusalCloses
    <3>6. [peers EXCEPT !["sender"][a] = q] = peers
      BY <3>1 DEF Peers
    <3> HIDE DEF p, q
    <3>7. p = peers \/ p = CloseAt(peers, "sender", a)
      BY <3>2, <3>3, <3>5, <3>6
    <3>8. Ends
      BY <1>1, <2>1, <2>2, <2>3, <3>7, HandledEnds
    <3> QED
      BY <3>8 DEF EnvelopeSteps
  <2>4. CASE ~(box = "run" /\ refused)
    <3> HIDE DEF p
    <3>1. Keeps(box, "ice") /\ session' = session /\ peers' = p
      BY <1>1, <2>1, <2>2, <2>4, SenderJobs, HandledKeeps
    <3>2. SenderAdds(box)
      BY <1>1, <1>5, <3>1 DEF SenderAdds, p
    <3> QED
      BY <3>2 DEF EnvelopeSteps
  <2> QED
    BY <2>3, <2>4
<1> QED
  BY <1>3, <1>4, <1>5

LEMMA PlainTable ==
    ASSUME Shape, Lines, NEW box \in {"run", "loop"},
           handleStarted(box) \/ handleProgress(box) \/ handleCompleted(box)
    PROVE  EnvelopeSteps(box)
<1>1. ASSUME NEW type \in {"started", "progress", "completed"}, Reads(box, type),
             NEW j \in Job, NEW t, NEW err \in BOOLEAN, NEW verdict,
             Handled(box, j, t, session, peers, err, verdict), UNCHANGED stream
      PROVE  EnvelopeSteps(box)
  <2>1. type \in Types /\ type \notin {"ice", "accepted"}
    BY DEF Types
  <2>2. Ends \/ Ignores(box)
    BY <1>1, <2>1, PlainHandled
  <2> QED
    BY <2>2 DEF EnvelopeSteps
<1>2. sjob \in Job /\ sjob.status \in Statuses
  BY SenderFacts
<1>3. CASE handleStarted(box)
  <2>1. Reads(box, "started") /\ stream' = stream
    BY <1>3, SenderFacts, StartedRead
  <2>2. [sjob EXCEPT !.status = markTransferStarted(@)] \in Job
    BY <1>2 DEF Job, markTransferStarted, Statuses
  <2>3. PICK e \in BOOLEAN, j \in {sjob, [sjob EXCEPT !.status = markTransferStarted(@)]} :
           Handled(box, j, touched \/ j # sjob, session, peers, e, "none")
    BY <1>3, SenderFacts, StartedRead
  <2>4. j \in Job
    BY <1>2, <2>2, <2>3
  <2> QED
    BY <1>1, <2>1, <2>3, <2>4
<1>4. CASE handleProgress(box)
  <2> DEFINE counts == sjob.status \in {"connecting", "transferring"}
             j == IF counts THEN [sjob EXCEPT !.progress = Head(mail[box]).n] ELSE sjob
  <2>1. /\ Reads(box, "progress") /\ stream' = stream
        /\ Handled(box, j, touched \/ counts, session, peers, FALSE, "none")
    BY <1>4 DEF handleProgress
  <2>2. Head(mail[box]).n \in 0 .. plan.size
    <3>1. Head(mail[box]) \in Letter /\ Head(mail[box]).type = "progress"
      BY <2>1, ReadFacts
    <3> QED
      BY <3>1, WireFacts, PlanFacts DEF Letter
  <2>3. j \in Job
    BY <1>2, <2>2 DEF Job
  <2> HIDE DEF j
  <2> QED
    BY <1>1, <2>1, <2>3
<1>5. CASE handleCompleted(box)
  <2> DEFINE ok == completeTransferJob(sjob)
             j  == [sjob EXCEPT !.status = IF ok THEN "completed" ELSE markTransferStarted(@)]
  <2>1. /\ Reads(box, "completed") /\ stream' = stream
        /\ Handled(box, j, touched \/ j # sjob, session, peers, ~ok, "completed")
    BY <1>5 DEF handleCompleted
  <2>2. j \in Job
    <3>1. (IF ok THEN "completed" ELSE markTransferStarted(sjob.status)) \in Statuses
      BY <1>2 DEF markTransferStarted, Statuses, Terminal
    <3>2. j = [sjob EXCEPT !.status = IF ok THEN "completed" ELSE markTransferStarted(sjob.status)]
      BY <1>2 DEF Job
    <3> QED
      BY <1>2, <3>1, <3>2, JobStatus
  <2>3. (~ok) \in BOOLEAN
    OBVIOUS
  <2> HIDE DEF j, ok
  <2> QED
    BY <1>1, <2>1, <2>2, <2>3
<1> QED
  BY <1>3, <1>4, <1>5

LEMMA DropTable ==
    ASSUME Shape, Lines, NEW box \in {"run", "loop"},
           handleTransferRetryable(box) \/ handleFailed(box, "failed") \/ handleFailed(box, "denied")
    PROVE  EnvelopeSteps(box)
<1>1. sjob \in Job /\ sjob.status \in Statuses
  BY SenderFacts
<1>2. CASE handleTransferRetryable(box)
  <2> DEFINE err == sjob.status \in Terminal
             j   == IF err THEN sjob
                    ELSE [status   |-> markJobRetryableIfMutable(sjob.status),
                          progress |-> Head(mail[box]).n]
  <2>1. /\ Reads(box, "retryable") /\ stream' = stream
        /\ Handled(box, j, touched \/ ~err, NoSession, CloseAt(peers, "sender", session.att), err, "failed")
    BY <1>2 DEF handleTransferRetryable
  <2>2. Head(mail[box]).n \in 0 .. plan.size
    <3>1. Head(mail[box]) \in Letter /\ Head(mail[box]).type = "retryable"
      BY <2>1, ReadFacts
    <3> QED
      BY <3>1, WireFacts, PlanFacts DEF Letter
  <2>3. j \in Job
    BY <1>1, <2>2 DEF Job, markJobRetryableIfMutable, Statuses
  <2>4. err \in BOOLEAN /\ "retryable" \in Types \ {"ice", "accepted"}
    BY DEF Types
  <2> HIDE DEF j, err
  <2>5. Ends \/ SenderDrops(box)
    BY <2>1, <2>3, <2>4, DropHandled
  <2> QED
    BY <2>5 DEF EnvelopeSteps
<1>3. ASSUME NEW type \in {"failed", "denied"}, handleFailed(box, type)
      PROVE  EnvelopeSteps(box)
  <2> DEFINE j == [sjob EXCEPT !.status = failTransferJob(@)]
  <2>1. /\ Reads(box, type) /\ stream' = stream
        /\ Handled(box, j, touched \/ j # sjob, NoSession, CloseAt(peers, "sender", session.att), FALSE, "failed")
    BY <1>3 DEF handleFailed
  <2>2. j \in Job
    BY <1>1 DEF Job, failTransferJob, Statuses, Terminal
  <2>3. type \in Types \ {"ice", "accepted"}
    BY DEF Types
  <2> HIDE DEF j
  <2>4. Ends \/ SenderDrops(box)
    BY <2>1, <2>2, <2>3, DropHandled
  <2> QED
    BY <2>4 DEF EnvelopeSteps
<1> QED
  BY <1>2, <1>3

LEMMA EnvelopeTable ==
    ASSUME Shape, Lines, Ledger, NEW box \in {"run", "loop"}, handleEnvelope(box)
    PROVE  EnvelopeSteps(box)
  BY AcceptedTable, AnswerTable, ICETable, PlainTable, DropTable DEF handleEnvelope

LEMMA DoneTable ==
    ASSUME Shape, Lines, RunReadsDone
    PROVE  Ends
<1>1. run.on /\ session.att # 0
  BY WireFacts DEF RunReadsDone, Lines
<1>2. /\ session' = NoSession /\ peers' = CloseAt(peers, "sender", session.att)
      /\ run' = [run EXCEPT !.on = FALSE, !.reads = FALSE]
      /\ mail' = [mail EXCEPT !.run = <<>>] /\ stream' = stream
  BY DEF RunReadsDone, Ended
<1> QED
  BY <1>1, <1>2 DEF Ends

\* What the sender's goroutine says.
LEMMA SayWrites ==
    ASSUME Shape, NEW a, NEW t \in Types, NEW n \in Nat, Say(a, <<Message(t, n)>>)
    PROVE  Writes(mail, {t})
<1>1. mail \in Posts
  BY SameParts
<1>2. Speaks(<<Message(t, n)>>, {t})
  BY SpeaksFew
<1> QED
  BY <1>1, <1>2, SentNone DEF Say, Writes

LEMMA StreamTable ==
    ASSUME Shape, NEW a \in Attempts, SenderStarts(a) \/ SendFrame(a) \/ SenderInterrupted(a)
    PROVE  Streams(a)
<1>1. mail \in Posts /\ 0 \in Nat /\ {"started", "retryable"} \subseteq Types
  BY SameParts DEF Types
<1>2. CASE SenderStarts(a)
  <2>1. /\ stream[a].pc \in Active /\ UNCHANGED <<run, peers, session>>
        /\ \E r : stream' = [stream EXCEPT ![a] = r]
        /\ mail' = mail \/ Say(a, <<Message("started", 0)>>)
    BY <1>2, SenderFacts, SenderStarted DEF Active
  <2>2. Writes(mail, {"started"})
    BY <1>1, <2>1, SentNone, SayWrites
  <2> QED
    BY <2>1, <2>2 DEF Streams
<1>3. CASE SendFrame(a)
  <2>1. /\ stream[a].pc \in Active /\ UNCHANGED <<run, peers, session>> /\ mail' = mail
    BY <1>3 DEF SendFrame, Active
  <2>2. \E r : stream' = [stream EXCEPT ![a] = r]
    <3>1. \/ stream' = [stream EXCEPT ![a].next = @ + 1]
          \/ stream' = [stream EXCEPT ![a] = Returned("done")]
      BY <1>3 DEF SendFrame
    <3>2. stream' = [stream EXCEPT ![a].next = @ + 1]
            => stream' = [stream EXCEPT ![a] = [stream[a] EXCEPT !.next = stream[a].next + 1]]
      BY SenderFacts
    <3> QED
      BY <3>1, <3>2
  <2>3. Writes(mail, {"started"})
    BY <1>1, <2>1, SentNone
  <2> QED
    BY <2>1, <2>2, <2>3 DEF Streams
<1>4. CASE SenderInterrupted(a)
  <2>1. /\ stream[a].pc \in Active /\ UNCHANGED <<run, peers, session>>
        /\ \E r : stream' = [stream EXCEPT ![a] = r]
        /\ peers["sender"][a].state = "closed" /\ Say(a, <<Message("retryable", sjob.progress)>>)
    BY <1>4 DEF SenderInterrupted, Active
  <2>2. sjob.progress \in Nat
    BY SenderFacts, PlanFacts DEF Job
  <2>3. Writes(mail, {"retryable"})
    BY <1>1, <2>1, <2>2, SayWrites
  <2> QED
    BY <2>1, <2>3 DEF Streams
<1> QED
  BY <1>2, <1>3, <1>4

SenderSteps ==
    \/ RunTransfer \/ sendTransferOffer \/ Resume
    \/ \E box \in {"run", "loop"} : EnvelopeSteps(box)
    \/ \E a \in Attempts : SendWebRTCOffer(a) \/ Streams(a)

LEMMA SenderTable ==
    ASSUME Shape, Lines, Ledger, SenderNext \/ Resume
    PROVE  SenderSteps
<1>1. RunReadsDone => EnvelopeSteps("run")
  BY DoneTable DEF EnvelopeSteps
<1> QED
  BY <1>1, EnvelopeTable, StreamTable DEF SenderNext, SenderSteps

-----------------------------------------------------------------------------
(* The sender's peers, in every step but the one that makes a peer.        *)

Fades(q2, q) ==
    /\ (q2.state = "none") <=> (q.state = "none")
    /\ q.state = "closed" => q2.state = "closed"
    /\ Alive(q2) => Alive(q) /\ q2.via = q.via

LEMMA FadeSame ==
    ASSUME NEW q
    PROVE  Fades(q, q)
  BY DEF Fades

LEMMA FadeClose ==
    ASSUME NEW q \in Peer
    PROVE  Fades(Close(q), q) /\ ~Alive(Close(q))
  BY CloseShape DEF Fades, Alive

LEMMA FadeAdd ==
    ASSUME NEW q \in Peer, NEW a, NEW c \in Attempts
    PROVE  /\ Fades(AddICECandidate(q, a, c), q)
           /\ Alive(AddICECandidate(q, a, c)) => AddICECandidate(q, a, c).left = q.left
<1>1. CASE Described(q)
  <2>1. AddICECandidate(q, a, c) = [q EXCEPT !.added = IF c = a THEN q.added + 1 ELSE q.added]
    BY <1>1 DEF AddICECandidate, Described, Peer
  <2> QED
    BY <2>1 DEF Fades, Alive, Peer
<1>2. CASE ~Described(q) /\ q.state = "closed"
  <2>1. AddICECandidate(q, a, c) = q
    BY <1>2 DEF AddICECandidate, Described
  <2> QED
    BY <2>1, FadeSame
<1>3. CASE ~Described(q) /\ q.state # "closed" /\ Full(q.held)
  <2>1. AddICECandidate(q, a, c) = Close(q)
    BY <1>3 DEF AddICECandidate
  <2> QED
    BY <2>1, FadeClose
<1>4. CASE ~Described(q) /\ q.state # "closed" /\ ~Full(q.held)
  <2>1. AddICECandidate(q, a, c) = [q EXCEPT !.held = Append(q.held, c)]
    BY <1>4 DEF AddICECandidate, Peer
  <2> QED
    BY <2>1 DEF Fades, Alive, Peer
<1> QED
  BY <1>1, <1>2, <1>3, <1>4

LEMMA FadeFlush ==
    ASSUME NEW q \in Peer, NEW a, q.state = "offered"
    PROVE  /\ Fades(flushPendingICE(q, a, "stable"), q)
           /\ flushPendingICE(q, a, "stable").left = q.left
<1>1. flushPendingICE(q, a, "stable")
        = [q EXCEPT !.state = "stable", !.added = q.added + CountOf(a, q.held), !.held = <<>>]
  BY DEF flushPendingICE, Peer
<1> QED
  BY <1>1 DEF Fades, Alive, Peer

\* The sender's peers fade, and those that live have as much to gather as before.
SendersFade ==
    \A a \in Attempts :
        /\ peers'["recipient"][a] = peers["recipient"][a]
        /\ Fades(peers'["sender"][a], peers["sender"][a])
        /\ Alive(peers'["sender"][a]) => peers'["sender"][a].left = peers["sender"][a].left

LEMMA SendersSame ==
    ASSUME peers' = peers
    PROVE  SendersFade
  BY FadeSame DEF SendersFade

LEMMA SenderOne ==
    ASSUME Shape, NEW a \in Attempts, NEW q \in Peer, Fades(q, peers["sender"][a]),
           Alive(q) => q.left = peers["sender"][a].left,
           peers' = [peers EXCEPT !["sender"][a] = q]
    PROVE  SendersFade
<1>1. \A s \in Sides, b \in Attempts :
         peers'[s][b] = IF s = "sender" /\ b = a THEN q ELSE peers[s][b]
  BY SenderFacts, SetPeer
<1> QED
  BY <1>1, FadeSame DEF SendersFade, Sides

LEMMA SenderCloses ==
    ASSUME Shape, NEW a \in 0 .. MaxAttempts, peers' = CloseAt(peers, "sender", a)
    PROVE  /\ SendersFade
           /\ a # 0 => ~Alive(peers'["sender"][a])
<1>1. \A s \in Sides, b \in Attempts :
         peers'[s][b] = IF s = "sender" /\ b = a THEN Close(peers[s][b]) ELSE peers[s][b]
  BY SenderFacts, CloseAtShape
<1>2. \A b \in Attempts : /\ Fades(Close(peers["sender"][b]), peers["sender"][b])
                          /\ ~Alive(Close(peers["sender"][b]))
  BY SenderFacts, FadeClose
<1>3. a # 0 => a \in Attempts
  BY Bounds DEF Attempts
<1> QED
  BY <1>1, <1>2, <1>3, FadeSame DEF SendersFade, Sides

LEMMA EndsFade ==
    ASSUME Shape, Ends
    PROVE  SendersFade
  BY SenderFacts, SendersSame, SenderCloses DEF Ends

\* Nothing but an acceptance makes a peer.
LEMMA EnvelopeFades ==
    ASSUME Shape, NEW box \in {"run", "loop"}, EnvelopeSteps(box), ~SenderMakes(box)
    PROVE  SendersFade
<1>1. session.att \in 0 .. MaxAttempts /\ peers \in Peers
  BY SenderFacts
<1>2. CASE Ends
  BY <1>2, EndsFade
<1>3. CASE Ignores(box) \/ Adopts(box) \/ Saves(box)
  BY <1>3, SendersSame DEF Ignores, Adopts, Saves
<1>4. CASE Answered(box)
  <2> DEFINE a == session.att
             q == flushPendingICE(peers["sender"][a], a, "stable")
  <2>1. a \in Attempts
    BY <1>1, <1>4, Bounds DEF Answered, Attempts
  <2>2. peers["sender"][a] \in Peer /\ peers["sender"][a].state = "offered"
    BY <1>4, <2>1, SenderFacts DEF Answered
  <2>3. peers' = [peers EXCEPT !["sender"][a] = q]
    BY <1>1, <1>4, <2>1 DEF Answered, Peers, Sides
  <2>4. q \in Peer /\ Fades(q, peers["sender"][a]) /\ q.left = peers["sender"][a].left
    BY <2>2, FlushShape, FadeFlush
  <2> HIDE DEF q, a
  <2> QED
    BY <2>1, <2>3, <2>4, SenderOne
<1>5. CASE SenderAdds(box)
  <2> DEFINE a == session.att
             c == Head(mail[box]).n
             q == AddICECandidate(peers["sender"][a], a, c)
  <2>1. a \in Attempts
    BY <1>1, <1>5, Bounds DEF SenderAdds, Attempts
  <2>2. peers["sender"][a] \in Peer /\ c \in Attempts
    <3>1. mail[box] # <<>> /\ Head(mail[box]).type = "ice" /\ box \in Boxes
      BY <1>5 DEF SenderAdds, Keeps, Boxes
    <3> QED
      BY <2>1, <3>1, SenderFacts, Taken DEF Letter
  <2>3. peers' = [peers EXCEPT !["sender"][a] = q]
    BY <1>1, <1>5, <2>1 DEF SenderAdds, Peers, Sides
  <2>4. q \in Peer /\ Fades(q, peers["sender"][a]) /\ (Alive(q) => q.left = peers["sender"][a].left)
    BY <2>2, AddShape, FadeAdd
  <2> HIDE DEF q, a
  <2> QED
    BY <2>1, <2>3, <2>4, SenderOne
<1>6. CASE SenderDrops(box)
  BY <1>1, <1>6, SenderCloses DEF SenderDrops
<1> QED
  BY <1>2, <1>3, <1>4, <1>5, <1>6 DEF EnvelopeSteps

\* The offer goes out.
LEMMA OfferFades ==
    ASSUME Shape, NEW a \in Attempts, SendWebRTCOffer(a)
    PROVE  SendersFade
<1> DEFINE q == [peers["sender"][a] EXCEPT !.state = "offered"]
<1>1. peers \in Peers /\ peers["sender"][a] \in Peer /\ peers["sender"][a].state = "making"
  BY SenderFacts DEF SendWebRTCOffer
<1>2. peers' = [peers EXCEPT !["sender"][a] = q]
  BY <1>1 DEF SendWebRTCOffer, Peers
<1>3. q \in Peer /\ Fades(q, peers["sender"][a]) /\ q.left = peers["sender"][a].left
  BY <1>1 DEF Peer, Fades, Alive
<1> HIDE DEF q
<1> QED
  BY <1>2, <1>3, SenderOne

LEMMA SenderFades ==
    ASSUME Shape, SenderSteps, ~\E box \in {"run", "loop"} : SenderMakes(box)
    PROVE  SendersFade
<1>1. CASE RunTransfer \/ sendTransferOffer \/ Resume
  BY <1>1, SendersSame DEF RunTransfer, sendTransferOffer, Resume, handleResumeTransfer
<1>2. ASSUME NEW a \in Attempts, Streams(a)
      PROVE  SendersFade
  BY <1>2, SendersSame DEF Streams
<1> QED
  BY <1>1, <1>2, EnvelopeFades, OfferFades DEF SenderSteps

\* The sender leaves the recipient's peers alone.
LEMMA RecipientsStay ==
    ASSUME Shape, SenderSteps
    PROVE  \A a \in Attempts : peers'["recipient"][a] = peers["recipient"][a]
<1>1. CASE \E box \in {"run", "loop"} : SenderMakes(box)
  <2>1. PICK a \in Attempts, q \in Peer : peers' = [peers EXCEPT !["sender"][a] = q]
    BY <1>1 DEF SenderMakes
  <2>2. \A s \in Sides, b \in Attempts :
           peers'[s][b] = IF s = "sender" /\ b = a THEN q ELSE peers[s][b]
    BY <2>1, SenderFacts, SetPeer
  <2> QED
    BY <2>2 DEF Sides
<1> QED
  BY <1>1, SenderFades DEF SendersFade

-----------------------------------------------------------------------------
(* Whose the session is.                                                   *)

\* The same session, and no new peer.
LEMMA OwnedStays ==
    ASSUME Shape, OwnedBy(run, session, peers),
           \A a \in Attempts : Fades(peers'["sender"][a], peers["sender"][a]),
           session' = session, run' = run
    PROVE  OwnedBy(run', session', peers')
<1>1. session.att # 0 => session.att \in Attempts
  BY SenderFacts, Bounds DEF Attempts
<1> QED
  BY <1>1 DEF OwnedBy, Fades

\* The session is closed, and its peer with it.
LEMMA OwnedNone ==
    ASSUME Shape, OwnedBy(run, session, peers),
           session' = NoSession, peers' = CloseAt(peers, "sender", session.att)
    PROVE  OwnedBy(run', session', peers')
<1>1. session.att \in 0 .. MaxAttempts
  BY SenderFacts
<1>2. SendersFade /\ (session.att # 0 => ~Alive(peers'["sender"][session.att]))
  BY <1>1, SenderCloses
<1>3. \A a \in Attempts : Alive(peers'["sender"][a]) => session.att = a /\ a # 0
  BY <1>2, Bounds DEF SendersFade, Fades, OwnedBy, Attempts
<1>4. \A a \in Attempts : ~Alive(peers'["sender"][a])
  BY <1>2, <1>3
<1> QED
  BY <1>4 DEF OwnedBy, NoSession

\* The run ends: a session it leaves open has no owner.
LEMMA OwnedEnds ==
    ASSUME Shape, OwnedBy(run, session, peers), Ends
    PROVE  OwnedBy(run', session', peers')
<1>1. CASE session' = NoSession /\ peers' = CloseAt(peers, "sender", session.att)
  BY <1>1, OwnedNone
<1>2. CASE session.owner # run.no /\ session' = session
  <2>1. session.owner = 0
    BY <1>2 DEF OwnedBy
  <2>2. SendersFade
    BY EndsFade
  <2>3. session.att # 0 => session.att \in Attempts
    BY SenderFacts, Bounds DEF Attempts
  <2>4. ~run'.on
    BY WireFacts DEF Ends
  <2> QED
    BY <1>2, <2>1, <2>2, <2>3, <2>4 DEF OwnedBy, SendersFade, Fades
<1> QED
  BY <1>1, <1>2 DEF Ends

\* The reader of a box that is not empty.
LEMMA ReaderOf ==
    ASSUME Shape, Lines, NEW box \in {"run", "loop"}, mail[box] # <<>>
    PROVE  /\ box = "run" => run.on /\ run.no # 0 /\ Reader(box) = run.no
           /\ box = "loop" => ~run.on /\ Reader(box) = 0
  BY WireFacts DEF Lines, Reader

LEMMA OwnedAdopts ==
    ASSUME Shape, Lines, OwnedBy(run, session, peers), NEW box \in {"run", "loop"}, Adopts(box)
    PROVE  OwnedBy(run', session', peers')
<1>1. /\ mail[box] # <<>> /\ run' = run /\ session.att # 0 /\ session'.att = session.att
      /\ session'.owner = Owner(box) /\ peers' = peers
  BY DEF Adopts, Keeps
<1>2. /\ box = "run" => run.on /\ run.no # 0 /\ Reader(box) = run.no
      /\ box = "loop" => ~run.on /\ Reader(box) = 0
  BY <1>1, ReaderOf
<1>3. session.owner # 0 => session'.owner = session.owner
  BY <1>1 DEF Owner
<1>4. session.owner = 0 => session'.owner = Reader(box)
  BY <1>1 DEF Owner
<1> QED
  BY <1>1, <1>2, <1>3, <1>4 DEF OwnedBy

LEMMA OwnedMakes ==
    ASSUME Shape, Lines, OwnedBy(run, session, peers), NEW box \in {"run", "loop"}, SenderMakes(box)
    PROVE  OwnedBy(run', session', peers')
<1>1. PICK a \in Attempts, q \in Peer :
         /\ mail[box] # <<>> /\ run' = run /\ session.att = 0
         /\ q.state = "making" /\ q.via = Reader(box)
         /\ peers' = [peers EXCEPT !["sender"][a] = q]
         /\ session'.att = a /\ session'.owner = Owner(box)
  BY DEF SenderMakes, Keeps
<1>2. /\ box = "run" => run.on /\ run.no # 0 /\ Reader(box) = run.no
      /\ box = "loop" => ~run.on /\ Reader(box) = 0
  BY <1>1, ReaderOf
<1>3. session'.owner = Reader(box)
  BY <1>1 DEF Owner, OwnedBy
<1>4. \A b \in Attempts : ~Alive(peers["sender"][b])
  BY <1>1, Bounds DEF OwnedBy, Attempts
<1>5. \A b \in Attempts : peers'["sender"][b] = IF b = a THEN q ELSE peers["sender"][b]
  <2>1. peers \in Peers
    BY SenderFacts
  <2> QED
    BY <1>1, <2>1, SetSender
<1>6. a # 0
  BY Bounds DEF Attempts
<1>7. \A b \in Attempts : Alive(peers'["sender"][b]) => b = a /\ peers'["sender"][b].via = Reader(box)
  BY <1>1, <1>4, <1>5
<1>8. peers'["sender"][a].state # "none"
  BY <1>1, <1>5
<1> QED
  BY <1>1, <1>2, <1>3, <1>6, <1>7, <1>8 DEF OwnedBy

\* Candidates that wait for a peer.
LEMMA OwnedSaves ==
    ASSUME Shape, OwnedBy(run, session, peers), NEW box \in {"run", "loop"}, Saves(box)
    PROVE  OwnedBy(run', session', peers')
<1>1. /\ session.att = 0 /\ session'.att = 0 /\ session'.owner = session.owner
      /\ peers' = peers /\ run' = run
  BY DEF Saves, Keeps
<1> QED
  BY <1>1 DEF OwnedBy

LEMMA OwnedSender ==
    ASSUME Shape, Lines, OwnedBy(run, session, peers), Unheard => Silent, SenderSteps
    PROVE  OwnedBy(run', session', peers')
<1>1. CASE RunTransfer
  <2>1. run.no = 0 /\ peers' = peers /\ session' = session
    BY <1>1 DEF RunTransfer, senderVars
  <2>2. Silent
    BY <2>1 DEF Unheard
  <2>3. \A a \in Attempts : peers["sender"][a].state = "none"
    BY <2>2 DEF Silent, Sides
  <2>4. session.att = 0
    BY <2>3, SenderFacts, Bounds DEF OwnedBy, Attempts
  <2> QED
    BY <2>1, <2>3, <2>4 DEF OwnedBy, Alive
<1>2. CASE Resume
  <2>1. ~run.on /\ peers' = peers /\ session' = session /\ run'.no = run.no + 1 /\ run.no \in 1 .. MaxRuns - 1
    BY <1>2 DEF Resume, handleResumeTransfer
  <2>2. session.owner = 0
    BY <2>1 DEF OwnedBy
  <2>3. ~(run'.no <= 1)
    BY <2>1, Bounds
  <2> QED
    BY <2>1, <2>2, <2>3 DEF OwnedBy
<1>3. CASE sendTransferOffer
  <2>1. peers' = peers /\ session' = session /\ run'.no = run.no /\ run'.on = run.on
    BY <1>3, WireFacts DEF sendTransferOffer, senderVars
  <2> QED
    BY <2>1 DEF OwnedBy
<1>4. ASSUME NEW box \in {"run", "loop"}, EnvelopeSteps(box)
      PROVE  OwnedBy(run', session', peers')
  <2>1. CASE Ends
    BY <2>1, OwnedEnds
  <2>2. CASE Ignores(box) \/ Answered(box) \/ SenderAdds(box)
    <3>1. run' = run /\ session' = session
      BY <2>2 DEF Ignores, Answered, SenderAdds, Keeps
    <3>2. SendersFade
      <4>1. CASE SenderMakes(box)
        <5>1. session.att = 0 /\ session'.att # 0
          BY <4>1, Bounds DEF SenderMakes, Attempts
        <5> QED
          BY <3>1, <5>1
      <4> QED
        BY <1>4, <4>1, EnvelopeFades
    <3> QED
      BY <3>1, <3>2, OwnedStays DEF SendersFade
  <2>3. CASE Adopts(box)
    BY <2>3, OwnedAdopts
  <2>4. CASE SenderMakes(box)
    BY <2>4, OwnedMakes
  <2>5. CASE Saves(box)
    BY <2>5, OwnedSaves
  <2>6. CASE SenderDrops(box)
    BY <2>6, OwnedNone DEF SenderDrops
  <2> QED
    BY <1>4, <2>1, <2>2, <2>3, <2>4, <2>5, <2>6 DEF EnvelopeSteps
<1>5. ASSUME NEW a \in Attempts, SendWebRTCOffer(a)
      PROVE  OwnedBy(run', session', peers')
  <2>1. run' = run /\ session' = session
    BY <1>5 DEF SendWebRTCOffer, senderVars
  <2>2. SendersFade
    BY <1>5, OfferFades
  <2> QED
    BY <2>1, <2>2, OwnedStays DEF SendersFade
<1>6. ASSUME NEW a \in Attempts, Streams(a)
      PROVE  OwnedBy(run', session', peers')
  <2>1. run' = run /\ session' = session /\ peers' = peers
    BY <1>6 DEF Streams
  <2> QED
    BY <2>1 DEF OwnedBy
<1> QED
  BY <1>1, <1>2, <1>3, <1>4, <1>5, <1>6 DEF SenderSteps

-----------------------------------------------------------------------------
(* The wire.                                                               *)

LEMMA GatherTable ==
    ASSUME Shape, NEW side \in Sides, NEW a \in Attempts, Gather(side, a)
    PROVE  /\ Alive(peers[side][a]) /\ UNCHANGED <<plan, online, run>>
           /\ peers[side][a].left > 0
           /\ \A s \in Sides, b \in Attempts :
                 peers'[s][b] = IF s = side /\ b = a THEN [peers[s][b] EXCEPT !.left = @ - 1] ELSE peers[s][b]
           /\ side = "sender" => Writes(mail, {"ice"})
           /\ side = "recipient" => Sends(mail, {"ice"})
<1>1. mail \in Posts /\ peers \in Peers /\ peers[side][a] \in Peer
  BY SameParts, SenderFacts DEF Peers
<1>2. /\ Alive(peers[side][a]) /\ UNCHANGED <<plan, online, run>> /\ peers[side][a].left > 0
      /\ peers' = [peers EXCEPT ![side][a].left = @ - 1]
      /\ mail' = IF CanSend(peers[side][a].via) THEN Deliver(mail, side, <<Message("ice", a)>>) ELSE mail
  BY DEF Gather, Alive
<1>3. \A s \in Sides, b \in Attempts :
         peers'[s][b] = IF s = side /\ b = a THEN [peers[s][b] EXCEPT !.left = @ - 1] ELSE peers[s][b]
  BY <1>1, <1>2 DEF Peers
<1>4. Speaks(<<Message("ice", a)>>, {"ice"})
  <2>1. a \in Nat /\ "ice" \in {"ice"} \cap Types
    BY Bounds DEF Attempts, Types
  <2> QED
    BY <2>1, SpeaksFew
<1>5. CASE mail' = mail
  BY <1>1, <1>2, <1>3, <1>5, SentNone
<1>6. CASE mail' = Deliver(mail, side, <<Message("ice", a)>>)
  BY <1>2, <1>3, <1>4, <1>6 DEF Deliver, Writes, Sends
<1> QED
  BY <1>2, <1>5, <1>6

LEMMA ClosesTable ==
    ASSUME Shape, NEW side \in Sides, NEW a \in Attempts, PeerCloses(side, a)
    PROVE  /\ peers[side][a].state = "stable" /\ UNCHANGED <<plan, online, run, mail, net>>
           /\ \A s \in Sides, b \in Attempts :
                 peers'[s][b] = IF s = side /\ b = a THEN Close(peers[s][b]) ELSE peers[s][b]
<1>1. peers \in Peers /\ a \in 0 .. MaxAttempts
  BY SenderFacts, Bounds DEF Attempts
<1>2. /\ peers[side][a].state = "stable" /\ UNCHANGED <<plan, online, run, mail, net>>
      /\ peers' = CloseAt(peers, side, a)
  BY DEF PeerCloses
<1> QED
  BY <1>1, <1>2, CloseAtShape

\* What every step of the wire does to the peers and the mail.
WireMoves ==
    /\ UNCHANGED <<plan, online, run>>
    /\ \A a \in Attempts : Fades(peers'["sender"][a], peers["sender"][a])
    /\ Answerers(peers')
    /\ run.on => mail'["loop"] = mail["loop"]
    /\ ~run.on => mail'["run"] = mail["run"]

LEMMA WireTable ==
    ASSUME Shape, Answerers(peers), WireNext
    PROVE  WireMoves
<1>1. mail \in Posts /\ Sides = {"sender", "recipient"}
  BY SameParts DEF Sides
<1>2. \A a \in Attempts : peers["sender"][a] \in Peer /\ peers["recipient"][a] \in Peer
  BY SenderFacts, AgentFacts
<1>3. ASSUME NEW side \in Sides, NEW a \in Attempts, Gather(side, a)
      PROVE  WireMoves
  <2>1. /\ UNCHANGED <<plan, online, run>>
        /\ \A s \in Sides, b \in Attempts :
              peers'[s][b] = IF s = side /\ b = a THEN [peers[s][b] EXCEPT !.left = @ - 1] ELSE peers[s][b]
        /\ side = "sender" => Writes(mail, {"ice"})
        /\ side = "recipient" => Sends(mail, {"ice"})
    BY <1>3, GatherTable
  <2>2. \A q \in Peer : /\ Fades([q EXCEPT !.left = @ - 1], q)
                        /\ Answerer(q) => Answerer([q EXCEPT !.left = @ - 1])
    BY DEF Peer, Fades, Alive, Answerer
  <2>3. \A b \in Attempts : Fades(peers'["sender"][b], peers["sender"][b])
    BY <1>1, <1>2, <2>1, <2>2, FadeSame
  <2>4. Answerers(peers')
    BY <1>1, <1>2, <2>1, <2>2 DEF Answerers
  <2>5. (run.on => mail'["loop"] = mail["loop"]) /\ (~run.on => mail'["run"] = mail["run"])
    BY <1>1, <2>1, Sent, Written
  <2> QED
    BY <2>1, <2>3, <2>4, <2>5 DEF WireMoves
<1>4. ASSUME NEW side \in Sides, NEW a \in Attempts, PeerCloses(side, a)
      PROVE  WireMoves
  <2>1. /\ UNCHANGED <<plan, online, run, mail>>
        /\ \A s \in Sides, b \in Attempts :
              peers'[s][b] = IF s = side /\ b = a THEN Close(peers[s][b]) ELSE peers[s][b]
    BY <1>4, ClosesTable
  <2>2. \A b \in Attempts : Fades(peers'["sender"][b], peers["sender"][b])
    BY <1>1, <1>2, <2>1, FadeClose, FadeSame
  <2>3. \A b \in Attempts : Answerer(peers'["recipient"][b])
    <3>1. \A q \in Peer : Answerer(q) => Answerer(Close(q))
      BY TurnClose DEF Turns
    <3> QED
      BY <1>1, <1>2, <2>1, <3>1 DEF Answerers
  <2> QED
    BY <2>1, <2>2, <2>3 DEF WireMoves, Answerers
<1>5. ASSUME NEW a \in Attempts, OpenChannel(a) \/ Cut(a)
      PROVE  WireMoves
  <2>1. UNCHANGED <<plan, online, run, mail, peers>>
    BY <1>5 DEF OpenChannel, Cut
  <2> QED
    BY <2>1, FadeSame DEF WireMoves, Answerers
<1> QED
  BY <1>3, <1>4, <1>5 DEF WireNext

-----------------------------------------------------------------------------
(* Order is kept.                                                          *)

LEMMA AgentStays ==
    ASSUME AgentNext
    PROVE  UNCHANGED <<plan, online, run>>
  BY DEF AgentNext, handleTransferOffer, handleWebRTCOffer, AgentICE, AgentStarted, AgentRetryable,
     AgentFailed, SendAnswer, ReceiverStarts, ReceiverNeverOpens, ReceiverRefuses, AcceptChunk,
     AcceptManifest, ReceiverInterrupted

LEMMA BrowserStays ==
    ASSUME BrowserNext
    PROVE  UNCHANGED <<plan, run>> /\ (online' = online \/ (online' = TRUE /\ run.no > 0))
<1>1. connectReceiver => UNCHANGED <<plan, run>> /\ online' = TRUE /\ run.no > 0
  BY DEF connectReceiver
<1>2. BrowserOffer \/ acceptWebRTCOffer \/ BrowserICE \/ BrowserLogs => UNCHANGED <<plan, run, online>>
  BY DEF BrowserOffer, acceptWebRTCOffer, BrowserICE, BrowserLogs
<1>3. ASSUME NEW handler \in Handlers, prepareBrowserReceive(handler)
      PROVE  UNCHANGED <<plan, run, online>>
  BY <1>3 DEF prepareBrowserReceive
<1>4. ASSUME NEW a \in Attempts,
             BrowserAnswer(a) \/ acceptBrowserChunk(a) \/ completeBrowserReceive(a) \/ BrowserRefuses(a)
      PROVE  UNCHANGED <<plan, run, online>>
  BY <1>4 DEF BrowserAnswer, acceptBrowserChunk, completeBrowserReceive, BrowserRefuses
<1> QED
  BY <1>1, <1>2, <1>3, <1>4 DEF BrowserNext

\* The sender's messages go to the socket that is open.
LEMMA LinesSender ==
    ASSUME Shape, Lines, Unheard => Silent, SenderSteps
    PROVE  Lines'
<1>1. mail \in Posts /\ run.on \in BOOLEAN /\ run.no \in Nat
  BY SameParts, WireFacts
<1>2. CASE RunTransfer
  <2>1. run.no = 0 /\ mail' = mail /\ run' = [no |-> 1, on |-> TRUE, reads |-> FALSE]
    BY <1>2 DEF RunTransfer
  <2>2. mail["loop"] = <<>>
    BY <2>1 DEF Unheard, Silent, Boxes
  <2> QED
    BY <2>1, <2>2 DEF Lines
<1>3. CASE Resume
  <2>1. mail' = mail /\ run' = [no |-> run.no + 1, on |-> TRUE, reads |-> FALSE]
    BY <1>3 DEF Resume, handleResumeTransfer
  <2>2. mail["loop"] = <<>>
    BY <1>1, <1>3 DEF Resume, Calm, Posts, Boxes
  <2> QED
    BY <1>1, <2>1, <2>2 DEF Lines
<1>4. CASE sendTransferOffer
  <2>1. run.on /\ run'.on = run.on /\ run'.no = run.no /\ mail' = ToRecipient(mail, <<Message("offer", 0)>>)
    BY <1>4, WireFacts DEF sendTransferOffer
  <2>2. <<Message("offer", 0)>> \in Seq(Post)
    BY DEF Message, Post, Types
  <2>3. mail'["loop"] = mail["loop"]
    BY <1>1, <2>1, <2>2, ToRecipientBoxes
  <2> QED
    BY <2>1, <2>3 DEF Lines
<1>5. ASSUME NEW box \in {"run", "loop"}, EnvelopeSteps(box)
      PROVE  Lines'
  <2>1. CASE Ends
    <3>1. /\ run.on /\ run'.on = FALSE /\ run'.reads = FALSE
          /\ mail'["run"] = <<>> /\ mail'["loop"] = mail["loop"]
      BY <1>1, <2>1, WireFacts DEF Ends, Posts, Boxes
    <3> QED
      BY <3>1 DEF Lines
  <2>2. CASE ~Ends
    <3>1. PICK type : Keeps(box, type)
      BY <1>5, <2>2 DEF EnvelopeSteps, Ignores, Adopts, SenderMakes, Answered, SenderAdds, Saves, SenderDrops
    <3>2. mail[box] # <<>> /\ run' = run /\ Writes(Took(box), {"failed"}) /\ box \in Boxes
      BY <3>1 DEF Keeps, Boxes
    <3>3. Took(box) \in Posts /\ \A b \in Boxes : Took(box)[b] = IF b = box THEN Tail(mail[b]) ELSE mail[b]
      BY <3>2, Taken
    <3>4. mail'["run"] = Took(box)["run"] /\ mail'["loop"] = Took(box)["loop"]
      BY <3>2, <3>3, Written
    <3>5. box = "run" => mail'["loop"] = mail["loop"] /\ run.on
      BY <3>2, <3>3, <3>4, ReaderOf DEF Boxes
    <3>6. box = "loop" => mail'["run"] = mail["run"] /\ ~run.on
      BY <3>2, <3>3, <3>4, ReaderOf DEF Boxes
    <3> QED
      BY <3>2, <3>5, <3>6 DEF Lines
  <2> QED
    BY <2>1, <2>2
<1>6. ASSUME NEW a \in Attempts, SendWebRTCOffer(a)
      PROVE  Lines'
  <2>1. run' = run /\ mail' = ToRecipient(mail, <<Message("webrtc_offer", a)>>)
    BY <1>6 DEF SendWebRTCOffer
  <2>2. <<Message("webrtc_offer", a)>> \in Seq(Post)
    BY Bounds DEF Message, Post, Types, Attempts
  <2> QED
    BY <1>1, <2>1, <2>2, ToRecipientBoxes DEF Lines
<1>7. ASSUME NEW a \in Attempts, Streams(a)
      PROVE  Lines'
  <2>1. run' = run /\ (Writes(mail, {"started"}) \/ Writes(mail, {"retryable"}))
    BY <1>7 DEF Streams
  <2> QED
    BY <1>1, <2>1, Written DEF Lines
<1> QED
  BY <1>2, <1>3, <1>4, <1>5, <1>6, <1>7 DEF SenderSteps

\* Runs are counted upwards.
LEMMA RunCounts ==
    ASSUME Shape, SenderSteps
    PROVE  run'.no = 0 => run.no = 0
<1>1. run.no \in Nat /\ run \in [no : 0 .. MaxRuns, on : BOOLEAN, reads : BOOLEAN]
  BY WireFacts
<1>2. RunTransfer => run'.no = 1
  BY DEF RunTransfer
<1>3. Resume => run'.no = run.no + 1
  BY DEF Resume, handleResumeTransfer
<1>4. sendTransferOffer => run'.no = run.no
  BY <1>1 DEF sendTransferOffer
<1>5. ASSUME NEW box \in {"run", "loop"}, EnvelopeSteps(box)
      PROVE  run'.no = run.no
  BY <1>1, <1>5 DEF EnvelopeSteps, Ends, Ignores, Adopts, SenderMakes, Answered, SenderAdds, Saves,
     SenderDrops, Keeps
<1>6. ASSUME NEW a \in Attempts, SendWebRTCOffer(a) \/ Streams(a)
      PROVE  run' = run
  BY <1>6 DEF SendWebRTCOffer, Streams
<1> QED
  BY <1>1, <1>2, <1>3, <1>4, <1>5, <1>6 DEF SenderSteps

\* While nobody is heard, nobody speaks.
LEMMA SilenceStep ==
    ASSUME Shape, Ledger, Order, Next, Unheard'
    PROVE  Silent'
<1>1. Unheard
  <2>1. run'.no = 0 => run.no = 0
    <3>1. CASE WireNext
      BY <3>1, WireTable DEF Order, WireMoves
    <3>2. CASE SenderNext \/ Resume
      BY <3>2, SenderTable, RunCounts DEF Order
    <3> QED
      BY <3>1, <3>2, AgentStays, BrowserStays DEF Next
  <2>2. ~online' => ~online
    <3>1. SenderNext => online' = online
      BY DEF SenderNext, RunTransfer, sendTransferOffer, RunReadsDone, handleEnvelope,
           handleAccepted, handleWebRTCAnswer, handleWebRTCICE, handleStarted, handleProgress,
           handleTransferRetryable, handleCompleted, handleFailed, SendWebRTCOffer,
           SenderStarts, SendFrame, SenderInterrupted
    <3>2. Resume => online' = online
      BY DEF Resume, handleResumeTransfer
    <3>3. WireNext => online' = online
      BY WireTable DEF Order, WireMoves
    <3> QED
      BY <3>1, <3>2, <3>3, AgentStays, BrowserStays, WireFacts DEF Next
  <2> QED
    BY <2>1, <2>2 DEF Unheard
<1>2. Silent
  BY <1>1 DEF Order
<1>3. /\ \A box \in Boxes : mail[box] = <<>>
      /\ \A a \in Attempts : /\ peers["sender"][a].state = "none" /\ peers["recipient"][a].state = "none"
                             /\ stream[a].pc = "none" /\ recv[a].pc = "none" /\ net[a].frames = <<>>
      /\ imports = {} /\ Boxes = {"run", "loop", "recipient"} /\ Sides = {"sender", "recipient"}
  BY <1>2 DEF Silent, Boxes, Sides
<1>4. session.att = 0
  BY <1>3, SenderFacts, Bounds DEF Order, OwnedBy, Attempts
<1>5. ~WireNext
  BY <1>3 DEF WireNext, Gather, PeerCloses, OpenChannel, Cut
<1>6. ~AgentNext
  BY <1>3 DEF AgentNext, handleTransferOffer, handleWebRTCOffer, AgentICE, AgentStarted, AgentRetryable,
     AgentFailed, SendAnswer, ReceiverStarts, ReceiverNeverOpens, ReceiverRefuses, AcceptChunk,
     AcceptManifest, ReceiverInterrupted, AgentReads, Read, Incoming
<1>7. ~BrowserNext
  <2>1. ~connectReceiver
    BY WireFacts DEF connectReceiver, Unheard
  <2> QED
    BY <1>3, <2>1 DEF BrowserNext, BrowserOffer, acceptWebRTCOffer, BrowserICE, BrowserLogs,
       prepareBrowserReceive, BrowserAnswer, acceptBrowserChunk, completeBrowserReceive, BrowserRefuses,
       BrowserReads, Read, Queued
<1>8. RunTransfer \/ sendTransferOffer \/ Resume
  <2>1. \A box \in {"run", "loop"} : ~handleEnvelope(box)
    BY <1>3 DEF handleEnvelope, handleAccepted, handleWebRTCAnswer, handleWebRTCICE, handleStarted,
       handleProgress, handleTransferRetryable, handleCompleted, handleFailed, Reads, Read
  <2>2. ~RunReadsDone
    BY <1>4 DEF RunReadsDone
  <2>3. \A a \in Attempts : ~(SendWebRTCOffer(a) \/ SenderStarts(a) \/ SendFrame(a) \/ SenderInterrupted(a))
    BY <1>3 DEF SendWebRTCOffer, SenderStarts, SendFrame, SenderInterrupted
  <2> QED
    BY <1>5, <1>6, <1>7, <2>1, <2>2, <2>3 DEF Next, SenderNext
<1>9. UNCHANGED <<recv, imports>>
  BY <1>5, <1>6, <1>7 DEF Next, agentVars, browserVars
<1>10. UNCHANGED <<peers, stream, net>>
  BY <1>8 DEF RunTransfer, sendTransferOffer, Resume, handleResumeTransfer, senderVars
<1>11. mail' = mail
  <2>1. CASE sendTransferOffer
    <3>1. ~online
      BY <1>1, <2>1 DEF sendTransferOffer, Unheard, Order, Lines
    <3> QED
      BY <2>1, <3>1 DEF sendTransferOffer, ToRecipient
  <2> QED
    BY <1>8, <2>1 DEF RunTransfer, Resume, handleResumeTransfer
<1> QED
  BY <1>2, <1>9, <1>10, <1>11 DEF Silent

\* Lines, sessions and peers stay as they should.
LEMMA OrderStep ==
    ASSUME Shape, Ledger, Order, [Next]_vars
    PROVE  Order'
<1>1. CASE UNCHANGED vars
  <2>1. UNCHANGED <<plan, online, run, mail, peers, net, session, stream, recv, imports>>
    BY <1>1 DEF vars, wire, senderVars, agentVars, browserVars
  <2> QED
    BY <2>1 DEF Order, Lines, Unheard, Silent, OwnedBy, Answerers
<1>2. CASE WireNext /\ UNCHANGED <<senderVars, agentVars, browserVars>>
  <2>1. WireMoves /\ session' = session
    BY <1>2, WireTable DEF Order, senderVars
  <2>2. Lines'
    BY <2>1, WireFacts DEF Order, Lines, WireMoves
  <2>3. OwnedBy(run', session', peers')
    BY <2>1, OwnedStays DEF Order, WireMoves
  <2>4. Unheard' => Silent'
    BY <1>2, SilenceStep DEF Next
  <2> QED
    BY <2>1, <2>2, <2>3, <2>4 DEF Order, WireMoves
<1>3. CASE (SenderNext \/ Resume) /\ UNCHANGED <<agentVars, browserVars>>
  <2>1. SenderSteps
    BY <1>3, SenderTable DEF Order
  <2>2. Lines'
    BY <2>1, LinesSender DEF Order
  <2>3. OwnedBy(run', session', peers')
    BY <2>1, OwnedSender DEF Order
  <2>4. Unheard' => Silent'
    BY <1>3, SilenceStep DEF Next
  <2>5. \A a \in Attempts : peers'["recipient"][a] = peers["recipient"][a]
    BY <2>1, RecipientsStay
  <2>6. Answerers(peers')
    BY <2>5 DEF Order, Answerers
  <2> QED
    BY <2>2, <2>3, <2>4, <2>6 DEF Order
<1>4. CASE \/ AgentNext /\ UNCHANGED <<senderVars, browserVars>>
           \/ BrowserNext /\ UNCHANGED <<senderVars, agentVars>>
  <2>1. RecipientMoves
    BY <1>4, AgentTable, AgentIsRecipient, PageIsRecipient DEF Order
  <2>2. run' = run /\ session' = session
    BY <1>4, AgentStays, BrowserStays DEF senderVars
  <2>3. Lines'
    BY <2>1, <2>2, WireFacts DEF Order, Lines, RecipientMoves
  <2>4. \A a \in Attempts : Fades(peers'["sender"][a], peers["sender"][a])
    BY <2>1, FadeSame DEF RecipientMoves, PeersTurn
  <2>5. OwnedBy(run', session', peers')
    BY <2>2, <2>4, OwnedStays DEF Order
  <2>6. Unheard' => Silent'
    BY <1>4, SilenceStep DEF Next
  <2>7. Answerers(peers')
    BY <2>1 DEF RecipientMoves, PeersTurn, Turns, Answerers
  <2> QED
    BY <2>3, <2>5, <2>6, <2>7 DEF Order
<1> QED
  BY <1>1, <1>2, <1>3, <1>4 DEF Next

-----------------------------------------------------------------------------
(* A transfer to an agent: the offer of a run and its acceptance travel    *)
(* alone, and nothing of the attempt before is at work when they do.       *)

Tokens == {"offer", "accepted"}

Opening ==
    \/ run.on /\ ~run.reads
    \/ \E box \in Boxes : \E x \in Said(mail[box]) : x.type \in Tokens

Fresh ==
    /\ run.on /\ session.att = 0 /\ rsession.att = 0
    /\ \A a \in Attempts : stream[a].pc \notin Active /\ recv[a].pc \notin Busy
    /\ mail["loop"] = <<>>
    /\ \/ ~run.reads /\ mail["run"] = <<>> /\ mail["recipient"] = <<>>
       \/ run.reads /\ mail["run"] = <<>> /\ mail["recipient"] = <<Message("offer", 0)>>
       \/ run.reads /\ mail["run"] = <<Message("accepted", 0)>> /\ mail["recipient"] = <<>>

\* A run owns the session it works on; the receiver's is of a goroutine that has not returned.
OneSession ==
    /\ session.att # 0 => run.on /\ session.owner = run.no
    /\ rsession.att # 0 => /\ recv[rsession.att].pc \in Busy
                           /\ peers["recipient"][rsession.att].state # "none"
    /\ \A a \in Attempts :
          /\ Alive(peers["recipient"][a]) => rsession.att = a
          /\ peers["recipient"][a].state = "none" => Got(peers["recipient"][a], a) = 0
    /\ imports = {}

\* Both ends work on the same attempt, and only a sender whose peer is closed gives up.
Matching ==
    session.att # 0 =>
      /\ rsession.att \in {0, session.att}
      /\ \A b \in Attempts : stream[b].pc \in Active => b = session.att
      /\ \A x \in Said(mail["recipient"]) :
           /\ x.type = "webrtc_offer" => x.n = session.att
           /\ x.type \in {"retryable", "failed"} => peers["sender"][session.att].state = "closed"

Calls == plan.kind = "agent" => (Opening => Fresh) /\ OneSession /\ Matching

\* Where no offer or acceptance is added.
Hushed == \A b \in Boxes : \A x \in Said(mail'[b]) : x.type \in Tokens => x \in Said(mail[b])

LEMMA HushSays ==
    ASSUME Shape, NEW m \in Posts, \A b \in Boxes : Said(m[b]) \subseteq Said(mail[b]),
           NEW types, types \cap Tokens = {}, Sends(m, types) \/ Writes(m, types)
    PROVE  Hushed
<1>1. \A b \in Boxes : \A x \in Said(mail'[b]) : x \in Said(m[b]) \/ x.type \in types
  BY Sent, Written
<1> QED
  BY <1>1 DEF Hushed

LEMMA HushReads ==
    ASSUME Shape, NEW box \in Boxes, mail[box] # <<>>,
           NEW types, types \cap Tokens = {}, Sends(Took(box), types) \/ Writes(Took(box), types)
    PROVE  Hushed
<1>1. Took(box) \in Posts /\ \A b \in Boxes : Said(Took(box)[b]) \subseteq Said(mail[b])
  BY Taken
<1> QED
  BY <1>1, HushSays

LEMMA HushWrites ==
    ASSUME Shape, NEW types, types \cap Tokens = {}, Sends(mail, types) \/ Writes(mail, types)
    PROVE  Hushed
<1>1. mail \in Posts
  BY SameParts
<1> QED
  BY <1>1, HushSays

LEMMA StaysShut ==
    ASSUME Hushed, run' = run \/ ~run'.on, ~Opening
    PROVE  ~Opening'
  BY DEF Hushed, Opening

LEMMA HeadOpens ==
    ASSUME Shape, NEW box \in Boxes, mail[box] # <<>>, Head(mail[box]).type \in Tokens
    PROVE  Opening
<1>1. Head(mail[box]) \in Said(mail[box])
  BY Taken
<1> QED
  BY <1>1 DEF Opening

\* A run meets its acceptance with nothing at work.
LEMMA AcceptedOnce ==
    ASSUME Shape, Opening => Fresh, NEW box \in {"run", "loop"}, Keeps(box, "accepted")
    PROVE  /\ box = "run" /\ Fresh /\ run.reads
           /\ mail["run"] = <<Message("accepted", 0)>> /\ mail["recipient"] = <<>>
<1>1. mail[box] # <<>> /\ Head(mail[box]).type = "accepted" /\ box \in Boxes
  BY DEF Keeps, Boxes
<1>2. Fresh
  BY <1>1, HeadOpens DEF Tokens
<1> QED
  BY <1>1, <1>2 DEF Fresh

LEMMA TookOnly ==
    ASSUME Shape, NEW box \in Boxes, NEW x, mail[box] = <<x>>
    PROVE  Took(box)[box] = <<>>
<1>1. mail[box] # <<>>
  OBVIOUS
<1>2. Took(box)[box] = Tail(mail[box])
  BY <1>1, Taken
<1> QED
  BY <1>2

\* While a run opens, the sender makes its offer or reads the acceptance.
LEMMA OpeningSender ==
    ASSUME Shape, Order, Fresh, SenderSteps, UNCHANGED agentVars, Opening'
    PROVE  Fresh'
<1>1. mail \in Posts /\ run \in [no : 0 .. MaxRuns, on : BOOLEAN, reads : BOOLEAN] /\ run.on /\ run.no # 0
  BY SameParts, WireFacts DEF Fresh, Order, Lines
<1>2. ~RunTransfer /\ ~Resume
  BY <1>1 DEF RunTransfer, Resume, handleResumeTransfer
<1>3. CASE sendTransferOffer
  <2>1. /\ ~run.reads /\ mail' = ToRecipient(mail, <<Message("offer", 0)>>)
        /\ run'.on = run.on /\ run'.reads /\ UNCHANGED <<session, stream, rsession, recv>>
    BY <1>1, <1>3 DEF sendTransferOffer, senderVars, agentVars
  <2>2. \A box \in Boxes : mail[box] = <<>>
    BY <2>1 DEF Fresh, Boxes
  <2>3. <<Message("offer", 0)>> \in Seq(Post)
    BY DEF Message, Post, Types
  <2>4. /\ mail'["run"] = <<>> /\ mail'["loop"] = <<>>
        /\ mail'["recipient"] = IF online THEN <<>> \o <<Message("offer", 0)>> ELSE <<>>
    BY <1>1, <2>1, <2>2, <2>3, ToRecipientBoxes DEF Boxes
  <2>5. <<>> \o <<Message("offer", 0)>> = <<Message("offer", 0)>>
    BY <2>3
  <2>6. CASE online
    BY <2>1, <2>4, <2>5, <2>6 DEF Fresh
  <2>7. CASE ~online
    <3>1. \A box \in Boxes : Said(mail'[box]) = {}
      BY <2>4, <2>7, SaidNone DEF Boxes
    <3> QED
      BY <2>1, <3>1 DEF Opening
  <2> QED
    BY <2>6, <2>7
<1>4. ASSUME NEW box \in {"run", "loop"}, EnvelopeSteps(box)
      PROVE  FALSE
  <2>1. CASE Ends
    <3>1. mail["run"] # <<>> /\ mail["recipient"] = <<>> /\ mail["loop"] = <<>>
      BY <2>1 DEF Ends, Fresh
    <3>2. /\ mail'["run"] = <<>> /\ mail'["loop"] = mail["loop"]
          /\ mail'["recipient"] = mail["recipient"] /\ ~run'.on
      BY <1>1, <2>1 DEF Ends, Posts, Boxes
    <3>3. \A b \in Boxes : Said(mail'[b]) = {}
      BY <3>1, <3>2, SaidNone DEF Boxes
    <3> QED
      BY <3>2, <3>3 DEF Opening
  <2>2. CASE ~Ends
    <3>1. PICK type : Keeps(box, type)
      BY <1>4, <2>2 DEF EnvelopeSteps, Ignores, Adopts, SenderMakes, Answered, SenderAdds, Saves, SenderDrops
    <3>2. /\ box = "run" /\ mail["run"] = <<Message("accepted", 0)>> /\ mail["recipient"] = <<>>
          /\ mail["loop"] = <<>> /\ run.reads /\ run' = run /\ mail' = Took("run")
      BY <3>1 DEF Keeps, Fresh
    <3>3. mail["run"] # <<>> /\ "run" \in Boxes
      BY <3>2 DEF Boxes
    <3>4. \A b \in Boxes : mail'[b] = IF b = "run" THEN Tail(mail[b]) ELSE mail[b]
      BY <3>2, <3>3, Taken
    <3>5. mail'["run"] = <<>>
      BY <3>2, <3>3, TookOnly
    <3>6. \A b \in Boxes : Said(mail'[b]) = {}
      BY <3>2, <3>4, <3>5, SaidNone DEF Boxes
    <3> QED
      BY <3>2, <3>6 DEF Opening
  <2> QED
    BY <2>1, <2>2
<1>5. ASSUME NEW a \in Attempts, SendWebRTCOffer(a) \/ Streams(a)
      PROVE  FALSE
  <2>1. ~Alive(peers["sender"][a])
    BY Bounds DEF Fresh, Order, OwnedBy, Attempts
  <2> QED
    BY <1>5, <2>1 DEF SendWebRTCOffer, Streams, Alive, Fresh
<1> QED
  BY <1>2, <1>3, <1>4, <1>5 DEF SenderSteps

\* The agent reads the offer and accepts it.
LEMMA OpeningAgent ==
    ASSUME Shape, OneSession, Fresh, AgentSteps, UNCHANGED senderVars, run' = run, Opening'
    PROVE  Fresh'
<1>1. mail \in Posts /\ run.on
  BY SameParts DEF Fresh
<1>2. CASE AgentOffered
  <2>1. PICK t \in {"accepted", "denied"} : mail' = ToSender(Took("recipient"), <<Message(t, 0)>>)
    BY <1>2 DEF AgentOffered
  <2>2. mail["recipient"] # <<>> /\ "recipient" \in Boxes
    BY <1>2, AgentReadsFacts DEF AgentOffered
  <2>3. run.reads /\ mail["run"] = <<>> /\ mail["loop"] = <<>> /\ mail["recipient"] = <<Message("offer", 0)>>
    BY <2>2 DEF Fresh
  <2>4. /\ Took("recipient") \in Posts /\ Took("recipient")["recipient"] = <<>>
        /\ Took("recipient")["run"] = <<>> /\ Took("recipient")["loop"] = <<>>
    BY <2>2, <2>3, Taken, TookOnly DEF Boxes
  <2>5. <<Message(t, 0)>> \in Seq(Post)
    BY DEF Message, Post, Types
  <2>6. /\ mail'["run"] = <<>> \o <<Message(t, 0)>> /\ mail'["loop"] = <<>> /\ mail'["recipient"] = <<>>
    BY <1>1, <2>1, <2>4, <2>5, ToSenderBoxes
  <2>7. mail'["run"] = <<Message(t, 0)>>
    BY <2>5, <2>6
  <2>8. UNCHANGED <<session, stream, rsession, recv, run>>
    BY <1>2 DEF AgentOffered, senderVars
  <2>9. CASE t = "accepted"
    BY <2>3, <2>6, <2>7, <2>8, <2>9 DEF Fresh
  <2>10. CASE t = "denied"
    <3>1. Said(mail'["run"]) = {Message("denied", 0)} /\ Said(mail'["loop"]) = {} /\ Said(mail'["recipient"]) = {}
      BY <2>6, <2>7, <2>10, SaidNone, SaidOne
    <3>2. Message("denied", 0).type \notin Tokens
      BY DEF Message, Tokens
    <3> QED
      BY <2>3, <2>8, <3>1, <3>2 DEF Opening, Boxes
  <2> QED
    BY <2>9, <2>10
<1>3. CASE AgentTold \/ AgentAdds \/ AgentMakes \/ AgentDrops
  <2>1. PICK type \in {"webrtc_offer", "ice", "started", "retryable", "failed"} : AgentReads(type)
    BY <1>3 DEF AgentTold, AgentAdds, AgentMakes, AgentDrops
  <2>2. mail["recipient"] # <<>> /\ Head(mail["recipient"]).type = type
    BY <2>1, AgentReadsFacts
  <2>3. mail["recipient"] = <<Message("offer", 0)>>
    BY <2>2 DEF Fresh
  <2>4. Head(mail["recipient"]).type = "offer"
    BY <2>3 DEF Message
  <2> QED
    BY <2>2, <2>4
<1>4. ASSUME NEW a \in Attempts, AgentAnswers(a) \/ ReceiverGoes(a) \/ ReceiverStops(a)
      PROVE  FALSE
  BY <1>4 DEF AgentAnswers, ReceiverGoes, ReceiverStops, Fresh, Busy
<1> QED
  BY <1>2, <1>3, <1>4 DEF AgentSteps

LEMMA OpeningWire ==
    ASSUME Shape, Order, OneSession, Fresh, WireNext, UNCHANGED <<senderVars, agentVars>>
    PROVE  Fresh'
<1>1. \A a \in Attempts : ~Alive(peers["sender"][a]) /\ ~Alive(peers["recipient"][a])
  BY Bounds DEF Fresh, Order, OwnedBy, OneSession, Attempts
<1>2. ASSUME NEW side \in Sides, NEW a \in Attempts, Gather(side, a) \/ PeerCloses(side, a)
      PROVE  FALSE
  BY <1>1, <1>2 DEF Gather, PeerCloses, Alive, Sides
<1>3. ASSUME NEW a \in Attempts, OpenChannel(a) \/ Cut(a)
      PROVE  Fresh'
  <2>1. UNCHANGED <<run, mail, session, rsession, stream, recv>>
    BY <1>3 DEF OpenChannel, Cut, senderVars, agentVars
  <2> QED
    BY <2>1 DEF Fresh
<1> QED
  BY <1>2, <1>3 DEF WireNext

\* Only a run that starts opens anything, and it finds everything at rest.
LEMMA OpensSender ==
    ASSUME Shape, Order, OneSession, ~Opening, SenderSteps, UNCHANGED agentVars, Opening'
    PROVE  Fresh'
<1>1. mail \in Posts /\ run \in [no : 0 .. MaxRuns, on : BOOLEAN, reads : BOOLEAN]
  BY SameParts, WireFacts
<1>2. rsession.att # 0 => rsession.att \in Attempts
  BY AgentFacts, Bounds DEF Attempts
<1>3. CASE RunTransfer
  <2>1. run.no = 0 /\ UNCHANGED <<mail, session, stream, rsession, recv>> /\ run'.on /\ ~run'.reads
    BY <1>3 DEF RunTransfer, senderVars, agentVars
  <2>2. Silent
    BY <2>1 DEF Order, Unheard
  <2>3. \A a \in Attempts : /\ peers["sender"][a].state = "none" /\ peers["recipient"][a].state = "none"
                            /\ stream[a].pc \notin Active /\ recv[a].pc \notin Busy
    BY <2>2 DEF Silent, Sides, Active, Busy
  <2>4. session.att = 0
    BY <2>3, SenderFacts, Bounds DEF Order, OwnedBy, Attempts
  <2>5. rsession.att = 0
    BY <1>2, <2>3 DEF OneSession
  <2>6. mail["run"] = <<>> /\ mail["loop"] = <<>> /\ mail["recipient"] = <<>>
    BY <2>2 DEF Silent, Boxes
  <2> QED
    BY <2>1, <2>3, <2>4, <2>5, <2>6 DEF Fresh
<1>4. CASE Resume
  <2>1. ~run.on /\ UNCHANGED <<mail, session, stream, rsession, recv>> /\ run'.on /\ ~run'.reads
    BY <1>4 DEF Resume, handleResumeTransfer, agentVars
  <2>2. \A a \in Attempts : stream[a].pc \notin Active /\ recv[a].pc \notin Busy
    BY <1>4 DEF Resume, Calm, Active, Busy
  <2>3. session.att = 0
    BY <2>1 DEF OneSession
  <2>4. rsession.att = 0
    BY <1>2, <2>2 DEF OneSession
  <2>5. mail["run"] = <<>> /\ mail["loop"] = <<>> /\ mail["recipient"] = <<>>
    BY <1>1, <1>4 DEF Resume, Calm, Posts, Boxes
  <2> QED
    BY <2>1, <2>2, <2>3, <2>4, <2>5 DEF Fresh
<1>5. ~sendTransferOffer
  BY DEF sendTransferOffer, Opening
<1>6. ASSUME NEW box \in {"run", "loop"}, EnvelopeSteps(box)
      PROVE  ~Opening'
  <2>1. CASE Ends
    <3>1. /\ mail'["run"] = <<>> /\ mail'["loop"] = mail["loop"]
          /\ mail'["recipient"] = mail["recipient"] /\ ~run'.on
      BY <1>1, <2>1 DEF Ends, Posts, Boxes
    <3>2. Hushed
      BY <3>1, SaidNone DEF Hushed, Boxes
    <3> QED
      BY <3>1, <3>2, StaysShut
  <2>2. CASE ~Ends
    <3>1. PICK type : Keeps(box, type)
      BY <1>6, <2>2 DEF EnvelopeSteps, Ignores, Adopts, SenderMakes, Answered, SenderAdds, Saves, SenderDrops
    <3>2. mail[box] # <<>> /\ run' = run /\ Writes(Took(box), {"failed"}) /\ box \in Boxes
      BY <3>1 DEF Keeps, Boxes
    <3>3. {"failed"} \cap Tokens = {}
      BY DEF Tokens
    <3>4. Hushed
      BY <3>2, <3>3, HushReads
    <3> QED
      BY <3>2, <3>4, StaysShut
  <2> QED
    BY <2>1, <2>2
<1>7. ASSUME NEW a \in Attempts, SendWebRTCOffer(a)
      PROVE  ~Opening'
  <2>1. run' = run /\ mail' = ToRecipient(mail, <<Message("webrtc_offer", a)>>)
    BY <1>7 DEF SendWebRTCOffer
  <2>2. Speaks(<<Message("webrtc_offer", a)>>, {"webrtc_offer"})
    <3>1. a \in Nat /\ "webrtc_offer" \in {"webrtc_offer"} \cap Types
      BY Bounds DEF Attempts, Types
    <3> QED
      BY <3>1, SpeaksFew
  <2>3. {"webrtc_offer"} \cap Tokens = {} /\ Writes(mail, {"webrtc_offer"})
    BY <2>1, <2>2 DEF Tokens, Writes
  <2>4. Hushed
    BY <2>3, HushWrites
  <2> QED
    BY <2>1, <2>4, StaysShut
<1>8. ASSUME NEW a \in Attempts, Streams(a)
      PROVE  ~Opening'
  <2>1. run' = run /\ (Writes(mail, {"started"}) \/ Writes(mail, {"retryable"}))
    BY <1>8 DEF Streams
  <2>2. {"started"} \cap Tokens = {} /\ {"retryable"} \cap Tokens = {}
    BY DEF Tokens
  <2>3. Hushed
    BY <2>1, <2>2, HushWrites
  <2> QED
    BY <2>1, <2>3, StaysShut
<1> QED
  BY <1>3, <1>4, <1>5, <1>6, <1>7, <1>8 DEF SenderSteps

LEMMA OpensAgent ==
    ASSUME Shape, ~Opening, AgentSteps, run' = run
    PROVE  ~Opening'
<1>1. mail \in Posts
  BY SameParts
<1>2. /\ {"failed"} \cap Tokens = {} /\ {} \cap Tokens = {} /\ {"answer"} \cap Tokens = {}
      /\ {"started", "progress"} \cap Tokens = {}
      /\ {"started", "retryable", "failed", "completed"} \cap Tokens = {}
  BY DEF Tokens
<1>3. ~AgentOffered
  <2>1. ASSUME AgentOffered
        PROVE  FALSE
    <3>1. mail["recipient"] # <<>> /\ "recipient" \in Boxes /\ Head(mail["recipient"]).type = "offer"
      BY <2>1, AgentReadsFacts DEF AgentOffered
    <3> QED
      BY <3>1, HeadOpens DEF Tokens
  <2> QED
    BY <2>1
<1>4. CASE AgentTold \/ AgentAdds
  <2>1. mail["recipient"] # <<>> /\ "recipient" \in Boxes /\ Sends(Took("recipient"), {"failed"})
    BY <1>4, AgentReadsFacts DEF AgentTold, AgentAdds
  <2>2. Hushed
    BY <1>2, <2>1, HushReads
  <2> QED
    BY <2>2, StaysShut
<1>5. CASE AgentMakes \/ AgentDrops
  <2>1. mail["recipient"] # <<>> /\ "recipient" \in Boxes /\ mail' = Took("recipient")
    BY <1>5, AgentReadsFacts DEF AgentMakes, AgentDrops
  <2>2. Took("recipient") \in Posts
    BY <2>1, Taken
  <2>3. Sends(Took("recipient"), {})
    BY <2>1, <2>2, SentNone
  <2>4. Hushed
    BY <1>2, <2>1, <2>3, HushReads
  <2> QED
    BY <2>4, StaysShut
<1>6. ASSUME NEW a \in Attempts, AgentAnswers(a) \/ ReceiverGoes(a) \/ ReceiverStops(a)
      PROVE  ~Opening'
  <2>1. \/ Sends(mail, {"answer"}) \/ Sends(mail, {"started", "progress"})
        \/ Sends(mail, {"started", "retryable", "failed", "completed"})
    BY <1>6 DEF AgentAnswers, ReceiverGoes, ReceiverStops
  <2>2. Hushed
    BY <1>2, <2>1, HushWrites
  <2> QED
    BY <2>2, StaysShut
<1> QED
  BY <1>3, <1>4, <1>5, <1>6 DEF AgentSteps

LEMMA OpensWire ==
    ASSUME Shape, ~Opening, WireNext
    PROVE  ~Opening'
<1>1. mail \in Posts /\ {"ice"} \cap Tokens = {}
  BY SameParts DEF Tokens
<1>2. ASSUME NEW side \in Sides, NEW a \in Attempts, Gather(side, a)
      PROVE  ~Opening'
  <2>1. run' = run /\ (Writes(mail, {"ice"}) \/ Sends(mail, {"ice"}))
    BY <1>2, GatherTable DEF Sides
  <2> QED
    BY <1>1, <2>1, HushWrites, StaysShut
<1>3. ASSUME NEW side \in Sides, NEW a \in Attempts, PeerCloses(side, a) \/ OpenChannel(a) \/ Cut(a)
      PROVE  ~Opening'
  <2>1. run' = run /\ mail' = mail
    BY <1>3 DEF PeerCloses, OpenChannel, Cut
  <2> QED
    BY <2>1 DEF Opening
<1>4. "sender" \in Sides
  BY DEF Sides
<1> QED
  BY <1>2, <1>3, <1>4 DEF WireNext

-----------------------------------------------------------------------------
(* One session at each end.                                                *)

\* A recipient's peer that is not there is not touched by the wire.
LEMMA WireRecipients ==
    ASSUME Shape, WireNext
    PROVE  \A a \in Attempts :
              /\ Fades(peers'["recipient"][a], peers["recipient"][a])
              /\ peers["recipient"][a].state = "none" => peers'["recipient"][a] = peers["recipient"][a]
<1>1. Sides = {"sender", "recipient"} /\ \A a \in Attempts : peers["recipient"][a] \in Peer
  BY AgentFacts DEF Sides
<1>2. ASSUME NEW side \in Sides, NEW b \in Attempts, Gather(side, b), NEW a \in Attempts
      PROVE  /\ Fades(peers'["recipient"][a], peers["recipient"][a])
             /\ peers["recipient"][a].state = "none" => peers'["recipient"][a] = peers["recipient"][a]
  <2>1. /\ Alive(peers[side][b])
        /\ peers'["recipient"][a] = IF "recipient" = side /\ a = b
                                      THEN [peers["recipient"][a] EXCEPT !.left = @ - 1]
                                      ELSE peers["recipient"][a]
    BY <1>1, <1>2, GatherTable
  <2>2. Fades([peers["recipient"][a] EXCEPT !.left = @ - 1], peers["recipient"][a])
    BY <1>1 DEF Fades, Peer, Alive
  <2> QED
    BY <2>1, <2>2, FadeSame DEF Alive
<1>3. ASSUME NEW side \in Sides, NEW b \in Attempts, PeerCloses(side, b), NEW a \in Attempts
      PROVE  /\ Fades(peers'["recipient"][a], peers["recipient"][a])
             /\ peers["recipient"][a].state = "none" => peers'["recipient"][a] = peers["recipient"][a]
  <2>1. peers'["recipient"][a] = IF "recipient" = side /\ a = b THEN Close(peers["recipient"][a])
                                 ELSE peers["recipient"][a]
    BY <1>1, <1>3, ClosesTable
  <2> QED
    BY <1>1, <2>1, FadeClose, FadeSame DEF Close
<1>4. ASSUME NEW b \in Attempts, OpenChannel(b) \/ Cut(b)
      PROVE  peers' = peers
  BY <1>4 DEF OpenChannel, Cut
<1> QED
  BY <1>2, <1>3, <1>4, FadeSame DEF WireNext

LEMMA OneSessionWire ==
    ASSUME Shape, Answerers(peers), OneSession, WireNext, UNCHANGED <<senderVars, agentVars, browserVars>>
    PROVE  OneSession'
<1>1. UNCHANGED <<session, rsession, recv, imports, run>>
  BY WireTable DEF senderVars, agentVars, browserVars, WireMoves
<1>2. \A a \in Attempts :
              /\ Fades(peers'["recipient"][a], peers["recipient"][a])
              /\ peers["recipient"][a].state = "none" => peers'["recipient"][a] = peers["recipient"][a]
  BY WireRecipients
<1>3. rsession.att # 0 => rsession.att \in Attempts
  BY AgentFacts, Bounds DEF Attempts
<1>4. rsession'.att # 0 => /\ recv'[rsession'.att].pc \in Busy
                           /\ peers'["recipient"][rsession'.att].state # "none"
  BY <1>1, <1>2, <1>3 DEF OneSession, Fades
<1>5. \A a \in Attempts :
          /\ Alive(peers'["recipient"][a]) => rsession'.att = a
          /\ peers'["recipient"][a].state = "none" => Got(peers'["recipient"][a], a) = 0
  BY <1>1, <1>2 DEF OneSession, Fades
<1> QED
  BY <1>1, <1>4, <1>5 DEF OneSession

\* The session of the sender.
LEMMA OneSessionRun ==
    ASSUME Shape, Order, Opening => Fresh, OneSession, SenderSteps
    PROVE  session'.att # 0 => run'.on /\ session'.owner = run'.no
<1>1. run \in [no : 0 .. MaxRuns, on : BOOLEAN, reads : BOOLEAN]
  BY WireFacts
<1>2. CASE RunTransfer
  <2>1. run.no = 0 /\ session' = session
    BY <1>2 DEF RunTransfer, senderVars
  <2> QED
    BY <2>1 DEF Order, Lines, OneSession
<1>3. CASE Resume
  BY <1>3 DEF Resume, handleResumeTransfer, OneSession
<1>4. CASE sendTransferOffer
  <2>1. session' = session /\ run'.on = run.on /\ run'.no = run.no
    BY <1>1, <1>4 DEF sendTransferOffer, senderVars
  <2> QED
    BY <2>1 DEF OneSession
<1>5. ASSUME NEW box \in {"run", "loop"}, EnvelopeSteps(box)
      PROVE  session'.att # 0 => run'.on /\ session'.owner = run'.no
  <2>1. CASE Ends
    BY <2>1 DEF Ends, OneSession, NoSession
  <2>2. CASE Ignores(box) \/ Answered(box) \/ SenderAdds(box)
    BY <2>2 DEF Ignores, Answered, SenderAdds, Keeps, OneSession
  <2>3. CASE Adopts(box)
    BY <2>3, AcceptedOnce DEF Adopts, Fresh
  <2>4. CASE SenderMakes(box)
    <3>1. /\ Keeps(box, "accepted") /\ run' = run /\ session.att = 0 /\ session'.owner = Owner(box)
      BY <2>4 DEF SenderMakes, Keeps
    <3>2. box = "run" /\ run.on
      BY <3>1, AcceptedOnce DEF Fresh
    <3>3. Owner(box) = run.no
      BY <3>1, <3>2 DEF Owner, Reader, Order, OwnedBy
    <3> QED
      BY <3>1, <3>2, <3>3
  <2>5. CASE Saves(box) \/ SenderDrops(box)
    BY <2>5 DEF Saves, SenderDrops, NoSession
  <2> QED
    BY <1>5, <2>1, <2>2, <2>3, <2>4, <2>5 DEF EnvelopeSteps
<1>6. ASSUME NEW a \in Attempts, SendWebRTCOffer(a) \/ Streams(a)
      PROVE  session'.att # 0 => run'.on /\ session'.owner = run'.no
  BY <1>6 DEF SendWebRTCOffer, Streams, senderVars, OneSession
<1> QED
  BY <1>2, <1>3, <1>4, <1>5, <1>6 DEF SenderSteps

LEMMA OneSessionSender ==
    ASSUME Shape, Order, Opening => Fresh, OneSession, SenderSteps, UNCHANGED <<agentVars, browserVars>>
    PROVE  OneSession'
<1>1. UNCHANGED <<rsession, recv, imports>>
  BY DEF agentVars, browserVars
<1>2. \A a \in Attempts : peers'["recipient"][a] = peers["recipient"][a]
  BY RecipientsStay
<1>3. rsession.att # 0 => rsession.att \in Attempts
  BY AgentFacts, Bounds DEF Attempts
<1>4. session'.att # 0 => run'.on /\ session'.owner = run'.no
  BY OneSessionRun
<1>5. rsession'.att # 0 => /\ recv'[rsession'.att].pc \in Busy
                           /\ peers'["recipient"][rsession'.att].state # "none"
  BY <1>1, <1>2, <1>3 DEF OneSession
<1>6. \A a \in Attempts :
          /\ Alive(peers'["recipient"][a]) => rsession'.att = a
          /\ peers'["recipient"][a].state = "none" => Got(peers'["recipient"][a], a) = 0
  BY <1>1, <1>2 DEF OneSession
<1> QED
  BY <1>1, <1>4, <1>5, <1>6 DEF OneSession

\* The session of the agent.
RSessionKept ==
    /\ rsession'.att # 0 => /\ recv'[rsession'.att].pc \in Busy
                            /\ peers'["recipient"][rsession'.att].state # "none"
    /\ \A a \in Attempts :
          /\ Alive(peers'["recipient"][a]) => rsession'.att = a
          /\ peers'["recipient"][a].state = "none" => Got(peers'["recipient"][a], a) = 0

\* One peer fades, and the session stays.
LEMMA RSessionStays ==
    ASSUME Shape, OneSession, NEW a \in Attempts, NEW q \in Peer,
           peers["recipient"][a].state # "none", Fades(q, peers["recipient"][a]),
           peers' = [peers EXCEPT !["recipient"][a] = q], rsession'.att = rsession.att,
           \A b \in Attempts : recv[b].pc \in Busy => recv'[b].pc \in Busy
    PROVE  RSessionKept
<1>1. \A s \in Sides, b \in Attempts : peers'[s][b] = IF s = "recipient" /\ b = a THEN q ELSE peers[s][b]
  <2>1. peers \in Peers /\ "recipient" \in Sides
    BY AgentFacts
  <2> QED
    BY <2>1, SetPeer
<1>2. \A b \in Attempts : peers'["recipient"][b] = IF b = a THEN q ELSE peers["recipient"][b]
  BY <1>1 DEF Sides
<1>3. rsession.att # 0 => rsession.att \in Attempts
  BY AgentFacts, Bounds DEF Attempts
<1>4. \A b \in Attempts : /\ (peers'["recipient"][b].state = "none") <=> (peers["recipient"][b].state = "none")
                          /\ Alive(peers'["recipient"][b]) => Alive(peers["recipient"][b])
                          /\ peers["recipient"][b].state = "none" => peers'["recipient"][b] = peers["recipient"][b]
  BY <1>2 DEF Fades
<1> QED
  BY <1>3, <1>4 DEF OneSession, RSessionKept

LEMMA RSessionSame ==
    ASSUME Shape, OneSession, peers' = peers, rsession'.att = rsession.att,
           \A b \in Attempts : recv[b].pc \in Busy => recv'[b].pc \in Busy
    PROVE  RSessionKept
<1>1. rsession.att # 0 => rsession.att \in Attempts
  BY AgentFacts, Bounds DEF Attempts
<1> QED
  BY <1>1 DEF OneSession, RSessionKept

\* The session is closed.
LEMMA RSessionNone ==
    ASSUME Shape, OneSession, rsession' = NoRSession, peers' = CloseAt(peers, "recipient", rsession.att)
    PROVE  RSessionKept
<1>1. \A s \in Sides, b \in Attempts :
         peers'[s][b] = IF s = "recipient" /\ b = rsession.att THEN Close(peers[s][b]) ELSE peers[s][b]
  BY AgentFacts, CloseAtShape
<1>2. \A b \in Attempts :
         peers'["recipient"][b] = IF b = rsession.att THEN Close(peers["recipient"][b]) ELSE peers["recipient"][b]
  BY <1>1 DEF Sides
<1>3. \A b \in Attempts : /\ Fades(Close(peers["recipient"][b]), peers["recipient"][b])
                          /\ ~Alive(Close(peers["recipient"][b]))
                          /\ peers["recipient"][b].state = "none" => Close(peers["recipient"][b]) = peers["recipient"][b]
  BY AgentFacts, FadeClose DEF Close
<1>4. \A b \in Attempts : /\ ~Alive(peers'["recipient"][b])
                          /\ peers'["recipient"][b].state = "none" => peers'["recipient"][b] = peers["recipient"][b]
  BY <1>2, <1>3 DEF OneSession, Fades
<1>5. rsession'.att = 0
  BY DEF NoRSession
<1> QED
  BY <1>4, <1>5 DEF RSessionKept, OneSession

LEMMA OneSessionAgent ==
    ASSUME Shape, OneSession, AgentSteps, UNCHANGED <<senderVars, browserVars>>, run' = run
    PROVE  OneSession'
<1>1. UNCHANGED <<session, run, imports>>
  BY DEF senderVars, browserVars
<1>2. rsession.att # 0 => rsession.att \in Attempts
  BY AgentFacts, Bounds DEF Attempts
<1>3. recv \in [Attempts -> Receiver] /\ peers \in Peers
  BY AgentFacts DEF Received
<1>4. ASSUME NEW a \in Attempts, NEW r, recv' = [recv EXCEPT ![a] = r], r.pc \in Busy
      PROVE  \A b \in Attempts : recv[b].pc \in Busy => recv'[b].pc \in Busy
  <2>1. \A b \in Attempts : recv'[b] = IF b = a THEN r ELSE recv[b]
    BY <1>3, <1>4
  <2> QED
    BY <1>4, <2>1
<1>5. CASE AgentOffered \/ AgentTold
  <2>1. peers' = peers /\ recv' = recv /\ rsession'.att = rsession.att
    BY <1>5 DEF AgentOffered, AgentTold
  <2>2. RSessionKept
    BY <2>1, RSessionSame
  <2> QED
    BY <1>1, <2>2 DEF OneSession, RSessionKept
<1>6. CASE AgentAdds
  <2> DEFINE a == rsession.att
             c == Head(mail["recipient"]).n
             q == AddICECandidate(peers["recipient"][a], a, c)
  <2>1. a # 0 /\ a \in Attempts /\ peers["recipient"][a] \in Peer /\ recv' = recv /\ rsession' = rsession
    BY <1>2, <1>6, AgentFacts DEF AgentAdds
  <2>2. c \in Attempts
    BY <1>6, AgentReadsFacts DEF AgentAdds
  <2>3. peers' = [peers EXCEPT !["recipient"][a] = q]
    BY <1>3, <1>6, <2>1 DEF AgentAdds, Peers, Sides
  <2>4. q \in Peer /\ Fades(q, peers["recipient"][a])
    BY <2>1, <2>2, AddShape, FadeAdd
  <2>5. peers["recipient"][a].state # "none"
    BY <2>1 DEF OneSession
  <2> HIDE DEF q
  <2>6. RSessionKept
    BY <2>1, <2>3, <2>4, <2>5, RSessionStays
  <2> QED
    BY <1>1, <2>6 DEF OneSession, RSessionKept
<1>7. CASE AgentMakes
  <2> DEFINE a == Head(mail["recipient"]).n
  <2>1. PICK q \in Peer : \E r :
           /\ rsession.att = 0 /\ rsession' = [att |-> a, pending |-> <<>>]
           /\ q.state = "answering" /\ peers' = [peers EXCEPT !["recipient"][a] = q]
           /\ r.pc = "answering" /\ recv' = [recv EXCEPT ![a] = r]
    BY <1>7 DEF AgentMakes
  <2>2. a \in Attempts
    BY <1>7, AgentReadsFacts DEF AgentMakes
  <2>5. recv'[a].pc = "answering" /\ rsession'.att = a
    BY <1>3, <2>1, <2>2
  <2>8. peers' = [peers EXCEPT !["recipient"][a] = q] /\ "recipient" \in Sides
    BY <2>1, AgentFacts
  <2> HIDE DEF a
  <2>3. \A s \in Sides, b \in Attempts :
           peers'[s][b] = IF s = "recipient" /\ b = a THEN q ELSE peers[s][b]
    BY <1>3, <2>2, <2>8, SetPeer
  <2>4. \A b \in Attempts : peers'["recipient"][b] = IF b = a THEN q ELSE peers["recipient"][b]
    BY <2>3 DEF Sides
  <2>6. \A b \in Attempts : ~Alive(peers["recipient"][b])
    BY <2>1, Bounds DEF OneSession, Attempts
  <2>7. RSessionKept
    BY <2>1, <2>2, <2>4, <2>5, <2>6 DEF RSessionKept, OneSession, Busy
  <2> QED
    BY <1>1, <2>7 DEF OneSession, RSessionKept
<1>8. CASE AgentDrops
  <2>1. RSessionKept
    BY <1>8, RSessionNone DEF AgentDrops
  <2> QED
    BY <1>1, <2>1 DEF OneSession, RSessionKept
<1>9. ASSUME NEW a \in Attempts, AgentAnswers(a)
      PROVE  OneSession'
  <2> DEFINE q == [peers["recipient"][a] EXCEPT !.state = "stable"]
  <2>1. /\ peers["recipient"][a].state = "answering" /\ peers["recipient"][a] \in Peer
        /\ rsession' = rsession
    BY <1>9, AgentFacts DEF AgentAnswers
  <2>2. peers' = [peers EXCEPT !["recipient"][a] = q]
    BY <1>3, <1>9 DEF AgentAnswers, Peers
  <2>3. q \in Peer /\ Fades(q, peers["recipient"][a])
    BY <2>1 DEF Peer, Fades, Alive
  <2>4. \A b \in Attempts : recv[b].pc \in Busy => recv'[b].pc \in Busy
    BY <1>4, <1>9 DEF AgentAnswers, Busy
  <2> HIDE DEF q
  <2>5. RSessionKept
    BY <2>1, <2>2, <2>3, <2>4, RSessionStays
  <2> QED
    BY <1>1, <2>5 DEF OneSession, RSessionKept
<1>10. ASSUME NEW a \in Attempts, ReceiverGoes(a)
       PROVE  OneSession'
  <2>1. peers' = peers /\ rsession' = rsession
    BY <1>10 DEF ReceiverGoes
  <2>2. \A b \in Attempts : recv[b].pc \in Busy => recv'[b].pc \in Busy
    BY <1>4, <1>10 DEF ReceiverGoes, Busy
  <2>3. RSessionKept
    BY <2>1, <2>2, RSessionSame
  <2> QED
    BY <1>1, <2>3 DEF OneSession, RSessionKept
<1>11. ASSUME NEW a \in Attempts, ReceiverStops(a)
       PROVE  OneSession'
  <2>1. CASE rsession.att = a
    <3>1. RSessionKept
      BY <1>11, <2>1, RSessionNone DEF ReceiverStops
    <3> QED
      BY <1>1, <3>1 DEF OneSession, RSessionKept
  <2>2. CASE rsession.att # a
    <3>1. rsession' = rsession /\ peers' = peers /\ \E r : recv' = [recv EXCEPT ![a] = r]
      BY <1>11, <2>2 DEF ReceiverStops
    <3>2. \A b \in Attempts : b # a => recv'[b] = recv[b]
      BY <1>3, <3>1
    <3>3. RSessionKept
      BY <1>2, <2>2, <3>1, <3>2 DEF RSessionKept, OneSession
    <3> QED
      BY <1>1, <3>3 DEF OneSession, RSessionKept
  <2> QED
    BY <2>1, <2>2
<1> QED
  BY <1>5, <1>6, <1>7, <1>8, <1>9, <1>10, <1>11 DEF AgentSteps

-----------------------------------------------------------------------------
(* Both ends on the same attempt.                                          *)

\* The sender's session stays, and its peer if it is closed.
LEMMA MatchStays ==
    ASSUME Shape, Matching, session'.att = session.att, session.att # 0,
           rsession'.att \in {0, session.att},
           \A b \in Attempts : stream'[b].pc \in Active => b = session.att,
           peers["sender"][session.att].state = "closed" => peers'["sender"][session.att].state = "closed",
           \A x \in Said(mail'["recipient"]) :
              \/ x \in Said(mail["recipient"])
              \/ x.type \notin {"webrtc_offer", "retryable", "failed"}
              \/ x.type = "webrtc_offer" /\ x.n = session.att
              \/ x.type = "retryable" /\ peers'["sender"][session.att].state = "closed"
    PROVE  Matching'
  BY DEF Matching

LEMMA MatchingWire ==
    ASSUME Shape, Order, Matching, WireNext, UNCHANGED <<senderVars, agentVars>>
    PROVE  Matching'
<1>1. UNCHANGED <<session, stream, rsession>> /\ mail \in Posts /\ "recipient" \in Boxes
  BY SameParts DEF senderVars, agentVars, Boxes
<1>2. \A x \in Said(mail'["recipient"]) : x \in Said(mail["recipient"]) \/ x.type = "ice"
  <2>1. ASSUME NEW side \in Sides, NEW a \in Attempts, Gather(side, a)
        PROVE  Writes(mail, {"ice"}) \/ Sends(mail, {"ice"})
    BY <2>1, GatherTable DEF Sides
  <2>2. Writes(mail, {"ice"}) \/ Sends(mail, {"ice"})
           => \A x \in Said(mail'["recipient"]) : x \in Said(mail["recipient"]) \/ x.type \in {"ice"}
    BY <1>1, Sent, Written
  <2>3. ASSUME NEW side \in Sides, NEW a \in Attempts, PeerCloses(side, a) \/ OpenChannel(a) \/ Cut(a)
        PROVE  mail' = mail
    BY <2>3 DEF PeerCloses, OpenChannel, Cut
  <2>4. "sender" \in Sides
    BY DEF Sides
  <2> QED
    BY <2>1, <2>2, <2>3, <2>4 DEF WireNext
<1>3. \A a \in Attempts : Fades(peers'["sender"][a], peers["sender"][a])
  BY WireTable DEF Order, WireMoves
<1>4. CASE session.att = 0
  BY <1>1, <1>4 DEF Matching
<1>5. CASE session.att # 0
  <2>1. session.att \in Attempts
    BY <1>5, SenderFacts, Bounds DEF Attempts
  <2>2. peers["sender"][session.att].state = "closed" => peers'["sender"][session.att].state = "closed"
    BY <1>3, <2>1 DEF Fades
  <2>3. rsession'.att \in {0, session.att} /\ \A b \in Attempts : stream'[b].pc \in Active => b = session.att
    BY <1>1, <1>5 DEF Matching
  <2> QED
    BY <1>1, <1>2, <1>5, <2>2, <2>3, MatchStays
<1> QED
  BY <1>4, <1>5

LEMMA MatchingAgent ==
    ASSUME Shape, Order, Matching, AgentSteps, UNCHANGED senderVars
    PROVE  Matching'
<1>1. UNCHANGED <<session, stream>> /\ mail \in Posts /\ "recipient" \in Boxes
  BY SameParts DEF senderVars, Boxes
<1>2. \A a \in Attempts : peers'["sender"][a] = peers["sender"][a]
  BY AgentIsRecipient DEF RecipientMoves, PeersTurn, Order
<1>3. \A x \in Said(mail'["recipient"]) : x \in Said(mail["recipient"])
  <2>1. CASE AgentOffered
    <3>1. mail["recipient"] # <<>>
      BY <2>1, AgentReadsFacts DEF AgentOffered
    <3>2. PICK t \in {"accepted", "denied"} : mail' = ToSender(Took("recipient"), <<Message(t, 0)>>)
      BY <2>1 DEF AgentOffered
    <3>3. <<Message(t, 0)>> \in Seq(Post)
      BY DEF Message, Post, Types
    <3>4. Took("recipient") \in Posts /\ Said(Took("recipient")["recipient"]) \subseteq Said(mail["recipient"])
      BY <1>1, <3>1, Taken
    <3>5. mail'["recipient"] = Took("recipient")["recipient"]
      BY <3>2, <3>3, <3>4, ToSenderBoxes
    <3> QED
      BY <3>4, <3>5
  <2>2. CASE AgentTold \/ AgentAdds \/ AgentMakes \/ AgentDrops
    <3>1. /\ mail["recipient"] # <<>>
          /\ Sends(Took("recipient"), {"failed"}) \/ mail' = Took("recipient")
      BY <2>2, AgentReadsFacts DEF AgentTold, AgentAdds, AgentMakes, AgentDrops
    <3>2. Took("recipient") \in Posts /\ Said(Took("recipient")["recipient"]) \subseteq Said(mail["recipient"])
      BY <1>1, <3>1, Taken
    <3>3. mail'["recipient"] = Took("recipient")["recipient"]
      BY <3>1, <3>2, Sent
    <3> QED
      BY <3>2, <3>3
  <2>3. ASSUME NEW a \in Attempts, AgentAnswers(a) \/ ReceiverGoes(a) \/ ReceiverStops(a)
        PROVE  mail'["recipient"] = mail["recipient"]
    <3>1. \/ Sends(mail, {"answer"}) \/ Sends(mail, {"started", "progress"})
          \/ Sends(mail, {"started", "retryable", "failed", "completed"})
      BY <2>3 DEF AgentAnswers, ReceiverGoes, ReceiverStops
    <3> QED
      BY <1>1, <3>1, Sent
  <2> QED
    BY <2>1, <2>2, <2>3 DEF AgentSteps
<1>4. CASE session.att = 0
  BY <1>1, <1>4 DEF Matching
<1>5. CASE session.att # 0
  <2>1. session.att \in Attempts
    BY <1>5, SenderFacts, Bounds DEF Attempts
  <2>2. rsession'.att \in {0, session.att}
    <3>1. CASE AgentMakes
      <4>1. /\ mail["recipient"] # <<>> /\ Head(mail["recipient"]).type = "webrtc_offer"
            /\ rsession'.att = Head(mail["recipient"]).n
        BY <3>1, AgentReadsFacts DEF AgentMakes
      <4>2. Head(mail["recipient"]) \in Said(mail["recipient"])
        BY <1>1, <4>1, Taken
      <4> QED
        BY <1>5, <4>1, <4>2 DEF Matching
    <3>2. CASE ~AgentMakes
      <4>1. rsession'.att = rsession.att \/ rsession'.att = 0
        BY <3>2 DEF AgentSteps, AgentOffered, AgentTold, AgentAdds, AgentDrops, AgentAnswers,
           ReceiverGoes, ReceiverStops, NoRSession
      <4> QED
        BY <1>5, <4>1 DEF Matching
    <3> QED
      BY <3>1, <3>2
  <2>3. \A b \in Attempts : stream'[b].pc \in Active => b = session.att
    BY <1>1, <1>5 DEF Matching
  <2> QED
    BY <1>1, <1>2, <1>3, <1>5, <2>1, <2>2, <2>3, MatchStays
<1> QED
  BY <1>4, <1>5

LEMMA MatchingSender ==
    ASSUME Shape, Order, Opening => Fresh, OneSession, Matching, SenderSteps, UNCHANGED agentVars
    PROVE  Matching'
<1>1. /\ run \in [no : 0 .. MaxRuns, on : BOOLEAN, reads : BOOLEAN] /\ mail \in Posts
      /\ "recipient" \in Boxes /\ stream \in [Attempts -> Stream] /\ rsession' = rsession
      /\ session.att # 0 => session.att \in Attempts
  BY SameParts, WireFacts, SenderFacts, Bounds DEF Boxes, agentVars, Attempts
<1>2. CASE session'.att = 0
  BY <1>2 DEF Matching
<1>3. CASE RunTransfer \/ Resume \/ sendTransferOffer
  <2>1. session' = session
    BY <1>3 DEF RunTransfer, Resume, handleResumeTransfer, sendTransferOffer, senderVars
  <2>2. session.att = 0
    <3>1. RunTransfer => ~run.on
      BY <1>1 DEF RunTransfer, Order, Lines
    <3>2. Resume => ~run.on
      BY DEF Resume, handleResumeTransfer
    <3>3. sendTransferOffer => Fresh
      BY DEF sendTransferOffer, Opening
    <3> QED
      BY <1>3, <3>1, <3>2, <3>3 DEF OneSession, Fresh
  <2> QED
    BY <1>2, <2>1, <2>2
<1>4. ASSUME NEW box \in {"run", "loop"}, EnvelopeSteps(box), session'.att # 0
      PROVE  Matching'
  <2>1. CASE Ends
    BY <1>4, <2>1 DEF Ends, NoSession, OneSession, Matching
  <2>2. CASE Ignores(box) \/ Answered(box) \/ SenderAdds(box)
    <3>1. PICK type : Keeps(box, type)
      BY <2>2 DEF Ignores, Answered, SenderAdds
    <3>2. session' = session /\ run' = run /\ mail[box] # <<>>
      BY <2>2, <3>1 DEF Ignores, Answered, SenderAdds, Keeps
    <3>3. session.att # 0 /\ session.att \in Attempts /\ run.on
      BY <1>1, <1>4, <3>2 DEF OneSession
    <3>4. box = "run"
      BY <3>2, <3>3, ReaderOf DEF Order
    <3>5. mail' = Took("run") /\ "run" \in Boxes
      BY <3>1, <3>4 DEF Keeps, Boxes
    <3>6. Said(mail'["recipient"]) \subseteq Said(mail["recipient"])
      BY <1>1, <3>2, <3>4, <3>5, Taken
    <3>7. ~SenderMakes(box)
      BY <3>3 DEF SenderMakes
    <3>8. SendersFade
      BY <1>4, <3>7, EnvelopeFades
    <3>9. \A b \in Attempts : stream'[b].pc \in Active => b = session.att
      <4>1. stream' = stream \/ \E r : stream' = [stream EXCEPT ![session.att] = r]
        BY <2>2 DEF Ignores, Answered, SenderAdds
      <4>2. \A b \in Attempts : b # session.att => stream'[b] = stream[b]
        BY <1>1, <4>1
      <4> QED
        BY <3>3, <4>2 DEF Matching
    <3>10. rsession'.att \in {0, session.att}
      BY <1>1, <3>3 DEF Matching
    <3>11. peers["sender"][session.att].state = "closed" => peers'["sender"][session.att].state = "closed"
      BY <3>3, <3>8 DEF SendersFade, Fades
    <3> QED
      BY <3>2, <3>3, <3>6, <3>9, <3>10, <3>11, MatchStays
  <2>3. CASE Adopts(box)
    BY <2>3, AcceptedOnce DEF Adopts, Fresh
  <2>4. CASE SenderMakes(box)
    <3>1. Keeps(box, "accepted") /\ mail' = Took(box) /\ stream' = stream
      BY <2>4 DEF SenderMakes
    <3>2. box = "run" /\ Fresh /\ mail["run"] # <<>> /\ mail["recipient"] = <<>> /\ "run" \in Boxes
      BY <3>1, AcceptedOnce DEF Boxes, Keeps
    <3>3. mail'["recipient"] = <<>>
      BY <1>1, <3>1, <3>2, Taken
    <3>4. Said(mail'["recipient"]) = {}
      BY <3>3, SaidNone
    <3> QED
      BY <1>1, <3>1, <3>2, <3>4 DEF Fresh, Matching
  <2>5. CASE Saves(box) \/ SenderDrops(box)
    BY <1>4, <2>5 DEF Saves, SenderDrops, NoSession
  <2> QED
    BY <1>4, <2>1, <2>2, <2>3, <2>4, <2>5 DEF EnvelopeSteps
<1>5. ASSUME NEW a \in Attempts, SendWebRTCOffer(a)
      PROVE  Matching'
  <2>1. /\ session' = session /\ stream' = stream /\ peers["sender"][a].state = "making"
        /\ mail' = ToRecipient(mail, <<Message("webrtc_offer", a)>>)
    BY <1>5 DEF SendWebRTCOffer, senderVars
  <2>2. session.att = a /\ a # 0
    BY <2>1, Bounds DEF Order, OwnedBy, Alive, Attempts
  <2>3. <<Message("webrtc_offer", a)>> \in Seq(Post) /\ mail["recipient"] \in Seq(Post)
    BY <1>1, Bounds DEF Message, Post, Types, Attempts, Posts
  <2>4. mail'["recipient"] = mail["recipient"] \/ mail'["recipient"] = mail["recipient"] \o <<Message("webrtc_offer", a)>>
    BY <1>1, <2>1, <2>3, ToRecipientBoxes
  <2>5. Said(mail["recipient"] \o <<Message("webrtc_offer", a)>>)
           = Said(mail["recipient"]) \cup Said(<<Message("webrtc_offer", a)>>)
    BY <2>3, SaidCat
  <2>6. Said(<<Message("webrtc_offer", a)>>) = {Message("webrtc_offer", a)}
    BY SaidOne
  <2>7. Message("webrtc_offer", a).type = "webrtc_offer" /\ Message("webrtc_offer", a).n = a
    BY DEF Message
  <2>8. \A x \in Said(mail'["recipient"]) :
           x \in Said(mail["recipient"]) \/ (x.type = "webrtc_offer" /\ x.n = session.att)
    BY <2>2, <2>4, <2>5, <2>6, <2>7
  <2>9. SendersFade
    BY <1>5, OfferFades
  <2>10. peers["sender"][session.att].state = "closed" => peers'["sender"][session.att].state = "closed"
    BY <2>2, <2>9 DEF SendersFade, Fades
  <2>11. rsession'.att \in {0, session.att} /\ \A b \in Attempts : stream'[b].pc \in Active => b = session.att
    BY <1>1, <2>1, <2>2 DEF Matching
  <2> QED
    BY <2>1, <2>2, <2>8, <2>10, <2>11, MatchStays
<1>6. ASSUME NEW a \in Attempts, Streams(a), session'.att # 0
      PROVE  Matching'
  <2>1. /\ session' = session /\ peers' = peers /\ stream[a].pc \in Active
        /\ \E r : stream' = [stream EXCEPT ![a] = r]
        /\ \/ Writes(mail, {"started"})
           \/ Writes(mail, {"retryable"}) /\ peers["sender"][a].state = "closed"
    BY <1>6 DEF Streams
  <2>2. session.att # 0 /\ a = session.att
    BY <1>6, <2>1 DEF Matching
  <2>3. \A b \in Attempts : b # a => stream'[b] = stream[b]
    BY <1>1, <2>1
  <2>4. rsession'.att \in {0, session.att} /\ \A b \in Attempts : stream'[b].pc \in Active => b = session.att
    BY <1>1, <2>2, <2>3 DEF Matching
  <2>5. \A x \in Said(mail'["recipient"]) :
           \/ x \in Said(mail["recipient"]) \/ x.type = "started"
           \/ x.type = "retryable" /\ peers'["sender"][session.att].state = "closed"
    BY <1>1, <2>1, <2>2, Written
  <2> QED
    BY <2>1, <2>2, <2>4, <2>5, MatchStays
<1> QED
  BY <1>2, <1>3, <1>4, <1>5, <1>6 DEF SenderSteps

\* A page does nothing in a transfer to an agent.
LEMMA NoPage ==
    ASSUME plan.kind = "agent", imports = {}
    PROVE  ~BrowserNext
  BY DEF BrowserNext, connectReceiver, BrowserOffer, acceptWebRTCOffer, BrowserICE, BrowserLogs,
     prepareBrowserReceive, BrowserAnswer, acceptBrowserChunk, completeBrowserReceive, BrowserRefuses,
     BrowserReads, Queued

LEMMA PlanStays ==
    ASSUME Next
    PROVE  plan' = plan
<1>1. WireNext => plan' = plan
  BY DEF WireNext, Gather, PeerCloses, OpenChannel, Cut
<1>2. SenderNext => plan' = plan
  BY DEF SenderNext, RunTransfer, sendTransferOffer, RunReadsDone, handleEnvelope, handleAccepted,
     handleWebRTCAnswer, handleWebRTCICE, handleStarted, handleProgress, handleTransferRetryable,
     handleCompleted, handleFailed, SendWebRTCOffer, SenderStarts, SendFrame, SenderInterrupted
<1>3. Resume => plan' = plan
  BY DEF Resume, handleResumeTransfer
<1> QED
  BY <1>1, <1>2, <1>3, AgentStays, BrowserStays DEF Next

LEMMA CallsStep ==
    ASSUME Shape, Ledger, Order, Calls, [Next]_vars
    PROVE  Calls'
<1> SUFFICES ASSUME plan'.kind = "agent"
             PROVE  ((Opening => Fresh) /\ OneSession /\ Matching)'
  BY DEF Calls
<1>1. CASE UNCHANGED vars
  <2>1. UNCHANGED <<plan, run, mail, peers, session, stream, rsession, recv, imports>>
    BY <1>1 DEF vars, wire, senderVars, agentVars, browserVars
  <2>2. (Opening' <=> Opening) /\ (Fresh' <=> Fresh)
    BY <2>1 DEF Opening, Fresh
  <2>3. (OneSession' <=> OneSession) /\ (Matching' <=> Matching)
    BY <2>1 DEF OneSession, Matching
  <2> QED
    BY <2>1, <2>2, <2>3 DEF Calls
<1>2. CASE Next
  <2>1. plan.kind = "agent"
    BY <1>2, PlanStays
  <2>2. (Opening => Fresh) /\ OneSession /\ Matching
    BY <2>1 DEF Calls
  <2>3. ~BrowserNext
    BY <2>1, <2>2, NoPage DEF OneSession
  <2>4. CASE WireNext /\ UNCHANGED <<senderVars, agentVars, browserVars>>
    BY <2>2, <2>4, OpeningWire, OpensWire, OneSessionWire, MatchingWire DEF Order
  <2>5. CASE (SenderNext \/ Resume) /\ UNCHANGED <<agentVars, browserVars>>
    <3>1. SenderSteps
      BY <2>5, SenderTable DEF Order
    <3> QED
      BY <2>2, <2>5, <3>1, OpeningSender, OpensSender, OneSessionSender, MatchingSender
  <2>6. CASE AgentNext /\ UNCHANGED <<senderVars, browserVars>>
    <3>1. AgentSteps /\ run' = run
      BY <2>6, AgentTable, AgentStays
    <3> QED
      BY <2>2, <2>6, <3>1, OpeningAgent, OpensAgent, OneSessionAgent, MatchingAgent
  <2> QED
    BY <1>2, <2>3, <2>4, <2>5, <2>6 DEF Next
<1> QED
  BY <1>1, <1>2

-----------------------------------------------------------------------------
(* A job that is over stays over.                                          *)

LEMMA HandledOver ==
    ASSUME Shape, NEW box, NEW j \in Job, NEW t, NEW s, NEW p, NEW err, NEW verdict,
           Handled(box, j, t, s, p, err, verdict), j.status \in Terminal
    PROVE  sjob'.status \in Terminal
<1>1. \/ sjob' = handleRunTransferError(j, t) \/ sjob' = j
      \/ sjob' = [j EXCEPT !.status = failTransferJob(@)]
  BY DEF Handled, Ended
<1>2. handleRunTransferError(j, t) = j
  BY DEF handleRunTransferError
<1>3. [j EXCEPT !.status = failTransferJob(@)].status \in Terminal
  BY DEF failTransferJob, Job
<1> QED
  BY <1>1, <1>2, <1>3

LEMMA SenderJobOver ==
    ASSUME Shape, SenderNext \/ Resume, sjob.status \in Terminal
    PROVE  sjob'.status \in Terminal
<1>1. /\ sjob \in Job /\ sjob.status \notin {"offered", "retryable", "connecting", "transferring", "accepted"}
      /\ markTransferStarted(sjob.status) = sjob.status /\ failTransferJob(sjob.status) = sjob.status
      /\ markJobRetryableIfMutable(sjob.status) = sjob.status
  BY SenderFacts DEF Terminal, markTransferStarted, failTransferJob, markJobRetryableIfMutable
<1>2. [sjob EXCEPT !.status = sjob.status] = sjob /\ sjob.status \in Statuses
  BY <1>1 DEF Job
<1>3. ~Resume
  BY <1>1 DEF Resume, handleResumeTransfer
<1>4. RunTransfer \/ sendTransferOffer => sjob' = sjob
  BY DEF RunTransfer, sendTransferOffer, senderVars
<1>5. RunReadsDone => sjob' = sjob
  BY DEF RunReadsDone, Ended, handleRunTransferError
<1>6. ASSUME NEW box \in {"run", "loop"}, handleEnvelope(box)
      PROVE  \E j \in Job : \E t, s, p, err, verdict :
                Handled(box, j, t, s, p, err, verdict) /\ j.status \in Terminal
  <2>1. handleAccepted(box) => Handled(box, sjob, touched, session, peers, TRUE, "none")
    BY DEF handleAccepted
  <2>2. ASSUME handleWebRTCAnswer(box) \/ handleWebRTCICE(box)
        PROVE  \E t, s, p, err, verdict : Handled(box, sjob, t, s, p, err, verdict)
    BY <2>2 DEF handleWebRTCAnswer, handleWebRTCICE
  <2>3. ASSUME handleStarted(box) \/ handleFailed(box, "failed") \/ handleFailed(box, "denied")
        PROVE  \E t, s, p, err, verdict : Handled(box, sjob, t, s, p, err, verdict)
    <3>1. [sjob EXCEPT !.status = markTransferStarted(@)] = sjob /\ [sjob EXCEPT !.status = failTransferJob(@)] = sjob
      BY <1>1, <1>2 DEF Job
    <3>2. CASE handleStarted(box)
      BY <3>1, <3>2, SenderFacts, StartedRead
    <3>3. CASE handleFailed(box, "failed") \/ handleFailed(box, "denied")
      BY <3>1, <3>3 DEF handleFailed
    <3> QED
      BY <2>3, <3>2, <3>3
  <2>4. ASSUME handleProgress(box) \/ handleTransferRetryable(box)
        PROVE  \E t, s, p, err, verdict : Handled(box, sjob, t, s, p, err, verdict)
    BY <1>1, <2>4 DEF handleProgress, handleTransferRetryable
  <2>5. ASSUME handleCompleted(box)
        PROVE  \E j \in Job : \E t, s, p, err, verdict :
                  Handled(box, j, t, s, p, err, verdict) /\ j.status \in Terminal
    <3> DEFINE ok == completeTransferJob(sjob)
               j  == [sjob EXCEPT !.status = IF ok THEN "completed" ELSE markTransferStarted(@)]
    <3>1. Handled(box, j, touched \/ j # sjob, session, peers, ~ok, "completed")
      BY <2>5 DEF handleCompleted
    <3>2. j.status \in Terminal
      BY <1>1 DEF Job, Terminal
    <3>3. j \in Job
      BY <1>1, <1>2 DEF Job, Statuses, Terminal
    <3> HIDE DEF j
    <3> QED
      BY <3>1, <3>2, <3>3
  <2> QED
    BY <1>1, <1>6, <2>1, <2>2, <2>3, <2>4, <2>5 DEF handleEnvelope
<1>7. ASSUME NEW box \in {"run", "loop"}, handleEnvelope(box)
      PROVE  sjob'.status \in Terminal
  BY <1>6, <1>7, HandledOver
<1>8. ASSUME NEW a \in Attempts,
             SendWebRTCOffer(a) \/ SenderStarts(a) \/ SendFrame(a) \/ SenderInterrupted(a)
      PROVE  sjob'.status \in Terminal
  <2>1. CASE SenderStarts(a)
    BY <1>1, <2>1, SenderFacts, SenderStarted DEF Job
  <2>2. CASE SendWebRTCOffer(a) \/ SendFrame(a) \/ SenderInterrupted(a)
    BY <1>1, <2>2 DEF SendWebRTCOffer, SendFrame, SenderInterrupted, senderVars, Job
  <2> QED
    BY <1>8, <2>1, <2>2
<1> QED
  BY <1>3, <1>4, <1>5, <1>7, <1>8 DEF SenderNext

LEMMA AgentJobOver ==
    ASSUME Shape, AgentNext, rjob.status \in Terminal
    PROVE  rjob'.status \in Terminal
<1>1. /\ rjob \in Job /\ rjob.status # "none"
      /\ markTransferStarted(rjob.status) = rjob.status /\ failTransferJob(rjob.status) = rjob.status
      /\ markJobRetryableIfMutable(rjob.status) = rjob.status
  BY AgentFacts DEF Terminal, markTransferStarted, failTransferJob, markJobRetryableIfMutable
<1>2. \A s, p, out, err :
         /\ AgentHandled(rjob, s, p, out, err) => rjob'.status \in Terminal
         /\ AgentHandled([rjob EXCEPT !.status = markTransferStarted(@)], s, p, out, err) => rjob'.status \in Terminal
         /\ AgentHandled([rjob EXCEPT !.status = markJobRetryableIfMutable(@)], s, p, out, err) => rjob'.status \in Terminal
         /\ AgentHandled([rjob EXCEPT !.status = failTransferJob(@)], s, p, out, err) => rjob'.status \in Terminal
  BY <1>1 DEF AgentHandled, Job
<1>3. handleTransferOffer \/ handleWebRTCOffer \/ AgentICE => rjob'.status \in Terminal
  BY <1>1, <1>2 DEF handleTransferOffer, handleWebRTCOffer, AgentICE
<1>4. AgentStarted \/ AgentRetryable \/ AgentFailed => rjob'.status \in Terminal
  <2>1. AgentStarted => rjob'.status \in Terminal
    BY <1>2, AgentFacts, StartedAtAgent
  <2>2. AgentRetryable \/ AgentFailed => rjob'.status \in Terminal
    BY <1>2 DEF AgentRetryable, AgentFailed
  <2> QED
    BY <2>1, <2>2
<1>5. ASSUME NEW a \in Attempts, SendAnswer(a) \/ ReceiverNeverOpens(a) \/ ReceiverInterrupted(a)
      PROVE  rjob'.status \in Terminal
  BY <1>1, <1>5 DEF SendAnswer, ReceiverNeverOpens, ReceiverInterrupted, Job
<1>6. ASSUME NEW a \in Attempts, ReceiverStarts(a) \/ ReceiverRefuses(a)
      PROVE  rjob'.status \in Terminal
  <2>1. CASE ReceiverStarts(a)
    BY <1>1, <2>1, AgentFacts, ReceiverStarted DEF ReceiverFails, Job
  <2>2. CASE ReceiverRefuses(a)
    BY <1>1, <2>2 DEF ReceiverRefuses, ReceiverFails, Job
  <2> QED
    BY <1>6, <2>1, <2>2
<1>7. ASSUME NEW a \in Attempts, AcceptChunk(a) \/ AcceptManifest(a)
      PROVE  rjob'.status \in Terminal
  BY <1>1, <1>7 DEF AcceptChunk, AcceptManifest, Job, Terminal
<1> QED
  BY <1>3, <1>4, <1>5, <1>6, <1>7 DEF AgentNext

-----------------------------------------------------------------------------
(* The sender loses nothing.                                               *)

\* With an agent always; with a page until a run is resumed, which may be connected and not yet
\* own the session that the loop has made meanwhile.
InScope == plan.kind = "agent" \/ run.no <= 1

\* What the recipient's peer has gathered is with the sender, while the sender's peer lives.
SenderOwes(a) ==
    /\ InScope /\ Alive(peers["recipient"][a]) /\ peers["sender"][a].state # "closed"
    /\ sjob.status \notin Terminal

SenderHas ==
    \A a \in Attempts :
        SenderOwes(a) => plan.gather <= peers["recipient"][a].left + SGot(peers, session.pending, mail, a)

\* The peer of an attempt that has reached the recipient is the session's.
LEMMA OwesSession ==
    ASSUME Shape, Ledger, Order, NEW a \in Attempts,
           Alive(peers["recipient"][a]), peers["sender"][a].state # "closed"
    PROVE  session.att = a /\ Alive(peers["sender"][a]) /\ peers["sender"][a].state # "making"
<1>1. Offers(mail, a) + (IF peers["recipient"][a].state = "none" THEN 0 ELSE 1)
          <= IF peers["sender"][a].state \in {"none", "making"} THEN 0 ELSE 1
  BY DEF Ledger, Books, Once
<1>2. Offers(mail, a) \in Nat
  BY SameParts, PostNat
<1>3. peers["sender"][a].state \notin {"none", "making"}
  BY <1>1, <1>2 DEF Alive
<1> QED
  BY <1>3 DEF Order, OwnedBy, Alive

\* Sums that do not go down.
LEMMA Rises ==
    ASSUME NEW g \in Nat, NEW l \in Nat, NEW p \in Nat, NEW x \in Nat, NEW c \in Nat, NEW d \in Nat,
           NEW l2 \in Nat, NEW p2 \in Nat, NEW x2 \in Nat, NEW c2 \in Nat, NEW d2 \in Nat,
           g <= l + (p + x + c + d), l + p + x + c + d <= l2 + p2 + x2 + c2 + d2
    PROVE  g <= l2 + (p2 + x2 + c2 + d2)
  OBVIOUS

LEMMA SenderRises ==
    ASSUME Shape, Shape', plan' = plan, NEW a \in Attempts,
           plan.gather <= peers["recipient"][a].left + SGot(peers, session.pending, mail, a),
           peers["recipient"][a].left + Got(peers["sender"][a], a) + CountOf(a, session.pending)
              + Ice(mail, "run", a) + Ice(mail, "loop", a)
           <= peers'["recipient"][a].left + Got(peers'["sender"][a], a) + CountOf(a, session'.pending)
              + Ice(mail', "run", a) + Ice(mail', "loop", a)
    PROVE  plan'.gather <= peers'["recipient"][a].left + SGot(peers', session'.pending, mail', a)
<1>1. Typed(peers, session.pending, rsession.pending, Kept(states), mail)
  BY TypedNow
<1>2. Typed(peers', session'.pending, rsession'.pending, Kept(states'), mail')
  BY TypedThen
<1>3. plan.gather \in Nat
  BY PlanFacts, SenderFacts
<1>4. /\ peers["recipient"][a].left \in Nat /\ Got(peers["sender"][a], a) \in Nat
      /\ CountOf(a, session.pending) \in Nat /\ Ice(mail, "run", a) \in Nat /\ Ice(mail, "loop", a) \in Nat
  BY <1>1, Parts
<1>5. /\ peers'["recipient"][a].left \in Nat /\ Got(peers'["sender"][a], a) \in Nat
      /\ CountOf(a, session'.pending) \in Nat /\ Ice(mail', "run", a) \in Nat /\ Ice(mail', "loop", a) \in Nat
  BY <1>2, Parts
<1>6. plan.gather <= peers["recipient"][a].left
         + (Got(peers["sender"][a], a) + CountOf(a, session.pending) + Ice(mail, "run", a) + Ice(mail, "loop", a))
  BY DEF SGot
<1>7. plan.gather <= peers'["recipient"][a].left
         + (Got(peers'["sender"][a], a) + CountOf(a, session'.pending) + Ice(mail', "run", a) + Ice(mail', "loop", a))
  BY <1>3, <1>4, <1>5, <1>6, Rises
<1> QED
  BY <1>7 DEF SGot

\* Each part on its own.
LEMMA SenderParts ==
    ASSUME Shape, Shape', plan' = plan, NEW a \in Attempts,
           plan.gather <= peers["recipient"][a].left + SGot(peers, session.pending, mail, a),
           peers'["recipient"][a].left = peers["recipient"][a].left,
           Got(peers'["sender"][a], a) = Got(peers["sender"][a], a),
           session'.pending = session.pending,
           Ice(mail, "run", a) <= Ice(mail', "run", a), Ice(mail, "loop", a) <= Ice(mail', "loop", a)
    PROVE  plan'.gather <= peers'["recipient"][a].left + SGot(peers', session'.pending, mail', a)
<1>1. Typed(peers, session.pending, rsession.pending, Kept(states), mail)
  BY TypedNow
<1>2. Typed(peers', session'.pending, rsession'.pending, Kept(states'), mail')
  BY TypedThen
<1>3. /\ peers["recipient"][a].left \in Nat /\ Got(peers["sender"][a], a) \in Nat
      /\ CountOf(a, session.pending) \in Nat /\ Ice(mail, "run", a) \in Nat /\ Ice(mail, "loop", a) \in Nat
  BY <1>1, Parts
<1>4. Ice(mail', "run", a) \in Nat /\ Ice(mail', "loop", a) \in Nat
  BY <1>2, Parts
<1>5. peers["recipient"][a].left + Got(peers["sender"][a], a) + CountOf(a, session.pending)
              + Ice(mail, "run", a) + Ice(mail, "loop", a)
           <= peers'["recipient"][a].left + Got(peers'["sender"][a], a) + CountOf(a, session'.pending)
              + Ice(mail', "run", a) + Ice(mail', "loop", a)
  BY <1>3, <1>4
<1> QED
  BY <1>5, SenderRises

\* A candidate that is sent arrives.
LEMMA IceArrives ==
    ASSUME Shape, NEW box \in Boxes, NEW a \in Attempts,
           mail' = [mail EXCEPT ![box] = @ \o <<Message("ice", a)>>]
    PROVE  /\ Ice(mail', box, a) = Ice(mail, box, a) + 1
           /\ \A b \in Boxes \ {box} : mail'[b] = mail[b]
<1> DEFINE x == Message("ice", a)
           m2 == Posted(mail, box, x)
<1>1. mail \in Posts /\ x \in Post
  BY SameParts, Bounds DEF Message, Post, Types, Attempts
<1>2. mail' = m2
  BY DEF Posted
<1>3. /\ \A y : CountOf(y, m2[box]) = CountOf(y, mail[box]) + IF y = x THEN 1 ELSE 0
      /\ \A b \in Boxes \ {box} : m2[b] = mail[b]
  <2> HIDE DEF x
  <2> QED
    BY <1>1, PostOne
<1> HIDE DEF m2
<1>4. CountOf(x, m2[box]) = CountOf(x, mail[box]) + 1
  BY <1>3
<1>5. Ice(m2, box, a) = Ice(mail, box, a) + 1 /\ \A b \in Boxes \ {box} : m2[b] = mail[b]
  BY <1>3, <1>4, Zenon DEF Ice
<1> QED
  BY <1>2, <1>5, Zenon

\* A peer that gathers has one candidate less to gather and has got as much.
LEMMA GatherGot ==
    ASSUME NEW q \in Peer, q.left > 0, NEW a
    PROVE  /\ [q EXCEPT !.left = @ - 1].left = q.left - 1
           /\ Got([q EXCEPT !.left = @ - 1], a) = Got(q, a)
           /\ [q EXCEPT !.left = @ - 1].state = q.state
<1>1. [q EXCEPT !.left = @ - 1].left = q.left - 1
  BY DEF Peer
<1>2. /\ [q EXCEPT !.left = @ - 1].added = q.added /\ [q EXCEPT !.left = @ - 1].held = q.held
      /\ [q EXCEPT !.left = @ - 1].state = q.state
  BY DEF Peer
<1> QED
  BY <1>1, <1>2 DEF Got

LEMMA SenderHasWire ==
    ASSUME Shape, Shape', Ledger, Order, SenderHas, WireNext, UNCHANGED <<senderVars, agentVars, browserVars>>
    PROVE  SenderHas'
<1> SUFFICES ASSUME NEW a \in Attempts, SenderOwes(a)'
             PROVE  plan'.gather <= peers'["recipient"][a].left + SGot(peers', session'.pending, mail', a)
  BY DEF SenderHas
<1>1. /\ UNCHANGED <<plan, run, sjob, session>> /\ mail \in Posts /\ Boxes = {"run", "loop", "recipient"}
      /\ Fades(peers'["sender"][a], peers["sender"][a]) /\ Fades(peers'["recipient"][a], peers["recipient"][a])
  BY SameParts, WireTable, WireRecipients DEF Order, WireMoves, senderVars, Boxes
<1>2. /\ SenderOwes(a)
      /\ plan.gather <= peers["recipient"][a].left + SGot(peers, session.pending, mail, a)
  BY <1>1 DEF SenderOwes, InScope, Fades, SenderHas
<1>3. /\ peers["sender"][a] \in Peer /\ peers["recipient"][a] \in Peer
      /\ Ice(mail, "run", a) \in Nat /\ Ice(mail, "loop", a) \in Nat
  BY <1>1, SenderFacts, AgentFacts, PostNat
<1>4. ASSUME NEW side \in Sides, NEW b \in Attempts, Gather(side, b)
      PROVE  plan'.gather <= peers'["recipient"][a].left + SGot(peers', session'.pending, mail', a)
  <2>1. /\ peers[side][b].left > 0
        /\ \A s \in Sides, e \in Attempts :
              peers'[s][e] = IF s = side /\ e = b THEN [peers[s][e] EXCEPT !.left = @ - 1] ELSE peers[s][e]
        /\ side = "sender" => Writes(mail, {"ice"})
        /\ side = "recipient" => Sends(mail, {"ice"})
    BY <1>4, GatherTable
  <2>2. Ice(mail, "run", a) <= Ice(mail', "run", a) /\ Ice(mail, "loop", a) <= Ice(mail', "loop", a)
    BY <1>1, <2>1, Sent, Written DEF Sides
  <2>3. Got(peers'["sender"][a], a) = Got(peers["sender"][a], a)
    <3>1. CASE side = "sender" /\ b = a
      <4> DEFINE q == peers["sender"][a]
      <4>1. q \in Peer /\ q.left > 0 /\ peers'["sender"][a] = [q EXCEPT !.left = @ - 1]
        BY <1>3, <2>1, <3>1
      <4>2. Got([q EXCEPT !.left = @ - 1], a) = Got(q, a)
        <5> HIDE DEF q
        <5> QED
          BY <4>1, GatherGot
      <4> QED
        BY <4>1, <4>2
    <3>2. CASE ~(side = "sender" /\ b = a)
      BY <2>1, <3>2 DEF Sides
    <3> QED
      BY <3>1, <3>2
  <2>4. CASE ~(side = "recipient" /\ b = a)
    <3>1. peers'["recipient"][a] = peers["recipient"][a]
      BY <2>1, <2>4 DEF Sides
    <3> QED
      BY <1>1, <1>2, <2>2, <2>3, <3>1, SenderParts
  <2>5. CASE side = "recipient" /\ b = a
    <3> DEFINE box == IF run.on THEN "run" ELSE "loop"
    <3>1. peers["recipient"][a].via = 0
      BY DEF Order, Answerers, Answerer
    <3>2. mail' = [mail EXCEPT ![box] = @ \o <<Message("ice", a)>>]
      BY <1>4, <2>5, <3>1 DEF Gather, CanSend, Deliver, ToSender
    <3>3. box \in Boxes /\ box \in {"run", "loop"}
      BY <1>1
    <3> HIDE DEF box
    <3>4. Ice(mail', box, a) = Ice(mail, box, a) + 1 /\ \A o \in Boxes \ {box} : mail'[o] = mail[o]
      BY <3>2, <3>3, IceArrives
    <3>5. peers'["recipient"][a].left = peers["recipient"][a].left - 1
      BY <1>3, <2>1, <2>5, GatherGot DEF Sides
    <3>6. \/ Ice(mail', "run", a) = Ice(mail, "run", a) + 1 /\ Ice(mail', "loop", a) = Ice(mail, "loop", a)
          \/ Ice(mail', "loop", a) = Ice(mail, "loop", a) + 1 /\ Ice(mail', "run", a) = Ice(mail, "run", a)
      BY <1>1, <3>3, <3>4 DEF Ice
    <3>7. peers["recipient"][a].left \in Nat /\ Got(peers["sender"][a], a) \in Nat /\ CountOf(a, session.pending) \in Nat
      BY TypedNow, Parts
    <3>8. peers["recipient"][a].left + Got(peers["sender"][a], a) + CountOf(a, session.pending)
              + Ice(mail, "run", a) + Ice(mail, "loop", a)
           <= peers'["recipient"][a].left + Got(peers'["sender"][a], a) + CountOf(a, session'.pending)
              + Ice(mail', "run", a) + Ice(mail', "loop", a)
      <4> DEFINE l == peers["recipient"][a].left
                 l2 == peers'["recipient"][a].left
                 g == Got(peers["sender"][a], a)
                 g2 == Got(peers'["sender"][a], a)
                 x == CountOf(a, session.pending)
                 x2 == CountOf(a, session'.pending)
                 c == Ice(mail, "run", a)
                 c2 == Ice(mail', "run", a)
                 d == Ice(mail, "loop", a)
                 d2 == Ice(mail', "loop", a)
      <4>1. /\ l \in Nat /\ g \in Nat /\ x \in Nat /\ c \in Nat /\ d \in Nat
            /\ l2 = l - 1 /\ g2 = g /\ x2 = x
            /\ (c2 = c + 1 /\ d2 = d) \/ (d2 = d + 1 /\ c2 = c)
        BY <1>1, <1>3, <2>3, <3>5, <3>6, <3>7
      <4> HIDE DEF l, l2, g, g2, x, x2, c, c2, d, d2
      <4>2. l + g + x + c + d <= l2 + g2 + x2 + c2 + d2
        BY <4>1
      <4> QED
        BY <4>2 DEF l, l2, g, g2, x, x2, c, c2, d, d2
    <3> QED
      BY <1>1, <1>2, <3>8, SenderRises
  <2> QED
    BY <2>4, <2>5
<1>5. ASSUME NEW side \in Sides, NEW b \in Attempts, PeerCloses(side, b)
      PROVE  plan'.gather <= peers'["recipient"][a].left + SGot(peers', session'.pending, mail', a)
  <2>1. /\ mail' = mail
        /\ \A s \in Sides, e \in Attempts :
              peers'[s][e] = IF s = side /\ e = b THEN Close(peers[s][e]) ELSE peers[s][e]
    BY <1>5, ClosesTable
  <2>2. Alive(peers'["recipient"][a]) /\ peers'["sender"][a].state # "closed"
    BY DEF SenderOwes
  <2>3. ~Alive(Close(peers["recipient"][a])) /\ Close(peers["sender"][a]).state \in {"none", "closed"}
    BY <1>3, FadeClose, CloseShape
  <2>4. Alive(peers["sender"][a])
    BY <1>2, OwesSession DEF SenderOwes
  <2>5. Close(peers["sender"][a]).state = "closed"
    BY <1>3, <2>4, CloseShape DEF Alive
  <2>6. peers'["recipient"][a] = peers["recipient"][a] /\ peers'["sender"][a] = peers["sender"][a]
    BY <2>1, <2>2, <2>3, <2>5 DEF Sides
  <2> QED
    BY <1>1, <1>2, <1>3, <2>1, <2>6, SenderParts
<1>6. ASSUME NEW b \in Attempts, OpenChannel(b) \/ Cut(b)
      PROVE  plan'.gather <= peers'["recipient"][a].left + SGot(peers', session'.pending, mail', a)
  <2>1. mail' = mail /\ peers' = peers
    BY <1>6 DEF OpenChannel, Cut
  <2> QED
    BY <1>1, <1>2, <1>3, <2>1, SenderParts
<1> QED
  BY <1>4, <1>5, <1>6 DEF WireNext

-----------------------------------------------------------------------------
(* What the sender reads of the candidates.                                *)

LEMMA AddGains ==
    ASSUME NEW q \in Peer, NEW a \in Attempts, NEW c \in Attempts, q.state # "closed",
           AddICECandidate(q, a, c).state # "closed", q.state # "none"
    PROVE  Got(AddICECandidate(q, a, c), a) = Got(q, a) + Own(c, a)
<1>0. q.added \in Nat /\ CountOf(a, q.held) \in Nat /\ Got(q, a) \in Nat
  BY PeerNat
<1>h. q.held \in Seq(Attempts)
  BY DEF Peer, Waiting
<1>1. CASE Described(q)
  <2> DEFINE q2 == AddICECandidate(q, a, c)
  <2>1. q2 = [q EXCEPT !.added = IF c = a THEN q.added + 1 ELSE q.added]
    BY <1>1 DEF AddICECandidate, Described, Peer
  <2>2. q2.added = (IF c = a THEN q.added + 1 ELSE q.added) /\ q2.held = q.held
    BY <2>1 DEF Peer
  <2> HIDE DEF q2
  <2>3. Got(q2, a) = q2.added + CountOf(a, q.held) /\ Got(q, a) = q.added + CountOf(a, q.held)
    BY <2>2 DEF Got
  <2>4. Got(q2, a) = Got(q, a) + Own(c, a)
    BY <1>0, <2>2, <2>3 DEF Own
  <2> QED
    BY <2>4 DEF q2
<1>2. CASE ~Described(q) /\ Full(q.held)
  <2>1. AddICECandidate(q, a, c) = Close(q)
    BY <1>2 DEF AddICECandidate
  <2> QED
    BY <2>1, CloseShape
<1>3. CASE ~Described(q) /\ ~Full(q.held)
  <2> DEFINE q2 == AddICECandidate(q, a, c)
  <2>1. q2 = [q EXCEPT !.held = Append(q.held, c)]
    BY <1>3 DEF AddICECandidate, Peer
  <2>2. q2.added = q.added /\ q2.held = Append(q.held, c)
    BY <2>1 DEF Peer
  <2> HIDE DEF q2
  <2>3. CountOf(a, Append(q.held, c)) = CountOf(a, q.held) + IF a = c THEN 1 ELSE 0
    BY <1>h, CountAppend
  <2>4. Got(q2, a) = q.added + CountOf(a, Append(q.held, c)) /\ Got(q, a) = q.added + CountOf(a, q.held)
    BY <2>2 DEF Got
  <2>5. Got(q2, a) = Got(q, a) + Own(c, a)
    BY <1>0, <2>3, <2>4 DEF Own
  <2> QED
    BY <2>5 DEF q2
<1> QED
  BY <1>1, <1>2, <1>3

LEMMA FlushGot ==
    ASSUME NEW q \in Peer, NEW a
    PROVE  Got(flushPendingICE(q, a, "stable"), a) = Got(q, a)
<1> DEFINE q2 == flushPendingICE(q, a, "stable")
<1>1. q2 = [q EXCEPT !.state = "stable", !.added = q.added + CountOf(a, q.held), !.held = <<>>]
  BY DEF flushPendingICE, Peer
<1>2. q2.added = q.added + CountOf(a, q.held) /\ q2.held = <<>>
  BY <1>1 DEF Peer
<1> HIDE DEF q2
<1>3. Got(q, a) \in Nat /\ q.added + CountOf(a, q.held) \in Nat
  BY PeerNat
<1>4. CountOf(a, q2.held) = 0
  BY <1>2, CountEmpty
<1>5. Got(q2, a) = Got(q, a)
  BY <1>2, <1>3, <1>4 DEF Got
<1> QED
  BY <1>5 DEF q2

LEMMA IceHandled ==
    ASSUME Shape, NEW box \in {"run", "loop"}, NEW type, Keeps(box, type), NEW a \in Attempts
    PROVE  /\ type # "ice" => Ice(mail, "run", a) <= Ice(mail', "run", a)
                                /\ Ice(mail, "loop", a) <= Ice(mail', "loop", a)
           /\ type = "ice" => /\ Head(mail[box]).n \in Attempts
                              /\ Ice(mail, "run", a) + Ice(mail, "loop", a)
                                   <= Ice(mail', "run", a) + Ice(mail', "loop", a) + Own(Head(mail[box]).n, a)
<1> DEFINE h == Head(mail[box])
           m == Took(box)
           own == IF h = Message("ice", a) THEN 1 ELSE 0
<1>1. /\ box \in Boxes /\ "run" \in Boxes /\ "loop" \in Boxes /\ mail[box] # <<>> /\ h.type = type
      /\ Writes(m, {"failed"})
  BY DEF Keeps, Boxes
<1>2. /\ m \in Posts /\ mail \in Posts /\ h \in Post /\ h \in Letter
      /\ Ice(mail, "run", a) = Ice(m, "run", a) + (IF box = "run" THEN own ELSE 0)
      /\ Ice(mail, "loop", a) = Ice(m, "loop", a) + (IF box = "loop" THEN own ELSE 0)
  BY <1>1, Taken
<1>3. Ice(mail', "run", a) = Ice(m, "run", a) /\ Ice(mail', "loop", a) = Ice(m, "loop", a)
  <2> HIDE DEF m
  <2>1. mail'["loop"] = m["loop"] /\ mail'["run"] = m["run"]
    BY <1>1, <1>2, Written
  <2> QED
    BY <2>1 DEF Ice
<1>4. Ice(m, "run", a) \in Nat /\ Ice(m, "loop", a) \in Nat
  BY <1>1, <1>2, PostNat
<1>5. type # "ice" => own = 0
  BY <1>1 DEF Message
<1>6. type = "ice" => h.n \in Attempts
  BY <1>1, <1>2 DEF Letter
<1>7. type = "ice" => own = Own(h.n, a)
  <2>1. type = "ice" => h = [type |-> "ice", n |-> h.n]
    BY <1>1, <1>2 DEF Post
  <2>2. (h = Message("ice", a)) => h.n = a
    BY DEF Message
  <2> QED
    BY <2>1, <2>2 DEF Message, Own
<1>8. own \in Nat /\ Own(h.n, a) \in Nat
  BY DEF Own
<1> HIDE DEF h, m, own
<1>9. type # "ice" => Ice(mail, "run", a) <= Ice(mail', "run", a)
                        /\ Ice(mail, "loop", a) <= Ice(mail', "loop", a)
  BY <1>2, <1>3, <1>4, <1>5
<1>10. type = "ice" => Ice(mail, "run", a) + Ice(mail, "loop", a)
                         <= Ice(mail', "run", a) + Ice(mail', "loop", a) + Own(h.n, a)
  BY <1>2, <1>3, <1>4, <1>7, <1>8
<1> QED
  BY <1>6, <1>9, <1>10 DEF h

\* A run's number does not go down.
LEMMA RunRises ==
    ASSUME Shape, SenderSteps
    PROVE  run.no \in Nat /\ run'.no \in Nat /\ run'.no >= run.no
<1>1. run.no \in Nat /\ run \in [no : 0 .. MaxRuns, on : BOOLEAN, reads : BOOLEAN]
  BY WireFacts
<1>2. RunTransfer => run'.no = 1 /\ run.no = 0
  BY DEF RunTransfer
<1>3. Resume => run'.no = run.no + 1
  BY DEF Resume, handleResumeTransfer
<1>4. sendTransferOffer => run'.no = run.no
  BY <1>1 DEF sendTransferOffer
<1>5. ASSUME NEW box \in {"run", "loop"}, EnvelopeSteps(box)
      PROVE  run'.no = run.no
  BY <1>1, <1>5 DEF EnvelopeSteps, Ends, Ignores, Adopts, SenderMakes, Answered, SenderAdds, Saves,
     SenderDrops, Keeps
<1>6. ASSUME NEW a \in Attempts, SendWebRTCOffer(a) \/ Streams(a)
      PROVE  run' = run
  BY <1>6 DEF SendWebRTCOffer, Streams
<1>7. run'.no = run.no \/ run'.no = run.no + 1
  BY <1>1, <1>2, <1>3, <1>4, <1>5, <1>6 DEF SenderSteps
<1> QED
  BY <1>1, <1>7

\* What is owed after a step of the sender was owed before, by the session's peer.
LEMMA OwedBefore ==
    ASSUME Shape, Ledger, Order, Calls, SenderNext \/ Resume, SenderSteps, plan' = plan,
           NEW a \in Attempts, SenderOwes(a)'
    PROVE  /\ SenderOwes(a) /\ session.att = a /\ Alive(peers["sender"][a])
           /\ run.on => session.owner = run.no
           /\ peers'["recipient"][a] = peers["recipient"][a]
<1>1. peers'["recipient"][a] = peers["recipient"][a]
  BY RecipientsStay
<1>2. Alive(peers["recipient"][a]) /\ peers'["sender"][a].state # "closed"
  BY <1>1 DEF SenderOwes
<1>3. InScope
  BY RunRises, WireFacts DEF SenderOwes, InScope
<1>4. sjob.status \notin Terminal
  BY SenderJobOver DEF SenderOwes
<1>5. peers["sender"][a].state # "closed"
  <2>1. ASSUME NEW box \in {"run", "loop"}, SenderMakes(box), peers["sender"][a].state = "closed"
        PROVE  FALSE
    <3>1. PICK b \in Attempts, q \in Peer :
             peers["sender"][b].state = "none" /\ peers' = [peers EXCEPT !["sender"][b] = q]
      BY <2>1 DEF SenderMakes
    <3>2. a # b /\ peers \in Peers
      BY <2>1, <3>1, SenderFacts
    <3>3. peers'["sender"][a] = peers["sender"][a]
      BY <3>1, <3>2 DEF Peers, Sides
    <3> QED
      BY <1>2, <2>1, <3>3
  <2>2. (~\E box \in {"run", "loop"} : SenderMakes(box)) => SendersFade
    BY SenderFades
  <2> QED
    BY <1>2, <2>1, <2>2 DEF SendersFade, Fades
<1>6. session.att = a /\ Alive(peers["sender"][a])
  BY <1>2, <1>5, OwesSession
<1>7. run.on => session.owner = run.no
  <2>1. a # 0
    BY Bounds DEF Attempts
  <2> QED
    BY <1>3, <1>6, <2>1 DEF InScope, Calls, OneSession, Order, OwnedBy
<1> QED
  BY <1>1, <1>2, <1>3, <1>4, <1>5, <1>6, <1>7 DEF SenderOwes

\* One of the sender's peers changes.
LEMMA SenderSlot ==
    ASSUME Shape, NEW a \in Attempts, NEW q, peers' = [peers EXCEPT !["sender"][a] = q]
    PROVE  peers'["sender"][a] = q
<1>1. peers \in Peers
  BY SenderFacts
<1> QED
  BY <1>1 DEF Peers, Sides

LEMMA OnlyRecipient ==
    ASSUME Shape, NEW x \in Post, mail' = ToRecipient(mail, <<x>>)
    PROVE  mail'["run"] = mail["run"] /\ mail'["loop"] = mail["loop"]
<1>1. <<x>> \in Seq(Post) /\ mail \in Posts
  BY SameParts
<1>2. /\ ToRecipient(mail, <<x>>)["run"] = mail["run"]
      /\ ToRecipient(mail, <<x>>)["loop"] = mail["loop"]
  BY <1>1, ToRecipientBoxes
<1> QED
  BY <1>2

LEMMA SenderHasEnvelope ==
    ASSUME Shape, Shape', Order, SenderHas, plan' = plan, NEW box \in {"run", "loop"}, EnvelopeSteps(box),
           NEW a \in Attempts, SenderOwes(a)', SenderOwes(a), session.att = a, Alive(peers["sender"][a]),
           run.on => session.owner = run.no, peers'["recipient"][a] = peers["recipient"][a]
    PROVE  plan'.gather <= peers'["recipient"][a].left + SGot(peers', session'.pending, mail', a)
<1>1. /\ plan.gather <= peers["recipient"][a].left + SGot(peers, session.pending, mail, a)
      /\ a # 0 /\ peers'["sender"][a].state # "closed" /\ sjob'.status \notin Terminal
      /\ peers["sender"][a] \in Peer /\ peers \in Peers /\ a \in 0 .. MaxAttempts
  BY SenderFacts, Bounds DEF SenderOwes, SenderHas, Attempts
<1>2. /\ peers["recipient"][a].left \in Nat /\ Got(peers["sender"][a], a) \in Nat
      /\ CountOf(a, session.pending) \in Nat /\ Ice(mail, "run", a) \in Nat /\ Ice(mail, "loop", a) \in Nat
  BY TypedNow, Parts
<1>3. /\ Ice(mail', "run", a) \in Nat /\ Ice(mail', "loop", a) \in Nat
  BY TypedThen, Parts
<1>4. peers' # CloseAt(peers, "sender", a)
  <2>1. CloseAt(peers, "sender", a)["sender"][a] = Close(peers["sender"][a])
    BY <1>1, CloseAtShape DEF Sides
  <2>2. Close(peers["sender"][a]).state = "closed"
    BY <1>1, CloseShape DEF Alive
  <2> QED
    BY <1>1, <2>1, <2>2
<1>5. CASE Ends
  BY <1>4, <1>5 DEF Ends
<1>6. CASE Ignores(box) \/ Adopts(box)
  <2>1. PICK type : Keeps(box, type) /\ type # "ice"
    BY <1>1, <1>6 DEF Ignores, Adopts
  <2>2. peers' = peers /\ session'.pending = session.pending
    BY <1>6 DEF Ignores, Adopts
  <2>3. Ice(mail, "run", a) <= Ice(mail', "run", a) /\ Ice(mail, "loop", a) <= Ice(mail', "loop", a)
    BY <2>1, IceHandled
  <2> QED
    BY <1>1, <2>2, <2>3, SenderParts
<1>7. CASE SenderMakes(box) \/ Saves(box)
  BY <1>1, <1>7 DEF SenderMakes, Saves
<1>8. CASE Answered(box)
  <2>1. /\ Keeps(box, "answer") /\ session' = session
        /\ peers' = [peers EXCEPT !["sender"][a] = flushPendingICE(peers["sender"][a], a, "stable")]
    BY <1>1, <1>8 DEF Answered
  <2>2. peers'["sender"][a] = flushPendingICE(peers["sender"][a], a, "stable")
    BY <2>1, SenderSlot
  <2>3. Got(peers'["sender"][a], a) = Got(peers["sender"][a], a)
    BY <1>1, <2>2, FlushGot
  <2>4. Ice(mail, "run", a) <= Ice(mail', "run", a) /\ Ice(mail, "loop", a) <= Ice(mail', "loop", a)
    BY <2>1, IceHandled
  <2> QED
    BY <1>1, <2>1, <2>3, <2>4, SenderParts
<1>9. CASE SenderAdds(box)
  <2> DEFINE c == Head(mail[box]).n
  <2>1. /\ Keeps(box, "ice") /\ session' = session
        /\ peers' = [peers EXCEPT !["sender"][a] = AddICECandidate(peers["sender"][a], a, c)]
    BY <1>1, <1>9 DEF SenderAdds
  <2>2. /\ c \in Attempts
        /\ Ice(mail, "run", a) + Ice(mail, "loop", a)
              <= Ice(mail', "run", a) + Ice(mail', "loop", a) + Own(c, a)
    BY <2>1, IceHandled
  <2> HIDE DEF c
  <2>3. peers'["sender"][a] = AddICECandidate(peers["sender"][a], a, c)
    BY <2>1, SenderSlot
  <2>4. Got(AddICECandidate(peers["sender"][a], a, c), a) = Got(peers["sender"][a], a) + Own(c, a)
    BY <1>1, <2>2, <2>3, AddGains DEF Alive
  <2>5. Own(c, a) \in Nat
    BY DEF Own
  <2>6. peers["recipient"][a].left + Got(peers["sender"][a], a) + CountOf(a, session.pending)
              + Ice(mail, "run", a) + Ice(mail, "loop", a)
           <= peers'["recipient"][a].left + Got(peers'["sender"][a], a) + CountOf(a, session'.pending)
              + Ice(mail', "run", a) + Ice(mail', "loop", a)
    <3> DEFINE l == peers["recipient"][a].left
               l2 == peers'["recipient"][a].left
               g == Got(peers["sender"][a], a)
               g2 == Got(peers'["sender"][a], a)
               x == CountOf(a, session.pending)
               x2 == CountOf(a, session'.pending)
               i == Ice(mail, "run", a)
               i2 == Ice(mail', "run", a)
               d == Ice(mail, "loop", a)
               d2 == Ice(mail', "loop", a)
               o == Own(c, a)
    <3>1. /\ l \in Nat /\ g \in Nat /\ x \in Nat /\ i \in Nat /\ d \in Nat /\ o \in Nat /\ i2 \in Nat /\ d2 \in Nat
          /\ l2 = l /\ g2 = g + o /\ x2 = x /\ i + d <= i2 + d2 + o
      BY <1>2, <1>3, <2>1, <2>2, <2>3, <2>4, <2>5
    <3> HIDE DEF l, l2, g, g2, x, x2, i, i2, d, d2, o
    <3>2. l + g + x + i + d <= l2 + g2 + x2 + i2 + d2
      BY <3>1
    <3> QED
      BY <3>2 DEF l, l2, g, g2, x, x2, i, i2, d, d2
  <2> QED
    BY <1>1, <2>6, SenderRises
<1>10. CASE SenderDrops(box)
  BY <1>4, <1>10 DEF SenderDrops
<1> QED
  BY <1>5, <1>6, <1>7, <1>8, <1>9, <1>10 DEF EnvelopeSteps

LEMMA SenderHasSender ==
    ASSUME Shape, Shape', Ledger, Order, Calls, SenderHas, SenderNext \/ Resume, SenderSteps, plan' = plan
    PROVE  SenderHas'
<1> SUFFICES ASSUME NEW a \in Attempts, SenderOwes(a)'
             PROVE  plan'.gather <= peers'["recipient"][a].left + SGot(peers', session'.pending, mail', a)
  BY DEF SenderHas
<1>1. /\ SenderOwes(a) /\ session.att = a /\ Alive(peers["sender"][a])
      /\ run.on => session.owner = run.no
      /\ peers'["recipient"][a] = peers["recipient"][a]
  BY OwedBefore
<1>2. /\ plan.gather <= peers["recipient"][a].left + SGot(peers, session.pending, mail, a)
      /\ mail \in Posts /\ peers["sender"][a] \in Peer
      /\ Ice(mail, "run", a) \in Nat /\ Ice(mail, "loop", a) \in Nat
  BY <1>1, SameParts, SenderFacts, TypedNow, Parts DEF SenderHas
<1>3. ASSUME NEW box \in {"run", "loop"}, EnvelopeSteps(box)
      PROVE  plan'.gather <= peers'["recipient"][a].left + SGot(peers', session'.pending, mail', a)
  BY <1>1, <1>3, SenderHasEnvelope
<1>4. ASSUME mail'["run"] = mail["run"], mail'["loop"] = mail["loop"], session' = session,
             Got(peers'["sender"][a], a) = Got(peers["sender"][a], a)
      PROVE  plan'.gather <= peers'["recipient"][a].left + SGot(peers', session'.pending, mail', a)
  <2>1. Ice(mail, "run", a) <= Ice(mail', "run", a) /\ Ice(mail, "loop", a) <= Ice(mail', "loop", a)
    BY <1>2, <1>4 DEF Ice
  <2> QED
    BY <1>1, <1>2, <1>4, <2>1, SenderParts
<1>5. CASE RunTransfer \/ Resume
  BY <1>4, <1>5 DEF RunTransfer, Resume, handleResumeTransfer, senderVars
<1>6. CASE sendTransferOffer
  <2>1. Message("offer", 0) \in Post
    BY DEF Message, Post, Types
  <2>2. mail' = ToRecipient(mail, <<Message("offer", 0)>>) /\ session' = session /\ peers' = peers
    BY <1>6 DEF sendTransferOffer, senderVars
  <2>3. mail'["run"] = mail["run"] /\ mail'["loop"] = mail["loop"]
    BY <2>1, <2>2, OnlyRecipient
  <2> QED
    BY <1>4, <2>2, <2>3
<1>7. ASSUME NEW b \in Attempts, SendWebRTCOffer(b)
      PROVE  plan'.gather <= peers'["recipient"][a].left + SGot(peers', session'.pending, mail', a)
  <2>1. Message("webrtc_offer", b) \in Post
    BY Bounds DEF Message, Post, Types, Attempts
  <2>2. /\ mail' = ToRecipient(mail, <<Message("webrtc_offer", b)>>) /\ session' = session
        /\ peers' = [peers EXCEPT !["sender"][b].state = "offered"]
    BY <1>7 DEF SendWebRTCOffer, senderVars
  <2>3. mail'["run"] = mail["run"] /\ mail'["loop"] = mail["loop"]
    BY <2>1, <2>2, OnlyRecipient
  <2>4. /\ peers'["sender"][a].added = peers["sender"][a].added
        /\ peers'["sender"][a].held = peers["sender"][a].held
    <3>1. peers \in Peers /\ peers["sender"][b] \in Peer
      BY SenderFacts
    <3>2. peers'["sender"][a] = IF b = a THEN [peers["sender"][a] EXCEPT !.state = "offered"]
                                ELSE peers["sender"][a]
      BY <2>2, <3>1 DEF Peers, Sides
    <3> QED
      BY <1>2, <3>2 DEF Peer
  <2>5. Got(peers'["sender"][a], a) = Got(peers["sender"][a], a)
    BY <2>4 DEF Got
  <2> QED
    BY <1>4, <2>2, <2>3, <2>5
<1>8. ASSUME NEW b \in Attempts, Streams(b)
      PROVE  plan'.gather <= peers'["recipient"][a].left + SGot(peers', session'.pending, mail', a)
  <2>1. PICK types : Writes(mail, types)
    BY <1>8 DEF Streams
  <2>2. mail'["run"] = mail["run"] /\ mail'["loop"] = mail["loop"]
    BY <1>2, <2>1, Written
  <2> QED
    BY <1>4, <1>8, <2>2 DEF Streams
<1> QED
  BY <1>3, <1>5, <1>6, <1>7, <1>8 DEF SenderSteps

LEMMA SenderHasRecipient ==
    ASSUME Shape, Shape', SenderHas, RecipientMoves, UNCHANGED <<sjob, session>>, run' = run, plan' = plan
    PROVE  SenderHas'
<1> SUFFICES ASSUME NEW a \in Attempts, SenderOwes(a)'
             PROVE  plan'.gather <= peers'["recipient"][a].left + SGot(peers', session'.pending, mail', a)
  BY DEF SenderHas
<1>1. /\ peers'["sender"][a] = peers["sender"][a]
      /\ Turns(peers'["recipient"][a], peers["recipient"][a])
      /\ Ice(mail, "run", a) <= Ice(mail', "run", a) /\ Ice(mail, "loop", a) <= Ice(mail', "loop", a)
  BY DEF RecipientMoves, PeersTurn
<1>2. peers'["recipient"][a].state # "closed"
  BY DEF SenderOwes, Alive
<1>3. CASE peers'["recipient"][a].left = peers["recipient"][a].left /\ Alive(peers["recipient"][a])
  <2>1. SenderOwes(a)
    BY <1>1, <1>3 DEF SenderOwes, InScope
  <2>2. plan.gather <= peers["recipient"][a].left + SGot(peers, session.pending, mail, a)
    BY <2>1 DEF SenderHas
  <2> QED
    BY <1>1, <1>3, <2>2, SenderParts
<1>4. CASE peers'["recipient"][a].left = plan.gather
  <2>1. SGot(peers', session'.pending, mail', a) \in Nat
    BY TypedThen, Parts
  <2>2. plan.gather \in Nat
    BY SenderFacts, PlanFacts
  <2> QED
    BY <1>4, <2>1, <2>2
<1>5. Alive(peers'["recipient"][a])
  BY DEF SenderOwes
<1> QED
  BY <1>1, <1>2, <1>3, <1>4, <1>5 DEF Turns

LEMMA SenderHasStep ==
    ASSUME Shape, Shape', Ledger, Order, Calls, SenderHas, [Next]_vars
    PROVE  SenderHas'
<1>1. CASE UNCHANGED vars
  <2>1. UNCHANGED <<plan, run, mail, peers, session, sjob>>
    BY <1>1 DEF vars, wire, senderVars
  <2> QED
    BY <2>1 DEF SenderHas, SenderOwes, InScope
<1>2. CASE Next
  <2>1. plan' = plan
    BY <1>2, PlanStays
  <2>2. CASE WireNext /\ UNCHANGED <<senderVars, agentVars, browserVars>>
    BY <2>2, SenderHasWire
  <2>3. CASE (SenderNext \/ Resume) /\ UNCHANGED <<agentVars, browserVars>>
    <3>1. SenderSteps
      BY <2>3, SenderTable DEF Order
    <3> QED
      BY <2>1, <2>3, <3>1, SenderHasSender
  <2>4. CASE AgentNext /\ UNCHANGED <<senderVars, browserVars>>
    <3>1. RecipientMoves /\ run' = run
      BY <2>4, AgentTable, AgentIsRecipient, AgentStays DEF Order
    <3> QED
      BY <2>1, <2>4, <3>1, SenderHasRecipient DEF senderVars
  <2>5. CASE BrowserNext /\ UNCHANGED <<senderVars, agentVars>>
    <3>1. RecipientMoves /\ run' = run
      BY <2>5, PageIsRecipient, BrowserStays DEF Order
    <3> QED
      BY <2>1, <2>5, <3>1, SenderHasRecipient DEF senderVars
  <2> QED
    BY <1>2, <2>2, <2>3, <2>4, <2>5 DEF Next
<1> QED
  BY <1>1, <1>2

-----------------------------------------------------------------------------
(* Nor does the receiving agent.                                           *)

RecipientOwes(a) ==
    /\ plan.kind = "agent" /\ Alive(peers["sender"][a]) /\ peers["recipient"][a].state # "closed"
    /\ rjob.status \notin Terminal

\* The part of the recipient that an agent has.
AGot(p, y, m, a) == Got(p["recipient"][a], a) + CountOf(a, y) + Ice(m, "recipient", a)

RecipientHas ==
    \A a \in Attempts :
        RecipientOwes(a) => plan.gather <= peers["sender"][a].left + AGot(peers, rsession.pending, mail, a)

LEMMA RecipientRises ==
    ASSUME Shape, Shape', plan' = plan, NEW a \in Attempts,
           plan.gather <= peers["sender"][a].left + AGot(peers, rsession.pending, mail, a),
           peers["sender"][a].left + Got(peers["recipient"][a], a) + CountOf(a, rsession.pending)
              + Ice(mail, "recipient", a)
           <= peers'["sender"][a].left + Got(peers'["recipient"][a], a) + CountOf(a, rsession'.pending)
              + Ice(mail', "recipient", a)
    PROVE  plan'.gather <= peers'["sender"][a].left + AGot(peers', rsession'.pending, mail', a)
<1>1. Typed(peers, session.pending, rsession.pending, Kept(states), mail)
  BY TypedNow
<1>2. Typed(peers', session'.pending, rsession'.pending, Kept(states'), mail')
  BY TypedThen
<1>3. plan.gather \in Nat
  BY PlanFacts, SenderFacts
<1> DEFINE g == plan.gather
           l == peers["sender"][a].left
           p == Got(peers["recipient"][a], a)
           x == CountOf(a, rsession.pending)
           c == Ice(mail, "recipient", a)
           l2 == peers'["sender"][a].left
           p2 == Got(peers'["recipient"][a], a)
           x2 == CountOf(a, rsession'.pending)
           c2 == Ice(mail', "recipient", a)
<1>4. l \in Nat /\ p \in Nat /\ x \in Nat /\ c \in Nat
  BY <1>1, Parts
<1>5. l2 \in Nat /\ p2 \in Nat /\ x2 \in Nat /\ c2 \in Nat
  BY <1>2, Parts
<1>6. g <= l + (p + x + c) /\ l + p + x + c <= l2 + p2 + x2 + c2
  BY DEF AGot
<1>7. g \in Nat
  BY <1>3
<1> HIDE DEF g, l, p, x, c, l2, p2, x2, c2
<1>8. g <= l2 + (p2 + x2 + c2)
  BY <1>4, <1>5, <1>6, <1>7
<1> QED
  BY <1>8 DEF g, l2, p2, x2, c2, AGot

\* Each part on its own.
LEMMA RecipientParts ==
    ASSUME Shape, Shape', plan' = plan, NEW a \in Attempts,
           plan.gather <= peers["sender"][a].left + AGot(peers, rsession.pending, mail, a),
           peers'["sender"][a].left = peers["sender"][a].left,
           Got(peers'["recipient"][a], a) = Got(peers["recipient"][a], a),
           rsession'.pending = rsession.pending,
           Ice(mail, "recipient", a) <= Ice(mail', "recipient", a)
    PROVE  plan'.gather <= peers'["sender"][a].left + AGot(peers', rsession'.pending, mail', a)
<1>1. /\ peers["sender"][a].left \in Nat /\ Got(peers["recipient"][a], a) \in Nat
      /\ CountOf(a, rsession.pending) \in Nat /\ Ice(mail, "recipient", a) \in Nat
  BY TypedNow, Parts
<1>2. Ice(mail', "recipient", a) \in Nat
  BY TypedThen, Parts
<1>3. peers["sender"][a].left + Got(peers["recipient"][a], a) + CountOf(a, rsession.pending)
              + Ice(mail, "recipient", a)
           <= peers'["sender"][a].left + Got(peers'["recipient"][a], a) + CountOf(a, rsession'.pending)
              + Ice(mail', "recipient", a)
  BY <1>1, <1>2
<1> QED
  BY <1>3, RecipientRises

LEMMA RecipientHasWire ==
    ASSUME Shape, Shape', Order, RecipientHas, WireNext, UNCHANGED <<senderVars, agentVars, browserVars>>
    PROVE  RecipientHas'
<1> SUFFICES ASSUME NEW a \in Attempts, RecipientOwes(a)'
             PROVE  plan'.gather <= peers'["sender"][a].left + AGot(peers', rsession'.pending, mail', a)
  BY DEF RecipientHas
<1>1. /\ UNCHANGED <<plan, online, run, rjob, rsession, session>> /\ mail \in Posts
      /\ Boxes = {"run", "loop", "recipient"}
      /\ Fades(peers'["sender"][a], peers["sender"][a]) /\ Fades(peers'["recipient"][a], peers["recipient"][a])
  BY SameParts, WireTable, WireRecipients DEF Order, WireMoves, senderVars, agentVars, Boxes
<1>2. /\ RecipientOwes(a)
      /\ plan.gather <= peers["sender"][a].left + AGot(peers, rsession.pending, mail, a)
  BY <1>1 DEF RecipientOwes, Fades, RecipientHas
<1>3. /\ peers["sender"][a] \in Peer /\ peers["recipient"][a] \in Peer /\ Ice(mail, "recipient", a) \in Nat
  BY <1>1, SenderFacts, AgentFacts, PostNat
<1>4. ASSUME NEW side \in Sides, NEW b \in Attempts, Gather(side, b)
      PROVE  plan'.gather <= peers'["sender"][a].left + AGot(peers', rsession'.pending, mail', a)
  <2>1. /\ peers[side][b].left > 0
        /\ \A s \in Sides, e \in Attempts :
              peers'[s][e] = IF s = side /\ e = b THEN [peers[s][e] EXCEPT !.left = @ - 1] ELSE peers[s][e]
        /\ side = "sender" => Writes(mail, {"ice"})
        /\ side = "recipient" => Sends(mail, {"ice"})
    BY <1>4, GatherTable
  <2>2. Ice(mail, "recipient", a) <= Ice(mail', "recipient", a)
    BY <1>1, <2>1, Sent, Written DEF Sides
  <2>3. Got(peers'["recipient"][a], a) = Got(peers["recipient"][a], a)
    <3>1. CASE side = "recipient" /\ b = a
      <4> DEFINE q == peers["recipient"][a]
      <4>1. q \in Peer /\ q.left > 0 /\ peers'["recipient"][a] = [q EXCEPT !.left = @ - 1]
        BY <1>3, <2>1, <3>1
      <4>2. Got([q EXCEPT !.left = @ - 1], a) = Got(q, a)
        <5> HIDE DEF q
        <5> QED
          BY <4>1, GatherGot
      <4> QED
        BY <4>1, <4>2
    <3>2. CASE ~(side = "recipient" /\ b = a)
      BY <2>1, <3>2 DEF Sides
    <3> QED
      BY <3>1, <3>2
  <2>4. CASE ~(side = "sender" /\ b = a)
    <3>1. peers'["sender"][a] = peers["sender"][a]
      BY <2>1, <2>4 DEF Sides
    <3> QED
      BY <1>1, <1>2, <2>2, <2>3, <3>1, RecipientParts
  <2>5. CASE side = "sender" /\ b = a
    <3>1. Alive(peers["sender"][a])
      BY <1>2 DEF RecipientOwes
    <3>2. online
      BY <3>1 DEF Order, Unheard, Silent, Alive, Sides
    <3>3. CanSend(peers["sender"][a].via)
      BY <3>1 DEF Order, OwnedBy, CanSend
    <3>4. mail' = [mail EXCEPT !["recipient"] = @ \o <<Message("ice", a)>>]
      BY <1>4, <2>5, <3>2, <3>3 DEF Gather, Deliver, ToRecipient
    <3>5. Ice(mail', "recipient", a) = Ice(mail, "recipient", a) + 1
      BY <1>1, <3>4, IceArrives
    <3>6. peers'["sender"][a].left = peers["sender"][a].left - 1
      BY <1>3, <2>1, <2>5, GatherGot DEF Sides
    <3>7. peers["sender"][a].left \in Nat /\ Got(peers["recipient"][a], a) \in Nat /\ CountOf(a, rsession.pending) \in Nat
      BY TypedNow, Parts
    <3>8. peers["sender"][a].left + Got(peers["recipient"][a], a) + CountOf(a, rsession.pending)
              + Ice(mail, "recipient", a)
           <= peers'["sender"][a].left + Got(peers'["recipient"][a], a) + CountOf(a, rsession'.pending)
              + Ice(mail', "recipient", a)
      <4> DEFINE l == peers["sender"][a].left
                 l2 == peers'["sender"][a].left
                 g == Got(peers["recipient"][a], a)
                 g2 == Got(peers'["recipient"][a], a)
                 x == CountOf(a, rsession.pending)
                 x2 == CountOf(a, rsession'.pending)
                 c == Ice(mail, "recipient", a)
                 c2 == Ice(mail', "recipient", a)
      <4>1. /\ l \in Nat /\ g \in Nat /\ x \in Nat /\ c \in Nat
            /\ l2 = l - 1 /\ g2 = g /\ x2 = x /\ c2 = c + 1
        BY <1>1, <1>3, <2>3, <3>5, <3>6, <3>7
      <4> HIDE DEF l, l2, g, g2, x, x2, c, c2
      <4>2. l + g + x + c <= l2 + g2 + x2 + c2
        BY <4>1
      <4> QED
        BY <4>2 DEF l, l2, g, g2, x, x2, c, c2
    <3> QED
      BY <1>1, <1>2, <3>8, RecipientRises
  <2> QED
    BY <2>4, <2>5
<1>5. ASSUME NEW side \in Sides, NEW b \in Attempts, PeerCloses(side, b)
      PROVE  plan'.gather <= peers'["sender"][a].left + AGot(peers', rsession'.pending, mail', a)
  <2>1. /\ mail' = mail /\ peers[side][b].state = "stable"
        /\ \A s \in Sides, e \in Attempts :
              peers'[s][e] = IF s = side /\ e = b THEN Close(peers[s][e]) ELSE peers[s][e]
    BY <1>5, ClosesTable
  <2>2. Alive(peers'["sender"][a]) /\ peers'["recipient"][a].state # "closed"
    BY DEF RecipientOwes
  <2>3. /\ ~Alive(Close(peers["sender"][a]))
        /\ peers["recipient"][a].state = "stable" => Close(peers["recipient"][a]).state = "closed"
    BY <1>3, FadeClose, CloseShape
  <2>4. peers'["recipient"][a] = peers["recipient"][a] /\ peers'["sender"][a] = peers["sender"][a]
    BY <2>1, <2>2, <2>3 DEF Sides
  <2> QED
    BY <1>1, <1>2, <1>3, <2>1, <2>4, RecipientParts
<1>6. ASSUME NEW b \in Attempts, OpenChannel(b) \/ Cut(b)
      PROVE  plan'.gather <= peers'["sender"][a].left + AGot(peers', rsession'.pending, mail', a)
  <2>1. mail' = mail /\ peers' = peers
    BY <1>6 DEF OpenChannel, Cut
  <2> QED
    BY <1>1, <1>2, <1>3, <2>1, RecipientParts
<1> QED
  BY <1>4, <1>5, <1>6 DEF WireNext

\* The sender adds to what the recipient has to read.
LEMMA SenderPosts ==
    ASSUME Shape, SenderSteps, NEW a \in Attempts
    PROVE  Ice(mail, "recipient", a) <= Ice(mail', "recipient", a)
<1>1. mail \in Posts /\ {"run", "loop", "recipient"} \subseteq Boxes /\ Ice(mail, "recipient", a) \in Nat
  BY SameParts, PostNat DEF Boxes
<1>2. ASSUME mail'["recipient"] = mail["recipient"]
      PROVE  Ice(mail, "recipient", a) <= Ice(mail', "recipient", a)
  BY <1>1, <1>2 DEF Ice
<1>3. ASSUME NEW types, Writes(mail, types)
      PROVE  Ice(mail, "recipient", a) <= Ice(mail', "recipient", a)
  BY <1>1, <1>3, Written
<1>4. CASE RunTransfer \/ Resume
  BY <1>2, <1>4 DEF RunTransfer, Resume, handleResumeTransfer
<1>5. CASE sendTransferOffer
  <2>1. Speaks(<<Message("offer", 0)>>, {"offer"})
    BY SpeaksFew DEF Types
  <2>2. Writes(mail, {"offer"})
    BY <1>5, <2>1 DEF sendTransferOffer, Writes
  <2> QED
    BY <1>3, <2>2
<1>6. ASSUME NEW b \in Attempts, SendWebRTCOffer(b)
      PROVE  Ice(mail, "recipient", a) <= Ice(mail', "recipient", a)
  <2>1. Speaks(<<Message("webrtc_offer", b)>>, {"webrtc_offer"})
    BY SpeaksFew, Bounds DEF Types, Attempts
  <2>2. Writes(mail, {"webrtc_offer"})
    BY <1>6, <2>1 DEF SendWebRTCOffer, Writes
  <2> QED
    BY <1>3, <2>2
<1>7. ASSUME NEW b \in Attempts, Streams(b)
      PROVE  Ice(mail, "recipient", a) <= Ice(mail', "recipient", a)
  BY <1>3, <1>7 DEF Streams
<1>8. ASSUME NEW box \in {"run", "loop"}, EnvelopeSteps(box)
      PROVE  Ice(mail, "recipient", a) <= Ice(mail', "recipient", a)
  <2>1. CASE Ends
    <3>1. mail'["recipient"] = mail["recipient"]
      BY <1>1, <2>1 DEF Ends, Posts
    <3> QED
      BY <1>2, <3>1
  <2>2. CASE ~Ends
    <3>1. PICK type : Keeps(box, type)
      BY <1>8, <2>2 DEF EnvelopeSteps, Ignores, Adopts, SenderMakes, Answered, SenderAdds, Saves, SenderDrops
    <3>2. mail[box] # <<>> /\ Writes(Took(box), {"failed"})
      BY <3>1 DEF Keeps
    <3>3. Took(box) \in Posts /\ Took(box)["recipient"] = mail["recipient"]
      BY <1>1, <3>2, Taken
    <3>4. Ice(Took(box), "recipient", a) <= Ice(mail', "recipient", a)
      BY <1>1, <3>2, <3>3, Written
    <3> QED
      BY <3>3, <3>4 DEF Ice
  <2> QED
    BY <2>1, <2>2
<1> QED
  BY <1>4, <1>5, <1>6, <1>7, <1>8 DEF SenderSteps

LEMMA RecipientHasSender ==
    ASSUME Shape, Shape', Order, RecipientHas, SenderSteps, plan' = plan, UNCHANGED agentVars
    PROVE  RecipientHas'
<1> SUFFICES ASSUME NEW a \in Attempts, RecipientOwes(a)'
             PROVE  plan'.gather <= peers'["sender"][a].left + AGot(peers', rsession'.pending, mail', a)
  BY DEF RecipientHas
<1>1. /\ UNCHANGED <<rjob, rsession>> /\ peers'["recipient"][a] = peers["recipient"][a]
      /\ Ice(mail, "recipient", a) <= Ice(mail', "recipient", a)
  BY RecipientsStay, SenderPosts DEF agentVars
<1>2. Alive(peers'["sender"][a])
  BY DEF RecipientOwes
<1>3. ASSUME NEW box \in {"run", "loop"}, SenderMakes(box)
      PROVE  plan'.gather <= peers'["sender"][a].left + AGot(peers', rsession'.pending, mail', a)
  <2>1. PICK b \in Attempts, q \in Peer :
           /\ session.att = 0 /\ q.left = plan.gather /\ peers' = [peers EXCEPT !["sender"][b] = q]
    BY <1>3 DEF SenderMakes
  <2>2. ~Alive(peers["sender"][a]) /\ peers \in Peers
    BY <2>1, SenderFacts, Bounds DEF Order, OwnedBy, Attempts
  <2>3. a # b => peers'["sender"][a] = peers["sender"][a]
    BY <2>1, <2>2 DEF Peers, Sides
  <2>4. peers'["sender"][a].left = plan.gather
    BY <1>2, <2>1, <2>2, <2>3, SenderSlot
  <2>5. AGot(peers', rsession'.pending, mail', a) \in Nat
    <3>1. /\ Got(peers'["recipient"][a], a) \in Nat /\ CountOf(a, rsession'.pending) \in Nat
          /\ Ice(mail', "recipient", a) \in Nat
      BY TypedThen, Parts
    <3> QED
      BY <3>1 DEF AGot
  <2>6. plan.gather \in Nat
    BY SenderFacts, PlanFacts
  <2> QED
    BY <2>4, <2>5, <2>6
<1>4. CASE ~\E box \in {"run", "loop"} : SenderMakes(box)
  <2>1. Alive(peers["sender"][a]) /\ peers'["sender"][a].left = peers["sender"][a].left
    BY <1>2, <1>4, SenderFades DEF SendersFade, Fades
  <2>2. plan.gather <= peers["sender"][a].left + AGot(peers, rsession.pending, mail, a)
    BY <1>1, <2>1 DEF RecipientHas, RecipientOwes
  <2> QED
    BY <1>1, <2>1, <2>2, RecipientParts
<1> QED
  BY <1>3, <1>4

\* What the agent reads of the candidates.
LEMMA AgentHears ==
    ASSUME Shape, NEW type, AgentReads(type), NEW types, Sends(Took("recipient"), types), NEW a \in Attempts
    PROVE  /\ Ice(mail, "recipient", a)
                = Ice(mail', "recipient", a) + (IF type = "ice" THEN Own(Head(mail["recipient"]).n, a) ELSE 0)
           /\ Ice(mail', "recipient", a) \in Nat
<1> DEFINE h == Head(mail["recipient"])
           m == Took("recipient")
           own == IF h = Message("ice", a) THEN 1 ELSE 0
<1>1. mail["recipient"] # <<>> /\ "recipient" \in Boxes /\ h.type = type
  BY AgentReadsFacts
<1>2. /\ m \in Posts /\ h \in Post /\ Sends(m, types)
      /\ Ice(mail, "recipient", a) = Ice(m, "recipient", a) + own
  BY <1>1, Taken
<1>3. Ice(mail', "recipient", a) = Ice(m, "recipient", a)
  <2> HIDE DEF m
  <2>1. mail'["recipient"] = m["recipient"]
    BY <1>2, Sent
  <2> QED
    BY <2>1 DEF Ice
<1>4. Ice(m, "recipient", a) \in Nat
  BY <1>1, <1>2, PostNat
<1>5. own = IF type = "ice" THEN Own(h.n, a) ELSE 0
  <2>1. type = "ice" => h = [type |-> "ice", n |-> h.n]
    BY <1>1, <1>2 DEF Post
  <2>2. (h = Message("ice", a)) => h.n = a /\ h.type = "ice"
    BY DEF Message
  <2> QED
    BY <1>1, <2>1, <2>2 DEF Message, Own
<1> HIDE DEF h, m, own
<1>6. /\ Ice(mail, "recipient", a) = Ice(mail', "recipient", a) + (IF type = "ice" THEN Own(h.n, a) ELSE 0)
      /\ Ice(mail', "recipient", a) \in Nat
  BY <1>2, <1>3, <1>4, <1>5
<1> QED
  BY <1>6 DEF h

\* One of the recipient's peers changes.
LEMMA RecipientSlot ==
    ASSUME Shape, NEW a \in Attempts, NEW q, peers' = [peers EXCEPT !["recipient"][a] = q]
    PROVE  peers'["recipient"][a] = q /\ \A b \in Attempts : peers'["sender"][b] = peers["sender"][b]
<1>1. peers \in Peers
  BY SenderFacts
<1> QED
  BY <1>1 DEF Peers, Sides

LEMMA AgentSendersStay ==
    ASSUME Shape, Order, AgentSteps
    PROVE  \A a \in Attempts : peers'["sender"][a] = peers["sender"][a]
  BY AgentIsRecipient DEF Order, RecipientMoves, PeersTurn

\* The agent reads a message that is not a candidate, or keeps the candidate.
LEMMA RecipientHasTold ==
    ASSUME Shape, Shape', RecipientHas, AgentOffered \/ AgentTold, plan' = plan,
           rjob.status \notin Terminal, NEW a \in Attempts, RecipientOwes(a)'
    PROVE  plan'.gather <= peers'["sender"][a].left + AGot(peers', rsession'.pending, mail', a)
<1>1. peers' = peers /\ rjob'.status \notin Terminal
  BY DEF AgentOffered, AgentTold, RecipientOwes
<1>2. plan.gather <= peers["sender"][a].left + AGot(peers, rsession.pending, mail, a)
  BY <1>1 DEF RecipientHas, RecipientOwes
<1>3. ASSUME NEW type, AgentReads(type), type # "ice", NEW types, Sends(Took("recipient"), types),
             rsession' = rsession
      PROVE  plan'.gather <= peers'["sender"][a].left + AGot(peers', rsession'.pending, mail', a)
  <2>1. Ice(mail, "recipient", a) = Ice(mail', "recipient", a) + 0 /\ Ice(mail', "recipient", a) \in Nat
    BY <1>3, AgentHears
  <2>2. Ice(mail, "recipient", a) <= Ice(mail', "recipient", a)
    BY <2>1
  <2> QED
    BY <1>1, <1>2, <1>3, <2>2, RecipientParts
<1>4. CASE AgentOffered
  <2>1. PICK t \in {"accepted", "denied"} : mail' = ToSender(Took("recipient"), <<Message(t, 0)>>)
    BY <1>4 DEF AgentOffered
  <2>2. Speaks(<<Message(t, 0)>>, {"accepted", "denied"})
    BY SpeaksFew DEF Types
  <2>3. Sends(Took("recipient"), {"accepted", "denied"})
    BY <2>1, <2>2 DEF Sends
  <2> QED
    BY <1>3, <1>4, <2>3 DEF AgentOffered
<1>5. CASE AgentTold
  <2>1. PICK type \in {"webrtc_offer", "ice", "started"} :
           /\ AgentReads(type) /\ Sends(Took("recipient"), {"failed"})
           /\ \/ rsession' = rsession /\ (type = "ice" => rjob'.status \in Terminal)
              \/ type = "ice" /\ rsession'.pending = Append(rsession.pending, Head(mail["recipient"]).n)
    BY <1>5 DEF AgentTold
  <2>2. CASE type # "ice"
    BY <1>3, <2>1, <2>2
  <2>3. CASE type = "ice"
    <3> DEFINE c == Head(mail["recipient"]).n
    <3>1. /\ Ice(mail, "recipient", a) = Ice(mail', "recipient", a) + Own(c, a)
          /\ Ice(mail', "recipient", a) \in Nat
      BY <2>1, <2>3, AgentHears
    <3>2. c \in Attempts
      BY <2>1, <2>3, AgentReadsFacts
    <3>3. rsession'.pending = Append(rsession.pending, c) /\ rsession.pending \in Seq(Attempts)
      BY <1>1, <2>1, <2>3, SameParts
    <3> HIDE DEF c
    <3>4. CountOf(a, rsession'.pending) = CountOf(a, rsession.pending) + Own(c, a)
      BY <3>2, <3>3, CountAppend DEF Own
    <3>5. /\ peers["sender"][a].left \in Nat /\ Got(peers["recipient"][a], a) \in Nat
          /\ CountOf(a, rsession.pending) \in Nat /\ Own(c, a) \in Nat
      BY TypedNow, Parts DEF Own
    <3>6. peers["sender"][a].left + Got(peers["recipient"][a], a) + CountOf(a, rsession.pending)
              + Ice(mail, "recipient", a)
           <= peers'["sender"][a].left + Got(peers'["recipient"][a], a) + CountOf(a, rsession'.pending)
              + Ice(mail', "recipient", a)
      <4> DEFINE l == peers["sender"][a].left
                 g == Got(peers["recipient"][a], a)
                 x == CountOf(a, rsession.pending)
                 x2 == CountOf(a, rsession'.pending)
                 i == Ice(mail, "recipient", a)
                 i2 == Ice(mail', "recipient", a)
                 o == Own(c, a)
      <4>1. /\ l \in Nat /\ g \in Nat /\ x \in Nat /\ o \in Nat /\ i2 \in Nat
            /\ x2 = x + o /\ i = i2 + o
        BY <3>1, <3>4, <3>5
      <4>2. peers'["sender"][a].left = l /\ Got(peers'["recipient"][a], a) = g
        BY <1>1
      <4> HIDE DEF l, g, x, x2, i, i2, o
      <4>3. l + g + x + i <= l + g + x2 + i2
        BY <4>1
      <4> QED
        BY <4>2, <4>3 DEF l, g, x, x2, i, i2
    <3> QED
      BY <1>2, <3>6, RecipientRises
  <2> QED
    BY <2>2, <2>3
<1> QED
  BY <1>4, <1>5

\* A candidate is added to the peer of the session.
LEMMA RecipientHasAdds ==
    ASSUME Shape, Shape', Order, OneSession, Matching, RecipientHas, AgentAdds, plan' = plan,
           rjob.status \notin Terminal, NEW a \in Attempts, RecipientOwes(a)'
    PROVE  plan'.gather <= peers'["sender"][a].left + AGot(peers', rsession'.pending, mail', a)
<1> DEFINE c == Head(mail["recipient"]).n
           q == peers["recipient"][a]
<1>1. /\ AgentReads("ice") /\ rsession.att # 0 /\ Sends(Took("recipient"), {"failed"}) /\ rsession' = rsession
      /\ peers' = [peers EXCEPT !["recipient"][rsession.att] =
                      AddICECandidate(peers["recipient"][rsession.att], rsession.att, c)]
  BY DEF AgentAdds
<1>2. rsession.att \in Attempts /\ c \in Attempts /\ q \in Peer
  BY <1>1, AgentFacts, AgentReadsFacts, Bounds DEF Attempts
<1>3. \A b \in Attempts : peers'["sender"][b] = peers["sender"][b]
  BY <1>1, <1>2, RecipientSlot
<1>4. Alive(peers["sender"][a]) /\ session.att = a /\ a # 0
  BY <1>3, Bounds DEF RecipientOwes, Order, OwnedBy, Attempts
<1>5. rsession.att = a
  BY <1>1, <1>4 DEF Matching
<1>6. peers'["recipient"][a] = AddICECandidate(q, a, c) /\ q.state # "none"
  <2>1. peers' = [peers EXCEPT !["recipient"][a] = AddICECandidate(q, a, c)]
    BY <1>1, <1>5
  <2>2. q.state # "none"
    BY <1>1, <1>5 DEF OneSession
  <2>3. peers'["recipient"][a] = AddICECandidate(q, a, c)
    <3> HIDE DEF q, c
    <3> QED
      BY <2>1, RecipientSlot
  <2> QED
    BY <2>2, <2>3
<1>7. AddICECandidate(q, a, c).state # "closed"
  BY <1>6 DEF RecipientOwes
<1>8. q.state # "closed"
  <2> HIDE DEF q
  <2> QED
    BY <1>2, <1>7, FadeAdd DEF Fades
<1>9. Got(peers'["recipient"][a], a) = Got(q, a) + Own(c, a)
  <2> HIDE DEF q, c
  <2> QED
    BY <1>2, <1>6, <1>7, <1>8, AddGains
<1>10. plan.gather <= peers["sender"][a].left + AGot(peers, rsession.pending, mail, a)
  BY <1>4, <1>8 DEF RecipientHas, RecipientOwes
<1>11. /\ Ice(mail, "recipient", a) = Ice(mail', "recipient", a) + Own(c, a)
       /\ Ice(mail', "recipient", a) \in Nat
  BY <1>1, AgentHears
<1>12. /\ peers["sender"][a].left \in Nat /\ Got(peers["recipient"][a], a) \in Nat
       /\ CountOf(a, rsession.pending) \in Nat /\ Own(c, a) \in Nat
  BY TypedNow, Parts DEF Own
<1>13. peers["sender"][a].left + Got(peers["recipient"][a], a) + CountOf(a, rsession.pending)
          + Ice(mail, "recipient", a)
         <= peers'["sender"][a].left + Got(peers'["recipient"][a], a) + CountOf(a, rsession'.pending)
          + Ice(mail', "recipient", a)
  <2> DEFINE l == peers["sender"][a].left
             g == Got(peers["recipient"][a], a)
             g2 == Got(peers'["recipient"][a], a)
             x == CountOf(a, rsession.pending)
             i == Ice(mail, "recipient", a)
             i2 == Ice(mail', "recipient", a)
             o == Own(c, a)
  <2>1. /\ l \in Nat /\ g \in Nat /\ x \in Nat /\ o \in Nat /\ i2 \in Nat
        /\ g2 = g + o /\ i = i2 + o
    BY <1>9, <1>11, <1>12
  <2>2. peers'["sender"][a].left = l /\ CountOf(a, rsession'.pending) = x
    BY <1>1, <1>3
  <2> HIDE DEF l, g, g2, x, i, i2, o
  <2>3. l + g + x + i <= l + g2 + x + i2
    BY <2>1
  <2> QED
    BY <2>2, <2>3 DEF l, g, g2, x, i, i2
<1> QED
  BY <1>10, <1>13, RecipientRises

\* The offer makes the peer, which takes over the candidates that came before.
LEMMA RecipientHasMakes ==
    ASSUME Shape, Shape', Ledger, Order, OneSession, Matching, RecipientHas, AgentMakes, plan' = plan,
           rjob.status \notin Terminal, NEW a \in Attempts, RecipientOwes(a)'
    PROVE  plan'.gather <= peers'["sender"][a].left + AGot(peers', rsession'.pending, mail', a)
<1> DEFINE n == Head(mail["recipient"]).n
<1>1. PICK q \in Peer :
         /\ AgentReads("webrtc_offer") /\ mail' = Took("recipient")
         /\ rsession' = [att |-> n, pending |-> <<>>]
         /\ q.added = CountOf(n, rsession.pending)
         /\ peers' = [peers EXCEPT !["recipient"][n] = q]
  BY DEF AgentMakes
<1>2. /\ n \in Attempts /\ mail["recipient"] # <<>> /\ "recipient" \in Boxes
      /\ Head(mail["recipient"]).type = "webrtc_offer"
  BY <1>1, AgentReadsFacts
<1>3. \A b \in Attempts : peers'["sender"][b] = peers["sender"][b]
  BY <1>1, <1>2, RecipientSlot
<1>4. Alive(peers["sender"][a]) /\ session.att = a /\ a # 0
  BY <1>3, Bounds DEF RecipientOwes, Order, OwnedBy, Attempts
<1>5. /\ Head(mail["recipient"]) \in Said(mail["recipient"]) /\ Head(mail["recipient"]) \in Post
      /\ Took("recipient") \in Posts /\ mail["recipient"] \in Seq(Post)
  BY <1>2, Taken
<1>6. n = a
  BY <1>2, <1>4, <1>5 DEF Matching
<1>7. peers["recipient"][a].state = "none"
  <2>1. Head(mail["recipient"]) = Message("webrtc_offer", a)
    BY <1>2, <1>5, <1>6 DEF Post, Message
  <2>2. CountOf(Message("webrtc_offer", a), mail["recipient"])
          = CountOf(Message("webrtc_offer", a), Tail(mail["recipient"])) + 1
    BY <1>2, <1>5, <2>1, CountTail
  <2>3. Tail(mail["recipient"]) \in Seq(Post)
    BY <1>2, <1>5, TailOf
  <2>4. CountOf(Message("webrtc_offer", a), Tail(mail["recipient"])) \in Nat
    BY <2>3, CountNat
  <2>5. Offers(mail, a) >= 1 /\ Offers(mail, a) \in Nat
    BY <2>2, <2>4 DEF Offers
  <2>6. Offers(mail, a) + (IF peers["recipient"][a].state = "none" THEN 0 ELSE 1)
          <= IF peers["sender"][a].state \in {"none", "making"} THEN 0 ELSE 1
    BY DEF Ledger, Books, Once
  <2> QED
    BY <2>5, <2>6
<1>8. Got(peers["recipient"][a], a) = 0
  BY <1>7 DEF OneSession
<1>9. plan.gather <= peers["sender"][a].left + AGot(peers, rsession.pending, mail, a)
  BY <1>4, <1>7 DEF RecipientHas, RecipientOwes
<1>10. /\ Ice(mail, "recipient", a) = Ice(mail', "recipient", a) + 0
       /\ Ice(mail', "recipient", a) \in Nat
  <2>1. Sends(Took("recipient"), {})
    BY <1>1, <1>5, SentNone
  <2> QED
    BY <1>1, <2>1, AgentHears
<1>11. Got(peers'["recipient"][a], a) = CountOf(a, rsession.pending) + CountOf(a, q.held)
       /\ CountOf(a, q.held) \in Nat
  <2>1. peers'["recipient"][a] = q
    BY <1>1, <1>2, <1>6, RecipientSlot
  <2>2. CountOf(a, q.held) \in Nat
    BY PeerNat
  <2> QED
    BY <1>1, <1>6, <2>1, <2>2 DEF Got
<1>12. CountOf(a, rsession'.pending) = 0
  BY <1>1, CountEmpty
<1>13. peers["sender"][a].left \in Nat /\ CountOf(a, rsession.pending) \in Nat
  BY TypedNow, Parts
<1>14. peers["sender"][a].left + Got(peers["recipient"][a], a) + CountOf(a, rsession.pending)
          + Ice(mail, "recipient", a)
         <= peers'["sender"][a].left + Got(peers'["recipient"][a], a) + CountOf(a, rsession'.pending)
          + Ice(mail', "recipient", a)
  <2> DEFINE l == peers["sender"][a].left
             g == Got(peers["recipient"][a], a)
             g2 == Got(peers'["recipient"][a], a)
             x == CountOf(a, rsession.pending)
             x2 == CountOf(a, rsession'.pending)
             i == Ice(mail, "recipient", a)
             i2 == Ice(mail', "recipient", a)
             h == CountOf(a, q.held)
  <2>1. /\ l \in Nat /\ x \in Nat /\ i2 \in Nat /\ h \in Nat
        /\ g = 0 /\ g2 = x + h /\ x2 = 0 /\ i = i2 + 0
    BY <1>8, <1>10, <1>11, <1>12, <1>13
  <2>2. peers'["sender"][a].left = l
    BY <1>3
  <2> HIDE DEF l, g, g2, x, x2, i, i2, h
  <2>3. l + g + x + i <= l + g2 + x2 + i2
    BY <2>1
  <2> QED
    BY <2>2, <2>3 DEF l, g, g2, x, x2, i, i2
<1> QED
  BY <1>9, <1>14, RecipientRises

LEMMA RecipientHasAgent ==
    ASSUME Shape, Shape', Ledger, Order, Calls, RecipientHas, AgentNext, AgentSteps, plan' = plan,
           UNCHANGED senderVars
    PROVE  RecipientHas'
<1> SUFFICES ASSUME NEW a \in Attempts, RecipientOwes(a)'
             PROVE  plan'.gather <= peers'["sender"][a].left + AGot(peers', rsession'.pending, mail', a)
  BY DEF RecipientHas
<1>1. OneSession /\ Matching
  BY DEF RecipientOwes, Calls
<1>2. rjob.status \notin Terminal
  BY AgentJobOver DEF RecipientOwes
<1>3. peers'["sender"][a] = peers["sender"][a]
  BY AgentSendersStay
<1>4. Alive(peers["sender"][a]) /\ session.att = a /\ a # 0
  BY <1>3, Bounds DEF RecipientOwes, Order, OwnedBy, Attempts
<1>5. /\ mail \in Posts /\ "recipient" \in Boxes /\ peers \in Peers /\ Ice(mail, "recipient", a) \in Nat
      /\ peers["recipient"][a] \in Peer /\ peers'["recipient"][a].state # "closed"
      /\ a \in 0 .. MaxAttempts /\ "recipient" \in Sides
  BY SameParts, AgentFacts, TypedNow, Parts, Bounds DEF Boxes, RecipientOwes, Attempts
<1>6. CASE AgentOffered \/ AgentTold
  BY <1>2, <1>6, RecipientHasTold
<1>7. CASE AgentAdds
  BY <1>1, <1>2, <1>7, RecipientHasAdds
<1>8. CASE AgentMakes
  BY <1>1, <1>2, <1>8, RecipientHasMakes
<1>9. CASE AgentDrops
  <2>1. PICK type \in {"retryable", "failed"} : AgentReads(type)
    BY <1>9 DEF AgentDrops
  <2>2. mail["recipient"] # <<>> /\ Head(mail["recipient"]).type = type
    BY <2>1, AgentReadsFacts
  <2>3. Head(mail["recipient"]) \in Said(mail["recipient"])
    BY <1>5, <2>2, Taken
  <2>4. peers["sender"][session.att].state = "closed"
    BY <1>1, <1>4, <2>2, <2>3 DEF Matching
  <2> QED
    BY <1>4, <2>4 DEF Alive
<1>10. ASSUME NEW types, Sends(mail, types), rsession' = rsession,
              peers["recipient"][a].state # "closed",
              Got(peers'["recipient"][a], a) = Got(peers["recipient"][a], a)
       PROVE  plan'.gather <= peers'["sender"][a].left + AGot(peers', rsession'.pending, mail', a)
  <2>1. plan.gather <= peers["sender"][a].left + AGot(peers, rsession.pending, mail, a)
    BY <1>2, <1>4, <1>10 DEF RecipientHas, RecipientOwes
  <2>2. Ice(mail, "recipient", a) <= Ice(mail', "recipient", a)
    BY <1>5, <1>10, Sent
  <2> QED
    BY <1>3, <1>10, <2>1, <2>2, RecipientParts
<1>11. ASSUME NEW b \in Attempts, AgentAnswers(b)
       PROVE  plan'.gather <= peers'["sender"][a].left + AGot(peers', rsession'.pending, mail', a)
  <2>1. /\ peers["recipient"][b].state = "answering" /\ rsession' = rsession /\ Sends(mail, {"answer"})
        /\ peers' = [peers EXCEPT !["recipient"][b].state = "stable"]
    BY <1>11 DEF AgentAnswers
  <2>2. peers'["recipient"][a] = IF b = a THEN [peers["recipient"][a] EXCEPT !.state = "stable"]
                                 ELSE peers["recipient"][a]
    BY <1>5, <2>1 DEF Peers, Sides
  <2>3. /\ peers'["recipient"][a].added = peers["recipient"][a].added
        /\ peers'["recipient"][a].held = peers["recipient"][a].held
    BY <1>5, <2>2 DEF Peer
  <2>4. Got(peers'["recipient"][a], a) = Got(peers["recipient"][a], a)
    BY <2>3 DEF Got
  <2>5. peers["recipient"][a].state # "closed"
    BY <1>5, <2>1, <2>2
  <2> QED
    BY <1>10, <2>1, <2>4, <2>5
<1>12. ASSUME NEW b \in Attempts, ReceiverGoes(b)
       PROVE  plan'.gather <= peers'["sender"][a].left + AGot(peers', rsession'.pending, mail', a)
  <2>1. peers' = peers /\ rsession' = rsession /\ Sends(mail, {"started", "progress"})
    BY <1>12 DEF ReceiverGoes
  <2> QED
    BY <1>5, <1>10, <2>1
<1>13. ASSUME NEW b \in Attempts, ReceiverStops(b)
       PROVE  plan'.gather <= peers'["sender"][a].left + AGot(peers', rsession'.pending, mail', a)
  <2>1. CASE rsession.att = b
    <3>1. b = a /\ rsession.att = a
      BY <1>1, <1>4, <2>1, Bounds DEF Matching, Attempts
    <3>2. peers' = CloseAt(peers, "recipient", a) /\ peers["recipient"][a].state # "none"
      BY <1>1, <1>4, <1>13, <3>1 DEF ReceiverStops, OneSession
    <3>3. peers'["recipient"][a].state = "closed"
      BY <1>5, <3>2, CloseAtShape, CloseShape
    <3> QED
      BY <1>5, <3>3
  <2>2. CASE rsession.att # b
    <3>1. /\ peers' = peers /\ rsession' = rsession
          /\ Sends(mail, {"started", "retryable", "failed", "completed"})
      BY <1>13, <2>2 DEF ReceiverStops
    <3> QED
      BY <1>5, <1>10, <3>1
  <2> QED
    BY <2>1, <2>2
<1> QED
  BY <1>6, <1>7, <1>8, <1>9, <1>11, <1>12, <1>13 DEF AgentSteps

LEMMA RecipientHasStep ==
    ASSUME Shape, Shape', Ledger, Order, Calls, RecipientHas, [Next]_vars
    PROVE  RecipientHas'
<1>1. CASE UNCHANGED vars
  <2>1. UNCHANGED <<plan, mail, peers, rsession, rjob>>
    BY <1>1 DEF vars, wire, agentVars
  <2> QED
    BY <2>1 DEF RecipientHas, RecipientOwes
<1>2. CASE Next
  <2>1. plan' = plan
    BY <1>2, PlanStays
  <2>2. CASE WireNext /\ UNCHANGED <<senderVars, agentVars, browserVars>>
    BY <2>2, RecipientHasWire
  <2>3. CASE (SenderNext \/ Resume) /\ UNCHANGED <<agentVars, browserVars>>
    <3>1. SenderSteps
      BY <2>3, SenderTable DEF Order
    <3> QED
      BY <2>1, <2>3, <3>1, RecipientHasSender
  <2>4. CASE AgentNext /\ UNCHANGED <<senderVars, browserVars>>
    <3>1. AgentSteps
      BY <2>4, AgentTable
    <3> QED
      BY <2>1, <2>4, <3>1, RecipientHasAgent
  <2>5. CASE BrowserNext /\ UNCHANGED <<senderVars, agentVars>>
    <3>1. plan.kind # "agent"
      BY <2>5, NoPage DEF Calls, OneSession
    <3> QED
      BY <2>1, <3>1 DEF RecipientHas, RecipientOwes
  <2> QED
    BY <1>2, <2>2, <2>3, <2>4, <2>5 DEF Next
<1> QED
  BY <1>1, <1>2

-----------------------------------------------------------------------------
(* The beginning, and the theorems.                                        *)

LEMMA Beginning ==
    ASSUME Init
    PROVE  /\ \A a \in Attempts, side \in Sides : peers[side][a] = NoPeer
           /\ \A box \in Boxes : mail[box] = <<>>
           /\ run = [no |-> 0, on |-> FALSE, reads |-> FALSE] /\ session = NoSession /\ rsession = NoRSession
           /\ \A a \in Attempts : stream[a].pc = "none" /\ recv[a].pc = "none" /\ net[a].frames = <<>>
           /\ imports = {}
<1>1. /\ peers = [side \in Sides |-> [a \in Attempts |-> NoPeer]]
      /\ mail = [run |-> <<>>, loop |-> <<>>, recipient |-> <<>>]
      /\ run = [no |-> 0, on |-> FALSE, reads |-> FALSE] /\ net = [a \in Attempts |-> NoChannel]
  BY DEF Init, WireInit
<1>2. session = NoSession /\ stream = [a \in Attempts |-> NoStream]
  BY DEF Init, SenderInit
<1>3. rsession = NoRSession /\ recv = [a \in Attempts |-> NoReceiver] /\ imports = {}
  BY DEF Init, AgentInit, BrowserInit
<1>4. NoStream.pc = "none" /\ NoReceiver.pc = "none" /\ NoChannel.frames = <<>>
  BY DEF NoStream, NoReceiver, NoChannel
<1> QED
  BY <1>1, <1>2, <1>3, <1>4 DEF Boxes

LEMMA OrderInit ==
    ASSUME Init
    PROVE  Order
<1>1. /\ run.no = 0 /\ ~run.on /\ ~run.reads /\ session.att = 0 /\ session.owner = 0
      /\ mail["run"] = <<>> /\ mail["loop"] = <<>>
  BY Beginning DEF NoSession, Boxes
<1>2. \A a \in Attempts, side \in Sides : peers[side][a].state = "none" /\ peers[side][a].via = 0
  BY Beginning DEF NoPeer
<1>3. Silent
  BY <1>2, Beginning DEF Silent
<1> QED
  BY <1>1, <1>2, <1>3 DEF Order, Lines, OwnedBy, Answerers, Answerer, Alive, Sides

LEMMA CallsInit ==
    ASSUME Init
    PROVE  Calls
<1>1. ~run.on /\ session.att = 0 /\ rsession.att = 0 /\ imports = {}
  BY Beginning DEF NoSession, NoRSession
<1>2. ~Opening
  <2>1. \A box \in Boxes : Said(mail[box]) = {}
    BY Beginning, SaidNone
  <2> QED
    BY <1>1, <2>1 DEF Opening
<1>3. \A a \in Attempts : peers["recipient"][a].state = "none" /\ Got(peers["recipient"][a], a) = 0
  <2>1. \A a : CountOf(a, <<>>) = 0
    BY CountEmpty
  <2>2. \A a \in Attempts : /\ peers["recipient"][a].state = "none"
                            /\ peers["recipient"][a].added = 0 /\ peers["recipient"][a].held = <<>>
    BY Beginning DEF NoPeer, Sides
  <2> QED
    BY <2>1, <2>2 DEF Got
<1>4. OneSession
  BY <1>1, <1>3 DEF OneSession, Alive
<1> QED
  BY <1>1, <1>2, <1>4 DEF Calls, Matching

LEMMA HasInit ==
    ASSUME Init
    PROVE  SenderHas /\ RecipientHas
<1>1. \A a \in Attempts, side \in Sides : ~Alive(peers[side][a])
  BY Beginning DEF NoPeer, Alive
<1> QED
  BY <1>1 DEF SenderHas, SenderOwes, RecipientHas, RecipientOwes, Sides

\* What has arrived is all that was sent: the ledger says it is no more, and that it is no less.
LEMMA AllArrived ==
    ASSUME Shape, Ledger, SenderHas, RecipientHas
    PROVE  InScope => NoCandidateLost
<1>1. ASSUME NEW a \in Attempts
      PROVE  /\ Arrived("sender", a) = SGot(peers, session.pending, mail, a)
             /\ Arrived("recipient", a) = AGot(peers, rsession.pending, mail, a)
  <2>1. \A box : Candidates(box, a) = Ice(mail, box, a)
    BY DEF Candidates, Ice, CountOf
  <2>2. /\ peers["sender"][a].added \in Nat /\ CountOf(a, peers["sender"][a].held) \in Nat
        /\ peers["recipient"][a].added \in Nat /\ CountOf(a, peers["recipient"][a].held) \in Nat
    <3>1. peers["sender"][a] \in Peer /\ peers["recipient"][a] \in Peer
      BY SenderFacts, AgentFacts
    <3> QED
      BY <3>1, PeerNat
  <2>3. /\ CountOf(a, session.pending) \in Nat /\ CountOf(a, rsession.pending) \in Nat
        /\ Ice(mail, "run", a) \in Nat /\ Ice(mail, "loop", a) \in Nat /\ Ice(mail, "recipient", a) \in Nat
    BY TypedNow, Parts
  <2>4. Arrived("sender", a) = peers["sender"][a].added + CountOf(a, peers["sender"][a].held)
           + (CountOf(a, session.pending) + Ice(mail, "run", a) + Ice(mail, "loop", a))
    BY <2>1 DEF Arrived
  <2>5. Arrived("recipient", a) = peers["recipient"][a].added + CountOf(a, peers["recipient"][a].held)
           + (CountOf(a, rsession.pending) + Ice(mail, "recipient", a))
    BY <2>1 DEF Arrived
  <2>6. SGot(peers, session.pending, mail, a)
          = peers["sender"][a].added + CountOf(a, peers["sender"][a].held) + CountOf(a, session.pending)
             + Ice(mail, "run", a) + Ice(mail, "loop", a)
    BY DEF SGot, Got
  <2>7. AGot(peers, rsession.pending, mail, a)
          = peers["recipient"][a].added + CountOf(a, peers["recipient"][a].held)
             + CountOf(a, rsession.pending) + Ice(mail, "recipient", a)
    BY DEF AGot, Got
  <2>8. \A u \in Nat, v \in Nat, w \in Nat, x \in Nat, y \in Nat :
           u + v + (w + x + y) = u + v + w + x + y /\ u + v + (w + x) = u + v + w + x
    OBVIOUS
  <2> QED
    BY <2>2, <2>3, <2>4, <2>5, <2>6, <2>7, <2>8
<1>2. ASSUME NEW a \in Attempts
      PROVE  /\ peers["recipient"][a].left + SGot(peers, session.pending, mail, a) <= plan.gather
             /\ peers["sender"][a].left + AGot(peers, rsession.pending, mail, a) <= plan.gather
             /\ peers["recipient"][a].left + SGot(peers, session.pending, mail, a) \in Nat
             /\ peers["sender"][a].left + AGot(peers, rsession.pending, mail, a) \in Nat
             /\ plan.gather \in Nat
  <2>1. /\ peers["recipient"][a].left + SGot(peers, session.pending, mail, a) <= plan.gather
        /\ peers["sender"][a].left + RGot(peers, rsession.pending, Kept(states), mail, a) <= plan.gather
    BY DEF Ledger, Books, Budget
  <2>2. /\ peers["recipient"][a].left \in Nat /\ SGot(peers, session.pending, mail, a) \in Nat
        /\ plan.gather \in Nat
    BY TypedNow, Parts, SenderFacts, PlanFacts
  <2> DEFINE l == peers["sender"][a].left
             g == Got(peers["recipient"][a], a)
             x == CountOf(a, rsession.pending)
             z == CountOf(a, Kept(states))
             i == Ice(mail, "recipient", a)
             n == plan.gather
  <2>3. l \in Nat /\ g \in Nat /\ x \in Nat /\ z \in Nat /\ i \in Nat /\ n \in Nat
    BY <2>2, TypedNow, Parts
  <2>4. l + (g + x + z + i) <= n
    BY <2>1 DEF RGot
  <2>5. AGot(peers, rsession.pending, mail, a) = g + x + i
    BY DEF AGot
  <2> HIDE DEF l, g, x, z, i, n
  <2>6. l + (g + x + i) <= n /\ l + (g + x + i) \in Nat
    BY <2>3, <2>4
  <2> QED
    BY <2>1, <2>2, <2>5, <2>6 DEF l, n
<1>3. ASSUME NEW a \in Attempts, SenderOwes(a)
      PROVE  peers["recipient"][a].left + Arrived("sender", a) = plan.gather
  <2>1. plan.gather <= peers["recipient"][a].left + SGot(peers, session.pending, mail, a)
    BY <1>3 DEF SenderHas
  <2> QED
    BY <1>1, <1>2, <2>1
<1>4. ASSUME NEW a \in Attempts, RecipientOwes(a)
      PROVE  peers["sender"][a].left + Arrived("recipient", a) = plan.gather
  <2>1. plan.gather <= peers["sender"][a].left + AGot(peers, rsession.pending, mail, a)
    BY <1>4 DEF RecipientHas
  <2> QED
    BY <1>1, <1>2, <2>1
<1> QED
  BY <1>3, <1>4 DEF NoCandidateLost, SenderOwes, RecipientOwes, InScope, Alive, Other, Sides

\* In every behaviour a candidate that was sent is added, held by the peer or the session, or on
\* its way, as long as both peers live and the job is not over: with an agent across every broken
\* connection and every run resumed when nothing of the last one is at work (the assumption Calm),
\* with a page until the transfer is resumed (handleWebRTCICE, flushLiveSessionICE,
\* flushPendingICE, OnICECandidate).
THEOREM NothingIsLost == Spec => [](InScope => NoCandidateLost)
<1> DEFINE Inv == Shape /\ Ledger /\ Order /\ Calls /\ SenderHas /\ RecipientHas
<1>1. Init => Inv
  BY ShapeInit, LedgerInit, OrderInit, CallsInit, HasInit
<1>2. Inv /\ [Next]_vars => Inv'
  <2> SUFFICES ASSUME Inv, [Next]_vars
               PROVE  Inv'
    OBVIOUS
  <2>1. Shape'
    BY ShapeStep
  <2> QED
    BY <2>1, LedgerStep, OrderStep, CallsStep, SenderHasStep, RecipientHasStep
<1>3. Inv => (InScope => NoCandidateLost)
  BY AllArrived
<1> QED
  BY <1>1, <1>2, <1>3, PTL DEF Spec
=============================================================================
