-------------------------- MODULE LiveLedgerProofs --------------------------
(***************************************************************************)
(* How many candidates there can be.  A peer gathers plan.gather of them,  *)
(* and each is at one place only: still to be gathered, in a queue, kept   *)
(* by a session or a receive state, or at the other peer.  No overtaking,  *)
(* no resumed run and no second attempt makes one count twice.             *)
(***************************************************************************)
EXTENDS LiveTransferProofs

-----------------------------------------------------------------------------
(* The ledger.  p stands for the peers, x and y for what the sender's and  *)
(* the receiver's session keep, z for what the page keeps, m for the mail. *)

Ice(m, box, a) == CountOf(Message("ice", a), m[box])
Offers(m, a)   == CountOf(Message("webrtc_offer", a), m["recipient"])
Got(q, a)      == q.added + CountOf(a, q.held)
Kept(st)       == IF st = <<>> THEN <<>> ELSE st[Len(st)].pending

\* What has reached the sender, and the recipient, of the other's candidates.
SGot(p, x, m, a) ==
    Got(p["sender"][a], a) + CountOf(a, x) + Ice(m, "run", a) + Ice(m, "loop", a)
RGot(p, y, z, m, a) ==
    Got(p["recipient"][a], a) + CountOf(a, y) + CountOf(a, z) + Ice(m, "recipient", a)

\* A peer's candidates are at most g, and there are none before the peer.
Budget(g, p, x, y, z, m) ==
    \A a \in Attempts :
        /\ p["recipient"][a].left + SGot(p, x, m, a) <= g
        /\ p["sender"][a].left + RGot(p, y, z, m, a) <= g
        /\ p["recipient"][a].state = "none" => p["recipient"][a].left + SGot(p, x, m, a) = 0
        /\ p["sender"][a].state = "none" => p["sender"][a].left + RGot(p, y, z, m, a) = 0

\* The offer of an attempt is made once, and makes one peer.
Once(p, m) ==
    \A a \in Attempts :
        Offers(m, a) + (IF p["recipient"][a].state = "none" THEN 0 ELSE 1)
          <= IF p["sender"][a].state \in {"none", "making"} THEN 0 ELSE 1

\* The attempts are made one after the other.
InOrder(p) ==
    \A a \in Attempts, b \in Attempts :
        b <= a /\ p["sender"][a].state # "none" => p["sender"][b].state # "none"

Books(g, p, x, y, z, m) == Budget(g, p, x, y, z, m) /\ Once(p, m) /\ InOrder(p)

Ledger == Books(plan.gather, peers, session.pending, rsession.pending, Kept(states), mail)

-----------------------------------------------------------------------------
(* Counting.                                                               *)

LEMMA CountEmpty ==
    ASSUME NEW x
    PROVE  CountOf(x, <<>>) = 0
<1>1. {i \in DOMAIN <<>> : <<>>[i] = x} = {}
  OBVIOUS
<1> QED
  BY <1>1, FS_EmptySet DEF CountOf

\* What does not mention x adds nothing.
LEMMA CountCat ==
    ASSUME NEW S, NEW x, NEW s \in Seq(S), NEW t \in Seq(S), \A i \in 1 .. Len(t) : t[i] # x
    PROVE  CountOf(x, s \o t) = CountOf(x, s)
<1>1. {i \in DOMAIN (s \o t) : (s \o t)[i] = x} = {i \in DOMAIN s : s[i] = x}
  OBVIOUS
<1> QED
  BY <1>1 DEF CountOf

LEMMA CountAppend ==
    ASSUME NEW S, NEW x, NEW y \in S, NEW s \in Seq(S)
    PROVE  CountOf(x, Append(s, y)) = CountOf(x, s) + IF x = y THEN 1 ELSE 0
<1> DEFINE A == {i \in DOMAIN s : s[i] = x}
           B == {i \in DOMAIN Append(s, y) : Append(s, y)[i] = x}
<1>1. IsFiniteSet(1 .. Len(s)) /\ A \subseteq 1 .. Len(s)
  BY FS_Interval
<1>2. IsFiniteSet(A)
  BY <1>1, FS_Subset
<1>3. CASE x = y
  <2>1. B = A \cup {Len(s) + 1} /\ Len(s) + 1 \notin A
    BY <1>3
  <2>2. Cardinality(B) = Cardinality(A) + 1
    BY <1>2, <2>1, FS_AddElement
  <2> QED
    BY <1>3, <2>2 DEF CountOf
<1>4. CASE x # y
  <2>1. B = A
    BY <1>4
  <2>2. CountOf(x, s) \in Nat
    BY CountNat
  <2>3. CountOf(x, s) = Cardinality(A) /\ CountOf(x, Append(s, y)) = Cardinality(B)
    BY DEF CountOf
  <2> HIDE DEF A, B
  <2>4. CountOf(x, Append(s, y)) = CountOf(x, s)
    BY <2>1, <2>3
  <2> QED
    BY <1>4, <2>2, <2>4
<1> QED
  BY <1>3, <1>4

LEMMA CountCatOne ==
    ASSUME NEW S, NEW x, NEW y \in S, NEW s \in Seq(S)
    PROVE  CountOf(x, s \o <<y>>) = CountOf(x, s) + IF x = y THEN 1 ELSE 0
<1>1. s \o <<y>> = Append(s, y)
  OBVIOUS
<1>2. CountOf(x, Append(s, y)) = CountOf(x, s) + IF x = y THEN 1 ELSE 0
  BY CountAppend
<1> QED
  BY <1>1, <1>2, Zenon

\* What is read is no longer there.
LEMMA CountTail ==
    ASSUME NEW S, NEW x, NEW s \in Seq(S), s # <<>>
    PROVE  CountOf(x, s) = CountOf(x, Tail(s)) + IF Head(s) = x THEN 1 ELSE 0
<1> DEFINE A == {i \in DOMAIN Tail(s) : Tail(s)[i] = x}
           B == {i \in DOMAIN s : s[i] = x /\ i > 1}
           C == {i \in DOMAIN s : s[i] = x}
           f == [i \in A |-> i + 1]
<1>1. IsFiniteSet(1 .. Len(s)) /\ B \subseteq 1 .. Len(s)
  <2>1. Len(s) \in Int
    OBVIOUS
  <2>2. IsFiniteSet(1 .. Len(s))
    BY <2>1, FS_Interval
  <2>3. B \subseteq 1 .. Len(s)
    OBVIOUS
  <2> QED
    BY <2>2, <2>3
<1>2. IsFiniteSet(B)
  BY <1>1, FS_Subset
<1>3. IsFiniteSet(1 .. Len(Tail(s))) /\ A \subseteq 1 .. Len(Tail(s))
  BY FS_Interval
<1>4. IsFiniteSet(A)
  BY <1>3, FS_Subset
<1>5. f \in Bijection(A, B)
  <2>1. \A i \in A : i + 1 \in B
    OBVIOUS
  <2>2. \A k \in B : k - 1 \in A /\ f[k - 1] = k
    OBVIOUS
  <2>3. \A i, k \in A : f[i] = f[k] => i = k
    OBVIOUS
  <2> QED
    BY <2>1, <2>2, <2>3 DEF Bijection, Injection, Surjection, IsInjective
<1>6. Cardinality(A) = Cardinality(B)
  BY <1>4, <1>5, FS_Bijection DEF ExistsBijection
<1>7. Cardinality(B) \in Nat
  BY <1>2, FS_CardinalityType
<1>8. CASE Head(s) = x
  <2>1. C = B \cup {1} /\ 1 \notin B
    BY <1>8
  <2>2. Cardinality(C) = Cardinality(B) + 1
    BY <1>2, <2>1, FS_AddElement
  <2> QED
    BY <1>6, <1>8, <2>2 DEF CountOf
<1>9. CASE Head(s) # x
  <2>1. C = B
    BY <1>9
  <2>2. CountOf(x, s) = Cardinality(C) /\ CountOf(x, Tail(s)) = Cardinality(A)
    BY DEF CountOf
  <2> HIDE DEF A, B, C
  <2> QED
    BY <1>6, <1>7, <1>9, <2>1, <2>2
<1> QED
  BY <1>8, <1>9

-----------------------------------------------------------------------------
(* What is counted is a number.                                            *)

Post  == [type : Types, n : Nat]
Posts == [Boxes -> Seq(Post)]

Typed(p, x, y, z, m) ==
    /\ p \in Peers /\ m \in Posts
    /\ x \in Seq(Attempts) /\ y \in Seq(Attempts) /\ z \in Seq(Attempts)

LEMMA MailPosts ==
    ASSUME NEW m \in Mail
    PROVE  m \in Posts
<1>1. Letter \subseteq Post
  BY DEF Letter, Post
<1>2. \A s \in Seq(Letter) : s \in Seq(Post)
  BY <1>1, SeqGrows
<1> QED
  BY <1>2 DEF Mail, Posts

LEMMA PostNat ==
    ASSUME NEW m \in Posts, NEW a
    PROVE  /\ \A box \in Boxes : Ice(m, box, a) \in Nat
           /\ Offers(m, a) \in Nat
<1>1. \A box \in Boxes : m[box] \in Seq(Post)
  BY DEF Posts
<1>2. \A x : \A box \in Boxes : CountOf(x, m[box]) \in Nat
  BY <1>1, CountNat
<1>3. "recipient" \in Boxes
  BY DEF Boxes
<1> QED
  BY <1>2, <1>3 DEF Ice, Offers

LEMMA PeerNat ==
    ASSUME NEW q \in Peer, NEW a
    PROVE  q.left \in Nat /\ q.added \in Nat /\ CountOf(a, q.held) \in Nat /\ Got(q, a) \in Nat
<1>1. q.held \in Seq(Attempts) /\ q.left \in Nat /\ q.added \in Nat
  BY DEF Peer, Waiting
<1>2. CountOf(a, q.held) \in Nat
  BY <1>1, CountNat
<1> QED
  BY <1>1, <1>2 DEF Got

\* The parts of what is counted.
LEMMA Parts ==
    ASSUME NEW p, NEW x, NEW y, NEW z, NEW m, Typed(p, x, y, z, m), NEW a \in Attempts
    PROVE  /\ p["sender"][a].left \in Nat /\ p["recipient"][a].left \in Nat
           /\ Got(p["sender"][a], a) \in Nat /\ Got(p["recipient"][a], a) \in Nat
           /\ CountOf(a, x) \in Nat /\ CountOf(a, y) \in Nat /\ CountOf(a, z) \in Nat
           /\ Ice(m, "run", a) \in Nat /\ Ice(m, "loop", a) \in Nat
           /\ Ice(m, "recipient", a) \in Nat /\ Offers(m, a) \in Nat
           /\ SGot(p, x, m, a) \in Nat /\ RGot(p, y, z, m, a) \in Nat
<1>1. p["sender"][a] \in Peer /\ p["recipient"][a] \in Peer
  BY DEF Typed, Peers, Sides
<1>2. /\ p["sender"][a].left \in Nat /\ p["recipient"][a].left \in Nat
      /\ Got(p["sender"][a], a) \in Nat /\ Got(p["recipient"][a], a) \in Nat
  BY <1>1, PeerNat
<1>3. CountOf(a, x) \in Nat /\ CountOf(a, y) \in Nat /\ CountOf(a, z) \in Nat
  BY CountNat DEF Typed
<1>4. /\ Ice(m, "run", a) \in Nat /\ Ice(m, "loop", a) \in Nat
      /\ Ice(m, "recipient", a) \in Nat /\ Offers(m, a) \in Nat
  BY PostNat DEF Typed, Boxes
<1> QED
  BY <1>2, <1>3, <1>4 DEF SGot, RGot

LEMMA TypedNow == Shape => Typed(peers, session.pending, rsession.pending, Kept(states), mail)
<1> SUFFICES ASSUME Shape
             PROVE  Typed(peers, session.pending, rsession.pending, Kept(states), mail)
  OBVIOUS
<1>1. peers \in Peers /\ mail \in Mail /\ states \in Seq(State)
  BY DEF Shape, WireShape, BrowserShape, Mail
<1>2. session.pending \in Seq(Attempts) /\ rsession.pending \in Seq(Attempts)
  BY DEF Shape, SenderShape, AgentShape, Session, RSession, Waiting
<1>3. Kept(states) \in Seq(Attempts)
  <2>1. CASE states = <<>>
    BY <2>1 DEF Kept
  <2>2. CASE states # <<>>
    <3>1. states[Len(states)] \in State
      BY <1>1, <2>2
    <3> QED
      BY <2>2, <3>1 DEF Kept, State
  <2> QED
    BY <2>1, <2>2
<1>4. mail \in Posts
  BY <1>1, MailPosts
<1> QED
  BY <1>1, <1>2, <1>3, <1>4 DEF Typed

LEMMA TypedThen == Shape' => Typed(peers', session'.pending, rsession'.pending, Kept(states'), mail')
<1> DEFINE T == Typed(peers, session.pending, rsession.pending, Kept(states), mail)
<1>1. Shape => T
  BY TypedNow
<1> HIDE DEF T
<1>2. Shape' => T'
  BY <1>1, PTL
<1> QED
  BY <1>2 DEF T

-----------------------------------------------------------------------------
(* Steps that bring no candidate: everything that is counted goes down.    *)

Milder(q2, q) ==
    /\ (q2.state = "none") <=> (q.state = "none")
    /\ q.state \notin {"none", "making"} => q2.state \notin {"none", "making"}
    /\ q2.left <= q.left

PeersDown(p2, p) ==
    \A side \in Sides, a \in Attempts :
        Milder(p2[side][a], p[side][a]) /\ Got(p2[side][a], a) <= Got(p[side][a], a)

MailDown(m2, m) ==
    \A a \in Attempts :
        /\ \A box \in Boxes : Ice(m2, box, a) <= Ice(m, box, a)
        /\ Offers(m2, a) <= Offers(m, a)

Fewer(x2, x) == \A a \in Attempts : CountOf(a, x2) <= CountOf(a, x)

LEMMA Sums ==
    ASSUME NEW l \in Nat, NEW w \in Nat, NEW l2 \in Nat, NEW w2 \in Nat, l2 <= l, w2 <= w
    PROVE  l2 + w2 <= l + w
  OBVIOUS

\* A peer and what the other has got of it, together, do not grow.
LEMMA BudgetKept ==
    ASSUME NEW g \in Nat,
           NEW p, NEW x, NEW y, NEW z, NEW m, Typed(p, x, y, z, m),
           NEW p2, NEW x2, NEW y2, NEW z2, NEW m2, Typed(p2, x2, y2, z2, m2),
           Budget(g, p, x, y, z, m),
           \A a \in Attempts :
              /\ p2["recipient"][a].left + SGot(p2, x2, m2, a) <= p["recipient"][a].left + SGot(p, x, m, a)
              /\ p2["sender"][a].left + RGot(p2, y2, z2, m2, a) <= p["sender"][a].left + RGot(p, y, z, m, a)
              /\ p2["recipient"][a].state = "none" => p["recipient"][a].state = "none"
              /\ p2["sender"][a].state = "none" => p["sender"][a].state = "none"
    PROVE  Budget(g, p2, x2, y2, z2, m2)
<1>1. ASSUME NEW a \in Attempts
      PROVE  /\ p2["recipient"][a].left + SGot(p2, x2, m2, a) <= g
             /\ p2["recipient"][a].state = "none" => p2["recipient"][a].left + SGot(p2, x2, m2, a) = 0
  <2> DEFINE w  == p["recipient"][a].left + SGot(p, x, m, a)
             w2 == p2["recipient"][a].left + SGot(p2, x2, m2, a)
  <2>1. w \in Nat
    BY Parts
  <2>2. w2 \in Nat
    BY Parts
  <2>3. w <= g /\ (p["recipient"][a].state = "none" => w = 0)
    BY DEF Budget
  <2>4. w2 <= w
    OBVIOUS
  <2> HIDE DEF w, w2
  <2>5. w2 <= g /\ (w = 0 => w2 = 0)
    BY <2>1, <2>2, <2>3, <2>4
  <2> QED
    BY <2>3, <2>5 DEF w2
<1>2. ASSUME NEW a \in Attempts
      PROVE  /\ p2["sender"][a].left + RGot(p2, y2, z2, m2, a) <= g
             /\ p2["sender"][a].state = "none" => p2["sender"][a].left + RGot(p2, y2, z2, m2, a) = 0
  <2> DEFINE w  == p["sender"][a].left + RGot(p, y, z, m, a)
             w2 == p2["sender"][a].left + RGot(p2, y2, z2, m2, a)
  <2>1. w \in Nat
    BY Parts
  <2>2. w2 \in Nat
    BY Parts
  <2>3. w <= g /\ (p["sender"][a].state = "none" => w = 0)
    BY DEF Budget
  <2>4. w2 <= w
    OBVIOUS
  <2> HIDE DEF w, w2
  <2>5. w2 <= g /\ (w = 0 => w2 = 0)
    BY <2>1, <2>2, <2>3, <2>4
  <2> QED
    BY <2>3, <2>5 DEF w2
<1> QED
  BY <1>1, <1>2 DEF Budget

\* When nothing grows the books stay right.
LEMMA Steady ==
    ASSUME NEW g \in Nat,
           NEW p, NEW x, NEW y, NEW z, NEW m, Typed(p, x, y, z, m),
           NEW p2, NEW x2, NEW y2, NEW z2, NEW m2, Typed(p2, x2, y2, z2, m2),
           Books(g, p, x, y, z, m),
           \A a \in Attempts :
              /\ SGot(p2, x2, m2, a) <= SGot(p, x, m, a)
              /\ RGot(p2, y2, z2, m2, a) <= RGot(p, y, z, m, a)
              /\ Offers(m2, a) <= Offers(m, a)
              /\ Milder(p2["sender"][a], p["sender"][a])
              /\ Milder(p2["recipient"][a], p["recipient"][a])
    PROVE  Books(g, p2, x2, y2, z2, m2)
<1>1. ASSUME NEW a \in Attempts
      PROVE  p2["recipient"][a].left + SGot(p2, x2, m2, a) <= p["recipient"][a].left + SGot(p, x, m, a)
  <2>1. SGot(p, x, m, a) \in Nat /\ p["recipient"][a].left \in Nat
    BY Parts
  <2>2. SGot(p2, x2, m2, a) \in Nat /\ p2["recipient"][a].left \in Nat
    BY Parts
  <2>3. SGot(p2, x2, m2, a) <= SGot(p, x, m, a) /\ p2["recipient"][a].left <= p["recipient"][a].left
    BY DEF Milder
  <2> QED
    BY <2>1, <2>2, <2>3, Sums
<1>2. ASSUME NEW a \in Attempts
      PROVE  p2["sender"][a].left + RGot(p2, y2, z2, m2, a) <= p["sender"][a].left + RGot(p, y, z, m, a)
  <2>1. RGot(p, y, z, m, a) \in Nat /\ p["sender"][a].left \in Nat
    BY Parts
  <2>2. RGot(p2, y2, z2, m2, a) \in Nat /\ p2["sender"][a].left \in Nat
    BY Parts
  <2>3. RGot(p2, y2, z2, m2, a) <= RGot(p, y, z, m, a) /\ p2["sender"][a].left <= p["sender"][a].left
    BY DEF Milder
  <2> QED
    BY <2>1, <2>2, <2>3, Sums
<1>3. Budget(g, p2, x2, y2, z2, m2)
  <2>1. Budget(g, p, x, y, z, m)
    BY DEF Books
  <2>2. \A a \in Attempts : /\ p2["recipient"][a].state = "none" => p["recipient"][a].state = "none"
                            /\ p2["sender"][a].state = "none" => p["sender"][a].state = "none"
    BY DEF Milder
  <2> QED
    BY <1>1, <1>2, <2>1, <2>2, BudgetKept
<1>4. Once(p2, m2)
  <2>1. ASSUME NEW a \in Attempts
        PROVE  Offers(m2, a) + (IF p2["recipient"][a].state = "none" THEN 0 ELSE 1)
                 <= IF p2["sender"][a].state \in {"none", "making"} THEN 0 ELSE 1
    <3> DEFINE n  == Offers(m, a)
               n2 == Offers(m2, a)
    <3>1. n \in Nat
      BY Parts
    <3>2. n2 \in Nat
      BY Parts
    <3>3. n + (IF p["recipient"][a].state = "none" THEN 0 ELSE 1)
            <= IF p["sender"][a].state \in {"none", "making"} THEN 0 ELSE 1
      BY DEF Books, Once
    <3>4. /\ n2 <= n
          /\ (p2["recipient"][a].state = "none") <=> (p["recipient"][a].state = "none")
          /\ p["sender"][a].state \notin {"none", "making"}
               => p2["sender"][a].state \notin {"none", "making"}
      BY DEF Milder
    <3> HIDE DEF n, n2
    <3>5. n2 + (IF p2["recipient"][a].state = "none" THEN 0 ELSE 1)
            <= IF p2["sender"][a].state \in {"none", "making"} THEN 0 ELSE 1
      BY <3>1, <3>2, <3>3, <3>4
    <3> QED
      BY <3>5 DEF n2
  <2> QED
    BY <2>1 DEF Once
<1>5. InOrder(p2)
  <2>1. \A a \in Attempts : (p2["sender"][a].state = "none") <=> (p["sender"][a].state = "none")
    BY DEF Milder
  <2> QED
    BY <2>1 DEF Books, InOrder
<1> QED
  BY <1>3, <1>4, <1>5 DEF Books

\* The usual case: each part by itself goes down.
LEMMA Descent ==
    ASSUME NEW g \in Nat,
           NEW p, NEW x, NEW y, NEW z, NEW m, Typed(p, x, y, z, m),
           NEW p2, NEW x2, NEW y2, NEW z2, NEW m2, Typed(p2, x2, y2, z2, m2),
           Books(g, p, x, y, z, m),
           PeersDown(p2, p), MailDown(m2, m), Fewer(x2, x), Fewer(y2, y), Fewer(z2, z)
    PROVE  Books(g, p2, x2, y2, z2, m2)
<1>1. ASSUME NEW a \in Attempts
      PROVE  SGot(p2, x2, m2, a) <= SGot(p, x, m, a)
  <2>1. /\ Got(p2["sender"][a], a) <= Got(p["sender"][a], a) /\ CountOf(a, x2) <= CountOf(a, x)
        /\ Ice(m2, "run", a) <= Ice(m, "run", a) /\ Ice(m2, "loop", a) <= Ice(m, "loop", a)
    BY DEF PeersDown, Fewer, MailDown, Boxes, Sides
  <2>2. /\ Got(p["sender"][a], a) \in Nat /\ CountOf(a, x) \in Nat
        /\ Ice(m, "run", a) \in Nat /\ Ice(m, "loop", a) \in Nat
    BY Parts
  <2>3. /\ Got(p2["sender"][a], a) \in Nat /\ CountOf(a, x2) \in Nat
        /\ Ice(m2, "run", a) \in Nat /\ Ice(m2, "loop", a) \in Nat
    BY Parts
  <2> QED
    BY <2>1, <2>2, <2>3 DEF SGot
<1>2. ASSUME NEW a \in Attempts
      PROVE  RGot(p2, y2, z2, m2, a) <= RGot(p, y, z, m, a)
  <2>1. /\ Got(p2["recipient"][a], a) <= Got(p["recipient"][a], a)
        /\ CountOf(a, y2) <= CountOf(a, y) /\ CountOf(a, z2) <= CountOf(a, z)
        /\ Ice(m2, "recipient", a) <= Ice(m, "recipient", a)
    BY DEF PeersDown, Fewer, MailDown, Boxes, Sides
  <2>2. /\ Got(p["recipient"][a], a) \in Nat /\ CountOf(a, y) \in Nat
        /\ CountOf(a, z) \in Nat /\ Ice(m, "recipient", a) \in Nat
    BY Parts
  <2>3. /\ Got(p2["recipient"][a], a) \in Nat /\ CountOf(a, y2) \in Nat
        /\ CountOf(a, z2) \in Nat /\ Ice(m2, "recipient", a) \in Nat
    BY Parts
  <2> QED
    BY <2>1, <2>2, <2>3 DEF RGot
<1>3. \A a \in Attempts : /\ Offers(m2, a) <= Offers(m, a)
                          /\ Milder(p2["sender"][a], p["sender"][a])
                          /\ Milder(p2["recipient"][a], p["recipient"][a])
  BY DEF PeersDown, MailDown, Sides
<1> QED
  BY <1>1, <1>2, <1>3, Steady

LEMMA FewerSame ==
    ASSUME NEW x \in Seq(Attempts)
    PROVE  Fewer(x, x) /\ Fewer(<<>>, x)
<1>1. \A a \in Attempts : CountOf(a, x) \in Nat
  BY CountNat
<1>2. \A a \in Attempts : CountOf(a, <<>>) = 0
  BY CountEmpty
<1> QED
  BY <1>1, <1>2 DEF Fewer

-----------------------------------------------------------------------------
(* Peers.                                                                  *)

LEMMA PeersSame ==
    ASSUME NEW p \in Peers
    PROVE  PeersDown(p, p)
<1>1. ASSUME NEW side \in Sides, NEW a \in Attempts
      PROVE  Milder(p[side][a], p[side][a]) /\ Got(p[side][a], a) <= Got(p[side][a], a)
  <2>1. p[side][a] \in Peer
    BY DEF Peers
  <2>2. p[side][a].left \in Nat /\ Got(p[side][a], a) \in Nat
    BY <2>1, PeerNat
  <2> QED
    BY <2>2 DEF Milder
<1> QED
  BY <1>1 DEF PeersDown

\* One peer changes, for a milder one.
LEMMA PeerDown ==
    ASSUME NEW p \in Peers, NEW side \in Sides, NEW a \in Attempts, NEW q \in Peer,
           Milder(q, p[side][a]), Got(q, a) <= Got(p[side][a], a)
    PROVE  PeersDown([p EXCEPT ![side][a] = q], p)
<1> DEFINE p2 == [p EXCEPT ![side][a] = q]
<1>1. \A s \in Sides, b \in Attempts : p2[s][b] = IF s = side /\ b = a THEN q ELSE p[s][b]
  <2>1. p[side][a] \in Peer /\ \A s \in Sides : p[s] \in [Attempts -> Peer]
    BY DEF Peers
  <2> QED
    BY <2>1 DEF Peers
<1>2. PeersDown(p, p)
  BY PeersSame
<1> HIDE DEF p2
<1>3. PeersDown(p2, p)
  BY <1>1, <1>2 DEF PeersDown
<1> QED
  BY <1>3 DEF p2

\* Closing a peer takes away all it has.
LEMMA CloseMilder ==
    ASSUME NEW q \in Peer, NEW b
    PROVE  Milder(Close(q), q) /\ Got(Close(q), b) <= Got(q, b)
<1>1. q.left \in Nat /\ Got(q, b) \in Nat
  BY PeerNat
<1>2. CASE q.state = "none"
  <2>1. Close(q) = q
    BY <1>2 DEF Close
  <2> QED
    BY <1>1, <2>1 DEF Milder
<1>3. CASE q.state # "none"
  <2>1. Close(q) = [NoPeer EXCEPT !.state = "closed"]
    BY <1>3 DEF Close
  <2>2. /\ Close(q).state = "closed" /\ Close(q).left = 0 /\ Close(q).added = 0
        /\ Close(q).held = <<>>
    BY <2>1 DEF NoPeer
  <2>3. Got(Close(q), b) = 0
    BY <2>2, CountEmpty DEF Got
  <2> QED
    BY <1>1, <1>3, <2>2, <2>3 DEF Milder
<1> QED
  BY <1>2, <1>3

LEMMA CloseDown ==
    ASSUME NEW p \in Peers, NEW side \in Sides, NEW a \in 0 .. MaxAttempts
    PROVE  PeersDown(CloseAt(p, side, a), p)
<1>1. \A q \in Peer, b \in Attempts : Milder(Close(q), q) /\ Got(Close(q), b) <= Got(q, b)
  BY CloseMilder
<1>2. \A s \in Sides, b \in Attempts : p[s][b] \in Peer
  BY DEF Peers
<1>3. \A s \in Sides, b \in Attempts :
          CloseAt(p, side, a)[s][b] = IF s = side /\ b = a THEN Close(p[s][b]) ELSE p[s][b]
  BY CloseAtShape
<1>4. PeersDown(p, p)
  BY PeersSame
<1>5. ASSUME NEW s \in Sides, NEW b \in Attempts
      PROVE  /\ Milder(CloseAt(p, side, a)[s][b], p[s][b])
             /\ Got(CloseAt(p, side, a)[s][b], b) <= Got(p[s][b], b)
  <2>1. CASE s = side /\ b = a
    <3>1. CloseAt(p, side, a)[s][b] = Close(p[s][b])
      BY <1>3, <2>1
    <3>2. Milder(Close(p[s][b]), p[s][b]) /\ Got(Close(p[s][b]), b) <= Got(p[s][b], b)
      BY <1>1, <1>2
    <3> QED
      BY <3>1, <3>2
  <2>2. CASE ~(s = side /\ b = a)
    <3>1. CloseAt(p, side, a)[s][b] = p[s][b]
      BY <1>3, <2>2
    <3> QED
      BY <1>4, <3>1 DEF PeersDown
  <2> QED
    BY <2>1, <2>2
<1> QED
  BY <1>5 DEF PeersDown

LEMMA PeersDownTrans ==
    ASSUME NEW p \in Peers, NEW p2 \in Peers, NEW p3 \in Peers, PeersDown(p3, p2), PeersDown(p2, p)
    PROVE  PeersDown(p3, p)
<1>1. ASSUME NEW s \in Sides, NEW b \in Attempts
      PROVE  Milder(p3[s][b], p[s][b]) /\ Got(p3[s][b], b) <= Got(p[s][b], b)
  <2>1. p[s][b] \in Peer /\ p2[s][b] \in Peer /\ p3[s][b] \in Peer
    BY DEF Peers
  <2>2. /\ p[s][b].left \in Nat /\ p2[s][b].left \in Nat /\ p3[s][b].left \in Nat
        /\ Got(p[s][b], b) \in Nat /\ Got(p2[s][b], b) \in Nat /\ Got(p3[s][b], b) \in Nat
    BY <2>1, PeerNat
  <2>3. /\ Milder(p3[s][b], p2[s][b]) /\ Got(p3[s][b], b) <= Got(p2[s][b], b)
        /\ Milder(p2[s][b], p[s][b]) /\ Got(p2[s][b], b) <= Got(p[s][b], b)
    BY DEF PeersDown
  <2>4. Got(p3[s][b], b) <= Got(p[s][b], b)
    BY <2>2, <2>3
  <2>5. Milder(p3[s][b], p[s][b])
    BY <2>2, <2>3 DEF Milder
  <2> QED
    BY <2>4, <2>5
<1> QED
  BY <1>1 DEF PeersDown

-----------------------------------------------------------------------------
(* Mail, whatever it says.                                                 *)

\* Messages that bring neither a candidate nor an offer.
Plain(out) == out \in Seq(Post) /\ \A i \in 1 .. Len(out) : out[i].type \notin {"ice", "webrtc_offer"}

LEMMA PlainOne ==
    ASSUME NEW t \in Types \ {"ice", "webrtc_offer"}, NEW n \in Nat
    PROVE  /\ Plain(<<Message(t, n)>>)
           /\ \A out : Plain(out) => Plain(Append(out, Message(t, n)))
           /\ Plain(<<>>)
<1>1. Message(t, n) \in Post /\ Message(t, n).type = t
  BY DEF Message, Post
<1> QED
  BY <1>1 DEF Plain

\* A plain message in any box, or in none.
LEMMA PlainDown ==
    ASSUME NEW m \in Posts, NEW out, Plain(out), NEW box \in Boxes
    PROVE  /\ [m EXCEPT ![box] = @ \o out] \in Posts
           /\ MailDown([m EXCEPT ![box] = @ \o out], m) /\ MailDown(m, m)
<1> DEFINE m2 == [m EXCEPT ![box] = @ \o out]
<1>1. \A b \in Boxes : m[b] \in Seq(Post)
  BY DEF Posts
<1>2. \A b \in Boxes : m2[b] = IF b = box THEN m[box] \o out ELSE m[b]
  BY DEF Posts
<1>3. m2 \in Posts
  BY <1>1 DEF Posts, Plain
<1>4. ASSUME NEW a, NEW t \in {"ice", "webrtc_offer"}, NEW b \in Boxes
      PROVE  CountOf(Message(t, a), m2[b]) = CountOf(Message(t, a), m[b])
  <2>1. \A i \in 1 .. Len(out) : out[i] # Message(t, a)
    BY DEF Plain, Message
  <2>2. CountOf(Message(t, a), m[box] \o out) = CountOf(Message(t, a), m[box])
    BY <1>1, <2>1, CountCat DEF Plain
  <2> QED
    BY <1>2, <2>2
<1> HIDE DEF m2
<1>5. "recipient" \in Boxes
  BY DEF Boxes
<1>6. \A a \in Attempts : /\ \A b \in Boxes : Ice(m2, b, a) = Ice(m, b, a)
                          /\ Offers(m2, a) = Offers(m, a)
  BY <1>4, <1>5 DEF Ice, Offers
<1>7. \A a \in Attempts : (\A b \in Boxes : Ice(m, b, a) \in Nat) /\ Offers(m, a) \in Nat
  BY PostNat
<1>8. MailDown(m2, m) /\ MailDown(m, m)
  BY <1>6, <1>7 DEF MailDown
<1> QED
  BY <1>3, <1>8 DEF m2

LEMMA ToRecipientDown ==
    ASSUME NEW m \in Posts, NEW out, Plain(out)
    PROVE  ToRecipient(m, out) \in Posts /\ MailDown(ToRecipient(m, out), m)
  BY PlainDown DEF ToRecipient, Boxes

LEMMA ToSenderDown ==
    ASSUME NEW m \in Posts, NEW out, Plain(out)
    PROVE  ToSender(m, out) \in Posts /\ MailDown(ToSender(m, out), m)
  BY PlainDown DEF ToSender, Boxes

\* A message is read.
LEMMA ReadDown ==
    ASSUME NEW m \in Posts, NEW box \in Boxes, m[box] # <<>>
    PROVE  /\ [m EXCEPT ![box] = Tail(@)] \in Posts
           /\ MailDown([m EXCEPT ![box] = Tail(@)], m)
<1> DEFINE m2 == [m EXCEPT ![box] = Tail(@)]
<1>1. \A b \in Boxes : m[b] \in Seq(Post)
  BY DEF Posts
<1>2. \A b \in Boxes : m2[b] = IF b = box THEN Tail(m[box]) ELSE m[b]
  BY DEF Posts
<1>3. m2 \in Posts
  BY <1>1, TailOf DEF Posts
<1>4. ASSUME NEW x, NEW b \in Boxes
      PROVE  CountOf(x, m2[b]) <= CountOf(x, m[b])
  <2>1. CountOf(x, m[box]) = CountOf(x, Tail(m[box])) + IF Head(m[box]) = x THEN 1 ELSE 0
    BY <1>1, CountTail
  <2>2. CountOf(x, Tail(m[box])) \in Nat /\ CountOf(x, m[b]) \in Nat
    BY <1>1, TailOf, CountNat
  <2>3. CASE b = box
    BY <1>2, <2>1, <2>2, <2>3
  <2>4. CASE b # box
    BY <1>2, <2>2, <2>4
  <2> QED
    BY <2>3, <2>4
<1> HIDE DEF m2
<1>5. "recipient" \in Boxes
  BY DEF Boxes
<1>6. MailDown(m2, m)
  BY <1>4, <1>5 DEF MailDown, Ice, Offers
<1> QED
  BY <1>3, <1>6 DEF m2

LEMMA ClearDown ==
    ASSUME NEW m \in Posts, NEW m2 \in Posts, m2["loop"] = m["loop"], m2["recipient"] = m["recipient"]
    PROVE  MailDown([m2 EXCEPT !.run = <<>>], m)
<1> DEFINE m3 == [m2 EXCEPT !.run = <<>>]
<1>1. m3["run"] = <<>> /\ m3["loop"] = m["loop"] /\ m3["recipient"] = m["recipient"]
  BY DEF Posts, Boxes
<1> HIDE DEF m3
<1>2. ASSUME NEW a \in Attempts
      PROVE  (\A b \in Boxes : Ice(m3, b, a) <= Ice(m, b, a)) /\ Offers(m3, a) <= Offers(m, a)
  <2>1. /\ \A b \in Boxes : Ice(m, b, a) \in Nat
        /\ Offers(m, a) \in Nat
    BY PostNat
  <2>2. Ice(m3, "run", a) = 0
    BY <1>1, CountEmpty DEF Ice
  <2>3. /\ Ice(m3, "loop", a) = Ice(m, "loop", a) /\ Ice(m3, "recipient", a) = Ice(m, "recipient", a)
        /\ Offers(m3, a) = Offers(m, a)
    BY <1>1 DEF Ice, Offers
  <2>4. \A b \in Boxes : Ice(m3, b, a) <= Ice(m, b, a)
    BY <2>1, <2>2, <2>3 DEF Boxes
  <2> QED
    BY <2>1, <2>3, <2>4
<1>3. MailDown(m3, m)
  BY <1>2 DEF MailDown
<1> QED
  BY <1>3 DEF m3

LEMMA MailDownTrans ==
    ASSUME NEW m \in Posts, NEW m2 \in Posts, NEW m3 \in Posts, MailDown(m3, m2), MailDown(m2, m)
    PROVE  MailDown(m3, m)
<1>1. ASSUME NEW a \in Attempts
      PROVE  (\A b \in Boxes : Ice(m3, b, a) <= Ice(m, b, a)) /\ Offers(m3, a) <= Offers(m, a)
  <2>1. /\ \A b \in Boxes : Ice(m, b, a) \in Nat /\ Ice(m2, b, a) \in Nat /\ Ice(m3, b, a) \in Nat
        /\ Offers(m, a) \in Nat /\ Offers(m2, a) \in Nat /\ Offers(m3, a) \in Nat
    BY PostNat
  <2>2. /\ \A b \in Boxes : Ice(m3, b, a) <= Ice(m2, b, a) /\ Ice(m2, b, a) <= Ice(m, b, a)
        /\ Offers(m3, a) <= Offers(m2, a) /\ Offers(m2, a) <= Offers(m, a)
    BY DEF MailDown
  <2> QED
    BY <2>1, <2>2
<1> QED
  BY <1>1 DEF MailDown

-----------------------------------------------------------------------------
(* The ledger after a step.                                                *)

\* The books were right with p, x, y, z and m, and from there everything goes down.
LEMMA Settle ==
    ASSUME Shape, Shape', plan' = plan,
           NEW p, NEW x, NEW y, NEW z, NEW m, Typed(p, x, y, z, m),
           Books(plan.gather, p, x, y, z, m),
           PeersDown(peers', p), MailDown(mail', m),
           Fewer(session'.pending, x), Fewer(rsession'.pending, y), Fewer(Kept(states'), z)
    PROVE  Ledger'
<1>1. plan.gather \in Nat
  BY PlanFacts DEF Shape, WireShape
<1>2. Typed(peers', session'.pending, rsession'.pending, Kept(states'), mail')
  BY TypedThen
<1>3. Books(plan.gather, peers', session'.pending, rsession'.pending, Kept(states'), mail')
  BY <1>1, <1>2, Descent
<1> QED
  BY <1>3 DEF Ledger

\* The head of a queue is dropped, and other parts go down.
LEMMA ReadBooks ==
    ASSUME Shape, Ledger, NEW box \in Boxes, mail[box] # <<>>,
           NEW p \in Peers, PeersDown(p, peers),
           NEW x \in Seq(Attempts), Fewer(x, session.pending),
           NEW y \in Seq(Attempts), Fewer(y, rsession.pending),
           NEW z \in Seq(Attempts), Fewer(z, Kept(states))
    PROVE  /\ Typed(p, x, y, z, [mail EXCEPT ![box] = Tail(@)])
           /\ Books(plan.gather, p, x, y, z, [mail EXCEPT ![box] = Tail(@)])
<1>1. plan.gather \in Nat
  BY PlanFacts DEF Shape, WireShape
<1>2. Typed(peers, session.pending, rsession.pending, Kept(states), mail)
  BY TypedNow
<1>3. mail \in Posts
  BY <1>2 DEF Typed
<1> DEFINE m1 == [mail EXCEPT ![box] = Tail(@)]
<1>4. m1 \in Posts /\ MailDown(m1, mail)
  BY <1>3, ReadDown
<1> HIDE DEF m1
<1>5. Typed(p, x, y, z, m1)
  BY <1>4 DEF Typed
<1>6. Books(plan.gather, peers, session.pending, rsession.pending, Kept(states), mail)
  BY DEF Ledger
<1>7. Books(plan.gather, p, x, y, z, m1)
  BY <1>1, <1>2, <1>4, <1>5, <1>6, Descent
<1> QED
  BY <1>5, <1>7 DEF m1

\* The four parts as they are.
LEMMA SameParts ==
    ASSUME Shape
    PROVE  /\ peers \in Peers /\ mail \in Posts /\ PeersDown(peers, peers) /\ MailDown(mail, mail)
           /\ session.pending \in Seq(Attempts) /\ Fewer(session.pending, session.pending)
           /\ rsession.pending \in Seq(Attempts) /\ Fewer(rsession.pending, rsession.pending)
           /\ Kept(states) \in Seq(Attempts) /\ Fewer(Kept(states), Kept(states))
<1>1. Typed(peers, session.pending, rsession.pending, Kept(states), mail)
  BY TypedNow
<1>2. /\ peers \in Peers /\ mail \in Posts /\ session.pending \in Seq(Attempts)
      /\ rsession.pending \in Seq(Attempts) /\ Kept(states) \in Seq(Attempts)
  BY <1>1 DEF Typed
<1>3. PeersDown(peers, peers)
  BY <1>2, PeersSame
<1>4. MailDown(mail, mail)
  <2>1. Plain(<<>>)
    BY DEF Plain
  <2>2. "run" \in Boxes
    BY DEF Boxes
  <2> QED
    BY <1>2, <2>1, <2>2, PlainDown
<1>5. /\ Fewer(session.pending, session.pending) /\ Fewer(rsession.pending, rsession.pending)
      /\ Fewer(Kept(states), Kept(states))
  BY <1>2, FewerSame
<1> QED
  BY <1>2, <1>3, <1>4, <1>5

\* A step that moves only what the ledger does not count.
LEMMA Untouched ==
    ASSUME Shape, Shape', Ledger, plan' = plan, PeersDown(peers', peers), MailDown(mail', mail),
           session' = session, rsession' = rsession, Kept(states') = Kept(states)
    PROVE  Ledger'
<1>1. Typed(peers, session.pending, rsession.pending, Kept(states), mail)
  BY TypedNow
<1>2. Books(plan.gather, peers, session.pending, rsession.pending, Kept(states), mail)
  BY DEF Ledger
<1>3. /\ Fewer(session'.pending, session.pending) /\ Fewer(rsession'.pending, rsession.pending)
      /\ Fewer(Kept(states'), Kept(states))
  BY SameParts
<1> QED
  BY <1>1, <1>2, <1>3, Settle

-----------------------------------------------------------------------------
(* The sender's handlers.                                                  *)

\* A run that ends closes the session it owns.
LEMMA EndedDown ==
    ASSUME NEW s \in Session, NEW p \in Peers, NEW j, NEW t, NEW f, Ended(j, t, s, p, f)
    PROVE  PeersDown(peers', p) /\ Fewer(session'.pending, s.pending)
<1>1. s.att \in 0 .. MaxAttempts /\ s.pending \in Seq(Attempts) /\ "sender" \in Sides
  BY DEF Session, Waiting, Sides
<1>2. PeersDown(CloseAt(p, "sender", s.att), p) /\ PeersDown(p, p)
  BY <1>1, CloseDown, PeersSame
<1>3. Fewer(s.pending, s.pending) /\ Fewer(<<>>, s.pending)
  BY <1>1, FewerSame
<1>4. peers' = CloseAt(p, "sender", s.att) \/ peers' = p
  BY DEF Ended
<1>5. session' = NoSession \/ session' = s
  BY DEF Ended
<1>6. NoSession.pending = <<>>
  BY DEF NoSession
<1> QED
  BY <1>2, <1>3, <1>4, <1>5, <1>6

LEMMA HandledDown ==
    ASSUME Shape, NEW box \in {"run", "loop"}, mail[box] # <<>>, NEW s \in Session, NEW p \in Peers,
           NEW j, NEW t, NEW err \in BOOLEAN, NEW verdict, Handled(box, j, t, s, p, err, verdict)
    PROVE  /\ PeersDown(peers', p) /\ Fewer(session'.pending, s.pending)
           /\ MailDown(mail', [mail EXCEPT ![box] = Tail(@)])
<1> DEFINE m1 == [mail EXCEPT ![box] = Tail(@)]
<1>1. mail \in Posts /\ box \in Boxes
  BY SameParts DEF Boxes
<1>2. m1 \in Posts
  BY <1>1, ReadDown
<1>3. CASE box = "run" /\ (err \/ verdict # "none")
  <2>1. /\ Ended(j, t, s, p, err \/ verdict = "failed")
        /\ mail' = [mail EXCEPT !.run = <<>>]
    BY <1>3 DEF Handled
  <2> HIDE DEF Ended
  <2>2. PeersDown(peers', p) /\ Fewer(session'.pending, s.pending)
    BY <2>1, EndedDown
  <2>3. m1["loop"] = mail["loop"] /\ m1["recipient"] = mail["recipient"]
    BY <1>1, <1>3 DEF Posts, Boxes
  <2> HIDE DEF m1
  <2>4. MailDown(mail', m1)
    BY <1>1, <1>2, <2>1, <2>3, ClearDown
  <2> QED
    BY <2>2, <2>4 DEF m1
<1>4. CASE ~(box = "run" /\ (err \/ verdict # "none"))
  <2>1. /\ session' = s /\ peers' = p
        /\ mail' = IF err THEN ToRecipient(m1, <<Message("failed", 0)>>) ELSE m1
    BY <1>4 DEF Handled
  <2> HIDE DEF m1
  <2>2. Plain(<<Message("failed", 0)>>) /\ Plain(<<>>)
    BY PlainOne DEF Types
  <2>3. MailDown(ToRecipient(m1, <<Message("failed", 0)>>), m1)
    BY <1>2, <2>2, ToRecipientDown
  <2>4. MailDown(m1, m1)
    BY <1>1, <1>2, <2>2, PlainDown
  <2>5. PeersDown(p, p) /\ Fewer(s.pending, s.pending)
    BY PeersSame, FewerSame DEF Session, Waiting
  <2> QED
    BY <2>1, <2>3, <2>4, <2>5 DEF m1
<1> QED
  BY <1>3, <1>4

\* A handler of the sender settles the ledger if the books are right with what it leaves.
LEMMA SenderSettles ==
    ASSUME Shape, Shape', NEW box \in {"run", "loop"}, mail[box] # <<>>,
           NEW s \in Session, NEW p \in Peers,
           NEW j, NEW t, NEW err \in BOOLEAN, NEW verdict, Handled(box, j, t, s, p, err, verdict),
           plan' = plan, UNCHANGED agentVars, UNCHANGED browserVars,
           Books(plan.gather, p, s.pending, rsession.pending, Kept(states),
                 [mail EXCEPT ![box] = Tail(@)])
    PROVE  Ledger'
<1> DEFINE m1 == [mail EXCEPT ![box] = Tail(@)]
<1>1. /\ PeersDown(peers', p) /\ Fewer(session'.pending, s.pending)
      /\ MailDown(mail', m1)
  BY HandledDown
<1>2. mail \in Posts /\ box \in Boxes
  BY SameParts DEF Boxes
<1>3. m1 \in Posts
  BY <1>2, ReadDown
<1>4. rsession' = rsession /\ states' = states
  BY DEF agentVars, browserVars
<1>5. Books(plan.gather, p, s.pending, rsession.pending, Kept(states), m1)
  OBVIOUS
<1> HIDE DEF m1
<1>6. Typed(p, s.pending, rsession.pending, Kept(states), m1)
  BY <1>3, SameParts DEF Typed, Session, Waiting
<1>7. Fewer(rsession'.pending, rsession.pending) /\ Fewer(Kept(states'), Kept(states))
  BY <1>4, SameParts
<1> QED
  BY <1>1, <1>5, <1>6, <1>7, Settle

\* The usual handler: it closes the session or keeps it, and brings no candidate.
LEMMA SenderOnly ==
    ASSUME Shape, Shape', Ledger, NEW box \in {"run", "loop"}, mail[box] # <<>>,
           NEW s \in Session, NEW p \in Peers,
           NEW j, NEW t, NEW err \in BOOLEAN, NEW verdict, Handled(box, j, t, s, p, err, verdict),
           plan' = plan, UNCHANGED agentVars, UNCHANGED browserVars,
           PeersDown(p, peers), Fewer(s.pending, session.pending)
    PROVE  Ledger'
<1>1. box \in Boxes /\ s.pending \in Seq(Attempts)
  BY DEF Boxes, Session, Waiting
<1>2. Books(plan.gather, p, s.pending, rsession.pending, Kept(states), [mail EXCEPT ![box] = Tail(@)])
  BY <1>1, SameParts, ReadBooks
<1> QED
  BY <1>2, SenderSettles

\* The handlers that leave the session alone.
LEMMA QuietSender ==
    ASSUME Shape, Shape', Ledger, UNCHANGED agentVars, UNCHANGED browserVars,
           NEW box \in {"run", "loop"},
           handleStarted(box) \/ handleProgress(box) \/ handleCompleted(box)
    PROVE  Ledger'
<1>1. ASSUME NEW j, NEW t, NEW err \in BOOLEAN, NEW v, NEW type,
             Reads(box, type), Handled(box, j, t, session, peers, err, v), plan' = plan
      PROVE  Ledger'
  <2>1. mail[box] # <<>>
    BY <1>1, ReadFacts
  <2> QED
    BY <1>1, <2>1, SameParts, SenderFacts, SenderOnly
<1>2. CASE handleStarted(box)
  <2>1. PICK err \in BOOLEAN, j \in {sjob, [sjob EXCEPT !.status = markTransferStarted(@)]} :
           Handled(box, j, touched \/ j # sjob, session, peers, err, "none")
    BY <1>2, SenderFacts, StartedRead
  <2>2. Reads(box, "started") /\ plan' = plan
    BY <1>2, SenderFacts, StartedRead
  <2> QED
    BY <1>1, <2>1, <2>2
<1>3. CASE handleProgress(box)
  <2> DEFINE counts == sjob.status \in {"connecting", "transferring"}
             j      == IF counts THEN [sjob EXCEPT !.progress = Head(mail[box]).n] ELSE sjob
             t      == touched \/ counts
  <2>1. Reads(box, "progress") /\ Handled(box, j, t, session, peers, FALSE, "none") /\ plan' = plan
    BY <1>3 DEF handleProgress
  <2> HIDE DEF j, t
  <2> QED
    BY <1>1, <2>1
<1>4. CASE handleCompleted(box)
  <2> DEFINE ok == completeTransferJob(sjob)
             j  == [sjob EXCEPT !.status = IF ok THEN "completed" ELSE markTransferStarted(@)]
             t  == touched \/ j # sjob
  <2>1. Reads(box, "completed") /\ Handled(box, j, t, session, peers, ~ok, "completed") /\ plan' = plan
    BY <1>4 DEF handleCompleted
  <2>2. (~ok) \in BOOLEAN
    OBVIOUS
  <2> HIDE DEF ok, j, t
  <2> QED
    BY <1>1, <2>1, <2>2
<1> QED
  BY <1>2, <1>3, <1>4

\* The handlers that close it.
LEMMA ClosingSender ==
    ASSUME Shape, Shape', Ledger, UNCHANGED agentVars, UNCHANGED browserVars,
           NEW box \in {"run", "loop"}, NEW type,
           handleTransferRetryable(box) \/ handleFailed(box, type)
    PROVE  Ledger'
<1> DEFINE p == CloseAt(peers, "sender", session.att)
<1>1. p \in Peers /\ PeersDown(p, peers)
  BY ClosedSession, SenderFacts, CloseDown
<1>2. NoSession \in Session /\ Fewer(NoSession.pending, session.pending)
  BY NoSessionShape, SameParts, FewerSame DEF NoSession
<1>3. ASSUME NEW j, NEW t, NEW err \in BOOLEAN, NEW ty,
             Reads(box, ty), Handled(box, j, t, NoSession, p, err, "failed"), plan' = plan
      PROVE  Ledger'
  <2>1. mail[box] # <<>>
    BY <1>3, ReadFacts
  <2> HIDE DEF p
  <2> QED
    BY <1>1, <1>2, <1>3, <2>1, SenderOnly
<1>4. CASE handleTransferRetryable(box)
  <2> DEFINE err == sjob.status \in Terminal
             j   == IF err THEN sjob
                    ELSE [status   |-> markJobRetryableIfMutable(sjob.status),
                          progress |-> Head(mail[box]).n]
             t   == touched \/ ~err
  <2>1. Reads(box, "retryable") /\ Handled(box, j, t, NoSession, p, err, "failed") /\ plan' = plan
    BY <1>4 DEF handleTransferRetryable
  <2>2. err \in BOOLEAN
    OBVIOUS
  <2> HIDE DEF err, j, t, p
  <2> QED
    BY <1>3, <2>1, <2>2
<1>5. CASE handleFailed(box, type)
  <2> DEFINE j == [sjob EXCEPT !.status = failTransferJob(@)]
             t == touched \/ j # sjob
  <2>1. Reads(box, type) /\ Handled(box, j, t, NoSession, p, FALSE, "failed") /\ plan' = plan
    BY <1>5 DEF handleFailed
  <2> HIDE DEF j, t, p
  <2> QED
    BY <1>3, <2>1
<1> QED
  BY <1>4, <1>5

-----------------------------------------------------------------------------
(* Candidates that move.                                                   *)

\* One candidate of attempt c, among those of attempt a.
Own(c, a) == IF c = a THEN 1 ELSE 0

\* A candidate that is added counts once, if it is the peer's at all.
LEMMA AddGot ==
    ASSUME NEW q \in Peer, NEW a \in Attempts, NEW c \in Attempts
    PROVE  /\ Got(AddICECandidate(q, a, c), a) <= Got(q, a) + Own(c, a)
           /\ Milder(AddICECandidate(q, a, c), q)
<1>0. q.left \in Nat /\ q.added \in Nat /\ CountOf(a, q.held) \in Nat /\ Got(q, a) \in Nat
  BY PeerNat
<1>h. q.held \in Seq(Attempts)
  BY DEF Peer, Waiting
<1>1. CASE Described(q)
  <2>1. AddICECandidate(q, a, c) = [q EXCEPT !.added = IF c = a THEN q.added + 1 ELSE q.added]
    BY <1>1 DEF AddICECandidate, Described, Peer
  <2> DEFINE q2 == AddICECandidate(q, a, c)
  <2>2. /\ q2.added = (IF c = a THEN q.added + 1 ELSE q.added) /\ q2.held = q.held
        /\ q2.state = q.state /\ q2.left = q.left
    BY <2>1 DEF Peer
  <2> HIDE DEF q2
  <2>3. Got(q2, a) = q2.added + CountOf(a, q.held) /\ Got(q, a) = q.added + CountOf(a, q.held)
    BY <2>2 DEF Got
  <2>4. Got(q2, a) <= Got(q, a) + Own(c, a)
    BY <1>0, <2>2, <2>3 DEF Own
  <2>5. Milder(q2, q)
    BY <1>0, <2>2 DEF Milder
  <2> QED
    BY <2>4, <2>5 DEF q2
<1>2. CASE ~Described(q) /\ q.state = "closed"
  <2>1. AddICECandidate(q, a, c) = q
    BY <1>2 DEF AddICECandidate, Described
  <2> QED
    BY <1>0, <2>1 DEF Milder, Own
<1>3. CASE ~Described(q) /\ q.state # "closed" /\ Full(q.held)
  <2>1. AddICECandidate(q, a, c) = Close(q)
    BY <1>3 DEF AddICECandidate
  <2>2. Milder(Close(q), q) /\ Got(Close(q), a) <= Got(q, a)
    BY CloseMilder
  <2>3. Close(q) \in Peer
    BY CloseShape
  <2>4. Got(Close(q), a) \in Nat
    BY <2>3, PeerNat
  <2> QED
    BY <1>0, <2>1, <2>2, <2>4 DEF Own
<1>4. CASE ~Described(q) /\ q.state # "closed" /\ ~Full(q.held)
  <2>1. AddICECandidate(q, a, c) = [q EXCEPT !.held = Append(q.held, c)]
    BY <1>4 DEF AddICECandidate, Peer
  <2> DEFINE q2 == AddICECandidate(q, a, c)
  <2>2. /\ q2.added = q.added /\ q2.held = Append(q.held, c)
        /\ q2.state = q.state /\ q2.left = q.left
    BY <2>1 DEF Peer
  <2> HIDE DEF q2
  <2>3. CountOf(a, Append(q.held, c)) = CountOf(a, q.held) + IF a = c THEN 1 ELSE 0
    BY <1>h, CountAppend
  <2>4. Got(q2, a) = q.added + CountOf(a, Append(q.held, c)) /\ Got(q, a) = q.added + CountOf(a, q.held)
    BY <2>2 DEF Got
  <2>5. Got(q2, a) <= Got(q, a) + Own(c, a)
    BY <1>0, <2>3, <2>4 DEF Own
  <2>6. Milder(q2, q)
    BY <1>0, <2>2 DEF Milder
  <2> QED
    BY <2>5, <2>6 DEF q2
<1> QED
  BY <1>1, <1>2, <1>3, <1>4

\* Held candidates become added ones.
LEMMA FlushMilder ==
    ASSUME NEW q \in Peer, NEW a, q.state # "none"
    PROVE  /\ Milder(flushPendingICE(q, a, "stable"), q)
           /\ Got(flushPendingICE(q, a, "stable"), a) <= Got(q, a)
<1> DEFINE q2 == flushPendingICE(q, a, "stable")
<1>1. q2 = [q EXCEPT !.state = "stable", !.added = q.added + CountOf(a, q.held), !.held = <<>>]
  BY DEF flushPendingICE, Peer
<1>2. /\ q2.state = "stable" /\ q2.added = q.added + CountOf(a, q.held) /\ q2.held = <<>>
      /\ q2.left = q.left
  BY <1>1 DEF Peer
<1> HIDE DEF q2
<1>3. q.left \in Nat /\ Got(q, a) \in Nat /\ q.added + CountOf(a, q.held) \in Nat
  BY PeerNat
<1>4. CountOf(a, q2.held) = 0
  BY <1>2, CountEmpty
<1>5. Got(q2, a) <= Got(q, a)
  BY <1>2, <1>3, <1>4 DEF Got
<1>6. Milder(q2, q)
  BY <1>2, <1>3 DEF Milder
<1> QED
  BY <1>5, <1>6 DEF q2

\* The head of a queue is a candidate, and is read.
LEMMA IceRead ==
    ASSUME NEW m \in Posts, NEW box \in Boxes, m[box] # <<>>, Head(m[box]).type = "ice"
    PROVE  \A a \in Attempts :
              /\ Ice(m, box, a) = Ice([m EXCEPT ![box] = Tail(@)], box, a)
                                    + Own(Head(m[box]).n, a)
              /\ \A b \in Boxes \ {box} : Ice([m EXCEPT ![box] = Tail(@)], b, a) = Ice(m, b, a)
<1> DEFINE m1 == [m EXCEPT ![box] = Tail(@)]
<1>1. m[box] \in Seq(Post)
  BY DEF Posts
<1>2. \A b \in Boxes : m1[b] = IF b = box THEN Tail(m[box]) ELSE m[b]
  BY DEF Posts
<1>3. Head(m[box]) \in Post
  BY <1>1, TailOf
<1>4. \A a : (Head(m[box]) = Message("ice", a)) <=> (Head(m[box]).n = a)
  BY <1>3 DEF Message, Post
<1>5. \A x : CountOf(x, m[box]) = CountOf(x, Tail(m[box])) + IF Head(m[box]) = x THEN 1 ELSE 0
  BY <1>1, CountTail
<1> HIDE DEF m1
<1>6. ASSUME NEW a \in Attempts
      PROVE  Ice(m, box, a) = Ice(m1, box, a) + Own(Head(m[box]).n, a)
  <2>1. CountOf(Message("ice", a), m[box])
          = CountOf(Message("ice", a), Tail(m[box])) + IF Head(m[box]) = Message("ice", a) THEN 1 ELSE 0
    BY <1>5
  <2>2. m1[box] = Tail(m[box])
    BY <1>2
  <2> QED
    BY <1>4, <2>1, <2>2 DEF Ice, Own
<1>7. \A a \in Attempts, b \in Boxes \ {box} : Ice(m1, b, a) = Ice(m, b, a)
  BY <1>2 DEF Ice
<1> QED
  BY <1>6, <1>7 DEF m1

LEMMA Trade ==
    ASSUME NEW i \in Nat, NEW a \in Nat, NEW b \in Nat, NEW c \in Nat, NEW d \in Nat,
           NEW a2 \in Nat, NEW b2 \in Nat, NEW c2 \in Nat, NEW d2 \in Nat
    PROVE  /\ a2 + b2 <= a + b + i /\ c2 + d2 + i = c + d => a2 + b2 + c2 + d2 <= a + b + c + d
           /\ a2 + b2 + c2 <= a + b + c + i /\ d = d2 + i => a2 + b2 + c2 + d2 <= a + b + c + d
  OBVIOUS

\* Among what the sender has, and the recipient, there is at most one candidate c more.
OneMoreAtSender(p2, x2, p, x, c) ==
    \A a \in Attempts :
        /\ Got(p2["sender"][a], a) + CountOf(a, x2)
             <= Got(p["sender"][a], a) + CountOf(a, x) + Own(c, a)
        /\ Milder(p2["sender"][a], p["sender"][a])
        /\ p2["recipient"][a] = p["recipient"][a]
OneMoreAtRecipient(p2, y2, z2, p, y, z, c) ==
    \A a \in Attempts :
        /\ Got(p2["recipient"][a], a) + CountOf(a, y2) + CountOf(a, z2)
             <= Got(p["recipient"][a], a) + CountOf(a, y) + CountOf(a, z) + Own(c, a)
        /\ Milder(p2["recipient"][a], p["recipient"][a])
        /\ p2["sender"][a] = p["sender"][a]

\* The sender takes a candidate from one of its queues.
LEMMA SenderTakes ==
    ASSUME NEW g \in Nat, NEW p, NEW x, NEW y, NEW z, NEW m, Typed(p, x, y, z, m),
           Books(g, p, x, y, z, m),
           NEW box \in {"run", "loop"}, m[box] # <<>>, Head(m[box]).type = "ice",
           NEW p2 \in Peers, NEW x2 \in Seq(Attempts),
           OneMoreAtSender(p2, x2, p, x, Head(m[box]).n)
    PROVE  Books(g, p2, x2, y, z, [m EXCEPT ![box] = Tail(@)])
<1> DEFINE m1 == [m EXCEPT ![box] = Tail(@)]
<1>1. m \in Posts /\ box \in Boxes
  BY DEF Typed, Boxes
<1>2. m1 \in Posts /\ MailDown(m1, m)
  BY <1>1, ReadDown
<1>3. \A a \in Attempts :
         /\ Ice(m, box, a) = Ice(m1, box, a) + Own(Head(m[box]).n, a)
         /\ \A b \in Boxes \ {box} : Ice(m1, b, a) = Ice(m, b, a)
  BY <1>1, IceRead
<1> HIDE DEF m1
<1>4. Typed(p2, x2, y, z, m1)
  BY <1>2 DEF Typed
<1>5. ASSUME NEW a \in Attempts
      PROVE  /\ SGot(p2, x2, m1, a) <= SGot(p, x, m, a)
             /\ RGot(p2, y, z, m1, a) <= RGot(p, y, z, m, a)
             /\ Offers(m1, a) <= Offers(m, a)
             /\ Milder(p2["sender"][a], p["sender"][a])
             /\ Milder(p2["recipient"][a], p["recipient"][a])
  <2> DEFINE i == Own(Head(m[box]).n, a)
  <2>1. /\ Got(p["sender"][a], a) \in Nat /\ CountOf(a, x) \in Nat
        /\ Ice(m, "run", a) \in Nat /\ Ice(m, "loop", a) \in Nat
        /\ p["recipient"][a].left \in Nat /\ RGot(p, y, z, m, a) \in Nat
    BY Parts
  <2>2. /\ Got(p2["sender"][a], a) \in Nat /\ CountOf(a, x2) \in Nat
        /\ Ice(m1, "run", a) \in Nat /\ Ice(m1, "loop", a) \in Nat
    BY <1>4, Parts
  <2>3. Got(p2["sender"][a], a) + CountOf(a, x2) <= Got(p["sender"][a], a) + CountOf(a, x) + i
    BY DEF OneMoreAtSender
  <2>4. Ice(m1, "run", a) + Ice(m1, "loop", a) + i = Ice(m, "run", a) + Ice(m, "loop", a)
    <3>1. CASE box = "run"
      <4>1. Ice(m, "run", a) = Ice(m1, "run", a) + i /\ Ice(m1, "loop", a) = Ice(m, "loop", a)
        BY <1>3, <3>1 DEF Boxes
      <4> QED
        BY <2>2, <4>1 DEF Own
    <3>2. CASE box = "loop"
      <4>1. Ice(m, "loop", a) = Ice(m1, "loop", a) + i /\ Ice(m1, "run", a) = Ice(m, "run", a)
        BY <1>3, <3>2 DEF Boxes
      <4> QED
        BY <2>2, <4>1 DEF Own
    <3> QED
      BY <3>1, <3>2
  <2>5. i \in Nat
    BY DEF Own
  <2> HIDE DEF i
  <2>6. SGot(p2, x2, m1, a) <= SGot(p, x, m, a)
    BY <2>1, <2>2, <2>3, <2>4, <2>5, Trade DEF SGot
  <2>7. Ice(m1, "recipient", a) = Ice(m, "recipient", a)
    BY <1>3 DEF Boxes
  <2>8. RGot(p2, y, z, m1, a) <= RGot(p, y, z, m, a)
    BY <2>1, <2>7 DEF RGot, OneMoreAtSender
  <2>9. Offers(m1, a) <= Offers(m, a)
    BY <1>2 DEF MailDown
  <2>10. Milder(p2["recipient"][a], p["recipient"][a])
    BY <2>1 DEF Milder, OneMoreAtSender
  <2> QED
    BY <2>6, <2>8, <2>9, <2>10 DEF OneMoreAtSender
<1>6. Books(g, p2, x2, y, z, m1)
  BY <1>4, <1>5, Steady
<1> QED
  BY <1>6 DEF m1

\* The recipient, agent or page, takes one from its own.
LEMMA RecipientTakes ==
    ASSUME NEW g \in Nat, NEW p, NEW x, NEW y, NEW z, NEW m, Typed(p, x, y, z, m),
           Books(g, p, x, y, z, m),
           m["recipient"] # <<>>, Head(m["recipient"]).type = "ice",
           NEW p2 \in Peers, NEW y2 \in Seq(Attempts), NEW z2 \in Seq(Attempts),
           OneMoreAtRecipient(p2, y2, z2, p, y, z, Head(m["recipient"]).n)
    PROVE  Books(g, p2, x, y2, z2, [m EXCEPT !["recipient"] = Tail(@)])
<1> DEFINE m1 == [m EXCEPT !["recipient"] = Tail(@)]
<1>1. m \in Posts /\ "recipient" \in Boxes
  BY DEF Typed, Boxes
<1>2. m1 \in Posts /\ MailDown(m1, m)
  BY <1>1, ReadDown
<1>3. \A a \in Attempts :
         /\ Ice(m, "recipient", a) = Ice(m1, "recipient", a) + Own(Head(m["recipient"]).n, a)
         /\ \A b \in Boxes \ {"recipient"} : Ice(m1, b, a) = Ice(m, b, a)
  BY <1>1, IceRead
<1> HIDE DEF m1
<1>4. Typed(p2, x, y2, z2, m1)
  BY <1>2 DEF Typed
<1>5. ASSUME NEW a \in Attempts
      PROVE  /\ SGot(p2, x, m1, a) <= SGot(p, x, m, a)
             /\ RGot(p2, y2, z2, m1, a) <= RGot(p, y, z, m, a)
             /\ Offers(m1, a) <= Offers(m, a)
             /\ Milder(p2["sender"][a], p["sender"][a])
             /\ Milder(p2["recipient"][a], p["recipient"][a])
  <2> DEFINE i == Own(Head(m["recipient"]).n, a)
  <2>1. /\ Got(p["recipient"][a], a) \in Nat /\ CountOf(a, y) \in Nat /\ CountOf(a, z) \in Nat
        /\ Ice(m, "recipient", a) \in Nat
        /\ p["sender"][a].left \in Nat /\ SGot(p, x, m, a) \in Nat
    BY Parts
  <2>2. /\ Got(p2["recipient"][a], a) \in Nat /\ CountOf(a, y2) \in Nat /\ CountOf(a, z2) \in Nat
        /\ Ice(m1, "recipient", a) \in Nat
    BY <1>4, Parts
  <2>3. Got(p2["recipient"][a], a) + CountOf(a, y2) + CountOf(a, z2)
          <= Got(p["recipient"][a], a) + CountOf(a, y) + CountOf(a, z) + i
    BY DEF OneMoreAtRecipient
  <2>4. Ice(m, "recipient", a) = Ice(m1, "recipient", a) + i
    BY <1>3
  <2>5. i \in Nat
    BY DEF Own
  <2> HIDE DEF i
  <2>6. RGot(p2, y2, z2, m1, a) <= RGot(p, y, z, m, a)
    BY <2>1, <2>2, <2>3, <2>4, <2>5, Trade DEF RGot
  <2>7. Ice(m1, "run", a) = Ice(m, "run", a) /\ Ice(m1, "loop", a) = Ice(m, "loop", a)
    BY <1>3 DEF Boxes
  <2>8. SGot(p2, x, m1, a) <= SGot(p, x, m, a)
    BY <2>1, <2>7 DEF SGot, OneMoreAtRecipient
  <2>9. Offers(m1, a) <= Offers(m, a)
    BY <1>2 DEF MailDown
  <2>10. Milder(p2["sender"][a], p["sender"][a])
    BY <2>1 DEF Milder, OneMoreAtRecipient
  <2> QED
    BY <2>6, <2>8, <2>9, <2>10 DEF OneMoreAtRecipient
<1>6. Books(g, p2, x, y2, z2, m1)
  BY <1>4, <1>5, Steady
<1> QED
  BY <1>6 DEF m1

\* One peer has taken the candidate.
LEMMA PeerTakes ==
    ASSUME NEW p \in Peers, NEW side \in Sides, NEW a \in Attempts, NEW c \in Attempts,
           NEW q, q = AddICECandidate(p[side][a], a, c), NEW p2,
           \A s \in Sides, b \in Attempts : p2[s][b] = IF s = side /\ b = a THEN q ELSE p[s][b]
    PROVE  /\ \A b \in Attempts :
                 /\ Got(p2[side][b], b) <= Got(p[side][b], b) + Own(c, b)
                 /\ Milder(p2[side][b], p[side][b])
           /\ \A s \in Sides \ {side}, b \in Attempts : p2[s][b] = p[s][b]
<1>1. \A s \in Sides, b \in Attempts : p[s][b] \in Peer
  BY DEF Peers
<1>2. \A s \in Sides \ {side}, b \in Attempts : p2[s][b] = p[s][b]
  OBVIOUS
<1>3. Got(q, a) <= Got(p[side][a], a) + Own(c, a) /\ Milder(q, p[side][a])
  BY <1>1, AddGot
<1>4. \A b \in Attempts : p2[side][b] = IF b = a THEN q ELSE p[side][b]
  OBVIOUS
<1>5. ASSUME NEW b \in Attempts
      PROVE  /\ Got(p2[side][b], b) <= Got(p[side][b], b) + Own(c, b)
             /\ Milder(p2[side][b], p[side][b])
  <2>1. CASE b = a
    BY <1>3, <1>4, <2>1
  <2>2. CASE b # a
    <3>1. p2[side][b] = p[side][b]
      BY <1>4, <2>2
    <3>2. Got(p[side][b], b) \in Nat /\ p[side][b].left \in Nat
      BY <1>1, PeerNat
    <3> QED
      BY <3>1, <3>2 DEF Milder, Own
  <2> QED
    BY <2>1, <2>2
<1> QED
  BY <1>2, <1>5

-----------------------------------------------------------------------------
(* The sender's handlers that move candidates.                             *)

LEMMA ICEToSender ==
    ASSUME Shape, Shape', Ledger, UNCHANGED agentVars, UNCHANGED browserVars,
           NEW box \in {"run", "loop"}, handleWebRTCICE(box)
    PROVE  Ledger'
<1> DEFINE a == session.att
           c == Head(mail[box]).n
<1>1. Reads(box, "ice") /\ plan' = plan
  BY DEF handleWebRTCICE
<1>2. mail[box] # <<>> /\ Head(mail[box]) \in Letter /\ Head(mail[box]).type = "ice"
  BY <1>1, ReadFacts
<1>3. c \in Attempts
  BY <1>2 DEF Letter
<1>4. plan.gather \in Nat
  BY PlanFacts, SenderFacts
<1>5. Typed(peers, session.pending, rsession.pending, Kept(states), mail)
  BY TypedNow
<1>6. Books(plan.gather, peers, session.pending, rsession.pending, Kept(states), mail)
  BY DEF Ledger
<1>7. \A b \in Attempts : /\ Got(peers["sender"][b], b) \in Nat /\ CountOf(b, session.pending) \in Nat
                          /\ Milder(peers["sender"][b], peers["sender"][b])
  BY <1>5, Parts DEF Milder
<1>t. ASSUME NEW p2 \in Peers, NEW x2 \in Seq(Attempts),
             OneMoreAtSender(p2, x2, peers, session.pending, c)
      PROVE  Books(plan.gather, p2, x2, rsession.pending, Kept(states), [mail EXCEPT ![box] = Tail(@)])
  BY <1>2, <1>4, <1>5, <1>6, <1>t, SenderTakes
<1>8. CASE sjob.status \in Terminal
  <2>1. Handled(box, sjob, touched, session, peers, FALSE, "none")
    BY <1>8 DEF handleWebRTCICE
  <2> QED
    BY <1>1, <1>2, <2>1, SenderFacts, SameParts, SenderOnly
<1>9. CASE sjob.status \notin Terminal /\ a = 0
  <2>1. CASE Full(session.pending)
    <3>1. Full(session.pending) \in BOOLEAN
      BY DEF Full
    <3>2. Handled(box, sjob, touched, session, peers, Full(session.pending), "none")
      BY <1>9, <2>1 DEF handleWebRTCICE
    <3> QED
      BY <1>1, <1>2, <3>1, <3>2, SenderFacts, SameParts, SenderOnly
  <2>2. CASE ~Full(session.pending)
    <3> DEFINE s == [session EXCEPT !.pending = Append(@, c)]
    <3>1. Full(session.pending) \in BOOLEAN
      BY DEF Full
    <3>2. Handled(box, sjob, touched, s, peers, Full(session.pending), "none")
      BY <1>9, <2>2 DEF handleWebRTCICE
    <3>3. Append(session.pending, c) \in Waiting
      BY <1>3, <2>2, SenderFacts, Bounds DEF Full, Session, Waiting
    <3>4. s \in Session /\ s.pending = Append(session.pending, c)
      BY <3>3, SenderFacts DEF Session
    <3>5. s.pending \in Seq(Attempts)
      BY <3>3, <3>4 DEF Waiting
    <3>6. ASSUME NEW b \in Attempts
          PROVE  Got(peers["sender"][b], b) + CountOf(b, s.pending)
                   <= Got(peers["sender"][b], b) + CountOf(b, session.pending) + Own(c, b)
      <4>1. session.pending \in Seq(Attempts)
        BY SameParts
      <4>2. CountOf(b, Append(session.pending, c)) = CountOf(b, session.pending) + IF b = c THEN 1 ELSE 0
        BY <1>3, <4>1, CountAppend
      <4> HIDE DEF s, c
      <4> QED
        BY <1>7, <3>4, <4>2 DEF Own
    <3> HIDE DEF s, c
    <3>7. peers \in Peers
      BY SenderFacts
    <3>8. Books(plan.gather, peers, s.pending, rsession.pending, Kept(states),
                [mail EXCEPT ![box] = Tail(@)])
      BY <1>t, <1>7, <3>5, <3>6, <3>7 DEF OneMoreAtSender
    <3> QED
      BY <1>1, <1>2, <3>1, <3>2, <3>4, <3>7, <3>8, SenderSettles
  <2> QED
    BY <2>1, <2>2
<1>10. CASE sjob.status \notin Terminal /\ a # 0
  <2>1. PICK refused \in AddRefusals(peers["sender"][a]) :
            Handled(box, sjob, touched, session,
                    [peers EXCEPT !["sender"][a] = AddICECandidate(@, a, c)], refused, "none")
    BY <1>10 DEF handleWebRTCICE
  <2>2. refused \in BOOLEAN
    BY <2>1, RefusalsShape
  <2>3. a \in Attempts /\ peers \in Peers /\ "sender" \in Sides
    BY <1>10, SenderFacts, Bounds DEF Attempts
  <2> DEFINE q == AddICECandidate(peers["sender"][a], a, c)
             p == [peers EXCEPT !["sender"][a] = q]
  <2>4. [peers EXCEPT !["sender"][a] = AddICECandidate(@, a, c)] = p
    BY <2>3 DEF Peers
  <2>5. q \in Peer /\ q = AddICECandidate(peers["sender"][a], a, c)
    BY <1>3, <2>3, SenderFacts, AddShape
  <2> HIDE DEF q
  <2>6. /\ p \in Peers
        /\ \A s \in Sides, b \in Attempts :
              p[s][b] = IF s = "sender" /\ b = a THEN q ELSE peers[s][b]
    BY <2>3, <2>5, SetPeer
  <2>h. Handled(box, sjob, touched, session, p, refused, "none")
    BY <2>1, <2>4
  <2> HIDE DEF p, c, a
  <2>7. /\ \A b \in Attempts :
              /\ Got(p["sender"][b], b) <= Got(peers["sender"][b], b) + Own(c, b)
              /\ Milder(p["sender"][b], peers["sender"][b])
        /\ \A s \in Sides \ {"sender"}, b \in Attempts : p[s][b] = peers[s][b]
    BY <1>3, <2>3, <2>5, <2>6, PeerTakes
  <2>8. ASSUME NEW b \in Attempts
        PROVE  Got(p["sender"][b], b) + CountOf(b, session.pending)
                 <= Got(peers["sender"][b], b) + CountOf(b, session.pending) + Own(c, b)
    <3>1. p["sender"][b] \in Peer
      BY <2>6 DEF Peers, Sides
    <3>2. Got(p["sender"][b], b) \in Nat
      BY <3>1, PeerNat
    <3> QED
      BY <1>7, <2>7, <3>2 DEF Own
  <2>9. \A b \in Attempts : p["recipient"][b] = peers["recipient"][b]
    BY <2>7 DEF Sides
  <2>10. session.pending \in Seq(Attempts)
    BY SameParts
  <2>11. OneMoreAtSender(p, session.pending, peers, session.pending, c)
    BY <2>7, <2>8, <2>9 DEF OneMoreAtSender
  <2>12. Books(plan.gather, p, session.pending, rsession.pending, Kept(states),
               [mail EXCEPT ![box] = Tail(@)])
    BY <1>t, <2>6, <2>10, <2>11
  <2> QED
    BY <1>1, <1>2, <2>2, <2>6, <2>h, <2>12, SenderFacts, SenderSettles
<1> QED
  BY <1>8, <1>9, <1>10

LEMMA AnswerToSender ==
    ASSUME Shape, Shape', Ledger, UNCHANGED agentVars, UNCHANGED browserVars,
           NEW box \in {"run", "loop"}, handleWebRTCAnswer(box)
    PROVE  Ledger'
<1> DEFINE a  == session.att
           ok == a # 0 /\ peers["sender"][a].state = "offered"
           p  == IF ok THEN [peers EXCEPT !["sender"][a] = flushPendingICE(@, a, "stable")] ELSE peers
<1>1. /\ Reads(box, "answer") /\ Handled(box, sjob, touched, session, p, ~ok, "none") /\ plan' = plan
  BY DEF handleWebRTCAnswer
<1>2. mail[box] # <<>>
  BY <1>1, ReadFacts
<1>3. p \in Peers /\ PeersDown(p, peers)
  <2>1. CASE ok
    <3>1. a \in Attempts
      BY <2>1, SenderFacts, Bounds DEF Attempts
    <3>2. peers \in Peers /\ peers["sender"][a] \in Peer /\ "sender" \in Sides
      BY <3>1, SenderFacts
    <3> DEFINE q == flushPendingICE(peers["sender"][a], a, "stable")
    <3>3. q \in Peer
      BY <3>2, FlushShape
    <3>4. Milder(q, peers["sender"][a]) /\ Got(q, a) <= Got(peers["sender"][a], a)
      BY <2>1, <3>2, FlushMilder
    <3>5. p = [peers EXCEPT !["sender"][a] = q]
      BY <2>1, <3>1, <3>2 DEF Peers
    <3> HIDE DEF q, p, a
    <3>6. [peers EXCEPT !["sender"][a] = q] \in Peers
      BY <3>1, <3>2, <3>3, SetPeer
    <3>7. PeersDown([peers EXCEPT !["sender"][a] = q], peers)
      BY <3>1, <3>2, <3>3, <3>4, PeerDown
    <3> QED
      BY <3>5, <3>6, <3>7
  <2>2. CASE ~ok
    BY <2>2, SameParts
  <2> QED
    BY <2>1, <2>2
<1>4. (~ok) \in BOOLEAN
  OBVIOUS
<1> HIDE DEF ok, p
<1> QED
  BY <1>1, <1>2, <1>3, <1>4, SenderFacts, SameParts, SenderOnly

-----------------------------------------------------------------------------
(* A new peer of the sender.                                               *)

\* The attempt it gets is the first without a peer.
LEMMA FirstFree ==
    ASSUME peers \in Peers, InOrder(peers), NextAttempt \in Attempts
    PROVE  /\ peers["sender"][NextAttempt].state = "none"
           /\ \A b \in Attempts : b < NextAttempt => peers["sender"][b].state # "none"
<1> DEFINE S == {a \in Attempts : peers["sender"][a].state # "none"}
           n == NextAttempt
<1>1. MaxAttempts \in Nat
  BY Bounds
<1>2. IsFiniteSet(Attempts)
  BY <1>1, FS_Interval DEF Attempts
<1>3. IsFiniteSet(S) /\ S \subseteq Attempts
  BY <1>2, FS_Subset
<1>4. Cardinality(S) \in Nat /\ n = Cardinality(S) + 1
  BY <1>3, FS_CardinalityType DEF NextAttempt
<1>5. \A k \in Nat : IsFiniteSet(1 .. k) /\ Cardinality(1 .. k) = k
  BY FS_Interval
<1>6. \A a \in Attempts : a \in Nat /\ a >= 1 /\ a <= MaxAttempts
  BY <1>1 DEF Attempts
<1>d. \A c \in S, b \in Attempts : b <= c => b \in S
  BY DEF InOrder
<1>7. n \notin S
  <2> SUFFICES ASSUME n \in S PROVE FALSE
    OBVIOUS
  <2>1. 1 .. n \subseteq S
    <3> SUFFICES ASSUME NEW b \in 1 .. n PROVE b \in S
      OBVIOUS
    <3>1. b \in Attempts /\ b <= n
      BY <1>1, <1>6 DEF Attempts
    <3> QED
      BY <1>d, <3>1
  <2>2. n \in Nat /\ Cardinality(1 .. n) = n
    BY <1>4, <1>5
  <2> HIDE DEF S, n
  <2>3. Cardinality(1 .. n) <= Cardinality(S)
    BY <1>3, <2>1, FS_Subset
  <2> QED
    BY <1>4, <2>2, <2>3
<1>8. ASSUME NEW b \in Attempts, b < n, b \notin S
      PROVE  FALSE
  <2>1. S \subseteq 1 .. (b - 1)
    BY <1>3, <1>6, <1>8, <1>d
  <2>2. b - 1 \in Nat
    BY <1>6
  <2>3. IsFiniteSet(1 .. (b - 1)) /\ Cardinality(1 .. (b - 1)) = b - 1
    BY <1>5, <2>2
  <2> HIDE DEF S, n
  <2>4. Cardinality(S) <= Cardinality(1 .. (b - 1))
    BY <2>1, <2>3, FS_Subset
  <2> QED
    BY <1>4, <1>6, <1>8, <2>2, <2>3, <2>4
<1> QED
  BY <1>7, <1>8

LEMMA Less ==
    ASSUME NEW a \in Nat, NEW b \in Nat, NEW c \in Nat, NEW d \in Nat,
           NEW a2 \in Nat, NEW b2 \in Nat, NEW c2 \in Nat, NEW d2 \in Nat,
           a2 + b2 <= a + b, c2 <= c, d2 <= d
    PROVE  a2 + b2 + c2 + d2 <= a + b + c + d
  OBVIOUS

\* The peer takes what the session kept for it, and brings its own candidates.
LEMMA NewSender ==
    ASSUME NEW g \in Nat, NEW p, NEW x, NEW y, NEW z, NEW m, Typed(p, x, y, z, m),
           Books(g, p, x, y, z, m),
           NEW a \in Attempts, p["sender"][a].state = "none",
           \A b \in Attempts : b < a => p["sender"][b].state # "none",
           NEW q \in Peer, q.state = "making", q.left = g, Got(q, a) <= CountOf(a, x),
           NEW p2 \in Peers,
           \A s \in Sides, b \in Attempts : p2[s][b] = IF s = "sender" /\ b = a THEN q ELSE p[s][b],
           NEW m2 \in Posts, MailDown(m2, m)
    PROVE  Books(g, p2, <<>>, y, z, m2)
<1>1. Typed(p2, <<>>, y, z, m2)
  BY DEF Typed
<1>2. \A b \in Attempts : /\ p2["sender"][b] = IF b = a THEN q ELSE p["sender"][b]
                          /\ p2["recipient"][b] = p["recipient"][b]
  BY DEF Sides
<1>3. ASSUME NEW b \in Attempts
      PROVE  /\ SGot(p2, <<>>, m2, b) <= SGot(p, x, m, b)
             /\ RGot(p2, y, z, m2, b) <= RGot(p, y, z, m, b)
             /\ SGot(p2, <<>>, m2, b) \in Nat /\ RGot(p2, y, z, m2, b) \in Nat
             /\ SGot(p, x, m, b) \in Nat /\ RGot(p, y, z, m, b) \in Nat
             /\ Offers(m2, b) <= Offers(m, b) /\ Offers(m2, b) \in Nat /\ Offers(m, b) \in Nat
             /\ p["sender"][b].left \in Nat /\ p["recipient"][b].left \in Nat
  <2>1. /\ Got(p["sender"][b], b) \in Nat /\ CountOf(b, x) \in Nat
        /\ Got(p["recipient"][b], b) \in Nat /\ CountOf(b, y) \in Nat /\ CountOf(b, z) \in Nat
        /\ Ice(m, "run", b) \in Nat /\ Ice(m, "loop", b) \in Nat /\ Ice(m, "recipient", b) \in Nat
        /\ SGot(p, x, m, b) \in Nat /\ RGot(p, y, z, m, b) \in Nat /\ Offers(m, b) \in Nat
        /\ p["sender"][b].left \in Nat /\ p["recipient"][b].left \in Nat
    BY Parts
  <2>2. /\ Got(p2["sender"][b], b) \in Nat /\ CountOf(b, <<>>) \in Nat
        /\ Ice(m2, "run", b) \in Nat /\ Ice(m2, "loop", b) \in Nat /\ Ice(m2, "recipient", b) \in Nat
        /\ SGot(p2, <<>>, m2, b) \in Nat /\ RGot(p2, y, z, m2, b) \in Nat /\ Offers(m2, b) \in Nat
    BY <1>1, Parts
  <2>3. /\ Ice(m2, "run", b) <= Ice(m, "run", b) /\ Ice(m2, "loop", b) <= Ice(m, "loop", b)
        /\ Ice(m2, "recipient", b) <= Ice(m, "recipient", b) /\ Offers(m2, b) <= Offers(m, b)
    BY DEF MailDown, Boxes
  <2>4. CountOf(b, <<>>) = 0
    BY CountEmpty
  <2>5. Got(p2["sender"][b], b) <= Got(p["sender"][b], b) + CountOf(b, x)
    <3>1. CASE b = a
      <4>1. Got(p2["sender"][b], b) <= CountOf(b, x)
        BY <1>2, <3>1
      <4> DEFINE u == Got(p2["sender"][b], b)
                 v == Got(p["sender"][b], b)
      <4>2. u \in Nat /\ v \in Nat /\ CountOf(b, x) \in Nat /\ u <= CountOf(b, x)
        BY <2>1, <2>2, <4>1
      <4> HIDE DEF u, v
      <4>3. u <= v + CountOf(b, x)
        BY <4>2
      <4> QED
        BY <4>3 DEF u, v
    <3>2. CASE b # a
      <4>1. p2["sender"][b] = p["sender"][b]
        BY <1>2, <3>2
      <4>2. Got(p2["sender"][b], b) = Got(p["sender"][b], b)
        BY <4>1
      <4> QED
        BY <2>1, <4>2
    <3> QED
      BY <3>1, <3>2
  <2>a. Got(p2["sender"][b], b) + CountOf(b, <<>>) <= Got(p["sender"][b], b) + CountOf(b, x)
    BY <2>1, <2>2, <2>4, <2>5
  <2>6. SGot(p2, <<>>, m2, b) <= SGot(p, x, m, b)
    BY <2>1, <2>2, <2>3, <2>a, Less DEF SGot
  <2>b. Got(p2["recipient"][b], b) = Got(p["recipient"][b], b)
    BY <1>2
  <2>c. CountOf(b, z) <= CountOf(b, z)
        /\ Got(p2["recipient"][b], b) + CountOf(b, y) <= Got(p["recipient"][b], b) + CountOf(b, y)
    BY <2>1, <2>b
  <2>7. RGot(p2, y, z, m2, b) <= RGot(p, y, z, m, b)
    BY <2>1, <2>2, <2>3, <2>b, <2>c, Less DEF RGot
  <2> QED
    BY <2>1, <2>2, <2>3, <2>6, <2>7
<1>4. Budget(g, p2, <<>>, y, z, m2)
  <2>1. ASSUME NEW b \in Attempts
        PROVE  /\ p2["recipient"][b].left + SGot(p2, <<>>, m2, b) <= g
               /\ p2["recipient"][b].state = "none"
                    => p2["recipient"][b].left + SGot(p2, <<>>, m2, b) = 0
    <3>1. /\ p["recipient"][b].left + SGot(p, x, m, b) <= g
          /\ p["recipient"][b].state = "none" => p["recipient"][b].left + SGot(p, x, m, b) = 0
      BY DEF Books, Budget
    <3>2. p2["recipient"][b] = p["recipient"][b] /\ p["recipient"][b].left <= p["recipient"][b].left
      BY <1>2, <1>3
    <3>3. /\ p["recipient"][b].left + SGot(p2, <<>>, m2, b) <= g
          /\ p["recipient"][b].left + SGot(p, x, m, b) = 0
               => p["recipient"][b].left + SGot(p2, <<>>, m2, b) = 0
      <4> DEFINE l  == p["recipient"][b].left
                 w  == SGot(p, x, m, b)
                 w2 == SGot(p2, <<>>, m2, b)
      <4>1. l \in Nat /\ w \in Nat /\ w2 \in Nat /\ w2 <= w /\ l + w <= g
        BY <1>3, <3>1
      <4> HIDE DEF l, w, w2
      <4>2. l + w2 <= g /\ (l + w = 0 => l + w2 = 0)
        BY <4>1
      <4> QED
        BY <4>2 DEF l, w, w2
    <3> QED
      BY <3>1, <3>2, <3>3
  <2>2. ASSUME NEW b \in Attempts
        PROVE  /\ p2["sender"][b].left + RGot(p2, y, z, m2, b) <= g
               /\ p2["sender"][b].state = "none" => p2["sender"][b].left + RGot(p2, y, z, m2, b) = 0
    <3>1. /\ p["sender"][b].left + RGot(p, y, z, m, b) <= g
          /\ p["sender"][b].state = "none" => p["sender"][b].left + RGot(p, y, z, m, b) = 0
      BY DEF Books, Budget
    <3>2. CASE b = a
      <4>1. RGot(p, y, z, m, b) = 0
        BY <1>3, <3>1, <3>2
      <4>2. RGot(p2, y, z, m2, b) = 0
        BY <1>3, <4>1
      <4> QED
        BY <1>2, <3>2, <4>2
    <3>3. CASE b # a
      <4>1. p2["sender"][b] = p["sender"][b] /\ p["sender"][b].left <= p["sender"][b].left
        BY <1>2, <1>3, <3>3
      <4>2. /\ p["sender"][b].left + RGot(p2, y, z, m2, b) <= g
            /\ p["sender"][b].left + RGot(p, y, z, m, b) = 0
                 => p["sender"][b].left + RGot(p2, y, z, m2, b) = 0
        <5> DEFINE l  == p["sender"][b].left
                   w  == RGot(p, y, z, m, b)
                   w2 == RGot(p2, y, z, m2, b)
        <5>1. l \in Nat /\ w \in Nat /\ w2 \in Nat /\ w2 <= w /\ l + w <= g
          BY <1>3, <3>1
        <5> HIDE DEF l, w, w2
        <5>2. l + w2 <= g /\ (l + w = 0 => l + w2 = 0)
          BY <5>1
        <5> QED
          BY <5>2 DEF l, w, w2
      <4> QED
        BY <3>1, <4>1, <4>2
    <3> QED
      BY <3>2, <3>3
  <2> QED
    BY <2>1, <2>2 DEF Budget
<1>5. Once(p2, m2)
  <2>1. ASSUME NEW b \in Attempts
        PROVE  Offers(m2, b) + (IF p2["recipient"][b].state = "none" THEN 0 ELSE 1)
                 <= IF p2["sender"][b].state \in {"none", "making"} THEN 0 ELSE 1
    <3>1. Offers(m, b) + (IF p["recipient"][b].state = "none" THEN 0 ELSE 1)
            <= IF p["sender"][b].state \in {"none", "making"} THEN 0 ELSE 1
      BY DEF Books, Once
    <3>2. p2["sender"][b].state \in {"none", "making"} => p["sender"][b].state \in {"none", "making"}
      BY <1>2
    <3>3. Offers(m2, b) <= Offers(m, b) /\ Offers(m2, b) \in Nat /\ Offers(m, b) \in Nat
      BY <1>3
    <3>4. p2["recipient"][b].state = p["recipient"][b].state
      BY <1>2
    <3> QED
      BY <3>1, <3>2, <3>3, <3>4
  <2> QED
    BY <2>1 DEF Once
<1>6. InOrder(p2)
  <2> SUFFICES ASSUME NEW c \in Attempts, NEW b \in Attempts, b <= c, p2["sender"][c].state # "none"
               PROVE  p2["sender"][b].state # "none"
    BY DEF InOrder
  <2>1. CASE b = a
    BY <1>2, <2>1
  <2>2. CASE b # a /\ c = a
    <3>1. b < a
      BY <2>2, Bounds DEF Attempts
    <3> QED
      BY <1>2, <2>2, <3>1
  <2>3. CASE b # a /\ c # a
    BY <1>2, <2>3 DEF Books, InOrder
  <2> QED
    BY <2>1, <2>2, <2>3
<1> QED
  BY <1>4, <1>5, <1>6 DEF Books

LEMMA AcceptedBySender ==
    ASSUME Shape, Shape', Ledger, UNCHANGED agentVars, UNCHANGED browserVars,
           NEW box \in {"run", "loop"}, handleAccepted(box)
    PROVE  Ledger'
<1> DEFINE own == [session EXCEPT !.owner = IF @ = 0 THEN Reader(box) ELSE @]
           j   == [sjob EXCEPT !.status = IF @ = "offered" THEN "accepted" ELSE @]
           t   == touched \/ j # sjob
           a   == NextAttempt
<1>1. Reads(box, "accepted") /\ plan' = plan
  BY DEF handleAccepted
<1>2. mail[box] # <<>> /\ Reader(box) \in 0 .. MaxRuns
  BY <1>1, ReadFacts
<1>3. own \in Session /\ own.pending = session.pending
  BY <1>2, SenderFacts DEF Session
<1>4. CASE sjob.status \in Terminal
  <2>1. Handled(box, sjob, touched, session, peers, TRUE, "none")
    BY <1>4 DEF handleAccepted
  <2> QED
    BY <1>1, <1>2, <2>1, SenderFacts, SameParts, SenderOnly
<1>5. CASE sjob.status \notin Terminal /\ session.att # 0
  <2>1. Handled(box, j, t, own, peers, FALSE, "none")
    BY <1>5 DEF handleAccepted
  <2> HIDE DEF own, j, t
  <2> QED
    BY <1>1, <1>2, <1>3, <2>1, SameParts, SenderOnly
<1>6. CASE sjob.status \notin Terminal /\ session.att = 0
  <2> DEFINE s == [own EXCEPT !.att = a, !.pending = <<>>]
             q == NewPeer(session, Reader(box))
             p == [peers EXCEPT !["sender"][a] = q]
             m1 == [mail EXCEPT ![box] = Tail(@)]
  <2>1. a \in Attempts /\ Handled(box, j, t, s, p, FALSE, "none")
    BY <1>6 DEF handleAccepted
  <2>2. q \in Peer
    BY <1>2, SenderFacts, PlanFacts, NoPeerShape DEF NewPeer, NoPeer, Peer, Session
  <2>3. /\ q.state = "making" /\ q.left = plan.gather /\ q.held = session.pending /\ q.added = 0
    BY DEF NewPeer, NoPeer
  <2>4. <<>> \in Waiting /\ a \in 0 .. MaxAttempts
    BY <2>1, Bounds DEF Waiting, Attempts
  <2>5. s \in Session /\ s.pending = <<>>
    BY <1>3, <2>4 DEF Session
  <2> HIDE DEF q
  <2>6. peers \in Peers /\ "sender" \in Sides
    BY SenderFacts
  <2>7. InOrder(peers)
    BY DEF Ledger, Books
  <2>8. /\ peers["sender"][a].state = "none"
        /\ \A b \in Attempts : b < a => peers["sender"][b].state # "none"
    BY <2>1, <2>6, <2>7, FirstFree
  <2> HIDE DEF own, j, t, s, a
  <2>9. /\ p \in Peers
        /\ \A si \in Sides, b \in Attempts : p[si][b] = IF si = "sender" /\ b = a THEN q ELSE peers[si][b]
    BY <2>1, <2>2, <2>6, SetPeer
  <2>10. mail \in Posts /\ box \in Boxes
    BY SameParts DEF Boxes
  <2>11. m1 \in Posts /\ MailDown(m1, mail)
    BY <1>2, <2>10, ReadDown
  <2>12. Got(q, a) <= CountOf(a, session.pending)
    <3>1. CountOf(a, session.pending) \in Nat
      BY SameParts, CountNat
    <3> QED
      BY <2>3, <3>1 DEF Got
  <2>13. Typed(peers, session.pending, rsession.pending, Kept(states), mail)
    BY TypedNow
  <2>14. Books(plan.gather, peers, session.pending, rsession.pending, Kept(states), mail)
    BY DEF Ledger
  <2>15. plan.gather \in Nat
    BY PlanFacts, SenderFacts
  <2> HIDE DEF p, m1
  <2>16. Books(plan.gather, p, <<>>, rsession.pending, Kept(states), m1)
    BY <2>1, <2>2, <2>3, <2>8, <2>9, <2>11, <2>12, <2>13, <2>14, <2>15, NewSender
  <2>17. Books(plan.gather, p, s.pending, rsession.pending, Kept(states), [mail EXCEPT ![box] = Tail(@)])
    BY <2>5, <2>16 DEF m1
  <2> QED
    BY <1>1, <1>2, <2>1, <2>5, <2>9, <2>17, SenderSettles
<1> QED
  BY <1>4, <1>5, <1>6

LEMMA EnvelopeLedger ==
    ASSUME Shape, Shape', Ledger, UNCHANGED agentVars, UNCHANGED browserVars,
           NEW box \in {"run", "loop"}, handleEnvelope(box)
    PROVE  Ledger'
  BY AcceptedBySender, AnswerToSender, ICEToSender, QuietSender, ClosingSender DEF handleEnvelope

-----------------------------------------------------------------------------
(* Candidates and offers that are sent.                                    *)

\* One message more.
Posted(m, box, x) == [m EXCEPT ![box] = @ \o <<x>>]

LEMMA PostOne ==
    ASSUME NEW m \in Posts, NEW box \in Boxes, NEW x \in Post
    PROVE  /\ Posted(m, box, x) \in Posts
           /\ \A y : CountOf(y, Posted(m, box, x)[box]) = CountOf(y, m[box]) + IF y = x THEN 1 ELSE 0
           /\ \A b \in Boxes \ {box} : Posted(m, box, x)[b] = m[b]
<1> DEFINE m2 == Posted(m, box, x)
<1>1. \A b \in Boxes : m[b] \in Seq(Post)
  BY DEF Posts
<1>2. m[box] \o <<x>> \in Seq(Post)
  BY <1>1
<1>3. m2 \in Posts /\ \A b \in Boxes : m2[b] = IF b = box THEN m[box] \o <<x>> ELSE m[b]
  BY <1>2 DEF Posts, Posted
<1>4. \A y : CountOf(y, m[box] \o <<x>>) = CountOf(y, m[box]) + IF y = x THEN 1 ELSE 0
  BY <1>1, CountCatOne
<1> HIDE DEF m2
<1>5. m2[box] = m[box] \o <<x>> /\ \A b \in Boxes \ {box} : m2[b] = m[b]
  BY <1>3
<1>6. \A y : CountOf(y, m2[box]) = CountOf(y, m[box]) + IF y = x THEN 1 ELSE 0
  BY <1>4, <1>5
<1> QED
  BY <1>3, <1>5, <1>6 DEF m2

\* A candidate of attempt a is put into a box, or lost.
LEMMA IceSent ==
    ASSUME NEW m \in Posts, NEW box \in Boxes, NEW a \in Attempts, NEW m2,
           m2 \in {m, Posted(m, box, Message("ice", a))}
    PROVE  /\ m2 \in Posts
           /\ \A b \in Attempts :
                 /\ Ice(m2, box, b) <= Ice(m, box, b) + Own(a, b)
                 /\ \A o \in Boxes \ {box} : Ice(m2, o, b) = Ice(m, o, b)
                 /\ Offers(m2, b) = Offers(m, b)
<1> DEFINE x  == Message("ice", a)
           m3 == Posted(m, box, x)
<1>1. x \in Post
  BY Bounds DEF Message, Post, Types, Attempts
<1>3. m2 = m \/ m2 = m3
  OBVIOUS
<1> HIDE DEF x
<1>2. /\ m3 \in Posts
      /\ \A y : CountOf(y, m3[box]) = CountOf(y, m[box]) + IF y = x THEN 1 ELSE 0
      /\ \A o \in Boxes \ {box} : m3[o] = m[o]
  BY <1>1, PostOne
<1> HIDE DEF m3
<1>4. \A b : /\ (Message("ice", b) = x) <=> (a = b)
             /\ Message("webrtc_offer", b) # x
  BY DEF Message, x
<1>5. "recipient" \in Boxes
  BY DEF Boxes
<1>6. \A b \in Attempts : (\A o \in Boxes : Ice(m, o, b) \in Nat) /\ Offers(m, b) \in Nat
  BY PostNat
<1>7. ASSUME NEW b \in Attempts
      PROVE  /\ Ice(m3, box, b) = Ice(m, box, b) + Own(a, b)
             /\ \A o \in Boxes \ {box} : Ice(m3, o, b) = Ice(m, o, b)
             /\ Offers(m3, b) = Offers(m, b)
  <2>1. CountOf(Message("ice", b), m3[box])
          = CountOf(Message("ice", b), m[box]) + IF Message("ice", b) = x THEN 1 ELSE 0
    BY <1>2
  <2>2. Ice(m3, box, b) = Ice(m, box, b) + Own(a, b)
    BY <1>4, <2>1 DEF Ice, Own
  <2>3. \A o \in Boxes \ {box} : Ice(m3, o, b) = Ice(m, o, b)
    BY <1>2 DEF Ice
  <2>4. CountOf(Message("webrtc_offer", b), m3["recipient"]) = CountOf(Message("webrtc_offer", b), m["recipient"])
    <3>1. CASE box = "recipient"
      <4>1. CountOf(Message("webrtc_offer", b), m3[box])
              = CountOf(Message("webrtc_offer", b), m[box]) + IF Message("webrtc_offer", b) = x THEN 1 ELSE 0
        BY <1>2
      <4>2. CountOf(Message("webrtc_offer", b), m[box]) \in Nat
        BY <1>6, <3>1 DEF Offers
      <4> QED
        BY <1>4, <3>1, <4>1, <4>2
    <3>2. CASE box # "recipient"
      BY <1>2, <1>5, <3>2
    <3> QED
      BY <3>1, <3>2
  <2> QED
    BY <2>2, <2>3, <2>4 DEF Offers
<1>8. CASE m2 = m
  BY <1>6, <1>8 DEF Own
<1>9. CASE m2 = m3
  <2>1. \A b \in Attempts : Ice(m, box, b) + Own(a, b) \in Nat
    BY <1>6 DEF Own
  <2> QED
    BY <1>2, <1>7, <1>9, <2>1
<1> QED
  BY <1>3, <1>8, <1>9

\* Offers and attempts, when no peer changes its state.
LEMMA StatesKept ==
    ASSUME NEW p, NEW p2, NEW m, NEW m2, Once(p, m), InOrder(p),
           \A a \in Attempts : /\ p2["sender"][a].state = p["sender"][a].state
                               /\ p2["recipient"][a].state = p["recipient"][a].state
                               /\ Offers(m2, a) = Offers(m, a)
    PROVE  Once(p2, m2) /\ InOrder(p2)
<1>1. Once(p2, m2)
  BY DEF Once
<1>2. InOrder(p2)
  BY DEF InOrder
<1> QED
  BY <1>1, <1>2

LEMMA GatherKeeps ==
    ASSUME Shape, Shape', Ledger, UNCHANGED senderVars, UNCHANGED agentVars, UNCHANGED browserVars,
           NEW side \in Sides, NEW a \in Attempts, Gather(side, a)
    PROVE  Ledger'
<1>1. Typed(peers, session.pending, rsession.pending, Kept(states), mail)
  BY TypedNow
<1>2. Typed(peers', session'.pending, rsession'.pending, Kept(states'), mail')
  BY TypedThen
<1>3. session' = session /\ rsession' = rsession /\ states' = states /\ plan' = plan
  BY DEF senderVars, agentVars, browserVars, Gather
<1>4. plan.gather \in Nat /\ peers \in Peers /\ mail \in Posts
  BY <1>1, PlanFacts, SenderFacts DEF Typed
<1>5. \A s \in Sides, b \in Attempts : peers[s][b] \in Peer
  BY <1>4 DEF Peers
<1>6. \A s \in Sides, b \in Attempts :
         /\ peers'[s][b].state = peers[s][b].state
         /\ peers'[s][b].added = peers[s][b].added /\ peers'[s][b].held = peers[s][b].held
         /\ peers'[s][b].left = IF s = side /\ b = a THEN peers[s][b].left - 1 ELSE peers[s][b].left
  <2>1. peers' = [peers EXCEPT ![side][a].left = @ - 1]
    BY DEF Gather
  <2>2. \A s \in Sides, b \in Attempts :
           peers'[s][b] = IF s = side /\ b = a THEN [peers[s][b] EXCEPT !.left = @ - 1] ELSE peers[s][b]
    BY <1>4, <2>1 DEF Peers
  <2>3. ASSUME NEW q \in Peer
        PROVE  LET r == [q EXCEPT !.left = @ - 1]
               IN  r.state = q.state /\ r.added = q.added /\ r.held = q.held /\ r.left = q.left - 1
    BY DEF Peer
  <2> SUFFICES ASSUME NEW s \in Sides, NEW b \in Attempts
               PROVE  /\ peers'[s][b].state = peers[s][b].state
                      /\ peers'[s][b].added = peers[s][b].added /\ peers'[s][b].held = peers[s][b].held
                      /\ peers'[s][b].left
                           = IF s = side /\ b = a THEN peers[s][b].left - 1 ELSE peers[s][b].left
    OBVIOUS
  <2>4. CASE s = side /\ b = a
    <3>1. peers'[s][b] = [peers[s][b] EXCEPT !.left = @ - 1] /\ peers[s][b] \in Peer
      BY <1>5, <2>2, <2>4
    <3> QED
      BY <2>3, <2>4, <3>1
  <2>5. CASE ~(s = side /\ b = a)
    BY <2>2, <2>5
  <2> QED
    BY <2>4, <2>5
<1>7. \A s \in Sides, b \in Attempts : Got(peers'[s][b], b) = Got(peers[s][b], b)
  BY <1>6 DEF Got
<1>8. \A b \in Attempts : peers'[side][b].left + Own(a, b) = peers[side][b].left
  <2> SUFFICES ASSUME NEW b \in Attempts
               PROVE  peers'[side][b].left + Own(a, b) = peers[side][b].left
    OBVIOUS
  <2>1. peers[side][b].left \in Nat
    BY <1>5 DEF Peer
  <2> QED
    BY <1>6, <2>1 DEF Own
<1>9. \A s \in Sides \ {side}, b \in Attempts : peers'[s][b].left = peers[s][b].left
  BY <1>6
<1>10. PICK box \in Boxes : /\ box = "recipient" <=> side = "sender"
                            /\ mail' \in {mail, Posted(mail, box, Message("ice", a))}
  <2>1. CASE side = "sender"
    <3>1. mail' \in {mail, [mail EXCEPT !["recipient"] = @ \o <<Message("ice", a)>>]}
      BY <2>1 DEF Gather, Deliver, ToRecipient
    <3> QED
      BY <2>1, <3>1 DEF Posted, Boxes
  <2>2. CASE side # "sender"
    <3>1. PICK o \in {"run", "loop"} : mail' \in {mail, [mail EXCEPT ![o] = @ \o <<Message("ice", a)>>]}
      BY <2>2 DEF Gather, Deliver, ToSender
    <3> QED
      BY <2>2, <3>1 DEF Posted, Boxes
  <2> QED
    BY <2>1, <2>2
<1>11. \A b \in Attempts :
          /\ Ice(mail', box, b) <= Ice(mail, box, b) + Own(a, b)
          /\ \A o \in Boxes \ {box} : Ice(mail', o, b) = Ice(mail, o, b)
          /\ Offers(mail', b) = Offers(mail, b)
  BY <1>4, <1>10, IceSent
<1>12. ASSUME NEW b \in Attempts
       PROVE  /\ peers'["recipient"][b].left + SGot(peers', session.pending, mail', b)
                   <= peers["recipient"][b].left + SGot(peers, session.pending, mail, b)
              /\ peers'["sender"][b].left + RGot(peers', rsession.pending, Kept(states), mail', b)
                   <= peers["sender"][b].left + RGot(peers, rsession.pending, Kept(states), mail, b)
  <2> DEFINE i  == Own(a, b)
             sg == Got(peers["sender"][b], b)
             rg == Got(peers["recipient"][b], b)
             sl == peers["sender"][b].left
             rl == peers["recipient"][b].left
             tl == peers'["sender"][b].left
             ul == peers'["recipient"][b].left
             x  == CountOf(b, session.pending)
             y  == CountOf(b, rsession.pending)
             z  == CountOf(b, Kept(states))
             c  == Ice(mail, "run", b)
             d  == Ice(mail, "loop", b)
             e  == Ice(mail, "recipient", b)
             c2 == Ice(mail', "run", b)
             d2 == Ice(mail', "loop", b)
             e2 == Ice(mail', "recipient", b)
  <2>1. /\ sg \in Nat /\ rg \in Nat /\ sl \in Nat /\ rl \in Nat /\ x \in Nat /\ y \in Nat /\ z \in Nat
        /\ c \in Nat /\ d \in Nat /\ e \in Nat
    BY <1>1, Parts
  <2>2. tl \in Nat /\ ul \in Nat /\ c2 \in Nat /\ d2 \in Nat /\ e2 \in Nat
    BY <1>2, Parts
  <2>3. i \in Nat
    BY DEF Own
  <2>4. Got(peers'["sender"][b], b) = sg /\ Got(peers'["recipient"][b], b) = rg
    BY <1>7 DEF Sides
  <2>5. /\ SGot(peers, session.pending, mail, b) = sg + x + c + d
        /\ SGot(peers', session.pending, mail', b) = sg + x + c2 + d2
        /\ RGot(peers, rsession.pending, Kept(states), mail, b) = rg + y + z + e
        /\ RGot(peers', rsession.pending, Kept(states), mail', b) = rg + y + z + e2
    BY <2>4 DEF SGot, RGot
  <2>6. CASE side = "sender"
    <3>1. tl + i = sl /\ ul = rl /\ c2 = c /\ d2 = d /\ e2 <= e + i
      BY <1>8, <1>9, <1>10, <1>11, <2>6 DEF Sides, Boxes
    <3> HIDE DEF i, sg, rg, sl, rl, tl, ul, x, y, z, c, d, e, c2, d2, e2
    <3>2. ul + (sg + x + c2 + d2) <= rl + (sg + x + c + d) /\ tl + (rg + y + z + e2) <= sl + (rg + y + z + e)
      BY <2>1, <2>2, <2>3, <3>1
    <3> QED
      BY <2>5, <3>2 DEF sl, rl, tl, ul
  <2>7. CASE side = "recipient"
    <3>1. ul + i = rl /\ tl = sl /\ e2 = e
      BY <1>8, <1>9, <1>10, <1>11, <2>7 DEF Sides, Boxes
    <3>2. (c2 <= c + i /\ d2 = d) \/ (d2 <= d + i /\ c2 = c)
      BY <1>10, <1>11, <2>7 DEF Boxes
    <3> HIDE DEF i, sg, rg, sl, rl, tl, ul, x, y, z, c, d, e, c2, d2, e2
    <3>3. ul + (sg + x + c2 + d2) <= rl + (sg + x + c + d) /\ tl + (rg + y + z + e2) <= sl + (rg + y + z + e)
      BY <2>1, <2>2, <2>3, <3>1, <3>2
    <3> QED
      BY <2>5, <3>3 DEF sl, rl, tl, ul
  <2> QED
    BY <2>6, <2>7 DEF Sides
<1>13. \A b \in Attempts : /\ peers'["sender"][b].state = peers["sender"][b].state
                           /\ peers'["recipient"][b].state = peers["recipient"][b].state
  BY <1>6 DEF Sides
<1>14. /\ Budget(plan.gather, peers, session.pending, rsession.pending, Kept(states), mail)
       /\ Once(peers, mail) /\ InOrder(peers)
  BY DEF Ledger, Books
<1>15. Typed(peers', session.pending, rsession.pending, Kept(states), mail')
  BY <1>2, <1>3
<1>16. Budget(plan.gather, peers', session.pending, rsession.pending, Kept(states), mail')
  BY <1>1, <1>4, <1>12, <1>13, <1>14, <1>15, BudgetKept
<1>17. Once(peers', mail') /\ InOrder(peers')
  BY <1>11, <1>13, <1>14, StatesKept
<1> QED
  BY <1>3, <1>16, <1>17 DEF Ledger, Books

LEMMA OfferSent ==
    ASSUME NEW m \in Posts, NEW a \in Attempts, NEW m2,
           m2 \in {m, Posted(m, "recipient", Message("webrtc_offer", a))}
    PROVE  /\ m2 \in Posts
           /\ \A b \in Attempts :
                 /\ \A o \in Boxes : Ice(m2, o, b) = Ice(m, o, b)
                 /\ Offers(m2, b) <= Offers(m, b) + Own(a, b)
<1> DEFINE x  == Message("webrtc_offer", a)
           m3 == Posted(m, "recipient", x)
<1>1. x \in Post /\ "recipient" \in Boxes
  BY Bounds DEF Message, Post, Types, Attempts, Boxes
<1>2. m2 = m \/ m2 = m3
  OBVIOUS
<1> HIDE DEF x
<1>3. /\ m3 \in Posts
      /\ \A y : CountOf(y, m3["recipient"]) = CountOf(y, m["recipient"]) + IF y = x THEN 1 ELSE 0
      /\ \A o \in Boxes \ {"recipient"} : m3[o] = m[o]
  BY <1>1, PostOne
<1> HIDE DEF m3
<1>4. \A b : /\ (Message("webrtc_offer", b) = x) <=> (a = b)
             /\ Message("ice", b) # x
  BY DEF Message, x
<1>5. \A b \in Attempts : (\A o \in Boxes : Ice(m, o, b) \in Nat) /\ Offers(m, b) \in Nat
  BY PostNat
<1>6. ASSUME NEW b \in Attempts
      PROVE  /\ \A o \in Boxes : Ice(m3, o, b) = Ice(m, o, b)
             /\ Offers(m3, b) = Offers(m, b) + Own(a, b)
  <2>1. CountOf(Message("webrtc_offer", b), m3["recipient"])
          = CountOf(Message("webrtc_offer", b), m["recipient"]) + IF Message("webrtc_offer", b) = x THEN 1 ELSE 0
    BY <1>3
  <2>2. Offers(m3, b) = Offers(m, b) + Own(a, b)
    BY <1>4, <2>1 DEF Offers, Own
  <2>3. CountOf(Message("ice", b), m3["recipient"])
          = CountOf(Message("ice", b), m["recipient"]) + IF Message("ice", b) = x THEN 1 ELSE 0
    BY <1>3
  <2>4. Ice(m, "recipient", b) \in Nat
    BY <1>1, <1>5
  <2>5. Ice(m3, "recipient", b) = Ice(m, "recipient", b)
    BY <1>4, <2>3, <2>4 DEF Ice
  <2>6. \A o \in Boxes \ {"recipient"} : Ice(m3, o, b) = Ice(m, o, b)
    BY <1>3 DEF Ice
  <2> QED
    BY <2>2, <2>5, <2>6
<1>7. CASE m2 = m
  BY <1>5, <1>7 DEF Own
<1>8. CASE m2 = m3
  <2>1. \A b \in Attempts : Offers(m, b) + Own(a, b) \in Nat
    BY <1>5 DEF Own
  <2> QED
    BY <1>3, <1>6, <1>8, <2>1
<1> QED
  BY <1>2, <1>7, <1>8

\* The offer goes out once: there was none before, and no peer that came of it.
LEMMA SendOfferKeeps ==
    ASSUME Shape, Shape', Ledger, UNCHANGED agentVars, UNCHANGED browserVars,
           NEW a \in Attempts, SendWebRTCOffer(a)
    PROVE  Ledger'
<1>1. Typed(peers, session.pending, rsession.pending, Kept(states), mail)
  BY TypedNow
<1>2. Typed(peers', session'.pending, rsession'.pending, Kept(states'), mail')
  BY TypedThen
<1>3. session' = session /\ rsession' = rsession /\ states' = states /\ plan' = plan
  BY DEF senderVars, agentVars, browserVars, SendWebRTCOffer
<1>4. plan.gather \in Nat /\ peers \in Peers /\ mail \in Posts /\ "sender" \in Sides
  BY <1>1, PlanFacts, SenderFacts DEF Typed
<1> DEFINE q == [peers["sender"][a] EXCEPT !.state = "offered"]
<1>5. peers["sender"][a] \in Peer /\ peers["sender"][a].state = "making"
  BY SenderFacts DEF SendWebRTCOffer
<1>6. /\ q \in Peer /\ q.state = "offered" /\ q.left = peers["sender"][a].left
      /\ q.added = peers["sender"][a].added /\ q.held = peers["sender"][a].held
  BY <1>5 DEF Peer
<1>7. peers' = [peers EXCEPT !["sender"][a] = q]
  BY <1>4 DEF SendWebRTCOffer, Peers
<1> HIDE DEF q
<1>8. Milder(q, peers["sender"][a]) /\ Got(q, a) <= Got(peers["sender"][a], a)
  <2>1. q.left \in Nat /\ Got(q, a) \in Nat
    BY <1>6, PeerNat
  <2>2. Got(q, a) = Got(peers["sender"][a], a)
    BY <1>6 DEF Got
  <2> QED
    BY <1>5, <1>6, <2>1, <2>2 DEF Milder
<1>9. PeersDown([peers EXCEPT !["sender"][a] = q], peers)
  BY <1>4, <1>6, <1>8, PeerDown
<1>10. \A s \in Sides, b \in Attempts :
          [peers EXCEPT !["sender"][a] = q][s][b] = IF s = "sender" /\ b = a THEN q ELSE peers[s][b]
  <2>1. \A s \in Sides : peers[s] \in [Attempts -> Peer]
    BY <1>4 DEF Peers
  <2> QED
    BY <1>4, <2>1 DEF Peers
<1>11. /\ PeersDown(peers', peers)
       /\ \A s \in Sides, b \in Attempts : peers'[s][b] = IF s = "sender" /\ b = a THEN q ELSE peers[s][b]
  BY <1>7, <1>9, <1>10
<1>12. mail' \in {mail, Posted(mail, "recipient", Message("webrtc_offer", a))}
  BY DEF SendWebRTCOffer, ToRecipient, Posted
<1>13. \A b \in Attempts : /\ \A o \in Boxes : Ice(mail', o, b) = Ice(mail, o, b)
                           /\ Offers(mail', b) <= Offers(mail, b) + Own(a, b)
  BY <1>4, <1>12, OfferSent
<1>14. Books(plan.gather, peers', session.pending, rsession.pending, Kept(states), mail)
  <2>1. Typed(peers', session.pending, rsession.pending, Kept(states), mail)
    BY <1>1, <1>2 DEF Typed
  <2>2. Books(plan.gather, peers, session.pending, rsession.pending, Kept(states), mail)
    BY DEF Ledger
  <2> QED
    BY <1>1, <1>4, <1>11, <2>1, <2>2, SameParts, Descent
<1>15. Budget(plan.gather, peers', session.pending, rsession.pending, Kept(states), mail')
  <2>1. \A b \in Attempts :
           /\ SGot(peers', session.pending, mail', b) = SGot(peers', session.pending, mail, b)
           /\ RGot(peers', rsession.pending, Kept(states), mail', b)
                = RGot(peers', rsession.pending, Kept(states), mail, b)
    BY <1>13 DEF SGot, RGot, Boxes
  <2> QED
    BY <1>14, <2>1 DEF Books, Budget
<1>16. Once(peers', mail')
  <2> SUFFICES ASSUME NEW b \in Attempts
               PROVE  Offers(mail', b) + (IF peers'["recipient"][b].state = "none" THEN 0 ELSE 1)
                        <= IF peers'["sender"][b].state \in {"none", "making"} THEN 0 ELSE 1
    BY DEF Once
  <2>1. Offers(mail, b) \in Nat /\ Offers(mail', b) \in Nat
    BY <1>1, <1>2, Parts
  <2>2. Offers(mail, b) + (IF peers["recipient"][b].state = "none" THEN 0 ELSE 1)
          <= IF peers["sender"][b].state \in {"none", "making"} THEN 0 ELSE 1
    BY DEF Ledger, Books, Once
  <2>3. peers'["recipient"][b] = peers["recipient"][b]
    BY <1>11 DEF Sides
  <2>4. CASE b = a
    <3>1. peers'["sender"][b].state = "offered"
      BY <1>4, <1>6, <1>11, <2>4
    <3>2. Offers(mail, b) = 0 /\ peers["recipient"][b].state = "none"
      BY <1>5, <2>1, <2>2, <2>4
    <3>3. Offers(mail', b) <= 1
      BY <1>13, <2>4, <3>2 DEF Own
    <3> QED
      BY <2>1, <2>3, <3>1, <3>2, <3>3
  <2>5. CASE b # a
    <3>1. peers'["sender"][b] = peers["sender"][b]
      BY <1>4, <1>11, <2>5
    <3>2. Offers(mail', b) <= Offers(mail, b)
      BY <1>13, <2>1, <2>5 DEF Own
    <3> QED
      BY <2>1, <2>2, <2>3, <3>1, <3>2
  <2> QED
    BY <2>4, <2>5
<1>17. InOrder(peers')
  BY <1>14 DEF Books
<1> QED
  BY <1>3, <1>15, <1>16, <1>17 DEF Ledger, Books

-----------------------------------------------------------------------------
(* The other steps of the wire and of the sender.                          *)

LEMMA WireLedger ==
    ASSUME Shape, Shape', Ledger, UNCHANGED senderVars, UNCHANGED agentVars, UNCHANGED browserVars,
           WireNext
    PROVE  Ledger'
<1>1. session' = session /\ rsession' = rsession /\ states' = states
  BY DEF senderVars, agentVars, browserVars
<1>2. Kept(states') = Kept(states)
  BY <1>1
<1>3. ASSUME NEW side \in Sides, NEW a \in Attempts, Gather(side, a)
      PROVE  Ledger'
  BY <1>3, GatherKeeps
<1>4. ASSUME NEW side \in Sides, NEW a \in Attempts, PeerCloses(side, a)
      PROVE  Ledger'
  <2>1. peers' = CloseAt(peers, side, a) /\ mail' = mail /\ plan' = plan
    BY <1>4 DEF PeerCloses
  <2>2. a \in 0 .. MaxAttempts
    BY Bounds DEF Attempts
  <2>3. PeersDown(CloseAt(peers, side, a), peers)
    BY <2>2, SenderFacts, CloseDown
  <2>4. PeersDown(peers', peers) /\ MailDown(mail', mail)
    BY <2>1, <2>3, SameParts
  <2> QED
    BY <1>1, <1>2, <2>1, <2>4, Untouched
<1>5. ASSUME NEW a \in Attempts, OpenChannel(a) \/ Cut(a)
      PROVE  Ledger'
  <2>1. peers' = peers /\ mail' = mail /\ plan' = plan
    BY <1>5 DEF OpenChannel, Cut
  <2>2. PeersDown(peers', peers) /\ MailDown(mail', mail)
    BY <2>1, SameParts
  <2> QED
    BY <1>1, <1>2, <2>1, <2>2, Untouched
<1> QED
  BY <1>3, <1>4, <1>5 DEF WireNext

LEMMA SenderLedger ==
    ASSUME Shape, Shape', Ledger, UNCHANGED agentVars, UNCHANGED browserVars,
           SenderNext \/ handleResumeTransfer
    PROVE  Ledger'
<1>1. rsession' = rsession /\ states' = states /\ Kept(states') = Kept(states)
  BY DEF agentVars, browserVars
<1>2. ASSUME peers' = peers, plan' = plan, session' = session, MailDown(mail', mail)
      PROVE  Ledger'
  <2>1. PeersDown(peers', peers)
    BY <1>2, SameParts
  <2> QED
    BY <1>1, <1>2, <2>1, Untouched
<1>3. mail \in Posts /\ MailDown(mail, mail)
  BY SameParts
<1>4. ASSUME NEW type \in {"offer", "started", "retryable"}, NEW n \in Nat
      PROVE  MailDown(ToRecipient(mail, <<Message(type, n)>>), mail)
  <2>1. Plain(<<Message(type, n)>>)
    BY PlainOne DEF Types
  <2> QED
    BY <1>3, <2>1, ToRecipientDown
<1>5. CASE RunTransfer \/ handleResumeTransfer
  <2>1. peers' = peers /\ plan' = plan /\ session' = session /\ mail' = mail
    BY <1>5 DEF RunTransfer, handleResumeTransfer, senderVars
  <2> QED
    BY <1>2, <1>3, <2>1
<1>6. CASE sendTransferOffer
  <2>1. /\ peers' = peers /\ plan' = plan /\ session' = session
        /\ mail' = ToRecipient(mail, <<Message("offer", 0)>>)
    BY <1>6 DEF sendTransferOffer, senderVars
  <2> QED
    BY <1>2, <1>4, <2>1
<1>7. CASE RunReadsDone
  <2>1. Ended(sjob, touched, session, peers, TRUE) /\ mail' = [mail EXCEPT !.run = <<>>] /\ plan' = plan
    BY <1>7 DEF RunReadsDone
  <2> HIDE DEF Ended
  <2>2. PeersDown(peers', peers) /\ Fewer(session'.pending, session.pending)
    BY <2>1, SenderFacts, EndedDown
  <2>3. MailDown(mail', mail)
    BY <1>3, <2>1, ClearDown
  <2>4. Typed(peers, session.pending, rsession.pending, Kept(states), mail)
    BY TypedNow
  <2>5. Books(plan.gather, peers, session.pending, rsession.pending, Kept(states), mail)
    BY DEF Ledger
  <2>6. Fewer(rsession'.pending, rsession.pending) /\ Fewer(Kept(states'), Kept(states))
    BY <1>1, SameParts
  <2> QED
    BY <2>1, <2>2, <2>3, <2>4, <2>5, <2>6, Settle
<1>8. ASSUME NEW box \in {"run", "loop"}, handleEnvelope(box)
      PROVE  Ledger'
  BY <1>8, EnvelopeLedger
<1>9. ASSUME NEW a \in Attempts, SendWebRTCOffer(a)
      PROVE  Ledger'
  BY <1>9, SendOfferKeeps
<1>10. ASSUME NEW a \in Attempts, SenderStarts(a) \/ SendFrame(a) \/ SenderInterrupted(a)
       PROVE  Ledger'
  <2>1. peers' = peers /\ plan' = plan /\ session' = session
    BY <1>10 DEF SenderStarts, SendFrame, SenderInterrupted
  <2>2. sjob.progress \in Nat
    BY SenderFacts, PlanFacts DEF Job
  <2>3. \/ mail' = mail \/ mail' = ToRecipient(mail, <<Message("started", 0)>>)
        \/ mail' = ToRecipient(mail, <<Message("retryable", sjob.progress)>>)
    BY <1>10 DEF SenderStarts, SendFrame, SenderInterrupted, Say
  <2>4. MailDown(mail', mail)
    BY <1>3, <1>4, <2>2, <2>3
  <2> QED
    BY <1>2, <2>1, <2>4
<1> QED
  BY <1>5, <1>6, <1>7, <1>8, <1>9, <1>10 DEF SenderNext

-----------------------------------------------------------------------------
(* A new peer of the recipient.                                            *)

\* The head of the recipient's queue is an offer, and is read.
LEMMA OfferRead ==
    ASSUME NEW m \in Posts, m["recipient"] # <<>>, Head(m["recipient"]).type = "webrtc_offer"
    PROVE  \A b \in Attempts :
              /\ Offers(m, b) = Offers([m EXCEPT !["recipient"] = Tail(@)], b)
                                  + Own(Head(m["recipient"]).n, b)
              /\ \A o \in Boxes : Ice([m EXCEPT !["recipient"] = Tail(@)], o, b) = Ice(m, o, b)
<1> DEFINE m1 == [m EXCEPT !["recipient"] = Tail(@)]
           h  == Head(m["recipient"])
<1>1. m["recipient"] \in Seq(Post) /\ "recipient" \in Boxes
  BY DEF Posts, Boxes
<1>2. \A o \in Boxes : m1[o] = IF o = "recipient" THEN Tail(m["recipient"]) ELSE m[o]
  BY DEF Posts
<1>3. h \in Post
  BY <1>1, TailOf
<1>4. \A b : /\ (h = Message("webrtc_offer", b)) <=> (h.n = b)
             /\ h # Message("ice", b)
  BY <1>3 DEF Message, Post
<1>5. \A x : CountOf(x, m["recipient"]) = CountOf(x, Tail(m["recipient"])) + IF h = x THEN 1 ELSE 0
  BY <1>1, CountTail
<1>6. \A x : CountOf(x, Tail(m["recipient"])) \in Nat
  BY <1>1, TailOf, CountNat
<1> HIDE DEF m1, h
<1>7. m1["recipient"] = Tail(m["recipient"]) /\ \A o \in Boxes \ {"recipient"} : m1[o] = m[o]
  BY <1>1, <1>2
<1>8. ASSUME NEW b \in Attempts
      PROVE  /\ Offers(m, b) = Offers(m1, b) + Own(h.n, b)
             /\ \A o \in Boxes : Ice(m1, o, b) = Ice(m, o, b)
  <2>1. CountOf(Message("webrtc_offer", b), m["recipient"])
          = CountOf(Message("webrtc_offer", b), Tail(m["recipient"]))
              + IF h = Message("webrtc_offer", b) THEN 1 ELSE 0
    BY <1>5
  <2>2. Offers(m, b) = Offers(m1, b) + Own(h.n, b)
    BY <1>4, <1>7, <2>1 DEF Offers, Own
  <2>3. CountOf(Message("ice", b), m["recipient"])
          = CountOf(Message("ice", b), Tail(m["recipient"])) + IF h = Message("ice", b) THEN 1 ELSE 0
    BY <1>5
  <2>4. Ice(m1, "recipient", b) = Ice(m, "recipient", b)
    BY <1>4, <1>6, <1>7, <2>3 DEF Ice
  <2>5. \A o \in Boxes \ {"recipient"} : Ice(m1, o, b) = Ice(m, o, b)
    BY <1>7 DEF Ice
  <2> QED
    BY <2>2, <2>4, <2>5
<1> QED
  BY <1>8 DEF m1, h

\* m2 is m without the offer of attempt a, and p2 is p with the peer q for it.
OfferTaken(m2, m, a) ==
    \A b \in Attempts : /\ Offers(m, b) = Offers(m2, b) + Own(a, b)
                        /\ \A o \in Boxes : Ice(m2, o, b) = Ice(m, o, b)
Joined(p2, p, a, q) ==
    \A b \in Attempts : /\ p2["recipient"][b] = IF b = a THEN q ELSE p["recipient"][b]
                        /\ p2["sender"][b] = p["sender"][b]

\* The peer takes what was kept for it; the sender has no candidate of it yet, and its offer is
\* gone.
LEMMA NewRecipient ==
    ASSUME NEW g \in Nat, NEW p, NEW x, NEW y, NEW z, NEW m, Typed(p, x, y, z, m),
           Books(g, p, x, y, z, m), NEW m1 \in Posts, NEW a \in Attempts, OfferTaken(m1, m, a),
           NEW q \in Peer, q.state = "answering", q.left = g,
           NEW y2 \in Seq(Attempts), NEW z2 \in Seq(Attempts), Fewer(y2, y), Fewer(z2, z),
           Got(q, a) + CountOf(a, y2) + CountOf(a, z2) <= CountOf(a, y) + CountOf(a, z),
           NEW p2 \in Peers, Joined(p2, p, a, q)
    PROVE  Books(g, p2, x, y2, z2, m1)
<1>1. m \in Posts /\ "recipient" \in Boxes
  BY DEF Typed, Boxes
<1>3. \A b \in Attempts : /\ Offers(m, b) = Offers(m1, b) + Own(a, b)
                          /\ \A o \in Boxes : Ice(m1, o, b) = Ice(m, o, b)
  BY DEF OfferTaken
<1>4. Typed(p2, x, y2, z2, m1)
  BY DEF Typed
<1>5. \A b \in Attempts : /\ p2["recipient"][b] = IF b = a THEN q ELSE p["recipient"][b]
                          /\ p2["sender"][b] = p["sender"][b]
  BY DEF Joined
<1>6. /\ p["recipient"][a].state = "none" /\ p["sender"][a].state \notin {"none", "making"}
      /\ Offers(m1, a) = 0
  <2>1. Offers(m, a) + (IF p["recipient"][a].state = "none" THEN 0 ELSE 1)
          <= IF p["sender"][a].state \in {"none", "making"} THEN 0 ELSE 1
    BY DEF Books, Once
  <2>2. Offers(m, a) = Offers(m1, a) + 1
    BY <1>3 DEF Own
  <2>3. Offers(m1, a) \in Nat
    BY <1>4, Parts
  <2> HIDE DEF Offers
  <2> QED
    BY <2>1, <2>2, <2>3
<1>7. \A b \in Attempts : SGot(p2, x, m1, b) = SGot(p, x, m, b)
  BY <1>3, <1>5 DEF SGot, Boxes
<1>8. ASSUME NEW b \in Attempts
      PROVE  RGot(p2, y2, z2, m1, b) <= RGot(p, y, z, m, b)
  <2> DEFINE u  == Got(p["recipient"][b], b)
             u2 == Got(p2["recipient"][b], b)
             v  == CountOf(b, y)
             v2 == CountOf(b, y2)
             w  == CountOf(b, z)
             w2 == CountOf(b, z2)
             e  == Ice(m, "recipient", b)
  <2>1. u \in Nat /\ v \in Nat /\ w \in Nat /\ e \in Nat
    BY Parts
  <2>2. u2 \in Nat /\ v2 \in Nat /\ w2 \in Nat
    BY <1>4, Parts
  <2>3. v2 <= v /\ w2 <= w
    BY DEF Fewer
  <2>4. Ice(m1, "recipient", b) = e
    BY <1>1, <1>3
  <2>5. RGot(p, y, z, m, b) = u + v + w + e /\ RGot(p2, y2, z2, m1, b) = u2 + v2 + w2 + e
    BY <2>4 DEF RGot
  <2>6. (u2 + v2 + w2 <= v + w) \/ u2 = u
    BY <1>5
  <2> HIDE DEF u, u2, v, v2, w, w2, e
  <2>7. u2 + v2 + w2 + e <= u + v + w + e
    BY <2>1, <2>2, <2>3, <2>6
  <2> QED
    BY <2>5, <2>7
<1>9. Budget(g, p2, x, y2, z2, m1)
  <2>1. ASSUME NEW b \in Attempts
        PROVE  /\ p2["recipient"][b].left + SGot(p2, x, m1, b) <= g
               /\ p2["recipient"][b].state = "none" => p2["recipient"][b].left + SGot(p2, x, m1, b) = 0
    <3>1. /\ p["recipient"][b].left + SGot(p, x, m, b) <= g
          /\ p["recipient"][b].state = "none" => p["recipient"][b].left + SGot(p, x, m, b) = 0
      BY DEF Books, Budget
    <3>2. CASE b = a
      <4>1. p["recipient"][b].left \in Nat /\ SGot(p, x, m, b) \in Nat
        BY Parts
      <4>2. SGot(p2, x, m1, b) = 0
        BY <1>6, <1>7, <3>1, <3>2, <4>1
      <4> QED
        BY <1>5, <3>2, <4>2
    <3>3. CASE b # a
      BY <1>5, <1>7, <3>1, <3>3
    <3> QED
      BY <3>2, <3>3
  <2>2. ASSUME NEW b \in Attempts
        PROVE  /\ p2["sender"][b].left + RGot(p2, y2, z2, m1, b) <= g
               /\ p2["sender"][b].state = "none" => p2["sender"][b].left + RGot(p2, y2, z2, m1, b) = 0
    <3> DEFINE l  == p["sender"][b].left
               w  == RGot(p, y, z, m, b)
               w2 == RGot(p2, y2, z2, m1, b)
    <3>1. l + w <= g /\ (p["sender"][b].state = "none" => l + w = 0)
      BY DEF Books, Budget
    <3>2. l \in Nat /\ w \in Nat
      BY Parts
    <3>3. w2 \in Nat
      BY <1>4, Parts
    <3>4. w2 <= w
      BY <1>8
    <3> HIDE DEF l, w, w2
    <3>5. l + w2 <= g /\ (p["sender"][b].state = "none" => l + w2 = 0)
      BY <3>1, <3>2, <3>3, <3>4
    <3> QED
      BY <1>5, <3>5 DEF l, w2
  <2> QED
    BY <2>1, <2>2 DEF Budget
<1>10. Once(p2, m1)
  <2>1. ASSUME NEW b \in Attempts
        PROVE  Offers(m1, b) + (IF p2["recipient"][b].state = "none" THEN 0 ELSE 1)
                 <= IF p2["sender"][b].state \in {"none", "making"} THEN 0 ELSE 1
    <3>1. CASE b = a
      <4>1. p2["sender"][b].state \notin {"none", "making"} /\ Offers(m1, b) = 0
        BY <1>5, <1>6, <3>1
      <4> QED
        BY <4>1
    <3>2. CASE b # a
      <4>1. Offers(m, b) + (IF p["recipient"][b].state = "none" THEN 0 ELSE 1)
              <= IF p["sender"][b].state \in {"none", "making"} THEN 0 ELSE 1
        BY DEF Books, Once
      <4>2. Offers(m1, b) \in Nat
        BY <1>4, Parts
      <4>3. Offers(m1, b) = Offers(m, b)
        BY <1>3, <3>2, <4>2 DEF Own
      <4>4. p2["recipient"][b] = p["recipient"][b] /\ p2["sender"][b] = p["sender"][b]
        BY <1>5, <3>2
      <4> QED
        BY <4>1, <4>3, <4>4
    <3> QED
      BY <3>1, <3>2
  <2> QED
    BY <2>1 DEF Once
<1>11. InOrder(p2)
  BY <1>5 DEF Books, InOrder
<1> QED
  BY <1>9, <1>10, <1>11 DEF Books

-----------------------------------------------------------------------------
(* The receiving daemon.                                                   *)

\* A handler of the agent settles the ledger if the books are right with what it leaves.
LEMMA AgentSettles ==
    ASSUME Shape, Shape', mail["recipient"] # <<>>, NEW s \in RSession, NEW p \in Peers,
           NEW j, NEW out, Plain(out), NEW err \in BOOLEAN, AgentHandled(j, s, p, out, err),
           plan' = plan, UNCHANGED senderVars, UNCHANGED browserVars,
           Books(plan.gather, p, session.pending, s.pending, Kept(states),
                 [mail EXCEPT !["recipient"] = Tail(@)])
    PROVE  Ledger'
<1> DEFINE m1 == [mail EXCEPT !["recipient"] = Tail(@)]
           o2 == IF err THEN Append(out, Message("failed", 0)) ELSE out
<1>1. mail \in Posts /\ "recipient" \in Boxes
  BY SameParts DEF Boxes
<1>2. m1 \in Posts
  BY <1>1, ReadDown
<1>3. rsession' = s /\ peers' = p /\ mail' = ToSender(m1, o2)
  BY DEF AgentHandled
<1>4. Plain(o2)
  BY PlainOne DEF Types
<1>5. Books(plan.gather, p, session.pending, s.pending, Kept(states), m1)
  OBVIOUS
<1> HIDE DEF m1, o2
<1>6. MailDown(mail', m1)
  BY <1>2, <1>3, <1>4, ToSenderDown
<1>7. Typed(p, session.pending, s.pending, Kept(states), m1)
  BY <1>2, SameParts DEF Typed, RSession, Waiting
<1>8. PeersDown(peers', p) /\ Fewer(rsession'.pending, s.pending)
  BY <1>3, <1>7, PeersSame, FewerSame DEF Typed
<1>9. session' = session /\ states' = states
  BY DEF senderVars, browserVars
<1>10. Fewer(session'.pending, session.pending) /\ Fewer(Kept(states'), Kept(states))
  BY <1>9, SameParts
<1> QED
  BY <1>5, <1>6, <1>7, <1>8, <1>10, Settle

\* The usual handler: it closes the session or keeps it, and brings no candidate.
LEMMA AgentOnly ==
    ASSUME Shape, Shape', Ledger, mail["recipient"] # <<>>, NEW s \in RSession, NEW p \in Peers,
           NEW j, NEW out, Plain(out), NEW err \in BOOLEAN, AgentHandled(j, s, p, out, err),
           plan' = plan, UNCHANGED senderVars, UNCHANGED browserVars,
           PeersDown(p, peers), Fewer(s.pending, rsession.pending)
    PROVE  Ledger'
<1>1. "recipient" \in Boxes /\ s.pending \in Seq(Attempts)
  BY DEF Boxes, RSession, Waiting
<1>2. Books(plan.gather, p, session.pending, s.pending, Kept(states),
            [mail EXCEPT !["recipient"] = Tail(@)])
  BY <1>1, SameParts, ReadBooks
<1> QED
  BY <1>2, AgentSettles

\* The handlers that change only the job, and those that close the session.
LEMMA QuietAgent ==
    ASSUME Shape, Shape', Ledger, UNCHANGED senderVars, UNCHANGED browserVars,
           handleTransferOffer \/ AgentStarted \/ AgentRetryable \/ AgentFailed
    PROVE  Ledger'
<1> DEFINE p == CloseAt(peers, "recipient", rsession.att)
<1>1. p \in Peers /\ PeersDown(p, peers)
  BY ClosedRSession, AgentFacts, CloseDown
<1>2. NoRSession \in RSession /\ Fewer(NoRSession.pending, rsession.pending)
  BY NoRSessionShape, SameParts, FewerSame DEF NoRSession
<1>3. /\ Plain(<<>>) /\ Plain(<<Message("accepted", 0)>>) /\ Plain(<<Message("denied", 0)>>)
  BY PlainOne DEF Types
<1>4. ASSUME NEW type, AgentReads(type)
      PROVE  mail["recipient"] # <<>>
  BY <1>4 DEF AgentReads, Read
<1>5. ASSUME NEW j, NEW type, NEW out, Plain(out), NEW err \in BOOLEAN, AgentReads(type), plan' = plan,
             AgentHandled(j, rsession, peers, out, err)
      PROVE  Ledger'
  BY <1>4, <1>5, SameParts, AgentFacts, AgentOnly
<1>6. ASSUME NEW j, NEW type, AgentReads(type), plan' = plan,
             AgentHandled(j, NoRSession, p, <<>>, FALSE)
      PROVE  Ledger'
  <2> HIDE DEF p
  <2> QED
    BY <1>1, <1>2, <1>3, <1>4, <1>6, AgentOnly
<1>7. CASE handleTransferOffer
  <2>1. PICK j \in {rjob, [rjob EXCEPT !.status = "accepted"]},
             out \in {<<Message("accepted", 0)>>, <<Message("denied", 0)>>} :
           AgentHandled(j, rsession, peers, out, FALSE)
    BY <1>7 DEF handleTransferOffer
  <2>2. AgentReads("offer") /\ plan' = plan
    BY <1>7 DEF handleTransferOffer
  <2>3. Plain(out)
    BY <1>3, <2>1
  <2> QED
    BY <1>5, <2>1, <2>2, <2>3
<1>8. CASE AgentStarted
  <2>1. PICK err \in BOOLEAN, j \in {rjob, [rjob EXCEPT !.status = markTransferStarted(@)]} :
           AgentHandled(j, rsession, peers, <<>>, err)
    BY <1>8, AgentFacts, StartedAtAgent
  <2>2. AgentReads("started") /\ plan' = plan
    BY <1>8, AgentFacts, StartedAtAgent
  <2> QED
    BY <1>3, <1>5, <2>1, <2>2
<1>9. CASE AgentRetryable
  <2> DEFINE j == [rjob EXCEPT !.status = markJobRetryableIfMutable(@)]
  <2>1. AgentReads("retryable") /\ plan' = plan /\ AgentHandled(j, NoRSession, p, <<>>, FALSE)
    BY <1>9 DEF AgentRetryable
  <2> HIDE DEF j, p
  <2> QED
    BY <1>6, <2>1
<1>10. CASE AgentFailed
  <2> DEFINE j == [rjob EXCEPT !.status = failTransferJob(@)]
  <2>1. AgentReads("failed") /\ plan' = plan /\ AgentHandled(j, NoRSession, p, <<>>, FALSE)
    BY <1>10 DEF AgentFailed
  <2> HIDE DEF j, p
  <2> QED
    BY <1>6, <2>1
<1> QED
  BY <1>7, <1>8, <1>9, <1>10

\* The offer makes the receiver's peer.
LEMMA WebRTCOfferToAgent ==
    ASSUME Shape, Shape', Ledger, UNCHANGED senderVars, UNCHANGED browserVars, handleWebRTCOffer
    PROVE  Ledger'
<1> DEFINE a    == Head(mail.recipient).n
           peer == [NoPeer EXCEPT !.state = "answering", !.left = plan.gather]
           q    == flushLiveSessionICE(peer, a, rsession.pending)
           s    == [att |-> a, pending |-> <<>>]
           p    == [peers EXCEPT !["recipient"][a] = q]
<1>1. AgentReads("webrtc_offer") /\ plan' = plan
  BY DEF handleWebRTCOffer
<1>2. mail["recipient"] # <<>>
  BY <1>1 DEF AgentReads, Read
<1>3. Head(mail["recipient"]) \in Letter /\ Head(mail["recipient"]).type = "webrtc_offer"
  BY <1>1, AgentReadFacts
<1>4. a \in Attempts /\ a = Head(mail["recipient"]).n
  BY <1>3 DEF Letter
<1>5. Plain(<<>>)
  BY DEF Plain
<1>6. CASE rsession.att # 0
  <2>1. AgentHandled(rjob, rsession, peers, <<>>, TRUE)
    BY <1>6 DEF handleWebRTCOffer
  <2> QED
    BY <1>1, <1>2, <1>5, <2>1, AgentFacts, SameParts, AgentOnly
<1>7. CASE rsession.att = 0
  <2>1. AgentHandled(rjob, s, p, <<>>, FALSE)
    BY <1>7 DEF handleWebRTCOffer
  <2>2. CountOf(a, rsession.pending) \in Nat /\ plan.gather \in Nat
    BY SameParts, CountNat, PlanFacts, SenderFacts
  <2>3. <<>> \in Waiting /\ 0 \in 0 .. MaxRuns
    BY Bounds DEF Waiting
  <2>4. /\ q.state = "answering" /\ q.left = plan.gather /\ q.held = <<>>
        /\ q.added = CountOf(a, rsession.pending) /\ q \in Peer
    <3> DEFINE n == CountOf(a, rsession.pending)
    <3>1. n \in Nat
      BY <2>2
    <3>2. q = [peer EXCEPT !.added = @ + n]
      BY DEF flushLiveSessionICE
    <3> HIDE DEF n, q
    <3>3. /\ peer \in Peer /\ peer.state = "answering" /\ peer.left = plan.gather
          /\ peer.held = <<>> /\ peer.added = 0
      BY <2>2, <2>3 DEF NoPeer, Peer
    <3> HIDE DEF peer
    <3>4. /\ q.state = "answering" /\ q.left = plan.gather /\ q.held = <<>> /\ q.added = n
          /\ q \in Peer
      BY <3>1, <3>2, <3>3 DEF Peer
    <3> QED
      BY <3>4 DEF n
  <2>5. s \in RSession /\ s.pending = <<>>
    BY <1>4, Bounds DEF RSession, Waiting, Attempts
  <2> HIDE DEF q, s, a
  <2>6. /\ p \in Peers
        /\ \A si \in Sides, b \in Attempts :
              p[si][b] = IF si = "recipient" /\ b = a THEN q ELSE peers[si][b]
    BY <1>4, <2>4, AgentFacts, SetPeer
  <2>j. Joined(p, peers, a, q)
    BY <2>6 DEF Joined, Sides
  <2> HIDE DEF p
  <2>7. Typed(peers, session.pending, rsession.pending, Kept(states), mail)
    BY TypedNow
  <2>8. Books(plan.gather, peers, session.pending, rsession.pending, Kept(states), mail)
    BY DEF Ledger
  <2>9. CountOf(a, <<>>) = 0 /\ CountOf(a, Kept(states)) \in Nat
    BY <1>4, <2>7, Parts, CountEmpty
  <2>10. Got(q, a) = CountOf(a, rsession.pending)
    BY <2>2, <2>4, <2>9 DEF Got
  <2>11. Got(q, a) + CountOf(a, <<>>) + CountOf(a, Kept(states))
           <= CountOf(a, rsession.pending) + CountOf(a, Kept(states))
    BY <2>2, <2>9, <2>10
  <2>12. /\ Fewer(<<>>, rsession.pending) /\ Fewer(Kept(states), Kept(states))
         /\ <<>> \in Seq(Attempts) /\ Kept(states) \in Seq(Attempts)
    BY SameParts, FewerSame
  <2> DEFINE m1 == [mail EXCEPT !["recipient"] = Tail(@)]
  <2>m. m1 \in Posts /\ OfferTaken(m1, mail, a)
    <3>1. mail \in Posts /\ "recipient" \in Boxes
      BY SameParts DEF Boxes
    <3> QED
      BY <1>2, <1>3, <1>4, <3>1, ReadDown, OfferRead DEF OfferTaken
  <2> HIDE DEF m1
  <2>13. Books(plan.gather, p, session.pending, <<>>, Kept(states), m1)
    BY <1>4, <2>2, <2>4, <2>6, <2>j, <2>7, <2>8, <2>11, <2>12, <2>m, NewRecipient
  <2>14. Books(plan.gather, p, session.pending, s.pending, Kept(states),
               [mail EXCEPT !["recipient"] = Tail(@)])
    BY <2>5, <2>13 DEF m1
  <2> QED
    BY <1>1, <1>2, <1>5, <2>1, <2>5, <2>6, <2>14, AgentSettles
<1> QED
  BY <1>6, <1>7

\* The recipient's peer of attempt a is given candidate c.
LEMMA RecipientPeerTakes ==
    ASSUME NEW p \in Peers, NEW a \in Attempts, NEW c \in Attempts,
           NEW q, q = AddICECandidate(p["recipient"][a], a, c), NEW p2 \in Peers, Joined(p2, p, a, q),
           NEW y \in Seq(Attempts), NEW z \in Seq(Attempts)
    PROVE  OneMoreAtRecipient(p2, y, z, p, y, z, c)
<1>1. \A b \in Attempts : p["recipient"][b] \in Peer /\ p2["recipient"][b] \in Peer
  BY DEF Peers, Sides
<1>2. Got(q, a) <= Got(p["recipient"][a], a) + Own(c, a) /\ Milder(q, p["recipient"][a])
  BY <1>1, AddGot
<1>3. ASSUME NEW b \in Attempts
      PROVE  /\ Got(p2["recipient"][b], b) + CountOf(b, y) + CountOf(b, z)
                  <= Got(p["recipient"][b], b) + CountOf(b, y) + CountOf(b, z) + Own(c, b)
             /\ Milder(p2["recipient"][b], p["recipient"][b])
             /\ p2["sender"][b] = p["sender"][b]
  <2>1. /\ p2["recipient"][b] = IF b = a THEN q ELSE p["recipient"][b]
        /\ p2["sender"][b] = p["sender"][b]
    BY DEF Joined
  <2> DEFINE u2 == Got(p2["recipient"][b], b)
             u  == Got(p["recipient"][b], b)
             v  == CountOf(b, y)
             w  == CountOf(b, z)
             i  == Own(c, b)
  <2>2. u \in Nat /\ u2 \in Nat /\ p["recipient"][b].left \in Nat
    BY <1>1, PeerNat
  <2>3. v \in Nat /\ w \in Nat
    BY CountNat
  <2>4. i \in Nat
    BY DEF Own
  <2>5. u2 <= u + i /\ Milder(p2["recipient"][b], p["recipient"][b])
    <3>1. CASE b = a
      BY <1>2, <2>1, <3>1
    <3>2. CASE b # a
      <4>1. p2["recipient"][b] = p["recipient"][b]
        BY <2>1, <3>2
      <4>2. u2 = u
        BY <4>1
      <4>3. Milder(p2["recipient"][b], p["recipient"][b])
        BY <2>2, <4>1 DEF Milder
      <4> HIDE DEF u, u2, i
      <4> QED
        BY <2>2, <2>4, <4>2, <4>3
    <3> QED
      BY <3>1, <3>2
  <2> HIDE DEF u2, u, v, w, i
  <2>6. u2 + v + w <= u + v + w + i
    BY <2>2, <2>3, <2>4, <2>5
  <2> QED
    BY <2>1, <2>5, <2>6 DEF u2, u, v, w, i
<1> QED
  BY <1>3 DEF OneMoreAtRecipient

\* A candidate for the receiver: kept by the session, or given to its peer.
LEMMA ICEToAgent ==
    ASSUME Shape, Shape', Ledger, UNCHANGED senderVars, UNCHANGED browserVars, AgentICE
    PROVE  Ledger'
<1> DEFINE a == rsession.att
           c == Head(mail.recipient).n
<1>1. AgentReads("ice") /\ plan' = plan
  BY DEF AgentICE
<1>2. mail["recipient"] # <<>>
  BY <1>1 DEF AgentReads, Read
<1>3. Head(mail["recipient"]) \in Letter /\ Head(mail["recipient"]).type = "ice"
  BY <1>1, AgentReadFacts
<1>c. c \in Attempts /\ c = Head(mail["recipient"]).n
  BY <1>3 DEF Letter
<1>p. Plain(<<>>)
  BY DEF Plain
<1>4. plan.gather \in Nat
  BY PlanFacts, SenderFacts
<1>5. Typed(peers, session.pending, rsession.pending, Kept(states), mail)
  BY TypedNow
<1>6. Books(plan.gather, peers, session.pending, rsession.pending, Kept(states), mail)
  BY DEF Ledger
<1>7. \A b \in Attempts :
         /\ Got(peers["recipient"][b], b) \in Nat /\ CountOf(b, rsession.pending) \in Nat
         /\ CountOf(b, Kept(states)) \in Nat
         /\ Milder(peers["recipient"][b], peers["recipient"][b])
  BY <1>5, Parts DEF Milder
<1>z. Kept(states) \in Seq(Attempts) /\ rsession.pending \in Seq(Attempts) /\ peers \in Peers
  BY SameParts
<1>t. ASSUME NEW p2 \in Peers, NEW y2 \in Seq(Attempts),
             OneMoreAtRecipient(p2, y2, Kept(states), peers, rsession.pending, Kept(states), c)
      PROVE  Books(plan.gather, p2, session.pending, y2, Kept(states),
                   [mail EXCEPT !["recipient"] = Tail(@)])
  BY <1>2, <1>3, <1>c, <1>4, <1>5, <1>6, <1>z, <1>t, RecipientTakes
<1>8. CASE rjob.status \in Terminal
  <2>1. AgentHandled(rjob, rsession, peers, <<>>, FALSE)
    BY <1>8 DEF AgentICE
  <2> QED
    BY <1>1, <1>2, <1>p, <2>1, AgentFacts, SameParts, AgentOnly
<1>9. CASE rjob.status \notin Terminal /\ a = 0
  <2>f. Full(rsession.pending) \in BOOLEAN
    BY DEF Full
  <2>1. CASE Full(rsession.pending)
    <3>1. AgentHandled(rjob, rsession, peers, <<>>, Full(rsession.pending))
      BY <1>9, <2>1 DEF AgentICE
    <3> QED
      BY <1>1, <1>2, <1>p, <2>f, <3>1, AgentFacts, SameParts, AgentOnly
  <2>2. CASE ~Full(rsession.pending)
    <3> DEFINE s == [rsession EXCEPT !.pending = Append(@, c)]
    <3>1. AgentHandled(rjob, s, peers, <<>>, Full(rsession.pending))
      BY <1>9, <2>2 DEF AgentICE
    <3>2. Append(rsession.pending, c) \in Waiting
      BY <1>c, <2>2, AgentFacts, Bounds DEF Full, RSession, Waiting
    <3>3. s \in RSession /\ s.pending = Append(rsession.pending, c)
      BY <3>2, AgentFacts DEF RSession
    <3>4. s.pending \in Seq(Attempts)
      BY <3>2, <3>3 DEF Waiting
    <3>5. ASSUME NEW b \in Attempts
          PROVE  Got(peers["recipient"][b], b) + CountOf(b, s.pending) + CountOf(b, Kept(states))
                   <= Got(peers["recipient"][b], b) + CountOf(b, rsession.pending)
                        + CountOf(b, Kept(states)) + Own(c, b)
      <4>1. CountOf(b, Append(rsession.pending, c)) = CountOf(b, rsession.pending) + IF b = c THEN 1 ELSE 0
        BY <1>c, <1>z, CountAppend
      <4> HIDE DEF s, c
      <4>2. CountOf(b, s.pending) = CountOf(b, rsession.pending) + Own(c, b)
        BY <3>3, <4>1 DEF Own
      <4> DEFINE u == Got(peers["recipient"][b], b)
                 v == CountOf(b, rsession.pending)
                 w == CountOf(b, Kept(states))
                 i == Own(c, b)
      <4>3. u \in Nat /\ v \in Nat /\ w \in Nat /\ i \in Nat
        BY <1>7 DEF Own
      <4> HIDE DEF u, v, w, i
      <4>4. u + (v + i) + w <= u + v + w + i
        BY <4>3
      <4> QED
        BY <4>2, <4>4 DEF u, v, w, i
    <3> HIDE DEF s, c
    <3>6. OneMoreAtRecipient(peers, s.pending, Kept(states), peers, rsession.pending, Kept(states), c)
      BY <1>7, <3>5 DEF OneMoreAtRecipient
    <3>7. Books(plan.gather, peers, session.pending, s.pending, Kept(states),
                [mail EXCEPT !["recipient"] = Tail(@)])
      BY <1>t, <1>z, <3>4, <3>6
    <3> QED
      BY <1>1, <1>2, <1>p, <1>z, <2>f, <3>1, <3>3, <3>7, AgentSettles
  <2> QED
    BY <2>1, <2>2
<1>10. CASE rjob.status \notin Terminal /\ a # 0
  <2>1. PICK refused \in AddRefusals(peers["recipient"][a]) :
            AgentHandled(rjob, rsession,
                         [peers EXCEPT !["recipient"][a] = AddICECandidate(@, a, c)], <<>>, refused)
    BY <1>10 DEF AgentICE
  <2>2. refused \in BOOLEAN
    BY <2>1, RefusalsShape
  <2>3. a \in Attempts /\ peers \in Peers /\ "recipient" \in Sides
    BY <1>10, AgentFacts, Bounds DEF Attempts
  <2> DEFINE q == AddICECandidate(peers["recipient"][a], a, c)
             p == [peers EXCEPT !["recipient"][a] = q]
  <2>4. [peers EXCEPT !["recipient"][a] = AddICECandidate(@, a, c)] = p
    BY <2>3 DEF Peers
  <2>5. q \in Peer /\ q = AddICECandidate(peers["recipient"][a], a, c)
    BY <1>c, <2>3, AgentFacts, AddShape
  <2> HIDE DEF q
  <2>6. /\ p \in Peers
        /\ \A s \in Sides, b \in Attempts :
              p[s][b] = IF s = "recipient" /\ b = a THEN q ELSE peers[s][b]
    BY <2>3, <2>5, SetPeer
  <2>h. AgentHandled(rjob, rsession, p, <<>>, refused)
    BY <2>1, <2>4
  <2> HIDE DEF p, c, a
  <2>j. Joined(p, peers, a, q)
    BY <2>3, <2>6 DEF Joined, Sides
  <2>7. OneMoreAtRecipient(p, rsession.pending, Kept(states), peers, rsession.pending, Kept(states), c)
    BY <1>c, <1>z, <2>3, <2>5, <2>6, <2>j, RecipientPeerTakes
  <2>8. Books(plan.gather, p, session.pending, rsession.pending, Kept(states),
              [mail EXCEPT !["recipient"] = Tail(@)])
    BY <1>t, <1>z, <2>6, <2>7
  <2> QED
    BY <1>1, <1>2, <1>p, <2>2, <2>6, <2>h, <2>8, AgentFacts, AgentSettles
<1> QED
  BY <1>8, <1>9, <1>10

\* The answer goes out, and the peer is stable.
LEMMA AnswerSent ==
    ASSUME Shape, NEW a \in Attempts, peers["recipient"][a].state = "answering",
           peers' = [peers EXCEPT !["recipient"][a].state = "stable"],
           mail' = ToSender(mail, <<Message("answer", a)>>)
    PROVE  PeersDown(peers', peers) /\ MailDown(mail', mail)
<1>1. peers \in Peers /\ mail \in Posts /\ "recipient" \in Sides /\ peers["recipient"][a] \in Peer
  BY SameParts, AgentFacts
<1> DEFINE q == [peers["recipient"][a] EXCEPT !.state = "stable"]
<1>2. /\ q \in Peer /\ q.state = "stable" /\ q.left = peers["recipient"][a].left
      /\ q.added = peers["recipient"][a].added /\ q.held = peers["recipient"][a].held
  BY <1>1 DEF Peer
<1>3. peers' = [peers EXCEPT !["recipient"][a] = q]
  BY <1>1 DEF Peers
<1> HIDE DEF q
<1>4. Milder(q, peers["recipient"][a]) /\ Got(q, a) <= Got(peers["recipient"][a], a)
  <2>1. q.left \in Nat /\ Got(q, a) \in Nat
    BY <1>2, PeerNat
  <2>2. Got(q, a) = Got(peers["recipient"][a], a)
    BY <1>2 DEF Got
  <2> QED
    BY <1>2, <2>1, <2>2 DEF Milder
<1>5. PeersDown([peers EXCEPT !["recipient"][a] = q], peers)
  BY <1>1, <1>2, <1>4, PeerDown
<1>6. a \in Nat
  BY Bounds DEF Attempts
<1>7. Plain(<<Message("answer", a)>>)
  BY <1>6, PlainOne DEF Types
<1>8. MailDown(mail', mail)
  BY <1>1, <1>7, ToSenderDown
<1> QED
  BY <1>3, <1>5, <1>8

\* The receiver's goroutine returns.
LEMMA ReturnsLedger ==
    ASSUME Shape, Shape', Ledger, UNCHANGED senderVars, UNCHANGED browserVars, plan' = plan,
           NEW a \in Attempts, NEW out, Plain(out), ReceiverReturns(a, out)
    PROVE  Ledger'
<1>1. /\ rsession' \in {NoRSession, rsession} /\ peers' \in {peers, CloseAt(peers, "recipient", a)}
      /\ mail' = ToSender(mail, out)
  BY DEF ReceiverReturns
<1>2. a \in 0 .. MaxAttempts
  BY Bounds DEF Attempts
<1>3. PeersDown(CloseAt(peers, "recipient", a), peers)
  BY <1>2, AgentFacts, CloseDown
<1>4. PeersDown(peers', peers)
  BY <1>1, <1>3, SameParts
<1>5. MailDown(mail', mail)
  BY <1>1, SameParts, ToSenderDown
<1>6. Fewer(rsession'.pending, rsession.pending)
  BY <1>1, SameParts, FewerSame DEF NoRSession
<1>7. session' = session /\ states' = states
  BY DEF senderVars, browserVars
<1>8. Fewer(session'.pending, session.pending) /\ Fewer(Kept(states'), Kept(states))
  BY <1>7, SameParts
<1>9. Books(plan.gather, peers, session.pending, rsession.pending, Kept(states), mail)
  BY DEF Ledger
<1> QED
  BY <1>4, <1>5, <1>6, <1>8, <1>9, TypedNow, Settle

LEMMA GoroutineLedger ==
    ASSUME Shape, Shape', Ledger, UNCHANGED senderVars, UNCHANGED browserVars, NEW a \in Attempts,
           \/ SendAnswer(a) \/ ReceiverStarts(a) \/ ReceiverNeverOpens(a) \/ ReceiverRefuses(a)
           \/ AcceptChunk(a) \/ AcceptManifest(a) \/ ReceiverInterrupted(a)
    PROVE  Ledger'
<1>1. session' = session /\ states' = states /\ Kept(states') = Kept(states)
  BY DEF senderVars, browserVars
<1>2. /\ Plain(<<>>) /\ Plain(<<Message("started", 0)>>) /\ Plain(<<Message("completed", 0)>>)
      /\ Plain(<<Message("failed", 0)>>)
      /\ Plain(Append(<<>>, Message("failed", 0)))
      /\ Plain(Append(<<Message("started", 0)>>, Message("failed", 0)))
  BY PlainOne DEF Types
<1>3. \A n \in Nat : Plain(<<Message("retryable", n)>>) /\ Plain(<<Message("progress", n)>>)
  BY PlainOne DEF Types
<1>4. ASSUME NEW out, Plain(out), ReceiverReturns(a, out), plan' = plan
      PROVE  Ledger'
  BY <1>4, ReturnsLedger
<1>5. ASSUME NEW out, Plain(out), mail' \in {mail, ToSender(mail, out)}, peers' = peers,
             rsession' = rsession, plan' = plan
      PROVE  Ledger'
  <2>1. PeersDown(peers', peers)
    BY <1>5, SameParts
  <2>2. MailDown(mail', mail)
    BY <1>5, SameParts, ToSenderDown
  <2> QED
    BY <1>1, <1>5, <2>1, <2>2, Untouched
<1>6. CASE SendAnswer(a)
  <2>1. /\ peers["recipient"][a].state = "answering"
        /\ peers' = [peers EXCEPT !["recipient"][a].state = "stable"]
        /\ mail' = ToSender(mail, <<Message("answer", a)>>)
        /\ rsession' = rsession /\ plan' = plan
    BY <1>6 DEF SendAnswer
  <2>2. PeersDown(peers', peers) /\ MailDown(mail', mail)
    BY <2>1, AnswerSent
  <2> QED
    BY <1>1, <2>1, <2>2, Untouched
<1>7. CASE ReceiverStarts(a)
  <2>1. /\ plan' = plan
        /\ \/ ReceiverReturns(a, <<>>)
           \/ ReceiverFails(a, <<Message("started", 0)>>)
           \/ /\ mail' = ToSender(mail, <<Message("started", 0)>>) /\ UNCHANGED <<rsession, peers>>
    BY <1>7 DEF ReceiverStarts
  <2>2. CASE ReceiverReturns(a, <<>>)
    BY <1>2, <1>4, <2>1, <2>2
  <2>3. CASE ReceiverFails(a, <<Message("started", 0)>>)
    <3>1. ReceiverReturns(a, Append(<<Message("started", 0)>>, Message("failed", 0)))
      BY <2>3 DEF ReceiverFails
    <3> QED
      BY <1>2, <1>4, <2>1, <3>1
  <2>4. CASE mail' = ToSender(mail, <<Message("started", 0)>>) /\ UNCHANGED <<rsession, peers>>
    BY <1>2, <1>5, <2>1, <2>4
  <2> QED
    BY <2>1, <2>2, <2>3, <2>4
<1>8. CASE ReceiverNeverOpens(a)
  <2>1. ReceiverReturns(a, <<Message("retryable", recv[a].progress)>>) /\ plan' = plan
    BY <1>8 DEF ReceiverNeverOpens
  <2>2. recv[a].progress \in Nat
    BY AgentFacts DEF Received, Receiver
  <2> QED
    BY <1>3, <1>4, <2>1, <2>2
<1>9. CASE ReceiverRefuses(a)
  <2>1. ReceiverReturns(a, Append(<<>>, Message("failed", 0))) /\ plan' = plan
    BY <1>9 DEF ReceiverRefuses, ReceiverFails
  <2> QED
    BY <1>2, <1>4, <2>1
<1>10. CASE AcceptChunk(a)
  <2> DEFINE size == Len(part) + Len(Head(net[a].frames).data)
  <2>1. /\ peers' = peers /\ rsession' = rsession /\ plan' = plan
        /\ mail' \in {mail, ToSender(mail, <<Message("progress", size)>>)}
    BY <1>10 DEF AcceptChunk
  <2>2. size \in Nat
    <3>1. part \in Seq(Nat)
      BY PartFacts
    <3>2. Head(net[a].frames) \in Genuine /\ Head(net[a].frames).type = "chunk"
      BY <1>10, IncomingFacts DEF AcceptChunk
    <3>3. Head(net[a].frames).data \in Seq(Nat)
      BY <3>2, FrameFacts, AgentFacts
    <3> QED
      BY <3>1, <3>3
  <2> HIDE DEF size
  <2> QED
    BY <1>3, <1>5, <2>1, <2>2
<1>11. CASE AcceptManifest(a)
  <2>1. plan' = plan /\ (ReceiverReturns(a, <<>>) \/ ReceiverReturns(a, <<Message("completed", 0)>>))
    BY <1>11 DEF AcceptManifest
  <2> QED
    BY <1>2, <1>4, <2>1
<1>12. CASE ReceiverInterrupted(a)
  <2> DEFINE kept == IF Len(part) > rjob.progress THEN SubSeq(part, 1, rjob.progress) ELSE part
  <2>1. ReceiverReturns(a, <<Message("retryable", Len(kept))>>) /\ plan' = plan
    BY <1>12 DEF ReceiverInterrupted
  <2>2. Len(kept) \in Nat
    <3>1. part \in Seq(Nat) /\ rjob.progress \in Nat
      BY AgentFacts, PartFacts
    <3>2. kept \in Seq(Nat)
      BY <3>1
    <3> QED
      BY <3>2
  <2> HIDE DEF kept
  <2> QED
    BY <1>3, <1>4, <2>1, <2>2
<1> QED
  BY <1>6, <1>7, <1>8, <1>9, <1>10, <1>11, <1>12

LEMMA AgentLedger ==
    ASSUME Shape, Shape', Ledger, UNCHANGED senderVars, UNCHANGED browserVars, AgentNext
    PROVE  Ledger'
  BY QuietAgent, WebRTCOfferToAgent, ICEToAgent, GoroutineLedger DEF AgentNext

-----------------------------------------------------------------------------
(* The page.                                                               *)

\* The page brings no candidate, and keeps no more than before.
LEMMA PageSettles ==
    ASSUME Shape, Shape', Ledger, UNCHANGED senderVars, UNCHANGED agentVars, plan' = plan,
           PeersDown(peers', peers), MailDown(mail', mail), Fewer(Kept(states'), Kept(states))
    PROVE  Ledger'
<1>1. session' = session /\ rsession' = rsession
  BY DEF senderVars, agentVars
<1>2. Fewer(session'.pending, session.pending) /\ Fewer(rsession'.pending, rsession.pending)
  BY <1>1, SameParts
<1>3. Books(plan.gather, peers, session.pending, rsession.pending, Kept(states), mail)
  BY DEF Ledger
<1> QED
  BY <1>2, <1>3, TypedNow, Settle

\* What the page keeps when one of its states is replaced.
LEMMA KeptSet ==
    ASSUME Shape, NEW i \in 1 .. Len(states), NEW s \in State
    PROVE  Kept([states EXCEPT ![i] = s]) = IF i = Len(states) THEN s.pending ELSE Kept(states)
<1>1. /\ [states EXCEPT ![i] = s] \in Seq(State) /\ Len([states EXCEPT ![i] = s]) = Len(states)
      /\ Len(states) \in Nat /\ Len(states) >= 1 /\ states \in Seq(State)
  BY SetState, PageFacts
<1>2. states # <<>> /\ [states EXCEPT ![i] = s] # <<>>
  BY <1>1
<1>3. [states EXCEPT ![i] = s][Len(states)] = IF i = Len(states) THEN s ELSE states[Len(states)]
  BY <1>1
<1> QED
  BY <1>1, <1>2, <1>3 DEF Kept

LEMMA PageReadDown ==
    ASSUME Shape, NEW type, BrowserReads(type)
    PROVE  /\ mail["recipient"] # <<>> /\ Head(mail["recipient"]).type = type
           /\ Head(mail["recipient"]) \in Letter
           /\ [mail EXCEPT !["recipient"] = Tail(@)] \in Posts
           /\ MailDown([mail EXCEPT !["recipient"] = Tail(@)], mail)
<1>1. mail["recipient"] # <<>> /\ Head(mail["recipient"]).type = type
  BY DEF BrowserReads, Read
<1>2. mail \in Posts /\ "recipient" \in Boxes
  BY SameParts DEF Boxes
<1>3. Head(mail["recipient"]) \in Letter
  BY PageReadFacts
<1> QED
  BY <1>1, <1>2, <1>3, ReadDown

LEMMA QuietPage ==
    ASSUME Shape, Shape', Ledger, UNCHANGED senderVars, UNCHANGED agentVars,
           connectReceiver \/ BrowserOffer \/ BrowserLogs
             \/ (\E handler \in Handlers : prepareBrowserReceive(handler))
    PROVE  Ledger'
<1>1. ASSUME plan' = plan, peers' = peers, MailDown(mail', mail), Fewer(Kept(states'), Kept(states))
      PROVE  Ledger'
  BY <1>1, SameParts, PageSettles
<1>2. Plain(<<Message("accepted", 0)>>)
  BY PlainOne DEF Types
<1>3. CASE connectReceiver
  <2>1. plan' = plan /\ peers' = peers /\ mail' = mail /\ states' = states
    BY <1>3 DEF connectReceiver
  <2> QED
    BY <1>1, <2>1, SameParts
<1>4. CASE BrowserOffer
  <2> DEFINE m1 == [mail EXCEPT !["recipient"] = Tail(@)]
  <2>1. /\ plan' = plan /\ peers' = peers /\ states' = states /\ BrowserReads("offer")
        /\ mail' \in {m1, ToSender(m1, <<Message("accepted", 0)>>)}
    BY <1>4 DEF BrowserOffer, Answer
  <2>2. m1 \in Posts /\ MailDown(m1, mail)
    BY <2>1, PageReadDown
  <2> HIDE DEF m1
  <2>3. /\ ToSender(m1, <<Message("accepted", 0)>>) \in Posts
        /\ MailDown(ToSender(m1, <<Message("accepted", 0)>>), m1)
    BY <1>2, <2>2, ToSenderDown
  <2>4. MailDown(ToSender(m1, <<Message("accepted", 0)>>), mail)
    BY <2>2, <2>3, SameParts, MailDownTrans
  <2>5. MailDown(mail', mail)
    BY <2>1, <2>2, <2>4
  <2> QED
    BY <1>1, <2>1, <2>5, SameParts
<1>5. CASE BrowserLogs
  <2>1. /\ plan' = plan /\ peers' = peers /\ states' = states
        /\ mail' = [mail EXCEPT !["recipient"] = Tail(@)]
    BY <1>5 DEF BrowserLogs, browserVars
  <2>2. PICK type \in {"started", "retryable", "failed"} : BrowserReads(type)
    BY <1>5 DEF BrowserLogs
  <2>3. MailDown(mail', mail)
    BY <2>1, <2>2, PageReadDown
  <2> QED
    BY <1>1, <2>1, <2>3, SameParts
<1>6. ASSUME NEW handler \in Handlers, prepareBrowserReceive(handler)
      PROVE  Ledger'
  <2>1. /\ plan' = plan /\ peers' = peers /\ states' = Append(states, FreshState)
        /\ mail' = ToSender(mail, <<Message("accepted", 0)>>)
    BY <1>6 DEF prepareBrowserReceive
  <2>2. MailDown(mail', mail)
    BY <1>2, <2>1, SameParts, ToSenderDown
  <2>3. /\ states' # <<>> /\ Len(states') = Len(states) + 1
        /\ states'[Len(states) + 1] = FreshState
    BY <2>1, PageFacts, FreshShape
  <2>4. Kept(states') = <<>>
    BY <2>3 DEF Kept, FreshState
  <2>5. Fewer(Kept(states'), Kept(states))
    BY <2>4, SameParts, FewerSame
  <2> QED
    BY <1>1, <2>1, <2>2, <2>5
<1> QED
  BY <1>3, <1>4, <1>5, <1>6

\* The steps of a data channel, and the answer.
LEMMA ChannelOfPage ==
    ASSUME Shape, Shape', Ledger, UNCHANGED senderVars, UNCHANGED agentVars, NEW a \in Attempts,
           BrowserAnswer(a) \/ acceptBrowserChunk(a) \/ completeBrowserReceive(a) \/ BrowserRefuses(a)
    PROVE  Ledger'
<1>1. ASSUME NEW out, Plain(out), mail' = ToSender(mail, out), plan' = plan, peers' = peers,
             Kept(states') = Kept(states)
      PROVE  Ledger'
  <2>1. MailDown(mail', mail)
    BY <1>1, SameParts, ToSenderDown
  <2> QED
    BY <1>1, <2>1, SameParts, PageSettles
<1>2. Plain(<<Message("completed", 0)>>) /\ Plain(<<Message("failed", 0)>>)
  BY PlainOne DEF Types
<1>3. CASE BrowserAnswer(a)
  <2>1. /\ peers["recipient"][a].state = "answering"
        /\ peers' = [peers EXCEPT !["recipient"][a].state = "stable"]
        /\ mail' = ToSender(mail, <<Message("answer", a)>>)
        /\ states' = states /\ plan' = plan
    BY <1>3 DEF BrowserAnswer, browserVars
  <2>2. PeersDown(peers', peers) /\ MailDown(mail', mail)
    BY <2>1, AnswerSent
  <2> QED
    BY <2>1, <2>2, SameParts, PageSettles
<1>4. CASE completeBrowserReceive(a)
  <2>1. /\ mail' = ToSender(mail, <<Message("completed", 0)>>) /\ plan' = plan /\ peers' = peers
        /\ states' = states
    BY <1>4 DEF completeBrowserReceive
  <2> QED
    BY <1>1, <1>2, <2>1
<1>5. CASE BrowserRefuses(a)
  <2>1. /\ mail' = ToSender(mail, <<Message("failed", 0)>>) /\ plan' = plan /\ peers' = peers
        /\ states' = states
    BY <1>5 DEF BrowserRefuses, browserVars
  <2> QED
    BY <1>1, <1>2, <2>1
<1>6. CASE acceptBrowserChunk(a)
  <2> DEFINE frame == Head(net[a].frames)
             i     == feeds[a]
             state == states[i]
             size  == Len(state.chunks) + Len(frame.data)
             next  == [state EXCEPT !.chunks = state.chunks \o frame.data, !.next = state.next + 1]
  <2>1. /\ Queued(a) /\ frame.type = "chunk" /\ plan' = plan /\ peers' = peers
        /\ states' = [states EXCEPT ![i].chunks = @ \o frame.data, ![i].next = @ + 1]
        /\ mail' = ToSender(mail, <<Message("progress", size)>>)
    BY <1>6 DEF acceptBrowserChunk
  <2>2. frame \in Genuine /\ i \in 1 .. Len(states) /\ state \in State
    BY <2>1, QueuedFacts
  <2>3. frame.data \in Seq(Nat)
    BY <2>1, <2>2, PageFacts, FrameFacts
  <2> HIDE DEF frame
  <2>4. size \in Nat
    <3>1. state.chunks \in Seq(Nat)
      BY <2>2 DEF State
    <3> HIDE DEF state
    <3>2. Len(state.chunks) \in Nat /\ Len(frame.data) \in Nat
      BY <2>3, <3>1
    <3>3. \A m, n \in Nat : m + n \in Nat
      OBVIOUS
    <3> QED
      BY <3>2, <3>3, Zenon
  <2>5. Plain(<<Message("progress", size)>>)
    <3> HIDE DEF size
    <3> QED
      BY <2>4, PlainOne DEF Types
  <2>6. states' = [states EXCEPT ![i] = next]
    BY <2>1, <2>2, PageFacts DEF State
  <2>7. next.pending = state.pending
    BY <2>2 DEF State
  <2>8. Kept(states') = Kept(states)
    <3>1. /\ Len(states) \in Nat /\ states' # <<>> /\ Len(states') = Len(states) /\ states # <<>>
      BY <2>2, <2>6, PageFacts
    <3>2. states'[Len(states)] = IF i = Len(states) THEN next ELSE states[Len(states)]
      BY <2>2, <2>6, <3>1, PageFacts
    <3> HIDE DEF next
    <3>3. states'[Len(states)].pending = states[Len(states)].pending
      BY <2>7, <3>2
    <3> QED
      BY <3>1, <3>3 DEF Kept
  <2> HIDE DEF size
  <2> QED
    BY <1>1, <2>1, <2>5, <2>8
<1> QED
  BY <1>3, <1>4, <1>5, <1>6

\* The offer makes the page's new peer, and closes the one before.
LEMMA OfferToPage ==
    ASSUME Shape, Shape', Ledger, UNCHANGED senderVars, UNCHANGED agentVars, acceptWebRTCOffer
    PROVE  Ledger'
<1> DEFINE a    == Head(mail.recipient).n
           now  == states[Current]
           q    == [NoPeer EXCEPT !.state = "answering", !.left = plan.gather,
                                  !.added = CountOf(a, now.pending)]
           p    == CloseAt(peers, "recipient", now.peer)
           next == [now EXCEPT !.peer = a, !.pending = <<>>]
           m1   == [mail EXCEPT !["recipient"] = Tail(@)]
<1>1. /\ BrowserReads("webrtc_offer") /\ plan' = plan
      /\ peers' = [p EXCEPT !["recipient"][a] = q]
      /\ states' = [states EXCEPT ![Current].peer = a, ![Current].pending = <<>>]
      /\ mail' = m1
  BY DEF acceptWebRTCOffer
<1>2. plan.kind = "browser"
  BY <1>1, PageReadFacts
<1>3. /\ mail["recipient"] # <<>> /\ Head(mail["recipient"]).type = "webrtc_offer"
      /\ Head(mail["recipient"]) \in Letter /\ m1 \in Posts
  BY <1>1, PageReadDown
<1>4. a \in Attempts /\ a = Head(mail["recipient"]).n /\ Met
  BY <1>3 DEF Letter
<1>5. Current \in 1 .. Len(states) /\ Len(states) \in Nat /\ states # <<>>
  BY <1>2, <1>4, PageFacts DEF Met, Current
<1>6. now \in State
  BY <1>5, PageFacts
<1>7. Kept(states) = now.pending
  BY <1>5 DEF Kept, Current
<1>8. OfferTaken(m1, mail, a)
  <2>1. mail \in Posts
    BY SameParts
  <2> QED
    BY <1>3, <1>4, <2>1, OfferRead DEF OfferTaken
<1> HIDE DEF m1
<1>9. next \in State /\ next.pending = <<>>
  <2>1. a \in 0 .. MaxAttempts /\ <<>> \in Seq(Attempts)
    BY <1>4, Bounds DEF Attempts
  <2> HIDE DEF now, a
  <2> QED
    BY <1>6, <2>1 DEF State
<1>10. states' = [states EXCEPT ![Current] = next]
  <2> HIDE DEF a
  <2> QED
    BY <1>1, <1>5, <1>6, PageFacts DEF State
<1> HIDE DEF next
<1>11. Kept(states') = <<>>
  <2>1. Kept([states EXCEPT ![Current] = next]) = next.pending
    BY <1>5, <1>9, KeptSet DEF Current
  <2> QED
    BY <1>9, <1>10, <2>1
<1>12. plan.gather \in Nat /\ CountOf(a, now.pending) \in Nat /\ <<>> \in Waiting /\ 0 \in 0 .. MaxRuns
  <2>1. CountOf(a, now.pending) \in Nat
    BY <1>6, CountNat DEF State
  <2>2. plan.gather \in Nat
    BY PlanFacts, SenderFacts
  <2>3. <<>> \in Waiting /\ 0 \in 0 .. MaxRuns
    BY Bounds DEF Waiting
  <2> QED
    BY <2>1, <2>2, <2>3
<1> HIDE DEF now, a
<1>13. /\ q \in Peer /\ q.state = "answering" /\ q.left = plan.gather /\ q.held = <<>>
       /\ q.added = CountOf(a, now.pending)
  <2> DEFINE n == CountOf(a, now.pending)
  <2>1. n \in Nat
    BY <1>12
  <2> HIDE DEF n
  <2>2. /\ q \in Peer /\ q.state = "answering" /\ q.left = plan.gather /\ q.held = <<>>
        /\ q.added = n
    BY <1>12, <2>1 DEF NoPeer, Peer, n
  <2> QED
    BY <2>2 DEF n
<1> HIDE DEF q
<1>14. now.peer \in 0 .. MaxAttempts /\ peers \in Peers /\ "recipient" \in Sides
  BY <1>6, PageFacts DEF State, Sides
<1>15. p \in Peers /\ PeersDown(p, peers)
  BY <1>14, ClosedRSession, CloseDown
<1> HIDE DEF p
<1>16. Typed(peers, session.pending, rsession.pending, Kept(states), mail)
  BY TypedNow
<1>17. Typed(p, session.pending, rsession.pending, Kept(states), mail)
  BY <1>15, <1>16 DEF Typed
<1>18. Books(plan.gather, peers, session.pending, rsession.pending, Kept(states), mail)
  BY DEF Ledger
<1>19. Books(plan.gather, p, session.pending, rsession.pending, Kept(states), mail)
  BY <1>12, <1>15, <1>16, <1>17, <1>18, SameParts, Descent
<1> DEFINE p2 == [p EXCEPT !["recipient"][a] = q]
<1>20. /\ p2 \in Peers
       /\ \A si \in Sides, b \in Attempts :
             p2[si][b] = IF si = "recipient" /\ b = a THEN q ELSE p[si][b]
  BY <1>4, <1>13, <1>14, <1>15, SetPeer
<1>21. peers' = p2
  BY <1>1
<1> HIDE DEF p2
<1>22. Joined(p2, p, a, q)
  BY <1>20 DEF Joined, Sides
<1>23. /\ rsession.pending \in Seq(Attempts) /\ <<>> \in Seq(Attempts)
       /\ Fewer(rsession.pending, rsession.pending) /\ Fewer(<<>>, Kept(states))
  BY SameParts, FewerSame
<1>24. Got(q, a) + CountOf(a, rsession.pending) + CountOf(a, <<>>)
         <= CountOf(a, rsession.pending) + CountOf(a, Kept(states))
  <2> DEFINE n == CountOf(a, now.pending)
             k == CountOf(a, rsession.pending)
  <2>1. CountOf(a, <<>>) = 0
    BY CountEmpty
  <2>2. n \in Nat /\ k \in Nat
    BY <1>12, <1>23, CountNat
  <2>3. q.added = n /\ q.held = <<>> /\ CountOf(a, Kept(states)) = n
    BY <1>7, <1>13
  <2> HIDE DEF n, k
  <2>4. Got(q, a) = n
    BY <2>1, <2>2, <2>3 DEF Got
  <2>5. n + k + 0 <= k + n
    BY <2>2
  <2> QED
    BY <2>1, <2>3, <2>4, <2>5 DEF k
<1>25. Books(plan.gather, p2, session.pending, rsession.pending, <<>>, m1)
  BY <1>3, <1>4, <1>8, <1>12, <1>13, <1>17, <1>19, <1>20, <1>22, <1>23, <1>24, NewRecipient
<1>26. session' = session /\ rsession' = rsession
  BY DEF senderVars, agentVars
<1> QED
  BY <1>1, <1>11, <1>21, <1>25, <1>26 DEF Ledger

\* A candidate for the page.
LEMMA CandidateToPage ==
    ASSUME Shape, Shape', Ledger, UNCHANGED senderVars, UNCHANGED agentVars, BrowserICE
    PROVE  Ledger'
<1> DEFINE c   == Head(mail.recipient).n
           now == states[Current]
           m1  == [mail EXCEPT !["recipient"] = Tail(@)]
<1>1. BrowserReads("ice") /\ mail' = m1 /\ plan' = plan
  BY DEF BrowserICE
<1>2. /\ mail["recipient"] # <<>> /\ Head(mail["recipient"]).type = "ice"
      /\ Head(mail["recipient"]) \in Letter /\ m1 \in Posts /\ MailDown(m1, mail)
  BY <1>1, PageReadDown
<1>3. c \in Attempts /\ c = Head(mail["recipient"]).n
  BY <1>2 DEF Letter
<1>4. session' = session /\ rsession' = rsession
  BY DEF senderVars, agentVars
<1>5. plan.gather \in Nat
  BY PlanFacts, SenderFacts
<1>6. Typed(peers, session.pending, rsession.pending, Kept(states), mail)
  BY TypedNow
<1>7. Books(plan.gather, peers, session.pending, rsession.pending, Kept(states), mail)
  BY DEF Ledger
<1>8. /\ peers \in Peers /\ rsession.pending \in Seq(Attempts) /\ Kept(states) \in Seq(Attempts)
  BY SameParts
<1>t. ASSUME NEW p2 \in Peers, NEW z2 \in Seq(Attempts),
             OneMoreAtRecipient(p2, rsession.pending, z2, peers, rsession.pending, Kept(states), c)
      PROVE  Books(plan.gather, p2, session.pending, rsession.pending, z2, m1)
  BY <1>2, <1>3, <1>5, <1>6, <1>7, <1>8, <1>t, RecipientTakes
<1> HIDE DEF m1
<1>9. CASE Current = 0
  <2>1. peers' = peers /\ states' = states
    BY <1>9 DEF BrowserICE
  <2> QED
    BY <1>1, <1>2, <2>1, SameParts, PageSettles
<1>10. CASE Current > 0 /\ now.peer # 0
  <2>0. Current # 0
    BY <1>10, PageFacts DEF Current
  <2>1. /\ peers' = [peers EXCEPT !["recipient"][now.peer] = AddICECandidate(@, now.peer, c)]
        /\ states' = states
    BY <1>10, <2>0, Zenon DEF BrowserICE
  <2>2. now \in State
    BY <1>10, PageFacts DEF Current
  <2> DEFINE b == now.peer
             q == AddICECandidate(peers["recipient"][b], b, c)
             p == [peers EXCEPT !["recipient"][b] = q]
  <2>3. b \in Attempts /\ "recipient" \in Sides
    BY <1>10, <2>2, Bounds DEF State, Attempts, Sides
  <2>4. q \in Peer /\ q = AddICECandidate(peers["recipient"][b], b, c)
    BY <1>3, <2>3, PageFacts, AddShape
  <2>5. peers' = p
    BY <1>8, <2>1, <2>3 DEF Peers
  <2> HIDE DEF q, b
  <2>6. /\ p \in Peers
        /\ \A si \in Sides, d \in Attempts :
              p[si][d] = IF si = "recipient" /\ d = b THEN q ELSE peers[si][d]
    BY <1>8, <2>3, <2>4, SetPeer
  <2> HIDE DEF p
  <2>7. Joined(p, peers, b, q)
    BY <2>3, <2>6 DEF Joined, Sides
  <2> HIDE DEF c
  <2>8. OneMoreAtRecipient(p, rsession.pending, Kept(states), peers, rsession.pending, Kept(states), c)
    BY <1>3, <1>8, <2>3, <2>4, <2>6, <2>7, RecipientPeerTakes
  <2>9. Books(plan.gather, p, session.pending, rsession.pending, Kept(states), m1)
    BY <1>t, <1>8, <2>6, <2>8
  <2> QED
    BY <1>1, <1>4, <2>1, <2>5, <2>9 DEF Ledger
<1>11. CASE Current > 0 /\ now.peer = 0
  <2>1. states' = [states EXCEPT ![Current].pending = Append(@, c)] /\ peers' = peers
    BY <1>11 DEF BrowserICE
  <2>2. now \in State /\ Current \in 1 .. Len(states) /\ Len(states) \in Nat /\ states # <<>>
    BY <1>11, PageFacts DEF Current
  <2>3. Kept(states) = now.pending
    BY <2>2 DEF Kept, Current
  <2> DEFINE next == [now EXCEPT !.pending = Append(now.pending, c)]
             z2   == Append(Kept(states), c)
  <2>4. z2 \in Seq(Attempts)
    BY <1>3, <1>8
  <2>5. next \in State /\ next.pending = z2
    BY <2>2, <2>3, <2>4 DEF State
  <2>6. states' = [states EXCEPT ![Current] = next]
    BY <2>1, <2>2, PageFacts DEF State
  <2> HIDE DEF next
  <2>7. Kept(states') = z2
    <3>1. Kept([states EXCEPT ![Current] = next]) = next.pending
      BY <2>2, <2>5, KeptSet DEF Current
    <3> QED
      BY <2>5, <2>6, <3>1
  <2>8. ASSUME NEW b \in Attempts
        PROVE  /\ Got(peers["recipient"][b], b) + CountOf(b, rsession.pending) + CountOf(b, z2)
                    <= Got(peers["recipient"][b], b) + CountOf(b, rsession.pending)
                         + CountOf(b, Kept(states)) + Own(c, b)
               /\ Milder(peers["recipient"][b], peers["recipient"][b])
    <3> DEFINE u == Got(peers["recipient"][b], b)
               v == CountOf(b, rsession.pending)
               w == CountOf(b, Kept(states))
               i == Own(c, b)
    <3>1. u \in Nat /\ v \in Nat /\ w \in Nat /\ peers["recipient"][b].left \in Nat
      BY <1>6, Parts
    <3>2. CountOf(b, z2) = w + IF b = c THEN 1 ELSE 0
      BY <1>3, <1>8, CountAppend
    <3>3. i \in Nat /\ i = IF b = c THEN 1 ELSE 0
      BY DEF Own
    <3>4. Milder(peers["recipient"][b], peers["recipient"][b])
      BY <3>1 DEF Milder
    <3> HIDE DEF u, v, w, i, z2
    <3>5. CountOf(b, z2) = w + i
      BY <3>2, <3>3
    <3>6. u + v + (w + i) <= u + v + w + i
      BY <3>1, <3>3
    <3> QED
      BY <3>4, <3>5, <3>6 DEF u, v, w, i
  <2> HIDE DEF z2, c
  <2>9. OneMoreAtRecipient(peers, rsession.pending, z2, peers, rsession.pending, Kept(states), c)
    BY <2>8 DEF OneMoreAtRecipient
  <2>10. Books(plan.gather, peers, session.pending, rsession.pending, z2, m1)
    BY <1>t, <1>8, <2>4, <2>9
  <2> QED
    BY <1>1, <1>4, <2>1, <2>7, <2>10 DEF Ledger
<1>12. Current = 0 \/ Current > 0
  BY PageFacts DEF Current
<1> QED
  BY <1>9, <1>10, <1>11, <1>12

LEMMA PageLedger ==
    ASSUME Shape, Shape', Ledger, UNCHANGED senderVars, UNCHANGED agentVars, BrowserNext
    PROVE  Ledger'
  BY QuietPage, OfferToPage, CandidateToPage, ChannelOfPage DEF BrowserNext

-----------------------------------------------------------------------------
(* Every behaviour.                                                        *)

LEMMA LedgerInit ==
    ASSUME Init
    PROVE  Ledger
<1>1. /\ peers = [side \in Sides |-> [a \in Attempts |-> NoPeer]]
      /\ mail = [run |-> <<>>, loop |-> <<>>, recipient |-> <<>>]
      /\ session = NoSession /\ rsession = NoRSession /\ states = <<>>
  BY DEF Init, WireInit, SenderInit, AgentInit, BrowserInit
<1>2. /\ session.pending = <<>> /\ rsession.pending = <<>> /\ Kept(states) = <<>>
      /\ mail["run"] = <<>> /\ mail["loop"] = <<>> /\ mail["recipient"] = <<>>
  BY <1>1 DEF NoSession, NoRSession, Kept
<1>3. \A a \in Attempts : peers["sender"][a] = NoPeer /\ peers["recipient"][a] = NoPeer
  BY <1>1 DEF Sides
<1>4. NoPeer.state = "none" /\ NoPeer.left = 0 /\ NoPeer.added = 0 /\ NoPeer.held = <<>>
  BY DEF NoPeer
<1>5. \A x : CountOf(x, <<>>) = 0
  BY CountEmpty
<1>6. ASSUME NEW a \in Attempts
      PROVE  /\ SGot(peers, session.pending, mail, a) = 0
             /\ RGot(peers, rsession.pending, Kept(states), mail, a) = 0
             /\ Offers(mail, a) = 0
  <2>1. Got(peers["sender"][a], a) = 0 /\ Got(peers["recipient"][a], a) = 0
    BY <1>3, <1>4, <1>5 DEF Got
  <2>2. /\ CountOf(a, session.pending) = 0 /\ CountOf(a, rsession.pending) = 0
        /\ CountOf(a, Kept(states)) = 0
        /\ Ice(mail, "run", a) = 0 /\ Ice(mail, "loop", a) = 0 /\ Ice(mail, "recipient", a) = 0
        /\ Offers(mail, a) = 0
    BY <1>2, <1>5 DEF Ice, Offers
  <2> QED
    BY <2>1, <2>2 DEF SGot, RGot
<1>7. plan.gather \in Nat
  BY PlanFacts DEF Init, WireInit
<1>8. Budget(plan.gather, peers, session.pending, rsession.pending, Kept(states), mail)
  BY <1>3, <1>4, <1>6, <1>7 DEF Budget
<1>9. Once(peers, mail)
  BY <1>3, <1>4, <1>6 DEF Once
<1>10. InOrder(peers)
  BY <1>3, <1>4 DEF InOrder
<1> QED
  BY <1>8, <1>9, <1>10 DEF Ledger, Books

LEMMA LedgerStep ==
    ASSUME Shape, Ledger, [Next]_vars
    PROVE  Ledger'
<1>1. Shape'
  BY ShapeStep
<1>2. CASE UNCHANGED vars
  BY <1>2 DEF vars, wire, senderVars, agentVars, browserVars, Ledger
<1>3. CASE WireNext /\ UNCHANGED <<senderVars, agentVars, browserVars>>
  BY <1>1, <1>3, WireLedger
<1>4. CASE (SenderNext \/ Resume) /\ UNCHANGED <<agentVars, browserVars>>
  BY <1>1, <1>4, SenderLedger DEF Resume
<1>5. CASE AgentNext /\ UNCHANGED <<senderVars, browserVars>>
  BY <1>1, <1>5, AgentLedger
<1>6. CASE BrowserNext /\ UNCHANGED <<senderVars, agentVars>>
  BY <1>1, <1>6, PageLedger
<1> QED
  BY <1>2, <1>3, <1>4, <1>5, <1>6 DEF Next

\* In every behaviour the books are right: of the candidates a peer gathers none is ever at two
\* places, whichever of the offer, the answer and the candidates overtakes the others; the offer
\* of an attempt is sent once, and makes one peer at the recipient; and the sender's attempts
\* follow one another (OnICECandidate, handleWebRTCICE, flushLiveSessionICE, flushPendingICE,
\* sendWebRTCOffer).
THEOREM LedgerIsKept == Spec => []Ledger
<1>1. Init => Shape /\ Ledger
  BY ShapeInit, LedgerInit
<1>2. Shape /\ Ledger /\ [Next]_vars => (Shape /\ Ledger)'
  <2> SUFFICES ASSUME Shape, Ledger, [Next]_vars
               PROVE  Shape' /\ Ledger'
    OBVIOUS
  <2> QED
    BY ShapeStep, LedgerStep
<1> QED
  BY <1>1, <1>2, PTL DEF Spec

\* Jobs, sessions, goroutines and files keep the shape the code gives them; no queue of
\* candidates outgrows its limit, at either end; and no peer is ever given more candidates than
\* the other has gathered.
THEOREM TypeCorrect == Spec => []TypeOK
<1>1. Shape /\ Ledger => TypeOK
  <2> SUFFICES ASSUME Shape, Ledger
               PROVE  TypeOK
    OBVIOUS
  <2>1. /\ plan \in Plans /\ online \in BOOLEAN /\ late \subseteq Lateness /\ touched \in BOOLEAN
        /\ run \in [no : 0 .. MaxRuns, on : BOOLEAN, reads : BOOLEAN] /\ cuts \in 0 .. plan.cuts
        /\ imports \subseteq Handlers
    BY DEF Shape, WireShape, SenderShape, BrowserShape
  <2>2. {sjob.status, rjob.status} \subseteq Statuses
    BY SenderFacts, AgentFacts
  <2>3. {sjob.progress, rjob.progress, Len(part), Len(file)} \subseteq 0 .. plan.size + 1
    <3>0. /\ \A n \in Nat, k \in Nat : k = 1 \/ k <= n => k <= n + 1
          /\ \A n \in Nat : \A k : k = 1 \/ k = n => k \in 0 .. n + 1
          /\ \A n \in Nat : \A k \in 0 .. n : k \in 0 .. n + 1
          /\ \A n \in Nat, k \in Nat : k <= n + 1 => k \in 0 .. n + 1
      OBVIOUS
    <3>1. plan.size \in Nat /\ sjob.progress \in 0 .. plan.size /\ rjob.progress \in 0 .. plan.size
      BY SenderFacts, AgentFacts DEF Job
    <3>2. Len(NoFile) = 1 /\ Len(Source(plan.size)) = plan.size
      BY <3>1 DEF NoFile, Source
    <3>3. Len(part) \in Nat /\ Len(part) <= plan.size + 1
      <4>1. Len(part) \in Nat /\ (part = NoFile \/ Len(part) <= plan.size)
        BY PartFacts
      <4>2. Len(part) = 1 \/ Len(part) <= plan.size
        BY <3>2, <4>1, Zenon
      <4> QED
        BY <3>0, <3>1, <4>1, <4>2, Zenon
    <3>4. Len(file) \in 0 .. plan.size + 1
      <4>1. file \in {NoFile, Source(plan.size)}
        BY AgentFacts
      <4>2. Len(file) = 1 \/ Len(file) = plan.size
        BY <3>2, <4>1, Zenon
      <4> QED
        BY <3>0, <3>1, <4>2, Zenon
    <3> QED
      BY <3>0, <3>1, <3>3, <3>4, Zenon
  <2>4. /\ session.att \in 0 .. MaxAttempts /\ session.owner \in 0 .. MaxRuns
        /\ Len(session.pending) <= MaxPending
    BY SenderFacts DEF Session, Waiting
  <2>5. rsession.att \in 0 .. MaxAttempts /\ Len(rsession.pending) <= MaxPending
    BY AgentFacts DEF RSession, Waiting
  <2>6. ASSUME NEW a \in Attempts
        PROVE  /\ stream[a].pc \in {"none", "waiting", "streaming", "done", "failed"}
               /\ recv[a].pc \in {"none", "answering", "waiting", "receiving", "done"}
               /\ \A side \in Sides :
                     /\ Len(peers[side][a].held) <= MaxPending
                     /\ {peers[side][a].added, peers[side][a].left} \subseteq 0 .. plan.gather
               /\ feeds[a] \in 0 .. Len(states)
    <3>1. stream[a].pc \in {"none", "waiting", "streaming", "done", "failed"}
      BY SenderFacts DEF Stream
    <3>2. recv[a].pc \in {"none", "answering", "waiting", "receiving", "done"}
      BY AgentFacts DEF Received, Receiver
    <3>3. feeds[a] \in 0 .. Len(states)
      BY PageFacts
    <3>4. \A side \in Sides : peers[side][a] \in Peer
      BY SenderFacts DEF Peers
    <3>5. \A side \in Sides : Len(peers[side][a].held) <= MaxPending
      BY <3>4 DEF Peer, Waiting
    <3>6. ASSUME NEW side \in Sides
          PROVE  peers[side][a].added \in 0 .. plan.gather /\ peers[side][a].left \in 0 .. plan.gather
      <4>1. Typed(peers, session.pending, rsession.pending, Kept(states), mail)
        BY TypedNow
      <4>2. /\ peers["recipient"][a].left + SGot(peers, session.pending, mail, a) <= plan.gather
            /\ peers["sender"][a].left + RGot(peers, rsession.pending, Kept(states), mail, a) <= plan.gather
        BY DEF Ledger, Books, Budget
      <4> DEFINE sl == peers["sender"][a].left
                 rl == peers["recipient"][a].left
                 sa == peers["sender"][a].added
                 ra == peers["recipient"][a].added
                 sh == CountOf(a, peers["sender"][a].held)
                 rh == CountOf(a, peers["recipient"][a].held)
                 x  == CountOf(a, session.pending)
                 y  == CountOf(a, rsession.pending)
                 z  == CountOf(a, Kept(states))
                 c  == Ice(mail, "run", a)
                 d  == Ice(mail, "loop", a)
                 e  == Ice(mail, "recipient", a)
      <4>3. rl + ((sa + sh) + x + c + d) <= plan.gather /\ sl + ((ra + rh) + y + z + e) <= plan.gather
        BY <4>2 DEF SGot, RGot, Got
      <4>4. /\ x \in Nat /\ y \in Nat /\ z \in Nat /\ c \in Nat /\ d \in Nat /\ e \in Nat
        BY <4>1, Parts
      <4>5. sl \in Nat /\ rl \in Nat /\ sa \in Nat /\ ra \in Nat /\ sh \in Nat /\ rh \in Nat
        BY <3>4, PeerNat DEF Sides
      <4>6. plan.gather \in Nat
        BY PlanFacts, SenderFacts
      <4> HIDE DEF sl, rl, sa, ra, sh, rh, x, y, z, c, d, e
      <4>7. {sl, rl, sa, ra} \subseteq 0 .. plan.gather
        BY <4>3, <4>4, <4>5, <4>6
      <4> QED
        BY <4>7 DEF sl, rl, sa, ra, Sides
    <3> QED
      BY <3>1, <3>2, <3>3, <3>5, <3>6
  <2> QED
    BY <2>1, <2>2, <2>3, <2>4, <2>5, <2>6 DEF TypeOK
<1> QED
  BY <1>1, Shapes, LedgerIsKept, PTL
=============================================================================
