-------------------------- MODULE JobRuntimeProofs --------------------------
(***************************************************************************)
(* Proofs about JobRuntime, for any number of runs, sessions, cancel       *)
(* requests and messages.                                                  *)
(*                                                                         *)
(* The properties are about the job, but what keeps them true is what each *)
(* goroutine still has to do.  The inductive invariant therefore says of   *)
(* every goroutine which calls may be on its list in which state of the    *)
(* job (Sound), and of the job itself how it comes into being (Young).     *)
(***************************************************************************)
EXTENDS JobRuntime, Functions, TLAPS

Unborn == {"none", "queued"}

\* The file was reported by the peer, or committed here.
Reported == IF job.direction = "send" THEN told = FileSize ELSE wrote

\* How the job comes into being.
Young ==
    /\ job.status = "none" => ~job.bound /\ job.progress = 0 /\ procs[FirstRun].pc = "absent"
    /\ job.status = "queued" => job.direction = "send"
    /\ job.direction = "receive" /\ ~job.bound => job.status = "none"
    /\ job.direction = "send" /\ procs[FirstRun].pc = "absent" => job.status = "none"
    /\ job.direction = "send" => job.progress <= told
    /\ job.status = "completed" => Reported

\* The calls that bind a queued job to its transfer, as far as they have not been made.
Bindings == {<<"Fail", "refuse">>, <<"AttachTransfer", "Fail", "refuse">>,
             <<"MarkOffered">>, <<"AttachTransfer", "MarkOffered">>,
             <<"AttachTransferKey", "MarkOffered">>,
             <<"AttachTransfer", "AttachTransferKey", "MarkOffered">>,
             <<"AttachPublicLink", "MarkOffered">>,
             <<"AttachTransferKey", "AttachPublicLink", "MarkOffered">>,
             <<"AttachTransfer", "AttachTransferKey", "AttachPublicLink", "MarkOffered">>}

\* Where a goroutine may be while the job is not offered or accepted yet.
Placed(p) ==
    LET k == procs[p]
    IN  /\ k.pc \in {"absent", "creating", "reading", "signaling"} => k.todo = <<>>
        /\ k.pc \in {"creating", "binding"} => p = FirstRun /\ k.real
        /\ k.pc = "binding" /\ job.status = "queued" => k.todo \in Bindings
        /\ p \in Runs /\ job.direction = "receive" => k.pc = "absent"
        /\ job.status \in Unborn /\ p \notin Cancels =>
              k.pc \in {"absent", "creating", "binding"} \/ (p = Loop /\ k.pc = "reading")

\* Whoever interrupts the job makes it retryable next.
Paired(todo) ==
    \A i \in DOMAIN todo :
        todo[i] = "Interrupt" => i + 1 \in DOMAIN todo /\ todo[i + 1] = "MarkRetryable"

\* Whoever completes the job knows that the file has arrived.
Entitled(p) ==
    LET k == procs[p]
    IN  /\ job.direction = "send" => k.n <= told
        /\ "Complete" \in Range(k.todo) => Reported
        /\ job.direction = "receive"
              /\ Range(k.todo) \cap {"completeTransferring", "completeTransferJob"} # {} => wrote

\* Who calls what: in particular a goroutine without a real complaint that is about to fail the
\* job comes too late.
Worded(p) ==
    LET k == procs[p]
    IN  /\ "MarkOffered" \in Range(k.todo) => k.pc = "binding"
        /\ "handleRunTransferError" \in Range(k.todo) => p \in Runs /\ k.pc = "erring"
        /\ "MarkAcceptedOnce" \in Range(k.todo) => k.todo = <<"MarkAcceptedOnce">>
        /\ "failTransferJob" \in Range(k.todo) => p = Loop \/ k.real
        /\ Range(k.todo) \cap Helpers # {} => job.status \notin Unborn
        /\ Range(k.todo) \cap {"Fail", "failJobIfMutable"} # {} /\ p # Loop /\ ~k.real =>
              job.status \in Terminal

\* The job has moved since run r began, or has ended.
Excused(r) == r \in touched \/ job.status \in Terminal

\* The call will be accepted, and the job is touched by it if anything follows.
Expected(call) ==
    \/ call = "refuse"
    \/ call = "MarkConnecting" /\ job.status \in {"accepted", "retryable"}
    \/ call # "MarkConnecting" /\ job.status \in DOMAIN Moves[call]

\* A run without a real complaint that has met an error, or will return one, is excused: until
\* then its next call is one that the job's state accepts.
Fair(r) ==
    LET k == procs[r]
    IN  r \in Runs /\ k.pc \in {"handling", "erring"} /\ ~k.real =>
          \/ Excused(r)
          \/ /\ k.pc = "handling" /\ ~k.err
             /\ k.then = "fail" => k.todo \in {<<"UpdateProgress", "retryTransferJob">>, <<"Cancel">>}
             /\ k.todo # <<>> =>
                   \/ Range(k.todo) \subseteq Helpers
                   \/ Head(k.todo) \in DOMAIN Moves /\ Expected(Head(k.todo))

Sound(p) == Placed(p) /\ Paired(procs[p].todo) /\ Entitled(p) /\ Worded(p) /\ Fair(p)

IInv == /\ TypeOK /\ Young /\ InterruptedIsBrief /\ RunsBlameFairly
        /\ \A p \in Procs : Sound(p)

-----------------------------------------------------------------------------
(* Lists of calls.                                                         *)

Words == DOMAIN Moves \cup Helpers

\* What Tail and concatenation do to the calls of a list and to their pairing.
LEMMA ListFacts ==
    ASSUME NEW s \in Seq(Words), NEW t \in Seq(Words)
    PROVE  /\ s \o t \in Seq(Words) /\ Range(s \o t) = Range(s) \cup Range(t)
           /\ Paired(s) /\ Paired(t) => Paired(s \o t)
           /\ s # <<>> => /\ Tail(s) \in Seq(Words) /\ Range(Tail(s)) \subseteq Range(s)
                          /\ Head(s) \in Range(s) /\ Head(s) \in Words
                          /\ Range(s) \subseteq {Head(s)} \cup Range(Tail(s))
                          /\ Paired(s) => Paired(Tail(s))
                          /\ Paired(s) /\ Head(s) = "Interrupt" =>
                                Tail(s) # <<>> /\ Head(Tail(s)) = "MarkRetryable"
           /\ "Interrupt" \notin Range(s) => Paired(s)
<1>1. s \o t \in Seq(Words) /\ Range(s \o t) = Range(s) \cup Range(t)
  <2>1. /\ s \o t \in Seq(Words) /\ Len(s \o t) = Len(s) + Len(t)
        /\ \A i \in 1..Len(s) : (s \o t)[i] = s[i]
        /\ \A i \in 1..Len(t) : (s \o t)[Len(s) + i] = t[i]
    OBVIOUS
  <2>2. ASSUME NEW i \in 1..Len(s) + Len(t)
        PROVE  (s \o t)[i] \in Range(s) \cup Range(t)
    <3>1. CASE i <= Len(s)
      BY <2>1, <3>1 DEF Range
    <3>2. CASE i > Len(s)
      <4>1. i - Len(s) \in 1..Len(t) /\ (s \o t)[i] = t[i - Len(s)]
        BY <2>1, <3>2
      <4> QED
        BY <4>1 DEF Range
    <3> QED
      BY <3>1, <3>2
  <2>3. ASSUME NEW i \in 1..Len(t) PROVE t[i] \in Range(s \o t)
    <3>1. Len(s) + i \in DOMAIN (s \o t)
      BY <2>1
    <3> QED
      BY <2>1, <3>1 DEF Range
  <2>4. ASSUME NEW i \in 1..Len(s) PROVE s[i] \in Range(s \o t)
    <3>1. i \in DOMAIN (s \o t)
      BY <2>1
    <3> QED
      BY <2>1, <3>1 DEF Range
  <2>5. Range(s \o t) \subseteq Range(s) \cup Range(t)
    <3>1. DOMAIN (s \o t) = 1..Len(s) + Len(t)
      BY <2>1
    <3> QED
      BY <2>2, <3>1 DEF Range
  <2>6. Range(s) \subseteq Range(s \o t)
    <3> SUFFICES ASSUME NEW i \in DOMAIN s PROVE s[i] \in Range(s \o t)
      BY DEF Range
    <3> QED
      BY <2>4
  <2>7. Range(t) \subseteq Range(s \o t)
    <3> SUFFICES ASSUME NEW i \in DOMAIN t PROVE t[i] \in Range(s \o t)
      BY DEF Range
    <3> QED
      BY <2>3
  <2> QED
    BY <2>1, <2>5, <2>6, <2>7
<1>2. ASSUME Paired(s), Paired(t) PROVE Paired(s \o t)
  <2> SUFFICES ASSUME NEW i \in 1..Len(s) + Len(t), (s \o t)[i] = "Interrupt"
               PROVE  i + 1 \in 1..Len(s) + Len(t) /\ (s \o t)[i + 1] = "MarkRetryable"
    BY DEF Paired
  <2>1. CASE i <= Len(s)
    BY <1>2, <2>1 DEF Paired
  <2>2. CASE i > Len(s)
    <3>1. i - Len(s) \in DOMAIN t /\ t[i - Len(s)] = "Interrupt"
      BY <2>2
    <3>2. i - Len(s) + 1 \in DOMAIN t /\ t[i - Len(s) + 1] = "MarkRetryable"
      BY <1>2, <3>1 DEF Paired
    <3> QED
      BY <2>2, <3>2
  <2> QED
    BY <2>1, <2>2
<1>3. ASSUME s # <<>>
      PROVE  /\ Tail(s) \in Seq(Words) /\ Head(s) \in Words /\ 1 \in DOMAIN s /\ Head(s) = s[1]
             /\ Len(Tail(s)) = Len(s) - 1 /\ Len(s) \in Nat \ {0}
             /\ \A i \in 1..Len(s) - 1 : Tail(s)[i] = s[i + 1]
  BY <1>3
<1>4. ASSUME s # <<>>
      PROVE  /\ Head(s) \in Range(s) /\ Range(Tail(s)) \subseteq Range(s)
             /\ Range(s) \subseteq {Head(s)} \cup Range(Tail(s))
  <2>1. Head(s) \in Range(s)
    BY <1>3, <1>4 DEF Range
  <2>2. \A i \in DOMAIN Tail(s) : i + 1 \in DOMAIN s /\ Tail(s)[i] = s[i + 1]
    BY <1>3, <1>4
  <2>3. \A i \in DOMAIN s : i # 1 => i - 1 \in DOMAIN Tail(s) /\ Tail(s)[i - 1] = s[i]
    BY <1>3, <1>4
  <2>4. Range(Tail(s)) \subseteq Range(s)
    <3> SUFFICES ASSUME NEW i \in DOMAIN Tail(s) PROVE Tail(s)[i] \in Range(s)
      BY DEF Range
    <3> QED
      BY <2>2 DEF Range
  <2>5. Range(s) \subseteq {Head(s)} \cup Range(Tail(s))
    <3> SUFFICES ASSUME NEW i \in DOMAIN s, i # 1 PROVE s[i] \in Range(Tail(s))
      BY <1>3, <1>4 DEF Range
    <3> QED
      BY <2>3 DEF Range
  <2> QED
    BY <2>1, <2>4, <2>5
<1>5. ASSUME s # <<>>, Paired(s)
      PROVE  /\ Paired(Tail(s))
             /\ Head(s) = "Interrupt" => Tail(s) # <<>> /\ Head(Tail(s)) = "MarkRetryable"
  <2>1. ASSUME NEW i \in DOMAIN Tail(s), Tail(s)[i] = "Interrupt"
        PROVE  i + 1 \in DOMAIN Tail(s) /\ Tail(s)[i + 1] = "MarkRetryable"
    <3>1. i + 1 \in DOMAIN s /\ s[i + 1] = "Interrupt"
      BY <1>3, <1>5, <2>1
    <3>2. (i + 1) + 1 \in DOMAIN s /\ s[(i + 1) + 1] = "MarkRetryable"
      BY <1>5, <3>1 DEF Paired
    <3> QED
      BY <1>3, <1>5, <2>1, <3>2
  <2>2. ASSUME Head(s) = "Interrupt" PROVE Tail(s) # <<>> /\ Head(Tail(s)) = "MarkRetryable"
    <3>1. 2 \in DOMAIN s /\ s[2] = "MarkRetryable"
      BY <1>3, <1>5, <2>2, 1 + 1 = 2 DEF Paired
    <3>2. 1 \in 1..Len(s) - 1 /\ Tail(s)[1] = s[2]
      BY <1>3, <1>5, <3>1
    <3>3. Tail(s) # <<>> /\ Head(Tail(s)) = Tail(s)[1]
      <4> DEFINE u == Tail(s)
      <4>1. u \in Seq(Words) /\ Len(u) = Len(s) - 1 /\ Len(s) \in Nat \ {0}
        BY <1>3, <1>5, Zenon
      <4> HIDE DEF u
      <4>2. u # <<>> /\ Head(u) = u[1]
        BY <3>2, <4>1
      <4> QED
        BY <4>2 DEF u
    <3> QED
      BY <3>1, <3>2, <3>3
  <2> QED
    BY <2>1, <2>2 DEF Paired
<1>6. "Interrupt" \notin Range(s) => Paired(s)
  BY DEF Paired, Range
<1> QED
  BY <1>1, <1>2, <1>3, <1>4, <1>5, <1>6

\* The first call of a concatenation.
LEMMA ConcatenationHead ==
    ASSUME NEW s \in Seq(Words), NEW t \in Seq(Words)
    PROVE  /\ s # <<>> => s \o t # <<>> /\ Head(s \o t) = Head(s)
           /\ s = <<>> => s \o t = t
<1>1. ASSUME s # <<>> PROVE s \o t # <<>> /\ Head(s \o t) = Head(s)
  <2>1. Len(s) \in Nat \ {0} /\ Len(t) \in Nat /\ Head(s) = s[1]
    BY <1>1
  <2>2. s \o t \in Seq(Words) /\ Len(s \o t) = Len(s) + Len(t) /\ (s \o t)[1] = s[1]
    BY <2>1
  <2> DEFINE u == s \o t
  <2> HIDE DEF u
  <2>3. u \in Seq(Words) /\ Len(u) # 0 => u # <<>> /\ Head(u) = u[1]
    OBVIOUS
  <2> QED
    BY <2>1, <2>2, <2>3 DEF u
<1>2. ASSUME s = <<>> PROVE s \o t = t
  BY <1>2
<1> QED
  BY <1>1, <1>2

\* The calls of the short lists the code makes.
LEMMA ShortLists ==
    /\ Range(<<>>) = {}
    /\ \A a : Range(<<a>>) = {a}
    /\ \A a, b : Range(<<a, b>>) = {a, b}
    /\ \A a, b, c : Range(<<a, b, c>>) = {a, b, c}
    /\ \A a, b, c, d : Range(<<a, b, c, d>>) = {a, b, c, d}
<1>1. Range(<<>>) = {}
  BY DEF Range
<1>2. ASSUME NEW a PROVE Range(<<a>>) = {a}
  BY DEF Range
<1>3. ASSUME NEW a, NEW b PROVE Range(<<a, b>>) = {a, b}
  BY DEF Range
<1>4. ASSUME NEW a, NEW b, NEW c PROVE Range(<<a, b, c>>) = {a, b, c}
  BY DEF Range
<1>5. ASSUME NEW a, NEW b, NEW c, NEW d PROVE Range(<<a, b, c, d>>) = {a, b, c, d}
  BY DEF Range
<1> QED
  BY <1>1, <1>2, <1>3, <1>4, <1>5

\* Lists of one call differ from each other and from the others.
LEMMA Singletons ==
    /\ \A a, b : <<a>> = <<b>> => a = b
    /\ \A a : <<>> # <<a>>
    /\ \A a, b, c : <<a, b>> # <<c>>
<1>1. ASSUME NEW a, NEW b, <<a>> = <<b>> PROVE a = b
  BY <1>1
<1>2. ASSUME NEW a PROVE <<>> # <<a>>
  OBVIOUS
<1>3. ASSUME NEW a, NEW b, NEW c PROVE <<a, b>> # <<c>>
  OBVIOUS
<1> QED
  BY <1>1, <1>2, <1>3

\* The vocabulary of the lists.
LEMMA Vocabulary ==
    /\ DOMAIN Moves = {"MarkOffered", "MarkAccepted", "MarkConnecting", "MarkTransferring",
                       "Interrupt", "MarkRetryable", "Complete", "Fail", "Cancel",
                       "UpdateProgress", "AttachTransfer", "AttachTransferKey",
                       "AttachPublicLink", "MarkAcceptedOnce", "failJobIfMutable", "refuse"}
    /\ DOMAIN Moves \cap Helpers = {}
    /\ DOMAIN Moves \subseteq Words /\ Helpers \subseteq Words
BY DEF Moves, Words, Helpers

\* What an accepted call may do to the status.
LEMMA MoveFacts ==
    ASSUME NEW call \in DOMAIN Moves, NEW from \in Statuses, from \in DOMAIN Moves[call]
    PROVE  LET to == Moves[call][from] IN
           /\ to \in Statuses
           /\ from \in Terminal => to = from
           /\ to = "none" <=> from = "none"
           /\ from = "none" => call = "failJobIfMutable"
           /\ to = "queued" => from = "queued"
           /\ to = "completed" /\ from # "completed" => call = "Complete"
           /\ to = "interrupted" /\ from # "interrupted" => call = "Interrupt"
           /\ to = "failed" /\ from # "failed" => call \in {"Fail", "failJobIfMutable"}
           /\ from = "interrupted" /\ call = "MarkRetryable" => to # "interrupted"
           /\ call = "MarkOffered" => from = "queued" /\ to = "offered"
           /\ call = "MarkConnecting" /\ from \in {"accepted", "retryable"} => to # from
           /\ call = "Complete" => from = "transferring" /\ to = "completed"
           /\ call = "UpdateProgress" => from \in Open /\ to = from
           /\ call = "Fail" => from \in Open /\ to = "failed"
           /\ call = "failJobIfMutable" => to \in {from, "failed"} /\ (from # to => from \in Open)
           /\ call = "Cancel" => from \in Open /\ to = "cancelled"
           /\ call \notin {"UpdateProgress", "Complete", "Fail", "failJobIfMutable", "Cancel"} =>
                 from = to \/ <<from, to>> \in Lifecycle!Forward
<1> USE DEF Moves, transition, Statuses, Open, Terminal, Lifecycle!Forward
<1>1. CASE call \in {"MarkOffered", "MarkAccepted", "MarkTransferring", "MarkRetryable", "Complete"}
  BY <1>1 DEF MarkOffered, MarkAccepted, MarkTransferring, MarkRetryable, Complete
<1>2. CASE call \in {"MarkConnecting", "Interrupt", "MarkAcceptedOnce"}
  BY <1>2 DEF MarkConnecting, Interrupt, MarkAcceptedOnce
<1>3. CASE call \in {"Fail", "Cancel", "failJobIfMutable", "refuse"}
  BY <1>3 DEF Fail, Cancel, failJobIfMutable, refuse
<1>4. CASE call \in {"UpdateProgress", "AttachTransfer", "AttachTransferKey", "AttachPublicLink"}
  BY <1>4 DEF UpdateProgress, AttachTransfer, AttachTransferKey, AttachPublicLink
<1> QED
  BY <1>1, <1>2, <1>3, <1>4, Vocabulary

\* The statuses the JobManager accepts a call in.
LEMMA Acceptance ==
    /\ DOMAIN Moves["MarkOffered"] = {"queued"} /\ DOMAIN Moves["MarkAccepted"] = {"offered"}
    /\ DOMAIN Moves["MarkTransferring"] = {"connecting"} /\ DOMAIN Moves["Complete"] = {"transferring"}
    /\ DOMAIN Moves["Interrupt"] = {"connecting", "transferring"}
    /\ DOMAIN Moves["MarkRetryable"] = {"interrupted"}
    /\ DOMAIN Moves["MarkConnecting"] = {"accepted", "retryable", "connecting", "transferring"}
    /\ DOMAIN Moves["failJobIfMutable"] = Statuses /\ DOMAIN Moves["refuse"] = {}
    /\ \A call \in {"Fail", "Cancel", "UpdateProgress", "AttachTransfer", "AttachTransferKey",
                    "AttachPublicLink", "MarkAcceptedOnce"} : DOMAIN Moves[call] = Open
BY DEF Moves, transition, refuse, MarkConnecting, MarkOffered, MarkAccepted, MarkTransferring, Complete, Interrupt,
       MarkRetryable, failJobIfMutable, Fail, Cancel, UpdateProgress, AttachTransfer,
       AttachTransferKey, AttachPublicLink, MarkAcceptedOnce

\* What a helper decides on: the calls it makes, and what it knows of the job when it does.
LEMMA Decisions ==
    ASSUME TypeOK, NEW helper \in Helpers, NEW p \in Procs
    PROVE  LET c == Calls(helper, p) IN
           /\ c \in Seq(Words) /\ Paired(c)
           /\ Range(c) \subseteq Words \ {"MarkOffered", "MarkAcceptedOnce", "failTransferJob",
                                          "handleRunTransferError", "completeTransferJob"}
           /\ "completeTransferring" \in Range(c) => helper = "completeTransferJob"
           /\ "Complete" \in Range(c) =>
                 /\ helper \in {"completeTransferring", "completeTransferJob"}
                 /\ job.direction = "receive" \/ job.progress = FileSize
           /\ "failJobIfMutable" \in Range(c) => job.status \in Terminal \cup Unborn
           /\ "Fail" \in Range(c) =>
                 helper = "failTransferJob" \/ (helper = "handleRunTransferError" /\ p \notin touched)
           /\ job.status \notin Unborn \cup Terminal /\ c # <<>> =>
                 Range(c) \subseteq Helpers \/ (Head(c) \in DOMAIN Moves /\ Expected(Head(c)))
<1> DEFINE c == Calls(helper, p)
           Good(l) ==
               /\ l \in Seq(Words) /\ Paired(l)
               /\ Range(l) \subseteq Words \ {"MarkOffered", "MarkAcceptedOnce", "failTransferJob",
                                              "handleRunTransferError", "completeTransferJob"}
               /\ "completeTransferring" \in Range(l) => helper = "completeTransferJob"
               /\ "Complete" \in Range(l) =>
                     /\ helper \in {"completeTransferring", "completeTransferJob"}
                     /\ job.direction = "receive" \/ job.progress = FileSize
               /\ "failJobIfMutable" \in Range(l) => job.status \in Terminal \cup Unborn
               /\ "Fail" \in Range(l) =>
                     helper = "failTransferJob" \/ (helper = "handleRunTransferError" /\ p \notin touched)
               /\ job.status \notin Unborn \cup Terminal /\ l # <<>> =>
                     Range(l) \subseteq Helpers \/ (Head(l) \in DOMAIN Moves /\ Expected(Head(l)))
<1> SUFFICES Good(c)
  OBVIOUS
<1> HIDE DEF c
<1>1. Good(<<>>)
  BY ShortLists DEF Paired
<1>2. Good(<<"refuse">>)
  BY ShortLists, Vocabulary DEF Paired, Expected
<1>3. ASSUME job.status = "offered"
      PROVE  /\ Good(<<"MarkAccepted", "MarkConnecting", "MarkTransferring">>)
             /\ Good(<<"MarkAccepted", "MarkConnecting", "Interrupt", "MarkRetryable">>)
  <2>1. Paired(<<"MarkAccepted", "MarkConnecting", "MarkTransferring">>)
        /\ Paired(<<"MarkAccepted", "MarkConnecting", "Interrupt", "MarkRetryable">>)
    BY DEF Paired
  <2>2. Expected("MarkAccepted")
    BY <1>3, Acceptance DEF Expected
  <2> QED
    BY <2>1, <2>2, ShortLists, Vocabulary
<1>4. ASSUME job.status \in {"accepted", "retryable"}
      PROVE  /\ Good(<<"MarkConnecting", "MarkTransferring">>)
             /\ Good(<<"MarkConnecting", "Interrupt", "MarkRetryable">>)
  <2>1. Paired(<<"MarkConnecting", "MarkTransferring">>)
        /\ Paired(<<"MarkConnecting", "Interrupt", "MarkRetryable">>)
    BY DEF Paired
  <2>2. Expected("MarkConnecting")
    BY <1>4 DEF Expected
  <2> QED
    BY <2>1, <2>2, ShortLists, Vocabulary
<1>5. ASSUME job.status = "connecting" PROVE Good(<<"MarkTransferring">>)
  BY <1>5, ShortLists, Vocabulary, Acceptance DEF Expected, Paired
<1>6. ASSUME job.status \in {"connecting", "transferring"} PROVE Good(<<"Interrupt", "MarkRetryable">>)
  <2>1. Paired(<<"Interrupt", "MarkRetryable">>)
    BY DEF Paired
  <2>2. Expected("Interrupt")
    BY <1>6, Acceptance DEF Expected
  <2> QED
    BY <2>1, <2>2, ShortLists, Vocabulary
<1>7. ASSUME job.status = "interrupted" PROVE Good(<<"MarkRetryable">>)
  BY <1>7, ShortLists, Vocabulary, Acceptance DEF Expected, Paired
<1>8. ASSUME job.status \in Terminal \cup Unborn PROVE Good(<<"failJobIfMutable">>)
  <2>1. Expected("failJobIfMutable")
    BY <1>8, Acceptance DEF Expected, TypeOK
  <2> QED
    BY <1>8, <2>1, ShortLists, Vocabulary DEF Paired
<1>9. ASSUME job.status \in Open PROVE Good(<<"UpdateProgress">>)
  BY <1>9, ShortLists, Vocabulary, Acceptance DEF Expected, Paired
<1>10. ASSUME job.status \notin Terminal,
              helper = "failTransferJob" \/ (helper = "handleRunTransferError" /\ p \notin touched)
       PROVE  Good(<<"Fail">>)
  <2>1. job.status \notin Unborn => Expected("Fail")
    BY <1>10, Acceptance DEF Expected, TypeOK, Statuses, Unborn
  <2> QED
    BY <1>10, <2>1, ShortLists, Vocabulary DEF Paired
<1>11. CASE helper = "markTransferStarted"
  <2>1. c = markTransferStarted
    BY <1>11 DEF c, Calls
  <2> QED
    BY <2>1, <1>1, <1>2, <1>3, <1>4, <1>5 DEF markTransferStarted
<1>12. CASE helper = "retryTransferJob"
  <2>1. c = markJobRetryableIfMutable
    BY <1>12 DEF c, Calls
  <2>2. job.status \in Terminal \cup Unborn \/ job.status \in {"retryable", "offered", "accepted",
                                                     "interrupted", "connecting", "transferring"}
    BY DEF TypeOK, Statuses, Open, Unborn
  <2> QED
    BY <2>1, <2>2, <1>1, <1>3, <1>4, <1>6, <1>7, <1>8
    DEF markJobRetryableIfMutable, Terminal, Unborn
<1>13. CASE helper = "failTransferJob"
  <2>1. c = failTransferJob
    BY <1>13 DEF c, Calls
  <2> QED
    BY <2>1, <1>1, <1>10, <1>13 DEF failTransferJob
<1>14. CASE helper \in {"handleProgress", "OnProgress"}
  <2>1. c \in {handleProgress, OnProgress}
    BY <1>14 DEF c, Calls
  <2> QED
    BY <2>1, <1>1, <1>9 DEF handleProgress, OnProgress, Open
<1>15. CASE helper = "handleRunTransferError"
  <2>1. c = handleRunTransferError(p)
    BY <1>15 DEF c, Calls
  <2>2. CASE p \in touched \/ job.status \in {"retryable", "interrupted"}
    BY <1>1, <2>1, <2>2 DEF handleRunTransferError
  <2>3. CASE p \notin touched /\ job.status \in Terminal
    BY <1>15, <2>1, <2>3, ShortLists, Vocabulary DEF handleRunTransferError, Paired
  <2>4. CASE p \notin touched /\ job.status \notin Terminal \cup {"retryable", "interrupted"}
    BY <2>1, <1>10, <1>15, <2>4 DEF handleRunTransferError
  <2> QED
    BY <2>2, <2>3, <2>4
<1>16. CASE helper = "completeTransferring" \/ (helper = "completeTransferJob"
                                          /\ job.status \in {"completed", "transferring"})
  <2>1. c = completeTransferring
    BY <1>16 DEF c, Calls, completeTransferJob
  <2>2. ASSUME job.status = "transferring", job.direction = "receive" \/ job.progress = FileSize
        PROVE  Good(<<"Complete">>)
    <3>1. Expected("Complete")
      BY <2>2, Acceptance DEF Expected
    <3> QED
      BY <1>16, <2>2, <3>1, ShortLists, Vocabulary DEF Paired
  <2> QED
    BY <2>1, <2>2, <1>1, <1>2 DEF completeTransferring
<1>17. CASE helper = "completeTransferJob" /\ job.status \notin {"completed", "transferring"}
  <2>1. c = <<"markTransferStarted", "completeTransferring">>
    BY <1>17 DEF c, Calls, completeTransferJob
  <2>2. Paired(<<"markTransferStarted", "completeTransferring">>)
    BY DEF Paired
  <2>3. {"markTransferStarted", "completeTransferring"} \subseteq Helpers
    BY DEF Helpers
  <2> QED
    BY <1>17, <2>1, <2>2, <2>3, ShortLists, Vocabulary
<1> QED
  BY <1>11, <1>12, <1>13, <1>14, <1>15, <1>16, <1>17 DEF Helpers

-----------------------------------------------------------------------------
(* Steps that leave the job alone.                                         *)

Proc == [pc : {"absent", "creating", "binding", "reading", "handling", "failing", "erring",
               "signaling", "waiting", "starting", "streaming", "committing", "completing",
               "retrying", "ending", "cancelling", "applying", "returned"},
         todo : Seq(Words), n : 0..FileSize, err : BOOLEAN,
         then : {"", "read", "dial", "return", "fail", "server", "local"}, real : BOOLEAN]

\* The types of everything but the job and what is said about it.
Typed ==
    /\ procs \in [Procs -> Proc]
    /\ current \in Lives \cup {None} /\ owner \in [Lives -> Runs \cup {None}]
    /\ closed \subseteq Lives /\ mailed \in 0..MaxMail

\* Goroutines that have nothing left to do go on, and the histories grow.
Steady ==
    /\ UNCHANGED <<job, touched, blame>> /\ Typed'
    /\ told' \in told..FileSize /\ wrote' \in BOOLEAN /\ (wrote => wrote')
    /\ \A p \in Procs :
          \/ procs'[p] = procs[p]
          \/ /\ procs[p].todo = <<>> /\ procs'[p].pc # "absent" /\ Sound(p)'
             /\ job.status # "none" \/ p # FirstRun

\* Such a step keeps the invariant.
LEMMA SteadyPreserves ==
    ASSUME IInv, Steady
    PROVE  IInv'
<1>1. /\ job' = job /\ touched' = touched /\ blame' = blame /\ told \in 0..FileSize
      /\ told' \in told..FileSize /\ (wrote => wrote') /\ FileSize \in Nat
      /\ job.direction \in Directions /\ job.progress \in 0..FileSize
  BY SizeAssumption DEF Steady, IInv, TypeOK
<1>2. Reported => Reported'
  BY <1>1 DEF Reported
<1>3. TypeOK'
  <2>1. /\ job' \in [direction : Directions, status : Statuses, progress : 0..FileSize, bound : BOOLEAN,
                     keyed : BOOLEAN]
        /\ touched' \subseteq Runs /\ blame' \in {"none", "real", "loop", "run"}
    BY <1>1 DEF IInv, TypeOK
  <2>2. told' \in 0..FileSize /\ wrote' \in BOOLEAN
    BY <1>1 DEF Steady
  <2>3. Typed'
    BY DEF Steady
  <2> QED
    BY <2>1, <2>2, <2>3 DEF Typed, Proc, Words, TypeOK
<1>4. FirstRun \in Procs
  BY RunAssumption DEF Procs
<1>5. Young'
  <2>1. job.status = "none" => procs'[FirstRun] = procs[FirstRun]
    BY <1>4 DEF Steady
  <2>2. procs'[FirstRun].pc = "absent" => procs[FirstRun].pc = "absent"
    BY <1>4 DEF Steady
  <2>3. job.progress <= told => job.progress <= told'
    BY <1>1
  <2> QED
    BY <1>1, <1>2, <2>1, <2>2, <2>3 DEF IInv, Young
<1>6. InterruptedIsBrief'
  BY <1>1 DEF Steady, IInv, InterruptedIsBrief
<1>7. RunsBlameFairly'
  BY <1>1 DEF IInv, RunsBlameFairly
<1>8. ASSUME NEW p \in Procs, procs'[p] = procs[p] PROVE Sound(p)'
  <2>1. Sound(p) /\ procs[p].n \in 0..FileSize
    BY DEF IInv, TypeOK
  <2>2. Placed(p)' /\ Paired(procs[p].todo)' /\ Worded(p)'
    BY <1>1, <1>8, <2>1 DEF Sound, Placed, Paired, Worded
  <2>3. Entitled(p)'
    BY <1>1, <1>2, <1>8, <2>1 DEF Sound, Entitled
  <2>4. Fair(p)'
    BY <1>1, <1>8, <2>1 DEF Sound, Fair, Excused, Expected
  <2> QED
    BY <2>2, <2>3, <2>4 DEF Sound
<1>9. \A p \in Procs : Sound(p)'
  BY <1>8 DEF Steady
<1> QED
  BY <1>3, <1>5, <1>6, <1>7, <1>9 DEF IInv

-----------------------------------------------------------------------------
(* The calls of a goroutine.                                               *)

\* Nothing but goroutine p changes, and of it only the list, the error and the complaint.
OnlyList(p) ==
    /\ UNCHANGED <<job, touched, current, owner, closed, mailed, told, wrote, blame>>
    /\ procs' \in [Procs -> Proc] /\ \A q \in Procs \ {p} : procs'[q] = procs[q]
    /\ procs'[p].pc = procs[p].pc /\ procs'[p].n = procs[p].n /\ procs'[p].then = procs[p].then
    /\ procs[p].todo # <<>>

\* Such a step keeps the invariant if p stays sound and was not about to make the job retryable.
LEMMA OnlyListPreserves ==
    ASSUME IInv, NEW p \in Procs, OnlyList(p), Sound(p)',
           job.status = "interrupted" => Head(procs[p].todo) # "MarkRetryable"
    PROVE  IInv'
<1>1. UNCHANGED <<job, touched, current, owner, closed, mailed, told, wrote, blame>>
  BY DEF OnlyList
<1>2. TypeOK'
  <2>1. procs' \in [Procs -> Proc]
    BY DEF OnlyList
  <2> QED
    BY <1>1, <2>1 DEF IInv, TypeOK, Proc, Words
<1>3. FirstRun \in Procs
  BY RunAssumption DEF Procs
<1>4. procs'[FirstRun].pc = procs[FirstRun].pc
  BY <1>3 DEF OnlyList
<1>5. Young'
  BY <1>1, <1>4 DEF IInv, Young, Reported
<1>6. InterruptedIsBrief'
  BY <1>1 DEF OnlyList, IInv, InterruptedIsBrief
<1>7. RunsBlameFairly'
  BY <1>1 DEF IInv, RunsBlameFairly
<1>8. ASSUME NEW q \in Procs \ {p} PROVE Sound(q)'
  <2>1. Sound(q) /\ procs'[q] = procs[q]
    BY DEF IInv, OnlyList
  <2> QED
    BY <1>1, <2>1 DEF Sound, Placed, Paired, Worded, Entitled, Fair, Excused, Expected, Reported
<1> QED
  BY <1>2, <1>5, <1>6, <1>7, <1>8 DEF IInv

\* A helper's decision keeps the invariant.
LEMMA DecidePreserves ==
    ASSUME IInv, NEW p \in Procs, Decide(p)
    PROVE  IInv'
<1> DEFINE k == procs[p]
           h == Head(k.todo)
           c == Calls(h, p)
           l == c \o Tail(k.todo)
<1>1. k \in Proc /\ procs \in [Procs -> Proc]
  BY DEF IInv, TypeOK, Proc, Words
<1>2. k.todo # <<>> /\ h \in Helpers /\ k.todo \in Seq(Words)
  BY <1>1 DEF Decide, Proc
<1>3. Tail(k.todo) \in Seq(Words) /\ Range(Tail(k.todo)) \subseteq Range(k.todo)
      /\ h \in Range(k.todo) /\ Range(k.todo) \subseteq {h} \cup Range(Tail(k.todo))
      /\ (Paired(k.todo) => Paired(Tail(k.todo)))
  BY <1>2, ListFacts
<1>4. /\ c \in Seq(Words) /\ Paired(c)
      /\ Range(c) \subseteq Words \ {"MarkOffered", "MarkAcceptedOnce", "failTransferJob",
                                     "handleRunTransferError", "completeTransferJob"}
      /\ "completeTransferring" \in Range(c) => h = "completeTransferJob"
      /\ "Complete" \in Range(c) =>
            /\ h \in {"completeTransferring", "completeTransferJob"}
            /\ job.direction = "receive" \/ job.progress = FileSize
      /\ "failJobIfMutable" \in Range(c) => job.status \in Terminal \cup Unborn
      /\ "Fail" \in Range(c) =>
            h = "failTransferJob" \/ (h = "handleRunTransferError" /\ p \notin touched)
      /\ job.status \notin Unborn \cup Terminal /\ c # <<>> =>
            Range(c) \subseteq Helpers \/ (Head(c) \in DOMAIN Moves /\ Expected(Head(c)))
  BY <1>2, Decisions DEF IInv
<1>5. l \in Seq(Words) /\ Range(l) = Range(c) \cup Range(Tail(k.todo))
      /\ (Paired(Tail(k.todo)) => Paired(l))
  BY <1>3, <1>4, ListFacts
<1>6. procs' = [procs EXCEPT ![p] = [k EXCEPT !.todo = l]]
      /\ UNCHANGED <<job, touched, current, owner, closed, mailed, told, wrote, blame>>
  BY <1>1 DEF Decide
<1>7. c # <<>> => Head(l) = Head(c) /\ l # <<>>
  BY <1>3, <1>4, ConcatenationHead
<1>8. c = <<>> => l = Tail(k.todo)
  BY <1>3, <1>4, ConcatenationHead
<1>9. Sound(p)
  BY DEF IInv
<1> HIDE DEF l, c
<1>10. procs'[p] = [k EXCEPT !.todo = l] /\ procs'[p] \in Proc /\ procs'[p].todo = l
       /\ procs'[p].pc = k.pc /\ procs'[p].n = k.n /\ procs'[p].then = k.then
       /\ procs'[p].real = k.real /\ procs'[p].err = k.err
  BY <1>1, <1>5, <1>6 DEF Proc
<1>11. OnlyList(p)
  BY <1>1, <1>2, <1>6, <1>10 DEF OnlyList
<1>12. job.status \notin Unborn
  BY <1>2, <1>3, <1>9 DEF Sound, Worded
<1>13. h # "MarkRetryable"
  BY <1>2 DEF Helpers
<1>14. Placed(p)'
  BY <1>2, <1>6, <1>9, <1>10, <1>12 DEF Sound, Placed, Unborn
<1>15. Paired(procs[p].todo)'
  BY <1>3, <1>5, <1>9, <1>10 DEF Sound
<1>16. Entitled(p)'
  <2>1. ASSUME "Complete" \in Range(c) PROVE Reported
    <3>1. CASE job.direction = "receive"
      BY <1>3, <1>4, <1>9, <2>1, <3>1 DEF Sound, Entitled, Reported
    <3>2. CASE job.direction = "send"
      <4>1. job.progress <= told /\ told \in 0..FileSize /\ FileSize \in Nat
        BY <3>2, SizeAssumption DEF IInv, Young, TypeOK
      <4> QED
        BY <1>4, <2>1, <3>2, <4>1 DEF Reported
    <3> QED
      BY <3>1, <3>2, DirectionAssumption DEF IInv, TypeOK
  <2>2. ASSUME job.direction = "receive",
               Range(l) \cap {"completeTransferring", "completeTransferJob"} # {}
        PROVE  wrote
    BY <1>3, <1>4, <1>5, <1>9, <2>2 DEF Sound, Entitled
  <2>3. "Complete" \in Range(l) => Reported
    BY <1>3, <1>5, <1>9, <2>1 DEF Sound, Entitled
  <2> QED
    BY <1>6, <1>9, <1>10, <2>2, <2>3 DEF Sound, Entitled, Reported
<1>17. Worded(p)'
  <2>1. "MarkOffered" \in Range(l) => k.pc = "binding"
    BY <1>3, <1>4, <1>5, <1>9 DEF Sound, Worded
  <2>2. "handleRunTransferError" \in Range(l) => p \in Runs /\ k.pc = "erring"
    BY <1>3, <1>4, <1>5, <1>9 DEF Sound, Worded
  <2>3. "MarkAcceptedOnce" \notin Range(l)
    <3>1. SUFFICES ASSUME "MarkAcceptedOnce" \in Range(k.todo) PROVE FALSE
      BY <1>3, <1>4, <1>5
    <3>2. k.todo = <<"MarkAcceptedOnce">>
      BY <1>9, <3>1 DEF Sound, Worded
    <3> QED
      BY <1>2, <3>2 DEF Helpers
  <2>4. "failTransferJob" \in Range(l) => p = Loop \/ k.real
    BY <1>3, <1>4, <1>5, <1>9 DEF Sound, Worded
  <2>5. ASSUME Range(l) \cap {"Fail", "failJobIfMutable"} # {}, p # Loop, ~k.real
        PROVE  job.status \in Terminal
    <3>1. CASE Range(k.todo) \cap {"Fail", "failJobIfMutable"} # {}
      BY <1>9, <2>5, <3>1 DEF Sound, Worded
    <3>2. CASE "failJobIfMutable" \in Range(c)
      BY <1>4, <1>12, <3>2
    <3>3. CASE "Fail" \in Range(c)
      <4>1. h = "handleRunTransferError" /\ p \notin touched
        BY <1>3, <1>4, <1>9, <2>5, <3>3 DEF Sound, Worded
      <4>2. p \in Runs /\ k.pc = "erring"
        BY <1>3, <1>9, <4>1 DEF Sound, Worded
      <4> QED
        BY <1>9, <2>5, <4>1, <4>2 DEF Sound, Fair, Excused
    <3> QED
      BY <1>3, <1>5, <2>5, <3>1, <3>2, <3>3
  <2> QED
    BY <1>6, <1>10, <1>12, <2>1, <2>2, <2>3, <2>4, <2>5 DEF Worded
<1>18. Fair(p)'
  <2> SUFFICES ASSUME p \in Runs, k.pc \in {"handling", "erring"}, ~k.real, ~Excused(p)
               PROVE  /\ k.pc = "handling" /\ ~k.err
                      /\ k.then # "fail"
                      /\ l # <<>> =>
                            \/ Range(l) \subseteq Helpers
                            \/ Head(l) \in DOMAIN Moves /\ Expected(Head(l))
    BY <1>6, <1>10 DEF Fair, Excused, Expected
  <2>1. /\ k.pc = "handling" /\ ~k.err
        /\ k.then = "fail" => k.todo \in {<<"UpdateProgress", "retryTransferJob">>, <<"Cancel">>}
        /\ \/ Range(k.todo) \subseteq Helpers
           \/ Head(k.todo) \in DOMAIN Moves /\ Expected(Head(k.todo))
    BY <1>2, <1>9 DEF Sound, Fair
  <2>2. Head(<<"UpdateProgress", "retryTransferJob">>) \notin Helpers /\ Head(<<"Cancel">>) \notin Helpers
    BY DEF Helpers
  <2>3. k.then # "fail"
    BY <1>2, <2>1, <2>2
  <2>4. Range(k.todo) \subseteq Helpers
    BY <1>2, <2>1, Vocabulary
  <2>5. job.status \notin Unborn \cup Terminal
    BY <1>12 DEF Excused
  <2> QED
    BY <1>3, <1>4, <1>5, <1>7, <1>8, <2>1, <2>3, <2>4, <2>5
<1> QED
  BY <1>11, <1>13, <1>14, <1>15, <1>16, <1>17, <1>18, OnlyListPreserves DEF Sound

\* The call of a queued job's creator is never refused.
LEMMA BindingIsAccepted ==
    ASSUME NEW l \in Bindings
    PROVE  /\ l # <<>> /\ l \in Seq(Words) /\ Tail(l) \in Seq(Words)
           /\ Head(l) \in {"Fail", "AttachTransfer", "AttachTransferKey", "AttachPublicLink",
                           "MarkOffered"}
           /\ "queued" \in DOMAIN Moves[Head(l)]
           /\ Head(l) \notin {"Fail", "MarkOffered"} => Tail(l) \in Bindings
<1>1. l # <<>>
  BY DEF Bindings
<1>2. Head(l) \in {"Fail", "AttachTransfer", "AttachTransferKey", "AttachPublicLink", "MarkOffered"}
  BY DEF Bindings
<1>3. "queued" \in DOMAIN Moves[Head(l)]
  BY <1>2, Acceptance DEF Open
<1>4. {"Fail", "refuse", "AttachTransfer", "AttachTransferKey", "AttachPublicLink", "MarkOffered"}
         \subseteq Words
  BY Vocabulary
<1>5. /\ Tail(<<"Fail", "refuse">>) = <<"refuse">>
      /\ Tail(<<"AttachTransfer", "Fail", "refuse">>) = <<"Fail", "refuse">>
      /\ Tail(<<"MarkOffered">>) = <<>>
      /\ Tail(<<"AttachTransfer", "MarkOffered">>) = <<"MarkOffered">>
      /\ Tail(<<"AttachTransferKey", "MarkOffered">>) = <<"MarkOffered">>
      /\ Tail(<<"AttachTransfer", "AttachTransferKey", "MarkOffered">>)
           = <<"AttachTransferKey", "MarkOffered">>
      /\ Tail(<<"AttachPublicLink", "MarkOffered">>) = <<"MarkOffered">>
      /\ Tail(<<"AttachTransferKey", "AttachPublicLink", "MarkOffered">>)
           = <<"AttachPublicLink", "MarkOffered">>
      /\ Tail(<<"AttachTransfer", "AttachTransferKey", "AttachPublicLink", "MarkOffered">>)
           = <<"AttachTransferKey", "AttachPublicLink", "MarkOffered">>
  OBVIOUS
<1>6. Tail(l) \in {<<"refuse">>, <<>>} \cup Bindings
  BY <1>5 DEF Bindings
<1>7. {<<"refuse">>, <<>>} \cup Bindings \subseteq Seq(Words)
  BY <1>4 DEF Bindings
<1>8. Head(l) \notin {"Fail", "MarkOffered"} => Tail(l) \in Bindings
  <2>1. CASE l \in {<<"Fail", "refuse">>, <<"MarkOffered">>}
    <3>1. Head(<<"Fail", "refuse">>) = "Fail" /\ Head(<<"MarkOffered">>) = "MarkOffered"
      OBVIOUS
    <3> QED
      BY <2>1, <3>1
  <2>2. CASE l \notin {<<"Fail", "refuse">>, <<"MarkOffered">>}
    BY <1>5, <2>2, Zenon DEF Bindings
  <2> QED
    BY <2>1, <2>2
<1> QED
  BY <1>1, <1>2, <1>3, <1>6, <1>7, <1>8

\* A refused call keeps the invariant.
LEMMA updateErrorPreserves ==
    ASSUME IInv, NEW p \in Procs, updateError(p)
    PROVE  IInv'
<1> DEFINE k == procs[p]
           call == Head(k.todo)
           real == k.real \/ call = "refuse"
<1>1. k \in Proc /\ procs \in [Procs -> Proc]
  BY DEF IInv, TypeOK, Proc, Words
<1>2. k.todo # <<>> /\ call \in DOMAIN Moves /\ ~Accepts(call, k.n) /\ k.todo \in Seq(Words)
  BY <1>1 DEF updateError, Proc
<1>3. procs' = [procs EXCEPT ![p] = [k EXCEPT !.todo = <<>>, !.err = TRUE, !.real = real]]
      /\ UNCHANGED <<job, touched, current, owner, closed, mailed, told, wrote, blame>>
  BY <1>1 DEF updateError
<1>4. real \in BOOLEAN /\ <<>> \in Seq(Words)
  OBVIOUS
<1>5. procs'[p] = [k EXCEPT !.todo = <<>>, !.err = TRUE, !.real = real] /\ procs'[p] \in Proc
      /\ procs'[p].todo = <<>> /\ procs'[p].pc = k.pc /\ procs'[p].n = k.n
      /\ procs'[p].then = k.then /\ procs'[p].real = real
  BY <1>1, <1>3, <1>4 DEF Proc
<1>6. OnlyList(p)
  BY <1>1, <1>2, <1>3, <1>5 DEF OnlyList
<1>7. Sound(p) /\ k.n <= FileSize /\ job.status \in Statuses
  <2>1. k.n \in 0..FileSize
    BY <1>1 DEF Proc
  <2>2. Sound(p) /\ job.status \in Statuses
    BY DEF IInv, TypeOK
  <2> QED
    BY <2>1, <2>2, SizeAssumption
<1>8. job.status \notin DOMAIN Moves[call]
  BY <1>2, <1>7 DEF Accepts
<1>9. Range(procs'[p].todo) = {}
  BY <1>5, ShortLists
<1>10. Placed(p)'
  <2>1. ~(k.pc = "binding" /\ job.status = "queued")
    BY <1>7, <1>8, BindingIsAccepted DEF Sound, Placed
  <2> QED
    BY <1>2, <1>3, <1>5, <1>7, <2>1 DEF Sound, Placed
<1>11. Paired(procs[p].todo)'
  BY <1>5 DEF Paired
<1>12. Entitled(p)' /\ Worded(p)'
  BY <1>3, <1>5, <1>7, <1>9 DEF Sound, Entitled, Worded
<1>13. Fair(p)'
  <2>1. ASSUME p \in Runs, k.pc \in {"handling", "erring"}, ~real, ~Excused(p) PROVE FALSE
    <3>1. call # "refuse" /\ ~k.real
      BY <2>1
    <3>2. Range(k.todo) \subseteq Helpers \/ Expected(call)
      BY <1>2, <1>7, <2>1, <3>1 DEF Sound, Fair
    <3>3. call \notin Helpers /\ call \in Range(k.todo)
      BY <1>2, Vocabulary, ListFacts
    <3>4. Expected(call)
      BY <3>2, <3>3
    <3> QED
      BY <1>8, <3>1, <3>4, Acceptance DEF Expected
  <2> QED
    BY <1>3, <1>5, <2>1 DEF Fair, Excused
<1>14. job.status = "interrupted" => call # "MarkRetryable"
  BY <1>8, Acceptance
<1> QED
  BY <1>6, <1>10, <1>11, <1>12, <1>13, <1>14, OnlyListPreserves DEF Sound

\* An accepted call keeps the invariant.
LEMMA updatePreserves ==
    ASSUME IInv, NEW p \in Procs, update(p)
    PROVE  IInv'
<1> DEFINE k == procs[p]
           call == Head(k.todo)
           l == Tail(k.todo)
           from == job.status
           to == Moves[call][from]
<1>1. k \in Proc /\ procs \in [Procs -> Proc]
  BY DEF IInv, TypeOK, Proc, Words
<1>2. k.todo # <<>> /\ call \in DOMAIN Moves /\ Accepts(call, k.n) /\ k.todo \in Seq(Words)
  BY <1>1 DEF update, Proc
<1>3. /\ l \in Seq(Words) /\ Range(l) \subseteq Range(k.todo) /\ call \in Range(k.todo)
      /\ Paired(k.todo) => Paired(l)
      /\ Paired(k.todo) /\ call = "Interrupt" => l # <<>> /\ Head(l) = "MarkRetryable"
  BY <1>2, ListFacts
<1>4. from \in Statuses /\ from \in DOMAIN Moves[call] /\ call # "refuse"
  BY <1>2, Acceptance DEF IInv, TypeOK, Accepts
<1>5. /\ to \in Statuses
      /\ from \in Terminal => to = from
      /\ to = "none" <=> from = "none"
      /\ from = "none" => call = "failJobIfMutable"
      /\ to = "queued" => from = "queued"
      /\ to = "completed" /\ from # "completed" => call = "Complete"
      /\ to = "interrupted" /\ from # "interrupted" => call = "Interrupt"
      /\ to = "failed" /\ from # "failed" => call \in {"Fail", "failJobIfMutable"}
      /\ from = "interrupted" /\ call = "MarkRetryable" => to # "interrupted"
      /\ call = "MarkOffered" => from = "queued" /\ to = "offered"
      /\ call = "MarkConnecting" /\ from \in {"accepted", "retryable"} => to # from
      /\ call = "Fail" => from \in Open /\ to = "failed"
  <2> HIDE DEF call, from
  <2> QED
    BY <1>2, <1>4, MoveFacts, Zenon
<1>6. /\ job' = [job EXCEPT !.status   = to,
                            !.progress = CASE call = "UpdateProgress" -> k.n
                                           [] call = "Complete"       -> FileSize
                                           [] OTHER                   -> job.progress,
                            !.bound    = job.bound \/ call = "AttachTransfer",
                            !.keyed    = job.keyed \/ call = "AttachTransferKey"]
      /\ touched' = CASE call = "MarkOffered" -> touched \ {p}
                      [] call \in {"MarkConnecting", "MarkAcceptedOnce", "failJobIfMutable"}
                           /\ to = from -> touched
                      [] OTHER                -> touched \cup Started
      /\ blame' = IF to = "failed" /\ from # "failed"
                    THEN IF k.real THEN "real" ELSE IF p = Loop THEN "loop" ELSE "run"
                    ELSE blame
      /\ procs' = [procs EXCEPT ![p] = [k EXCEPT !.todo = l]]
      /\ UNCHANGED <<current, owner, closed, mailed, told, wrote>>
  BY <1>1 DEF update, IInv, TypeOK
<1>7. \A q \in Procs : Sound(q)
  BY DEF IInv
<1> HIDE DEF l, to
<1>8. procs'[p] = [k EXCEPT !.todo = l] /\ procs'[p] \in Proc /\ procs'[p].todo = l
      /\ procs'[p].pc = k.pc /\ procs'[p].n = k.n /\ procs'[p].then = k.then
      /\ procs'[p].real = k.real /\ procs'[p].err = k.err
      /\ procs' \in [Procs -> Proc] /\ \A q \in Procs \ {p} : procs'[q] = procs[q]
  BY <1>1, <1>3, <1>6 DEF Proc
<1>9. /\ job \in [direction : Directions, status : Statuses, progress : 0..FileSize, bound : BOOLEAN,
                  keyed : BOOLEAN]
      /\ k.n \in 0..FileSize /\ FileSize \in Nat /\ told \in 0..FileSize
  BY <1>1, SizeAssumption DEF IInv, TypeOK, Proc
<1>10. /\ job'.status = to /\ job'.direction = job.direction
       /\ job'.bound = (job.bound \/ call = "AttachTransfer")
       /\ job'.progress \in {job.progress} \cup (IF call = "UpdateProgress" THEN {k.n} ELSE {})
                                           \cup (IF call = "Complete" THEN {FileSize} ELSE {})
       /\ job' \in [direction : Directions, status : Statuses, progress : 0..FileSize, bound : BOOLEAN,
                    keyed : BOOLEAN]
  <2> DEFINE progress == CASE call = "UpdateProgress" -> k.n
                           [] call = "Complete"       -> FileSize
                           [] OTHER                   -> job.progress
             bound == job.bound \/ call = "AttachTransfer"
             keyed == job.keyed \/ call = "AttachTransferKey"
  <2>1. /\ progress \in 0..FileSize /\ bound \in BOOLEAN /\ keyed \in BOOLEAN
        /\ progress \in {job.progress} \cup (IF call = "UpdateProgress" THEN {k.n} ELSE {})
                                      \cup (IF call = "Complete" THEN {FileSize} ELSE {})
    BY <1>9
  <2>2. job' = [job EXCEPT !.status = to, !.progress = progress, !.bound = bound,
                           !.keyed = keyed]
    BY <1>6
  <2>3. bound = (job.bound \/ call = "AttachTransfer")
    OBVIOUS
  <2> HIDE DEF progress, bound, keyed
  <2> QED
    BY <1>5, <1>9, <2>1, <2>2, <2>3
<1>11. Started \subseteq Runs
  BY DEF Started
<1>12. /\ touched' \subseteq Runs /\ touched \ {p} \subseteq touched'
       /\ call # "MarkOffered" => touched \subseteq touched'
       /\ call # "MarkOffered" /\ to # from => Started \subseteq touched'
       /\ call \notin {"MarkOffered", "MarkConnecting", "MarkAcceptedOnce", "failJobIfMutable"} =>
             Started \subseteq touched'
  <2>1. touched \subseteq Runs
    BY DEF IInv, TypeOK
  <2> QED
    BY <1>6, <1>11, <2>1
<1>13. TypeOK'
  <2>1. blame' \in {"none", "real", "loop", "run"}
    BY <1>6 DEF IInv, TypeOK
  <2> QED
    BY <1>6, <1>8, <1>10, <1>12, <2>1 DEF IInv, TypeOK, Proc, Words
<1>14. Reported' = Reported
  BY <1>6, <1>10 DEF Reported
<1>15. Young'
  <2>1. FirstRun \in Procs
    BY RunAssumption DEF Procs
  <2>2. procs'[FirstRun].pc = procs[FirstRun].pc
    BY <1>8, <2>1
  <2>3. to = "none" => ~job'.bound /\ job'.progress = 0 /\ procs[FirstRun].pc = "absent"
    BY <1>5, <1>10 DEF IInv, Young
  <2>4. job.direction = "receive" /\ ~job'.bound => to = "none"
    BY <1>5, <1>10 DEF IInv, Young
  <2>5. to = "queued" => job.direction = "send"
    BY <1>5 DEF IInv, Young
  <2>6. job.direction = "send" /\ procs[FirstRun].pc = "absent" => to = "none"
    BY <1>5 DEF IInv, Young
  <2>7. ASSUME job.direction = "send" PROVE job'.progress <= told
    <3>1. job.progress <= told /\ k.n <= told
      BY <1>7, <2>7 DEF IInv, Young, Sound, Entitled
    <3>2. call = "Complete" => told = FileSize
      BY <1>3, <1>7, <2>7 DEF Sound, Entitled, Reported
    <3> QED
      BY <1>9, <1>10, <3>1, <3>2
  <2>8. to = "completed" => Reported
    <3>1. CASE from = "completed"
      BY <3>1 DEF IInv, Young
    <3>2. CASE call = "Complete"
      BY <1>3, <1>7, <3>2 DEF Sound, Entitled
    <3> QED
      BY <1>5, <3>1, <3>2
  <2> QED
    BY <1>6, <1>10, <1>14, <2>2, <2>3, <2>4, <2>5, <2>6, <2>7, <2>8 DEF Young
<1>16. InterruptedIsBrief'
  <2> SUFFICES ASSUME to = "interrupted"
               PROVE  \E q \in Procs : procs'[q].todo # <<>> /\ Head(procs'[q].todo) = "MarkRetryable"
    BY <1>10 DEF InterruptedIsBrief
  <2>1. CASE from = "interrupted"
    <3>1. PICK q \in Procs : procs[q].todo # <<>> /\ Head(procs[q].todo) = "MarkRetryable"
      BY <2>1 DEF IInv, InterruptedIsBrief
    <3>2. q # p
      BY <1>5, <2>1, <3>1
    <3> QED
      BY <1>8, <3>1, <3>2
  <2>2. CASE from # "interrupted"
    <3>1. l # <<>> /\ Head(l) = "MarkRetryable"
      BY <1>3, <1>5, <1>7, <2>2 DEF Sound
    <3> QED
      BY <1>8, <3>1
  <2> QED
    BY <2>1, <2>2
<1>17. RunsBlameFairly'
  <2>1. ASSUME to = "failed", from # "failed" PROVE k.real \/ p = Loop
    <3>1. call \in {"Fail", "failJobIfMutable"}
      BY <1>5, <2>1
    <3>2. from \notin Terminal
      BY <1>5, <2>1
    <3> QED
      BY <1>3, <1>7, <3>1, <3>2 DEF Sound, Worded
  <2> QED
    BY <1>6, <2>1 DEF IInv, RunsBlameFairly
<1>18. from \notin Unborn => to \notin Unborn
  BY <1>5 DEF Unborn
<1>19. ASSUME NEW q \in Procs \ {p} PROVE Sound(q)'
  <2>1. Sound(q) /\ procs'[q] = procs[q]
    BY <1>7, <1>8
  <2>2. Placed(q)'
    BY <1>5, <1>10, <1>18, <2>1 DEF Sound, Placed
  <2>3. Paired(procs[q].todo)'
    BY <2>1 DEF Sound
  <2>4. Entitled(q)'
    BY <1>6, <1>10, <1>14, <2>1 DEF Sound, Entitled
  <2>5. Worded(q)'
    BY <1>5, <1>10, <1>18, <2>1 DEF Sound, Worded
  <2>6. Fair(q)'
    <3> SUFFICES ASSUME q \in Runs, procs[q].pc \in {"handling", "erring"}, ~procs[q].real,
                        ~Excused(q)'
                 PROVE  Fair(q)'
      BY <2>1 DEF Fair
    <3>1. ~Excused(q)
      BY <1>5, <1>10, <1>12 DEF Excused
    <3>2. call # "MarkOffered"
      <4>1. from \notin Unborn
        BY <2>1, ProcAssumption DEF Sound, Placed
      <4> QED
        BY <1>5, <4>1 DEF Unborn
    <3>3. q \in Started
      BY DEF Started
    <3>4. to = from
      BY <1>12, <3>2, <3>3 DEF Excused
    <3> QED
      BY <1>10, <2>1, <3>1, <3>4 DEF Sound, Fair, Expected
  <2> QED
    BY <2>2, <2>3, <2>4, <2>5, <2>6 DEF Sound
<1>20. "MarkAcceptedOnce" \in Range(k.todo) => k.todo = <<"MarkAcceptedOnce">> /\ l = <<>>
  <2>1. Tail(<<"MarkAcceptedOnce">>) = <<>>
    OBVIOUS
  <2> QED
    BY <1>7, <2>1 DEF Sound, Worded, l
<1>21. Placed(p)'
  <2>1. k.pc = "binding" /\ to = "queued" => l \in Bindings
    <3> SUFFICES ASSUME k.pc = "binding", to = "queued" PROVE l \in Bindings
      OBVIOUS
    <3>1. k.todo \in Bindings /\ call \notin {"Fail", "MarkOffered"}
      BY <1>5, <1>7 DEF Sound, Placed
    <3> QED
      BY <3>1, BindingIsAccepted DEF l
  <2> QED
    BY <1>2, <1>5, <1>7, <1>8, <1>10, <1>18, <2>1 DEF Sound, Placed
<1>22. Paired(procs[p].todo)'
  BY <1>3, <1>7, <1>8 DEF Sound
<1>23. Entitled(p)'
  BY <1>3, <1>6, <1>7, <1>8, <1>10, <1>14 DEF Sound, Entitled
<1>24. Worded(p)'
  <2>1. "MarkAcceptedOnce" \notin Range(l)
    BY <1>3, <1>20, ShortLists
  <2> QED
    BY <1>3, <1>5, <1>7, <1>8, <1>10, <1>18, <2>1 DEF Sound, Worded
<1>25. Fair(p)'
  <2> SUFFICES ASSUME p \in Runs, k.pc \in {"handling", "erring"}, ~k.real, ~Excused(p)'
               PROVE  Fair(p)'
    BY <1>8 DEF Fair
  <2>1. p \in Started
    BY DEF Started
  <2>2. call # "MarkOffered"
    BY <1>3, <1>7 DEF Sound, Worded
  <2>3. ~Excused(p)
    BY <1>5, <1>10, <1>12, <2>2 DEF Excused
  <2>4. /\ k.pc = "handling" /\ ~k.err
        /\ k.then = "fail" => k.todo \in {<<"UpdateProgress", "retryTransferJob">>, <<"Cancel">>}
        /\ Range(k.todo) \subseteq Helpers \/ Expected(call)
    BY <1>2, <1>7, <2>3 DEF Sound, Fair
  <2>5. Expected(call)
    BY <1>2, <1>3, <2>4, Vocabulary
  <2>6. call # "MarkConnecting"
    BY <1>5, <1>12, <2>1, <2>5 DEF Expected, Excused
  <2>7. call # "failJobIfMutable"
    <3>1. p # Loop
      BY ProcAssumption
    <3> QED
      BY <1>3, <1>7, <2>3, <3>1 DEF Sound, Worded, Excused
  <2>8. call = "MarkAcceptedOnce"
    BY <1>12, <2>1, <2>2, <2>6, <2>7 DEF Excused
  <2>9. k.todo = <<"MarkAcceptedOnce">> /\ l = <<>>
    BY <1>3, <1>20, <2>8
  <2>10. Head(<<"UpdateProgress", "retryTransferJob">>) # call /\ Head(<<"Cancel">>) # call
    BY <2>8
  <2>11. k.then # "fail"
    BY <2>4, <2>10
  <2> QED
    BY <1>8, <2>4, <2>9, <2>11 DEF Fair
<1> QED
  BY <1>13, <1>15, <1>16, <1>17, <1>19, <1>21, <1>22, <1>23, <1>24, <1>25 DEF IInv, Sound

-----------------------------------------------------------------------------
(* Goroutines that begin something.                                        *)

\* The lists that a goroutine begins with, once the job is offered or accepted.
NewLists == {<<>>, <<"handleRunTransferError">>, <<"failTransferJob">>, <<"markTransferStarted">>,
             <<"retryTransferJob">>, <<"OnProgress">>, <<"handleProgress">>,
             <<"completeTransferJob">>, <<"Cancel">>, <<"MarkAcceptedOnce">>, <<"refuse">>,
             <<"UpdateProgress">>, <<"UpdateProgress", "retryTransferJob">>}

\* The calls on such a list.
LEMMA NewListFacts ==
    ASSUME NEW l \in NewLists
    PROVE  /\ l \in Seq(Words) /\ Paired(l)
           /\ Range(l) \cap {"Complete", "completeTransferring", "MarkOffered", "Fail",
                             "failJobIfMutable"} = {}
           /\ \A w \in {"handleRunTransferError", "failTransferJob", "completeTransferJob",
                        "MarkAcceptedOnce"} : w \in Range(l) => l = <<w>>
           /\ l \in {<<>>, <<"Cancel">>} => Range(l) \cap Helpers = {}
<1>1. Range(l) \subseteq {"handleRunTransferError", "failTransferJob", "markTransferStarted",
                          "retryTransferJob", "OnProgress", "handleProgress",
                          "completeTransferJob", "Cancel", "MarkAcceptedOnce", "refuse",
                          "UpdateProgress"}
  BY ShortLists DEF NewLists
<1>2. Range(l) \subseteq Words
  BY <1>1, Vocabulary DEF Helpers
<1>3. l \in Seq(Words)
  <2>1. \A a \in Words : <<a>> \in Seq(Words)
    OBVIOUS
  <2>2. <<"UpdateProgress", "retryTransferJob">> \in Seq(Words) /\ <<>> \in Seq(Words)
    BY Vocabulary DEF Helpers
  <2>3. {"handleRunTransferError", "failTransferJob", "markTransferStarted",
         "retryTransferJob", "OnProgress", "handleProgress", "completeTransferJob", "Cancel",
         "MarkAcceptedOnce", "refuse", "UpdateProgress"} \subseteq Words
    BY Vocabulary DEF Helpers
  <2> QED
    BY <2>1, <2>2, <2>3, Zenon DEF NewLists
<1>4. Paired(l)
  BY <1>1, <1>3, ListFacts
<1>5. \A w \in {"handleRunTransferError", "failTransferJob", "completeTransferJob",
                "MarkAcceptedOnce"} : w \in Range(l) => l = <<w>>
  BY ShortLists DEF NewLists
<1>6. l \in {<<>>, <<"Cancel">>} => Range(l) \cap Helpers = {}
  BY ShortLists DEF Helpers
<1> QED
  BY <1>1, <1>3, <1>4, <1>5, <1>6

\* Goroutine p begins with one of these lists what a goroutine of its kind may.
Begins(p) ==
    LET k == procs'[p]
    IN  /\ k \in Proc /\ k.todo \in NewLists /\ k.pc \notin {"absent", "creating", "binding"}
        /\ k.pc \in {"reading", "signaling"} => k.todo = <<>>
        /\ job.status \notin Unborn \/ (p \in Cancels /\ k.todo \in {<<>>, <<"Cancel">>})
        /\ p \in Runs => job.direction = "send"
        /\ job.direction = "send" => k.n <= told'
        /\ k.todo = <<"completeTransferJob">> => job.direction = "send" \/ wrote'
        /\ k.todo = <<"handleRunTransferError">> => p \in Runs /\ k.pc = "erring"
        /\ k.todo = <<"failTransferJob">> => p = Loop \/ k.real
        /\ Fair(p)'

\* A goroutine with nothing left to do, for one.
LEMMA IdleBegins ==
    ASSUME NEW p \in Procs, procs'[p] \in Proc, procs'[p].todo = <<>>,
           procs'[p].pc \notin {"absent", "creating", "binding", "erring", "handling"},
           job.status \notin Unborn \/ p \in Cancels,
           p \in Runs => job.direction = "send",
           job.direction = "send" => procs'[p].n <= told'
    PROVE  Begins(p)
<1>1. Fair(p)'
  BY DEF Fair
<1>2. <<>> \in NewLists /\ <<>> # <<"completeTransferJob">> /\ <<>> # <<"failTransferJob">>
      /\ <<>> # <<"handleRunTransferError">>
  BY DEF NewLists
<1> QED
  BY <1>1, <1>2 DEF Begins

\* It is sound then.
LEMMA BeginsIsSound ==
    ASSUME NEW p \in Procs, Begins(p), UNCHANGED job
    PROVE  Sound(p)' /\ procs'[p].pc # "absent" /\ (job.status # "none" \/ p # FirstRun)
<1> DEFINE k == procs'[p]
<1>1. k \in Proc /\ k.todo \in NewLists
  BY DEF Begins
<1>2. /\ Paired(k.todo)
      /\ Range(k.todo) \cap {"Complete", "completeTransferring", "MarkOffered", "Fail",
                             "failJobIfMutable"} = {}
      /\ \A w \in {"handleRunTransferError", "failTransferJob", "completeTransferJob",
                   "MarkAcceptedOnce"} : w \in Range(k.todo) => k.todo = <<w>>
      /\ k.todo \in {<<>>, <<"Cancel">>} => Range(k.todo) \cap Helpers = {}
  BY <1>1, NewListFacts, Zenon
<1>3. Placed(p)'
  BY DEF Begins, Placed, Unborn
<1>4. Entitled(p)'
  BY <1>2 DEF Begins, Entitled
<1>5. Worded(p)'
  BY <1>2 DEF Begins, Worded
<1>6. job.status # "none" \/ p # FirstRun
  BY RunAssumption, ProcAssumption DEF Begins, Unborn
<1> QED
  BY <1>2, <1>3, <1>4, <1>5, <1>6 DEF Begins, Sound

Places == {"reading", "handling", "failing", "erring", "waiting", "starting", "streaming",
           "committing", "completing", "retrying", "ending", "cancelling", "applying", "returned"}

Follows == {"", "read", "dial", "return", "fail", "server", "local"}

\* The record Go gives a goroutine.
LEMMA GoFacts ==
    ASSUME IInv, NEW p \in Procs, NEW pc, NEW todo \in NewLists, NEW n \in 0..FileSize, NEW then,
           NEW real \in BOOLEAN, pc \in Places, then \in Follows,
           procs' = [procs EXCEPT ![p] = [pc |-> pc, todo |-> todo, n |-> n, err |-> FALSE,
                                          then |-> then, real |-> real]]
    PROVE  /\ procs' \in [Procs -> Proc] /\ \A q \in Procs \ {p} : procs'[q] = procs[q]
           /\ procs'[p] \in Proc
           /\ procs'[p].pc = pc /\ procs'[p].todo = todo /\ procs'[p].n = n
           /\ procs'[p].err = FALSE /\ procs'[p].then = then /\ procs'[p].real = real
<1> DEFINE k == [pc |-> pc, todo |-> todo, n |-> n, err |-> FALSE, then |-> then, real |-> real]
<1>1. procs \in [Procs -> Proc]
  BY DEF IInv, TypeOK, Proc, Words
<1>2. todo \in Seq(Words)
  BY NewListFacts
<1>3. k \in Proc /\ k.pc = pc /\ k.todo = todo /\ k.n = n /\ k.err = FALSE /\ k.then = then
      /\ k.real = real
  BY <1>2 DEF Proc, Places, Follows
<1>4. procs' = [procs EXCEPT ![p] = k]
  OBVIOUS
<1> HIDE DEF k
<1> QED
  BY <1>1, <1>3, <1>4

\* Taking a session out of the map, or leaving it there, keeps the types.
LEMMA Closing ==
    ASSUME IInv, closeLiveSession \/ UNCHANGED <<current, closed>>
    PROVE  current' \in Lives \cup {None} /\ closed' \subseteq Lives
BY DEF IInv, TypeOK, closeLiveSession

\* When one goroutine begins something and the histories grow, the step is a steady one.
LEMMA OneBegins ==
    ASSUME IInv, NEW p \in Procs, procs[p].todo = <<>>, Begins(p),
           procs' \in [Procs -> Proc], \A q \in Procs \ {p} : procs'[q] = procs[q],
           UNCHANGED <<job, touched, blame>>, owner' \in [Lives -> Runs \cup {None}],
           mailed' \in 0..MaxMail, current' \in Lives \cup {None}, closed' \subseteq Lives,
           told' \in told..FileSize, wrote' \in BOOLEAN, wrote => wrote'
    PROVE  IInv'
<1>1. Sound(p)' /\ procs'[p].pc # "absent" /\ (job.status # "none" \/ p # FirstRun)
  <2>1. UNCHANGED job
    OBVIOUS
  <2> QED
    BY <2>1, BeginsIsSound, Zenon
<1>2. Steady
  BY <1>1 DEF Steady, Typed
<1> QED
  BY <1>2, SteadyPreserves

-----------------------------------------------------------------------------
(* The local API.                                                          *)

\* What every step below starts from.
LEMMA Basics ==
    ASSUME IInv
    PROVE  /\ procs \in [Procs -> Proc] /\ FirstRun \in Procs /\ FirstRun \in Runs
           /\ Runs \subseteq Procs /\ Lives \subseteq Procs /\ Cancels \subseteq Procs /\ Loop \in Procs
           /\ FileSize \in Nat /\ told \in 0..FileSize /\ told \in told..FileSize
           /\ 0 \in 0..FileSize /\ 0 <= told
           /\ job \in [direction : Directions, status : Statuses, progress : 0..FileSize,
                       bound : BOOLEAN, keyed : BOOLEAN]
           /\ job.direction \in {"send", "receive"} /\ job.status \in Statuses
           /\ wrote \in BOOLEAN
           /\ mailed \in 0..MaxMail /\ MaxMail \in Nat /\ (mailed < MaxMail => mailed + 1 \in 0..MaxMail)
           /\ owner \in [Lives -> Runs \cup {None}]
           /\ current \in Lives \cup {None} /\ closed \subseteq Lives
           /\ \A p \in Procs : Sound(p) /\ procs[p] \in Proc
<1>1. procs \in [Procs -> Proc]
  BY DEF IInv, TypeOK, Proc, Words
<1>2. \A p \in Procs : Sound(p) /\ procs[p] \in Proc
  BY <1>1 DEF IInv
<1>3. job.direction \in {"send", "receive"} /\ job.status \in Statuses
  BY DirectionAssumption DEF IInv, TypeOK
<1>4. /\ FileSize \in Nat /\ told \in 0..FileSize /\ told \in told..FileSize
      /\ mailed \in 0..MaxMail /\ MaxMail \in Nat /\ (mailed < MaxMail => mailed + 1 \in 0..MaxMail)
      /\ 0 \in 0..FileSize /\ 0 <= told
  <2>1. told \in 0..FileSize /\ mailed \in 0..MaxMail
    BY DEF IInv, TypeOK
  <2> QED
    BY <2>1, SizeAssumption
<1> QED
  BY <1>1, <1>2, <1>3, <1>4, RunAssumption DEF IInv, TypeOK, Procs

\* Creating a send job keeps the invariant.
LEMMA CreateSendJobPreserves ==
    ASSUME IInv, CreateSendJob
    PROVE  IInv'
<1> DEFINE k == [pc |-> "creating", todo |-> <<>>, n |-> 0, err |-> FALSE, then |-> "", real |-> TRUE]
<1>1. /\ procs \in [Procs -> Proc] /\ FirstRun \in Procs /\ FirstRun \in Runs
      /\ FileSize \in Nat /\ told \in 0..FileSize
      /\ job \in [direction : Directions, status : Statuses, progress : 0..FileSize, bound : BOOLEAN,
                  keyed : BOOLEAN]
      /\ \A p \in Procs : Sound(p) /\ procs[p] \in Proc
  BY Basics
<1>2. job.direction = "send" /\ job.status = "none" /\ ~job.bound /\ job.progress = 0
  BY DEF CreateSendJob, IInv, Young
<1>3. /\ job' = [job EXCEPT !.status = "queued"] /\ procs' = [procs EXCEPT ![FirstRun] = k]
      /\ UNCHANGED <<touched, current, owner, closed, mailed, told, wrote, blame>>
  BY DEF CreateSendJob, Go
<1>4. k \in Proc /\ k.pc = "creating" /\ k.todo = <<>> /\ k.n = 0 /\ k.real = TRUE
  <2>1. <<>> \in Seq(Words) /\ 0 \in 0..FileSize
    BY <1>1
  <2> QED
    BY <2>1 DEF Proc
<1> HIDE DEF k
<1>5. /\ procs' \in [Procs -> Proc] /\ procs'[FirstRun] = k
      /\ \A q \in Procs \ {FirstRun} : procs'[q] = procs[q]
  BY <1>1, <1>3, <1>4
<1>6. /\ job'.direction = "send" /\ job'.status = "queued" /\ ~job'.bound /\ job'.progress = 0
      /\ job' \in [direction : Directions, status : Statuses, progress : 0..FileSize, bound : BOOLEAN,
                   keyed : BOOLEAN]
  BY <1>1, <1>2, <1>3 DEF Statuses, Open
<1>7. TypeOK'
  BY <1>3, <1>5, <1>6 DEF IInv, TypeOK, Proc, Words
<1>8. Young'
  BY <1>1, <1>3, <1>4, <1>5, <1>6 DEF Young
<1>9. InterruptedIsBrief' /\ RunsBlameFairly'
  BY <1>3, <1>6 DEF IInv, InterruptedIsBrief, RunsBlameFairly
<1>10. Sound(FirstRun)'
  <2>1. Range(procs'[FirstRun].todo) = {}
    BY <1>4, <1>5, ShortLists
  <2>2. Placed(FirstRun)'
    BY <1>4, <1>5, <1>6 DEF Placed
  <2>3. Entitled(FirstRun)' /\ Worded(FirstRun)'
    BY <1>1, <1>3, <1>4, <1>5, <2>1 DEF Entitled, Worded
  <2>4. Fair(FirstRun)' /\ Paired(procs[FirstRun].todo)'
    BY <1>4, <1>5 DEF Fair, Paired
  <2> QED
    BY <2>2, <2>3, <2>4 DEF Sound
<1>11. ASSUME NEW q \in Procs \ {FirstRun} PROVE Sound(q)'
  <2>1. Sound(q) /\ procs'[q] = procs[q] /\ job.status = "none"
    BY <1>1, <1>2, <1>5
  <2>2. Placed(q)' /\ Paired(procs[q].todo)'
    BY <1>2, <1>6, <2>1 DEF Sound, Placed, Unborn
  <2>3. Entitled(q)'
    BY <1>2, <1>3, <1>6, <2>1 DEF Sound, Entitled, Reported
  <2>4. Worded(q)'
    BY <1>6, <2>1 DEF Sound, Worded, Unborn, Terminal
  <2>5. Fair(q)'
    BY <2>1, ProcAssumption DEF Sound, Placed, Fair, Unborn
  <2> QED
    BY <2>2, <2>3, <2>4, <2>5 DEF Sound
<1> QED
  BY <1>7, <1>8, <1>9, <1>10, <1>11 DEF IInv

\* The answer to the create request keeps the invariant.
LEMMA CreateTransferAnsweredPreserves ==
    ASSUME IInv, CreateTransferAnswered
    PROVE  IInv'
<1>1. /\ procs \in [Procs -> Proc] /\ FirstRun \in Procs /\ FirstRun \in Runs
      /\ FileSize \in Nat /\ told \in 0..FileSize /\ told \in told..FileSize
      /\ \A p \in Procs : Sound(p) /\ procs[p] \in Proc
  BY Basics
<1>2. procs[FirstRun].pc = "creating" /\ procs[FirstRun].todo = <<>>
  BY DEF CreateTransferAnswered, At
<1>3. job.status # "none"
  BY <1>2 DEF IInv, Young
<1>4. PICK l \in Bindings :
          procs' = [procs EXCEPT ![FirstRun] = [pc |-> "binding", todo |-> l, n |-> 0, err |-> FALSE,
                                                then |-> "", real |-> TRUE]]
  BY DEF CreateTransferAnswered, Go, Bindings
<1>5. l \in Seq(Words) /\ "Interrupt" \notin Range(l) /\ "Complete" \notin Range(l)
      /\ Range(l) \cap Helpers = {} /\ "MarkAcceptedOnce" \notin Range(l)
  <2>1. Range(l) \subseteq {"Fail", "refuse", "AttachTransfer", "AttachTransferKey",
                            "AttachPublicLink", "MarkOffered"}
    BY ShortLists DEF Bindings
  <2>2. {"Fail", "refuse", "AttachTransfer", "AttachTransferKey", "AttachPublicLink",
         "MarkOffered"} \subseteq Words
    BY Vocabulary
  <2>3. l \in Seq(Words)
    BY BindingIsAccepted
  <2> QED
    BY <2>1, <2>3 DEF Helpers
<1>6. Paired(l)
  BY <1>5, ListFacts
<1> DEFINE k == [pc |-> "binding", todo |-> l, n |-> 0, err |-> FALSE, then |-> "", real |-> TRUE]
<1>7. k \in Proc /\ k.pc = "binding" /\ k.todo = l /\ k.n = 0 /\ k.real = TRUE
  <2>1. 0 \in 0..FileSize
    BY <1>1
  <2> QED
    BY <1>5, <2>1 DEF Proc
<1>8. procs' = [procs EXCEPT ![FirstRun] = k]
  BY <1>4
<1> HIDE DEF k
<1>9. /\ procs' \in [Procs -> Proc] /\ procs'[FirstRun] = k
      /\ \A q \in Procs \ {FirstRun} : procs'[q] = procs[q]
  BY <1>1, <1>7, <1>8
<1>10. UNCHANGED <<job, touched, current, owner, closed, mailed, told, wrote, blame>>
  BY DEF CreateTransferAnswered
<1>11. Sound(FirstRun)'
  <2>1. Sound(FirstRun)
    BY <1>1
  <2>2. Placed(FirstRun)'
    BY <1>1, <1>2, <1>7, <1>9, <1>10, <2>1 DEF Sound, Placed, Unborn
  <2>3. Entitled(FirstRun)'
    <3>1. Range(l) \cap {"completeTransferring", "completeTransferJob"} = {}
      BY <1>5 DEF Helpers
    <3> QED
      BY <1>1, <1>5, <1>7, <1>9, <1>10, <3>1 DEF Entitled
  <2>4. Worded(FirstRun)'
    <3>1. Range(l) \cap {"handleRunTransferError", "failTransferJob"} = {}
      BY <1>5 DEF Helpers
    <3> QED
      BY <1>5, <1>7, <1>9, <1>10, <3>1 DEF Worded
  <2>5. Fair(FirstRun)' /\ Paired(procs[FirstRun].todo)'
    BY <1>6, <1>7, <1>9 DEF Fair
  <2> QED
    BY <2>2, <2>3, <2>4, <2>5 DEF Sound
<1>12. Steady
  BY <1>1, <1>2, <1>3, <1>7, <1>9, <1>10, <1>11, Basics DEF Steady, Typed
<1> QED
  BY <1>12, SteadyPreserves

\* So does the return of createSendJob, with or without a RunTransfer.
LEMMA CreateSendTransferPreserves ==
    ASSUME IInv, CreateSendTransfer
    PROVE  IInv'
<1> DEFINE s == IF procs[FirstRun].err THEN "returned" ELSE "reading"
           k == [Absent EXCEPT !.pc = s]
<1>1. /\ procs \in [Procs -> Proc] /\ FirstRun \in Procs /\ FirstRun \in Runs
      /\ FileSize \in Nat /\ told \in 0..FileSize /\ told \in told..FileSize
      /\ job.direction \in {"send", "receive"}
      /\ \A p \in Procs : Sound(p) /\ procs[p] \in Proc
  BY Basics
<1>2. procs[FirstRun].pc = "binding" /\ procs[FirstRun].todo = <<>>
  BY DEF CreateSendTransfer, At
<1>3. job.status \notin Unborn
  <2>1. job.status # "none"
    BY <1>2 DEF IInv, Young
  <2>2. <<>> \notin Bindings
    BY DEF Bindings
  <2> QED
    BY <1>1, <1>2, <2>1, <2>2 DEF Sound, Placed, Unborn
<1>4. job.direction = "send"
  BY <1>1, <1>2 DEF Sound, Placed
<1>5. s \in {"reading", "returned"}
  OBVIOUS
<1> HIDE DEF s
<1>6. k \in Proc /\ k.pc = s /\ k.todo = <<>> /\ k.n = 0
  <2>1. <<>> \in Seq(Words) /\ 0 \in 0..FileSize
    BY <1>1
  <2>2. Absent \in Proc /\ Absent.todo = <<>> /\ Absent.n = 0
    BY <2>1 DEF Proc, Absent
  <2> QED
    BY <1>5, <2>2 DEF Proc
<1>7. procs' = [procs EXCEPT ![FirstRun] = k]
      /\ UNCHANGED <<job, touched, current, owner, closed, mailed, told, wrote, blame>>
  BY DEF CreateSendTransfer, s
<1> HIDE DEF k
<1>8. /\ procs' \in [Procs -> Proc] /\ procs'[FirstRun] = k
      /\ \A q \in Procs \ {FirstRun} : procs'[q] = procs[q]
  BY <1>1, <1>6, <1>7
<1>9. Begins(FirstRun)
  <2>1. procs'[FirstRun].n <= told'
    BY <1>1, <1>6, <1>7, <1>8
  <2> QED
    BY <1>1, <1>3, <1>4, <1>5, <1>6, <1>8, <2>1, IdleBegins DEF Unborn
<1> QED
  BY <1>2, <1>7, <1>8, <1>9, Basics, OneBegins

\* Steps of the local API and of the loop that move the job of nobody in particular: when no
\* goroutine changes but one that had nothing to do, the others stay sound if every run counts the
\* job as moved, or there is none.
LEMMA OthersStaySound ==
    ASSUME IInv, NEW q \in Procs, procs'[q] = procs[q], UNCHANGED <<told, wrote>>,
           job.status \notin Terminal, job'.direction = job.direction,
           job.status # "none" => job.status \notin Unborn, job'.status \notin Unborn,
           q \in Started => q \in touched'
    PROVE  Sound(q)'
<1>1. Sound(q)
  BY DEF IInv
<1>2. Placed(q)' /\ Paired(procs[q].todo)'
  BY <1>1 DEF Sound, Placed, Unborn
<1>3. Entitled(q)'
  BY <1>1 DEF Sound, Entitled, Reported
<1>4. Worded(q)'
  BY <1>1 DEF Sound, Worded
<1>5. Fair(q)'
  BY <1>1 DEF Fair, Excused, Started
<1> QED
  BY <1>2, <1>3, <1>4, <1>5 DEF Sound

\* Resuming a job keeps the invariant.
LEMMA handleResumeTransferPreserves ==
    ASSUME IInv, NEW r \in Runs, handleResumeTransfer(r)
    PROVE  IInv'
<1>1. /\ procs \in [Procs -> Proc] /\ FirstRun \in Procs /\ r \in Procs
      /\ FileSize \in Nat /\ told \in 0..FileSize /\ told \in told..FileSize /\ 0 <= told
      /\ 0 \in 0..FileSize
      /\ job \in [direction : Directions, status : Statuses, progress : 0..FileSize, bound : BOOLEAN,
                  keyed : BOOLEAN]
      /\ \A p \in Procs : Sound(p) /\ procs[p] \in Proc
  BY Basics
<1>2. /\ job.direction = "send" /\ r # FirstRun /\ procs[r].pc = "absent" /\ job.status = "retryable"
      /\ job' = [job EXCEPT !.status = "connecting"] /\ touched' = touched \cup Started
      /\ Go(r, "reading", <<>>, 0, "", FALSE)
      /\ UNCHANGED <<current, owner, closed, mailed, told, wrote, blame>>
  BY <1>1 DEF handleResumeTransfer, ClaimRetryable, transition
<1>3. <<>> \in NewLists /\ "reading" \in Places /\ "" \in Follows /\ FALSE \in BOOLEAN
  BY DEF NewLists, Places, Follows
<1>4. /\ procs' \in [Procs -> Proc] /\ \A q \in Procs \ {r} : procs'[q] = procs[q]
      /\ procs'[r] \in Proc
      /\ procs'[r].pc = "reading" /\ procs'[r].todo = <<>> /\ procs'[r].n = 0
  BY <1>1, <1>2, <1>3, GoFacts, Zenon DEF Go
<1>5. /\ job'.direction = "send" /\ job'.status = "connecting" /\ job'.bound = job.bound
      /\ job'.progress = job.progress
      /\ job' \in [direction : Directions, status : Statuses, progress : 0..FileSize, bound : BOOLEAN,
                   keyed : BOOLEAN]
  BY <1>1, <1>2 DEF Statuses, Open
<1>6. TypeOK'
  <2>1. touched' \subseteq Runs
    BY <1>2 DEF IInv, TypeOK, Started
  <2> QED
    BY <1>2, <1>4, <1>5, <2>1 DEF IInv, TypeOK, Proc, Words
<1>7. Young'
  <2>1. procs'[FirstRun] = procs[FirstRun]
    BY <1>1, <1>2, <1>4
  <2> QED
    BY <1>2, <1>5, <2>1 DEF IInv, Young
<1>8. InterruptedIsBrief' /\ RunsBlameFairly'
  BY <1>2, <1>5 DEF IInv, InterruptedIsBrief, RunsBlameFairly
<1>9. Sound(r)'
  <2>1. Range(procs'[r].todo) = {}
    BY <1>4, ShortLists
  <2>2. Placed(r)' /\ Paired(procs[r].todo)' /\ Fair(r)'
    BY <1>4, <1>5 DEF Placed, Paired, Fair, Unborn
  <2>3. Entitled(r)' /\ Worded(r)'
    BY <1>1, <1>2, <1>4, <2>1 DEF Entitled, Worded
  <2> QED
    BY <2>2, <2>3 DEF Sound
<1>10. ASSUME NEW q \in Procs \ {r} PROVE Sound(q)'
  BY <1>2, <1>4, <1>5, OthersStaySound DEF Unborn, Terminal
<1> QED
  BY <1>6, <1>7, <1>8, <1>9, <1>10 DEF IInv

\* An offer keeps the invariant, whether it is the first of its transfer or not.
LEMMA handleTransferOfferPreserves ==
    ASSUME IInv, handleTransferOffer
    PROVE  IInv'
<1>1. /\ procs \in [Procs -> Proc] /\ FirstRun \in Procs /\ Loop \in Procs /\ Loop \notin Runs
      /\ FileSize \in Nat /\ told \in 0..FileSize /\ told \in told..FileSize /\ wrote \in BOOLEAN
      /\ 0 \in 0..FileSize
      /\ job \in [direction : Directions, status : Statuses, progress : 0..FileSize, bound : BOOLEAN,
                  keyed : BOOLEAN]
      /\ current \in Lives \cup {None} /\ owner \in [Lives -> Runs \cup {None}]
      /\ closed \subseteq Lives /\ (mailed < MaxMail => mailed + 1 \in 0..MaxMail)
      /\ \A p \in Procs : Sound(p) /\ procs[p] \in Proc
  BY Basics, ProcAssumption
<1>2. /\ job.direction = "receive" /\ mailed' \in 0..MaxMail
      /\ UNCHANGED <<touched, current, owner, closed, told, wrote, blame>>
  BY <1>1 DEF handleTransferOffer
<1>3. CASE job.bound
  <2>1. job' = job /\ procs' = procs
    BY <1>3 DEF handleTransferOffer
  <2>2. Steady
    BY <1>1, <1>2, <2>1 DEF Steady, Typed
  <2> QED
    BY <2>2, SteadyPreserves
<1>4. CASE ~job.bound
  <2> DEFINE l == <<"AttachTransferKey", "MarkAccepted">>
             k == [pc |-> "handling", todo |-> l, n |-> 0, err |-> FALSE, then |-> "read",
                   real |-> FALSE]
  <2>1. /\ job' = [job EXCEPT !.status = "offered", !.bound = TRUE] /\ job.status = "none"
        /\ procs' = [procs EXCEPT ![Loop] = k]
    BY <1>2, <1>4 DEF handleTransferOffer, Go, IInv, Young
  <2>2. /\ job'.direction = "receive" /\ job'.status = "offered" /\ job'.bound = TRUE
        /\ job' \in [direction : Directions, status : Statuses, progress : 0..FileSize, bound : BOOLEAN,
                     keyed : BOOLEAN]
    BY <1>1, <1>2, <2>1 DEF Statuses, Open
  <2>3. l \in Seq(Words) /\ Range(l) = {"AttachTransferKey", "MarkAccepted"}
    BY ShortLists, Vocabulary
  <2>4. Paired(l) /\ Range(l) \cap Helpers = {} /\ l # <<"MarkAcceptedOnce">>
    BY <2>3, ListFacts, Vocabulary
  <2> HIDE DEF l
  <2>5. k \in Proc /\ k.pc = "handling" /\ k.todo = l
    BY <1>1, <2>3 DEF Proc
  <2> HIDE DEF k
  <2>6. /\ procs' \in [Procs -> Proc] /\ procs'[Loop] = k
        /\ \A q \in Procs \ {Loop} : procs'[q] = procs[q]
    BY <1>1, <2>1, <2>5
  <2>7. TypeOK'
    BY <1>2, <2>2, <2>6 DEF IInv, TypeOK, Proc, Words
  <2>8. Young' /\ InterruptedIsBrief' /\ RunsBlameFairly'
    BY <1>2, <2>2 DEF IInv, Young, InterruptedIsBrief, RunsBlameFairly
  <2>9. \A q \in Procs : q \notin Started
    BY <1>1, <1>2 DEF Started, Sound, Placed
  <2>10. ASSUME NEW q \in Procs \ {Loop} PROVE Sound(q)'
    BY <1>2, <2>1, <2>2, <2>6, <2>9, OthersStaySound DEF Unborn, Terminal
  <2>11. Sound(Loop)'
    <3>1. Placed(Loop)'
      BY <1>1, <2>2, <2>5, <2>6 DEF Placed, Unborn
    <3>2. Entitled(Loop)' /\ Worded(Loop)'
      BY <2>2, <2>3, <2>4, <2>5, <2>6 DEF Entitled, Worded
    <3>3. Fair(Loop)'
      BY <1>1 DEF Fair
    <3> QED
      BY <2>4, <2>5, <2>6, <3>1, <3>2, <3>3 DEF Sound
  <2> QED
    BY <2>7, <2>8, <2>10, <2>11 DEF IInv
<1> QED
  BY <1>1, <1>3, <1>4

\* The cancel requests keep it.
LEMMA CancelPreserves ==
    ASSUME IInv, NEW c \in Cancels, CancelStep(c)
    PROVE  IInv'
<1>1. /\ c \in Procs /\ c \notin Runs /\ c # Loop
      /\ 0 \in 0..FileSize /\ 0 <= told /\ told \in told..FileSize /\ wrote \in BOOLEAN
      /\ current \in Lives \cup {None} /\ owner \in [Lives -> Runs \cup {None}]
      /\ closed \subseteq Lives /\ mailed \in 0..MaxMail /\ (mailed < MaxMail => mailed + 1 \in 0..MaxMail)
      /\ \A p \in Procs : Sound(p) /\ procs[p] \in Proc
  BY Basics, ProcAssumption
<1>2. /\ <<>> \in NewLists /\ <<"Cancel">> \in NewLists /\ FALSE \in BOOLEAN
      /\ {"returned", "cancelling", "applying"} \subseteq Places
      /\ {"", "server", "local"} \subseteq Follows
  BY DEF NewLists, Places, Follows
<1>3. ASSUME NEW pc \in {"returned", "cancelling", "applying"}, NEW todo \in {<<>>, <<"Cancel">>},
             NEW then \in {"", "server", "local"},
             procs' = [procs EXCEPT ![c] = [pc |-> pc, todo |-> todo, n |-> 0, err |-> FALSE,
                                            then |-> then, real |-> FALSE]],
             procs[c].todo = <<>>, UNCHANGED <<job, touched, owner, told, wrote, blame>>,
             mailed' \in 0..MaxMail, closeLiveSession \/ UNCHANGED <<current, closed>>
      PROVE  IInv'
  <2>1. /\ procs' \in [Procs -> Proc] /\ \A q \in Procs \ {c} : procs'[q] = procs[q]
        /\ procs'[c] \in Proc
        /\ procs'[c].pc = pc /\ procs'[c].todo = todo /\ procs'[c].n = 0
    <3>1. pc \in Places /\ then \in Follows /\ todo \in NewLists
      BY <1>2
    <3> QED
      BY <1>1, <1>2, <1>3, <3>1, GoFacts, Zenon
  <2>2. Begins(c)
    <3>1. Fair(c)'
      BY <1>1 DEF Fair
    <3>2. todo \notin {<<"completeTransferJob">>, <<"failTransferJob">>, <<"handleRunTransferError">>}
      BY Singletons
    <3> QED
      BY <1>1, <1>2, <1>3, <2>1, <3>1, <3>2 DEF Begins
  <2>3. current' \in Lives \cup {None} /\ closed' \subseteq Lives
    BY <1>3, Closing DEF closeLiveSession
  <2> QED
    BY <1>1, <1>3, <2>1, <2>2, <2>3, OneBegins
<1>4. CASE handleCancelTransfer(c)
  <2>1. procs[c].todo = <<>> /\ mailed' \in 0..MaxMail
    BY <1>1, <1>4 DEF handleCancelTransfer, Sound, Placed
  <2>2. UNCHANGED <<job, touched, owner, told, wrote, blame>>
        /\ (closeLiveSession \/ UNCHANGED <<current, closed>>)
    BY <1>4 DEF handleCancelTransfer
  <2>3. \E pc \in {"returned", "cancelling"}, then \in {"", "server", "local"} :
            procs' = [procs EXCEPT ![c] = [pc |-> pc, todo |-> <<>>, n |-> 0, err |-> FALSE,
                                           then |-> then, real |-> FALSE]]
    BY <1>4 DEF handleCancelTransfer, Go
  <2> QED
    BY <1>3, <2>1, <2>2, <2>3
<1>5. CASE CancelTransfer(c)
  <2>1. procs[c].todo = <<>> /\ UNCHANGED <<job, touched, current, owner, closed, mailed, told, wrote, blame>>
    BY <1>5 DEF CancelTransfer, At
  <2>2. \E pc \in {"returned", "applying"}, todo \in {<<>>, <<"Cancel">>} :
            procs' = [procs EXCEPT ![c] = [pc |-> pc, todo |-> todo, n |-> 0, err |-> FALSE,
                                           then |-> "", real |-> FALSE]]
    BY <1>5 DEF CancelTransfer, Go
  <2> QED
    BY <1>1, <1>3, <2>1, <2>2
<1>6. CASE CancelReturns(c)
  <2>1. procs[c].todo = <<>> /\ UNCHANGED <<job, touched, current, owner, closed, mailed, told, wrote, blame>>
    BY <1>6 DEF CancelReturns, At
  <2>2. procs' = [procs EXCEPT ![c] = [pc |-> "returned", todo |-> <<>>, n |-> 0, err |-> FALSE,
                                       then |-> "", real |-> FALSE]]
    BY <1>6 DEF CancelReturns, Go
  <2> QED
    BY <1>1, <1>3, <2>1, <2>2
<1> QED
  BY <1>4, <1>5, <1>6 DEF CancelStep

\* A goroutine with nothing left to do begins one of the lists: what has to be known of it.
LEMMA GoPreserves ==
    ASSUME IInv, NEW p \in Procs, NEW pc \in Places, NEW todo \in NewLists, NEW n \in 0..FileSize,
           NEW then \in Follows, NEW real \in BOOLEAN, Go(p, pc, todo, n, then, real),
           procs[p].todo = <<>>, UNCHANGED <<job, touched, blame>>,
           owner' \in [Lives -> Runs \cup {None}], mailed' \in 0..MaxMail,
           current' \in Lives \cup {None}, closed' \subseteq Lives,
           told' \in told..FileSize, wrote' \in BOOLEAN, wrote => wrote',
           job.status \notin Unborn, pc = "reading" => todo = <<>>,
           p \in Runs => job.direction = "send",
           job.direction = "send" => n <= told',
           todo = <<"completeTransferJob">> => job.direction = "send" \/ wrote',
           todo = <<"handleRunTransferError">> => p \in Runs /\ pc = "erring",
           todo = <<"failTransferJob">> => p = Loop \/ real,
           p \in Runs /\ pc \in {"handling", "erring"} /\ ~real =>
              \/ Excused(p)
              \/ /\ pc = "handling"
                 /\ then = "fail" => todo \in {<<"UpdateProgress", "retryTransferJob">>, <<"Cancel">>}
                 /\ todo # <<>> => \/ Range(todo) \subseteq Helpers
                                   \/ Head(todo) \in DOMAIN Moves /\ Expected(Head(todo))
    PROVE  IInv'
<1>1. /\ procs' \in [Procs -> Proc] /\ \A q \in Procs \ {p} : procs'[q] = procs[q]
      /\ procs'[p] \in Proc
      /\ procs'[p].pc = pc /\ procs'[p].todo = todo /\ procs'[p].n = n
      /\ procs'[p].err = FALSE /\ procs'[p].then = then /\ procs'[p].real = real
  BY GoFacts, Zenon DEF Go
<1>2. Fair(p)'
  BY <1>1 DEF Fair, Excused, Expected
<1>3. Begins(p)
  BY <1>1, <1>2 DEF Begins, Places
<1> QED
  BY <1>1, <1>3, OneBegins

-----------------------------------------------------------------------------
(* Messages.                                                               *)

\* Whoever reads a message has nothing left to do, and the job has been offered or accepted.
LEMMA ReaderFacts ==
    ASSUME IInv, NEW h \in Readers, NEW type, Arrives(h, type)
    PROVE  /\ h \in Procs /\ procs[h].todo = <<>> /\ job.status \notin Unborn
           /\ h \in Runs => job.direction = "send"
           /\ mailed' \in 0..MaxMail
<1>1. /\ h \in Procs /\ FirstRun \in Procs /\ FirstRun \notin Cancels /\ FirstRun # Loop
      /\ (mailed < MaxMail => mailed + 1 \in 0..MaxMail) /\ job.direction \in {"send", "receive"}
      /\ \A p \in Procs : Sound(p)
  BY Basics, RunAssumption, ProcAssumption DEF Readers
<1>2. /\ procs[h].pc = "reading" /\ procs[h].todo = <<>> /\ job.bound
      /\ job.direction = "send" => procs[FirstRun].pc \notin {"creating", "binding"}
      /\ mailed' \in 0..MaxMail
  BY <1>1 DEF Arrives, Sent, At
<1>3. job.status # "none" /\ (job.status = "queued" => job.direction = "send")
  BY <1>2 DEF IInv, Young
<1>4. job.status # "queued"
  BY <1>1, <1>2, <1>3 DEF Sound, Placed, IInv, Young, Unborn
<1>5. h \in Runs => job.direction = "send"
  BY <1>1, <1>2 DEF Sound, Placed
<1> QED
  BY <1>1, <1>2, <1>3, <1>4, <1>5 DEF Unborn

\* A message taken keeps the invariant: its handler begins with helpers, or with a call that any
\* open job accepts.
LEMMA TakePreserves ==
    ASSUME IInv, NEW h \in Readers, NEW type, NEW todo \in NewLists, NEW n \in 0..FileSize,
           NEW then \in Follows, NEW real \in BOOLEAN, Take(h, type, todo, n, then, real),
           UNCHANGED <<job, touched, owner, wrote, blame>>, told' \in told..FileSize,
           closeLiveSession \/ UNCHANGED <<current, closed>>,
           job.direction = "send" => n <= told',
           todo # <<"handleRunTransferError">>,
           todo = <<"completeTransferJob">> => job.direction = "send",
           todo = <<"failTransferJob">> => real,
           job.direction = "send" /\ ~real =>
              /\ then = "fail" => todo \in {<<"UpdateProgress", "retryTransferJob">>, <<"Cancel">>}
              /\ \/ Range(todo) \subseteq Helpers
                 \/ Head(todo) \in {"UpdateProgress", "Cancel", "MarkAcceptedOnce", "refuse"}
    PROVE  IInv'
<1>1. /\ h \in Procs /\ procs[h].todo = <<>> /\ job.status \notin Unborn
      /\ h \in Runs => job.direction = "send"
      /\ mailed' \in 0..MaxMail
  BY ReaderFacts, Zenon DEF Take
<1>2. Go(h, "handling", todo, n, then, real)
  BY DEF Take
<1>3. current' \in Lives \cup {None} /\ closed' \subseteq Lives
  BY Closing
<1>4. wrote' \in BOOLEAN /\ (wrote => wrote') /\ owner' \in [Lives -> Runs \cup {None}]
  BY Basics
<1>5. ASSUME NEW call \in {"UpdateProgress", "Cancel", "MarkAcceptedOnce", "refuse"},
             job.status \notin Terminal
      PROVE  call \in DOMAIN Moves /\ Expected(call)
  <2>1. job.status \in Open
    BY <1>1, <1>5, Basics DEF Statuses, Unborn
  <2> QED
    BY <2>1, Acceptance, Vocabulary DEF Expected
<1>6. "handling" \in Places /\ "handling" # "reading"
  BY DEF Places
<1>7. h \in Runs /\ ~real =>
         \/ Excused(h)
         \/ /\ then = "fail" => todo \in {<<"UpdateProgress", "retryTransferJob">>, <<"Cancel">>}
            /\ todo # <<>> => \/ Range(todo) \subseteq Helpers
                              \/ Head(todo) \in DOMAIN Moves /\ Expected(Head(todo))
  BY <1>1, <1>5 DEF Excused
<1> QED
  BY <1>1, <1>2, <1>3, <1>4, <1>6, <1>7, GoPreserves

\* The lists that messages begin.
LEMMA MessageLists ==
    /\ {<<"MarkAcceptedOnce">>, <<"refuse">>, <<"markTransferStarted">>, <<"handleProgress">>,
        <<"UpdateProgress", "retryTransferJob">>, <<"retryTransferJob">>,
        <<"completeTransferJob">>, <<"failTransferJob">>, <<"Cancel">>} \subseteq NewLists
    /\ \A w \in {"markTransferStarted", "handleProgress", "completeTransferJob"} :
          Range(<<w>>) \subseteq Helpers
    /\ \A w : Head(<<w>>) = w
    /\ Head(<<"UpdateProgress", "retryTransferJob">>) = "UpdateProgress"
    /\ {"read", "dial", "return", "fail"} \subseteq Follows /\ {TRUE, FALSE} \subseteq BOOLEAN
<1>1. \A w \in {"markTransferStarted", "handleProgress", "completeTransferJob"} :
          Range(<<w>>) \subseteq Helpers
  BY ShortLists DEF Helpers
<1> QED
  BY <1>1 DEF NewLists, Follows

\* Every message but an answer keeps the invariant.
LEMMA MessagePreserves ==
    ASSUME IInv, NEW h \in Readers,
           \/ handleAccepted(h) \/ handleStarted(h) \/ handleTransferProgress(h)
           \/ handleTransferRetryable(h) \/ handleCompleted(h) \/ handleFailed(h)
           \/ handleCancelled(h)
    PROVE  IInv'
<1>1. /\ FileSize \in Nat /\ told \in 0..FileSize /\ told \in told..FileSize /\ 0 \in 0..FileSize
      /\ 0 <= told /\ job.direction \in {"send", "receive"}
  BY Basics
<1>2. ASSUME NEW n \in 0..FileSize, told' = IF n \in told..FileSize THEN n ELSE told
      PROVE  told' \in told..FileSize /\ n <= told'
  BY <1>1, <1>2
<1>3. told' = told => told' \in told..FileSize /\ 0 <= told'
  BY <1>1
<1>4. CASE handleAccepted(h)
  <2>1. /\ Take(h, "accepted", <<"MarkAcceptedOnce">>, 0, "dial", FALSE)
        /\ UNCHANGED <<job, touched, current, owner, closed, told, wrote, blame>>
    BY <1>4 DEF handleAccepted
  <2>2. /\ <<"MarkAcceptedOnce">> \in NewLists /\ "dial" \in Follows /\ FALSE \in BOOLEAN
        /\ <<"MarkAcceptedOnce">> \notin {<<"handleRunTransferError">>, <<"completeTransferJob">>,
                                          <<"failTransferJob">>}
        /\ Head(<<"MarkAcceptedOnce">>) = "MarkAcceptedOnce"
    BY MessageLists, Singletons
  <2> QED
    BY <1>1, <1>3, <2>1, <2>2, TakePreserves
<1>5. CASE handleStarted(h)
  <2>1. /\ Take(h, "started", <<"markTransferStarted">>, 0, "read", FALSE)
        /\ UNCHANGED <<job, touched, current, owner, closed, told, wrote, blame>>
    BY <1>5 DEF handleStarted
  <2>2. /\ <<"markTransferStarted">> \in NewLists /\ "read" \in Follows /\ FALSE \in BOOLEAN
        /\ <<"markTransferStarted">> \notin {<<"handleRunTransferError">>, <<"completeTransferJob">>,
                                             <<"failTransferJob">>}
        /\ Range(<<"markTransferStarted">>) \subseteq Helpers
    BY MessageLists, Singletons
  <2> QED
    BY <1>1, <1>3, <2>1, <2>2, TakePreserves
<1>6. CASE handleTransferProgress(h)
  <2>1. PICK n \in 1..FileSize : /\ Take(h, "progress", <<"handleProgress">>, n, "read", FALSE)
                                 /\ told' = IF n \in told..FileSize THEN n ELSE told
    BY <1>6 DEF handleTransferProgress
  <2>2. /\ <<"handleProgress">> \in NewLists /\ "read" \in Follows /\ FALSE \in BOOLEAN
        /\ <<"handleProgress">> \notin {<<"handleRunTransferError">>, <<"completeTransferJob">>,
                                        <<"failTransferJob">>}
        /\ Range(<<"handleProgress">>) \subseteq Helpers
    BY MessageLists, Singletons
  <2>3. n \in 0..FileSize /\ UNCHANGED <<job, touched, current, owner, closed, wrote, blame>>
    BY <1>1, <1>6 DEF handleTransferProgress
  <2> QED
    BY <1>2, <2>1, <2>2, <2>3, TakePreserves
<1>7. CASE handleTransferRetryable(h)
  <2> DEFINE l == IF job.direction = "send" THEN <<"UpdateProgress", "retryTransferJob">>
                                            ELSE <<"retryTransferJob">>
  <2>1. PICK n \in 0..FileSize : /\ Take(h, "retryable", l, n, "fail", FALSE)
                                 /\ told' = IF n \in told..FileSize THEN n ELSE told
    BY <1>7 DEF handleTransferRetryable
  <2>2. /\ l \in NewLists /\ "fail" \in Follows /\ FALSE \in BOOLEAN
        /\ l \notin {<<"handleRunTransferError">>, <<"completeTransferJob">>, <<"failTransferJob">>}
        /\ job.direction = "send" => /\ l = <<"UpdateProgress", "retryTransferJob">>
                                     /\ Head(l) = "UpdateProgress"
    BY MessageLists, Singletons
  <2>3. closeLiveSession /\ UNCHANGED <<job, touched, owner, wrote, blame>>
    BY <1>7 DEF handleTransferRetryable
  <2> HIDE DEF l
  <2> QED
    BY <1>2, <2>1, <2>2, <2>3, TakePreserves
<1>8. CASE handleCompleted(h)
  <2> DEFINE l == IF job.direction = "send" THEN <<"completeTransferJob">> ELSE <<"refuse">>
  <2>1. /\ Take(h, "completed", l, 0, "return", FALSE)
        /\ UNCHANGED <<job, touched, current, owner, closed, told, wrote, blame>>
    BY <1>8 DEF handleCompleted
  <2>2. /\ l \in NewLists /\ "return" \in Follows /\ FALSE \in BOOLEAN
        /\ l \notin {<<"handleRunTransferError">>, <<"failTransferJob">>}
        /\ job.direction = "send" => Range(l) \subseteq Helpers
        /\ l = <<"completeTransferJob">> => job.direction = "send"
    BY MessageLists, Singletons
  <2> HIDE DEF l
  <2> QED
    BY <1>1, <1>3, <2>1, <2>2, TakePreserves
<1>9. CASE handleFailed(h)
  <2>1. PICK type \in {"failed", "denied", "expired"} :
            Take(h, type, <<"failTransferJob">>, 0, "fail", TRUE)
    BY <1>9 DEF handleFailed
  <2>2. closeLiveSession /\ UNCHANGED <<job, touched, owner, told, wrote, blame>>
    BY <1>9 DEF handleFailed
  <2>3. /\ <<"failTransferJob">> \in NewLists /\ "fail" \in Follows /\ TRUE \in BOOLEAN
        /\ <<"failTransferJob">> \notin {<<"handleRunTransferError">>, <<"completeTransferJob">>}
    BY MessageLists, Singletons
  <2> QED
    BY <1>1, <1>3, <2>1, <2>2, <2>3, TakePreserves
<1>10. CASE handleCancelled(h)
  <2>1. /\ Take(h, "cancelled", <<"Cancel">>, 0, "fail", FALSE)
        /\ closeLiveSession /\ UNCHANGED <<job, touched, owner, told, wrote, blame>>
    BY <1>10 DEF handleCancelled
  <2>2. /\ <<"Cancel">> \in NewLists /\ "fail" \in Follows /\ FALSE \in BOOLEAN
        /\ <<"Cancel">> \notin {<<"handleRunTransferError">>, <<"completeTransferJob">>,
                                <<"failTransferJob">>}
        /\ Head(<<"Cancel">>) = "Cancel"
    BY MessageLists, Singletons
  <2> QED
    BY <1>1, <1>3, <2>1, <2>2, TakePreserves
<1> QED
  BY <1>4, <1>5, <1>6, <1>7, <1>8, <1>9, <1>10

\* A session whose goroutine has not been started yet moves on with nothing to do.
LEMMA SessionMoves ==
    ASSUME IInv, NEW g \in Lives, procs[g].pc \in {"absent", "signaling"},
           NEW pc \in {"signaling", "waiting"}, procs'[g] = [procs[g] EXCEPT !.pc = pc],
           job.status \notin Unborn, told' \in told..FileSize
    PROVE  /\ g \in Procs /\ g \notin Runs /\ g # Loop /\ procs[g].todo = <<>>
           /\ procs'[g] \in Proc /\ Begins(g)
<1>1. /\ g \in Procs /\ g \notin Runs /\ g # Loop /\ Sound(g) /\ procs[g] \in Proc
      /\ FileSize \in Nat /\ told \in 0..FileSize
  BY Basics, ProcAssumption
<1>2. procs[g].todo = <<>> /\ (job.direction = "send" => procs[g].n <= told) /\ procs[g].n \in 0..FileSize
  BY <1>1 DEF Sound, Placed, Entitled, Proc
<1>3. /\ procs'[g] \in Proc /\ procs'[g].pc = pc /\ procs'[g].todo = <<>>
      /\ procs'[g].n = procs[g].n
  BY <1>1, <1>2 DEF Proc
<1>4. job.direction = "send" => procs'[g].n <= told'
  BY <1>1, <1>2, <1>3
<1>5. procs'[g].pc \notin {"absent", "creating", "binding", "erring", "handling"}
  BY <1>3
<1> QED
  BY <1>1, <1>2, <1>3, <1>4, <1>5, IdleBegins, Zenon

\* An answer keeps the invariant, expected or not.
LEMMA handleWebRTCAnswerPreserves ==
    ASSUME IInv, NEW h \in Readers, handleWebRTCAnswer(h)
    PROVE  IInv'
<1>1. /\ told \in told..FileSize /\ 0 \in 0..FileSize /\ 0 <= told /\ wrote \in BOOLEAN
      /\ current \in Lives \cup {None} /\ owner \in [Lives -> Runs \cup {None}]
      /\ closed \subseteq Lives /\ procs \in [Procs -> Proc]
      /\ UNCHANGED <<job, touched, current, owner, closed, told, wrote, blame>>
  BY Basics DEF handleWebRTCAnswer
<1>2. CASE AnswerExpected /\ Arrives(h, "answer") /\ procs' = [procs EXCEPT ![current].pc = "waiting"]
  <2>1. current \in Lives /\ procs[current].pc = "signaling"
    BY <1>1, <1>2 DEF AnswerExpected
  <2>2. job.status \notin Unborn /\ mailed' \in 0..MaxMail
    BY <1>2, ReaderFacts
  <2>3. /\ procs'[current] = [procs[current] EXCEPT !.pc = "waiting"]
        /\ \A q \in Procs \ {current} : procs'[q] = procs[q]
    BY <1>1, <1>2, <2>1 DEF Procs
  <2>4. /\ current \in Procs /\ procs[current].todo = <<>> /\ procs'[current] \in Proc
        /\ Begins(current)
    BY <1>1, <2>1, <2>2, <2>3, SessionMoves
  <2>5. procs' \in [Procs -> Proc]
    BY <1>1, <1>2, <2>3, <2>4
  <2> QED
    BY <1>1, <2>2, <2>3, <2>4, <2>5, OneBegins
<1>3. CASE Take(h, "answer", <<"refuse">>, 0, "read", FALSE)
  <2>1. /\ <<"refuse">> \in NewLists /\ "read" \in Follows /\ FALSE \in BOOLEAN
        /\ <<"refuse">> \notin {<<"handleRunTransferError">>, <<"completeTransferJob">>,
                                <<"failTransferJob">>}
        /\ Head(<<"refuse">>) = "refuse"
    BY MessageLists, Singletons
  <2> QED
    BY <1>1, <1>3, <2>1, TakePreserves
<1> QED
  BY <1>2, <1>3 DEF handleWebRTCAnswer

\* So does an offer, which starts a live receiver or is refused.
LEMMA handleWebRTCOfferPreserves ==
    ASSUME IInv, handleWebRTCOffer
    PROVE  IInv'
<1>1. /\ told \in told..FileSize /\ 0 \in 0..FileSize /\ 0 <= told /\ wrote \in BOOLEAN /\ owner \in [Lives -> Runs \cup {None}]
      /\ closed \subseteq Lives /\ procs \in [Procs -> Proc]
      /\ UNCHANGED <<job, touched, owner, closed, told, wrote, blame>>
  BY Basics DEF handleWebRTCOffer
<1>2. Loop \in Readers
  BY DEF Readers
<1>3. ASSUME NEW g \in Lives, procs[g].pc = "absent", Arrives(Loop, "webrtc_offer"),
             procs' = [procs EXCEPT ![g].pc = "waiting"], current' = g
      PROVE  IInv'
  <2>1. job.status \notin Unborn /\ mailed' \in 0..MaxMail
    BY <1>2, <1>3, ReaderFacts
  <2>2. /\ procs'[g] = [procs[g] EXCEPT !.pc = "waiting"]
        /\ \A q \in Procs \ {g} : procs'[q] = procs[q]
    BY <1>1, <1>3 DEF Procs
  <2>3. g \in Procs /\ procs[g].todo = <<>> /\ procs'[g] \in Proc /\ Begins(g)
    BY <1>1, <1>3, <2>1, <2>2, SessionMoves
  <2>4. procs' \in [Procs -> Proc]
    BY <1>1, <1>3, <2>2, <2>3
  <2>5. current' \in Lives \cup {None}
    BY <1>3
  <2> QED
    BY <1>1, <2>1, <2>2, <2>3, <2>4, <2>5, OneBegins
<1>4. CASE Take(Loop, "webrtc_offer", <<"refuse">>, 0, "read", FALSE) /\ UNCHANGED current
  <2>1. /\ <<"refuse">> \in NewLists /\ "read" \in Follows /\ FALSE \in BOOLEAN
        /\ <<"refuse">> \notin {<<"handleRunTransferError">>, <<"completeTransferJob">>,
                                <<"failTransferJob">>}
        /\ Head(<<"refuse">>) = "refuse"
    BY MessageLists, Singletons
  <2> QED
    BY <1>1, <1>2, <1>4, <2>1, TakePreserves
<1> QED
  BY <1>3, <1>4 DEF handleWebRTCOffer

\* A goroutine at work on messages: the job has been offered or accepted.
LEMMA AtWork ==
    ASSUME IInv, NEW p \in Procs, p \notin Cancels, NEW pc, At(p, pc),
           pc \notin {"absent", "creating", "binding"}, p # Loop \/ pc # "reading"
    PROVE  /\ procs[p].pc = pc /\ procs[p].todo = <<>> /\ job.status \notin Unborn
           /\ p \in Runs => job.direction = "send"
           /\ procs[p] \in Proc /\ Sound(p)
<1>1. Sound(p) /\ procs[p] \in Proc /\ job.direction \in {"send", "receive"}
  BY Basics
<1> QED
  BY <1>1 DEF At, Sound, Placed

\* Making an offer keeps the invariant, on the session there is or on a new one.
LEMMA startSenderWebRTCPreserves ==
    ASSUME IInv, NEW h \in Readers, startSenderWebRTC(h)
    PROVE  IInv'
<1> DEFINE run == IF h = Loop THEN None ELSE h
<1>1. /\ told \in told..FileSize /\ 0 \in 0..FileSize /\ 0 <= told /\ wrote \in BOOLEAN
      /\ current \in Lives \cup {None} /\ owner \in [Lives -> Runs \cup {None}]
      /\ closed \subseteq Lives /\ procs \in [Procs -> Proc] /\ mailed \in 0..MaxMail
      /\ UNCHANGED <<job, touched, mailed, told, wrote, blame>>
  BY Basics DEF startSenderWebRTC
<1>2. h \in Procs /\ h \notin Cancels /\ h \notin Lives
  BY ProcAssumption DEF Readers, Procs
<1>3. /\ procs[h].todo = <<>> /\ job.status \notin Unborn
      /\ h \in Runs => job.direction = "send"
  <2>1. At(h, "handling")
    BY DEF startSenderWebRTC
  <2> QED
    BY <1>2, <2>1, AtWork
<1>4. run \in Runs \cup {None}
  BY DEF Readers
<1> HIDE DEF run
<1>5. ASSUME NEW k \in {ReadsOn, Complain}
      PROVE  /\ k \in Proc /\ k.n = 0 /\ k.real = FALSE /\ k.err = FALSE /\ k.then # "fail"
             /\ \/ k.pc = "reading" /\ k.todo = <<>>
                \/ k.pc = "handling" /\ k.todo = <<"refuse">>
  <2>1. <<>> \in Seq(Words) /\ <<"refuse">> \in Seq(Words)
    BY Vocabulary
  <2>2. CASE k = ReadsOn
    BY <1>1, <2>1, <2>2 DEF ReadsOn, Absent, Proc
  <2>3. CASE k = Complain
    BY <1>1, <2>1, <2>3 DEF Complain, Absent, Proc
  <2> QED
    BY <2>2, <2>3
<1>6. ASSUME NEW k \in {ReadsOn, Complain}, procs'[h] = k PROVE Begins(h)
  <2>1. /\ k \in Proc /\ k.n = 0 /\ k.real = FALSE /\ k.err = FALSE /\ k.then # "fail"
        /\ \/ k.pc = "reading" /\ k.todo = <<>>
           \/ k.pc = "handling" /\ k.todo = <<"refuse">>
    BY <1>5
  <2>2. job.direction = "send" => procs'[h].n <= told'
    BY <1>1, <1>6, <2>1
  <2>3. CASE k.pc = "reading" /\ k.todo = <<>>
    BY <1>2, <1>3, <1>6, <2>1, <2>2, <2>3, IdleBegins
  <2>4. CASE k.pc = "handling" /\ k.todo = <<"refuse">>
    <3>1. /\ <<"refuse">> \in NewLists /\ Head(<<"refuse">>) = "refuse"
          /\ <<"refuse">> \notin {<<"handleRunTransferError">>, <<"completeTransferJob">>,
                                  <<"failTransferJob">>}
          /\ "refuse" \in DOMAIN Moves
      BY MessageLists, Singletons, Vocabulary
    <3>2. Fair(h)'
      BY <1>6, <2>1, <2>4, <3>1 DEF Fair, Expected
    <3> QED
      BY <1>3, <1>6, <2>1, <2>2, <2>4, <3>1, <3>2 DEF Begins
  <2> QED
    BY <2>1, <2>3, <2>4
<1>7. ASSUME NEW k \in {ReadsOn, Complain}, procs' = [procs EXCEPT ![h] = k],
             owner' \in [Lives -> Runs \cup {None}], closeLiveSession \/ UNCHANGED <<current, closed>>
      PROVE  IInv'
  <2>1. /\ procs' \in [Procs -> Proc] /\ procs'[h] = k
        /\ \A q \in Procs \ {h} : procs'[q] = procs[q]
    BY <1>1, <1>2, <1>5, <1>7
  <2>2. current' \in Lives \cup {None} /\ closed' \subseteq Lives
    BY <1>7, Closing
  <2>3. Begins(h)
    BY <1>6, <2>1
  <2> QED
    BY <1>1, <1>2, <1>3, <1>7, <2>1, <2>2, <2>3, OneBegins
<1>8. CASE /\ owner' = [owner EXCEPT ![current] = IF @ = None THEN run ELSE @]
           /\ procs' = [procs EXCEPT ![h] = ReadsOn]
           /\ UNCHANGED <<current, closed>>
  <2>1. owner' \in [Lives -> Runs \cup {None}]
    BY <1>1, <1>4, <1>8
  <2> QED
    BY <1>7, <1>8, <2>1
<1>9. CASE /\ procs' = [procs EXCEPT ![h] = Complain]
           /\ closeLiveSession \/ UNCHANGED <<current, closed>>
           /\ UNCHANGED owner
  BY <1>1, <1>7, <1>9
<1>10. ASSUME NEW g \in Lives, NEW k \in {ReadsOn, Complain}, procs[g].pc = "absent",
              procs' = [procs EXCEPT ![g].pc = "signaling", ![h] = k],
              owner' = [owner EXCEPT ![g] = run], current' = g,
              closed' = closed \cup ({current} \ {None})
       PROVE  IInv'
  <2>1. owner' \in [Lives -> Runs \cup {None}] /\ current' \in Lives \cup {None} /\ closed' \subseteq Lives
    BY <1>1, <1>4, <1>10
  <2>2. g # h /\ g \in Procs
    BY <1>2 DEF Procs
  <2>3. /\ procs'[g] = [procs[g] EXCEPT !.pc = "signaling"]
        /\ procs'[h] = k
        /\ \A q \in Procs \ {g, h} : procs'[q] = procs[q]
        /\ procs' = [q \in Procs |-> procs'[q]]
    BY <1>1, <1>2, <1>10, <2>2
  <2>4. procs[g].todo = <<>> /\ procs'[g] \in Proc /\ Begins(g)
    BY <1>1, <1>3, <1>10, <2>3, SessionMoves
  <2>5. Begins(h) /\ procs'[h] \in Proc
    BY <1>5, <1>6, <2>3
  <2>6. \A q \in {g, h} : Sound(q)' /\ procs'[q].pc # "absent" /\ (job.status # "none" \/ q # FirstRun)
    BY <1>1, <1>2, <2>2, <2>4, <2>5, BeginsIsSound
  <2>7. procs' \in [Procs -> Proc]
    BY <1>1, <2>3, <2>4, <2>5
  <2>8. \A q \in Procs : \/ procs'[q] = procs[q]
                         \/ /\ procs[q].todo = <<>> /\ procs'[q].pc # "absent" /\ Sound(q)'
                            /\ job.status # "none" \/ q # FirstRun
    BY <1>3, <2>3, <2>4, <2>6
  <2>9. Steady
    BY <1>1, <2>1, <2>7, <2>8 DEF Steady, Typed
  <2> QED
    BY <2>9, SteadyPreserves
<1> QED
  BY <1>8, <1>9, <1>10 DEF startSenderWebRTC, run

-----------------------------------------------------------------------------
(* The loop, the runs and the live goroutines.                             *)

\* The lists, places and flags of the steps below.
LEMMA StepLists ==
    /\ {<<>>, <<"failTransferJob">>, <<"handleRunTransferError">>, <<"markTransferStarted">>,
        <<"retryTransferJob">>, <<"OnProgress">>, <<"completeTransferJob">>,
        <<"UpdateProgress">>} \subseteq NewLists
    /\ "" \in Follows /\ FALSE \in BOOLEAN /\ TRUE \in BOOLEAN
    /\ {"reading", "failing", "erring", "starting", "streaming", "committing", "completing",
        "retrying", "ending", "returned"} \subseteq Places
BY DEF NewLists, Places, Follows

\* The loop reads on, or complains first.
LEMMA LoopPreserves ==
    ASSUME IInv, LoopHandled \/ LoopHandlerError
    PROVE  IInv'
<1>1. /\ told \in told..FileSize /\ 0 \in 0..FileSize /\ 0 <= told /\ wrote \in BOOLEAN
      /\ current \in Lives \cup {None} /\ owner \in [Lives -> Runs \cup {None}]
      /\ closed \subseteq Lives /\ mailed \in 0..MaxMail
      /\ UNCHANGED <<job, touched, current, owner, closed, mailed, told, wrote, blame>>
      /\ Loop \in Procs /\ Loop \notin Cancels /\ Loop \notin Runs
  BY Basics, ProcAssumption DEF LoopHandled, LoopHandlerError
<1>2. At(Loop, "failing") \/ At(Loop, "handling")
  BY DEF LoopHandled, LoopHandlerError
<1>3. procs[Loop].todo = <<>> /\ job.status \notin Unborn /\ procs[Loop].real \in BOOLEAN
  BY <1>1, <1>2, AtWork DEF Proc
<1>4. CASE LoopHandled
  <2>1. Go(Loop, "reading", <<>>, 0, "", FALSE)
    BY <1>4 DEF LoopHandled
  <2>2. <<>> \in NewLists /\ "reading" \in Places
        /\ <<>> \notin {<<"handleRunTransferError">>, <<"completeTransferJob">>, <<"failTransferJob">>}
    BY StepLists, Singletons
  <2> QED
    BY <1>1, <1>3, <2>1, <2>2, StepLists, GoPreserves
<1>5. CASE LoopHandlerError
  <2>1. Go(Loop, "failing", <<"failTransferJob">>, 0, "", procs[Loop].real)
    BY <1>5 DEF LoopHandlerError
  <2>2. <<"failTransferJob">> \in NewLists /\ "failing" \in Places
        /\ <<"failTransferJob">> \notin {<<"handleRunTransferError">>, <<"completeTransferJob">>}
    BY StepLists, Singletons
  <2>3. CASE procs[Loop].real = TRUE
    <3>1. Go(Loop, "failing", <<"failTransferJob">>, 0, "", TRUE)
      BY <2>1, <2>3
    <3> QED
      BY <1>1, <1>3, <2>2, <3>1, StepLists, GoPreserves
  <2>4. CASE procs[Loop].real = FALSE
    <3>1. Go(Loop, "failing", <<"failTransferJob">>, 0, "", FALSE)
      BY <2>1, <2>4
    <3> QED
      BY <1>1, <1>3, <2>2, <3>1, StepLists, GoPreserves
  <2> QED
    BY <1>3, <2>3, <2>4, Zenon
<1> QED
  BY <1>4, <1>5

\* A run that fails does so for a real cause, or is excused.
LEMMA RunPreserves ==
    ASSUME IInv, NEW r \in Runs,
           RunHandled(r) \/ RunHandlerError(r) \/ RunDisconnected(r) \/ RunSessionError(r) \/ RunReturns(r)
    PROVE  IInv'
<1>1. /\ told \in told..FileSize /\ 0 \in 0..FileSize /\ 0 <= told /\ wrote \in BOOLEAN
      /\ owner \in [Lives -> Runs \cup {None}] /\ mailed \in 0..MaxMail
      /\ current \in Lives \cup {None} /\ closed \subseteq Lives /\ procs \in [Procs -> Proc]
      /\ r \in Procs /\ r \notin Cancels /\ r # Loop
  BY Basics, ProcAssumption
<1>2. UNCHANGED <<job, touched, owner, mailed, told, wrote, blame>>
  BY DEF RunHandled, RunHandlerError, RunDisconnected, RunSessionError, RunReturns
<1>3. closeLiveSession \/ UNCHANGED <<current, closed>>
  BY DEF RunHandled, RunHandlerError, RunDisconnected, RunSessionError, RunReturns,
         closeLiveSessionForOwner
<1>4. current' \in Lives \cup {None} /\ closed' \subseteq Lives
  BY <1>3, Closing
<1>5. At(r, "handling") \/ At(r, "reading") \/ At(r, "erring")
  BY DEF RunHandled, RunHandlerError, RunDisconnected, RunSessionError, RunReturns
<1>6. /\ procs[r].todo = <<>> /\ job.status \notin Unborn /\ job.direction = "send"
      /\ procs[r].real \in BOOLEAN /\ procs[r] \in Proc /\ Sound(r)
  <2>1. /\ procs[r].todo = <<>> /\ job.status \notin Unborn /\ job.direction = "send"
        /\ procs[r] \in Proc /\ Sound(r)
    BY <1>1, <1>5, AtWork
  <2> QED
    BY <2>1 DEF Proc
<1>7. ASSUME NEW pc \in {"reading", "returned"}, Go(r, pc, <<>>, 0, "", FALSE)
      PROVE  IInv'
  <2>1. <<>> \in NewLists /\ pc \in Places
        /\ <<>> \notin {<<"handleRunTransferError">>, <<"completeTransferJob">>, <<"failTransferJob">>}
    BY StepLists, Singletons
  <2> QED
    BY <1>1, <1>2, <1>4, <1>6, <1>7, <2>1, StepLists, GoPreserves
<1>8. ASSUME NEW real \in BOOLEAN, real \/ Excused(r),
             Go(r, "erring", <<"handleRunTransferError">>, 0, "", real)
      PROVE  IInv'
  <2>1. <<"handleRunTransferError">> \in NewLists /\ "erring" \in Places
        /\ <<"handleRunTransferError">> \notin {<<"completeTransferJob">>, <<"failTransferJob">>}
    BY StepLists, Singletons
  <2>2. CASE real = TRUE
    <3>1. Go(r, "erring", <<"handleRunTransferError">>, 0, "", TRUE)
      BY <1>8, <2>2
    <3> QED
      BY <1>1, <1>2, <1>4, <1>6, <2>1, <3>1, StepLists, GoPreserves
  <2>3. CASE real = FALSE
    <3>1. Go(r, "erring", <<"handleRunTransferError">>, 0, "", FALSE) /\ Excused(r)
      BY <1>8, <2>3
    <3> QED
      BY <1>1, <1>2, <1>4, <1>6, <2>1, <3>1, StepLists, GoPreserves
  <2> QED
    BY <2>2, <2>3, Zenon
<1>9. CASE RunHandled(r)
  <2>1. CASE procs[r].then = "fail"
    <3>1. procs[r].real \/ Excused(r)
      <4>1. <<>> \notin {<<"UpdateProgress", "retryTransferJob">>, <<"Cancel">>}
        OBVIOUS
      <4> QED
        BY <1>6, <1>9, <2>1, <4>1 DEF Sound, Fair, RunHandled, At
    <3>2. Go(r, "erring", <<"handleRunTransferError">>, 0, "", procs[r].real)
      BY <1>9, <2>1 DEF RunHandled
    <3> QED
      BY <1>6, <1>8, <3>1, <3>2
  <2>2. CASE procs[r].then # "fail"
    <3>1. Go(r, "reading", <<>>, 0, "", FALSE) \/ Go(r, "returned", <<>>, 0, "", FALSE)
      BY <1>9, <2>2 DEF RunHandled
    <3> QED
      BY <1>7, <3>1
  <2> QED
    BY <2>1, <2>2
<1>10. CASE RunHandlerError(r)
  <2>1. procs[r].real \/ Excused(r)
    BY <1>6, <1>10 DEF Sound, Fair, RunHandlerError, At
  <2>2. Go(r, "erring", <<"handleRunTransferError">>, 0, "", procs[r].real)
    BY <1>10 DEF RunHandlerError
  <2> QED
    BY <1>6, <1>8, <2>1, <2>2
<1>11. CASE RunDisconnected(r) \/ RunSessionError(r)
  <2>1. Go(r, "erring", <<"handleRunTransferError">>, 0, "", TRUE)
    BY <1>11 DEF RunDisconnected, RunSessionError
  <2> QED
    BY <1>8, <2>1
<1>12. CASE RunReturns(r)
  <2>1. procs' = [procs EXCEPT ![r].pc = "returned"]
    BY <1>12 DEF RunReturns
  <2>2. /\ procs'[r] \in Proc /\ procs'[r].pc = "returned" /\ procs'[r].todo = <<>>
        /\ procs'[r].n = procs[r].n
    BY <1>1, <1>6, <2>1 DEF Proc
  <2>3. procs' \in [Procs -> Proc] /\ \A q \in Procs \ {r} : procs'[q] = procs[q]
    BY <1>1, <2>1, <2>2
  <2>4. procs'[r].n <= told'
    BY <1>2, <1>6, <2>2 DEF Sound, Entitled
  <2>5. Begins(r)
    BY <1>1, <1>6, <2>2, <2>4, IdleBegins
  <2> QED
    BY <1>1, <1>2, <1>4, <1>6, <2>3, <2>5, OneBegins
<1> QED
  BY <1>9, <1>10, <1>11, <1>12

\* The live goroutines keep the invariant.
LEMMA LivePreserves ==
    ASSUME IInv, NEW g \in Lives, LiveStep(g)
    PROVE  IInv'
<1>1. /\ told \in told..FileSize /\ 0 \in 0..FileSize /\ 0 <= told /\ wrote \in BOOLEAN
      /\ owner \in [Lives -> Runs \cup {None}] /\ mailed \in 0..MaxMail /\ FileSize \in Nat
      /\ current \in Lives \cup {None} /\ closed \subseteq Lives /\ procs \in [Procs -> Proc]
      /\ g \in Procs /\ g \notin Cancels /\ g # Loop /\ g \notin Runs
      /\ job \in [direction : Directions, status : Statuses, progress : 0..FileSize, bound : BOOLEAN,
                  keyed : BOOLEAN]
  BY Basics, ProcAssumption
<1>2. /\ UNCHANGED <<job, touched, owner, mailed, told, blame>>
      /\ wrote' \in BOOLEAN /\ (wrote => wrote')
  BY <1>1 DEF LiveStep, LiveOpened, LiveStarted, LiveInterrupted, ReceiverInterrupted,
              ReceiverKeepsPartial, LiveFailed, LiveProgress,
              LiveVerified, LiveCommitted, LiveReturns, Live
<1>3. closeLiveSession \/ UNCHANGED <<current, closed>>
  BY DEF LiveStep, LiveOpened, LiveStarted, LiveInterrupted, ReceiverInterrupted,
         ReceiverKeepsPartial, LiveFailed, LiveProgress,
         LiveVerified, LiveCommitted, LiveReturns, Live, closeLiveSessionIfCurrent
<1>4. current' \in Lives \cup {None} /\ closed' \subseteq Lives
  BY <1>3, Closing
<1>5. \E pc \in {"waiting", "starting", "streaming", "committing", "completing", "retrying",
                 "ending"} : At(g, pc)
  BY DEF LiveStep, LiveOpened, LiveStarted, LiveInterrupted, ReceiverInterrupted,
         ReceiverKeepsPartial, LiveFailed, LiveProgress,
         LiveVerified, LiveCommitted, LiveReturns
<1>6. /\ procs[g].todo = <<>> /\ job.status \notin Unborn /\ procs[g] \in Proc /\ Sound(g)
  BY <1>1, <1>5, AtWork
<1>7. ASSUME NEW pc \in {"starting", "streaming", "committing", "completing", "retrying", "ending"},
             NEW todo \in {<<>>, <<"failTransferJob">>, <<"markTransferStarted">>, <<"UpdateProgress">>,
                           <<"retryTransferJob">>, <<"OnProgress">>, <<"completeTransferJob">>},
             NEW n \in 0..FileSize, NEW real \in BOOLEAN, Go(g, pc, todo, n, "", real),
             job.direction = "send" => n <= told,
             todo = <<"completeTransferJob">> => wrote', todo = <<"failTransferJob">> => real
      PROVE  IInv'
  <2>1. todo \in NewLists /\ pc \in Places /\ pc # "reading"
        /\ todo # <<"handleRunTransferError">>
    BY StepLists, Singletons
  <2>2. CASE real = TRUE
    <3>1. Go(g, pc, todo, n, "", TRUE)
      BY <1>7, <2>2
    <3> QED
      BY <1>1, <1>2, <1>4, <1>6, <1>7, <2>1, <3>1, StepLists, GoPreserves
  <2>3. CASE real = FALSE
    <3>1. Go(g, pc, todo, n, "", FALSE)
      BY <1>7, <2>3
    <3>2. todo # <<"failTransferJob">>
      BY <1>7, <2>3
    <3> QED
      BY <1>1, <1>2, <1>4, <1>6, <1>7, <2>1, <3>1, <3>2, StepLists, GoPreserves
  <2> QED
    BY <2>2, <2>3, Zenon
<1> DEFINE New(todo) == todo \in {<<>>, <<"failTransferJob">>, <<"markTransferStarted">>,
                                  <<"UpdateProgress">>, <<"retryTransferJob">>, <<"OnProgress">>, <<"completeTransferJob">>}
<1>8. /\ New(<<>>) /\ <<>> \notin {<<"completeTransferJob">>, <<"failTransferJob">>}
      /\ \A w \in {"markTransferStarted", "retryTransferJob", "OnProgress", "UpdateProgress"} :
            New(<<w>>) /\ <<w>> \notin {<<"completeTransferJob">>, <<"failTransferJob">>}
      /\ New(<<"failTransferJob">>) /\ <<"failTransferJob">> # <<"completeTransferJob">>
      /\ New(<<"completeTransferJob">>)
  BY Singletons
<1>9. CASE LiveOpened(g)
  <2>1. Go(g, "starting", <<"markTransferStarted">>, 0, "", FALSE)
    BY <1>9 DEF LiveOpened, Live
  <2> QED
    BY <1>1, <1>7, <1>8, <2>1
<1>10. CASE LiveStarted(g)
  <2>1. Go(g, "streaming", <<>>, 0, "", FALSE)
    BY <1>10 DEF LiveStarted, Live
  <2> QED
    BY <1>1, <1>7, <1>8, <2>1
<1>11. CASE LiveInterrupted(g)
  <2>1. Go(g, "ending", <<"retryTransferJob">>, 0, "", FALSE)
    BY <1>11 DEF LiveInterrupted, Live
  <2> QED
    BY <1>1, <1>7, <1>8, <2>1
<1>12. CASE LiveFailed(g)
  <2>1. Go(g, "ending", <<"failTransferJob">>, 0, "", TRUE)
    BY <1>12 DEF LiveFailed, Live
  <2> QED
    BY <1>1, <1>7, <1>8, <2>1
<1>13. CASE LiveProgress(g)
  <2>1. PICK n \in job.progress + 1..FileSize : Go(g, "streaming", <<"OnProgress">>, n, "", FALSE)
    BY <1>13 DEF LiveProgress
  <2>2. n \in 0..FileSize /\ job.direction # "send"
    <3>1. job.progress \in 0..FileSize /\ FileSize \in Nat
      BY <1>1
    <3>2. n \in 0..FileSize
      BY <3>1
    <3>3. job.direction = "receive"
      BY <1>13 DEF LiveProgress
    <3> QED
      BY <3>2, <3>3
  <2> QED
    BY <1>1, <1>7, <1>8, <2>1, <2>2
<1>14. CASE LiveVerified(g)
  <2>1. Go(g, "committing", <<>>, 0, "", FALSE)
    BY <1>14 DEF LiveVerified, Live
  <2> QED
    BY <1>1, <1>7, <1>8, <2>1
<1>15. CASE LiveCommitted(g)
  <2>1. Go(g, "completing", <<"completeTransferJob">>, 0, "", FALSE) /\ wrote' = TRUE
    BY <1>15 DEF LiveCommitted
  <2> QED
    BY <1>1, <1>7, <1>8, <2>1, Singletons
<1>16. CASE LiveReturns(g)
  <2> DEFINE e == CASE procs[g].pc = "ending"    -> TRUE
                    [] procs[g].pc = "streaming" -> job.direction = "receive"
                    [] OTHER                     -> procs[g].err
  <2>1. procs' = [procs EXCEPT ![g].pc = "returned", ![g].err = e]
    BY <1>16 DEF LiveReturns
  <2>2. e \in BOOLEAN
    BY <1>6 DEF Proc
  <2> HIDE DEF e
  <2>3. /\ procs'[g] \in Proc /\ procs'[g].pc = "returned" /\ procs'[g].todo = <<>>
        /\ procs'[g].n = procs[g].n
    BY <1>1, <1>6, <2>1, <2>2 DEF Proc
  <2>4. procs' \in [Procs -> Proc] /\ \A q \in Procs \ {g} : procs'[q] = procs[q]
    BY <1>1, <2>1, <2>3
  <2>5. job.direction = "send" => procs'[g].n <= told'
    BY <1>2, <1>6, <2>3 DEF Sound, Entitled
  <2>6. Begins(g)
    BY <1>1, <1>6, <2>3, <2>5, IdleBegins
  <2>7. wrote' = wrote
    BY <1>16 DEF LiveReturns
  <2> QED
    BY <1>1, <1>2, <1>4, <1>6, <2>4, <2>6, <2>7, OneBegins
<1>17. \A n \in 0..FileSize : job.direction = "send" /\ n <= procs[g].n => n <= told
  <2>1. /\ procs[g].n \in 0..FileSize /\ told \in 0..FileSize
        /\ job.direction = "send" => procs[g].n <= told
    BY <1>6, Basics DEF Sound, Entitled, Proc
  <2> QED
    BY <1>1, <2>1
<1>18. CASE ReceiverInterrupted(g)
  <2>1. Go(g, "retrying", <<"retryTransferJob">>, job.progress, "", FALSE) /\ job.direction = "receive"
    BY <1>18 DEF ReceiverInterrupted
  <2>2. job.progress \in 0..FileSize
    BY <1>1
  <2> QED
    BY <1>1, <1>7, <1>8, <2>1, <2>2
<1>19. CASE ReceiverKeepsPartial(g)
  <2>1. CASE Go(g, "ending", <<>>, 0, "", FALSE)
    BY <1>1, <1>7, <1>8, <2>1
  <2>2. ASSUME NEW n \in 0..procs[g].n, n < procs[g].n,
               Go(g, "ending", <<"UpdateProgress">>, n, "", FALSE)
        PROVE  IInv'
    <3>1. procs[g].n \in 0..FileSize
      BY <1>6 DEF Proc
    <3>2. n \in 0..FileSize /\ n <= procs[g].n
      <4> DEFINE m == procs[g].n
      <4>1. m \in 0..FileSize /\ n \in 0..m /\ FileSize \in Nat
        BY <3>1, SizeAssumption
      <4> HIDE DEF m
      <4>2. n \in 0..FileSize /\ n <= m
        BY <4>1
      <4> QED
        BY <4>2 DEF m
    <3>3. job.direction = "send" => n <= told
      BY <1>17, <3>2
    <3>4. FALSE \in BOOLEAN /\ "ending" \in {"starting", "streaming", "committing", "completing",
                                            "retrying", "ending"}
      OBVIOUS
    <3> QED
      BY <1>7, <1>8, <2>2, <3>2, <3>3, <3>4
  <2>3. CASE Go(g, "ending", <<"failTransferJob">>, 0, "", TRUE)
    BY <1>1, <1>7, <1>8, <2>3
  <2> QED
    BY <1>19, <2>1, <2>2, <2>3 DEF ReceiverKeepsPartial
<1> QED
  BY <1>9, <1>10, <1>11, <1>12, <1>13, <1>14, <1>15, <1>16, <1>18, <1>19 DEF LiveStep

-----------------------------------------------------------------------------
(* The invariant holds.                                                    *)

LEMMA InvInit == Init => IInv
<1> SUFFICES ASSUME Init PROVE IInv
  OBVIOUS
<1>1. /\ FileSize \in Nat /\ MaxMail \in Nat /\ 0 \in 0..FileSize /\ 0 \in 0..MaxMail /\ 0 <= 0
      /\ FirstRun \in Procs /\ Loop \in Procs /\ FirstRun # Loop
  BY SizeAssumption, RunAssumption, ProcAssumption DEF Procs
<1>2. PICK d \in Directions :
          job = [direction |-> d, status |-> "none", progress |-> 0, bound |-> FALSE, keyed |-> FALSE]
  BY DEF Init
<1>3. /\ job.direction \in {"send", "receive"} /\ job.status = "none" /\ job.progress = 0
      /\ job.bound = FALSE
      /\ job \in [direction : Directions, status : Statuses, progress : 0..FileSize, bound : BOOLEAN,
                  keyed : BOOLEAN]
  BY <1>1, <1>2, DirectionAssumption DEF Statuses
<1> DEFINE reading == [Absent EXCEPT !.pc = "reading"]
<1>4. \A k \in {Absent, reading} : /\ k \in Proc /\ k.todo = <<>> /\ k.n = 0
                                   /\ k.pc \in {"absent", "reading"}
  <2>1. <<>> \in Seq(Words)
    OBVIOUS
  <2>2. Absent \in Proc /\ Absent.todo = <<>> /\ Absent.n = 0 /\ Absent.pc = "absent"
    BY <1>1, <2>1 DEF Absent, Proc
  <2>3. reading \in Proc /\ reading.todo = <<>> /\ reading.n = 0 /\ reading.pc = "reading"
    BY <1>1, <2>1 DEF Absent, Proc
  <2> HIDE DEF reading
  <2> QED
    BY <2>2, <2>3
<1>5. Absent.pc = "absent"
  BY DEF Absent
<1>6. procs = [p \in Procs |-> IF p = Loop THEN reading ELSE Absent]
  BY DEF Init
<1> HIDE DEF reading
<1>7. /\ procs \in [Procs -> Proc]
      /\ \A p \in Procs : /\ procs[p].todo = <<>> /\ procs[p].n = 0
                          /\ procs[p].pc = "absent" \/ (p = Loop /\ procs[p].pc = "reading")
  BY <1>4, <1>5, <1>6
<1>8. procs[FirstRun].pc = "absent"
  BY <1>1, <1>7
<1>9. TypeOK
  BY <1>1, <1>3, <1>7 DEF Init, TypeOK, Proc, Words
<1>10. Young /\ InterruptedIsBrief /\ RunsBlameFairly
  BY <1>1, <1>3, <1>8 DEF Init, Young, InterruptedIsBrief, RunsBlameFairly
<1>11. ASSUME NEW p \in Procs PROVE Sound(p)
  <2>1. /\ procs[p].todo = <<>> /\ procs[p].n = 0
        /\ procs[p].pc = "absent" \/ (p = Loop /\ procs[p].pc = "reading")
    BY <1>7
  <2>2. Range(procs[p].todo) = {}
    BY <2>1, ShortLists
  <2>3. Placed(p)
    BY <1>3, <2>1, ProcAssumption DEF Placed
  <2>4. Paired(procs[p].todo)
    BY <2>1 DEF Paired
  <2>5. Entitled(p) /\ Worded(p)
    BY <1>1, <2>1, <2>2 DEF Init, Entitled, Worded
  <2>6. Fair(p)
    BY <2>1 DEF Fair
  <2> QED
    BY <2>3, <2>4, <2>5, <2>6 DEF Sound
<1> QED
  BY <1>9, <1>10, <1>11 DEF IInv

\* One case per action, each a lemma above.
LEMMA InvStep == IInv /\ [Next]_vars => IInv'
<1> SUFFICES ASSUME IInv, [Next]_vars PROVE IInv'
  OBVIOUS
<1>1. CASE CreateSendJob \/ CreateTransferAnswered \/ CreateSendTransfer
  BY <1>1, CreateSendJobPreserves, CreateTransferAnsweredPreserves, CreateSendTransferPreserves
<1>2. CASE handleTransferOffer \/ handleWebRTCOffer
  BY <1>2, handleTransferOfferPreserves, handleWebRTCOfferPreserves
<1>3. CASE LoopHandled \/ LoopHandlerError
  BY <1>3, LoopPreserves
<1>4. ASSUME NEW p \in Procs, Decide(p) \/ update(p) \/ updateError(p) PROVE IInv'
  BY <1>4, DecidePreserves, updatePreserves, updateErrorPreserves
<1>5. ASSUME NEW h \in Readers, Handle(h) PROVE IInv'
  BY <1>5, MessagePreserves, handleWebRTCAnswerPreserves, startSenderWebRTCPreserves DEF Handle
<1>6. ASSUME NEW r \in Runs, RunStep(r) PROVE IInv'
  BY <1>6, RunPreserves, handleResumeTransferPreserves DEF RunStep
<1>7. ASSUME NEW g \in Lives, LiveStep(g) PROVE IInv'
  BY <1>7, LivePreserves
<1>8. ASSUME NEW c \in Cancels, CancelStep(c) PROVE IInv'
  BY <1>8, CancelPreserves
<1>9. CASE UNCHANGED vars
  <2>1. UNCHANGED <<job, touched, procs, current, owner, closed, mailed, told, wrote, blame>>
    BY <1>9 DEF vars
  <2>2. Steady
    BY <2>1, Basics DEF Steady, Typed
  <2> QED
    BY <2>2, SteadyPreserves
<1> QED
  BY <1>1, <1>2, <1>3, <1>4, <1>5, <1>6, <1>7, <1>8, <1>9 DEF Next

LEMMA Invariance == Spec => []IInv
BY InvInit, InvStep, PTL DEF Spec

\* Whatever messages, cancel requests, resumes and sessions there are, the job, the session map and
\* every goroutine's calls stay within their types: in particular no helper ever makes a call that
\* the JobManager does not have.
THEOREM TypeCorrect == Spec => []TypeOK
<1>1. IInv => TypeOK
  BY DEF IInv
<1> QED
  BY <1>1, Invariance, PTL

\* A job is interrupted only while some goroutine is about to make it retryable: between the
\* Interrupt and the MarkRetryable of markJobRetryableIfMutable no call of another goroutine can
\* take the second one away.
THEOREM InterruptedIsTransient == Spec => []InterruptedIsBrief
<1>1. IInv => InterruptedIsBrief
  BY DEF IInv
<1> QED
  BY <1>1, Invariance, PTL

\* No run and no live goroutine ever fails the job because another goroutine was faster: only the
\* always-on loop may.
THEOREM RunsAreFair == Spec => []RunsBlameFairly
<1>1. IInv => RunsBlameFairly
  BY DEF IInv
<1> QED
  BY <1>1, Invariance, PTL

\* A send job that is completed was reported in full by the peer, whatever order the peer's
\* messages came in and whoever handled them.
THEOREM CompletionWasReported == Spec => []CompletedWasReported
<1>1. IInv => CompletedWasReported
  BY DEF IInv, Young, Reported, CompletedWasReported
<1> QED
  BY <1>1, Invariance, PTL

\* A receive job that is completed has a committed file: no message of the peer completes it.
THEOREM CompletionHasCommit == Spec => []CompletedHasCommit
<1>1. IInv => CompletedHasCommit
  BY DEF IInv, Young, Reported, CompletedHasCommit
<1> QED
  BY <1>1, Invariance, PTL

-----------------------------------------------------------------------------
(* The refinement of the lifecycle that the local API documents.           *)

\* A call that the JobManager accepts is a step of the lifecycle, or changes nothing of it.
LEMMA updateFollows ==
    ASSUME IInv, NEW p \in Procs, update(p)
    PROVE  Lifecycle!Next \/ UNCHANGED <<job.status, job.progress>>
<1> DEFINE call == Head(procs[p].todo)
           n    == procs[p].n
           from == job.status
           to   == Moves[call][from]
<1>1. /\ call \in DOMAIN Moves /\ from \in DOMAIN Moves[call] /\ from \in Statuses
      /\ n \in 0..FileSize
      /\ job \in [direction : Directions, status : Statuses, progress : 0..FileSize, bound : BOOLEAN,
                  keyed : BOOLEAN]
  BY Basics DEF update, Accepts, Proc
<1>2. job' = [job EXCEPT !.status   = to,
                         !.progress = CASE call = "UpdateProgress" -> n
                                        [] call = "Complete"       -> FileSize
                                        [] OTHER                   -> @,
                         !.bound    = @ \/ call = "AttachTransfer",
                         !.keyed    = @ \/ call = "AttachTransferKey"]
  BY DEF update
<1>3. /\ to \in Statuses /\ (from = "none" => to = "none" /\ call = "failJobIfMutable")
      /\ call = "Complete" => from = "transferring" /\ to = "completed"
      /\ call = "UpdateProgress" => from \in Open /\ to = from
      /\ call = "Fail" => from \in Open /\ to = "failed"
      /\ call = "failJobIfMutable" => to \in {from, "failed"} /\ (from # to => from \in Open)
      /\ call = "Cancel" => from \in Open /\ to = "cancelled"
      /\ call \notin {"UpdateProgress", "Complete", "Fail", "failJobIfMutable", "Cancel"} =>
            from = to \/ <<from, to>> \in Lifecycle!Forward
  BY <1>1, MoveFacts
<1> HIDE DEF call, n, from, to
<1>4. /\ job'.status = to /\ (call = "UpdateProgress" => job'.progress = n)
      /\ (call = "Complete" => job'.progress = FileSize)
      /\ (call \notin {"UpdateProgress", "Complete"} => job'.progress = job.progress)
  BY <1>1, <1>2
<1>5. Open = Lifecycle!Working \cup Lifecycle!Waiting
  BY DEF Open, Lifecycle!Working, Lifecycle!Waiting
<1>6. job.status = from
  BY DEF from
<1>7. CASE call = "UpdateProgress"
  BY <1>1, <1>3, <1>4, <1>5, <1>6, <1>7 DEF Lifecycle!Next, Lifecycle!Report
<1>8. CASE call = "Complete"
  BY <1>3, <1>4, <1>6, <1>8 DEF Lifecycle!Next, Lifecycle!Finish
<1>9. CASE call \in {"Fail", "failJobIfMutable", "Cancel"}
  <2>1. CASE to = from
    BY <1>4, <1>6, <1>9, <2>1
  <2>2. CASE to # from
    BY <1>3, <1>4, <1>5, <1>6, <1>9, <2>2 DEF Lifecycle!Next, Lifecycle!GiveUp
  <2> QED
    BY <2>1, <2>2
<1>10. CASE call \notin {"UpdateProgress", "Complete", "Fail", "failJobIfMutable", "Cancel"}
  <2>1. CASE to = from
    BY <1>4, <1>6, <1>10, <2>1
  <2>2. CASE <<from, to>> \in Lifecycle!Forward
    BY <1>4, <1>6, <1>10, <2>2 DEF Lifecycle!Next, Lifecycle!Advance
  <2> QED
    BY <1>3, <1>10, <2>1, <2>2
<1> QED
  BY <1>7, <1>8, <1>9, <1>10

\* Every step of every goroutine is a step of the lifecycle or none.
LEMMA LifecycleStep == IInv /\ [Next]_vars => [Lifecycle!Next]_(<<job.status, job.progress>>)
<1> SUFFICES ASSUME IInv, [Next]_vars
             PROVE  Lifecycle!Next \/ UNCHANGED <<job.status, job.progress>>
  OBVIOUS
<1>1. job \in [direction : Directions, status : Statuses, progress : 0..FileSize, bound : BOOLEAN,
               keyed : BOOLEAN]
  BY Basics
<1>2. CASE CreateSendJob
  <2>1. job.status = "none" /\ job.progress = 0
    BY <1>2 DEF CreateSendJob, IInv, Young
  <2>2. job'.status = "queued" /\ job'.progress = job.progress
    BY <1>1, <1>2 DEF CreateSendJob
  <2> QED
    BY <2>1, <2>2 DEF Lifecycle!Next, Lifecycle!Create
<1>3. CASE handleTransferOffer
  <2>1. CASE job.bound
    BY <1>3, <2>1 DEF handleTransferOffer
  <2>2. CASE ~job.bound
    <3>1. job.status = "none" /\ job.progress = 0
      BY <1>3, <2>2 DEF handleTransferOffer, IInv, Young
    <3>2. job'.status = "offered" /\ job'.progress = job.progress
      BY <1>1, <1>3, <2>2 DEF handleTransferOffer
    <3> QED
      BY <3>1, <3>2 DEF Lifecycle!Next, Lifecycle!Create
  <2> QED
    BY <1>1, <2>1, <2>2
<1>4. ASSUME NEW r \in Runs, RunStep(r)
      PROVE  Lifecycle!Next \/ UNCHANGED <<job.status, job.progress>>
  <2>1. CASE handleResumeTransfer(r)
    <3>1. job.status = "retryable" /\ job'.status = "connecting" /\ job'.progress = job.progress
      BY <1>1, <2>1 DEF handleResumeTransfer, ClaimRetryable, transition
    <3> QED
      BY <3>1 DEF Lifecycle!Next, Lifecycle!Advance, Lifecycle!Forward
  <2>2. CASE ~handleResumeTransfer(r)
    BY <1>4, <2>2 DEF RunStep, RunHandled, RunHandlerError, RunDisconnected, RunSessionError, RunReturns
  <2> QED
    BY <2>1, <2>2
<1>5. ASSUME NEW p \in Procs, Decide(p) \/ update(p) \/ updateError(p)
      PROVE  Lifecycle!Next \/ UNCHANGED <<job.status, job.progress>>
  BY <1>5, updateFollows DEF Decide, updateError
<1>6. CASE CreateTransferAnswered \/ CreateSendTransfer \/ handleWebRTCOffer \/ LoopHandled
           \/ LoopHandlerError \/ UNCHANGED vars
  BY <1>6 DEF CreateTransferAnswered, CreateSendTransfer, handleWebRTCOffer, LoopHandled,
              LoopHandlerError, vars
<1>7. ASSUME NEW h \in Readers, Handle(h) PROVE UNCHANGED job
  BY <1>7 DEF Handle, handleAccepted, startSenderWebRTC, handleWebRTCAnswer, handleStarted,
              handleTransferProgress, handleTransferRetryable, handleCompleted, handleFailed,
              handleCancelled
<1>8. ASSUME NEW g \in Lives, LiveStep(g) PROVE UNCHANGED job
  BY <1>8 DEF LiveStep, LiveOpened, LiveStarted, LiveInterrupted, ReceiverInterrupted,
              ReceiverKeepsPartial, LiveFailed, LiveProgress,
              LiveVerified, LiveCommitted, LiveReturns, Live
<1>9. ASSUME NEW c \in Cancels, CancelStep(c) PROVE UNCHANGED job
  BY <1>9 DEF CancelStep, handleCancelTransfer, CancelTransfer, CancelReturns
<1> QED
  BY <1>2, <1>3, <1>4, <1>5, <1>6, <1>7, <1>8, <1>9 DEF Next

\* The job in the daemon implements the documented life of a job: any number of goroutines, each
\* with its list of calls, move it only along the lifecycle's steps, and end it once.
THEOREM LifecycleRefined == Spec => FollowsLifecycle
<1>1. Init => Lifecycle!Init
  BY DEF Init, Lifecycle!Init
<1>2. IInv /\ [Next]_vars => [Lifecycle!Next]_(<<job.status, job.progress>>)
  BY LifecycleStep
<1> QED
  BY <1>1, <1>2, Invariance, PTL DEF Spec, FollowsLifecycle, Lifecycle!Spec, Lifecycle!vars
=============================================================================
