---------------------------- MODULE InboxProofs ----------------------------
(***************************************************************************)
(* Proofs about Inbox, for any transfers, names, files of the user and any *)
(* number of restarts.                                                     *)
(*                                                                         *)
(* The inductive invariant adds to the properties what the code relies on  *)
(* without saying so: every job has its entry and the candidate of the     *)
(* offer being handled has none (Bookkept), the metadata at the            *)
(* destination of a job is the job's own (MetadataIsOwn), no received file *)
(* appears at the candidate while the offer is handled (CandidateIsUnused) *)
(* and nobody replaces a copy that is being verified (CopiesAreOwn).       *)
(***************************************************************************)
EXTENDS Inbox, WellFoundedInduction, TLAPS

Running(t) == jobs[t].status # "none"

Bookkept ==
    /\ \A t \in Transfers :
          IF Running(t) THEN [transfer |-> t, destination |-> Destination(t)] \in entries
                        ELSE Destination(t) = <<>>
    /\ reserving # NoOffer =>
          /\ reserving.transfer \in Transfers /\ ~Running(reserving.transfer)
          /\ \A e \in entries : e.destination # reserving.destination

MetadataIsOwn ==
    \A t \in Transfers :
        Running(t) /\ Exists(Metadata(Destination(t))) =>
            LET f == files[Metadata(Destination(t))] IN f.what # "metadata" \/ f.by = t

CandidateIsUnused ==
    reserving # NoOffer /\ Exists(reserving.destination) =>
        files[reserving.destination].what \notin {"copy", "file"}

CopiesAreOwn ==
    \A t \in Transfers :
        jobs[t].status = "committing" => OwnCopy(t) \/ EndsInPart(Destination(t))

IInv == /\ TypeOK /\ Bookkept /\ DistinctDestinations /\ MetadataIsOwn /\ CandidateIsUnused
        /\ MetadataTellsOrigin /\ PartialsAreOwn /\ CopiesAreOwn

-----------------------------------------------------------------------------
(* Paths.                                                                  *)

\* The names the code derives from a path are paths, differ from it and from path to path, and
\* the partial one is known by its suffix.
LEMMA PathFacts ==
    ASSUME NEW p \in Paths, NEW q \in Paths
    PROVE  /\ Partial(p) \in Paths /\ Metadata(p) \in Paths
           /\ Partial(p) # p /\ Metadata(p) # p /\ Partial(p) # <<>>
           /\ EndsInPart(Partial(p))
           /\ Partial(p) = Partial(q) => p = q
           /\ Metadata(p) = Metadata(q) => p = q
<1>1. /\ p \in Seq(Tokens) /\ q \in Seq(Tokens)
      /\ <<".part">> \in Seq(Tokens) /\ <<".postamat", ".json">> \in Seq(Tokens)
  BY DEF Paths, Tokens
<1>2. Partial(p) \in Paths /\ Metadata(p) \in Paths
  BY <1>1 DEF Paths, Partial, Metadata
<1>3. Len(Partial(p)) = Len(p) + 1 /\ Len(Metadata(p)) = Len(p) + 2 /\ Len(p) \in Nat
  BY <1>1 DEF Partial, Metadata
<1>4. Partial(p) # p /\ Metadata(p) # p /\ Partial(p) # <<>>
  BY <1>3
<1>5. EndsInPart(Partial(p))
  BY <1>1, <1>3 DEF EndsInPart, Partial
<1>6. ASSUME Partial(p) = Partial(q) PROVE p = q
  <2>1. Len(p) = Len(q)
    BY <1>1, <1>6 DEF Partial
  <2>2. \A i \in 1..Len(p) : Partial(p)[i] = p[i] /\ Partial(q)[i] = q[i]
    BY <1>1, <2>1 DEF Partial
  <2> QED
    BY <1>1, <1>6, <2>1, <2>2
<1>7. ASSUME Metadata(p) = Metadata(q) PROVE p = q
  <2>1. Len(p) = Len(q)
    BY <1>1, <1>7 DEF Metadata
  <2>2. \A i \in 1..Len(p) : Metadata(p)[i] = p[i] /\ Metadata(q)[i] = q[i]
    BY <1>1, <2>1 DEF Metadata
  <2> QED
    BY <1>1, <1>7, <2>1, <2>2
<1> QED
  BY <1>2, <1>4, <1>5, <1>6, <1>7

\* The candidates for a name are paths, the name itself first.
LEMMA CandidatesArePaths ==
    ASSUME NEW name \in Names
    PROVE  /\ DOMAIN Candidates(name) = 1..Len(Numbers) + 1 /\ Len(Numbers) \in Nat
           /\ \A n \in DOMAIN Candidates(name) : Candidates(name)[n] \in Paths
<1> DEFINE numbered == [n \in 1..Len(Numbers) |-> Numbered(name, Numbers[n])]
<1>1. name \in Seq(Tokens) /\ name # <<>> /\ Len(Numbers) \in Nat /\ Extensions \subseteq Tokens
  BY NameAssumption, NumberAssumption DEF Extensions, Tokens
<1>2. ASSUME NEW n \in 1..Len(Numbers) PROVE Numbered(name, Numbers[n]) \in Seq(Tokens)
  <2>1. Numbers[n] \in Tokens
    BY NumberAssumption DEF Tokens, Range
  <2>2. Append(name, Numbers[n]) \in Seq(Tokens)
    BY <1>1, <2>1
  <2>3. CASE Len(name) > 1 /\ name[Len(name)] \in Extensions
    <3>1. SubSeq(name, 1, Len(name) - 1) \in Seq(Tokens)
      BY <1>1, <2>3
    <3>2. <<Numbers[n], name[Len(name)]>> \in Seq(Tokens)
      BY <1>1, <2>1, <2>3
    <3> QED
      BY <2>3, <3>1, <3>2 DEF Numbered
  <2> QED
    BY <2>2, <2>3 DEF Numbered
<1>3. numbered \in Seq(Seq(Tokens)) /\ Len(numbered) = Len(Numbers)
  BY <1>1, <1>2
<1>4. <<name>> \in Seq(Seq(Tokens)) /\ Len(<<name>>) = 1
  BY <1>1
<1>5. Candidates(name) = <<name>> \o numbered
  BY DEF Candidates
<1> HIDE DEF numbered
<1>6. Candidates(name) \in Seq(Seq(Tokens)) /\ Len(Candidates(name)) = Len(Numbers) + 1
  BY <1>1, <1>3, <1>4, <1>5
<1> QED
  BY <1>1, <1>6 DEF Paths

\* uniqueDestination finds a candidate that nothing stands in the way of, if there is one.
LEMMA DestinationIsFree ==
    ASSUME NEW name \in Names, \E c \in Range(Candidates(name)) : Free(c)
    PROVE  uniqueDestination(name) \in Paths /\ Free(uniqueDestination(name))
<1> DEFINE cs == Candidates(name)
           T  == {n \in DOMAIN cs : Free(cs[n])}
           First(n) == Free(cs[n]) /\ \A m \in 1..n - 1 : ~Free(cs[m])
<1>1. DOMAIN cs = 1..Len(Numbers) + 1 /\ Len(Numbers) \in Nat /\ \A n \in DOMAIN cs : cs[n] \in Paths
  BY CandidatesArePaths, Zenon
<1>2. T # {} /\ T \subseteq Nat
  BY <1>1 DEF Range
<1>3. PICK n \in T : \A m \in T : ~(<<m, n>> \in OpToRel(<, Nat))
  <2> HIDE DEF T
  <2> QED
    BY <1>2, WFMin, NatLessThanWellFounded, Zenon
<1>4. \A m \in T : ~(m < n)
  BY <1>2, <1>3 DEF OpToRel
<1>5. First(n) /\ n \in DOMAIN cs
  <2>1. ASSUME NEW m \in 1..n - 1 PROVE ~Free(cs[m])
    BY <1>1, <1>4
  <2> QED
    BY <2>1
<1>6. uniqueDestination(name) = cs[CHOOSE i \in DOMAIN cs : First(i)]
  BY Zenon DEF uniqueDestination
<1>7. PICK i \in DOMAIN cs : First(i) /\ i = CHOOSE k \in DOMAIN cs : First(k)
  <2> HIDE DEF cs, First
  <2> QED
    BY <1>5, Zenon
<1> QED
  BY <1>1, <1>6, <1>7

-----------------------------------------------------------------------------
(* What a step of a receiver goroutine does to the jobs and the files.     *)

\* A receiver moves its own job from one status to another, and nothing else of the agent's.
JobFrame(t) ==
    /\ Running(t) /\ jobs'[t].status \in Statuses \ {"none"}
    /\ jobs'[t].destination = Destination(t)
    /\ jobs' \in [Transfers -> [status : Statuses, destination : Paths, progress : BOOLEAN,
                                resumed : BOOLEAN]]
    /\ \A u \in Transfers \ {t} : jobs'[u] = jobs[u]
    /\ UNCHANGED <<entries, reserving, names, events>>

\* The file at the partial path is taken up, or the goroutine gives up, or it makes a new one.
LEMMA Prepared ==
    ASSUME NEW t \in Transfers, TypeOK, prepareLiveReceiverPartial(t)
    PROVE  \E s \in {"receiving", "failed", "creating"}, b \in BOOLEAN :
              /\ jobs' = [jobs EXCEPT ![t] = [jobs[t] EXCEPT !.status = s, !.resumed = b]]
              /\ s = "receiving" => files' = Put(PartialOf(t), "partial", t)
<1>1. CASE jobs[t].progress /\ Exists(PartialOf(t))
  <2>1. PICK fits \in BOOLEAN :
           /\ jobs' = [jobs EXCEPT ![t].status = IF fits THEN "receiving" ELSE "failed",
                                   ![t].resumed = fits]
           /\ files' = IF fits THEN Put(PartialOf(t), "partial", t) ELSE files
    BY <1>1 DEF prepareLiveReceiverPartial
  <2>2. CASE fits
    <3>1. jobs' = [jobs EXCEPT ![t] = [jobs[t] EXCEPT !.status = "receiving", !.resumed = TRUE]]
      BY <2>1, <2>2 DEF TypeOK
    <3> QED
      BY <2>1, <2>2, <3>1
  <2>3. CASE ~fits
    <3>1. jobs' = [jobs EXCEPT ![t] = [jobs[t] EXCEPT !.status = "failed", !.resumed = FALSE]]
      BY <2>1, <2>3 DEF TypeOK
    <3> QED
      BY <3>1
  <2> QED
    BY <2>2, <2>3
<1>2. CASE ~(jobs[t].progress /\ Exists(PartialOf(t)))
  <2>1. jobs' = [jobs EXCEPT ![t] = [jobs[t] EXCEPT !.status = "creating", !.resumed = FALSE]]
    BY <1>2 DEF prepareLiveReceiverPartial, TypeOK
  <2> QED
    BY <2>1
<1> QED
  BY <1>1, <1>2

\* That is all any step of ReceiverStep does outside the directory.
LEMMA ReceiverFrame ==
    ASSUME TypeOK, NEW t \in Transfers, ReceiverStep(t)
    PROVE  JobFrame(t)
<1> DEFINE Job == [status : Statuses, destination : Paths, progress : BOOLEAN, resumed : BOOLEAN]
           Framed(k) == k \in Job /\ k.status # "none" /\ k.destination = Destination(t)
<1>1. jobs \in [Transfers -> Job] /\ jobs[t] \in Job
  BY DEF TypeOK
<1>2. SUFFICES jobs[t].status # "none" /\ (\E k : jobs' = [jobs EXCEPT ![t] = k] /\ Framed(k))
               /\ UNCHANGED <<entries, reserving, names, events>>
  BY <1>1 DEF JobFrame, Running
<1>4. ASSUME NEW status \in Statuses \ {"none"}, NEW progress \in BOOLEAN, NEW resumed \in BOOLEAN
      PROVE  /\ Framed([jobs[t] EXCEPT !.status = status])
             /\ Framed([jobs[t] EXCEPT !.status = status, !.progress = progress])
             /\ Framed([jobs[t] EXCEPT !.status = status, !.resumed = resumed])
  BY <1>1 DEF Destination
<1> HIDE DEF Framed
<1>5. CASE CheckDestination(t)
  <2> DEFINE s == IF Exists(Destination(t)) THEN "failed" ELSE "preparing"
             b == jobs[t].progress /\ jobs[t].status = "retryable"
  <2>1. s \in Statuses \ {"none"} /\ b \in BOOLEAN
    BY DEF Statuses
  <2>2. jobs' = [jobs EXCEPT ![t] = [jobs[t] EXCEPT !.status = s, !.progress = b]]
    BY <1>1, <1>5 DEF CheckDestination
  <2> QED
    BY <1>4, <1>5, <2>1, <2>2 DEF CheckDestination
<1>6. CASE prepareLiveReceiverPartial(t)
  <2>1. {"receiving", "failed", "creating"} \subseteq Statuses \ {"none"}
    BY DEF Statuses
  <2>2. PICK s \in {"receiving", "failed", "creating"}, b \in BOOLEAN :
           jobs' = [jobs EXCEPT ![t] = [jobs[t] EXCEPT !.status = s, !.resumed = b]]
    BY <1>6, Prepared
  <2> QED
    BY <1>4, <1>6, <2>1, <2>2 DEF prepareLiveReceiverPartial
<1>7. CASE Interrupted(t)
  <2>1. PICK some \in BOOLEAN :
            jobs' = [jobs EXCEPT ![t] = [jobs[t] EXCEPT !.status = "retryable",
                                                        !.progress = jobs[t].progress \/ some]]
    BY <1>1, <1>7 DEF Interrupted
  <2>2. "retryable" \in Statuses \ {"none"} /\ (jobs[t].progress \/ some) \in BOOLEAN
    BY DEF Statuses
  <2> QED
    BY <1>4, <1>7, <2>1, <2>2 DEF Interrupted
<1>8. ASSUME NEW status \in Statuses \ {"none"}, Becomes(t, status)
      PROVE  \E k : jobs' = [jobs EXCEPT ![t] = k] /\ Framed(k)
  <2>1. jobs' = [jobs EXCEPT ![t] = [jobs[t] EXCEPT !.status = status]]
    BY <1>1, <1>8 DEF Becomes
  <2> QED
    BY <1>4, <2>1
<1>9. {"failed", "receiving", "committing", "completed"} \subseteq Statuses \ {"none"}
  BY DEF Statuses
<1>10. CASE openPartialForAppend(t)
  BY <1>8, <1>9, <1>10 DEF openPartialForAppend
<1>11. CASE Refused(t)
  BY <1>8, <1>9, <1>11 DEF Refused
<1>12. CASE CommitBegin(t)
  BY <1>8, <1>9, <1>12 DEF CommitBegin
<1>13. CASE CommitVerified(t)
  BY <1>8, <1>9, <1>13 DEF CommitVerified
<1>14. CASE CommitMismatch(t)
  BY <1>8, <1>9, <1>14 DEF CommitMismatch
<1> QED
  BY <1>5, <1>6, <1>7, <1>10, <1>11, <1>12, <1>13, <1>14 DEF ReceiverStep

\* The files a receiver makes are its partial file and, where there was none, its copy; it
\* turns its own copy into a file, and removes what is at its partial path or, when the copy is
\* not as promised, at its destination.
FileEffect(t) ==
    /\ \A p \in DOMAIN files' :
          \/ p \in DOMAIN files /\ files'[p] = files[p]
          \/ p = PartialOf(t) /\ files'[p] = [what |-> "partial", by |-> t]
          \/ p = Destination(t) /\ ~Exists(p) /\ files'[p] = [what |-> "copy", by |-> t]
          \/ p = Destination(t) /\ OwnCopy(t) /\ files'[p] = [what |-> "file", by |-> t]
    /\ \A p \in DOMAIN files \ DOMAIN files' :
          \/ p = PartialOf(t)
          \/ p = Destination(t) /\ CommitMismatch(t)

\* That is all any step of ReceiverStep does in the directory.
LEMMA ReceiverEffect ==
    ASSUME NEW t \in Transfers, ReceiverStep(t)
    PROVE  FileEffect(t)
<1>1. CASE UNCHANGED files
  BY <1>1 DEF FileEffect
<1>2. CASE files' = Without(PartialOf(t))
  BY <1>2 DEF FileEffect, Without, Restrict
<1>3. CASE openPartialForAppend(t)
  BY <1>1, <1>3 DEF openPartialForAppend, FileEffect, Put, Exists
<1>4. CASE CommitBegin(t)
  BY <1>1, <1>2, <1>4 DEF CommitBegin, FileEffect, Put, Exists, AfterFailure
<1>5. CASE CommitVerified(t)
  <2> DEFINE copied == Put(Destination(t), "file", t)
  <2>1. /\ DOMAIN copied = DOMAIN files /\ copied[Destination(t)] = [what |-> "file", by |-> t]
        /\ \A p \in DOMAIN files : p # Destination(t) => copied[p] = files[p]
    BY <1>5 DEF CommitVerified, OwnCopy, Exists, Put
  <2>2. OwnCopy(t) /\ files' = IF OwnPartial(t) THEN Restrict(copied, DOMAIN copied \ {PartialOf(t)})
                                                ELSE copied
    BY <1>5 DEF CommitVerified
  <2> HIDE DEF copied
  <2> QED
    BY <2>1, <2>2 DEF FileEffect, Restrict
<1>6. CASE CommitMismatch(t)
  <2> DEFINE gone == {Destination(t)} \cup (IF jobs[t].resumed THEN {} ELSE {PartialOf(t)})
  <2>1. gone \subseteq {Destination(t), PartialOf(t)}
    OBVIOUS
  <2>2. files' = Restrict(files, DOMAIN files \ gone)
    BY <1>6 DEF CommitMismatch
  <2> HIDE DEF gone
  <2> QED
    BY <1>6, <2>1, <2>2 DEF FileEffect, Restrict
<1>7. CASE prepareLiveReceiverPartial(t)
  <2>1. \/ files' = files \/ files' = Without(PartialOf(t))
        \/ files' = Put(PartialOf(t), "partial", t)
    BY <1>7 DEF prepareLiveReceiverPartial
  <2>2. CASE files' = Put(PartialOf(t), "partial", t)
    BY <2>2 DEF FileEffect, Put
  <2> QED
    BY <1>1, <1>2, <2>1, <2>2
<1>8. CASE Refused(t)
  BY <1>1, <1>2, <1>8 DEF Refused, AfterFailure
<1>9. CASE CheckDestination(t) \/ Interrupted(t)
  BY <1>1, <1>9 DEF CheckDestination, Interrupted
<1> QED
  BY <1>3, <1>4, <1>5, <1>6, <1>7, <1>8, <1>9 DEF ReceiverStep

-----------------------------------------------------------------------------
(* The invariant is inductive.                                             *)

\* The steps of the receivers keep it.
LEMMA ReceiverPreserves ==
    ASSUME IInv, NEW t \in Transfers, ReceiverStep(t)
    PROVE  IInv'
<1> DEFINE File == [what : {"user", "metadata", "partial", "copy", "file"},
                    by : Transfers \cup {Nobody}]
<1>1. JobFrame(t) /\ FileEffect(t)
  BY ReceiverFrame, ReceiverEffect DEF IInv
<1>2. \A u \in Transfers : jobs'[u].destination = Destination(u) /\ Destination(u) \in Paths
  BY <1>1 DEF JobFrame, Destination, IInv, TypeOK
<1>3. \A u \in Transfers : (jobs'[u].status # "none") = Running(u)
  BY <1>1 DEF JobFrame, Running
<1>4. \A u \in Transfers : Partial(Destination(u)) \in Paths
  BY <1>2, PathFacts
<1>5. TypeOK'
  <2>1. [what |-> "partial", by |-> t] \in File /\ [what |-> "copy", by |-> t] \in File
        /\ [what |-> "file", by |-> t] \in File
    OBVIOUS
  <2>2. DOMAIN files' \subseteq Paths /\ \A p \in DOMAIN files' : files'[p] \in File
    BY <1>1, <1>2, <1>4, <2>1 DEF FileEffect, IInv, TypeOK, PartialOf
  <2> QED
    BY <1>1, <2>2 DEF JobFrame, IInv, TypeOK
<1>6. Bookkept'
  BY <1>1, <1>2, <1>3 DEF JobFrame, Bookkept, IInv, Running, Destination
<1>7. DistinctDestinations'
  BY <1>1, <1>2, <1>3 DEF JobFrame, DistinctDestinations, IInv, Running, Destination
<1>8. \A u \in Transfers : u # t /\ Running(u) => Destination(u) # Destination(t)
  BY <1>1 DEF JobFrame, DistinctDestinations, IInv, Running
<1>9. Running(t)
  BY <1>1 DEF JobFrame
<1>10. MetadataIsOwn'
  <2> SUFFICES ASSUME NEW u \in Transfers, Running(u),
                      Metadata(Destination(u)) \in DOMAIN files',
                      files'[Metadata(Destination(u))].what = "metadata"
               PROVE  files'[Metadata(Destination(u))].by = u
    BY <1>2, <1>3 DEF MetadataIsOwn, Running, Exists, Destination
  <2>1. /\ Metadata(Destination(u)) \in DOMAIN files
        /\ files'[Metadata(Destination(u))] = files[Metadata(Destination(u))]
    BY <1>1 DEF FileEffect
  <2> QED
    BY <2>1 DEF IInv, MetadataIsOwn, Exists
<1>11. CandidateIsUnused'
  <2> SUFFICES ASSUME reserving # NoOffer, reserving.destination \in DOMAIN files'
               PROVE  files'[reserving.destination].what \notin {"copy", "file"}
    BY <1>1 DEF JobFrame, CandidateIsUnused, Exists, NoOffer
  <2>1. reserving.destination # Destination(t)
    BY <1>9 DEF IInv, Bookkept, DistinctDestinations, Running
  <2> QED
    BY <1>1, <2>1 DEF FileEffect, IInv, CandidateIsUnused, Exists
<1>12. MetadataTellsOrigin'
  <2> SUFFICES ASSUME NEW p \in DOMAIN files', files'[p].what \in {"copy", "file"},
                      Metadata(p) \in DOMAIN files', files'[Metadata(p)].what = "metadata"
               PROVE  files'[Metadata(p)].by = files'[p].by
    BY DEF MetadataTellsOrigin, Exists
  <2>1. Metadata(p) \in DOMAIN files /\ files'[Metadata(p)] = files[Metadata(p)]
    BY <1>1 DEF FileEffect
  <2>2. CASE p \in DOMAIN files /\ files'[p] = files[p]
    BY <2>1, <2>2 DEF IInv, MetadataTellsOrigin, Exists
  <2>3. CASE p = Destination(t) /\ files'[p].by = t
    BY <1>9, <2>1, <2>3 DEF IInv, MetadataIsOwn, Exists
  <2> QED
    BY <1>1, <2>2, <2>3 DEF FileEffect
<1>13. PartialsAreOwn'
  <2> SUFFICES ASSUME NEW u \in Transfers, jobs'[u].status \in {"receiving", "committing"},
                      \A v \in Transfers : Destination(v) # PartialOf(u)
               PROVE  PartialOf(u) \in DOMAIN files' /\ files'[PartialOf(u)] = [what |-> "partial", by |-> u]
    BY <1>2 DEF PartialsAreOwn, OwnPartial, Exists, PartialOf, Destination
  <2>1. CASE u # t
    <3>1. PartialOf(u) # PartialOf(t)
      BY <1>2, <1>3, <1>8, <2>1, PathFacts DEF PartialOf, Running
    <3>2. OwnPartial(u)
      BY <1>1, <2>1 DEF JobFrame, IInv, PartialsAreOwn
    <3> QED
      BY <1>1, <3>1, <3>2 DEF FileEffect, OwnPartial, Exists
  <2>2. CASE u = t
    <3>1. Destination(t) # PartialOf(t)
      BY <2>2
    <3>2. CASE prepareLiveReceiverPartial(t)
      <4>1. PICK s \in {"receiving", "failed", "creating"}, b \in BOOLEAN :
               /\ jobs' = [jobs EXCEPT ![t] = [jobs[t] EXCEPT !.status = s, !.resumed = b]]
               /\ s = "receiving" => files' = Put(PartialOf(t), "partial", t)
        BY <3>2, Prepared DEF IInv
      <4>2. jobs'[t].status = s
        BY <4>1 DEF IInv, TypeOK
      <4> QED
        BY <2>2, <4>1, <4>2 DEF Put
    <3>3. CASE openPartialForAppend(t)
      BY <2>2, <3>3 DEF openPartialForAppend, Becomes, Put, Exists, IInv, TypeOK
    <3>4. CASE CommitBegin(t)
      BY <2>2, <3>1, <3>4 DEF CommitBegin, Becomes, OwnPartial, Put, Exists, IInv, TypeOK
    <3>5. CASE CheckDestination(t)
      BY <2>2, <3>5 DEF CheckDestination, IInv, TypeOK
    <3>6. CASE Interrupted(t)
      BY <2>2, <3>6 DEF Interrupted, IInv, TypeOK
    <3>7. CASE Refused(t) \/ CommitVerified(t) \/ CommitMismatch(t)
      BY <2>2, <3>7 DEF Refused, CommitVerified, CommitMismatch, Becomes, IInv, TypeOK
    <3> QED
      BY <3>2, <3>3, <3>4, <3>5, <3>6, <3>7 DEF ReceiverStep
  <2> QED
    BY <2>1, <2>2
<1>14. CopiesAreOwn'
  <2> SUFFICES ASSUME NEW u \in Transfers, jobs'[u].status = "committing",
                      ~EndsInPart(Destination(u))
               PROVE  Destination(u) \in DOMAIN files' /\ files'[Destination(u)] = [what |-> "copy", by |-> u]
    BY <1>2 DEF CopiesAreOwn, OwnCopy, Exists, Destination
  <2>1. Destination(u) # PartialOf(t)
    BY <1>2, PathFacts DEF PartialOf
  <2>2. CASE u # t
    <3>1. OwnCopy(u) /\ Destination(u) # Destination(t)
      BY <1>1, <1>3, <1>8, <2>2 DEF JobFrame, IInv, CopiesAreOwn, Running
    <3> QED
      BY <1>1, <2>1, <3>1 DEF FileEffect, OwnCopy, Exists
  <2>3. CASE u = t
    <3>1. CASE CommitBegin(t)
      BY <2>3, <3>1 DEF CommitBegin, Becomes, Put, Exists, IInv, TypeOK
    <3>2. CASE ~CommitBegin(t)
      <4>0. CASE prepareLiveReceiverPartial(t)
        <5>1. PICK s \in {"receiving", "failed", "creating"}, b \in BOOLEAN :
                 jobs' = [jobs EXCEPT ![t] = [jobs[t] EXCEPT !.status = s, !.resumed = b]]
          BY <4>0, Prepared DEF IInv
        <5> QED
          BY <2>3, <5>1 DEF IInv, TypeOK
      <4>1. CASE CheckDestination(t) \/ Interrupted(t)
        BY <2>3, <4>1 DEF CheckDestination, Interrupted, IInv, TypeOK
      <4>2. CASE openPartialForAppend(t) \/ Refused(t) \/ CommitVerified(t) \/ CommitMismatch(t)
        BY <2>3, <4>2 DEF openPartialForAppend, Refused, CommitVerified, CommitMismatch, Becomes,
                          IInv, TypeOK
      <4> QED
        BY <3>2, <4>0, <4>1, <4>2 DEF ReceiverStep
    <3> QED
      BY <3>1, <3>2
  <2> QED
    BY <2>2, <2>3
<1> QED
  BY <1>5, <1>6, <1>7, <1>10, <1>11, <1>12, <1>13, <1>14 DEF IInv

\* One more file where there was none, or one file less that is neither a partial file nor a copy,
\* leaves what the receivers rely on alone, as long as it is not the metadata of a destination.
DirectoryEffect ==
    /\ UNCHANGED <<entries, jobs, names>>
    /\ \A p \in DOMAIN files' : p \in DOMAIN files => files'[p] = files[p]
    /\ \A p \in DOMAIN files \ DOMAIN files' : files[p].what \notin {"partial", "copy"}
    /\ \A p \in DOMAIN files' \ DOMAIN files :
          \/ p \in Paths /\ files'[p] = [what |-> "user", by |-> Nobody]
          \/ /\ reserving # NoOffer /\ reserving' = NoOffer
             /\ p = Metadata(reserving.destination)
             /\ files'[p] = [what |-> "metadata", by |-> reserving.transfer]
    /\ reserving' \in {reserving, NoOffer}
    /\ events' \in 0..MaxEvents

\* Such a step keeps the invariant.
LEMMA DirectoryPreserves ==
    ASSUME IInv, DirectoryEffect
    PROVE  IInv'
<1> DEFINE File == [what : {"user", "metadata", "partial", "copy", "file"},
                    by : Transfers \cup {Nobody}]
<1>1. \A u \in Transfers : Destination(u)' = Destination(u) /\ Destination(u) \in Paths
  BY DEF DirectoryEffect, Destination, IInv, TypeOK
<1>2. \A u \in Transfers : Running(u)' = Running(u) /\ jobs'[u] = jobs[u]
  BY DEF DirectoryEffect, Running
<1>3. reserving.destination \in Paths /\ reserving.transfer \in Transfers \cup {Nobody}
  BY DEF IInv, TypeOK
<1>4. Metadata(reserving.destination) \in Paths
  BY <1>3, PathFacts
<1>5. TypeOK'
  <2>1. [what |-> "user", by |-> Nobody] \in File
        /\ [what |-> "metadata", by |-> reserving.transfer] \in File
    BY <1>3
  <2>2. DOMAIN files' \subseteq Paths /\ \A p \in DOMAIN files' : files'[p] \in File
    BY <1>4, <2>1 DEF DirectoryEffect, IInv, TypeOK
  <2>3. NoOffer \in [transfer : Transfers \cup {Nobody}, destination : Paths]
    BY DEF NoOffer, Paths
  <2> QED
    BY <2>2, <2>3 DEF DirectoryEffect, IInv, TypeOK
<1>6. Bookkept'
  BY <1>1, <1>2 DEF DirectoryEffect, IInv, Bookkept, NoOffer
<1>7. DistinctDestinations'
  <2>1. \A u \in Transfers : NoOffer.transfer # u
    BY OwnerAssumption DEF NoOffer
  <2> QED
    BY <1>1, <1>2, <2>1 DEF DirectoryEffect, IInv, DistinctDestinations
<1>8. ASSUME reserving # NoOffer
      PROVE  \A u \in Transfers : Running(u) => Destination(u) # reserving.destination
  BY <1>8 DEF IInv, Bookkept, DistinctDestinations, Running
<1>9. MetadataIsOwn'
  <2> SUFFICES ASSUME NEW u \in Transfers, Running(u),
                      Metadata(Destination(u)) \in DOMAIN files',
                      files'[Metadata(Destination(u))].what = "metadata"
               PROVE  files'[Metadata(Destination(u))].by = u
    BY <1>1, <1>2 DEF MetadataIsOwn, Exists
  <2>1. Metadata(Destination(u)) \in DOMAIN files
    BY <1>1, <1>3, <1>8, PathFacts DEF DirectoryEffect
  <2> QED
    BY <2>1 DEF DirectoryEffect, IInv, MetadataIsOwn, Exists
<1>10. CandidateIsUnused'
  BY DEF DirectoryEffect, IInv, CandidateIsUnused, Exists
<1>11. MetadataTellsOrigin'
  <2> SUFFICES ASSUME NEW p \in DOMAIN files', files'[p].what \in {"copy", "file"},
                      Metadata(p) \in DOMAIN files', files'[Metadata(p)].what = "metadata"
               PROVE  files'[Metadata(p)].by = files'[p].by
    BY DEF MetadataTellsOrigin, Exists
  <2>1. p \in DOMAIN files /\ files'[p] = files[p] /\ p \in Paths
    BY <1>5 DEF DirectoryEffect, TypeOK
  <2>2. Metadata(p) \in DOMAIN files
    <3>1. SUFFICES ASSUME reserving # NoOffer, Metadata(p) = Metadata(reserving.destination)
                   PROVE  FALSE
      BY DEF DirectoryEffect
    <3>2. p = reserving.destination
      BY <1>3, <2>1, <3>1, PathFacts
    <3> QED
      BY <2>1, <3>1, <3>2 DEF IInv, CandidateIsUnused, Exists
  <2> QED
    BY <2>1, <2>2 DEF DirectoryEffect, IInv, MetadataTellsOrigin, Exists
<1>12. PartialsAreOwn'
  <2> SUFFICES ASSUME NEW u \in Transfers, OwnPartial(u) PROVE OwnPartial(u)'
    BY <1>1, <1>2 DEF PartialsAreOwn, PartialOf, IInv
  <2>1. PartialOf(u)' = PartialOf(u)
    BY <1>1 DEF PartialOf
  <2> QED
    BY <2>1 DEF OwnPartial, Exists, DirectoryEffect
<1>13. CopiesAreOwn'
  <2> SUFFICES ASSUME NEW u \in Transfers, OwnCopy(u) PROVE OwnCopy(u)'
    BY <1>1, <1>2 DEF CopiesAreOwn, IInv
  <2> QED
    BY <1>1 DEF OwnCopy, Exists, DirectoryEffect
<1> QED
  BY <1>5, <1>6, <1>7, <1>9, <1>10, <1>11, <1>12, <1>13 DEF IInv

\* The user and a reservation that fails are such steps.
LEMMA UserPreserves ==
    ASSUME IInv, User \/ ReserveError
    PROVE  DirectoryEffect
<1>1. events \in Nat /\ MaxEvents \in Nat /\ events \in 0..MaxEvents
      /\ (events < MaxEvents => events + 1 \in 0..MaxEvents)
  BY BoundAssumption DEF IInv, TypeOK
<1>2. CASE ReserveError
  BY <1>1, <1>2 DEF ReserveError, DirectoryEffect, Put, Exists
<1>3. ASSUME NEW path \in UserPaths, UserPuts(path) PROVE DirectoryEffect
  <2>1. path \in Paths
    BY NameAssumption DEF Paths
  <2> QED
    BY <1>1, <1>3, <2>1 DEF UserPuts, DirectoryEffect, Put, Exists
<1>4. ASSUME NEW path \in DOMAIN files, UserTakes(path) PROVE DirectoryEffect
  BY <1>1, <1>4 DEF UserTakes, DirectoryEffect, Without, Restrict
<1> QED
  BY <1>2, <1>3, <1>4 DEF User

\* Choosing a candidate, reserving it and forgetting everything in a restart keep the invariant.
LEMMA AgentPreserves ==
    ASSUME IInv, Reserve \/ Restart \/ \E t \in Transfers : ReserveChoose(t)
    PROVE  IInv'
<1>1. CASE Restart
  <2>1. /\ \A t \in Transfers : jobs'[t] = NoJob
        /\ entries' = {} /\ reserving' = NoOffer /\ files' = files /\ names' = names
    BY <1>1 DEF Restart
  <2>2. NoOffer.transfer = Nobody /\ NoJob.status = "none" /\ NoJob.destination = <<>>
    BY DEF NoOffer, NoJob
  <2>3. TypeOK'
    BY <1>1, BoundAssumption DEF Restart, IInv, TypeOK, NoJob, NoOffer, Statuses, Paths
  <2>4. Bookkept' /\ DistinctDestinations' /\ MetadataIsOwn' /\ CandidateIsUnused'
    BY <2>1, <2>2, OwnerAssumption
    DEF Bookkept, DistinctDestinations, MetadataIsOwn, CandidateIsUnused, Running, Destination
  <2>5. MetadataTellsOrigin'
    BY <2>1 DEF IInv, MetadataTellsOrigin, Exists
  <2>6. PartialsAreOwn' /\ CopiesAreOwn'
    BY <2>1, <2>2 DEF PartialsAreOwn, CopiesAreOwn
  <2> QED
    BY <2>3, <2>4, <2>5, <2>6 DEF IInv
<1>2. ASSUME NEW t \in Transfers, ReserveChoose(t) PROVE IInv'
  <2> DEFINE d == uniqueDestination(names[t])
  <2>1. names[t] \in Names
    BY DEF IInv, TypeOK
  <2>2. d \in Paths /\ Free(d)
    BY <1>2, <2>1, DestinationIsFree DEF ReserveChoose
  <2>3. /\ reserving' = [transfer |-> t, destination |-> d]
        /\ UNCHANGED <<files, entries, jobs, names, events>> /\ ~Running(t)
    BY <1>2 DEF ReserveChoose, Running
  <2> HIDE DEF d
  <2>4. TypeOK'
    BY <2>2, <2>3 DEF IInv, TypeOK
  <2>5. Bookkept'
    BY <2>2, <2>3 DEF IInv, Bookkept, Free, destinationReserved, Running, Destination
  <2>6. DistinctDestinations'
    BY <2>2, <2>3
    DEF IInv, Bookkept, DistinctDestinations, Free, destinationReserved, Running, Destination
  <2>7. CandidateIsUnused'
    BY <2>2, <2>3 DEF CandidateIsUnused, Free, Exists
  <2>8. MetadataIsOwn' /\ MetadataTellsOrigin' /\ CopiesAreOwn'
    BY <2>3 DEF IInv, MetadataIsOwn, MetadataTellsOrigin, CopiesAreOwn, OwnCopy, Exists,
                Running, Destination
  <2>9. PartialsAreOwn'
    BY <2>3 DEF IInv, PartialsAreOwn, OwnPartial, PartialOf, Exists, Destination
  <2> QED
    BY <2>4, <2>5, <2>6, <2>7, <2>8, <2>9 DEF IInv
<1>3. CASE Reserve
  <2> DEFINE t == reserving.transfer
             d == reserving.destination
             k == [NoJob EXCEPT !.status = "accepted", !.destination = d]
  <2>1. t \in Transfers /\ d \in Paths /\ ~Running(t) /\ Destination(t) = <<>>
    BY <1>3 DEF Reserve, IInv, TypeOK, Bookkept
  <2>2. /\ k \in [status : Statuses, destination : Paths, progress : BOOLEAN, resumed : BOOLEAN]
        /\ k.status = "accepted" /\ k.destination = d
    BY <2>1 DEF NoJob, Statuses
  <2>3. /\ Metadata(d) \notin DOMAIN files /\ entries' = entries \cup {[transfer |-> t, destination |-> d]}
        /\ jobs' = [jobs EXCEPT ![t] = k]
        /\ reserving # NoOffer /\ reserving' = NoOffer /\ UNCHANGED <<names, events>>
    BY <1>3 DEF Reserve, Exists
  <2>4. /\ DOMAIN files' = DOMAIN files \cup {Metadata(d)}
        /\ files'[Metadata(d)] = [what |-> "metadata", by |-> t]
        /\ \A p \in DOMAIN files : files'[p] = files[p]
    BY <1>3, <2>3 DEF Reserve, Put
  <2> HIDE DEF k
  <2>5. jobs'[t] = k /\ \A u \in Transfers \ {t} : jobs'[u] = jobs[u]
    BY <2>1, <2>3 DEF IInv, TypeOK
  <2>6. \A u \in Transfers : Destination(u) \in Paths
    BY DEF IInv, TypeOK, Destination
  <2>7. \A u \in Transfers \ {t} : Running(u) => Destination(u) # d
    BY <2>1 DEF IInv, DistinctDestinations, Running
  <2>8. Metadata(d) \in Paths
    BY <2>1, PathFacts
  <2>9. TypeOK'
    <3>1. NoOffer \in [transfer : Transfers \cup {Nobody}, destination : Paths]
      BY DEF NoOffer, Paths
    <3>2. /\ DOMAIN files' \subseteq Paths
          /\ \A p \in DOMAIN files' : files'[p] \in [what : {"user", "metadata", "partial", "copy", "file"},
                                                     by : Transfers \cup {Nobody}]
      BY <2>1, <2>4, <2>8 DEF IInv, TypeOK
    <3> QED
      BY <2>1, <2>2, <2>3, <3>1, <3>2 DEF IInv, TypeOK
  <2>10. Bookkept'
    BY <2>1, <2>2, <2>3, <2>5 DEF IInv, Bookkept, Running, Destination
  <2>11. DistinctDestinations'
    <3>1. \A u \in Transfers : NoOffer.transfer # u
      BY OwnerAssumption DEF NoOffer
    <3> QED
      BY <2>1, <2>2, <2>3, <2>5, <2>7, <3>1 DEF IInv, DistinctDestinations, Running, Destination
  <2>12. MetadataIsOwn'
    <3> SUFFICES ASSUME NEW u \in Transfers \ {t}, Running(u),
                        Metadata(Destination(u)) \in DOMAIN files',
                        files'[Metadata(Destination(u))].what = "metadata"
                 PROVE  files'[Metadata(Destination(u))].by = u
      BY <2>2, <2>4, <2>5 DEF MetadataIsOwn, Exists, Running, Destination
    <3>1. Metadata(Destination(u)) \in DOMAIN files
      BY <2>1, <2>4, <2>6, <2>7, PathFacts
    <3> QED
      BY <2>4, <3>1 DEF IInv, MetadataIsOwn, Exists
  <2>13. CandidateIsUnused'
    BY <2>3 DEF CandidateIsUnused
  <2>14. MetadataTellsOrigin'
    <3> SUFFICES ASSUME NEW p \in DOMAIN files', files'[p].what \in {"copy", "file"},
                        Metadata(p) \in DOMAIN files', files'[Metadata(p)].what = "metadata"
                 PROVE  files'[Metadata(p)].by = files'[p].by
      BY DEF MetadataTellsOrigin, Exists
    <3>1. p \in DOMAIN files /\ files'[p] = files[p] /\ p \in Paths
      BY <2>4, <2>9 DEF TypeOK
    <3>2. p # d
      BY <2>3, <3>1 DEF IInv, CandidateIsUnused, Exists
    <3>3. Metadata(p) \in DOMAIN files
      BY <2>1, <2>4, <3>1, <3>2, PathFacts
    <3> QED
      BY <2>4, <3>1, <3>3 DEF IInv, MetadataTellsOrigin, Exists
  <2>15. PartialsAreOwn'
    <3> SUFFICES ASSUME NEW u \in Transfers \ {t}, jobs[u].status \in {"receiving", "committing"},
                        \A v \in Transfers : jobs'[v].destination # PartialOf(u)
                 PROVE  OwnPartial(u)'
      BY <2>2, <2>5 DEF PartialsAreOwn, PartialOf, Destination
    <3>1. Destination(t) # PartialOf(u)
      BY <2>1, <2>6, PathFacts DEF PartialOf
    <3>2. OwnPartial(u)
      BY <2>5, <3>1 DEF IInv, PartialsAreOwn, Destination
    <3>3. PartialOf(u)' = PartialOf(u)
      BY <2>5 DEF PartialOf, Destination
    <3> QED
      BY <2>4, <3>2, <3>3 DEF OwnPartial, Exists
  <2>16. CopiesAreOwn'
    BY <2>2, <2>4, <2>5 DEF IInv, CopiesAreOwn, OwnCopy, Exists, Destination
  <2> QED
    BY <2>9, <2>10, <2>11, <2>12, <2>13, <2>14, <2>15, <2>16 DEF IInv
<1> QED
  BY <1>1, <1>2, <1>3

\* The invariant holds in every state of every behaviour.
LEMMA Invariance == Spec => []IInv
<1>1. Init => IInv
  <2> SUFFICES ASSUME Init PROVE IInv
    OBVIOUS
  <2>1. /\ DOMAIN files = {} /\ entries = {} /\ reserving = NoOffer
        /\ jobs = [t \in Transfers |-> NoJob]
    BY DEF Init
  <2>2. TypeOK
    BY <2>1, BoundAssumption DEF Init, TypeOK, NoJob, NoOffer, Statuses, Paths
  <2>3. \A t \in Transfers : NoOffer.transfer # t /\ NoJob.status = "none" /\ NoJob.destination = <<>>
    BY OwnerAssumption DEF NoJob, NoOffer
  <2> QED
    BY <2>1, <2>2, <2>3
    DEF IInv, Bookkept, DistinctDestinations, MetadataIsOwn, CandidateIsUnused,
        MetadataTellsOrigin, PartialsAreOwn, CopiesAreOwn, Running, Destination
<1>2. IInv /\ [Next]_vars => IInv'
  <2> SUFFICES ASSUME IInv, [Next]_vars PROVE IInv'
    OBVIOUS
  <2>1. CASE UNCHANGED vars
    <3>1. DirectoryEffect
      BY <2>1 DEF vars, DirectoryEffect, IInv, TypeOK
    <3> QED
      BY <3>1, DirectoryPreserves
  <2>2. CASE User \/ ReserveError
    BY <2>2, UserPreserves, DirectoryPreserves
  <2>3. CASE Reserve \/ Restart \/ \E t \in Transfers : ReserveChoose(t)
    BY <2>3, AgentPreserves
  <2>4. ASSUME NEW t \in Transfers, ReceiverStep(t) PROVE IInv'
    BY <2>4, ReceiverPreserves
  <2> QED
    BY <2>1, <2>2, <2>3, <2>4 DEF Next
<1> QED
  BY <1>1, <1>2, PTL DEF Spec

-----------------------------------------------------------------------------
(* The results.                                                            *)

\* The variables keep their types: in particular every destination Reserve hands out is a path.
THEOREM TypeCorrect == Spec => []TypeOK
<1>1. IInv => TypeOK
  BY DEF IInv
<1> QED
  BY <1>1, Invariance, PTL

\* However many offers of however many names arrive, whatever the user puts into the inbox or
\* clears away, uniqueDestination never gives two running transfers the same destination.
THEOREM DestinationsAreDistinct == Spec => []DistinctDestinations
<1>1. IInv => DistinctDestinations
  BY DEF IInv
<1> QED
  BY <1>1, Invariance, PTL

\* The metadata beside a received file is that of the transfer it came with, across any number of
\* restarts that forget the reservations and writes that leave only the metadata behind.
THEOREM OriginIsTold == Spec => []MetadataTellsOrigin
<1>1. IInv => MetadataTellsOrigin
  BY DEF IInv
<1> QED
  BY <1>1, Invariance, PTL

\* A receiver that streams or commits still has the partial file it opened, unless its partial
\* path is another transfer's destination.
THEOREM PartialsStay == Spec => []PartialsAreOwn
<1>1. IInv => PartialsAreOwn
  BY DEF IInv
<1> QED
  BY <1>1, Invariance, PTL

\* No reservation, receiver or restart removes or replaces a finished file or one of the user's,
\* unless its name ends as the code's partial files do.
THEOREM FinishedFilesAreKept == Spec => KeepsFinishedFiles
<1> DEFINE Keeping == (\A q \in DOMAIN files : ~UserTakes(q)) =>
                          \A p \in DOMAIN files : Finished(p) /\ ~EndsInPart(p) => Keeps(p)
<1>1. IInv /\ [Next]_vars => [Keeping]_vars
  <2> SUFFICES ASSUME IInv, Next, \A q \in DOMAIN files : ~UserTakes(q),
                      NEW p \in DOMAIN files, Finished(p), ~EndsInPart(p)
               PROVE  Keeps(p)
    OBVIOUS
  <2>1. files[p].what \in {"user", "file"}
    BY DEF Finished
  <2>2. ASSUME NEW t \in Transfers, ReceiverStep(t) PROVE Keeps(p)
    <3>1. FileEffect(t)
      BY <2>2, ReceiverEffect
    <3>2. Destination(t) \in Paths
      BY DEF IInv, TypeOK, Destination
    <3>3. p # PartialOf(t)
      BY <3>2, PathFacts DEF PartialOf
    <3>4. ~(p = Destination(t) /\ OwnCopy(t))
      BY <2>1 DEF OwnCopy
    <3>5. ~(p = Destination(t) /\ CommitMismatch(t))
      BY <3>4 DEF CommitMismatch, IInv, CopiesAreOwn
    <3> QED
      BY <3>1, <3>3, <3>4, <3>5 DEF FileEffect, Keeps, Exists
  <2>3. CASE Reserve \/ ReserveError
    BY <2>3 DEF Reserve, ReserveError, Put, Exists, Keeps
  <2>4. CASE Restart \/ \E t \in Transfers : ReserveChoose(t)
    BY <2>4 DEF Restart, ReserveChoose, Keeps
  <2>5. CASE User
    BY <2>5 DEF User, UserPuts, Put, Exists, Keeps
  <2> QED
    BY <2>2, <2>3, <2>4, <2>5 DEF Next
<1> QED
  BY <1>1, Invariance, PTL DEF Spec, KeepsFinishedFiles
=============================================================================
