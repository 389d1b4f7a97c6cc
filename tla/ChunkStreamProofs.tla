------------------------- MODULE ChunkStreamProofs -------------------------
(***************************************************************************)
(* Proofs about the data plane, for files, chunks and bounds of every      *)
(* size.                                                                   *)
(***************************************************************************)
EXTENDS ChunkStream, SequenceTheorems, TLAPS

----------------------------------------------------------------------------
(* The helpers on sequences                                                *)

\* Rounding an offset up to a chunk gives a sequence number.
LEMMA SequenceType == \A off \in Nat : sequenceForOffset(off) \in Nat
  BY SizeAssumption DEF sequenceForOffset

\* A prefix of a content is a content of that length.
LEMMA PrefixType ==
  ASSUME NEW c \in Content, NEW n \in 0..Len(c)
  PROVE  SubSeq(c, 1, n) \in Content /\ Len(SubSeq(c, 1, n)) = n
  BY DEF Content

\* The prefix as long as the content is the content.
LEMMA WholePrefix ==
  ASSUME NEW c \in Content
  PROVE  SubSeq(c, 1, Len(c)) = c
  BY DEF Content

\* A read before the end of the file returns at least one byte.
LEMMA ReadType ==
  ASSUME NEW c \in Content, NEW off \in Nat, off < Len(c)
  PROVE  /\ ReadAt(c, off) \in Content
         /\ Len(ReadAt(c, off)) \in Nat \ {0}
         /\ off + Len(ReadAt(c, off)) <= Len(c)
         /\ SubSeq(c, 1, off) \o ReadAt(c, off) = SubSeq(c, 1, off + Len(ReadAt(c, off)))
  <1> DEFINE end == IF off + ChunkSize < Len(c) THEN off + ChunkSize ELSE Len(c)
  <1>1. end \in Nat /\ off < end /\ end <= Len(c)
    BY SizeAssumption
  <1> HIDE DEF end
  <1>2. ReadAt(c, off) = SubSeq(c, off + 1, end)
    BY DEF ReadAt, end
  <1>3. /\ SubSeq(c, off + 1, end) \in Content
        /\ Len(SubSeq(c, off + 1, end)) = end - off
        /\ \A i \in 1..(end - off) : SubSeq(c, off + 1, end)[i] = c[off + i]
    BY <1>1 DEF Content
  <1>4. SubSeq(c, 1, off) \o SubSeq(c, off + 1, end) = SubSeq(c, 1, end)
    BY <1>1, <1>3 DEF Content
  <1> QED
    BY <1>1, <1>2, <1>3, <1>4

\* A write leaves a content behind, wherever its position is.
LEMMA WriteType ==
  ASSUME NEW c \in Content, NEW pos \in Nat, NEW data \in Content
  PROVE  WriteAt(c, pos, data) \in Content
  <1> DEFINE n == IF pos + Len(data) > Len(c) THEN pos + Len(data) ELSE Len(c)
             w(i) == IF i > pos /\ i <= pos + Len(data) THEN data[i - pos]
                     ELSE IF i <= Len(c) THEN c[i] ELSE Zero
  <1>1. n \in Nat
    BY DEF Content
  <1>2. \A i \in 1..n : w(i) \in Block
    BY BlockAssumption DEF Content
  <1> HIDE DEF n, w
  <1>3. [i \in 1..n |-> w(i)] \in Seq(Block)
    BY <1>1, <1>2
  <1> QED
    BY <1>3 DEF WriteAt, n, w, Content

----------------------------------------------------------------------------
(* Type correctness                                                        *)

\* The initial state is well typed: a new job, no file, nothing promised.
LEMMA TypeInit == Init => TypeOK
  BY SourceAssumption, BoundAssumption, SizeAssumption
  DEF Init, TypeOK, WritersHoldInode, Attempts, Content, SenderState, ReceiverState, JobStatus

\* A receiver that returns keeps its locals, and writes no more.
LEMMA ReturnType ==
  ASSUME rcv \in [Attempts -> ReceiverState], WritersHoldInode,
         NEW a \in Attempts, NEW keep, ReceiverReturn(a, keep)
  PROVE  rcv' \in [Attempts -> ReceiverState] /\ WritersHoldInode'
  <1> DEFINE r == [rcv[a] EXCEPT !.pc = "stopped"]
  <1>1. rcv' = [rcv EXCEPT ![a] = r]
    BY DEF ReceiverReturn
  <1>2. r \in ReceiverState /\ r.pc = "stopped"
    BY DEF ReceiverState
  <1> HIDE DEF r
  <1> QED
    BY <1>1, <1>2 DEF WritersHoldInode

\* Every step of the environment and of the goroutines keeps the types.
LEMMA TypeStep == TypeOK /\ [Next]_vars => TypeOK'
  <1> SUFFICES ASSUME TypeOK, [Next]_vars PROVE TypeOK'
    OBVIOUS
  <1> USE BoundAssumption, SizeAssumption
  <1>a. rcv \in [Attempts -> ReceiverState] /\ WritersHoldInode
    BY DEF TypeOK
  <1>b. snd \in [Attempts -> SenderState]
    BY DEF TypeOK
  <1>c. rjob.status \in JobStatus /\ rjob.progress \in 0..FileSize
    BY DEF TypeOK
  <1>1. ASSUME NEW a \in Attempts, OpenAttempt(a) PROVE TypeOK'
    <2>1. rcv' \in [Attempts -> ReceiverState]
      BY <1>a, <1>c, <1>1 DEF OpenAttempt, ReceiverState
    <2>w. WritersHoldInode'
      BY <1>a, <1>1 DEF OpenAttempt, ReceiverState, WritersHoldInode
    <2>2. snd' \in [Attempts -> SenderState]
      BY <1>b, <1>1 DEF OpenAttempt, SenderState
    <2>3. up' \in [Attempts -> BOOLEAN]
      BY <1>1 DEF TypeOK, OpenAttempt
    <2>4. runs' \in 0..MaxAttempts /\ live' \in 0..MaxAttempts
      BY <1>1 DEF TypeOK, OpenAttempt, Attempts
    <2> QED
      BY <1>1, <2>1, <2>2, <2>3, <2>4, <2>w DEF TypeOK, OpenAttempt, Attempts
  <1>2. ASSUME NEW a \in Attempts, Cut(a) PROVE TypeOK'
    BY <1>2 DEF TypeOK, WritersHoldInode, Cut
  <1>3. ASSUME OfferOnClosedPeer PROVE TypeOK'
    <2>1. rjob' \in [status : JobStatus, progress : 0..FileSize]
      BY <1>3 DEF TypeOK, OfferOnClosedPeer, failTransferJob, JobStatus
    <2> QED
      BY <1>3, <2>1 DEF TypeOK, WritersHoldInode, OfferOnClosedPeer
  <1>4. ASSUME RemoteRetryable PROVE TypeOK'
    <2>1. rjob' \in [status : JobStatus, progress : 0..FileSize]
      BY <1>4 DEF TypeOK, RemoteRetryable, retryTransferJob, JobStatus
    <2> QED
      BY <1>4, <2>1 DEF TypeOK, WritersHoldInode, RemoteRetryable
  <1>5. ASSUME NEW st \in {"failed", "cancelled"}, RemoteTerminal(st) PROVE TypeOK'
    <2>1. rjob' \in [status : JobStatus, progress : 0..FileSize]
      BY <1>5 DEF TypeOK, RemoteTerminal, JobStatus
    <2> QED
      BY <1>5, <2>1, SMTT(30) DEF TypeOK, WritersHoldInode, RemoteTerminal
  <1>6. ASSUME EditSource PROVE TypeOK'
    <2>1. snd' \in [Attempts -> SenderState]
      BY <1>b, <1>6 DEF EditSource, SenderState
    <2>2. source' \in Content
      BY <1>6, SourceAssumption DEF TypeOK, EditSource
    <2> QED
      BY <1>6, <2>1, <2>2, SMTT(30) DEF TypeOK, WritersHoldInode, EditSource
  <1>7. ASSUME RotPartial PROVE TypeOK'
    <2>1. file' \in [Attempts -> Content]
      BY <1>7 DEF TypeOK, RotPartial, Content, Attempts
    <2> QED
      BY <1>7, <2>1 DEF TypeOK, WritersHoldInode, RotPartial
  <1>8. ASSUME NEW a \in Attempts, NEW off \in reported, SenderStart(a, off) PROVE TypeOK'
    <2>a. off \in 0..Len(source) /\ source \in Content
      BY <1>8 DEF TypeOK, SenderStart
    <2>b. off \in Nat /\ SubSeq(source, 1, off) \in Content /\ sequenceForOffset(off) \in Nat
      BY <2>a, SequenceType, PrefixType
    <2>1. snd' \in [Attempts -> SenderState]
      BY <1>b, <1>8, <2>b DEF SenderStart, prepareSenderResume, SenderState
    <2> QED
      BY <1>8, <2>1 DEF TypeOK, WritersHoldInode, SenderStart
  <1>9. ASSUME NEW a \in Attempts, SendChunk(a) PROVE TypeOK'
    <2> DEFINE data == ReadAt(source, snd[a].total)
    <2>1. snd[a].total \in Nat /\ snd[a].seq \in Nat /\ snd[a].hash \in Content
      BY DEF TypeOK, SenderState
    <2>2. data \in Content /\ Len(data) \in Nat
      BY <1>9, <2>1, ReadType DEF TypeOK, SendChunk
    <2> HIDE DEF data
    <2>3. snd[a].hash \o data \in Content
      BY <2>1, <2>2 DEF Content
    <2>4. snd' = [snd EXCEPT ![a].total = @ + Len(data), ![a].seq = @ + 1, ![a].hash = @ \o data]
      BY <1>9 DEF SendChunk, data
    <2>5. snd' \in [Attempts -> SenderState]
      BY <1>b, <2>1, <2>2, <2>3, <2>4, SMTT(30) DEF SenderState
    <2>6. Chunk(snd[a].seq, snd[a].total, data) \in Frames
      BY <2>1, <2>2 DEF Chunk, Frames, ChunkFrames
    <2>7. net' \in [Attempts -> Seq(Frames)]
      BY <1>9, <2>6 DEF TypeOK, SendChunk, data
    <2> QED
      BY <1>9, <2>5, <2>7 DEF TypeOK, WritersHoldInode, SendChunk
  <1>10. ASSUME NEW a \in Attempts, SendSentinel(a) PROVE TypeOK'
    <2>1. snd' \in [Attempts -> SenderState]
      BY <1>b, <1>10 DEF SendSentinel, SenderState
    <2>a. Chunk(0, 0, <<>>) \in Frames
      BY DEF Frames, ChunkFrames, Chunk, Content
    <2>2. net' \in [Attempts -> Seq(Frames)]
      BY <1>10, <2>a DEF TypeOK, SendSentinel
    <2> QED
      BY <1>10, <2>1, <2>2 DEF TypeOK, WritersHoldInode, SendSentinel
  <1>11. ASSUME NEW a \in Attempts, SendManifest(a) PROVE TypeOK'
    <2>1. snd' \in [Attempts -> SenderState]
      BY <1>b, <1>11 DEF SendManifest, SenderState
    <2>a. ManifestFrame(snd[a].total, snd[a].seq, snd[a].hash) \in Frames
      BY <1>b DEF Frames, ManifestFrames, ManifestFrame, SenderState
    <2>2. net' \in [Attempts -> Seq(Frames)]
      BY <1>11, <2>a DEF TypeOK, SendManifest
    <2>3. promised' \subseteq Content
      BY <1>11 DEF TypeOK, SendManifest, SenderState
    <2> QED
      BY <1>11, <2>1, <2>2, <2>3 DEF TypeOK, WritersHoldInode, SendManifest
  <1>12. ASSUME NEW a \in Attempts, SenderStop(a) PROVE TypeOK'
    <2>1. snd' \in [Attempts -> SenderState]
      BY <1>b, <1>12 DEF SenderStop, SenderState
    <2> QED
      BY <1>12, <2>1 DEF TypeOK, WritersHoldInode, SenderStop
  <1>13. ASSUME NEW a \in Attempts, ReceiverStart(a) PROVE TypeOK'
    <2>1. rcv' \in [Attempts -> ReceiverState]
      BY <1>a, <1>c, <1>13 DEF ReceiverStart, ReceiverState
    <2>w. WritersHoldInode'
      BY <1>a, <1>13 DEF ReceiverStart, ReceiverState, WritersHoldInode
    <2>2. rjob' \in [status : JobStatus, progress : 0..FileSize]
      BY <1>13 DEF TypeOK, ReceiverStart, JobStatus
    <2> QED
      BY <1>13, <2>1, <2>2, <2>w DEF TypeOK, ReceiverStart
  <1>14. ASSUME NEW a \in Attempts, ReceiverStartError(a) PROVE TypeOK'
    <2>1. rcv' \in [Attempts -> ReceiverState] /\ WritersHoldInode'
      BY <1>a, <1>14, ReturnType DEF ReceiverStartError
    <2>2. rjob' \in [status : JobStatus, progress : 0..FileSize]
      BY <1>14 DEF TypeOK, ReceiverStartError, ReceiverReturn, retryTransferJob, JobStatus
    <2>3. reported' \subseteq 0..FileSize
      BY <1>14 DEF TypeOK, ReceiverStartError, ReceiverReturn, ReceiverState
    <2>u. up' \in [Attempts -> BOOLEAN] /\ live' \in 0..MaxAttempts /\ part' \in 0..MaxAttempts
      BY <1>14 DEF TypeOK, ReceiverStartError, ReceiverReturn
    <2>v. UNCHANGED <<source, cuts, edits, faults, runs, snd, net, file, dest, promised>>
      BY <1>14 DEF ReceiverStartError
    <2> QED
      BY <2>1, <2>2, <2>3, <2>u, <2>v DEF TypeOK
  <1>15. ASSUME NEW a \in Attempts, PrepareResumed(a) PROVE TypeOK'
    <2>a. part \in Attempts /\ part \in 0..MaxAttempts /\ file[part] \in Content
      BY <1>15, SMTT(30) DEF TypeOK, PrepareResumed, WantsResume, Attempts
    <2>b. rcv[a].progress \in Nat /\ sequenceForOffset(rcv[a].progress) \in Nat
      BY <1>a, SequenceType DEF ReceiverState
    <2>1. rcv' \in [Attempts -> ReceiverState]
      <3> DEFINE r == [rcv[a] EXCEPT !.pc = "receiving", !.ino = part, !.resumed = TRUE,
                                     !.nextSeq = sequenceForOffset(rcv[a].progress),
                                     !.offset = rcv[a].progress, !.hash = file[part]]
      <3>1. rcv' = [rcv EXCEPT ![a] = r]
        BY <1>15 DEF PrepareResumed
      <3>2. r \in ReceiverState
        BY <1>a, <2>a, <2>b DEF ReceiverState
      <3> QED
        BY <1>a, <3>1, <3>2
    <2>w. WritersHoldInode'
      BY <1>a, <1>15, <2>a DEF PrepareResumed, ReceiverState, WritersHoldInode
    <2> QED
      BY <1>15, <2>1, <2>w DEF TypeOK, PrepareResumed
  <1>16. ASSUME NEW a \in Attempts, PrepareFresh(a) PROVE TypeOK'
    <2>1. rcv' \in [Attempts -> ReceiverState]
      <3> DEFINE r == [rcv[a] EXCEPT !.pc = "receiving", !.ino = a]
      <3>1. rcv' = [rcv EXCEPT ![a] = r]
        BY <1>16 DEF PrepareFresh
      <3>3. rcv[a] \in ReceiverState /\ a \in 0..MaxAttempts
        BY <1>a DEF Attempts
      <3>2. r \in ReceiverState
        BY <3>3 DEF ReceiverState
      <3> QED
        BY <1>a, <3>1, <3>2
    <2>w. WritersHoldInode'
      BY <1>a, <1>16 DEF PrepareFresh, ReceiverState, WritersHoldInode
    <2>2. file' \in [Attempts -> Content]
      BY <1>16 DEF TypeOK, PrepareFresh, Content, Attempts
    <2> QED
      BY <1>16, <2>1, <2>2, <2>w, SMTT(30) DEF TypeOK, PrepareFresh, Attempts
  <1>17. ASSUME NEW a \in Attempts, PrepareError(a) PROVE TypeOK'
    <2>1. rcv' \in [Attempts -> ReceiverState] /\ WritersHoldInode'
      BY <1>a, <1>17, ReturnType DEF PrepareError
    <2>2. rjob' \in [status : JobStatus, progress : 0..FileSize]
      BY <1>17 DEF TypeOK, PrepareError, ReceiverReturn, failTransferJob, JobStatus
    <2>u. up' \in [Attempts -> BOOLEAN] /\ live' \in 0..MaxAttempts /\ part' \in 0..MaxAttempts
      BY <1>17 DEF TypeOK, PrepareError, ReceiverReturn
    <2>v. UNCHANGED <<source, cuts, edits, faults, runs, snd, net, file, dest, reported, promised>>
      BY <1>17 DEF PrepareError
    <2> QED
      BY <2>1, <2>2, <2>u, <2>v DEF TypeOK
  <1>18. ASSUME NEW a \in Attempts, AcceptChunk(a) PROVE TypeOK'
    <2> DEFINE frame == Head(net[a])
               pos   == IF rcv[a].resumed THEN Len(file[rcv[a].ino]) ELSE rcv[a].offset
               after == rcv[a].offset + Len(frame.data)
    <2>1. frame \in Frames /\ Tail(net[a]) \in Seq(Frames)
      BY <1>18, SMTT(30) DEF TypeOK, AcceptChunk
    <2>2. frame.data \in Content /\ Len(frame.data) \in Nat
      BY <1>18, <2>1, SMTT(30) DEF AcceptChunk, Frames, ChunkFrames, ManifestFrames, Content
    <2>3. /\ rcv[a].ino \in Attempts /\ rcv[a].offset \in Nat /\ rcv[a].hash \in Content
          /\ rcv[a].resumed \in BOOLEAN /\ rcv[a].nextSeq \in Nat
      BY <1>18 DEF TypeOK, WritersHoldInode, ReceiverState, AcceptChunk
    <2>4. file[rcv[a].ino] \in Content /\ Len(file[rcv[a].ino]) \in Nat
      BY <2>3 DEF TypeOK, Content
    <2>5. pos \in Nat /\ after \in Nat /\ rcv[a].hash \o frame.data \in Content
      BY <2>2, <2>3, <2>4, SMTT(30) DEF Content
    <2> HIDE DEF pos, after
    <2>6. WriteAt(file[rcv[a].ino], pos, frame.data) \in Content
      BY <2>2, <2>4, <2>5, WriteType
    <2>7. file' = [file EXCEPT ![rcv[a].ino] = WriteAt(@, pos, frame.data)]
      BY <1>18 DEF AcceptChunk, pos
    <2>8. file' \in [Attempts -> Content]
      BY <2>3, <2>6, <2>7 DEF TypeOK
    <2>9. rcv' = [rcv EXCEPT ![a].nextSeq = @ + 1, ![a].offset = after,
                             ![a].hash = @ \o frame.data]
      BY <1>18 DEF AcceptChunk, after
    <2>a. rcv[a].nextSeq + 1 \in Nat
      BY <2>3
    <2>10. rcv' \in [Attempts -> ReceiverState]
      <3> DEFINE r == [rcv[a] EXCEPT !.nextSeq = @ + 1, !.offset = after,
                                     !.hash = @ \o frame.data]
      <3>1. rcv' = [rcv EXCEPT ![a] = r]
        BY <2>9
      <3>2. r \in ReceiverState
        BY <1>a, <2>a, <2>5 DEF ReceiverState
      <3> QED
        BY <1>a, <3>1, <3>2
    <2>w. WritersHoldInode'
      BY <1>a, <2>9 DEF ReceiverState, WritersHoldInode
    <2>11. net' \in [Attempts -> Seq(Frames)]
      BY <1>18, <2>1 DEF TypeOK, AcceptChunk
    <2>b. \/ rjob' = rjob /\ reported' = reported
          \/ after <= FileSize /\ rjob' = [rjob EXCEPT !.progress = after]
             /\ reported' = reported \cup {after}
      BY <1>18 DEF AcceptChunk, after
    <2>c. after <= FileSize => after \in 0..FileSize
      BY <2>5
    <2>12. /\ rjob' \in [status : JobStatus, progress : 0..FileSize]
           /\ reported' \subseteq 0..FileSize
      BY <2>b, <2>c DEF TypeOK
    <2> QED
      BY <1>18, <2>8, <2>10, <2>11, <2>12, <2>w DEF TypeOK, AcceptChunk
  <1>19. ASSUME NEW a \in Attempts, AcceptManifest(a) PROVE TypeOK'
    <2>1. rcv' \in [Attempts -> ReceiverState]
      <3>1. Head(net[a]).digest \in Content
        BY <1>19 DEF TypeOK, AcceptManifest, Frames, ChunkFrames, ManifestFrames
      <3> DEFINE r == [rcv[a] EXCEPT !.pc = "committing", !.manifest = Head(net[a]).digest]
      <3>2. rcv' = [rcv EXCEPT ![a] = r]
        BY <1>19 DEF AcceptManifest
      <3>3. r \in ReceiverState
        BY <1>a, <3>1 DEF ReceiverState
      <3> QED
        BY <1>a, <3>2, <3>3
    <2>w. WritersHoldInode'
      BY <1>a, <1>19 DEF AcceptManifest, ReceiverState, WritersHoldInode
    <2>2. net' \in [Attempts -> Seq(Frames)]
      BY <1>19 DEF TypeOK, AcceptManifest
    <2> QED
      BY <1>19, <2>1, <2>2, <2>w DEF TypeOK, AcceptManifest
  <1>20. ASSUME NEW a \in Attempts, RefuseFrame(a) PROVE TypeOK'
    <2>1. rcv' \in [Attempts -> ReceiverState] /\ WritersHoldInode'
      BY <1>a, <1>20, ReturnType DEF RefuseFrame
    <2>2. rjob' \in [status : JobStatus, progress : 0..FileSize]
      BY <1>20 DEF TypeOK, RefuseFrame, ReceiverReturn, failTransferJob, JobStatus
    <2>3. net' \in [Attempts -> Seq(Frames)]
      BY <1>20 DEF TypeOK, RefuseFrame, ReceiverReturn
    <2>u. up' \in [Attempts -> BOOLEAN] /\ live' \in 0..MaxAttempts /\ part' \in 0..MaxAttempts
      BY <1>20 DEF TypeOK, RefuseFrame, ReceiverReturn
    <2>v. UNCHANGED <<source, cuts, edits, faults, runs, snd, file, dest, reported, promised>>
      BY <1>20 DEF RefuseFrame
    <2> QED
      BY <2>1, <2>2, <2>3, <2>u, <2>v DEF TypeOK
  <1>21. ASSUME NEW a \in Attempts, ReceiverInterrupted(a) PROVE TypeOK'
    <2> DEFINE size == Len(file[rcv[a].ino])
               p    == IF size < rjob.progress THEN size ELSE rjob.progress
    <2>1. rcv[a].ino \in Attempts /\ file[rcv[a].ino] \in Content
      BY <1>21 DEF TypeOK, WritersHoldInode, ReceiverInterrupted
    <2>2. size \in Nat /\ p \in 0..size /\ p \in 0..FileSize
      BY <2>1 DEF TypeOK, Content
    <2>3. SubSeq(file[rcv[a].ino], 1, p) \in Content
      BY <2>1, <2>2, PrefixType
    <2> HIDE DEF p
    <2>4. /\ rjob' = IF Terminal(rjob.status) THEN rjob
                     ELSE [status |-> "retryable", progress |-> p]
          /\ file' = [file EXCEPT ![rcv[a].ino] = SubSeq(@, 1, p)]
          /\ reported' = reported \cup {p}
      BY <1>21 DEF ReceiverInterrupted, p
    <2>5. rjob' \in [status : JobStatus, progress : 0..FileSize]
      BY <2>2, <2>4 DEF TypeOK, JobStatus
    <2>6. file' \in [Attempts -> Content] /\ reported' \subseteq 0..FileSize
      BY <2>1, <2>2, <2>3, <2>4 DEF TypeOK
    <2>7. rcv' \in [Attempts -> ReceiverState] /\ WritersHoldInode'
      BY <1>a, <1>21, ReturnType DEF ReceiverInterrupted
    <2>8. up' \in [Attempts -> BOOLEAN] /\ live' \in 0..MaxAttempts /\ part' \in 0..MaxAttempts
      BY <1>21 DEF TypeOK, ReceiverInterrupted, ReceiverReturn
    <2>9. UNCHANGED <<source, cuts, edits, faults, runs, snd, net, dest, promised>>
      BY <1>21 DEF ReceiverInterrupted
    <2> QED
      BY <2>5, <2>6, <2>7, <2>8, <2>9 DEF TypeOK
  <1>22. ASSUME NEW a \in Attempts, Commit(a) PROVE TypeOK'
    <2>1. rcv' \in [Attempts -> ReceiverState]
      BY <1>a, <1>c, <1>22 DEF Commit, ReceiverState
    <2>w. WritersHoldInode'
      BY <1>a, <1>22 DEF Commit, ReceiverState, WritersHoldInode
    <2>2. dest' \subseteq Content
      BY <1>22, SMTT(30) DEF TypeOK, Commit, Verifies, WritersHoldInode
    <2> QED
      BY <1>22, <2>1, <2>2, <2>w, SMTT(30) DEF TypeOK, Commit
  <1>23. ASSUME NEW a \in Attempts, CommitError(a) PROVE TypeOK'
    <2>1. rcv' \in [Attempts -> ReceiverState] /\ WritersHoldInode'
      BY <1>a, <1>23, ReturnType DEF CommitError
    <2>2. rjob' \in [status : JobStatus, progress : 0..FileSize]
      BY <1>23 DEF TypeOK, CommitError, ReceiverReturn, failTransferJob, JobStatus
    <2>u. up' \in [Attempts -> BOOLEAN] /\ live' \in 0..MaxAttempts /\ part' \in 0..MaxAttempts
      BY <1>23 DEF TypeOK, CommitError, ReceiverReturn
    <2>v. UNCHANGED <<source, cuts, edits, faults, runs, snd, net, file, dest, reported, promised>>
      BY <1>23 DEF CommitError
    <2> QED
      BY <2>1, <2>2, <2>u, <2>v DEF TypeOK
  <1>24. ASSUME NEW a \in Attempts, Complete(a) PROVE TypeOK'
    <2>1. rcv' \in [Attempts -> ReceiverState] /\ WritersHoldInode'
      BY <1>a, <1>24, ReturnType DEF Complete
    <2>2. rjob' \in [status : JobStatus, progress : 0..FileSize]
      BY <1>24 DEF TypeOK, Complete, ReceiverReturn, completeTransferJob, JobStatus
    <2>u. up' \in [Attempts -> BOOLEAN] /\ live' \in 0..MaxAttempts /\ part' \in 0..MaxAttempts
      BY <1>24 DEF TypeOK, Complete, ReceiverReturn
    <2>v. UNCHANGED <<source, cuts, edits, faults, runs, snd, net, file, dest, reported, promised>>
      BY <1>24 DEF Complete
    <2> QED
      BY <2>1, <2>2, <2>u, <2>v DEF TypeOK
  <1>25. CASE UNCHANGED vars
    BY <1>25 DEF TypeOK, WritersHoldInode, vars
  <1> QED
    BY <1>1, <1>2, <1>3, <1>4, <1>5, <1>6, <1>7, <1>8, <1>9, <1>10, <1>11, <1>12, <1>13, <1>14, <1>15, <1>16, <1>17, <1>18, <1>19, <1>20, <1>21, <1>22, <1>23, <1>24, <1>25
    DEF Next, Environment, SenderStep, ReceiverStep

\* The types of the data plane hold in every reachable state; in particular no
\* progress exceeds the declared size and no goroutine writes without an inode.
THEOREM TypeCorrect == Spec => []TypeOK
  BY TypeInit, TypeStep, PTL DEF Spec

----------------------------------------------------------------------------
(* What a stream promises                                                  *)

\* While a sender streams, its running digest covers exactly what it has read.
HashCoversTotal == \A a \in Attempts : snd[a].pc = "streaming" => Len(snd[a].hash) = snd[a].total

\* While nobody rewrites the source, that is the source up to the read position.
HashIsPrefix ==
    \A a \in Attempts :
        snd[a].pc = "streaming" /\ ~snd[a].torn
            => snd[a].total <= Len(source) /\ snd[a].hash = SubSeq(source, 1, snd[a].total)

\* A source that was never rewritten tears no stream and is all that is promised.
OnlySourcePromised ==
    edits = 0 => promised \subseteq {source} /\ \A a \in Attempts : ~snd[a].torn

SenderInv == HashCoversTotal /\ HashIsPrefix /\ OnlySourcePromised

\* The steps that leave the sender's state, the source and the promises alone.
LEMMA SenderFrame ==
  ASSUME [Next]_vars
  PROVE  \/ UNCHANGED <<source, edits, snd, promised>>
         \/ \E a \in Attempts : OpenAttempt(a) \/ SenderStep(a)
         \/ EditSource
  <1> DEFINE Quiet == UNCHANGED <<source, edits, snd, promised>>
  <1>1. ASSUME NEW a \in Attempts, ReceiverStep(a) PROVE Quiet
    <2>1. ReceiverStart(a) \/ ReceiverStartError(a) \/ PrepareResumed(a) \/ PrepareFresh(a)
            \/ PrepareError(a) => Quiet
      BY DEF ReceiverStart, ReceiverStartError, PrepareResumed, PrepareFresh, PrepareError
    <2>2. AcceptChunk(a) \/ AcceptManifest(a) \/ RefuseFrame(a) \/ ReceiverInterrupted(a) => Quiet
      BY DEF AcceptChunk, AcceptManifest, RefuseFrame, ReceiverInterrupted
    <2>3. Commit(a) \/ CommitError(a) \/ Complete(a) => Quiet
      BY DEF Commit, CommitError, Complete
    <2> QED
      BY <1>1, <2>1, <2>2, <2>3 DEF ReceiverStep
  <1>2. ASSUME NEW a \in Attempts, Cut(a) PROVE Quiet
    BY <1>2 DEF Cut
  <1>3. ASSUME NEW st \in {"failed", "cancelled"}, RemoteTerminal(st) PROVE Quiet
    BY <1>3 DEF RemoteTerminal
  <1>4. OfferOnClosedPeer \/ RemoteRetryable \/ RotPartial => Quiet
    BY DEF OfferOnClosedPeer, RemoteRetryable, RotPartial
  <1>5. UNCHANGED vars => Quiet
    BY DEF vars
  <1> HIDE DEF Quiet
  <1>6. \/ Quiet \/ EditSource
        \/ \E a \in Attempts : OpenAttempt(a) \/ SenderStep(a)
    BY <1>1, <1>2, <1>3, <1>4, <1>5 DEF Next, Environment
  <1> QED
    BY <1>6 DEF Quiet

\* No sender has read or promised anything yet.
LEMMA SenderInvInit == Init => SenderInv
  BY DEF Init, SenderInv, HashCoversTotal, HashIsPrefix, OnlySourcePromised

\* StreamReader extends total and digest together; nothing else touches either.
LEMMA SenderInvStep == TypeOK /\ SenderInv /\ [Next]_vars => SenderInv'
  <1> SUFFICES ASSUME TypeOK, SenderInv, [Next]_vars PROVE SenderInv'
    OBVIOUS
  <1> USE SizeAssumption
  <1>a. snd \in [Attempts -> SenderState] /\ source \in Content /\ edits \in Nat
    BY DEF TypeOK
  <1>1. CASE UNCHANGED <<source, edits, snd, promised>>
    BY <1>1 DEF SenderInv, HashCoversTotal, HashIsPrefix, OnlySourcePromised
  <1>2. ASSUME NEW a \in Attempts, OpenAttempt(a) PROVE SenderInv'
    BY <1>2, <1>a
    DEF OpenAttempt, SenderInv, HashCoversTotal, HashIsPrefix, OnlySourcePromised, SenderState
  <1>3. CASE EditSource
    BY <1>3, <1>a
    DEF EditSource, SenderInv, HashCoversTotal, HashIsPrefix, OnlySourcePromised, SenderState
  <1>4. ASSUME NEW a \in Attempts, NEW off \in reported, SenderStart(a, off) PROVE SenderInv'
    <2>1. off \in 0..Len(source)
      BY <1>4 DEF TypeOK, SenderStart
    <2>2. Len(SubSeq(source, 1, off)) = off
      BY <1>a, <2>1, PrefixType
    <2>3. HashCoversTotal'
      BY <1>4, <1>a, <2>2 DEF SenderStart, prepareSenderResume, SenderInv, HashCoversTotal, SenderState
    <2>4. HashIsPrefix'
      BY <1>4, <1>a, <2>1 DEF SenderStart, prepareSenderResume, SenderInv, HashIsPrefix, SenderState
    <2>5. OnlySourcePromised'
      BY <1>4, <1>a DEF SenderStart, prepareSenderResume, SenderInv, OnlySourcePromised, SenderState
    <2> QED
      BY <2>3, <2>4, <2>5 DEF SenderInv
  <1>5. ASSUME NEW a \in Attempts, SendChunk(a) PROVE SenderInv'
    <2> DEFINE data == ReadAt(source, snd[a].total)
    <2>1. snd[a].total \in Nat /\ snd[a].hash \in Content /\ snd[a].total < Len(source)
      BY <1>5, <1>a DEF SendChunk, SenderState
    <2>2. /\ data \in Content /\ Len(data) \in Nat
          /\ snd[a].total + Len(data) <= Len(source)
          /\ SubSeq(source, 1, snd[a].total) \o data = SubSeq(source, 1, snd[a].total + Len(data))
      BY <1>a, <2>1, ReadType
    <2> HIDE DEF data
    <2>3. Len(snd[a].hash \o data) = Len(snd[a].hash) + Len(data)
      BY <2>1, <2>2 DEF Content
    <2>4. snd' = [snd EXCEPT ![a].total = @ + Len(data), ![a].seq = @ + 1, ![a].hash = @ \o data]
      BY <1>5 DEF SendChunk, data
    <2>5. snd[a].pc = "streaming" /\ UNCHANGED <<source, edits, promised>>
      BY <1>5 DEF SendChunk
    <2>6. HashCoversTotal'
      BY <1>a, <2>3, <2>4, <2>5 DEF SenderInv, HashCoversTotal, SenderState
    <2>7. HashIsPrefix'
      BY <1>a, <2>2, <2>4, <2>5 DEF SenderInv, HashIsPrefix, SenderState
    <2>8. OnlySourcePromised'
      BY <1>a, <2>4, <2>5 DEF SenderInv, OnlySourcePromised, SenderState
    <2> QED
      BY <2>6, <2>7, <2>8 DEF SenderInv
  <1>6. ASSUME NEW a \in Attempts, SendSentinel(a) PROVE SenderInv'
    BY <1>6, <1>a
    DEF SendSentinel, SenderInv, HashCoversTotal, HashIsPrefix, OnlySourcePromised, SenderState
  <1>7. ASSUME NEW a \in Attempts, SendManifest(a) PROVE SenderInv'
    <2>1. edits = 0 => snd[a].hash = SubSeq(source, 1, snd[a].total) /\ snd[a].total = Len(source)
      BY <1>7, <1>a DEF SendManifest, SenderInv, HashIsPrefix, OnlySourcePromised, SenderState,
                        Content
    <2>2. edits = 0 => snd[a].hash = source
      BY <1>a, <2>1, WholePrefix
    <2> QED
      BY <1>7, <1>a, <2>2
      DEF SendManifest, SenderInv, HashCoversTotal, HashIsPrefix, OnlySourcePromised, SenderState
  <1>8. ASSUME NEW a \in Attempts, SenderStop(a) PROVE SenderInv'
    BY <1>8, <1>a
    DEF SenderStop, SenderInv, HashCoversTotal, HashIsPrefix, OnlySourcePromised, SenderState
  <1> QED
    BY SenderFrame, <1>1, <1>2, <1>3, <1>4, <1>5, <1>6, <1>7, <1>8 DEF SenderStep

\* The strengthened sender invariant holds in every reachable state.
LEMMA SenderInvariant == Spec => [](TypeOK /\ SenderInv)
  BY TypeInit, TypeStep, SenderInvInit, SenderInvStep, PTL DEF Spec

\* A stream during which StreamReader's source file is left alone ends in a
\* manifest whose digest is that of the whole file, resumed or not.
THEOREM PromisesSourceHolds == Spec => PromisesSource
  <1>1. ASSUME TypeOK, SenderInv, NEW a \in Attempts, SendManifest(a), ~snd[a].torn
        PROVE  promised' = promised \cup {source}
    <2>1. source \in Content /\ snd[a].total \in Nat
      BY <1>1 DEF TypeOK, SenderState
    <2>2. snd[a].hash = SubSeq(source, 1, snd[a].total) /\ snd[a].total = Len(source)
      BY <1>1, <2>1 DEF SendManifest, SenderInv, HashIsPrefix, Content
    <2>3. snd[a].hash = source
      BY <2>1, <2>2, WholePrefix
    <2> QED
      BY <1>1, <2>3 DEF SendManifest
  <1>2. TypeOK /\ SenderInv /\ [Next]_vars
          => [\A a \in Attempts :
                 SendManifest(a) /\ ~snd[a].torn => promised' = promised \cup {source}]_vars
    BY <1>1
  <1> QED
    BY <1>2, SenderInvariant, PTL DEF Spec, PromisesSource

----------------------------------------------------------------------------
(* What a receiver commits                                                 *)

\* A digest that was put into a manifest, of a content as long as it says.
Promised(digest, total) == digest \in promised /\ Len(digest) = total

\* Every manifest still in flight is a promise ...
FlightsPromised ==
    \A a \in Attempts : \A i \in 1..Len(net[a]) :
        net[a][i].type = "manifest" => Promised(net[a][i].digest, net[a][i].total)

\* ... and so is every manifest a receiver is about to commit.
CommitsPromised ==
    \A a \in Attempts : rcv[a].pc = "committing" => Promised(rcv[a].manifest, FileSize)

CommitInv == FlightsPromised /\ CommitsPromised /\ CommittedWasPromised

\* Promises are never withdrawn.
LEMMA PromisesGrow == ASSUME [Next]_vars PROVE promised \subseteq promised'
  <1>1. ASSUME NEW a \in Attempts, SenderStep(a) PROVE promised \subseteq promised'
    BY <1>1 DEF SenderStep, SenderStart, SendChunk, SendSentinel, SendManifest, SenderStop
  <1>2. ASSUME NEW a \in Attempts, OpenAttempt(a) PROVE promised \subseteq promised'
    BY <1>2 DEF OpenAttempt
  <1>3. EditSource => promised \subseteq promised'
    BY DEF EditSource
  <1> QED
    BY SenderFrame, <1>1, <1>2, <1>3

\* A queue of frames changes at its two ends only.
LEMMA NetStep ==
  ASSUME TypeOK, [Next]_vars
  PROVE  \/ UNCHANGED net
         \/ \E a \in Attempts : net[a] # <<>> /\ net' = [net EXCEPT ![a] = Tail(@)]
         \/ \E a \in Attempts : SendChunk(a) \/ SendSentinel(a) \/ SendManifest(a)
  <1> DEFINE Goal == \/ UNCHANGED net
                     \/ \E b \in Attempts : net[b] # <<>> /\ net' = [net EXCEPT ![b] = Tail(@)]
                     \/ \E b \in Attempts : SendChunk(b) \/ SendSentinel(b) \/ SendManifest(b)
  <1>1. ASSUME NEW a \in Attempts, SenderStep(a) PROVE Goal
    BY <1>1 DEF SenderStep, SenderStart, SenderStop
  <1>2. ASSUME NEW a \in Attempts, ReceiverStep(a) PROVE Goal
    <2>1. AcceptChunk(a) \/ AcceptManifest(a) \/ RefuseFrame(a) => Goal
      BY DEF AcceptChunk, AcceptManifest, RefuseFrame
    <2>2. ReceiverStart(a) \/ ReceiverStartError(a) \/ PrepareResumed(a) \/ PrepareFresh(a)
            \/ PrepareError(a) => UNCHANGED net
      BY DEF ReceiverStart, ReceiverStartError, PrepareResumed, PrepareFresh, PrepareError
    <2>3. ReceiverInterrupted(a) \/ Commit(a) \/ CommitError(a) \/ Complete(a) => UNCHANGED net
      BY DEF ReceiverInterrupted, Commit, CommitError, Complete
    <2> QED
      BY <1>2, <2>1, <2>2, <2>3 DEF ReceiverStep
  <1>3. ASSUME NEW a \in Attempts, OpenAttempt(a) \/ Cut(a) PROVE UNCHANGED net
    BY <1>3 DEF OpenAttempt, Cut
  <1>4. ASSUME NEW st \in {"failed", "cancelled"}, RemoteTerminal(st) PROVE UNCHANGED net
    BY <1>4 DEF RemoteTerminal
  <1>5. OfferOnClosedPeer \/ RemoteRetryable \/ EditSource \/ RotPartial \/ UNCHANGED vars
          => UNCHANGED net
    BY DEF OfferOnClosedPeer, RemoteRetryable, EditSource, RotPartial, vars
  <1> QED
    BY <1>1, <1>2, <1>3, <1>4, <1>5 DEF Next, Environment

\* Only AcceptManifest arms a commit, only Commit writes a destination, and only
\* while there is none.
LEMMA CommitFrame ==
  ASSUME TypeOK, [Next]_vars
  PROVE  \/ /\ UNCHANGED dest
            /\ \A b \in Attempts : rcv'[b].pc = "committing"
                   => rcv[b].pc = "committing" /\ rcv'[b].manifest = rcv[b].manifest
         \/ \E a \in Attempts : AcceptManifest(a) \/ Commit(a)
  <1> DEFINE Quiet == /\ UNCHANGED dest
                      /\ \A b \in Attempts : rcv'[b].pc = "committing"
                            => rcv[b].pc = "committing" /\ rcv'[b].manifest = rcv[b].manifest
  <1>a. rcv \in [Attempts -> ReceiverState]
    BY DEF TypeOK
  <1>1. ASSUME NEW a \in Attempts, OpenAttempt(a) PROVE Quiet
    BY <1>1, <1>a DEF OpenAttempt, ReceiverState
  <1>2. ASSUME NEW a \in Attempts, ReceiverReturn(a, TRUE) \/ ReceiverReturn(a, rcv[a].resumed),
               UNCHANGED dest
        PROVE  Quiet
    BY <1>2, <1>a DEF ReceiverReturn, ReceiverState
  <1>3. ASSUME NEW a \in Attempts, ReceiverStep(a) PROVE Quiet \/ AcceptManifest(a) \/ Commit(a)
    <2>1. ReceiverStartError(a) \/ PrepareError(a) \/ RefuseFrame(a) \/ ReceiverInterrupted(a)
            \/ CommitError(a) \/ Complete(a) => Quiet
      BY <1>2 DEF ReceiverStartError, PrepareError, RefuseFrame, ReceiverInterrupted,
                  CommitError, Complete
    <2>2. ReceiverStart(a) \/ PrepareFresh(a) => Quiet
      BY <1>a DEF ReceiverStart, PrepareFresh, ReceiverState
    <2>4. PrepareResumed(a) => Quiet
      BY <1>a DEF PrepareResumed, ReceiverState
    <2>3. AcceptChunk(a) => Quiet
      BY <1>a DEF AcceptChunk, ReceiverState
    <2> HIDE DEF Quiet
    <2> QED
      BY <1>3, <2>1, <2>2, <2>3, <2>4 DEF ReceiverStep
  <1>4. ASSUME NEW a \in Attempts, SenderStep(a) PROVE Quiet
    BY <1>4 DEF SenderStep, SenderStart, SendChunk, SendSentinel, SendManifest, SenderStop
  <1>5. ASSUME NEW a \in Attempts, Cut(a) PROVE Quiet
    BY <1>5 DEF Cut
  <1>6. OfferOnClosedPeer \/ RemoteRetryable \/ EditSource \/ RotPartial \/ UNCHANGED vars => Quiet
    BY DEF OfferOnClosedPeer, RemoteRetryable, EditSource, RotPartial, vars
  <1>7. ASSUME NEW st \in {"failed", "cancelled"}, RemoteTerminal(st) PROVE Quiet
    BY <1>7 DEF RemoteTerminal
  <1> HIDE DEF Quiet
  <1>8. Quiet \/ \E a \in Attempts : AcceptManifest(a) \/ Commit(a)
    BY <1>1, <1>3, <1>4, <1>5, <1>6, <1>7 DEF Next, Environment
  <1> QED
    BY <1>8 DEF Quiet

\* Nothing is in flight and nothing is committed yet.
LEMMA CommitInvInit == Init => CommitInv
  BY DEF Init, CommitInv, FlightsPromised, CommitsPromised, CommittedWasPromised

\* The digest a manifest carries survives the queue, the receiver's comparison and the
\* second hash of commitDestinationNoReplace.
LEMMA CommitInvStep == TypeOK /\ SenderInv /\ CommitInv /\ [Next]_vars => CommitInv'
  <1> SUFFICES ASSUME TypeOK, SenderInv, CommitInv, [Next]_vars PROVE CommitInv'
    OBVIOUS
  <1>a. net \in [Attempts -> Seq(Frames)] /\ rcv \in [Attempts -> ReceiverState]
    BY DEF TypeOK
  <1>b. promised \subseteq promised'
    BY PromisesGrow
  <1>1. FlightsPromised'
    <2>1. CASE UNCHANGED net
      BY <2>1, <1>b DEF CommitInv, FlightsPromised, Promised
    <2>2. ASSUME NEW a \in Attempts, net[a] # <<>>, net' = [net EXCEPT ![a] = Tail(@)]
          PROVE  FlightsPromised'
      <3>1. /\ Len(Tail(net[a])) = Len(net[a]) - 1
            /\ \A i \in 1..Len(Tail(net[a])) :
                  Tail(net[a])[i] = net[a][i + 1] /\ i + 1 \in 1..Len(net[a])
        BY <1>a, <2>2
      <3>2. \A b \in Attempts : net'[b] = IF b = a THEN Tail(net[a]) ELSE net[b]
        BY <1>a, <2>2
      <3> SUFFICES ASSUME NEW b \in Attempts, NEW i \in 1..Len(net'[b]),
                          net'[b][i].type = "manifest"
                   PROVE  /\ net'[b][i].digest \in promised'
                          /\ Len(net'[b][i].digest) = net'[b][i].total
        BY DEF FlightsPromised, Promised
      <3>3. PICK j \in 1..Len(net[b]) : net'[b][i] = net[b][j]
        BY <3>1, <3>2
      <3> QED
        BY <1>b, <3>3 DEF CommitInv, FlightsPromised, Promised
    <2>3. ASSUME NEW a \in Attempts, NEW f, net' = [net EXCEPT ![a] = Append(@, f)],
                 f \in Frames, f.type = "manifest" => f.digest \in promised' /\ Len(f.digest) = f.total
          PROVE  FlightsPromised'
      <3>1. /\ Len(Append(net[a], f)) = Len(net[a]) + 1
            /\ \A i \in 1..Len(net[a]) : Append(net[a], f)[i] = net[a][i]
            /\ Append(net[a], f)[Len(net[a]) + 1] = f
            /\ \A i \in 1..(Len(net[a]) + 1) : i \in 1..Len(net[a]) \/ i = Len(net[a]) + 1
        BY <1>a, <2>3
      <3>2. \A b \in Attempts : net'[b] = IF b = a THEN Append(net[a], f) ELSE net[b]
        BY <1>a, <2>3
      <3> SUFFICES ASSUME NEW b \in Attempts, NEW i \in 1..Len(net'[b]),
                          net'[b][i].type = "manifest"
                   PROVE  /\ net'[b][i].digest \in promised'
                          /\ Len(net'[b][i].digest) = net'[b][i].total
        BY DEF FlightsPromised, Promised
      <3>3. CASE net'[b][i] = f
        BY <2>3, <3>3
      <3>4. CASE \E j \in 1..Len(net[b]) : net'[b][i] = net[b][j]
        BY <1>b, <3>4 DEF CommitInv, FlightsPromised, Promised
      <3> QED
        BY <3>1, <3>2, <3>3, <3>4
    <2>4. ASSUME NEW a \in Attempts, SendChunk(a) PROVE FlightsPromised'
      <3> DEFINE f == Chunk(snd[a].seq, snd[a].total, ReadAt(source, snd[a].total))
      <3>1. f \in Frames /\ f.type # "manifest"
        BY <2>4, ReadType DEF TypeOK, SenderState, SendChunk, Chunk, Frames, ChunkFrames
      <3>2. net' = [net EXCEPT ![a] = Append(@, f)]
        BY <2>4 DEF SendChunk
      <3> HIDE DEF f
      <3> QED
        BY <2>3, <3>1, <3>2
    <2>5. ASSUME NEW a \in Attempts, SendSentinel(a) PROVE FlightsPromised'
      <3> DEFINE f == Chunk(0, 0, <<>>)
      <3>1. f \in Frames /\ f.type # "manifest"
        BY DEF Chunk, Frames, ChunkFrames, Content
      <3>2. net' = [net EXCEPT ![a] = Append(@, f)]
        BY <2>5 DEF SendSentinel
      <3> HIDE DEF f
      <3> QED
        BY <2>3, <3>1, <3>2
    <2>6. ASSUME NEW a \in Attempts, SendManifest(a) PROVE FlightsPromised'
      <3> DEFINE f == ManifestFrame(snd[a].total, snd[a].seq, snd[a].hash)
      <3>1. f \in Frames
        BY DEF TypeOK, SenderState, ManifestFrame, Frames, ManifestFrames
      <3>2. net' = [net EXCEPT ![a] = Append(@, f)]
        BY <2>6 DEF SendManifest
      <3>3. f.digest \in promised' /\ Len(f.digest) = f.total
        BY <2>6 DEF SendManifest, ManifestFrame, Promised, SenderInv, HashCoversTotal
      <3> HIDE DEF f
      <3> QED
        BY <2>3, <3>1, <3>2, <3>3
    <2> QED
      BY NetStep, <2>1, <2>2, <2>4, <2>5, <2>6
  <1>2. CommitsPromised' /\ CommittedWasPromised'
    <2>1. CASE /\ UNCHANGED dest
               /\ \A b \in Attempts : rcv'[b].pc = "committing"
                     => rcv[b].pc = "committing" /\ rcv'[b].manifest = rcv[b].manifest
      BY <2>1, <1>b DEF CommitInv, CommitsPromised, CommittedWasPromised, Promised
    <2>2. ASSUME NEW a \in Attempts, AcceptManifest(a)
          PROVE  CommitsPromised' /\ CommittedWasPromised'
      <3>1. Head(net[a]) = net[a][1] /\ 1 \in 1..Len(net[a])
        BY <1>a, <2>2 DEF AcceptManifest
      <3>2. Promised(Head(net[a]).digest, FileSize)
        BY <2>2, <3>1 DEF AcceptManifest, CommitInv, FlightsPromised
      <3>3. /\ UNCHANGED <<dest, promised>>
            /\ rcv' = [rcv EXCEPT ![a].pc = "committing", ![a].manifest = Head(net[a]).digest]
        BY <2>2 DEF AcceptManifest
      <3> QED
        BY <1>a, <3>2, <3>3
        DEF CommitInv, CommitsPromised, CommittedWasPromised, Promised, ReceiverState
    <2>3. ASSUME NEW a \in Attempts, Commit(a)
          PROVE  CommitsPromised' /\ CommittedWasPromised'
      <3>1. CommitsPromised'
        BY <1>a, <2>3 DEF Commit, CommitInv, CommitsPromised, Promised, ReceiverState
      <3>2. CommittedWasPromised'
        BY <2>3 DEF Commit, Verifies, CommitInv, CommitsPromised, CommittedWasPromised, Promised
      <3> QED
        BY <3>1, <3>2
    <2> QED
      BY CommitFrame, <2>1, <2>2, <2>3
  <1> QED
    BY <1>1, <1>2 DEF CommitInv

\* commitDestinationNoReplace only ever leaves behind a file of the declared
\* size whose digest a manifest of the sender carried.
THEOREM Integrity == Spec => []CommittedWasPromised
  BY TypeInit, TypeStep, SenderInvInit, SenderInvStep, CommitInvInit, CommitInvStep, PTL
  DEF Spec, CommitInv

\* With a source nobody rewrites, the committed file is the source: resumed
\* prefixes, overlapping attempts and a rotten partial cannot change that.
THEOREM Fidelity == Spec => []CommittedIsSource
  <1>1. SenderInv /\ CommittedWasPromised => CommittedIsSource
    BY DEF SenderInv, OnlySourcePromised, CommittedWasPromised, CommittedIsSource
  <1> QED
    BY <1>1, SenderInvariant, Integrity, PTL

\* No step replaces, changes or removes a destination file that exists.
THEOREM NeverReplaces == Spec => NoReplace
  <1>1. ASSUME TypeOK, [Next]_vars PROVE [dest # {} => dest' = dest]_vars
    BY <1>1, CommitFrame DEF AcceptManifest, Commit, Verifies
  <1> QED
    BY <1>1, TypeCorrect, PTL DEF Spec, NoReplace

----------------------------------------------------------------------------
(* What completed means                                                    *)

\* A receiver past the commit has left a file behind.
CommittedHasFile == \A a \in Attempts : rcv[a].pc = "committed" => dest # {}

CompletedInv == CompletedHasFile /\ CommittedHasFile

\* The job is not completed at the start.
LEMMA CompletedInvInit == Init => CompletedInv
  BY DEF Init, CompletedInv, CompletedHasFile, CommittedHasFile

\* A step that marks the job leaves a completed one as it is, or completes it
\* after the commit.
LEMMA CompletedInvStep == TypeOK /\ CompletedInv /\ [Next]_vars => CompletedInv'
  <1> SUFFICES ASSUME TypeOK, CompletedInv, [Next]_vars PROVE CompletedInv'
    OBVIOUS
  <1>a. rcv \in [Attempts -> ReceiverState]
    BY DEF TypeOK
  <1>b. rjob.status \in JobStatus /\ rjob \in [status : JobStatus, progress : 0..FileSize]
    BY DEF TypeOK
  <1> DEFINE SameJob == rjob'.status = "completed" => rjob.status = "completed" /\ rjob' = rjob
             NoCommit == /\ UNCHANGED dest
                         /\ \A b \in Attempts : rcv'[b].pc = "committed" => rcv[b].pc = "committed"
  <1>1. SameJob /\ NoCommit => CompletedInv'
    BY DEF CompletedInv, CompletedHasFile, CommittedHasFile
  <1>2. ASSUME NEW a \in Attempts, OpenAttempt(a) PROVE SameJob /\ NoCommit
    BY <1>2, <1>a DEF OpenAttempt, ReceiverState
  <1>3. ASSUME NEW a \in Attempts, Cut(a) PROVE SameJob /\ NoCommit
    BY <1>3 DEF Cut
  <1>4. OfferOnClosedPeer \/ RemoteRetryable => SameJob /\ NoCommit
    BY <1>b DEF OfferOnClosedPeer, RemoteRetryable, failTransferJob, retryTransferJob, Terminal
  <1>5. ASSUME NEW st \in {"failed", "cancelled"}, RemoteTerminal(st) PROVE SameJob /\ NoCommit
    BY <1>5, <1>b DEF RemoteTerminal, Terminal
  <1>6. EditSource \/ RotPartial \/ UNCHANGED vars => SameJob /\ NoCommit
    BY DEF EditSource, RotPartial, vars
  <1>7. ASSUME NEW a \in Attempts, SenderStep(a) PROVE SameJob /\ NoCommit
    BY <1>7 DEF SenderStep, SenderStart, SendChunk, SendSentinel, SendManifest, SenderStop
  <1>8. ASSUME NEW a \in Attempts, ReceiverStep(a) PROVE CompletedInv'
    <2>1. ReceiverReturn(a, TRUE) \/ ReceiverReturn(a, rcv[a].resumed)
            => \A b \in Attempts : rcv'[b].pc = "committed" => rcv[b].pc = "committed"
      BY <1>a DEF ReceiverReturn, ReceiverState
    <2>2. PrepareError(a) \/ RefuseFrame(a) \/ CommitError(a) => SameJob /\ NoCommit
      BY <1>b, <2>1 DEF PrepareError, RefuseFrame, CommitError, failTransferJob, Terminal
    <2>3. ReceiverStartError(a) => SameJob /\ NoCommit
      BY <1>b, <2>1 DEF ReceiverStartError, retryTransferJob, Terminal
    <2>4. ReceiverInterrupted(a) => SameJob /\ NoCommit
      BY <1>b, <2>1 DEF ReceiverInterrupted, Terminal
    <2>5. ReceiverStart(a) => SameJob /\ NoCommit
      BY <1>a, <1>b DEF ReceiverStart, ReceiverState
    <2>6. PrepareResumed(a) => SameJob /\ NoCommit
      BY <1>a DEF PrepareResumed, ReceiverState
    <2>7. PrepareFresh(a) => SameJob /\ NoCommit
      BY <1>a DEF PrepareFresh, ReceiverState
    <2>8. AcceptChunk(a) => SameJob /\ NoCommit
      <3>1. AcceptChunk(a) => NoCommit
        BY <1>a DEF AcceptChunk, ReceiverState
      <3>2. AcceptChunk(a) => rjob' = rjob \/ (/\ rjob.status = "transferring"
                                              /\ rjob'.status = rjob.status)
        BY <1>b DEF AcceptChunk
      <3> QED
        BY <3>1, <3>2
    <2>9. AcceptManifest(a) => SameJob /\ NoCommit
      BY <1>a DEF AcceptManifest, ReceiverState
    <2>10. Commit(a) => CompletedInv'
      BY DEF Commit, CompletedInv, CompletedHasFile, CommittedHasFile
    <2>11. Complete(a) => CompletedInv'
      BY <1>b, <2>1 DEF Complete, completeTransferJob, Terminal, CompletedInv,
                        CompletedHasFile, CommittedHasFile
    <2> HIDE DEF SameJob, NoCommit
    <2> QED
      BY <1>1, <1>8, <2>2, <2>3, <2>4, <2>5, <2>6, <2>7, <2>8, <2>9, <2>10, <2>11
      DEF ReceiverStep
  <1> HIDE DEF SameJob, NoCommit
  <1> QED
    BY <1>1, <1>2, <1>3, <1>4, <1>5, <1>6, <1>7, <1>8 DEF Next, Environment

\* completeTransferJob is never observed before the file it speaks of exists,
\* and no later message or goroutine takes a completed job back.
THEOREM CompletedIsTrue == Spec => []CompletedHasFile
  BY TypeInit, TypeStep, CompletedInvInit, CompletedInvStep, PTL DEF Spec, CompletedInv

----------------------------------------------------------------------------
(* What a resume finds, when attempts do not overlap                       *)

\* An attempt that has not been opened is idle, and one that has not opened its partial file yet
\* begins at offset 0.
Unused(a) ==
    /\ a > runs => rcv[a].pc = "idle"
    /\ rcv[a].pc \in {"idle", "starting", "preparing"} => rcv[a].offset = 0 /\ ~rcv[a].resumed

OneRunner == \A a, b \in Attempts : Running(a) /\ Running(b) => a = b

\* The partial file is as long as the job says.
Matches == rjob.progress > 0 => part # 0 /\ Len(file[part]) = rjob.progress

\* What goroutine a knows of a job that is not over: its snapshot of the job is still good, and
\* while it receives the job's progress lags behind the partial file, which nobody else has.
Informed(a) ==
    /\ rcv[a].pc \in {"starting", "preparing"} =>
          /\ rcv[a].progress = rjob.progress
          /\ rjob.progress > 0 => rcv[a].status = "retryable"
    /\ rcv[a].pc = "receiving" =>
          /\ part = rcv[a].ino /\ Len(file[part]) = rcv[a].offset
          /\ rjob.progress <= rcv[a].offset

Before(places) == \A a \in Attempts : rcv[a].pc \in places

Consistent ==
    /\ rjob.status = "accepted" => rjob.progress = 0
    /\ Before({"idle", "stopped", "starting"}) => rjob.status # "transferring"
    /\ Before({"idle", "stopped", "starting", "preparing"}) => Matches
    /\ \A a \in Attempts : Informed(a)

ResumeInv ==
    /\ OneRunner /\ \A a \in Attempts : Unused(a)
    /\ Terminal(rjob.status) \/ Consistent

\* The same from the point of view of the one goroutine that runs.
Local(a) ==
    /\ rjob.status = "accepted" => rjob.progress = 0
    /\ rcv[a].pc \in {"stopped", "starting"} => rjob.status # "transferring"
    /\ rcv[a].pc \in {"stopped", "starting", "preparing"} => Matches
    /\ Informed(a)

\* A goroutine that runs sees a consistent job.
LEMMA ResumeLocal ==
  ASSUME ResumeInv, NEW a \in Attempts, Running(a), ~Terminal(rjob.status)
  PROVE  Local(a)
  <1>1. \A b \in Attempts \ {a} : rcv[b].pc \in {"idle", "stopped"}
    BY DEF ResumeInv, OneRunner, Running
  <1> QED
    BY <1>1 DEF ResumeInv, Consistent, Before, Local

\* It keeps the invariant if it leaves behind a job that is over or consistent.
LEMMA ResumeGlobal ==
  ASSUME ResumeInv, NEW a \in Attempts, Running(a), runs' = runs,
         \A b \in Attempts \ {a} : rcv'[b] = rcv[b],
         rcv'[a].pc # "idle",
         rcv'[a].pc \in {"starting", "preparing"} => rcv'[a].offset = 0 /\ ~rcv'[a].resumed,
         Terminal(rjob'.status) \/ Local(a)'
  PROVE  ResumeInv'
  <1>1. \A b \in Attempts \ {a} : rcv[b].pc \in {"idle", "stopped"}
    BY DEF ResumeInv, OneRunner, Running
  <1>2. OneRunner'
    BY <1>1 DEF OneRunner, Running
  <1>3. ASSUME NEW b \in Attempts PROVE Unused(b)'
    <2>1. CASE b = a
      BY <2>1 DEF ResumeInv, Unused, Running
    <2>2. CASE b # a
      BY <2>2 DEF ResumeInv, Unused
    <2> QED
      BY <2>1, <2>2
  <1>4. Terminal(rjob'.status) \/ Consistent'
    <2> SUFFICES ASSUME Local(a)' PROVE Consistent'
      OBVIOUS
    <2>1. ASSUME NEW b \in Attempts PROVE Informed(b)'
      <3>1. CASE b = a
        BY <3>1 DEF Local
      <3>2. CASE b # a
        BY <1>1, <3>2 DEF Informed
      <3> QED
        BY <3>1, <3>2
    <2> QED
      BY <2>1 DEF Consistent, Before, Local
  <1> QED
    BY <1>2, <1>3, <1>4 DEF ResumeInv

\* So does a step that touches no receiver and no length, and ends the job or makes it retryable.
LEMMA ResumeFrame ==
  ASSUME TypeOK, ResumeInv, UNCHANGED <<rcv, part, runs>>,
         \A i \in Attempts : Len(file'[i]) = Len(file[i]),
         \/ Terminal(rjob'.status)
         \/ /\ ~Terminal(rjob.status) /\ rjob'.progress = rjob.progress
            /\ rjob'.status \in {rjob.status, "retryable"}
  PROVE  ResumeInv'
  <1>1. OneRunner' /\ \A a \in Attempts : Unused(a)'
    BY DEF ResumeInv, OneRunner, Running, Unused
  <1>2. ASSUME ~Terminal(rjob'.status) PROVE Consistent'
    <2>1. Consistent /\ rjob'.progress = rjob.progress /\ rjob'.status \in {rjob.status, "retryable"}
      BY <1>2 DEF ResumeInv
    <2>2. part = 0 \/ part \in Attempts
      BY BoundAssumption DEF TypeOK, Attempts
    <2>3. part # 0 => Len(file'[part]) = Len(file[part])
      BY <2>2
    <2>4. Matches => Matches'
      BY <2>1, <2>3 DEF Matches
    <2>5. ASSUME NEW a \in Attempts PROVE Informed(a)'
      <3>1. rcv[a].pc = "receiving" => rcv[a].ino # 0
        BY BoundAssumption DEF TypeOK, WritersHoldInode, Attempts
      <3> QED
        BY <2>1, <2>3, <3>1 DEF Consistent, Informed
    <2>6. \A places : Before(places)' = Before(places)
      BY DEF Before
    <2> QED
      BY <2>1, <2>4, <2>5, <2>6 DEF Consistent
  <1> QED
    BY <1>1, <1>2 DEF ResumeInv

\* A write at the end of the partial file makes it longer by what is written.
LEMMA AppendLength ==
  ASSUME NEW c \in Content, NEW data \in Content
  PROVE  Len(WriteAt(c, Len(c), data)) = Len(c) + Len(data)
  <1> DEFINE n == IF Len(c) + Len(data) > Len(c) THEN Len(c) + Len(data) ELSE Len(c)
  <1>1. n \in Nat /\ n = Len(c) + Len(data)
    BY DEF Content
  <1> DEFINE w(i) == IF i > Len(c) /\ i <= Len(c) + Len(data) THEN data[i - Len(c)]
                     ELSE IF i <= Len(c) THEN c[i] ELSE Zero
  <1>2. WriteAt(c, Len(c), data) = [i \in 1..n |-> w(i)]
    BY DEF WriteAt
  <1>3. WriteAt(c, Len(c), data) \in Seq(Block)
    BY WriteType DEF Content
  <1> HIDE DEF n, w
  <1>4. DOMAIN WriteAt(c, Len(c), data) = 1..n
    BY <1>2
  <1> QED
    BY <1>1, <1>3, <1>4, LenProperties

\* At the start no attempt runs and the job has made no progress.
LEMMA ResumeInit == Init => ResumeInv
  BY DEF Init, ResumeInv, OneRunner, Running, Unused, Consistent, Before, Matches, Informed, Terminal

\* The steps of the one receiver: it hands the partial file and the job's progress on together.
LEMMA ResumeReceiver ==
  ASSUME TypeOK, ResumeInv, NEW a \in Attempts, ReceiverStep(a)
  PROVE  ResumeInv'
  <1>a. /\ rcv \in [Attempts -> ReceiverState] /\ rcv[a] \in ReceiverState
        /\ rjob \in [status : JobStatus, progress : 0..FileSize] /\ rjob.progress \in Nat
        /\ file \in [Attempts -> Content] /\ net \in [Attempts -> Seq(Frames)]
    BY SizeAssumption DEF TypeOK
  <1>b. Running(a)
    BY DEF ReceiverStep, ReceiverStart, ReceiverStartError, PrepareResumed, PrepareFresh,
           PrepareError, AcceptChunk, AcceptManifest, RefuseFrame, ReceiverInterrupted, Commit,
           CommitError, Complete, Running
  <1>c. runs' = runs
    BY DEF ReceiverStep, ReceiverStart, ReceiverStartError, PrepareResumed, PrepareFresh,
           PrepareError, AcceptChunk, AcceptManifest, RefuseFrame, ReceiverInterrupted, Commit,
           CommitError, Complete
  <1>d. rcv[a].pc \in {"starting", "preparing"} => rcv[a].offset = 0 /\ ~rcv[a].resumed
    BY DEF ResumeInv, Unused
  <1>e. ~Terminal(rjob.status) => Local(a)
    BY <1>b, ResumeLocal
  <1>f. ASSUME NEW keep, ReceiverReturn(a, keep)
        PROVE  rcv'[a].pc = "stopped" /\ \A b \in Attempts \ {a} : rcv'[b] = rcv[b]
    BY <1>a, <1>f DEF ReceiverReturn, ReceiverState
  <1>g. Terminal(failTransferJob(rjob).status)
    BY <1>a DEF failTransferJob, Terminal
  <1>1. CASE ReceiverStart(a)
    <2>1. /\ rcv'[a] = [rcv[a] EXCEPT !.pc = "preparing"]
          /\ \A b \in Attempts \ {a} : rcv'[b] = rcv[b]
      BY <1>1, <1>a DEF ReceiverStart
    <2>2. /\ rcv'[a].pc = "preparing" /\ rcv'[a].offset = rcv[a].offset
          /\ rcv'[a].resumed = rcv[a].resumed /\ rcv'[a].progress = rcv[a].progress
          /\ rcv'[a].status = rcv[a].status
      BY <1>a, <2>1 DEF ReceiverState
    <2>3. /\ rcv[a].pc = "starting" /\ UNCHANGED <<file, part>> /\ rjob'.progress = rjob.progress
          /\ Terminal(rjob.status) => Terminal(rjob'.status)
          /\ ~Terminal(rjob.status) => rjob'.status = "transferring"
      BY <1>1, <1>a DEF ReceiverStart, Terminal
    <2>4. ~Terminal(rjob.status) => Local(a)'
      BY <1>e, <2>2, <2>3 DEF Local, Matches, Informed
    <2> QED
      BY <1>b, <1>c, <1>d, <2>1, <2>2, <2>3, <2>4, ResumeGlobal
  <1>2. CASE ReceiverStartError(a)
    <2>1. rcv[a].pc = "starting" /\ ReceiverReturn(a, TRUE) /\ UNCHANGED file
      BY <1>2 DEF ReceiverStartError
    <2>2. part' = part
      BY <2>1 DEF ReceiverReturn
    <2>3. \/ Terminal(rjob'.status)
          \/ /\ ~Terminal(rjob.status) /\ rjob'.status = "retryable"
             /\ rjob'.progress = rjob.progress
      BY <1>2, <1>a DEF ReceiverStartError, retryTransferJob, Terminal
    <2>4. Terminal(rjob'.status) \/ Local(a)'
      BY <1>e, <1>f, <2>1, <2>2, <2>3 DEF Local, Matches, Informed
    <2> QED
      BY <1>b, <1>c, <1>f, <2>1, <2>4, ResumeGlobal
  <1>3. CASE PrepareResumed(a)
    <2>1. /\ rcv'[a] = [rcv[a] EXCEPT !.pc = "receiving", !.ino = part, !.resumed = TRUE,
                                      !.nextSeq = sequenceForOffset(rcv[a].progress),
                                      !.offset = rcv[a].progress, !.hash = file[part]]
          /\ \A b \in Attempts \ {a} : rcv'[b] = rcv[b]
      BY <1>3, <1>a DEF PrepareResumed
    <2>2. rcv'[a].pc = "receiving" /\ rcv'[a].ino = part /\ rcv'[a].offset = rcv[a].progress
      BY <1>a, <2>1 DEF ReceiverState
    <2>3. /\ rcv[a].pc = "preparing" /\ UNCHANGED <<file, part, rjob>>
          /\ Len(file[part]) = rcv[a].progress
      BY <1>3 DEF PrepareResumed, ResumeFits
    <2>4. ~Terminal(rjob.status) => Local(a)'
      <3>1. ~Terminal(rjob.status) => rcv[a].progress = rjob.progress /\ rjob.progress <= rjob.progress
        BY <1>a, <1>e, <2>3 DEF Local, Informed
      <3> QED
        BY <1>e, <2>2, <2>3, <3>1 DEF Local, Informed
    <2> QED
      BY <1>b, <1>c, <2>1, <2>2, <2>3, <2>4, ResumeGlobal
  <1>4. CASE PrepareFresh(a)
    <2>1. /\ rcv'[a] = [rcv[a] EXCEPT !.pc = "receiving", !.ino = a]
          /\ \A b \in Attempts \ {a} : rcv'[b] = rcv[b]
      BY <1>4, <1>a DEF PrepareFresh
    <2>2. rcv'[a].pc = "receiving" /\ rcv'[a].ino = a /\ rcv'[a].offset = rcv[a].offset
      BY <1>a, <2>1 DEF ReceiverState
    <2>3. /\ rcv[a].pc = "preparing" /\ part' = a /\ file'[a] = <<>> /\ rjob' = rjob
          /\ ~WantsResume(a)
      BY <1>4, <1>a DEF PrepareFresh
    <2>4. ~Terminal(rjob.status) => rjob.progress = 0
      BY <1>a, <1>e, <2>3 DEF WantsResume, Local, Informed, Matches
    <2>5. ~Terminal(rjob.status) => Local(a)'
      BY <1>d, <1>e, <2>2, <2>3, <2>4 DEF Local, Informed
    <2> QED
      BY <1>b, <1>c, <2>1, <2>2, <2>3, <2>5, ResumeGlobal
  <1>5. CASE PrepareError(a) \/ RefuseFrame(a) \/ CommitError(a)
    <2>1. ReceiverReturn(a, TRUE) \/ ReceiverReturn(a, rcv[a].resumed)
      BY <1>5 DEF PrepareError, RefuseFrame, CommitError
    <2>2. Terminal(rjob'.status)
      BY <1>5, <1>g DEF PrepareError, RefuseFrame, CommitError
    <2> QED
      BY <1>b, <1>c, <1>f, <2>1, <2>2, ResumeGlobal
  <1>6. CASE AcceptChunk(a)
    <2> DEFINE r     == rcv[a]
               frame == Head(net[a])
               after == r.offset + Len(frame.data)
               pos   == IF r.resumed THEN Len(file[r.ino]) ELSE r.offset
    <2>1. frame \in Frames /\ frame.type = "chunk"
      BY <1>6, <1>a DEF AcceptChunk
    <2>2. frame.data \in Content
      BY <2>1 DEF Frames, ChunkFrames, ManifestFrames
    <2>3. /\ r.pc = "receiving" /\ part' = part
          /\ file' = [file EXCEPT ![r.ino] = WriteAt(@, pos, frame.data)]
          /\ rcv' = [rcv EXCEPT ![a].nextSeq = @ + 1, ![a].offset = after,
                                ![a].hash = @ \o frame.data]
          /\ \/ rjob' = rjob
             \/ rjob.status = "transferring" /\ rjob' = [rjob EXCEPT !.progress = after]
      BY <1>6 DEF AcceptChunk
    <2>4. r.ino \in Attempts /\ r.offset \in Nat /\ Len(frame.data) \in Nat
      <3>1. r.ino \in Attempts
        BY <2>3 DEF TypeOK, WritersHoldInode
      <3>2. r.offset \in Nat
        BY <1>a DEF ReceiverState
      <3>3. Len(frame.data) \in Nat
        BY <2>2, LenProperties DEF Content
      <3> QED
        BY <3>1, <3>2, <3>3
    <2> HIDE DEF frame, after, pos
    <2>5. /\ rcv'[a].pc = "receiving" /\ rcv'[a].ino = r.ino /\ rcv'[a].offset = after
          /\ \A b \in Attempts \ {a} : rcv'[b] = rcv[b]
      BY <1>a, <2>3 DEF ReceiverState
    <2>6. Terminal(rjob.status) => rjob' = rjob
      BY <2>3 DEF Terminal
    <2>7. ASSUME ~Terminal(rjob.status) PROVE Local(a)'
      <3>1. Local(a) /\ part = r.ino /\ Len(file[r.ino]) = r.offset /\ rjob.progress <= r.offset
        BY <1>e, <2>3, <2>7 DEF Local, Informed
      <3>2. pos = Len(file[r.ino])
        BY <3>1 DEF pos
      <3>3. file'[r.ino] = WriteAt(file[r.ino], Len(file[r.ino]), frame.data)
        BY <1>a, <2>3, <2>4, <3>2
      <3>4. Len(file'[r.ino]) = after
        BY <1>a, <2>2, <2>4, <3>1, <3>3, AppendLength DEF after
      <3>5. rjob'.progress \in {rjob.progress, after} /\ rjob'.status = rjob.status
        BY <1>a, <2>3
      <3>6. rjob'.progress <= after
        BY <1>a, <2>4, <3>1, <3>5 DEF after
      <3>7. rjob'.status # "accepted" \/ rjob'.progress = 0
        BY <1>a, <2>3, <3>1 DEF Local
      <3> QED
        BY <2>3, <2>5, <3>1, <3>4, <3>6, <3>7 DEF Local, Informed
    <2> QED
      BY <1>b, <1>c, <2>5, <2>6, <2>7, ResumeGlobal
  <1>7. CASE AcceptManifest(a) \/ Commit(a)
    <2>1. /\ rcv'[a].pc \in {"committing", "committed"}
          /\ \A b \in Attempts \ {a} : rcv'[b] = rcv[b]
      <3>1. CASE AcceptManifest(a)
        BY <3>1, <1>a DEF AcceptManifest, ReceiverState
      <3>2. CASE Commit(a)
        BY <3>2, <1>a DEF Commit, ReceiverState
      <3> QED
        BY <1>7, <3>1, <3>2
    <2>2. rjob' = rjob
      BY <1>7 DEF AcceptManifest, Commit
    <2>3. Terminal(rjob'.status) \/ Local(a)'
      BY <1>e, <2>1, <2>2 DEF Local, Informed
    <2> QED
      BY <1>b, <1>c, <2>1, <2>3, ResumeGlobal
  <1>8. CASE ReceiverInterrupted(a)
    <2> DEFINE r    == rcv[a]
               size == Len(file[r.ino])
               p    == IF size < rjob.progress THEN size ELSE rjob.progress
    <2>1. /\ r.pc = "receiving" /\ ReceiverReturn(a, TRUE)
          /\ rjob' = IF Terminal(rjob.status) THEN rjob ELSE [status |-> "retryable", progress |-> p]
          /\ file' = [file EXCEPT ![r.ino] = SubSeq(@, 1, p)]
      BY <1>8 DEF ReceiverInterrupted
    <2>2. part' = part
      BY <2>1 DEF ReceiverReturn
    <2>3. r.ino \in Attempts /\ r.ino # 0 /\ file[r.ino] \in Content /\ size \in Nat
      BY <1>a, <2>1 DEF TypeOK, WritersHoldInode, Content, Attempts
    <2>4. p \in 0..size
      BY <1>a, <2>3
    <2>5. Len(SubSeq(file[r.ino], 1, p)) = p
      BY <2>3, <2>4, PrefixType
    <2> HIDE DEF p
    <2>6. file'[r.ino] = SubSeq(file[r.ino], 1, p)
      BY <1>a, <2>1, <2>3
    <2>7. ASSUME ~Terminal(rjob.status) PROVE Local(a)'
      <3>1. part = r.ino
        BY <1>e, <2>1, <2>7 DEF Local, Informed
      <3>2. rjob'.status = "retryable" /\ rjob'.progress = p
        BY <2>1, <2>7
      <3>3. Matches'
        BY <2>2, <2>3, <2>5, <2>6, <3>1, <3>2 DEF Matches
      <3> QED
        BY <1>f, <2>1, <3>2, <3>3 DEF Local, Informed
    <2>8. Terminal(rjob.status) => rjob' = rjob
      BY <2>1
    <2> QED
      BY <1>b, <1>c, <1>f, <2>1, <2>7, <2>8, ResumeGlobal
  <1>9. CASE Complete(a)
    <2>1. ReceiverReturn(a, TRUE) /\ Terminal(rjob'.status)
      BY <1>9, <1>a DEF Complete, completeTransferJob, Terminal
    <2> QED
      BY <1>b, <1>c, <1>f, <2>1, ResumeGlobal
  <1> QED
    BY <1>1, <1>2, <1>3, <1>4, <1>5, <1>6, <1>7, <1>8, <1>9 DEF ReceiverStep

\* Every step, when an attempt is opened only after the receiver of the last one has returned.
LEMMA ResumeStep ==
  ASSUME ~Overlap, TypeOK, ResumeInv, [Next]_vars
  PROVE  ResumeInv'
  <1>a. /\ rcv \in [Attempts -> ReceiverState] /\ runs \in 0..MaxAttempts
        /\ rjob \in [status : JobStatus, progress : 0..FileSize] /\ rjob.progress \in Nat
        /\ file \in [Attempts -> Content] /\ part \in 0..MaxAttempts
    BY SizeAssumption DEF TypeOK
  <1>1. ASSUME NEW a \in Attempts, OpenAttempt(a) PROVE ResumeInv'
    <2>1. /\ a = runs + 1 /\ runs' = a /\ UNCHANGED <<file, part, rjob>>
          /\ Before({"idle", "stopped"})
          /\ rcv' = [rcv EXCEPT ![a].pc = "starting", ![a].status = rjob.status,
                                ![a].progress = rjob.progress]
      BY <1>1 DEF OpenAttempt, Before
    <2>2. /\ rcv'[a].pc = "starting" /\ rcv'[a].status = rjob.status
          /\ rcv'[a].progress = rjob.progress /\ rcv'[a].offset = rcv[a].offset
          /\ rcv'[a].resumed = rcv[a].resumed
          /\ \A b \in Attempts \ {a} : rcv'[b] = rcv[b]
      BY <1>a, <2>1 DEF ReceiverState
    <2>3. rcv[a].offset = 0 /\ ~rcv[a].resumed
      BY <1>a, <2>1 DEF ResumeInv, Unused
    <2>4. OneRunner'
      BY <2>1, <2>2 DEF OneRunner, Running, Before
    <2>5. ASSUME NEW b \in Attempts PROVE Unused(b)'
      <3>1. CASE b = a
        BY <1>a, <2>1, <2>2, <2>3, <3>1 DEF Unused
      <3>2. CASE b # a
        BY <1>a, <2>1, <2>2, <3>2 DEF ResumeInv, Unused, Attempts
      <3> QED
        BY <3>1, <3>2
    <2>6. ASSUME ~Terminal(rjob.status) PROVE Consistent'
      <3>1. /\ rjob.status = "accepted" => rjob.progress = 0
            /\ rjob.status # "transferring" /\ Matches
        BY <2>1, <2>6 DEF ResumeInv, Consistent, Before
      <3>2. rjob.progress > 0 => rjob.status = "retryable"
        BY <1>a, <2>6, <3>1 DEF JobStatus, Terminal
      <3>3. ASSUME NEW b \in Attempts PROVE Informed(b)'
        <4>1. CASE b = a
          BY <2>1, <2>2, <3>2, <4>1 DEF Informed
        <4>2. CASE b # a
          BY <2>1, <2>2, <4>2 DEF Informed, Before
        <4> QED
          BY <4>1, <4>2
      <3> QED
        BY <2>1, <3>1, <3>3 DEF Consistent, Matches
    <2> QED
      BY <2>1, <2>4, <2>5, <2>6 DEF ResumeInv
  <1>2. ASSUME UNCHANGED <<rcv, part, runs, file, rjob>> PROVE ResumeInv'
    BY <1>2, ResumeFrame
  <1>3. ASSUME NEW a \in Attempts, Cut(a) PROVE ResumeInv'
    BY <1>2, <1>3 DEF Cut
  <1>4. CASE OfferOnClosedPeer \/ RemoteRetryable
    <2>1. UNCHANGED <<rcv, part, runs, file>>
      BY <1>4 DEF OfferOnClosedPeer, RemoteRetryable
    <2>2. \/ Terminal(rjob'.status)
          \/ /\ ~Terminal(rjob.status) /\ rjob'.progress = rjob.progress /\ rjob'.status = "retryable"
      BY <1>a, <1>4 DEF OfferOnClosedPeer, RemoteRetryable, failTransferJob, retryTransferJob, Terminal
    <2> QED
      BY <2>1, <2>2, ResumeFrame
  <1>5. ASSUME NEW st \in {"failed", "cancelled"}, RemoteTerminal(st) PROVE ResumeInv'
    <2>1. UNCHANGED <<rcv, part, runs, file>> /\ Terminal(rjob'.status)
      BY <1>a, <1>5 DEF RemoteTerminal, Terminal
    <2> QED
      BY <2>1, ResumeFrame
  <1>6. CASE EditSource \/ UNCHANGED vars
    BY <1>2, <1>6 DEF EditSource, vars
  <1>7. CASE RotPartial
    <2>1. UNCHANGED <<rcv, part, runs, rjob>> /\ part \in Attempts
      BY <1>a, <1>7, BoundAssumption DEF RotPartial, Attempts
    <2>2. PICK i \in 1..Len(file[part]), b \in Block : file' = [file EXCEPT ![part][i] = b]
      BY <1>7 DEF RotPartial
    <2>3. file[part] \in Seq(Block)
      BY <1>a, <2>1 DEF Content
    <2>4. Len([file[part] EXCEPT ![i] = b]) = Len(file[part])
      BY <2>3
    <2>5. \A j \in Attempts : Len(file'[j]) = Len(file[j])
      BY <1>a, <2>1, <2>2, <2>4
    <2> QED
      BY <2>1, <2>5, ResumeFrame
  <1>8. ASSUME NEW a \in Attempts, SenderStep(a) PROVE ResumeInv'
    BY <1>2, <1>8 DEF SenderStep, SenderStart, SendChunk, SendSentinel, SendManifest, SenderStop
  <1>9. ASSUME NEW a \in Attempts, ReceiverStep(a) PROVE ResumeInv'
    BY <1>9, ResumeReceiver
  <1> QED
    BY <1>1, <1>3, <1>4, <1>5, <1>6, <1>7, <1>8, <1>9 DEF Next, Environment

\* When the receiver of an attempt has returned before the next one is opened, a retryable job
\* finds on disk exactly the partial file that its progress speaks of, after any number of cuts,
\* remote interruptions, rewrites of the source and rotten bytes (the retryable closure of
\* runLiveReceiverOnce, liveReceiverResumeState).
THEOREM ResumeMatches == ASSUME ~Overlap PROVE Spec => []RetryableMatchesPartial
  <1>1. TypeOK /\ ResumeInv /\ [Next]_vars => (TypeOK /\ ResumeInv)'
    BY TypeStep, ResumeStep
  <1>2. ResumeInv => RetryableMatchesPartial
    BY DEF ResumeInv, Consistent, Before, Matches, RetryableMatchesPartial, Running, Terminal
  <1>3. Init => TypeOK /\ ResumeInv
    BY TypeInit, ResumeInit
  <1> QED
    BY <1>1, <1>2, <1>3, PTL DEF Spec
=============================================================================
