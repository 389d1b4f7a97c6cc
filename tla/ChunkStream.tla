---------------------------- MODULE ChunkStream ----------------------------
(***************************************************************************)
(* The data plane of a live agent-to-agent transfer: the sender goroutine  *)
(* (p2p.StreamReader, called by runLiveSenderOnce), the DataChannel, the   *)
(* receiver goroutine (runLiveReceiverOnce around p2p.Receiver), the       *)
(* ".part" file it appends to and the commit to the destination path.      *)
(*                                                                         *)
(* A transfer is attempted several times: every attempt has its own peer   *)
(* connection and its own pair of goroutines, but all of them share one    *)
(* receive job, one partial path and one destination path, and a receiver  *)
(* goroutine of an earlier attempt may still be running when the next one  *)
(* starts.  The control plane enters as its effects on these: cuts, remote *)
(* retryable and terminal messages, and the offset the sender resumes at.  *)
(*                                                                         *)
(* A block stands for a byte.  A SHA-256 digest is modelled by the content *)
(* it is the digest of, that is, the hash is taken to be collision free;   *)
(* AES-GCM is not modelled: frames are the plaintext frames of one key.    *)
(***************************************************************************)
EXTENDS Naturals, Sequences

CONSTANTS
    Block,        \* the values of a byte
    Zero,         \* the byte the file system fills holes with
    ChunkSize,    \* SenderOptions.ChunkSize
    FileSize,     \* the declared Job.FileSizeBytes, the same on both sides
    MaxAttempts,  \* bound: peer connections made for the transfer
    MaxCuts,      \* bound: cuts and remote interruptions
    MaxEdits,     \* bound: times the user rewrites the source file
    MaxFaults,    \* bound: times a byte of the partial file rots on disk
    Overlap,      \* may an attempt open while an earlier receiver still runs
    Originals,    \* contents the source file may have when it is declared
    Rewrites      \* contents it may be rewritten with

ASSUME BlockAssumption == Zero \in Block
ASSUME SizeAssumption  == ChunkSize \in Nat \ {0} /\ FileSize \in Nat
ASSUME BoundAssumption == /\ MaxAttempts \in Nat /\ MaxCuts \in Nat /\ MaxEdits \in Nat
                          /\ MaxFaults \in Nat /\ Overlap \in BOOLEAN

Attempts == 1..MaxAttempts
Content  == Seq(Block)

ASSUME SourceAssumption ==
    /\ \A c \in Originals : c \in Content /\ Len(c) = FileSize
    /\ \A c \in Rewrites : c \in Content

VARIABLES
    source,     \* the file at Job.SourcePath
    cuts,       \* how often the transfer was disturbed
    edits,      \* how often the source was rewritten
    faults,     \* how often the partial rotted
    runs,       \* attempts opened so far
    snd,        \* per attempt: locals of StreamReader
    net,        \* per attempt: frames sent and not yet taken by the receiver
    up,         \* per attempt: RemoteWebRTCPeer is not closed
    live,       \* the attempt whose session is in the receiver's live map, or 0
    rcv,        \* per attempt: locals of runLiveReceiverOnce and p2p.Receiver
    file,       \* per attempt: the inode its fresh partial file lives in
    part,       \* the inode at the partial path, 0 if there is none
    dest,       \* the file at Job.DestinationPath: {} or {content}
    rjob,       \* the receive job: status and ProgressBytes
    reported,   \* history: progress values the send job may have taken over
    promised    \* history: contents whose digest a manifest frame carried

vars == <<source, cuts, edits, faults, runs, snd, net, up, live, rcv, file, part,
          dest, rjob, reported, promised>>

----------------------------------------------------------------------------
(* Frames, offsets and files                                               *)

Chunk(seq, off, data) == [type |-> "chunk", seq |-> seq, off |-> off, data |-> data]

ManifestFrame(total, count, digest) ==
    [type |-> "manifest", total |-> total, count |-> count, digest |-> digest]

ChunkFrames    == [type : {"chunk"}, seq : Nat, off : Nat, data : Content]
ManifestFrames == [type : {"manifest"}, total : Nat, count : Nat, digest : Content]
Frames         == ChunkFrames \cup ManifestFrames

\* The sequence number of the chunk that starts at, or after, an offset.
sequenceForOffset(off) == IF off = 0 THEN 0 ELSE (off + ChunkSize - 1) \div ChunkSize

\* What Read(buffer) returns at an offset: a full buffer except at the end.
ReadAt(content, off) ==
    SubSeq(content, off + 1,
           IF off + ChunkSize < Len(content) THEN off + ChunkSize ELSE Len(content))

\* The content after a write at a position; a gap is filled with zeros.
WriteAt(content, pos, data) ==
    [i \in 1..(IF pos + Len(data) > Len(content) THEN pos + Len(data) ELSE Len(content)) |->
        IF i > pos /\ i <= pos + Len(data) THEN data[i - pos]
        ELSE IF i <= Len(content) THEN content[i] ELSE Zero]

Terminal(status) == status \in {"completed", "failed", "cancelled"}

----------------------------------------------------------------------------
(* The receive job                                                         *)

\* failTransferJob: a terminal job is left alone.
failTransferJob(job) == IF Terminal(job.status) THEN job ELSE [job EXCEPT !.status = "failed"]

\* Seeded fault: the second step, interrupted to retryable, is forgotten.
retryTransferJobHalf(job) ==
    IF Terminal(job.status) THEN job ELSE [job EXCEPT !.status = "interrupted"]

\* retryTransferJob: any status that is not terminal ends in retryable.
retryTransferJob(job) ==
    IF Terminal(job.status) THEN job ELSE [job EXCEPT !.status = "retryable"]

\* completeTransferJob of a receive job: only a failed or cancelled job refuses.
completeTransferJob(job) ==
    IF Terminal(job.status) THEN job ELSE [status |-> "completed", progress |-> FileSize]

----------------------------------------------------------------------------
Init ==
    /\ source \in Originals
    /\ cuts = 0 /\ edits = 0 /\ faults = 0 /\ runs = 0
    /\ snd = [a \in Attempts |-> [pc |-> "idle", total |-> 0, seq |-> 0, hash |-> <<>>,
                                  resumed |-> FALSE, torn |-> FALSE]]
    /\ net = [a \in Attempts |-> <<>>]
    /\ up = [a \in Attempts |-> FALSE] /\ live = 0
    /\ rcv = [a \in Attempts |-> [pc |-> "idle", status |-> "accepted", progress |-> 0,
                                  nextSeq |-> 0, offset |-> 0, hash |-> <<>>, ino |-> 0,
                                  resumed |-> FALSE, manifest |-> <<>>]]
    /\ file = [a \in Attempts |-> <<>>]
    /\ part = 0
    /\ dest = {}
    /\ rjob = [status |-> "accepted", progress |-> 0]
    /\ reported = {0} /\ promised = {}

----------------------------------------------------------------------------
(* The environment                                                         *)

\* handleWebRTCOffer with no session in the live map, and the answer handled:
\* a peer connection for a new attempt, a receiver goroutine holding a snapshot
\* of the job, a sender goroutine.  Without Overlap the goroutine of an earlier
\* attempt is taken to return before the sender can come back.
OpenAttempt(a) ==
    /\ a = runs + 1
    /\ live = 0 /\ \A b \in Attempts : ~up[b]
    /\ Overlap \/ \A b \in Attempts : rcv[b].pc \in {"idle", "stopped"}
    /\ runs' = a
    /\ up' = [up EXCEPT ![a] = TRUE] /\ live' = a
    /\ snd' = [snd EXCEPT ![a].pc = "starting"]
    /\ rcv' = [rcv EXCEPT ![a].pc = "starting", ![a].status = rjob.status,
                          ![a].progress = rjob.progress]
    /\ UNCHANGED <<source, cuts, edits, faults, net, file, part, dest, rjob, reported,
                   promised>>

\* handleWebRTCOffer while a closed peer's session is still in the live map: the
\* closed peer refuses the offer and runReceiverOnce fails the job.
OfferOnClosedPeer ==
    /\ live # 0 /\ ~up[live] /\ cuts < MaxCuts
    /\ cuts' = cuts + 1
    /\ rjob' = failTransferJob(rjob)
    /\ UNCHANGED <<source, edits, faults, runs, snd, net, up, live, rcv, file, part,
                   dest, reported, promised>>

\* The connection fails, or either side closes the session's peer.
Cut(a) ==
    /\ up[a] /\ cuts < MaxCuts
    /\ cuts' = cuts + 1
    /\ up' = [up EXCEPT ![a] = FALSE]
    /\ UNCHANGED <<source, edits, faults, runs, snd, net, live, rcv, file, part, dest,
                   rjob, reported, promised>>

\* handleTransferRetryable on the receiving side: close the session, then mark.
\* The payload only moves a send job's progress.
RemoteRetryable ==
    /\ runs > 0 /\ cuts < MaxCuts
    /\ cuts' = cuts + 1
    /\ up' = [a \in Attempts |-> FALSE] /\ live' = 0
    /\ rjob' = retryTransferJob(rjob)
    /\ UNCHANGED <<source, edits, faults, runs, snd, net, rcv, file, part, dest,
                   reported, promised>>

\* A remote transfer.failed or transfer.cancelled, or a local cancel.
RemoteTerminal(status) ==
    /\ runs > 0 /\ cuts < MaxCuts
    /\ cuts' = cuts + 1
    /\ up' = [a \in Attempts |-> FALSE] /\ live' = 0
    /\ rjob' = IF Terminal(rjob.status) THEN rjob ELSE [rjob EXCEPT !.status = status]
    /\ UNCHANGED <<source, edits, faults, runs, snd, net, rcv, file, part, dest,
                   reported, promised>>

\* The user rewrites the source file, possibly while it is being streamed.
EditSource ==
    /\ edits < MaxEdits
    /\ edits' = edits + 1
    /\ source' \in Rewrites
    /\ snd' = [a \in Attempts |-> [snd[a] EXCEPT !.torn = TRUE]]
    /\ UNCHANGED <<cuts, faults, runs, net, up, live, rcv, file, part, dest, rjob,
                   reported, promised>>

\* Something other than the daemon changes a byte of the partial file.
RotPartial ==
    /\ faults < MaxFaults /\ part # 0
    /\ faults' = faults + 1
    /\ \E i \in 1..Len(file[part]), b \in Block : file' = [file EXCEPT ![part][i] = b]
    /\ UNCHANGED <<source, cuts, edits, runs, snd, net, up, live, rcv, part, dest, rjob,
                   reported, promised>>

----------------------------------------------------------------------------
(* The sender goroutine                                                    *)

\* Seeded fault: the digest of a resumed stream starts empty.
SenderStartNoPrefix(a, off) ==
    /\ snd[a].pc = "starting"
    /\ Len(source) = FileSize
    /\ off \in reported
    /\ snd' = [snd EXCEPT ![a] = [pc |-> "streaming", total |-> off,
                                  seq |-> sequenceForOffset(off),
                                  hash |-> <<>>,
                                  resumed |-> off > 0, torn |-> FALSE]]
    /\ UNCHANGED <<source, cuts, edits, faults, runs, net, up, live, rcv, file, part,
                   dest, rjob, reported, promised>>

\* The stream continues at off, with the digest of the prefix it skips.
prepareSenderResume(off) ==
    [pc |-> "streaming", total |-> off, seq |-> sequenceForOffset(off),
     hash |-> SubSeq(source, 1, off), resumed |-> off > 0, torn |-> FALSE]

\* runLiveSenderOnce up to the loop of StreamReader.  The offset is the sender
\* job's ProgressBytes, which is a value the receiver reported earlier, or 0
\* when the snapshot of the job is not retryable.  With a resume manifest the
\* digest is recomputed over the prefix of the file as it is now.
SenderStart(a, off) ==
    /\ snd[a].pc = "starting"
    /\ Len(source) = FileSize
    /\ off \in reported
    /\ snd' = [snd EXCEPT ![a] = prepareSenderResume(off)]
    /\ UNCHANGED <<source, cuts, edits, faults, runs, net, up, live, rcv, file, part,
                   dest, rjob, reported, promised>>

\* One turn of the loop: read, frame, send, hash.
SendChunk(a) ==
    LET s    == snd[a]
        data == ReadAt(source, s.total)
    IN  /\ s.pc = "streaming" /\ up[a]
        /\ s.total < Len(source)
        /\ net' = [net EXCEPT ![a] = Append(@, Chunk(s.seq, s.total, data))]
        /\ snd' = [snd EXCEPT ![a].total = @ + Len(data), ![a].seq = @ + 1,
                              ![a].hash = @ \o data]
        /\ UNCHANGED <<source, cuts, edits, faults, runs, up, live, rcv, file, part,
                       dest, rjob, reported, promised>>

\* An empty file is announced by one encrypted chunk without data.
SendSentinel(a) ==
    LET s == snd[a]
    IN  /\ s.pc = "streaming" /\ up[a]
        /\ s.total >= Len(source)
        /\ s.total = 0 /\ s.seq = 0
        /\ net' = [net EXCEPT ![a] = Append(@, Chunk(0, 0, <<>>))]
        /\ snd' = [snd EXCEPT ![a].seq = 1]
        /\ UNCHANGED <<source, cuts, edits, faults, runs, up, live, rcv, file, part,
                       dest, rjob, reported, promised>>

\* End of file: the manifest, unless a resumed stream missed the declared total.
SendManifest(a) ==
    LET s == snd[a]
    IN  /\ s.pc = "streaming" /\ up[a]
        /\ s.total >= Len(source)
        /\ s.seq > 0 \/ s.total > 0
        /\ s.resumed => s.total = FileSize
        /\ net' = [net EXCEPT ![a] = Append(@, ManifestFrame(s.total, s.seq, s.hash))]
        /\ snd' = [snd EXCEPT ![a].pc = "done"]
        /\ promised' = promised \cup {s.hash}
        /\ UNCHANGED <<source, cuts, edits, faults, runs, up, live, rcv, file, part,
                       dest, rjob, reported>>

\* Seeded fault: an error return leaves the peer connection open.
SenderStopLeavesPeer(a) ==
    LET s == snd[a]
    IN  /\ s.pc \in {"starting", "streaming"}
        /\ \/ ~up[a]
           \/ s.pc = "starting" /\ Len(source) # FileSize
           \/ s.pc = "streaming" /\ s.total >= Len(source) /\ s.resumed /\ s.total # FileSize
        /\ snd' = [snd EXCEPT ![a].pc = "stopped"]
        /\ UNCHANGED <<source, cuts, edits, faults, runs, net, up, live, rcv, file, part,
                       dest, rjob, reported, promised>>

\* Every error return: the channel closed under the goroutine, the size check
\* failed, or a resumed stream missed the total.  RunTransfer reads the error
\* from the session and closes the peer.
SenderStop(a) ==
    LET s == snd[a]
    IN  /\ s.pc \in {"starting", "streaming"}
        /\ \/ ~up[a]
           \/ s.pc = "starting" /\ Len(source) # FileSize
           \/ s.pc = "streaming" /\ s.total >= Len(source) /\ s.resumed /\ s.total # FileSize
        /\ snd' = [snd EXCEPT ![a].pc = "stopped"]
        /\ up' = [up EXCEPT ![a] = FALSE]
        /\ UNCHANGED <<source, cuts, edits, faults, runs, net, live, rcv, file, part,
                       dest, rjob, reported, promised>>

----------------------------------------------------------------------------
(* The receiver goroutine                                                  *)

\* A return: the deferred close of the session's peer, and of the partial file,
\* which is unlinked unless this attempt resumed it or means to keep it.
ReceiverReturn(a, keepPartial) ==
    /\ rcv' = [rcv EXCEPT ![a].pc = "stopped"]
    /\ up' = [up EXCEPT ![a] = FALSE]
    /\ live' = IF live = a THEN 0 ELSE live
    /\ part' = IF keepPartial THEN part ELSE 0

\* WaitIncomingMessages, then markTransferStarted.  The channel may have closed
\* again: the wait selects among the channels that are ready.
ReceiverStart(a) ==
    /\ rcv[a].pc = "starting"
    /\ rjob.status \notin {"failed", "cancelled"}
    /\ rcv' = [rcv EXCEPT ![a].pc = "preparing"]
    /\ rjob' = IF rjob.status = "completed" THEN rjob
               ELSE [rjob EXCEPT !.status = "transferring"]
    /\ UNCHANGED <<source, cuts, edits, faults, runs, snd, net, up, live, file, part,
                   dest, reported, promised>>

\* The channel closed before it opened (retryable), or the job is over.
ReceiverStartError(a) ==
    /\ rcv[a].pc = "starting"
    /\ \/ /\ ~up[a]
          /\ rjob' = retryTransferJob(rjob)
          /\ reported' = reported \cup {rcv[a].progress}
       \/ rjob.status \in {"failed", "cancelled"} /\ UNCHANGED <<rjob, reported>>
    /\ ReceiverReturn(a, TRUE)
    /\ UNCHANGED <<source, cuts, edits, faults, runs, snd, net, file, dest, promised>>

\* The snapshot asks for a resume and there is a partial file to resume from.
WantsResume(a) == rcv[a].status = "retryable" /\ rcv[a].progress > 0 /\ part # 0

\* liveReceiverResumeState: the partial is as long as the progress says.
ResumeFits(a) == Len(file[part]) = rcv[a].progress /\ rcv[a].progress <= FileSize

\* Seeded fault: the durable prefix is not fed to the digest.
PrepareResumedUnhashed(a) ==
    /\ rcv[a].pc = "preparing" /\ dest = {}
    /\ WantsResume(a) /\ ResumeFits(a)
    /\ rcv' = [rcv EXCEPT ![a].pc = "receiving", ![a].ino = part, ![a].resumed = TRUE,
                          ![a].nextSeq = sequenceForOffset(rcv[a].progress),
                          ![a].offset = rcv[a].progress]
    /\ UNCHANGED <<source, cuts, edits, faults, runs, snd, net, up, live, file, part,
                   dest, rjob, reported, promised>>

\* Destination check, prepareLiveReceiverPartial, openPartialForAppend and
\* NewReceiverFromResume, which hashes the durable prefix.
PrepareResumed(a) ==
    /\ rcv[a].pc = "preparing" /\ dest = {}
    /\ WantsResume(a) /\ ResumeFits(a)
    /\ rcv' = [rcv EXCEPT ![a].pc = "receiving", ![a].ino = part, ![a].resumed = TRUE,
                          ![a].nextSeq = sequenceForOffset(rcv[a].progress),
                          ![a].offset = rcv[a].progress, ![a].hash = file[part]]
    /\ UNCHANGED <<source, cuts, edits, faults, runs, snd, net, up, live, file, part,
                   dest, rjob, reported, promised>>

\* The same without a resume: a stale partial is unlinked, a new one created.
PrepareFresh(a) ==
    /\ rcv[a].pc = "preparing" /\ dest = {}
    /\ ~WantsResume(a)
    /\ part' = a
    /\ file' = [file EXCEPT ![a] = <<>>]
    /\ rcv' = [rcv EXCEPT ![a].pc = "receiving", ![a].ino = a]
    /\ UNCHANGED <<source, cuts, edits, faults, runs, snd, net, up, live, dest, rjob,
                   reported, promised>>

\* The destination exists, or the partial is not as long as the progress says.
\* The partial was not opened yet and stays.
PrepareError(a) ==
    /\ rcv[a].pc = "preparing"
    /\ dest # {} \/ (WantsResume(a) /\ ~ResumeFits(a))
    /\ rjob' = failTransferJob(rjob)
    /\ ReceiverReturn(a, TRUE)
    /\ UNCHANGED <<source, cuts, edits, faults, runs, snd, net, file, dest, reported,
                   promised>>

\* acceptChunk with the next sequence and offset: write, hash, progress.  A
\* fresh file is written at the handle's position, a resumed one is appended to.
\* OnProgress is skipped when the job is no longer connecting or transferring.  UpdateProgress
\* refuses a value above the declared size; the message goes out all the same, and the sender's
\* own UpdateProgress refuses it there.
AcceptChunk(a) ==
    LET r     == rcv[a]
        frame == Head(net[a])
        pos   == IF r.resumed THEN Len(file[r.ino]) ELSE r.offset
        after == r.offset + Len(frame.data)
    IN  /\ r.pc = "receiving" /\ net[a] # <<>>
        /\ frame.type = "chunk" /\ frame.seq = r.nextSeq /\ frame.off = r.offset
        /\ net' = [net EXCEPT ![a] = Tail(@)]
        /\ file' = [file EXCEPT ![r.ino] = WriteAt(@, pos, frame.data)]
        /\ rcv' = [rcv EXCEPT ![a].nextSeq = @ + 1, ![a].offset = after,
                              ![a].hash = @ \o frame.data]
        /\ IF rjob.status # "transferring"
           THEN UNCHANGED <<rjob, reported>>
           ELSE /\ rjob' = IF after <= FileSize THEN [rjob EXCEPT !.progress = after] ELSE rjob
                /\ reported' = IF after <= FileSize THEN reported \cup {after} ELSE reported
        /\ UNCHANGED <<source, cuts, edits, faults, runs, snd, up, live, part, dest,
                       promised>>

\* Seeded faults: the digest of the manifest is not compared; the job completes before the
\* commit.
AcceptManifestUnhashed(a) ==
    LET r     == rcv[a]
        frame == Head(net[a])
    IN  /\ r.pc = "receiving" /\ net[a] # <<>>
        /\ frame.type = "manifest" /\ r.nextSeq > 0
        /\ frame.total = r.offset /\ frame.count = r.nextSeq
        /\ frame.total = FileSize
        /\ ~Terminal(rjob.status)
        /\ net' = [net EXCEPT ![a] = Tail(@)]
        /\ rcv' = [rcv EXCEPT ![a].pc = "committing", ![a].manifest = r.hash]
        /\ UNCHANGED <<source, cuts, edits, faults, runs, snd, up, live, file, part,
                       dest, rjob, reported, promised>>

AcceptManifestEarlyComplete(a) ==
    LET r     == rcv[a]
        frame == Head(net[a])
    IN  /\ r.pc = "receiving" /\ net[a] # <<>>
        /\ frame.type = "manifest" /\ r.nextSeq > 0
        /\ frame.total = r.offset /\ frame.count = r.nextSeq /\ frame.digest = r.hash
        /\ frame.total = FileSize
        /\ ~Terminal(rjob.status)
        /\ net' = [net EXCEPT ![a] = Tail(@)]
        /\ rcv' = [rcv EXCEPT ![a].pc = "committing", ![a].manifest = frame.digest]
        /\ rjob' = completeTransferJob(rjob)
        /\ UNCHANGED <<source, cuts, edits, faults, runs, snd, up, live, file, part,
                       dest, reported, promised>>

\* A manifest that matches what was received and the declared size, for a job
\* that is not over; the file handle is closed and the commit may begin.
AcceptManifest(a) ==
    LET r     == rcv[a]
        frame == Head(net[a])
    IN  /\ r.pc = "receiving" /\ net[a] # <<>>
        /\ frame.type = "manifest" /\ r.nextSeq > 0
        /\ frame.total = r.offset /\ frame.count = r.nextSeq /\ frame.digest = r.hash
        /\ frame.total = FileSize
        /\ ~Terminal(rjob.status)
        /\ net' = [net EXCEPT ![a] = Tail(@)]
        /\ rcv' = [rcv EXCEPT ![a].pc = "committing", ![a].manifest = frame.digest]
        /\ UNCHANGED <<source, cuts, edits, faults, runs, snd, up, live, file, part,
                       dest, rjob, reported, promised>>

\* Every other frame fails the job; a good manifest of a job that is already
\* over is refused without touching it.
RefuseFrame(a) ==
    LET r     == rcv[a]
        frame == Head(net[a])
    IN  /\ r.pc = "receiving" /\ net[a] # <<>>
        /\ \/ frame.type = "chunk" /\ (frame.seq # r.nextSeq \/ frame.off # r.offset)
           \/ /\ frame.type = "manifest"
              /\ \/ r.nextSeq = 0
                 \/ frame.total # r.offset \/ frame.count # r.nextSeq \/ frame.digest # r.hash
                 \/ frame.total # FileSize
                 \/ Terminal(rjob.status)
        /\ net' = [net EXCEPT ![a] = Tail(@)]
        /\ rjob' = failTransferJob(rjob)
        /\ ReceiverReturn(a, r.resumed)
        /\ UNCHANGED <<source, cuts, edits, faults, runs, snd, file, dest, reported,
                       promised>>

\* Seeded fault: bytes past the recorded progress stay in the partial file.
ReceiverInterruptedNoTruncate(a) ==
    LET r    == rcv[a]
        size == Len(file[r.ino])
    IN  /\ r.pc = "receiving" /\ ~up[a]
        /\ LET p == IF size < rjob.progress THEN size ELSE rjob.progress
           IN  /\ rjob' = IF Terminal(rjob.status) THEN rjob
                          ELSE [status |-> "retryable", progress |-> p]
               /\ reported' = reported \cup {p}
        /\ ReceiverReturn(a, TRUE)
        /\ UNCHANGED <<source, cuts, edits, faults, runs, snd, net, file, dest,
                       promised>>

\* The peer is closed and the select took that branch: frames still queued are
\* dropped, the job becomes retryable, and the partial file and the job's
\* progress are brought to the shorter of the two.
ReceiverInterrupted(a) ==
    LET r    == rcv[a]
        size == Len(file[r.ino])
    IN  /\ r.pc = "receiving" /\ ~up[a]
        /\ LET p == IF size < rjob.progress THEN size ELSE rjob.progress
           IN  /\ rjob' = IF Terminal(rjob.status) THEN rjob
                          ELSE [status |-> "retryable", progress |-> p]
               /\ file' = [file EXCEPT ![r.ino] = SubSeq(@, 1, p)]
               /\ reported' = reported \cup {p}
        /\ ReceiverReturn(a, TRUE)
        /\ UNCHANGED <<source, cuts, edits, faults, runs, snd, net, dest, promised>>

\* Seeded fault: the copied bytes are not hashed again.
VerifiesUnhashed(a) == part = rcv[a].ino /\ dest = {}

\* The file at the partial path is still the one this attempt wrote, nothing is
\* at the destination, and the bytes copied hash to the manifest's digest.
Verifies(a) == part = rcv[a].ino /\ dest = {} /\ file[part] = rcv[a].manifest

\* commitDestinationNoReplace
Commit(a) ==
    /\ rcv[a].pc = "committing" /\ Verifies(a)
    /\ dest' = {file[part]}
    /\ part' = 0
    /\ rcv' = [rcv EXCEPT ![a].pc = "committed"]
    /\ UNCHANGED <<source, cuts, edits, faults, runs, snd, net, up, live, file, rjob,
                   reported, promised>>

\* Seeded fault: the clean-up is armed before the exclusive create.
CommitErrorUnlinks(a) ==
    /\ rcv[a].pc = "committing"
    /\ ~Verifies(a)
    /\ rjob' = failTransferJob(rjob)
    /\ ReceiverReturn(a, rcv[a].resumed)
    /\ dest' = {}
    /\ UNCHANGED <<source, cuts, edits, faults, runs, snd, net, file, reported,
                   promised>>

\* A copy that does not verify is removed again; one that exists is left alone.
CommitError(a) ==
    /\ rcv[a].pc = "committing"
    /\ ~Verifies(a)
    /\ rjob' = failTransferJob(rjob)
    /\ ReceiverReturn(a, rcv[a].resumed)
    /\ UNCHANGED <<source, cuts, edits, faults, runs, snd, net, file, dest, reported,
                   promised>>

\* completeTransferJob after the commit; a job that ended meanwhile stays so.
Complete(a) ==
    /\ rcv[a].pc = "committed"
    /\ rjob' = completeTransferJob(rjob)
    /\ ReceiverReturn(a, TRUE)
    /\ UNCHANGED <<source, cuts, edits, faults, runs, snd, net, file, dest, reported,
                   promised>>

----------------------------------------------------------------------------
SenderStep(a) ==
    \/ \E off \in reported : SenderStart(a, off)
    \/ SendChunk(a) \/ SendSentinel(a) \/ SendManifest(a) \/ SenderStop(a)

ReceiverStep(a) ==
    \/ ReceiverStart(a) \/ ReceiverStartError(a)
    \/ PrepareResumed(a) \/ PrepareFresh(a) \/ PrepareError(a)
    \/ AcceptChunk(a) \/ AcceptManifest(a) \/ RefuseFrame(a) \/ ReceiverInterrupted(a)
    \/ Commit(a) \/ CommitError(a) \/ Complete(a)

Environment ==
    \/ \E a \in Attempts : OpenAttempt(a) \/ Cut(a)
    \/ OfferOnClosedPeer \/ RemoteRetryable
    \/ \E status \in {"failed", "cancelled"} : RemoteTerminal(status)
    \/ EditSource \/ RotPartial

Next == Environment \/ \E a \in Attempts : SenderStep(a) \/ ReceiverStep(a)

Spec == Init /\ [][Next]_vars

\* Goroutines that can run do run; nothing is assumed of the environment.
FairSpec == Spec /\ \A a \in Attempts : WF_vars(SenderStep(a)) /\ WF_vars(ReceiverStep(a))

----------------------------------------------------------------------------
(* Properties                                                              *)

SenderState == [pc : {"idle", "starting", "streaming", "done", "stopped"}, total : Nat,
                seq : Nat, hash : Content, resumed : BOOLEAN, torn : BOOLEAN]

JobStatus == {"accepted", "transferring", "retryable", "completed", "failed", "cancelled"}

ReceiverState == [pc : {"idle", "starting", "preparing", "receiving", "committing",
                        "committed", "stopped"},
                  status : JobStatus, progress : 0..FileSize, nextSeq : Nat, offset : Nat,
                  hash : Content, ino : 0..MaxAttempts, resumed : BOOLEAN,
                  manifest : Content]

WritersHoldInode ==
    \A a \in Attempts : rcv[a].pc \in {"receiving", "committing"} => rcv[a].ino \in Attempts

\* The type of every variable; no progress exceeds the declared size, and a
\* goroutine that writes holds an inode.
TypeOK ==
    /\ source \in Content /\ cuts \in Nat /\ edits \in Nat /\ faults \in Nat
    /\ runs \in 0..MaxAttempts /\ live \in 0..MaxAttempts
    /\ snd \in [Attempts -> SenderState]
    /\ net \in [Attempts -> Seq(Frames)]
    /\ up \in [Attempts -> BOOLEAN]
    /\ rcv \in [Attempts -> ReceiverState]
    /\ WritersHoldInode
    /\ file \in [Attempts -> Content]
    /\ part \in 0..MaxAttempts
    /\ dest \subseteq Content
    /\ rjob \in [status : JobStatus, progress : 0..FileSize]
    /\ reported \subseteq 0..FileSize /\ promised \subseteq Content

\* A committed destination file is, byte for byte, a file of the declared size
\* that the sender hashed and put into a manifest: whatever the attempts did to
\* the partial file, however stale the resumed prefix, rotten or rewritten the
\* bytes in between.
CommittedWasPromised == \A c \in dest : c \in promised /\ Len(c) = FileSize

\* If nobody rewrites the source, a committed destination is the source.
CommittedIsSource == edits = 0 => dest \subseteq {source}

\* A stream during which the source is left alone promises exactly the source,
\* also when it was resumed over a prefix an earlier attempt had sent.
PromisesSource ==
    [][\A a \in Attempts :
          SendManifest(a) /\ ~snd[a].torn => promised' = promised \cup {source}]_vars

\* A destination file that exists is never replaced, changed or removed.
NoReplace == [][dest # {} => dest' = dest]_vars

\* A completed receive job has its file, and reports all of it.
CompletedHasFile == rjob.status = "completed" => dest # {} /\ rjob.progress = FileSize

Running(a) == rcv[a].pc \notin {"idle", "stopped"}

\* Between attempts the progress of a retryable job is the length of its
\* partial file, which is what the next attempt insists on to resume.
RetryableMatchesPartial ==
    rjob.status = "retryable" /\ rjob.progress > 0 /\ (\A a \in Attempts : ~Running(a))
        => part # 0 /\ Len(file[part]) = rjob.progress

\* A resumed attempt whose two ends agree on the offset completes the transfer
\* unless it is disturbed again.
ResumedDelivers ==
    \A a \in Attempts, c \in 0..MaxCuts :
        /\ snd[a].pc = "streaming" /\ snd[a].resumed /\ net[a] = <<>> /\ up[a]
        /\ rcv[a].pc = "receiving" /\ rcv[a].resumed /\ rcv[a].offset = snd[a].total
        /\ cuts = c /\ edits = 0 /\ faults = 0
        ~> rjob.status = "completed" \/ cuts > c \/ edits > 0 \/ faults > 0

\* Every receiver goroutine returns.
ReceiverReturns == \A a \in Attempts : rcv[a].pc = "starting" ~> rcv[a].pc = "stopped"
=============================================================================
