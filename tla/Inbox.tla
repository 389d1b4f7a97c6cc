------------------------------- MODULE Inbox -------------------------------
(***************************************************************************)
(* The inbox directory of a receiving agent: the reservation of a          *)
(* destination for an offered file (Inbox.Reserve, called by               *)
(* handleTransferOffer), and what the receiver goroutines of the accepted  *)
(* transfers then do to the files there (runLiveReceiverOnce,              *)
(* commitDestinationNoReplace).                                            *)
(*                                                                         *)
(* Nothing but the directory itself survives the daemon: entries and jobs  *)
(* are in memory.  The user puts files into the directory and takes files  *)
(* out of it.  Each call of the file system is atomic, a sequence of them  *)
(* is not.                                                                 *)
(*                                                                         *)
(* A path is a sequence of tokens, so that "a (1).part" is                 *)
(* <<"a", "(1)", ".part">> and a suffix or a number is a token more.  The  *)
(* bytes of a file are module ChunkStream's subject: a file is known by    *)
(* what it is and who made it.                                             *)
(***************************************************************************)
EXTENDS Naturals, Sequences, Functions

CONSTANTS
    Transfers,    \* ids of the transfers offered to the agent
    Names,        \* the file names they may have
    UserPaths,    \* where the user may put a file
    Numbers,      \* the tokens " (1)", " (2)", ... in their order
    Nobody,       \* no transfer, or the user
    MaxEvents     \* bound: restarts of the daemon, files the user puts into or takes out of the
                  \* directory, metadata files that could not be written

Tokens     == {"a", "b", ".part", ".postamat", ".json"} \cup Range(Numbers)
Extensions == {".part", ".json"}

ASSUME NameAssumption  == Names \subseteq Seq(Tokens) \ {<<>>} /\ UserPaths \subseteq Seq(Tokens)
ASSUME NumberAssumption == Numbers \in Seq(STRING)
ASSUME OwnerAssumption == Nobody \notin Transfers
ASSUME BoundAssumption == MaxEvents \in Nat

VARIABLES
    files,      \* the directory: what is at each path that exists
    entries,    \* Inbox.entries: reserved destinations by transfer
    reserving,  \* the offer whose handler holds the locks, and the candidate it chose
    jobs,       \* per transfer: the receive job and its receiver goroutine
    names,      \* per transfer: the file name in its offer
    events      \* restarts, visits of the user and faults so far

vars == <<files, entries, reserving, jobs, names, events>>

-----------------------------------------------------------------------------
(* Paths and files                                                         *)

Partial(path)  == path \o <<".part">>
Metadata(path) == path \o <<".postamat", ".json">>

Exists(path) == path \in DOMAIN files

Put(path, what, by) ==
    [p \in DOMAIN files \cup {path} |-> IF p = path THEN [what |-> what, by |-> by] ELSE files[p]]

Without(path) == Restrict(files, DOMAIN files \ {path})

\* The name with a number before its extension, behind it if it has none.
Numbered(name, number) ==
    LET last == Len(name)
    IN  IF last > 1 /\ name[last] \in Extensions
          THEN SubSeq(name, 1, last - 1) \o <<number, name[last]>>
          ELSE Append(name, number)

Candidates(name) == <<name>> \o [n \in 1..Len(Numbers) |-> Numbered(name, Numbers[n])]

destinationReserved(path) == \E e \in entries : e.destination = path

Free(path) == ~Exists(path) /\ ~Exists(Metadata(path)) /\ ~destinationReserved(path)

\* The first candidate nothing stands in the way of.
uniqueDestination(name) ==
    LET cs    == Candidates(name)
        first == CHOOSE n \in DOMAIN cs : Free(cs[n]) /\ \A m \in 1..n - 1 : ~Free(cs[m])
    IN  cs[first]

-----------------------------------------------------------------------------
NoJob  == [status |-> "none", destination |-> <<>>, progress |-> FALSE, resumed |-> FALSE]
NoOffer == [transfer |-> Nobody, destination |-> <<>>]

Init ==
    /\ files = <<>>
    /\ entries = {} /\ reserving = NoOffer
    /\ jobs = [t \in Transfers |-> NoJob]
    /\ names \in [Transfers -> Names]
    /\ events = 0

-----------------------------------------------------------------------------
(* handleTransferOffer                                                     *)

\* An offer of an unknown transfer; the backend loop's and the inbox's lock are held from here
\* until the offer is handled.  A known transfer is accepted again, which changes nothing.
ReserveChoose(t) ==
    /\ reserving = NoOffer /\ jobs[t].status = "none"
    /\ \E c \in Range(Candidates(names[t])) : Free(c)
    /\ reserving' = [transfer |-> t, destination |-> uniqueDestination(names[t])]
    /\ UNCHANGED <<files, entries, jobs, names, events>>

\* Seeded fault: the entry is not kept.
ReserveForgets ==
    LET t == reserving.transfer
        d == reserving.destination
    IN  /\ reserving # NoOffer /\ ~Exists(Metadata(d))
        /\ files' = Put(Metadata(d), "metadata", t)
        /\ jobs' = [jobs EXCEPT ![t] = [NoJob EXCEPT !.status = "accepted", !.destination = d]]
        /\ reserving' = NoOffer
        /\ UNCHANGED <<entries, names, events>>

\* Seeded fault: the metadata path is made of the offered name, not of the destination.
ReserveNamedMetadata ==
    LET t == reserving.transfer
        d == reserving.destination
    IN  /\ reserving # NoOffer /\ ~Exists(Metadata(names[t]))
        /\ files' = Put(Metadata(names[t]), "metadata", t)
        /\ entries' = entries \cup {[transfer |-> t, destination |-> d]}
        /\ jobs' = [jobs EXCEPT ![t] = [NoJob EXCEPT !.status = "accepted", !.destination = d]]
        /\ reserving' = NoOffer
        /\ UNCHANGED <<names, events>>

\* The metadata file is created exclusively and written, the entry is kept, the job is created
\* and accepted.
Reserve ==
    LET t == reserving.transfer
        d == reserving.destination
    IN  /\ reserving # NoOffer /\ ~Exists(Metadata(d))
        /\ files' = Put(Metadata(d), "metadata", t)
        /\ entries' = entries \cup {[transfer |-> t, destination |-> d]}
        /\ jobs' = [jobs EXCEPT ![t] = [NoJob EXCEPT !.status = "accepted", !.destination = d]]
        /\ reserving' = NoOffer
        /\ UNCHANGED <<names, events>>

\* Seeded fault: the job is created before the reservation, and stays offered without one.
ReserveErrorKeepsJob ==
    /\ reserving # NoOffer /\ Exists(Metadata(reserving.destination))
    /\ jobs' = [jobs EXCEPT ![reserving.transfer].status = "offered"]
    /\ reserving' = NoOffer
    /\ UNCHANGED <<files, entries, names, events>>

\* Somebody was faster at the metadata path, or the file cannot be written and stays as it is.
\* There is no job: the offer may come again.
ReserveError ==
    /\ reserving # NoOffer
    /\ \/ Exists(Metadata(reserving.destination)) /\ UNCHANGED <<files, events>>
       \/ /\ ~Exists(Metadata(reserving.destination))
          /\ events < MaxEvents /\ events' = events + 1
          /\ files' = Put(Metadata(reserving.destination), "metadata", reserving.transfer)
    /\ reserving' = NoOffer
    /\ UNCHANGED <<entries, jobs, names>>

-----------------------------------------------------------------------------
(* The receiver goroutine of an accepted or retried transfer               *)

Destination(t) == jobs[t].destination

\* Seeded fault: the partial path is made of the offered name, not of the destination.
PartialOfName(t) == Partial(names[t])

PartialOf(t) == Partial(Destination(t))

\* os.SameFile: what is at the partial path is the file this transfer created.
OwnPartial(t) == Exists(PartialOf(t)) /\ files[PartialOf(t)] = [what |-> "partial", by |-> t]

Becomes(t, status) == jobs' = [jobs EXCEPT ![t].status = status]

\* The destination must not exist yet.
CheckDestination(t) ==
    /\ jobs[t].status \in {"accepted", "retryable"}
    /\ jobs' = [jobs EXCEPT ![t].status = IF Exists(Destination(t)) THEN "failed" ELSE "preparing",
                            ![t].progress = @ /\ jobs[t].status = "retryable"]
    /\ UNCHANGED <<files, entries, reserving, names, events>>

\* With progress to resume from, the file at the partial path is taken up if it is as long as the
\* progress says, which the transfer's own is: nobody asks whose it was.  Without, whatever is at
\* the partial path is removed.
prepareLiveReceiverPartial(t) ==
    /\ jobs[t].status = "preparing"
    /\ IF jobs[t].progress /\ Exists(PartialOf(t))
         THEN \E fits \in IF OwnPartial(t) THEN {TRUE} ELSE BOOLEAN :
                /\ jobs' = [jobs EXCEPT ![t].status = IF fits THEN "receiving" ELSE "failed",
                                        ![t].resumed = fits]
                /\ files' = IF fits THEN Put(PartialOf(t), "partial", t) ELSE files
         ELSE /\ jobs' = [jobs EXCEPT ![t].status = "creating", ![t].resumed = FALSE]
              /\ files' = Without(PartialOf(t))
    /\ UNCHANGED <<entries, reserving, names, events>>

\* The exclusive create of a fresh partial file.
openPartialForAppend(t) ==
    /\ jobs[t].status = "creating"
    /\ IF Exists(PartialOf(t))
         THEN Becomes(t, "failed") /\ UNCHANGED files
         ELSE Becomes(t, "receiving") /\ files' = Put(PartialOf(t), "partial", t)
    /\ UNCHANGED <<entries, reserving, names, events>>

\* The stream breaks: the partial file stays, with or without bytes in it.
Interrupted(t) ==
    /\ jobs[t].status = "receiving"
    /\ \E some \in BOOLEAN :
          jobs' = [jobs EXCEPT ![t].status = "retryable", ![t].progress = @ \/ some]
    /\ UNCHANGED <<files, entries, reserving, names, events>>

\* A failure after the partial file was opened: it is removed unless it was resumed.
AfterFailure(t) == IF jobs[t].resumed THEN files ELSE Without(PartialOf(t))

\* A bad frame or manifest.
Refused(t) ==
    /\ jobs[t].status = "receiving"
    /\ Becomes(t, "failed")
    /\ files' = AfterFailure(t)
    /\ UNCHANGED <<entries, reserving, names, events>>

\* Seeded fault: the destination is created or truncated.
CommitBeginTruncates(t) ==
    /\ jobs[t].status = "receiving"
    /\ IF OwnPartial(t)
         THEN Becomes(t, "committing") /\ files' = Put(Destination(t), "copy", t)
         ELSE Becomes(t, "failed") /\ files' = AfterFailure(t)
    /\ UNCHANGED <<entries, reserving, names, events>>

\* commitDestinationNoReplace opens the partial file it knows and creates the destination
\* exclusively.
CommitBegin(t) ==
    /\ jobs[t].status = "receiving"
    /\ IF OwnPartial(t) /\ ~Exists(Destination(t))
         THEN Becomes(t, "committing") /\ files' = Put(Destination(t), "copy", t)
         ELSE Becomes(t, "failed") /\ files' = AfterFailure(t)
    /\ UNCHANGED <<entries, reserving, names, events>>

\* What is at the destination is still the file this transfer created there.
OwnCopy(t) ==
    Exists(Destination(t)) /\ files[Destination(t)] = [what |-> "copy", by |-> t]

\* The copy is as promised, when written and when read again; the partial file is removed if it
\* is still the same.
CommitVerified(t) ==
    /\ jobs[t].status = "committing" /\ OwnCopy(t)
    /\ Becomes(t, "completed")
    /\ LET copied == Put(Destination(t), "file", t)
       IN  files' = IF OwnPartial(t) THEN Restrict(copied, DOMAIN copied \ {PartialOf(t)})
                                     ELSE copied
    /\ UNCHANGED <<entries, reserving, names, events>>

\* It is not, or another file is there by now: what is at the destination is removed, and then
\* the partial file as after any failure.
CommitMismatch(t) ==
    /\ jobs[t].status = "committing"
    /\ Becomes(t, "failed")
    /\ LET gone == {Destination(t)} \cup (IF jobs[t].resumed THEN {} ELSE {PartialOf(t)})
       IN  files' = Restrict(files, DOMAIN files \ gone)
    /\ UNCHANGED <<entries, reserving, names, events>>

-----------------------------------------------------------------------------
(* The environment                                                         *)

\* The daemon dies and is started again, at any moment.
Restart ==
    /\ events < MaxEvents /\ events' = events + 1
    /\ entries' = {} /\ reserving' = NoOffer
    /\ jobs' = [t \in Transfers |-> NoJob]
    /\ UNCHANGED <<files, names>>

UserPuts(path) ==
    /\ events < MaxEvents /\ events' = events + 1
    /\ ~Exists(path)
    /\ files' = Put(path, "user", Nobody)
    /\ UNCHANGED <<entries, reserving, jobs, names>>

\* The user takes a finished file, or clears away a metadata file.
UserTakes(path) ==
    /\ events < MaxEvents /\ events' = events + 1
    /\ Exists(path) /\ files[path].what \in {"user", "file", "metadata"}
    /\ files' = Without(path)
    /\ UNCHANGED <<entries, reserving, jobs, names>>

-----------------------------------------------------------------------------
ReceiverStep(t) ==
    \/ CheckDestination(t) \/ prepareLiveReceiverPartial(t) \/ openPartialForAppend(t)
    \/ Interrupted(t) \/ Refused(t) \/ CommitBegin(t) \/ CommitVerified(t) \/ CommitMismatch(t)

User == (\E path \in UserPaths : UserPuts(path)) \/ (\E path \in DOMAIN files : UserTakes(path))

Next ==
    \/ \E t \in Transfers : ReserveChoose(t) \/ ReceiverStep(t)
    \/ Reserve \/ ReserveError
    \/ Restart \/ User

Spec == Init /\ [][Next]_vars

-----------------------------------------------------------------------------
(* Properties                                                              *)

Statuses == {"none", "accepted", "preparing", "creating", "receiving", "committing", "retryable",
             "completed", "failed"}
Paths    == Seq(Tokens)

\* The types of the variables.
TypeOK ==
    /\ DOMAIN files \subseteq Paths
    /\ \A p \in DOMAIN files : files[p] \in [what : {"user", "metadata", "partial", "copy", "file"},
                                             by : Transfers \cup {Nobody}]
    /\ entries \subseteq [transfer : Transfers, destination : Paths]
    /\ reserving \in [transfer : Transfers \cup {Nobody}, destination : Paths]
    /\ jobs \in [Transfers -> [status : Statuses, destination : Paths, progress : BOOLEAN,
                               resumed : BOOLEAN]]
    /\ names \in [Transfers -> Names]
    /\ events \in 0..MaxEvents

\* No two transfers of a running daemon have the same destination, also when the user clears away
\* the metadata files that mark the names as taken, and an offer whose handler has chosen its
\* candidate never chose one of theirs.
DistinctDestinations ==
    \A t, u \in Transfers :
        /\ t # u /\ jobs[t].status # "none" /\ jobs[u].status # "none"
              => Destination(t) # Destination(u)
        /\ reserving.transfer = u /\ jobs[t].status # "none"
              => Destination(t) # reserving.destination

\* The metadata beside a received file tells of the transfer that the file came with: a name is
\* not given away again as long as either is there, whatever was forgotten in a restart.
MetadataTellsOrigin ==
    \A p \in DOMAIN files :
        files[p].what \in {"copy", "file"} /\ Exists(Metadata(p))
            => \/ files[Metadata(p)].what # "metadata"
               \/ files[Metadata(p)].by = files[p].by

Keeps(p) == p \in DOMAIN files' /\ files'[p] = files[p]

Finished(p) == files[p].what \in {"user", "file"}

EndsInPart(p) == p[Len(p)] = ".part"

\* Only the user removes or changes a file of his or one that was received, whatever names are
\* offered and whenever the file appears: but for the partial path of another transfer.
KeepsFinishedFiles ==
    [][(\A q \in DOMAIN files : ~UserTakes(q)) =>
          \A p \in DOMAIN files : Finished(p) /\ ~EndsInPart(p) => Keeps(p)]_vars

\* The same of every name: no reservation and no receiver removes a finished file.
DefendsAgainstCollisions ==
    [][(\A q \in DOMAIN files : ~UserTakes(q)) =>
          \A p \in DOMAIN files : Finished(p) => Keeps(p)]_vars

\* What a receiver goroutine opened is still there when it resumes or commits, unless its partial
\* path is the destination of another transfer.
PartialsAreOwn ==
    \A t \in Transfers :
        /\ jobs[t].status \in {"receiving", "committing"}
        /\ \A u \in Transfers : Destination(u) # PartialOf(t)
        => OwnPartial(t)
=============================================================================
