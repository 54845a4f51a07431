------------------------------ MODULE PkgFetch ------------------------------
(* Commands that fetch package archives into the cache they share.           *)
(*                                                                           *)
(* `pkg fetch' and `pkg clean' hold a READONLY lock on the database, or none *)
(* (`pkg clean -a'), so any number of them work on the same files at the     *)
(* same time; a command may be killed at any point, and leaves what it wrote *)
(* for the next one.                                                         *)
(*                                                                           *)
(* An archive is Size[a] pieces long.  What the model tells of a file is how *)
(* many pieces it has and whether they are, in order, the right ones.  Every *)
(* file is appended to (O_APPEND) through a descriptor that keeps naming the *)
(* file after its path was unlinked: `linked' says that it still is the file *)
(* in the cache.  file:// repositories, whose archives are used where they   *)
(* are, and the symbolic links beside the archives are left out.             *)
EXTENDS Integers, Sequences, Functions

CONSTANTS
    Proc,      \* the fetching commands
    Archive,   \* the archives of the catalogue
    Size,      \* [Archive -> Nat \ {0}]: pkgsize, in pieces
    Jobs,      \* [Proc -> Seq(Archive)]: the solved jobs of each command
    Together,  \* bound: the sets of commands that run at the same time
    None       \* no file

ASSUME FetchAssumption ==
    /\ Size \in [Archive -> Nat \ {0}]
    /\ Together \subseteq SUBSET Proc
    /\ \A p \in Proc : Jobs[p] \in Seq(Archive) /\ Jobs[p] /= << >>
    /\ None \notin [size : Nat, ok : BOOLEAN]

VARIABLES
    cache,     \* the file at the path of each archive
    pc,        \* what each command does next
    at,        \* the index of the job being fetched
    tried,     \* already_tried
    fetched,   \* fetched: the file was fetched from its first piece
    done,      \* the pieces the command accounts for; -1: there was no file
    src,       \* the next piece the server sends
    linked,    \* the open descriptor is that of the file in the cache
    csumOnly,  \* csum_only: the command was to check the integrity only
    undisturbed  \* history: since the command began, nobody else touched its
                 \* archives and it was served what it asked for

control == <<at, tried, fetched, csumOnly>>
stream == <<done, src, linked>>
vars == <<cache, pc, control, stream, undisturbed>>

\* A command ends well with its archives fetched, or without having tried.
Ended == {"ok", "skipped", "failed", "killed"}
Running == {p \in Proc : pc[p] \notin {"start"} \cup Ended}
Wanted(p) == Range(Jobs[p])
Job(p) == Jobs[p][at[p]]
File == [size : Nat, ok : BOOLEAN]

Init ==
    /\ cache = [a \in Archive |-> None]
    /\ pc = [p \in Proc |-> "start"]
    /\ at = [p \in Proc |-> 1]
    /\ tried = [p \in Proc |-> FALSE]
    /\ fetched = [p \in Proc |-> FALSE]
    /\ done = [p \in Proc |-> 0]
    /\ src = [p \in Proc |-> 0]
    /\ linked = [p \in Proc |-> FALSE]
    /\ csumOnly = [p \in Proc |-> FALSE]
    /\ undisturbed = [p \in Proc |-> TRUE]

-----------------------------------------------------------------------------
(* What a step does to the cache and to the history.                         *)

Goto(p, label) == pc' = [pc EXCEPT ![p] = label]

SizeOf(a) == IF cache[a] = None THEN 0 ELSE cache[a].size

\* The size of the file is the one in the catalogue.
RightSize(a) == cache[a] /= None /\ cache[a].size = Size[a]

\* unlink(dest): the open descriptors of the file lose it.
Unlink(a) ==
    /\ cache' = [cache EXCEPT ![a] = None]
    /\ linked' = [q \in Proc |-> linked[q] /\ Job(q) /= a]

\* The transfer of the command is over, and its counters mean nothing more.
Over(p) ==
    /\ done' = [done EXCEPT ![p] = 0]
    /\ src' = [src EXCEPT ![p] = 0]

\* The command's own step keeps its record, and touches that of the others.
Recorded(p, served) ==
    undisturbed' = [q \in Proc |->
        /\ undisturbed[q]
        /\ q = p => served
        /\ \/ q = p
           \/ pc[q] = "start"
           \/ \A a \in Wanted(q) : cache'[a] = cache[a]]

-----------------------------------------------------------------------------
(* The command: src/fetch.c and pkg_jobs_fetch.                              *)

\* Nothing is left to download: the user is asked for a check instead.
NothingToDownload(p) == \A a \in Wanted(p) : RightSize(a)

\* print_jobs_summary, and the question it leads to.
Summary(p) ==
    /\ pc[p] = "start"
    /\ \E T \in Together : Running \cup {p} \subseteq T
    /\ csumOnly' = [csumOnly EXCEPT ![p] = NothingToDownload(p)]
    /\ Goto(p, "plan")
    /\ UNCHANGED <<cache, at, tried, fetched, stream>>
    /\ Recorded(p, TRUE)

\* What all the jobs lack, if their archives have these sizes; one that is too
\* long lacks less than nothing.
Lacking(jobs, sizes) ==
    LET lacks[i \in 0..Len(jobs)] ==
            IF i = 0 THEN 0 ELSE lacks[i - 1] + Size[jobs[i]] - sizes[jobs[i]]
    IN  lacks[Len(jobs)]

\* dlsize.
DownloadSize(p) == Lacking(Jobs[p], [a \in Wanted(p) |-> SizeOf(a)])

\* The jobs are fetched unless the sizes add up already.
Plan(p) ==
    /\ pc[p] = "plan"
    /\ Goto(p, IF DownloadSize(p) = 0 THEN "skipped" ELSE "stat")
    /\ UNCHANGED <<cache, control, stream>>
    /\ Recorded(p, TRUE)

-----------------------------------------------------------------------------
(* One archive: pkg_repo_binary_try_fetch.                                   *)

\* A shorter file is resumed, another one goes straight to the check.
Stat(p) ==
    LET a == Job(p) IN
    /\ pc[p] = "stat"
    /\ IF cache[a] /= None /\ cache[a].size >= Size[a]
       THEN Goto(p, "size") /\ UNCHANGED stream
       ELSE /\ Goto(p, "open")
            /\ done' = [done EXCEPT ![p] = IF cache[a] = None THEN -1 ELSE SizeOf(a)]
            /\ UNCHANGED <<src, linked>>
    /\ UNCHANGED <<cache, control>>
    /\ Recorded(p, TRUE)

\* pkg_fetch_file opens the file, creating it.
Open(p) ==
    LET a == Job(p) IN
    /\ pc[p] = "open"
    /\ cache' = IF cache[a] = None
                THEN [cache EXCEPT ![a] = [size |-> 0, ok |-> TRUE]]
                ELSE cache
    /\ linked' = [linked EXCEPT ![p] = TRUE]
    /\ Goto(p, "request")
    /\ UNCHANGED <<control, done, src>>
    /\ Recorded(p, TRUE)

\* The server is asked for the rest of the file, and sends that or all of it.
Request(p) ==
    LET offset == IF done[p] > 0 THEN done[p] ELSE 0 IN
    /\ pc[p] = "request"
    /\ done' = [done EXCEPT ![p] = offset]
    /\ fetched' = [fetched EXCEPT ![p] = done[p] = -1]
    /\ Goto(p, "transfer")
    /\ UNCHANGED <<cache, at, tried, csumOnly, linked>>
    /\ \E from \in {0, offset} :
        /\ src' = [src EXCEPT ![p] = from]
        /\ Recorded(p, from = offset)

\* Faulty variant: one piece too many.
LeftAndOne(p) == Size[Job(p)] - done[p] + 1

\* stdio_fetch reads and writes no more than the archive is to have.
Left(p) == Size[Job(p)] - done[p]

Transfer(p) ==
    LET a == Job(p)
        Appended(f, right) == [size |-> f.size + 1,
                               ok |-> f.ok /\ right /\ f.size = src[p]]
    IN
    /\ pc[p] = "transfer"
    /\ Left(p) > 0
    /\ \E right \in BOOLEAN :
        /\ cache' = IF linked[p] THEN [cache EXCEPT ![a] = Appended(@, right)] ELSE cache
        /\ Recorded(p, right)
    /\ done' = [done EXCEPT ![p] = @ + 1]
    /\ src' = [src EXCEPT ![p] = @ + 1]
    /\ UNCHANGED <<pc, control, linked>>

TransferEnd(p) ==
    /\ pc[p] = "transfer"
    /\ Left(p) <= 0
    /\ linked' = [linked EXCEPT ![p] = FALSE]
    /\ Over(p)
    /\ Goto(p, "size")
    /\ UNCHANGED <<cache, control>>
    /\ Recorded(p, TRUE)

\* No server of the list answers, the one that does names a size beyond the
\* expected one, the connection breaks, or the disk is full: pkg_fetch_file
\* removes the file.
TransferFails(p) ==
    /\ pc[p] \in {"request", "transfer"}
    /\ Unlink(Job(p))
    /\ Over(p)
    /\ Goto(p, "cleanup")
    /\ UNCHANGED control
    /\ Recorded(p, FALSE)

\* Faulty variant: already_tried is not passed on.
RetryForgets(p) ==
    /\ Unlink(Job(p))
    /\ fetched' = [fetched EXCEPT ![p] = FALSE]
    /\ Goto(p, "stat")
    /\ UNCHANGED <<at, tried, csumOnly, done, src>>

\* The file is removed and the archive tried once more, from the beginning.
Retry(p) ==
    /\ Unlink(Job(p))
    /\ tried' = [tried EXCEPT ![p] = TRUE]
    /\ fetched' = [fetched EXCEPT ![p] = FALSE]
    /\ Goto(p, "stat")
    /\ UNCHANGED <<at, csumOnly, done, src>>

CheckSize(p) ==
    /\ pc[p] = "size"
    /\ \/ /\ RightSize(Job(p))
          /\ Goto(p, "checksum")
          /\ UNCHANGED <<cache, control, stream>>
       \/ /\ ~RightSize(Job(p)) /\ tried[p]
          /\ Goto(p, "cleanup")
          /\ UNCHANGED <<cache, control, stream>>
       \/ /\ ~RightSize(Job(p)) /\ ~tried[p]
          /\ Retry(p)
    /\ Recorded(p, TRUE)

\* The archive is there: on to the next one.
NextJob(p) ==
    /\ IF at[p] = Len(Jobs[p])
       THEN Goto(p, "ok") /\ UNCHANGED at
       ELSE Goto(p, "stat") /\ at' = [at EXCEPT ![p] = @ + 1]
    /\ tried' = [tried EXCEPT ![p] = FALSE]
    /\ fetched' = [fetched EXCEPT ![p] = FALSE]
    /\ UNCHANGED <<cache, csumOnly, stream>>

\* Faulty variant: the condition on `fetched' is inverted.
MayRetryFetched(p) == ~tried[p] /\ fetched[p]

\* A file that was fetched from its beginning is not tried again.
MayRetry(p) == ~tried[p] /\ ~fetched[p]

\* The checksum fails on a file that is too long, too: the file may have grown
\* since its size was checked.
CheckSum(p) ==
    LET a == Job(p)
        matches == RightSize(a) /\ cache[a].ok
    IN
    /\ pc[p] = "checksum"
    /\ \/ /\ cache[a] = None
          /\ Goto(p, "failed")
          /\ UNCHANGED <<cache, control, stream>>
       \/ /\ matches
          /\ NextJob(p)
       \/ /\ cache[a] /= None /\ ~matches /\ MayRetry(p)
          /\ Retry(p)
       \/ /\ cache[a] /= None /\ ~matches /\ ~MayRetry(p)
          /\ Goto(p, "cleanup")
          /\ UNCHANGED <<cache, control, stream>>
    /\ Recorded(p, TRUE)

\* A failed archive is removed, whoever made the file that is there by now,
\* and the command ends without the jobs that follow.
Cleanup(p) ==
    /\ pc[p] = "cleanup"
    /\ Unlink(Job(p))
    /\ Goto(p, "failed")
    /\ UNCHANGED <<control, done, src>>
    /\ Recorded(p, TRUE)

-----------------------------------------------------------------------------
(* What the commands do not do themselves.                                   *)

\* The command is killed: all it leaves is what it wrote.
Kill(p) ==
    /\ p \in Running
    /\ Goto(p, "killed")
    /\ linked' = [linked EXCEPT ![p] = FALSE]
    /\ Over(p)
    /\ at' = [at EXCEPT ![p] = 1]
    /\ tried' = [tried EXCEPT ![p] = FALSE]
    /\ fetched' = [fetched EXCEPT ![p] = FALSE]
    /\ csumOnly' = [csumOnly EXCEPT ![p] = FALSE]
    /\ UNCHANGED cache
    /\ Recorded(p, FALSE)

\* `pkg clean' removes an archive.
Clean(a) ==
    /\ cache[a] /= None
    /\ Unlink(a)
    /\ undisturbed' = [q \in Proc |-> undisturbed[q] /\ (pc[q] = "start" \/ a \notin Wanted(q))]
    /\ UNCHANGED <<pc, control, done, src>>

Step(p) ==
    \/ Summary(p) \/ Plan(p) \/ Stat(p) \/ Open(p) \/ Request(p)
    \/ Transfer(p) \/ TransferEnd(p) \/ TransferFails(p)
    \/ CheckSize(p) \/ CheckSum(p) \/ Cleanup(p)

Next ==
    \/ \E p \in Proc : Step(p) \/ Kill(p)
    \/ \E a \in Archive : Clean(a)

Spec == Init /\ [][Next]_vars

\* A command that is not killed goes on, whatever it is served.
FairSpec == Spec /\ \A p \in Proc : WF_vars(Step(p))

-----------------------------------------------------------------------------
(* What the commands promise.                                                *)

\* Types, and the bounds of a transfer: a command never writes more pieces
\* than the archive is to have, and only one that has a descriptor writes.
FetchTypeOK ==
    /\ cache \in [Archive -> File \cup {None}]
    /\ pc \in [Proc -> {"start", "plan", "stat", "open", "request", "transfer",
                        "size", "checksum", "cleanup"} \cup Ended]
    /\ at \in [Proc -> Nat]
    /\ tried \in [Proc -> BOOLEAN]
    /\ fetched \in [Proc -> BOOLEAN]
    /\ done \in [Proc -> Int]
    /\ src \in [Proc -> Nat]
    /\ linked \in [Proc -> BOOLEAN]
    /\ csumOnly \in [Proc -> BOOLEAN]
    /\ undisturbed \in [Proc -> BOOLEAN]
    /\ \A p \in Proc :
        /\ at[p] \in 1..Len(Jobs[p])
        /\ done[p] \in -1..Size[Job(p)]
        /\ linked[p] => pc[p] \in {"request", "transfer"} /\ cache[Job(p)] /= None

\* The jobs the command has gone through.
Fetched(p) == IF pc[p] = "ok" THEN 1..Len(Jobs[p]) ELSE 1..(at[p] - 1)

\* Whatever the commands that were killed, raced or badly served before it left
\* in the cache, a fetch that is left alone and served what it asks for does
\* not fail (it resumes or discards each leftover), and the archives it is done
\* with are intact: pkg_repo_binary_try_fetch.  Only one that fetches nothing may
\* leave other archives, and then their sizes add up to what it wants.
FetchRepairs ==
    \A p \in Proc : undisturbed[p] =>
        /\ pc[p] \notin {"cleanup", "failed"}
        /\ IF pc[p] = "skipped"
           THEN DownloadSize(p) = 0
           ELSE \A i \in Fetched(p) :
                    cache[Jobs[p][i]] = [size |-> Size[Jobs[p][i]], ok |-> TRUE]

\* Every fetch ends, although the others may unlink its files and grow them for
\* as long as they run: already_tried and `fetched' bound the retries.
FetchesEnd == <>[](Running = {})

\* "Integrity check was successful." (src/fetch.c): the archives of a command
\* that says so, and that nobody disturbed, are those of the catalogue.
IntegrityCheckChecks ==
    \A p \in Proc : (pc[p] \in {"ok", "skipped"} /\ csumOnly[p] /\ undisturbed[p]) =>
        \A a \in Wanted(p) : cache[a].ok
=============================================================================
