------------------------------ MODULE PkgLock ------------------------------
(***************************************************************************)
(* The advisory/exclusive lock that pkg keeps in its local database        *)
(* (libpkg/pkgdb.c), and the commands that take it.                        *)
(*                                                                         *)
(* The lock is two tables: pkg_lock, meant to hold one row of counters,    *)
(* and pkg_lock_pid, the pids of the processes that hold something.  There *)
(* is no transaction around the protocol: every SQL statement commits on   *)
(* its own, so one statement is one step here and anything may happen      *)
(* between two of them.                                                    *)
(*                                                                         *)
(* pkg_lock is modelled as the SET of its rows.  Every statement of the    *)
(* protocol treats equal rows alike and asks only whether it changed some  *)
(* row, so equal rows need not be counted.                                 *)
(***************************************************************************)
EXTENDS Integers, FiniteSets

CONSTANTS
    Proc,       \* pkg processes; each runs one command, pids are not reused
    Workloads,  \* the command each process runs: the combinations to start from
    MaxTries,   \* LOCK_RETRIES of pkg.conf
    ReadLock,   \* READ_LOCK of pkg.conf: do readers take the lock at all?
    Errors,     \* processes whose SQL statements may fail (disk error, SQLITE_BUSY)
    Crashes     \* may a process die, or leave without releasing?

\* The kinds of command; a process with "none" never runs.
Commands == {"read", "write", "jobs", "check", "none"}

ASSUME PkgLockAssumption ==
    /\ IsFiniteSet(Proc)
    /\ Workloads \subseteq [Proc -> Commands]
    /\ MaxTries \in Nat
    /\ ReadLock \in BOOLEAN
    /\ Errors \subseteq Proc
    /\ Crashes \in BOOLEAN

VARIABLES
    rows,       \* the rows of table pkg_lock
    pids,       \* the rows of table pkg_lock_pid
    cmd,        \* the command each process runs
    at,         \* where the command is: its last or current call
    pc,         \* where that call is in pkgdb.c, "idle" between calls
    op,         \* the lock statement pkgdb_try_lock was given
    tries,      \* its local variable tries
    round,      \* how many times the command has upgraded its lock
    held,       \* what the process holds: granted by a statement of its own,
                \* given up by none
    intruded    \* history: some step undid or usurped another's lock

vars == <<rows, pids, cmd, at, pc, op, tries, round, held, intruded>>

Locks == {"READONLY", "ADVISORY", "EXCLUSIVE"}
Ops   == Locks \cup {"UPGRADE", "DOWNGRADE"}
Row   == [exclusive : {0, 1}, advisory : {0, 1}, read : Nat]
Free  == [exclusive |-> 0, advisory |-> 0, read |-> 0]

Calls   == {"obtain", "upgrade", "downgrade", "unlock", "cancel", "release"}
Resting == {"start", "work", "execute", "executed", "end", "crashed"}
PCs     == {"idle", "update", "insert", "scan", "reset", "unpid", "delete",
            "reinsert", "unlock", "relpid"}

Alive(p) == at[p] \notin {"end", "crashed"}

----------------------------------------------------------------------------
(* The SQL statements.                                                      *)

\* Faulty variant of Matches: the exclusive lock asks for no exclusive lock only.
MatchesBesideOthers(o, r) ==
    CASE o = "UPGRADE"   -> r.exclusive = 0 /\ r.advisory = 1 /\ r.read = 0
      [] o = "DOWNGRADE" -> r.exclusive = 1 /\ r.advisory = 1 /\ r.read = 0
      [] OTHER           -> r.exclusive = 0

\* Faulty variant of Matches: an upgrade does not wait for the readers.
MatchesDespiteReaders(o, r) ==
    CASE o = "READONLY"  -> r.exclusive = 0
      [] o = "ADVISORY"  -> r.exclusive = 0 /\ r.advisory = 0
      [] o = "EXCLUSIVE" -> r.exclusive = 0 /\ r.advisory = 0 /\ r.read = 0
      [] o = "UPGRADE"   -> r.exclusive = 0 /\ r.advisory = 1
      [] o = "DOWNGRADE" -> r.exclusive = 1 /\ r.advisory = 1

\* The WHERE clause of a lock statement.
Matches(o, r) ==
    CASE o = "READONLY"  -> r.exclusive = 0
      [] o = "ADVISORY"  -> r.exclusive = 0 /\ r.advisory = 0
      [] o = "EXCLUSIVE" -> r.exclusive = 0 /\ r.advisory = 0 /\ r.read = 0
      [] o = "UPGRADE"   -> r.exclusive = 0 /\ r.advisory = 1 /\ r.read = 0
      [] o = "DOWNGRADE" -> r.exclusive = 1 /\ r.advisory = 1 /\ r.read = 0

\* Its SET clause.
Locked(o, r) ==
    CASE o = "READONLY"  -> [r EXCEPT !.read = r.read + 1]
      [] o = "ADVISORY"  -> [r EXCEPT !.advisory = 1]
      [] o = "EXCLUSIVE" -> [r EXCEPT !.exclusive = 1]
      [] o = "UPGRADE"   -> [r EXCEPT !.exclusive = 1, !.advisory = 1]
      [] o = "DOWNGRADE" -> [r EXCEPT !.exclusive = 0, !.advisory = 1]

Granted(o) == \E r \in rows : Matches(o, r)

\* Faulty variant of Unlockable: a read lock is released without WHERE read > 0.
UnlockableAlways(l, r) ==
    CASE l = "READONLY"  -> TRUE
      [] l = "ADVISORY"  -> r.advisory = 1
      [] l = "EXCLUSIVE" -> r.exclusive = 1

\* The WHERE and SET clauses of a release statement.
Unlockable(l, r) ==
    CASE l = "READONLY"  -> r.read > 0
      [] l = "ADVISORY"  -> r.advisory = 1
      [] l = "EXCLUSIVE" -> r.exclusive = 1

\* Faulty variant of Unlocked: the last reader is taken for the only one.
UnlockedAllReaders(l, r) ==
    CASE l = "READONLY"  -> [r EXCEPT !.read = 0]
      [] l = "ADVISORY"  -> [r EXCEPT !.advisory = 0]
      [] l = "EXCLUSIVE" -> [r EXCEPT !.exclusive = 0]

Unlocked(l, r) ==
    CASE l = "READONLY"  -> [r EXCEPT !.read = r.read - 1]
      [] l = "ADVISORY"  -> [r EXCEPT !.advisory = 0]
      [] l = "EXCLUSIVE" -> [r EXCEPT !.exclusive = 0]

\* What a process holds once statement o has granted it a lock.
HeldAfter(o) ==
    CASE o \in Locks     -> {o}
      [] o = "UPGRADE"   -> {"ADVISORY", "EXCLUSIVE"}
      [] o = "DOWNGRADE" -> {"ADVISORY"}

\* The lock a conversion presumes its caller to hold.
Presumes(o) ==
    CASE o \in Locks     -> {}
      [] o = "UPGRADE"   -> {"ADVISORY"}
      [] o = "DOWNGRADE" -> {"EXCLUSIVE"}

\* The lock asked for again, from nothing, once a conversion had to reset.
Target(o) ==
    CASE o \in Locks     -> o
      [] o = "UPGRADE"   -> "EXCLUSIVE"
      [] o = "DOWNGRADE" -> "ADVISORY"

Conversion(o) == o \in {"UPGRADE", "DOWNGRADE"}

OthersHold(p) == \E q \in Proc \ {p} : held[q] # {}
Readers == {p \in Proc : "READONLY" \in held[p]}

Lock == INSTANCE DbLock WITH Proc <- Proc, held <- held

----------------------------------------------------------------------------
(* The commands: which call each makes, and where its result leads.         *)

\* The lock a command obtains first and releases last.
LockOf(c) ==
    CASE c = "read"  -> "READONLY"
      [] c = "write" -> "EXCLUSIVE"
      [] OTHER       -> "ADVISORY"

\* The statement a call at point a runs.
OpOf(c, a) ==
    CASE a = "upgrade"   -> "UPGRADE"
      [] a = "downgrade" -> "DOWNGRADE"
      [] a = "unlock"    -> "EXCLUSIVE"
      [] a = "cancel"    -> "ADVISORY"
      [] OTHER           -> LockOf(c)

\* Where a command goes when its call at point a returns.
After(c, a, n, ok) ==
    CASE a = "obtain"    -> IF ok THEN "work" ELSE "end"
      [] a = "upgrade"   -> IF ok THEN "execute"
                            ELSE IF c = "jobs" THEN "release"
                            ELSE IF n > 1 THEN "downgrade" ELSE "end"
      [] a = "unlock"    -> "executed"
      [] a = "cancel"    -> "release"
      [] OTHER           -> "end"

\* The points a command may choose to go to from a point between two calls.
Choices(c, a, n) ==
    CASE a = "start" /\ c = "check"          -> {"upgrade", "end"}
      [] a = "start" /\ c \in {"read", "write", "jobs"} -> {"obtain"}
      [] a = "work" /\ c = "jobs"            -> {"upgrade", "cancel", "release"}
      [] a = "work" /\ c # "jobs"            -> {"release"}
      [] a = "execute" /\ c = "jobs"         -> {"unlock", "release"}
      [] a = "execute" /\ c = "check" /\ n = 1 -> {"upgrade", "downgrade"}
      [] a = "execute" /\ c = "check" /\ n > 1 -> {"unlock", "downgrade"}
      [] a = "executed" /\ c = "jobs" /\ n = 1 -> {"upgrade", "release"}
      [] a = "executed" /\ c = "jobs" /\ n > 1 -> {"release"}
      [] a = "executed" /\ c = "check"       -> {"downgrade"}
      [] OTHER                               -> {}

\* Process p arrives at point a; with READ_LOCK off a reader's calls do nothing.
Arrive(p, c, a, n) ==
    LET noop == a \in Calls /\ c = "read" /\ ~ReadLock
        b    == IF noop THEN After(c, a, n, TRUE) ELSE a
    IN  /\ at' = [at EXCEPT ![p] = b]
        /\ pc' = [pc EXCEPT ![p] =
                    IF b \in Resting THEN "idle"
                    ELSE IF b \in {"unlock", "cancel", "release"} THEN "unlock"
                    ELSE "update"]
        /\ op' = [op EXCEPT ![p] = OpOf(c, b)]
        /\ tries' = [tries EXCEPT ![p] = 0]
        /\ round' = [round EXCEPT ![p] = IF b = "upgrade" THEN n + 1 ELSE n]

\* The call of p returns; leaving the command takes what p holds with it.
Return(p, ok, h) ==
    LET b == After(cmd[p], at[p], round[p], ok)
    IN  /\ Arrive(p, cmd[p], b, round[p])
        /\ held' = [held EXCEPT ![p] = IF b = "end" THEN {} ELSE h]

----------------------------------------------------------------------------
Init ==
    /\ rows = {Free}
    /\ pids = {}
    /\ cmd \in Workloads
    /\ at = [p \in Proc |-> "start"]
    /\ pc = [p \in Proc |-> "idle"]
    /\ op = [p \in Proc |-> "READONLY"]
    /\ tries = [p \in Proc |-> 0]
    /\ round = [p \in Proc |-> 0]
    /\ held = [p \in Proc |-> {}]
    /\ intruded = FALSE

\* The command begins, or goes on after its own work, to its next call.
Choose(p) ==
    /\ pc[p] = "idle"
    /\ \E a \in Choices(cmd[p], at[p], round[p]) :
        /\ Arrive(p, cmd[p], a, round[p])
        /\ held' = [held EXCEPT ![p] = IF a = "end" THEN {} ELSE @]
    /\ UNCHANGED <<rows, pids, cmd, intruded>>

\* The lock statement finds a row to change: the lock is granted in pkg_lock,
\* and only a later statement will say to whom.
Grant(p) ==
    /\ pc[p] = "update"
    /\ Granted(op[p])
    /\ rows' = {IF Matches(op[p], r) THEN Locked(op[p], r) ELSE r : r \in rows}
    /\ intruded' = (intruded \/ (~(Presumes(op[p]) \subseteq held[p]) /\ OthersHold(p)))
    /\ IF Conversion(op[p])
       THEN Return(p, TRUE, HeldAfter(op[p]))
       ELSE /\ held' = [held EXCEPT ![p] = HeldAfter(op[p])]
            /\ pc' = [pc EXCEPT ![p] = "insert"]
            /\ UNCHANGED <<at, op, tries, round>>
    /\ UNCHANGED <<pids, cmd>>

\* pkgdb_write_lock_pid.  pid is the primary key: a second row for it fails.
WriteLockPid(p) ==
    /\ pc[p] = "insert"
    /\ pids' = pids \cup {p}
    /\ Return(p, p \notin pids, held[p])
    /\ UNCHANGED <<rows, cmd, intruded>>

\* The lock statement changes no row: look for the processes that hold it.
Refuse(p) ==
    /\ pc[p] = "update"
    /\ ~Granted(op[p])
    /\ pc' = [pc EXCEPT ![p] = "scan"]
    /\ UNCHANGED <<rows, pids, cmd, at, op, tries, round, held, intruded>>

\* Sleep LOCK_WAIT seconds and try again, or give up.
Retry(p) ==
    IF tries[p] + 1 <= MaxTries
    THEN /\ tries' = [tries EXCEPT ![p] = @ + 1]
         /\ pc' = [pc EXCEPT ![p] = "update"]
         /\ UNCHANGED <<at, op, round, held>>
    ELSE Return(p, FALSE, held[p])

\* Faulty variant of CheckLockPid: a dead process still counts as a holder.
CheckLockPidTrusting(p) ==
    /\ pc[p] = "scan"
    /\ IF pids \subseteq {p}
       THEN /\ pc' = [pc EXCEPT ![p] = "reset"]
            /\ UNCHANGED <<at, op, tries, round, held>>
       ELSE Retry(p)
    /\ UNCHANGED <<rows, pids, cmd, intruded>>

\* pkgdb_check_lock_pid: forget the pids that kill(pid, 0) says are dead.
CheckLockPid(p) ==
    /\ pc[p] = "scan"
    /\ pids' = {q \in pids : q = p \/ Alive(q)}
    /\ IF pids' \subseteq {p}
       THEN /\ pc' = [pc EXCEPT ![p] = "reset"]
            /\ UNCHANGED <<at, op, tries, round, held>>
       ELSE Retry(p)
    /\ UNCHANGED <<rows, cmd, intruded>>

\* pkgdb_reset_lock, on the strength of a scan made in an earlier statement.
ResetLock(p) ==
    /\ pc[p] = "reset"
    /\ rows' = {Free : r \in rows}
    /\ held' = [held EXCEPT ![p] = {}]
    /\ intruded' = (intruded \/ OthersHold(p))
    /\ pc' = [pc EXCEPT ![p] = "unpid"]
    /\ UNCHANGED <<pids, cmd, at, op, tries, round>>

\* Ask for the lock from the beginning: pkgdb_obtain_lock called again.
ObtainAgain(p) ==
    /\ pc' = [pc EXCEPT ![p] = "update"]
    /\ op' = [op EXCEPT ![p] = Target(@)]
    /\ tries' = [tries EXCEPT ![p] = 0]

\* After a reset the process forgets its own pid.
RemoveOwnPid(p) ==
    /\ pc[p] = "unpid"
    /\ pids' = pids \ {p}
    /\ IF Conversion(op[p])
       THEN ObtainAgain(p)
       ELSE /\ pc' = [pc EXCEPT ![p] = "delete"]
            /\ UNCHANGED <<op, tries>>
    /\ UNCHANGED <<rows, cmd, at, round, held, intruded>>

\* reset_lock_sql, first statement: DELETE FROM pkg_lock.
DeleteRows(p) ==
    /\ pc[p] = "delete"
    /\ rows' = {}
    /\ held' = [held EXCEPT ![p] = {}]
    /\ intruded' = (intruded \/ OthersHold(p))
    /\ pc' = [pc EXCEPT ![p] = "reinsert"]
    /\ UNCHANGED <<pids, cmd, at, op, tries, round>>

\* reset_lock_sql, second statement: INSERT INTO pkg_lock VALUES (0,0,0).
ReinsertRow(p) ==
    /\ pc[p] = "reinsert"
    /\ rows' = rows \cup {Free}
    /\ intruded' = (intruded \/ rows # {})
    /\ ObtainAgain(p)
    /\ UNCHANGED <<pids, cmd, at, round, held>>

\* pkgdb_release_lock, the statement on pkg_lock.
ReleaseLock(p) ==
    /\ pc[p] = "unlock"
    /\ rows' = {IF Unlockable(op[p], r) THEN Unlocked(op[p], r) ELSE r : r \in rows}
    /\ intruded' = (intruded \/ (op[p] \notin held[p] /\ rows' # rows /\ OthersHold(p)))
    /\ IF \E r \in rows : Unlockable(op[p], r)
       THEN /\ pc' = [pc EXCEPT ![p] = "relpid"]
            /\ held' = [held EXCEPT ![p] = @ \ {op[p]}]
            /\ UNCHANGED <<at, op, tries, round>>
       ELSE Return(p, FALSE, held[p] \ {op[p]})
    /\ UNCHANGED <<pids, cmd>>

\* Faulty variant of ReleasePid: the pid outlives the lock.
ReleasePidForgotten(p) ==
    /\ pc[p] = "relpid"
    /\ Return(p, TRUE, held[p])
    /\ UNCHANGED <<rows, pids, cmd, intruded>>

\* Faulty variant of ReleasePid: DELETE FROM pkg_lock_pid without its WHERE.
ReleaseEveryPid(p) ==
    /\ pc[p] = "relpid"
    /\ pids' = {}
    /\ Return(p, TRUE, held[p])
    /\ UNCHANGED <<rows, cmd, intruded>>

\* pkgdb_release_lock, the statement on pkg_lock_pid: whatever else the
\* process still holds, it is no longer registered.
ReleasePid(p) ==
    /\ pc[p] = "relpid"
    /\ pids' = pids \ {p}
    /\ Return(p, TRUE, held[p])
    /\ UNCHANGED <<rows, cmd, intruded>>

----------------------------------------------------------------------------
\* A statement fails.  The lock, insert and release statements make the call
\* fail; a failed scan counts as "somebody is alive"; the rest is ignored.
SqlFails(p) ==
    /\ p \in Errors
    /\ pc[p] # "idle"
    /\ \/ /\ pc[p] \in {"update", "insert", "unlock", "relpid"}
          /\ Return(p, FALSE, held[p])
       \/ /\ pc[p] = "scan"
          /\ Retry(p)
       \/ /\ pc[p] = "reset"
          /\ pc' = [pc EXCEPT ![p] = "unpid"]
          /\ UNCHANGED <<at, op, tries, round, held>>
       \/ /\ pc[p] = "unpid" /\ ~Conversion(op[p])
          /\ pc' = [pc EXCEPT ![p] = "delete"]
          /\ UNCHANGED <<at, op, tries, round, held>>
       \/ /\ \/ pc[p] = "unpid" /\ Conversion(op[p])
             \/ pc[p] \in {"delete", "reinsert"}
          /\ ObtainAgain(p)
          /\ UNCHANGED <<at, round, held>>
    /\ UNCHANGED <<rows, pids, cmd, intruded>>

\* The process is killed, or leaves on one of the paths that release nothing.
Crash(p) ==
    /\ Crashes
    /\ Alive(p)
    /\ at[p] # "start"
    /\ at' = [at EXCEPT ![p] = "crashed"]
    /\ pc' = [pc EXCEPT ![p] = "idle"]
    /\ held' = [held EXCEPT ![p] = {}]
    /\ UNCHANGED <<rows, pids, cmd, op, tries, round, intruded>>

\* One statement, or one decision, of a command that has begun.
Step(p) ==
    \/ Choose(p)
    \/ Grant(p)
    \/ WriteLockPid(p)
    \/ Refuse(p)
    \/ CheckLockPid(p)
    \/ ResetLock(p)
    \/ RemoveOwnPid(p)
    \/ DeleteRows(p)
    \/ ReinsertRow(p)
    \/ ReleaseLock(p)
    \/ ReleasePid(p)
    \/ SqlFails(p)

Next == \E p \in Proc : Step(p) \/ Crash(p)

Spec == Init /\ [][Next]_vars

\* A command that has begun goes on: the operating system runs it, its sleeps
\* end, and SQLite answers.  Nobody has to begin a command, or to be killed.
Fairness == \A p \in Proc : WF_vars(at[p] # "start" /\ Step(p))

FairSpec == Spec /\ Fairness
----------------------------------------------------------------------------
\* Type invariant.  The counters of pkg_lock never go negative or, for the two
\* flags, beyond one, whatever the interleaving of the statements that move them.
TypeOK ==
    /\ rows \subseteq Row
    /\ pids \subseteq Proc
    /\ cmd \in [Proc -> Commands]
    /\ at \in [Proc -> Calls \cup Resting]
    /\ pc \in [Proc -> PCs]
    /\ op \in [Proc -> Ops]
    /\ tries \in [Proc -> 0..MaxTries]
    /\ round \in [Proc -> Nat]
    /\ held \in [Proc -> SUBSET Locks]
    /\ intruded \in BOOLEAN
    /\ \A p \in Proc : pc[p] = "unlock" => op[p] \in Locks

\* An exclusive lock allows no other lock beside it (pkg.h.in, the comment on
\* pkgdb_lock_t).
ExclusiveIsAlone ==
    \A p, q \in Proc : p # q /\ "EXCLUSIVE" \in held[p] => held[q] = {}

\* At most one process holds the advisory lock.
AdvisoryIsUnique ==
    \A p, q \in Proc : "ADVISORY" \in held[p] /\ "ADVISORY" \in held[q] => p = q

\* The lock excludes as documented for as long as nothing was usurped: the only
\* ways pkgdb.c can grant incompatible locks are a reset decided on a scan that
\* missed a live holder, two resets overlapping in DELETE and INSERT, and a
\* release or a conversion by a process that does not hold what it names.
LocksExclude == ~intruded => ExclusiveIsAlone /\ AdvisoryIsUnique

\* The table says at least what the processes hold: while nothing was usurped
\* pkg_lock has one row, with the flag of every flag held, and counts no fewer
\* readers than there are.
RowsRecordHolders ==
    ~intruded =>
        /\ \A r, s \in rows : r = s
        /\ (\E p \in Proc : held[p] # {}) => rows # {}
        /\ \A r \in rows :
            /\ \A p \in Proc : "EXCLUSIVE" \in held[p] => r.exclusive = 1
            /\ \A p \in Proc : "ADVISORY" \in held[p] => r.advisory = 1
            /\ Cardinality(Readers) <= r.read

\* What the caller of pkgdb.c is promised, as a lock without tables: every step
\* that usurps nothing is a step of DbLock, or changes nothing anyone holds.
StepsAreLockSteps == [][~intruded' => Lock!Next]_<<held, intruded>>

\* A command at work under a lock it obtained is registered in pkg_lock_pid, so
\* that every scan that starts now finds it: the statements other processes run
\* on pkg_lock_pid never forget a live pid, and a jobs command that had to reset
\* during its first upgrade registers again before it executes.
WorkIsRegistered ==
    \A p \in Proc :
        (\/ at[p] = "work" /\ (cmd[p] = "read" => ReadLock)
         \/ at[p] = "execute" /\ cmd[p] = "jobs" /\ round[p] = 1)
        => p \in pids

\* "No live processes found, so we can safely reset lock" (pkgdb.c, in
\* pkgdb_try_lock): no reset takes away what a live process holds.
ResetIsSafe ==
    [][\A p \in Proc : ResetLock(p) => ~OthersHold(p)]_vars

\* Once every reader and writer has left by its normal path and nobody was
\* usurped, the tables are as they were before the first: no lock and no pid leaks
\* as long as no statement of a release fails.
QuiescentIsFree ==
    (/\ ~intruded
     /\ \A p \in Proc :
         \/ at[p] = "start"
         \/ at[p] = "end" /\ cmd[p] \in {"read", "write"} /\ p \notin Errors)
        => rows = {Free} /\ pids = {}

\* Whoever asks for the lock when nobody else is left running gets it, whatever
\* the dead, their failed statements and their half made resets have left in the
\* two tables: a crashed holder never locks out the commands that come after it.
StaleLockRecovered ==
    \A p \in Proc \ Errors :
        (/\ at[p] = "obtain"
         /\ \A q \in Proc \ {p} : at[q] \in {"start", "end", "crashed"})
        ~> (\/ at[p] \in {"work", "crashed"}
            \/ \E q \in Proc \ {p} : at[q] \notin {"start", "end", "crashed"})

\* LOCK_RETRIES is the "number of attempts to obtain a lock before giving up and
\* exiting" (pkg.conf.5): every command that begins comes to its end, since
\* obtaining a lock, with its retries, its resets and its asking again from the
\* beginning, is finite.
CommandsEnd ==
    \A p \in Proc : at[p] # "start" ~> at[p] \in {"end", "crashed"}
=============================================================================
