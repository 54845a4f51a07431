----------------------------- MODULE PkgExecute -----------------------------
(***************************************************************************)
(* The execution of a scheduled transaction: pkg_jobs_execute               *)
(* (libpkg/pkg_jobs.c), and what pkg_add_common (pkg_add.c) and pkg_delete  *)
(* (pkg_delete.c) do to the database and to the file system, step by step.  *)
(*                                                                         *)
(* Scheduling is PkgSchedule; its result is executed in order.  Everything  *)
(* here runs under the exclusive lock of PkgLock, in one process, so the    *)
(* only interleaving is with a failure or with the death of the process.    *)
(***************************************************************************)
EXTENDS PkgSchedule

CONSTANTS
    Self,       \* the packages called pkg or pkg-devel
    Forced      \* PKG_FLAG_FORCE

\* Of a transaction that is executed is also known which packages have the vital
\* flag, and whether there is no pattern or the first one matches everything.
ASSUME PkgExecuteAssumption ==
    /\ Self \subseteq Uid
    /\ Forced \in BOOLEAN
    /\ \A r \in Requests : r.vital \subseteq Uid /\ r.matchAll \in BOOLEAN

\* And it is one the solver may hand over (PkgTransaction).
ASSUME SolvedAssumption == \A r \in Requests : Solved(r)

VARIABLES
    stage,      \* where the execution is
    current,    \* how many jobs were begun
    inst,       \* table packages, as committed: no, the old or the new version
    files,      \* on disk: "old" and "new" if complete, "temp" while extracted
    open,       \* a transaction whose commit failed is still open
    lost        \* history: the commit of a registration failed

xvars == <<stage, current, inst, files, open, lost>>
allvars == <<vars, xvars>>

\* The job at hand.
Running == sorted[current]
Done(s) == s \in {"completed", "stopped", "crashed"}

\* The stages in which a job is at hand.
Busy == {"delete", "unregister", "extract", "cleanup", "finalize", "commit"}

----------------------------------------------------------------------------
ExecuteInit ==
    /\ Init
    /\ stage = "schedule"
    /\ current = 0
    /\ inst = [u \in DOMAIN req.kind |-> IF req.kind[u] = "install" THEN "none" ELSE "old"]
    /\ files = [u \in DOMAIN req.kind |-> IF req.kind[u] = "install" THEN {} ELSE {"old"}]
    /\ open = FALSE
    /\ lost = FALSE

\* Faulty variant of Schedule: a transaction that cannot be ordered is not refused.
ScheduleUnchecked ==
    /\ stage = "schedule"
    /\ \/ Next /\ stage' = "schedule"
       \/ /\ phase = "done"
          /\ stage' = "next"
          /\ UNCHANGED vars
    /\ UNCHANGED <<current, inst, files, open, lost>>

\* pkg_jobs_schedule runs, returns, and stops the execution if it fails.
Schedule ==
    /\ stage = "schedule"
    /\ \/ Next /\ stage' = "schedule"
       \/ /\ phase \in {"done", "failed"}
          /\ stage' = IF phase = "done" THEN "next" ELSE "stopped"
          /\ UNCHANGED vars
    /\ UNCHANGED <<current, inst, files, open, lost>>

\* The next job of the list, unless it must not be executed: a vital package,
\* or pkg itself, which is passed over when everything is being deleted.
Begin ==
    /\ stage = "next"
    /\ current < Len(sorted)
    /\ current' = current + 1
    /\ LET job       == sorted[current']
           protected == job.type = "delete" /\ ~Forced
       IN  stage' =
            IF protected /\ job.uid \in req.vital THEN "stopped"
            ELSE IF protected /\ job.uid \in Self
                 THEN IF req.matchAll THEN "next" ELSE "stopped"
            ELSE IF HasNew(job) THEN "extract" ELSE "delete"
    /\ UNCHANGED <<vars, inst, files, open, lost>>

\* Faulty variant of Complete: off by one.
CompleteEarly ==
    /\ stage = "next"
    /\ current + 1 = Len(sorted)
    /\ stage' = "completed"
    /\ UNCHANGED <<vars, current, inst, files, open, lost>>

Complete ==
    /\ stage = "next"
    /\ current = Len(sorted)
    /\ stage' = "completed"
    /\ UNCHANGED <<vars, current, inst, files, open, lost>>

\* pkg_delete: the files go first.  A script that fails stops it before any file
\* is gone or after; a file that cannot be removed does not.
DeleteFiles ==
    /\ stage = "delete"
    /\ \/ /\ files' = [files EXCEPT ![Running.uid] = @ \ {"old"}]
          /\ stage' \in {"unregister", "stopped"}
       \/ /\ stage' = "stopped"
          /\ UNCHANGED files
    /\ UNCHANGED <<vars, current, inst, open, lost>>

\* Faulty variant of Unregister: its failure does not stop the execution.
UnregisterUnchecked ==
    /\ stage = "unregister"
    /\ \/ inst' = [inst EXCEPT ![Running.uid] = "none"]
       \/ UNCHANGED inst
    /\ stage' = "next"
    /\ UNCHANGED <<vars, current, files, open, lost>>

\* pkgdb_unregister_pkg, which commits by itself unless a transaction is open.
\* A cancelled deletion is completed all the same, and then stops the execution.
Unregister ==
    /\ stage = "unregister"
    /\ \/ /\ inst' = IF open THEN inst ELSE [inst EXCEPT ![Running.uid] = "none"]
          /\ stage' \in {"next", "stopped"}
       \/ /\ stage' = "stopped"
          /\ UNCHANGED inst
    /\ UNCHANGED <<vars, current, files, open, lost>>

\* Faulty variant of Extract: the transaction is committed before the files have
\* their names.
ExtractAndCommit ==
    /\ stage = "extract"
    /\ files' = [files EXCEPT ![Running.uid] = @ \cup {"temp"}]
    /\ inst' = [inst EXCEPT ![Running.uid] = "new"]
    /\ stage' = IF Running.type = "upgrade" THEN "cleanup" ELSE "finalize"
    /\ UNCHANGED <<vars, current, open, lost>>

\* pkg_add_common up to the extraction.  The registration begins a transaction,
\* which fails inside another one; files are extracted under temporary names,
\* removed on failure.
Extract ==
    /\ stage = "extract"
    /\ \/ /\ ~open
          /\ files' = [files EXCEPT ![Running.uid] = @ \cup {"temp"}]
          /\ stage' = IF Running.type = "upgrade" THEN "cleanup" ELSE "finalize"
       \/ /\ stage' = "stopped"
          /\ UNCHANGED files
    /\ UNCHANGED <<vars, current, inst, open, lost>>

\* pkg_add_cleanup_old removes the files the new version no longer has, before
\* the new ones have their names.  When a script makes it fail the temporary
\* files stay.
CleanupOld ==
    /\ stage = "cleanup"
    /\ \/ /\ files' = [files EXCEPT ![Running.uid] = @ \ {"old"}]
          /\ stage' = "finalize"
       \/ /\ stage' = "stopped"
          /\ UNCHANGED files
    /\ UNCHANGED <<vars, current, inst, open, lost>>

\* pkg_extract_finalize gives the files their names; what was renamed before an
\* error stays renamed.
Finalize ==
    /\ stage = "finalize"
    /\ \/ /\ files' = [files EXCEPT ![Running.uid] = {"new"}]
          /\ stage' = "commit"
       \/ /\ files' = [files EXCEPT ![Running.uid] = {"temp"}]
          /\ stage' = "stopped"
    /\ UNCHANGED <<vars, current, inst, open, lost>>

\* pkgdb_register_finale, whose result pkg_add_common does not look at.  When
\* the commit fails SQLite rolls back, or, if it was busy, leaves the transaction
\* open, to be rolled back when the process ends.
Commit ==
    /\ stage = "commit"
    /\ \/ inst' = [inst EXCEPT ![Running.uid] = "new"] /\ UNCHANGED <<open, lost>>
       \/ UNCHANGED inst /\ open' \in BOOLEAN /\ lost' = TRUE
    /\ stage' = "next"
    /\ UNCHANGED <<vars, current, files>>

\* The process dies; SQLite rolls an open transaction back, the files stay.
Crash ==
    /\ stage \in Busy \cup {"next"}
    /\ stage' = "crashed"
    /\ UNCHANGED <<vars, current, inst, files, open, lost>>

ExecuteStep ==
    \/ Schedule \/ Begin \/ Complete
    \/ DeleteFiles \/ Unregister
    \/ Extract \/ CleanupOld \/ Finalize \/ Commit

ExecuteNext == ExecuteStep \/ Crash

ExecuteSpec == ExecuteInit /\ [][ExecuteNext]_allvars

FairExecuteSpec == ExecuteSpec /\ WF_allvars(ExecuteStep)

----------------------------------------------------------------------------
\* Type invariant.
ExecuteTypeOK ==
    /\ TypeOK
    /\ stage \in Busy \cup {"schedule", "next", "completed", "stopped", "crashed"}
    /\ current \in 0..Len(sorted)
    /\ inst \in [DOMAIN req.kind -> Versions]
    /\ files \in [DOMAIN req.kind -> SUBSET {"old", "new", "temp"}]
    /\ open \in BOOLEAN
    /\ lost \in BOOLEAN

\* At no moment, and so after no failure and no crash, does a registered package
\* lack one of the transaction it needs: a new version has every such package in
\* its new version, an old one finds it in some version.  pkg itself is exempt when
\* "delete everything" passes it over, and after a commit that failed nothing is
\* promised: later jobs are executed on top of it.
DependenciesPresent == ~lost => NeedsKept(req, inst, Self)

\* Nor are an installed package and a new one that conflicts with it ever
\* registered together, unless a commit failed.
NoConflictRegistered == ~lost => ConflictsApart(req, inst, Self)

\* The files on disk that belong to a version.
FilesOf(v) == IF v = "none" THEN {} ELSE {v}

\* What a failure or a crash can leave inconsistent is the package of one job:
\* every other has the files of the version the database names, complete, and
\* nothing else.  Only a commit that fails unnoticed leaves more behind.
DamageIsLocal ==
    ~lost => \A u \in DOMAIN inst :
        files[u] # FilesOf(inst[u])
            => /\ current > 0 /\ u = Running.uid
               /\ stage \in Busy \cup {"stopped", "crashed"}

\* An execution that completes has done every job of the transaction, however
\* upgrades were split, pkg itself and failed commits excepted.
CompletedIsSolved == stage = "completed" /\ ~lost => Performed(req, inst, Self)

\* "If this was a split upgrade, the old package has been entirely removed
\* already" (pkg_add.c, in pkg_add_common): the installing half never meets what
\* the removing half was to take away, in the database or on disk.
SplitOldIsGone ==
    stage \in Busy /\ Running.type = "upgrade_install" /\ ~lost =>
        inst[Running.uid] = "none" /\ "old" \notin files[Running.uid]

\* The database never names a new version some of whose files are not in place:
\* not while it is installed, not after a failure, a crash or a failed commit.
RegisteredIsOnDisk ==
    \A u \in DOMAIN inst : inst[u] = "new" => files[u] = {"new"}

\* Once registered in its new version a package stays so: no later job of the
\* transaction undoes an earlier one.
NewStaysNew ==
    [][\A u \in DOMAIN inst : inst[u] = "new" => inst'[u] = "new"]_allvars

\* Every execution ends.
ExecutionEnds == <>Done(stage)
=============================================================================
