-------------------------- MODULE PkgExecuteProofs -------------------------
(***************************************************************************)
(* The execution of a schedule, for every set of transactions, through      *)
(* failures of every step and the death of the process.                     *)
(*                                                                         *)
(* The scheduler's invariant goes on holding, and gives the order of the    *)
(* jobs.  RecordInv ties the database to how far the list was executed, in  *)
(* both directions: what it names was brought about by a job that was       *)
(* begun, and every job that is settled had its effect.  FilesInv ties the  *)
(* files on disk to the database.                                           *)
(***************************************************************************)
EXTENDS PkgExecute, PkgScheduleProofs

\* Where the execution is, and what that says of the job at hand.
StageInv ==
    /\ stage = "schedule" \/ phase # "done" => current = 0
    /\ phase # "done" => stage \in {"schedule", "stopped"}
    /\ stage \in Busy => current > 0
    /\ stage \in {"delete", "unregister"} => ~HasNew(Running)
    /\ stage \in {"extract", "cleanup", "finalize", "commit"} => HasNew(Running)
    /\ stage = "completed" => current = Len(sorted)
    /\ open => lost

\* The i-th job has been dealt with.
Settled(i) == i < current \/ (i = current /\ stage \in {"next", "completed"})

\* What a job does to the database: pkg itself may have been passed over.
Effect(n) ==
    /\ HasNew(n) => inst[n.uid] = "new"
    /\ HasOld(n) => inst[n.uid] # "old" \/ (n.type = "delete" /\ n.uid \in Self)

RecordInv ==
    /\ \A u \in DOMAIN inst :
           /\ inst[u] = "new" => \E i \in 1..current :
                  HasNew(sorted[i]) /\ sorted[i].uid = u /\ (i = current => stage \notin Busy)
           /\ inst[u] = "none" /\ req.kind[u] # "install" => \E i \in 1..current :
                  HasOld(sorted[i]) /\ ~HasNew(sorted[i]) /\ sorted[i].uid = u
           /\ inst[u] = "old" => req.kind[u] # "install"
    /\ ~lost => \A i \in 1..Len(sorted) : Settled(i) => Effect(sorted[i])

FilesInv ==
    /\ RegisteredIsOnDisk
    /\ DamageIsLocal
    /\ stage = "commit" => files[Running.uid] = {"new"}
    /\ stage \in Busy /\ ~lost =>
           /\ "old" \in files[Running.uid] => inst[Running.uid] = "old"
           /\ stage \in {"delete", "extract"} => files[Running.uid] = FilesOf(inst[Running.uid])
           /\ stage = "unregister" => files[Running.uid] = {}

XInv == IInv /\ ExecuteTypeOK /\ StageInv /\ RecordInv /\ FilesInv

----------------------------------------------------------------------------
\* The jobs of a package.

\* Every package of the transaction has the job its kind calls for, and only it.
LEMMA JobOfKind ==
    ASSUME JobsInv
    PROVE  /\ \A u \in DOMAIN req.kind :
                  /\ req.kind[u] # "delete" => \E n \in jobs : n.uid = u /\ HasNew(n)
                  /\ req.kind[u] # "install" => \E n \in jobs : n.uid = u /\ HasOld(n)
           /\ \A n \in jobs :
                  /\ n.uid \in DOMAIN req.kind
                  /\ HasNew(n) => req.kind[n.uid] # "delete"
                  /\ HasOld(n) => req.kind[n.uid] # "install"
                  /\ HasNew(n) \/ HasOld(n)
                  /\ n.type = "delete" => req.kind[n.uid] = "delete"
<1>1. IsRequest(req)
  BY PkgScheduleAssumption DEF JobsInv
<1>2. \A u \in DOMAIN req.kind : req.kind[u] \in Kinds
  BY <1>1 DEF IsRequest
<1>3. ASSUME NEW u \in DOMAIN req.kind
      PROVE  /\ req.kind[u] # "delete" => \E n \in jobs : n.uid = u /\ HasNew(n)
             /\ req.kind[u] # "install" => \E n \in jobs : n.uid = u /\ HasOld(n)
  <2>1. CASE Whole(u) \in jobs
    BY <2>1, <1>2 DEF Whole, HasNew, HasOld, Kinds
  <2>2. CASE \A t \in Halves : [uid |-> u, type |-> t] \in jobs
    <3>1. /\ [uid |-> u, type |-> "upgrade_install"] \in jobs
          /\ [uid |-> u, type |-> "upgrade_remove"] \in jobs
      BY <2>2 DEF Halves
    <3> QED BY <3>1 DEF HasNew, HasOld
  <2> QED BY <2>1, <2>2 DEF JobsInv
<1>4. ASSUME NEW n \in jobs
      PROVE  /\ n.uid \in DOMAIN req.kind
             /\ HasNew(n) => req.kind[n.uid] # "delete"
             /\ HasOld(n) => req.kind[n.uid] # "install"
             /\ HasNew(n) \/ HasOld(n)
             /\ n.type = "delete" => req.kind[n.uid] = "delete"
  <2>1. CASE n.type = req.kind[n.uid] /\ n.uid \in DOMAIN req.kind
    BY <2>1, <1>2 DEF HasNew, HasOld, Kinds
  <2>2. CASE n.type \in Halves /\ req.kind[n.uid] = "upgrade" /\ n.uid \in DOMAIN req.kind
    BY <2>2 DEF HasNew, HasOld, Halves
  <2>3. n = Whole(n.uid) => n.type = req.kind[n.uid]
    BY DEF Whole
  <2> QED BY <2>1, <2>2, <2>3 DEF JobsInv
<1> QED BY <1>3, <1>4

\* Two jobs of one package that install are the same; one that only removes and
\* one that installs are ordered.
LEMMA JobsOfOnePackage ==
    ASSUME JobsInv, NEW m \in jobs, NEW n \in jobs, m.uid = n.uid, HasNew(n)
    PROVE  /\ HasNew(m) => m = n
           /\ ~HasNew(m) => Before(m, n)
<1>1. m \in Job /\ n \in Job
  BY DEF JobsInv
<1>2. CASE m = Whole(m.uid)
  <2>1. n = Whole(n.uid)
    BY <1>2 DEF JobsInv
  <2> QED BY <1>2, <2>1
<1>3. CASE m # Whole(m.uid)
  <2>1. m.type \in Halves /\ n.type \in Halves
    BY <1>3 DEF JobsInv
  <2>2. n.type = "upgrade_install"
    BY <2>1 DEF Halves, HasNew
  <2>3. HasNew(m) => m.type = n.type
    BY <2>1, <2>2 DEF Halves, HasNew
  <2>4. ~HasNew(m) => m.type = "upgrade_remove"
    BY <2>1 DEF Halves, HasNew
  <2> QED BY <1>1, <2>2, <2>3, <2>4, JobFields DEF Before, Edge
<1> QED BY <1>2, <1>3

\* When the schedule is done every package's jobs have a place in it, and each of
\* them one only.
LEMMA Placing ==
    ASSUME IInv, phase = "done"
    PROVE  /\ \A n \in jobs : \E i \in 1..Len(sorted) : sorted[i] = n
           /\ \A i \in 1..Len(sorted) : sorted[i] \in jobs
           /\ \A i, j \in 1..Len(sorted) : sorted[i] = sorted[j] => i = j
           /\ \A i, j \in 1..Len(sorted) : Before(sorted[i], sorted[j]) => i < j
<1>1. sorted \in Seq(jobs) /\ Len(sorted) \in Nat /\ DOMAIN sorted = 1..Len(sorted)
  BY DEF IInv, TypeInv, TypeOK
<1>2. \A n \in jobs : \E i \in 1..Len(sorted) : sorted[i] = n
  BY <1>1, AllPlaced DEF Placed
<1>3. \A i, j \in 1..Len(sorted) : sorted[i] = sorted[j] => i = j
  BY <1>1 DEF IInv, SortInv
<1>4. ASSUME NEW i \in 1..Len(sorted), NEW j \in 1..Len(sorted), Before(sorted[i], sorted[j])
      PROVE  i < j
  <2>1. ~(j < i)
    BY <1>1, <1>4 DEF IInv, SortInv, OrderRespectsEdges
  <2>2. i # j
    BY <1>4, EdgeFacts
  <2> QED BY <1>1, <2>1, <2>2
<1> QED BY <1>1, <1>2, <1>3, <1>4

----------------------------------------------------------------------------
\* The job at hand.

LEMMA RunningIsJob ==
    ASSUME XInv, stage \in Busy
    PROVE  /\ phase = "done" /\ current \in 1..Len(sorted) /\ Len(sorted) \in Nat
           /\ Running \in jobs /\ Running.uid \in DOMAIN req.kind
           /\ Running.uid \in DOMAIN inst /\ Running.uid \in DOMAIN files
<1>1. phase = "done" /\ current > 0
  BY DEF XInv, StageInv, Busy
<1>2. Len(sorted) \in Nat
  BY DEF XInv, IInv, TypeInv, TypeOK
<1>3. current \in 1..Len(sorted)
  BY <1>1, <1>2 DEF XInv, ExecuteTypeOK
<1>4. Running \in jobs
  BY <1>1, <1>3, Placing DEF XInv, Running
<1>5. Running.uid \in DOMAIN req.kind
  BY <1>4 DEF XInv, IInv, JobsInv
<1> QED BY <1>1, <1>2, <1>3, <1>4, <1>5 DEF XInv, ExecuteTypeOK

\* While a job is at hand its package is not registered in its new version: what
\* registers it comes no earlier, and a removal comes before it.
LEMMA RunningNotNew ==
    ASSUME XInv, stage \in Busy
    PROVE  inst[Running.uid] # "new"
<1> SUFFICES ASSUME inst[Running.uid] = "new" PROVE FALSE
  OBVIOUS
<1>1. PICK i \in 1..current : HasNew(sorted[i]) /\ sorted[i].uid = Running.uid /\ i # current
  BY RunningIsJob DEF XInv, RecordInv
<1>2. i \in 1..Len(sorted) /\ i < current
  BY <1>1, RunningIsJob
<1>3. sorted[i] \in jobs
  BY <1>2, RunningIsJob, Placing DEF XInv
<1>4. Running = sorted[i] \/ Before(Running, sorted[i])
  BY <1>1, <1>3, RunningIsJob, JobsOfOnePackage DEF XInv, IInv
<1> QED BY <1>2, <1>4, RunningIsJob, Placing DEF XInv, Running

----------------------------------------------------------------------------
\* The schedule.

LEMMA RequestFixed == [Next]_vars => req' = req
BY DEF Next, Visit, FindCycle, Place, Leave, WalkBack, Fail, Split, StartSort, Finish, vars

\* Every step of the execution is one of the scheduler or leaves it alone.
LEMMA ScheduleSteps == [ExecuteNext]_allvars => [Next]_vars
BY DEF ExecuteNext, ExecuteStep, Schedule, Begin, Complete, DeleteFiles, Unregister,
       Extract, CleanupOld, Finalize, Commit, Crash, allvars, vars

LEMMA ExecuteInitStep == ExecuteInit => XInv
<1> SUFFICES ASSUME ExecuteInit PROVE XInv
  OBVIOUS
<1>1. IInv /\ TypeOK
  BY InitStep DEF ExecuteInit, IInv, TypeInv
<1>2. /\ DOMAIN inst = DOMAIN req.kind /\ DOMAIN files = DOMAIN req.kind
      /\ \A u \in DOMAIN inst :
            /\ inst[u] = IF req.kind[u] = "install" THEN "none" ELSE "old"
            /\ files[u] = FilesOf(inst[u])
  BY DEF ExecuteInit, FilesOf
<1>3. /\ inst \in [DOMAIN req.kind -> Versions]
      /\ files \in [DOMAIN req.kind -> SUBSET {"old", "new", "temp"}]
  BY DEF ExecuteInit, Versions
<1>4. stage = "schedule" /\ current = 0 /\ open = FALSE /\ lost = FALSE /\ phase = "search"
      /\ sorted = <<>>
  BY DEF ExecuteInit, Init
<1>5. ExecuteTypeOK
  <2>1. Len(sorted) = 0
    BY <1>4
  <2>2. current \in 0..Len(sorted)
    BY <1>4, <2>1
  <2> QED BY <1>1, <1>3, <1>4, <2>2 DEF ExecuteTypeOK
<1>6. StageInv
  BY <1>4 DEF StageInv, Busy
<1>7. RecordInv
  BY <1>2, <1>4 DEF RecordInv, Settled
<1>8. FilesInv
  BY <1>2, <1>4 DEF FilesInv, RegisteredIsOnDisk, DamageIsLocal, Busy
<1> QED BY <1>1, <1>5, <1>6, <1>7, <1>8 DEF XInv

LEMMA ScheduleStep ==
    ASSUME XInv, Schedule
    PROVE  XInv'
<1> USE DEF XInv
<1>1. IInv' /\ TypeOK' /\ req' = req /\ Len(sorted') \in Nat
  <2>1. [Next]_vars
    BY DEF Schedule
  <2>2. IInv'
    BY <2>1, NextStep
  <2> QED BY <2>1, <2>2, RequestFixed DEF IInv, TypeInv, TypeOK
<1>2. stage = "schedule" /\ current = 0 /\ UNCHANGED <<current, inst, files, open, lost>>
  BY DEF Schedule, StageInv
<1>3. /\ stage' \in {"schedule", "next", "stopped"}
      /\ stage' = "next" => phase' = "done"
  BY DEF Schedule, vars
<1>4. ExecuteTypeOK'
  BY <1>1, <1>2, <1>3 DEF ExecuteTypeOK
<1>5. StageInv'
  BY <1>2, <1>3 DEF StageInv, Busy
<1>6. \A u \in DOMAIN inst : inst[u] # "new" /\ (inst[u] = "none" => req.kind[u] = "install")
  BY <1>2 DEF RecordInv
<1>7. RecordInv'
  <2>1. \A u \in DOMAIN inst : inst[u] = "old" => req.kind[u] # "install"
    BY DEF RecordInv
  <2>2. ~lost' => \A i \in 1..Len(sorted') : ~Settled(i)'
    BY <1>1, <1>2 DEF Settled
  <2> QED BY <1>1, <1>2, <1>6, <2>1, <2>2 DEF RecordInv
<1>8. FilesInv'
  <2>1. ~lost => \A u \in DOMAIN inst : files[u] = FilesOf(inst[u])
    BY <1>2 DEF FilesInv, DamageIsLocal
  <2> QED BY <1>2, <1>3, <1>6, <2>1 DEF FilesInv, RegisteredIsOnDisk, DamageIsLocal, FilesOf, Busy
<1> QED BY <1>1, <1>4, <1>5, <1>7, <1>8

----------------------------------------------------------------------------
\* Execution.

\* The steps that do not touch the database, and settle no job.
LEMMA RecordKept ==
    ASSUME RecordInv, UNCHANGED <<vars, current, inst, lost>>,
           stage' \in {"next", "completed"} => stage \in {"next", "completed"},
           stage' \in Busy => stage \in Busy
    PROVE  RecordInv'
<1>1. \A i : Settled(i)' => Settled(i)
  BY DEF Settled
<1>2. ~lost' => \A i \in 1..Len(sorted') : Settled(i)' => Effect(sorted[i])'
  BY <1>1 DEF RecordInv, Effect, vars
<1> QED BY <1>2 DEF RecordInv, vars

\* The scheduler's result is fixed once it is executed.
LEMMA ScheduleKept ==
    ASSUME XInv, UNCHANGED vars
    PROVE  IInv' /\ TypeOK'
BY StutterStep DEF XInv, IInv, TypeInv

LEMMA BeginStep ==
    ASSUME XInv, Begin
    PROVE  XInv'
<1> USE DEF XInv
<1>1. /\ stage = "next" /\ current < Len(sorted) /\ current' = current + 1
      /\ UNCHANGED <<req, jobs, phase, mark, prev, path, cycle, out, available, sorted>>
      /\ UNCHANGED <<inst, files, open, lost>> /\ UNCHANGED vars
  BY DEF Begin, vars
<1>2. phase = "done" /\ current \in Nat /\ Len(sorted) \in Nat /\ current' \in 1..Len(sorted)
  BY <1>1 DEF StageInv, ExecuteTypeOK, IInv, TypeInv, TypeOK
<1>3. PICK job \in jobs : job = sorted[current'] /\ job = Running'
  BY <1>1, <1>2, Placing DEF Running
<1>4. /\ stage' \in {"stopped", "next", "extract", "delete"}
      /\ stage' = "next" => job.type = "delete" /\ job.uid \in Self
      /\ stage' = "extract" => HasNew(job)
      /\ stage' = "delete" => ~HasNew(job)
  BY <1>3 DEF Begin
<1>5. ExecuteTypeOK'
  BY <1>1, <1>2, <1>4, ScheduleKept DEF ExecuteTypeOK, Busy
<1>6. StageInv'
  BY <1>1, <1>2, <1>3, <1>4 DEF StageInv, Busy
<1>7. RecordInv'
  <2>1. ASSUME ~lost, NEW i \in 1..Len(sorted), Settled(i)'
        PROVE  Effect(sorted[i])
    <3>1. CASE i = current'
      BY <3>1, <2>1, <1>1, <1>3, <1>4 DEF Settled, Effect, HasNew
    <3>2. CASE i # current'
      <4>1. Settled(i)
        BY <2>1, <3>2, <1>1, <1>2 DEF Settled
      <4> QED BY <2>1, <4>1 DEF RecordInv
    <3> QED BY <3>1, <3>2
  <2>2. ASSUME NEW i \in 1..current
        PROVE  i \in 1..current' /\ i # current'
    BY <1>1, <1>2
  <2>3. ~lost' => \A i \in 1..Len(sorted') : Settled(i)' => Effect(sorted[i])'
    BY <2>1, <1>1 DEF Effect
  <2> QED BY <2>2, <2>3, <1>1 DEF RecordInv
<1>8. FilesInv'
  <2>1. ~lost => \A u \in DOMAIN inst : files[u] = FilesOf(inst[u])
    BY <1>1 DEF FilesInv, DamageIsLocal, Busy
  <2>2. Running'.uid \in DOMAIN inst
    BY <1>2, <1>3 DEF ExecuteTypeOK, IInv, JobsInv
  <2>3. DamageIsLocal'
    BY <1>1, <2>1 DEF DamageIsLocal, FilesOf
  <2>4. ~lost => files[Running'.uid] = FilesOf(inst[Running'.uid])
    BY <2>1, <2>2
  <2>5. stage' \notin {"commit", "unregister"}
    BY <1>4
  <2> QED BY <1>1, <2>3, <2>4, <2>5 DEF FilesInv, RegisteredIsOnDisk, FilesOf
<1> QED BY <1>1, <1>5, <1>6, <1>7, <1>8, ScheduleKept

LEMMA CompleteStep ==
    ASSUME XInv, Complete
    PROVE  XInv'
<1> USE DEF XInv
<1>1. /\ stage = "next" /\ stage' = "completed" /\ current = Len(sorted) /\ UNCHANGED vars
      /\ UNCHANGED <<req, jobs, phase, sorted, current, inst, files, open, lost>>
  BY DEF Complete, vars
<1>2. phase = "done"
  BY <1>1 DEF StageInv
<1>3. ExecuteTypeOK'
  BY <1>1, ScheduleKept DEF ExecuteTypeOK
<1>4. StageInv'
  BY <1>1, <1>2 DEF StageInv, Busy
<1>5. RecordInv'
  BY <1>1, RecordKept DEF Busy
<1>6. FilesInv'
  <2>1. ~lost => \A u \in DOMAIN inst : files[u] = FilesOf(inst[u])
    BY <1>1 DEF FilesInv, DamageIsLocal, Busy
  <2> QED BY <1>1, <2>1 DEF FilesInv, RegisteredIsOnDisk, DamageIsLocal, FilesOf, Busy
<1> QED BY <1>1, <1>3, <1>4, <1>5, <1>6, ScheduleKept

\* The steps that only change the files of the job at hand, or stop.
LEMMA FilesStep ==
    ASSUME XInv, DeleteFiles \/ Extract \/ CleanupOld \/ Finalize
    PROVE  XInv'
<1> USE DEF XInv
<1>1. /\ stage \in {"delete", "extract", "cleanup", "finalize"} /\ stage \in Busy
      /\ stage' \in {"unregister", "cleanup", "finalize", "commit", "stopped"}
      /\ stage' = "unregister" => stage = "delete"
      /\ stage' \in {"cleanup", "finalize", "commit"} => stage # "delete"
      /\ UNCHANGED vars
      /\ UNCHANGED <<req, jobs, phase, sorted, current, inst, open, lost>>
  BY DEF DeleteFiles, Extract, CleanupOld, Finalize, Busy, vars
<1>2. PICK u \in DOMAIN inst : u = Running.uid /\ u \in DOMAIN req.kind
  BY <1>1, RunningIsJob
<1>3. PICK F \in SUBSET {"old", "new", "temp"} : files' = [files EXCEPT ![u] = F]
  <2>1. files[u] \in SUBSET {"old", "new", "temp"} /\ files = [files EXCEPT ![u] = files[u]]
    BY <1>2 DEF ExecuteTypeOK
  <2>2. /\ files[u] \ {"old"} \in SUBSET {"old", "new", "temp"}
        /\ files[u] \cup {"temp"} \in SUBSET {"old", "new", "temp"}
        /\ {"new"} \in SUBSET {"old", "new", "temp"}
        /\ {"temp"} \in SUBSET {"old", "new", "temp"}
    BY <2>1
  <2>3. \/ files' = files
        \/ files' = [files EXCEPT ![u] = files[u] \ {"old"}]
        \/ files' = [files EXCEPT ![u] = files[u] \cup {"temp"}]
        \/ files' = [files EXCEPT ![u] = {"new"}]
        \/ files' = [files EXCEPT ![u] = {"temp"}]
    BY <1>2 DEF DeleteFiles, Extract, CleanupOld, Finalize
  <2> QED BY <2>1, <2>2, <2>3
<1>4. /\ files' \in [DOMAIN req.kind -> SUBSET {"old", "new", "temp"}] /\ files'[u] = F
      /\ \A v \in DOMAIN inst \ {u} : files'[v] = files[v]
  BY <1>2, <1>3 DEF ExecuteTypeOK
<1>5. /\ "old" \in F => "old" \in files[u]
      /\ stage' = "commit" => F = {"new"}
      /\ stage' = "unregister" => F = files[u] \ {"old"}
  BY <1>2, <1>4 DEF DeleteFiles, Extract, CleanupOld, Finalize
<1>6. current > 0 /\ phase = "done" /\ Running' = Running
  BY <1>1, RunningIsJob DEF Running
<1>7. ExecuteTypeOK'
  BY <1>1, <1>4, ScheduleKept DEF ExecuteTypeOK, Busy
<1>8. StageInv'
  BY <1>1, <1>6 DEF StageInv, Busy
<1>9. RecordInv'
  BY <1>1, RecordKept DEF Busy
<1>10. FilesInv'
  <2>1. inst[u] # "new"
    BY <1>1, <1>2, RunningNotNew
  <2>2. RegisteredIsOnDisk'
    BY <1>1, <1>4, <2>1 DEF FilesInv, RegisteredIsOnDisk
  <2>3. DamageIsLocal'
    <3>1. ~lost => \A v \in DOMAIN inst \ {u} : files[v] = FilesOf(inst[v])
      BY <1>2 DEF FilesInv, DamageIsLocal
    <3>2. stage' \in Busy \cup {"stopped", "crashed"}
      BY <1>1 DEF Busy
    <3> QED BY <1>1, <1>2, <1>4, <1>6, <3>1, <3>2 DEF DamageIsLocal, FilesOf
  <2>4. ASSUME ~lost
        PROVE  /\ "old" \in F => inst[u] = "old"
               /\ stage' = "unregister" => F = {}
    <3>1. "old" \in files[u] => inst[u] = "old"
      BY <2>4, <1>1, <1>2 DEF FilesInv
    <3>2. stage' = "unregister" => files[u] = FilesOf(inst[u])
      BY <2>4, <1>1, <1>2 DEF FilesInv
    <3>3. inst[u] \in {"none", "old"}
      BY <1>2, <2>1 DEF ExecuteTypeOK, Versions
    <3> QED BY <1>5, <3>1, <3>2, <3>3 DEF FilesOf
  <2>5. stage' \notin {"delete", "extract"}
    BY <1>1
  <2> QED BY <1>1, <1>2, <1>4, <1>5, <1>6, <2>2, <2>3, <2>4, <2>5 DEF FilesInv
<1> QED BY <1>1, <1>7, <1>8, <1>9, <1>10, ScheduleKept

LEMMA UnregisterStep ==
    ASSUME XInv, Unregister
    PROVE  XInv'
<1> USE DEF XInv
<1>1. /\ stage = "unregister" /\ stage \in Busy /\ stage' \in {"next", "stopped"}
      /\ UNCHANGED vars /\ UNCHANGED <<req, jobs, phase, sorted, current, files, open, lost>>
  BY DEF Unregister, Busy, vars
<1>2. PICK u \in DOMAIN inst : u = Running.uid /\ u \in DOMAIN req.kind
  BY <1>1, RunningIsJob
<1>3. /\ Running \in jobs /\ Running = sorted[current] /\ Running' = Running
      /\ current \in 1..Len(sorted) /\ phase = "done"
  BY <1>1, RunningIsJob DEF Running
<1>4. HasOld(Running) /\ ~HasNew(Running)
  BY <1>1, <1>3, JobOfKind DEF StageInv, IInv
<1>5. inst[u] # "new"
  BY <1>1, <1>2, RunningNotNew
<1>6. /\ inst' \in [DOMAIN req.kind -> Versions] /\ inst'[u] \in {inst[u], "none"}
      /\ \A v \in DOMAIN inst \ {u} : inst'[v] = inst[v]
      /\ stage' = "next" /\ ~lost => inst'[u] = "none"
  BY <1>2 DEF Unregister, ExecuteTypeOK, StageInv, Versions
<1>7. ExecuteTypeOK'
  BY <1>1, <1>6, ScheduleKept DEF ExecuteTypeOK
<1>8. StageInv'
  BY <1>1, <1>3 DEF StageInv, Busy
<1>9. RecordInv'
  <2>1. ASSUME NEW v \in DOMAIN inst
        PROVE  /\ inst'[v] = "new" => \E i \in 1..current :
                      HasNew(sorted[i]) /\ sorted[i].uid = v
               /\ inst'[v] = "none" /\ req.kind[v] # "install" => \E i \in 1..current :
                      HasOld(sorted[i]) /\ ~HasNew(sorted[i]) /\ sorted[i].uid = v
               /\ inst'[v] = "old" => req.kind[v] # "install"
    <3>1. CASE v = u
      <4>1. current \in 1..current
        BY <1>3
      <4> QED BY <3>1, <4>1, <1>2, <1>3, <1>4, <1>5, <1>6 DEF RecordInv
    <3>2. CASE v # u
      BY <3>2, <1>6 DEF RecordInv
    <3> QED BY <3>1, <3>2
  <2>2. ASSUME ~lost, NEW i \in 1..Len(sorted), Settled(i)'
        PROVE  /\ HasNew(sorted[i]) => inst'[sorted[i].uid] = "new"
               /\ HasOld(sorted[i]) => \/ inst'[sorted[i].uid] # "old"
                                       \/ sorted[i].type = "delete" /\ sorted[i].uid \in Self
    <3>1. sorted[i].uid \in DOMAIN inst
      BY <1>3, Placing, JobOfKind DEF IInv, ExecuteTypeOK
    <3>2. CASE i = current
      BY <2>2, <3>2, <1>1, <1>2, <1>3, <1>4, <1>6 DEF Settled
    <3>3. CASE i # current
      <4>1. Effect(sorted[i])
        BY <2>2, <3>3, <1>1 DEF Settled, RecordInv
      <4> QED BY <3>1, <4>1, <1>5, <1>6 DEF Effect
    <3> QED BY <3>2, <3>3
  <2>3. stage' \notin Busy /\ DOMAIN inst' = DOMAIN inst
    BY <1>1, <1>6 DEF Busy, ExecuteTypeOK
  <2>4. ~lost' => \A i \in 1..Len(sorted') : Settled(i)' => Effect(sorted[i])'
    BY <2>2, <1>1 DEF Effect
  <2> QED BY <2>1, <2>3, <2>4, <1>1 DEF RecordInv
<1>10. FilesInv'
  <2>1. DOMAIN inst' = DOMAIN inst
    BY <1>6 DEF ExecuteTypeOK
  <2>2. RegisteredIsOnDisk'
    BY <2>1, <1>1, <1>5, <1>6 DEF FilesInv, RegisteredIsOnDisk
  <2>3. DamageIsLocal'
    <3>1. ~lost => \A v \in DOMAIN inst \ {u} : files[v] = FilesOf(inst[v])
      BY <1>2 DEF FilesInv, DamageIsLocal
    <3>2. ~lost => files[u] = {}
      BY <1>1, <1>2 DEF FilesInv
    <3>3. ~lost /\ stage' = "next" => \A v \in DOMAIN inst : files[v] = FilesOf(inst'[v])
      BY <1>6, <3>1, <3>2 DEF FilesOf
    <3>4. ~lost => \A v \in DOMAIN inst \ {u} : files[v] = FilesOf(inst'[v])
      BY <1>6, <3>1
    <3>5. current > 0
      BY <1>1 DEF StageInv
    <3> QED BY <1>1, <1>2, <1>3, <2>1, <3>3, <3>4, <3>5 DEF DamageIsLocal, FilesOf
  <2> QED BY <1>1, <2>2, <2>3 DEF FilesInv, Busy
<1> QED BY <1>1, <1>7, <1>8, <1>9, <1>10, ScheduleKept

LEMMA CommitStep ==
    ASSUME XInv, Commit
    PROVE  XInv'
<1> USE DEF XInv
<1>1. /\ stage = "commit" /\ stage \in Busy /\ stage' = "next"
      /\ UNCHANGED vars /\ UNCHANGED <<req, jobs, phase, sorted, current, files>>
  BY DEF Commit, Busy, vars
<1>2. PICK u \in DOMAIN inst : u = Running.uid /\ u \in DOMAIN req.kind
  BY <1>1, RunningIsJob
<1>3. /\ Running \in jobs /\ Running = sorted[current] /\ Running' = Running
      /\ current \in 1..Len(sorted) /\ phase = "done"
  BY <1>1, RunningIsJob DEF Running
<1>4. HasNew(Running) /\ files[u] = {"new"}
  BY <1>1, <1>2 DEF StageInv, FilesInv
<1>5. /\ inst' \in [DOMAIN req.kind -> Versions] /\ DOMAIN inst' = DOMAIN inst
      /\ inst'[u] \in {inst[u], "new"}
      /\ \A v \in DOMAIN inst \ {u} : inst'[v] = inst[v]
      /\ ~lost' => inst'[u] = "new" /\ ~lost
      /\ open' \in BOOLEAN /\ lost' \in BOOLEAN /\ (open' => lost')
  <2>1. inst \in [DOMAIN req.kind -> Versions] /\ (open => lost)
        /\ open \in BOOLEAN /\ lost \in BOOLEAN
    BY DEF ExecuteTypeOK, StageInv
  <2>2. CASE inst' = [inst EXCEPT ![u] = "new"] /\ UNCHANGED <<open, lost>>
    <3>1. "new" \in Versions
      BY DEF Versions
    <3>2. inst' \in [DOMAIN req.kind -> Versions] /\ inst'[u] = "new"
          /\ \A v \in DOMAIN inst \ {u} : inst'[v] = inst[v]
      BY <1>2, <2>1, <2>2, <3>1
    <3> QED BY <2>1, <2>2, <3>2
  <2>3. CASE UNCHANGED inst /\ open' \in BOOLEAN /\ lost' = TRUE
    BY <2>1, <2>3
  <2> QED BY <1>2, <2>2, <2>3 DEF Commit
<1>6. ExecuteTypeOK'
  BY <1>1, <1>5, ScheduleKept DEF ExecuteTypeOK
<1>7. StageInv'
  BY <1>1, <1>3, <1>5 DEF StageInv, Busy
<1>8. RecordInv'
  <2>1. ASSUME NEW v \in DOMAIN inst
        PROVE  /\ inst'[v] = "new" => \E i \in 1..current :
                      HasNew(sorted[i]) /\ sorted[i].uid = v
               /\ inst'[v] = "none" /\ req.kind[v] # "install" => \E i \in 1..current :
                      HasOld(sorted[i]) /\ ~HasNew(sorted[i]) /\ sorted[i].uid = v
               /\ inst'[v] = "old" => req.kind[v] # "install"
    <3>1. CASE v = u
      <4>1. current \in 1..current
        BY <1>3
      <4> QED BY <3>1, <4>1, <1>2, <1>3, <1>4, <1>5 DEF RecordInv
    <3>2. CASE v # u
      BY <3>2, <1>5 DEF RecordInv
    <3> QED BY <3>1, <3>2
  <2>2. ASSUME ~lost', NEW i \in 1..Len(sorted), Settled(i)'
        PROVE  /\ HasNew(sorted[i]) => inst'[sorted[i].uid] = "new"
               /\ HasOld(sorted[i]) => \/ inst'[sorted[i].uid] # "old"
                                       \/ sorted[i].type = "delete" /\ sorted[i].uid \in Self
    <3>1. sorted[i].uid \in DOMAIN inst
      BY <1>3, Placing, JobOfKind DEF IInv, ExecuteTypeOK
    <3>2. CASE sorted[i].uid = u
      BY <2>2, <3>2, <1>5
    <3>3. CASE sorted[i].uid # u
      <4>1. Settled(i)
        BY <2>2, <3>3, <1>1, <1>2, <1>3 DEF Settled
      <4>2. Effect(sorted[i])
        BY <2>2, <4>1, <1>5 DEF RecordInv
      <4> QED BY <3>1, <3>3, <4>2, <1>5 DEF Effect
    <3> QED BY <3>2, <3>3
  <2>3. stage' \notin Busy
    BY <1>1 DEF Busy
  <2>4. ~lost' => \A i \in 1..Len(sorted') : Settled(i)' => Effect(sorted[i])'
    BY <2>2, <1>1 DEF Effect
  <2> QED BY <2>1, <2>3, <2>4, <1>1, <1>5 DEF RecordInv
<1>9. FilesInv'
  <2>1. RegisteredIsOnDisk'
    BY <1>1, <1>4, <1>5 DEF FilesInv, RegisteredIsOnDisk
  <2>2. DamageIsLocal'
    <3>1. ~lost => \A v \in DOMAIN inst \ {u} : files[v] = FilesOf(inst[v])
      BY <1>2 DEF FilesInv, DamageIsLocal
    <3> QED BY <1>1, <1>4, <1>5, <3>1 DEF DamageIsLocal, FilesOf
  <2> QED BY <1>1, <2>1, <2>2 DEF FilesInv, Busy
<1> QED BY <1>1, <1>6, <1>7, <1>8, <1>9, ScheduleKept

LEMMA CrashStep ==
    ASSUME XInv, Crash
    PROVE  XInv'
<1> USE DEF XInv
<1>1. /\ stage \in Busy \cup {"next"} /\ stage' = "crashed" /\ UNCHANGED vars
      /\ UNCHANGED <<req, jobs, phase, sorted, current, inst, files, open, lost>>
  BY DEF Crash, vars
<1>2. phase = "done"
  BY <1>1 DEF StageInv, Busy
<1>3. ExecuteTypeOK'
  BY <1>1, ScheduleKept DEF ExecuteTypeOK
<1>4. StageInv'
  BY <1>1, <1>2 DEF StageInv, Busy
<1>5. RecordInv'
  BY <1>1, RecordKept DEF Busy
<1>6. FilesInv'
  <2>1. Running' = Running
    BY <1>1 DEF Running
  <2>2. DamageIsLocal'
    BY <1>1, <2>1 DEF FilesInv, DamageIsLocal, FilesOf
  <2> QED BY <1>1, <2>2 DEF FilesInv, RegisteredIsOnDisk, Busy
<1> QED BY <1>1, <1>3, <1>4, <1>5, <1>6, ScheduleKept

LEMMA ExecuteStutter ==
    ASSUME XInv, UNCHANGED allvars
    PROVE  XInv'
<1> USE DEF XInv
<1>1. /\ UNCHANGED vars /\ UNCHANGED xvars
      /\ UNCHANGED <<req, jobs, phase, sorted, stage, current, inst, files, open, lost>>
  BY DEF allvars, xvars, vars
<1>2. ExecuteTypeOK'
  BY <1>1, ScheduleKept DEF ExecuteTypeOK
<1>3. StageInv'
  BY <1>1 DEF StageInv, Running
<1>4. RecordInv'
  BY <1>1, RecordKept
<1>5. FilesInv'
  BY <1>1 DEF FilesInv, RegisteredIsOnDisk, DamageIsLocal, FilesOf, Running
<1> QED BY <1>1, <1>2, <1>3, <1>4, <1>5, ScheduleKept

LEMMA ExecuteNextStep == XInv /\ [ExecuteNext]_allvars => XInv'
BY ScheduleStep, BeginStep, CompleteStep, FilesStep, UnregisterStep, CommitStep, CrashStep,
   ExecuteStutter DEF ExecuteNext, ExecuteStep

LEMMA ExecuteInvariance == ExecuteSpec => []XInv
BY ExecuteInitStep, ExecuteNextStep, PTL DEF ExecuteSpec

----------------------------------------------------------------------------
\* What the invariant says of an execution.

\* What is begun later than a job that must come before it finds that job's
\* effect in the database.
LEMMA BeforeIsSettled ==
    ASSUME XInv, ~lost, NEW n \in jobs, NEW i \in 1..current, Before(n, sorted[i])
    PROVE  Effect(n)
<1>1. phase = "done" /\ i \in 1..Len(sorted) /\ i <= current
  BY DEF XInv, StageInv, ExecuteTypeOK, IInv, TypeInv, TypeOK
<1>2. PICK j \in 1..Len(sorted) : sorted[j] = n
  BY <1>1, Placing DEF XInv
<1>3. j < i
  BY <1>1, <1>2, Placing DEF XInv
<1>4. Settled(j)
  BY <1>1, <1>3 DEF Settled, XInv, ExecuteTypeOK
<1> QED BY <1>2, <1>4 DEF XInv, RecordInv

\* The jobs that were begun are jobs of the schedule.
LEMMA BegunIsJob ==
    ASSUME XInv, NEW i \in 1..current
    PROVE  phase = "done" /\ sorted[i] \in jobs
<1>1. phase = "done" /\ i \in 1..Len(sorted)
  BY DEF XInv, StageInv, ExecuteTypeOK, IInv, TypeInv, TypeOK
<1> QED BY <1>1, Placing DEF XInv

LEMMA DependenciesInXInv == XInv => DependenciesPresent
<1> SUFFICES ASSUME XInv, ~lost, NEW x \in DOMAIN inst
             PROVE  /\ inst[x] = "new" =>
                         \A y \in DOMAIN inst : <<x, y>> \in req.newNeeds /\ x # y => inst[y] = "new"
                    /\ inst[x] = "old" /\ x \notin Self =>
                         \A y \in DOMAIN inst : <<x, y>> \in req.oldNeeds => inst[y] # "none"
  BY DEF DependenciesPresent, NeedsKept
<1>1. /\ DOMAIN inst = DOMAIN req.kind /\ JobsInv /\ Solved(req)
      /\ req.newNeeds \subseteq req.newDeps /\ req.oldNeeds \subseteq req.oldDeps
  BY SolvedAssumption, PkgScheduleAssumption DEF XInv, ExecuteTypeOK, IInv, JobsInv, IsRequest
<1>2. ASSUME inst[x] = "new", NEW y \in DOMAIN inst, <<x, y>> \in req.newNeeds, x # y
      PROVE  inst[y] = "new"
  <2>1. PICK i \in 1..current : HasNew(sorted[i]) /\ sorted[i].uid = x
    BY <1>2 DEF XInv, RecordInv
  <2>2. req.kind[y] # "delete"
    BY <1>1, <1>2 DEF Solved
  <2>3. PICK n \in jobs : n.uid = y /\ HasNew(n)
    BY <1>1, <2>2, JobOfKind
  <2>4. Before(n, sorted[i])
    BY <1>1, <1>2, <2>1, <2>3 DEF Before, Edge
  <2> QED BY <2>3, <2>4, BeforeIsSettled DEF Effect
<1>3. ASSUME inst[x] = "old", x \notin Self, NEW y \in DOMAIN inst, <<x, y>> \in req.oldNeeds,
             inst[y] = "none"
      PROVE  FALSE
  <2>1. req.kind[x] # "install"
    BY <1>3 DEF XInv, RecordInv
  <2>2. req.kind[y] # "install"
    BY <1>1, <1>3, <2>1 DEF Solved
  <2>3. PICK i \in 1..current : HasOld(sorted[i]) /\ ~HasNew(sorted[i]) /\ sorted[i].uid = y
    BY <1>3, <2>2 DEF XInv, RecordInv
  <2>4. PICK n \in jobs : n.uid = x /\ HasOld(n)
    BY <1>1, <2>1, JobOfKind
  <2>5. Before(n, sorted[i])
    BY <1>1, <1>3, <2>3, <2>4 DEF Before, Edge
  <2> QED BY <1>3, <2>4, <2>5, BeforeIsSettled DEF Effect
<1> QED BY <1>2, <1>3

LEMMA ConflictsInXInv == XInv => NoConflictRegistered
<1> SUFFICES ASSUME XInv, ~lost, NEW x \in DOMAIN inst, NEW y \in DOMAIN inst,
                    <<x, y>> \in req.conflicts, x # y, inst[x] = "old", x \notin Self,
                    inst[y] = "new"
             PROVE  FALSE
  BY DEF NoConflictRegistered, ConflictsApart
<1>1. DOMAIN inst = DOMAIN req.kind /\ JobsInv
  BY DEF XInv, ExecuteTypeOK, IInv
<1>2. PICK i \in 1..current : HasNew(sorted[i]) /\ sorted[i].uid = y
  BY DEF XInv, RecordInv
<1>3. req.kind[x] # "install"
  BY DEF XInv, RecordInv
<1>4. PICK n \in jobs : n.uid = x /\ HasOld(n)
  BY <1>1, <1>3, JobOfKind
<1>5. Before(n, sorted[i])
  BY <1>2, <1>4 DEF Before, Edge
<1> QED BY <1>4, <1>5, BeforeIsSettled DEF Effect

LEMMA CompletedInXInv == XInv => CompletedIsSolved
<1> SUFFICES ASSUME XInv, stage = "completed", ~lost, NEW u \in DOMAIN inst
             PROVE  IF req.kind[u] = "delete" THEN inst[u] = "none" \/ u \in Self
                    ELSE inst[u] = "new"
  BY DEF CompletedIsSolved, Performed
<1>1. DOMAIN inst = DOMAIN req.kind /\ JobsInv /\ inst[u] \in Versions
  BY DEF XInv, ExecuteTypeOK, IInv
<1>2. phase = "done" /\ current = Len(sorted) /\ Len(sorted) \in Nat
  BY DEF XInv, StageInv, IInv, TypeInv, TypeOK
<1>3. \A n \in jobs : Effect(n)
  <2>1. \A i \in 1..Len(sorted) : Settled(i)
    BY <1>2 DEF Settled
  <2> QED BY <1>2, <2>1, Placing DEF XInv, RecordInv
<1>4. CASE req.kind[u] = "delete"
  <2>1. PICK n \in jobs : n.uid = u /\ HasOld(n)
    BY <1>1, <1>4, JobOfKind
  <2>2. inst[u] # "old" \/ u \in Self
    BY <1>3, <2>1 DEF Effect
  <2>3. inst[u] # "new"
    <3>1. \A i \in 1..current : HasNew(sorted[i]) => sorted[i].uid # u
      BY <1>1, <1>4, BegunIsJob, JobOfKind
    <3> QED BY <3>1 DEF XInv, RecordInv
  <2> QED BY <1>1, <1>4, <2>2, <2>3 DEF Versions
<1>5. CASE req.kind[u] # "delete"
  <2>1. PICK n \in jobs : n.uid = u /\ HasNew(n)
    BY <1>1, <1>5, JobOfKind
  <2> QED BY <1>3, <1>5, <2>1 DEF Effect
<1> QED BY <1>4, <1>5

LEMMA OutcomeInXInv == XInv => IsOutcome(req, inst)
<1> SUFFICES ASSUME XInv PROVE IsOutcome(req, inst)
  OBVIOUS
<1>1. DOMAIN inst = DOMAIN req.kind /\ JobsInv /\ inst \in [DOMAIN req.kind -> Versions]
  BY DEF XInv, ExecuteTypeOK, IInv
<1>2. ASSUME NEW u \in DOMAIN req.kind
      PROVE  /\ inst[u] = "old" => req.kind[u] # "install"
             /\ inst[u] = "new" => req.kind[u] # "delete"
  <2>1. inst[u] = "old" => req.kind[u] # "install"
    BY <1>1, <1>2 DEF XInv, RecordInv
  <2>2. ASSUME inst[u] = "new", req.kind[u] = "delete" PROVE FALSE
    <3>1. \A i \in 1..current : HasNew(sorted[i]) => sorted[i].uid # u
      BY <1>1, <2>2, BegunIsJob, JobOfKind
    <3> QED BY <1>1, <2>2, <3>1 DEF XInv, RecordInv
  <2> QED BY <2>1, <2>2
<1> QED BY <1>1, <1>2 DEF IsOutcome

LEMMA SplitInXInv == XInv => SplitOldIsGone
<1> SUFFICES ASSUME XInv, stage \in Busy, Running.type = "upgrade_install", ~lost
             PROVE  inst[Running.uid] = "none" /\ "old" \notin files[Running.uid]
  BY DEF SplitOldIsGone
<1>1. /\ Running \in jobs /\ Running = sorted[current] /\ current \in 1..current
      /\ Running.uid \in DOMAIN inst /\ inst[Running.uid] \in Versions /\ JobsInv
  BY RunningIsJob DEF Running, XInv, ExecuteTypeOK, IInv
<1>2. PICK n \in jobs : n.uid = Running.uid /\ HasOld(n)
  <2>1. req.kind[Running.uid] = "upgrade"
    <3>1. Running = Whole(Running.uid) => Running.type = req.kind[Running.uid]
      BY DEF Whole
    <3>2. IsRequest(req) /\ Running.uid \in DOMAIN req.kind
      BY <1>1, PkgScheduleAssumption DEF JobsInv
    <3>3. req.kind[Running.uid] \in Kinds
      BY <3>2 DEF IsRequest
    <3> QED BY <1>1, <3>1, <3>3 DEF JobsInv, Kinds
  <2> QED BY <1>1, <2>1, JobOfKind
<1>3. n # Running /\ HasNew(Running)
  BY <1>2 DEF HasOld, HasNew
<1>4. Before(n, Running)
  BY <1>1, <1>2, <1>3, JobsOfOnePackage
<1>5. ~HasNew(n) /\ n.type # "delete"
  <2>1. ~HasNew(n)
    BY <1>1, <1>2, <1>3, JobsOfOnePackage
  <2>2. n.type = "upgrade_remove"
    BY <1>2, <1>4, EdgeFacts DEF Before, Edge
  <2> QED BY <2>1, <2>2
<1>6. inst[Running.uid] # "old"
  BY <1>1, <1>2, <1>4, <1>5, BeforeIsSettled DEF Effect
<1>7. inst[Running.uid] # "new"
  BY RunningNotNew
<1> QED BY <1>1, <1>6, <1>7 DEF XInv, FilesInv, Versions

LEMMA NewStaysStep ==
    XInv /\ [ExecuteNext]_allvars =>
        [\A u \in DOMAIN inst : inst[u] = "new" => inst'[u] = "new"]_allvars
<1> SUFFICES ASSUME XInv, ExecuteNext, NEW u \in DOMAIN inst, inst[u] = "new"
             PROVE  inst'[u] = "new"
  OBVIOUS
<1>1. CASE Unregister
  <2>1. u # Running.uid
    BY <1>1, RunningNotNew DEF Unregister, Busy
  <2> QED BY <1>1, <2>1 DEF Unregister
<1>2. CASE Commit
  BY <1>2 DEF Commit
<1>3. CASE UNCHANGED inst
  BY <1>3
<1> QED
  BY <1>1, <1>2, <1>3 DEF ExecuteNext, ExecuteStep, Schedule, Begin, Complete, DeleteFiles,
                          Extract, CleanupOld, Finalize, Crash

----------------------------------------------------------------------------
\* For every set of transactions, the database, the files and the list of jobs
\* keep their types, and pkg_jobs_execute never runs past the end of the list.
THEOREM ExecuteTypes == ExecuteSpec => []ExecuteTypeOK
<1>1. XInv => ExecuteTypeOK
  BY DEF XInv
<1> QED BY <1>1, ExecuteInvariance, PTL

\* For every set of solved transactions, no failure, crash or end of the execution
\* leaves a registered package without one it depends on, unless a commit failed.
THEOREM DependenciesStay == ExecuteSpec => []DependenciesPresent
BY DependenciesInXInv, ExecuteInvariance, PTL

\* For every set of transactions, an installed package and a new one that conflicts
\* with it are never registered together, unless a commit failed.
THEOREM ConflictsStayApart == ExecuteSpec => []NoConflictRegistered
BY ConflictsInXInv, ExecuteInvariance, PTL

\* For every set of transactions, a failure or a crash leaves the files of one
\* package at most at odds with the database: that of the job at hand.
THEOREM DamageStaysLocal == ExecuteSpec => []DamageIsLocal
<1>1. XInv => DamageIsLocal
  BY DEF XInv, FilesInv
<1> QED BY <1>1, ExecuteInvariance, PTL

\* For every set of transactions, an execution that completes has brought about
\* what was solved, however the upgrades were split.
THEOREM CompletionIsSolution == ExecuteSpec => []CompletedIsSolved
BY CompletedInXInv, ExecuteInvariance, PTL

\* At every moment of an execution each package of the transaction is registered
\* in one of the versions its jobs are about, failed commits and crashes included.
THEOREM ExecutionIsOutcome == ExecuteSpec => []IsOutcome(req, inst)
BY OutcomeInXInv, ExecuteInvariance, PTL

\* For every set of transactions, the installing half of a split upgrade finds its
\* old package entirely removed, as pkg_add_common takes for granted.
THEOREM SplitFindsNothingOld == ExecuteSpec => []SplitOldIsGone
BY SplitInXInv, ExecuteInvariance, PTL

\* For every set of transactions, the database names a new version only when all
\* its files are in place, failed commits and crashes included.
THEOREM RegisteredHasFiles == ExecuteSpec => []RegisteredIsOnDisk
<1>1. XInv => RegisteredIsOnDisk
  BY DEF XInv, FilesInv
<1> QED BY <1>1, ExecuteInvariance, PTL

\* For every set of transactions, no later job unregisters a package that an
\* earlier one has registered in its new version.
THEOREM NewVersionsStay == ExecuteSpec => NewStaysNew
BY NewStaysStep, ExecuteInvariance, PTL DEF ExecuteSpec, NewStaysNew
=============================================================================
