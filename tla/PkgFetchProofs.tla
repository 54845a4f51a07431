--------------------------- MODULE PkgFetchProofs ---------------------------
(* Proofs about PkgFetch, for any commands, archives, sizes and jobs, and    *)
(* any overlap of the commands: its type invariant, and that a fetch left    *)
(* alone repairs what the others left in the cache.                          *)
EXTENDS PkgFetch, TLAPS

\* The commands with a transfer ahead of them or in progress.
Busy == {"open", "request", "transfer"}

\* Between two transfers the counters are reset, so that they suit the next
\* archive whatever its size.
Reset(p) ==
    /\ pc[p] \notin Busy => done[p] = 0
    /\ pc[p] = "transfer" => done[p] \in Nat

TypeInv ==
    /\ FetchTypeOK
    /\ \A p \in Proc : Reset(p)

-----------------------------------------------------------------------------
(* Types                                                                     *)

\* What the assumptions say of one command's jobs: pkg_jobs_fetch walks them.
LEMMA JobFacts ==
    ASSUME NEW p \in Proc
    PROVE  /\ Len(Jobs[p]) \in Nat \ {0}
           /\ \A i \in 1..Len(Jobs[p]) : Jobs[p][i] \in Archive /\ Jobs[p][i] \in Wanted(p)
  <1>1. Jobs[p] \in Seq(Archive) /\ Jobs[p] /= << >>
    BY FetchAssumption
  <1>2. Len(Jobs[p]) \in Nat /\ DOMAIN Jobs[p] = 1..Len(Jobs[p])
    BY <1>1
  <1>3. Len(Jobs[p]) /= 0
    BY <1>1
  <1>4. \A i \in 1..Len(Jobs[p]) : Jobs[p][i] \in Archive
    BY <1>1
  <1>5. \A i \in 1..Len(Jobs[p]) : Jobs[p][i] \in Wanted(p)
    BY <1>2 DEF Wanted, Range
  <1> QED
    BY <1>2, <1>3, <1>4, <1>5

\* A file is not the absence of one, and no archive is empty.
LEMMA FileFacts ==
    /\ None \notin File
    /\ \A a \in Archive : Size[a] \in Nat \ {0}
  BY FetchAssumption DEF File

\* The archive being fetched is one of the catalogue.
LEMMA JobTyped ==
    ASSUME FetchTypeOK, NEW p \in Proc
    PROVE  Job(p) \in Archive /\ Job(p) \in Wanted(p)
  <1>1. at[p] \in 1..Len(Jobs[p])
    BY DEF FetchTypeOK
  <1> QED
    BY <1>1, JobFacts DEF Job

\* Before the first step no command has a file or a counter.
LEMMA TypeInit == Init => TypeInv
  <1> SUFFICES ASSUME Init PROVE TypeInv
    OBVIOUS
  <1>1. \A p \in Proc : at[p] = 1 /\ done[p] = 0 /\ ~linked[p] /\ pc[p] = "start"
    BY DEF Init
  <1>2. \A p \in Proc : at[p] \in 1..Len(Jobs[p]) /\ Job(p) \in Archive
    BY <1>1, JobFacts DEF Job
  <1>3. \A p \in Proc : done[p] \in -1..Size[Job(p)]
    BY <1>1, <1>2, FileFacts
  <1> QED
    BY <1>1, <1>2, <1>3 DEF Init, TypeInv, FetchTypeOK, Reset, Busy, Ended

\* A step of one command changes the types of that command's state only; it
\* may take the file from the descriptors of the others.
LEMMA TypeOthers ==
    ASSUME TypeInv, NEW q \in Proc,
           pc'[q] = pc[q], at'[q] = at[q], done'[q] = done[q],
           linked'[q] => linked[q] /\ cache'[Job(q)] /= None
    PROVE  /\ at'[q] \in 1..Len(Jobs[q])
           /\ done'[q] \in -1..Size[Job(q)']
           /\ linked'[q] => pc'[q] \in {"request", "transfer"} /\ cache'[Job(q)'] /= None
           /\ Reset(q)'
  <1>1. Job(q)' = Job(q)
    BY DEF Job
  <1>2. Reset(q)'
    BY DEF TypeInv, Reset
  <1> QED
    BY <1>1, <1>2 DEF TypeInv, FetchTypeOK

\* unlink(dest) leaves typed files, and only takes descriptors away.
LEMMA UnlinkTypes ==
    ASSUME FetchTypeOK, NEW a \in Archive, Unlink(a)
    PROVE  /\ cache' \in [Archive -> File \cup {None}]
           /\ linked' \in [Proc -> BOOLEAN]
           /\ cache'[a] = None
           /\ \A q \in Proc : linked'[q] => linked[q] /\ Job(q) /= a
           /\ \A b \in Archive \ {a} : cache'[b] = cache[b]
  BY DEF FetchTypeOK, Unlink

\* The history stays a record of Booleans.
LEMMA RecordedTypes ==
    ASSUME NEW p \in Proc, NEW served \in BOOLEAN, Recorded(p, served)
    PROVE  undisturbed' \in [Proc -> BOOLEAN]
  BY DEF Recorded

\* The summary and its question change no file.
LEMMA SummaryTypes ==
    ASSUME TypeInv, NEW p \in Proc, Summary(p)
    PROVE  TypeInv'
  <1> USE FileFacts
  <1>1. FetchTypeOK /\ Reset(p) /\ at[p] \in 1..Len(Jobs[p])
    BY DEF TypeInv, FetchTypeOK
  <1>2. Job(p) \in Archive
    BY <1>1, JobTyped
  <1>3. undisturbed' \in [Proc -> BOOLEAN]
    BY RecordedTypes DEF Summary
  <1>a. NothingToDownload(p) \in BOOLEAN
    BY DEF NothingToDownload
  <1>4. /\ cache' \in [Archive -> File \cup {None}]
        /\ pc' \in [Proc -> {"start", "plan", "stat", "open", "request", "transfer",
                            "size", "checksum", "cleanup"} \cup Ended]
        /\ at' \in [Proc -> Nat]
        /\ tried' \in [Proc -> BOOLEAN]
        /\ fetched' \in [Proc -> BOOLEAN]
        /\ done' \in [Proc -> Int]
        /\ src' \in [Proc -> Nat]
        /\ linked' \in [Proc -> BOOLEAN]
        /\ csumOnly' \in [Proc -> BOOLEAN]
    BY <1>1, <1>2, <1>a DEF FetchTypeOK, Ended, Goto, control, stream, File, Reset, Busy, Summary
  <1>5. /\ at'[p] \in 1..Len(Jobs[p])
        /\ done'[p] \in -1..Size[Job(p)']
        /\ linked'[p] => pc'[p] \in {"request", "transfer"} /\ cache'[Job(p)'] /= None
        /\ Reset(p)'
    BY <1>1, <1>2, JobFacts DEF FetchTypeOK, Job, Goto, control, stream, File, Reset, Busy, SizeOf, Ended, Summary
  <1>6. ASSUME NEW q \in Proc, q /= p
        PROVE  /\ pc'[q] = pc[q] /\ at'[q] = at[q] /\ done'[q] = done[q]
               /\ linked'[q] => linked[q] /\ cache'[Job(q)] /= None
    BY <1>1, <1>2, <1>6, JobTyped DEF FetchTypeOK, Goto, control, stream, File, Summary
  <1> QED
    BY <1>3, <1>4, <1>5, <1>6, TypeOthers DEF TypeInv, FetchTypeOK


\* The plan only looks.
LEMMA PlanTypes ==
    ASSUME TypeInv, NEW p \in Proc, Plan(p)
    PROVE  TypeInv'
  <1> USE FileFacts
  <1>1. FetchTypeOK /\ Reset(p) /\ at[p] \in 1..Len(Jobs[p])
    BY DEF TypeInv, FetchTypeOK
  <1>2. Job(p) \in Archive
    BY <1>1, JobTyped
  <1>3. undisturbed' \in [Proc -> BOOLEAN]
    BY RecordedTypes DEF Plan
  <1>4. /\ cache' \in [Archive -> File \cup {None}]
        /\ pc' \in [Proc -> {"start", "plan", "stat", "open", "request", "transfer",
                            "size", "checksum", "cleanup"} \cup Ended]
        /\ at' \in [Proc -> Nat]
        /\ tried' \in [Proc -> BOOLEAN]
        /\ fetched' \in [Proc -> BOOLEAN]
        /\ done' \in [Proc -> Int]
        /\ src' \in [Proc -> Nat]
        /\ linked' \in [Proc -> BOOLEAN]
        /\ csumOnly' \in [Proc -> BOOLEAN]
    BY <1>1, <1>2 DEF FetchTypeOK, Ended, Goto, control, stream, File, Reset, Busy, Plan
  <1>5. /\ at'[p] \in 1..Len(Jobs[p])
        /\ done'[p] \in -1..Size[Job(p)']
        /\ linked'[p] => pc'[p] \in {"request", "transfer"} /\ cache'[Job(p)'] /= None
        /\ Reset(p)'
    BY <1>1, <1>2, JobFacts DEF FetchTypeOK, Job, Goto, control, stream, File, Reset, Busy, SizeOf, Ended, Plan
  <1>6. ASSUME NEW q \in Proc, q /= p
        PROVE  /\ pc'[q] = pc[q] /\ at'[q] = at[q] /\ done'[q] = done[q]
               /\ linked'[q] => linked[q] /\ cache'[Job(q)] /= None
    BY <1>1, <1>2, <1>6, JobTyped DEF FetchTypeOK, Goto, control, stream, File, Plan
  <1> QED
    BY <1>3, <1>4, <1>5, <1>6, TypeOthers DEF TypeInv, FetchTypeOK


\* What a look at the file may change.
LEMMA StatKeeps ==
    ASSUME TypeInv, NEW p \in Proc, pc[p] = "stat", ~linked[p],
           UNCHANGED <<cache, at, tried, fetched, csumOnly, src, linked>>,
           undisturbed' \in [Proc -> BOOLEAN],
           \/ pc' = [pc EXCEPT ![p] = "size"] /\ done' = done
           \/ /\ pc' = [pc EXCEPT ![p] = "open"]
              /\ \E n \in -1..Size[Job(p)] : done' = [done EXCEPT ![p] = n]
    PROVE  TypeInv'
  <1>1. FetchTypeOK /\ Reset(p) /\ Job(p) \in Archive
    BY JobTyped DEF TypeInv
  <1>2. Size[Job(p)] \in Nat
    BY <1>1, FileFacts
  <1>3. \A q \in Proc : Job(q)' = Job(q)
    BY DEF Job
  <1>4. pc' \in [Proc -> {"start", "plan", "stat", "open", "request", "transfer",
                         "size", "checksum", "cleanup"} \cup Ended]
    BY <1>1 DEF FetchTypeOK
  <1>5. done' \in [Proc -> Int]
    BY <1>1, <1>2 DEF FetchTypeOK
  <1>6. /\ done'[p] \in -1..Size[Job(p)]
        /\ Reset(p)'
    BY <1>1, <1>2 DEF FetchTypeOK, Reset, Busy
  <1>7. ASSUME NEW q \in Proc, q /= p
        PROVE  pc'[q] = pc[q] /\ done'[q] = done[q]
    BY <1>1, <1>7 DEF FetchTypeOK
  <1>8. \A q \in Proc : linked'[q] => linked[q] /\ cache'[Job(q)] /= None
    BY <1>1 DEF FetchTypeOK
  <1>9. ~linked'[p] /\ at'[p] \in 1..Len(Jobs[p])
    BY <1>1 DEF FetchTypeOK
  <1> QED
    BY <1>1, <1>3, <1>4, <1>5, <1>6, <1>7, <1>8, <1>9, TypeOthers DEF TypeInv, FetchTypeOK

\* The offset of a file to be resumed is below the size of the archive.
LEMMA StatTypes ==
    ASSUME TypeInv, NEW p \in Proc, Stat(p)
    PROVE  TypeInv'
  <1> USE FileFacts
  <1>1. FetchTypeOK /\ Reset(p) /\ at[p] \in 1..Len(Jobs[p])
    BY DEF TypeInv, FetchTypeOK
  <1>2. Job(p) \in Archive
    BY <1>1, JobTyped
  <1>3. undisturbed' \in [Proc -> BOOLEAN]
    BY RecordedTypes DEF Stat
  <1>a. /\ pc' = [pc EXCEPT ![p] = "size"] \/ pc' = [pc EXCEPT ![p] = "open"]
        /\ UNCHANGED <<cache, at, tried, fetched, csumOnly, src, linked>>
        /\ pc[p] = "stat" /\ ~linked[p]
    BY <1>1 DEF FetchTypeOK, Goto, control, stream, Stat
  <1>b. CASE cache[Job(p)] /= None /\ cache[Job(p)].size >= Size[Job(p)]
    <2>1. done' = done /\ done[p] = 0 /\ pc' = [pc EXCEPT ![p] = "size"]
      BY <1>1, <1>b DEF Reset, Busy, Goto, stream, Stat
    <2> QED
      BY <1>1, <1>2, <1>3, <1>a, <2>1, StatKeeps
  <1>c. CASE ~(cache[Job(p)] /= None /\ cache[Job(p)].size >= Size[Job(p)])
    <2>1. PICK n \in -1..Size[Job(p)] : done' = [done EXCEPT ![p] = n]
      <3>1. cache[Job(p)] /= None => cache[Job(p)].size \in Nat
        BY <1>1, <1>2 DEF FetchTypeOK, File
      <3>2. done' = [done EXCEPT ![p] = IF cache[Job(p)] = None THEN -1 ELSE cache[Job(p)].size]
        BY <1>c DEF Stat, SizeOf
      <3>3. Size[Job(p)] \in Nat
        BY <1>2
      <3>4. CASE cache[Job(p)] = None
        <4>1. done' = [done EXCEPT ![p] = -1]
          BY <3>2, <3>4
        <4>2. -1 \in -1..Size[Job(p)]
          BY <3>3
        <4> QED
          BY <4>1, <4>2
      <3>5. CASE cache[Job(p)] /= None
        <4>1. cache[Job(p)].size \in -1..Size[Job(p)]
          BY <1>c, <3>1, <3>3, <3>5
        <4> QED
          BY <3>2, <3>5, <4>1
      <3> QED
        BY <3>4, <3>5
    <2>2. pc' = [pc EXCEPT ![p] = "open"]
      BY <1>c DEF Goto, Stat
    <2> QED
      BY <1>1, <1>2, <1>3, <1>a, <2>1, <2>2, StatKeeps
  <1> QED
    BY <1>b, <1>c


\* A new file is empty; an old one stays as it is.
LEMMA OpenTypes ==
    ASSUME TypeInv, NEW p \in Proc, Open(p)
    PROVE  TypeInv'
  <1> USE FileFacts
  <1>1. FetchTypeOK /\ Reset(p) /\ at[p] \in 1..Len(Jobs[p])
    BY DEF TypeInv, FetchTypeOK
  <1>2. Job(p) \in Archive
    BY <1>1, JobTyped
  <1>3. undisturbed' \in [Proc -> BOOLEAN]
    BY RecordedTypes DEF Open
  <1>4. /\ cache' \in [Archive -> File \cup {None}]
        /\ pc' \in [Proc -> {"start", "plan", "stat", "open", "request", "transfer",
                            "size", "checksum", "cleanup"} \cup Ended]
        /\ at' \in [Proc -> Nat]
        /\ tried' \in [Proc -> BOOLEAN]
        /\ fetched' \in [Proc -> BOOLEAN]
        /\ done' \in [Proc -> Int]
        /\ src' \in [Proc -> Nat]
        /\ linked' \in [Proc -> BOOLEAN]
        /\ csumOnly' \in [Proc -> BOOLEAN]
    BY <1>1, <1>2 DEF FetchTypeOK, Ended, Goto, control, stream, File, Reset, Busy, Open
  <1>a. Job(p)' = Job(p) /\ at'[p] = at[p] /\ done'[p] = done[p] /\ pc'[p] = "request"
    BY <1>1 DEF FetchTypeOK, Job, Goto, control, Open
  <1>b. cache'[Job(p)] /= None
    <2>1. [size |-> 0, ok |-> TRUE] \in File
      BY DEF File
    <2>2. [size |-> 0, ok |-> TRUE] /= None
      BY <2>1
    <2>3. CASE cache[Job(p)] = None
      BY <1>1, <1>2, <2>2, <2>3 DEF FetchTypeOK, Open
    <2>4. CASE cache[Job(p)] /= None
      BY <2>4 DEF Open
    <2> QED
      BY <2>3, <2>4
  <1>5. /\ at'[p] \in 1..Len(Jobs[p])
        /\ done'[p] \in -1..Size[Job(p)']
        /\ linked'[p] => pc'[p] \in {"request", "transfer"} /\ cache'[Job(p)'] /= None
        /\ Reset(p)'
    BY <1>1, <1>a, <1>b DEF FetchTypeOK, Reset, Busy
  <1>6. ASSUME NEW q \in Proc, q /= p
        PROVE  /\ pc'[q] = pc[q] /\ at'[q] = at[q] /\ done'[q] = done[q]
               /\ linked'[q] => linked[q] /\ cache'[Job(q)] /= None
    BY <1>1, <1>2, <1>6, JobTyped DEF FetchTypeOK, Goto, control, stream, File, Open
  <1> QED
    BY <1>3, <1>4, <1>5, <1>6, TypeOthers DEF TypeInv, FetchTypeOK


\* The counters of a transfer begin at the offset, or at the beginning.
LEMMA RequestTypes ==
    ASSUME TypeInv, NEW p \in Proc, Request(p)
    PROVE  TypeInv'
  <1> USE FileFacts
  <1>1. FetchTypeOK /\ Reset(p) /\ at[p] \in 1..Len(Jobs[p])
    BY DEF TypeInv, FetchTypeOK
  <1>2. Job(p) \in Archive
    BY <1>1, JobTyped
  <1>3. undisturbed' \in [Proc -> BOOLEAN]
    BY RecordedTypes DEF Request
  <1>4. /\ cache' \in [Archive -> File \cup {None}]
        /\ pc' \in [Proc -> {"start", "plan", "stat", "open", "request", "transfer",
                            "size", "checksum", "cleanup"} \cup Ended]
        /\ at' \in [Proc -> Nat]
        /\ tried' \in [Proc -> BOOLEAN]
        /\ fetched' \in [Proc -> BOOLEAN]
        /\ done' \in [Proc -> Int]
        /\ src' \in [Proc -> Nat]
        /\ linked' \in [Proc -> BOOLEAN]
        /\ csumOnly' \in [Proc -> BOOLEAN]
    BY <1>1, <1>2 DEF FetchTypeOK, Ended, Goto, control, stream, File, Reset, Busy, Request
  <1>5. /\ at'[p] \in 1..Len(Jobs[p])
        /\ done'[p] \in -1..Size[Job(p)']
        /\ linked'[p] => pc'[p] \in {"request", "transfer"} /\ cache'[Job(p)'] /= None
        /\ Reset(p)'
    BY <1>1, <1>2, JobFacts DEF FetchTypeOK, Job, Goto, control, stream, File, Reset, Busy, SizeOf, Ended, Request
  <1>6. ASSUME NEW q \in Proc, q /= p
        PROVE  /\ pc'[q] = pc[q] /\ at'[q] = at[q] /\ done'[q] = done[q]
               /\ linked'[q] => linked[q] /\ cache'[Job(q)] /= None
    BY <1>1, <1>2, <1>6, JobTyped DEF FetchTypeOK, Goto, control, stream, File, Request
  <1> QED
    BY <1>3, <1>4, <1>5, <1>6, TypeOthers DEF TypeInv, FetchTypeOK


\* A piece is only written while some are left: stdio_fetch.
LEMMA TransferTypes ==
    ASSUME TypeInv, NEW p \in Proc, Transfer(p)
    PROVE  TypeInv'
  <1> USE FileFacts
  <1>1. FetchTypeOK /\ Reset(p) /\ at[p] \in 1..Len(Jobs[p])
    BY DEF TypeInv, FetchTypeOK
  <1>2. Job(p) \in Archive
    BY <1>1, JobTyped
  <1>3. undisturbed' \in [Proc -> BOOLEAN]
    BY RecordedTypes DEF Transfer
  <1>a. Job(p)' = Job(p) /\ at'[p] = at[p] /\ pc'[p] = "transfer" /\ linked' = linked
    BY <1>1 DEF FetchTypeOK, Job, control, Transfer
  <1>b. done[p] \in Nat /\ done[p] < Size[Job(p)] /\ done'[p] = done[p] + 1
    BY <1>1, <1>2 DEF FetchTypeOK, Reset, Left, Transfer
  <1>c. linked[p] => cache[Job(p)] \in File
    BY <1>1, <1>2 DEF FetchTypeOK
  <1>d. /\ cache' \in [Archive -> File \cup {None}]
        /\ \A a \in Archive : cache[a] /= None => cache'[a] /= None
    <2>1. PICK right \in BOOLEAN :
            cache' = IF linked[p]
                     THEN [cache EXCEPT ![Job(p)] =
                             [size |-> @.size + 1, ok |-> @.ok /\ right /\ @.size = src[p]]]
                     ELSE cache
      BY DEF Transfer
    <2>2. CASE linked[p]
      <3> DEFINE f == [size |-> cache[Job(p)].size + 1,
                       ok |-> cache[Job(p)].ok /\ right /\ cache[Job(p)].size = src[p]]
      <3>1. f \in File
        BY <1>c, <2>2 DEF File
      <3>2. cache' = [cache EXCEPT ![Job(p)] = f]
        BY <2>1, <2>2
      <3> QED
        BY <1>1, <1>2, <3>1, <3>2 DEF FetchTypeOK
    <2>3. CASE ~linked[p]
      BY <1>1, <2>1, <2>3 DEF FetchTypeOK
    <2> QED
      BY <2>2, <2>3
  <1>4. /\ cache' \in [Archive -> File \cup {None}]
        /\ pc' \in [Proc -> {"start", "plan", "stat", "open", "request", "transfer",
                            "size", "checksum", "cleanup"} \cup Ended]
        /\ at' \in [Proc -> Nat]
        /\ tried' \in [Proc -> BOOLEAN]
        /\ fetched' \in [Proc -> BOOLEAN]
        /\ done' \in [Proc -> Int]
        /\ src' \in [Proc -> Nat]
        /\ linked' \in [Proc -> BOOLEAN]
        /\ csumOnly' \in [Proc -> BOOLEAN]
    BY <1>1, <1>2, <1>d DEF FetchTypeOK, Ended, Goto, control, stream, File, Reset, Busy, Transfer, Left
  <1>5. /\ at'[p] \in 1..Len(Jobs[p])
        /\ done'[p] \in -1..Size[Job(p)']
        /\ linked'[p] => pc'[p] \in {"request", "transfer"} /\ cache'[Job(p)'] /= None
        /\ Reset(p)'
    BY <1>1, <1>2, <1>a, <1>b, <1>d DEF FetchTypeOK, Reset, Busy
  <1>6. ASSUME NEW q \in Proc, q /= p
        PROVE  /\ pc'[q] = pc[q] /\ at'[q] = at[q] /\ done'[q] = done[q]
               /\ linked'[q] => linked[q] /\ cache'[Job(q)] /= None
    <2>1. Job(q) \in Archive
      BY <1>1, JobTyped
    <2> QED
      BY <1>1, <1>a, <1>d, <1>6, <2>1 DEF FetchTypeOK, control, Transfer
  <1> QED
    BY <1>3, <1>4, <1>5, <1>6, TypeOthers DEF TypeInv, FetchTypeOK


\* The descriptor is closed at the end of the transfer.
LEMMA TransferEndTypes ==
    ASSUME TypeInv, NEW p \in Proc, TransferEnd(p)
    PROVE  TypeInv'
  <1> USE FileFacts
  <1>1. FetchTypeOK /\ Reset(p) /\ at[p] \in 1..Len(Jobs[p])
    BY DEF TypeInv, FetchTypeOK
  <1>2. Job(p) \in Archive
    BY <1>1, JobTyped
  <1>3. undisturbed' \in [Proc -> BOOLEAN]
    BY RecordedTypes DEF TransferEnd
  <1>4. /\ cache' \in [Archive -> File \cup {None}]
        /\ pc' \in [Proc -> {"start", "plan", "stat", "open", "request", "transfer",
                            "size", "checksum", "cleanup"} \cup Ended]
        /\ at' \in [Proc -> Nat]
        /\ tried' \in [Proc -> BOOLEAN]
        /\ fetched' \in [Proc -> BOOLEAN]
        /\ done' \in [Proc -> Int]
        /\ src' \in [Proc -> Nat]
        /\ linked' \in [Proc -> BOOLEAN]
        /\ csumOnly' \in [Proc -> BOOLEAN]
    BY <1>1, <1>2 DEF FetchTypeOK, Ended, Goto, control, stream, File, Reset, Busy, TransferEnd, Over
  <1>5. /\ at'[p] \in 1..Len(Jobs[p])
        /\ done'[p] \in -1..Size[Job(p)']
        /\ linked'[p] => pc'[p] \in {"request", "transfer"} /\ cache'[Job(p)'] /= None
        /\ Reset(p)'
    BY <1>1, <1>2, JobFacts DEF FetchTypeOK, Job, Goto, control, stream, File, Reset, Busy, SizeOf, Ended, TransferEnd, Over
  <1>6. ASSUME NEW q \in Proc, q /= p
        PROVE  /\ pc'[q] = pc[q] /\ at'[q] = at[q] /\ done'[q] = done[q]
               /\ linked'[q] => linked[q] /\ cache'[Job(q)] /= None
    BY <1>1, <1>2, <1>6, JobTyped DEF FetchTypeOK, Goto, control, stream, File, TransferEnd, Over
  <1> QED
    BY <1>3, <1>4, <1>5, <1>6, TypeOthers DEF TypeInv, FetchTypeOK


\* A failed transfer takes its file along.
LEMMA TransferFailsTypes ==
    ASSUME TypeInv, NEW p \in Proc, TransferFails(p)
    PROVE  TypeInv'
  <1> USE FileFacts
  <1>1. FetchTypeOK /\ Reset(p) /\ at[p] \in 1..Len(Jobs[p])
    BY DEF TypeInv, FetchTypeOK
  <1>2. Job(p) \in Archive
    BY <1>1, JobTyped
  <1>3. undisturbed' \in [Proc -> BOOLEAN]
    BY RecordedTypes DEF TransferFails
  <1>4. /\ cache' \in [Archive -> File \cup {None}]
        /\ pc' \in [Proc -> {"start", "plan", "stat", "open", "request", "transfer",
                            "size", "checksum", "cleanup"} \cup Ended]
        /\ at' \in [Proc -> Nat]
        /\ tried' \in [Proc -> BOOLEAN]
        /\ fetched' \in [Proc -> BOOLEAN]
        /\ done' \in [Proc -> Int]
        /\ src' \in [Proc -> Nat]
        /\ linked' \in [Proc -> BOOLEAN]
        /\ csumOnly' \in [Proc -> BOOLEAN]
    BY <1>1, <1>2 DEF FetchTypeOK, Ended, Goto, control, stream, File, Reset, Busy, TransferFails, Over, Unlink
  <1>a. Job(p)' = Job(p) /\ at'[p] = at[p] /\ pc'[p] = "cleanup" /\ done'[p] = 0 /\ ~linked'[p]
    BY <1>1 DEF FetchTypeOK, Job, Goto, control, TransferFails, Over, Unlink
  <1>5. /\ at'[p] \in 1..Len(Jobs[p])
        /\ done'[p] \in -1..Size[Job(p)']
        /\ linked'[p] => pc'[p] \in {"request", "transfer"} /\ cache'[Job(p)'] /= None
        /\ Reset(p)'
    BY <1>1, <1>2, <1>a DEF Reset, Busy
  <1>6. ASSUME NEW q \in Proc, q /= p
        PROVE  /\ pc'[q] = pc[q] /\ at'[q] = at[q] /\ done'[q] = done[q]
               /\ linked'[q] => linked[q] /\ cache'[Job(q)] /= None
    BY <1>1, <1>2, <1>6, JobTyped DEF FetchTypeOK, Goto, control, stream, File, TransferFails, Over, Unlink
  <1> QED
    BY <1>3, <1>4, <1>5, <1>6, TypeOthers DEF TypeInv, FetchTypeOK




\* A retry begins with reset counters.
LEMMA RetryTypes ==
    ASSUME TypeInv, NEW p \in Proc, pc[p] \notin Busy, undisturbed' \in [Proc -> BOOLEAN],
           Retry(p)
    PROVE  TypeInv'
  <1> USE FileFacts
  <1>1. FetchTypeOK /\ Reset(p) /\ at[p] \in 1..Len(Jobs[p])
    BY DEF TypeInv, FetchTypeOK
  <1>2. Job(p) \in Archive
    BY <1>1, JobTyped
  <1>3. /\ cache' \in [Archive -> File \cup {None}]
        /\ linked' \in [Proc -> BOOLEAN]
        /\ \A q \in Proc : linked'[q] => linked[q] /\ Job(q) /= Job(p)
        /\ \A b \in Archive \ {Job(p)} : cache'[b] = cache[b]
    BY <1>1, <1>2, UnlinkTypes DEF Retry
  <1>4. /\ cache' \in [Archive -> File \cup {None}]
        /\ pc' \in [Proc -> {"start", "plan", "stat", "open", "request", "transfer",
                            "size", "checksum", "cleanup"} \cup Ended]
        /\ at' \in [Proc -> Nat]
        /\ tried' \in [Proc -> BOOLEAN]
        /\ fetched' \in [Proc -> BOOLEAN]
        /\ done' \in [Proc -> Int]
        /\ src' \in [Proc -> Nat]
        /\ linked' \in [Proc -> BOOLEAN]
        /\ csumOnly' \in [Proc -> BOOLEAN]
    BY <1>1, <1>2, <1>3 DEF FetchTypeOK, Ended, Goto, control, stream, Retry
  <1>a. at'[p] \in 1..Len(Jobs[p]) /\ done'[p] = 0 /\ ~linked'[p] /\ pc'[p] \notin Busy
    BY <1>1, JobFacts, <1>3 DEF FetchTypeOK, Reset, Busy, Ended, Goto, control, stream, Retry
  <1>5. /\ at'[p] \in 1..Len(Jobs[p])
        /\ done'[p] \in -1..Size[Job(p)']
        /\ linked'[p] => pc'[p] \in {"request", "transfer"} /\ cache'[Job(p)'] /= None
        /\ Reset(p)'
    <2>1. Job(p)' \in Archive
      BY <1>a, JobFacts DEF Job
    <2> QED
      BY <1>a, <2>1 DEF Reset
  <1>6. ASSUME NEW q \in Proc, q /= p
        PROVE  /\ pc'[q] = pc[q] /\ at'[q] = at[q] /\ done'[q] = done[q]
               /\ linked'[q] => linked[q] /\ cache'[Job(q)] /= None
    <2>1. Job(q) \in Archive
      BY <1>1, JobTyped
    <2>2. linked[q] => cache[Job(q)] /= None
      BY <1>1 DEF FetchTypeOK
    <2> QED
      BY <1>1, <1>3, <1>6, <2>1, <2>2 DEF FetchTypeOK, Goto, Retry
  <1> QED
    BY <1>4, <1>5, <1>6, TypeOthers DEF TypeInv, FetchTypeOK

\* So does the next job.
LEMMA NextJobTypes ==
    ASSUME TypeInv, NEW p \in Proc, pc[p] \notin Busy, undisturbed' \in [Proc -> BOOLEAN],
           NextJob(p)
    PROVE  TypeInv'
  <1> USE FileFacts
  <1>1. FetchTypeOK /\ Reset(p) /\ at[p] \in 1..Len(Jobs[p])
    BY DEF TypeInv, FetchTypeOK
  <1>2. Job(p) \in Archive
    BY <1>1, JobTyped
  <1>4. /\ cache' \in [Archive -> File \cup {None}]
        /\ pc' \in [Proc -> {"start", "plan", "stat", "open", "request", "transfer",
                            "size", "checksum", "cleanup"} \cup Ended]
        /\ at' \in [Proc -> Nat]
        /\ tried' \in [Proc -> BOOLEAN]
        /\ fetched' \in [Proc -> BOOLEAN]
        /\ done' \in [Proc -> Int]
        /\ src' \in [Proc -> Nat]
        /\ linked' \in [Proc -> BOOLEAN]
        /\ csumOnly' \in [Proc -> BOOLEAN]
    <2>1. UNCHANGED <<cache, csumOnly, done, src, linked>>
      BY DEF NextJob, stream
    <2>2. tried' \in [Proc -> BOOLEAN] /\ fetched' \in [Proc -> BOOLEAN]
      BY <1>1 DEF FetchTypeOK, NextJob
    <2>3. CASE at[p] = Len(Jobs[p])
      <3>1. pc' = [pc EXCEPT ![p] = "ok"] /\ at' = at
        BY <2>3 DEF Goto, NextJob
      <3> QED
        BY <1>1, <2>1, <2>2, <3>1 DEF FetchTypeOK, Ended
    <2>4. CASE at[p] /= Len(Jobs[p])
      <3>1. pc' = [pc EXCEPT ![p] = "stat"] /\ at' = [at EXCEPT ![p] = @ + 1]
        BY <2>4 DEF Goto, NextJob
      <3> QED
        BY <1>1, <2>1, <2>2, <3>1 DEF FetchTypeOK
    <2> QED
      BY <2>3, <2>4
  <1>a. at'[p] \in 1..Len(Jobs[p]) /\ done'[p] = 0 /\ ~linked'[p] /\ pc'[p] \notin Busy
    BY <1>1, JobFacts DEF FetchTypeOK, Reset, Busy, Ended, Goto, control, stream, NextJob
  <1>5. /\ at'[p] \in 1..Len(Jobs[p])
        /\ done'[p] \in -1..Size[Job(p)']
        /\ linked'[p] => pc'[p] \in {"request", "transfer"} /\ cache'[Job(p)'] /= None
        /\ Reset(p)'
    <2>1. Job(p)' \in Archive
      BY <1>a, JobFacts DEF Job
    <2> QED
      BY <1>a, <2>1 DEF Reset
  <1>6. ASSUME NEW q \in Proc, q /= p
        PROVE  /\ pc'[q] = pc[q] /\ at'[q] = at[q] /\ done'[q] = done[q]
               /\ linked'[q] => linked[q] /\ cache'[Job(q)] /= None
    BY <1>1, <1>2, <1>6, JobTyped DEF FetchTypeOK, Goto, control, stream, NextJob
  <1> QED
    BY <1>4, <1>5, <1>6, TypeOthers DEF TypeInv, FetchTypeOK

\* A check that only decides where to go.
LEMMA DecisionTypes ==
    ASSUME TypeInv, NEW p \in Proc, pc[p] \notin Busy, undisturbed' \in [Proc -> BOOLEAN],
           NEW label \in {"checksum", "cleanup", "failed"}, Goto(p, label),
           UNCHANGED <<cache, control, stream>>
    PROVE  TypeInv'
  <1> USE FileFacts
  <1>1. FetchTypeOK /\ Reset(p) /\ at[p] \in 1..Len(Jobs[p])
    BY DEF TypeInv, FetchTypeOK
  <1>2. Job(p) \in Archive
    BY <1>1, JobTyped
  <1>4. /\ cache' \in [Archive -> File \cup {None}]
        /\ pc' \in [Proc -> {"start", "plan", "stat", "open", "request", "transfer",
                            "size", "checksum", "cleanup"} \cup Ended]
        /\ at' \in [Proc -> Nat]
        /\ tried' \in [Proc -> BOOLEAN]
        /\ fetched' \in [Proc -> BOOLEAN]
        /\ done' \in [Proc -> Int]
        /\ src' \in [Proc -> Nat]
        /\ linked' \in [Proc -> BOOLEAN]
        /\ csumOnly' \in [Proc -> BOOLEAN]
    BY <1>1, <1>2 DEF FetchTypeOK, Ended, Goto, control, stream
  <1>a. at'[p] \in 1..Len(Jobs[p]) /\ done'[p] = 0 /\ ~linked'[p] /\ pc'[p] \notin Busy
    BY <1>1, JobFacts DEF FetchTypeOK, Reset, Busy, Ended, Goto, control, stream
  <1>5. /\ at'[p] \in 1..Len(Jobs[p])
        /\ done'[p] \in -1..Size[Job(p)']
        /\ linked'[p] => pc'[p] \in {"request", "transfer"} /\ cache'[Job(p)'] /= None
        /\ Reset(p)'
    <2>1. Job(p)' \in Archive
      BY <1>a, JobFacts DEF Job
    <2> QED
      BY <1>a, <2>1 DEF Reset
  <1>6. ASSUME NEW q \in Proc, q /= p
        PROVE  /\ pc'[q] = pc[q] /\ at'[q] = at[q] /\ done'[q] = done[q]
               /\ linked'[q] => linked[q] /\ cache'[Job(q)] /= None
    BY <1>1, <1>2, <1>6, JobTyped DEF FetchTypeOK, Goto, control, stream
  <1> QED
    BY <1>4, <1>5, <1>6, TypeOthers DEF TypeInv, FetchTypeOK

\* The size check resumes, retries or gives up.
LEMMA CheckSizeTypes ==
    ASSUME TypeInv, NEW p \in Proc, CheckSize(p)
    PROVE  TypeInv'
  <1>1. undisturbed' \in [Proc -> BOOLEAN] /\ pc[p] \notin Busy
    BY RecordedTypes DEF CheckSize, Busy
  <1>2. CASE Goto(p, "checksum") /\ UNCHANGED <<cache, control, stream>>
    BY <1>1, <1>2, DecisionTypes
  <1>3. CASE Goto(p, "cleanup") /\ UNCHANGED <<cache, control, stream>>
    BY <1>1, <1>3, DecisionTypes
  <1>4. CASE Retry(p)
    BY <1>1, <1>4, RetryTypes
  <1> QED
    BY <1>2, <1>3, <1>4 DEF CheckSize

\* The checksum goes on to the next job, retries or gives up.
LEMMA CheckSumTypes ==
    ASSUME TypeInv, NEW p \in Proc, CheckSum(p)
    PROVE  TypeInv'
  <1>1. undisturbed' \in [Proc -> BOOLEAN] /\ pc[p] \notin Busy
    BY RecordedTypes DEF CheckSum, Busy
  <1>2. CASE Goto(p, "failed") /\ UNCHANGED <<cache, control, stream>>
    BY <1>1, <1>2, DecisionTypes
  <1>3. CASE Goto(p, "cleanup") /\ UNCHANGED <<cache, control, stream>>
    BY <1>1, <1>3, DecisionTypes
  <1>4. CASE NextJob(p)
    BY <1>1, <1>4, NextJobTypes
  <1>5. CASE Retry(p)
    BY <1>1, <1>5, RetryTypes
  <1> QED
    BY <1>2, <1>3, <1>4, <1>5 DEF CheckSum

\* The last unlink.
LEMMA CleanupTypes ==
    ASSUME TypeInv, NEW p \in Proc, Cleanup(p)
    PROVE  TypeInv'
  <1> USE FileFacts
  <1>1. FetchTypeOK /\ Reset(p) /\ at[p] \in 1..Len(Jobs[p])
    BY DEF TypeInv, FetchTypeOK
  <1>2. Job(p) \in Archive
    BY <1>1, JobTyped
  <1>3. undisturbed' \in [Proc -> BOOLEAN]
    BY RecordedTypes DEF Cleanup
  <1>4. /\ cache' \in [Archive -> File \cup {None}]
        /\ pc' \in [Proc -> {"start", "plan", "stat", "open", "request", "transfer",
                            "size", "checksum", "cleanup"} \cup Ended]
        /\ at' \in [Proc -> Nat]
        /\ tried' \in [Proc -> BOOLEAN]
        /\ fetched' \in [Proc -> BOOLEAN]
        /\ done' \in [Proc -> Int]
        /\ src' \in [Proc -> Nat]
        /\ linked' \in [Proc -> BOOLEAN]
        /\ csumOnly' \in [Proc -> BOOLEAN]
    BY <1>1, <1>2 DEF FetchTypeOK, Ended, Goto, control, stream, File, Reset, Busy, Cleanup, Unlink
  <1>5. /\ at'[p] \in 1..Len(Jobs[p])
        /\ done'[p] \in -1..Size[Job(p)']
        /\ linked'[p] => pc'[p] \in {"request", "transfer"} /\ cache'[Job(p)'] /= None
        /\ Reset(p)'
    BY <1>1, <1>2, JobFacts DEF FetchTypeOK, Job, Goto, control, stream, File, Reset, Busy, SizeOf, Ended, Cleanup, Unlink
  <1>6. ASSUME NEW q \in Proc, q /= p
        PROVE  /\ pc'[q] = pc[q] /\ at'[q] = at[q] /\ done'[q] = done[q]
               /\ linked'[q] => linked[q] /\ cache'[Job(q)] /= None
    BY <1>1, <1>2, <1>6, JobTyped DEF FetchTypeOK, Goto, control, stream, File, Cleanup, Unlink
  <1> QED
    BY <1>3, <1>4, <1>5, <1>6, TypeOthers DEF TypeInv, FetchTypeOK


\* A killed command has no descriptor.
LEMMA KillTypes ==
    ASSUME TypeInv, NEW p \in Proc, Kill(p)
    PROVE  TypeInv'
  <1> USE FileFacts
  <1>1. FetchTypeOK /\ Reset(p) /\ at[p] \in 1..Len(Jobs[p])
    BY DEF TypeInv, FetchTypeOK
  <1>2. Job(p) \in Archive
    BY <1>1, JobTyped
  <1>3. undisturbed' \in [Proc -> BOOLEAN]
    BY RecordedTypes DEF Kill
  <1>4. /\ cache' \in [Archive -> File \cup {None}]
        /\ pc' \in [Proc -> {"start", "plan", "stat", "open", "request", "transfer",
                            "size", "checksum", "cleanup"} \cup Ended]
        /\ at' \in [Proc -> Nat]
        /\ tried' \in [Proc -> BOOLEAN]
        /\ fetched' \in [Proc -> BOOLEAN]
        /\ done' \in [Proc -> Int]
        /\ src' \in [Proc -> Nat]
        /\ linked' \in [Proc -> BOOLEAN]
        /\ csumOnly' \in [Proc -> BOOLEAN]
    BY <1>1, <1>2 DEF FetchTypeOK, Ended, Goto, control, stream, File, Reset, Busy, Kill, Over, Running
  <1>5. /\ at'[p] \in 1..Len(Jobs[p])
        /\ done'[p] \in -1..Size[Job(p)']
        /\ linked'[p] => pc'[p] \in {"request", "transfer"} /\ cache'[Job(p)'] /= None
        /\ Reset(p)'
    BY <1>1, <1>2, JobFacts DEF FetchTypeOK, Job, Goto, control, stream, File, Reset, Busy, SizeOf, Ended, Kill, Over, Running
  <1>6. ASSUME NEW q \in Proc, q /= p
        PROVE  /\ pc'[q] = pc[q] /\ at'[q] = at[q] /\ done'[q] = done[q]
               /\ linked'[q] => linked[q] /\ cache'[Job(q)] /= None
    BY <1>1, <1>2, <1>6, JobTyped DEF FetchTypeOK, Goto, control, stream, File, Kill, Over, Running
  <1> QED
    BY <1>3, <1>4, <1>5, <1>6, TypeOthers DEF TypeInv, FetchTypeOK


\* `pkg clean' is not a command of the model: it only takes files away.
LEMMA CleanTypes ==
    ASSUME TypeInv, NEW a \in Archive, Clean(a)
    PROVE  TypeInv'
  <1>1. FetchTypeOK
    BY DEF TypeInv
  <1>2. /\ cache' \in [Archive -> File \cup {None}]
        /\ linked' \in [Proc -> BOOLEAN]
        /\ \A q \in Proc : linked'[q] => linked[q] /\ Job(q) /= a
        /\ \A b \in Archive \ {a} : cache'[b] = cache[b]
    BY <1>1, UnlinkTypes DEF Clean
  <1>3. /\ undisturbed' \in [Proc -> BOOLEAN]
        /\ UNCHANGED <<pc, at, tried, fetched, csumOnly, done, src>>
    BY <1>1 DEF FetchTypeOK, Clean, control
  <1>4. ASSUME NEW q \in Proc
        PROVE  linked'[q] => linked[q] /\ cache'[Job(q)] /= None
    <2>1. Job(q) \in Archive
      BY <1>1, JobTyped
    <2> QED
      BY <1>1, <1>2, <2>1 DEF FetchTypeOK
  <1> QED
    BY <1>1, <1>2, <1>3, <1>4, TypeOthers DEF TypeInv, FetchTypeOK

\* Every step keeps the types.
LEMMA TypeStep == TypeInv /\ [Next]_vars => TypeInv'
  <1> SUFFICES ASSUME TypeInv, [Next]_vars PROVE TypeInv'
    OBVIOUS
  <1>1. ASSUME NEW p \in Proc, Step(p) PROVE TypeInv'
    BY <1>1, SummaryTypes, PlanTypes, StatTypes, OpenTypes, RequestTypes, TransferTypes,
       TransferEndTypes, TransferFailsTypes, CheckSizeTypes, CheckSumTypes, CleanupTypes DEF Step
  <1>2. ASSUME NEW p \in Proc, Kill(p) PROVE TypeInv'
    BY <1>2, KillTypes
  <1>3. ASSUME NEW a \in Archive, Clean(a) PROVE TypeInv'
    BY <1>3, CleanTypes
  <1>4. CASE UNCHANGED vars
    BY <1>4 DEF vars, control, stream, TypeInv, FetchTypeOK, Reset, Job
  <1> QED
    BY <1>1, <1>2, <1>3, <1>4 DEF Next

\* The type invariant, with the bounds of every transfer, holds for any
\* commands and archives.
THEOREM FetchTypes == Spec => []FetchTypeOK
  <1>1. TypeInv => FetchTypeOK
    BY DEF TypeInv
  <1> QED
    BY <1>1, TypeInit, TypeStep, PTL DEF Spec

-----------------------------------------------------------------------------
(* A fetch left alone                                                        *)

\* The archive is in the cache, whole and right.
Intact(a) == cache[a] = [size |-> Size[a], ok |-> TRUE]

\* The local state of a command fits where it is.
Begun(p) ==
    /\ pc[p] \in {"start", "plan"} => at[p] = 1 /\ ~tried[p] /\ ~fetched[p]
    /\ pc[p] = "ok" => at[p] = Len(Jobs[p])

\* What a command that nobody disturbed knows of the file it is at.  A file it
\* removed is gone; a file it fetched from the beginning, which it does if it
\* is at it for the second time, is right as far as it goes; of a file it
\* resumes it knows the size only.
Knows(p) ==
    LET a == Job(p) IN
    /\ pc[p] \notin {"cleanup", "failed"}
    /\ pc[p] = "stat" => (tried[p] => cache[a] = None) /\ ~fetched[p]
    /\ pc[p] = "open" =>
         /\ tried[p] => done[p] = -1
         /\ done[p] = -1 => cache[a] = None
         /\ done[p] /= -1 => cache[a] /= None /\ cache[a].size = done[p] /\ done[p] < Size[a]
    /\ pc[p] = "request" =>
         /\ linked[p]
         /\ tried[p] => done[p] = -1
         /\ done[p] = -1 => cache[a].ok /\ cache[a].size = 0
         /\ done[p] /= -1 => cache[a].size = done[p] /\ done[p] < Size[a]
    /\ pc[p] = "transfer" =>
         /\ linked[p] /\ cache[a].size = done[p] /\ src[p] = done[p]
         /\ tried[p] => fetched[p]
         /\ fetched[p] => cache[a].ok
    /\ pc[p] = "size" => (tried[p] \/ fetched[p] => Intact(a))
    /\ pc[p] = "checksum" => RightSize(a) /\ (tried[p] \/ fetched[p] => Intact(a))
    /\ pc[p] = "ok" => Intact(a)
    /\ pc[p] /= "skipped" => \A i \in 1..(at[p] - 1) : Intact(Jobs[p][i])

Sound(p) == Begun(p) /\ (undisturbed[p] => Knows(p))

RepairInv ==
    /\ TypeInv
    /\ \A p \in Proc : Sound(p)

\* What the record of a step says of the commands that did not take it.
LEMMA RecordedOthers ==
    ASSUME NEW p \in Proc, NEW served \in BOOLEAN, Recorded(p, served),
           NEW q \in Proc, q /= p, undisturbed'[q]
    PROVE  undisturbed[q] /\ (pc[q] = "start" \/ \A a \in Wanted(q) : cache'[a] = cache[a])
  BY DEF Recorded

\* What it says of the command that did.
LEMMA RecordedOwn ==
    ASSUME NEW p \in Proc, NEW served \in BOOLEAN, Recorded(p, served), undisturbed'[p]
    PROVE  undisturbed[p] /\ served
  BY DEF Recorded

\* A command that does not step, and whose archives nobody touched, still
\* knows what it knew.
LEMMA SoundOthers ==
    ASSUME RepairInv, NEW q \in Proc,
           pc'[q] = pc[q], at'[q] = at[q], tried'[q] = tried[q], fetched'[q] = fetched[q],
           done'[q] = done[q], src'[q] = src[q],
           linked[q] /\ ~linked'[q] => cache'[Job(q)] = None,
           undisturbed'[q] => /\ undisturbed[q]
                              /\ pc[q] = "start" \/ \A a \in Wanted(q) : cache'[a] = cache[a]
    PROVE  Sound(q)'
  <1>1. Begun(q)'
    BY DEF RepairInv, Sound, Begun
  <1>2. ASSUME undisturbed'[q] PROVE Knows(q)'
    <2>1. Knows(q) /\ Begun(q) /\ FetchTypeOK
      BY <1>2 DEF RepairInv, Sound, TypeInv
    <2>2. at[q] \in 1..Len(Jobs[q])
      BY <2>1 DEF FetchTypeOK
    <2>3. Job(q)' = Job(q) /\ Job(q) \in Wanted(q)
      BY <2>1, JobTyped DEF Job
    <2>4. CASE pc[q] = "start"
      <3>1. at'[q] = 1
        BY <2>1, <2>4 DEF Begun
      <3>2. \A i \in 1..(at'[q] - 1) : FALSE
        BY <3>1
      <3> QED
        BY <2>4, <3>2 DEF Knows
    <2>5. CASE \A a \in Wanted(q) : cache'[a] = cache[a]
      <3>1. cache'[Job(q)] = cache[Job(q)]
        BY <2>3, <2>5
      <3>2. \A i \in 1..(at[q] - 1) : Intact(Jobs[q][i]) => Intact(Jobs[q][i])'
        <4>1. \A i \in 1..(at[q] - 1) : Jobs[q][i] \in Wanted(q)
          BY <2>2, JobFacts
        <4> QED
          BY <2>5, <4>1 DEF Intact
      <3>3. linked[q] => linked'[q]
        <4>1. linked[q] => cache[Job(q)] /= None
          BY <2>1 DEF FetchTypeOK
        <4> QED
          BY <3>1, <4>1
      <3> QED
        BY <2>1, <2>3, <3>1, <3>2, <3>3 DEF Knows, Intact, RightSize
    <2> QED
      BY <1>2, <2>4, <2>5
  <1> QED
    BY <1>1, <1>2 DEF Sound

\* The summary knows nothing of the files yet.
LEMMA SummarySound ==
    ASSUME RepairInv, NEW p \in Proc, Summary(p)
    PROVE  Sound(p)'
  <1>1. FetchTypeOK /\ Reset(p) /\ Begun(p) /\ at[p] \in 1..Len(Jobs[p])
    BY DEF RepairInv, TypeInv, FetchTypeOK, Sound
  <1>2. Job(p) \in Archive /\ Size[Job(p)] \in Nat \ {0}
    BY <1>1, JobTyped, FileFacts
  <1>3. undisturbed'[p] => Knows(p)
    BY RecordedOwn DEF RepairInv, Sound, Summary
  <1>4. at'[p] = 1 /\ pc'[p] = "plan" /\ ~tried'[p] /\ ~fetched'[p]
    BY <1>1 DEF FetchTypeOK, Goto, Begun, Summary
  <1>5. \A i \in 1..(at'[p] - 1) : FALSE
    BY <1>4
  <1> QED
    BY <1>4, <1>5 DEF Sound, Begun, Knows

\* Nor does the plan, which looks at sizes.
LEMMA PlanSound ==
    ASSUME RepairInv, NEW p \in Proc, Plan(p)
    PROVE  Sound(p)'
  <1>1. FetchTypeOK /\ Reset(p) /\ Begun(p) /\ at[p] \in 1..Len(Jobs[p])
    BY DEF RepairInv, TypeInv, FetchTypeOK, Sound
  <1>2. Job(p) \in Archive /\ Size[Job(p)] \in Nat \ {0}
    BY <1>1, JobTyped, FileFacts
  <1>3. undisturbed'[p] => Knows(p)
    BY RecordedOwn DEF RepairInv, Sound, Plan
  <1>4. /\ at'[p] = 1 /\ pc'[p] \in {"skipped", "stat"}
        /\ ~tried'[p] /\ ~fetched'[p]
    BY <1>1 DEF FetchTypeOK, Goto, Begun, Plan, control
  <1>5. \A i \in 1..(at'[p] - 1) : FALSE
    BY <1>4
  <1> QED
    BY <1>4, <1>5 DEF Sound, Begun, Knows

\* stat tells the size of a leftover, and that a removed file is gone.
LEMMA StatSound ==
    ASSUME RepairInv, NEW p \in Proc, Stat(p)
    PROVE  Sound(p)'
  <1>1. FetchTypeOK /\ Reset(p) /\ Begun(p) /\ at[p] \in 1..Len(Jobs[p])
    BY DEF RepairInv, TypeInv, FetchTypeOK, Sound
  <1>2. Job(p) \in Archive /\ Size[Job(p)] \in Nat \ {0}
    BY <1>1, JobTyped, FileFacts
  <1>3. undisturbed'[p] => Knows(p)
    BY RecordedOwn DEF RepairInv, Sound, Stat
  <1>4. pc[p] = "stat" /\ UNCHANGED <<cache, at, tried, fetched>>
    BY DEF Stat, control
  <1>5. Job(p)' = Job(p)
    BY <1>4 DEF Job
  <1>6. Begun(p)'
    BY <1>1 DEF FetchTypeOK, Begun, Goto, Stat
  <1>7. ASSUME undisturbed'[p] PROVE Knows(p)'
    <2>1. Knows(p)
      BY <1>3, <1>7
    <2>2. \A i \in 1..(at'[p] - 1) : Intact(Jobs[p][i])'
      BY <1>4, <2>1 DEF Knows, Intact
    <2>3. CASE cache[Job(p)] /= None /\ cache[Job(p)].size >= Size[Job(p)]
      <3>1. pc'[p] = "size"
        BY <1>1, <2>3 DEF FetchTypeOK, Goto, Stat
      <3>2. ~tried[p] /\ ~fetched[p]
        BY <1>4, <2>1, <2>3 DEF Knows
      <3> QED
        BY <1>4, <1>5, <2>2, <3>1, <3>2 DEF Knows
    <2>4. CASE ~(cache[Job(p)] /= None /\ cache[Job(p)].size >= Size[Job(p)])
      <3>1. /\ pc'[p] = "open"
            /\ done'[p] = IF cache[Job(p)] = None THEN -1 ELSE cache[Job(p)].size
        BY <1>1, <2>4 DEF FetchTypeOK, Goto, SizeOf, Stat
      <3>2. cache[Job(p)] /= None => cache[Job(p)].size \in Nat
        BY <1>1, <1>2 DEF FetchTypeOK, File
      <3>3. /\ done'[p] = -1 => cache[Job(p)] = None
            /\ done'[p] /= -1 => /\ cache[Job(p)] /= None
                                 /\ cache[Job(p)].size = done'[p]
                                 /\ done'[p] < Size[Job(p)]
        BY <1>2, <2>4, <3>1, <3>2
      <3>4. tried[p] => done'[p] = -1
        BY <1>4, <2>1, <3>1 DEF Knows
      <3> QED
        BY <1>4, <1>5, <2>2, <3>1, <3>3, <3>4 DEF Knows
    <2> QED
      BY <2>3, <2>4
  <1> QED
    BY <1>6, <1>7 DEF Sound

\* A file that open creates is right as far as it goes: it is empty.
LEMMA OpenSound ==
    ASSUME RepairInv, NEW p \in Proc, Open(p)
    PROVE  Sound(p)'
  <1>1. FetchTypeOK /\ Reset(p) /\ Begun(p) /\ at[p] \in 1..Len(Jobs[p])
    BY DEF RepairInv, TypeInv, FetchTypeOK, Sound
  <1>2. Job(p) \in Archive /\ Size[Job(p)] \in Nat \ {0}
    BY <1>1, JobTyped, FileFacts
  <1>3. undisturbed'[p] => Knows(p)
    BY RecordedOwn DEF RepairInv, Sound, Open
  <1>4. /\ pc[p] = "open" /\ pc'[p] = "request" /\ linked'[p]
        /\ UNCHANGED <<at, tried, fetched, done>>
    BY <1>1 DEF FetchTypeOK, Goto, Open, control
  <1>5. Job(p)' = Job(p)
    BY <1>4 DEF Job
  <1>6. Begun(p)'
    BY <1>4 DEF Begun
  <1>7. ASSUME undisturbed'[p] PROVE Knows(p)'
    <2>1. Knows(p)
      BY <1>3, <1>7
    <2>2. CASE cache[Job(p)] = None
      <3>1. done[p] = -1
        BY <1>4, <2>1, <2>2 DEF Knows
      <3>2. cache' = [cache EXCEPT ![Job(p)] = [size |-> 0, ok |-> TRUE]]
        BY <2>2 DEF Open
      <3>3. cache'[Job(p)].ok /\ cache'[Job(p)].size = 0
        BY <1>1, <1>2, <3>2 DEF FetchTypeOK
      <3>4. ASSUME NEW i \in 1..(at[p] - 1) PROVE Intact(Jobs[p][i])'
        <4>1. Intact(Jobs[p][i]) /\ Jobs[p][i] \in Archive
          BY <1>1, <1>4, <2>1, <3>4, JobFacts DEF Knows
        <4>2. Jobs[p][i] /= Job(p)
          <5>1. [size |-> Size[Job(p)], ok |-> TRUE] \in File
            BY <1>2 DEF File
          <5> QED
            BY <2>2, <4>1, <5>1, FileFacts DEF Intact
        <4> QED
          BY <1>1, <3>2, <4>1, <4>2 DEF Intact, FetchTypeOK
      <3> QED
        BY <1>4, <1>5, <3>1, <3>3, <3>4 DEF Knows
    <2>3. CASE cache[Job(p)] /= None
      <3>1. cache' = cache
        BY <2>3 DEF Open
      <3>2. done[p] /= -1
        BY <1>4, <2>1, <2>3 DEF Knows
      <3> QED
        BY <1>4, <1>5, <2>1, <3>1, <3>2 DEF Knows, Intact
    <2> QED
      BY <2>2, <2>3
  <1> QED
    BY <1>6, <1>7 DEF Sound

\* The server sends from where the file ends, unless it is at fault.
LEMMA RequestSound ==
    ASSUME RepairInv, NEW p \in Proc, Request(p)
    PROVE  Sound(p)'
  <1>1. FetchTypeOK /\ Reset(p) /\ Begun(p) /\ at[p] \in 1..Len(Jobs[p])
    BY DEF RepairInv, TypeInv, FetchTypeOK, Sound
  <1>2. Job(p) \in Archive /\ Size[Job(p)] \in Nat \ {0}
    BY <1>1, JobTyped, FileFacts
  <1>3. PICK from \in {0, IF done[p] > 0 THEN done[p] ELSE 0} :
          /\ src' = [src EXCEPT ![p] = from]
          /\ Recorded(p, from = IF done[p] > 0 THEN done[p] ELSE 0)
    BY DEF Request
  <1>4. /\ pc[p] = "request" /\ pc'[p] = "transfer"
        /\ done'[p] = IF done[p] > 0 THEN done[p] ELSE 0
        /\ fetched'[p] <=> done[p] = -1
        /\ src'[p] = from
        /\ UNCHANGED <<cache, at, tried, linked>>
    BY <1>1, <1>3 DEF FetchTypeOK, Goto, Request
  <1>5. Job(p)' = Job(p)
    BY <1>4 DEF Job
  <1>6. Begun(p)'
    BY <1>4 DEF Begun
  <1>7. ASSUME undisturbed'[p] PROVE Knows(p)'
    <2>1. Knows(p) /\ from = IF done[p] > 0 THEN done[p] ELSE 0
      BY <1>3, <1>7, RecordedOwn DEF RepairInv, Sound
    <2>2. done[p] \in Int /\ done[p] >= -1
      BY <1>1, <1>2 DEF FetchTypeOK
    <2>3. /\ linked'[p] /\ cache'[Job(p)].size = done'[p] /\ src'[p] = done'[p]
          /\ tried'[p] => fetched'[p]
          /\ fetched'[p] => cache'[Job(p)].ok
      <3>1. /\ linked[p]
            /\ tried[p] => done[p] = -1
            /\ done[p] = -1 => cache[Job(p)].ok /\ cache[Job(p)].size = 0
            /\ done[p] /= -1 => cache[Job(p)].size = done[p]
        BY <1>4, <2>1 DEF Knows
      <3>2. CASE done[p] = -1
        <4>1. done'[p] = 0 /\ from = 0
          BY <1>4, <2>1, <3>2
        <4> QED
          BY <1>4, <3>1, <3>2, <4>1
      <3>3. CASE done[p] /= -1
        <4>1. done'[p] = done[p] /\ from = done[p]
          BY <1>4, <2>1, <2>2, <3>3
        <4> QED
          BY <1>4, <3>1, <3>3, <4>1
      <3> QED
        BY <3>2, <3>3
    <2> QED
      BY <1>4, <1>5, <2>1, <2>3 DEF Knows, Intact
  <1> QED
    BY <1>6, <1>7 DEF Sound

\* A piece that is right and comes in its turn keeps the file right.
LEMMA TransferSound ==
    ASSUME RepairInv, NEW p \in Proc, Transfer(p)
    PROVE  Sound(p)'
  <1>1. FetchTypeOK /\ Reset(p) /\ Begun(p) /\ at[p] \in 1..Len(Jobs[p])
    BY DEF RepairInv, TypeInv, FetchTypeOK, Sound
  <1>2. Job(p) \in Archive /\ Size[Job(p)] \in Nat \ {0}
    BY <1>1, JobTyped, FileFacts
  <1> DEFINE f(right) == [size |-> cache[Job(p)].size + 1,
                          ok |-> cache[Job(p)].ok /\ right /\ cache[Job(p)].size = src[p]]
  <1>3. PICK right \in BOOLEAN :
          /\ cache' = IF linked[p] THEN [cache EXCEPT ![Job(p)] = f(right)] ELSE cache
          /\ Recorded(p, right)
    BY DEF Transfer
  <1>4. /\ pc[p] = "transfer" /\ pc'[p] = "transfer"
        /\ done'[p] = done[p] + 1 /\ src'[p] = src[p] + 1
        /\ UNCHANGED <<at, tried, fetched, linked>>
    BY <1>1 DEF FetchTypeOK, Transfer, control
  <1>5. Job(p)' = Job(p)
    BY <1>4 DEF Job
  <1>6. Begun(p)'
    BY <1>4 DEF Begun
  <1>7. ASSUME undisturbed'[p] PROVE Knows(p)'
    <2>1. Knows(p) /\ right
      BY <1>3, <1>7, RecordedOwn DEF RepairInv, Sound
    <2>2. /\ linked[p] /\ cache[Job(p)].size = done[p] /\ src[p] = done[p]
          /\ tried[p] => fetched[p]
          /\ fetched[p] => cache[Job(p)].ok
      BY <1>4, <2>1 DEF Knows
    <2>3. cache' = [cache EXCEPT ![Job(p)] = f(right)]
      BY <1>3, <2>2
    <2>4. cache'[Job(p)] = f(right)
      BY <1>1, <1>2, <2>3 DEF FetchTypeOK
    <2>5. cache'[Job(p)].size = done'[p] /\ src'[p] = done'[p] /\ (fetched[p] => cache'[Job(p)].ok)
      <3>1. cache'[Job(p)].size = done'[p] /\ src'[p] = done'[p]
        BY <1>4, <2>2, <2>4
      <3>2. cache[Job(p)].size = src[p] /\ right
        BY <2>1, <2>2
      <3>3. f(right).ok <=> (cache[Job(p)].ok /\ right /\ cache[Job(p)].size = src[p])
        OBVIOUS
      <3>4. fetched[p] => cache'[Job(p)].ok
        BY <2>2, <2>4, <3>2, <3>3
      <3> QED
        BY <3>1, <3>4
    <2>6. done[p] < Size[Job(p)]
      BY <1>1, <1>2 DEF FetchTypeOK, Left, Transfer
    <2>7. ASSUME NEW i \in 1..(at[p] - 1) PROVE Intact(Jobs[p][i])'
      <3>1. Intact(Jobs[p][i]) /\ Jobs[p][i] \in Archive
        BY <1>1, <1>4, <2>1, <2>7, JobFacts DEF Knows
      <3>2. Jobs[p][i] /= Job(p)
        BY <1>2, <2>2, <2>6, <3>1 DEF Intact
      <3> QED
        BY <1>1, <2>3, <3>1, <3>2 DEF Intact, FetchTypeOK
    <2> QED
      BY <1>4, <1>5, <2>2, <2>5, <2>7 DEF Knows
  <1> QED
    BY <1>6, <1>7 DEF Sound

\* All pieces are there at the end, and right if the first was its own.
LEMMA TransferEndSound ==
    ASSUME RepairInv, NEW p \in Proc, TransferEnd(p)
    PROVE  Sound(p)'
  <1>1. FetchTypeOK /\ Reset(p) /\ Begun(p) /\ at[p] \in 1..Len(Jobs[p])
    BY DEF RepairInv, TypeInv, FetchTypeOK, Sound
  <1>2. Job(p) \in Archive /\ Size[Job(p)] \in Nat \ {0}
    BY <1>1, JobTyped, FileFacts
  <1>3. undisturbed'[p] => Knows(p)
    BY RecordedOwn DEF RepairInv, Sound, TransferEnd
  <1>4. /\ pc[p] = "transfer" /\ pc'[p] = "size"
        /\ UNCHANGED <<cache, at, tried, fetched>>
    BY <1>1 DEF FetchTypeOK, Goto, TransferEnd, control
  <1>5. Job(p)' = Job(p)
    BY <1>4 DEF Job
  <1>6. Begun(p)'
    BY <1>4 DEF Begun
  <1>7. ASSUME undisturbed'[p] PROVE Knows(p)'
    <2>1. Knows(p)
      BY <1>3, <1>7
    <2>2. done[p] = Size[Job(p)]
      BY <1>1, <1>2 DEF FetchTypeOK, Left, TransferEnd
    <2>3. cache[Job(p)] \in File
      BY <1>1, <1>2, <1>4, <2>1 DEF FetchTypeOK, Knows
    <2>4. ASSUME tried[p] \/ fetched[p] PROVE Intact(Job(p))
      <3>1. cache[Job(p)].ok = TRUE /\ cache[Job(p)].size = Size[Job(p)]
        BY <1>4, <2>1, <2>2, <2>3, <2>4 DEF Knows, File
      <3> QED
        BY <2>3, <3>1 DEF Intact, File
    <2> QED
      BY <1>4, <1>5, <2>1, <2>4 DEF Knows, Intact
  <1> QED
    BY <1>6, <1>7 DEF Sound

\* A transfer that fails was not served.
LEMMA TransferFailsSound ==
    ASSUME RepairInv, NEW p \in Proc, TransferFails(p)
    PROVE  Sound(p)'
  <1>1. FetchTypeOK /\ Reset(p) /\ Begun(p) /\ at[p] \in 1..Len(Jobs[p])
    BY DEF RepairInv, TypeInv, FetchTypeOK, Sound
  <1>2. Job(p) \in Archive /\ Size[Job(p)] \in Nat \ {0}
    BY <1>1, JobTyped, FileFacts
  <1>3. ~undisturbed'[p]
    BY RecordedOwn DEF TransferFails
  <1>4. pc'[p] = "cleanup"
    BY <1>1 DEF FetchTypeOK, Goto, TransferFails
  <1> QED
    BY <1>3, <1>4 DEF Sound, Begun

\* Nor was a killed command left alone.
LEMMA KillSound ==
    ASSUME RepairInv, NEW p \in Proc, Kill(p)
    PROVE  Sound(p)'
  <1>1. FetchTypeOK /\ Reset(p) /\ Begun(p) /\ at[p] \in 1..Len(Jobs[p])
    BY DEF RepairInv, TypeInv, FetchTypeOK, Sound
  <1>2. Job(p) \in Archive /\ Size[Job(p)] \in Nat \ {0}
    BY <1>1, JobTyped, FileFacts
  <1>3. ~undisturbed'[p]
    BY RecordedOwn DEF Kill
  <1>4. pc'[p] = "killed"
    BY <1>1 DEF FetchTypeOK, Goto, Kill
  <1> QED
    BY <1>3, <1>4 DEF Sound, Begun

\* A command that was left alone has nothing to clean up.
LEMMA CleanupSound ==
    ASSUME RepairInv, NEW p \in Proc, Cleanup(p)
    PROVE  Sound(p)'
  <1>1. FetchTypeOK /\ Reset(p) /\ Begun(p) /\ at[p] \in 1..Len(Jobs[p])
    BY DEF RepairInv, TypeInv, FetchTypeOK, Sound
  <1>2. Job(p) \in Archive /\ Size[Job(p)] \in Nat \ {0}
    BY <1>1, JobTyped, FileFacts
  <1>3. ~undisturbed'[p]
    BY RecordedOwn DEF Cleanup, RepairInv, Sound, Knows
  <1>4. pc'[p] = "failed"
    BY <1>1 DEF FetchTypeOK, Goto, Cleanup
  <1> QED
    BY <1>3, <1>4 DEF Sound, Begun

\* A wrong file is removed before the retry, which then fetches all of it.
LEMMA RetrySound ==
    ASSUME RepairInv, NEW p \in Proc, pc[p] \in {"size", "checksum"}, Retry(p),
           ~Intact(Job(p)), undisturbed'[p] => undisturbed[p]
    PROVE  Sound(p)'
  <1>1. FetchTypeOK /\ Begun(p) /\ at[p] \in 1..Len(Jobs[p])
    BY DEF RepairInv, TypeInv, FetchTypeOK, Sound
  <1>2. Job(p) \in Archive
    BY <1>1, JobTyped
  <1>3. undisturbed'[p] => Knows(p)
    BY DEF RepairInv, Sound
  <1>4. /\ pc'[p] = "stat" /\ ~fetched'[p] /\ at' = at
        /\ cache' = [cache EXCEPT ![Job(p)] = None]
    BY <1>1 DEF FetchTypeOK, Goto, Retry, Unlink
  <1>5. Job(p)' = Job(p)
    BY <1>4 DEF Job
  <1>6. Begun(p)'
    BY <1>4 DEF Begun
  <1>7. ASSUME undisturbed'[p] PROVE Knows(p)'
    <2>1. cache'[Job(p)] = None
      BY <1>1, <1>2, <1>4 DEF FetchTypeOK
    <2>2. ASSUME NEW i \in 1..(at[p] - 1) PROVE Intact(Jobs[p][i])'
      <3>1. Intact(Jobs[p][i]) /\ Jobs[p][i] \in Archive
        BY <1>1, <1>3, <1>7, <2>2, JobFacts DEF Knows
      <3>2. Jobs[p][i] /= Job(p)
        BY <3>1
      <3> QED
        BY <1>1, <1>4, <3>1, <3>2 DEF Intact, FetchTypeOK
    <2> QED
      BY <1>4, <1>5, <2>1, <2>2 DEF Knows
  <1> QED
    BY <1>6, <1>7 DEF Sound

\* The next job begins with one more intact archive.
LEMMA NextJobSound ==
    ASSUME RepairInv, NEW p \in Proc, pc[p] = "checksum", NextJob(p),
           Intact(Job(p)), undisturbed'[p] => undisturbed[p]
    PROVE  Sound(p)'
  <1>1. FetchTypeOK /\ Begun(p) /\ at[p] \in 1..Len(Jobs[p])
    BY DEF RepairInv, TypeInv, FetchTypeOK, Sound
  <1>2. undisturbed'[p] => Knows(p)
    BY DEF RepairInv, Sound
  <1>3. cache' = cache /\ ~tried'[p] /\ ~fetched'[p]
    BY <1>1 DEF FetchTypeOK, NextJob
  <1>4. ASSUME undisturbed'[p], NEW i \in 1..at[p] PROVE Intact(Jobs[p][i])'
    <2>1. CASE i = at[p]
      BY <1>3, <2>1 DEF Intact, Job
    <2>2. CASE i /= at[p]
      <3>1. i \in 1..(at[p] - 1)
        BY <1>1, <1>4, <2>2, JobFacts
      <3> QED
        BY <1>2, <1>3, <1>4, <3>1 DEF Knows, Intact
    <2> QED
      BY <2>1, <2>2
  <1>5. CASE at[p] = Len(Jobs[p])
    <2>1. pc'[p] = "ok" /\ at' = at
      BY <1>1, <1>5 DEF FetchTypeOK, Goto, NextJob
    <2>2. Intact(Job(p))'
      BY <1>3, <2>1 DEF Intact, Job
    <2>3. undisturbed'[p] => \A i \in 1..(at[p] - 1) : Intact(Jobs[p][i])'
      BY <1>2, <1>3 DEF Knows, Intact
    <2> QED
      BY <1>5, <2>1, <2>2, <2>3 DEF Sound, Begun, Knows
  <1>6. CASE at[p] /= Len(Jobs[p])
    <2>1. pc'[p] = "stat" /\ at'[p] = at[p] + 1
      BY <1>1, <1>6 DEF FetchTypeOK, Goto, NextJob
    <2>2. 1..(at'[p] - 1) = 1..at[p]
      BY <1>1, <2>1, JobFacts
    <2>3. undisturbed'[p] => \A i \in 1..(at'[p] - 1) : Intact(Jobs[p][i])'
      BY <1>4, <2>2
    <2> QED
      BY <1>3, <2>1, <2>3 DEF Sound, Begun, Knows
  <1> QED
    BY <1>5, <1>6

\* A file of the wrong size is a leftover the first time it is met, and cannot
\* be met by a fetch left alone the second time.
LEMMA CheckSizeSound ==
    ASSUME RepairInv, NEW p \in Proc, CheckSize(p)
    PROVE  Sound(p)'
  <1>1. FetchTypeOK /\ Begun(p) /\ pc[p] = "size"
    BY DEF RepairInv, TypeInv, Sound, CheckSize
  <1>2. undisturbed'[p] => undisturbed[p] /\ Knows(p)
    BY RecordedOwn DEF RepairInv, Sound, CheckSize
  <1>3. Job(p) \in Archive /\ Size[Job(p)] \in Nat
    BY <1>1, JobTyped, FileFacts
  <1>4. Intact(Job(p)) => RightSize(Job(p))
    <2>1. [size |-> Size[Job(p)], ok |-> TRUE] \in File
      BY <1>3 DEF File
    <2>2. [size |-> Size[Job(p)], ok |-> TRUE] /= None
      BY <2>1, FileFacts
    <2> QED
      BY <2>2 DEF Intact, RightSize
  <1>5. CASE RightSize(Job(p)) /\ Goto(p, "checksum") /\ UNCHANGED <<cache, control, stream>>
    <2>1. pc'[p] = "checksum" /\ UNCHANGED <<cache, at, tried, fetched>>
      BY <1>1, <1>5 DEF FetchTypeOK, Goto, control
    <2>2. Job(p)' = Job(p)
      BY <2>1 DEF Job
    <2> QED
      BY <1>1, <1>2, <1>5, <2>1, <2>2 DEF Sound, Begun, Knows, Intact, RightSize
  <1>6. CASE ~RightSize(Job(p)) /\ tried[p] /\ Goto(p, "cleanup") /\ UNCHANGED <<cache, control, stream>>
    <2>1. pc'[p] = "cleanup"
      BY <1>1, <1>6 DEF FetchTypeOK, Goto
    <2>2. ~undisturbed'[p]
      BY <1>1, <1>2, <1>4, <1>6 DEF Knows
    <2> QED
      BY <2>1, <2>2 DEF Sound, Begun
  <1>7. CASE ~RightSize(Job(p)) /\ Retry(p)
    BY <1>1, <1>2, <1>4, <1>7, RetrySound
  <1> QED
    BY <1>5, <1>6, <1>7 DEF CheckSize

\* So is a file with the wrong checksum; one that was fetched from its first
\* piece is right.
LEMMA CheckSumSound ==
    ASSUME RepairInv, NEW p \in Proc, CheckSum(p)
    PROVE  Sound(p)'
  <1> DEFINE matches == RightSize(Job(p)) /\ cache[Job(p)].ok
  <1>1. FetchTypeOK /\ Begun(p) /\ pc[p] = "checksum"
    BY DEF RepairInv, TypeInv, Sound, CheckSum
  <1>2. undisturbed'[p] => undisturbed[p] /\ Knows(p)
    BY RecordedOwn DEF RepairInv, Sound, CheckSum
  <1>3. Job(p) \in Archive /\ Size[Job(p)] \in Nat
    BY <1>1, JobTyped, FileFacts
  <1>4. matches <=> Intact(Job(p))
    <2>1. [size |-> Size[Job(p)], ok |-> TRUE] \in File
      BY <1>3 DEF File
    <2>2. Intact(Job(p)) => matches
      <3>1. [size |-> Size[Job(p)], ok |-> TRUE] /= None
        BY <2>1, FileFacts
      <3> QED
        BY <3>1 DEF Intact, RightSize
    <2>3. ASSUME matches PROVE Intact(Job(p))
      <3>1. cache[Job(p)] \in File
        BY <1>1, <1>3, <2>3 DEF FetchTypeOK, RightSize
      <3>2. cache[Job(p)].ok = TRUE /\ cache[Job(p)].size = Size[Job(p)]
        BY <2>3, <3>1 DEF File, RightSize
      <3> QED
        BY <3>1, <3>2 DEF Intact, File
    <2> QED
      BY <2>2, <2>3
  <1>5. CASE cache[Job(p)] = None /\ Goto(p, "failed") /\ UNCHANGED <<cache, control, stream>>
    <2>1. pc'[p] = "failed"
      BY <1>1, <1>5 DEF FetchTypeOK, Goto
    <2>2. ~undisturbed'[p]
      BY <1>1, <1>2, <1>5 DEF Knows, RightSize
    <2> QED
      BY <2>1, <2>2 DEF Sound, Begun
  <1>6. CASE matches /\ NextJob(p)
    BY <1>1, <1>2, <1>4, <1>6, NextJobSound
  <1>7. CASE ~matches /\ Retry(p)
    BY <1>1, <1>2, <1>4, <1>7, RetrySound
  <1>8. CASE ~matches /\ ~MayRetry(p) /\ Goto(p, "cleanup") /\ UNCHANGED <<cache, control, stream>>
    <2>1. pc'[p] = "cleanup"
      BY <1>1, <1>8 DEF FetchTypeOK, Goto
    <2>2. ~undisturbed'[p]
      BY <1>1, <1>2, <1>4, <1>8 DEF Knows, MayRetry
    <2> QED
      BY <2>1, <2>2 DEF Sound, Begun
  <1> QED
    BY <1>5, <1>6, <1>7, <1>8 DEF CheckSum

-----------------------------------------------------------------------------

\* What a step leaves to the commands that do not take it.
Untouched(q) ==
    /\ pc'[q] = pc[q] /\ at'[q] = at[q] /\ tried'[q] = tried[q] /\ fetched'[q] = fetched[q]
    /\ done'[q] = done[q] /\ src'[q] = src[q]
    /\ linked[q] /\ ~linked'[q] => cache'[Job(q)] = None

\* A step of one command is one of that command only, but for the descriptors
\* of a file it unlinks.
LEMMA StepUntouched ==
    ASSUME FetchTypeOK, NEW p \in Proc, Step(p) \/ Kill(p), NEW q \in Proc, q /= p
    PROVE  Untouched(q)
  <1> USE DEF FetchTypeOK, Untouched, Goto, control, stream
  <1>1. Job(p) \in Archive
    BY JobTyped
  <1>2. CASE Summary(p)
    BY <1>2 DEF Summary
  <1>3. CASE Plan(p)
    BY <1>3 DEF Plan
  <1>4. CASE Stat(p)
    BY <1>4 DEF Stat
  <1>5. CASE Open(p)
    BY <1>5 DEF Open
  <1>6. CASE Request(p)
    BY <1>6 DEF Request
  <1>7. CASE Transfer(p)
    BY <1>7 DEF Transfer
  <1>8. CASE TransferEnd(p)
    BY <1>8 DEF TransferEnd, Over
  <1>9. CASE TransferFails(p)
    BY <1>1, <1>9 DEF TransferFails, Over, Unlink
  <1>10. ASSUME Retry(p) PROVE Untouched(q)
    BY <1>1, <1>10 DEF Retry, Unlink
  <1>11. ASSUME NextJob(p) PROVE Untouched(q)
    BY <1>11 DEF NextJob
  <1>12. ASSUME NEW label, Goto(p, label), UNCHANGED <<cache, control, stream>> PROVE Untouched(q)
    BY <1>12
  <1>13. CASE CheckSize(p)
    BY <1>10, <1>12, <1>13 DEF CheckSize
  <1>14. CASE CheckSum(p)
    BY <1>10, <1>11, <1>12, <1>14 DEF CheckSum
  <1>15. CASE Cleanup(p)
    BY <1>1, <1>15 DEF Cleanup, Unlink
  <1>16. CASE Kill(p)
    BY <1>16 DEF Kill, Over
  <1> QED
    BY <1>2, <1>3, <1>4, <1>5, <1>6, <1>7, <1>8, <1>9, <1>13, <1>14, <1>15, <1>16 DEF Step

\* Every step of a command is recorded.
LEMMA StepRecorded ==
    ASSUME NEW p \in Proc, Step(p) \/ Kill(p)
    PROVE  \E served \in BOOLEAN : Recorded(p, served)
  <1>1. CASE Request(p)
    <2> DEFINE offset == IF done[p] > 0 THEN done[p] ELSE 0
    <2>1. PICK from \in {0, offset} : Recorded(p, from = offset)
      BY <1>1 DEF Request
    <2>2. (from = offset) \in BOOLEAN
      OBVIOUS
    <2> QED
      BY <2>1, <2>2
  <1>2. CASE Transfer(p)
    BY <1>2 DEF Transfer
  <1>3. CASE ~Request(p) /\ ~Transfer(p)
    BY <1>3 DEF Step, Summary, Plan, Stat, Open, TransferEnd, TransferFails, CheckSize,
                CheckSum, Cleanup, Kill
  <1> QED
    BY <1>1, <1>2, <1>3

\* Every step keeps what the commands left alone know.
LEMMA RepairStep == RepairInv /\ [Next]_vars => RepairInv'
  <1> SUFFICES ASSUME RepairInv, [Next]_vars PROVE RepairInv'
    OBVIOUS
  <1>1. TypeInv' /\ TypeInv /\ FetchTypeOK
    BY TypeStep DEF RepairInv, TypeInv
  <1>2. ASSUME NEW p \in Proc, Step(p) \/ Kill(p), NEW q \in Proc PROVE Sound(q)'
    <2>1. CASE q = p
      BY <1>2, <2>1, SummarySound, PlanSound, StatSound, OpenSound, RequestSound, TransferSound,
         TransferEndSound, TransferFailsSound, CheckSizeSound, CheckSumSound, CleanupSound,
         KillSound DEF Step
    <2>2. CASE q /= p
      <3>1. Untouched(q)
        BY <1>1, <1>2, <2>2, StepUntouched
      <3>2. PICK served \in BOOLEAN : Recorded(p, served)
        BY <1>2, StepRecorded
      <3> QED
        BY <2>2, <3>1, <3>2, RecordedOthers, SoundOthers DEF Untouched
    <2> QED
      BY <2>1, <2>2
  <1>3. ASSUME NEW a \in Archive, Clean(a), NEW q \in Proc PROVE Sound(q)'
    <2>1. /\ UNCHANGED <<pc, at, tried, fetched, done, src>>
          /\ cache' = [cache EXCEPT ![a] = None]
          /\ linked[q] /\ ~linked'[q] => Job(q) = a
      BY <1>3 DEF Clean, control, Unlink
    <2>2. linked[q] /\ ~linked'[q] => cache'[Job(q)] = None
      BY <1>1, <1>3, <2>1 DEF FetchTypeOK
    <2>3. ASSUME undisturbed'[q]
          PROVE  undisturbed[q] /\ (pc[q] = "start" \/ \A b \in Wanted(q) : cache'[b] = cache[b])
      <3>1. undisturbed[q] /\ (pc[q] = "start" \/ a \notin Wanted(q))
        BY <1>3, <2>3 DEF Clean
      <3>2. \A b : b /= a => cache'[b] = cache[b]
        BY <2>1 DEF FetchTypeOK
      <3> QED
        BY <3>1, <3>2
    <2> QED
      BY <2>1, <2>2, <2>3, SoundOthers
  <1>4. CASE UNCHANGED vars
    <2>1. UNCHANGED <<cache, pc, at, tried, fetched, done, src, linked, undisturbed>>
      BY <1>4 DEF vars, control, stream
    <2> QED
      BY <1>1, <2>1 DEF RepairInv, Sound, Begun, Knows, Intact, RightSize, Job
  <1> QED
    BY <1>1, <1>2, <1>3, <1>4 DEF Next, RepairInv

\* It holds before the first step, when nobody knows anything.
LEMMA RepairInit == Init => RepairInv
  <1> SUFFICES ASSUME Init PROVE RepairInv
    OBVIOUS
  <1>1. ASSUME NEW p \in Proc PROVE Sound(p)
    <2>1. pc[p] = "start" /\ at[p] = 1 /\ ~tried[p] /\ ~fetched[p]
      BY DEF Init
    <2>2. \A i \in 1..(at[p] - 1) : FALSE
      BY <2>1
    <2> QED
      BY <2>1, <2>2 DEF Sound, Begun, Knows
  <1> QED
    BY <1>1, TypeInit DEF RepairInv

-----------------------------------------------------------------------------
(* A command that fetches nothing.                                           *)

\* Its archives have the sizes for which it was skipped.
SkipInv == \A p \in Proc : undisturbed[p] /\ pc[p] = "skipped" => DownloadSize(p) = 0

\* What is to be downloaded depends on the sizes of the command's own archives.
LEMMA SameDownload ==
    ASSUME NEW p \in Proc, \A a \in Wanted(p) : cache'[a] = cache[a]
    PROVE  DownloadSize(p)' = DownloadSize(p)
  <1>1. \A a \in Wanted(p) : SizeOf(a)' = SizeOf(a)
    BY DEF SizeOf
  <1>2. [a \in Wanted(p) |-> SizeOf(a)]' = [a \in Wanted(p) |-> SizeOf(a)]
    BY <1>1 DEF Wanted
  <1> QED
    BY <1>2 DEF DownloadSize

\* Only the plan skips.
LEMMA SkipByPlan ==
    ASSUME FetchTypeOK, NEW p \in Proc, Step(p) \/ Kill(p), pc'[p] = "skipped"
    PROVE  Plan(p)
  <1> USE DEF FetchTypeOK, Goto
  <1>1. CASE Summary(p) \/ Stat(p) \/ Open(p) \/ Request(p)
    BY <1>1 DEF Summary, Stat, Open, Request
  <1>2. CASE Transfer(p) \/ TransferEnd(p) \/ TransferFails(p) \/ Cleanup(p) \/ Kill(p)
    BY <1>2 DEF Transfer, TransferEnd, TransferFails, Cleanup, Kill
  <1>3. CASE CheckSize(p) \/ CheckSum(p)
    BY <1>3 DEF CheckSize, CheckSum, Retry, NextJob
  <1> QED
    BY <1>1, <1>2, <1>3 DEF Step

\* Nobody else changes the archives of a command that is left alone.
LEMMA SkipStep == FetchTypeOK /\ SkipInv /\ [Next]_vars => SkipInv'
  <1> SUFFICES ASSUME FetchTypeOK, SkipInv, [Next]_vars,
                      NEW q \in Proc, undisturbed'[q], pc'[q] = "skipped"
               PROVE  DownloadSize(q)' = 0
    BY DEF SkipInv
  <1>1. ASSUME undisturbed[q], pc[q] = "skipped", \A a \in Wanted(q) : cache'[a] = cache[a]
        PROVE  DownloadSize(q)' = 0
    BY <1>1, SameDownload DEF SkipInv
  <1>2. ASSUME NEW p \in Proc, Step(p) \/ Kill(p) PROVE DownloadSize(q)' = 0
    <2>1. CASE q = p
      <3>1. Plan(p)
        BY <1>2, <2>1, SkipByPlan
      <3>2. cache' = cache /\ DownloadSize(p) = 0
        BY <2>1, <3>1 DEF Plan, Goto, FetchTypeOK
      <3> QED
        BY <2>1, <3>2, SameDownload
    <2>2. CASE q /= p
      <3>1. pc'[q] = pc[q]
        BY <1>2, <2>2, StepUntouched DEF Untouched
      <3>2. PICK served \in BOOLEAN : Recorded(p, served)
        BY <1>2, StepRecorded
      <3>3. undisturbed[q] /\ \A a \in Wanted(q) : cache'[a] = cache[a]
        BY <2>2, <3>1, <3>2, RecordedOthers
      <3> QED
        BY <1>1, <3>1, <3>3
    <2> QED
      BY <2>1, <2>2
  <1>3. ASSUME NEW a \in Archive, Clean(a) PROVE DownloadSize(q)' = 0
    <2>1. pc'[q] = pc[q] /\ cache' = [cache EXCEPT ![a] = None]
      BY <1>3 DEF Clean, Unlink
    <2>2. undisturbed[q] /\ a \notin Wanted(q)
      BY <1>3, <2>1 DEF Clean
    <2>3. \A b : b /= a => cache'[b] = cache[b]
      BY <2>1 DEF FetchTypeOK
    <2> QED
      BY <1>1, <2>1, <2>2, <2>3
  <1>4. CASE UNCHANGED vars
    BY <1>1, <1>4 DEF vars
  <1> QED
    BY <1>2, <1>3, <1>4 DEF Next

\* A fetch left alone and served what it asks for does not fail, and leaves the
\* archives it has gone through intact, whatever it found in the cache:
\* pkg_repo_binary_try_fetch.  One that goes through none found sizes that add up to
\* what it wants, and promises no more: pkg_jobs_fetch looks at nothing else.
THEOREM UndisturbedFetchRepairs == Spec => []FetchRepairs
  <1>1. ASSUME RepairInv, SkipInv PROVE FetchRepairs
    <2>1. SUFFICES ASSUME NEW p \in Proc, undisturbed[p]
                   PROVE  /\ pc[p] \notin {"cleanup", "failed"}
                          /\ pc[p] /= "skipped" => \A i \in Fetched(p) : Intact(Jobs[p][i])
      BY <1>1 DEF FetchRepairs, Intact, SkipInv
    <2>2. Begun(p) /\ Knows(p) /\ at[p] \in 1..Len(Jobs[p])
      BY <1>1, <2>1 DEF RepairInv, Sound, TypeInv, FetchTypeOK
    <2>3. ASSUME pc[p] /= "skipped", NEW i \in Fetched(p) PROVE Intact(Jobs[p][i])
      <3>1. CASE pc[p] = "ok"
        <4>1. i \in 1..Len(Jobs[p]) /\ at[p] = Len(Jobs[p])
          BY <2>2, <2>3, <3>1 DEF Fetched, Begun
        <4>2. CASE i = at[p]
          BY <2>2, <3>1, <4>2 DEF Knows, Job
        <4>3. CASE i /= at[p]
          <5>1. i \in 1..(at[p] - 1)
            BY <4>1, <4>3, JobFacts
          <5> QED
            BY <2>2, <3>1, <5>1 DEF Knows
        <4> QED
          BY <4>2, <4>3
      <3>2. CASE pc[p] /= "ok"
        BY <2>2, <2>3, <3>2 DEF Fetched, Knows
      <3> QED
        BY <3>1, <3>2
    <2> QED
      BY <2>2, <2>3 DEF Knows
  <1>2. Init => SkipInv
    BY DEF Init, SkipInv
  <1>3. RepairInv => FetchTypeOK
    BY DEF RepairInv, TypeInv
  <1> QED
    BY <1>1, <1>2, <1>3, RepairInit, RepairStep, SkipStep, PTL DEF Spec

=============================================================================
