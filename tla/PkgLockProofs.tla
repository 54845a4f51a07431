--------------------------- MODULE PkgLockProofs ---------------------------
(***************************************************************************)
(* Proofs about PkgLock, for every set of processes, every mix of          *)
(* commands and every setting of the configuration.                        *)
(***************************************************************************)
EXTENDS PkgLock, FiniteSetTheorems, TLAPS

\* Going to a point of a command keeps the variables of the call well typed.
LEMMA ArriveType ==
    ASSUME TypeOK, NEW p \in Proc, NEW c \in Commands, NEW n \in Nat,
           NEW a \in Calls \cup Resting, Arrive(p, c, a, n)
    PROVE  /\ at' \in [Proc -> Calls \cup Resting]
           /\ pc' \in [Proc -> PCs]
           /\ op' \in [Proc -> Ops]
           /\ tries' \in [Proc -> 0..MaxTries]
           /\ round' \in [Proc -> Nat]
           /\ \A q \in Proc : pc'[q] = "unlock" => op'[q] \in Locks
<1> DEFINE noop == a \in Calls /\ c = "read" /\ ~ReadLock
           b == IF noop THEN After(c, a, n, TRUE) ELSE a
<1>1. b \in Calls \cup Resting
  BY DEF After, Calls, Resting
<1>2. OpOf(c, b) \in Ops
  BY DEF OpOf, LockOf, Ops, Locks
<1>3. b \in {"unlock", "cancel", "release"} => OpOf(c, b) \in Locks
  BY DEF OpOf, LockOf, Locks
<1>4. /\ at' = [at EXCEPT ![p] = b]
      /\ pc' = [pc EXCEPT ![p] =
                  IF b \in Resting THEN "idle"
                  ELSE IF b \in {"unlock", "cancel", "release"} THEN "unlock"
                  ELSE "update"]
      /\ op' = [op EXCEPT ![p] = OpOf(c, b)]
      /\ tries' = [tries EXCEPT ![p] = 0]
      /\ round' = [round EXCEPT ![p] = IF b = "upgrade" THEN n + 1 ELSE n]
  BY DEF Arrive
<1> HIDE DEF b
<1>5. 0 \in 0..MaxTries
  BY PkgLockAssumption
<1> QED
  BY <1>1, <1>2, <1>3, <1>4, <1>5 DEF TypeOK, PCs

\* So does the return of a call, which leaves its process what the caller of
\* Return says it holds, or nothing.
LEMMA ReturnType ==
    ASSUME TypeOK, NEW p \in Proc, NEW ok \in BOOLEAN, NEW h \in SUBSET Locks,
           Return(p, ok, h)
    PROVE  /\ at' \in [Proc -> Calls \cup Resting]
           /\ pc' \in [Proc -> PCs]
           /\ op' \in [Proc -> Ops]
           /\ tries' \in [Proc -> 0..MaxTries]
           /\ round' \in [Proc -> Nat]
           /\ \A q \in Proc : pc'[q] = "unlock" => op'[q] \in Locks
           /\ held' \in [Proc -> SUBSET Locks]
           /\ \E S \in SUBSET h : held' = [held EXCEPT ![p] = S]
<1> DEFINE b == After(cmd[p], at[p], round[p], ok)
<1>1. b \in Calls \cup Resting
  BY DEF After, Calls, Resting
<1>2. Arrive(p, cmd[p], b, round[p])
  BY DEF Return
<1>3. cmd[p] \in Commands /\ round[p] \in Nat
  BY DEF TypeOK
<1>4. held' = [held EXCEPT ![p] = IF b = "end" THEN {} ELSE h]
  BY DEF Return
<1> HIDE DEF b
<1>5. /\ at' \in [Proc -> Calls \cup Resting]
      /\ pc' \in [Proc -> PCs]
      /\ op' \in [Proc -> Ops]
      /\ tries' \in [Proc -> 0..MaxTries]
      /\ round' \in [Proc -> Nat]
      /\ \A q \in Proc : pc'[q] = "unlock" => op'[q] \in Locks
  BY <1>1, <1>2, <1>3, ArriveType
<1>6. /\ held' \in [Proc -> SUBSET Locks]
      /\ \E S \in SUBSET h : held' = [held EXCEPT ![p] = S]
  <2> DEFINE S == IF b = "end" THEN {} ELSE h
  <2>1. S \in SUBSET h
    OBVIOUS
  <2>2. held' = [held EXCEPT ![p] = S]
    BY <1>4
  <2> HIDE DEF S
  <2> QED BY <2>1, <2>2 DEF TypeOK
<1> QED BY <1>5, <1>6

\* Trying again, or giving up, likewise.
LEMMA RetryType ==
    ASSUME TypeOK, NEW p \in Proc, Retry(p)
    PROVE  /\ at' \in [Proc -> Calls \cup Resting]
           /\ pc' \in [Proc -> PCs]
           /\ op' \in [Proc -> Ops]
           /\ tries' \in [Proc -> 0..MaxTries]
           /\ round' \in [Proc -> Nat]
           /\ \A q \in Proc : pc'[q] = "unlock" => op'[q] \in Locks
           /\ held' \in [Proc -> SUBSET Locks]
           /\ \E S \in SUBSET held[p] : held' = [held EXCEPT ![p] = S]
<1>1. CASE tries[p] + 1 <= MaxTries
  <2>1. tries' = [tries EXCEPT ![p] = @ + 1] /\ pc' = [pc EXCEPT ![p] = "update"]
        /\ UNCHANGED <<at, op, round, held>>
    BY <1>1 DEF Retry
  <2>2. tries[p] + 1 \in 0..MaxTries
    BY <1>1, PkgLockAssumption DEF TypeOK
  <2>3. held' = [held EXCEPT ![p] = held[p]]
    BY <2>1 DEF TypeOK
  <2> QED BY <2>1, <2>2, <2>3 DEF TypeOK, PCs
<1>2. CASE ~(tries[p] + 1 <= MaxTries)
  <2>1. Return(p, FALSE, held[p])
    BY <1>2 DEF Retry
  <2>2. held[p] \in SUBSET Locks
    BY DEF TypeOK
  <2> QED BY <2>1, <2>2, ReturnType
<1> QED BY <1>1, <1>2

\* What the lock statements do to a row they match, and to what is held.
LEMMA LockedRow ==
    ASSUME NEW o \in Ops, NEW r \in Row
    PROVE  /\ Locked(o, r) \in Row
           /\ HeldAfter(o) \in SUBSET Locks
           /\ Target(o) \in Ops
<1>1. CASE o = "READONLY"
  BY <1>1 DEF Locked, HeldAfter, Target, Row, Ops, Locks
<1>2. CASE o = "ADVISORY"
  BY <1>2 DEF Locked, HeldAfter, Target, Row, Ops, Locks
<1>3. CASE o = "EXCLUSIVE"
  BY <1>3 DEF Locked, HeldAfter, Target, Row, Ops, Locks
<1>4. CASE o = "UPGRADE"
  BY <1>4 DEF Locked, HeldAfter, Target, Row, Ops, Locks
<1>5. CASE o = "DOWNGRADE"
  BY <1>5 DEF Locked, HeldAfter, Target, Row, Ops, Locks
<1> QED BY <1>1, <1>2, <1>3, <1>4, <1>5 DEF Ops, Locks

\* What the release statements do to a row they match.
LEMMA UnlockedRow ==
    ASSUME NEW l \in Locks, NEW r \in Row, Unlockable(l, r)
    PROVE  Unlocked(l, r) \in Row
<1>1. CASE l = "READONLY"
  <2>1. r.read > 0 /\ r.read \in Nat
    BY <1>1 DEF Unlockable, Row
  <2> QED BY <1>1, <2>1 DEF Unlocked, Row
<1>2. CASE l = "ADVISORY"
  BY <1>2 DEF Unlocked, Row
<1>3. CASE l = "EXCLUSIVE"
  BY <1>3 DEF Unlocked, Row
<1> QED BY <1>1, <1>2, <1>3 DEF Locks

\* Every step of a process preserves the type invariant.
LEMMA StepType ==
    ASSUME TypeOK, NEW p \in Proc, Step(p) \/ Crash(p)
    PROVE  TypeOK'
<1> USE DEF TypeOK
<1>h. held[p] \in SUBSET Locks
  OBVIOUS
<1>1. CASE Choose(p)
  <2>1. PICK a \in Choices(cmd[p], at[p], round[p]) :
            /\ Arrive(p, cmd[p], a, round[p])
            /\ held' = [held EXCEPT ![p] = IF a = "end" THEN {} ELSE @]
    BY <1>1 DEF Choose
  <2>2. a \in Calls \cup Resting
    BY DEF Choices, Calls, Resting
  <2>3. UNCHANGED <<rows, pids, cmd, intruded>>
    BY <1>1 DEF Choose
  <2>4. held' \in [Proc -> SUBSET Locks]
    BY <2>1, <1>h
  <2> QED BY <2>1, <2>2, <2>3, <2>4, ArriveType
<1>2. CASE Grant(p)
  <2>1. rows' \subseteq Row
    <3>1. \A r \in Row : Locked(op[p], r) \in Row
      BY LockedRow
    <3>2. rows' = {IF Matches(op[p], r) THEN Locked(op[p], r) ELSE r : r \in rows}
      BY <1>2 DEF Grant
    <3> QED BY <3>1, <3>2
  <2>2. HeldAfter(op[p]) \in SUBSET Locks
    <3>1. Free \in Row
      BY DEF Free, Row
    <3> QED BY <3>1, LockedRow
  <2>3. intruded' \in BOOLEAN /\ UNCHANGED <<pids, cmd>>
    BY <1>2 DEF Grant
  <2>4. CASE Conversion(op[p])
    <3>1. Return(p, TRUE, HeldAfter(op[p]))
      BY <1>2, <2>4 DEF Grant
    <3> QED BY <3>1, <2>1, <2>2, <2>3, ReturnType
  <2>5. CASE ~Conversion(op[p])
    BY <1>2, <2>1, <2>2, <2>3, <2>5 DEF Grant, PCs
  <2> QED BY <2>4, <2>5
<1>3. CASE WriteLockPid(p)
  <2>1. Return(p, p \notin pids, held[p]) /\ pids' = pids \cup {p}
        /\ UNCHANGED <<rows, cmd, intruded>>
    BY <1>3 DEF WriteLockPid
  <2> QED BY <2>1, <1>h, ReturnType
<1>4. CASE Refuse(p)
  BY <1>4 DEF Refuse, PCs
<1>5. CASE CheckLockPid(p)
  <2>1. pids' \subseteq Proc /\ UNCHANGED <<rows, cmd, intruded>>
    BY <1>5 DEF CheckLockPid
  <2>2. CASE pids' \subseteq {p}
    BY <1>5, <2>1, <2>2 DEF CheckLockPid, PCs
  <2>3. CASE ~(pids' \subseteq {p})
    <3>1. Retry(p)
      BY <1>5, <2>3 DEF CheckLockPid
    <3> QED BY <3>1, <2>1, RetryType
  <2> QED BY <2>2, <2>3
<1>6. CASE ResetLock(p)
  BY <1>6 DEF ResetLock, PCs, Row, Free
<1>7. CASE RemoveOwnPid(p)
  BY <1>7, PkgLockAssumption
     DEF RemoveOwnPid, ObtainAgain, PCs, Target, Ops, Locks
<1>8. CASE DeleteRows(p)
  BY <1>8 DEF DeleteRows, PCs
<1>9. CASE ReinsertRow(p)
  BY <1>9, PkgLockAssumption
     DEF ReinsertRow, ObtainAgain, PCs, Target, Ops, Locks, Row, Free
<1>10. CASE ReleaseLock(p)
  <2>1. op[p] \in Locks
    BY <1>10 DEF ReleaseLock
  <2>2. rows' \subseteq Row
    BY <1>10, <2>1, UnlockedRow DEF ReleaseLock
  <2>3. intruded' \in BOOLEAN /\ UNCHANGED <<pids, cmd>>
    BY <1>10 DEF ReleaseLock
  <2>4. CASE \E r \in rows : Unlockable(op[p], r)
    BY <1>10, <2>2, <2>3, <2>4 DEF ReleaseLock, PCs
  <2>5. CASE ~\E r \in rows : Unlockable(op[p], r)
    <3>1. Return(p, FALSE, held[p] \ {op[p]})
      BY <1>10, <2>5 DEF ReleaseLock
    <3>2. held[p] \ {op[p]} \in SUBSET Locks
      BY <1>h
    <3> QED BY <3>1, <3>2, <2>2, <2>3, ReturnType
  <2> QED BY <2>4, <2>5
<1>11. CASE ReleasePid(p)
  <2>1. Return(p, TRUE, held[p]) /\ pids' = pids \ {p}
        /\ UNCHANGED <<rows, cmd, intruded>>
    BY <1>11 DEF ReleasePid
  <2> QED BY <2>1, <1>h, ReturnType
<1>12. CASE SqlFails(p)
  <2>1. UNCHANGED <<rows, pids, cmd, intruded>>
    BY <1>12 DEF SqlFails
  <2>2. CASE Return(p, FALSE, held[p])
    BY <2>1, <2>2, <1>h, ReturnType
  <2>3. CASE Retry(p)
    BY <2>1, <2>3, RetryType
  <2>4. CASE /\ \E c \in {"unpid", "delete"} : pc' = [pc EXCEPT ![p] = c]
             /\ UNCHANGED <<at, op, tries, round, held>>
    BY <2>1, <2>4 DEF PCs
  <2>5. CASE ObtainAgain(p) /\ UNCHANGED <<at, round, held>>
    BY <2>1, <2>5, PkgLockAssumption DEF ObtainAgain, PCs, Target, Ops, Locks
  <2> QED BY <1>12, <2>2, <2>3, <2>4, <2>5 DEF SqlFails
<1>13. CASE Crash(p)
  BY <1>13 DEF Crash, PCs, Resting
<1> QED
  BY <1>1, <1>2, <1>3, <1>4, <1>5, <1>6, <1>7, <1>8, <1>9, <1>10, <1>11,
     <1>12, <1>13 DEF Step

\* The first state is well typed.
LEMMA InitType ==
    ASSUME Init
    PROVE  TypeOK
<1> USE DEF Init
<1>1. rows \subseteq Row
  BY DEF Row, Free
<1>2. 0 \in 0..MaxTries
  BY PkgLockAssumption
<1>3. /\ at \in [Proc -> Calls \cup Resting]
      /\ pc \in [Proc -> PCs]
      /\ op \in [Proc -> Ops]
      /\ \A p \in Proc : pc[p] = "unlock" => op[p] \in Locks
  BY DEF Calls, Resting, PCs, Ops, Locks
<1>4. /\ tries \in [Proc -> 0..MaxTries]
      /\ round \in [Proc -> Nat]
      /\ held \in [Proc -> SUBSET Locks]
  BY <1>2
<1>5. cmd \in [Proc -> Commands]
  BY PkgLockAssumption
<1> QED BY <1>1, <1>3, <1>4, <1>5 DEF TypeOK

\* The counters and the local variables of the protocol stay in their ranges.
THEOREM LockTypeCorrect == Spec => []TypeOK
<1>1. Init => TypeOK
  BY InitType
<1>2. TypeOK /\ [Next]_vars => TypeOK'
  <2>1. ASSUME TypeOK, Next PROVE TypeOK'
    BY <2>1, StepType DEF Next
  <2>2. ASSUME TypeOK, UNCHANGED vars PROVE TypeOK'
    BY <2>2 DEF TypeOK, vars
  <2> QED BY <2>1, <2>2
<1> QED BY <1>1, <1>2, PTL DEF Spec

----------------------------------------------------------------------------
(* The inductive invariant: the table records what is held, and what is     *)
(* held is compatible.  Neither half is inductive alone: a lock statement   *)
(* decides by the table, and the table is right because of who holds what.  *)

Compatible == ExclusiveIsAlone /\ AdvisoryIsUnique

Recorded ==
    /\ \A r, s \in rows : r = s
    /\ (\E p \in Proc : held[p] # {}) => rows # {}
    /\ \A r \in rows :
        /\ \A p \in Proc : "EXCLUSIVE" \in held[p] => r.exclusive = 1
        /\ \A p \in Proc : "ADVISORY" \in held[p] => r.advisory = 1
        /\ Cardinality(Readers) <= r.read

IInv == TypeOK /\ (~intruded => Compatible /\ Recorded)

\* Sets of readers are finite, and no larger than the set of all of them.
LEMMA ReadersFinite ==
    ASSUME NEW S \in SUBSET Readers
    PROVE  /\ IsFiniteSet(Readers) /\ Cardinality(Readers) \in Nat
           /\ IsFiniteSet(S) /\ Cardinality(S) \in Nat
           /\ Cardinality(S) <= Cardinality(Readers)
<1>1. Readers \subseteq Proc /\ IsFiniteSet(Proc)
  BY PkgLockAssumption DEF Readers
<1>2. IsFiniteSet(Readers)
  BY <1>1, FS_Subset
<1> QED
  BY <1>2, FS_Subset, FS_CardinalityType

\* Holding less, with the same table, keeps the invariant.
LEMMA HoldingLess ==
    ASSUME IInv, TypeOK', NEW p \in Proc, NEW S \in SUBSET held[p],
           held' = [held EXCEPT ![p] = S],
           rows' = rows, intruded' = FALSE => ~intruded
    PROVE  IInv'
<1> SUFFICES ASSUME ~intruded' PROVE Compatible' /\ Recorded'
  BY DEF IInv
<1>1. Compatible /\ Recorded /\ TypeOK
  BY DEF IInv, TypeOK
<1>2. \A q \in Proc : held'[q] \subseteq held[q]
  BY <1>1 DEF TypeOK
<1>3. Compatible'
  BY <1>1, <1>2 DEF Compatible, ExclusiveIsAlone, AdvisoryIsUnique
<1>4. Cardinality(Readers') <= Cardinality(Readers) /\ Cardinality(Readers') \in Nat
      /\ Cardinality(Readers) \in Nat
  <2>1. Readers' \in SUBSET Readers
    BY <1>2 DEF Readers
  <2> QED BY <2>1, ReadersFinite
<1>5. \A r \in rows : r.read \in Nat
  BY <1>1 DEF TypeOK, Row
<1>6. Recorded'
  BY <1>1, <1>2, <1>4, <1>5 DEF Recorded
<1> QED BY <1>3, <1>6

\* When only p holds anything and lets go of it, any table of equal rows will do.
LEMMA HoldingNothing ==
    ASSUME IInv, TypeOK', NEW p \in Proc, ~OthersHold(p),
           held' = [held EXCEPT ![p] = {}], \A r, s \in rows' : r = s
    PROVE  IInv'
<1>1. \A q \in Proc : held'[q] = {}
  BY DEF OthersHold, IInv, TypeOK
<1>2. Readers' = {}
  BY <1>1 DEF Readers
<1>3. Cardinality(Readers') = 0
  BY <1>2, FS_EmptySet
<1>4. \A r \in rows' : r.read \in Nat
  BY DEF TypeOK, Row
<1> QED
  BY <1>1, <1>3, <1>4
     DEF IInv, Compatible, ExclusiveIsAlone, AdvisoryIsUnique, Recorded

\* With no reader counted there is no reader.
LEMMA NoReader ==
    ASSUME Cardinality(Readers) <= 0
    PROVE  Readers = {}
<1>1. IsFiniteSet(Readers) /\ Cardinality(Readers) \in Nat
  BY ReadersFinite
<1>2. Cardinality(Readers) = 0
  BY <1>1
<1> QED BY <1>1, <1>2, FS_EmptySet

\* A lock statement that finds a row to change keeps the invariant.
LEMMA GrantKeepsIInv ==
    ASSUME IInv, TypeOK', NEW p \in Proc, Granted(op[p]),
           rows' = {IF Matches(op[p], r) THEN Locked(op[p], r) ELSE r : r \in rows},
           intruded' = (intruded \/ (~(Presumes(op[p]) \subseteq held[p]) /\ OthersHold(p))),
           NEW S \in SUBSET HeldAfter(op[p]), held' = [held EXCEPT ![p] = S]
    PROVE  IInv'
<1> SUFFICES ASSUME ~intruded' PROVE Compatible' /\ Recorded'
  BY DEF IInv
<1>1. Compatible /\ Recorded /\ TypeOK
  BY DEF IInv, TypeOK
<1>2. PICK r \in rows : Matches(op[p], r)
  BY DEF Granted
<1>3. rows = {r} /\ rows' = {Locked(op[p], r)} /\ r \in Row
  BY <1>1, <1>2 DEF Recorded, TypeOK
<1>4. /\ \A q \in Proc \ {p} : held'[q] = held[q]
      /\ held'[p] = S
      /\ \A q \in Proc : held[q] \subseteq Locks
  BY <1>1 DEF TypeOK
<1>5. r.read \in Nat /\ r.exclusive \in {0, 1} /\ r.advisory \in {0, 1}
  BY <1>3 DEF Row
<1>6. /\ Cardinality(Readers) \in Nat /\ Cardinality(Readers) <= r.read
      /\ IsFiniteSet(Readers)
  BY <1>1, ReadersFinite DEF Recorded
<1>7. Readers' \subseteq Readers \/ (Readers' \subseteq Readers \cup {p} /\ "READONLY" \in S)
  BY <1>4 DEF Readers
<1>8. ASSUME Readers' \subseteq Readers
      PROVE  Cardinality(Readers') <= r.read
  <2>1. Readers' \in SUBSET Readers
    BY <1>8
  <2>2. Cardinality(Readers') \in Nat /\ Cardinality(Readers') <= Cardinality(Readers)
    BY <2>1, ReadersFinite
  <2> QED BY <2>2, <1>5, <1>6
<1>9. CASE op[p] = "READONLY"
  <2>1. S \subseteq {"READONLY"} /\ r.exclusive = 0 /\ Locked(op[p], r) = [r EXCEPT !.read = r.read + 1]
    BY <1>2, <1>9 DEF HeldAfter, Matches, Locked, Locks
  <2>2. Cardinality(Readers') <= r.read + 1
    <3>1. Cardinality(Readers \cup {p}) <= Cardinality(Readers) + 1
          /\ Cardinality(Readers \cup {p}) \in Nat /\ IsFiniteSet(Readers \cup {p})
      <4>1. IsFiniteSet(Readers \cup {p})
        BY <1>6, FS_AddElement
      <4>2. Cardinality(Readers \cup {p}) = IF p \in Readers THEN Cardinality(Readers)
                                           ELSE Cardinality(Readers) + 1
        BY <1>6, FS_AddElement
      <4> QED BY <1>6, <4>1, <4>2
    <3>2. Cardinality(Readers') <= Cardinality(Readers \cup {p}) /\ Cardinality(Readers') \in Nat
      <4>1. Readers' \subseteq Readers \cup {p}
        BY <1>7
      <4> QED BY <4>1, <3>1, FS_Subset, FS_CardinalityType
    <3> QED BY <3>1, <3>2, <1>5, <1>6
  <2>3. \A q \in Proc : "EXCLUSIVE" \notin held[q] /\ "EXCLUSIVE" \notin held'[q]
    BY <1>1, <1>3, <1>4, <2>1 DEF Recorded
  <2>4. \A q \in Proc : "ADVISORY" \in held'[q] => "ADVISORY" \in held[q]
    BY <1>4, <2>1
  <2>5. Compatible'
    BY <1>1, <2>3, <2>4 DEF Compatible, ExclusiveIsAlone, AdvisoryIsUnique
  <2>6. Locked(op[p], r).read = r.read + 1 /\ Locked(op[p], r).advisory = r.advisory
    BY <1>3, <2>1 DEF Row
  <2>7. Recorded'
    BY <1>1, <1>3, <2>2, <2>3, <2>4, <2>6 DEF Recorded
  <2> QED BY <2>5, <2>7
<1>10. CASE op[p] = "ADVISORY"
  <2>1. /\ S \subseteq {"ADVISORY"} /\ r.exclusive = 0 /\ r.advisory = 0
        /\ Locked(op[p], r) = [r EXCEPT !.advisory = 1]
    BY <1>2, <1>10 DEF HeldAfter, Matches, Locked, Locks
  <2>2. Locked(op[p], r).read = r.read /\ Locked(op[p], r).advisory = 1
    BY <1>3, <2>1 DEF Row
  <2>3. \A q \in Proc : "EXCLUSIVE" \notin held[q] /\ "ADVISORY" \notin held[q]
    BY <1>1, <1>3, <2>1 DEF Recorded
  <2>4. \A q \in Proc : "EXCLUSIVE" \notin held'[q] /\ ("ADVISORY" \in held'[q] => q = p)
    BY <1>4, <2>1, <2>3
  <2>5. Compatible'
    BY <2>4 DEF Compatible, ExclusiveIsAlone, AdvisoryIsUnique
  <2>6. Cardinality(Readers') <= r.read
    BY <1>7, <1>8, <2>1
  <2>7. Recorded'
    BY <1>3, <2>2, <2>4, <2>6 DEF Recorded
  <2> QED BY <2>5, <2>7
<1>11. CASE op[p] \in {"EXCLUSIVE", "UPGRADE", "DOWNGRADE"}
  <2>1. /\ S \subseteq {"ADVISORY", "EXCLUSIVE"}
        /\ r.read = 0
        /\ "EXCLUSIVE" \in S => Locked(op[p], r).exclusive = 1
        /\ "ADVISORY" \in S => Locked(op[p], r).advisory = 1
        /\ Locked(op[p], r).read = r.read
    <3>1. CASE op[p] = "EXCLUSIVE"
      <4>1. S \subseteq {"EXCLUSIVE"} /\ r.read = 0 /\ Locked(op[p], r) = [r EXCEPT !.exclusive = 1]
        BY <1>2, <3>1 DEF HeldAfter, Matches, Locked, Locks
      <4> QED BY <1>3, <4>1 DEF Row
    <3>2. CASE op[p] = "UPGRADE"
      <4>1. /\ S \subseteq {"ADVISORY", "EXCLUSIVE"} /\ r.read = 0
            /\ Locked(op[p], r) = [r EXCEPT !.exclusive = 1, !.advisory = 1]
        BY <1>2, <3>2 DEF HeldAfter, Matches, Locked, Locks
      <4> QED BY <1>3, <4>1 DEF Row
    <3>3. CASE op[p] = "DOWNGRADE"
      <4>1. /\ S \subseteq {"ADVISORY"} /\ r.read = 0
            /\ Locked(op[p], r) = [r EXCEPT !.exclusive = 0, !.advisory = 1]
        BY <1>2, <3>3 DEF HeldAfter, Matches, Locked, Locks
      <4> QED BY <1>3, <4>1 DEF Row
    <3> QED BY <1>11, <3>1, <3>2, <3>3
  <2>2. Readers = {}
    BY <1>6, <2>1, NoReader
  <2>3. \A q \in Proc \ {p} : held[q] = {}
    <3>1. CASE op[p] = "EXCLUSIVE"
      <4>1. r.exclusive = 0 /\ r.advisory = 0
        BY <1>2, <3>1 DEF Matches
      <4>2. \A q \in Proc : "EXCLUSIVE" \notin held[q] /\ "ADVISORY" \notin held[q] /\ "READONLY" \notin held[q]
        BY <1>1, <1>3, <2>2, <4>1 DEF Recorded, Readers
      <4> QED BY <1>4, <4>2 DEF Locks
    <3>2. CASE op[p] = "UPGRADE" /\ OthersHold(p)
      <4>1. r.exclusive = 0 /\ "ADVISORY" \in held[p]
        BY <1>2, <3>2 DEF Matches, Presumes, Locks
      <4>2. \A q \in Proc \ {p} : "EXCLUSIVE" \notin held[q] /\ "ADVISORY" \notin held[q] /\ "READONLY" \notin held[q]
        BY <1>1, <1>3, <2>2, <4>1 DEF Recorded, Readers, Compatible, AdvisoryIsUnique
      <4> QED BY <1>4, <4>2 DEF Locks
    <3>3. CASE op[p] = "DOWNGRADE" /\ OthersHold(p)
      <4>1. "EXCLUSIVE" \in held[p]
        BY <3>3 DEF Presumes, Locks
      <4> QED BY <1>1, <4>1 DEF Compatible, ExclusiveIsAlone
    <3>4. CASE ~OthersHold(p)
      BY <3>4 DEF OthersHold
    <3> QED BY <1>11, <3>1, <3>2, <3>3, <3>4
  <2>4. \A q \in Proc \ {p} : held'[q] = {}
    BY <1>4, <2>3
  <2>5. Compatible'
    BY <2>4 DEF Compatible, ExclusiveIsAlone, AdvisoryIsUnique
  <2>6. Cardinality(Readers') <= r.read
    BY <1>7, <1>8, <2>1
  <2>7. Recorded'
    BY <1>3, <1>4, <2>1, <2>4, <2>6 DEF Recorded
  <2> QED BY <2>5, <2>7
<1> QED
  BY <1>1, <1>9, <1>10, <1>11 DEF TypeOK, Ops, Locks

\* A release keeps the invariant: it clears a flag nobody else holds, or takes
\* from the count of readers the one that leaves.
LEMMA ReleaseKeepsIInv ==
    ASSUME IInv, TypeOK', NEW p \in Proc, op[p] \in Locks,
           rows' = {IF Unlockable(op[p], r) THEN Unlocked(op[p], r) ELSE r : r \in rows},
           intruded' = (intruded \/ (op[p] \notin held[p] /\ rows' # rows /\ OthersHold(p))),
           NEW S \in SUBSET (held[p] \ {op[p]}), held' = [held EXCEPT ![p] = S]
    PROVE  IInv'
<1> SUFFICES ASSUME ~intruded' PROVE Compatible' /\ Recorded'
  BY DEF IInv
<1>1. Compatible /\ Recorded /\ TypeOK
  BY DEF IInv, TypeOK
<1>2. CASE rows' = rows
  <2>1. S \in SUBSET held[p]
    OBVIOUS
  <2> QED BY <2>1, <1>2, HoldingLess DEF IInv
<1>3. CASE rows' # rows
  <2>1. PICK r \in rows : Unlockable(op[p], r)
    BY <1>3
  <2>2. rows = {r} /\ rows' = {Unlocked(op[p], r)} /\ r \in Row
    BY <1>1, <2>1 DEF Recorded, TypeOK
  <2>3. r.read \in Nat /\ r.exclusive \in {0, 1} /\ r.advisory \in {0, 1}
    BY <2>2 DEF Row
  <2>4. op[p] \in held[p] \/ ~OthersHold(p)
    BY <1>3
  <2>5. /\ \A q \in Proc \ {p} : held'[q] = held[q]
        /\ held'[p] \subseteq held[p] /\ op[p] \notin held'[p]
        /\ \A q \in Proc : held'[q] \subseteq held[q]
    BY <1>1 DEF TypeOK
  <2>6. Compatible'
    BY <1>1, <2>5 DEF Compatible, ExclusiveIsAlone, AdvisoryIsUnique
  <2>7. /\ Cardinality(Readers) \in Nat /\ Cardinality(Readers) <= r.read
        /\ IsFiniteSet(Readers)
    BY <1>1, <2>2, ReadersFinite DEF Recorded
  <2>8. Cardinality(Readers') <= r.read
    <3>1. Readers' \in SUBSET Readers
      BY <2>5 DEF Readers
    <3>2. Cardinality(Readers') \in Nat /\ Cardinality(Readers') <= Cardinality(Readers)
      BY <3>1, ReadersFinite
    <3> QED BY <3>2, <2>3, <2>7
  <2>9. CASE op[p] \in {"ADVISORY", "EXCLUSIVE"}
    <3>1. \A q \in Proc : op[p] \notin held'[q]
      <4>1. CASE op[p] \in held[p]
        BY <1>1, <2>5, <2>9, <4>1 DEF Compatible, ExclusiveIsAlone, AdvisoryIsUnique
      <4>2. CASE ~OthersHold(p)
        BY <2>5, <4>2 DEF OthersHold
      <4> QED BY <2>4, <4>1, <4>2
    <3>2. /\ Unlocked(op[p], r).read = r.read
          /\ op[p] # "EXCLUSIVE" => Unlocked(op[p], r).exclusive = r.exclusive
          /\ op[p] # "ADVISORY" => Unlocked(op[p], r).advisory = r.advisory
      <4>1. CASE op[p] = "ADVISORY"
        <5>1. Unlocked(op[p], r) = [r EXCEPT !.advisory = 0]
          BY <4>1 DEF Unlocked
        <5> QED BY <2>2, <4>1, <5>1 DEF Row
      <4>2. CASE op[p] = "EXCLUSIVE"
        <5>1. Unlocked(op[p], r) = [r EXCEPT !.exclusive = 0]
          BY <4>2 DEF Unlocked
        <5> QED BY <2>2, <4>2, <5>1 DEF Row
      <4> QED BY <2>9, <4>1, <4>2
    <3>3. Recorded'
      BY <1>1, <2>2, <2>5, <2>8, <3>1, <3>2 DEF Recorded
    <3> QED BY <2>6, <3>3
  <2>10. CASE op[p] = "READONLY"
    <3>1. r.read > 0 /\ Unlocked(op[p], r) = [r EXCEPT !.read = r.read - 1]
      BY <2>1, <2>10 DEF Unlockable, Unlocked
    <3>2. /\ Unlocked(op[p], r).read = r.read - 1
          /\ Unlocked(op[p], r).exclusive = r.exclusive
          /\ Unlocked(op[p], r).advisory = r.advisory
      BY <2>2, <3>1 DEF Row
    <3>3. Cardinality(Readers') <= r.read - 1
      <4>1. CASE p \in Readers
        <5>1. IsFiniteSet(Readers \ {p})
          BY <2>7, FS_RemoveElement
        <5>2. Cardinality(Readers \ {p}) = Cardinality(Readers) - 1
          BY <2>7, <4>1, FS_RemoveElement
        <5>3. Readers' \subseteq Readers \ {p}
          BY <2>5, <2>10 DEF Readers
        <5>4. Cardinality(Readers') <= Cardinality(Readers \ {p})
              /\ Cardinality(Readers') \in Nat
          BY <5>1, <5>3, FS_Subset, FS_CardinalityType
        <5> QED BY <2>3, <2>7, <5>2, <5>4
      <4>2. CASE p \notin Readers
        <5>1. Readers' = {}
          BY <2>4, <2>5, <2>10, <4>2 DEF Readers, OthersHold
        <5>2. Cardinality(Readers') = 0
          BY <5>1, FS_EmptySet
        <5> QED BY <2>3, <3>1, <5>2
      <4> QED BY <4>1, <4>2
    <3>4. Recorded'
      BY <1>1, <2>2, <2>5, <3>2, <3>3 DEF Recorded
    <3> QED BY <2>6, <3>4
  <2> QED BY <2>9, <2>10 DEF Locks
<1> QED BY <1>2, <1>3

\* The sets of locks a single grant can leave a process with.
GrantedSets == {{"READONLY"}, {"ADVISORY"}, {"EXCLUSIVE"}, {"ADVISORY", "EXCLUSIVE"}}

\* Every step preserves the invariant, and moves what one process holds: down
\* by a release, a reset or an exit, or to what one statement grants.
LEMMA StepKeepsIInv ==
    ASSUME IInv, TypeOK', NEW p \in Proc, Step(p) \/ Crash(p)
    PROVE  /\ IInv'
           /\ \E S \in GrantedSets \cup SUBSET held[p] :
                held' = [held EXCEPT ![p] = S]
<1>1. TypeOK /\ held \in [Proc -> SUBSET Locks]
  BY DEF IInv, TypeOK
<1>2. ASSUME \E S \in SUBSET held[p] : held' = [held EXCEPT ![p] = S],
             rows' = rows, intruded' = FALSE => ~intruded
      PROVE  /\ IInv'
             /\ \E S \in GrantedSets \cup SUBSET held[p] :
                  held' = [held EXCEPT ![p] = S]
  BY <1>2, HoldingLess
<1>3. ASSUME held' = held PROVE held' = [held EXCEPT ![p] = held[p]]
  BY <1>1, <1>3
<1>4. held[p] \in SUBSET held[p] /\ {} \in SUBSET held[p]
  OBVIOUS
<1>5. ASSUME NEW ok \in BOOLEAN, NEW h \in SUBSET held[p], Return(p, ok, h)
      PROVE  \E S \in SUBSET held[p] : held' = [held EXCEPT ![p] = S]
  <2>1. h \in SUBSET Locks
    BY <1>1
  <2>2. PICK S \in SUBSET h : held' = [held EXCEPT ![p] = S]
    BY <1>1, <1>5, <2>1, ReturnType
  <2> QED BY <2>2
<1>6. CASE Choose(p)
  <2>1. PICK a \in Choices(cmd[p], at[p], round[p]) :
            held' = [held EXCEPT ![p] = IF a = "end" THEN {} ELSE @]
    BY <1>6 DEF Choose
  <2>2. \E S \in SUBSET held[p] : held' = [held EXCEPT ![p] = S]
    BY <1>4, <2>1
  <2> QED BY <1>2, <1>6, <2>2 DEF Choose
<1>7. CASE Grant(p)
  <2>1. /\ Granted(op[p])
        /\ rows' = {IF Matches(op[p], r) THEN Locked(op[p], r) ELSE r : r \in rows}
        /\ intruded' = (intruded \/ (~(Presumes(op[p]) \subseteq held[p]) /\ OthersHold(p)))
    BY <1>7 DEF Grant
  <2>2. HeldAfter(op[p]) \in GrantedSets /\ HeldAfter(op[p]) \in SUBSET Locks
    <3>1. op[p] \in Ops
      BY <1>1 DEF TypeOK
    <3> QED BY <3>1 DEF HeldAfter, Ops, Locks, GrantedSets
  <2>3. \E S \in {{}, HeldAfter(op[p])} : held' = [held EXCEPT ![p] = S]
    BY <1>7 DEF Grant, Return
  <2>4. PICK S \in {{}, HeldAfter(op[p])} : held' = [held EXCEPT ![p] = S]
    BY <2>3
  <2>5. IInv'
    <3>1. S \in SUBSET HeldAfter(op[p])
      OBVIOUS
    <3> QED BY <2>1, <2>4, <3>1, GrantKeepsIInv
  <2> QED BY <1>4, <2>2, <2>4, <2>5
<1>8. CASE WriteLockPid(p)
  BY <1>2, <1>4, <1>5, <1>8 DEF WriteLockPid
<1>9. CASE Refuse(p)
  BY <1>2, <1>3, <1>4, <1>9 DEF Refuse
<1>10. ASSUME Retry(p)
       PROVE \E S \in SUBSET held[p] : held' = [held EXCEPT ![p] = S]
  BY <1>1, <1>10, RetryType
<1>11. CASE CheckLockPid(p)
  <2>1. rows' = rows /\ intruded' = intruded /\ (Retry(p) \/ held' = held)
    BY <1>11 DEF CheckLockPid
  <2> QED BY <1>2, <1>3, <1>4, <1>10, <2>1
<1>12. CASE ResetLock(p) \/ DeleteRows(p)
  <2>1. /\ held' = [held EXCEPT ![p] = {}]
        /\ \A r, s \in rows' : r = s
        /\ intruded' = (intruded \/ OthersHold(p))
    BY <1>12 DEF ResetLock, DeleteRows
  <2>2. CASE OthersHold(p)
    BY <2>1, <2>2, <1>4 DEF IInv
  <2>3. CASE ~OthersHold(p)
    BY <2>1, <2>3, <1>4, HoldingNothing
  <2> QED BY <2>2, <2>3
<1>13. CASE RemoveOwnPid(p)
  BY <1>2, <1>3, <1>4, <1>13 DEF RemoveOwnPid
<1>14. CASE ReinsertRow(p)
  <2>1. /\ held' = held /\ rows' = rows \cup {Free}
        /\ intruded' = (intruded \/ rows # {})
    BY <1>14 DEF ReinsertRow
  <2>2. CASE intruded'
    BY <2>1, <2>2, <1>3, <1>4 DEF IInv
  <2>3. CASE ~intruded'
    <3>1. rows = {} /\ ~intruded /\ rows' = {Free}
      BY <2>1, <2>3 DEF TypeOK
    <3>2. \A q \in Proc : held[q] = {}
      BY <3>1 DEF IInv, Recorded
    <3>3. ~OthersHold(p) /\ held' = [held EXCEPT ![p] = {}]
      BY <2>1, <3>2, <1>1 DEF OthersHold
    <3> QED BY <3>1, <3>3, <1>4, HoldingNothing
  <2> QED BY <2>2, <2>3
<1>15. CASE ReleaseLock(p)
  <2>1. /\ op[p] \in Locks
        /\ rows' = {IF Unlockable(op[p], r) THEN Unlocked(op[p], r) ELSE r : r \in rows}
        /\ intruded' = (intruded \/ (op[p] \notin held[p] /\ rows' # rows /\ OthersHold(p)))
    BY <1>1, <1>15 DEF ReleaseLock, TypeOK
  <2>2. \E S \in SUBSET (held[p] \ {op[p]}) : held' = [held EXCEPT ![p] = S]
    <3>1. held[p] \ {op[p]} \in SUBSET (held[p] \ {op[p]}) /\ {} \in SUBSET (held[p] \ {op[p]})
      OBVIOUS
    <3> QED BY <1>15, <3>1 DEF ReleaseLock, Return
  <2>3. PICK S \in SUBSET (held[p] \ {op[p]}) : held' = [held EXCEPT ![p] = S]
    BY <2>2
  <2>4. IInv'
    BY <2>1, <2>3, ReleaseKeepsIInv
  <2> QED BY <2>3, <2>4
<1>16. CASE ReleasePid(p)
  BY <1>2, <1>4, <1>5, <1>16 DEF ReleasePid
<1>17. CASE SqlFails(p)
  <2>1. rows' = rows /\ intruded' = intruded
        /\ (Return(p, FALSE, held[p]) \/ Retry(p) \/ held' = held)
    BY <1>17 DEF SqlFails
  <2> QED BY <1>2, <1>3, <1>4, <1>5, <1>10, <2>1
<1>18. CASE Crash(p)
  BY <1>2, <1>4, <1>18 DEF Crash
<1> QED
  BY <1>6, <1>7, <1>8, <1>9, <1>11, <1>12, <1>13, <1>14, <1>15, <1>16,
     <1>17, <1>18 DEF Step

\* The inductive invariant holds of every behaviour.
LEMMA IInvInvariant == Spec => []IInv
<1>1. Init => IInv
  <2> SUFFICES ASSUME Init PROVE IInv
    OBVIOUS
  <2>1. TypeOK
    BY InitType
  <2>2. Readers = {}
    BY DEF Init, Readers
  <2>3. Cardinality(Readers) = 0
    BY <2>2, FS_EmptySet
  <2>4. Compatible
    BY DEF Init, Compatible, ExclusiveIsAlone, AdvisoryIsUnique
  <2>5. Recorded
    BY <2>3 DEF Init, Recorded, Free
  <2> QED BY <2>1, <2>4, <2>5 DEF IInv
<1>2. IInv /\ TypeOK' /\ [Next]_vars => IInv'
  <2>1. ASSUME IInv, TypeOK', Next PROVE IInv'
    BY <2>1, StepKeepsIInv DEF Next
  <2>2. ASSUME IInv, TypeOK', UNCHANGED vars PROVE IInv'
    BY <2>2 DEF vars, IInv, Compatible, ExclusiveIsAlone, AdvisoryIsUnique,
                Recorded, Readers
  <2> QED BY <2>1, <2>2
<1> QED BY <1>1, <1>2, LockTypeCorrect, PTL DEF Spec

\* Incompatible locks are granted only after something was usurped.
THEOREM LockExclusion == Spec => []LocksExclude
<1>1. IInv => LocksExclude
  BY DEF IInv, Compatible, LocksExclude
<1> QED BY <1>1, IInvInvariant, PTL

\* Until then the table records every holder.
THEOREM LockRecords == Spec => []RowsRecordHolders
<1>1. IInv => RowsRecordHolders
  BY DEF IInv, Recorded, RowsRecordHolders
<1> QED BY <1>1, IInvInvariant, PTL

\* The statements on the two tables implement the lock pkg.h.in describes, in
\* every step that usurps nothing.
THEOREM LockImplementsDbLock == Spec => StepsAreLockSteps
<1>1. IInv /\ IInv' /\ [Next]_vars => [~intruded' => Lock!Next]_<<held, intruded>>
  <2> SUFFICES ASSUME IInv, IInv', [Next]_vars, ~intruded', <<held, intruded>>' # <<held, intruded>>
               PROVE  Lock!Next
    OBVIOUS
  <2>1. Next
    BY DEF vars
  <2>2. PICK p \in Proc : Step(p) \/ Crash(p)
    BY <2>1 DEF Next
  <2>3. TypeOK'
    BY DEF IInv
  <2>4. PICK S \in GrantedSets \cup SUBSET held[p] : held' = [held EXCEPT ![p] = S]
    BY <2>2, <2>3, StepKeepsIInv
  <2>5. /\ Compatible'
        /\ held'[p] = S /\ \A q \in Proc \ {p} : held'[q] = held[q]
    BY <2>4 DEF IInv, TypeOK
  <2>6. CASE S \in SUBSET held[p]
    BY <2>4, <2>6 DEF Lock!Next, Lock!GiveUp
  <2>7. CASE S = {"READONLY"}
    <3>1. \A q \in Proc \ {p} : held[q] \cap {"EXCLUSIVE"} = {}
      BY <2>5, <2>7 DEF Compatible, ExclusiveIsAlone
    <3> QED BY <2>4, <2>7, <3>1 DEF Lock!Next, Lock!Read, Lock!NobodyElse
  <2>8. CASE S = {"ADVISORY"}
    <3>1. \A q \in Proc \ {p} : held[q] \cap {"ADVISORY", "EXCLUSIVE"} = {}
      BY <2>5, <2>8 DEF Compatible, ExclusiveIsAlone, AdvisoryIsUnique
    <3> QED BY <2>4, <2>8, <3>1 DEF Lock!Next, Lock!Announce, Lock!NobodyElse
  <2>9. CASE S \in {{"EXCLUSIVE"}, {"ADVISORY", "EXCLUSIVE"}}
    <3>1. \A q \in Proc \ {p} : held[q] \cap Lock!Anything = {}
      BY <2>5, <2>9 DEF Compatible, ExclusiveIsAlone
    <3> QED BY <2>4, <2>9, <3>1 DEF Lock!Next, Lock!Own, Lock!NobodyElse
  <2> QED BY <2>4, <2>6, <2>7, <2>8, <2>9 DEF GrantedSets
<1> QED BY <1>1, IInvInvariant, PTL DEF Spec, StepsAreLockSteps

----------------------------------------------------------------------------
(* Where the calls of a command stand, and who is registered.               *)

\* Which statements a call runs.
CallShape(p) ==
    /\ at[p] \in Resting => pc[p] = "idle"
    /\ at[p] \in {"obtain", "upgrade", "downgrade"} => pc[p] \notin {"idle", "unlock", "relpid"}
    /\ at[p] \in {"unlock", "cancel", "release"} => pc[p] \in {"unlock", "relpid"}
    /\ at[p] = "obtain" => op[p] = LockOf(cmd[p])

\* Who is in pkg_lock_pid: a first upgrade finds its caller there, and forgets it
\* only together with the conversion it was asked for.
Registered(p) ==
    /\ at[p] = "work" /\ (cmd[p] = "read" => ReadLock) => p \in pids
    /\ cmd[p] = "jobs" /\ round[p] = 1 =>
        /\ at[p] = "execute" => p \in pids
        /\ at[p] = "upgrade" /\ Conversion(op[p]) => p \in pids

CallInv == \A p \in Proc : CallShape(p) /\ Registered(p)

\* Where Arrive leads: to the point named, or past a call that does nothing.
LEMMA ArrivePoint ==
    ASSUME TypeOK, NEW p \in Proc, NEW c \in Commands, NEW n \in Nat,
           NEW a \in Calls \cup Resting, Arrive(p, c, a, n)
    PROVE  /\ at'[p] \in Calls \cup Resting
           /\ \/ at'[p] = a
              \/ /\ a \in Calls /\ c = "read" /\ ~ReadLock
                 /\ a = "obtain" => at'[p] = "work"
                 /\ a = "release" => at'[p] = "end"
           /\ a \in Calls \ {"cancel"} /\ c = "read" /\ ~ReadLock => at'[p] \notin Calls
           /\ at'[p] = "start" => a = "start"
           /\ op'[p] = OpOf(c, at'[p])
           /\ pc'[p] = IF at'[p] \in Resting THEN "idle"
                       ELSE IF at'[p] \in {"unlock", "cancel", "release"} THEN "unlock"
                       ELSE "update"
           /\ round'[p] = IF at'[p] = "upgrade" THEN n + 1 ELSE n
<1> DEFINE noop == a \in Calls /\ c = "read" /\ ~ReadLock
           b == IF noop THEN After(c, a, n, TRUE) ELSE a
<1>1. /\ b \in Calls \cup Resting
      /\ b = "start" => a = "start"
      /\ a \in Calls \ {"cancel"} /\ c = "read" /\ ~ReadLock => b \notin Calls
  BY DEF After, Calls, Resting
<1>2. \/ b = a
      \/ /\ a \in Calls /\ c = "read" /\ ~ReadLock
         /\ a = "obtain" => b = "work"
         /\ a = "release" => b = "end"
  BY DEF After
<1>3. /\ at' = [at EXCEPT ![p] = b]
      /\ pc' = [pc EXCEPT ![p] =
                  IF b \in Resting THEN "idle"
                  ELSE IF b \in {"unlock", "cancel", "release"} THEN "unlock"
                  ELSE "update"]
      /\ op' = [op EXCEPT ![p] = OpOf(c, b)]
      /\ round' = [round EXCEPT ![p] = IF b = "upgrade" THEN n + 1 ELSE n]
  BY DEF Arrive
<1> HIDE DEF b
<1>4. /\ at'[p] = b /\ op'[p] = OpOf(c, b)
      /\ pc'[p] = IF b \in Resting THEN "idle"
                  ELSE IF b \in {"unlock", "cancel", "release"} THEN "unlock"
                  ELSE "update"
      /\ round'[p] = IF b = "upgrade" THEN n + 1 ELSE n
  BY <1>3 DEF TypeOK
<1> QED BY <1>1, <1>2, <1>4

\* Arriving gives a call its shape.
LEMMA ArriveShape ==
    ASSUME TypeOK, NEW p \in Proc, NEW n \in Nat, NEW a \in Calls \cup Resting,
           Arrive(p, cmd[p], a, n), cmd' = cmd
    PROVE  CallShape(p)'
<1>1. cmd[p] \in Commands
  BY DEF TypeOK
<1>2. /\ at'[p] \in Calls \cup Resting /\ op'[p] = OpOf(cmd[p], at'[p])
      /\ pc'[p] = IF at'[p] \in Resting THEN "idle"
                  ELSE IF at'[p] \in {"unlock", "cancel", "release"} THEN "unlock"
                  ELSE "update"
  BY <1>1, ArrivePoint
<1> QED BY <1>2 DEF CallShape, OpOf, Resting, Calls

\* A call that returns leads to work or to execution only when it succeeds, and
\* never straight into an upgrade.
LEMMA ReturnShape ==
    ASSUME TypeOK, NEW p \in Proc, NEW ok \in BOOLEAN, NEW h, Return(p, ok, h), cmd' = cmd,
           at[p] \in Calls, at[p] = "obtain" /\ ok => p \in pids',
           at[p] = "upgrade" /\ cmd[p] = "jobs" /\ round[p] = 1 /\ ok => p \in pids'
    PROVE  CallShape(p)' /\ Registered(p)'
<1>1. cmd[p] \in Commands /\ round[p] \in Nat
  BY DEF TypeOK
<1>2. PICK a \in Calls \cup Resting :
         a = After(cmd[p], at[p], round[p], ok) /\ Arrive(p, cmd[p], a, round[p])
  BY DEF Return, After, Calls, Resting
<1>3. CallShape(p)'
  BY <1>1, <1>2, ArriveShape
<1>4. at'[p] = a \/ (cmd[p] = "read" /\ ~ReadLock)
  BY <1>1, <1>2, ArrivePoint
<1>5. /\ a = "work" => at[p] = "obtain" /\ ok
      /\ a = "execute" => at[p] = "upgrade" /\ ok
      /\ a # "upgrade"
  BY <1>2 DEF After, Calls
<1>6. cmd[p] = "jobs" => at'[p] # "upgrade" /\ round'[p] = round[p]
  BY <1>1, <1>2, <1>4, <1>5, ArrivePoint
<1>7. Registered(p)'
  BY <1>4, <1>5, <1>6 DEF Registered
<1> QED BY <1>3, <1>7

\* No process moves another, or makes the table forget it while it lives.
LEMMA OthersKept ==
    ASSUME TypeOK, NEW p \in Proc, Step(p) \/ Crash(p), NEW q \in Proc \ {p}
    PROVE  /\ at'[q] = at[q] /\ pc'[q] = pc[q] /\ op'[q] = op[q]
           /\ round'[q] = round[q] /\ held'[q] = held[q] /\ cmd'[q] = cmd[q]
           /\ q \in pids /\ Alive(q) => q \in pids'
           /\ q \in pids' => q \in pids
<1>1. \A a, c, n : Arrive(p, c, a, n) =>
         at'[q] = at[q] /\ pc'[q] = pc[q] /\ op'[q] = op[q] /\ round'[q] = round[q]
  BY DEF Arrive, TypeOK
<1>2. \A ok, h : Return(p, ok, h) =>
         /\ at'[q] = at[q] /\ pc'[q] = pc[q] /\ op'[q] = op[q] /\ round'[q] = round[q]
         /\ held'[q] = held[q]
  BY <1>1 DEF Return, TypeOK
<1>3. Retry(p) =>
         /\ at'[q] = at[q] /\ pc'[q] = pc[q] /\ op'[q] = op[q] /\ round'[q] = round[q]
         /\ held'[q] = held[q]
  BY <1>2 DEF Retry, TypeOK
<1>4. CASE Choose(p)
  BY <1>1, <1>4 DEF Choose, TypeOK
<1>5. CASE Grant(p)
  BY <1>2, <1>5 DEF Grant, TypeOK
<1>6. CASE WriteLockPid(p)
  BY <1>2, <1>6 DEF WriteLockPid
<1>7. CASE Refuse(p)
  BY <1>7 DEF Refuse, TypeOK
<1>8. CASE CheckLockPid(p)
  BY <1>3, <1>8 DEF CheckLockPid, TypeOK
<1>9. CASE ResetLock(p) \/ DeleteRows(p)
  BY <1>9 DEF ResetLock, DeleteRows, TypeOK
<1>10. CASE RemoveOwnPid(p) \/ ReinsertRow(p)
  BY <1>10 DEF RemoveOwnPid, ReinsertRow, ObtainAgain, TypeOK
<1>11. CASE ReleaseLock(p)
  BY <1>2, <1>11 DEF ReleaseLock, TypeOK
<1>12. CASE ReleasePid(p)
  BY <1>2, <1>12 DEF ReleasePid
<1>13. CASE SqlFails(p)
  BY <1>2, <1>3, <1>13 DEF SqlFails, ObtainAgain, TypeOK
<1>14. CASE Crash(p)
  BY <1>14 DEF Crash, TypeOK
<1> QED
  BY <1>4, <1>5, <1>6, <1>7, <1>8, <1>9, <1>10, <1>11, <1>12, <1>13, <1>14 DEF Step

\* Every step of a process keeps its own call in shape and itself registered.
LEMMA StepKeepsOwnCall ==
    ASSUME TypeOK, TypeOK', CallInv, NEW p \in Proc, Step(p) \/ Crash(p)
    PROVE  CallShape(p)' /\ Registered(p)'
<1>1. /\ CallShape(p) /\ Registered(p)
      /\ cmd[p] \in Commands /\ round[p] \in Nat /\ op[p] \in Ops
      /\ at[p] \in Calls \cup Resting
  BY DEF CallInv, TypeOK
<1>2. cmd' = cmd
  BY DEF Step, Choose, Grant, WriteLockPid, Refuse, CheckLockPid, ResetLock,
         RemoveOwnPid, DeleteRows, ReinsertRow, ReleaseLock, ReleasePid, SqlFails, Crash
<1>3. pc[p] # "idle" => at[p] \in Calls
  BY <1>1 DEF CallShape
<1>4. ~Conversion(LockOf(cmd[p])) /\ Target(LockOf(cmd[p])) = LockOf(cmd[p])
  BY DEF Conversion, LockOf, Target, Locks
<1>5. ASSUME Return(p, FALSE, held[p]), pc[p] # "idle"
      PROVE  CallShape(p)' /\ Registered(p)'
  BY <1>2, <1>3, <1>5, ReturnShape
<1>6. ASSUME Retry(p), pc[p] = "scan", p \in pids => p \in pids'
      PROVE  CallShape(p)' /\ Registered(p)'
  <2>1. CASE tries[p] + 1 <= MaxTries
    BY <1>1, <1>2, <1>3, <1>6, <2>1 DEF Retry, TypeOK, CallShape, Registered, Calls, Resting
  <2>2. CASE ~(tries[p] + 1 <= MaxTries)
    BY <1>5, <1>6, <2>2 DEF Retry
  <2> QED BY <2>1, <2>2
<1>7. ASSUME NEW c \in {"scan", "insert", "reset", "unpid", "delete", "reinsert"},
             pc' = [pc EXCEPT ![p] = c], UNCHANGED <<at, op, round>>,
             pc[p] \notin {"idle", "unlock", "relpid"}, p \in pids => p \in pids'
      PROVE  CallShape(p)' /\ Registered(p)'
  BY <1>1, <1>2, <1>3, <1>7 DEF TypeOK, CallShape, Registered, Calls, Resting
<1>8. ASSUME ObtainAgain(p), UNCHANGED <<at, round>>,
             pc[p] \in {"unpid", "delete", "reinsert"}
      PROVE  CallShape(p)' /\ Registered(p)'
  <2>1. op'[p] = Target(op[p]) /\ pc'[p] = "update" /\ at'[p] = at[p] /\ round'[p] = round[p]
    BY <1>8 DEF ObtainAgain, TypeOK
  <2>2. ~Conversion(Target(op[p]))
    BY <1>1 DEF Conversion, Target, Ops, Locks
  <2> QED BY <1>1, <1>2, <1>3, <1>4, <1>8, <2>1, <2>2 DEF CallShape, Registered, Calls, Resting
<1>9. CASE Choose(p)
  <2>1. PICK a \in Choices(cmd[p], at[p], round[p]) : Arrive(p, cmd[p], a, round[p])
    BY <1>9 DEF Choose
  <2>2. /\ a \in Calls \cup Resting /\ a # "work" /\ a # "execute"
        /\ a = "upgrade" /\ cmd[p] = "jobs" => at[p] = "work" \/ round[p] = 1
    BY <1>1 DEF Choices, Calls, Resting
  <2>3. CallShape(p)'
    BY <1>1, <1>2, <2>1, <2>2, ArriveShape
  <2>4. /\ \/ at'[p] = a
           \/ cmd[p] = "read" /\ ~ReadLock
        /\ round'[p] = IF at'[p] = "upgrade" THEN round[p] + 1 ELSE round[p]
        /\ at'[p] = a => at'[p] # "work" /\ at'[p] # "execute"
    BY <1>1, <2>1, <2>2, ArrivePoint
  <2>5. pids' = pids /\ pc[p] = "idle"
    BY <1>9 DEF Choose
  <2>6. cmd[p] = "jobs" /\ round'[p] = 1 /\ at'[p] = "upgrade" => p \in pids'
    <3>1. SUFFICES ASSUME cmd[p] = "jobs", round'[p] = 1, at'[p] = "upgrade"
                   PROVE  p \in pids'
      OBVIOUS
    <3>2. a = "upgrade" /\ round[p] = 0
      BY <1>1, <2>4, <3>1
    <3> QED BY <1>1, <2>2, <2>5, <3>1, <3>2 DEF Registered
  <2> QED BY <1>2, <2>3, <2>4, <2>6 DEF Registered
<1>10. CASE Grant(p)
  <2>1. pids' = pids /\ pc[p] = "update"
    BY <1>10 DEF Grant
  <2>2. CASE Conversion(op[p])
    <3>1. Return(p, TRUE, HeldAfter(op[p]))
      BY <1>10, <2>2 DEF Grant
    <3>2. at[p] # "obtain"
      BY <1>1, <1>4, <2>2 DEF CallShape
    <3>3. at[p] = "upgrade" /\ cmd[p] = "jobs" /\ round[p] = 1 => p \in pids'
      BY <1>1, <2>1, <2>2 DEF Registered
    <3> QED BY <1>2, <1>3, <2>1, <3>1, <3>2, <3>3, ReturnShape
  <2>3. CASE ~Conversion(op[p])
    BY <1>7, <1>10, <2>1, <2>3 DEF Grant
  <2> QED BY <2>2, <2>3
<1>11. CASE WriteLockPid(p)
  <2>1. Return(p, p \notin pids, held[p]) /\ p \in pids' /\ pc[p] = "insert"
    BY <1>11 DEF WriteLockPid
  <2> QED BY <1>2, <1>3, <2>1, ReturnShape
<1>12. CASE Refuse(p)
  BY <1>7, <1>12 DEF Refuse
<1>13. CASE CheckLockPid(p)
  <2>1. p \in pids => p \in pids'
    BY <1>13 DEF CheckLockPid
  <2> QED BY <1>6, <1>7, <1>13, <2>1 DEF CheckLockPid
<1>14. CASE ResetLock(p) \/ DeleteRows(p)
  BY <1>7, <1>14 DEF ResetLock, DeleteRows
<1>15. CASE RemoveOwnPid(p)
  <2>1. CASE Conversion(op[p])
    BY <1>8, <1>15, <2>1 DEF RemoveOwnPid
  <2>2. CASE ~Conversion(op[p])
    <3>1. pc'[p] = "delete" /\ op'[p] = op[p] /\ at'[p] = at[p] /\ round'[p] = round[p]
      BY <1>15, <2>2 DEF RemoveOwnPid, TypeOK
    <3>2. at[p] \in Calls
      BY <1>3, <1>15 DEF RemoveOwnPid
    <3>3. at[p] \notin {"unlock", "cancel", "release"}
      BY <1>1, <1>15 DEF RemoveOwnPid, CallShape
    <3> QED BY <1>1, <1>2, <2>2, <3>1, <3>2, <3>3 DEF CallShape, Registered, Calls, Resting
  <2> QED BY <2>1, <2>2
<1>16. CASE ReinsertRow(p)
  BY <1>8, <1>16 DEF ReinsertRow
<1>17. CASE ReleaseLock(p)
  <2>1. pc[p] = "unlock" /\ pids' = pids /\ at[p] \in {"unlock", "cancel", "release"}
    BY <1>1, <1>3, <1>17 DEF ReleaseLock, CallShape, Calls
  <2>2. CASE \E r \in rows : Unlockable(op[p], r)
    <3>1. pc'[p] = "relpid" /\ op'[p] = op[p] /\ at'[p] = at[p] /\ round'[p] = round[p]
      BY <1>17, <2>2 DEF ReleaseLock, TypeOK
    <3> QED BY <1>1, <1>2, <2>1, <3>1 DEF CallShape, Registered, Resting
  <2>3. CASE ~\E r \in rows : Unlockable(op[p], r)
    <3>1. Return(p, FALSE, held[p] \ {op[p]})
      BY <1>17, <2>3 DEF ReleaseLock
    <3> QED BY <1>2, <1>3, <2>1, <3>1, ReturnShape
  <2> QED BY <2>2, <2>3
<1>18. CASE ReleasePid(p)
  <2>1. /\ Return(p, TRUE, held[p]) /\ pc[p] = "relpid"
        /\ at[p] \in {"unlock", "cancel", "release"}
    BY <1>1, <1>3, <1>18 DEF ReleasePid, CallShape, Calls
  <2> QED BY <1>2, <1>3, <2>1, ReturnShape
<1>19. CASE SqlFails(p)
  <2>1. pids' = pids
    BY <1>19 DEF SqlFails
  <2>2. CASE pc[p] \in {"update", "insert", "unlock", "relpid"} /\ Return(p, FALSE, held[p])
    BY <1>5, <2>2
  <2>3. CASE pc[p] = "scan" /\ Retry(p)
    BY <1>6, <2>1, <2>3
  <2>4. CASE /\ pc[p] \in {"reset", "unpid"}
             /\ \E c \in {"unpid", "delete"} : pc' = [pc EXCEPT ![p] = c]
             /\ UNCHANGED <<at, op, tries, round, held>>
    BY <1>7, <2>1, <2>4
  <2>5. CASE /\ pc[p] \in {"unpid", "delete", "reinsert"} /\ ObtainAgain(p)
             /\ UNCHANGED <<at, round, held>>
    BY <1>8, <2>5
  <2> QED BY <1>19, <2>2, <2>3, <2>4, <2>5 DEF SqlFails
<1>20. CASE Crash(p)
  <2>1. at'[p] = "crashed" /\ pc'[p] = "idle"
    BY <1>20 DEF Crash, TypeOK
  <2> QED BY <2>1 DEF CallShape, Registered, Resting
<1> QED
  BY <1>9, <1>10, <1>11, <1>12, <1>13, <1>14, <1>15, <1>16, <1>17, <1>18, <1>19, <1>20
     DEF Step

\* No other process takes a registration away from a command at work.
LEMMA StepKeepsCallInv ==
    ASSUME TypeOK, TypeOK', CallInv, NEW p \in Proc, Step(p) \/ Crash(p)
    PROVE  CallInv'
<1>1. CallShape(p)' /\ Registered(p)'
  BY StepKeepsOwnCall
<1>2. ASSUME NEW q \in Proc \ {p} PROVE CallShape(q)' /\ Registered(q)'
  <2>1. /\ at'[q] = at[q] /\ pc'[q] = pc[q] /\ op'[q] = op[q]
        /\ round'[q] = round[q] /\ cmd'[q] = cmd[q]
        /\ q \in pids /\ Alive(q) => q \in pids'
    BY <1>2, OthersKept
  <2>2. CallShape(q) /\ Registered(q)
    BY <1>2 DEF CallInv
  <2> QED BY <2>1, <2>2 DEF CallShape, Registered, Alive
<1> QED BY <1>1, <1>2 DEF CallInv

\* A command at work under a lock it obtained, and a jobs command in its first
\* execution, is in pkg_lock_pid, whatever the other processes do to that table:
\* pkgdb_check_lock_pid forgets the dead only, and the one statement that removes
\* a live process is its own, before it asks for the lock again.
THEOREM WorkRegistered == Spec => []WorkIsRegistered
<1>1. Init => CallInv
  BY DEF Init, CallInv, CallShape, Registered, Resting, Calls
<1>2. TypeOK /\ TypeOK' /\ CallInv /\ [Next]_vars => CallInv'
  <2>1. ASSUME TypeOK, TypeOK', CallInv, Next PROVE CallInv'
    BY <2>1, StepKeepsCallInv DEF Next
  <2>2. ASSUME CallInv, UNCHANGED vars PROVE CallInv'
    BY <2>2 DEF vars, CallInv, CallShape, Registered
  <2> QED BY <2>1, <2>2
<1>3. CallInv => WorkIsRegistered
  BY DEF CallInv, Registered, WorkIsRegistered
<1> QED BY <1>1, <1>2, <1>3, LockTypeCorrect, PTL DEF Spec

----------------------------------------------------------------------------
(* What an undisturbed history leaves.  RowsRecordHolders bounds the table  *)
(* from below; that nothing leaks needs the bound from above, and it holds  *)
(* only while every command so far is a reader or a writer, alive and       *)
(* without SQL errors.                                                      *)

Undisturbed ==
    \A p \in Proc :
        \/ at[p] = "start"
        \/ cmd[p] \in {"read", "write"} /\ p \notin Errors /\ at[p] # "crashed"

\* Does the command of p take a lock at all?
Locking(p) == cmd[p] = "read" => ReadLock

\* The points between the grant of the command's lock and its release.
Holding(p) ==
    \/ at[p] = "obtain" /\ pc[p] = "insert"
    \/ at[p] = "work" /\ Locking(p)
    \/ at[p] = "release" /\ pc[p] = "unlock"

Behaved(p) ==
    /\ at[p] \in {"start", "obtain", "work", "release", "end"}
    /\ held[p] = IF Holding(p) THEN {LockOf(cmd[p])} ELSE {}
    /\ at[p] \in {"obtain", "release"} => op[p] = LockOf(cmd[p]) /\ Locking(p)
    /\ p \in pids => at[p] \in {"work", "release"} /\ Locking(p)

\* The table says no more than what the processes hold.
TableExact ==
    /\ rows = {} => \E p \in Proc : pc[p] = "reinsert"
    /\ \A r \in rows :
        /\ r.advisory = 0
        /\ r.exclusive = 1 => \E p \in Proc : "EXCLUSIVE" \in held[p]
        /\ r.read = Cardinality(Readers)

ExactInv == ~intruded /\ Undisturbed => (\A p \in Proc : Behaved(p)) /\ TableExact

\* How the call of a reader or a writer that takes the lock returns.
LEMMA ReaderWriterReturn ==
    ASSUME TypeOK, NEW p \in Proc, cmd[p] \in {"read", "write"}, Locking(p),
           at[p] \in {"obtain", "release"}, NEW ok \in BOOLEAN, NEW h, Return(p, ok, h)
    PROVE  /\ at'[p] = IF at[p] = "obtain" /\ ok THEN "work" ELSE "end"
           /\ held'[p] = IF at[p] = "obtain" /\ ok THEN h ELSE {}
           /\ pc'[p] = "idle"
<1>1. cmd[p] \in Commands /\ round[p] \in Nat
  BY DEF TypeOK
<1>2. PICK a \in Calls \cup Resting :
         /\ a = IF at[p] = "obtain" /\ ok THEN "work" ELSE "end"
         /\ Arrive(p, cmd[p], a, round[p])
         /\ held' = [held EXCEPT ![p] = IF a = "end" THEN {} ELSE h]
  BY DEF Return, After, Calls, Resting
<1>3. at'[p] = a /\ pc'[p] = IF at'[p] \in Resting THEN "idle"
                             ELSE IF at'[p] \in {"unlock", "cancel", "release"} THEN "unlock"
                             ELSE "update"
  BY <1>1, <1>2, ArrivePoint DEF Locking
<1> QED BY <1>2, <1>3 DEF TypeOK, Resting

\* Nobody goes back to the start, and nobody leaves the dead.
LEMMA UndisturbedBefore ==
    ASSUME TypeOK, CallInv, NEW p \in Proc, Step(p) \/ Crash(p),
           Undisturbed', ~intruded'
    PROVE  /\ Undisturbed /\ ~intruded
           /\ cmd[p] \in {"read", "write"} /\ p \notin Errors /\ cmd' = cmd
           /\ ~Crash(p)
<1>1. intruded => intruded'
  BY DEF Step, Choose, Grant, WriteLockPid, Refuse, CheckLockPid, ResetLock,
         RemoveOwnPid, DeleteRows, ReinsertRow, ReleaseLock, ReleasePid, SqlFails, Crash
<1>2. cmd' = cmd
  BY DEF Step, Choose, Grant, WriteLockPid, Refuse, CheckLockPid, ResetLock,
         RemoveOwnPid, DeleteRows, ReinsertRow, ReleaseLock, ReleasePid, SqlFails, Crash
<1>3. \A q \in Proc \ {p} : at'[q] = at[q]
  BY OthersKept
<1>4. ~Crash(p)
  <2> SUFFICES ASSUME Crash(p) PROVE FALSE
    OBVIOUS
  <2>1. at'[p] = "crashed"
    BY DEF Crash, TypeOK
  <2> QED BY <2>1 DEF Undisturbed
<1>5. CASE Step(p)
  <2>1. /\ cmd[p] \in Commands /\ round[p] \in Nat /\ at[p] \in Calls \cup Resting
        /\ pc[p] # "idle" => at[p] \in Calls
    BY DEF TypeOK, CallInv, CallShape
  <2>2. ASSUME NEW ok \in BOOLEAN, NEW h, Return(p, ok, h) PROVE at'[p] # "start"
    <3>1. PICK a \in (Calls \cup Resting) \ {"start"} : Arrive(p, cmd[p], a, round[p])
      BY <2>2 DEF Return, After, Calls, Resting
    <3> QED BY <2>1, <3>1, ArrivePoint
  <2>3. CASE Choose(p)
    <3>1. PICK a \in Choices(cmd[p], at[p], round[p]) : Arrive(p, cmd[p], a, round[p])
      BY <2>3 DEF Choose
    <3>2. a \in (Calls \cup Resting) \ {"start"} /\ at[p] # "crashed"
      BY DEF Choices, Calls, Resting
    <3>3. at'[p] # "start"
      BY <2>1, <3>1, <3>2, ArrivePoint
    <3> QED BY <1>1, <1>2, <1>3, <1>4, <3>2, <3>3 DEF Undisturbed
  <2>4. CASE ~Choose(p)
    <3>1. pc[p] # "idle" /\ (at'[p] # "start" \/ at'[p] = at[p])
      BY <1>5, <2>2, <2>4 DEF Step, Grant, WriteLockPid, Refuse, CheckLockPid, Retry,
         ResetLock, RemoveOwnPid, DeleteRows, ReinsertRow, ReleaseLock, ReleasePid, SqlFails
    <3>2. at[p] \notin {"start", "crashed"}
      BY <2>1, <3>1 DEF Calls
    <3> QED BY <1>1, <1>2, <1>3, <1>4, <3>1, <3>2 DEF Undisturbed
  <2> QED BY <2>3, <2>4
<1> QED BY <1>4, <1>5

\* A step that touches neither the rows nor what is held leaves the table exact.
LEMMA SameTable ==
    ASSUME TableExact, NEW p \in Proc, rows' = rows, held' = held,
           pc[p] # "reinsert", \A q \in Proc \ {p} : pc'[q] = pc[q]
    PROVE  TableExact'
<1>1. Readers' = Readers
  BY DEF Readers
<1> QED BY <1>1 DEF TableExact

\* While nothing was disturbed every step of a reader or a writer keeps it in
\* order, and the table exact.
LEMMA ExactStep ==
    ASSUME IInv, TypeOK', CallInv, ExactInv, NEW p \in Proc, Step(p),
           Undisturbed', ~intruded'
    PROVE  Behaved(p)' /\ TableExact'
<1>1. /\ Undisturbed /\ ~intruded /\ cmd' = cmd
      /\ cmd[p] \in {"read", "write"} /\ p \notin Errors
  BY UndisturbedBefore DEF IInv
<1>2. /\ TypeOK /\ Recorded /\ CallShape(p) /\ TableExact
      /\ \A q \in Proc : Behaved(q)
  BY <1>1 DEF IInv, CallInv, ExactInv
<1>3. /\ round[p] \in Nat /\ cmd[p] \in Commands /\ held \in [Proc -> SUBSET Locks]
      /\ at[p] \in {"start", "obtain", "work", "release", "end"}
      /\ LockOf(cmd[p]) = IF cmd[p] = "read" THEN "READONLY" ELSE "EXCLUSIVE"
  BY <1>1, <1>2 DEF TypeOK, Behaved, LockOf
<1>4. /\ \A q \in Proc \ {p} : pc'[q] = pc[q] /\ held'[q] = held[q]
      /\ Locking(p)' = Locking(p) /\ LockOf(cmd[p])' = LockOf(cmd[p])
  BY <1>1, <1>2, OthersKept DEF Locking
<1>5. ASSUME NEW S, held' = [held EXCEPT ![p] = S]
      PROVE  held'[p] = S /\ (S = held[p] => held' = held)
  BY <1>3, <1>5
\* The calls that run a statement are those of a lock really taken.
<1>6. ASSUME pc[p] \notin {"idle", "unlock", "relpid"}
      PROVE  at[p] = "obtain" /\ Locking(p) /\ p \notin pids /\ op[p] = LockOf(cmd[p])
  BY <1>2, <1>3, <1>6 DEF CallShape, Behaved, Resting
<1>7. ASSUME pc[p] \in {"unlock", "relpid"}
      PROVE  at[p] = "release" /\ Locking(p) /\ op[p] = LockOf(cmd[p])
  BY <1>2, <1>3, <1>7 DEF CallShape, Behaved, Resting
\* A statement within the call for the lock, before it is granted.
<1>8. ASSUME pc[p] \notin {"idle", "unlock", "relpid", "insert"},
             NEW c \in {"update", "scan", "reset", "unpid", "delete", "reinsert"},
             pc'[p] = c, at'[p] = at[p], held'[p] = {}, op'[p] = op[p],
             p \in pids' => p \in pids
      PROVE  Behaved(p)'
  BY <1>2, <1>4, <1>6, <1>8 DEF Behaved, Holding
<1>9. ASSUME Choose(p) PROVE Behaved(p)' /\ TableExact'
  <2>1. PICK a \in Choices(cmd[p], at[p], round[p]) :
           /\ Arrive(p, cmd[p], a, round[p])
           /\ held' = [held EXCEPT ![p] = IF a = "end" THEN {} ELSE held[p]]
    BY <1>9 DEF Choose
  <2>2. rows' = rows /\ pids' = pids /\ pc[p] = "idle"
    BY <1>9 DEF Choose
  <2>3. \/ at[p] = "start" /\ a = "obtain"
        \/ at[p] = "work" /\ a = "release"
    BY <1>1, <1>3 DEF Choices
  <2>4. held' = held
    BY <1>5, <2>1, <2>3
  <2>5. TableExact'
    BY <1>2, <1>4, <2>2, <2>4, SameTable
  <2>6. a \in Calls \cup Resting
    BY <2>3 DEF Calls
  <2>7. /\ Locking(p) => at'[p] = a
        /\ ~Locking(p) => at'[p] = IF a = "obtain" THEN "work" ELSE "end"
        /\ op'[p] = OpOf(cmd[p], at'[p])
        /\ pc'[p] = IF at'[p] \in Resting THEN "idle"
                    ELSE IF at'[p] \in {"unlock", "cancel", "release"} THEN "unlock"
                    ELSE "update"
    <3>1. /\ \/ at'[p] = a
             \/ /\ cmd[p] = "read" /\ ~ReadLock
                /\ a = "obtain" => at'[p] = "work"
                /\ a = "release" => at'[p] = "end"
          /\ a \in Calls \ {"cancel"} /\ cmd[p] = "read" /\ ~ReadLock => at'[p] \notin Calls
          /\ op'[p] = OpOf(cmd[p], at'[p])
          /\ pc'[p] = IF at'[p] \in Resting THEN "idle"
                      ELSE IF at'[p] \in {"unlock", "cancel", "release"} THEN "unlock"
                      ELSE "update"
      BY <1>2, <1>3, <2>1, <2>6, ArrivePoint
    <3>2. a \in Calls \ {"cancel"}
      BY <2>3 DEF Calls
    <3> QED BY <2>3, <3>1, <3>2 DEF Locking, Calls
  <2>8. Behaved(p)'
    BY <1>2, <1>4, <2>2, <2>3, <2>4, <2>7 DEF Behaved, Holding, OpOf, Resting
  <2> QED BY <2>5, <2>8
<1>10. ASSUME Grant(p) PROVE Behaved(p)' /\ TableExact'
  <2>1. pc[p] = "update" /\ at[p] = "obtain" /\ Locking(p) /\ p \notin pids
        /\ op[p] = LockOf(cmd[p]) /\ held[p] = {}
    BY <1>2, <1>6, <1>10 DEF Grant, Behaved, Holding
  <2>2. op[p] = (IF cmd[p] = "read" THEN "READONLY" ELSE "EXCLUSIVE") /\ ~Conversion(op[p])
    BY <1>1, <1>3, <2>1 DEF Conversion
  <2>3. /\ held' = [held EXCEPT ![p] = {op[p]}] /\ pc' = [pc EXCEPT ![p] = "insert"]
        /\ UNCHANGED <<at, op, pids>>
        /\ Granted(op[p])
        /\ rows' = {IF Matches(op[p], r) THEN Locked(op[p], r) ELSE r : r \in rows}
    BY <1>10, <2>2 DEF Grant, HeldAfter, Locks
  <2>4. Behaved(p)'
    BY <1>2, <1>3, <1>4, <2>1, <2>3 DEF Behaved, Holding, TypeOK
  <2>5. PICK r \in rows : Matches(op[p], r)
    BY <2>3 DEF Granted
  <2>6. rows = {r} /\ rows' = {Locked(op[p], r)} /\ r \in Row
    BY <1>2, <2>3, <2>5 DEF Recorded, TypeOK
  <2>7. /\ r.advisory = 0 /\ r.read = Cardinality(Readers)
        /\ r.exclusive = 1 => \E q \in Proc : "EXCLUSIVE" \in held[q]
    BY <1>2, <2>6 DEF TableExact
  <2>8. held'[p] = {op[p]} /\ \A q \in Proc : held[q] \subseteq held'[q]
    BY <1>3, <1>4, <2>1, <2>3
  <2>9. CASE cmd[p] = "read"
    <3>1. Locked(op[p], r) = [r EXCEPT !.read = r.read + 1]
      BY <2>2, <2>9 DEF Locked
    <3>2. Readers' = Readers \cup {p} /\ p \notin Readers
      BY <1>4, <2>1, <2>2, <2>8, <2>9 DEF Readers
    <3>3. IsFiniteSet(Readers)
      BY ReadersFinite
    <3>4. Cardinality(Readers') = Cardinality(Readers) + 1
      BY <3>2, <3>3, FS_AddElement
    <3>5. /\ Locked(op[p], r).read = r.read + 1 /\ Locked(op[p], r).advisory = r.advisory
          /\ Locked(op[p], r).exclusive = r.exclusive
      BY <2>6, <3>1 DEF Row
    <3> QED BY <2>4, <2>6, <2>7, <2>8, <3>4, <3>5 DEF TableExact
  <2>10. CASE cmd[p] = "write"
    <3>1. Locked(op[p], r) = [r EXCEPT !.exclusive = 1]
      BY <2>2, <2>10 DEF Locked
    <3>2. Readers' = Readers
      BY <1>4, <2>1, <2>2, <2>8, <2>10 DEF Readers
    <3>3. /\ Locked(op[p], r).read = r.read /\ Locked(op[p], r).advisory = r.advisory
      BY <2>6, <3>1 DEF Row
    <3>4. "EXCLUSIVE" \in held'[p]
      BY <2>2, <2>8, <2>10
    <3> QED BY <2>4, <2>6, <2>7, <3>2, <3>3, <3>4 DEF TableExact
  <2> QED BY <1>1, <2>9, <2>10
<1>11. ASSUME WriteLockPid(p) PROVE Behaved(p)' /\ TableExact'
  <2>1. pc[p] = "insert" /\ Return(p, p \notin pids, held[p])
        /\ rows' = rows /\ pids' = pids \cup {p}
    BY <1>11 DEF WriteLockPid
  <2>2. at[p] = "obtain" /\ Locking(p) /\ p \notin pids /\ held[p] = {LockOf(cmd[p])}
    BY <1>2, <1>6, <2>1 DEF Behaved, Holding
  <2>3. at'[p] = "work" /\ held'[p] = held[p] /\ pc'[p] = "idle"
    BY <1>1, <1>2, <2>1, <2>2, ReaderWriterReturn
  <2>4. held' = held
    BY <1>3, <1>4, <2>3 DEF TypeOK
  <2>5. TableExact'
    BY <1>2, <1>4, <2>1, <2>4, SameTable
  <2>6. Behaved(p)'
    BY <1>2, <1>4, <2>2, <2>3 DEF Behaved, Holding
  <2> QED BY <2>5, <2>6
<1>12. ASSUME Refuse(p) PROVE Behaved(p)' /\ TableExact'
  <2>1. pc[p] = "update" /\ pc' = [pc EXCEPT ![p] = "scan"]
        /\ UNCHANGED <<rows, pids, at, op, held>>
    BY <1>12 DEF Refuse
  <2>2. held[p] = {}
    BY <1>2, <1>6, <2>1 DEF Behaved, Holding
  <2>3. Behaved(p)'
    BY <1>2, <1>8, <2>1, <2>2 DEF TypeOK
  <2> QED BY <1>2, <1>4, <2>1, <2>3, SameTable
<1>13. ASSUME CheckLockPid(p) PROVE Behaved(p)' /\ TableExact'
  <2>1. pc[p] = "scan" /\ rows' = rows /\ (p \in pids' => p \in pids)
    BY <1>13 DEF CheckLockPid
  <2>2. held[p] = {} /\ p \notin pids
    BY <1>2, <1>6, <2>1 DEF Behaved, Holding
  <2>3. CASE at'[p] = at[p] /\ op' = op /\ held' = held /\ pc'[p] \in {"reset", "update"}
    <3>1. Behaved(p)'
      BY <1>8, <2>1, <2>2, <2>3
    <3> QED BY <1>2, <1>4, <2>1, <2>3, <3>1, SameTable
  <2>4. CASE Return(p, FALSE, held[p])
    <3>1. at'[p] = "end" /\ held'[p] = {} /\ pc'[p] = "idle"
      BY <1>1, <1>2, <1>6, <2>1, <2>4, ReaderWriterReturn
    <3>2. held' = held
      <4>1. held \in [Proc -> SUBSET Locks] /\ held' \in [Proc -> SUBSET Locks]
        BY <1>3 DEF TypeOK
      <4>2. \A q \in Proc : held'[q] = held[q]
        BY <1>4, <2>2, <3>1
      <4> QED BY <4>1, <4>2
    <3>3. Behaved(p)'
      BY <2>1, <2>2, <3>1 DEF Behaved, Holding
    <3> QED BY <1>2, <1>4, <2>1, <3>2, <3>3, SameTable
  <2> QED BY <1>2, <1>13, <2>3, <2>4 DEF CheckLockPid, Retry, TypeOK
<1>14. ASSUME ResetLock(p) PROVE Behaved(p)' /\ TableExact'
  <2>1. /\ pc[p] = "reset" /\ rows' = {Free : r \in rows} /\ ~OthersHold(p)
        /\ held' = [held EXCEPT ![p] = {}] /\ pc' = [pc EXCEPT ![p] = "unpid"]
        /\ UNCHANGED <<pids, at, op>>
    BY <1>14 DEF ResetLock
  <2>2. held'[p] = {} /\ \A q \in Proc : held'[q] = {}
    BY <1>4, <1>5, <2>1 DEF OthersHold
  <2>3. Behaved(p)'
    BY <1>2, <1>8, <2>1, <2>2 DEF TypeOK
  <2>4. Readers' = {}
    BY <2>2 DEF Readers
  <2>5. Cardinality(Readers') = 0
    BY <2>4, FS_EmptySet
  <2>6. rows' = {} => \E q \in Proc : pc'[q] = "reinsert"
    BY <1>2, <1>4, <2>1 DEF TableExact
  <2>7. \A r \in rows' : r = Free
    BY <2>1
  <2> QED BY <2>3, <2>5, <2>6, <2>7 DEF TableExact, Free
<1>15. ASSUME RemoveOwnPid(p) PROVE Behaved(p)' /\ TableExact'
  <2>1. /\ pc[p] = "unpid" /\ pids' = pids \ {p} /\ UNCHANGED <<rows, at, held>>
    BY <1>15 DEF RemoveOwnPid
  <2>2. op[p] = LockOf(cmd[p]) /\ held[p] = {}
    BY <1>2, <1>6, <2>1 DEF Behaved, Holding
  <2>3. ~Conversion(op[p])
    BY <1>3, <2>2 DEF Conversion
  <2>4. pc' = [pc EXCEPT ![p] = "delete"] /\ op' = op
    BY <1>15, <2>3 DEF RemoveOwnPid
  <2>5. Behaved(p)'
    BY <1>2, <1>8, <2>1, <2>2, <2>4 DEF TypeOK
  <2> QED BY <1>2, <1>4, <2>1, <2>5, SameTable
<1>16. ASSUME DeleteRows(p) PROVE Behaved(p)' /\ TableExact'
  <2>1. /\ pc[p] = "delete" /\ rows' = {}
        /\ held' = [held EXCEPT ![p] = {}] /\ pc' = [pc EXCEPT ![p] = "reinsert"]
        /\ UNCHANGED <<pids, at, op>>
    BY <1>16 DEF DeleteRows
  <2>2. pc'[p] = "reinsert" /\ held'[p] = {}
    BY <1>2, <1>5, <2>1 DEF TypeOK
  <2>3. Behaved(p)'
    BY <1>8, <2>1, <2>2
  <2> QED BY <2>1, <2>2, <2>3 DEF TableExact
<1>17. ASSUME ReinsertRow(p) PROVE Behaved(p)' /\ TableExact'
  <2>1. /\ pc[p] = "reinsert" /\ rows' = rows \cup {Free} /\ rows = {}
        /\ ObtainAgain(p) /\ UNCHANGED <<pids, at, held>>
    BY <1>17 DEF ReinsertRow
  <2>2. op[p] = LockOf(cmd[p]) /\ held[p] = {}
    BY <1>2, <1>6, <2>1 DEF Behaved, Holding
  <2>3. op'[p] = op[p] /\ pc'[p] = "update"
    <3>1. op'[p] = Target(op[p]) /\ pc'[p] = "update"
      BY <1>2, <2>1 DEF ObtainAgain, TypeOK
    <3> QED BY <1>3, <2>2, <3>1 DEF Target, Locks
  <2>4. Behaved(p)'
    BY <1>8, <2>1, <2>2, <2>3
  <2>5. \A q \in Proc : held'[q] = {}
    BY <1>2, <2>1 DEF Recorded
  <2>6. Readers' = {}
    BY <2>5 DEF Readers
  <2>7. Cardinality(Readers') = 0
    BY <2>6, FS_EmptySet
  <2>8. rows' = {Free}
    BY <2>1
  <2>9. Free.advisory = 0 /\ Free.exclusive = 0 /\ Free.read = 0
    BY DEF Free
  <2>10. TableExact'
    BY <2>7, <2>8, <2>9 DEF TableExact
  <2> QED BY <2>4, <2>10
<1>18. ASSUME ReleaseLock(p) PROVE Behaved(p)' /\ TableExact'
  <2>1. /\ pc[p] = "unlock"
        /\ rows' = {IF Unlockable(op[p], r) THEN Unlocked(op[p], r) ELSE r : r \in rows}
        /\ pids' = pids
    BY <1>18 DEF ReleaseLock
  <2>2. at[p] = "release" /\ Locking(p) /\ op[p] = LockOf(cmd[p]) /\ held[p] = {op[p]}
    BY <1>2, <1>7, <2>1 DEF Behaved, Holding
  <2>3. PICK r \in rows : rows = {r} /\ r \in Row
    <3>1. rows # {}
      BY <1>2, <2>2 DEF Recorded
    <3>2. PICK r \in rows : TRUE
      BY <3>1
    <3>3. rows = {r}
      BY <1>2 DEF Recorded
    <3> QED BY <1>2, <3>3 DEF TypeOK
  <2>4. /\ r.advisory = 0 /\ r.read = Cardinality(Readers) /\ Cardinality(Readers) \in Nat
        /\ r.exclusive = 1 => \E q \in Proc : "EXCLUSIVE" \in held[q]
    BY <1>2, <2>3, ReadersFinite DEF TableExact
  <2>5. Unlockable(op[p], r)
    <3>1. CASE cmd[p] = "read"
      <4>1. p \in Readers
        BY <1>3, <2>2, <3>1 DEF Readers
      <4>2. IsFiniteSet(Readers)
        BY ReadersFinite
      <4>3. Cardinality(Readers) # 0
        BY <4>1, <4>2, FS_EmptySet
      <4> QED BY <1>3, <2>2, <2>4, <3>1, <4>3 DEF Unlockable
    <3>2. CASE cmd[p] = "write"
      <4>1. r.exclusive = 1
        BY <1>2, <1>3, <2>2, <2>3, <3>2 DEF Recorded
      <4> QED BY <1>3, <2>2, <3>2, <4>1 DEF Unlockable
    <3> QED BY <1>1, <3>1, <3>2
  <2>6. /\ pc' = [pc EXCEPT ![p] = "relpid"] /\ UNCHANGED <<at, op>>
        /\ held' = [held EXCEPT ![p] = held[p] \ {op[p]}]
    BY <1>18, <2>3, <2>5 DEF ReleaseLock
  <2>7. held'[p] = {} /\ pc'[p] = "relpid"
    BY <1>2, <1>5, <2>2, <2>6 DEF TypeOK
  <2>8. Behaved(p)'
    BY <1>2, <1>4, <2>1, <2>2, <2>6, <2>7 DEF Behaved, Holding
  <2>9. rows' = {Unlocked(op[p], r)}
    BY <2>1, <2>3, <2>5
  <2>10. CASE cmd[p] = "read"
    <3>1. Unlocked(op[p], r) = [r EXCEPT !.read = r.read - 1]
      BY <1>3, <2>2, <2>10 DEF Unlocked
    <3>2. Readers' = Readers \ {p} /\ p \in Readers
      BY <1>3, <1>4, <2>2, <2>7, <2>10 DEF Readers
    <3>3. IsFiniteSet(Readers)
      BY ReadersFinite
    <3>4. Cardinality(Readers') = Cardinality(Readers) - 1
      BY <3>2, <3>3, FS_RemoveElement
    <3>5. \A q \in Proc : "EXCLUSIVE" \in held[q] => "EXCLUSIVE" \in held'[q]
      BY <1>3, <1>4, <2>2, <2>10
    <3>6. /\ Unlocked(op[p], r).read = r.read - 1 /\ Unlocked(op[p], r).advisory = r.advisory
          /\ Unlocked(op[p], r).exclusive = r.exclusive
      BY <2>3, <3>1 DEF Row
    <3> QED BY <2>4, <2>8, <2>9, <3>4, <3>5, <3>6 DEF TableExact
  <2>11. CASE cmd[p] = "write"
    <3>1. Unlocked(op[p], r) = [r EXCEPT !.exclusive = 0]
      BY <1>3, <2>2, <2>11 DEF Unlocked
    <3>2. Readers' = Readers
      BY <1>3, <1>4, <2>2, <2>7, <2>11 DEF Readers
    <3>3. /\ Unlocked(op[p], r).read = r.read /\ Unlocked(op[p], r).advisory = r.advisory
          /\ Unlocked(op[p], r).exclusive = 0
      BY <2>3, <3>1 DEF Row
    <3> QED BY <2>4, <2>8, <2>9, <3>2, <3>3 DEF TableExact
  <2> QED BY <1>1, <2>10, <2>11
<1>19. ASSUME ReleasePid(p) PROVE Behaved(p)' /\ TableExact'
  <2>1. pc[p] = "relpid" /\ pids' = pids \ {p} /\ Return(p, TRUE, held[p]) /\ rows' = rows
    BY <1>19 DEF ReleasePid
  <2>2. at[p] = "release" /\ Locking(p) /\ held[p] = {}
    BY <1>2, <1>7, <2>1 DEF Behaved, Holding
  <2>3. at'[p] = "end" /\ held'[p] = {} /\ pc'[p] = "idle"
    BY <1>1, <1>2, <2>1, <2>2, ReaderWriterReturn
  <2>4. held' = held
    <3>1. held' \in [Proc -> SUBSET Locks] /\ \A q \in Proc : held'[q] = held[q]
      BY <1>4, <2>2, <2>3 DEF TypeOK
    <3> QED BY <1>3, <3>1
  <2>5. Behaved(p)'
    BY <2>1, <2>3 DEF Behaved, Holding
  <2> QED BY <1>2, <1>4, <2>1, <2>4, <2>5, SameTable
<1> QED
  BY <1>1, <1>9, <1>10, <1>11, <1>12, <1>13, <1>14, <1>15, <1>16, <1>17, <1>18, <1>19
     DEF Step, SqlFails

\* The exactness of the table and the order of readers and writers are inductive
\* over any step, since a history that is undisturbed now has always been.
LEMMA StepKeepsExactInv ==
    ASSUME IInv, TypeOK', CallInv, ExactInv, NEW p \in Proc, Step(p) \/ Crash(p)
    PROVE  ExactInv'
<1> SUFFICES ASSUME Undisturbed', ~intruded'
             PROVE  (\A q \in Proc : Behaved(q)') /\ TableExact'
  BY DEF ExactInv
<1>1. Undisturbed /\ ~intruded /\ Step(p) /\ cmd' = cmd
  BY UndisturbedBefore DEF IInv
<1>2. Behaved(p)' /\ TableExact'
  BY <1>1, ExactStep
<1>3. ASSUME NEW q \in Proc \ {p} PROVE Behaved(q)'
  <2>1. /\ at'[q] = at[q] /\ pc'[q] = pc[q] /\ op'[q] = op[q] /\ held'[q] = held[q]
        /\ q \in pids' => q \in pids
    BY <1>3, OthersKept DEF IInv
  <2>2. Behaved(q)
    BY <1>1, <1>3 DEF ExactInv
  <2> QED BY <1>1, <2>1, <2>2 DEF Behaved, Holding, Locking
<1> QED BY <1>2, <1>3

\* Nothing leaks: when readers and writers have come and gone by their normal
\* paths, pkg_lock is back to its row of zeros and pkg_lock_pid is empty, even if
\* some of them reset the table, retried or gave up on the way.
THEOREM QuiescenceIsFree == Spec => []QuiescentIsFree
<1>1. Init => CallInv /\ ExactInv
  <2> SUFFICES ASSUME Init PROVE CallInv /\ ExactInv
    OBVIOUS
  <2>1. CallInv
    BY DEF Init, CallInv, CallShape, Registered, Resting, Calls
  <2>2. Readers = {}
    BY DEF Init, Readers
  <2>3. Cardinality(Readers) = 0
    BY <2>2, FS_EmptySet
  <2>4. TableExact
    <3>1. Free.advisory = 0 /\ Free.exclusive = 0 /\ Free.read = 0
      BY DEF Free
    <3>2. rows = {Free}
      BY DEF Init
    <3> QED BY <2>3, <3>1, <3>2 DEF TableExact
  <2>5. \A p \in Proc : Behaved(p)
    BY DEF Init, Behaved, Holding
  <2> QED BY <2>1, <2>4, <2>5 DEF ExactInv
<1>2. TypeOK /\ TypeOK' /\ CallInv /\ [Next]_vars => CallInv'
  <2>1. ASSUME TypeOK, TypeOK', CallInv, Next PROVE CallInv'
    BY <2>1, StepKeepsCallInv DEF Next
  <2>2. ASSUME CallInv, UNCHANGED vars PROVE CallInv'
    BY <2>2 DEF vars, CallInv, CallShape, Registered
  <2> QED BY <2>1, <2>2
<1>3. IInv /\ TypeOK' /\ CallInv /\ ExactInv /\ [Next]_vars => ExactInv'
  <2>1. ASSUME IInv, TypeOK', CallInv, ExactInv, Next PROVE ExactInv'
    BY <2>1, StepKeepsExactInv DEF Next
  <2>2. ASSUME ExactInv, UNCHANGED vars PROVE ExactInv'
    BY <2>2 DEF vars, ExactInv, Undisturbed, Behaved, Holding, Locking, TableExact, Readers
  <2> QED BY <2>1, <2>2
<1>4. IInv /\ CallInv /\ ExactInv => QuiescentIsFree
  <2> SUFFICES ASSUME IInv, CallInv, ExactInv, ~intruded,
                      \A p \in Proc :
                         \/ at[p] = "start"
                         \/ at[p] = "end" /\ cmd[p] \in {"read", "write"} /\ p \notin Errors
               PROVE  rows = {Free} /\ pids = {}
    BY DEF QuiescentIsFree
  <2>1. (\A p \in Proc : Behaved(p)) /\ TableExact /\ TypeOK /\ Recorded
    BY DEF ExactInv, Undisturbed, IInv
  <2>2. pids = {}
    BY <2>1 DEF Behaved, TypeOK
  <2>3. \A p \in Proc : held[p] = {} /\ pc[p] = "idle"
    BY <2>1 DEF Behaved, Holding, CallInv, CallShape, Resting
  <2>4. Readers = {}
    BY <2>3 DEF Readers
  <2>5. Cardinality(Readers) = 0
    BY <2>4, FS_EmptySet
  <2>6. rows # {} /\ rows \subseteq Row
    BY <2>1, <2>3 DEF TableExact, TypeOK
  <2>7. \A r \in rows : r = Free
    <3>1. TAKE r \in rows
    <3>2. r \in Row /\ r.advisory = 0 /\ r.exclusive # 1 /\ r.read = 0
      BY <2>1, <2>3, <2>5, <2>6 DEF TableExact
    <3> QED BY <3>2 DEF Row, Free
  <2> QED BY <2>2, <2>6, <2>7
<1> QED
  BY <1>1, <1>2, <1>3, <1>4, LockTypeCorrect, IInvInvariant, PTL DEF Spec
=============================================================================
