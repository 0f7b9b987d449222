------------------------- MODULE FileLocksProofs -------------------------
(* Proofs about FileLocks, for any sets of owners, requests and paths. *)
EXTENDS FileLocks, TLAPS

\* The holder a waiter is about to record is a holder.
ReportsHolder ==
  \A o \in Owners : At(o, "record") => op[o].holder \in Owners \cup {Api}

TypeInv == TypeOK /\ ReportsHolder

\* The path a call without one names is a path.
LEMMA AnyPathInPaths == AnyPath \in Paths
BY PathsAssumption DEF AnyPath

\* The state of an owner that is in no call is a call state.
LEMMA NoCallType == NoCall \in Calls
BY AnyPathInPaths DEF NoCall, Calls, PCs, Holders

\* A daemon with an empty mirror starts well typed.
LEMMA TypeInit == Init => TypeInv
BY AnyPathInPaths, NoCallType
   DEF Init, TypeInv, TypeOK, ReportsHolder, At, Holders, NoCall, NoRequest,
       NoSweep, Edges

\* The two ways most steps change a call.
LEMMA GotoKeepsCalls ==
  ASSUME TypeInv, NEW o \in Owners, NEW pc \in PCs \ {"record"}, Goto(o, pc)
  PROVE  op' \in [Owners -> Calls] /\ ReportsHolder'
BY DEF TypeInv, TypeOK, ReportsHolder, At, Goto, Calls

\* Ending a call keeps the calls well typed.
LEMMA EndCallKeepsCalls ==
  ASSUME TypeInv, NEW o \in Owners, EndCall(o)
  PROVE  op' \in [Owners -> Calls] /\ ReportsHolder'
BY NoCallType DEF TypeInv, TypeOK, ReportsHolder, At, EndCall, NoCall

\* So does giving one owner any well-typed call that reports a holder where
\* RecordWait reads one.
LEMMA SetCallKeepsCalls ==
  ASSUME TypeInv, NEW o \in Owners, NEW c \in Calls,
         op' = [op EXCEPT ![o] = c],
         c.pc = "record" => c.holder \in Owners \cup {Api}
  PROVE  op' \in [Owners -> Calls] /\ ReportsHolder'
BY DEF TypeInv, TypeOK, ReportsHolder, At

\* What TryAcquire makes of a call when the path is busy is a call.
LEMMA ReportCallType ==
  ASSUME op \in [Owners -> Calls], NEW o \in Owners, NEW pc \in PCs, NEW h \in Holders,
         op' = [op EXCEPT ![o].pc = pc, ![o].holder = h]
  PROVE  /\ op' \in [Owners -> Calls]
         /\ op'[o].pc = pc /\ op'[o].holder = h
         /\ \A q \in Owners \ {o} : op'[q] = op[q]
BY DEF Calls

\* What TryAcquire makes of a call when the path is free is a call.
LEMMA OverwriteCallType ==
  ASSUME op \in [Owners -> Calls], NEW o \in Owners, NEW pc \in PCs, NEW b \in BOOLEAN,
         op' = [op EXCEPT ![o].pc = pc, ![o].overwrite = b]
  PROVE  /\ op' \in [Owners -> Calls]
         /\ op'[o].pc = pc
         /\ \A q \in Owners \ {o} : op'[q] = op[q]
BY DEF Calls

\* Every step keeps the types, one step of the proof per action.
LEMMA TypeNext == TypeInv /\ [Next]_vars => TypeInv'
<1> SUFFICES ASSUME TypeInv, [Next]_vars PROVE TypeInv'
  OBVIOUS
<1> USE NoCallType DEF TypeInv, TypeOK, ReportsHolder, At, Goto, EndCall, Path, Mine
<1>1. ASSUME NEW o \in Owners, NEW p \in Paths, StartWrite(o, p) PROVE TypeInv'
  BY <1>1 DEF StartWrite, touch_holder, NoCall, Calls, PCs
<1>2. ASSUME NEW o \in Owners, NEW p \in Paths, StartUnlock(o, p) PROVE TypeInv'
  <2>1. op' \in [Owners -> Calls] /\ ReportsHolder'
    <3> DEFINE c == [NoCall EXCEPT !.pc = "reldb", !.path = p, !.unlock = TRUE]
    <3>1. c \in Calls /\ c.pc = "reldb"
      BY DEF Calls, PCs
    <3>2. op' = [op EXCEPT ![o] = c]
      BY <1>2 DEF StartUnlock
    <3> HIDE DEF c
    <3>3. QED
      BY <3>1, <3>2, SetCallKeepsCalls
  <2>2. QED
    BY <1>2, <2>1 DEF StartUnlock, touch_holder
<1>3. ASSUME NEW o \in Owners, Peek(o) PROVE TypeInv'
  BY <1>3 DEF Peek, NoCall, Calls, PCs, Holders, memory
<1>4. ASSUME NEW o \in Owners, TryAcquire(o) PROVE TypeInv'
  <2>1. op' \in [Owners -> Calls] /\ ReportsHolder'
    <3>1. CASE Goto(o, "acquired")
      BY <3>1, GotoKeepsCalls DEF PCs
    <3>2. CASE op' = [op EXCEPT ![o].pc = "acqdb", ![o].overwrite = op[o].path \in forced]
      <4> DEFINE b == op[o].path \in forced
      <4>1. b \in BOOLEAN /\ "acqdb" \in PCs /\ op \in [Owners -> Calls]
        BY DEF PCs
      <4>2. op' = [op EXCEPT ![o].pc = "acqdb", ![o].overwrite = b]
        BY <3>2
      <4> HIDE DEF b
      <4>3. /\ op' \in [Owners -> Calls]
            /\ op'[o].pc = "acqdb"
            /\ \A q \in Owners \ {o} : op'[q] = op[q]
        BY <4>1, <4>2, OverwriteCallType
      <4>4. QED
        BY <4>3
    <3>3. CASE /\ held[op[o].path] \notin {o, None}
               /\ op' = [op EXCEPT
                    ![o].pc = IF At(o, "try") THEN "arm" ELSE "record",
                    ![o].holder = IF At(o, "try") THEN None ELSE held[op[o].path]]
      <4>1. held[op[o].path] \in Owners \cup {Api}
        BY <3>3 DEF Calls, Holders
      <4> DEFINE c == IF At(o, "try") THEN "arm" ELSE "record"
                 h == IF At(o, "try") THEN None ELSE held[op[o].path]
      <4>2. c \in PCs /\ h \in Holders /\ op \in [Owners -> Calls]
        BY <4>1 DEF PCs, Holders
      <4>3. op' = [op EXCEPT ![o].pc = c, ![o].holder = h]
        BY <3>3
      <4>4. c = "record" => h \in Owners \cup {Api}
        BY <4>1
      <4> HIDE DEF c, h
      <4>5. /\ op' \in [Owners -> Calls]
            /\ op'[o].pc = c /\ op'[o].holder = h
            /\ \A q \in Owners \ {o} : op'[q] = op[q]
        BY <4>2, <4>3, ReportCallType
      <4>6. QED
        BY <4>4, <4>5
    <3>4. QED
      BY <1>4, <3>1, <3>2, <3>3 DEF TryAcquire
  <2>2. op[o].path \in Paths
    BY DEF Calls
  <2>3. QED
    <3>1. held' \in [Paths -> Holders] /\ idle' \subseteq {p \in Paths : held'[p] \in Owners}
      BY <1>4, <2>2 DEF TryAcquire, Holders
    <3>2. waiting' \in [Owners -> Edges \cup {None}]
      BY <1>4 DEF TryAcquire, clear_waiter
    <3>3. notified' \in [Owners -> {"no", "armed", "fired"}]
      BY <1>4 DEF TryAcquire
    <3>4. QED
      BY <1>4, <2>1, <3>1, <3>2, <3>3 DEF TryAcquire
<1>5. ASSUME NEW o \in Owners, AcquireDb(o) PROVE TypeInv'
  <2>1. op' \in [Owners -> Calls] /\ ReportsHolder'
    BY <1>5, GotoKeepsCalls DEF AcquireDb, PCs
  <2>2. rows' \in [Paths -> Owners \cup {None}]
    BY <1>5 DEF AcquireDb, lock_acquire
  <2>3. QED
    BY <1>5, <2>1, <2>2 DEF AcquireDb, memory
<1>6. ASSUME NEW o \in Owners, AcquireOk(o) PROVE TypeInv'
  <2>1. "acquired" \in PCs /\ FALSE \in BOOLEAN /\ op \in [Owners -> Calls]
    BY DEF PCs
  <2>2. op' = [op EXCEPT ![o].pc = "acquired", ![o].overwrite = FALSE]
    BY <1>6 DEF AcquireOk
  <2>3. /\ op' \in [Owners -> Calls]
        /\ op'[o].pc = "acquired"
        /\ \A q \in Owners \ {o} : op'[q] = op[q]
    BY <2>1, <2>2, OverwriteCallType
  <2>4. waiting' \in [Owners -> Edges \cup {None}]
    BY <1>6 DEF AcquireOk, clear_waiter
  <2>5. QED
    BY <1>6, <2>3, <2>4 DEF AcquireOk
<1>7. ASSUME NEW o \in Owners, AcquireFail(o) PROVE TypeInv'
  BY <1>7 DEF AcquireFail, NoCall, Calls, PCs, Holders, DropHold
<1>8. ASSUME NEW o \in Owners, Arm(o) PROVE TypeInv'
  BY <1>8 DEF Arm, NoCall, Calls, PCs, Holders
<1>9. ASSUME NEW o \in Owners, RecordWait(o) PROVE TypeInv'
  <2>1. CASE clear_waiter(o) /\ notified' = [notified EXCEPT ![o] = "no"] /\ EndCall(o)
    <3>1. op' \in [Owners -> Calls] /\ ReportsHolder'
      BY <2>1, EndCallKeepsCalls
    <3>2. waiting' \in [Owners -> Edges \cup {None}]
      BY <2>1 DEF clear_waiter
    <3>3. QED
      BY <1>9, <2>1, <3>1, <3>2 DEF RecordWait
  <2>2. CASE /\ waiting' = [waiting EXCEPT ![o] = [path |-> op[o].path, holder |-> op[o].holder]]
             /\ op' = [op EXCEPT ![o].pc = "blocked", ![o].holder = None]
             /\ UNCHANGED notified
    <3>1. [path |-> op[o].path, holder |-> op[o].holder] \in Edges
      BY <1>9 DEF RecordWait, Edges, Calls
    <3>2. op' \in [Owners -> Calls] /\ ReportsHolder'
      <4>1. "blocked" \in PCs /\ None \in Holders /\ op \in [Owners -> Calls]
        BY DEF PCs, Holders
      <4>2. /\ op' \in [Owners -> Calls]
            /\ op'[o].pc = "blocked"
            /\ \A q \in Owners \ {o} : op'[q] = op[q]
        BY <2>2, <4>1, ReportCallType
      <4>3. QED
        BY <4>2
    <3>3. QED
      BY <1>9, <2>2, <3>1, <3>2 DEF RecordWait
  <2>3. QED
    BY <1>9, <2>1, <2>2 DEF RecordWait
<1>10. ASSUME NEW o \in Owners, Wake(o) PROVE TypeInv'
  BY <1>10 DEF Wake, NoCall, Calls, PCs, Holders, memory
<1>11. ASSUME NEW o \in Owners, WaitTimeout(o) PROVE TypeInv'
  BY <1>11 DEF WaitTimeout, NoCall, Calls, PCs, Holders, clear_waiter
<1>12. ASSUME NEW o \in Owners, BeginGuard(o) PROVE TypeInv'
  <2>1. op' \in [Owners -> Calls] /\ ReportsHolder'
    BY <1>12, GotoKeepsCalls, EndCallKeepsCalls DEF BeginGuard, PCs
  <2>2. QED
    BY <1>12, <2>1 DEF BeginGuard, memory
<1>13. ASSUME NEW o \in Owners, Land(o) PROVE TypeInv'
  <2>1. op' \in [Owners -> Calls] /\ ReportsHolder'
    BY <1>13, GotoKeepsCalls, EndCallKeepsCalls DEF Land, PCs
  <2>2. QED
    BY <1>13, <2>1 DEF Land, memory
<1>14. ASSUME NEW o \in Owners, GiveUpGuard(o) PROVE TypeInv'
  <2>1. op' \in [Owners -> Calls] /\ ReportsHolder'
    BY <1>14, EndCallKeepsCalls DEF GiveUpGuard
  <2>2. op[o].path \in Paths
    BY DEF Calls
  <2>3. persists' \subseteq PersistTasks
    BY <1>14, <2>2 DEF GiveUpGuard, AbandonGuard, PersistTasks
  <2>4. held' \in [Paths -> Holders] /\ idle' \subseteq {p \in Paths : held'[p] \in Owners}
    BY <1>14, <2>2 DEF GiveUpGuard, AbandonGuard, DropHold, Holders
  <2>5. forced' \subseteq Paths /\ notified' \in [Owners -> {"no", "armed", "fired"}]
    <3>1. notify_waiters \in [Owners -> {"no", "armed", "fired"}]
      BY DEF notify_waiters
    <3>2. forced' = forced \/ forced' = forced \cup {op[o].path}
      BY <1>14 DEF GiveUpGuard, AbandonGuard
    <3>3. notified' = notified \/ notified' = [notify_waiters EXCEPT ![o] = "no"]
      BY <1>14 DEF GiveUpGuard, AbandonGuard
    <3>4. QED
      BY <2>2, <3>1, <3>2, <3>3
  <2>6. QED
    BY <1>14, <2>1, <2>3, <2>4, <2>5 DEF GiveUpGuard
<1>15. ASSUME NEW o \in Owners, ReleaseDb(o) PROVE TypeInv'
  <2>1. op' \in [Owners -> Calls] /\ ReportsHolder'
    BY <1>15, GotoKeepsCalls, EndCallKeepsCalls DEF ReleaseDb, PCs
  <2>2. rows' \in [Paths -> Owners \cup {None}]
    BY <1>15 DEF ReleaseDb, lock_release, Without
  <2>3. QED
    BY <1>15, <2>1, <2>2 DEF ReleaseDb, memory
<1>16. ASSUME NEW o \in Owners, ReleaseMemory(o) PROVE TypeInv'
  BY <1>16 DEF ReleaseMemory, NoCall, Calls, PCs, Holders, DropHold, notify_waiters
<1>17. ASSUME NEW o \in Owners, DropCall(o) PROVE TypeInv'
  BY <1>17 DEF DropCall, NoCall, Calls, PCs, Holders
<1>18. ASSUME NEW t \in persists, PersistDb(t) PROVE TypeInv'
  BY <1>18 DEF PersistDb, lock_release, Without, memory, PersistTasks
<1>19. ASSUME NEW t \in persists, PersistMemory(t) PROVE TypeInv'
  BY <1>19 DEF PersistMemory
<1>20. ASSUME NEW r \in Requests, NEW p \in Paths, ApiBegin(r, p) PROVE TypeInv'
  BY <1>20 DEF ApiBegin, Holders
<1>21. ASSUME NEW r \in Requests, ApiEnd(r) PROVE TypeInv'
  BY <1>21, AnyPathInPaths DEF ApiEnd, DropHold, NoRequest, notify_waiters, Holders
<1>22. ASSUME NEW p \in Paths, Age(p) PROVE TypeInv'
  BY <1>22 DEF Age, tasks
<1>23. ASSUME SweepSnapshot PROVE TypeInv'
  <2>1. {<<p, held[p]>> : p \in idle} \subseteq Paths \X Owners
    OBVIOUS
  <2>2. QED
    BY <1>23, <2>1 DEF SweepSnapshot, NoSweep, memory
<1>24. ASSUME SweepDb PROVE TypeInv'
  <2>1. rows' \in [Paths -> Owners \cup {None}]
    BY <1>24 DEF SweepDb, lock_release_and_delete_reads
  <2>2. sweep' = [sweep EXCEPT !.pc = "mem"] \/ sweep' = NoSweep
    BY <1>24 DEF SweepDb
  <2>3. QED
    BY <1>24, <2>1, <2>2 DEF SweepDb, NoSweep, memory
<1>25. ASSUME SweepMemory PROVE TypeInv'
  BY <1>25 DEF SweepMemory, Reclaim, Expired, Refreshed, Holders
<1>26. ASSUME NEW e \in sweep.restore, SweepRestore(e) PROVE TypeInv'
  BY <1>26 DEF SweepRestore, RowFree, lock_acquire, memory
<1>27. ASSUME SweepNotify PROVE TypeInv'
  BY <1>27 DEF SweepNotify, WakeFor, NoSweep, notify_waiters
<1>28. ASSUME Restart PROVE TypeInv'
  BY <1>28, AnyPathInPaths DEF Restart, NoSweep, NoRequest, NoCall, Holders
<1>29. CASE UNCHANGED vars
  BY <1>29 DEF vars, memory, tasks
<1>30. QED
  BY <1>1, <1>2, <1>3, <1>4, <1>5, <1>6, <1>7, <1>8, <1>9, <1>10, <1>11, <1>12, <1>13, <1>14, <1>15, <1>16, <1>17, <1>18, <1>19, <1>20, <1>21, <1>22, <1>23, <1>24, <1>25, <1>26, <1>27, <1>28, <1>29
  DEF Next, CallStep, SweepStep, PersistStep

\* The state of the lock manager, its database mirror and its tasks keeps its
\* shape; a path is past its idle deadline only while an agent holds it.
THEOREM TypeCorrect == Spec => []TypeOK
<1>1. Init => TypeInv
  BY TypeInit
<1>2. TypeInv /\ [Next]_vars => TypeInv'
  BY TypeNext
<1>3. TypeInv => TypeOK
  BY DEF TypeInv
<1>4. QED
  BY <1>1, <1>2, <1>3, PTL DEF Spec

-----------------------------------------------------------------------------
(***************************************************************************)
(* Writer exclusion. It is not inductive: a sweep could take a hold away   *)
(* under a live guard. What excludes that is that a hold is past its       *)
(* deadline only while its holder is in no call (IdleMeansNoCall), which   *)
(* needs the dispatcher to refresh the very identity that takes the locks  *)
(* (SelfRefreshing). One request at a time (OneRequest) is what keeps the  *)
(* remote file API's shared hold from being dropped under a request.       *)
(***************************************************************************)
SelfRefreshing == \A o \in Owners : RefreshedAs[o] = o
OneRequest == \A r, s \in Requests : r = s

IdleMeansNoCall == \A p \in idle : At(held[p], "idle")
GuardHolds == \A o \in Owners : Guarding(o) => Mine(o)
ApiHolds == \A r \in Requests : ApiWriting(r) => held[api[r].path] = Api

ExclusionInv == TypeInv /\ IdleMeansNoCall /\ GuardHolds /\ ApiHolds

\* A step of o's call that does not end in a live guard and gives or takes only
\* o's own hold.
OwnHoldOnly(o) ==
  /\ \A p \in Paths : \/ held'[p] = held[p]
                      \/ held[p] = o /\ held'[p] = None
                      \/ held[p] = None /\ held'[p] = o
  /\ idle' \subseteq idle
  /\ UNCHANGED api

CallOnly(o) ==
  /\ op[o].pc # "idle" /\ op'[o].pc # "guard"
  /\ \A q \in Owners \ {o} : op'[q] = op[q]

\* A step of o's call that ends outside a guard and gives or takes only o's own
\* holds keeps the exclusion invariant.
LEMMA OwnStepKeepsExclusion ==
  ASSUME ExclusionInv, TypeInv', NEW o \in Owners, OwnHoldOnly(o), CallOnly(o)
  PROVE  ExclusionInv'
<1> USE DEF ExclusionInv, TypeInv, TypeOK, OwnHoldOnly, CallOnly, At, Path, Mine, Guarding, ApiWriting
<1>1. IdleMeansNoCall'
  <2> SUFFICES ASSUME NEW p \in idle' PROVE op'[held'[p]].pc = "idle"
    BY DEF IdleMeansNoCall
  <2>1. p \in idle /\ p \in Paths /\ held[p] \in Owners /\ op[held[p]].pc = "idle"
    BY DEF IdleMeansNoCall
  <2>2. held'[p] = held[p] /\ held[p] # o
    BY <2>1, OwnersAssumption
  <2>3. QED
    BY <2>1, <2>2
<1>2. GuardHolds'
  <2> SUFFICES ASSUME NEW q \in Owners, op'[q].pc = "guard" PROVE held'[op'[q].path] = q
    BY DEF GuardHolds
  <2>1. q # o /\ op'[q] = op[q]
    OBVIOUS
  <2>2. held[op[q].path] = q /\ op[q].path \in Paths
    BY <2>1 DEF GuardHolds, Calls
  <2>3. QED
    BY <2>1, <2>2, OwnersAssumption
<1>3. ApiHolds'
  <2> SUFFICES ASSUME NEW r \in Requests, api[r].pc = "in" PROVE held'[api[r].path] = Api
    BY DEF ApiHolds
  <2>1. held[api[r].path] = Api /\ api[r].path \in Paths
    BY DEF ApiHolds
  <2>2. QED
    BY <2>1, OwnersAssumption
<1>4. QED
  BY <1>1, <1>2, <1>3

\* All the steps of a call but its entry into the guard are such steps.
LEMMA OwnSteps ==
  ASSUME TypeInv, NEW o \in Owners,
         \/ Peek(o) \/ TryAcquire(o) \/ AcquireDb(o) \/ AcquireOk(o) \/ AcquireFail(o)
         \/ Arm(o) \/ RecordWait(o) \/ Wake(o) \/ WaitTimeout(o) \/ Land(o)
         \/ GiveUpGuard(o) \/ ReleaseDb(o) \/ ReleaseMemory(o) \/ DropCall(o)
  PROVE  OwnHoldOnly(o) /\ CallOnly(o)
<1>0. /\ op \in [Owners -> Calls] /\ op[o].path \in Paths
      /\ held \in [Paths -> Holders]
  BY DEF TypeInv, TypeOK, Calls
<1> USE DEF OwnHoldOnly, CallOnly, At, Path, Goto, EndCall, NoCall, Calls
<1>1. CASE Peek(o)
  BY <1>0, <1>1 DEF Peek, memory
<1>2. CASE TryAcquire(o)
  BY <1>0, <1>2 DEF TryAcquire, Mine
<1>3. CASE AcquireDb(o)
  BY <1>0, <1>3 DEF AcquireDb, memory
<1>4. CASE AcquireOk(o)
  BY <1>0, <1>4 DEF AcquireOk
<1>5. CASE AcquireFail(o)
  BY <1>0, <1>5 DEF AcquireFail, DropHold
<1>6. CASE Arm(o)
  BY <1>0, <1>6 DEF Arm
<1>7. CASE RecordWait(o)
  BY <1>0, <1>7 DEF RecordWait
<1>8. CASE Wake(o)
  BY <1>0, <1>8 DEF Wake, memory
<1>9. CASE WaitTimeout(o)
  BY <1>0, <1>9 DEF WaitTimeout
<1>10. CASE Land(o)
  BY <1>0, <1>10 DEF Land, memory
<1>11. CASE GiveUpGuard(o)
  BY <1>0, <1>11 DEF GiveUpGuard, AbandonGuard, DropHold
<1>12. CASE ReleaseDb(o)
  BY <1>0, <1>12 DEF ReleaseDb, memory
<1>13. CASE ReleaseMemory(o)
  BY <1>0, <1>13 DEF ReleaseMemory, DropHold
<1>14. CASE DropCall(o)
  BY <1>0, <1>14 DEF DropCall, Awaiting
<1>15. QED
  BY <1>1, <1>2, <1>3, <1>4, <1>5, <1>6, <1>7, <1>8, <1>9, <1>10, <1>11, <1>12, <1>13, <1>14

\* The other steps disturb the invariant in one place each.
LEMMA ExclusionNext ==
  ASSUME SelfRefreshing, OneRequest, ExclusionInv, [Next]_vars
  PROVE  ExclusionInv'
<1>1. TypeInv /\ TypeInv'
  BY TypeNext DEF ExclusionInv
<1> USE DEF At, Path, Mine, Guarding, ApiWriting
<1>2. ASSUME NEW o \in Owners, NEW p \in Paths, StartWrite(o, p) \/ StartUnlock(o, p)
      PROVE  ExclusionInv'
  <2>1. /\ \A q \in Owners \ {o} : op'[q] = op[q]
        /\ op'[o].pc # "guard"
        /\ idle' = {x \in idle : held[x] # o}
        /\ UNCHANGED <<held, api>>
    <3>1. idle' = {x \in idle : held[x] # o}
      BY <1>2 DEF StartWrite, StartUnlock, touch_holder, SelfRefreshing
    <3>2. CASE StartWrite(o, p)
      BY <1>1, <3>1, <3>2 DEF StartWrite, NoCall, TypeInv, TypeOK
    <3>3. CASE StartUnlock(o, p)
      BY <1>1, <3>1, <3>3 DEF StartUnlock, NoCall, TypeInv, TypeOK
    <3>4. QED
      BY <1>2, <3>2, <3>3
  <2>2. QED
    BY <1>1, <2>1 DEF ExclusionInv, IdleMeansNoCall, GuardHolds, ApiHolds, TypeInv, TypeOK
<1>3. ASSUME NEW o \in Owners, BeginGuard(o) PROVE ExclusionInv'
  <2>1. CASE Mine(o) /\ Goto(o, "guard")
    <3>1. /\ op'[o].path = op[o].path
          /\ \A q \in Owners \ {o} : op'[q] = op[q]
          /\ UNCHANGED <<held, idle, api>>
      BY <1>1, <1>3, <2>1 DEF BeginGuard, Goto, memory, TypeInv, TypeOK, Calls
    <3>2. op[o].pc # "idle"
      BY <1>3 DEF BeginGuard
    <3>3. QED
      BY <1>1, <2>1, <3>1, <3>2
      DEF ExclusionInv, IdleMeansNoCall, GuardHolds, ApiHolds, TypeInv, TypeOK
  <2>2. CASE IF op[o].waited /\ Mine(o) THEN Goto(o, "reldb") ELSE EndCall(o)
    <3>1. OwnHoldOnly(o) /\ CallOnly(o)
      BY <1>1, <1>3, <2>2
      DEF BeginGuard, OwnHoldOnly, CallOnly, Goto, EndCall, NoCall, memory,
          TypeInv, TypeOK, Calls
    <3>2. QED
      BY <1>1, <3>1, OwnStepKeepsExclusion
  <2>3. QED
    BY <1>3, <2>1, <2>2 DEF BeginGuard
<1>4. ASSUME NEW r \in Requests, NEW p \in Paths, ApiBegin(r, p) PROVE ExclusionInv'
  BY <1>1, <1>4, OwnersAssumption
  DEF ApiBegin, ApiMayEnter, ExclusionInv, IdleMeansNoCall, GuardHolds, ApiHolds,
      OneRequest, TypeInv, TypeOK, Calls
<1>5. ASSUME NEW r \in Requests, ApiEnd(r) PROVE ExclusionInv'
  <2>1. \A s \in Requests : api'[s].pc = "idle"
    BY <1>1, <1>5 DEF ApiEnd, NoRequest, OneRequest, TypeInv, TypeOK
  <2>2. \A p \in Paths : held'[p] = held[p] \/ held[p] = Api
    BY <1>1, <1>5 DEF ApiEnd, DropHold, TypeInv, TypeOK
  <2>3. idle' \subseteq idle /\ UNCHANGED op
    BY <1>5 DEF ApiEnd, DropHold
  <2>4. IdleMeansNoCall'
    BY <1>1, <2>2, <2>3, OwnersAssumption DEF ExclusionInv, IdleMeansNoCall, TypeInv, TypeOK
  <2>5. GuardHolds'
    BY <1>1, <2>2, <2>3, OwnersAssumption
    DEF ExclusionInv, GuardHolds, TypeInv, TypeOK, Calls
  <2>6. ApiHolds'
    BY <2>1 DEF ApiHolds
  <2>7. QED
    BY <1>1, <2>4, <2>5, <2>6 DEF ExclusionInv
<1>6. ASSUME NEW p \in Paths, Age(p) PROVE ExclusionInv'
  BY <1>1, <1>6 DEF Age, tasks, ExclusionInv, IdleMeansNoCall, GuardHolds, ApiHolds
<1>7. CASE SweepMemory
  <2>1. \A p \in Paths : held'[p] = held[p] \/ p \in idle
    BY <1>1, <1>7 DEF SweepMemory, Reclaim, Expired, TypeInv, TypeOK
  <2>2. \A p \in idle' : p \in idle /\ held'[p] = held[p]
    BY <1>1, <1>7 DEF SweepMemory, Reclaim, TypeInv, TypeOK
  <2>3. UNCHANGED <<op, api>>
    BY <1>7 DEF SweepMemory
  <2>4. QED
    BY <1>1, <2>1, <2>2, <2>3, OwnersAssumption
    DEF ExclusionInv, IdleMeansNoCall, GuardHolds, ApiHolds, TypeInv, TypeOK, Calls
<1>8. CASE Restart
  BY <1>1, <1>8
  DEF Restart, NoCall, NoRequest, ExclusionInv, IdleMeansNoCall, GuardHolds, ApiHolds
<1>9. CASE UNCHANGED <<held, idle, op, api>>
  BY <1>1, <1>9 DEF ExclusionInv, IdleMeansNoCall, GuardHolds, ApiHolds
<1>10. CASE SweepSnapshot \/ SweepDb \/ SweepNotify
            \/ (\E e \in sweep.restore : SweepRestore(e)) \/ PersistStep \/ UNCHANGED vars
  BY <1>9, <1>10
  DEF SweepSnapshot, SweepDb, SweepNotify, SweepRestore, PersistStep, PersistDb,
      PersistMemory, vars, memory, tasks
<1>11. ASSUME NEW o \in Owners, CallStep(o) \/ WaitTimeout(o) \/ GiveUpGuard(o) \/ DropCall(o)
       PROVE ExclusionInv'
  BY <1>1, <1>3, <1>11, OwnSteps, OwnStepKeepsExclusion DEF CallStep
<1>12. QED
  BY <1>2, <1>4, <1>5, <1>6, <1>7, <1>8, <1>10, <1>11 DEF Next, SweepStep

\* On one path at most one agent is between its gate and its mutation, and none
\* is while a remote file request is, provided that tool calls refresh the
\* identity that takes the locks and that API requests do not overlap (the run
\* locks_api_reentry shows what happens when they do).
THEOREM ExclusionHolds ==
  ASSUME SelfRefreshing, OneRequest
  PROVE  Spec => []WriterExclusion
<1>1. Init => ExclusionInv
  BY TypeInit
  DEF Init, ExclusionInv, IdleMeansNoCall, GuardHolds, ApiHolds, Guarding, ApiWriting,
      At, NoCall, NoRequest
<1>2. ExclusionInv /\ [Next]_vars => ExclusionInv'
  BY ExclusionNext
<1>3. ExclusionInv => WriterExclusion
  BY OwnersAssumption
  DEF ExclusionInv, GuardHolds, ApiHolds, Mine, WriterExclusion
<1>4. QED
  BY <1>1, <1>2, <1>3, PTL DEF Spec

-----------------------------------------------------------------------------
(* FileLocks implements PathWriters. *)

\* A call that stops guarding its path leaves it and changes nothing else.
LEMMA LeaveOrStay ==
  ASSUME ExclusionInv, NEW o \in Owners, CallOnly(o), UNCHANGED api
  PROVE  [Abstract!Next]_Inside
<1> USE DEF Inside, Guarding, At, Path, ApiWriting, CallOnly
<1>1. CASE ~Guarding(o)
  BY <1>1
<1>2. CASE Guarding(o)
  <2>1. Inside' = Inside \ {<<o, Path(o)>>}
    BY <1>2, OwnersAssumption
  <2>2. <<o, Path(o)>> \in Inside /\ Path(o) \in Paths
    BY <1>2 DEF ExclusionInv, TypeInv, TypeOK, Calls
  <2> HIDE DEF Inside
  <2>3. QED
    BY <2>1, <2>2 DEF Abstract!Next, Abstract!Leave
<1>3. QED
  BY <1>1, <1>2

\* Every step of the lock manager is an entry into a vacant path, an exit, an
\* eviction or nothing to PathWriters.
LEMMA StepImplements ==
  ASSUME SelfRefreshing, OneRequest, ExclusionInv, [Next]_vars
  PROVE  [Abstract!Next]_Inside
<1>1. TypeInv
  BY DEF ExclusionInv
<1> USE DEF At, Path, Mine, Guarding, ApiWriting
<1>2. ASSUME NEW o \in Owners, NEW p \in Paths, StartWrite(o, p) \/ StartUnlock(o, p)
      PROVE  [Abstract!Next]_Inside
  <2>1. /\ \A q \in Owners \ {o} : op'[q] = op[q]
        /\ op[o].pc = "idle" /\ op'[o].pc # "guard" /\ UNCHANGED api
    <3>1. CASE StartWrite(o, p)
      BY <1>1, <3>1 DEF StartWrite, NoCall, TypeInv, TypeOK
    <3>2. CASE StartUnlock(o, p)
      BY <1>1, <3>2 DEF StartUnlock, NoCall, TypeInv, TypeOK
    <3>3. QED
      BY <1>2, <3>1, <3>2
  <2>2. QED
    BY <2>1 DEF Inside
<1>3. ASSUME NEW o \in Owners, BeginGuard(o) PROVE [Abstract!Next]_Inside
  <2>1. CASE Mine(o) /\ Goto(o, "guard")
    <3>1. /\ op'[o].path = op[o].path /\ op'[o].pc = "guard"
          /\ op[o].pc # "guard" /\ op[o].path \in Paths
          /\ \A q \in Owners \ {o} : op'[q] = op[q]
          /\ UNCHANGED api
      BY <1>1, <1>3, <2>1 DEF BeginGuard, Goto, TypeInv, TypeOK, Calls
    <3>2. Inside' = Inside \cup {<<o, Path(o)>>}
      BY <3>1 DEF Inside
    <3>3. \A x \in Inside : x[2] # Path(o)
      BY <2>1, <3>1, OwnersAssumption DEF Inside, ExclusionInv, GuardHolds, ApiHolds
    <3>4. QED
      BY <3>1, <3>2, <3>3 DEF Abstract!Next, Abstract!Enter, Abstract!Vacant
  <2>2. CASE IF op[o].waited /\ Mine(o) THEN Goto(o, "reldb") ELSE EndCall(o)
    <3>1. CallOnly(o) /\ UNCHANGED api
      BY <1>1, <1>3, <2>2
      DEF BeginGuard, CallOnly, Goto, EndCall, NoCall, TypeInv, TypeOK, Calls
    <3>2. QED
      BY <3>1, LeaveOrStay
  <2>3. QED
    BY <1>3, <2>1, <2>2 DEF BeginGuard
<1>4. ASSUME NEW r \in Requests, NEW p \in Paths, ApiBegin(r, p)
      PROVE  [Abstract!Next]_Inside
  <2>1. Inside' = Inside \cup {<<Api, p>>}
    BY <1>1, <1>4 DEF ApiBegin, Inside, OneRequest, TypeInv, TypeOK
  <2>2. \A x \in Inside : x[2] # p
    BY <1>1, <1>4, OwnersAssumption
    DEF ApiBegin, ApiMayEnter, Inside, OneRequest, ExclusionInv, GuardHolds
  <2>3. QED
    BY <2>1, <2>2 DEF Abstract!Next, Abstract!Enter, Abstract!Vacant
<1>5. ASSUME NEW r \in Requests, ApiEnd(r) PROVE [Abstract!Next]_Inside
  <2>1. api[r].pc = "in" /\ api[r].path \in Paths
    BY <1>1, <1>5 DEF ApiEnd, TypeInv, TypeOK
  <2>2. Inside' = Inside \ {<<Api, api[r].path>>}
    BY <1>1, <1>5, OwnersAssumption DEF ApiEnd, Inside, NoRequest, OneRequest, TypeInv, TypeOK
  <2>3. <<Api, api[r].path>> \in Inside
    BY <2>1 DEF Inside
  <2>4. QED
    BY <2>1, <2>2, <2>3 DEF Abstract!Next, Abstract!Leave
<1>6. CASE Restart
  <2>1. Inside' = {}
    BY <1>6 DEF Restart, Inside, NoCall, NoRequest
  <2>2. QED
    BY <2>1 DEF Abstract!Next, Abstract!Evict
<1>7. CASE UNCHANGED <<op, api>>
  BY <1>7 DEF Inside
<1>8. CASE SweepStep \/ PersistStep \/ UNCHANGED vars \/ \E p \in Paths : Age(p)
  BY <1>7, <1>8
  DEF Age, SweepStep, SweepSnapshot, SweepDb, SweepMemory, SweepNotify, SweepRestore,
      PersistStep, PersistDb, PersistMemory, vars, tasks
<1>9. ASSUME NEW o \in Owners, CallStep(o) \/ WaitTimeout(o) \/ GiveUpGuard(o) \/ DropCall(o)
      PROVE  [Abstract!Next]_Inside
  BY <1>1, <1>3, <1>9, OwnSteps, LeaveOrStay DEF CallStep, OwnHoldOnly
<1>10. QED
  BY <1>2, <1>4, <1>5, <1>6, <1>8, <1>9 DEF Next

\* The lock protocol, with its waits, database failures, dropped calls, sweeps
\* and restarts, is a PathWriters to the tools that write files.
THEOREM LocksImplementPathWriters ==
  ASSUME SelfRefreshing, OneRequest
  PROVE  Spec => ImplementsPathWriters
<1>1. Init => ExclusionInv /\ Abstract!Init
  BY TypeInit
  DEF Init, ExclusionInv, IdleMeansNoCall, GuardHolds, ApiHolds, Guarding, ApiWriting,
      At, NoCall, NoRequest, Abstract!Init, Inside
<1>2. ExclusionInv /\ [Next]_vars => ExclusionInv'
  BY ExclusionNext
<1>3. ExclusionInv /\ [Next]_vars => [Abstract!Next]_Inside
  BY StepImplements
<1>4. QED
  BY <1>1, <1>2, <1>3, PTL DEF Spec, ImplementsPathWriters, Abstract!Spec

-----------------------------------------------------------------------------
(***************************************************************************)
(* The waits: the recorded wait edges are true, and the cycle check on     *)
(* them keeps agents from waiting for each other in a circle. No           *)
(* hypothesis is needed beyond the constants' assumptions: the results     *)
(* cover dropped calls, database failures, sweeps, restarts, overlapping   *)
(* API requests and a misdirected refresh.                                 *)
(***************************************************************************)

\* o has looked at its path since it registered for a wake-up, and none has
\* come or is on its way. RecordWait has not run yet at "record".
Watching(o) == /\ op[o].pc \in {"record", "blocked"}
               /\ notified[o] = "armed"
               /\ Path(o) \notin sweep.freed
               /\ o \notin missed

\* The edge a watcher has recorded, or is about to.
TrueEdge(o) ==
  /\ held[Path(o)] # None
  /\ At(o, "record") => op[o].holder = held[Path(o)]
  /\ At(o, "blocked") => waiting[o] = [path |-> Path(o), holder |-> held[Path(o)]]

\* Only a sweep that is about to notify has freed paths.
FreedInRestore == sweep.pc # "restore" => sweep.freed = {}

WaitInv == /\ TypeInv
           /\ FreedInRestore
           /\ \A o \in Owners : Watching(o) => TrueEdge(o)

\* q goes on watching the same holder of the same path.
StillWatching(q) ==
  /\ Watching(q)
  /\ op'[q] = op[q] /\ waiting'[q] = waiting[q]
  /\ held'[Path(q)] = held[Path(q)]


\* q is asleep and no rollback took its path away silently.
Waits(q) == Sleeping(q) /\ q \notin missed

\* A watcher after the step watched the same holder before it, or has just
\* found the path busy, or has just recorded its edge.
WatchStep(q) ==
  \/ StillWatching(q)
  \/ At(q, "record")' /\ TrueEdge(q)'
  \/ RecordWait(q) /\ Watching(q) /\ UNCHANGED held /\ Path(q)' = Path(q) /\ TrueEdge(q)'

\* Steps that leave the waiters, their registrations and the holders alone.
LEMMA QuietStep ==
  ASSUME WaitInv, NEW q \in Owners, Watching(q)',
         op'[q] = op[q], waiting'[q] = waiting[q], notified'[q] = notified[q],
         q \in missed => q \in missed', held'[Path(q)] = held[Path(q)],
         sweep.freed \subseteq sweep'.freed
  PROVE  WatchStep(q)
BY DEF WatchStep, StillWatching, Watching, Path

\* After notify_waiters nobody is registered.
LEMMA NotifyEndsWatch ==
  ASSUME NEW q \in Owners, notified' = notify_waiters PROVE ~Watching(q)'
BY DEF Watching, notify_waiters

\* Steps of the call of an owner.
LEMMA CallWatch ==
  ASSUME WaitInv, NEW o \in Owners, CallStep(o) \/ WaitTimeout(o) \/ GiveUpGuard(o) \/ DropCall(o),
         NEW q \in Owners, Watching(q)'
  PROVE  WatchStep(q)
<1>0. /\ op \in [Owners -> Calls] /\ Path(o) \in Paths /\ Path(q) \in Paths
      /\ held \in [Paths -> Holders] /\ notified \in [Owners -> {"no", "armed", "fired"}]
      /\ waiting \in [Owners -> Edges \cup {None}]
      /\ Watching(q) => TrueEdge(q)
  BY DEF WaitInv, TypeInv, TypeOK, Calls, Path
<1>1. CASE Peek(o) \/ AcquireDb(o) \/ Wake(o) \/ BeginGuard(o) \/ Land(o) \/ ReleaseDb(o)
  <2>1. UNCHANGED <<held, waiting, notified, sweep, missed>>
    BY <1>1 DEF Peek, AcquireDb, Wake, BeginGuard, Land, ReleaseDb, memory
  <2>2. op'[o].pc \notin {"record", "blocked"} /\ \A r \in Owners \ {o} : op'[r] = op[r]
    BY <1>0, <1>1 DEF Peek, AcquireDb, Wake, BeginGuard, Land, ReleaseDb, Goto, EndCall, NoCall, Calls
  <2>3. QED
    BY <2>1, <2>2, QuietStep DEF Watching
<1>2. CASE AcquireOk(o) \/ Arm(o) \/ WaitTimeout(o) \/ DropCall(o)
  <2>1. UNCHANGED <<held, sweep>>
    BY <1>2 DEF AcquireOk, Arm, WaitTimeout, DropCall
  <2>2. op'[o].pc \notin {"record", "blocked"} /\ \A r \in Owners \ {o} : op'[r] = op[r]
    BY <1>0, <1>2 DEF AcquireOk, Arm, WaitTimeout, DropCall, Goto, EndCall, NoCall, Calls
  <2>3. \A r \in Owners \ {o} : /\ waiting'[r] = waiting[r] /\ notified'[r] = notified[r]
                                /\ r \in missed => r \in missed'
    BY <1>0, <1>2 DEF AcquireOk, Arm, WaitTimeout, DropCall, clear_waiter
  <2>4. QED
    BY <2>1, <2>2, <2>3, QuietStep DEF Watching
<1>3. CASE TryAcquire(o)
  <2>1. UNCHANGED <<sweep, missed>>
    BY <1>3 DEF TryAcquire
  <2>2. \A r \in Owners \ {o} : /\ op'[r] = op[r] /\ waiting'[r] = waiting[r]
                                /\ notified'[r] = notified[r]
    BY <1>0, <1>3 DEF TryAcquire, clear_waiter, Goto, Calls
  <2>3. \A p \in Paths : held'[p] = held[p] \/ held[p] = None
    BY <1>0, <1>3 DEF TryAcquire, Path
  <2>4. CASE q = o
    <3>1. op'[o].pc = "record"
      BY <1>0, <1>3, <2>4 DEF TryAcquire, Goto, Watching, Calls
    <3>2. /\ held[Path(o)] \notin {o, None} /\ UNCHANGED held
          /\ op' = [op EXCEPT ![o].pc = IF At(o, "try") THEN "arm" ELSE "record",
                              ![o].holder = IF At(o, "try") THEN None ELSE held[Path(o)]]
      BY <1>0, <1>3, <3>1 DEF TryAcquire, Goto, Calls, Path
    <3>3. ~At(o, "try")
      BY <1>0, <3>1, <3>2 DEF Calls
    <3>4. op'[o].path = op[o].path /\ op'[o].holder = held[Path(o)]
      BY <1>0, <3>2, <3>3 DEF Calls
    <3>5. QED
      BY <2>4, <3>1, <3>2, <3>4 DEF WatchStep, TrueEdge, At, Path
  <2>5. CASE q # o
    <3>1. Watching(q)
      BY <2>1, <2>2, <2>5 DEF Watching, Path
    <3>2. held'[Path(q)] = held[Path(q)]
      BY <1>0, <2>3, <3>1 DEF TrueEdge
    <3>3. QED
      BY <2>1, <2>2, <2>5, <3>2, QuietStep
  <2>6. QED
    BY <2>4, <2>5
<1>4. CASE AcquireFail(o)
  <2>1. /\ op'[o].pc = "idle" /\ UNCHANGED sweep
        /\ \A r \in Owners \ {o} : /\ op'[r] = op[r] /\ waiting'[r] = waiting[r]
                                   /\ notified'[r] = notified[r] /\ (r \in missed => r \in missed')
    BY <1>0, <1>4 DEF AcquireFail, EndCall, NoCall
  <2>2. q # o
    BY <2>1 DEF Watching
  <2>3. Watching(q)
    BY <2>1, <2>2 DEF Watching, Path
  <2>4. Path(q) # Path(o) \/ ~Mine(o)
    BY <1>4, <2>2, <2>3, <2>1 DEF AcquireFail, Watching
  <2>5. held'[Path(q)] = held[Path(q)]
    BY <1>0, <1>4, <2>4 DEF AcquireFail, DropHold, Mine
  <2>6. QED
    BY <2>1, <2>2, <2>5, QuietStep
<1>5. CASE RecordWait(o)
  <2>1. UNCHANGED <<held, sweep, missed>>
    BY <1>5 DEF RecordWait
  <2>2. \A r \in Owners \ {o} : /\ op'[r] = op[r] /\ waiting'[r] = waiting[r]
                                /\ notified'[r] = notified[r]
    BY <1>0, <1>5 DEF RecordWait, clear_waiter, EndCall, Calls
  <2>3. CASE q = o
    <3>1. /\ waiting' = [waiting EXCEPT ![o] = [path |-> Path(o), holder |-> op[o].holder]]
          /\ op' = [op EXCEPT ![o].pc = "blocked", ![o].holder = None]
          /\ UNCHANGED notified
      BY <1>0, <1>5, <2>3 DEF RecordWait, EndCall, NoCall, Watching
    <3>2. op'[o].path = op[o].path /\ op'[o].pc = "blocked" /\ At(o, "record")
      BY <1>0, <1>5, <3>1 DEF Calls, RecordWait
    <3>3. Watching(o)
      BY <2>1, <2>3, <3>1, <3>2 DEF Watching, Path, At
    <3>4. held[Path(o)] # None /\ op[o].holder = held[Path(o)]
      BY <1>0, <2>3, <3>2, <3>3 DEF TrueEdge
    <3>5. waiting'[o] = [path |-> Path(o), holder |-> held[Path(o)]]
      BY <1>0, <3>1, <3>4
    <3>6. TrueEdge(o)'
      BY <2>1, <3>2, <3>4, <3>5 DEF TrueEdge, Path, At
    <3>7. QED
      BY <1>5, <2>1, <2>3, <3>2, <3>3, <3>6 DEF WatchStep, Path
  <2>4. CASE q # o
    BY <2>1, <2>2, <2>4, QuietStep
  <2>5. QED
    BY <2>3, <2>4
<1>6. CASE GiveUpGuard(o)
  <2>1. /\ op'[o].pc = "idle" /\ UNCHANGED <<sweep, waiting, missed>>
        /\ \A r \in Owners \ {o} : op'[r] = op[r]
    BY <1>0, <1>6 DEF GiveUpGuard, EndCall, NoCall
  <2>2. q # o
    BY <2>1 DEF Watching
  <2>3. CASE notified' = [notify_waiters EXCEPT ![o] = "no"]
    BY <2>2, <2>3 DEF Watching, notify_waiters
  <2>4. CASE UNCHANGED <<held, notified>>
    BY <2>1, <2>2, <2>4, QuietStep
  <2>5. QED
    BY <1>6, <2>3, <2>4 DEF GiveUpGuard, AbandonGuard
<1>7. CASE ReleaseMemory(o)
  BY <1>7, NotifyEndsWatch DEF ReleaseMemory
<1>8. QED
  BY <1>1, <1>2, <1>3, <1>4, <1>5, <1>6, <1>7 DEF CallStep

\* Every step.
LEMMA WatchNext ==
  ASSUME WaitInv, [Next]_vars, NEW q \in Owners, Watching(q)'
  PROVE  WatchStep(q)
<1>0. /\ op \in [Owners -> Calls] /\ Path(q) \in Paths
      /\ held \in [Paths -> Holders] /\ notified \in [Owners -> {"no", "armed", "fired"}]
      /\ Watching(q) => TrueEdge(q)
  BY DEF WaitInv, TypeInv, TypeOK, Calls, Path
<1>1. ASSUME NEW o \in Owners, NEW p \in Paths, StartWrite(o, p) \/ StartUnlock(o, p)
      PROVE  WatchStep(q)
  <2>1. /\ UNCHANGED <<held, waiting, notified, sweep>>
        /\ \A r \in Owners \ {o} : r \in missed => r \in missed'
    BY <1>1 DEF StartWrite, StartUnlock
  <2>2. \A r \in Owners \ {o} : op'[r] = op[r]
    BY <1>0, <1>1 DEF StartWrite, StartUnlock
  <2>3. op'[o].pc \in {"start", "reldb"}
    BY <1>0, <1>1 DEF StartWrite, StartUnlock, NoCall
  <2>4. QED
    BY <2>1, <2>2, <2>3, QuietStep DEF Watching
<1>2. ASSUME NEW r \in Requests, NEW p \in Paths, ApiBegin(r, p) PROVE WatchStep(q)
  <2>1. /\ UNCHANGED <<op, waiting, notified, sweep, missed>>
        /\ \A x \in Paths : held'[x] = held[x] \/ held[x] = None
    BY <1>0, <1>2 DEF ApiBegin, ApiMayEnter
  <2>2. Watching(q)
    BY <2>1 DEF Watching, Path
  <2>3. QED
    BY <1>0, <2>1, <2>2, QuietStep DEF TrueEdge
<1>3. ASSUME NEW r \in Requests, ApiEnd(r) PROVE WatchStep(q)
  BY <1>3, NotifyEndsWatch DEF ApiEnd
<1>4. CASE SweepMemory
  <2>1. /\ UNCHANGED <<op, waiting, notified, missed>>
        /\ sweep.freed = {}
        /\ \A x \in Paths : held'[x] = held[x] \/ x \in sweep'.freed
    BY <1>4 DEF SweepMemory, Reclaim, WaitInv, FreedInRestore, TypeInv, TypeOK
  <2>2. Path(q) \notin sweep'.freed
    BY <2>1 DEF Watching, Path
  <2>3. QED
    BY <1>0, <2>1, <2>2, QuietStep
<1>5. CASE SweepNotify
  <2>1. CASE sweep.freed = {}
    BY <1>0, <1>5, <2>1, QuietStep DEF SweepNotify, WakeFor
  <2>2. CASE notified' = notify_waiters
    BY <2>2, NotifyEndsWatch
  <2>3. QED
    BY <1>5, <2>1, <2>2 DEF SweepNotify, WakeFor
<1>6. CASE Restart
  BY <1>6 DEF Restart, Watching, NoCall
<1>7. CASE /\ UNCHANGED <<held, waiting, notified, op, missed>>
           /\ sweep.freed \subseteq sweep'.freed
  BY <1>7, QuietStep
<1>8. CASE \/ SweepSnapshot \/ SweepDb \/ (\E e \in sweep.restore : SweepRestore(e))
           \/ PersistStep \/ UNCHANGED vars \/ \E p \in Paths : Age(p)
  <2>1. UNCHANGED <<held, waiting, notified, op, missed>>
    BY <1>8 DEF SweepSnapshot, SweepDb, SweepRestore, PersistStep, PersistDb,
       PersistMemory, Age, vars, memory, tasks
  <2>2. sweep.freed \subseteq sweep'.freed
    <3>1. CASE SweepSnapshot \/ SweepDb
      BY <3>1 DEF SweepSnapshot, SweepDb, WaitInv, FreedInRestore
    <3>2. CASE \E e \in sweep.restore : SweepRestore(e)
      BY <3>2 DEF SweepRestore, WaitInv, TypeInv, TypeOK
    <3>3. CASE PersistStep \/ UNCHANGED vars \/ \E p \in Paths : Age(p)
      BY <3>3 DEF PersistStep, PersistDb, PersistMemory, Age, vars, tasks
    <3>4. QED
      BY <1>8, <3>1, <3>2, <3>3
  <2>3. QED
    BY <1>7, <2>1, <2>2
<1>9. QED
  BY <1>1, <1>2, <1>3, <1>4, <1>5, <1>6, <1>8, CallWatch DEF Next, SweepStep

\* The sweep's list of freed paths is empty outside its last stage.
LEMMA FreedNext == WaitInv /\ [Next]_vars => FreedInRestore'
<1> SUFFICES ASSUME WaitInv, [Next]_vars PROVE FreedInRestore'
  OBVIOUS
<1>1. CASE UNCHANGED sweep
  BY <1>1 DEF WaitInv, FreedInRestore
<1>2. CASE SweepStep
  <2>1. CASE SweepSnapshot
    BY <1>2, <2>1 DEF SweepSnapshot, NoSweep, FreedInRestore
  <2>2. CASE SweepDb
    BY <1>2, <2>2 DEF SweepDb, NoSweep, WaitInv, FreedInRestore, TypeInv, TypeOK
  <2>3. CASE SweepMemory \/ SweepNotify \/ \E e \in sweep.restore : SweepRestore(e)
    BY <1>2, <2>3 DEF SweepMemory, SweepNotify, SweepRestore, NoSweep, WaitInv, FreedInRestore, TypeInv, TypeOK
  <2>4. QED
    BY <1>2, <2>1, <2>2, <2>3 DEF SweepStep
<1>3. CASE Restart
  BY <1>3 DEF Restart, NoSweep, FreedInRestore
<1>4. ASSUME NEW o \in Owners, CallStep(o) \/ WaitTimeout(o) \/ GiveUpGuard(o) \/ DropCall(o)
      PROVE  UNCHANGED sweep
  BY <1>4 DEF CallStep, Peek, TryAcquire, AcquireDb, AcquireOk, AcquireFail, Arm, RecordWait,
     Wake, BeginGuard, Land, ReleaseDb, ReleaseMemory, WaitTimeout, GiveUpGuard, DropCall
<1>5. CASE \/ \E o \in Owners, p \in Paths : StartWrite(o, p) \/ StartUnlock(o, p)
           \/ \E r \in Requests, p \in Paths : ApiBegin(r, p)
           \/ \E r \in Requests : ApiEnd(r)
           \/ \E p \in Paths : Age(p)
           \/ PersistStep \/ UNCHANGED vars
  BY <1>1, <1>5 DEF StartWrite, StartUnlock, ApiBegin, ApiEnd, Age, PersistStep, PersistDb,
     PersistMemory, vars, tasks
<1>6. QED
  BY <1>1, <1>2, <1>3, <1>4, <1>5 DEF Next

\* A watcher's edge stays true: nobody takes or frees its path without waking
\* it, but for the rollback that puts it in `missed`.
LEMMA WaitNext == WaitInv /\ [Next]_vars => WaitInv'
<1> SUFFICES ASSUME WaitInv, [Next]_vars PROVE WaitInv'
  OBVIOUS
<1>1. TypeInv' /\ FreedInRestore'
  BY TypeNext, FreedNext DEF WaitInv
<1>2. ASSUME NEW q \in Owners, Watching(q)' PROVE TrueEdge(q)'
  <2>1. WatchStep(q)
    BY <1>2, WatchNext
  <2>2. CASE StillWatching(q)
    BY <2>2 DEF StillWatching, TrueEdge, WaitInv, At, Path
  <2>3. QED
    BY <2>1, <2>2 DEF WatchStep
<1>3. QED
  BY <1>1, <1>2 DEF WaitInv

\* Nobody waits at the start.
LEMMA WaitInit == Init => WaitInv
BY TypeInit DEF Init, WaitInv, FreedInRestore, Watching, NoSweep, NoCall

\* A sleeper's path is held by the holder its edge names: the edges the cycle
\* check of record_wait_or_cycle follows are true, so it neither refuses a wait
\* that would have ended nor accepts one that will not.
THEOREM SleepersKnow == Spec => []SleepersKnowHolder
<1>1. WaitInv => SleepersKnowHolder
  <2> SUFFICES ASSUME WaitInv, NEW o \in Owners, Sleeping(o), o \notin missed
               PROVE  /\ waiting[o] # None
                      /\ waiting[o].path = Path(o)
                      /\ waiting[o].holder = held[Path(o)]
    BY DEF SleepersKnowHolder
  <2>1. Watching(o) /\ At(o, "blocked")
    BY DEF Sleeping, Watching, At
  <2>2. waiting[o] = [path |-> Path(o), holder |-> held[Path(o)]] /\ held[Path(o)] # None
    BY <2>1 DEF WaitInv, TrueEdge
  <2>3. Path(o) \in Paths /\ held[Path(o)] \in Owners \cup {Api}
    BY <2>2 DEF WaitInv, TypeInv, TypeOK, Calls, Path, Holders
  <2>4. [path |-> Path(o), holder |-> held[Path(o)]] \in Edges
    BY <2>3 DEF Edges
  <2>5. QED
    BY <2>2, <2>4, NoneAssumption
<1>2. QED
  BY <1>1, WaitInit, WaitNext, PTL DEF Spec

-----------------------------------------------------------------------------
(***************************************************************************)
(* No silent deadlock. Only RecordWait makes a new sleeper, so only it can *)
(* close a circle S of sleepers. It went to sleep because its holder lies  *)
(* in a set T closed under the edges that does not have it. Edges are      *)
(* true, so the members of S in T are a circle of sleepers already before  *)
(* the step.                                                               *)
(***************************************************************************)

\* A circle: sleepers that wait only for each other.
Circle(S) == /\ S \subseteq Owners /\ S # {}
             /\ \A o \in S : Waits(o) /\ held[Path(o)] \in S

NoCircle == \A S \in SUBSET Owners : ~Circle(S)

\* A sleeper after the step that did not just record its wait slept before it,
\* waiting for the same holder.
LEMMA SleeperStep ==
  ASSUME WaitInv, [Next]_vars, NEW q \in Owners, Waits(q)'
  PROVE  \/ /\ Waits(q) /\ waiting'[q] = waiting[q]
            /\ Path(q)' = Path(q) /\ held'[Path(q)] = held[Path(q)]
         \/ RecordWait(q)
<1>1. WatchStep(q) /\ op'[q].pc = "blocked"
  BY WatchNext DEF Waits, Sleeping, Watching, At
<1>2. CASE StillWatching(q)
  BY <1>1, <1>2 DEF StillWatching, Waits, Sleeping, Watching, Path, At
<1>3. QED
  BY <1>1, <1>2 DEF WatchStep, At

\* No step closes a circle.
LEMMA CircleNext == WaitInv /\ NoCircle /\ [Next]_vars => NoCircle'
<1> SUFFICES ASSUME WaitInv, NoCircle, [Next]_vars, NEW S \in SUBSET Owners, Circle(S)'
             PROVE  FALSE
  BY DEF NoCircle
<1>1. WaitInv'
  BY WaitNext
<1>2. CASE \E o \in S : RecordWait(o)
  <2>1. PICK o \in S : RecordWait(o)
    BY <1>2
  <2> DEFINE w == [waiting EXCEPT ![o] = [path |-> Path(o), holder |-> op[o].holder]]
  <2>2. waiting' = w /\ ~wait_cycle(w, o) /\ UNCHANGED held
    <3>1. op'[o].pc # "idle"
      BY DEF Circle, Waits, Sleeping, At
    <3>2. QED
      BY <2>1, <3>1 DEF RecordWait, EndCall, NoCall, WaitInv, TypeInv, TypeOK
  <2> HIDE DEF w
  <2>3. \A q \in S : Watching(q)' /\ At(q, "blocked")'
    BY DEF Circle, Waits, Sleeping, Watching, At
  <2>4. \A q \in S : w[q].holder = held[Path(q)'] /\ w[q].holder \in S /\ w[q] # None
    <3> SUFFICES ASSUME NEW q \in S
                 PROVE  w[q].holder = held[Path(q)'] /\ w[q].holder \in S /\ w[q] # None
      OBVIOUS
    <3>1. TrueEdge(q)' /\ q \in Owners
      BY <1>1, <2>3 DEF WaitInv
    <3>2. w[q] = [path |-> Path(q)', holder |-> held[Path(q)']]
      BY <2>2, <2>3, <3>1 DEF TrueEdge, Path
    <3>3. held[Path(q)'] \in S /\ Path(q)' \in Paths
      BY <1>1, <2>2 DEF Circle, WaitInv, TypeInv, TypeOK, Calls, Path
    <3>4. w[q] \in Edges
      BY <3>2, <3>3 DEF Edges
    <3>5. QED
      BY <3>2, <3>3, <3>4, NoneAssumption
  <2>5. PICK T \in SUBSET Owners :
              /\ w[o].holder \in T /\ o \notin T
              /\ \A q \in T : (w[q] # None /\ w[q].holder \in Owners) => w[q].holder \in T
    BY <2>2, <2>4 DEF wait_cycle
  <2>6. \A q \in (S \cap T) : w[q].holder \in (S \cap T)
    BY <2>4, <2>5
  <2>7. \A q \in S \cap T : Waits(q) /\ Path(q)' = Path(q)
    <3> SUFFICES ASSUME NEW q \in S \cap T PROVE Waits(q) /\ Path(q)' = Path(q)
      OBVIOUS
    <3>1. Waits(q)' /\ q # o /\ q \in Owners
      BY <2>5 DEF Circle
    <3>2. ~RecordWait(q)
      <4>1. op[q].pc = op'[q].pc
        BY <2>1, <3>1 DEF RecordWait, EndCall, WaitInv, TypeInv, TypeOK
      <4>2. op'[q].pc = "blocked"
        BY <2>3, <3>1 DEF At
      <4>3. QED
        BY <4>1, <4>2 DEF RecordWait, At
    <3>3. QED
      BY <3>1, <3>2, SleeperStep
  <2>8. Circle(S \cap T)
    <3>1. w[o].holder \in S \cap T
      BY <2>4, <2>5
    <3>2. \A q \in S \cap T : held[Path(q)] \in S \cap T
      BY <2>4, <2>6, <2>7
    <3>3. QED
      BY <2>7, <3>1, <3>2 DEF Circle
  <2>9. QED
    BY <2>8 DEF NoCircle
<1>3. CASE \A o \in S : ~RecordWait(o)
  <2>1. \A q \in S : Waits(q) /\ Path(q)' = Path(q) /\ held'[Path(q)] = held[Path(q)]
    BY <1>3, SleeperStep DEF Circle
  <2>2. Circle(S)
    BY <2>1 DEF Circle
  <2>3. QED
    BY <2>2 DEF NoCircle
<1>4. QED
  BY <1>2, <1>3

\* Agents never sleep on each other's holds in a circle, however many there are
\* and however their waits interleave with releases, sweeps and failures: among
\* any sleepers one waits for somebody who is not among them.
THEOREM NoDeadlock == Spec => []NoSilentDeadlock
<1>1. Init => WaitInv /\ NoCircle
  BY WaitInit DEF Init, NoCircle, Circle, Waits, Sleeping, At, NoCall
<1>2. WaitInv /\ NoCircle /\ [Next]_vars => WaitInv' /\ NoCircle'
  BY WaitNext, CircleNext
<1>3. NoCircle => NoSilentDeadlock
  BY DEF NoCircle, Circle, Waits, NoSilentDeadlock
<1>4. QED
  BY <1>1, <1>2, <1>3, PTL DEF Spec

-----------------------------------------------------------------------------
(* The SQLite mirror agrees with the holds in memory whenever nothing is under *)
(* way, as long as the database accepts its writes (DbMayFail), no call is     *)
(* dropped (MayAbandon) and nobody unlocks by hand (Unlockers), the case       *)
(* locks_recovery checks. Crashes, sweeps, waits, API requests and a refresh   *)
(* that names another identity are covered.                                    *)

Undisturbed == DbMayFail = FALSE /\ MayAbandon = FALSE /\ Unlockers = {}

\* The call of o took its hold of p itself, and will give it back.
TookIt(o, p) == /\ Path(o) = p /\ op[o].waited
                /\ op[o].pc \notin {"idle", "start"}

\* The sweeper has deleted the row of hold e or is about to, and memory knows.
InSweep(e) == e \in sweep.snap \cup sweep.restore

\* A hold without its row: the acquire that writes it, the release that has
\* deleted it, or the sweep that has, is under way.
RowUnderway(p) ==
  \/ /\ Path(held[p]) = p
     /\ op[held[p]].pc \in {"acqdb", "relok"}
  \/ sweep.pc = "mem" /\ <<p, held[p]>> \in sweep.snap
  \/ <<p, held[p]>> \in sweep.restore

\* No failure and no dropped call leaves a mark, a task or an error path.
NoTrouble ==
  /\ forced = {} /\ persists = {}
  /\ \A o \in Owners : op[o].pc \notin {"acqfail", "relfail"}
\* Rows are written after the hold is taken and deleted before it is let go.
RowsAreHeld == \A p \in Paths : rows[p] # None => held[p] = rows[p]
HoldsHaveRows == \A p \in Paths : held[p] \in Owners => (rows[p] = held[p] \/ RowUnderway(p))
\* The sweeper's holds stay their owner's until it is done with them.
SweepOwns ==
  \A p \in Paths, o \in Owners : InSweep(<<p, o>>) => held[p] = o /\ ~TookIt(o, p)
IdleNotTaken == \A p \in idle : ~TookIt(held[p], p)
TakenIsMine ==
  \A o \in Owners :
    /\ op[o].pc \in {"acqdb", "acqok"} =>
         Mine(o) /\ Path(o) \notin idle /\ ~InSweep(<<Path(o), o>>)
    /\ op[o].pc \in {"reldb", "relok"} => Mine(o) /\ op[o].waited
    /\ op[o].pc = "relok" => rows[Path(o)] = None
\* Only the last stage has rows to write back; after the database stage the
\* snapshot's rows are gone.
SweepStages ==
  /\ sweep.pc # "restore" => sweep.restore = {}
  /\ sweep.pc = "mem" => \A p \in Paths, o \in Owners : <<p, o>> \in sweep.snap => rows[p] = None

MirrorInv == /\ TypeInv /\ NoTrouble /\ RowsAreHeld /\ HoldsHaveRows /\ SweepOwns
             /\ IdleNotTaken /\ TakenIsMine /\ SweepStages

\* What the rest of the proof uses of the types.
LEMMA MirrorTypes ==
  ASSUME TypeInv
  PROVE  /\ op \in [Owners -> Calls] /\ held \in [Paths -> Holders]
         /\ rows \in [Paths -> Owners \cup {None}] /\ idle \subseteq Paths
         /\ \A p \in idle : held[p] \in Owners
         /\ \A o \in Owners : Path(o) \in Paths
         /\ sweep \in [pc : {"off", "db", "mem", "restore"},
                       snap : SUBSET (Paths \X Owners), restore : SUBSET (Paths \X Owners),
                       freed : SUBSET Paths]
BY DEF TypeInv, TypeOK, Calls, Path

\* o's call moves on inside itself: the sweeper, the rows and what is past its
\* deadline stay, and nobody's hold changes.
LEMMA MoveKeepsMirror ==
  ASSUME MirrorInv, TypeInv', NEW o \in Owners,
         UNCHANGED <<held, idle, forced, persists, sweep, rows>>,
         \A q \in Owners \ {o} : op'[q] = op[q],
         op[o].pc \notin {"acqdb", "relok"},
         op'[o].pc \notin {"acqdb", "acqok", "acqfail", "relfail", "relok"},
         op'[o].pc = "reldb" => Mine(o) /\ op'[o].waited,
         op'[o].pc \notin {"idle", "start"} =>
            /\ op'[o].path = op[o].path
            /\ op[o].pc \notin {"idle", "start"} => op'[o].waited = op[o].waited
            /\ op[o].pc \in {"idle", "start"} => ~(op'[o].waited /\ Mine(o))
  PROVE  MirrorInv'
<1> USE MirrorTypes, OwnersAssumption
    DEF MirrorInv, Mine, Path
<1>1. NoTrouble' /\ RowsAreHeld' /\ SweepStages'
  BY DEF NoTrouble, RowsAreHeld, SweepStages
<1>2. HoldsHaveRows'
  BY DEF HoldsHaveRows, RowUnderway
<1>3. \A p \in Paths : TookIt(o, p)' => TookIt(o, p) \/ held[p] # o
  BY DEF TookIt
<1>4. SweepOwns'
  BY <1>3 DEF SweepOwns, InSweep, TookIt
<1>5. IdleNotTaken'
  BY <1>3 DEF IdleNotTaken, TookIt
<1>6. TakenIsMine'
  BY DEF TakenIsMine, InSweep
<1>7. QED
  BY <1>1, <1>2, <1>4, <1>5, <1>6

\* The steps of a call.
LEMMA CallKeepsMirror ==
  ASSUME Undisturbed, MirrorInv, TypeInv', NEW o \in Owners, CallStep(o) \/ WaitTimeout(o)
  PROVE  MirrorInv'
<1> DEFINE Others == \A q \in Owners \ {o} : op'[q] = op[q]
<1>0. /\ op \in [Owners -> Calls] /\ held \in [Paths -> Holders] /\ Path(o) \in Paths
      /\ rows \in [Paths -> Owners \cup {None}]
  BY MirrorTypes DEF MirrorInv
<1>1. CASE Peek(o)
  <2>1. op' = [op EXCEPT ![o].waited = ~Mine(o), ![o].pc = "try"]
    BY <1>1 DEF Peek
  <2>2. /\ op[o].pc = "start" /\ op'[o].pc = "try" /\ op'[o].path = op[o].path
        /\ op'[o].waited = ~Mine(o) /\ Others
    BY <1>0, <1>1, <2>1 DEF Peek, At, Calls
  <2>3. UNCHANGED <<held, idle, forced, persists, sweep, rows>>
    BY <1>1 DEF Peek, memory
  <2>4. QED
    BY <2>2, <2>3, MoveKeepsMirror
<1>2. CASE TryAcquire(o) /\ held[Path(o)] # None
  <2>1. UNCHANGED <<held, idle, forced, persists, sweep, rows>>
    BY <1>2 DEF TryAcquire
  <2>2. /\ op[o].pc \in {"try", "retry"} /\ op'[o].pc \in {"acquired", "arm", "record"} /\ Others
        /\ op'[o].path = op[o].path /\ op'[o].waited = op[o].waited
    BY <1>0, <1>2 DEF TryAcquire, Goto, Calls
  <2>3. QED
    BY <2>1, <2>2, MoveKeepsMirror
<1>3. CASE TryAcquire(o) /\ held[Path(o)] = None
  <2>1. /\ held' = [held EXCEPT ![Path(o)] = o] /\ idle' = idle \ {Path(o)}
        /\ op' = [op EXCEPT ![o].pc = "acqdb", ![o].overwrite = Path(o) \in forced]
        /\ UNCHANGED <<forced, persists, sweep, rows>> /\ op[o].pc \in {"try", "retry"}
    BY <1>3, OwnersAssumption DEF TryAcquire
  <2>2. /\ op'[o].pc = "acqdb" /\ Others
        /\ op'[o].path = op[o].path /\ op'[o].waited = op[o].waited
    BY <1>0, <2>1 DEF Calls
  <2>3. rows[Path(o)] = None
    BY <1>0, <1>3, OwnersAssumption DEF MirrorInv, RowsAreHeld
  <2>4. \A p \in Paths : held'[p] = held[p] \/ p = Path(o) 
    BY <1>0, <2>1
  <2>5. held'[Path(o)] = o
    BY <1>0, <2>1
  <2>6. NoTrouble' /\ SweepStages' /\ RowsAreHeld'
    BY <1>0, <2>1, <2>2, <2>3, <2>4 DEF MirrorInv, NoTrouble, SweepStages, RowsAreHeld
  <2>7. HoldsHaveRows'
    BY <1>0, <2>1, <2>2, <2>4, <2>5 DEF MirrorInv, HoldsHaveRows, RowUnderway, Path
  <2>8. \A q \in Owners, p \in Paths : TookIt(q, p)' => TookIt(q, p)
    BY <2>1, <2>2 DEF TookIt, Path
  <2>9. SweepOwns'
    BY <1>3, <2>1, <2>4, <2>8, OwnersAssumption DEF MirrorInv, SweepOwns, InSweep
  <2>10. IdleNotTaken'
    BY <2>1, <2>4, <2>8, MirrorTypes DEF MirrorInv, IdleNotTaken
  <2>11. ~InSweep(<<Path(o), o>>)
    BY <1>0, <1>3, OwnersAssumption DEF MirrorInv, SweepOwns
  <2>12. \A q \in Owners \ {o} : Mine(q) => Mine(q)'
    BY <1>0, <1>3, <2>2, <2>4, MirrorTypes, OwnersAssumption DEF MirrorInv, Mine, Path
  <2>13. TakenIsMine'
    BY <1>0, <2>1, <2>2, <2>5, <2>11, <2>12 DEF MirrorInv, TakenIsMine, InSweep, Mine, Path
  <2>14. QED
    BY <2>6, <2>7, <2>9, <2>10, <2>13 DEF MirrorInv
<1>4. CASE AcquireDb(o)
  <2>1. op[o].pc = "acqdb" /\ Mine(o)
    BY <1>4 DEF AcquireDb, At, MirrorInv, TakenIsMine
  <2>2. RowFree(Path(o), o)
    BY <1>0, <2>1 DEF MirrorInv, RowsAreHeld, RowFree, Mine
  <2>3. /\ rows' = [rows EXCEPT ![Path(o)] = o] /\ Goto(o, "acqok")
        /\ UNCHANGED <<held, idle, forced, persists, sweep>>
    BY <1>4, <2>2 DEF AcquireDb, lock_acquire, memory, Undisturbed
  <2>4. /\ op'[o].pc = "acqok" /\ Others
        /\ op'[o].path = op[o].path /\ op'[o].waited = op[o].waited
    BY <1>0, <2>3 DEF Calls, Goto
  <2>5. NoTrouble' /\ SweepStages' /\ RowsAreHeld'
    BY <1>0, <2>1, <2>3, <2>4 DEF MirrorInv, NoTrouble, SweepStages, RowsAreHeld, Mine,
       SweepOwns, TakenIsMine, InSweep
  <2>6. HoldsHaveRows'
    BY <1>0, <2>1, <2>3, <2>4 DEF MirrorInv, HoldsHaveRows, RowUnderway, Mine, Path
  <2>7. \A q \in Owners, p \in Paths : TookIt(q, p)' => TookIt(q, p)
    BY <2>1, <2>4 DEF TookIt, Path
  <2>8. SweepOwns' /\ IdleNotTaken'
    BY <2>3, <2>7, MirrorTypes DEF MirrorInv, SweepOwns, IdleNotTaken, InSweep
  <2>9. TakenIsMine'
    BY <1>0, <2>1, <2>3, <2>4 DEF MirrorInv, TakenIsMine, InSweep, Mine, Path
  <2>10. QED
    BY <2>5, <2>6, <2>8, <2>9 DEF MirrorInv
<1>5. CASE AcquireOk(o)
  <2>1. UNCHANGED <<held, idle, persists, sweep, rows>> /\ forced' = {} /\ forced = {}
    BY <1>5 DEF AcquireOk, MirrorInv, NoTrouble
  <2>2. /\ op[o].pc = "acqok" /\ op'[o].pc = "acquired" /\ Others
        /\ op'[o].path = op[o].path /\ op'[o].waited = op[o].waited
    BY <1>0, <1>5 DEF AcquireOk, At, Calls
  <2>3. QED
    BY <2>1, <2>2, MoveKeepsMirror
<1>6. CASE AcquireFail(o)
  BY <1>6 DEF AcquireFail, At, MirrorInv, NoTrouble
<1>7. CASE Arm(o) \/ Wake(o)
  <2>1. UNCHANGED <<held, idle, forced, persists, sweep, rows>>
    BY <1>7 DEF Arm, Wake, memory
  <2>2. /\ op[o].pc \in {"arm", "blocked"} /\ op'[o].pc \in {"arm", "retry"} /\ Others
        /\ op'[o].path = op[o].path /\ op'[o].waited = op[o].waited
    BY <1>0, <1>7 DEF Arm, Wake, At, Goto, Calls
  <2>3. QED
    BY <2>1, <2>2, MoveKeepsMirror
<1>8. CASE RecordWait(o) \/ WaitTimeout(o)
  <2>1. UNCHANGED <<held, idle, forced, persists, sweep, rows>>
    BY <1>8 DEF RecordWait, WaitTimeout
  <2>2. /\ op[o].pc \in {"record", "blocked"} /\ op'[o].pc \in {"idle", "blocked"} /\ Others
        /\ op'[o].pc # "idle" => op'[o].path = op[o].path /\ op'[o].waited = op[o].waited
    BY <1>0, <1>8 DEF RecordWait, WaitTimeout, At, EndCall, NoCall, Calls
  <2>3. QED
    BY <2>1, <2>2, MoveKeepsMirror
<1>9. CASE BeginGuard(o) \/ Land(o)
  <2>1. UNCHANGED <<held, idle, forced, persists, sweep, rows>>
    BY <1>9 DEF BeginGuard, Land, memory
  <2>2. /\ op[o].pc \in {"acquired", "guard"} /\ op'[o].pc \in {"idle", "guard", "reldb"} /\ Others
        /\ op'[o].pc # "idle" => op'[o].path = op[o].path /\ op'[o].waited = op[o].waited
        /\ op'[o].pc = "reldb" => op[o].waited /\ Mine(o)
    BY <1>0, <1>9 DEF BeginGuard, Land, At, Goto, EndCall, NoCall, Calls
  <2>3. QED
    BY <2>1, <2>2, MoveKeepsMirror
<1>10. CASE ReleaseDb(o)
  <2>1. op[o].pc = "reldb" /\ Mine(o) /\ op[o].waited
    BY <1>10 DEF ReleaseDb, At, MirrorInv, TakenIsMine
  <2>2. /\ rows' = Without(rows, Path(o), o) /\ Goto(o, "relok")
        /\ UNCHANGED <<held, idle, forced, persists, sweep>>
    BY <1>10 DEF ReleaseDb, lock_release, memory, Undisturbed
  <2>3. /\ op'[o].pc = "relok" /\ Others
        /\ op'[o].path = op[o].path /\ op'[o].waited = op[o].waited
    BY <1>0, <2>2 DEF Calls, Goto
  <2>4. \A p \in Paths : rows'[p] = IF p = Path(o) THEN None ELSE rows[p]
    BY <1>0, <2>1, <2>2 DEF MirrorInv, RowsAreHeld, Without, Mine
  <2>5. NoTrouble' /\ SweepStages' /\ RowsAreHeld'
    BY <1>0, <2>2, <2>3, <2>4 DEF MirrorInv, NoTrouble, SweepStages, RowsAreHeld
  <2>6. HoldsHaveRows'
    BY <1>0, <2>1, <2>2, <2>3, <2>4 DEF MirrorInv, HoldsHaveRows, RowUnderway, Mine, Path
  <2>7. \A q \in Owners, p \in Paths : TookIt(q, p)' => TookIt(q, p)
    BY <2>1, <2>3 DEF TookIt, Path
  <2>8. SweepOwns' /\ IdleNotTaken'
    BY <2>2, <2>7, MirrorTypes DEF MirrorInv, SweepOwns, IdleNotTaken, InSweep
  <2>9. TakenIsMine'
    <3>1. \A q \in Owners : rows[Path(q)] = None => rows'[Path(q)] = None
      BY <2>4, MirrorTypes DEF MirrorInv
    <3>2. \A q \in Owners \ {o} : Path(q)' = Path(q) /\ op'[q].pc = op[q].pc /\ op'[q].waited = op[q].waited
      BY <2>3 DEF Path
    <3>3. Path(o)' = Path(o) /\ rows'[Path(o)] = None
      BY <1>0, <2>3, <2>4 DEF Path
    <3>4. ASSUME NEW q \in Owners, op'[q].pc \in {"acqdb", "acqok"}
          PROVE  Mine(q)' /\ Path(q)' \notin idle' /\ ~InSweep(<<Path(q), q>>)'
      BY <2>2, <2>3, <3>2, <3>4 DEF MirrorInv, TakenIsMine, InSweep, Mine, Path
    <3>5. ASSUME NEW q \in Owners, op'[q].pc \in {"reldb", "relok"}
          PROVE  Mine(q)' /\ op'[q].waited
      BY <2>1, <2>2, <2>3, <3>2, <3>5 DEF MirrorInv, TakenIsMine, Mine, Path
    <3>6. ASSUME NEW q \in Owners, op'[q].pc = "relok" PROVE rows'[Path(q)'] = None
      BY <2>3, <3>1, <3>2, <3>3, <3>6 DEF MirrorInv, TakenIsMine
    <3>7. QED
      BY <3>4, <3>5, <3>6 DEF TakenIsMine
  <2>10. QED
    BY <2>5, <2>6, <2>8, <2>9 DEF MirrorInv
<1>11. CASE ReleaseMemory(o)
  <2>1. op[o].pc = "relok" /\ Mine(o) /\ op[o].waited
    BY <1>11 DEF ReleaseMemory, MirrorInv, NoTrouble, TakenIsMine
  <2>2. /\ held' = [held EXCEPT ![Path(o)] = None] /\ idle' = idle \ {Path(o)}
        /\ forced' = {} /\ EndCall(o) /\ UNCHANGED <<persists, sweep, rows>>
    BY <1>11, <2>1 DEF ReleaseMemory, DropHold, At, Mine, MirrorInv, NoTrouble
  <2>3. op'[o].pc = "idle" /\ Others
    BY <1>0, <2>2 DEF EndCall, NoCall
  <2>4. TookIt(o, Path(o))
    BY <2>1 DEF TookIt
  <2>5. ~InSweep(<<Path(o), o>>) /\ \A q \in Owners : q # o => ~InSweep(<<Path(o), q>>)
    BY <1>0, <2>1, <2>4 DEF MirrorInv, SweepOwns, Mine
  <2>6. rows[Path(o)] = None
    BY <2>1 DEF MirrorInv, TakenIsMine
  <2>7. \A p \in Paths : held'[p] = IF p = Path(o) THEN None ELSE held[p]
    BY <1>0, <2>2
  <2>8. NoTrouble' /\ SweepStages' /\ RowsAreHeld'
    BY <1>0, <2>2, <2>3, <2>6, <2>7 DEF MirrorInv, NoTrouble, SweepStages, RowsAreHeld
  <2>9. HoldsHaveRows'
    BY <1>0, <2>2, <2>3, <2>7, OwnersAssumption DEF MirrorInv, HoldsHaveRows, RowUnderway, Path
  <2>10. \A q \in Owners, p \in Paths : TookIt(q, p)' => TookIt(q, p)
    BY <2>3 DEF TookIt, Path
  <2>11. SweepOwns'
    BY <2>2, <2>5, <2>7, <2>10 DEF MirrorInv, SweepOwns, InSweep
  <2>12. IdleNotTaken'
    BY <2>2, <2>7, <2>10, MirrorTypes DEF MirrorInv, IdleNotTaken
  <2>13. \A q \in Owners \ {o} : Mine(q) => Mine(q)'
    BY <2>1, <2>3, <2>7, MirrorTypes DEF MirrorInv, Mine, Path
  <2>14. TakenIsMine'
    BY <2>2, <2>3, <2>13, MirrorTypes DEF MirrorInv, TakenIsMine, InSweep, Path
  <2>15. QED
    BY <2>8, <2>9, <2>11, <2>12, <2>14 DEF MirrorInv
<1>12. QED
  BY <1>1, <1>2, <1>3, <1>4, <1>5, <1>6, <1>7, <1>8, <1>9, <1>10, <1>11 DEF CallStep

\* The other steps.
LEMMA MirrorNext ==
  ASSUME Undisturbed, MirrorInv, [Next]_vars
  PROVE  MirrorInv'
<1>0. /\ op \in [Owners -> Calls] /\ held \in [Paths -> Holders] 
      /\ rows \in [Paths -> Owners \cup {None}]
      /\ idle \subseteq Paths /\ \A p \in idle : held[p] \in Owners
      /\ \A o \in Owners : Path(o) \in Paths
      /\ sweep \in [pc : {"off", "db", "mem", "restore"},
                    snap : SUBSET (Paths \X Owners), restore : SUBSET (Paths \X Owners),
                    freed : SUBSET Paths]
  BY MirrorTypes DEF MirrorInv
<1>1. TypeInv'
  BY TypeNext DEF MirrorInv
<1>2. ASSUME NEW o \in Owners, NEW p \in Paths, StartWrite(o, p) PROVE MirrorInv'
  <2>1. /\ UNCHANGED <<held, forced, persists, sweep, rows>> /\ idle' \subseteq idle
        /\ op[o].pc = "idle" /\ op'[o].pc = "start" /\ \A q \in Owners \ {o} : op'[q] = op[q]
    BY <1>0, <1>2 DEF StartWrite, touch_holder, At, NoCall
  <2>2. NoTrouble' /\ SweepStages' /\ RowsAreHeld' /\ HoldsHaveRows'
    BY <1>0, <2>1 DEF MirrorInv, NoTrouble, SweepStages, RowsAreHeld, HoldsHaveRows,
       RowUnderway, Path
  <2>3. SweepOwns' /\ IdleNotTaken'
    BY <1>0, <2>1 DEF MirrorInv, SweepOwns, IdleNotTaken, TookIt, InSweep, Path
  <2>4. TakenIsMine'
    BY <1>0, <2>1 DEF MirrorInv, TakenIsMine, InSweep, Mine, Path
  <2>5. QED
    BY <1>1, <2>2, <2>3, <2>4 DEF MirrorInv
<1>3. ASSUME NEW o \in Owners, NEW p \in Paths, StartUnlock(o, p) PROVE MirrorInv'
  BY <1>3 DEF StartUnlock, Undisturbed
<1>4. ASSUME NEW o \in Owners, GiveUpGuard(o) \/ DropCall(o) PROVE MirrorInv'
  BY <1>4 DEF GiveUpGuard, DropCall, Undisturbed
\* A step that gives and takes only what no agent holds.
<1>5. ASSUME UNCHANGED <<op, rows, sweep, forced, persists>>, idle' \subseteq idle,
             \A p \in Paths : \/ held'[p] = held[p]
                              \/ held[p] \in {None, Api} /\ held'[p] \in {None, Api}
      PROVE  MirrorInv'
  <2>1. NoTrouble' /\ SweepStages'
    BY <1>5 DEF MirrorInv, NoTrouble, SweepStages
  <2>2. RowsAreHeld' /\ HoldsHaveRows'
    BY <1>0, <1>5, OwnersAssumption DEF MirrorInv, RowsAreHeld, HoldsHaveRows, RowUnderway, Path
  <2>3. SweepOwns' /\ IdleNotTaken'
    BY <1>0, <1>5, OwnersAssumption DEF MirrorInv, SweepOwns, IdleNotTaken, TookIt, InSweep, Path
  <2>4. TakenIsMine'
    BY <1>0, <1>5, OwnersAssumption DEF MirrorInv, TakenIsMine, InSweep, Mine, Path
  <2>5. QED
    BY <1>1, <2>1, <2>2, <2>3, <2>4 DEF MirrorInv
<1>6. ASSUME NEW r \in Requests, NEW p \in Paths, ApiBegin(r, p) PROVE MirrorInv'
  BY <1>0, <1>5, <1>6 DEF ApiBegin, ApiMayEnter
<1>7. ASSUME NEW r \in Requests, ApiEnd(r) PROVE MirrorInv'
  BY <1>0, <1>5, <1>7 DEF ApiEnd, DropHold
<1>8. ASSUME NEW p \in Paths, Age(p) PROVE MirrorInv'
  <2>1. /\ UNCHANGED <<held, forced, persists, sweep, rows, op>>
        /\ idle' = idle \cup {p} /\ held[p] \in Owners /\ op[held[p]].pc = "idle"
    BY <1>8 DEF Age, tasks, At
  <2>2. NoTrouble' /\ SweepStages' /\ RowsAreHeld' /\ HoldsHaveRows' /\ SweepOwns'
    BY <1>0, <2>1 DEF MirrorInv, NoTrouble, SweepStages, RowsAreHeld, HoldsHaveRows,
       RowUnderway, Path, SweepOwns, TookIt, InSweep
  <2>3. IdleNotTaken'
    BY <1>0, <2>1 DEF MirrorInv, IdleNotTaken, TookIt, Path
  <2>4. TakenIsMine'
    BY <1>0, <2>1 DEF MirrorInv, TakenIsMine, InSweep, Mine, Path
  <2>5. QED
    BY <1>1, <2>2, <2>3, <2>4 DEF MirrorInv
<1>9. CASE SweepSnapshot
  <2>1. /\ UNCHANGED <<held, idle, forced, persists, rows, op>> /\ sweep.pc = "off"
        /\ sweep' = [pc |-> "db", snap |-> {<<p, held[p]>> : p \in idle}, restore |-> {}, freed |-> {}]
    BY <1>9 DEF SweepSnapshot, memory, NoSweep
  <2>2. NoTrouble' /\ SweepStages' /\ RowsAreHeld' /\ IdleNotTaken'
    BY <1>0, <2>1 DEF MirrorInv, NoTrouble, SweepStages, RowsAreHeld, IdleNotTaken, TookIt, Path
  <2>3. HoldsHaveRows'
    BY <1>0, <2>1 DEF MirrorInv, SweepStages, HoldsHaveRows, RowUnderway, Path
  <2>4. SweepOwns'
    BY <1>0, <2>1 DEF MirrorInv, SweepOwns, IdleNotTaken, TookIt, InSweep, Path
  <2>5. TakenIsMine'
    <3>1. \A p \in Paths, o \in Owners : InSweep(<<p, o>>)' => p \in idle
      BY <1>0, <2>1 DEF InSweep
    <3>2. QED
      BY <1>0, <2>1, <3>1 DEF MirrorInv, TakenIsMine, Mine, Path
  <2>6. QED
    BY <1>1, <2>2, <2>3, <2>4, <2>5 DEF MirrorInv
<1>10. CASE SweepDb
  <2>1. /\ UNCHANGED <<held, idle, forced, persists, op>> /\ sweep.pc = "db"
        /\ sweep' = [sweep EXCEPT !.pc = "mem"]
        /\ rows' = [p \in Paths |-> IF <<p, rows[p]>> \in sweep.snap THEN None ELSE rows[p]]
    BY <1>10 DEF SweepDb, memory, lock_release_and_delete_reads, Undisturbed
  <2>2. sweep'.pc = "mem" /\ sweep'.snap = sweep.snap /\ sweep'.restore = sweep.restore
    BY <1>0, <2>1
  <2>3. NoTrouble' /\ SweepStages' /\ IdleNotTaken' /\ SweepOwns'
    <3>1. NoTrouble' /\ IdleNotTaken' /\ SweepOwns'
      BY <1>0, <2>1, <2>2 DEF MirrorInv, NoTrouble, IdleNotTaken, SweepOwns, TookIt, InSweep, Path
    <3>2. \A p \in Paths, o \in Owners : <<p, o>> \in sweep.snap => rows'[p] = None
      BY <1>0, <2>1 DEF MirrorInv, SweepOwns, RowsAreHeld, InSweep
    <3>3. QED
      BY <2>1, <2>2, <3>1, <3>2 DEF MirrorInv, SweepStages
  <2>4. RowsAreHeld'
    BY <1>0, <2>1 DEF MirrorInv, RowsAreHeld
  <2>5. HoldsHaveRows'
    BY <1>0, <2>1, <2>2 DEF MirrorInv, HoldsHaveRows, RowUnderway, Path
  <2>6. TakenIsMine'
    BY <1>0, <2>1, <2>2 DEF MirrorInv, TakenIsMine, InSweep, Mine, Path
  <2>7. QED
    BY <1>1, <2>3, <2>4, <2>5, <2>6 DEF MirrorInv
<1>11. CASE SweepMemory
  <2> DEFINE gone == {e \in sweep.snap : Expired(e)}
             kept == {e \in sweep.snap : Refreshed(e)}
             freed == {e[1] : e \in gone}
  <2>1. /\ sweep.pc = "mem"
        /\ held' = [p \in Paths |-> IF p \in freed THEN None ELSE held[p]]
        /\ idle' = idle \ freed
        /\ sweep' = [pc |-> "restore", snap |-> {}, freed |-> freed, restore |-> kept]
        /\ UNCHANGED <<forced, persists, op, rows>>
    BY <1>11 DEF SweepMemory, Reclaim
  <2>2. /\ \A p \in freed : p \in Paths /\ p \in idle /\ <<p, held[p]>> \in sweep.snap
        /\ \A e \in kept : e[1] \notin freed /\ held[e[1]] = e[2] /\ e[1] \in Paths
        /\ kept \subseteq sweep.snap
        /\ \A p \in Paths : held[p] \in Owners /\ <<p, held[p]>> \in sweep.snap
                              => p \in freed \/ <<p, held[p]>> \in kept
    BY <1>0 DEF Expired, Refreshed
  <2> HIDE DEF gone, kept, freed
  <2>3. NoTrouble' /\ SweepStages'
    BY <1>0, <2>1 DEF MirrorInv, NoTrouble, SweepStages
  <2>4. \A p \in freed : rows[p] = None
    BY <1>0, <2>1, <2>2 DEF MirrorInv, SweepStages
  <2>5. RowsAreHeld'
    BY <1>0, <2>1, <2>4 DEF MirrorInv, RowsAreHeld
  <2>6. HoldsHaveRows'
    BY <1>0, <2>1, <2>2, OwnersAssumption DEF MirrorInv, HoldsHaveRows, RowUnderway, Path, SweepStages
  <2>7. SweepOwns' /\ IdleNotTaken'
    BY <1>0, <2>1, <2>2 DEF MirrorInv, SweepOwns, IdleNotTaken, TookIt, InSweep, Path
  <2>8. \A o \in Owners : op[o].pc \in {"acqdb", "acqok", "reldb", "relok"} => Path(o) \notin freed
    BY <1>0, <2>2 DEF MirrorInv, TakenIsMine, IdleNotTaken, TookIt, Mine
  <2>9. TakenIsMine'
    BY <1>0, <2>1, <2>2, <2>8 DEF MirrorInv, TakenIsMine, InSweep, Mine, Path
  <2>10. QED
    BY <1>1, <2>3, <2>5, <2>6, <2>7, <2>9 DEF MirrorInv
<1>12. ASSUME NEW e \in sweep.restore, SweepRestore(e) PROVE MirrorInv'
  <2> DEFINE p == e[1]
             o == e[2]
  <2>1. p \in Paths /\ o \in Owners /\ e = <<p, o>> /\ InSweep(<<p, o>>)
    BY <1>0 DEF InSweep
  <2> HIDE DEF p, o
  <2>2. held[p] = o /\ ~TookIt(o, p)
    BY <2>1 DEF MirrorInv, SweepOwns
  <2>3. rows' = [rows EXCEPT ![p] = o] /\ UNCHANGED <<held, idle, forced, persists, op>>
    <3>1. RowFree(p, o)
      BY <1>0, <2>1, <2>2 DEF MirrorInv, RowsAreHeld, RowFree
    <3>2. QED
      BY <1>12, <3>1 DEF SweepRestore, lock_acquire, memory, Undisturbed, p, o
  <2>4. /\ sweep'.pc = sweep.pc /\ sweep.pc = "restore" /\ sweep'.snap = sweep.snap
        /\ sweep'.restore = sweep.restore \ {<<p, o>>}
    BY <1>0, <1>12, <2>1 DEF SweepRestore
  <2>5. NoTrouble' /\ SweepStages' /\ RowsAreHeld'
    BY <1>0, <2>1, <2>2, <2>3, <2>4 DEF MirrorInv, NoTrouble, SweepStages, RowsAreHeld
  <2>6. HoldsHaveRows'
    BY <1>0, <2>1, <2>2, <2>3, <2>4 DEF MirrorInv, HoldsHaveRows, RowUnderway, Path
  <2>7. SweepOwns' /\ IdleNotTaken'
    BY <1>0, <2>3, <2>4 DEF MirrorInv, SweepOwns, IdleNotTaken, TookIt, InSweep, Path
  <2>8. TakenIsMine'
    BY <1>0, <2>1, <2>2, <2>3, <2>4 DEF MirrorInv, TakenIsMine, TookIt, InSweep, Mine, Path
  <2>9. QED
    BY <1>1, <2>5, <2>6, <2>7, <2>8 DEF MirrorInv
<1>13. CASE SweepNotify
  <2>1. /\ UNCHANGED <<held, idle, forced, persists, rows, op>>
        /\ sweep.restore = {} /\ sweep.pc = "restore"
        /\ sweep' = [pc |-> "off", snap |-> {}, restore |-> {}, freed |-> {}]
    BY <1>13 DEF SweepNotify, NoSweep
  <2>2. NoTrouble' /\ SweepStages' /\ RowsAreHeld' /\ IdleNotTaken' /\ HoldsHaveRows'
    BY <1>0, <2>1 DEF MirrorInv, NoTrouble, SweepStages, RowsAreHeld, IdleNotTaken, TookIt,
       Path, HoldsHaveRows, RowUnderway
  <2>3. SweepOwns' /\ TakenIsMine'
    BY <1>0, <2>1 DEF MirrorInv, SweepOwns, InSweep, TakenIsMine, Mine, Path
  <2>4. QED
    BY <1>1, <2>2, <2>3 DEF MirrorInv
<1>14. CASE Restart
  <2>1. /\ held' = rows /\ rows' = rows /\ idle' = {} /\ forced' = {} /\ persists' = {}
        /\ op' = [o \in Owners |-> NoCall]
        /\ sweep' = [pc |-> "off", snap |-> {}, restore |-> {}, freed |-> {}]
    BY <1>14 DEF Restart, NoSweep
  <2>2. QED
    BY <1>0, <1>1, <2>1 DEF MirrorInv, NoTrouble, SweepStages, RowsAreHeld, IdleNotTaken,
       HoldsHaveRows, SweepOwns, InSweep, TakenIsMine, NoCall
<1>15. CASE PersistStep
  BY <1>15 DEF PersistStep, MirrorInv, NoTrouble
<1>16. CASE UNCHANGED vars
  BY <1>5, <1>16 DEF vars, memory, tasks
<1>17. ASSUME NEW o \in Owners, CallStep(o) \/ WaitTimeout(o) PROVE MirrorInv'
  BY <1>1, <1>17, CallKeepsMirror
<1>18. QED
  BY <1>2, <1>3, <1>4, <1>6, <1>7, <1>8, <1>9, <1>10, <1>11, <1>12, <1>13, <1>14, <1>15, <1>16, <1>17
  DEF Next, SweepStep

\* Whenever no call, sweep or clean-up is under way, the rows of lock_state are
\* exactly the agents' holds, so that a restart finds every hold and no other:
\* as long as writes to the database succeed, calls run to their end and holds
\* are released by the calls that took them.
THEOREM MirrorHolds ==
  ASSUME Undisturbed
  PROVE  Spec => []MirrorCoherent
<1>1. Init => MirrorInv
  BY TypeInit DEF Init, MirrorInv, NoTrouble, SweepStages, RowsAreHeld, IdleNotTaken,
     HoldsHaveRows, SweepOwns, InSweep, TakenIsMine, NoCall, NoSweep, OwnersAssumption
<1>2. MirrorInv /\ [Next]_vars => MirrorInv'
  BY MirrorNext
<1>3. MirrorInv => MirrorCoherent
  <2> SUFFICES ASSUME MirrorInv, Quiescent, NEW p \in Paths, held[p] # Api PROVE rows[p] = held[p]
    BY DEF MirrorCoherent
  <2>1. held[p] \in Owners => ~RowUnderway(p)
    BY MirrorTypes DEF MirrorInv, Quiescent, SweepStages, RowUnderway, At
  <2>2. QED
    BY <2>1, MirrorTypes DEF MirrorInv, HoldsHaveRows, RowsAreHeld, Holders
<1>4. QED
  BY <1>1, <1>2, <1>3, PTL DEF Spec
=============================================================================
