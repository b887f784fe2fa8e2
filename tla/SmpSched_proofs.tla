--------------------------- MODULE SmpSched_proofs ---------------------------
(***************************************************************************)
(* The safety of the dispatcher for every set of runs, carriers and edge   *)
(* threads, every program and every capacity of the ring.                  *)
(*                                                                         *)
(* The argument rests on where a process is and what it then holds         *)
(* (Control), on the effect of the two ring operations (PushRing, PopRing) *)
(* and on one strengthening per property, each inductive over Control.     *)
(***************************************************************************)
EXTENDS SmpSched, SequenceTheorems, TLAPS

Handles == Runs \cup {Stale}

-----------------------------------------------------------------------------
(* The ring *)

\* A push appends: what was in the ring keeps its place.
LEMMA PushRing ==
    ASSUME ring \in Seq(Handles), NEW r \in Runs, RingPush(r)
    PROVE  /\ ring' \in Seq(Handles)
           /\ Len(ring') = Len(ring) + 1
           /\ \A i \in 1..Len(ring) : ring'[i] = ring[i]
           /\ ring'[Len(ring) + 1] = r
<1>1. ring' = Append(ring, r)
  BY DEF RingPush
<1>2. r \in Handles
  BY DEF Handles
<1> QED
  BY <1>1, <1>2, AppendProperties

\* A pop takes the run at some place k, drops the stale handles before it and moves the
\* rest k places forward.
LEMMA PopRing ==
    ASSUME ring \in Seq(Handles), NEW r \in Runs, RingPop(r)
    PROVE  \E k \in 1..Len(ring) :
               /\ ring[k] = r
               /\ \A j \in 1..(k - 1) : ring[j] = Stale
               /\ ring' \in Seq(Handles)
               /\ Len(ring') = Len(ring) - k
               /\ \A i \in 1..(Len(ring) - k) : ring'[i] = ring[i + k]
               /\ ring' = SubSeq(ring, k + 1, Len(ring))
<1>1. PICK k \in Live : /\ \A j \in Live : k <= j
                        /\ r = ring[k]
                        /\ ring' = SubSeq(ring, k + 1, Len(ring))
  BY DEF RingPop
<1>2. Len(ring) \in Nat /\ k \in 1..Len(ring)
  BY LenProperties DEF Live
<1>3. \A j \in 1..(k - 1) : ring[j] = Stale
  BY <1>1, <1>2 DEF Live
<1>4. \A i \in (k + 1)..Len(ring) : ring[i] \in Handles
  BY <1>2, ElementOfSeq
<1>5. /\ ring' \in Seq(Handles)
      /\ Len(ring') = IF k + 1 <= Len(ring) THEN Len(ring) - (k + 1) + 1 ELSE 0
      /\ \A i \in 1..(Len(ring) - (k + 1) + 1) : ring'[i] = ring[(k + 1) + i - 1]
  BY <1>1, <1>2, <1>4, SubSeqProperties
<1>6. Len(ring') = Len(ring) - k
  BY <1>2, <1>5
<1>7. \A i \in 1..(Len(ring) - k) : ring'[i] = ring[i + k]
  BY <1>2, <1>5
<1> QED
  BY <1>1, <1>2, <1>3, <1>5, <1>6, <1>7

-----------------------------------------------------------------------------
(* Where a process is, and what it then holds *)

NoRunPcs == {"top", "pop", "wait", "asleep", "exit"}

Control ==
    /\ \A c \in Carriers :
           /\ pc[c] \in CarrierPcs \cup WakePcs \cup {"push", "bell", "exit"}
           /\ (cur[c] = NoRun) <=> (pc[c] \in NoRunPcs)
           /\ pc[c] \in WakePcs => tgt[c] # NoRun
           /\ tgt[c] # NoRun => pc[c] \in WakePcs \cup {"push", "bell"}
    /\ \A e \in Edges :
           /\ pc[e] \in WakePcs \cup {"idle", "bell", "exit"}
           /\ cur[e] = NoRun
           /\ (tgt[e] # NoRun) <=> (pc[e] \in WakePcs \cup {"bell"})
    /\ pc[Main] \in {"idle", "bell", "exit"}
    /\ cur[Main] = NoRun /\ tgt[Main] = NoRun
    /\ \A p \in Procs : pc[p] = "retract" => stop

LEMMA TypingInit == Init => TypeOK /\ Control
<1> SUFFICES ASSUME Init PROVE TypeOK /\ Control
  OBVIOUS
<1> USE SchedAssumption DEF Init
<1>1. TypeOK
  <2>1. /\ state \in [Runs -> RunStates]
        /\ token \in [Runs -> {0, 1}]
        /\ dirty \in [Runs -> BOOLEAN]
        /\ parkCarrier \in [Runs -> Carriers \cup {NoCarrier}]
        /\ owed \in [Runs -> BOOLEAN]
    BY DEF RunStates
  <2>2. deferred \in [Runs -> 0..2]
    BY 0 \in 0..2
  <2>3. /\ ring \in Seq(Runs \cup {Stale})
        /\ torn \in BOOLEAN /\ work \in BOOLEAN /\ stop \in BOOLEAN
    OBVIOUS
  <2>4. /\ pc \in [Procs -> CarrierPcs \cup WakePcs \cup SharedPcs]
        /\ cur \in [Procs -> Runs \cup {NoRun}]
        /\ tgt \in [Procs -> Runs \cup {NoRun}]
    BY DEF CarrierPcs, SharedPcs
  <2> QED
    BY <2>1, <2>2, <2>3, <2>4 DEF TypeOK
<1>2. Control
  BY DEF Control, NoRunPcs, CarrierPcs, WakePcs, Procs
<1> QED
  BY <1>1, <1>2

\* A step of a carrier alone.
LEMMA TypingCarrier ==
    ASSUME TypeOK, Control, NEW c \in Carriers, CarrierNext(c)
    PROVE  TypeOK' /\ Control'
<1> USE SchedAssumption
<1> c \in Procs
  BY DEF Procs
<1> USE DEF TypeOK, Control, RunStates, CarrierPcs, WakePcs, SharedPcs, NoRunPcs, Procs, cells,
            vars, Goto
<1>1. CASE Stopped(c)
  <2>1. TypeOK'
    BY <1>1 DEF Stopped
  <2>2. Control'
    BY <1>1 DEF Stopped
  <2> QED
    BY <2>1, <2>2
<1>2. CASE NotStopped(c)
  <2>1. TypeOK'
    BY <1>2 DEF NotStopped
  <2>2. Control'
    BY <1>2 DEF NotStopped
  <2> QED
    BY <2>1, <2>2
<1>3. CASE PopEmpty(c)
  <2>1. TypeOK'
    BY <1>3 DEF PopEmpty
  <2>2. Control'
    BY <1>3 DEF PopEmpty
  <2> QED
    BY <2>1, <2>2
<1>4. CASE PopRun(c)
  <2>1. PICK r \in Runs : RingPop(r) /\ cur' = [cur EXCEPT ![c] = r]
    BY <1>4 DEF PopRun
  <2>2. ring' \in Seq(Runs \cup {Stale})
    BY <2>1, PopRing DEF Handles
  <2>3. TypeOK'
    BY <1>4, <2>1, <2>2 DEF PopRun
  <2>4. Control'
    BY <1>4, <2>1 DEF PopRun
  <2> QED
    BY <2>3, <2>4
<1>5. CASE ClaimWork(c)
  <2>1. TypeOK'
    BY <1>5 DEF ClaimWork
  <2>2. Control'
    BY <1>5 DEF ClaimWork
  <2> QED
    BY <2>1, <2>2
<1>6. CASE Sleep(c)
  <2>1. TypeOK'
    BY <1>6 DEF Sleep
  <2>2. Control'
    BY <1>6 DEF Sleep
  <2> QED
    BY <2>1, <2>2
<1>7. CASE Timeout(c)
  <2>1. TypeOK'
    BY <1>7 DEF Timeout
  <2>2. Control'
    BY <1>7 DEF Timeout
  <2> QED
    BY <2>1, <2>2
<1>8. CASE Defer(c)
  <2>0. deferred[cur[c]] + 1 \in 0..2
    <3>1. cur[c] \in Runs
      BY <1>8 DEF Defer
    <3>2. deferred[cur[c]] \in 0..2
      BY <3>1
    <3>3. deferred[cur[c]] < 2
      BY <1>8 DEF Defer, StepsAside
    <3> HIDE DEF TypeOK, Control
    <3> QED
      BY <3>2, <3>3
  <2>1. TypeOK'
    <3>1. deferred' \in [Runs -> 0..2]
      BY <1>8, <2>0 DEF Defer
    <3>2. pc' \in [Procs -> CarrierPcs \cup WakePcs \cup SharedPcs]
      BY <1>8 DEF Defer
    <3> QED
      BY <1>8, <3>1, <3>2 DEF Defer
  <2>2. Control'
    BY <1>8 DEF Defer, StepsAside
  <2> QED
    BY <2>1, <2>2
<1>9. CASE Take(c)
  <2>1. TypeOK'
    BY <1>9 DEF Take, Cas
  <2>2. Control'
    BY <1>9 DEF Take, Cas
  <2> QED
    BY <2>1, <2>2
<1>10. CASE RefuseTake(c)
  <2>1. TypeOK'
    BY <1>10 DEF RefuseTake, Drop
  <2>2. Control'
    BY <1>10 DEF RefuseTake, Drop
  <2> QED
    BY <2>1, <2>2
<1>11. CASE CheckSum(c)
  <2>1. TypeOK'
    BY <1>11 DEF CheckSum
  <2>2. Control'
    BY <1>11 DEF CheckSum
  <2> QED
    BY <2>1, <2>2
<1>12. CASE SealAgain(c)
  <2>1. TypeOK'
    BY <1>12 DEF SealAgain, Seal
  <2>2. Control'
    BY <1>12 DEF SealAgain, Seal
  <2> QED
    BY <2>1, <2>2
<1>13. CASE SealDone(c)
  <2>1. TypeOK'
    BY <1>13 DEF SealDone, Seal
  <2>2. Control'
    BY <1>13 DEF SealDone, Seal
  <2> QED
    BY <2>1, <2>2
<1>14. CASE SealPark(c)
  <2>1. TypeOK'
    BY <1>14 DEF SealPark, Seal
  <2>2. Control'
    BY <1>14 DEF SealPark, Seal
  <2> QED
    BY <2>1, <2>2
<1>15. CASE Requeue(c)
  <2>1. TypeOK'
    <3>1. CASE state[cur[c]] = "RUNNING"
      <4>1. /\ state' = [state EXCEPT ![cur[c]] = "READY"]
            /\ UNCHANGED <<token, dirty, parkCarrier, deferred, owed, ring, torn, work, stop,
                           tgt>>
        BY <1>15, <3>1 DEF Requeue, TryCas
      <4>2. /\ pc' = [pc EXCEPT ![c] = "push"]
            /\ cur' = cur
        BY <1>15, <3>1 DEF Requeue
      <4> QED
        BY <4>1, <4>2
    <3>2. CASE state[cur[c]] # "RUNNING"
      <4>1. UNCHANGED <<cells, ring, torn, work, stop, tgt>>
        BY <1>15, <3>2 DEF Requeue, TryCas
      <4>2. /\ pc' = [pc EXCEPT ![c] = "top"]
            /\ cur' = [cur EXCEPT ![c] = NoRun]
        BY <1>15, <3>2 DEF Requeue, Drop
      <4> QED
        BY <4>1, <4>2
    <3> QED
      BY <3>1, <3>2
  <2>2. Control'
    BY <1>15, SMTT(30) DEF Requeue, TryCas, Drop
  <2> QED
    BY <2>1, <2>2
<1>16. CASE Finish(c)
  <2>1. TypeOK'
    BY <1>16 DEF Finish, TryCas, Drop
  <2>2. Control'
    BY <1>16 DEF Finish, TryCas, Drop
  <2> QED
    BY <2>1, <2>2
<1>17. CASE ParkCas(c)
  <2>1. TypeOK'
    <3>1. CASE state[cur[c]] = "RUNNING"
      <4>1. /\ state' = [state EXCEPT ![cur[c]] = "PARKED"]
            /\ UNCHANGED <<token, dirty, parkCarrier, deferred, owed, ring, torn, work, stop,
                           tgt>>
        BY <1>17, <3>1 DEF ParkCas, TryCas
      <4>2. /\ pc' = [pc EXCEPT ![c] = "parkSwap"]
            /\ cur' = cur
        BY <1>17, <3>1 DEF ParkCas
      <4> QED
        BY <4>1, <4>2
    <3>2. CASE state[cur[c]] # "RUNNING"
      <4>1. UNCHANGED <<cells, ring, torn, work, stop, tgt>>
        BY <1>17, <3>2 DEF ParkCas, TryCas
      <4>2. /\ pc' = [pc EXCEPT ![c] = "top"]
            /\ cur' = [cur EXCEPT ![c] = NoRun]
        BY <1>17, <3>2 DEF ParkCas, Drop
      <4> QED
        BY <4>1, <4>2
    <3> QED
      BY <3>1, <3>2
  <2>2. Control'
    BY <1>17, SMTT(30) DEF ParkCas, TryCas, Drop
  <2> QED
    BY <2>1, <2>2
<1>18. CASE ParkSleeps(c)
  <2>1. TypeOK'
    BY <1>18 DEF ParkSleeps, Drop
  <2>2. Control'
    BY <1>18 DEF ParkSleeps, Drop
  <2> QED
    BY <2>1, <2>2
<1>19. CASE ParkWoken(c)
  <2>1. TypeOK'
    BY <1>19 DEF ParkWoken
  <2>2. Control'
    BY <1>19 DEF ParkWoken
  <2> QED
    BY <2>1, <2>2
<1>20. CASE SelfWake(c)
  <2>1. TypeOK'
    BY <1>20 DEF SelfWake, Cas
  <2>2. Control'
    BY <1>20 DEF SelfWake, Cas
  <2> QED
    BY <2>1, <2>2
<1>21. CASE WakerWon(c)
  <2>1. TypeOK'
    BY <1>21 DEF WakerWon, Drop
  <2>2. Control'
    BY <1>21 DEF WakerWon, Drop
  <2> QED
    BY <2>1, <2>2
<1>22. CASE StepAgain(c)
  <2>1. TypeOK'
    BY <1>22 DEF StepAgain
  <2>2. Control'
    BY <1>22 DEF StepAgain
  <2> QED
    BY <2>1, <2>2
<1>23. CASE StepDone(c)
  <2>1. TypeOK'
    BY <1>23 DEF StepDone
  <2>2. Control'
    BY <1>23 DEF StepDone
  <2> QED
    BY <2>1, <2>2
<1>24. CASE StepPark(c)
  <2>1. TypeOK'
    BY <1>24 DEF StepPark
  <2>2. Control'
    BY <1>24 DEF StepPark
  <2> QED
    BY <2>1, <2>2
<1>25. CASE StepWake(c)
  <2> cur[c] \in Runs
    BY <1>25 DEF StepWake
  <2>0. PICK t \in WakeOf[cur[c]] : tgt' = [tgt EXCEPT ![c] = t]
    BY <1>25 DEF StepWake
  <2> t \in Runs
    BY <2>0
  <2>1. TypeOK'
    BY <1>25, <2>0 DEF StepWake
  <2>2. Control'
    BY <1>25, <2>0 DEF StepWake
  <2> QED
    BY <2>1, <2>2
<1>26. CASE StepSpawn(c)
  <2> cur[c] \in Runs
    BY <1>26 DEF StepSpawn
  <2>0. PICK t \in SpawnOf[cur[c]] : /\ Cas(t, "FREE", "READY")
                                     /\ tgt' = [tgt EXCEPT ![c] = t]
    BY <1>26 DEF StepSpawn
  <2> t \in Runs
    BY <2>0
  <2>1. TypeOK'
    BY <1>26, <2>0 DEF StepSpawn, Cas
  <2>2. Control'
    BY <1>26, <2>0 DEF StepSpawn, Cas
  <2> QED
    BY <2>1, <2>2
<1> QED
  BY <1>1, <1>2, <1>3, <1>4, <1>5, <1>6, <1>7, <1>8, <1>9, <1>10, <1>11, <1>12, <1>13, <1>14, <1>15, <1>16, <1>17, <1>18, <1>19, <1>20, <1>21, <1>22, <1>23, <1>24, <1>25, <1>26
  DEF CarrierNext, Dispatch, StepEnds

\* A step of a wake, of a push or of the doorbell.
LEMMA TypingShared ==
    ASSUME TypeOK, Control, NEW p \in Procs, Shared(p)
    PROVE  TypeOK' /\ Control'
<1> USE SchedAssumption
<1> USE DEF TypeOK, Control, RunStates, CarrierPcs, WakePcs, SharedPcs, NoRunPcs, Procs, cells,
            vars, Goto
<1>1. CASE SetToken(p)
  <2>1. TypeOK'
    BY <1>1 DEF SetToken
  <2>2. Control'
    BY <1>1 DEF SetToken
  <2> QED
    BY <2>1, <2>2
<1>2. CASE WakeCas(p)
  <2>1. TypeOK'
    BY <1>2 DEF WakeCas, Cas
  <2>2. Control'
    BY <1>2 DEF WakeCas, Cas
  <2> QED
    BY <2>1, <2>2
<1>3. CASE NotParked(p)
  <2>1. TypeOK'
    BY <1>3 DEF NotParked, Return, Back
  <2>2. Control'
    BY <1>3 DEF NotParked, Return, Back
  <2> QED
    BY <2>1, <2>2
<1>4. CASE WakePush(p)
  <2>1. tgt[p] \in Runs
    BY <1>4 DEF WakePush
  <2>2. ring' \in Seq(Runs \cup {Stale})
    BY <1>4, <2>1, PushRing DEF WakePush, Handles
  <2>3. TypeOK'
    BY <1>4, <2>2 DEF WakePush
  <2>4. Control'
    BY <1>4 DEF WakePush
  <2> QED
    BY <2>3, <2>4
<1>5. CASE RingRefuses(p)
  <2>1. TypeOK'
    BY <1>5 DEF RingRefuses
  <2>2. Control'
    BY <1>5 DEF RingRefuses
  <2> QED
    BY <2>1, <2>2
<1>6. CASE TryAgain(p)
  <2>1. TypeOK'
    BY <1>6 DEF TryAgain
  <2>2. Control'
    BY <1>6 DEF TryAgain
  <2> QED
    BY <2>1, <2>2
<1>7. CASE TakeBack(p)
  <2>1. TypeOK'
    BY <1>7 DEF TakeBack
  <2>2. Control'
    BY <1>7 DEF TakeBack
  <2> QED
    BY <2>1, <2>2
<1>8. CASE Retract(p)
  <2>1. TypeOK'
    BY <1>8 DEF Retract, TryCas, Return, Back
  <2>2. Control'
    BY <1>8 DEF Retract, TryCas, Return, Back
  <2> QED
    BY <2>1, <2>2
<1>9. CASE Push(p)
  <2>1. Item(p) \in Runs
    BY <1>9 DEF Push, Item
  <2>2. ring' \in Seq(Runs \cup {Stale})
    BY <1>9, <2>1, PushRing DEF Push, Handles
  <2>3. TypeOK'
    BY <1>9, <2>2 DEF Push
  <2>4. Control'
    BY <1>9 DEF Push
  <2> QED
    BY <2>3, <2>4
<1>10. CASE PushRefused(p)
  <2>1. TypeOK'
    BY <1>10 DEF PushRefused
  <2>2. Control'
    BY <1>10 DEF PushRefused
  <2> QED
    BY <2>1, <2>2
<1>11. CASE Bell(p)
  <2>1. TypeOK'
    BY <1>11 DEF Bell, Back
  <2>2. Control'
    BY <1>11 DEF Bell, Back
  <2> QED
    BY <2>1, <2>2
<1> QED
  BY <1>1, <1>2, <1>3, <1>4, <1>5, <1>6, <1>7, <1>8, <1>9, <1>10, <1>11 DEF Shared, Wake

LEMMA TypingStep == TypeOK /\ Control /\ [Next]_vars => TypeOK' /\ Control'
<1> SUFFICES ASSUME TypeOK, Control, [Next]_vars PROVE TypeOK' /\ Control'
  OBVIOUS
<1>1. CASE \E c \in Carriers : CarrierNext(c)
  BY <1>1, TypingCarrier
<1>2. CASE \E p \in Procs : Shared(p)
  BY <1>2, TypingShared
<1>3. ASSUME NEW e \in Edges, EdgeEnds(e) \/ \E r \in Watched : SeesParked(e, r)
      PROVE  TypeOK' /\ Control'
  <2> USE SchedAssumption
  <2> USE DEF TypeOK, Control, RunStates, CarrierPcs, WakePcs, SharedPcs, NoRunPcs, Procs, cells,
              Goto
  <2>1. CASE EdgeEnds(e)
    BY <1>3, <2>1 DEF EdgeEnds
  <2>2. ASSUME NEW r \in Watched, SeesParked(e, r)
        PROVE  TypeOK' /\ Control'
    <3> r \in Runs
      OBVIOUS
    <3>1. TypeOK'
      BY <2>2 DEF SeesParked
    <3>2. Control'
      BY <2>2 DEF SeesParked
    <3> QED
      BY <3>1, <3>2
  <2> QED
    BY <1>3, <2>1, <2>2
<1>4. CASE Stop
  BY <1>4, SchedAssumption
  DEF Stop, TypeOK, Control, RunStates, CarrierPcs, WakePcs, SharedPcs, NoRunPcs, Procs, cells,
      Goto
<1>5. CASE UNCHANGED vars
  BY <1>5 DEF vars, cells, TypeOK, Control
<1> QED
  BY <1>1, <1>2, <1>3, <1>4, <1>5 DEF Next, Terminated

\* Every variable keeps its type, and every process holds what its place in the code says.
THEOREM Typing == Spec => [](TypeOK /\ Control)
<1> QED
  BY TypingInit, TypingStep, PTL DEF Spec

-----------------------------------------------------------------------------
(* One owner *)

\* Nothing about ownership changes when no carrier gains or loses a run.
LEMMA OwnersFrame ==
    ASSUME SingleOwner,
           \A d \in Carriers, r \in Runs : Owns(d, r)' <=> Owns(d, r),
           \A r \in Runs : (state'[r] = "RUNNING") <=> (state[r] = "RUNNING")
    PROVE  SingleOwner'
<1>1. \A r \in Runs : Owners(r)' = Owners(r)
  BY DEF Owners
<1> QED
  BY <1>1 DEF SingleOwner

\* A carrier that takes a run nobody owns becomes its one owner.
LEMMA OwnersTake ==
    ASSUME SingleOwner, NEW c \in Carriers, NEW x \in Runs,
           state[x] # "RUNNING", state'[x] = "RUNNING",
           \A r \in Runs : r # x => state'[r] = state[r],
           \A d \in Carriers, r \in Runs : Owns(d, r)' <=> (Owns(d, r) \/ (d = c /\ r = x))
    PROVE  SingleOwner'
<1>1. Owners(x) = {}
  BY DEF SingleOwner
<1>2. Owners(x)' = {c}
  BY <1>1 DEF Owners
<1>3. \A r \in Runs : r # x => Owners(r)' = Owners(r)
  BY DEF Owners
<1> QED
  BY <1>2, <1>3 DEF SingleOwner

\* The owner that hands its run on leaves it without an owner.
LEMMA OwnersHandoff ==
    ASSUME SingleOwner, NEW c \in Carriers, NEW x \in Runs,
           Owns(c, x), state'[x] # "RUNNING",
           \A r \in Runs : r # x => state'[r] = state[r],
           \A d \in Carriers, r \in Runs : Owns(d, r)' <=> (Owns(d, r) /\ ~(d = c /\ r = x))
    PROVE  SingleOwner'
<1>1. \A d \in Owners(x) : d = c
  BY DEF SingleOwner, Owners
<1>2. Owners(x)' = {}
  BY <1>1 DEF Owners
<1>3. \A r \in Runs : r # x => Owners(r)' = Owners(r)
  BY DEF Owners
<1> QED
  BY <1>2, <1>3 DEF SingleOwner

LEMMA OwnerInit == Init => SingleOwner
<1> QED
  BY SchedAssumption
  DEF Init, SingleOwner, Owners, Owns, OwnerPcs, Procs

LEMMA OwnerCarrier ==
    ASSUME TypeOK, Control, SingleOwner, NEW c \in Carriers, CarrierNext(c)
    PROVE  SingleOwner'
<1> USE SchedAssumption
<1> c \in Procs
  BY DEF Procs
<1> DEFINE Keep == \A d \in Carriers, r \in Runs : Owns(d, r)' <=> Owns(d, r)
           KeepRunning == \A r \in Runs : (state'[r] = "RUNNING") <=> (state[r] = "RUNNING")
<1> USE DEF TypeOK, Control, CarrierPcs, WakePcs, SharedPcs, NoRunPcs, OwnerPcs, Procs, Goto
<1>1. CASE Stopped(c)
  <2>1. Keep
    BY <1>1 DEF Stopped, Owns
  <2>2. KeepRunning
    BY <1>1 DEF Stopped, cells
  <2> QED
    BY <2>1, <2>2, OwnersFrame
<1>2. CASE NotStopped(c)
  <2>1. Keep
    BY <1>2 DEF NotStopped, Owns
  <2>2. KeepRunning
    BY <1>2 DEF NotStopped, cells
  <2> QED
    BY <2>1, <2>2, OwnersFrame
<1>3. CASE PopEmpty(c)
  <2>1. Keep
    BY <1>3 DEF PopEmpty, Owns
  <2>2. KeepRunning
    BY <1>3 DEF PopEmpty, cells
  <2> QED
    BY <2>1, <2>2, OwnersFrame
<1>4. CASE PopRun(c)
  <2>1. Keep
    BY <1>4 DEF PopRun, Owns
  <2>2. KeepRunning
    BY <1>4 DEF PopRun, cells
  <2> QED
    BY <2>1, <2>2, OwnersFrame
<1>5. CASE ClaimWork(c)
  <2>1. Keep
    BY <1>5 DEF ClaimWork, Owns
  <2>2. KeepRunning
    BY <1>5 DEF ClaimWork, cells
  <2> QED
    BY <2>1, <2>2, OwnersFrame
<1>6. CASE Sleep(c)
  <2>1. Keep
    BY <1>6 DEF Sleep, Owns
  <2>2. KeepRunning
    BY <1>6 DEF Sleep, cells
  <2> QED
    BY <2>1, <2>2, OwnersFrame
<1>7. CASE Timeout(c)
  <2>1. Keep
    BY <1>7 DEF Timeout, Owns
  <2>2. KeepRunning
    BY <1>7 DEF Timeout, cells
  <2> QED
    BY <2>1, <2>2, OwnersFrame
<1>8. CASE Defer(c)
  <2>1. Keep
    BY <1>8 DEF Defer, StepsAside, Owns
  <2>2. KeepRunning
    BY <1>8 DEF Defer, StepsAside, cells
  <2> QED
    BY <2>1, <2>2, OwnersFrame
<1>9. CASE Take(c)
  <2> DEFINE x == cur[c]
  <2>1. x \in Runs /\ state[x] # "RUNNING"
    BY <1>9 DEF Take, Cas
  <2>2. state'[x] = "RUNNING" /\ \A r \in Runs : r # x => state'[r] = state[r]
    BY <1>9, <2>1 DEF Take, Cas
  <2>3. \A q \in Carriers, r \in Runs : Owns(q, r)' <=> (Owns(q, r) \/ (q = c /\ r = x))
    BY <1>9 DEF Take, Cas, Owns
  <2> HIDE DEF x
  <2> QED
    BY <2>1, <2>2, <2>3, OwnersTake
<1>10. CASE RefuseTake(c)
  <2>1. Keep
    BY <1>10 DEF RefuseTake, Drop, Owns
  <2>2. KeepRunning
    BY <1>10 DEF RefuseTake, Drop, cells
  <2> QED
    BY <2>1, <2>2, OwnersFrame
<1>11. CASE CheckSum(c)
  <2>1. Keep
    BY <1>11 DEF CheckSum, Owns
  <2>2. KeepRunning
    BY <1>11 DEF CheckSum, cells
  <2> QED
    BY <2>1, <2>2, OwnersFrame
<1>12. CASE SealAgain(c)
  <2>1. Keep
    BY <1>12 DEF SealAgain, Seal, Owns
  <2>2. KeepRunning
    BY <1>12 DEF SealAgain, Seal, cells
  <2> QED
    BY <2>1, <2>2, OwnersFrame
<1>13. CASE SealDone(c)
  <2>1. Keep
    BY <1>13 DEF SealDone, Seal, Owns
  <2>2. KeepRunning
    BY <1>13 DEF SealDone, Seal, cells
  <2> QED
    BY <2>1, <2>2, OwnersFrame
<1>14. CASE SealPark(c)
  <2>1. Keep
    BY <1>14 DEF SealPark, Seal, Owns
  <2>2. KeepRunning
    BY <1>14 DEF SealPark, Seal, cells
  <2> QED
    BY <2>1, <2>2, OwnersFrame
<1>15. CASE Requeue(c)
  <2> DEFINE x == cur[c]
  <2>1. x \in Runs /\ Owns(c, x)
    BY <1>15 DEF Requeue, Owns
  <2>2. state[x] = "RUNNING"
    BY <2>1 DEF SingleOwner, Owners
  <2>3. state'[x] # "RUNNING" /\ \A r \in Runs : r # x => state'[r] = state[r]
    BY <1>15, <2>1, <2>2 DEF Requeue, TryCas
  <2>4. \A q \in Carriers, r \in Runs : Owns(q, r)' <=> (Owns(q, r) /\ ~(q = c /\ r = x))
    BY <1>15, <2>2 DEF Requeue, Drop, Owns
  <2> HIDE DEF x
  <2> QED
    BY <2>1, <2>3, <2>4, OwnersHandoff
<1>16. CASE Finish(c)
  <2> DEFINE x == cur[c]
  <2>1. x \in Runs /\ Owns(c, x)
    BY <1>16 DEF Finish, Owns
  <2>2. state[x] = "RUNNING"
    BY <2>1 DEF SingleOwner, Owners
  <2>3. state'[x] # "RUNNING" /\ \A r \in Runs : r # x => state'[r] = state[r]
    BY <1>16, <2>1, <2>2 DEF Finish, TryCas
  <2>4. \A q \in Carriers, r \in Runs : Owns(q, r)' <=> (Owns(q, r) /\ ~(q = c /\ r = x))
    BY <1>16, <2>2 DEF Finish, Drop, Owns
  <2> HIDE DEF x
  <2> QED
    BY <2>1, <2>3, <2>4, OwnersHandoff
<1>17. CASE ParkCas(c)
  <2> DEFINE x == cur[c]
  <2>1. x \in Runs /\ Owns(c, x)
    BY <1>17 DEF ParkCas, Owns
  <2>2. state[x] = "RUNNING"
    BY <2>1 DEF SingleOwner, Owners
  <2>3. state'[x] # "RUNNING" /\ \A r \in Runs : r # x => state'[r] = state[r]
    BY <1>17, <2>1, <2>2 DEF ParkCas, TryCas
  <2>4. \A q \in Carriers, r \in Runs : Owns(q, r)' <=> (Owns(q, r) /\ ~(q = c /\ r = x))
    BY <1>17, <2>2 DEF ParkCas, Drop, Owns
  <2> HIDE DEF x
  <2> QED
    BY <2>1, <2>3, <2>4, OwnersHandoff
<1>18. CASE ParkSleeps(c)
  <2>1. Keep
    BY <1>18 DEF ParkSleeps, Drop, Owns
  <2>2. KeepRunning
    BY <1>18 DEF ParkSleeps, Drop, cells
  <2> QED
    BY <2>1, <2>2, OwnersFrame
<1>19. CASE ParkWoken(c)
  <2>1. Keep
    BY <1>19 DEF ParkWoken, Owns
  <2>2. KeepRunning
    BY <1>19 DEF ParkWoken, cells
  <2> QED
    BY <2>1, <2>2, OwnersFrame
<1>20. CASE SelfWake(c)
  <2>1. Keep
    BY <1>20 DEF SelfWake, Cas, Owns
  <2>2. KeepRunning
    BY <1>20 DEF SelfWake, Cas, cells
  <2> QED
    BY <2>1, <2>2, OwnersFrame
<1>21. CASE WakerWon(c)
  <2>1. Keep
    BY <1>21 DEF WakerWon, Drop, Owns
  <2>2. KeepRunning
    BY <1>21 DEF WakerWon, Drop, cells
  <2> QED
    BY <2>1, <2>2, OwnersFrame
<1>22. CASE StepAgain(c)
  <2>1. Keep
    BY <1>22 DEF StepAgain, Owns
  <2>2. KeepRunning
    BY <1>22 DEF StepAgain, cells
  <2> QED
    BY <2>1, <2>2, OwnersFrame
<1>23. CASE StepDone(c)
  <2>1. Keep
    BY <1>23 DEF StepDone, Owns
  <2>2. KeepRunning
    BY <1>23 DEF StepDone, cells
  <2> QED
    BY <2>1, <2>2, OwnersFrame
<1>24. CASE StepPark(c)
  <2>1. Keep
    BY <1>24 DEF StepPark, Owns
  <2>2. KeepRunning
    BY <1>24 DEF StepPark, cells
  <2> QED
    BY <2>1, <2>2, OwnersFrame
<1>25. CASE StepWake(c)
  <2>1. Keep
    BY <1>25 DEF StepWake, Owns
  <2>2. KeepRunning
    BY <1>25 DEF StepWake, cells
  <2> QED
    BY <2>1, <2>2, OwnersFrame
<1>26. CASE StepSpawn(c)
  <2>1. Keep
    BY <1>26 DEF StepSpawn, Cas, Owns
  <2>2. KeepRunning
    BY <1>26 DEF StepSpawn, Cas, cells
  <2> QED
    BY <2>1, <2>2, OwnersFrame
<1> QED
  BY <1>1, <1>2, <1>3, <1>4, <1>5, <1>6, <1>7, <1>8, <1>9, <1>10, <1>11, <1>12, <1>13, <1>14, <1>15, <1>16, <1>17, <1>18, <1>19, <1>20, <1>21, <1>22, <1>23, <1>24, <1>25, <1>26
  DEF CarrierNext, Dispatch, StepEnds

LEMMA OwnerShared ==
    ASSUME TypeOK, Control, SingleOwner, NEW p \in Procs, Shared(p)
    PROVE  SingleOwner'
<1> USE SchedAssumption
<1> DEFINE Keep == \A d \in Carriers, r \in Runs : Owns(d, r)' <=> Owns(d, r)
           KeepRunning == \A r \in Runs : (state'[r] = "RUNNING") <=> (state[r] = "RUNNING")
<1> USE DEF TypeOK, Control, CarrierPcs, WakePcs, SharedPcs, NoRunPcs, OwnerPcs, Procs, Goto
<1>1. CASE SetToken(p)
  <2>1. Keep
    BY <1>1 DEF SetToken, Owns
  <2>2. KeepRunning
    BY <1>1 DEF SetToken, cells
  <2> QED
    BY <2>1, <2>2, OwnersFrame
<1>2. CASE WakeCas(p)
  <2>1. Keep
    BY <1>2 DEF WakeCas, Cas, Owns
  <2>2. KeepRunning
    BY <1>2 DEF WakeCas, Cas, cells
  <2> QED
    BY <2>1, <2>2, OwnersFrame
<1>3. CASE NotParked(p)
  <2>1. Keep
    BY <1>3 DEF NotParked, Return, Back, Owns
  <2>2. KeepRunning
    BY <1>3 DEF NotParked, Return, Back, cells
  <2> QED
    BY <2>1, <2>2, OwnersFrame
<1>4. CASE WakePush(p)
  <2>1. Keep
    BY <1>4 DEF WakePush, Owns
  <2>2. KeepRunning
    BY <1>4 DEF WakePush, cells
  <2> QED
    BY <2>1, <2>2, OwnersFrame
<1>5. CASE RingRefuses(p)
  <2>1. Keep
    BY <1>5 DEF RingRefuses, Owns
  <2>2. KeepRunning
    BY <1>5 DEF RingRefuses, cells
  <2> QED
    BY <2>1, <2>2, OwnersFrame
<1>6. CASE TryAgain(p)
  <2>1. Keep
    BY <1>6 DEF TryAgain, Owns
  <2>2. KeepRunning
    BY <1>6 DEF TryAgain, cells
  <2> QED
    BY <2>1, <2>2, OwnersFrame
<1>7. CASE TakeBack(p)
  <2>1. Keep
    BY <1>7 DEF TakeBack, Owns
  <2>2. KeepRunning
    BY <1>7 DEF TakeBack, cells
  <2> QED
    BY <2>1, <2>2, OwnersFrame
<1>8. CASE Retract(p)
  <2>1. Keep
    BY <1>8 DEF Retract, TryCas, Return, Back, Owns
  <2>2. KeepRunning
    BY <1>8 DEF Retract, TryCas, Return, Back, cells
  <2> QED
    BY <2>1, <2>2, OwnersFrame
<1>9. CASE Push(p)
  <2>1. Keep
    BY <1>9 DEF Push, Item, Owns
  <2>2. KeepRunning
    BY <1>9 DEF Push, Item, cells
  <2> QED
    BY <2>1, <2>2, OwnersFrame
<1>10. CASE PushRefused(p)
  <2>1. Keep
    BY <1>10 DEF PushRefused, Owns, vars
  <2>2. KeepRunning
    BY <1>10 DEF PushRefused, cells, vars
  <2> QED
    BY <2>1, <2>2, OwnersFrame
<1>11. CASE Bell(p)
  <2>1. Keep
    BY <1>11 DEF Bell, Back, Owns
  <2>2. KeepRunning
    BY <1>11 DEF Bell, Back, cells
  <2> QED
    BY <2>1, <2>2, OwnersFrame
<1> QED
  BY <1>1, <1>2, <1>3, <1>4, <1>5, <1>6, <1>7, <1>8, <1>9, <1>10, <1>11 DEF Shared, Wake

LEMMA OwnerStep == TypeOK /\ Control /\ SingleOwner /\ [Next]_vars => SingleOwner'
<1> SUFFICES ASSUME TypeOK, Control, SingleOwner, [Next]_vars PROVE SingleOwner'
  OBVIOUS
<1> DEFINE Keep == \A d \in Carriers, r \in Runs : Owns(d, r)' <=> Owns(d, r)
<1>1. CASE \E c \in Carriers : CarrierNext(c)
  BY <1>1, OwnerCarrier
<1>2. CASE \E p \in Procs : Shared(p)
  BY <1>2, OwnerShared
<1>3. ASSUME NEW e \in Edges, EdgeEnds(e) \/ \E r \in Watched : SeesParked(e, r)
      PROVE  SingleOwner'
  <2>1. Keep
    BY <1>3, SchedAssumption, SMTT(30) DEF EdgeEnds, SeesParked, Owns, TypeOK, Procs, Goto
  <2>2. UNCHANGED state
    BY <1>3 DEF EdgeEnds, SeesParked, cells
  <2> QED
    BY <2>1, <2>2, OwnersFrame
<1>4. CASE Stop
  <2>1. Keep
    BY <1>4, SchedAssumption DEF Stop, Owns, TypeOK, Procs, Goto
  <2>2. UNCHANGED state
    BY <1>4 DEF Stop, cells
  <2> QED
    BY <2>1, <2>2, OwnersFrame
<1>5. CASE UNCHANGED vars
  BY <1>5 DEF vars, cells, SingleOwner, Owners, Owns
<1> QED
  BY <1>1, <1>2, <1>3, <1>4, <1>5 DEF Next, Terminated

\* A run is stepped by one carrier at a time, whatever the ring holds: a run that was
\* enqueued twice is still stepped by one carrier (S3, S5).
THEOREM OneOwner == Spec => []SingleOwner
<1>1. TypeOK /\ Control /\ SingleOwner /\ [Next]_vars => SingleOwner'
  BY OwnerStep
<1> QED
  BY <1>1, OwnerInit, Typing, PTL DEF Spec

-----------------------------------------------------------------------------
(***************************************************************************)
(* What passes from one thread to the next in the dispatcher, for every    *)
(* instance: the sealed run cell, the wake token of a sleeping run, and    *)
(* the doorbell of a run in the ring.  Each is one invariant, inductive    *)
(* over the typing and the ownership of SmpSched_proofs.                   *)
(***************************************************************************)

-----------------------------------------------------------------------------
(* The seal *)

\* The places where the run of a carrier is whole: before its step writes, and after the seal.
CleanPcs == {"check", "again", "done", "parkCas"}

Sealed == /\ ~torn
          /\ \A r \in Runs : state[r] # "RUNNING" => ~dirty[r]
          /\ \A c \in Carriers : pc[c] \in CleanPcs => ~dirty[cur[c]]

LEMMA SealedInit == Init => Sealed
<1> QED
  BY SchedAssumption DEF Init, Sealed, CleanPcs, Procs

\* The carrier that works on a run at one of these places is its only owner.
LEMMA OnlyOwner ==
    ASSUME TypeOK, Control, SingleOwner, NEW c \in Carriers, NEW d \in Carriers,
           pc[c] \in OwnerPcs, pc[d] \in OwnerPcs, cur[c] = cur[d]
    PROVE  c = d /\ cur[c] \in Runs /\ state[cur[c]] = "RUNNING"
<1>1. cur[c] \in Runs
  BY SchedAssumption DEF TypeOK, Control, OwnerPcs, NoRunPcs, Procs
<1>2. c \in Owners(cur[c]) /\ d \in Owners(cur[c])
  BY DEF Owners, Owns
<1> QED
  BY <1>1, <1>2 DEF SingleOwner

LEMMA SealedCarrier ==
    ASSUME TypeOK, Control, SingleOwner, Sealed, NEW c \in Carriers, CarrierNext(c)
    PROVE  Sealed'
<1> USE SchedAssumption
<1> c \in Procs
  BY DEF Procs
<1> USE DEF TypeOK, Control, Sealed, CleanPcs, CarrierPcs, WakePcs, SharedPcs, NoRunPcs, Procs,
            cells, Goto
<1>1. CASE Stopped(c)
  BY <1>1 DEF Stopped
<1>2. CASE NotStopped(c)
  BY <1>2 DEF NotStopped
<1>3. CASE PopEmpty(c)
  BY <1>3 DEF PopEmpty
<1>4. CASE PopRun(c)
  BY <1>4 DEF PopRun
<1>5. CASE ClaimWork(c)
  BY <1>5 DEF ClaimWork
<1>6. CASE Sleep(c)
  BY <1>6 DEF Sleep
<1>7. CASE Timeout(c)
  BY <1>7 DEF Timeout
<1>8. CASE Defer(c)
  BY <1>8 DEF Defer
<1>9. CASE Take(c)
  BY <1>9 DEF Take, Cas
<1>10. CASE RefuseTake(c)
  BY <1>10 DEF RefuseTake, Drop
<1>11. CASE CheckSum(c)
  <2>1. cur[c] \in Runs /\ pc[c] = "check" /\ pc[c] \in OwnerPcs
    BY <1>11 DEF CheckSum, OwnerPcs
  <2>2. \A d \in Carriers : pc[d] \in CleanPcs /\ cur[d] = cur[c] => d = c
    BY <2>1, OnlyOwner DEF OwnerPcs
  <2>3. state[cur[c]] = "RUNNING"
    BY <2>1, OnlyOwner
  <2> QED
    BY <1>11, <2>1, <2>2, <2>3 DEF CheckSum
<1>12. CASE SealAgain(c)
  BY <1>12 DEF SealAgain, Seal
<1>13. CASE SealDone(c)
  BY <1>13, SMTT(30) DEF SealDone, Seal
<1>14. CASE SealPark(c)
  BY <1>14, SMTT(30) DEF SealPark, Seal
<1>15. CASE Requeue(c)
  <2>1. cur[c] \in Runs /\ pc[c] \in OwnerPcs /\ ~dirty[cur[c]]
    BY <1>15 DEF Requeue, OwnerPcs
  <2>2. state[cur[c]] = "RUNNING"
    BY <2>1, OnlyOwner
  <2> QED
    BY <1>15, <2>1, <2>2 DEF Requeue, TryCas, Drop
<1>16. CASE Finish(c)
  <2>1. cur[c] \in Runs /\ pc[c] \in OwnerPcs /\ ~dirty[cur[c]]
    BY <1>16 DEF Finish, OwnerPcs
  <2>2. state[cur[c]] = "RUNNING"
    BY <2>1, OnlyOwner
  <2> QED
    BY <1>16, <2>1, <2>2 DEF Finish, TryCas, Drop
<1>17. CASE ParkCas(c)
  <2>1. cur[c] \in Runs /\ pc[c] \in OwnerPcs /\ ~dirty[cur[c]]
    BY <1>17 DEF ParkCas, OwnerPcs
  <2>2. state[cur[c]] = "RUNNING"
    BY <2>1, OnlyOwner
  <2> QED
    BY <1>17, <2>1, <2>2 DEF ParkCas, TryCas, Drop
<1>18. CASE ParkSleeps(c)
  BY <1>18 DEF ParkSleeps, Drop
<1>19. CASE ParkWoken(c)
  BY <1>19 DEF ParkWoken
<1>20. CASE SelfWake(c)
  BY <1>20 DEF SelfWake, Cas
<1>21. CASE WakerWon(c)
  BY <1>21 DEF WakerWon, Drop
<1>22. CASE StepAgain(c)
  BY <1>22 DEF StepAgain
<1>23. CASE StepDone(c)
  BY <1>23 DEF StepDone
<1>24. CASE StepPark(c)
  BY <1>24 DEF StepPark
<1>25. CASE StepWake(c)
  BY <1>25 DEF StepWake
<1>26. CASE StepSpawn(c)
  BY <1>26 DEF StepSpawn, Cas
<1> QED
  BY <1>1, <1>2, <1>3, <1>4, <1>5, <1>6, <1>7, <1>8, <1>9, <1>10, <1>11, <1>12, <1>13, <1>14,
     <1>15, <1>16, <1>17, <1>18, <1>19, <1>20, <1>21, <1>22, <1>23, <1>24, <1>25, <1>26
  DEF CarrierNext, Dispatch, StepEnds

LEMMA SealedShared ==
    ASSUME TypeOK, Control, Sealed, NEW p \in Procs, Shared(p)
    PROVE  Sealed'
<1> USE SchedAssumption
<1> USE DEF TypeOK, Control, Sealed, CleanPcs, CarrierPcs, WakePcs, SharedPcs, NoRunPcs, Procs,
            cells, Goto
<1>1. CASE SetToken(p)
  BY <1>1 DEF SetToken
<1>2. CASE WakeCas(p)
  BY <1>2 DEF WakeCas, Cas
<1>3. CASE NotParked(p)
  BY <1>3 DEF NotParked, Return, Back
<1>4. CASE WakePush(p)
  BY <1>4 DEF WakePush
<1>5. CASE RingRefuses(p)
  BY <1>5 DEF RingRefuses
<1>6. CASE TryAgain(p)
  BY <1>6 DEF TryAgain
<1>7. CASE TakeBack(p)
  BY <1>7 DEF TakeBack
<1>8. CASE Retract(p)
  BY <1>8 DEF Retract, TryCas, Return, Back
<1>9. CASE Push(p)
  BY <1>9 DEF Push, Item
<1>10. CASE PushRefused(p)
  BY <1>10 DEF PushRefused, vars
<1>11. CASE Bell(p)
  BY <1>11 DEF Bell, Back
<1> QED
  BY <1>1, <1>2, <1>3, <1>4, <1>5, <1>6, <1>7, <1>8, <1>9, <1>10, <1>11
  DEF Shared, Wake

LEMMA SealedStep == TypeOK /\ Control /\ SingleOwner /\ Sealed /\ [Next]_vars => Sealed'
<1> SUFFICES ASSUME TypeOK, Control, SingleOwner, Sealed, [Next]_vars PROVE Sealed'
  OBVIOUS
<1>1. CASE \E c \in Carriers : CarrierNext(c)
  BY <1>1, SealedCarrier
<1>2. CASE \E p \in Procs : Shared(p)
  BY <1>2, SealedShared
<1>3. CASE \E e \in Edges : EdgeEnds(e) \/ \E r \in Watched : SeesParked(e, r)
  BY <1>3, SchedAssumption
  DEF EdgeEnds, SeesParked, Sealed, CleanPcs, cells, Goto, TypeOK, Procs
<1>4. CASE Stop
  BY <1>4, SchedAssumption DEF Stop, Sealed, CleanPcs, cells, Goto, TypeOK, Procs
<1>5. CASE UNCHANGED vars
  BY <1>5 DEF vars, cells, Sealed
<1> QED
  BY <1>1, <1>2, <1>3, <1>4, <1>5 DEF Next, Terminated

\* Whoever takes a run finds the cell its last owner sealed: no park, yield or wake hands on
\* a run whose step is still being closed (S5).
THEOREM Whole == Spec => []WholeAtHandoff
<1>1. Sealed => WholeAtHandoff
  BY DEF Sealed, WholeAtHandoff
<1> QED
  BY <1>1, SealedInit, SealedStep, Typing, OneOwner, PTL DEF Spec

-----------------------------------------------------------------------------
(* The token of a sleeping run *)

LEMMA TokenInit == Init => TokenNeverStrands
<1> QED
  BY SchedAssumption DEF Init, TokenNeverStrands

\* Nothing is lost when no run comes to sleep on a token and whoever is about to act on one
\* still is.
LEMMA TokenFrame ==
    ASSUME TokenNeverStrands, stop => stop',
           \A r \in Runs : state'[r] = "PARKED" /\ token'[r] = 1
                              => state[r] = "PARKED" /\ token[r] = 1,
           \A q \in Procs : pc[q] = "wakeCas" => pc'[q] = "wakeCas" /\ tgt'[q] = tgt[q],
           \A d \in Carriers : pc[d] = "parkSwap" => pc'[d] = "parkSwap" /\ cur'[d] = cur[d]
    PROVE  TokenNeverStrands'
  BY DEF TokenNeverStrands

LEMMA TokenCarrier ==
    ASSUME TypeOK, Control, TokenNeverStrands, NEW c \in Carriers, CarrierNext(c)
    PROVE  TokenNeverStrands'
<1> USE SchedAssumption
<1> c \in Procs
  BY DEF Procs
<1> USE DEF TypeOK, Control, TokenNeverStrands, CarrierPcs, WakePcs, SharedPcs, NoRunPcs, Procs,
            cells, Goto
<1>1. CASE Stopped(c)
  <2>1. /\ stop => stop'
        /\ \A r \in Runs : state'[r] = "PARKED" /\ token'[r] = 1
                              => state[r] = "PARKED" /\ token[r] = 1
    BY <1>1 DEF Stopped
  <2>2. \A q \in Procs : pc[q] = "wakeCas" => pc'[q] = "wakeCas" /\ tgt'[q] = tgt[q]
    BY <1>1 DEF Stopped
  <2>3. \A d \in Carriers : pc[d] = "parkSwap" => pc'[d] = "parkSwap" /\ cur'[d] = cur[d]
    BY <1>1 DEF Stopped
  <2> HIDE DEF Control, TypeOK, TokenNeverStrands
  <2> QED
    BY <2>1, <2>2, <2>3, TokenFrame
<1>2. CASE NotStopped(c)
  <2>1. /\ stop => stop'
        /\ \A r \in Runs : state'[r] = "PARKED" /\ token'[r] = 1
                              => state[r] = "PARKED" /\ token[r] = 1
    BY <1>2 DEF NotStopped
  <2>2. \A q \in Procs : pc[q] = "wakeCas" => pc'[q] = "wakeCas" /\ tgt'[q] = tgt[q]
    BY <1>2 DEF NotStopped
  <2>3. \A d \in Carriers : pc[d] = "parkSwap" => pc'[d] = "parkSwap" /\ cur'[d] = cur[d]
    BY <1>2 DEF NotStopped
  <2> HIDE DEF Control, TypeOK, TokenNeverStrands
  <2> QED
    BY <2>1, <2>2, <2>3, TokenFrame
<1>3. CASE PopEmpty(c)
  <2>1. /\ stop => stop'
        /\ \A r \in Runs : state'[r] = "PARKED" /\ token'[r] = 1
                              => state[r] = "PARKED" /\ token[r] = 1
    BY <1>3 DEF PopEmpty
  <2>2. \A q \in Procs : pc[q] = "wakeCas" => pc'[q] = "wakeCas" /\ tgt'[q] = tgt[q]
    BY <1>3 DEF PopEmpty
  <2>3. \A d \in Carriers : pc[d] = "parkSwap" => pc'[d] = "parkSwap" /\ cur'[d] = cur[d]
    BY <1>3 DEF PopEmpty
  <2> HIDE DEF Control, TypeOK, TokenNeverStrands
  <2> QED
    BY <2>1, <2>2, <2>3, TokenFrame
<1>4. CASE PopRun(c)
  <2>1. /\ stop => stop'
        /\ \A r \in Runs : state'[r] = "PARKED" /\ token'[r] = 1
                              => state[r] = "PARKED" /\ token[r] = 1
    BY <1>4 DEF PopRun
  <2>2. \A q \in Procs : pc[q] = "wakeCas" => pc'[q] = "wakeCas" /\ tgt'[q] = tgt[q]
    BY <1>4 DEF PopRun
  <2>3. \A d \in Carriers : pc[d] = "parkSwap" => pc'[d] = "parkSwap" /\ cur'[d] = cur[d]
    BY <1>4 DEF PopRun
  <2> HIDE DEF Control, TypeOK, TokenNeverStrands
  <2> QED
    BY <2>1, <2>2, <2>3, TokenFrame
<1>5. CASE ClaimWork(c)
  <2>1. /\ stop => stop'
        /\ \A r \in Runs : state'[r] = "PARKED" /\ token'[r] = 1
                              => state[r] = "PARKED" /\ token[r] = 1
    BY <1>5 DEF ClaimWork
  <2>2. \A q \in Procs : pc[q] = "wakeCas" => pc'[q] = "wakeCas" /\ tgt'[q] = tgt[q]
    BY <1>5 DEF ClaimWork
  <2>3. \A d \in Carriers : pc[d] = "parkSwap" => pc'[d] = "parkSwap" /\ cur'[d] = cur[d]
    BY <1>5 DEF ClaimWork
  <2> HIDE DEF Control, TypeOK, TokenNeverStrands
  <2> QED
    BY <2>1, <2>2, <2>3, TokenFrame
<1>6. CASE Sleep(c)
  <2>1. /\ stop => stop'
        /\ \A r \in Runs : state'[r] = "PARKED" /\ token'[r] = 1
                              => state[r] = "PARKED" /\ token[r] = 1
    BY <1>6 DEF Sleep
  <2>2. \A q \in Procs : pc[q] = "wakeCas" => pc'[q] = "wakeCas" /\ tgt'[q] = tgt[q]
    BY <1>6 DEF Sleep
  <2>3. \A d \in Carriers : pc[d] = "parkSwap" => pc'[d] = "parkSwap" /\ cur'[d] = cur[d]
    BY <1>6 DEF Sleep
  <2> HIDE DEF Control, TypeOK, TokenNeverStrands
  <2> QED
    BY <2>1, <2>2, <2>3, TokenFrame
<1>7. CASE Timeout(c)
  <2>1. UNCHANGED <<state, token, stop>>
    BY <1>7 DEF Timeout
  <2>2. \A q \in Procs : pc[q] = "wakeCas" => pc'[q] = "wakeCas" /\ tgt'[q] = tgt[q]
    BY <1>7 DEF Timeout
  <2>3. \A d \in Carriers : pc[d] = "parkSwap" => pc'[d] = "parkSwap" /\ cur'[d] = cur[d]
    BY <1>7 DEF Timeout
  <2> HIDE DEF Control, TypeOK
  <2> QED
    BY <2>1, <2>2, <2>3
<1>8. CASE Defer(c)
  <2>1. /\ stop => stop'
        /\ \A r \in Runs : state'[r] = "PARKED" /\ token'[r] = 1
                              => state[r] = "PARKED" /\ token[r] = 1
    BY <1>8 DEF Defer
  <2>2. \A q \in Procs : pc[q] = "wakeCas" => pc'[q] = "wakeCas" /\ tgt'[q] = tgt[q]
    BY <1>8 DEF Defer
  <2>3. \A d \in Carriers : pc[d] = "parkSwap" => pc'[d] = "parkSwap" /\ cur'[d] = cur[d]
    BY <1>8 DEF Defer
  <2> HIDE DEF Control, TypeOK, TokenNeverStrands
  <2> QED
    BY <2>1, <2>2, <2>3, TokenFrame
<1>9. CASE Take(c)
  <2>1. /\ stop => stop'
        /\ \A r \in Runs : state'[r] = "PARKED" /\ token'[r] = 1
                              => state[r] = "PARKED" /\ token[r] = 1
    BY <1>9 DEF Take, Cas
  <2>2. \A q \in Procs : pc[q] = "wakeCas" => pc'[q] = "wakeCas" /\ tgt'[q] = tgt[q]
    BY <1>9 DEF Take, Cas
  <2>3. \A d \in Carriers : pc[d] = "parkSwap" => pc'[d] = "parkSwap" /\ cur'[d] = cur[d]
    BY <1>9 DEF Take, Cas
  <2> HIDE DEF Control, TypeOK, TokenNeverStrands
  <2> QED
    BY <2>1, <2>2, <2>3, TokenFrame
<1>10. CASE RefuseTake(c)
  <2>1. /\ stop => stop'
        /\ \A r \in Runs : state'[r] = "PARKED" /\ token'[r] = 1
                              => state[r] = "PARKED" /\ token[r] = 1
    BY <1>10 DEF RefuseTake, Drop
  <2>2. \A q \in Procs : pc[q] = "wakeCas" => pc'[q] = "wakeCas" /\ tgt'[q] = tgt[q]
    BY <1>10 DEF RefuseTake, Drop
  <2>3. \A d \in Carriers : pc[d] = "parkSwap" => pc'[d] = "parkSwap" /\ cur'[d] = cur[d]
    BY <1>10 DEF RefuseTake, Drop
  <2> HIDE DEF Control, TypeOK, TokenNeverStrands
  <2> QED
    BY <2>1, <2>2, <2>3, TokenFrame
<1>11. CASE CheckSum(c)
  <2>1. /\ stop => stop'
        /\ \A r \in Runs : state'[r] = "PARKED" /\ token'[r] = 1
                              => state[r] = "PARKED" /\ token[r] = 1
    BY <1>11 DEF CheckSum
  <2>2. \A q \in Procs : pc[q] = "wakeCas" => pc'[q] = "wakeCas" /\ tgt'[q] = tgt[q]
    BY <1>11 DEF CheckSum
  <2>3. \A d \in Carriers : pc[d] = "parkSwap" => pc'[d] = "parkSwap" /\ cur'[d] = cur[d]
    BY <1>11 DEF CheckSum
  <2> HIDE DEF Control, TypeOK, TokenNeverStrands
  <2> QED
    BY <2>1, <2>2, <2>3, TokenFrame
<1>12. CASE SealAgain(c)
  <2>1. /\ stop => stop'
        /\ \A r \in Runs : state'[r] = "PARKED" /\ token'[r] = 1
                              => state[r] = "PARKED" /\ token[r] = 1
    BY <1>12 DEF SealAgain, Seal
  <2>2. \A q \in Procs : pc[q] = "wakeCas" => pc'[q] = "wakeCas" /\ tgt'[q] = tgt[q]
    BY <1>12 DEF SealAgain, Seal
  <2>3. \A d \in Carriers : pc[d] = "parkSwap" => pc'[d] = "parkSwap" /\ cur'[d] = cur[d]
    BY <1>12 DEF SealAgain, Seal
  <2> HIDE DEF Control, TypeOK, TokenNeverStrands
  <2> QED
    BY <2>1, <2>2, <2>3, TokenFrame
<1>13. CASE SealDone(c)
  <2>1. /\ stop => stop'
        /\ \A r \in Runs : state'[r] = "PARKED" /\ token'[r] = 1
                              => state[r] = "PARKED" /\ token[r] = 1
    BY <1>13 DEF SealDone, Seal
  <2>2. \A q \in Procs : pc[q] = "wakeCas" => pc'[q] = "wakeCas" /\ tgt'[q] = tgt[q]
    BY <1>13 DEF SealDone, Seal
  <2>3. \A d \in Carriers : pc[d] = "parkSwap" => pc'[d] = "parkSwap" /\ cur'[d] = cur[d]
    BY <1>13 DEF SealDone, Seal
  <2> HIDE DEF Control, TypeOK, TokenNeverStrands
  <2> QED
    BY <2>1, <2>2, <2>3, TokenFrame
<1>14. CASE SealPark(c)
  <2>1. /\ stop => stop'
        /\ \A r \in Runs : state'[r] = "PARKED" /\ token'[r] = 1
                              => state[r] = "PARKED" /\ token[r] = 1
    BY <1>14 DEF SealPark, Seal
  <2>2. \A q \in Procs : pc[q] = "wakeCas" => pc'[q] = "wakeCas" /\ tgt'[q] = tgt[q]
    BY <1>14 DEF SealPark, Seal
  <2>3. \A d \in Carriers : pc[d] = "parkSwap" => pc'[d] = "parkSwap" /\ cur'[d] = cur[d]
    BY <1>14 DEF SealPark, Seal
  <2> HIDE DEF Control, TypeOK, TokenNeverStrands
  <2> QED
    BY <2>1, <2>2, <2>3, TokenFrame
<1>15. CASE Requeue(c)
  <2>1. /\ stop => stop'
        /\ \A r \in Runs : state'[r] = "PARKED" /\ token'[r] = 1
                              => state[r] = "PARKED" /\ token[r] = 1
    BY <1>15 DEF Requeue, TryCas, Drop
  <2>2. \A q \in Procs : pc[q] = "wakeCas" => pc'[q] = "wakeCas" /\ tgt'[q] = tgt[q]
    BY <1>15 DEF Requeue, TryCas, Drop
  <2>3. \A d \in Carriers : pc[d] = "parkSwap" => pc'[d] = "parkSwap" /\ cur'[d] = cur[d]
    BY <1>15 DEF Requeue, TryCas, Drop
  <2> HIDE DEF Control, TypeOK, TokenNeverStrands
  <2> QED
    BY <2>1, <2>2, <2>3, TokenFrame
<1>16. CASE Finish(c)
  <2>1. /\ stop => stop'
        /\ \A r \in Runs : state'[r] = "PARKED" /\ token'[r] = 1
                              => state[r] = "PARKED" /\ token[r] = 1
    BY <1>16 DEF Finish, TryCas, Drop
  <2>2. \A q \in Procs : pc[q] = "wakeCas" => pc'[q] = "wakeCas" /\ tgt'[q] = tgt[q]
    BY <1>16 DEF Finish, TryCas, Drop
  <2>3. \A d \in Carriers : pc[d] = "parkSwap" => pc'[d] = "parkSwap" /\ cur'[d] = cur[d]
    BY <1>16 DEF Finish, TryCas, Drop
  <2> HIDE DEF Control, TypeOK, TokenNeverStrands
  <2> QED
    BY <2>1, <2>2, <2>3, TokenFrame
<1>17. CASE ParkCas(c)
  <2>1. CASE state[cur[c]] = "RUNNING"
    <3>1. /\ state' = [state EXCEPT ![cur[c]] = "PARKED"]
          /\ pc' = [pc EXCEPT ![c] = "parkSwap"] /\ cur' = cur
          /\ UNCHANGED <<token, ring, work, stop, tgt>>
      BY <1>17, <2>1 DEF ParkCas, TryCas
    <3> QED
      BY <1>17, <3>1 DEF ParkCas
  <2>2. CASE state[cur[c]] # "RUNNING"
    <3>1. /\ pc' = [pc EXCEPT ![c] = "top"] /\ cur' = [cur EXCEPT ![c] = NoRun]
          /\ UNCHANGED <<state, token, ring, work, stop, tgt>>
      BY <1>17, <2>2 DEF ParkCas, TryCas, Drop
    <3> QED
      BY <1>17, <3>1 DEF ParkCas
  <2> QED
    BY <2>1, <2>2
<1>18. CASE ParkSleeps(c)
  BY <1>18 DEF ParkSleeps, Drop
<1>19. CASE ParkWoken(c)
  BY <1>19 DEF ParkWoken
<1>20. CASE SelfWake(c)
  <2>1. /\ stop => stop'
        /\ \A r \in Runs : state'[r] = "PARKED" /\ token'[r] = 1
                              => state[r] = "PARKED" /\ token[r] = 1
    BY <1>20 DEF SelfWake, Cas
  <2>2. \A q \in Procs : pc[q] = "wakeCas" => pc'[q] = "wakeCas" /\ tgt'[q] = tgt[q]
    BY <1>20 DEF SelfWake, Cas
  <2>3. \A d \in Carriers : pc[d] = "parkSwap" => pc'[d] = "parkSwap" /\ cur'[d] = cur[d]
    BY <1>20 DEF SelfWake, Cas
  <2> HIDE DEF Control, TypeOK, TokenNeverStrands
  <2> QED
    BY <2>1, <2>2, <2>3, TokenFrame
<1>21. CASE WakerWon(c)
  <2>1. /\ stop => stop'
        /\ \A r \in Runs : state'[r] = "PARKED" /\ token'[r] = 1
                              => state[r] = "PARKED" /\ token[r] = 1
    BY <1>21 DEF WakerWon, Drop
  <2>2. \A q \in Procs : pc[q] = "wakeCas" => pc'[q] = "wakeCas" /\ tgt'[q] = tgt[q]
    BY <1>21 DEF WakerWon, Drop
  <2>3. \A d \in Carriers : pc[d] = "parkSwap" => pc'[d] = "parkSwap" /\ cur'[d] = cur[d]
    BY <1>21 DEF WakerWon, Drop
  <2> HIDE DEF Control, TypeOK, TokenNeverStrands
  <2> QED
    BY <2>1, <2>2, <2>3, TokenFrame
<1>22. CASE StepAgain(c)
  <2>1. /\ stop => stop'
        /\ \A r \in Runs : state'[r] = "PARKED" /\ token'[r] = 1
                              => state[r] = "PARKED" /\ token[r] = 1
    BY <1>22 DEF StepAgain
  <2>2. \A q \in Procs : pc[q] = "wakeCas" => pc'[q] = "wakeCas" /\ tgt'[q] = tgt[q]
    BY <1>22 DEF StepAgain
  <2>3. \A d \in Carriers : pc[d] = "parkSwap" => pc'[d] = "parkSwap" /\ cur'[d] = cur[d]
    BY <1>22 DEF StepAgain
  <2> HIDE DEF Control, TypeOK, TokenNeverStrands
  <2> QED
    BY <2>1, <2>2, <2>3, TokenFrame
<1>23. CASE StepDone(c)
  <2>1. /\ stop => stop'
        /\ \A r \in Runs : state'[r] = "PARKED" /\ token'[r] = 1
                              => state[r] = "PARKED" /\ token[r] = 1
    BY <1>23 DEF StepDone
  <2>2. \A q \in Procs : pc[q] = "wakeCas" => pc'[q] = "wakeCas" /\ tgt'[q] = tgt[q]
    BY <1>23 DEF StepDone
  <2>3. \A d \in Carriers : pc[d] = "parkSwap" => pc'[d] = "parkSwap" /\ cur'[d] = cur[d]
    BY <1>23 DEF StepDone
  <2> HIDE DEF Control, TypeOK, TokenNeverStrands
  <2> QED
    BY <2>1, <2>2, <2>3, TokenFrame
<1>24. CASE StepPark(c)
  <2>1. /\ stop => stop'
        /\ \A r \in Runs : state'[r] = "PARKED" /\ token'[r] = 1
                              => state[r] = "PARKED" /\ token[r] = 1
    BY <1>24 DEF StepPark
  <2>2. \A q \in Procs : pc[q] = "wakeCas" => pc'[q] = "wakeCas" /\ tgt'[q] = tgt[q]
    BY <1>24 DEF StepPark
  <2>3. \A d \in Carriers : pc[d] = "parkSwap" => pc'[d] = "parkSwap" /\ cur'[d] = cur[d]
    BY <1>24 DEF StepPark
  <2> HIDE DEF Control, TypeOK, TokenNeverStrands
  <2> QED
    BY <2>1, <2>2, <2>3, TokenFrame
<1>25. CASE StepWake(c)
  <2>1. /\ stop => stop'
        /\ \A r \in Runs : state'[r] = "PARKED" /\ token'[r] = 1
                              => state[r] = "PARKED" /\ token[r] = 1
    BY <1>25 DEF StepWake
  <2>2. \A q \in Procs : pc[q] = "wakeCas" => pc'[q] = "wakeCas" /\ tgt'[q] = tgt[q]
    BY <1>25 DEF StepWake
  <2>3. \A d \in Carriers : pc[d] = "parkSwap" => pc'[d] = "parkSwap" /\ cur'[d] = cur[d]
    BY <1>25 DEF StepWake
  <2> HIDE DEF Control, TypeOK, TokenNeverStrands
  <2> QED
    BY <2>1, <2>2, <2>3, TokenFrame
<1>26. CASE StepSpawn(c)
  <2>1. /\ stop => stop'
        /\ \A r \in Runs : state'[r] = "PARKED" /\ token'[r] = 1
                              => state[r] = "PARKED" /\ token[r] = 1
    BY <1>26 DEF StepSpawn, Cas
  <2>2. \A q \in Procs : pc[q] = "wakeCas" => pc'[q] = "wakeCas" /\ tgt'[q] = tgt[q]
    BY <1>26 DEF StepSpawn, Cas
  <2>3. \A d \in Carriers : pc[d] = "parkSwap" => pc'[d] = "parkSwap" /\ cur'[d] = cur[d]
    BY <1>26 DEF StepSpawn, Cas
  <2> HIDE DEF Control, TypeOK, TokenNeverStrands
  <2> QED
    BY <2>1, <2>2, <2>3, TokenFrame
<1> QED
  BY <1>1, <1>2, <1>3, <1>4, <1>5, <1>6, <1>7, <1>8, <1>9, <1>10, <1>11, <1>12, <1>13, <1>14,
     <1>15, <1>16, <1>17, <1>18, <1>19, <1>20, <1>21, <1>22, <1>23, <1>24, <1>25, <1>26
  DEF CarrierNext, Dispatch, StepEnds

LEMMA TokenShared ==
    ASSUME TypeOK, Control, TokenNeverStrands, NEW p \in Procs, Shared(p)
    PROVE  TokenNeverStrands'
<1> USE SchedAssumption
<1> USE DEF TypeOK, Control, TokenNeverStrands, CarrierPcs, WakePcs, SharedPcs, NoRunPcs, Procs,
            cells, Goto
<1>1. CASE SetToken(p)
  BY <1>1 DEF SetToken
<1>2. CASE WakeCas(p)
  BY <1>2 DEF WakeCas, Cas
<1>3. CASE NotParked(p)
  BY <1>3 DEF NotParked, Return, Back
<1>4. CASE WakePush(p)
  BY <1>4 DEF WakePush
<1>5. CASE RingRefuses(p)
  BY <1>5 DEF RingRefuses
<1>6. CASE TryAgain(p)
  BY <1>6 DEF TryAgain
<1>7. CASE TakeBack(p)
  BY <1>7 DEF TakeBack
<1>8. CASE Retract(p)
  BY <1>8 DEF Retract, TryCas, Return, Back
<1>9. CASE Push(p)
  BY <1>9 DEF Push, Item
<1>10. CASE PushRefused(p)
  BY <1>10, SMTT(30) DEF PushRefused, vars
<1>11. CASE Bell(p)
  <2>1. UNCHANGED <<state, token, stop>>
    BY <1>11 DEF Bell
  <2>2. \A q \in Procs : pc[q] = "wakeCas" => pc'[q] = "wakeCas" /\ tgt'[q] = tgt[q]
    BY <1>11 DEF Bell, Back
  <2>3. \A d \in Carriers : pc[d] = "parkSwap" => pc'[d] = "parkSwap" /\ cur'[d] = cur[d]
    BY <1>11 DEF Bell, Back
  <2> HIDE DEF Control, TypeOK
  <2> QED
    BY <2>1, <2>2, <2>3
<1> QED
  BY <1>1, <1>2, <1>3, <1>4, <1>5, <1>6, <1>7, <1>8, <1>9, <1>10, <1>11
  DEF Shared, Wake

LEMMA TokenStep == TypeOK /\ Control /\ TokenNeverStrands /\ [Next]_vars => TokenNeverStrands'
<1> SUFFICES ASSUME TypeOK, Control, TokenNeverStrands, [Next]_vars PROVE TokenNeverStrands'
  OBVIOUS
<1>1. CASE \E c \in Carriers : CarrierNext(c)
  BY <1>1, TokenCarrier
<1>2. CASE \E p \in Procs : Shared(p)
  BY <1>2, TokenShared
<1>3. CASE \E e \in Edges : EdgeEnds(e) \/ \E r \in Watched : SeesParked(e, r)
  <2>1. UNCHANGED <<state, token, stop, cur>>
    BY <1>3 DEF EdgeEnds, SeesParked, cells
  <2>2. \A q \in Procs : pc[q] = "wakeCas" => pc'[q] = "wakeCas" /\ tgt'[q] = tgt[q]
    BY <1>3, SchedAssumption DEF EdgeEnds, SeesParked, Goto, TypeOK, Procs
  <2>3. \A d \in Carriers : pc[d] = "parkSwap" => pc'[d] = "parkSwap"
    BY <1>3, SchedAssumption DEF EdgeEnds, SeesParked, Goto, TypeOK, Procs
  <2> QED
    BY <2>1, <2>2, <2>3 DEF TokenNeverStrands
<1>4. CASE Stop
  BY <1>4 DEF Stop, TokenNeverStrands
<1>5. CASE UNCHANGED vars
  BY <1>5 DEF vars, cells, TokenNeverStrands
<1> QED
  BY <1>1, <1>2, <1>3, <1>4, <1>5 DEF Next, Terminated

\* A run never sleeps on a token nobody is about to act on, for any number of wakers: the
\* two exchanges of smp_park and the store before the CAS of smp_wake leave no gap (S4).
THEOREM TokenHeard == Spec => []TokenNeverStrands
<1> QED
  BY TokenInit, TokenStep, Typing, PTL DEF Spec

-----------------------------------------------------------------------------
(* The doorbell *)

\* A ring that holds a run has somebody to see it: a bell that is about to ring, the work
\* word for the next one who would sleep, or a carrier that has not come to its wait.  And
\* nobody sleeps on the work word.
Rung == /\ Live # {} => \/ \E p \in Procs : pc[p] = "bell"
                       \/ work
                       \/ \E c \in Carriers : pc[c] \notin {"wait", "asleep"}
        /\ work => \A c \in Carriers : pc[c] # "asleep"

LEMMA RungInit == Init => Rung
<1> QED
  BY SchedAssumption DEF Init, Rung, Procs

LEMMA RungCarrier ==
    ASSUME TypeOK, Control, Rung, NEW c \in Carriers, CarrierNext(c)
    PROVE  Rung'
<1> USE SchedAssumption
<1> c \in Procs
  BY DEF Procs
<1> USE DEF TypeOK, Control, Rung, Live, CarrierPcs, WakePcs, SharedPcs, NoRunPcs, Procs,
            cells, Goto
<1>1. CASE Stopped(c)
  BY <1>1 DEF Stopped
<1>2. CASE NotStopped(c)
  BY <1>2 DEF NotStopped
<1>3. CASE PopEmpty(c)
  BY <1>3 DEF PopEmpty
<1>4. CASE PopRun(c)
  BY <1>4 DEF PopRun
<1>5. CASE ClaimWork(c)
  BY <1>5 DEF ClaimWork
<1>6. CASE Sleep(c)
  BY <1>6 DEF Sleep
<1>7. CASE Timeout(c)
  BY <1>7 DEF Timeout
<1>8. CASE Defer(c)
  BY <1>8 DEF Defer
<1>9. CASE Take(c)
  BY <1>9 DEF Take, Cas
<1>10. CASE RefuseTake(c)
  BY <1>10 DEF RefuseTake, Drop
<1>11. CASE CheckSum(c)
  BY <1>11 DEF CheckSum
<1>12. CASE SealAgain(c)
  BY <1>12 DEF SealAgain, Seal
<1>13. CASE SealDone(c)
  BY <1>13 DEF SealDone, Seal
<1>14. CASE SealPark(c)
  BY <1>14 DEF SealPark, Seal
<1>15. CASE Requeue(c)
  <2>1. CASE state[cur[c]] = "RUNNING"
    <3>1. /\ state' = [state EXCEPT ![cur[c]] = "READY"]
          /\ pc' = [pc EXCEPT ![c] = "push"] /\ cur' = cur
          /\ UNCHANGED <<token, ring, work, stop, tgt>>
      BY <1>15, <2>1 DEF Requeue, TryCas
    <3> QED
      BY <1>15, <3>1 DEF Requeue
  <2>2. CASE state[cur[c]] # "RUNNING"
    <3>1. /\ pc' = [pc EXCEPT ![c] = "top"] /\ cur' = [cur EXCEPT ![c] = NoRun]
          /\ UNCHANGED <<state, token, ring, work, stop, tgt>>
      BY <1>15, <2>2 DEF Requeue, TryCas, Drop
    <3> QED
      BY <1>15, <3>1 DEF Requeue
  <2> QED
    BY <2>1, <2>2
<1>16. CASE Finish(c)
  BY <1>16 DEF Finish, TryCas, Drop
<1>17. CASE ParkCas(c)
  <2>1. CASE state[cur[c]] = "RUNNING"
    <3>1. /\ state' = [state EXCEPT ![cur[c]] = "PARKED"]
          /\ pc' = [pc EXCEPT ![c] = "parkSwap"] /\ cur' = cur
          /\ UNCHANGED <<token, ring, work, stop, tgt>>
      BY <1>17, <2>1 DEF ParkCas, TryCas
    <3> QED
      BY <1>17, <3>1 DEF ParkCas
  <2>2. CASE state[cur[c]] # "RUNNING"
    <3>1. /\ pc' = [pc EXCEPT ![c] = "top"] /\ cur' = [cur EXCEPT ![c] = NoRun]
          /\ UNCHANGED <<state, token, ring, work, stop, tgt>>
      BY <1>17, <2>2 DEF ParkCas, TryCas, Drop
    <3> QED
      BY <1>17, <3>1 DEF ParkCas
  <2> QED
    BY <2>1, <2>2
<1>18. CASE ParkSleeps(c)
  BY <1>18 DEF ParkSleeps, Drop
<1>19. CASE ParkWoken(c)
  BY <1>19 DEF ParkWoken
<1>20. CASE SelfWake(c)
  BY <1>20 DEF SelfWake, Cas
<1>21. CASE WakerWon(c)
  BY <1>21 DEF WakerWon, Drop
<1>22. CASE StepAgain(c)
  BY <1>22 DEF StepAgain
<1>23. CASE StepDone(c)
  BY <1>23 DEF StepDone
<1>24. CASE StepPark(c)
  BY <1>24 DEF StepPark
<1>25. CASE StepWake(c)
  BY <1>25 DEF StepWake
<1>26. CASE StepSpawn(c)
  BY <1>26 DEF StepSpawn, Cas
<1> QED
  BY <1>1, <1>2, <1>3, <1>4, <1>5, <1>6, <1>7, <1>8, <1>9, <1>10, <1>11, <1>12, <1>13, <1>14,
     <1>15, <1>16, <1>17, <1>18, <1>19, <1>20, <1>21, <1>22, <1>23, <1>24, <1>25, <1>26
  DEF CarrierNext, Dispatch, StepEnds

LEMMA RungShared ==
    ASSUME TypeOK, Control, Rung, NEW p \in Procs, Shared(p)
    PROVE  Rung'
<1> USE SchedAssumption
<1> USE DEF TypeOK, Control, Rung, Live, CarrierPcs, WakePcs, SharedPcs, NoRunPcs, Procs,
            cells, Goto
<1>1. CASE SetToken(p)
  BY <1>1 DEF SetToken
<1>2. CASE WakeCas(p)
  BY <1>2 DEF WakeCas, Cas
<1>3. CASE NotParked(p)
  BY <1>3 DEF NotParked, Return, Back
<1>4. CASE WakePush(p)
  BY <1>4 DEF WakePush
<1>5. CASE RingRefuses(p)
  BY <1>5 DEF RingRefuses
<1>6. CASE TryAgain(p)
  BY <1>6 DEF TryAgain
<1>7. CASE TakeBack(p)
  BY <1>7 DEF TakeBack
<1>8. CASE Retract(p)
  BY <1>8 DEF Retract, TryCas, Return, Back
<1>9. CASE Push(p)
  BY <1>9 DEF Push, Item
<1>10. CASE PushRefused(p)
  BY <1>10 DEF PushRefused, vars
<1>11. CASE Bell(p)
  BY <1>11 DEF Bell, Back
<1> QED
  BY <1>1, <1>2, <1>3, <1>4, <1>5, <1>6, <1>7, <1>8, <1>9, <1>10, <1>11
  DEF Shared, Wake

LEMMA RungStep == TypeOK /\ Control /\ Rung /\ [Next]_vars => Rung'
<1> SUFFICES ASSUME TypeOK, Control, Rung, [Next]_vars PROVE Rung'
  OBVIOUS
<1>1. CASE \E c \in Carriers : CarrierNext(c)
  BY <1>1, RungCarrier
<1>2. CASE \E p \in Procs : Shared(p)
  BY <1>2, RungShared
<1>3. CASE \E e \in Edges : EdgeEnds(e) \/ \E r \in Watched : SeesParked(e, r)
  BY <1>3, SchedAssumption
  DEF EdgeEnds, SeesParked, Rung, Live, cells, Goto, TypeOK, Procs
<1>4. CASE Stop
  BY <1>4, SchedAssumption DEF Stop, Rung, Live, cells, Goto, TypeOK, Procs
<1>5. CASE UNCHANGED vars
  BY <1>5 DEF vars, cells, Rung, Live
<1> QED
  BY <1>1, <1>2, <1>3, <1>4, <1>5 DEF Next, Terminated

\* The carriers never all sleep on a ring that holds a run unless its bell is about to ring,
\* whatever their number: the timed wait is not what finds the work (S9).
THEOREM Doorbell == Spec => []DoorbellHeard
<1>1. TypeOK /\ Rung => DoorbellHeard
  BY SchedAssumption DEF Rung, DoorbellHeard
<1> QED
  BY <1>1, RungInit, RungStep, Typing, PTL DEF Spec

-----------------------------------------------------------------------------
(***************************************************************************)
(* One ticket per run, for every instance whose initial ring names no run  *)
(* twice: a READY run is once in the ring or in one hand, so it is never   *)
(* enqueued twice and never dropped, and the state table follows.          *)
(***************************************************************************)

-----------------------------------------------------------------------------
(* How a ticket moves *)

KeepReady == \A r \in Runs : (state'[r] = "READY") <=> (state[r] = "READY")
KeepHands == \A q \in Procs, r \in Runs : Holds(q, r)' <=> Holds(q, r)
GainHand(p, x) ==
    \A q \in Procs, r \in Runs : Holds(q, r)' <=> (Holds(q, r) \/ (q = p /\ r = x))
LoseHand(p, x) ==
    \A q \in Procs, r \in Runs : Holds(q, r)' <=> (Holds(q, r) /\ ~(q = p /\ r = x))

LEMMA TicketFrame ==
    ASSUME OneTicket, KeepReady, KeepHands, ring' = ring
    PROVE  OneTicket'
<1>1. \A r \in Runs : Holders(r)' = Holders(r) /\ RingPlaces(r)' = RingPlaces(r)
  BY DEF Holders, RingPlaces, KeepHands
<1> QED
  BY <1>1 DEF OneTicket, KeepReady

\* A run that becomes READY in a hand.
LEMMA TicketBorn ==
    ASSUME OneTicket, NEW p \in Procs, NEW x \in Runs,
           state[x] # "READY", state'[x] = "READY",
           \A r \in Runs : r # x => state'[r] = state[r],
           GainHand(p, x), ring' = ring
    PROVE  OneTicket'
<1>1. \A r \in Runs : RingPlaces(r)' = RingPlaces(r)
  BY DEF RingPlaces
<1>2. \A r \in Runs : r # x => Holders(r)' = Holders(r)
  BY DEF Holders, GainHand
<1>3. RingPlaces(x) = {} /\ Holders(x) = {}
  BY DEF OneTicket
<1>4. Holders(x)' = {p}
  BY <1>3 DEF Holders, GainHand
<1> QED
  BY <1>1, <1>2, <1>3, <1>4 DEF OneTicket

\* A run that leaves READY from a hand.
LEMMA TicketSpent ==
    ASSUME OneTicket, NEW p \in Procs, NEW x \in Runs,
           Holds(p, x), state'[x] # "READY",
           \A r \in Runs : r # x => state'[r] = state[r],
           LoseHand(p, x), ring' = ring
    PROVE  OneTicket'
<1>1. \A r \in Runs : RingPlaces(r)' = RingPlaces(r)
  BY DEF RingPlaces
<1>2. \A r \in Runs : r # x => Holders(r)' = Holders(r)
  BY DEF Holders, LoseHand
<1>3. p \in Holders(x)
  BY DEF Holders
<1>4. Holders(x)' = {} /\ RingPlaces(x) = {}
  BY <1>3 DEF Holders, LoseHand, OneTicket
<1> QED
  BY <1>1, <1>2, <1>4 DEF OneTicket

\* From the hand into the ring.
LEMMA TicketPushed ==
    ASSUME TypeOK, OneTicket, NEW p \in Procs, NEW x \in Runs,
           Holds(p, x), KeepReady, LoseHand(p, x), RingPush(x)
    PROVE  OneTicket'
<1> DEFINE n == Len(ring)
<1>1. /\ Len(ring') = n + 1 /\ n \in Nat
      /\ \A i \in 1..n : ring'[i] = ring[i]
      /\ ring'[n + 1] = x
  BY PushRing, LenProperties DEF TypeOK, Handles
<1>2. \A r \in Runs : r # x => RingPlaces(r)' = RingPlaces(r) /\ Holders(r)' = Holders(r)
  BY <1>1 DEF RingPlaces, Holders, LoseHand
<1>3. p \in Holders(x)
  BY DEF Holders
<1>4. Holders(x)' = {} /\ RingPlaces(x) = {} /\ state[x] = "READY"
  BY <1>3 DEF Holders, LoseHand, OneTicket
<1>5. RingPlaces(x)' = {n + 1}
  BY <1>1, <1>4 DEF RingPlaces
<1> QED
  BY <1>2, <1>4, <1>5 DEF OneTicket, KeepReady

\* From the ring into the hand.
LEMMA TicketPopped ==
    ASSUME TypeOK, OneTicket, NEW p \in Procs, NEW x \in Runs,
           RingPop(x), KeepReady, GainHand(p, x)
    PROVE  OneTicket'
<1> SUFFICES ASSUME NEW r \in Runs
             PROVE  /\ \A i, j \in RingPlaces(r)' : i = j
                    /\ \A q, s \in Holders(r)' : q = s
                    /\ RingPlaces(r)' = {} \/ Holders(r)' = {}
                    /\ (state'[r] = "READY") <=> (RingPlaces(r)' # {} \/ Holders(r)' # {})
  BY DEF OneTicket
<1>1. PICK k \in 1..Len(ring) :
          /\ ring[k] = x
          /\ \A j \in 1..(k - 1) : ring[j] = Stale
          /\ Len(ring') = Len(ring) - k
          /\ \A i \in 1..(Len(ring) - k) : ring'[i] = ring[i + k]
  BY PopRing DEF TypeOK, Handles
<1>2. Len(ring) \in Nat /\ r # Stale
  BY LenProperties, SchedAssumption DEF TypeOK
<1>3. \A i \in RingPlaces(r)' : i \in Nat /\ i + k \in RingPlaces(r)
  BY <1>1, <1>2 DEF RingPlaces
<1>4. \A i, j \in RingPlaces(r)' : i = j
  <2> SUFFICES ASSUME NEW i \in RingPlaces(r)', NEW j \in RingPlaces(r)' PROVE i = j
    OBVIOUS
  <2>1. i + k = j + k
    BY <1>3 DEF OneTicket
  <2> QED
    BY <1>3, <2>1
<1>5. CASE r = x
  <2>1. k \in RingPlaces(x)
    BY <1>1 DEF RingPlaces
  <2>2. Holders(x) = {} /\ state[x] = "READY" /\ \A i \in RingPlaces(x) : i = k
    BY <2>1 DEF OneTicket
  <2>3. RingPlaces(x)' = {}
    <3> SUFFICES ASSUME NEW i \in RingPlaces(x)' PROVE FALSE
      OBVIOUS
    <3>1. i + k = k /\ i \in 1..Len(ring')
      BY <1>3, <1>5, <2>2 DEF RingPlaces
    <3> QED
      BY <1>1, <1>2, <3>1
  <2>4. Holders(x)' = {p}
    BY <2>2 DEF Holders, GainHand
  <2> QED
    BY <1>5, <2>2, <2>3, <2>4 DEF KeepReady
<1>6. CASE r # x
  <2>1. Holders(r)' = Holders(r)
    BY <1>6 DEF Holders, GainHand
  <2>2. ASSUME NEW i \in RingPlaces(r) PROVE i - k \in RingPlaces(r)'
    <3>1. i \in 1..Len(ring) /\ ring[i] = r
      BY <2>2 DEF RingPlaces
    <3>2. i > k
      BY <1>1, <1>2, <1>6, <3>1
    <3>3. i - k \in 1..Len(ring') /\ ring'[i - k] = r
      BY <1>1, <1>2, <3>1, <3>2
    <3> QED
      BY <3>3 DEF RingPlaces
  <2>3. (RingPlaces(r)' = {}) <=> (RingPlaces(r) = {})
    BY <1>3, <2>2
  <2> QED
    BY <1>4, <2>1, <2>3 DEF OneTicket, KeepReady
<1> QED
  BY <1>5, <1>6

-----------------------------------------------------------------------------
(* Every step keeps the tickets *)

LEMMA TicketInit == NoDuplicates(InitRing) /\ Init => OneTicket
<1> SUFFICES ASSUME NoDuplicates(InitRing), Init, NEW r \in Runs
             PROVE  /\ \A i, j \in RingPlaces(r) : i = j
                    /\ Holders(r) = {}
                    /\ (state[r] = "READY") <=> (RingPlaces(r) # {})
  BY DEF OneTicket
<1> USE SchedAssumption
<1>1. \A i, j \in RingPlaces(r) : i = j
  BY DEF Init, NoDuplicates, RingPlaces
<1>2. Holders(r) = {}
  BY DEF Init, Holders, Holds, Procs
<1>3. (state[r] = "READY") <=> (RingPlaces(r) # {})
  BY DEF Init, RingPlaces, Enqueued
<1> QED
  BY <1>1, <1>2, <1>3

LEMMA TicketCarrier ==
    ASSUME TypeOK, Control, SingleOwner, OneTicket, NEW c \in Carriers, CarrierNext(c)
    PROVE  OneTicket'
<1> USE SchedAssumption
<1> c \in Procs
  BY DEF Procs
<1> USE DEF TypeOK, Control, CarrierPcs, WakePcs, SharedPcs, NoRunPcs, Procs, cells, Goto
<1>1. CASE Stopped(c)
  <2>1. KeepHands
    BY <1>1 DEF Stopped, KeepHands, Holds, Item
  <2>2. KeepReady
    BY <1>1 DEF Stopped, KeepReady
  <2>3. ring' = ring
    BY <1>1 DEF Stopped
  <2> QED
    BY <2>1, <2>2, <2>3, TicketFrame
<1>2. CASE NotStopped(c)
  <2>1. KeepHands
    BY <1>2 DEF NotStopped, KeepHands, Holds, Item
  <2>2. KeepReady
    BY <1>2 DEF NotStopped, KeepReady
  <2>3. ring' = ring
    BY <1>2 DEF NotStopped
  <2> QED
    BY <2>1, <2>2, <2>3, TicketFrame
<1>3. CASE PopEmpty(c)
  <2>1. KeepHands
    BY <1>3 DEF PopEmpty, KeepHands, Holds, Item
  <2>2. KeepReady /\ ring' = <<>> /\ Live = {}
    BY <1>3 DEF PopEmpty, KeepReady
  <2>3. \A r \in Runs : RingPlaces(r) = {} /\ RingPlaces(r)' = {}
    BY <2>2 DEF RingPlaces, Live
  <2>4. \A r \in Runs : Holders(r)' = Holders(r)
    BY <2>1 DEF Holders, KeepHands
  <2> QED
    BY <2>2, <2>3, <2>4 DEF OneTicket, KeepReady
<1>4. CASE PopRun(c)
  <2>1. PICK x \in Runs : RingPop(x) /\ cur' = [cur EXCEPT ![c] = x]
    BY <1>4 DEF PopRun
  <2>2. GainHand(c, x)
    BY <1>4, <2>1 DEF PopRun, GainHand, Holds, Item
  <2>3. KeepReady
    BY <1>4 DEF PopRun, KeepReady
  <2> QED
    BY <2>1, <2>2, <2>3, TicketPopped
<1>5. CASE ClaimWork(c)
  <2>1. KeepHands
    BY <1>5 DEF ClaimWork, KeepHands, Holds, Item
  <2>2. KeepReady
    BY <1>5 DEF ClaimWork, KeepReady
  <2>3. ring' = ring
    BY <1>5 DEF ClaimWork
  <2> QED
    BY <2>1, <2>2, <2>3, TicketFrame
<1>6. CASE Sleep(c)
  <2>1. KeepHands
    BY <1>6 DEF Sleep, KeepHands, Holds, Item
  <2>2. KeepReady
    BY <1>6 DEF Sleep, KeepReady
  <2>3. ring' = ring
    BY <1>6 DEF Sleep
  <2> QED
    BY <2>1, <2>2, <2>3, TicketFrame
<1>7. CASE Timeout(c)
  <2>1. KeepHands
    BY <1>7 DEF Timeout, KeepHands, Holds, Item
  <2>2. KeepReady
    BY <1>7 DEF Timeout, KeepReady
  <2>3. ring' = ring
    BY <1>7 DEF Timeout
  <2> QED
    BY <2>1, <2>2, <2>3, TicketFrame
<1>8. CASE Defer(c)
  <2>1. KeepHands
    BY <1>8 DEF Defer, KeepHands, Holds, Item
  <2>2. KeepReady
    BY <1>8 DEF Defer, KeepReady
  <2>3. ring' = ring
    BY <1>8 DEF Defer
  <2> QED
    BY <2>1, <2>2, <2>3, TicketFrame
<1>9. CASE Take(c)
  <2> DEFINE x == cur[c]
  <2>1. x \in Runs /\ Holds(c, x)
    BY <1>9 DEF Take, Holds
  <2>2. state'[x] # "READY" /\ \A r \in Runs : r # x => state'[r] = state[r]
    BY <1>9, <2>1 DEF Take, Cas
  <2>3. LoseHand(c, x)
    BY <1>9 DEF Take, LoseHand, Holds, Item
  <2>4. ring' = ring
    BY <1>9 DEF Take
  <2> HIDE DEF x
  <2> QED
    BY <2>1, <2>2, <2>3, <2>4, TicketSpent
<1>10. CASE RefuseTake(c)
  <2>1. cur[c] \in Runs /\ c \in Holders(cur[c])
    BY <1>10 DEF RefuseTake, Holders, Holds
  <2>2. state[cur[c]] = "READY"
    BY <2>1 DEF OneTicket
  <2> QED
    BY <1>10, <2>2 DEF RefuseTake
<1>11. CASE CheckSum(c)
  <2>1. KeepHands
    BY <1>11 DEF CheckSum, KeepHands, Holds, Item
  <2>2. KeepReady
    BY <1>11 DEF CheckSum, KeepReady
  <2>3. ring' = ring
    BY <1>11 DEF CheckSum
  <2> QED
    BY <2>1, <2>2, <2>3, TicketFrame
<1>12. CASE SealAgain(c)
  <2>1. KeepHands
    BY <1>12 DEF SealAgain, Seal, KeepHands, Holds, Item
  <2>2. KeepReady
    BY <1>12 DEF SealAgain, Seal, KeepReady
  <2>3. ring' = ring
    BY <1>12 DEF SealAgain, Seal
  <2> QED
    BY <2>1, <2>2, <2>3, TicketFrame
<1>13. CASE SealDone(c)
  <2>1. KeepHands
    BY <1>13 DEF SealDone, Seal, KeepHands, Holds, Item
  <2>2. KeepReady
    BY <1>13 DEF SealDone, Seal, KeepReady
  <2>3. ring' = ring
    BY <1>13 DEF SealDone, Seal
  <2> QED
    BY <2>1, <2>2, <2>3, TicketFrame
<1>14. CASE SealPark(c)
  <2>1. KeepHands
    BY <1>14 DEF SealPark, Seal, KeepHands, Holds, Item
  <2>2. KeepReady
    BY <1>14 DEF SealPark, Seal, KeepReady
  <2>3. ring' = ring
    BY <1>14 DEF SealPark, Seal
  <2> QED
    BY <2>1, <2>2, <2>3, TicketFrame
<1>15. CASE Requeue(c)
  <2> DEFINE x == cur[c]
  <2>1. x \in Runs /\ c \in Owners(x)
    BY <1>15 DEF Requeue, Owners, Owns, OwnerPcs
  <2>2. state[x] = "RUNNING"
    BY <2>1 DEF SingleOwner
  <2>3. state'[x] = "READY" /\ \A r \in Runs : r # x => state'[r] = state[r]
    BY <1>15, <2>1, <2>2 DEF Requeue, TryCas
  <2>4. GainHand(c, x)
    BY <1>15, <2>2 DEF Requeue, GainHand, Holds, Item
  <2>5. ring' = ring
    BY <1>15 DEF Requeue
  <2> HIDE DEF x
  <2> QED
    BY <2>1, <2>2, <2>3, <2>4, <2>5, TicketBorn
<1>16. CASE Finish(c)
  <2> DEFINE x == cur[c]
  <2>1. x \in Runs /\ c \in Owners(x)
    BY <1>16 DEF Finish, Owners, Owns, OwnerPcs
  <2>2. state[x] = "RUNNING"
    BY <2>1 DEF SingleOwner
  <2>3. KeepReady
    BY <1>16, <2>1, <2>2 DEF Finish, TryCas, KeepReady
  <2>4. KeepHands
    BY <1>16, <2>2 DEF Finish, Drop, KeepHands, Holds, Item
  <2>5. ring' = ring
    BY <1>16 DEF Finish
  <2> QED
    BY <2>3, <2>4, <2>5, TicketFrame
<1>17. CASE ParkCas(c)
  <2> DEFINE x == cur[c]
  <2>1. x \in Runs /\ c \in Owners(x)
    BY <1>17 DEF ParkCas, Owners, Owns, OwnerPcs
  <2>2. state[x] = "RUNNING"
    BY <2>1 DEF SingleOwner
  <2>3. KeepReady
    BY <1>17, <2>1, <2>2 DEF ParkCas, TryCas, KeepReady
  <2>4. KeepHands
    BY <1>17, <2>2 DEF ParkCas, Drop, KeepHands, Holds, Item
  <2>5. ring' = ring
    BY <1>17 DEF ParkCas
  <2> QED
    BY <2>3, <2>4, <2>5, TicketFrame
<1>18. CASE ParkSleeps(c)
  <2>1. KeepHands
    BY <1>18 DEF ParkSleeps, Drop, KeepHands, Holds, Item
  <2>2. KeepReady
    BY <1>18 DEF ParkSleeps, Drop, KeepReady
  <2>3. ring' = ring
    BY <1>18 DEF ParkSleeps, Drop
  <2> QED
    BY <2>1, <2>2, <2>3, TicketFrame
<1>19. CASE ParkWoken(c)
  <2>1. KeepHands
    BY <1>19 DEF ParkWoken, KeepHands, Holds, Item
  <2>2. KeepReady
    BY <1>19 DEF ParkWoken, KeepReady
  <2>3. ring' = ring
    BY <1>19 DEF ParkWoken
  <2> QED
    BY <2>1, <2>2, <2>3, TicketFrame
<1>20. CASE SelfWake(c)
  <2> DEFINE x == cur[c]
  <2>1. x \in Runs
    BY <1>20 DEF SelfWake
  <2>2. state[x] # "READY" /\ state'[x] = "READY"
    BY <1>20, <2>1 DEF SelfWake, Cas
  <2>3. \A r \in Runs : r # x => state'[r] = state[r]
    BY <1>20, <2>1 DEF SelfWake, Cas
  <2>4. GainHand(c, x)
    BY <1>20, <2>1 DEF SelfWake, GainHand, Holds, Item
  <2>5. ring' = ring
    BY <1>20 DEF SelfWake
  <2> HIDE DEF x
  <2> QED
    BY <2>1, <2>2, <2>3, <2>4, <2>5, TicketBorn
<1>21. CASE WakerWon(c)
  <2>1. KeepHands
    BY <1>21 DEF WakerWon, Drop, KeepHands, Holds, Item
  <2>2. KeepReady
    BY <1>21 DEF WakerWon, Drop, KeepReady
  <2>3. ring' = ring
    BY <1>21 DEF WakerWon, Drop
  <2> QED
    BY <2>1, <2>2, <2>3, TicketFrame
<1>22. CASE StepAgain(c)
  <2>1. KeepHands
    BY <1>22 DEF StepAgain, KeepHands, Holds, Item
  <2>2. KeepReady
    BY <1>22 DEF StepAgain, KeepReady
  <2>3. ring' = ring
    BY <1>22 DEF StepAgain
  <2> QED
    BY <2>1, <2>2, <2>3, TicketFrame
<1>23. CASE StepDone(c)
  <2>1. KeepHands
    BY <1>23 DEF StepDone, KeepHands, Holds, Item
  <2>2. KeepReady
    BY <1>23 DEF StepDone, KeepReady
  <2>3. ring' = ring
    BY <1>23 DEF StepDone
  <2> QED
    BY <2>1, <2>2, <2>3, TicketFrame
<1>24. CASE StepPark(c)
  <2>1. KeepHands
    BY <1>24 DEF StepPark, KeepHands, Holds, Item
  <2>2. KeepReady
    BY <1>24 DEF StepPark, KeepReady
  <2>3. ring' = ring
    BY <1>24 DEF StepPark
  <2> QED
    BY <2>1, <2>2, <2>3, TicketFrame
<1>25. CASE StepWake(c)
  <2>1. KeepHands
    BY <1>25 DEF StepWake, KeepHands, Holds, Item
  <2>2. KeepReady
    BY <1>25 DEF StepWake, KeepReady
  <2>3. ring' = ring
    BY <1>25 DEF StepWake
  <2> QED
    BY <2>1, <2>2, <2>3, TicketFrame
<1>26. CASE StepSpawn(c)
  <2>1. PICK x \in SpawnOf[cur[c]] : Cas(x, "FREE", "READY") /\ tgt' = [tgt EXCEPT ![c] = x]
    BY <1>26 DEF StepSpawn
  <2>0. x \in Runs
    BY <1>26 DEF StepSpawn
  <2>2. state[x] # "READY" /\ state'[x] = "READY"
    BY <2>0, <2>1 DEF Cas
  <2>3. \A r \in Runs : r # x => state'[r] = state[r]
    BY <2>0, <2>1 DEF Cas
  <2>4. GainHand(c, x)
    BY <1>26, <2>0, <2>1 DEF StepSpawn, GainHand, Holds, Item
  <2>5. ring' = ring
    BY <1>26 DEF StepSpawn
  <2> QED
    BY <2>0, <2>2, <2>3, <2>4, <2>5, TicketBorn
<1> QED
  BY <1>1, <1>2, <1>3, <1>4, <1>5, <1>6, <1>7, <1>8, <1>9, <1>10, <1>11, <1>12, <1>13, <1>14,
     <1>15, <1>16, <1>17, <1>18, <1>19, <1>20, <1>21, <1>22, <1>23, <1>24, <1>25, <1>26
  DEF CarrierNext, Dispatch, StepEnds

LEMMA TicketShared ==
    ASSUME TypeOK, Control, OneTicket, NEW p \in Procs, Shared(p)
    PROVE  OneTicket'
<1> USE SchedAssumption
<1> USE DEF TypeOK, Control, CarrierPcs, WakePcs, SharedPcs, NoRunPcs, Procs, cells, Goto
<1>1. CASE SetToken(p)
  <2>1. KeepHands
    BY <1>1 DEF SetToken, KeepHands, Holds, Item
  <2>2. KeepReady
    BY <1>1 DEF SetToken, KeepReady
  <2>3. ring' = ring
    BY <1>1 DEF SetToken
  <2> QED
    BY <2>1, <2>2, <2>3, TicketFrame
<1>2. CASE WakeCas(p)
  <2> DEFINE x == tgt[p]
  <2>1. x \in Runs
    BY <1>2 DEF WakeCas
  <2>2. state[x] # "READY" /\ state'[x] = "READY"
    BY <1>2, <2>1 DEF WakeCas, Cas
  <2>3. \A r \in Runs : r # x => state'[r] = state[r]
    BY <1>2, <2>1 DEF WakeCas, Cas
  <2>4. GainHand(p, x)
    BY <1>2, <2>1 DEF WakeCas, GainHand, Holds, Item
  <2>5. ring' = ring
    BY <1>2 DEF WakeCas
  <2> HIDE DEF x
  <2> QED
    BY <2>1, <2>2, <2>3, <2>4, <2>5, TicketBorn
<1>3. CASE NotParked(p)
  <2>1. KeepHands
    BY <1>3 DEF NotParked, Return, Back, KeepHands, Holds, Item
  <2>2. KeepReady
    BY <1>3 DEF NotParked, Return, Back, KeepReady
  <2>3. ring' = ring
    BY <1>3 DEF NotParked, Return, Back
  <2> QED
    BY <2>1, <2>2, <2>3, TicketFrame
<1>4. CASE WakePush(p)
  <2> DEFINE x == tgt[p]
  <2>1. x \in Runs /\ Holds(p, x)
    BY <1>4 DEF WakePush, Holds, Item
  <2>2. KeepReady
    BY <1>4 DEF WakePush, KeepReady
  <2>3. LoseHand(p, x)
    BY <1>4 DEF WakePush, LoseHand, Holds, Item
  <2>4. RingPush(x)
    BY <1>4 DEF WakePush
  <2> HIDE DEF x
  <2> QED
    BY <2>1, <2>2, <2>3, <2>4, TicketPushed
<1>5. CASE RingRefuses(p)
  <2>1. KeepHands
    BY <1>5 DEF RingRefuses, KeepHands, Holds, Item
  <2>2. KeepReady
    BY <1>5 DEF RingRefuses, KeepReady
  <2>3. ring' = ring
    BY <1>5 DEF RingRefuses
  <2> QED
    BY <2>1, <2>2, <2>3, TicketFrame
<1>6. CASE TryAgain(p)
  <2>1. KeepHands
    BY <1>6 DEF TryAgain, KeepHands, Holds, Item
  <2>2. KeepReady
    BY <1>6 DEF TryAgain, KeepReady
  <2>3. ring' = ring
    BY <1>6 DEF TryAgain
  <2> QED
    BY <2>1, <2>2, <2>3, TicketFrame
<1>7. CASE TakeBack(p)
  <2>1. KeepHands
    BY <1>7 DEF TakeBack, KeepHands, Holds, Item
  <2>2. KeepReady
    BY <1>7 DEF TakeBack, KeepReady
  <2>3. ring' = ring
    BY <1>7 DEF TakeBack
  <2> QED
    BY <2>1, <2>2, <2>3, TicketFrame
<1>8. CASE Retract(p)
  <2> DEFINE x == tgt[p]
  <2>1. x \in Runs /\ Holds(p, x)
    BY <1>8 DEF Retract, Holds
  <2>2. state'[x] # "READY" /\ \A r \in Runs : r # x => state'[r] = state[r]
    BY <1>8, <2>1 DEF Retract, TryCas
  <2>3. LoseHand(p, x)
    BY <1>8 DEF Retract, Return, Back, LoseHand, Holds, Item
  <2>4. ring' = ring
    BY <1>8 DEF Retract
  <2> HIDE DEF x
  <2> QED
    BY <2>1, <2>2, <2>3, <2>4, TicketSpent
<1>9. CASE Push(p)
  <2> DEFINE x == Item(p)
  <2>1. x \in Runs /\ Holds(p, x)
    BY <1>9 DEF Push, Holds, Item
  <2>2. KeepReady
    BY <1>9 DEF Push, KeepReady
  <2>3. LoseHand(p, x)
    BY <1>9 DEF Push, LoseHand, Holds, Item
  <2>4. RingPush(x)
    BY <1>9 DEF Push
  <2> HIDE DEF x
  <2> QED
    BY <2>1, <2>2, <2>3, <2>4, TicketPushed
<1>10. CASE PushRefused(p)
  <2>1. KeepHands
    BY <1>10 DEF PushRefused, vars, KeepHands, Holds, Item
  <2>2. KeepReady
    BY <1>10 DEF PushRefused, vars, KeepReady
  <2>3. ring' = ring
    BY <1>10 DEF PushRefused, vars
  <2> QED
    BY <2>1, <2>2, <2>3, TicketFrame
<1>11. CASE Bell(p)
  <2>1. KeepHands
    BY <1>11 DEF Bell, Back, KeepHands, Holds, Item
  <2>2. KeepReady
    BY <1>11 DEF Bell, Back, KeepReady
  <2>3. ring' = ring
    BY <1>11 DEF Bell, Back
  <2> QED
    BY <2>1, <2>2, <2>3, TicketFrame
<1> QED
  BY <1>1, <1>2, <1>3, <1>4, <1>5, <1>6, <1>7, <1>8, <1>9, <1>10, <1>11
  DEF Shared, Wake

LEMMA TicketStep == TypeOK /\ Control /\ SingleOwner /\ OneTicket /\ [Next]_vars => OneTicket'
<1> SUFFICES ASSUME TypeOK, Control, SingleOwner, OneTicket, [Next]_vars PROVE OneTicket'
  OBVIOUS
<1>1. CASE \E c \in Carriers : CarrierNext(c)
  BY <1>1, TicketCarrier
<1>2. CASE \E p \in Procs : Shared(p)
  BY <1>2, TicketShared
<1>3. ASSUME NEW e \in Edges, EdgeEnds(e) \/ \E r \in Watched : SeesParked(e, r)
      PROVE  OneTicket'
  <2>1. KeepHands
    BY <1>3, SchedAssumption
    DEF EdgeEnds, SeesParked, KeepHands, Holds, Item, Goto, TypeOK, Control, WakePcs, Procs
  <2>2. KeepReady /\ ring' = ring
    BY <1>3 DEF EdgeEnds, SeesParked, KeepReady, cells
  <2> QED
    BY <2>1, <2>2, TicketFrame
<1>4. CASE Stop
  <2>1. KeepHands
    BY <1>4, SchedAssumption DEF Stop, KeepHands, Holds, Item, Goto, TypeOK, Procs
  <2>2. KeepReady /\ ring' = ring
    BY <1>4 DEF Stop, KeepReady, cells
  <2> QED
    BY <2>1, <2>2, TicketFrame
<1>5. CASE UNCHANGED vars
  <2>1. KeepHands /\ KeepReady /\ ring' = ring
    BY <1>5 DEF vars, cells, KeepHands, KeepReady, Holds, Item
  <2> QED
    BY <2>1, TicketFrame
<1> QED
  BY <1>1, <1>2, <1>3, <1>4, <1>5 DEF Next, Terminated

\* A READY run is in the ring once or in one hand, and no other run is: whatever wakes,
\* parks, yields and refused pushes do to it, it is never enqueued twice and never dropped.
THEOREM Ticket ==
    ASSUME NoDuplicates(InitRing)
    PROVE  Spec => []OneTicket
<1>1. Init => OneTicket
  BY TicketInit
<1> QED
  BY <1>1, TicketStep, Typing, OneOwner, PTL DEF Spec

-----------------------------------------------------------------------------
(* The state table *)

TableAction ==
    \A r \in Runs : state'[r] # state[r] =>
        /\ <<state[r], state'[r]>> \in Transitions
        /\ state[r] = "READY" => RingPlaces(r) = {}

LEMMA TableKept == state' = state => TableAction
  BY DEF TableAction

\* One run makes one transition of the table.
LEMMA TableMoves ==
    ASSUME TypeOK, NEW x \in Runs,
           \/ state' = state
           \/ \E to \in RunStates : /\ state' = [state EXCEPT ![x] = to]
                                    /\ <<state[x], to>> \in Transitions,
           state[x] = "READY" => RingPlaces(x) = {}
    PROVE  TableAction
<1>1. CASE state' = state
  BY <1>1, TableKept
<1>2. ASSUME NEW to \in RunStates, state' = [state EXCEPT ![x] = to],
             <<state[x], to>> \in Transitions
      PROVE  TableAction
  <2> SUFFICES ASSUME NEW r \in Runs, state'[r] # state[r]
               PROVE  /\ <<state[r], state'[r]>> \in Transitions
                      /\ state[r] = "READY" => RingPlaces(r) = {}
    BY DEF TableAction
  <2>1. r = x /\ state'[r] = to
    BY <1>2 DEF TypeOK
  <2> QED
    BY <1>2, <2>1
<1> QED
  BY <1>1, <1>2

\* A run somebody holds is nowhere in the ring.
LEMMA HeldIsOut ==
    ASSUME OneTicket, NEW p \in Procs, NEW x \in Runs, Holds(p, x)
    PROVE  RingPlaces(x) = {}
  BY DEF OneTicket, Holders

LEMMA TableCarrier ==
    ASSUME TypeOK, Control, OneTicket, NEW c \in Carriers, CarrierNext(c)
    PROVE  TableAction
<1> c \in Procs
  BY DEF Procs
<1> DEFINE x == cur[c]
<1>1. CASE Take(c)
  <2>1. x \in Runs /\ Holds(c, x)
    BY <1>1, SchedAssumption DEF Take, TypeOK, Control, NoRunPcs, Holds
  <2>2. RingPlaces(x) = {}
    BY <2>1, HeldIsOut
  <2>3. state' = [state EXCEPT ![x] = "RUNNING"] /\ <<state[x], "RUNNING">> \in Transitions
    BY <1>1 DEF Take, Cas, Transitions
  <2> HIDE DEF x
  <2> QED
    BY <2>1, <2>2, <2>3, TableMoves DEF RunStates
<1>2. CASE StepSpawn(c)
  <2>1. PICK t \in SpawnOf[x] : Cas(t, "FREE", "READY")
    BY <1>2 DEF StepSpawn
  <2>2. t \in Runs
    BY <1>2, <2>1, SchedAssumption DEF StepSpawn, TypeOK, Control, NoRunPcs
  <2>3. /\ state' = [state EXCEPT ![t] = "READY"] /\ state[t] # "READY"
        /\ <<state[t], "READY">> \in Transitions
    BY <2>1 DEF Cas, Transitions
  <2> QED
    BY <2>2, <2>3, TableMoves DEF RunStates
<1>3. CASE Requeue(c) \/ Finish(c) \/ ParkCas(c)
  <2>1. x \in Runs
    BY <1>3, SchedAssumption DEF Requeue, Finish, ParkCas, TypeOK, Control, NoRunPcs
  <2>2. \/ state' = state
        \/ \E to \in RunStates : /\ state' = [state EXCEPT ![x] = to] /\ state[x] = "RUNNING"
                                 /\ <<state[x], to>> \in Transitions
    BY <1>3 DEF Requeue, Finish, ParkCas, TryCas, Transitions, RunStates
  <2> HIDE DEF x
  <2>3. CASE state' = state
    BY <2>3, TableKept
  <2>4. CASE state' # state
    BY <2>1, <2>2, <2>4, TableMoves
  <2> QED
    BY <2>3, <2>4
<1>4. CASE SelfWake(c)
  <2>1. x \in Runs
    BY <1>4, SchedAssumption DEF SelfWake, TypeOK, Control, NoRunPcs
  <2>2. /\ state' = [state EXCEPT ![x] = "READY"] /\ state[x] # "READY"
        /\ <<state[x], "READY">> \in Transitions
    BY <1>4 DEF SelfWake, Cas, Transitions
  <2> HIDE DEF x
  <2> QED
    BY <2>1, <2>2, TableMoves DEF RunStates
<1>5. CASE \/ Stopped(c) \/ NotStopped(c) \/ PopEmpty(c) \/ PopRun(c) \/ ClaimWork(c) \/ Sleep(c)
           \/ Timeout(c) \/ Defer(c) \/ RefuseTake(c) \/ CheckSum(c)
  BY <1>5, TableKept
  DEF Stopped, NotStopped, PopEmpty, PopRun, ClaimWork, Sleep, Timeout, Defer, RefuseTake,
      CheckSum, cells
<1>6. CASE \/ SealAgain(c) \/ SealDone(c) \/ SealPark(c) \/ ParkSleeps(c) \/ ParkWoken(c)
           \/ WakerWon(c) \/ StepAgain(c) \/ StepDone(c) \/ StepPark(c) \/ StepWake(c)
  BY <1>6, TableKept
  DEF SealAgain, SealDone, SealPark, Seal, ParkSleeps, ParkWoken, WakerWon, StepAgain, StepDone,
      StepPark, StepWake, cells
<1> QED
  BY <1>1, <1>2, <1>3, <1>4, <1>5, <1>6 DEF CarrierNext, Dispatch, StepEnds

LEMMA TableShared ==
    ASSUME TypeOK, Control, OneTicket, NEW p \in Procs, Shared(p)
    PROVE  TableAction
<1> DEFINE x == tgt[p]
<1>1. CASE WakeCas(p)
  <2>1. x \in Runs
    BY <1>1, SchedAssumption DEF WakeCas, TypeOK, Control, WakePcs, Procs
  <2>2. /\ state' = [state EXCEPT ![x] = "READY"] /\ state[x] # "READY"
        /\ <<state[x], "READY">> \in Transitions
    BY <1>1 DEF WakeCas, Cas, Transitions
  <2> HIDE DEF x
  <2> QED
    BY <2>1, <2>2, TableMoves DEF RunStates
<1>2. CASE Retract(p)
  <2>1. x \in Runs /\ Holds(p, x)
    BY <1>2, SchedAssumption DEF Retract, TypeOK, Control, WakePcs, Procs, Holds
  <2>2. RingPlaces(x) = {}
    BY <2>1, HeldIsOut
  <2>3. \/ state' = state
        \/ state' = [state EXCEPT ![x] = "PARKED"] /\ <<state[x], "PARKED">> \in Transitions
    BY <1>2 DEF Retract, TryCas, Transitions
  <2> HIDE DEF x
  <2> QED
    BY <2>1, <2>2, <2>3, TableMoves DEF RunStates
<1>3. CASE \/ SetToken(p) \/ NotParked(p) \/ WakePush(p) \/ RingRefuses(p) \/ TryAgain(p)
           \/ TakeBack(p) \/ Push(p) \/ PushRefused(p) \/ Bell(p)
  BY <1>3, TableKept
  DEF SetToken, NotParked, WakePush, RingRefuses, TryAgain, TakeBack, Push, PushRefused, Bell,
      vars, cells
<1> QED
  BY <1>1, <1>2, <1>3 DEF Shared, Wake

LEMMA TableStep == TypeOK /\ Control /\ OneTicket /\ [Next]_vars => TableAction
<1> SUFFICES ASSUME TypeOK, Control, OneTicket, [Next]_vars PROVE TableAction
  OBVIOUS
<1>1. CASE \E c \in Carriers : CarrierNext(c)
  BY <1>1, TableCarrier
<1>2. CASE \E p \in Procs : Shared(p)
  BY <1>2, TableShared
<1>3. CASE \/ \E e \in Edges : EdgeEnds(e) \/ \E r \in Watched : SeesParked(e, r)
           \/ Stop \/ UNCHANGED vars
  BY <1>3, TableKept DEF EdgeEnds, SeesParked, Stop, vars, cells
<1> QED
  BY <1>1, <1>2, <1>3 DEF Next, Terminated

\* The table of S1 is the only authority: no process makes another transition, and no run
\* that is in the ring leaves READY, so no waker takes back what a carrier will pop.
THEOREM Table ==
    ASSUME NoDuplicates(InitRing)
    PROVE  Spec => StateTable
<1>1. TypeOK /\ Control /\ OneTicket /\ [Next]_vars => [TableAction]_vars
  BY TableStep
<1> QED
  BY <1>1, Ticket, Typing, PTL DEF Spec, StateTable, TableAction

-----------------------------------------------------------------------------
(* What the runs check, whole *)

\* A run belongs to one: a carrier while it runs, a place of the ring or a hand while it is
\* READY, for any runs, carriers, programs and capacity, from a ring that names none twice.
THEOREM Held ==
    ASSUME NoDuplicates(InitRing)
    PROVE  Spec => []RunsHeld
<1>1. TypeOK /\ SingleOwner /\ OneTicket => RunsHeld
  BY DEF RunsHeld
<1> QED
  BY <1>1, Typing, OneOwner, Ticket, PTL

\* Nothing is lost between two carriers, whatever the initial ring: the step is sealed when
\* the run changes hands, its token is acted on, the doorbell of its push is heard.
THEOREM Handed == Spec => []HandedOver
<1>1. WholeAtHandoff /\ TokenNeverStrands /\ DoorbellHeard => HandedOver
  BY DEF HandedOver
<1> QED
  BY <1>1, Whole, TokenHeard, Doorbell, PTL

-----------------------------------------------------------------------------
(***************************************************************************)
(* The dispatcher implements RunPolicy.  A step either moves one run that  *)
(* is nowhere in the ring, or moves one run between the ring and a hand,   *)
(* or drops stale handles, or changes neither the states nor the ring.     *)
(***************************************************************************)

\* The phase the policy sees.
Phase == [r \in Runs |-> IF state[r] # "READY" THEN state[r]
                         ELSE IF RingPlaces(r) # {} THEN "queued" ELSE "hand"]

LEMMA PolicyMove ==
    ASSUME NEW x \in Runs, NEW from, NEW to,
           Phase[x] = from, Phase' = [Phase EXCEPT ![x] = to], ring' = ring
    PROVE  Policy!Move(x, from, to)
  BY DEF Policy!Move, Phase

\* A run outside the ring changes its state.
LEMMA StateMoves ==
    ASSUME TypeOK, NEW x \in Runs, NEW to \in RunStates, RingPlaces(x) = {},
           state' = [state EXCEPT ![x] = to], ring' = ring
    PROVE  /\ Phase' = [Phase EXCEPT ![x] = IF to = "READY" THEN "hand" ELSE to]
           /\ Phase[x] = IF state[x] = "READY" THEN "hand" ELSE state[x]
<1>1. \A r \in Runs : RingPlaces(r)' = RingPlaces(r)
  BY DEF RingPlaces
<1>2. \A r \in Runs : state'[r] = IF r = x THEN to ELSE state[r]
  BY DEF TypeOK
<1>3. \A r \in Runs : Phase'[r] = IF r = x THEN IF to = "READY" THEN "hand" ELSE to
                                  ELSE Phase[r]
  BY <1>1, <1>2 DEF Phase
<1>4. Phase[x] = IF state[x] = "READY" THEN "hand" ELSE state[x]
  BY DEF Phase
<1>5. DOMAIN Phase = Runs /\ Phase' = [r \in Runs |-> Phase'[r]] /\ Phase = [r \in Runs |-> Phase[r]]
  BY DEF Phase
<1> HIDE DEF Phase
<1>6. Phase' = [Phase EXCEPT ![x] = IF to = "READY" THEN "hand" ELSE to]
  BY <1>3, <1>5
<1> QED
  BY <1>4, <1>6

\* Who is not READY is not in the ring.
LEMMA UnreadyIsOut ==
    ASSUME OneTicket, NEW x \in Runs, state[x] # "READY"
    PROVE  RingPlaces(x) = {}
  BY DEF OneTicket

\* From a hand into the ring is the policy's Enqueue.
LEMMA EnqueueStep ==
    ASSUME TypeOK, OneTicket, NEW p \in Procs, NEW x \in Runs,
           Holds(p, x), RingPush(x), state' = state
    PROVE  Policy!Enqueue(x)
<1>1. RingPlaces(x) = {} /\ state[x] = "READY"
  BY HeldIsOut DEF OneTicket, Holders
<1>2. /\ ring' = Append(ring, x)
      /\ Len(ring') = Len(ring) + 1 /\ Len(ring) \in Nat
      /\ \A i \in 1..Len(ring) : ring'[i] = ring[i]
      /\ ring'[Len(ring) + 1] = x
  BY PushRing, LenProperties DEF TypeOK, Handles, RingPush
<1>3. \A r \in Runs : r # x => RingPlaces(r)' = RingPlaces(r)
  BY <1>2 DEF RingPlaces
<1>4. Len(ring) + 1 \in RingPlaces(x)'
  BY <1>2 DEF RingPlaces
<1>5. \A r \in Runs : Phase'[r] = IF r = x THEN "queued" ELSE Phase[r]
  BY <1>1, <1>3, <1>4 DEF Phase
<1>6. Phase' = [Phase EXCEPT ![x] = "queued"] /\ Phase[x] = "hand"
  BY <1>1, <1>5 DEF Phase
<1> QED
  BY <1>2, <1>6 DEF Policy!Enqueue, Phase

\* From the ring into a hand is the policy's Dequeue.
LEMMA DequeueStep ==
    ASSUME TypeOK, OneTicket, NEW x \in Runs, RingPop(x), state' = state
    PROVE  Policy!Dequeue
<1>1. PICK k \in 1..Len(ring) :
          /\ ring[k] = x
          /\ \A j \in 1..(k - 1) : ring[j] = Stale
          /\ Len(ring') = Len(ring) - k
          /\ \A i \in 1..(Len(ring) - k) : ring'[i] = ring[i + k]
          /\ ring' = SubSeq(ring, k + 1, Len(ring))
  BY PopRing DEF TypeOK, Handles
<1>2. Len(ring) \in Nat /\ Stale \notin Runs
  BY LenProperties, SchedAssumption DEF TypeOK
<1>3. k \in RingPlaces(x) /\ state[x] = "READY" /\ \A i \in RingPlaces(x) : i = k
  BY <1>1 DEF RingPlaces, OneTicket
<1>4. RingPlaces(x)' = {}
  <2> SUFFICES ASSUME NEW i \in RingPlaces(x)' PROVE FALSE
    OBVIOUS
  <2>1. i \in 1..(Len(ring) - k) /\ ring[i + k] = x
    BY <1>1, <1>2 DEF RingPlaces
  <2>2. i + k \in RingPlaces(x)
    BY <1>2, <2>1 DEF RingPlaces
  <2> QED
    BY <1>2, <1>3, <2>1, <2>2
<1>5. ASSUME NEW r \in Runs, r # x PROVE (RingPlaces(r)' = {}) <=> (RingPlaces(r) = {})
  <2>1. ASSUME NEW i \in RingPlaces(r) PROVE i - k \in RingPlaces(r)'
    <3>1. i \in 1..Len(ring) /\ ring[i] = r
      BY <2>1 DEF RingPlaces
    <3>2. i > k
      BY <1>1, <1>2, <1>5, <3>1
    <3>3. i - k \in 1..Len(ring') /\ ring'[i - k] = r
      BY <1>1, <1>2, <3>1, <3>2
    <3> QED
      BY <3>3 DEF RingPlaces
  <2>2. \A i \in RingPlaces(r)' : i + k \in RingPlaces(r)
    BY <1>1, <1>2 DEF RingPlaces
  <2> QED
    BY <2>1, <2>2
<1>6. \A r \in Runs : Phase'[r] = IF r = x THEN "hand" ELSE Phase[r]
  BY <1>3, <1>4, <1>5 DEF Phase
<1>7. Phase' = [Phase EXCEPT ![x] = "hand"]
  BY <1>6 DEF Phase
<1>8. Phase' = [Phase EXCEPT ![ring[k]] = "hand"]
  BY <1>1, <1>7
<1> QED
  BY <1>1, <1>8 DEF Policy!Dequeue, Phase

\* An empty pop drops the stale handles, and what changes neither words nor ring is a stutter.
LEMMA DropStep ==
    ASSUME TypeOK, Live = {}, ring' = <<>>, state' = state
    PROVE  Policy!DropStale
<1>1. \A i \in 1..Len(ring) : ring[i] = Stale
  BY DEF Live
<1>2. \A r \in Runs : RingPlaces(r) = {} /\ RingPlaces(r)' = {}
  BY <1>1, SchedAssumption DEF RingPlaces
<1>3. Phase' = Phase
  BY <1>2 DEF Phase
<1> QED
  BY <1>1, <1>3 DEF Policy!DropStale, Phase

LEMMA StutterStep ==
    ASSUME state' = state, ring' = ring
    PROVE  UNCHANGED Policy!policy
  BY DEF Policy!policy, RingPlaces

\* Each action of a carrier.
LEMMA PolicyCarrier ==
    ASSUME TypeOK, Control, OneTicket, NEW c \in Carriers, CarrierNext(c)
    PROVE  [Policy!PolicyNext]_(Policy!policy)
<1> c \in Procs
  BY DEF Procs
<1>1. CASE Take(c)
  <2>1. PICK x \in Runs : x = cur[c] /\ Holds(c, x)
    BY <1>1, SchedAssumption DEF Take, TypeOK, Control, NoRunPcs, Holds
  <2>2. RingPlaces(x) = {}
    BY <2>1, HeldIsOut
  <2>3. state' = [state EXCEPT ![x] = "RUNNING"] /\ state[x] = "READY" /\ ring' = ring
    BY <1>1, <2>1 DEF Take, Cas
  <2>4. Policy!Begin(x)
    BY <2>1, <2>2, <2>3, StateMoves, PolicyMove DEF Policy!Begin, RunStates
  <2> QED
    BY <2>1, <2>4 DEF Policy!PolicyNext
<1>2. CASE StepSpawn(c)
  <2>1. PICK t \in SpawnOf[cur[c]] : Cas(t, "FREE", "READY")
    BY <1>2 DEF StepSpawn
  <2>2. t \in Runs
    BY <1>2, <2>1, SchedAssumption DEF StepSpawn, TypeOK, Control, NoRunPcs
  <2>3. state' = [state EXCEPT ![t] = "READY"] /\ state[t] = "FREE" /\ ring' = ring
    BY <1>2, <2>1 DEF StepSpawn, Cas
  <2>4. Policy!Start(t)
    BY <2>2, <2>3, UnreadyIsOut, StateMoves, PolicyMove DEF Policy!Start, RunStates
  <2> QED
    BY <2>2, <2>4 DEF Policy!PolicyNext
<1>3. ASSUME NEW to \in {"READY", "TERMINAL", "PARKED"}, Requeue(c) \/ Finish(c) \/ ParkCas(c),
             TryCas(cur[c], "RUNNING", to)
      PROVE  [Policy!PolicyNext]_(Policy!policy)
  <2>1. PICK x \in Runs : x = cur[c]
    BY <1>3, SchedAssumption DEF Requeue, Finish, ParkCas, TypeOK, Control, NoRunPcs
  <2>2. ring' = ring /\ state' = IF state[x] = "RUNNING" THEN [state EXCEPT ![x] = to] ELSE state
    BY <1>3, <2>1 DEF TryCas, Requeue, Finish, ParkCas
  <2>3. CASE state[x] # "RUNNING"
    BY <2>2, <2>3, StutterStep
  <2>4. CASE state[x] = "RUNNING"
    <3>1. /\ Phase[x] = "RUNNING"
          /\ Phase' = [Phase EXCEPT ![x] = IF to = "READY" THEN "hand" ELSE to]
      BY <2>2, <2>4, UnreadyIsOut, StateMoves DEF RunStates
    <3>2. Policy!Yield(x) \/ Policy!End(x) \/ Policy!Park(x)
      BY <2>2, <3>1, PolicyMove DEF Policy!Yield, Policy!End, Policy!Park
    <3> QED
      BY <3>2 DEF Policy!PolicyNext
  <2> QED
    BY <2>3, <2>4
<1>4. CASE SelfWake(c)
  <2>1. PICK x \in Runs : x = cur[c]
    BY <1>4, SchedAssumption DEF SelfWake, TypeOK, Control, NoRunPcs
  <2>2. state' = [state EXCEPT ![x] = "READY"] /\ state[x] = "PARKED" /\ ring' = ring
    BY <1>4, <2>1 DEF SelfWake, Cas
  <2>3. Policy!WakeUp(x)
    BY <2>1, <2>2, UnreadyIsOut, StateMoves, PolicyMove DEF Policy!WakeUp, RunStates
  <2> QED
    BY <2>1, <2>3 DEF Policy!PolicyNext
<1>5. CASE PopRun(c)
  <2>1. PICK r \in Runs : RingPop(r)
    BY <1>5 DEF PopRun
  <2>2. Policy!Dequeue
    BY <1>5, <2>1, DequeueStep DEF PopRun, cells
  <2> QED
    BY <2>2 DEF Policy!PolicyNext
<1>6. CASE PopEmpty(c)
  BY <1>6, DropStep DEF PopEmpty, cells, Policy!PolicyNext
<1>7. CASE \/ Stopped(c) \/ NotStopped(c) \/ ClaimWork(c) \/ Sleep(c) \/ Timeout(c) \/ Defer(c)
           \/ RefuseTake(c) \/ CheckSum(c)
  <2>1. state' = state /\ ring' = ring
    BY <1>7 DEF Stopped, NotStopped, ClaimWork, Sleep, Timeout, Defer, RefuseTake, CheckSum, cells
  <2> QED
    BY <2>1, StutterStep
<1>8. CASE \/ SealAgain(c) \/ SealDone(c) \/ SealPark(c) \/ ParkSleeps(c) \/ ParkWoken(c)
           \/ WakerWon(c) \/ StepAgain(c) \/ StepDone(c) \/ StepPark(c) \/ StepWake(c)
  <2>1. state' = state /\ ring' = ring
    BY <1>8 DEF SealAgain, SealDone, SealPark, Seal, ParkSleeps, ParkWoken, WakerWon, StepAgain,
                StepDone, StepPark, StepWake, cells
  <2> QED
    BY <2>1, StutterStep
<1>9. CASE Requeue(c) \/ Finish(c) \/ ParkCas(c)
  <2>1. \/ Requeue(c) /\ TryCas(cur[c], "RUNNING", "READY")
        \/ Finish(c) /\ ~Requeue(c) /\ TryCas(cur[c], "RUNNING", "TERMINAL")
        \/ ParkCas(c) /\ ~Requeue(c) /\ ~Finish(c) /\ TryCas(cur[c], "RUNNING", "PARKED")
    BY <1>9 DEF Requeue, Finish, ParkCas
  <2> QED
    BY <1>3, <2>1
<1> QED
  BY <1>1, <1>2, <1>4, <1>5, <1>6, <1>7, <1>8, <1>9 DEF CarrierNext, Dispatch, StepEnds

\* Each action of a wake, of a push and of the doorbell.
LEMMA PolicyShared ==
    ASSUME TypeOK, Control, OneTicket, NEW p \in Procs, Shared(p)
    PROVE  [Policy!PolicyNext]_(Policy!policy)
<1>1. CASE WakeCas(p)
  <2>1. PICK x \in Runs : x = tgt[p]
    BY <1>1, SchedAssumption DEF WakeCas, TypeOK, Control, WakePcs, Procs
  <2>2. state' = [state EXCEPT ![x] = "READY"] /\ state[x] = "PARKED" /\ ring' = ring
    BY <1>1, <2>1 DEF WakeCas, Cas
  <2>3. Policy!WakeUp(x)
    BY <2>1, <2>2, UnreadyIsOut, StateMoves, PolicyMove DEF Policy!WakeUp, RunStates
  <2> QED
    BY <2>1, <2>3 DEF Policy!PolicyNext
<1>2. CASE Retract(p)
  <2>1. PICK x \in Runs : x = tgt[p] /\ Holds(p, x) /\ ring' = ring
    BY <1>2, SchedAssumption DEF Retract, TypeOK, Control, WakePcs, Procs, Holds
  <2>2. RingPlaces(x) = {} /\ state[x] = "READY"
    BY <2>1, HeldIsOut DEF OneTicket, Holders
  <2>3. state' = [state EXCEPT ![x] = "PARKED"]
    BY <1>2, <2>1, <2>2 DEF Retract, TryCas
  <2>4. Policy!Retreat(x)
    BY <2>1, <2>2, <2>3, StateMoves, PolicyMove DEF Policy!Retreat, RunStates
  <2> QED
    BY <2>1, <2>4 DEF Policy!PolicyNext
<1>3. CASE WakePush(p)
  <2>1. PICK x \in Runs : Holds(p, x) /\ RingPush(x) /\ state' = state
    BY <1>3, SchedAssumption DEF WakePush, TypeOK, Control, WakePcs, Procs, Holds, cells
  <2>2. Policy!Enqueue(x)
    BY <2>1, EnqueueStep
  <2> QED
    BY <2>1, <2>2 DEF Policy!PolicyNext
<1>4. CASE Push(p)
  <2>1. PICK x \in Runs : x = Item(p)
    BY <1>4, SchedAssumption DEF Push, Item, TypeOK, Control, WakePcs, NoRunPcs, Procs
  <2>2. Holds(p, x) /\ RingPush(x) /\ state' = state
    BY <1>4, <2>1 DEF Push, Holds, cells
  <2>3. Policy!Enqueue(x)
    BY <2>1, <2>2, EnqueueStep
  <2> QED
    BY <2>1, <2>3 DEF Policy!PolicyNext
<1>5. CASE \/ SetToken(p) \/ NotParked(p) \/ RingRefuses(p) \/ TryAgain(p) \/ TakeBack(p)
           \/ PushRefused(p) \/ Bell(p)
  <2>1. state' = state /\ ring' = ring
    BY <1>5 DEF SetToken, NotParked, RingRefuses, TryAgain, TakeBack, PushRefused, Bell, vars, cells
  <2> QED
    BY <2>1, StutterStep
<1> QED
  BY <1>1, <1>2, <1>3, <1>4, <1>5 DEF Shared, Wake

LEMMA PolicyStep == TypeOK /\ Control /\ OneTicket /\ [Next]_vars
                        => [Policy!PolicyNext]_(Policy!policy)
<1> SUFFICES ASSUME TypeOK, Control, OneTicket, [Next]_vars
             PROVE  [Policy!PolicyNext]_(Policy!policy)
  OBVIOUS
<1>1. CASE \E c \in Carriers : CarrierNext(c)
  BY <1>1, PolicyCarrier
<1>2. CASE \E p \in Procs : Shared(p)
  BY <1>2, PolicyShared
<1>3. CASE \/ \E e \in Edges : EdgeEnds(e) \/ \E r \in Watched : SeesParked(e, r)
           \/ Stop \/ UNCHANGED vars
  <2>1. state' = state /\ ring' = ring
    BY <1>3 DEF EdgeEnds, SeesParked, Stop, vars, cells
  <2> QED
    BY <2>1, StutterStep
<1> QED
  BY <1>1, <1>2, <1>3 DEF Next, Terminated

LEMMA PolicyStarts == NoDuplicates(InitRing) /\ Init => Policy!PolicyInit
<1> SUFFICES ASSUME NoDuplicates(InitRing), Init PROVE Policy!PolicyInit
  OBVIOUS
<1> USE SchedAssumption
<1>1. \A r \in Runs : /\ state[r] \in {"FREE", "READY"}
                      /\ (state[r] = "READY") <=> (RingPlaces(r) # {})
  BY DEF Init, RingPlaces, Enqueued
<1>2. Phase \in [Runs -> {"FREE", "queued"}]
  BY <1>1 DEF Phase
<1>3. \A r \in Runs : (Phase[r] = "queued") <=> \E i \in 1..Len(ring) : ring[i] = r
  BY <1>1 DEF Phase, RingPlaces
<1>4. ring \in Seq(Runs \cup {Stale}) /\ NoDuplicates(ring)
  BY DEF Init
<1> QED
  BY <1>2, <1>3, <1>4 DEF Policy!PolicyInit, Phase, NoDuplicates

\* Every step of every thread is a step of the policy or changes nothing it can see, for any
\* threads, programs and capacity, from a ring that names no run twice (S1, S3, S4).
THEOREM Implements ==
    ASSUME NoDuplicates(InitRing)
    PROVE  Spec => ImplementsPolicy
<1>1. Init => Policy!PolicyInit
  BY PolicyStarts
<1> QED
  BY <1>1, PolicyStep, Typing, Ticket, PTL DEF Spec, ImplementsPolicy, Policy!PolicySpec

\* The table and the queue, as the runs check them.
THEOREM Keeps ==
    ASSUME NoDuplicates(InitRing)
    PROVE  Spec => KeepsPolicy
  BY Table, Implements, PTL DEF KeepsPolicy
=============================================================================
