------------------------- MODULE MutatorSync_proofs -------------------------
(***************************************************************************)
(* Theorems about MutatorSync, for every finite set of threads and every   *)
(* bound on their stacks.                                                  *)
(***************************************************************************)
EXTENDS MutatorSync, FiniteSetTheorems, TLAPS

-----------------------------------------------------------------------------
(* Type correctness                                                        *)

LEMMA NotifiedType ==
    ASSUME pc \in [Threads -> Labels], NEW t \in Threads, NEW l \in Labels
    PROVE  NotifiedAllAt(t, l) \in [Threads -> Labels]
  BY DEF NotifiedAllAt, Labels

LEMMA TypeStep == TypeOK /\ [Next]_vars => TypeOK'
<1> SUFFICES ASSUME TypeOK, [Next]_vars PROVE TypeOK'
  OBVIOUS
<1> USE DEF TypeOK
<1>a. Returns \subseteq Labels
  BY DEF Returns, Labels
<1>b. 0 \in Stacks
  BY MaxStackAssumption DEF Stacks
<1>c. Cardinality(g_threads) \in Nat
  BY ThreadsAssumption, FS_Subset, FS_CardinalityType
<1>d. ASSUME NEW t \in Threads, NEW l \in Labels, GoTo(t, l)
      PROVE  pc' \in [Threads -> Labels]
  BY <1>d DEF GoTo
<1>1. ASSUME NEW t \in Threads, Step(t) PROVE TypeOK'
  <2>1. CASE CreateAllocator(t)
    BY <2>1, <1>d DEF CreateAllocator, Labels
  <2>2. CASE ScalanativeAlloc(t) \/ AllocCollects(t)
    BY <2>2, <1>d DEF ScalanativeAlloc, AllocCollects, Call, Labels, Returns
  <2>3. CASE AllocSucceeds(t) \/ AllocRetry(t)
    BY <2>3, <1>d DEF AllocSucceeds, AllocRetry, Move, Labels
  <2>4. CASE PollCheck(t) \/ PollResolved(t) \/ PollSleepAgain(t)
    BY <2>4, <1>a, <1>d DEF PollCheck, PollResolved, PollSleepAgain, Move, Labels
  <2>5. CASE PollPark(t)
    BY <2>5, NotifiedType DEF PollPark, ParkWith, Labels
  <2>6. CASE PollReturn(t)
    BY <2>6, <1>a, <1>d DEF PollReturn, Labels
  <2>7. CASE BeginWin(t) \/ BeginLose(t)
    BY <2>7, <1>d DEF BeginWin, BeginLose, Labels
  <2>8. CASE SnapshotOwn(t)
    BY <2>8, <1>d DEF SnapshotOwn, Labels
  <2>9. CASE BarrierPass(t) \/ BarrierSleep(t)
    BY <2>9, <1>d DEF BarrierPass, BarrierSleep, Move, Labels
  <2>10. CASE MarkRoots(t)
    BY <2>10, <1>b, <1>d DEF MarkRoots, Labels
  <2>11. CASE Recycle(t)
    BY <2>11, <1>c, <1>d DEF Recycle, Labels
  <2>12. CASE Reinit(t)
    BY <2>12, <1>d DEF Reinit, Labels
  <2>13. CASE ReinitCrash(t)
    BY <2>13, <1>d DEF ReinitCrash, Move, Labels
  <2>14. CASE EndCollection(t)
    BY <2>14, <1>a, NotifiedType DEF EndCollection
  <2> QED
    BY <1>1, <2>1, <2>2, <2>3, <2>4, <2>5, <2>6, <2>7, <2>8, <2>9, <2>10,
       <2>11, <2>12, <2>13, <2>14 DEF Step
<1>2. ASSUME NEW t \in Threads, Optional(t) PROVE TypeOK'
  <2>1. ASSUME NEW n \in Stacks, RegisterThread(t, n) PROVE TypeOK'
    BY <2>1, <1>b, <1>d DEF RegisterThread, Labels
  <2>2. ASSUME NEW n \in Stacks, RunMutator(t, n) PROVE TypeOK'
    BY <2>2 DEF RunMutator
  <2>3. CASE UnregisterThread(t)
    BY <2>3, <1>b, <1>d DEF UnregisterThread, Labels
  <2>4. CASE ScalanativeCollect(t)
    BY <2>4, <1>d DEF ScalanativeCollect, Call, Labels, Returns
  <2>5. CASE SpuriousWake(t)
    BY <2>5, <1>d DEF SpuriousWake, Move, Labels
  <2> QED
    BY <1>2, <2>1, <2>2, <2>3, <2>4, <2>5 DEF Optional
<1>3. CASE UNCHANGED vars
  BY <1>3 DEF vars
<1> QED
  BY <1>1, <1>2, <1>3 DEF Next

LEMMA TypeInit == Init => TypeOK
<1>1. 0 \in Stacks
  BY MaxStackAssumption DEF Stacks
<1> SUFFICES ASSUME Init PROVE TypeOK
  OBVIOUS
<1>2. pc \in [Threads -> Labels] /\ ret \in [Threads -> Returns]
  BY DEF Init, Labels, Returns
<1>3. /\ parkedStackSize \in [Threads -> Stacks]
      /\ stackSize \in [Threads -> Stacks]
      /\ scanned \in [Threads -> Stacks]
  BY <1>1 DEF Init
<1>4. cursors \in [Threads -> {"null", "stale", "primed"}]
  BY DEF Init
<1>5. parked \in [Threads -> BOOLEAN] /\ awaiting \in [Threads -> BOOLEAN]
  BY DEF Init
<1> QED
  BY <1>2, <1>3, <1>4, <1>5 DEF Init, TypeOK

\* Every variable keeps its type, whatever the host does.
THEOREM TypeCorrect == Spec => []TypeOK
<1> QED
  BY TypeInit, TypeStep, PTL DEF Spec

-----------------------------------------------------------------------------
(* What holds whatever the host does                                       *)

Registered == \A t \in Threads : t \in g_threads <=> pc[t] # "outside"

ParkedIffBlocked == \A t \in Threads : parked[t] <=> pc[t] \in Blocked

\* LoserWaits made inductive: the collection lost to is still running.
LoserHeld ==
    \A t \in Threads : awaiting[t] =>
        g_stwRequested /\ pc[t] \in {"check", "poll"} \cup Blocked

OpenInv ==
    /\ TypeOK
    /\ Registered
    /\ ParkedIffBlocked
    /\ SingleDriver
    /\ PollSleepJustified
    /\ LoserHeld

LEMMA OpenStep == OpenInv /\ [Next]_vars => OpenInv'
<1> SUFFICES ASSUME OpenInv, [Next]_vars PROVE OpenInv'
  OBVIOUS
<1>t. TypeOK'
  BY TypeStep DEF OpenInv
<1> USE DEF OpenInv, TypeOK, Registered, ParkedIffBlocked, SingleDriver,
            PollSleepJustified, LoserHeld, Blocked, Driving, Returns, Labels
<1>1. ASSUME NEW t \in Threads, Step(t) PROVE OpenInv'
  <2>1. CASE CreateAllocator(t)
    BY <1>t, <2>1 DEF CreateAllocator, GoTo
  <2>2. CASE ScalanativeAlloc(t) \/ AllocCollects(t)
    BY <1>t, <2>2 DEF ScalanativeAlloc, AllocCollects, Call, GoTo
  <2>3. CASE AllocSucceeds(t) \/ AllocRetry(t)
    BY <1>t, <2>3 DEF AllocSucceeds, AllocRetry, Move, GoTo
  <2>4. CASE PollCheck(t) \/ PollResolved(t) \/ PollSleepAgain(t)
    BY <1>t, <2>4 DEF PollCheck, PollResolved, PollSleepAgain, Move, GoTo
  <2>5. CASE PollPark(t)
    BY <1>t, <2>5 DEF PollPark, ParkWith, NotifiedAllAt
  <2>6. CASE PollReturn(t)
    BY <1>t, <2>6 DEF PollReturn, GoTo
  <2>7. CASE BeginWin(t)
    BY <1>t, <2>7 DEF BeginWin, GoTo
  <2>8. CASE BeginLose(t)
    BY <1>t, <2>8 DEF BeginLose, GoTo
  <2>9. CASE SnapshotOwn(t)
    BY <1>t, <2>9 DEF SnapshotOwn, GoTo
  <2>10. CASE BarrierPass(t) \/ BarrierSleep(t)
    BY <1>t, <2>10 DEF BarrierPass, BarrierSleep, Move, GoTo
  <2>11. CASE MarkRoots(t)
    BY <1>t, <2>11 DEF MarkRoots, GoTo
  <2>12. CASE Recycle(t)
    BY <1>t, <2>12 DEF Recycle, GoTo
  <2>13. CASE Reinit(t) \/ ReinitCrash(t)
    BY <1>t, <2>13 DEF Reinit, ReinitCrash, Move, GoTo
  <2>14. CASE EndCollection(t)
    BY <1>t, <2>14 DEF EndCollection, NotifiedAllAt
  <2> QED
    BY <1>1, <2>1, <2>2, <2>3, <2>4, <2>5, <2>6, <2>7, <2>8, <2>9, <2>10,
       <2>11, <2>12, <2>13, <2>14 DEF Step
<1>2. ASSUME NEW t \in Threads, Optional(t) PROVE OpenInv'
  <2>1. ASSUME NEW n \in Stacks, RegisterThread(t, n) PROVE OpenInv'
    BY <1>t, <2>1 DEF RegisterThread, GoTo
  <2>2. ASSUME NEW n \in Stacks, RunMutator(t, n) PROVE OpenInv'
    BY <1>t, <2>2 DEF RunMutator
  <2>3. CASE UnregisterThread(t)
    BY <1>t, <2>3 DEF UnregisterThread, GoTo
  <2>4. CASE ScalanativeCollect(t)
    BY <1>t, <2>4 DEF ScalanativeCollect, Call, GoTo
  <2>5. CASE SpuriousWake(t)
    BY <1>t, <2>5 DEF SpuriousWake, Move, GoTo
  <2> QED
    BY <1>2, <2>1, <2>2, <2>3, <2>4, <2>5 DEF Optional
<1>3. CASE UNCHANGED vars
  BY <1>t, <1>3 DEF vars
<1> QED
  BY <1>1, <1>2, <1>3 DEF Next

LEMMA OpenInit == Init => OpenInv
<1>1. Init => TypeOK
  BY TypeInit
<1> QED
  BY <1>1 DEF Init, OpenInv, Registered, ParkedIffBlocked, SingleDriver,
              PollSleepJustified, LoserHeld, Blocked, Driving

LEMMA OpenInvariant == Spec => []OpenInv
<1> QED
  BY OpenInit, OpenStep, PTL DEF Spec

\* The compare-exchange, the wait of Poll and the return of a loser are right
\* for every host, also one that registers threads during a collection.
THEOREM OpenHostSafety == Spec => [](SingleDriver /\ PollSleepJustified /\ LoserWaits)
<1>1. OpenInv => SingleDriver /\ PollSleepJustified /\ LoserWaits
  BY DEF OpenInv, LoserHeld, LoserWaits
<1> QED
  BY <1>1, OpenInvariant, PTL

-----------------------------------------------------------------------------
(* What holds when the host registers no thread past the barrier           *)

\* The barrier's predicate stays true after the collector passed it.
StillParked == \A c \in PastBarrier : AllOthersParked(c)

\* Whoever is blocked or drives has recorded its stack and not touched it.
Recorded ==
    \A t \in Threads :
        pc[t] \in Blocked \cup (Driving \ {"won"}) => parkedStackSize[t] = stackSize[t]

CursorsInOrder ==
    \A t \in Threads :
        /\ cursors[t] = "null" <=> pc[t] \in {"outside", "creating"}
        /\ cursors[t] = "stale" => \E c \in Threads : pc[c] = "reinit"

OutsideEmpty == \A t \in Threads : pc[t] = "outside" => stackSize[t] = 0

NoCrash == \A t \in Threads : pc[t] # "crashed"

ClosedInv ==
    /\ OpenInv
    /\ StillParked
    /\ Recorded
    /\ CursorsInOrder
    /\ OutsideEmpty
    /\ NoCrash
    /\ ReinitMatchesCount

LEMMA ClosedStep ==
    ASSUME ~LateRegistration, ClosedInv, [Next]_vars
    PROVE  ClosedInv'
<1>o. OpenInv'
  BY OpenStep DEF ClosedInv
<1> USE DEF ClosedInv, OpenInv, TypeOK, Registered, ParkedIffBlocked, SingleDriver,
            StillParked, AllOthersParked, Recorded, CursorsInOrder, OutsideEmpty,
            NoCrash, ReinitMatchesCount, PastBarrier, Collecting, Blocked,
            Driving, Returns, Labels
<1>1. ASSUME NEW t \in Threads, Step(t) PROVE ClosedInv'
  <2>1. CASE CreateAllocator(t)
    BY <1>o, <2>1 DEF CreateAllocator, GoTo
  <2>2. CASE ScalanativeAlloc(t) \/ AllocCollects(t)
    BY <1>o, <2>2 DEF ScalanativeAlloc, AllocCollects, Call, GoTo
  <2>3. CASE AllocSucceeds(t) \/ AllocRetry(t)
    BY <1>o, <2>3 DEF AllocSucceeds, AllocRetry, Move, GoTo
  <2>4. CASE PollCheck(t) \/ PollResolved(t) \/ PollSleepAgain(t)
    BY <1>o, <2>4 DEF PollCheck, PollResolved, PollSleepAgain, Move, GoTo
  <2>5. CASE PollPark(t)
    BY <1>o, <2>5 DEF PollPark, ParkWith, NotifiedAllAt
  <2>6. CASE PollReturn(t)
    BY <1>o, <2>6 DEF PollReturn, GoTo
  <2>7. CASE BeginWin(t)
    BY <1>o, <2>7 DEF BeginWin, GoTo
  <2>8. CASE BeginLose(t)
    BY <1>o, <2>8 DEF BeginLose, GoTo
  <2>9. CASE SnapshotOwn(t)
    BY <1>o, <2>9 DEF SnapshotOwn, GoTo
  <2>10. CASE BarrierPass(t) \/ BarrierSleep(t)
    BY <1>o, <2>10 DEF BarrierPass, BarrierSleep, Move, GoTo
  <2>11. CASE MarkRoots(t)
    BY <1>o, <2>11 DEF MarkRoots, GoTo
  <2>12. CASE Recycle(t)
    BY <1>o, <2>12 DEF Recycle, GoTo
  <2>13. CASE Reinit(t) \/ ReinitCrash(t)
    BY <1>o, <2>13 DEF Reinit, ReinitCrash, Move, GoTo
  <2>14. CASE EndCollection(t)
    BY <1>o, <2>14 DEF EndCollection, NotifiedAllAt
  <2> QED
    BY <1>1, <2>1, <2>2, <2>3, <2>4, <2>5, <2>6, <2>7, <2>8, <2>9, <2>10,
       <2>11, <2>12, <2>13, <2>14 DEF Step
<1>2. ASSUME NEW t \in Threads, Optional(t) PROVE ClosedInv'
  <2>1. ASSUME NEW n \in Stacks, RegisterThread(t, n) PROVE ClosedInv'
    BY <1>o, <2>1 DEF RegisterThread, GoTo
  <2>2. ASSUME NEW n \in Stacks, RunMutator(t, n) PROVE ClosedInv'
    BY <1>o, <2>2 DEF RunMutator
  <2>3. CASE UnregisterThread(t)
    BY <1>o, <2>3 DEF UnregisterThread, GoTo
  <2>4. CASE ScalanativeCollect(t)
    BY <1>o, <2>4 DEF ScalanativeCollect, Call, GoTo
  <2>5. CASE SpuriousWake(t)
    BY <1>o, <2>5 DEF SpuriousWake, Move, GoTo
  <2> QED
    BY <1>2, <2>1, <2>2, <2>3, <2>4, <2>5 DEF Optional
<1>3. CASE UNCHANGED vars
  BY <1>o, <1>3 DEF vars
<1> QED
  BY <1>1, <1>2, <1>3 DEF Next

LEMMA ClosedInvariant == ASSUME ~LateRegistration PROVE Spec => []ClosedInv
<1>1. Init => ClosedInv
  BY OpenInit DEF Init, ClosedInv, StillParked, Recorded, CursorsInOrder,
                  OutsideEmpty, NoCrash, ReinitMatchesCount, PastBarrier,
                  Collecting, Blocked, Driving
<1>2. ClosedInv /\ [Next]_vars => ClosedInv'
  BY ClosedStep
<1> QED
  BY <1>1, <1>2, PTL DEF Spec

\* The inductive invariant implies what Heap.c relies on.  For the cursors: a
\* stale cursor exists only while some thread is about to re-prime, and then
\* every other registered thread is blocked.
LEMMA ClosedInvSuffices ==
    ClosedInv => /\ WorldStopped /\ SnapshotsCurrent /\ NoStaleCursors
                 /\ ReinitMeetsNoNull /\ ReinitMatchesCount
<1> SUFFICES ASSUME ClosedInv
             PROVE  /\ WorldStopped /\ SnapshotsCurrent /\ NoStaleCursors
                    /\ ReinitMeetsNoNull /\ ReinitMatchesCount
  OBVIOUS
<1> USE DEF ClosedInv, OpenInv, TypeOK, Registered, ParkedIffBlocked, StillParked,
            AllOthersParked, PastBarrier
<1>1. WorldStopped
  BY DEF WorldStopped
<1>2. SnapshotsCurrent
  BY DEF SnapshotsCurrent, Recorded, Collecting, Driving
<1>3. NoStaleCursors
  <2> SUFFICES ASSUME NEW t \in Threads, pc[t] \in {"running", "alloc", "retry"}
               PROVE  cursors[t] = "primed"
    BY DEF NoStaleCursors
  <2>1. cursors[t] # "null"
    BY DEF CursorsInOrder
  <2>2. cursors[t] # "stale"
    <3> SUFFICES ASSUME cursors[t] = "stale" PROVE FALSE
      OBVIOUS
    <3>1. PICK c \in Threads : pc[c] = "reinit"
      BY DEF CursorsInOrder
    <3>2. c \in PastBarrier /\ t # c /\ t \in g_threads
      BY <3>1 DEF Collecting
    <3>3. pc[t] \in Blocked
      BY <1>1, <3>2 DEF WorldStopped
    <3> QED
      BY <3>3 DEF Blocked
  <2> QED
    BY <2>1, <2>2
<1>4. ReinitMeetsNoNull
  <2> SUFFICES ASSUME NEW c \in Threads
               PROVE  /\ pc[c] # "crashed"
                      /\ pc[c] = "reinit" => \A t \in g_threads : cursors[t] # "null"
    BY DEF ReinitMeetsNoNull
  <2>1. pc[c] # "crashed"
    BY DEF NoCrash
  <2>2. ASSUME pc[c] = "reinit", NEW t \in g_threads PROVE cursors[t] # "null"
    <3>1. t = c \/ pc[t] \in Blocked
      BY <1>1, <2>2 DEF WorldStopped, Collecting
    <3> QED
      BY <2>2, <3>1 DEF CursorsInOrder, Blocked
  <2> QED
    BY <2>1, <2>2
<1> QED
  BY <1>1, <1>2, <1>3, <1>4 DEF ClosedInv

\* If the host registers threads only while no collection is past the barrier,
\* BeginCollection returns into a stopped world.
THEOREM WorldIsStopped == ASSUME ~LateRegistration PROVE Spec => []WorldStopped
<1> QED
  BY ClosedInvariant, ClosedInvSuffices, PTL

\* For such a host the marker scans every root there is, no thread allocates
\* through cursors from before a sweep, and the visit that re-primes them finds
\* every allocator, as many as were counted.
THEOREM CollectionSeesEveryThread ==
    ASSUME ~LateRegistration
    PROVE  Spec => [](SnapshotsCurrent /\ NoStaleCursors
                      /\ ReinitMeetsNoNull /\ ReinitMatchesCount)
<1> QED
  BY ClosedInvariant, ClosedInvSuffices, PTL

-----------------------------------------------------------------------------
(* What holds when no thread exits during a request                        *)

\* No wake-up is lost on the way to the barrier, provided no thread leaves
\* while the collector waits for it.
THEOREM BarrierNeverSleepsInVain ==
    ASSUME ~ExitDuringRequest PROVE Spec => []BarrierSleepJustified
<1> DEFINE Inv == OpenInv /\ BarrierSleepJustified
<1>1. Init => Inv
  <2>1. Init => BarrierSleepJustified
    BY DEF Init, BarrierSleepJustified
  <2>2. Init => OpenInv
    BY OpenInit
  <2> QED
    BY <2>1, <2>2
<1>2. Inv /\ [Next]_vars => Inv'
  <2> SUFFICES ASSUME Inv, [Next]_vars PROVE BarrierSleepJustified'
    BY OpenStep
  <2> USE DEF OpenInv, TypeOK, Registered, ParkedIffBlocked, SingleDriver,
              BarrierSleepJustified, AllOthersParked, Blocked, Driving,
              Returns, Labels
  <2>1. ASSUME NEW t \in Threads, Step(t) PROVE BarrierSleepJustified'
    <3>1. CASE \/ CreateAllocator(t) \/ ScalanativeAlloc(t) \/ AllocCollects(t)
               \/ AllocSucceeds(t) \/ AllocRetry(t)
      BY <3>1 DEF CreateAllocator, ScalanativeAlloc, AllocCollects, AllocSucceeds,
                  AllocRetry, Call, Move, GoTo
    <3>2. CASE PollCheck(t) \/ PollResolved(t) \/ PollSleepAgain(t) \/ PollReturn(t)
      BY <3>2 DEF PollCheck, PollResolved, PollSleepAgain, PollReturn, Move, GoTo
    <3>3. CASE PollPark(t)
      BY <3>3 DEF PollPark, ParkWith, NotifiedAllAt
    <3>4. CASE BeginWin(t) \/ BeginLose(t) \/ SnapshotOwn(t)
      BY <3>4 DEF BeginWin, BeginLose, SnapshotOwn, GoTo
    <3>5. CASE BarrierPass(t) \/ BarrierSleep(t)
      BY <3>5 DEF BarrierPass, BarrierSleep, Move, GoTo
    <3>6. CASE \/ MarkRoots(t) \/ Recycle(t) \/ Reinit(t)
               \/ ReinitCrash(t) \/ EndCollection(t)
      BY <3>6 DEF MarkRoots, Recycle, Reinit, ReinitCrash, EndCollection, Move,
                  GoTo, NotifiedAllAt
    <3> QED
      BY <2>1, <3>1, <3>2, <3>3, <3>4, <3>5, <3>6 DEF Step
  <2>2. ASSUME NEW t \in Threads, Optional(t) PROVE BarrierSleepJustified'
    <3>1. ASSUME NEW n \in Stacks, RegisterThread(t, n) PROVE BarrierSleepJustified'
      BY <3>1 DEF RegisterThread, GoTo
    <3>2. ASSUME NEW n \in Stacks, RunMutator(t, n) PROVE BarrierSleepJustified'
      BY <3>2 DEF RunMutator
    <3>3. CASE UnregisterThread(t)
      BY <3>3 DEF UnregisterThread, GoTo
    <3>4. CASE ScalanativeCollect(t) \/ SpuriousWake(t)
      BY <3>4 DEF ScalanativeCollect, SpuriousWake, Call, Move, GoTo
    <3> QED
      BY <2>2, <3>1, <3>2, <3>3, <3>4 DEF Optional
  <2>3. CASE UNCHANGED vars
    BY <2>3 DEF vars
  <2> QED
    BY <2>1, <2>2, <2>3 DEF Next
<1>3. Inv => BarrierSleepJustified
  OBVIOUS
<1> QED
  BY <1>1, <1>2, <1>3, PTL DEF Spec

-----------------------------------------------------------------------------
(* Refinement of StopTheWorld                                              *)

Mode == [t \in Threads |-> AbstractMode(pc[t])]

LEMMA ModeAfterGoTo ==
    ASSUME TypeOK, NEW t \in Threads, NEW l, GoTo(t, l)
    PROVE  Mode' = [Mode EXCEPT ![t] = AbstractMode(l)]
  BY DEF TypeOK, GoTo, Mode

\* Notified sleepers look to the heap as they did before.
LEMMA ModeAfterNotify ==
    ASSUME TypeOK, NEW t \in Threads, NEW l, pc' = NotifiedAllAt(t, l)
    PROVE  Mode' = [Mode EXCEPT ![t] = AbstractMode(l)]
<1>1. ASSUME NEW u \in Threads, u # t
      PROVE  AbstractMode(NotifiedAllAt(t, l)[u]) = AbstractMode(pc[u])
  BY <1>1 DEF NotifiedAllAt, AbstractMode, Blocked
<1> QED
  BY <1>1 DEF TypeOK, Mode, NotifiedAllAt

LEMMA CollectorsArePastBarrier ==
    ASSUME TypeOK
    PROVE  {t \in Threads : Mode[t] \in {"collecting", "scanned"}} = PastBarrier
  BY DEF TypeOK, Mode, AbstractMode, PastBarrier, Collecting, Blocked, Labels

LEMMA RefinementStep ==
    ASSUME ~LateRegistration, ClosedInv, [Next]_vars
    PROVE  [STW!Next]_(STW!vars)
<1> USE DEF STW!Become, STW!Collectors
<1>y. TypeOK
  BY DEF ClosedInv, OpenInv
<1>c. {t \in Threads : Mode[t] \in {"collecting", "scanned"}} = PastBarrier
  BY <1>y, CollectorsArePastBarrier
<1>s. ASSUME Mode' = Mode, UNCHANGED <<stackSize, scanned>>
      PROVE  UNCHANGED STW!vars
  BY <1>s DEF STW!vars, Mode
<1>g. ASSUME NEW t \in Threads, NEW l, GoTo(t, l), UNCHANGED <<stackSize, scanned>>,
             AbstractMode(l) = AbstractMode(pc[t])
      PROVE  UNCHANGED STW!vars
  BY <1>g, <1>s, <1>y, ModeAfterGoTo DEF Mode
<1>m. \A r \in Returns : AbstractMode(r) = "mutating"
  BY DEF Returns, AbstractMode, Blocked
<1>q. ASSUME ~g_stwRequested PROVE PastBarrier = {}
  BY <1>q DEF ClosedInv, OpenInv, SingleDriver, PastBarrier, Collecting, Driving
<1>1. ASSUME NEW t \in Threads, Step(t) PROVE [STW!Next]_(STW!vars)
  <2>r. ret[t] \in Returns
    BY <1>y DEF TypeOK
  <2>1. CASE CreateAllocator(t)
    BY <2>1, <1>g DEF CreateAllocator, AbstractMode, Blocked
  <2>2. CASE ScalanativeAlloc(t) \/ AllocCollects(t)
    BY <2>2, <1>g DEF ScalanativeAlloc, AllocCollects, Call, AbstractMode, Blocked
  <2>3. CASE AllocSucceeds(t) \/ AllocRetry(t)
    BY <2>3, <1>g DEF AllocSucceeds, AllocRetry, Move, AbstractMode, Blocked
  <2>4. CASE PollCheck(t) \/ PollResolved(t)
    <3>1. \E l \in Returns \cup {"poll"} : Move(t, l)
      BY <2>4, <2>r DEF PollCheck, PollResolved
    <3>2. pc[t] \in {"check", "poll"}
      BY <2>4 DEF PollCheck, PollResolved
    <3> QED
      BY <3>1, <3>2, <1>g, <1>m DEF Move, AbstractMode, Blocked
  <2>5. CASE PollSleepAgain(t)
    BY <2>5, <1>g DEF PollSleepAgain, Move, AbstractMode, Blocked
  <2>6. CASE PollPark(t)
    <3>1. Mode' = [Mode EXCEPT ![t] = "stopped"]
      BY <2>6, <1>y, ModeAfterNotify DEF PollPark, ParkWith, AbstractMode, Blocked
    <3>2. Mode[t] = "mutating"
      BY <2>6 DEF PollPark, ParkWith, Mode, AbstractMode, Blocked
    <3>3. STW!Stop(t)
      BY <2>6, <3>1, <3>2 DEF PollPark, ParkWith, STW!Stop, Mode
    <3> QED
      BY <3>3 DEF STW!Next
  <2>7. CASE PollReturn(t)
    <3>1. Mode' = [Mode EXCEPT ![t] = "mutating"]
      BY <2>7, <2>r, <1>m, <1>y, ModeAfterGoTo DEF PollReturn
    <3>2. Mode[t] = "stopped" /\ PastBarrier = {}
      BY <2>7, <1>q DEF PollReturn, Mode, AbstractMode, Blocked
    <3>3. STW!Resume(t)
      BY <2>7, <1>c, <3>1, <3>2 DEF PollReturn, STW!Resume, Mode
    <3> QED
      BY <3>3 DEF STW!Next
  <2>8. CASE BeginWin(t) \/ BeginLose(t) \/ SnapshotOwn(t)
    BY <2>8, <1>g DEF BeginWin, BeginLose, SnapshotOwn, AbstractMode, Blocked
  <2>9. CASE BarrierPass(t)
    <3>1. Mode' = [Mode EXCEPT ![t] = "collecting"]
      BY <2>9, <1>y, ModeAfterGoTo DEF BarrierPass, Move, AbstractMode, Blocked
    <3>2. Mode[t] = "mutating"
      BY <2>9 DEF BarrierPass, Mode, AbstractMode, Blocked
    <3>3. ASSUME NEW u \in Threads \ {t} PROVE Mode[u] \in {"absent", "stopped"}
      BY <2>9 DEF BarrierPass, AllOthersParked, ClosedInv, OpenInv, Registered,
                  ParkedIffBlocked, Mode, AbstractMode, Blocked
    <3>4. STW!StartCollection(t)
      BY <2>9, <3>1, <3>2, <3>3
         DEF BarrierPass, Move, STW!StartCollection, Mode
    <3> QED
      BY <3>4 DEF STW!Next
  <2>10. CASE BarrierSleep(t)
    BY <2>10, <1>g DEF BarrierSleep, Move, AbstractMode, Blocked
  <2>11. CASE MarkRoots(t)
    <3>1. Mode' = [Mode EXCEPT ![t] = "scanned"]
      BY <2>11, <1>y, ModeAfterGoTo DEF MarkRoots, AbstractMode, Blocked
    <3>2. Mode[t] = "collecting"
      BY <2>11 DEF MarkRoots, Mode, AbstractMode, Blocked
    <3>3. \A u \in g_threads : parkedStackSize[u] = stackSize[u]
      BY <2>11, ClosedInvSuffices
         DEF MarkRoots, SnapshotsCurrent, PastBarrier, Collecting
    <3>4. \A u \in Threads \ g_threads : stackSize[u] = 0
      BY DEF ClosedInv, OpenInv, Registered, OutsideEmpty
    <3>5. scanned' = stackSize
      BY <2>11, <3>3, <3>4, <1>y DEF MarkRoots, TypeOK
    <3>6. STW!Scan(t)
      BY <2>11, <3>1, <3>2, <3>5 DEF MarkRoots, STW!Scan, Mode
    <3> QED
      BY <3>6 DEF STW!Next
  <2>12. CASE Recycle(t) \/ Reinit(t) \/ ReinitCrash(t)
    BY <2>12, <1>g DEF Recycle, Reinit, ReinitCrash, Move, AbstractMode, Blocked
  <2>13. CASE EndCollection(t)
    <3>1. Mode' = [Mode EXCEPT ![t] = "mutating"]
      BY <2>13, <2>r, <1>m, <1>y, ModeAfterNotify DEF EndCollection
    <3>2. Mode[t] = "scanned"
      BY <2>13 DEF EndCollection, Mode, AbstractMode, Blocked
    <3>3. STW!Finish(t)
      BY <2>13, <3>1, <3>2 DEF EndCollection, STW!Finish, Mode
    <3> QED
      BY <3>3 DEF STW!Next
  <2> QED
    BY <1>1, <2>1, <2>2, <2>3, <2>4, <2>5, <2>6, <2>7, <2>8, <2>9, <2>10,
       <2>11, <2>12, <2>13 DEF Step
<1>2. ASSUME NEW t \in Threads, Optional(t) PROVE [STW!Next]_(STW!vars)
  <2>1. ASSUME NEW n \in Stacks, RegisterThread(t, n) PROVE [STW!Next]_(STW!vars)
    <3>1. Mode' = [Mode EXCEPT ![t] = "mutating"]
      BY <2>1, <1>y, ModeAfterGoTo DEF RegisterThread, AbstractMode, Blocked
    <3>2. Mode[t] = "absent" /\ PastBarrier = {}
      BY <2>1 DEF RegisterThread, Mode, AbstractMode, Blocked
    <3>3. STW!Join(t, n)
      BY <2>1, <1>c, <3>1, <3>2 DEF RegisterThread, STW!Join, Mode
    <3> QED
      BY <3>3 DEF STW!Next, Stacks
  <2>2. ASSUME NEW n \in Stacks, RunMutator(t, n) PROVE [STW!Next]_(STW!vars)
    <3>1. Mode[t] = "mutating" /\ Mode' = Mode
      BY <2>2 DEF RunMutator, Mode, AbstractMode, Blocked
    <3>2. STW!Mutate(t, n)
      BY <2>2, <3>1 DEF RunMutator, STW!Mutate, Mode
    <3> QED
      BY <3>2 DEF STW!Next, Stacks
  <2>3. CASE UnregisterThread(t)
    <3>1. Mode' = [Mode EXCEPT ![t] = "absent"]
      BY <2>3, <1>y, ModeAfterGoTo DEF UnregisterThread, AbstractMode, Blocked
    <3>2. Mode[t] = "mutating"
      BY <2>3 DEF UnregisterThread, Mode, AbstractMode, Blocked
    <3>3. STW!Leave(t)
      BY <2>3, <3>1, <3>2 DEF UnregisterThread, STW!Leave, Mode
    <3> QED
      BY <3>3 DEF STW!Next
  <2>4. CASE ScalanativeCollect(t)
    BY <2>4, <1>g DEF ScalanativeCollect, Call, AbstractMode, Blocked
  <2>5. CASE SpuriousWake(t)
    BY <2>5, <1>g DEF SpuriousWake, Move, AbstractMode, Blocked
  <2> QED
    BY <1>2, <2>1, <2>2, <2>3, <2>4, <2>5 DEF Optional
<1>3. CASE UNCHANGED vars
  BY <1>3, <1>s DEF vars, Mode
<1> QED
  BY <1>1, <1>2, <1>3 DEF Next

\* For a host that registers no thread past the barrier, the lock, the flag and
\* the condition variable implement the abstract stop-the-world collection.
THEOREM Refinement == ASSUME ~LateRegistration PROVE Spec => ImplementsStopTheWorld
<1>1. Init => STW!Init
  BY DEF Init, STW!Init, AbstractMode, Blocked
<1>2. ClosedInv /\ [Next]_vars => [STW!Next]_(STW!vars)
  BY RefinementStep
<1> QED
  BY <1>1, <1>2, ClosedInvariant, PTL DEF Spec, ImplementsStopTheWorld, STW!Spec

=============================================================================
