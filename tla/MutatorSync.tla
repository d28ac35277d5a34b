----------------------------- MODULE MutatorSync -----------------------------
(***************************************************************************)
(* The stop-the-world protocol of concurrent/MutatorSync.cpp together with *)
(* the callers that make it a protocol: the safepoint poll at the head of  *)
(* scalanative_alloc (ImmixGC.c), Heap_Collect and the two thread visits   *)
(* of Heap_Recycle and Marker_MarkRoots (Heap.c, Marker.c).                *)
(*                                                                         *)
(* Grain of atomicity.  A critical section of g_mutex is one step: only    *)
(* g_stwRequested is also accessed outside the mutex, and every section    *)
(* touches it in one place only.  Every access of g_stwRequested outside   *)
(* the mutex (the load at the head of Poll, the compare-exchange) is a     *)
(* step of its own, and so is the unlocked write of the winner's own       *)
(* parkedStackSize.  Waiting on g_cv is two states: asleep (pollWait,      *)
(* barrierWait) and notified but not yet holding the mutex again           *)
(* (pollWoken, barrierWoken).                                              *)
(***************************************************************************)
EXTENDS Naturals, FiniteSets

CONSTANTS
    Threads,            \* the OS threads that may ever become mutators
    MaxStack,           \* bound on the live Val entries of a thread
    LateRegistration,   \* the host registers threads during a collection
    ExitDuringRequest   \* the host lets threads exit during a request

ASSUME ThreadsAssumption == IsFiniteSet(Threads)
ASSUME MaxStackAssumption == MaxStack \in Nat
ASSUME HostAssumption ==
    /\ LateRegistration \in BOOLEAN
    /\ ExitDuringRequest \in BOOLEAN

VARIABLES
    g_threads,          \* the registered threads
    g_stwRequested,     \* the atomic flag
    pc,                 \* where each thread is
    ret,                \* where Poll or Heap_Collect returns to
    parked,             \* MutatorThread.parked
    parkedStackSize,    \* MutatorThread.parkedStackSize
    stackSize,          \* ValStack_CurrentSize() of each thread, now
    cursors,            \* MutatorThread.allocator: NULL, or its cursors
    scanned,            \* entries of each stack the last root scan visited
    threadCount,        \* Heap_Recycle's local threadCount
    awaiting            \* history: lost the CAS, that collection still runs

vars == <<g_threads, g_stwRequested, pc, ret, parked, parkedStackSize,
          stackSize, cursors, scanned, threadCount, awaiting>>

Stacks == 0 .. MaxStack

Labels == {
    "outside",        \* not a mutator
    "creating",       \* registered, allocator still NULL
    "running",        \* managed code between two allocations
    "check",          \* Poll: before the unlocked load
    "poll",           \* Poll: before taking the mutex
    "pollWait",       \* Poll: asleep on g_cv
    "pollWoken",      \* Poll: notified, mutex not held yet
    "alloc",          \* first attempt at the allocation
    "begin",          \* BeginCollection: before the compare-exchange
    "won",            \* BeginCollection: before recording its own stack
    "barrier",        \* BeginCollection: before taking the mutex
    "barrierWait",    \* BeginCollection: asleep on g_cv
    "barrierWoken",   \* BeginCollection: notified, mutex not held yet
    "mark",           \* past the barrier: Marker_MarkRoots
    "recycle",        \* Heap_Recycle: the sweep
    "reinit",         \* Heap_Recycle: Heap_reinitThreadCursors
    "end",            \* EndCollection
    "retry",          \* the allocation attempt after Heap_Collect
    "crashed"}        \* NULL allocator dereferenced by the reinit visit

Returns == {"running", "alloc", "retry"}

\* Labels of the thread whose compare-exchange succeeded, until EndCollection.
Driving == {"won", "barrier", "barrierWait", "barrierWoken",
            "mark", "recycle", "reinit", "end", "crashed"}
\* Labels of that thread once BeginCollection has returned true.
Collecting == {"mark", "recycle", "reinit", "end", "crashed"}
\* Labels at which a thread is blocked inside g_cv.wait of Poll.
Blocked == {"pollWait", "pollWoken"}

PastBarrier == {t \in Threads : pc[t] \in Collecting}

TypeOK ==
    /\ g_threads \subseteq Threads
    /\ g_stwRequested \in BOOLEAN
    /\ pc \in [Threads -> Labels]
    /\ ret \in [Threads -> Returns]
    /\ parked \in [Threads -> BOOLEAN]
    /\ parkedStackSize \in [Threads -> Stacks]
    /\ stackSize \in [Threads -> Stacks]
    /\ cursors \in [Threads -> {"null", "stale", "primed"}]
    /\ scanned \in [Threads -> Stacks]
    /\ threadCount \in Nat
    /\ awaiting \in [Threads -> BOOLEAN]

Init ==
    /\ g_threads = {}
    /\ g_stwRequested = FALSE
    /\ pc = [t \in Threads |-> "outside"]
    /\ ret = [t \in Threads |-> "running"]
    /\ parked = [t \in Threads |-> FALSE]
    /\ parkedStackSize = [t \in Threads |-> 0]
    /\ stackSize = [t \in Threads |-> 0]
    /\ cursors = [t \in Threads |-> "null"]
    /\ scanned = [t \in Threads |-> 0]
    /\ threadCount = 0
    /\ awaiting = [t \in Threads |-> FALSE]

GoTo(t, l) == pc' = [pc EXCEPT ![t] = l]

\* The control states after g_cv.notify_all() by t, which continues at l.
NotifiedAllAt(t, l) ==
    [u \in Threads |->
        IF u = t THEN l
        ELSE IF pc[u] = "pollWait" THEN "pollWoken"
        ELSE IF pc[u] = "barrierWait" THEN "barrierWoken"
        ELSE pc[u]]

-----------------------------------------------------------------------------
(* Registration                                                            *)

\* Variant: the new thread is registered as if it were already parked.
RegisterThreadAsParked(t, n) ==
    /\ pc[t] = "outside"
    /\ LateRegistration \/ PastBarrier = {}
    /\ g_threads' = g_threads \cup {t}
    /\ parked' = [parked EXCEPT ![t] = TRUE]
    /\ parkedStackSize' = [parkedStackSize EXCEPT ![t] = 0]
    /\ cursors' = [cursors EXCEPT ![t] = "null"]
    /\ stackSize' = [stackSize EXCEPT ![t] = n]
    /\ GoTo(t, "creating")
    /\ UNCHANGED <<g_stwRequested, ret, scanned, threadCount, awaiting>>

\* MutatorSync_RegisterThread, reached from ImmixGC_RegisterThread.  It does
\* not look at g_stwRequested; only the host can keep it out of a collection.
RegisterThread(t, n) ==
    /\ pc[t] = "outside"
    /\ LateRegistration \/ PastBarrier = {}
    /\ g_threads' = g_threads \cup {t}
    /\ parked' = [parked EXCEPT ![t] = FALSE]
    /\ parkedStackSize' = [parkedStackSize EXCEPT ![t] = 0]
    /\ cursors' = [cursors EXCEPT ![t] = "null"]
    /\ stackSize' = [stackSize EXCEPT ![t] = n]
    /\ GoTo(t, "creating")
    /\ UNCHANGED <<g_stwRequested, ret, scanned, threadCount, awaiting>>

\* The rest of ImmixGC_RegisterThread: ThreadLocalAllocator_Create primes the
\* cursors from the global pool.
CreateAllocator(t) ==
    /\ pc[t] = "creating"
    /\ cursors' = [cursors EXCEPT ![t] = "primed"]
    /\ GoTo(t, "running")
    /\ UNCHANGED <<g_threads, g_stwRequested, ret, parked, parkedStackSize,
                   stackSize, scanned, threadCount, awaiting>>

\* MutatorSync_UnregisterThread: erases the thread and notifies nobody.
UnregisterThread(t) ==
    /\ pc[t] = "running"
    /\ ExitDuringRequest \/ ~g_stwRequested
    /\ g_threads' = g_threads \ {t}
    /\ cursors' = [cursors EXCEPT ![t] = "null"]
    /\ stackSize' = [stackSize EXCEPT ![t] = 0]
    /\ GoTo(t, "outside")
    /\ UNCHANGED <<g_stwRequested, ret, parked, parkedStackSize, scanned,
                   threadCount, awaiting>>

-----------------------------------------------------------------------------
(* The mutator                                                             *)

\* Managed code between two calls into the collector pushes and pops Vals.
RunMutator(t, n) ==
    /\ pc[t] = "running"
    /\ n # stackSize[t]
    /\ stackSize' = [stackSize EXCEPT ![t] = n]
    /\ UNCHANGED <<g_threads, g_stwRequested, pc, ret, parked, parkedStackSize,
                   cursors, scanned, threadCount, awaiting>>

\* The control state is all that changes.
Move(t, l) ==
    /\ GoTo(t, l)
    /\ UNCHANGED <<g_threads, g_stwRequested, ret, parked, parkedStackSize,
                   stackSize, cursors, scanned, threadCount, awaiting>>

Call(t, l, r) ==
    /\ GoTo(t, l)
    /\ ret' = [ret EXCEPT ![t] = r]
    /\ UNCHANGED <<g_threads, g_stwRequested, parked, parkedStackSize,
                   stackSize, cursors, scanned, threadCount, awaiting>>

\* scalanative_alloc, _small and _large all begin with the safepoint poll.
ScalanativeAlloc(t) == pc[t] = "running" /\ Call(t, "check", "alloc")

\* The first attempt succeeds, or finds the heap full and asks for a
\* collection; the caller then retries whatever Heap_Collect did.
AllocSucceeds(t) == pc[t] = "alloc" /\ Move(t, "running")
AllocCollects(t) == pc[t] = "alloc" /\ Call(t, "begin", "retry")
AllocRetry(t)    == pc[t] = "retry" /\ Move(t, "running")

\* scalanative_collect calls Heap_Collect without a poll.
ScalanativeCollect(t) == pc[t] = "running" /\ Call(t, "begin", "running")

-----------------------------------------------------------------------------
(* MutatorSync_Poll                                                        *)

PollCheck(t) ==
    /\ pc[t] = "check"
    /\ Move(t, IF g_stwRequested THEN "poll" ELSE ret[t])

\* Under the mutex the flag is read again: the request may be over.
PollResolved(t) ==
    /\ pc[t] = "poll" /\ ~g_stwRequested
    /\ Move(t, ret[t])

\* What every parking has in common: the request read as `requested`, the
\* size recorded as n, the control states that follow as next.
ParkWith(t, requested, n, next) ==
    /\ pc[t] = "poll" /\ requested
    /\ parkedStackSize' = [parkedStackSize EXCEPT ![t] = n]
    /\ parked' = [parked EXCEPT ![t] = TRUE]
    /\ pc' = next
    /\ UNCHANGED <<g_threads, g_stwRequested, ret, stackSize, cursors,
                   scanned, threadCount, awaiting>>

\* Variants: one entry too many is recorded; none is; the flag is not read
\* again under the mutex; nobody is notified.
PollParkOffByOne(t) ==
    ParkWith(t, g_stwRequested, stackSize[t] + 1, NotifiedAllAt(t, "pollWait"))
PollParkUnrecorded(t) ==
    ParkWith(t, g_stwRequested, parkedStackSize[t], NotifiedAllAt(t, "pollWait"))
PollParkUnchecked(t) ==
    ParkWith(t, TRUE, stackSize[t], NotifiedAllAt(t, "pollWait"))
PollParkSilent(t) ==
    ParkWith(t, g_stwRequested, stackSize[t], [pc EXCEPT ![t] = "pollWait"])

PollPark(t) ==
    ParkWith(t, g_stwRequested, stackSize[t], NotifiedAllAt(t, "pollWait"))

\* Back under the mutex: sleep again if a newer request is already pending,
\* parked all the while, else clear parked and return.
PollSleepAgain(t) ==
    /\ pc[t] = "pollWoken" /\ g_stwRequested
    /\ Move(t, "pollWait")

\* Variant: the wait is not in a loop, whoever is woken returns.
PollReturnUnlooped(t) ==
    /\ pc[t] = "pollWoken"
    /\ parked' = [parked EXCEPT ![t] = FALSE]
    /\ GoTo(t, ret[t])
    /\ UNCHANGED <<g_threads, g_stwRequested, ret, parkedStackSize, stackSize,
                   cursors, scanned, threadCount, awaiting>>

PollReturn(t) ==
    /\ pc[t] = "pollWoken" /\ ~g_stwRequested
    /\ parked' = [parked EXCEPT ![t] = FALSE]
    /\ GoTo(t, ret[t])
    /\ UNCHANGED <<g_threads, g_stwRequested, ret, parkedStackSize, stackSize,
                   cursors, scanned, threadCount, awaiting>>

\* A condition variable may wake a sleeper for no reason.
SpuriousWake(t) ==
    \/ pc[t] = "pollWait"    /\ Move(t, "pollWoken")
    \/ pc[t] = "barrierWait" /\ Move(t, "barrierWoken")

-----------------------------------------------------------------------------
(* Heap_Collect                                                            *)

\* Variant: a store instead of a compare-exchange, every caller wins.
BeginWinUnconditional(t) ==
    /\ pc[t] = "begin"
    /\ g_stwRequested' = TRUE
    /\ GoTo(t, "won")
    /\ UNCHANGED <<g_threads, ret, parked, parkedStackSize, stackSize, cursors,
                   scanned, threadCount, awaiting>>

\* The compare-exchange: one caller wins, the others park in Poll.
BeginWin(t) ==
    /\ pc[t] = "begin" /\ ~g_stwRequested
    /\ g_stwRequested' = TRUE
    /\ GoTo(t, "won")
    /\ UNCHANGED <<g_threads, ret, parked, parkedStackSize, stackSize, cursors,
                   scanned, threadCount, awaiting>>

\* Variant: the loser returns false at once instead of parking.
BeginLoseAtOnce(t) ==
    /\ pc[t] = "begin" /\ g_stwRequested
    /\ awaiting' = [awaiting EXCEPT ![t] = TRUE]
    /\ GoTo(t, ret[t])
    /\ UNCHANGED <<g_threads, g_stwRequested, ret, parked, parkedStackSize,
                   stackSize, cursors, scanned, threadCount>>

BeginLose(t) ==
    /\ pc[t] = "begin" /\ g_stwRequested
    /\ awaiting' = [awaiting EXCEPT ![t] = TRUE]
    /\ GoTo(t, "check")
    /\ UNCHANGED <<g_threads, g_stwRequested, ret, parked, parkedStackSize,
                   stackSize, cursors, scanned, threadCount>>

\* Variant: the collector's own stack is taken for recorded already.
SnapshotOwnSkipped(t) == pc[t] = "won" /\ Move(t, "barrier")

\* The winner records its own stack before taking the mutex.
SnapshotOwn(t) ==
    /\ pc[t] = "won"
    /\ parkedStackSize' = [parkedStackSize EXCEPT ![t] = stackSize[t]]
    /\ GoTo(t, "barrier")
    /\ UNCHANGED <<g_threads, g_stwRequested, ret, parked, stackSize, cursors,
                   scanned, threadCount, awaiting>>

\* Variant: the predicate forgets to leave out the collector itself.
AllParked(t) == \A u \in g_threads : parked[u]

\* The predicate of the winner's wait.
AllOthersParked(t) == \A u \in g_threads : u # t => parked[u]

BarrierPass(t) ==
    /\ pc[t] \in {"barrier", "barrierWoken"} /\ AllOthersParked(t)
    /\ Move(t, "mark")

BarrierSleep(t) ==
    /\ pc[t] \in {"barrier", "barrierWoken"} /\ ~AllOthersParked(t)
    /\ Move(t, "barrierWait")

\* Marker_MarkRoots visits stackBottom[0 .. parkedStackSize) of every
\* registered thread, the collector included.
MarkRoots(t) ==
    /\ pc[t] = "mark"
    /\ scanned' = [u \in Threads |->
                      IF u \in g_threads THEN parkedStackSize[u] ELSE 0]
    /\ GoTo(t, "recycle")
    /\ UNCHANGED <<g_threads, g_stwRequested, ret, parked, parkedStackSize,
                   stackSize, cursors, threadCount, awaiting>>

\* Variant: only the parked threads are counted.
RecycleCountingParked(t) ==
    /\ pc[t] = "recycle"
    /\ cursors' = [u \in Threads |->
                      IF cursors[u] = "null" THEN "null" ELSE "stale"]
    /\ threadCount' = Cardinality({u \in g_threads : parked[u]})
    /\ GoTo(t, "reinit")
    /\ UNCHANGED <<g_threads, g_stwRequested, ret, parked, parkedStackSize,
                   stackSize, scanned, awaiting>>

\* The sweep hands every block out anew, so all cursors go stale; then
\* MutatorSync_ThreadCount is read for the growth decision.
Recycle(t) ==
    /\ pc[t] = "recycle"
    /\ cursors' = [u \in Threads |->
                      IF cursors[u] = "null" THEN "null" ELSE "stale"]
    /\ threadCount' = Cardinality(g_threads)
    /\ GoTo(t, "reinit")
    /\ UNCHANGED <<g_threads, g_stwRequested, ret, parked, parkedStackSize,
                   stackSize, scanned, awaiting>>

\* Variant: only the thread that triggered the collection is re-primed.
ReinitOwn(t) ==
    /\ pc[t] = "reinit"
    /\ cursors' = [cursors EXCEPT ![t] = "primed"]
    /\ GoTo(t, "end")
    /\ UNCHANGED <<g_threads, g_stwRequested, ret, parked, parkedStackSize,
                   stackSize, scanned, threadCount, awaiting>>

\* MutatorSync_ForEachThread(Heap_reinitThreadCursors).
Reinit(t) ==
    /\ pc[t] = "reinit"
    /\ \A u \in g_threads : cursors[u] # "null"
    /\ cursors' = [u \in Threads |->
                      IF u \in g_threads THEN "primed" ELSE cursors[u]]
    /\ GoTo(t, "end")
    /\ UNCHANGED <<g_threads, g_stwRequested, ret, parked, parkedStackSize,
                   stackSize, scanned, threadCount, awaiting>>

\* The same visit reaches a thread whose allocator is still NULL.
ReinitCrash(t) ==
    /\ pc[t] = "reinit"
    /\ \E u \in g_threads : cursors[u] = "null"
    /\ Move(t, "crashed")

\* Variant: the flag is cleared and nobody is notified.
EndCollectionSilent(t) ==
    /\ pc[t] = "end"
    /\ g_stwRequested' = FALSE
    /\ awaiting' = [u \in Threads |-> FALSE]
    /\ GoTo(t, ret[t])
    /\ UNCHANGED <<g_threads, ret, parked, parkedStackSize, stackSize, cursors,
                   scanned, threadCount>>

EndCollection(t) ==
    /\ pc[t] = "end"
    /\ g_stwRequested' = FALSE
    /\ awaiting' = [u \in Threads |-> FALSE]
    /\ pc' = NotifiedAllAt(t, ret[t])
    /\ UNCHANGED <<g_threads, ret, parked, parkedStackSize, stackSize, cursors,
                   scanned, threadCount>>

-----------------------------------------------------------------------------
\* Steps the library, the scheduler and an allocating program owe us.
Step(t) ==
    \/ CreateAllocator(t)
    \/ ScalanativeAlloc(t) \/ AllocSucceeds(t) \/ AllocCollects(t) \/ AllocRetry(t)
    \/ PollCheck(t) \/ PollResolved(t) \/ PollPark(t) \/ PollSleepAgain(t) \/ PollReturn(t)
    \/ BeginWin(t) \/ BeginLose(t) \/ SnapshotOwn(t) \/ BarrierPass(t) \/ BarrierSleep(t)
    \/ MarkRoots(t) \/ Recycle(t) \/ Reinit(t) \/ ReinitCrash(t) \/ EndCollection(t)

\* Steps the program may or may not take.
Optional(t) ==
    \/ \E n \in Stacks : RegisterThread(t, n) \/ RunMutator(t, n)
    \/ UnregisterThread(t) \/ ScalanativeCollect(t) \/ SpuriousWake(t)

Next == \E t \in Threads : Step(t) \/ Optional(t)

Spec == Init /\ [][Next]_vars

\* Every thread is scheduled, the mutex is fair enough, and every live
\* mutator keeps allocating (documentation/concurrent/MutatorSync.md:147-151).
FairSpec == Spec /\ \A t \in Threads : WF_vars(Step(t))

-----------------------------------------------------------------------------
(* Safety                                                                  *)

\* MutatorSync_BeginCollection returns only into a stopped world: while the
\* collector marks, sweeps and re-primes, every other registered thread is
\* blocked inside MutatorSync_Poll's wait (Heap.c:170 relies on it).
WorldStopped ==
    \A c \in PastBarrier : \A t \in g_threads \ {c} : pc[t] \in Blocked

\* The stack sizes Marker_markValStacks loops over are the current ones, also
\* for a thread that stayed parked across two back-to-back collections.
SnapshotsCurrent ==
    PastBarrier # {} => \A t \in g_threads : parkedStackSize[t] = stackSize[t]

\* No thread bump-allocates through cursors that point into blocks the sweep
\* has redistributed or reclaimed since they were set.
NoStaleCursors ==
    \A t \in Threads : pc[t] \in {"running", "alloc", "retry"} => cursors[t] = "primed"

\* Heap_reinitThreadCursors never meets a thread whose allocator is NULL, the
\* window between MutatorSync_RegisterThread and ThreadLocalAllocator_Create.
ReinitMeetsNoNull ==
    \A c \in Threads :
        /\ pc[c] # "crashed"
        /\ pc[c] = "reinit" => \A t \in g_threads : cursors[t] # "null"

\* The count CanInitCursors was asked about is the number of threads that are
\* then re-primed (Heap.c:187 and Heap.c:199 take g_mutex separately).
ReinitMatchesCount ==
    \A c \in Threads : pc[c] = "reinit" => threadCount = Cardinality(g_threads)

\* The compare-exchange admits one driver, and the flag is up exactly while
\* there is one, however threads come and go.
SingleDriver ==
    /\ \A s, t \in Threads : pc[s] \in Driving /\ pc[t] \in Driving => s = t
    /\ g_stwRequested <=> \E t \in Threads : pc[t] \in Driving

\* A thread that lost the race does not return from Heap_Collect before the
\* collection it lost to is over (Heap.c:147-153: the retry "needs no special
\* case either way").
LoserWaits ==
    \A t \in Threads : awaiting[t] => pc[t] \in {"check", "poll"} \cup Blocked

\* Nobody sleeps in Poll without a collection that will wake them: the check,
\* the parking and the wait share one critical section with EndCollection.
PollSleepJustified ==
    \A t \in Threads : pc[t] = "pollWait" => g_stwRequested

\* The collector sleeps in the barrier only while some other registered thread
\* still has to park, and parking notifies it.
BarrierSleepJustified ==
    \A c \in Threads : pc[c] = "barrierWait" => ~AllOthersParked(c)

-----------------------------------------------------------------------------
(* Liveness, under FairSpec                                                *)

\* Every requested collection ends (documentation/ImmixGC.md:67-69 and
\* concurrent/MutatorSync.md: the barrier waits for registered threads only).
CollectionCompletes == g_stwRequested ~> ~g_stwRequested

\* Once collections stop being requested, every parked thread is released.
ParkedReleased ==
    (<>[]~g_stwRequested) => \A t \in Threads : parked[t] ~> ~parked[t]

\* The barrier does not sleep forever once every thread it still has to wait
\* for is parked or gone (documentation/ImmixGC.md:67-69: a since-exited
\* thread is no longer waited on).
DepartedNotAwaited ==
    \A c \in Threads : ~<>[](pc[c] = "barrierWait" /\ AllOthersParked(c))

-----------------------------------------------------------------------------
(* Refinement                                                              *)

AbstractMode(l) ==
    CASE l = "outside"                               -> "absent"
      [] l \in Blocked                               -> "stopped"
      [] l = "mark"                                  -> "collecting"
      [] l \in {"recycle", "reinit", "end", "crashed"} -> "scanned"
      [] OTHER                                       -> "mutating"

STW == INSTANCE StopTheWorld
           WITH mode  <- [t \in Threads |-> AbstractMode(pc[t])],
                stack <- stackSize,
                roots <- scanned

\* The protocol implements the abstract stop-the-world collection.
ImplementsStopTheWorld == STW!Spec

=============================================================================
