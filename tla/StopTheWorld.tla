---------------------------- MODULE StopTheWorld ----------------------------
(***************************************************************************)
(* What a stop-the-world collection promises, with no lock, flag or        *)
(* condition variable in it.  Mutators come and go and change their Val    *)
(* stacks; one of them may become the collector once all the others are    *)
(* stopped; it scans every Val stack exactly as it stands, and nobody      *)
(* moves until it has finished.  MutatorSync is shown to implement this.   *)
(***************************************************************************)
EXTENDS Naturals

CONSTANTS Threads,    \* the OS threads that may ever become mutators
          MaxStack    \* bound on the number of live Val entries of a thread

VARIABLES mode,       \* mode[t]: what thread t is, seen from the heap
          stack,      \* stack[t]: live entries of t's Val stack
          roots       \* roots[t]: entries of t's stack the last scan visited

vars == <<mode, stack, roots>>

Modes == {"absent", "mutating", "stopped", "collecting", "scanned"}
Collectors == {t \in Threads : mode[t] \in {"collecting", "scanned"}}

TypeOK ==
    /\ mode \in [Threads -> Modes]
    /\ stack \in [Threads -> 0 .. MaxStack]
    /\ roots \in [Threads -> 0 .. MaxStack]

Init ==
    /\ mode = [t \in Threads |-> "absent"]
    /\ stack = [t \in Threads |-> 0]
    /\ roots = [t \in Threads |-> 0]

Become(t, m) == mode' = [mode EXCEPT ![t] = m]

\* Threads attach to the heap only while no collection is in progress.
Join(t, n) ==
    /\ mode[t] = "absent" /\ Collectors = {}
    /\ Become(t, "mutating")
    /\ stack' = [stack EXCEPT ![t] = n]
    /\ UNCHANGED roots

Leave(t) ==
    /\ mode[t] = "mutating"
    /\ Become(t, "absent")
    /\ stack' = [stack EXCEPT ![t] = 0]
    /\ UNCHANGED roots

Mutate(t, n) ==
    /\ mode[t] = "mutating"
    /\ stack' = [stack EXCEPT ![t] = n]
    /\ UNCHANGED <<mode, roots>>

Stop(t) ==
    /\ mode[t] = "mutating"
    /\ Become(t, "stopped")
    /\ UNCHANGED <<stack, roots>>

Resume(t) ==
    /\ mode[t] = "stopped" /\ Collectors = {}
    /\ Become(t, "mutating")
    /\ UNCHANGED <<stack, roots>>

StartCollection(t) ==
    /\ mode[t] = "mutating"
    /\ \A u \in Threads \ {t} : mode[u] \in {"absent", "stopped"}
    /\ Become(t, "collecting")
    /\ UNCHANGED <<stack, roots>>

Scan(t) ==
    /\ mode[t] = "collecting"
    /\ Become(t, "scanned")
    /\ roots' = stack
    /\ UNCHANGED stack

Finish(t) ==
    /\ mode[t] = "scanned"
    /\ Become(t, "mutating")
    /\ UNCHANGED <<stack, roots>>

Next ==
    \E t \in Threads :
        \/ \E n \in 0 .. MaxStack : Join(t, n) \/ Mutate(t, n)
        \/ Leave(t) \/ Stop(t) \/ Resume(t)
        \/ StartCollection(t) \/ Scan(t) \/ Finish(t)

Spec == Init /\ [][Next]_vars

-----------------------------------------------------------------------------
\* While one thread collects, every other thread is absent or stopped: the
\* world in which Heap_Recycle may sweep without a lock.
Exclusion ==
    \A c \in Collectors : \A t \in Threads \ {c} : mode[t] \in {"absent", "stopped"}

\* Until the collector has finished, the roots it marked from are the stacks
\* as they still are: no root appeared after the scan.
RootsExact ==
    \A c \in Threads : mode[c] = "scanned" => roots = stack

=============================================================================
