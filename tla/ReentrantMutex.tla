--------------------------- MODULE ReentrantMutex ---------------------------
(***************************************************************************)
(* What the kernel expects of a reentrant lock: at most one CPU holds it,  *)
(* that CPU may take it again, and it is free for the others only after as *)
(* many releases as acquisitions.  depth[c] is the number of acquisitions  *)
(* of CPU c not yet released.                                              *)
(***************************************************************************)
EXTENDS Naturals

CONSTANTS CPUs,          \* the cores' APIC identifiers
          MaxRecursion   \* the deepest nesting the lock can record

VARIABLE depth

Init == depth = [c \in CPUs |-> 0]

Acquire(c) == /\ \A d \in CPUs \ {c} : depth[d] = 0
              /\ depth[c] < MaxRecursion
              /\ depth' = [depth EXCEPT ![c] = @ + 1]

Release(c) == /\ depth[c] > 0
              /\ depth' = [depth EXCEPT ![c] = @ - 1]

Next == \E c \in CPUs : Acquire(c) \/ Release(c)

Spec == Init /\ [][Next]_depth
=============================================================================
