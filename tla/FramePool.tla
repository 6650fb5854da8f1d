----------------------------- MODULE FramePool -----------------------------
(***************************************************************************)
(* What the physical frame allocator of the kernel promises to its         *)
(* callers, without a bitmap, a cursor or a search.                        *)
(*                                                                         *)
(* The pool is the set of managed frames and the subset of them that is    *)
(* free.  A call completes in one step.  A request for n adjacent frames   *)
(* is granted with n frames that were free, and refused only when no n     *)
(* adjacent free frames exist.  A free of a run takes all of it back, or   *)
(* none of it.  FrameAllocator implements this specification.              *)
(***************************************************************************)
EXTENDS Integers

CONSTANTS
  Counts,       \* the run lengths callers ask for
  FrameArgs     \* the frame numbers callers pass

VARIABLES
  managed,      \* the frames the pool is responsible for
  free,         \* those nobody holds
  outcome       \* the operation that completed last, and what it returned

poolVars == <<managed, free, outcome>>

Outcome(op, frame, count, result) ==
  [op |-> op, frame |-> frame, count |-> count, result |-> result]

\* The n frames starting at f.
Run(f, n) == f .. (f + n - 1)

\* Somewhere n adjacent frames are free.
HasFreeRun(n) == \E f \in managed : Run(f, n) \subseteq free

Init ==
  /\ free \subseteq managed
  /\ outcome = Outcome("none", 0, 0, "Ok")

Complete(newFree, o) ==
  /\ free' = newFree
  /\ outcome' = o
  /\ UNCHANGED managed

Grant(n) ==
  /\ n > 0
  /\ \E f \in managed :
       /\ Run(f, n) \subseteq free
       /\ Complete(free \ Run(f, n), Outcome("allocate", f, n, "Ok"))

Deny(n) ==
  /\ n = 0 \/ ~HasFreeRun(n)
  /\ Complete(free, Outcome("allocate", 0, n, "OutOfMemory"))

GiveBack(f, n) ==
  /\ Run(f, n) \subseteq managed \ free
  /\ Complete(free \cup Run(f, n), Outcome("free", f, n, "Ok"))

Refuse(f, n) ==
  \/ /\ ~(Run(f, n) \subseteq managed)
     /\ Complete(free, Outcome("free", f, n, "OutOfRange"))
  \/ /\ Run(f, n) \cap free # {}
     /\ Complete(free, Outcome("free", f, n, "NotAllocated"))

Release(f) ==
  \/ /\ f \in managed
     /\ Complete(free \cup {f}, Outcome("release", f, 1, "Ok"))
  \/ /\ f \notin managed
     /\ Complete(free, Outcome("release", f, 1, "OutOfRange"))

Reserve(f) ==
  \/ /\ f \in managed
     /\ Complete(free \ {f}, Outcome("reserve", f, 1, "Ok"))
  \/ /\ f \notin managed
     /\ Complete(free, Outcome("reserve", f, 1, "OutOfRange"))

\* Reserving a byte range reports nothing and makes some frames unavailable.
ReserveSome == \E s \in SUBSET managed : Complete(free \ s, Outcome("reserve_range", 0, 0, "Ok"))

Next ==
  \/ \E n \in Counts : Grant(n) \/ Deny(n)
  \/ \E f \in FrameArgs, n \in Counts \cup {1} : GiveBack(f, n) \/ Refuse(f, n)
  \/ \E f \in FrameArgs : Release(f) \/ Reserve(f)
  \/ ReserveSome

Spec == Init /\ [][Next]_poolVars

=============================================================================
