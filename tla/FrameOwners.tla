---------------------------- MODULE FrameOwners ----------------------------
(***************************************************************************)
(* Callers of the frame allocator and the frames they believe they own.    *)
(*                                                                         *)
(* The allocator keeps no owners: a set bit says that a frame is taken,    *)
(* not by whom.  This module adds the callers' side as history variables   *)
(* and composes it with the steps of FrameAllocator.  Callers free only    *)
(* what they own, the discipline the kernel follows.  The last             *)
(* specification also lets callers do anything, and then nobody keeps      *)
(* account of owners.                                                      *)
(***************************************************************************)
EXTENDS FrameAllocator

CONSTANTS
  Callers,      \* kernel components that allocate frames
  Nobody,       \* the owner of a free frame
  Machine       \* the owner of frames never released to the allocator

ASSUME FrameOwnersAssumption ==
  Nobody \notin Callers /\ Machine \notin Callers /\ Nobody # Machine

VARIABLES
  owner,        \* who believes to own each managed frame
  caller        \* the caller of the method that runs, or of the last one

ownerVars == <<owner, caller>>
allVars == <<vars, ownerVars>>

OwnedBy(c) == {f \in DOMAIN owner : owner[f] = c}

OInit ==
  /\ Init
  /\ owner = [f \in Managed |-> IF f - base \in bitmap THEN Machine ELSE Nobody]
  /\ caller \in Callers

\* Caller c asks for n adjacent frames.
Ask(c, n) ==
  /\ AllocateContiguous(n)
  /\ caller' = c
  /\ UNCHANGED owner

\* The frames the running search takes become the caller's.
Receive ==
  /\ SearchTake
  /\ LET run == (base + index) .. (base + index + count - 1)
     IN  owner' = [f \in DOMAIN owner |-> IF f \in run THEN caller ELSE owner[f]]
  /\ UNCHANGED caller

\* Caller c frees a run it owns, or one frame of it.
GiveUp(c, f, n) ==
  /\ f .. (f + n - 1) \subseteq OwnedBy(c)
  /\ FreeContiguous(f, n)
  /\ owner' = [g \in DOMAIN owner |-> IF g \in f .. (f + n - 1) THEN Nobody ELSE owner[g]]
  /\ caller' = c

GiveUpOne(c, f) ==
  /\ f \in OwnedBy(c)
  /\ Free(f)
  /\ owner' = [owner EXCEPT ![f] = Nobody]
  /\ caller' = c

Work ==
  \/ SearchPastBlocker \/ SearchFromZero \/ SearchExhausted
  \/ ValidateNext \/ ValidateDone \/ FreeNext \/ FreeDone

Careful ==
  \/ \E c \in Callers, n \in Counts : Ask(c, n)
  \/ Receive
  \/ \E c \in Callers, f \in FrameArgs, n \in Counts : GiveUp(c, f, n)
  \/ \E c \in Callers, f \in FrameArgs : GiveUpOne(c, f)
  \/ Work /\ UNCHANGED ownerVars

OSpec == OInit /\ [][Careful]_allVars

\* Either all callers are careful, or none is and there are no owners.
AnyInit ==
  \/ OInit
  \/ Init /\ owner = [f \in {} |-> Nobody] /\ caller = Nobody

AnyNext ==
  \/ caller \in Callers /\ Careful
  \/ caller = Nobody /\ Next /\ UNCHANGED ownerVars

FairAnySpec == AnyInit /\ [][AnyNext]_allVars /\ WF_vars(LoopStep)

-----------------------------------------------------------------------------
(* Properties. *)

\* Between calls the bitmap and the callers agree: a bit is set exactly when
\* somebody owns the frame, so nothing that is owned can be handed out and
\* nothing that was given back is lost.
BitmapAgreesWithOwners ==
  pc = "idle" => \A f \in DOMAIN owner : f - base \in bitmap <=> owner[f] # Nobody

\* A frame changes hands only through the pool: no step gives a frame that
\* somebody owns to somebody else.
NoFrameHandedOutTwice ==
  [][\A f \in DOMAIN owner : owner[f] # Nobody => owner'[f] \in {owner[f], Nobody}]_allVars

=============================================================================
