----------------------------- MODULE KernelStop -----------------------------
(***************************************************************************)
(* How the kernel stops: the boot path, the exception handlers and the     *)
(* panic handler on one processor, and the two spin locks they share, the  *)
(* serial port's and the framebuffer's.                                    *)
(*                                                                         *)
(* Code is a sequence of atomic operations; what is formatted and painted  *)
(* is left out, the order of the locks and of the calls is kept.  A        *)
(* processor runs the topmost of a stack of activations.  An exception     *)
(* pushes a handler's activation at any point at all, for interrupts are   *)
(* never enabled and an exception cannot be masked; a Rust panic replaces  *)
(* the code of the activation that panics, whose guards are not dropped    *)
(* (the profile says panic = "abort").  A lock that is held stays held     *)
(* while its owner is interrupted.                                         *)
(***************************************************************************)
EXTENDS Naturals, Sequences

CONSTANTS
  Exceptions,        \* the exceptions that may happen
  MaxFaults          \* bound on exceptions and panics in a behaviour

Handlers == {"divide_error", "invalid_opcode", "general_protection_fault", "page_fault",
             "double_fault", "non_maskable_interrupt", "debug_exception"}

ASSUME KernelStopAssumption ==
  /\ Exceptions \subseteq Handlers
  /\ MaxFaults \in Nat

VARIABLES
  stack,             \* activations, the running one last
  serialOwner,       \* position of the activation that holds SERIAL, or 0
  surfaceOwner,      \* position of the activation that holds SURFACE, or 0
  surfaceUp,         \* SURFACE is Some
  tablesLoaded,      \* the kernel's GDT and IDT are loaded
  nmiBlocked,        \* the processor holds back non-maskable interrupts
  power,             \* "on", "halted" or "reset"
  announced,         \* a stop message has been written to the port
  painted,           \* the stop screen has been drawn
  faults,            \* exceptions and panics so far
  struckLock         \* one of them struck while a lock was held

vars == <<stack, serialOwner, surfaceOwner, surfaceUp, tablesLoaded, nmiBlocked,
          power, announced, painted, faults, struckLock>>
lockVars == <<serialOwner, surfaceOwner>>
machineVars == <<surfaceUp, tablesLoaded, nmiBlocked, power, announced, painted>>
faultVars == <<faults, struckLock>>

-----------------------------------------------------------------------------
(* The code that runs. *)

\* serial::write_fmt, which every log macro ends in.
Log == <<"serial.lock", "serial.write", "serial.unlock">>

\* framebuffer::fill_rect holds the lock while it draws.
FillRect == <<"surface.lock", "surface.draw", "surface.unlock">>

\* framebuffer::clear drops its guard before it calls fill_rect.
Clear == <<"surface.lock", "surface.size", "surface.unlock">> \o FillRect

StopScreen == <<"surface.lock", "surface.size", "surface.unlock">> \o Clear \o FillRect

\* Faulty variant of PanicScreen: relies on the screen alone.
PanicScreenOnlyDraws == StopScreen \o <<"halt">>

\* panic_screen, and on_panic, which does the same with another message.
PanicScreen == <<"port.write">> \o StopScreen \o <<"halt">>

\* fail, and the body of every handler that does not return.
Fail == Log \o PanicScreen

\* Faulty variant of HandlerCode: every handler reports and resumes.
HandlerResumes(h) == Log \o <<"iret">>

HandlerCode(h) == IF h = "debug_exception" THEN Log \o <<"iret">> ELSE Fail

\* framebuffer::init, when the boot info describes a framebuffer.
SurfaceInit == <<"surface.lock", "surface.set", "surface.unlock">>

\* _start: each stage is logged before it is entered, and most may fail.
\* Messages in a row count as one.
Start(hasSurface) ==
  <<"serial.lock", "serial.init", "serial.unlock">> \o Log
  \o <<"check.null", "check">> \o Log            \* boot info
  \o <<"tables.load">> \o Log                    \* stage 6
  \o (IF hasSurface THEN SurfaceInit ELSE << >>)
  \o Log \o <<"check">>                          \* stage 7, setup_memory
  \o Log \o <<"check">> \o Log                   \* stage 8, setup_heap
  \o <<"halt">>

\* Faulty variant of Ist: the debug handler shares the page-fault stack.
IstSharedWithDebug(h) ==
  CASE h = "double_fault" -> 1
    [] h \in {"page_fault", "debug_exception"} -> 2
    [] h = "non_maskable_interrupt" -> 3
    [] OTHER -> 0

\* The emergency stack of a handler, 0 for the interrupted code's own.
Ist(h) ==
  CASE h = "double_fault" -> 1
    [] h = "page_fault" -> 2
    [] h = "non_maskable_interrupt" -> 3
    [] OTHER -> 0

-----------------------------------------------------------------------------
(* The processor. *)

Activation(name, code, slot) == [name |-> name, code |-> code, slot |-> slot, clobbered |-> FALSE]

Init ==
  /\ \E hasSurface \in BOOLEAN : stack = <<Activation("start", Start(hasSurface), 0)>>
  /\ serialOwner = 0 /\ surfaceOwner = 0
  /\ surfaceUp = FALSE /\ tablesLoaded = FALSE /\ nmiBlocked = FALSE
  /\ power = "on" /\ announced = FALSE /\ painted = FALSE
  /\ faults = 0 /\ struckLock = FALSE

Top == stack[Len(stack)]

\* The running activation is about to execute op.
At(op) == power = "on" /\ Top.code[1] = op

Advance == stack' = [stack EXCEPT ![Len(stack)].code = Tail(@)]

\* SERIAL.lock() spins until the lock is free.
LockSerial ==
  /\ At("serial.lock") /\ serialOwner = 0
  /\ serialOwner' = Len(stack)
  /\ Advance
  /\ UNCHANGED <<surfaceOwner, machineVars, faultVars>>

\* Bringing the port up and writing to it under the lock.
UseSerial ==
  /\ At("serial.init") \/ At("serial.write")
  /\ Advance
  /\ UNCHANGED <<lockVars, machineVars, faultVars>>

UnlockSerial ==
  /\ At("serial.unlock")
  /\ serialOwner' = 0
  /\ Advance
  /\ UNCHANGED <<surfaceOwner, machineVars, faultVars>>

\* write_fmt_unlocked: the stop message goes out whoever holds the lock.
WriteUnlocked ==
  /\ At("port.write")
  /\ announced' = TRUE
  /\ Advance
  /\ UNCHANGED <<lockVars, surfaceUp, tablesLoaded, nmiBlocked, power, painted, faultVars>>

LockSurface ==
  /\ At("surface.lock") /\ surfaceOwner = 0
  /\ surfaceOwner' = Len(stack)
  /\ Advance
  /\ UNCHANGED <<serialOwner, machineVars, faultVars>>

\* The size of a surface that does not exist makes stop_screen return, with
\* the halt of its caller left to do.
SizeSurface ==
  /\ At("surface.size")
  /\ IF surfaceUp
       THEN Advance
       ELSE stack' = [stack EXCEPT ![Len(stack)].code = <<"surface.unlock", "halt">>]
  /\ UNCHANGED <<lockVars, machineVars, faultVars>>

DrawSurface ==
  /\ At("surface.draw")
  /\ painted' = surfaceUp
  /\ Advance
  /\ UNCHANGED <<lockVars, surfaceUp, tablesLoaded, nmiBlocked, power, announced, faultVars>>

SetSurface ==
  /\ At("surface.set")
  /\ surfaceUp' = TRUE
  /\ Advance
  /\ UNCHANGED <<lockVars, tablesLoaded, nmiBlocked, power, announced, painted, faultVars>>

UnlockSurface ==
  /\ At("surface.unlock")
  /\ surfaceOwner' = 0
  /\ Advance
  /\ UNCHANGED <<serialOwner, machineVars, faultVars>>

\* A check of the boot path passes, or the path ends in fail.  Every check
\* but the first logs what is wrong before it calls fail.
Check ==
  /\ At("check.null") \/ At("check")
  /\ \/ Advance
     \/ stack' = [stack EXCEPT ![Len(stack)].name = "fail",
                               ![Len(stack)].code =
                                 IF At("check") THEN Log \o Fail ELSE Fail]
  /\ UNCHANGED <<lockVars, machineVars, faultVars>>

LoadTables ==
  /\ At("tables.load")
  /\ tablesLoaded' = TRUE
  /\ Advance
  /\ UNCHANGED <<lockVars, surfaceUp, nmiBlocked, power, announced, painted, faultVars>>

\* Faulty variant of Halt: a loop without the instruction that stops the
\* processor.
HaltBusily ==
  /\ At("halt")
  /\ UNCHANGED vars

\* halt_forever: the activation stays where it is.
Halt ==
  /\ At("halt")
  /\ power' = "halted"
  /\ UNCHANGED <<stack, lockVars, surfaceUp, tablesLoaded, nmiBlocked, announced, painted, faultVars>>

\* A handler returns to what it interrupted, which lets the next
\* non-maskable interrupt through.
Iret ==
  /\ At("iret")
  /\ stack' = SubSeq(stack, 1, Len(stack) - 1)
  /\ nmiBlocked' = FALSE
  /\ UNCHANGED <<lockVars, surfaceUp, tablesLoaded, power, announced, painted, faultVars>>

-----------------------------------------------------------------------------
(* Exceptions and panics. *)

LockHeld == serialOwner # 0 \/ surfaceOwner # 0

\* They strike anywhere, inside critical sections too.
MayStrike == faults < MaxFaults

Strike ==
  /\ faults' = faults + 1
  /\ struckLock' = (struckLock \/ LockHeld)

\* Activations whose frames lie on the emergency stack a new handler starts
\* from the top of.
Push(h) ==
  LET slot == IF Ist(h) = 0 THEN Top.slot ELSE Ist(h)
      kept == [i \in 1 .. Len(stack) |->
                 [stack[i] EXCEPT !.clobbered = @ \/ (Ist(h) # 0 /\ stack[i].slot = Ist(h))]]
  IN  Append(kept, Activation(h, HandlerCode(h), slot))

\* An exception.  A halted processor is woken by a non-maskable interrupt
\* only.
Raise(h) ==
  /\ MayStrike /\ tablesLoaded
  /\ power = "on" \/ (power = "halted" /\ h = "non_maskable_interrupt")
  /\ h = "non_maskable_interrupt" => ~nmiBlocked
  /\ ~(h = "double_fault" /\ Top.name = "double_fault")
  /\ stack' = Push(h)
  /\ nmiBlocked' = (nmiBlocked \/ h = "non_maskable_interrupt")
  /\ power' = "on"
  /\ Strike
  /\ UNCHANGED <<lockVars, surfaceUp, tablesLoaded, announced, painted>>

\* Without a handler to run, or with a double fault inside the double-fault
\* handler, the machine resets.
TripleFault(h) ==
  /\ MayStrike /\ power = "on"
  /\ ~tablesLoaded \/ (h = "double_fault" /\ Top.name = "double_fault")
  /\ power' = "reset"
  /\ Strike
  /\ UNCHANGED <<stack, lockVars, surfaceUp, tablesLoaded, nmiBlocked, announced, painted>>

\* A Rust panic in the running code.
Panic ==
  /\ MayStrike /\ power = "on"
  /\ stack' = [stack EXCEPT ![Len(stack)].name = "panic", ![Len(stack)].code = PanicScreen]
  /\ Strike
  /\ UNCHANGED <<lockVars, machineVars>>

-----------------------------------------------------------------------------
Run ==
  \/ LockSerial \/ UseSerial \/ UnlockSerial \/ WriteUnlocked
  \/ LockSurface \/ SizeSurface \/ DrawSurface \/ SetSurface \/ UnlockSurface
  \/ Check \/ LoadTables \/ Halt \/ Iret

Fault == Panic \/ \E h \in Exceptions : Raise(h) \/ TripleFault(h)

Next == Run \/ Fault

Spec == Init /\ [][Next]_vars

\* The processor executes: an operation that can be executed is.  Nothing
\* obliges a fault to happen.
FairSpec == Spec /\ WF_vars(Run)

-----------------------------------------------------------------------------
(* Properties. *)

\* An activation that has to end in a stop.
Stopping(a) == a.name \notin {"start", "debug_exception"}

\* When the machine has halted on a stop path its message is on the serial
\* line and, if there is a framebuffer, the stop screen is on it.
HaltIsExplained ==
  power = "halted" /\ Stopping(Top) => announced /\ (surfaceUp => painted)

\* No activation whose stack a later handler has overwritten ever runs
\* again: the handlers that nest and return do not share an emergency stack.
NeverRunsOnOverwrittenStack == ~Top.clobbered

\* After a fault that stops the kernel nothing beneath it ever continues,
\* whatever else strikes (idt.rs: a kernel that continues after an
\* unexpected exception will corrupt something).
NothingContinuesUnderAStop ==
  [][\A i \in 1 .. Len(stack) :
       Stopping(stack[i]) =>
         /\ Len(stack') >= i
         /\ \A j \in 1 .. (i - 1) : stack'[j].code = stack[j].code]_vars

\* A stop that no fault has cut short in a critical section reaches the halt,
\* whatever else strikes and wherever the processor was: with locks free of a
\* struck owner none of the paths waits for another.
EveryUnstruckStopHalts ==
  (\E i \in 1 .. Len(stack) : Stopping(stack[i])) ~> (power # "on" \/ struckLock)

\* "say what happened ... and then stop" (idt.rs, module comment): a handler
\* that does not return, a panic and fail all reach the halt.
EveryStopHalts == (\E i \in 1 .. Len(stack) : Stopping(stack[i])) ~> power # "on"

=============================================================================
