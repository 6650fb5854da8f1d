-------------------------- MODULE KernelStopProofs --------------------------
(***************************************************************************)
(* Theorems about KernelStop: how the kernel stops, for every set of       *)
(* exceptions, however often they strike and wherever they do.             *)
(***************************************************************************)
EXTENDS KernelStop, SequenceTheorems, TLAPS

-----------------------------------------------------------------------------
(* The invariant. *)

\* Every operation the modelled code is made of.
Ops == {"serial.lock", "serial.init", "serial.write", "serial.unlock", "port.write",
        "surface.lock", "surface.size", "surface.draw", "surface.set", "surface.unlock",
        "check.null", "check", "tables.load", "halt", "iret"}

\* The operations that neither stop nor return.
Quiet == Ops \ {"halt", "iret"}

\* What an activation can be running.
Names == Handlers \cup {"start", "fail", "panic"}

\* The activations there can be.
Activations == [name : Names, code : Seq(Ops), slot : 0 .. 3, clobbered : BOOLEAN]

\* The operation is still to come in the code.
Has(code, op) == \E i \in 1 .. Len(code) : code[i] = op

\* Code that has not run off its end: it halts or returns, there and nowhere
\* else.
EndsProperly(code) ==
  /\ Len(code) > 0
  /\ code[Len(code)] \in {"halt", "iret"}
  /\ \A i \in 1 .. Len(code) - 1 : code[i] \notin {"halt", "iret"}

\* What is left of a stop: it does not return, it does not touch the surface
\* but to draw, and it looks at the size of the surface only after the message
\* has gone out.
SizeAfterMessage(code) ==
  \A i, j \in 1 .. Len(code) : i < j /\ code[j] = "port.write" => code[i] # "surface.size"

StopCode(code) == ~Has(code, "iret") /\ ~Has(code, "surface.set") /\ SizeAfterMessage(code)

\* The stack is never empty; the boot path is at its bottom and nowhere else, or
\* the stop that took its place; a halted processor is at a halt.
StackOK ==
  /\ stack \in Seq(Activations) /\ Len(stack) > 0
  /\ surfaceUp \in BOOLEAN /\ announced \in BOOLEAN /\ painted \in BOOLEAN
  /\ stack[1].name # "debug_exception"
  /\ \A i \in 2 .. Len(stack) : stack[i].name # "start"
  /\ power = "halted" => Top.code[1] = "halt"

\* What each activation has left to do.
CodeOK ==
  \A i \in 1 .. Len(stack) :
    /\ EndsProperly(stack[i].code)
    /\ stack[i].name = "start" => ~Has(stack[i].code, "iret")
    /\ stack[i].name = "debug_exception" => ~Has(stack[i].code, "surface.set")
    /\ Stopping(stack[i]) => StopCode(stack[i].code)

\* What a stop has not explained yet it still has to explain.
StopsExplain ==
  \A i \in 1 .. Len(stack) : Stopping(stack[i]) =>
    /\ announced \/ Has(stack[i].code, "port.write")
    /\ surfaceUp => painted \/ Has(stack[i].code, "surface.draw")

\* An activation whose stack was overwritten lies under a stop.
OverwrittenIsBuried ==
  \A i \in 1 .. Len(stack) :
    stack[i].clobbered => \E j \in (i + 1) .. Len(stack) : Stopping(stack[j])

\* The inductive invariant.
IInv == StackOK /\ CodeOK /\ StopsExplain /\ OverwrittenIsBuried

-----------------------------------------------------------------------------
(* The code. *)

\* What a concatenation holds, and where.
LEMMA Concat ==
  ASSUME NEW p \in Seq(Ops), NEW c \in Seq(Ops)
  PROVE  /\ p \o c \in Seq(Ops) /\ Len(p \o c) = Len(p) + Len(c)
         /\ Len(p) \in Nat /\ Len(c) \in Nat
         /\ \A i \in 1 .. Len(p) : (p \o c)[i] = p[i]
         /\ \A i \in 1 .. Len(c) : (p \o c)[Len(p) + i] = c[i]
         /\ \A i \in 1 .. Len(p) + Len(c) :
              \/ i \in 1 .. Len(p) /\ (p \o c)[i] = p[i]
              \/ i - Len(p) \in 1 .. Len(c) /\ (p \o c)[i] = c[i - Len(p)]
OBVIOUS

\* A concatenation holds what its parts hold.
LEMMA ConcatHas ==
  ASSUME NEW p \in Seq(Ops), NEW c \in Seq(Ops), NEW op
  PROVE  Has(p \o c, op) <=> Has(p, op) \/ Has(c, op)
<1> DEFINE pc == p \o c
<1>1. /\ Len(pc) = Len(p) + Len(c) /\ Len(p) \in Nat /\ Len(c) \in Nat
      /\ \A i \in 1 .. Len(p) : pc[i] = p[i]
      /\ \A i \in 1 .. Len(c) : pc[Len(p) + i] = c[i]
      /\ \A i \in 1 .. Len(p) + Len(c) :
           \/ i \in 1 .. Len(p) /\ pc[i] = p[i]
           \/ i - Len(p) \in 1 .. Len(c) /\ pc[i] = c[i - Len(p)]
  BY Concat
<1> HIDE DEF pc
<1>2. Has(p, op) => Has(pc, op) BY <1>1 DEF Has
<1>3. Has(c, op) => Has(pc, op)
  <2> SUFFICES ASSUME NEW i \in 1 .. Len(c), c[i] = op PROVE Has(pc, op) BY DEF Has
  <2>1. Len(p) + i \in 1 .. Len(pc) /\ pc[Len(p) + i] = op BY <1>1
  <2> QED BY <2>1 DEF Has
<1>4. Has(pc, op) => Has(p, op) \/ Has(c, op) BY <1>1 DEF Has
<1> QED BY <1>2, <1>3, <1>4 DEF pc

\* When a concatenation looks at the surface only after the message.
LEMMA ConcatSize ==
  ASSUME NEW p \in Seq(Ops), NEW c \in Seq(Ops),
         \/ ~Has(p, "surface.size") /\ SizeAfterMessage(c)
         \/ SizeAfterMessage(p) /\ ~Has(c, "port.write")
  PROVE  SizeAfterMessage(p \o c)
<1> DEFINE pc == p \o c
<1>1. /\ Len(pc) = Len(p) + Len(c) /\ Len(p) \in Nat /\ Len(c) \in Nat
      /\ \A i \in 1 .. Len(p) + Len(c) :
           \/ i \in 1 .. Len(p) /\ pc[i] = p[i]
           \/ i - Len(p) \in 1 .. Len(c) /\ pc[i] = c[i - Len(p)]
  BY Concat
<1> HIDE DEF pc
<1> SUFFICES ASSUME NEW i \in 1 .. Len(pc), NEW j \in 1 .. Len(pc), i < j, pc[j] = "port.write"
             PROVE  pc[i] # "surface.size"
  BY DEF SizeAfterMessage, pc
<1>2. CASE i \in 1 .. Len(p) /\ pc[i] = p[i]
  <2>1. CASE j \in 1 .. Len(p) /\ pc[j] = p[j] BY <1>2, <2>1 DEF SizeAfterMessage, Has
  <2>2. CASE j - Len(p) \in 1 .. Len(c) /\ pc[j] = c[j - Len(p)] BY <1>2, <2>2 DEF Has
  <2> QED BY <1>1, <2>1, <2>2
<1>3. CASE i - Len(p) \in 1 .. Len(c) /\ pc[i] = c[i - Len(p)]
  <2>1. j - Len(p) \in 1 .. Len(c) /\ pc[j] = c[j - Len(p)] /\ i - Len(p) < j - Len(p)
    BY <1>1, <1>3
  <2> QED BY <1>3, <2>1 DEF SizeAfterMessage, Has
<1> QED BY <1>1, <1>2, <1>3

\* Code that runs before other code leaves its end alone.
LEMMA Prefixed ==
  ASSUME NEW p \in Seq(Quiet), NEW c \in Seq(Ops), EndsProperly(c)
  PROVE  p \in Seq(Ops) /\ p \o c \in Seq(Ops) /\ EndsProperly(p \o c)
<1>1. p \in Seq(Ops) BY DEF Quiet
<1>2. /\ p \o c \in Seq(Ops) /\ Len(p \o c) = Len(p) + Len(c)
      /\ \A i \in 1 .. Len(p) + Len(c) : (p \o c)[i] = IF i <= Len(p) THEN p[i] ELSE c[i - Len(p)]
  BY <1>1, ConcatProperties
<1>3. \A i \in 1 .. Len(p) : p[i] \notin {"halt", "iret"} BY DEF Quiet
<1> QED BY <1>1, <1>2, <1>3 DEF EndsProperly

\* The halt alone.
LEMMA HaltEnds ==
  /\ <<"halt">> \in Seq(Ops) /\ EndsProperly(<<"halt">>)
  /\ \A op : Has(<<"halt">>, op) <=> op = "halt"
BY DEF EndsProperly, Ops, Has

\* A log message neither stops nor draws.
LEMMA LogShape ==
  /\ Log \in Seq(Quiet)
  /\ \A op : Has(Log, op) => op \in {"serial.lock", "serial.write", "serial.unlock"}
BY DEF Log, Quiet, Ops, Has

\* What the stop screen is made of.
Drawing == {"surface.lock", "surface.size", "surface.unlock", "surface.draw"}

\* The stop screen draws, and does nothing but that.
LEMMA StopScreenShape ==
  /\ StopScreen \in Seq(Quiet) /\ Has(StopScreen, "surface.draw")
  /\ \A op : Has(StopScreen, op) => op \in Drawing
<1> DEFINE size == <<"surface.lock", "surface.size", "surface.unlock">>
<1>1. size \in Seq(Drawing) BY DEF Drawing
<1>2. FillRect \in Seq(Drawing) /\ FillRect \in Seq(Ops) /\ Has(FillRect, "surface.draw")
  BY DEF FillRect, Has, Drawing, Ops
<1>3. \A p, c \in Seq(Drawing) : p \o c \in Seq(Drawing) OBVIOUS
<1>4. StopScreen = (size \o Clear) \o FillRect /\ Clear = size \o FillRect
  BY DEF StopScreen, Clear
<1> HIDE DEF size
<1>5. size \o Clear \in Seq(Drawing) /\ StopScreen \in Seq(Drawing)
  <2>1. Clear \in Seq(Drawing) BY <1>1, <1>2, <1>3, <1>4
  <2>2. size \o Clear \in Seq(Drawing) BY <1>1, <1>3, <2>1
  <2> QED BY <1>2, <1>3, <1>4, <2>2
<1>6. \A c \in Seq(Drawing) : c \in Seq(Quiet) /\ c \in Seq(Ops) BY DEF Drawing, Quiet, Ops
<1>7. Has(StopScreen, "surface.draw")
  <2>1. size \o Clear \in Seq(Ops) BY <1>5, <1>6
  <2> QED BY <1>2, <1>4, <2>1, ConcatHas
<1>8. \A op : Has(StopScreen, op) => op \in Drawing
  <2> HIDE DEF Drawing
  <2> QED BY <1>5 DEF Has
<1> QED BY <1>5, <1>6, <1>7, <1>8

\* A code that explains the stop it makes.
Explains(c) ==
  /\ c \in Seq(Ops) /\ EndsProperly(c) /\ StopCode(c)
  /\ Has(c, "port.write") /\ Has(c, "surface.draw")

\* panic_screen writes its message, draws and halts.
LEMMA PanicScreenExplains == Explains(PanicScreen)
<1> DEFINE w == <<"port.write">>
           ws == w \o StopScreen
<1>1. w \in Seq(Quiet) /\ \A op : Has(w, op) <=> op = "port.write" BY DEF Quiet, Ops, Has
<1> HIDE DEF w
<1>2. w \in Seq(Ops) /\ StopScreen \in Seq(Ops) BY <1>1, StopScreenShape DEF Quiet
<1>3. ws \in Seq(Quiet) BY <1>1, StopScreenShape
<1>4. \A op : Has(ws, op) <=> op = "port.write" \/ Has(StopScreen, op)
  BY <1>1, <1>2, ConcatHas
<1>5. SizeAfterMessage(ws)
  <2>1. ~Has(w, "surface.size") BY <1>1
  <2>2. SizeAfterMessage(StopScreen)
    <3>1. ~Has(StopScreen, "port.write") BY StopScreenShape DEF Drawing
    <3> QED BY <3>1 DEF SizeAfterMessage, Has
  <2> QED BY <1>2, <2>1, <2>2, ConcatSize
<1>6. PanicScreen = ws \o <<"halt">> BY DEF PanicScreen, ws, w
<1> HIDE DEF ws
<1>7. ws \in Seq(Ops) /\ PanicScreen \in Seq(Ops) /\ EndsProperly(PanicScreen)
  BY <1>3, <1>6, HaltEnds, Prefixed
<1>8. \A op : Has(PanicScreen, op) <=> op = "port.write" \/ Has(StopScreen, op) \/ op = "halt"
  BY <1>4, <1>6, <1>7, HaltEnds, ConcatHas
<1>9. SizeAfterMessage(PanicScreen)
  <2>1. ~Has(<<"halt">>, "port.write") BY HaltEnds
  <2> QED BY <1>5, <1>6, <1>7, <2>1, HaltEnds, ConcatSize
<1> QED BY <1>7, <1>8, <1>9, StopScreenShape DEF Explains, StopCode, Drawing

\* A message logged before a stop leaves it a stop.
LEMMA LoggedExplains ==
  ASSUME NEW c, Explains(c)
  PROVE  Explains(Log \o c)
<1>1. c \in Seq(Ops) /\ EndsProperly(c) BY DEF Explains
<1>2. Log \in Seq(Ops) /\ Log \o c \in Seq(Ops) /\ EndsProperly(Log \o c)
  BY <1>1, LogShape, Prefixed
<1>3. \A op : Has(Log \o c, op) <=> Has(Log, op) \/ Has(c, op) BY <1>1, <1>2, ConcatHas
<1>4. SizeAfterMessage(Log \o c)
  <2>1. ~Has(Log, "surface.size") BY LogShape
  <2> QED BY <1>1, <1>2, <2>1, ConcatSize DEF Explains, StopCode
<1>5. ~Has(Log, "iret") /\ ~Has(Log, "surface.set") BY LogShape
<1> QED BY <1>2, <1>3, <1>4, <1>5 DEF Explains, StopCode

\* fail, with and without what its caller logs first.
LEMMA FailExplains == Explains(Fail) /\ Explains(Log \o Fail)
BY PanicScreenExplains, LoggedExplains DEF Fail

\* The debug handler logs and returns.
LEMMA DebugCode ==
  /\ Log \o <<"iret">> \in Seq(Ops) /\ EndsProperly(Log \o <<"iret">>)
  /\ ~Has(Log \o <<"iret">>, "surface.set")
<1>1. /\ <<"iret">> \in Seq(Ops) /\ EndsProperly(<<"iret">>)
      /\ ~Has(<<"iret">>, "surface.set")
  BY DEF EndsProperly, Ops, Has
<1>2. Log \in Seq(Ops) BY <1>1, LogShape, Prefixed
<1>3. ~Has(Log, "surface.set") BY LogShape
<1> QED BY <1>1, <1>2, <1>3, LogShape, Prefixed, ConcatHas

\* The boot path ends in a halt and never returns.
LEMMA StartShape ==
  ASSUME NEW b \in BOOLEAN
  PROVE  Start(b) \in Seq(Ops) /\ EndsProperly(Start(b)) /\ ~Has(Start(b), "iret")
<1>1. \A p, q \in Seq(Quiet) : p \o q \in Seq(Quiet)
  <2> HIDE DEF Quiet
  <2> QED OBVIOUS
<1>2. /\ <<"serial.lock", "serial.init", "serial.unlock">> \in Seq(Quiet)
      /\ <<"check.null", "check">> \in Seq(Quiet) /\ <<"tables.load">> \in Seq(Quiet)
      /\ <<"check">> \in Seq(Quiet)
      /\ SurfaceInit \in Seq(Quiet) /\ << >> \in Seq(Quiet)
  BY DEF Quiet, Ops, SurfaceInit
<1>3. Log \in Seq(Quiet) BY LogShape
<1> DEFINE q == <<"serial.lock", "serial.init", "serial.unlock">> \o Log
                \o <<"check.null", "check">> \o Log \o <<"tables.load">> \o Log
                \o (IF b THEN SurfaceInit ELSE << >>)
                \o Log \o <<"check">> \o Log \o <<"check">> \o Log
<1>4. q \in Seq(Quiet)
  <2> HIDE DEF Quiet, Log, SurfaceInit
  <2>1. (IF b THEN SurfaceInit ELSE << >>) \in Seq(Quiet) BY <1>2, Zenon
  <2> QED BY <1>1, <1>2, <1>3, <2>1, Zenon
<1>5. Start(b) = q \o <<"halt">> BY DEF Start
<1> HIDE DEF q
<1>6. Start(b) \in Seq(Ops) /\ EndsProperly(Start(b)) BY <1>4, <1>5, HaltEnds, Prefixed
<1>7. ~Has(Start(b), "iret")
  <2>1. q \in Seq(Ops) /\ ~Has(q, "iret") BY <1>4 DEF Quiet, Has
  <2> QED BY <1>5, <2>1, HaltEnds, ConcatHas
<1> QED BY <1>6, <1>7

-----------------------------------------------------------------------------
(* Steps. *)

\* What is left after an operation that is neither the halt nor a return.
LEMMA TailShape ==
  ASSUME NEW c \in Seq(Ops), EndsProperly(c), c[1] \notin {"halt", "iret"}
  PROVE  /\ Tail(c) \in Seq(Ops) /\ EndsProperly(Tail(c))
         /\ \A op : Has(Tail(c), op) => Has(c, op)
         /\ \A op : Has(c, op) /\ c[1] # op => Has(Tail(c), op)
         /\ SizeAfterMessage(c) => SizeAfterMessage(Tail(c))
<1> DEFINE t == Tail(c)
<1>1. Len(c) > 1 /\ Len(c) \in Nat BY DEF EndsProperly
<1>2. /\ t \in Seq(Ops) /\ Len(t) = Len(c) - 1 /\ \A i \in 1 .. Len(t) : t[i] = c[i + 1]
      /\ \A i \in 2 .. Len(c) : c[i] = t[i - 1]
  BY <1>1
<1> HIDE DEF t
<1>3. EndsProperly(t) BY <1>1, <1>2 DEF EndsProperly
<1>4. \A op : Has(t, op) => Has(c, op) BY <1>1, <1>2 DEF Has
<1>5. \A op : Has(c, op) /\ c[1] # op => Has(t, op)
  <2> SUFFICES ASSUME NEW op, NEW i \in 1 .. Len(c), c[i] = op, c[1] # op PROVE Has(t, op)
    BY DEF Has
  <2>1. i - 1 \in 1 .. Len(t) /\ t[i - 1] = op BY <1>1, <1>2
  <2> QED BY <2>1 DEF Has
<1>6. SizeAfterMessage(c) => SizeAfterMessage(t) BY <1>1, <1>2 DEF SizeAfterMessage
<1> QED BY <1>2, <1>3, <1>4, <1>5, <1>6 DEF t

\* The topmost activation gets a new code, and perhaps a new name; the others
\* stay.
Retop(name, code) ==
  /\ Len(stack') = Len(stack)
  /\ \A i \in 1 .. Len(stack) - 1 : stack'[i] = stack[i]
  /\ stack'[Len(stack)] = [Top EXCEPT !.name = name, !.code = code]

\* The running activation is one.
LEMMA TopTyped ==
  ASSUME StackOK
  PROVE  /\ Len(stack) \in Nat /\ Len(stack) >= 1
         /\ \A i \in 1 .. Len(stack) : stack[i] \in Activations
         /\ Top \in Activations /\ Top.code \in Seq(Ops) /\ Top.name \in Names
<1>1. stack \in Seq(Activations) /\ Len(stack) > 0 BY DEF StackOK
<1>2. Len(stack) \in Nat /\ \A i \in 1 .. Len(stack) : stack[i] \in Activations BY <1>1
<1>3. Top \in Activations BY <1>1, <1>2 DEF Top
<1> QED BY <1>1, <1>2, <1>3 DEF Activations

\* A sequence whose last element is replaced.
LEMMA LastReplaced ==
  ASSUME NEW S, NEW s \in Seq(S), Len(s) > 0, NEW e \in S, NEW t, t = [s EXCEPT ![Len(s)] = e]
  PROVE  /\ t \in Seq(S) /\ Len(t) = Len(s) /\ t[Len(s)] = e
         /\ \A i \in 1 .. Len(s) - 1 : t[i] = s[i]
BY ExceptSeq

\* The form in which the actions replace the running activation.
LEMMA RetopTyped ==
  ASSUME StackOK, NEW name \in Names, NEW code \in Seq(Ops)
  PROVE  stack' = [stack EXCEPT ![Len(stack)].name = name, ![Len(stack)].code = code]
           => stack' \in Seq(Activations) /\ Retop(name, code)
<1>0. SUFFICES ASSUME stack' = [stack EXCEPT ![Len(stack)].name = name, ![Len(stack)].code = code]
               PROVE  stack' \in Seq(Activations) /\ Retop(name, code)
  OBVIOUS
<1>1. /\ Len(stack) \in 1 .. Len(stack) /\ Len(stack) \in Nat /\ stack \in Seq(Activations)
      /\ Top \in Activations
  BY TopTyped DEF StackOK
<1> DEFINE a == [Top EXCEPT !.name = name, !.code = code]
<1>2. a \in Activations BY <1>1 DEF Activations
<1>3. stack' = [stack EXCEPT ![Len(stack)] = a] BY <1>0, <1>1 DEF Top
<1> HIDE DEF a
<1> HIDE DEF Activations
<1>4. /\ stack' \in Seq(Activations) /\ Len(stack') = Len(stack) /\ stack'[Len(stack)] = a
      /\ \A i \in 1 .. Len(stack) - 1 : stack'[i] = stack[i]
  BY <1>1, <1>2, <1>3, LastReplaced
<1> QED BY <1>1, <1>4 DEF Retop, a

\* What the running code may do to the top of the stack.
LEMMA RetopStep ==
  ASSUME IInv, NEW name \in Names, NEW code \in Seq(Ops),
         stack' \in Seq(Activations), Retop(name, code),
         name = Top.name \/ name \in {"fail", "panic"},
         EndsProperly(code),
         name = "start" => ~Has(code, "iret"),
         name = "debug_exception" => ~Has(code, "surface.set"),
         name \notin {"start", "debug_exception"} =>
           /\ StopCode(code)
           /\ announced' \/ Has(code, "port.write")
           /\ surfaceUp' => painted' \/ Has(code, "surface.draw"),
         surfaceUp' \in BOOLEAN, announced' \in BOOLEAN, painted' \in BOOLEAN,
         announced => announced',
         \/ surfaceUp' => painted'
         \/ surfaceUp' = surfaceUp /\ painted' = painted
         \/ Len(stack) = 1,
         power' # "halted"
  PROVE  IInv'
<1> USE TopTyped DEF IInv
<1> DEFINE n == Len(stack)
<1>1. /\ n \in Nat /\ n >= 1 /\ Len(stack') = n
      /\ \A i \in 1 .. n - 1 : stack'[i] = stack[i]
      /\ Top \in Activations /\ Top = stack[n]
  BY DEF Retop, Top
<1>2. /\ stack'[n].name = name /\ stack'[n].code = code
      /\ stack'[n].clobbered = Top.clobbered
  <2>1. stack'[n] = [Top EXCEPT !.name = name, !.code = code] BY DEF Retop
  <2> QED BY <1>1, <2>1 DEF Activations
<1> HIDE DEF n
<1>3. \A i \in 1 .. n : i = n \/ i \in 1 .. n - 1 BY <1>1
<1>4. StackOK'
  <2>1. stack'[1].name # "debug_exception"
    <3>1. CASE n = 1
      <4>1. Top.name # "debug_exception" BY <1>1, <3>1 DEF StackOK
      <4> QED BY <1>2, <3>1, <4>1
    <3>2. CASE n # 1
      <4>1. 1 \in 1 .. n - 1 BY <1>1, <3>2
      <4> QED BY <1>1, <4>1 DEF StackOK
    <3> QED BY <3>1, <3>2
  <2>2. \A i \in 2 .. n : stack'[i].name # "start"
    BY <1>1, <1>2, <1>3 DEF StackOK, n
  <2> QED BY <1>1, <2>1, <2>2 DEF StackOK
<1>5. CodeOK'
  <2> SUFFICES ASSUME NEW i \in 1 .. n
               PROVE  /\ EndsProperly(stack'[i].code)
                      /\ stack'[i].name = "start" => ~Has(stack'[i].code, "iret")
                      /\ stack'[i].name = "debug_exception" => ~Has(stack'[i].code, "surface.set")
                      /\ Stopping(stack'[i]) => StopCode(stack'[i].code)
    BY <1>1 DEF CodeOK
  <2>1. CASE i = n BY <1>2, <2>1 DEF Stopping
  <2>2. CASE i \in 1 .. n - 1 BY <1>1, <2>2 DEF CodeOK, n
  <2> QED BY <1>3, <2>1, <2>2
<1>6. StopsExplain'
  <2> SUFFICES ASSUME NEW i \in 1 .. n, Stopping(stack'[i])
               PROVE  /\ announced' \/ Has(stack'[i].code, "port.write")
                      /\ surfaceUp' => painted' \/ Has(stack'[i].code, "surface.draw")
    BY <1>1 DEF StopsExplain
  <2>1. CASE i = n BY <1>2, <2>1 DEF Stopping
  <2>2. CASE i \in 1 .. n - 1
    <3>1. stack'[i] = stack[i] /\ n # 1 /\ i \in 1 .. n BY <1>1, <2>2
    <3>2. /\ announced \/ Has(stack[i].code, "port.write")
          /\ surfaceUp => painted \/ Has(stack[i].code, "surface.draw")
      BY <3>1 DEF StopsExplain, n
    <3> QED BY <3>1, <3>2 DEF n
  <2> QED BY <1>3, <2>1, <2>2
<1>7. OverwrittenIsBuried'
  <2> SUFFICES ASSUME NEW i \in 1 .. n, stack'[i].clobbered
               PROVE  \E j \in (i + 1) .. n : Stopping(stack'[j])
    BY <1>1 DEF OverwrittenIsBuried
  <2>1. stack[i].clobbered BY <1>1, <1>2, <1>3
  <2>2. PICK j \in (i + 1) .. n : Stopping(stack[j]) BY <2>1 DEF OverwrittenIsBuried, n
  <2>3. Stopping(stack'[j])
    <3>1. j \in 1 .. n BY <1>1
    <3> QED BY <1>1, <1>2, <1>3, <2>2, <3>1 DEF Stopping
  <2> QED BY <2>3
<1> QED BY <1>4, <1>5, <1>6, <1>7

\* The code that runs, and what is left of it once its first operation is
\* done.
LEMMA TopCode ==
  ASSUME IInv
  PROVE  /\ Top.code \in Seq(Ops) /\ Top.name \in Names /\ EndsProperly(Top.code)
         /\ Top.name = "start" => ~Has(Top.code, "iret") /\ Len(stack) = 1
         /\ Top.name = "debug_exception" => ~Has(Top.code, "surface.set") /\ Len(stack) > 1
         /\ Stopping(Top) =>
              /\ StopCode(Top.code)
              /\ announced \/ Has(Top.code, "port.write")
              /\ surfaceUp => painted \/ Has(Top.code, "surface.draw")
         /\ \A op : Top.code[1] = op => Has(Top.code, op)
<1>1. Len(stack) \in 1 .. Len(stack) /\ Len(stack) \in Nat BY TopTyped DEF IInv
<1>2. Top.code \in Seq(Ops) /\ Top.name \in Names BY TopTyped DEF IInv
<1>3. Top = stack[Len(stack)] BY DEF Top
<1>4. EndsProperly(Top.code) BY <1>1, <1>3 DEF IInv, CodeOK
<1>5. \A op : Top.code[1] = op => Has(Top.code, op)
  <2>1. Len(Top.code) > 0 BY <1>4 DEF EndsProperly
  <2>2. 1 \in 1 .. Len(Top.code) BY <1>2, <2>1
  <2> QED BY <2>2 DEF Has
<1>6. /\ Top.name = "start" => Len(stack) = 1
      /\ Top.name = "debug_exception" => Len(stack) > 1
  <2> DEFINE n == Len(stack)
  <2>1. /\ n \in Nat /\ n >= 1 /\ Top = stack[n] /\ stack[1].name # "debug_exception"
        /\ \A i \in 2 .. n : stack[i].name # "start"
    BY TopTyped DEF IInv, Top, StackOK
  <2> HIDE DEF n
  <2>2. Top.name = "start" => n = 1 BY <2>1
  <2>3. Top.name = "debug_exception" => n > 1 BY <2>1
  <2> QED BY <2>2, <2>3 DEF n
<1>7. /\ Top.name = "start" => ~Has(Top.code, "iret")
      /\ Top.name = "debug_exception" => ~Has(Top.code, "surface.set")
      /\ Stopping(Top) => StopCode(Top.code)
  BY <1>1, <1>3 DEF IInv, CodeOK
<1>8. Stopping(Top) =>
        /\ announced \/ Has(Top.code, "port.write")
        /\ surfaceUp => painted \/ Has(Top.code, "surface.draw")
  BY <1>1, <1>3 DEF IInv, StopsExplain
<1> QED BY <1>2, <1>4, <1>5, <1>6, <1>7, <1>8

\* Advance replaces the running activation's code by the rest of it.
LEMMA AdvanceIsRetop ==
  ASSUME IInv, Advance, Top.code[1] \notin {"halt", "iret"}
  PROVE  stack' \in Seq(Activations) /\ Retop(Top.name, Tail(Top.code))
<1>1. Tail(Top.code) \in Seq(Ops) BY TopCode, TailShape
<1>2. stack' = [stack EXCEPT ![Len(stack)].name = Top.name, ![Len(stack)].code = Tail(Top.code)]
  <2>1. Len(stack) \in DOMAIN stack /\ Top = stack[Len(stack)] /\ Top \in Activations
    BY TopTyped DEF IInv, Top, StackOK
  <2>2. stack' = [stack EXCEPT ![Len(stack)] = [Top EXCEPT !.code = Tail(Top.code)]]
    BY <2>1 DEF Advance
  <2>3. [Top EXCEPT !.code = Tail(Top.code)] = [Top EXCEPT !.name = Top.name, !.code = Tail(Top.code)]
    BY <2>1 DEF Activations
  <2> QED BY <2>1, <2>2, <2>3
<1> QED BY <1>1, <1>2, TopCode, RetopTyped DEF IInv

\* An operation of the running code that is done and left behind.
LEMMA AdvanceStep ==
  ASSUME IInv, Advance, Top.code[1] \notin {"halt", "iret"}, power' = "on",
         surfaceUp' \in BOOLEAN, announced' \in BOOLEAN, painted' \in BOOLEAN,
         announced => announced',
         Top.code[1] = "port.write" => announced',
         \/ surfaceUp' => painted'
         \/ surfaceUp' = surfaceUp /\ painted' = painted /\ Top.code[1] # "surface.draw"
         \/ Top.code[1] = "surface.set"
  PROVE  IInv'
<1> DEFINE code == Tail(Top.code)
<1>1. /\ code \in Seq(Ops) /\ EndsProperly(code)
      /\ \A op : Has(code, op) => Has(Top.code, op)
      /\ \A op : Has(Top.code, op) /\ Top.code[1] # op => Has(code, op)
      /\ SizeAfterMessage(Top.code) => SizeAfterMessage(code)
  BY TopCode, TailShape
<1>2. stack' \in Seq(Activations) /\ Retop(Top.name, code) BY AdvanceIsRetop
<1> HIDE DEF code
<1>3. Top.name = "start" => ~Has(code, "iret") BY <1>1, TopCode
<1>4. Top.name = "debug_exception" => ~Has(code, "surface.set") BY <1>1, TopCode
<1>5. Top.code[1] = "surface.set" => Len(stack) = 1 /\ ~Stopping(Top)
  BY TopCode DEF StopCode, Stopping
<1>6. ASSUME Top.name \notin {"start", "debug_exception"}
      PROVE  /\ StopCode(code)
             /\ announced' \/ Has(code, "port.write")
             /\ surfaceUp' => painted' \/ Has(code, "surface.draw")
  <2>1. Stopping(Top) BY <1>6 DEF Stopping
  <2>2. /\ StopCode(Top.code)
        /\ announced \/ Has(Top.code, "port.write")
        /\ surfaceUp => painted \/ Has(Top.code, "surface.draw")
    BY <2>1, TopCode
  <2>3. StopCode(code) BY <1>1, <2>2 DEF StopCode
  <2>4. announced' \/ Has(code, "port.write") BY <1>1, <2>2
  <2>5. surfaceUp' => painted' \/ Has(code, "surface.draw") BY <1>1, <1>5, <2>1, <2>2
  <2> QED BY <2>3, <2>4, <2>5
<1> QED BY <1>1, <1>2, <1>3, <1>4, <1>5, <1>6, TopCode, RetopStep

\* A stop takes over the top of the stack.
LEMMA StopStep ==
  ASSUME IInv, NEW name \in {"fail", "panic"}, NEW code, Explains(code),
         stack' = [stack EXCEPT ![Len(stack)].name = name, ![Len(stack)].code = code],
         power' # "halted", UNCHANGED <<surfaceUp, announced, painted>>
  PROVE  IInv'
<1>1. name \in Names /\ code \in Seq(Ops) BY DEF Names, Explains
<1>2. stack' \in Seq(Activations) /\ Retop(name, code) BY <1>1, RetopTyped DEF IInv
<1>3. /\ surfaceUp' \in BOOLEAN /\ announced' \in BOOLEAN /\ painted' \in BOOLEAN
      /\ surfaceUp' = surfaceUp /\ painted' = painted /\ announced' = announced
  BY DEF IInv, StackOK
<1>4. /\ EndsProperly(code) /\ name # "start" /\ name # "debug_exception"
      /\ StopCode(code) /\ Has(code, "port.write") /\ Has(code, "surface.draw")
  BY DEF Explains
<1>5. announced => announced' BY <1>3
<1> QED
  <2> HIDE DEF Names, Ops, Activations, EndsProperly, StopCode, Has, Retop, Explains, IInv
  <2> QED BY <1>1, <1>2, <1>3, <1>4, <1>5, RetopStep

\* A surface that does not exist: what is left is to let go of the lock and to
\* halt.
LEMMA NoSurfaceStep ==
  ASSUME IInv, power = "on", Top.code[1] = "surface.size", ~surfaceUp,
         UNCHANGED <<surfaceUp, announced, painted, power>>
  PROVE  stack' = [stack EXCEPT ![Len(stack)].code = <<"surface.unlock", "halt">>] => IInv'
<1>0. SUFFICES ASSUME stack' = [stack EXCEPT ![Len(stack)].code = <<"surface.unlock", "halt">>]
               PROVE  IInv'
  OBVIOUS
<1> DEFINE code == <<"surface.unlock", "halt">>
<1>1. /\ code \in Seq(Ops) /\ EndsProperly(code)
      /\ \A op : Has(code, op) => op \in {"surface.unlock", "halt"}
  BY DEF Ops, EndsProperly, Has
<1>2. stack' = [stack EXCEPT ![Len(stack)].name = Top.name, ![Len(stack)].code = code]
  <2>1. Len(stack) \in DOMAIN stack /\ Top = stack[Len(stack)] /\ Top \in Activations
    BY TopTyped DEF IInv, Top, StackOK
  <2>2. stack' = [stack EXCEPT ![Len(stack)] = [Top EXCEPT !.code = code]]
    BY <1>0, <2>1
  <2>3. [Top EXCEPT !.code = code] = [Top EXCEPT !.name = Top.name, !.code = code]
    BY <2>1 DEF Activations
  <2> HIDE DEF code
  <2> QED BY <2>1, <2>2, <2>3
<1> HIDE DEF code
<1>3. stack' \in Seq(Activations) /\ Retop(Top.name, code)
  BY <1>1, <1>2, TopCode, RetopTyped DEF IInv
<1>4. Stopping(Top) => announced
  <2> SUFFICES ASSUME Stopping(Top), ~announced PROVE FALSE OBVIOUS
  <2>1. SizeAfterMessage(Top.code) /\ Has(Top.code, "port.write") BY TopCode DEF StopCode
  <2>2. PICK j \in 1 .. Len(Top.code) : Top.code[j] = "port.write" BY <2>1 DEF Has
  <2>3. 1 \in 1 .. Len(Top.code) /\ j # 1 /\ 1 < j BY <2>2, TopCode
  <2> QED BY <2>1, <2>2, <2>3 DEF SizeAfterMessage
<1>5. StopCode(code)
  <2>1. ~Has(code, "iret") /\ ~Has(code, "surface.set") /\ ~Has(code, "port.write") BY <1>1
  <2> QED BY <2>1 DEF StopCode, SizeAfterMessage, Has
<1>6. /\ surfaceUp' \in BOOLEAN /\ announced' \in BOOLEAN /\ painted' \in BOOLEAN
      /\ surfaceUp' = surfaceUp /\ painted' = painted /\ announced' = announced
  BY DEF IInv, StackOK
<1>7. ~Has(code, "iret") /\ ~Has(code, "surface.set") BY <1>5 DEF StopCode
<1>8. power' # "halted" /\ EndsProperly(code) /\ code \in Seq(Ops) /\ Top.name \in Names
  BY <1>1, TopCode
<1>9. Top.name \notin {"start", "debug_exception"} =>
        /\ StopCode(code)
        /\ announced' \/ Has(code, "port.write")
        /\ surfaceUp' => painted' \/ Has(code, "surface.draw")
  BY <1>4, <1>5, <1>6 DEF Stopping
<1> QED BY <1>3, <1>6, <1>7, <1>8, <1>9, RetopStep

\* A handler that starts from the top of an emergency stack never returns.
LEMMA HandlerShape ==
  ASSUME NEW h \in Handlers
  PROVE  /\ h \in Names /\ h # "start" /\ Ist(h) \in 0 .. 3
         /\ Ist(h) # 0 => h # "debug_exception"
         /\ HandlerCode(h) \in Seq(Ops) /\ EndsProperly(HandlerCode(h))
         /\ h = "debug_exception" => ~Has(HandlerCode(h), "surface.set")
         /\ h # "debug_exception" => Explains(HandlerCode(h))
<1>1. h \in Names /\ h # "start" BY DEF Names, Handlers
<1>2. Ist(h) \in 0 .. 3 /\ (Ist(h) # 0 => h # "debug_exception") BY DEF Ist, Handlers
<1>3. CASE h = "debug_exception" BY <1>1, <1>2, <1>3, DebugCode DEF HandlerCode
<1>4. CASE h # "debug_exception" BY <1>1, <1>2, <1>4, FailExplains DEF HandlerCode, Explains
<1> QED BY <1>3, <1>4

\* The stack with one more activation on it.
LEMMA PushShape ==
  ASSUME StackOK, NEW h \in Handlers
  PROVE  stack' = Push(h) =>
           /\ stack' \in Seq(Activations) /\ Len(stack') = Len(stack) + 1
           /\ \A i \in 1 .. Len(stack) :
                /\ stack'[i].name = stack[i].name /\ stack'[i].code = stack[i].code
                /\ stack'[i].clobbered => stack[i].clobbered \/ Ist(h) # 0
           /\ stack'[Len(stack) + 1].name = h /\ stack'[Len(stack) + 1].code = HandlerCode(h)
           /\ stack'[Len(stack) + 1].clobbered = FALSE
<1> DEFINE n == Len(stack)
           slot == IF Ist(h) = 0 THEN Top.slot ELSE Ist(h)
           new == Activation(h, HandlerCode(h), slot)
           K(i) == [stack[i] EXCEPT !.clobbered = @ \/ (Ist(h) # 0 /\ stack[i].slot = Ist(h))]
           kept == [i \in 1 .. n |-> K(i)]
<1>1. n \in Nat /\ (\A i \in 1 .. n : stack[i] \in Activations) /\ Top \in Activations
  BY TopTyped
<1>2. new \in Activations /\ new.name = h /\ new.code = HandlerCode(h) /\ new.clobbered = FALSE
  <2>1. slot \in 0 .. 3 BY <1>1, HandlerShape DEF Activations
  <2> HIDE DEF slot
  <2> QED BY <2>1, HandlerShape DEF Activation, Activations
<1>3. ASSUME NEW i \in 1 .. n
      PROVE  /\ K(i) \in Activations /\ K(i).name = stack[i].name /\ K(i).code = stack[i].code
             /\ K(i).clobbered => stack[i].clobbered \/ Ist(h) # 0
  <2>1. stack[i] \in Activations BY <1>1
  <2>2. K(i).clobbered = (stack[i].clobbered \/ (Ist(h) # 0 /\ stack[i].slot = Ist(h)))
    BY <2>1 DEF Activations
  <2>3. K(i).clobbered \in BOOLEAN BY <2>2
  <2>4. K(i) \in Activations /\ K(i).name = stack[i].name /\ K(i).code = stack[i].code
    BY <2>1, <2>2, <2>3 DEF Activations
  <2> QED BY <2>2, <2>4
<1>4. Push(h) = Append(kept, new) BY DEF Push
<1> HIDE DEF K, new, n, slot
<1>5. kept \in Seq(Activations) /\ Len(kept) = n /\ \A i \in 1 .. n : kept[i] = K(i)
  BY <1>1, <1>3
<1> HIDE DEF kept
<1>6. SUFFICES ASSUME stack' = Append(kept, new)
               PROVE  /\ stack' \in Seq(Activations) /\ Len(stack') = n + 1
                      /\ \A i \in 1 .. n :
                           /\ stack'[i].name = stack[i].name /\ stack'[i].code = stack[i].code
                           /\ stack'[i].clobbered => stack[i].clobbered \/ Ist(h) # 0
                      /\ stack'[n + 1].name = h /\ stack'[n + 1].code = HandlerCode(h)
                      /\ stack'[n + 1].clobbered = FALSE
  BY <1>4 DEF n
<1>7. /\ stack' \in Seq(Activations) /\ Len(stack') = n + 1
      /\ \A i \in 1 .. n : stack'[i] = kept[i]
      /\ stack'[n + 1] = new
  BY <1>1, <1>2, <1>5, <1>6, AppendProperties
<1> QED BY <1>2, <1>3, <1>5, <1>7

\* An exception puts a handler on top.
LEMMA RaiseStep ==
  ASSUME IInv, NEW h \in Exceptions, Raise(h)
  PROVE  IInv'
<1> DEFINE n == Len(stack)
<1>0. h \in Handlers BY KernelStopAssumption
<1>1. /\ stack' \in Seq(Activations) /\ Len(stack') = n + 1
      /\ \A i \in 1 .. n :
           /\ stack'[i].name = stack[i].name /\ stack'[i].code = stack[i].code
           /\ stack'[i].clobbered => stack[i].clobbered \/ Ist(h) # 0
      /\ stack'[n + 1].name = h /\ stack'[n + 1].code = HandlerCode(h)
      /\ stack'[n + 1].clobbered = FALSE
  BY <1>0, PushShape DEF Raise, IInv
<1>2. n \in Nat /\ n >= 1 BY TopTyped DEF IInv
<1>3. /\ surfaceUp' = surfaceUp /\ announced' = announced /\ painted' = painted
      /\ surfaceUp' \in BOOLEAN /\ announced' \in BOOLEAN /\ painted' \in BOOLEAN
      /\ power' = "on"
  BY DEF Raise, IInv, StackOK
<1>4. /\ stack[1].name # "debug_exception"
      /\ \A i \in 2 .. n : stack[i].name # "start"
  BY DEF IInv, StackOK
<1>5. \A i \in 1 .. n :
        /\ EndsProperly(stack[i].code)
        /\ stack[i].name = "start" => ~Has(stack[i].code, "iret")
        /\ stack[i].name = "debug_exception" => ~Has(stack[i].code, "surface.set")
        /\ Stopping(stack[i]) =>
             /\ StopCode(stack[i].code)
             /\ announced \/ Has(stack[i].code, "port.write")
             /\ surfaceUp => painted \/ Has(stack[i].code, "surface.draw")
        /\ stack[i].clobbered => \E j \in (i + 1) .. n : Stopping(stack[j])
  BY DEF IInv, CodeOK, StopsExplain, OverwrittenIsBuried
<1> HIDE DEF n
<1>6. \A i \in 1 .. n + 1 : i \in 1 .. n \/ i = n + 1 BY <1>2
<1>7. \A i \in 1 .. n : Stopping(stack'[i]) <=> Stopping(stack[i]) BY <1>1 DEF Stopping
<1>8. StackOK'
  <2>1. 1 \in 1 .. n /\ \A i \in 2 .. n + 1 : i \in 2 .. n \/ i = n + 1 BY <1>2
  <2>2. \A i \in 2 .. n : i \in 1 .. n BY <1>2
  <2>3. stack'[1].name # "debug_exception" BY <1>1, <1>4, <2>1
  <2>4. \A i \in 2 .. n + 1 : stack'[i].name # "start" BY <1>0, <1>1, <1>4, <2>1, <2>2, HandlerShape
  <2>5. Len(stack') > 0 /\ power' # "halted" BY <1>1, <1>2, <1>3
  <2> QED BY <1>1, <1>3, <2>3, <2>4, <2>5 DEF StackOK
<1>9. CodeOK'
  <2> SUFFICES ASSUME NEW i \in 1 .. n + 1
               PROVE  /\ EndsProperly(stack'[i].code)
                      /\ stack'[i].name = "start" => ~Has(stack'[i].code, "iret")
                      /\ stack'[i].name = "debug_exception" => ~Has(stack'[i].code, "surface.set")
                      /\ Stopping(stack'[i]) => StopCode(stack'[i].code)
    BY <1>1 DEF CodeOK
  <2>1. CASE i \in 1 .. n BY <1>1, <1>5, <1>7, <2>1
  <2>2. CASE i = n + 1 BY <1>0, <1>1, <2>2, HandlerShape DEF Stopping, Explains
  <2> QED BY <1>6, <2>1, <2>2
<1>10. StopsExplain'
  <2> SUFFICES ASSUME NEW i \in 1 .. n + 1, Stopping(stack'[i])
               PROVE  /\ announced' \/ Has(stack'[i].code, "port.write")
                      /\ surfaceUp' => painted' \/ Has(stack'[i].code, "surface.draw")
    BY <1>1 DEF StopsExplain
  <2>1. CASE i \in 1 .. n BY <1>1, <1>3, <1>5, <1>7, <2>1
  <2>2. CASE i = n + 1 BY <1>0, <1>1, <2>2, HandlerShape DEF Stopping, Explains
  <2> QED BY <1>6, <2>1, <2>2
<1>11. OverwrittenIsBuried'
  <2> SUFFICES ASSUME NEW i \in 1 .. n + 1, stack'[i].clobbered
               PROVE  \E j \in (i + 1) .. n + 1 : Stopping(stack'[j])
    BY <1>1 DEF OverwrittenIsBuried
  <2>1. i \in 1 .. n BY <1>1, <1>6
  <2>2. CASE Ist(h) # 0
    <3>1. Stopping(stack'[n + 1]) BY <1>0, <1>1, <2>2, HandlerShape DEF Stopping
    <3>2. n + 1 \in (i + 1) .. n + 1 BY <1>2, <2>1
    <3> QED BY <3>1, <3>2
  <2>3. CASE Ist(h) = 0
    <3>1. stack[i].clobbered BY <1>1, <2>1, <2>3
    <3>2. PICK j \in (i + 1) .. n : Stopping(stack[j]) BY <1>5, <2>1, <3>1
    <3>3. j \in 1 .. n /\ j \in (i + 1) .. n + 1 BY <1>2, <2>1
    <3> QED BY <1>7, <3>2, <3>3
  <2> QED BY <2>2, <2>3
<1> QED BY <1>8, <1>9, <1>10, <1>11 DEF IInv

\* Only the debug handler returns, to something beneath it.
LEMMA IretShape ==
  ASSUME IInv, Iret
  PROVE  /\ ~Stopping(Top) /\ power = "on" /\ Len(stack) > 1
         /\ stack' \in Seq(Activations) /\ Len(stack') = Len(stack) - 1
         /\ \A i \in 1 .. Len(stack) - 1 : stack'[i] = stack[i]
<1>1. Top.code[1] = "iret" /\ power = "on" /\ stack' = SubSeq(stack, 1, Len(stack) - 1)
  BY DEF Iret, At
<1>2. ~Stopping(Top) /\ Top.name = "debug_exception"
  BY <1>1, TopCode DEF Stopping, StopCode
<1>3. Len(stack) > 1 BY <1>2, TopCode
<1> DEFINE n == Len(stack)
<1>4. /\ n \in Nat /\ n > 1 /\ stack \in Seq(Activations)
      /\ \A i \in 1 .. n - 1 : stack[i] \in Activations
  BY <1>3, TopTyped DEF IInv, StackOK
<1>5. stack' = SubSeq(stack, 1, n - 1) BY <1>1
<1> HIDE DEF n
<1>6. /\ stack' \in Seq(Activations) /\ Len(stack') = n - 1
      /\ \A i \in 1 .. n - 1 : stack'[i] = stack[i]
  BY <1>4, <1>5, SubSeqProperties
<1> QED BY <1>1, <1>2, <1>3, <1>6 DEF n

\* The debug handler is gone and what it interrupted is intact.
LEMMA IretStep ==
  ASSUME IInv, Iret
  PROVE  IInv'
<1> DEFINE n == Len(stack)
<1>1. /\ ~Stopping(stack[n]) /\ n > 1 /\ n \in Nat
      /\ stack' \in Seq(Activations) /\ Len(stack') = n - 1
      /\ \A i \in 1 .. n - 1 : stack'[i] = stack[i]
  BY IretShape, TopTyped DEF Top, IInv
<1>2. /\ surfaceUp' = surfaceUp /\ announced' = announced /\ painted' = painted
      /\ surfaceUp' \in BOOLEAN /\ announced' \in BOOLEAN /\ painted' \in BOOLEAN
      /\ power' # "halted"
  BY IretShape DEF Iret, IInv, StackOK
<1>3. /\ stack[1].name # "debug_exception" /\ \A i \in 2 .. n : stack[i].name # "start"
  BY DEF IInv, StackOK
<1>4. \A i \in 1 .. n :
        /\ EndsProperly(stack[i].code)
        /\ stack[i].name = "start" => ~Has(stack[i].code, "iret")
        /\ stack[i].name = "debug_exception" => ~Has(stack[i].code, "surface.set")
        /\ Stopping(stack[i]) =>
             /\ StopCode(stack[i].code)
             /\ announced \/ Has(stack[i].code, "port.write")
             /\ surfaceUp => painted \/ Has(stack[i].code, "surface.draw")
        /\ stack[i].clobbered => \E j \in (i + 1) .. n : Stopping(stack[j])
  BY DEF IInv, CodeOK, StopsExplain, OverwrittenIsBuried
<1> HIDE DEF n
<1>5. \A i \in 1 .. n - 1 : i \in 1 .. n BY <1>1
<1>6. StackOK'
  <2>1. 1 \in 1 .. n - 1 /\ \A i \in 2 .. n - 1 : i \in 1 .. n - 1 /\ i \in 2 .. n BY <1>1
  <2>2. Len(stack') > 0 BY <1>1
  <2> QED BY <1>1, <1>2, <1>3, <2>1, <2>2 DEF StackOK
<1>7. CodeOK' /\ StopsExplain' BY <1>1, <1>2, <1>4, <1>5 DEF CodeOK, StopsExplain
<1>8. OverwrittenIsBuried'
  <2> SUFFICES ASSUME NEW i \in 1 .. n - 1, stack[i].clobbered
               PROVE  \E j \in (i + 1) .. n - 1 : Stopping(stack'[j])
    BY <1>1 DEF OverwrittenIsBuried
  <2>1. PICK j \in (i + 1) .. n : Stopping(stack[j]) BY <1>4, <1>5
  <2>2. j \in (i + 1) .. n - 1 /\ j \in 1 .. n - 1 BY <1>1, <2>1
  <2> QED BY <1>1, <2>1, <2>2
<1> QED BY <1>6, <1>7, <1>8 DEF IInv

\* The stack, the screen and the message stay; the processor may stop at a halt.
LEMMA QuietStep ==
  ASSUME IInv, UNCHANGED <<stack, surfaceUp, announced, painted>>,
         power' = "halted" => Top.code[1] = "halt"
  PROVE  IInv'
BY DEF IInv, StackOK, CodeOK, StopsExplain, OverwrittenIsBuried, Top

\* The boot path's first state.
LEMMA InitIInv == Init => IInv
<1> SUFFICES ASSUME Init PROVE IInv OBVIOUS
<1>1. PICK b \in BOOLEAN : stack = <<Activation("start", Start(b), 0)>> BY DEF Init
<1> DEFINE a == Activation("start", Start(b), 0)
<1>2. a \in Activations /\ a.name = "start" /\ a.code = Start(b) /\ a.clobbered = FALSE
  BY StartShape DEF Activation, Activations, Names
<1>3. stack = <<a>> BY <1>1
<1> HIDE DEF a
<1>4. /\ stack \in Seq(Activations) /\ Len(stack) = 1 /\ stack[1] = a
      /\ \A i \in 1 .. Len(stack) : stack[i] = a
      /\ \A i \in 2 .. Len(stack) : FALSE
  <2> HIDE DEF Activations
  <2> QED BY <1>2, <1>3
<1>5. StackOK
  <2>1. surfaceUp \in BOOLEAN /\ announced \in BOOLEAN /\ painted \in BOOLEAN /\ power # "halted"
    BY DEF Init
  <2>2. Len(stack) > 0 /\ stack[1].name # "debug_exception" BY <1>2, <1>4
  <2>3. stack \in Seq(Activations) /\ \A i \in 2 .. Len(stack) : stack[i].name # "start" BY <1>4
  <2> QED BY <2>1, <2>2, <2>3 DEF StackOK
<1>6. CodeOK /\ StopsExplain /\ OverwrittenIsBuried
  BY <1>2, <1>4, StartShape DEF CodeOK, StopsExplain, OverwrittenIsBuried, Stopping
<1> QED BY <1>5, <1>6 DEF IInv

\* Every step keeps the invariant.
LEMMA NextIInv == IInv /\ [Next]_vars => IInv'
<1> SUFFICES ASSUME IInv, [Next]_vars PROVE IInv' OBVIOUS
<1>0. surfaceUp \in BOOLEAN /\ announced \in BOOLEAN /\ painted \in BOOLEAN BY DEF IInv, StackOK
<1>1. CASE LockSerial \/ UseSerial \/ UnlockSerial \/ LockSurface \/ UnlockSurface
  <2>1. /\ Advance /\ power' = "on" /\ UNCHANGED <<surfaceUp, announced, painted>>
        /\ Top.code[1] \in {"serial.lock", "serial.init", "serial.write", "serial.unlock",
                            "surface.lock", "surface.unlock"}
    BY <1>1 DEF LockSerial, UseSerial, UnlockSerial, LockSurface, UnlockSurface, At, machineVars
  <2> QED BY <1>0, <2>1, AdvanceStep
<1>2. CASE WriteUnlocked
  <2>1. /\ Advance /\ power' = "on" /\ UNCHANGED <<surfaceUp, painted>> /\ announced' = TRUE
        /\ Top.code[1] = "port.write"
    BY <1>2 DEF WriteUnlocked, At
  <2> QED BY <1>0, <2>1, AdvanceStep
<1>3. CASE SizeSurface
  <2>1. power = "on" /\ Top.code[1] = "surface.size" /\ UNCHANGED <<surfaceUp, announced, painted, power>>
    BY <1>3 DEF SizeSurface, At, machineVars
  <2>2. CASE surfaceUp
    <3>1. Advance BY <1>3, <2>2 DEF SizeSurface
    <3> QED BY <1>0, <2>1, <3>1, AdvanceStep
  <2>3. CASE ~surfaceUp
    <3>1. stack' = [stack EXCEPT ![Len(stack)].code = <<"surface.unlock", "halt">>]
      BY <1>3, <2>3 DEF SizeSurface
    <3> QED BY <2>1, <2>3, <3>1, NoSurfaceStep
  <2> QED BY <2>2, <2>3
<1>4. CASE DrawSurface
  <2>1. /\ Advance /\ power' = "on" /\ surfaceUp' = surfaceUp /\ announced' = announced
        /\ painted' = surfaceUp /\ Top.code[1] = "surface.draw"
    BY <1>4 DEF DrawSurface, At
  <2> QED BY <1>0, <2>1, AdvanceStep
<1>5. CASE SetSurface
  <2>1. /\ Advance /\ power' = "on" /\ surfaceUp' = TRUE /\ announced' = announced
        /\ painted' = painted /\ Top.code[1] = "surface.set"
    BY <1>5 DEF SetSurface, At
  <2> QED BY <1>0, <2>1, AdvanceStep
<1>6. CASE Check
  <2>1. /\ power = "on" /\ power' = "on" /\ UNCHANGED <<surfaceUp, announced, painted>>
        /\ Top.code[1] \in {"check.null", "check"}
    BY <1>6 DEF Check, At, machineVars
  <2>2. CASE Advance BY <1>0, <2>1, <2>2, AdvanceStep
  <2>3. ASSUME NEW code, code \in {Fail, Log \o Fail},
               stack' = [stack EXCEPT ![Len(stack)].name = "fail", ![Len(stack)].code = code]
        PROVE  IInv'
    <3>1. Explains(code) BY <2>3, FailExplains
    <3> QED BY <2>1, <2>3, <3>1, StopStep
  <2>4. Advance \/ \E code \in {Fail, Log \o Fail} :
          stack' = [stack EXCEPT ![Len(stack)].name = "fail", ![Len(stack)].code = code]
    BY <1>6 DEF Check
  <2> QED BY <2>2, <2>3, <2>4
<1>7. CASE LoadTables
  <2>1. /\ Advance /\ power' = "on" /\ UNCHANGED <<surfaceUp, announced, painted>>
        /\ Top.code[1] = "tables.load"
    BY <1>7 DEF LoadTables, At
  <2> QED BY <1>0, <2>1, AdvanceStep
<1>8. CASE Halt BY <1>8, QuietStep DEF Halt, At
<1>9. CASE Iret BY <1>9, IretStep
<1>10. CASE Panic
  <2>1. /\ power' # "halted" /\ UNCHANGED <<surfaceUp, announced, painted>>
        /\ stack' = [stack EXCEPT ![Len(stack)].name = "panic", ![Len(stack)].code = PanicScreen]
    BY <1>10 DEF Panic, machineVars
  <2> QED BY <2>1, PanicScreenExplains, StopStep
<1>11. ASSUME NEW h \in Exceptions, Raise(h) PROVE IInv' BY <1>11, RaiseStep
<1>12. ASSUME NEW h \in Exceptions, TripleFault(h) PROVE IInv'
  BY <1>12, QuietStep DEF TripleFault
<1>13. CASE UNCHANGED vars
  <2>1. UNCHANGED <<stack, surfaceUp, announced, painted>> /\ power' = power
    BY <1>13 DEF vars
  <2>2. power' = "halted" => Top.code[1] = "halt" BY <2>1 DEF IInv, StackOK
  <2> QED BY <2>1, <2>2, QuietStep
<1> QED
  BY <1>1, <1>2, <1>3, <1>4, <1>5, <1>6, <1>7, <1>8, <1>9, <1>10, <1>11, <1>12, <1>13
     DEF Next, Run, Fault

-----------------------------------------------------------------------------
(* What lies under a stop. *)

\* Every activation but the running one keeps the code it has left.
BeneathKept ==
  /\ Len(stack') >= Len(stack)
  /\ \A i \in 1 .. Len(stack) - 1 : stack'[i].code = stack[i].code

\* The body of NothingContinuesUnderAStop.
NothingContinues ==
  \A i \in 1 .. Len(stack) :
    Stopping(stack[i]) =>
      /\ Len(stack') >= i
      /\ \A j \in 1 .. (i - 1) : stack'[j].code = stack[j].code

\* A step that changes the top of the stack only.
LEMMA TopOnly ==
  ASSUME IInv, NEW e
  PROVE  stack' = [stack EXCEPT ![Len(stack)] = e] => BeneathKept
<1>0. SUFFICES ASSUME stack' = [stack EXCEPT ![Len(stack)] = e] PROVE BeneathKept OBVIOUS
<1>1. stack \in Seq(Activations) /\ Len(stack) \in Nat BY TopTyped DEF IInv, StackOK
<1>2. Len(stack') = Len(stack) /\ \A i \in 1 .. Len(stack) - 1 : stack'[i] = stack[i]
  <2> HIDE DEF Activations
  <2> QED BY <1>0, <1>1
<1> QED BY <1>1, <1>2 DEF BeneathKept

\* An operation done.
LEMMA AdvanceKeeps ==
  ASSUME IInv, Advance
  PROVE  BeneathKept
<1>0. Top \in Activations /\ Len(stack) \in DOMAIN stack /\ stack[Len(stack)] = Top
  BY TopTyped DEF IInv, Top, StackOK
<1>1. stack' = [stack EXCEPT ![Len(stack)] = [Top EXCEPT !.code = Tail(Top.code)]]
  BY <1>0 DEF Advance
<1> QED BY <1>1, TopOnly

\* A stop taking over the top.
LEMMA TakeoverKeeps ==
  ASSUME IInv, NEW name \in Names, NEW code \in Seq(Ops)
  PROVE  stack' = [stack EXCEPT ![Len(stack)].name = name, ![Len(stack)].code = code]
           => BeneathKept
<1>0. SUFFICES ASSUME stack' = [stack EXCEPT ![Len(stack)].name = name, ![Len(stack)].code = code]
               PROVE  BeneathKept
  OBVIOUS
<1>1. Len(stack) \in Nat BY TopTyped DEF IInv
<1>2. Retop(name, code) BY <1>0, RetopTyped DEF IInv
<1>3. Len(stack') = Len(stack) /\ \A i \in 1 .. Len(stack) - 1 : stack'[i] = stack[i]
  BY <1>2 DEF Retop
<1> QED BY <1>1, <1>3 DEF BeneathKept

\* Nothing but the return of the debug handler takes an activation away, and
\* no step touches code beneath the running one.
LEMMA StepKeeps ==
  ASSUME IInv, Next
  PROVE  BeneathKept \/ Iret
<1>0. Len(stack) \in Nat BY TopTyped DEF IInv
<1>1. CASE Advance BY <1>1, AdvanceKeeps
<1>2. CASE stack' = stack BY <1>0, <1>2 DEF BeneathKept
<1>3. CASE SizeSurface
  <2>1. Advance \/ stack' = [stack EXCEPT ![Len(stack)].code = <<"surface.unlock", "halt">>]
    BY <1>3 DEF SizeSurface
  <2>2. ASSUME stack' = [stack EXCEPT ![Len(stack)].code = <<"surface.unlock", "halt">>]
        PROVE  BeneathKept
    <3>0. Len(stack) \in DOMAIN stack BY TopTyped DEF IInv, StackOK
    <3>1. stack' = [stack EXCEPT ![Len(stack)] =
                      [stack[Len(stack)] EXCEPT !.code = <<"surface.unlock", "halt">>]]
      BY <2>2, <3>0
    <3> QED BY <3>1, TopOnly
  <2> QED BY <1>1, <2>1, <2>2
<1>4. CASE Check
  <2>1. Advance \/ \E code \in {Fail, Log \o Fail} :
          stack' = [stack EXCEPT ![Len(stack)].name = "fail", ![Len(stack)].code = code]
    BY <1>4 DEF Check
  <2>2. ASSUME NEW code \in {Fail, Log \o Fail}
        PROVE  code \in Seq(Ops) /\ "fail" \in Names
    BY FailExplains DEF Explains, Names
  <2> QED BY <1>1, <2>1, <2>2, TakeoverKeeps
<1>5. CASE Panic
  <2>1. stack' = [stack EXCEPT ![Len(stack)].name = "panic", ![Len(stack)].code = PanicScreen]
    BY <1>5 DEF Panic
  <2>2. PanicScreen \in Seq(Ops) /\ "panic" \in Names BY PanicScreenExplains DEF Explains, Names
  <2> QED BY <2>1, <2>2, TakeoverKeeps
<1>6. ASSUME NEW h \in Exceptions, Raise(h) PROVE BeneathKept
  <2>1. h \in Handlers /\ stack' = Push(h) BY <1>6, KernelStopAssumption DEF Raise
  <2>2. /\ Len(stack') = Len(stack) + 1
        /\ \A i \in 1 .. Len(stack) : stack'[i].code = stack[i].code
    BY <2>1, PushShape DEF IInv
  <2> QED BY <1>0, <2>2 DEF BeneathKept
<1>7. \/ Advance \/ SizeSurface \/ Check \/ Iret \/ stack' = stack \/ Panic
      \/ \E h \in Exceptions : Raise(h)
  BY DEF Next, Run, Fault, LockSerial, UseSerial, UnlockSerial, WriteUnlocked, LockSurface,
         DrawSurface, SetSurface, UnlockSurface, LoadTables, Halt, TripleFault
<1> QED BY <1>1, <1>2, <1>3, <1>4, <1>5, <1>6, <1>7

\* No step lets anything beneath a stop continue.
LEMMA NextContinuesNothing == IInv /\ Next => NothingContinues
<1> SUFFICES ASSUME IInv, Next PROVE NothingContinues OBVIOUS
<1> DEFINE n == Len(stack)
<1>1. n \in Nat /\ n >= 1 BY TopTyped DEF IInv
<1>2. CASE BeneathKept
  <2>1. Len(stack') >= n /\ \A i \in 1 .. n - 1 : stack'[i].code = stack[i].code
    BY <1>2 DEF BeneathKept
  <2>2. Len(stack') \in Nat
    <3>1. IInv' BY NextIInv
    <3> QED BY <3>1 DEF IInv, StackOK
  <2> HIDE DEF n
  <2>3. \A i \in 1 .. n : Len(stack') >= i /\ \A j \in 1 .. i - 1 : stack'[j].code = stack[j].code
    BY <1>1, <2>1, <2>2
  <2> QED BY <2>3 DEF NothingContinues, n
<1>3. CASE Iret
  <2>1. /\ ~Stopping(stack[n]) /\ Len(stack') = n - 1
        /\ \A i \in 1 .. n - 1 : stack'[i] = stack[i]
    BY <1>3, IretShape DEF Top
  <2> HIDE DEF n
  <2>2. \A i \in 1 .. n : Stopping(stack[i]) =>
          Len(stack') >= i /\ \A j \in 1 .. i - 1 : stack'[j].code = stack[j].code
    BY <1>1, <2>1
  <2> QED BY <2>2 DEF NothingContinues, n
<1> QED BY <1>2, <1>3, StepKeeps

-----------------------------------------------------------------------------
(* The theorems. *)

\* The invariant of every behaviour.
LEMMA IInvHolds == Spec => []IInv
BY InitIInv, NextIInv, PTL DEF Spec

\* A machine that has halted on a stop path has said why on the serial line
\* and, if there is a framebuffer, on the screen, whatever struck on the way
\* (idt.rs and main.rs of the kernel: "say what happened ... and then stop").
THEOREM HaltsAreExplained == Spec => []HaltIsExplained
<1>1. IInv => HaltIsExplained
  <2> SUFFICES ASSUME IInv, power = "halted", Stopping(Top)
               PROVE  announced /\ (surfaceUp => painted)
    BY DEF HaltIsExplained
  <2>1. Top.code[1] = "halt" BY DEF IInv, StackOK
  <2>2. Len(Top.code) \in Nat /\ Len(Top.code) > 0 /\ ~(1 \in 1 .. Len(Top.code) - 1)
    BY <2>1, TopCode DEF EndsProperly
  <2>3. \A op : Has(Top.code, op) => op = "halt" BY <2>1, <2>2 DEF Has
  <2> QED BY <2>3, TopCode
<1> QED BY <1>1, IInvHolds, PTL

\* No activation runs on a stack that a later handler has started from the top
\* of (gdt.rs: each of the emergency stacks is one handler's).
THEOREM StacksStayIntact == Spec => []NeverRunsOnOverwrittenStack
<1>1. IInv => NeverRunsOnOverwrittenStack
  <2> SUFFICES ASSUME IInv, Top.clobbered PROVE FALSE BY DEF NeverRunsOnOverwrittenStack
  <2> DEFINE n == Len(stack)
  <2>1. n \in Nat /\ n >= 1 /\ stack[n].clobbered BY TopTyped DEF IInv, Top
  <2>2. \E j \in (n + 1) .. n : Stopping(stack[j]) BY <2>1 DEF IInv, OverwrittenIsBuried
  <2> HIDE DEF n
  <2> QED BY <2>1, <2>2
<1> QED BY <1>1, IInvHolds, PTL

\* After a fault that stops the kernel nothing beneath it executes another
\* operation, whatever strikes next (idt.rs: a kernel that continues after an
\* unexpected exception will corrupt something).
THEOREM NothingRunsUnderAStop == Spec => NothingContinuesUnderAStop
<1>1. IInv /\ [Next]_vars => [NothingContinues]_vars BY NextContinuesNothing
<1>2. Spec => [][NothingContinues]_vars BY <1>1, IInvHolds, PTL DEF Spec
<1> QED BY <1>2 DEF NothingContinuesUnderAStop, NothingContinues

=============================================================================
