------------------------------ MODULE BootTest ------------------------------
(***************************************************************************)
(* cargo xtask boot-test (tools/xtask, qemu.rs): the ISO is booted under   *)
(* QEMU and the serial log is polled until the kernel has come up, has     *)
(* failed, or time runs out.                                               *)
(*                                                                         *)
(* The guest, QEMU, the clock and the test run concurrently.  When the     *)
(* test is killed its QEMU lives on and keeps writing to the log it has    *)
(* open.  serial.log is a directory entry: a log that has been removed is  *)
(* still written to and no longer read.                                    *)
(***************************************************************************)
EXTENDS ImageBuild, Sequences

CONSTANTS
  STAGES,         \* BOOT_STAGES.len()
  MARKERS         \* FAILURE_MARKERS.len()

ASSUME BootTestAssumption == STAGES \in Nat /\ MARKERS \in Nat \ {0}

VARIABLES
  guest,          \* for each invocation, its QEMU and what it wrote
  booted,         \* the image this invocation's QEMU was given
  writers,        \* the invocations whose QEMU has opened serial.log; {}: no such file
  log,            \* what serial.log holds
  expired,        \* the timeout has elapsed
  watch,          \* where the watch loop is, and what it read last
  outcome         \* what the invocation reports

testVars == <<guest, booted, writers, log, expired, watch, outcome>>
vars == <<buildVars, testVars>>

\* A log is a set of lines: a stage that is reached, the end of the
\* initialisation, a failure.
Stage(n) == <<"stage", n>>
Success == <<"success", 0>>
Failure(m) == <<"failure", m>>
Lines == {Stage(n) : n \in 1 .. STAGES} \cup {Success} \cup {Failure(m) : m \in 1 .. MARKERS}
Failures(lines) == {m \in 1 .. MARKERS : Failure(m) \in lines}

NoGuest == [qemu |-> "none", wrote |-> {}]
NoOutcome == [succeeded |-> FALSE, reached |-> 0, failure |-> <<"None", 0>>, serial |-> {}]
NotWatching == [at |-> "away", serial |-> {}, reached |-> 0]

Init ==
  /\ BuildInit
  /\ guest = [r \in 1 .. MAX_RUNS |-> NoGuest]
  /\ booted = Absent
  /\ writers = {}
  /\ log = {}
  /\ expired = FALSE
  /\ watch = NotWatching
  /\ outcome = NoOutcome

-----------------------------------------------------------------------------
(* The machine. *)

\* QEMU opens its serial log, creating it or emptying what was there; one that
\* has it open already goes on writing to it.
QemuStarts(r) ==
  /\ guest[r].qemu = "spawned"
  /\ guest' = [guest EXCEPT ![r].qemu = "running"]
  /\ writers' = writers \cup {r}
  /\ log' = {}
  /\ UNCHANGED <<booted, expired, watch, outcome>>

\* Stages are printed in order and the end after them all; a kernel that has
\* failed says nothing but that it failed, perhaps again.
Follows(line, wrote) ==
  \/ \E m \in 1 .. MARKERS : line = Failure(m)
  \/ /\ Failures(wrote) = {}
     /\ \/ line = Success /\ \A n \in 1 .. STAGES : Stage(n) \in wrote
        \/ \E n \in 1 .. STAGES : line = Stage(n) /\ \A k \in 1 .. n - 1 : Stage(k) \in wrote

\* The kernel writes a line, and halts once it has finished.  Nobody sees what
\* is written to a log that has been removed.
GuestWrites(r) ==
  /\ guest[r].qemu = "running" /\ r \in writers
  /\ Success \notin guest[r].wrote
  /\ \E line \in Lines \ guest[r].wrote :
       /\ Follows(line, guest[r].wrote)
       /\ guest' = [guest EXCEPT ![r].wrote = @ \cup {line}]
       /\ log' = log \cup {line}
  /\ UNCHANGED <<booted, writers, expired, watch, outcome>>

\* The guest triple-faults, or the firmware gives up, with any status.
QemuExits(r) ==
  /\ guest[r].qemu \in {"spawned", "running"}
  /\ guest' = [guest EXCEPT ![r].qemu = "exited"]
  /\ UNCHANGED <<booted, writers, log, expired, watch, outcome>>

Tick ==
  /\ watch.at # "away"
  /\ expired' = TRUE
  /\ UNCHANGED <<guest, booted, writers, log, watch, outcome>>

-----------------------------------------------------------------------------
(* boot_test and watch. *)

\* QEMU or the firmware is missing, or the variable store cannot be copied.
PrepareFails ==
  /\ Fail("built")
  /\ UNCHANGED <<rev, run, since, disk, testVars>>

\* Faulty variant of Prepare: QEMU is left to empty the old log.
PrepareOverOldLog ==
  /\ Goto("built", "spawn")
  /\ UNCHANGED <<rev, run, since, faults, disk, testVars>>

\* The old log is removed before QEMU is started; if it cannot be, the test goes
\* on with it ("let _ =").
Prepare ==
  /\ Goto("built", "spawn")
  /\ \/ /\ writers' = {} /\ log' = {}
        /\ UNCHANGED faults
     \/ /\ writers # {}
        /\ faults' = faults \cup {"serial.log"}
        /\ UNCHANGED <<writers, log>>
  /\ UNCHANGED <<rev, run, since, disk, guest, booted, expired, watch, outcome>>

SpawnQemu ==
  \/ /\ Goto("spawn", "watching")
     /\ guest' = [guest EXCEPT ![run] = [NoGuest EXCEPT !.qemu = "spawned"]]
     /\ booted' = disk["iso"]
     /\ watch' = [NotWatching EXCEPT !.at = "poll"]
     /\ expired' = FALSE
     /\ UNCHANGED <<rev, run, since, faults, disk, writers, log, outcome>>
  \/ /\ Fail("spawn")
     /\ UNCHANGED <<rev, run, since, disk, testVars>>

\* What a look at the log can show.  Reading fails while there is no file, and
\* when the poll meets half of a character; where two machines write into one
\* file, the lines of one may be overwritten by the other's.
Readable == IF Cardinality(writers) <= 1 THEN {log, {}} ELSE SUBSET log

\* watch returns: what is reported, and the loop is over.
Return(succeeded, failure, reached, serial) ==
  /\ outcome' = [succeeded |-> succeeded, failure |-> failure, reached |-> reached,
                 serial |-> serial]
  /\ watch' = [watch EXCEPT !.at = "over"]

\* The first failure in the order of FAILURE_MARKERS.
Find(failures) == CHOOSE m \in failures : \A k \in failures : m <= k

\* BOOT_STAGES.iter().take_while(..).count()
Reached(serial) ==
  CHOOSE n \in 0 .. STAGES :
    /\ \A k \in 1 .. n : Stage(k) \in serial
    /\ n = STAGES \/ Stage(n + 1) \notin serial

\* The log contains SUCCESS_MARKER.
Finished(serial) == Success \in serial

\* One look at the log: stages, then success, then failures.
Poll ==
  /\ watch.at = "poll"
  /\ \E serial \in Readable :
       CASE Finished(serial) -> Return(TRUE, <<"None", 0>>, Reached(serial), serial)
         [] ~Finished(serial) /\ Failures(serial) # {} ->
              Return(FALSE, <<"marker", Find(Failures(serial))>>, Reached(serial), serial)
         [] OTHER ->
              /\ watch' = [at |-> "exited?", serial |-> serial, reached |-> Reached(serial)]
              /\ UNCHANGED outcome
  /\ UNCHANGED <<buildVars, guest, booted, writers, log, expired>>

\* try_wait: when QEMU is gone the log is read once more, for the report only.
CheckExited ==
  /\ watch.at = "exited?"
  /\ IF guest[run].qemu = "exited"
       THEN \E serial \in Readable :
              Return(FALSE, <<"exited", 0>>, watch.reached, serial)
       ELSE watch' = [watch EXCEPT !.at = "expired?"] /\ UNCHANGED outcome
  /\ UNCHANGED <<buildVars, guest, booted, writers, log, expired>>

\* Faulty variant of CheckTimeout: a log that has something in it is a boot
\* that makes progress.
CheckTimeoutWhenSilent ==
  /\ watch.at = "expired?"
  /\ IF expired /\ watch.serial = {}
       THEN Return(FALSE, <<"timeout", 0>>, watch.reached, watch.serial)
       ELSE watch' = [watch EXCEPT !.at = "poll"] /\ UNCHANGED outcome
  /\ UNCHANGED <<buildVars, guest, booted, writers, log, expired>>

CheckTimeout ==
  /\ watch.at = "expired?"
  /\ IF expired
       THEN Return(FALSE, <<"timeout", 0>>, watch.reached, watch.serial)
       ELSE watch' = [watch EXCEPT !.at = "poll"] /\ UNCHANGED outcome
  /\ UNCHANGED <<buildVars, guest, booted, writers, log, expired>>

\* kill and wait, on every path; then the verdict is printed.
KillQemu ==
  /\ watch.at = "over"
  /\ guest' = [guest EXCEPT ![run].qemu = IF @ \in {"spawned", "running"} THEN "killed" ELSE @]
  /\ watch' = NotWatching
  /\ expired' = FALSE
  /\ step' = "done"
  /\ UNCHANGED <<rev, run, since, faults, disk, booted, writers, log, outcome>>

\* The invocation is killed; its QEMU is not.
Killed ==
  /\ step \notin {"idle", "error", "done", "killed"}
  /\ step' = "killed"
  /\ watch' = NotWatching
  /\ expired' = FALSE
  /\ UNCHANGED <<rev, run, since, faults, disk, guest, booted, writers, log, outcome>>

-----------------------------------------------------------------------------

Machine ==
  /\ \/ \E r \in 1 .. MAX_RUNS :
          QemuStarts(r) \/ GuestWrites(r) \/ QemuExits(r)
     \/ Tick
  /\ UNCHANGED buildVars

Test == PrepareFails \/ Prepare \/ SpawnQemu \/ Poll \/ CheckExited \/ CheckTimeout \/ KillQemu

\* A QEMU has long opened its log when somebody starts the next test.  One that
\* is gone plays no further part.
InvokeAgain ==
  /\ Invoke
  /\ \A r \in 1 .. MAX_RUNS : guest[r].qemu # "spawned"
  /\ guest' = [r \in 1 .. MAX_RUNS |-> IF guest[r].qemu = "running" THEN guest[r] ELSE NoGuest]
  /\ booted' = Absent
  /\ outcome' = NoOutcome
  /\ UNCHANGED <<writers, log, expired, watch>>

Developer == InvokeAgain \/ (Edit /\ UNCHANGED testVars)

Next ==
  \/ BuildStep /\ UNCHANGED testVars
  \/ Test
  \/ Machine
  \/ Developer
  \/ Killed

\* The tool runs and time passes; the guest may hang, and nobody is obliged to
\* edit, to kill or to start again.
Spec ==
  /\ Init /\ [][Next]_vars
  /\ WF_vars(BuildStep /\ UNCHANGED testVars)
  /\ WF_vars(Test)
  /\ WF_vars(Tick /\ UNCHANGED buildVars)

-----------------------------------------------------------------------------
(* Properties. *)

\* Everything a report rests on was written by the QEMU of this very
\* invocation: the log that is printed, and every stage that is called reached.
\* The log of an earlier one, killed or still running, gets into it only when
\* the old file could not be removed.
ReportIsOfThisGuest ==
  "serial.log" \in faults \/
    /\ \A line \in outcome.serial : line \in guest[run].wrote
    /\ \A n \in 1 .. outcome.reached : Stage(n) \in guest[run].wrote

\* A green test means that the kernel finished starting, all stages included,
\* booted from the image of this invocation (qemu.rs, run: "All {} stages
\* reached").
GreenMeansThisSourceBoots ==
  outcome.succeeded =>
    /\ Success \in outcome.serial
    /\ "serial.log" \in faults \/ outcome.reached = STAGES
    /\ OfThisInvocation(booted)

\* A failure the report names is in the log that is printed with it, and when
\* it says that QEMU exited, this invocation's QEMU did, by itself, and was not
\* killed by the test ("QEMU exiting on its own", qemu.rs).
FailureIsReal ==
  /\ \A m \in 1 .. MARKERS :
       outcome.failure = <<"marker", m>> => Failure(m) \in outcome.serial
  /\ outcome.failure[1] = "exited" => guest[run].qemu = "exited"

\* A verdict of the clock is not given against a log that settles the matter:
\* a success or a failure that was read wins over a timeout that has elapsed
\* meanwhile.  (A verdict given because QEMU exited may be: the log is read once
\* more and not looked at.)
LogWinsOverTheClock ==
  outcome.failure[1] = "timeout" =>
    Success \notin outcome.serial /\ Failures(outcome.serial) = {}

\* The verdict, green, red or out of time, is what this invocation's guest did.
VerdictIsHonest ==
  ReportIsOfThisGuest /\ GreenMeansThisSourceBoots /\ FailureIsReal /\ LogWinsOverTheClock

\* Every invocation comes to an end, whatever the guest does: hang, fall
\* silent half-way, or write for ever (qemu.rs, watch: "until the kernel
\* succeeds, fails, or time runs out"), and one that is not killed leaves no
\* QEMU behind ("The kernel halts rather than exiting, so QEMU is always still
\* running", qemu.rs).
InvocationsEnd ==
  step = "start" ~>
    \/ step = "killed"
    \/ step \in {"done", "error"} /\ guest[run].qemu \notin {"spawned", "running"}

=============================================================================
