------------------------------ MODULE RunDriver ------------------------------
(***************************************************************************)
(* run.py: for every experiment folder that has no results yet, simulate   *)
(* the NIC, convert its interrupt trace, copy it into the firmware         *)
(* project, build and flash, and collect the rows the chip prints.  Every  *)
(* external command is an os.system call whose result is ignored: each of  *)
(* them may fail, or be killed by a Ctrl-C that Python does not see, and   *)
(* the script goes on.  The script itself may end anywhere; the user       *)
(* starts it again, in the repository's folder, and may clean the folders  *)
(* in between (experiments/clean_experiments.py).                          *)
(*                                                                         *)
(* interrupt_trace.csv is "missing", "cut" (its writing was killed) or     *)
(* "whole"; trace.h is "missing", "cut" (of no bytes or ending too early), *)
(* "short" (made from a trace that is missing or cut) or "full".           *)
(***************************************************************************)
EXTENDS Naturals, Sequences

CONSTANTS
  Count,         \* experiment folders, in the order in which os.walk lists them
  AbsoluteRoot,  \* whether the path given with -e is absolute
  SimulateOption,\* values the user may choose for "args.s == 1"
  BuildOption,   \* values the user may choose for "args.b == 1"
  Rows,          \* rows the firmware of an experiment prints
  MaxFaults      \* bound on failures, interruptions and cleanings

Experiment == 1 .. Count
None == 0

ASSUME RunAssumption ==
  /\ Count \in Nat \ {0} /\ Rows \in Nat \ {0} /\ MaxFaults \in Nat
  /\ AbsoluteRoot \in BOOLEAN
  /\ SimulateOption \subseteq BOOLEAN /\ BuildOption \subseteq BOOLEAN

VARIABLES
  pc,                   \* "idle" between runs, then the step of the script
  simulate, build,      \* the options -s and -b of this run
  cwd, e, output, line, \* the script's variables; e indexes the walk
  irq_trace, header, rx,           \* files of each experiment
  main_h, firmware, chip,          \* trace.h of the project, firmware, output so far
  faults,
  misflashed,           \* history: experiments whose last cp or flash failed
  disturbed             \* history: experiments disturbed while they were read

script == <<pc, simulate, build, cwd, e, output, line>>
folder == <<irq_trace, header, rx>>
board  == <<main_h, firmware, chip>>
past   == <<faults, misflashed, disturbed>>
vars   == <<script, folder, board, past>>

NoTrace  == [of |-> None, kind |-> "missing"]
NoResult == [exists |-> FALSE, rows |-> << >>]
Silent   == Rows + 2    \* everything is printed

Line(kind, row) == [kind |-> kind, row |-> row]
Text(kind)      == Line(kind, << >>)

Init ==
  /\ pc = "idle" /\ simulate = TRUE /\ build = TRUE /\ cwd = "repository" /\ e = None
  /\ output = None /\ line = Text("undefined")
  /\ irq_trace = [x \in Experiment |-> "missing"]
  /\ header = [x \in Experiment |-> "missing"]
  /\ rx = [x \in Experiment |-> NoResult]
  /\ main_h = NoTrace /\ firmware = NoTrace /\ chip = Silent
  /\ faults = 0 /\ misflashed = {} /\ disturbed = {}

\* A relative path is still valid as long as the script has not changed folders.
Reachable == AbsoluteRoot \/ cwd = "repository"
MayFail   == faults < MaxFaults
Fault     == MayFail /\ faults' = faults + 1

Start ==
  /\ pc = "idle"
  /\ simulate' \in SimulateOption /\ build' \in BuildOption
  /\ pc' = "walk" /\ cwd' = "repository" /\ e' = None /\ line' = Text("undefined")
  /\ UNCHANGED <<output, folder, board, past>>

\* os.walk lists a folder when it gets there.
Selected_Always(x) == TRUE
Selected(x)        == ~rx[x].exists

\* The history is about the latest attempt at an experiment.
Walk ==
  /\ pc = "walk"
  /\ \/ /\ e < Count /\ Reachable /\ Selected(e + 1)
        /\ e' = e + 1
        /\ pc' = IF simulate THEN "simulate" ELSE IF build THEN "copy" ELSE "walk"
        /\ misflashed' = misflashed \ {e + 1} /\ disturbed' = disturbed \ {e + 1}
     \/ /\ e < Count /\ Reachable /\ ~Selected(e + 1)
        /\ e' = e + 1
        /\ UNCHANGED <<pc, misflashed, disturbed>>
     \/ /\ e = Count \/ ~Reachable
        /\ pc' = "idle"
        /\ UNCHANGED <<e, misflashed, disturbed>>
  /\ UNCHANGED <<simulate, build, cwd, output, line, folder, board, faults>>

\* The simulator is not found from another folder; it may crash, or be killed
\* also while it writes its output.
Simulate ==
  /\ pc = "simulate" /\ pc' = "blob"
  /\ \/ /\ cwd = "repository"
        /\ irq_trace' = [irq_trace EXCEPT ![e] = "whole"]
        /\ UNCHANGED faults
     \/ /\ cwd = "repository" /\ Fault
        /\ irq_trace' \in {irq_trace, [irq_trace EXCEPT ![e] = "cut"]}
     \/ /\ cwd # "repository"
        /\ UNCHANGED <<irq_trace, faults>>
  /\ UNCHANGED <<simulate, build, cwd, e, output, line, header, rx, board,
                 misflashed, disturbed>>

\* The shell creates trace.h before it starts trace2blob.sh, which it does not
\* find from another folder, and which may be killed.
Blob ==
  /\ pc = "blob" /\ pc' = IF build THEN "copy" ELSE "walk"
  /\ \/ /\ cwd = "repository"
        /\ header' = [header EXCEPT ![e] = IF irq_trace[e] = "whole" THEN "full" ELSE "short"]
        /\ UNCHANGED faults
     \/ /\ cwd = "repository" /\ Fault
        /\ header' \in {header, [header EXCEPT ![e] = "cut"]}
     \/ /\ cwd # "repository"
        /\ header' = [header EXCEPT ![e] = "cut"]
        /\ UNCHANGED faults
  /\ UNCHANGED <<simulate, build, cwd, e, output, line, irq_trace, rx, board,
                 misflashed, disturbed>>

\* cp works from the repository's folder only.  When it fails or is killed, the
\* project keeps the header of an earlier experiment, or has a part of this one.
CanCopy     == cwd = "repository" /\ header[e] # "missing"
Copied_Once == IF main_h = NoTrace THEN [of |-> e, kind |-> header[e]] ELSE main_h
Copied      == [of |-> e, kind |-> header[e]]

Copy ==
  /\ pc = "copy" /\ pc' = "chdir"
  /\ \/ /\ CanCopy
        /\ main_h' = Copied
        /\ UNCHANGED <<faults, misflashed>>
     \/ /\ CanCopy /\ Fault
        /\ main_h' \in {main_h, [of |-> e, kind |-> "cut"]}
        /\ misflashed' = misflashed \cup {e}
     \/ /\ ~CanCopy
        /\ misflashed' = misflashed \cup {e}
        /\ UNCHANGED <<main_h, faults>>
  /\ UNCHANGED <<simulate, build, cwd, e, output, line, folder, firmware, chip, disturbed>>

\* os.chdir is never undone: a second experiment ends the script here.
RxAtChdir_Created == [rx EXCEPT ![e].exists = TRUE]
RxAtChdir         == rx

Chdir ==
  /\ pc = "chdir"
  /\ rx' = RxAtChdir
  /\ IF cwd = "repository" THEN pc' = "flash" /\ cwd' = "project"
                           ELSE pc' = "idle" /\ UNCHANGED cwd
  /\ UNCHANGED <<simulate, build, e, output, line, irq_trace, header, board, past>>

Builds == main_h.kind \in {"short", "full"}

\* "make flash": the chip starts over with the new firmware, keeps the old, or is
\* left half-written, which prints no row and no END.  It replays the trace before
\* it prints, so that no row comes before Open.
Flash ==
  /\ pc = "flash" /\ pc' = "open"
  /\ \/ /\ Builds
        /\ firmware' = main_h /\ chip' = 0
        /\ UNCHANGED <<faults, misflashed>>
     \/ /\ Builds /\ Fault
        /\ \/ UNCHANGED <<firmware, chip>>
           \/ firmware' = NoTrace /\ chip' = Silent
        /\ misflashed' = misflashed \cup {e}
     \/ /\ ~Builds
        /\ misflashed' = misflashed \cup {e}
        /\ UNCHANGED <<firmware, chip, faults>>
  /\ UNCHANGED <<simulate, build, cwd, e, output, line, folder, main_h, disturbed>>

\* open() raises an exception in a folder that is not there.  Opening the serial
\* line may reset the chip when its own reset did not happen.
Open ==
  /\ pc = "open"
  /\ IF Reachable
       THEN /\ pc' = "read" /\ output' = e
            /\ rx' = [rx EXCEPT ![e] = [exists |-> TRUE, rows |-> << >>]]
            /\ chip' \in IF firmware = NoTrace THEN {Silent} ELSE {chip, 0}
       ELSE pc' = "idle" /\ UNCHANGED <<output, rx, chip>>
  /\ UNCHANGED <<simulate, build, cwd, e, line, irq_trace, header, main_h, firmware, past>>

-----------------------------------------------------------------------------
(* The loop over the serial line: messages of the boot, the rows, END.     *)

Printed ==
  CASE chip = 0 -> Text("boot") [] chip = Rows + 1 -> Text("END")
    [] OTHER -> Line("row", <<firmware.of, chip>>)

\* The rows a firmware may print: a short trace gives fewer.  Nothing follows the
\* boot if the completion check never succeeds.
RowCount   == IF firmware.kind = "full" THEN {Rows} ELSE 0 .. Rows - 1
NextOutput ==
  {n \in 1 .. Silent :
     \/ n = chip + 1 /\ \E rows \in RowCount : n <= rows
     \/ n = Rows + 1 /\ chip \in RowCount
     \/ n = Silent /\ chip \in {0, Rows + 1}}

Process(text) ==
  /\ line' = text
  /\ IF text.kind = "END"
       THEN pc' = "walk" /\ output' = None /\ UNCHANGED rx
       ELSE /\ rx' = IF text.kind # "row" THEN rx
                    ELSE [rx EXCEPT ![output].rows = Append(@, text.row)]
            /\ UNCHANGED <<pc, output>>
  /\ UNCHANGED <<simulate, build, cwd, e, irq_trace, header, main_h, firmware>>

ReadLine ==
  /\ pc = "read" /\ chip # Silent
  /\ chip' \in NextOutput
  /\ Process(Printed)
  /\ UNCHANGED past

\* After a decoding error the loop goes on with the line it has: the previous
\* one, if there is one.
GarbledLine ==
  /\ pc = "read" /\ chip # Silent /\ Fault
  /\ chip' \in NextOutput
  /\ disturbed' = disturbed \cup {output} /\ UNCHANGED misflashed
  /\ IF line.kind = "undefined"
       THEN /\ pc' = "idle" /\ output' = None
            /\ UNCHANGED <<simulate, build, cwd, e, line, folder, main_h, firmware>>
       ELSE Process(line)

\* After 60 seconds without a line, readline() returns the empty string.
Timeout ==
  /\ pc = "read" /\ chip = Silent
  /\ Process(Text("empty"))
  /\ UNCHANGED <<chip, past>>

-----------------------------------------------------------------------------
\* The script itself ends, its files stay: a Ctrl-C outside of a command, a pulled
\* cable, a closed terminal.
Interrupt ==
  /\ pc # "idle" /\ Fault
  /\ pc' = "idle" /\ output' = None
  /\ disturbed' = IF pc = "read" THEN disturbed \cup {output} ELSE disturbed
  /\ UNCHANGED <<simulate, build, cwd, e, line, folder, board, misflashed>>

Clean ==
  /\ pc = "idle" /\ Fault
  /\ irq_trace' = [x \in Experiment |-> "missing"]
  /\ header' = [x \in Experiment |-> "missing"]
  /\ rx' = [x \in Experiment |-> NoResult]
  /\ misflashed' = {} /\ disturbed' = {}
  /\ UNCHANGED <<script, board>>

Step == \/ Walk \/ Simulate \/ Blob \/ Copy \/ Chdir \/ Flash \/ Open
        \/ ReadLine \/ Timeout

Next == Start \/ Step \/ GarbledLine \/ Interrupt \/ Clean

Spec == Init /\ [][Next]_vars

\* The script runs on, the user starts it again after it has ended, and does not
\* skip build and run for ever.
FairSpec == Spec /\ WF_vars(Step) /\ WF_vars(Start) /\ SF_vars(Start /\ build')

-----------------------------------------------------------------------------
(* Properties                                                              *)

InProgress(x) == pc = "read" /\ output = x

\* The rows in a folder come from that folder's trace, unless cp or make flash
\* failed in the very attempt that collected them: whatever earlier runs and other
\* experiments, failing at any step, have left in the project, on the chip and in
\* the script's variables stays out of it, also when lines are garbled.
OwnRows ==
  \A x \in Experiment \ misflashed : \A n \in DOMAIN rx[x].rows : rx[x].rows[n][1] = x

\* An experiment counts as done as soon as rx_times.csv exists.  If its trace.h is
\* whole, the file has every row once and in order, unless cp or make flash failed
\* in this very attempt, or it was interrupted or got a garbled line while it was
\* read: a run that fails or ends anywhere else leaves nothing behind that later
\* runs mistake for results.
DoneIsComplete ==
  \A x \in Experiment \ (misflashed \cup disturbed) :
    rx[x].exists /\ ~InProgress(x) /\ header[x] = "full"
      => rx[x].rows = [n \in 1 .. Rows |-> <<x, n>>]

AllServed == \A x \in Experiment : rx[x].exists /\ ~InProgress(x)

\* Starting the script again and again gets through all experiments, although
\* each run ends with an exception at its second experiment; only a chip that
\* never prints END keeps it from that.
Hung     == pc = "read" /\ chip = Silent
Progress == <>AllServed \/ <>[]Hung

\* run.py: "This script runs all experiments found in the provided folder."
RunsAll == <>AllServed
=============================================================================
