--------------------------- MODULE RunDriverProofs ---------------------------
(***************************************************************************)
(* Theorems about RunDriver: the rows in an experiment's folder are its    *)
(* own, and a folder that counts as done is complete, for any number of    *)
(* experiments, rows, runs of the script and faults.                       *)
(***************************************************************************)
EXTENDS RunDriver, TLAPS

Kind == {"missing", "cut", "short", "full"}

\* The part of a type invariant that the proofs need.
Types ==
  /\ pc \in {"idle", "walk", "simulate", "blob", "copy", "chdir", "flash", "open", "read"}
  /\ cwd \in {"repository", "project"} /\ e \in 0 .. Count
  /\ pc \notin {"idle", "walk"} => e \in Experiment
  /\ pc = "read" => output = e
  /\ line.kind = "row" => line.row \in Nat \X Nat
  /\ irq_trace \in [Experiment -> {"missing", "cut", "whole"}] /\ header \in [Experiment -> Kind]
  /\ rx \in [Experiment -> [exists : BOOLEAN, rows : Seq(Nat \X Nat)]]
  /\ main_h \in [of : Nat, kind : Kind] /\ firmware \in [of : Nat, kind : Kind]
  /\ chip \in 0 .. Rows + 2

-----------------------------------------------------------------------------
(* The inductive invariant                                                 *)

Flashed(x) == [of |-> x, kind |-> header[x]]
Sound      == e \notin misflashed

\* Where the header of the experiment at hand is, unless cp or make flash has failed
\* in this attempt.  In another folder the script gets no further than os.chdir.
Prepared ==
  Sound =>
    /\ pc = "chdir" /\ cwd = "repository" => main_h = Flashed(e)
    /\ pc = "flash" => main_h = Flashed(e)
    /\ pc \in {"open", "read"} => firmware = Flashed(e) /\ firmware # NoTrace
    /\ pc = "open" => chip = 0

\* A folder has no rows before its file, and the experiment at hand has no file
\* before open(); so nothing is promised of it when its history starts over.
Fresh ==
  /\ \A x \in Experiment : ~rx[x].exists => rx[x].rows = << >>
  /\ pc \in {"simulate", "blob", "copy", "chdir", "flash", "open"} => ~rx[e].exists
  /\ pc = "read" => rx[e].exists

\* The script's `line` is never a row of an earlier experiment: the only one that
\* gets as far as reading is the first of a run.
Lines ==
  /\ pc \in {"walk", "simulate", "blob", "copy", "chdir"} /\ cwd = "repository"
       => line.kind # "row"
  /\ pc \in {"flash", "open"} => line.kind # "row"
  /\ pc = "read" /\ line.kind = "row" => line.row[1] = firmware.of

\* The first n rows of experiment x.
FirstRows(x, n) == [k \in 1 .. n |-> <<x, k>>]

\* While the script reads, the file has exactly the rows a whole trace has printed.
Reading ==
  pc = "read" /\ e \notin misflashed \cup disturbed /\ header[e] = "full" /\ chip # Silent =>
    rx[e].rows = FirstRows(e, chip - 1)

RunInv == Types /\ Prepared /\ Fresh /\ Lines /\ Reading /\ OwnRows /\ DoneIsComplete

LEMMA SizeFacts == Count \in Nat /\ Count > 0 /\ Rows \in Nat /\ Rows > 0
BY RunAssumption

LEMMA InitRun == Init => RunInv
<1> SUFFICES ASSUME Init PROVE RunInv
  OBVIOUS
<1> USE SizeFacts
<1>1. Types
  BY DEF Init, Types, NoTrace, NoResult, Silent, Kind, Text, Line, None
<1>2. Prepared /\ Fresh /\ Lines /\ Reading
  BY DEF Init, Prepared, Fresh, NoResult, Lines, Text, Line, Reading
<1>3. OwnRows /\ DoneIsComplete
  BY DEF Init, OwnRows, DoneIsComplete, NoResult
<1> QED
  BY <1>1, <1>2, <1>3 DEF RunInv

\* Outside the loop over the serial line, the properties of the results stay as
\* they are: what is forgotten of the history, or changed in a header, is of an
\* experiment without a file, and a run that is interrupted in the loop has
\* disturbed its experiment.
LEMMA ResultsKept ==
  ASSUME RunInv, UNCHANGED rx, pc' # "read",
         \A x \in Experiment : rx[x].exists =>
           /\ header'[x] = header[x]
           /\ x \in misflashed => x \in misflashed'
           /\ x \in disturbed => x \in disturbed',
         pc = "read" => output \in disturbed',
         pc' \in {"simulate", "blob", "copy", "chdir", "flash", "open"} => ~rx[e'].exists
  PROVE  Fresh' /\ Reading' /\ OwnRows' /\ DoneIsComplete'
<1>1. Fresh' /\ Reading'
  BY DEF RunInv, Fresh, Reading
<1>2. OwnRows'
  <2> SUFFICES ASSUME NEW x \in Experiment, x \notin misflashed',
                      NEW n \in DOMAIN rx[x].rows
               PROVE  rx[x].rows[n][1] = x
    BY DEF OwnRows
  <2>1. rx[x].exists
    BY DEF RunInv, Fresh
  <2> QED
    BY <2>1 DEF RunInv, OwnRows
<1>3. DoneIsComplete'
  BY DEF RunInv, DoneIsComplete, InProgress
<1> QED
  BY <1>1, <1>2, <1>3

LEMMA StartRun == ASSUME RunInv, Start PROVE RunInv'
<1> USE SizeFacts DEF Start, folder, board, past
<1>1. Types'
  BY DEF RunInv, Types, Text, Line, None
<1>2. Prepared' /\ Lines'
  BY DEF Prepared, Lines, Text, Line
<1>3. Fresh' /\ Reading' /\ OwnRows' /\ DoneIsComplete'
  BY ResultsKept DEF RunInv, Fresh, Types
<1> QED
  BY <1>1, <1>2, <1>3 DEF RunInv

LEMMA WalkRun == ASSUME RunInv, Walk PROVE RunInv'
<1> USE SizeFacts DEF Walk, folder, board
<1>1. Types'
  BY DEF RunInv, Types, Experiment
<1>2. Prepared'
  BY DEF Prepared
<1>3. Lines'
  BY DEF RunInv, Lines, Types
<1>4. \A x \in Experiment : rx[x].exists =>
        (x \in misflashed => x \in misflashed') /\ (x \in disturbed => x \in disturbed')
  BY DEF Selected
<1>5. /\ pc' \in {"idle", "walk", "simulate", "copy"}
      /\ pc' \in {"simulate", "copy"} => ~rx[e'].exists
  BY DEF Selected
<1>6. Fresh' /\ Reading' /\ OwnRows' /\ DoneIsComplete'
  BY <1>4, <1>5, ResultsKept
<1> QED
  BY <1>1, <1>2, <1>3, <1>6 DEF RunInv

LEMMA SimulateRun == ASSUME RunInv, Simulate PROVE RunInv'
<1> USE SizeFacts DEF Simulate, board
<1>1. Types'
  BY DEF RunInv, Types
<1>2. Prepared'
  BY DEF Prepared
<1>3. Lines'
  BY DEF RunInv, Lines
<1>4. Fresh' /\ Reading' /\ OwnRows' /\ DoneIsComplete'
  BY ResultsKept DEF RunInv, Fresh, Types
<1> QED
  BY <1>1, <1>2, <1>3, <1>4 DEF RunInv

LEMMA BlobRun == ASSUME RunInv, Blob PROVE RunInv'
<1> USE SizeFacts DEF Blob, board
<1>1. Types'
  BY DEF RunInv, Types, Kind
<1>2. Prepared'
  BY DEF Prepared
<1>3. Lines'
  BY DEF RunInv, Lines
<1>4. \A x \in Experiment : rx[x].exists => header'[x] = header[x]
  BY DEF RunInv, Fresh, Types
<1>5. Fresh' /\ Reading' /\ OwnRows' /\ DoneIsComplete'
  BY ResultsKept DEF RunInv, Fresh, Types
<1> QED
  BY <1>1, <1>2, <1>3, <1>4, <1>5 DEF RunInv

LEMMA CopyRun == ASSUME RunInv, Copy PROVE RunInv'
<1> USE SizeFacts DEF Copy, folder
<1>1. Types'
  <2>1. main_h' \in [of : Nat, kind : Kind]
    BY DEF RunInv, Types, Copied, Experiment, Kind
  <2> QED
    BY <2>1 DEF RunInv, Types
<1>2. Prepared'
  BY DEF Prepared, Copied, Flashed, Sound
<1>3. Lines'
  BY DEF RunInv, Lines
<1>4. Fresh' /\ Reading' /\ OwnRows' /\ DoneIsComplete'
  BY ResultsKept DEF RunInv, Fresh, Types
<1> QED
  BY <1>1, <1>2, <1>3, <1>4 DEF RunInv

LEMMA ChdirRun == ASSUME RunInv, Chdir PROVE RunInv'
<1> USE SizeFacts DEF Chdir, board, past, RxAtChdir
<1>1. Types'
  BY DEF RunInv, Types
<1>2. Prepared'
  BY DEF RunInv, Prepared, Sound, Flashed
<1>3. Lines'
  BY DEF RunInv, Lines
<1>4. Fresh' /\ Reading' /\ OwnRows' /\ DoneIsComplete'
  BY ResultsKept DEF RunInv, Fresh, Types
<1> QED
  BY <1>1, <1>2, <1>3, <1>4 DEF RunInv

LEMMA FlashRun == ASSUME RunInv, Flash PROVE RunInv'
<1> USE SizeFacts DEF Flash, folder
<1>1. Types'
  <2>1. /\ firmware' \in {firmware, main_h, NoTrace}
        /\ chip' \in {0, chip, Silent}
    OBVIOUS
  <2>2. firmware' \in [of : Nat, kind : Kind] /\ chip' \in 0 .. Rows + 2
    BY <2>1 DEF RunInv, Types, NoTrace, None, Kind, Silent
  <2> QED
    BY <2>2 DEF RunInv, Types
<1>2. Prepared'
  <2> SUFFICES ASSUME Sound'
               PROVE  firmware' = Flashed(e) /\ firmware' # NoTrace /\ chip' = 0
    BY DEF Prepared, Flashed
  <2>1. Sound /\ Builds /\ firmware' = main_h /\ chip' = 0
    BY DEF Sound
  <2>2. main_h = Flashed(e)
    BY <2>1 DEF RunInv, Prepared
  <2> QED
    BY <2>1, <2>2 DEF Builds, NoTrace
<1>3. Lines'
  BY DEF RunInv, Lines
<1>4. Fresh' /\ Reading' /\ OwnRows' /\ DoneIsComplete'
  BY ResultsKept DEF RunInv, Fresh, Types
<1> QED
  BY <1>1, <1>2, <1>3, <1>4 DEF RunInv

LEMMA OpenRun == ASSUME RunInv, Open PROVE RunInv'
<1> USE SizeFacts DEF Open, past
<1>1. e \in Experiment /\ pc = "open" /\ Types
  BY DEF RunInv, Types
<1>2. CASE ~Reachable
  <2>1. Types' /\ Prepared' /\ Lines'
    BY <1>1, <1>2 DEF Types, Prepared, Lines
  <2>2. Fresh' /\ Reading' /\ OwnRows' /\ DoneIsComplete'
    BY <1>2, ResultsKept
  <2> QED
    BY <2>1, <2>2 DEF RunInv
<1>3. CASE Reachable
  <2>1. /\ pc' = "read" /\ output' = e
        /\ chip' \in IF firmware = NoTrace THEN {Silent} ELSE {chip, 0}
        /\ rx' = [rx EXCEPT ![e] = [exists |-> TRUE, rows |-> << >>]]
        /\ UNCHANGED <<simulate, build, cwd, e, line, irq_trace, header, main_h, firmware,
                       faults, misflashed, disturbed>>
    BY <1>3
  <2>2. Types'
    <3>1. chip' \in 0 .. Rows + 2
      BY <1>1, <2>1 DEF Types, Silent
    <3>2. rx' \in [Experiment -> [exists : BOOLEAN, rows : Seq(Nat \X Nat)]]
      BY <1>1, <2>1 DEF Types
    <3> QED
      BY <1>1, <2>1, <3>1, <3>2 DEF Types
  <2>3. /\ rx'[e].exists /\ rx'[e].rows = << >>
        /\ \A x \in Experiment : x # e => rx'[x] = rx[x]
    BY <1>1, <2>1 DEF Types
  <2>4. Prepared' /\ Fresh' /\ Lines'
    BY <1>1, <2>1, <2>3 DEF RunInv, Prepared, Fresh, Lines, Sound, Flashed
  <2>5. Reading'
    <3> SUFFICES ASSUME e \notin misflashed
                 PROVE  rx'[e].rows = FirstRows(e, chip' - 1)
      BY <2>1 DEF Reading, FirstRows
    <3>1. firmware # NoTrace /\ chip = 0
      BY <1>1 DEF RunInv, Prepared, Sound
    <3>2. chip' = 0
      BY <2>1, <3>1
    <3>3. FirstRows(e, chip' - 1) = << >>
      BY <3>2 DEF FirstRows
    <3> QED
      BY <2>3, <3>3
  <2>6. OwnRows'
    BY <2>1, <2>3 DEF RunInv, OwnRows
  <2>7. DoneIsComplete'
    BY <1>1, <2>1, <2>3 DEF RunInv, DoneIsComplete, InProgress
  <2> QED
    BY <2>2, <2>4, <2>5, <2>6, <2>7 DEF RunInv
<1> QED
  BY <1>2, <1>3

-----------------------------------------------------------------------------
(* The loop over the serial line                                           *)

LEMMA NextRow ==
  ASSUME NEW x \in Nat, NEW n \in Nat
  PROVE  Append(FirstRows(x, n), <<x, n + 1>>) = FirstRows(x, n + 1)
<1>1. FirstRows(x, n) \in Seq(Nat \X Nat) /\ Len(FirstRows(x, n)) = n
  BY DEF FirstRows
<1> QED
  BY <1>1 DEF FirstRows

LEMMA AppendFacts ==
  ASSUME NEW S, NEW list \in Seq(S), NEW row, NEW n \in DOMAIN Append(list, row)
  PROVE  /\ n \in 1 .. Len(list) + 1
         /\ n <= Len(list) => n \in DOMAIN list /\ Append(list, row)[n] = list[n]
         /\ n = Len(list) + 1 => Append(list, row)[n] = row
OBVIOUS

Complete(x) == rx[x].exists /\ header[x] = "full" => rx[x].rows = FirstRows(x, Rows)

\* A line that is no row of another firmware disturbs nothing but the experiment
\* that is being read.
LEMMA ProcessRun ==
  ASSUME RunInv, pc = "read", NEW text, Process(text), chip' \in 0 .. Rows + 2,
         text.kind = "row" => text.row \in Nat \X Nat /\ text.row[1] = firmware.of,
         misflashed' = misflashed, disturbed \subseteq disturbed'
  PROVE  /\ Types' /\ Prepared' /\ Fresh' /\ Lines' /\ OwnRows'
         /\ \A x \in Experiment \ (misflashed' \cup disturbed') : x # e => Complete(x)'
         /\ e' = e /\ pc' \in {"walk", "read"} /\ (pc' = "read" <=> text.kind # "END")
<1> USE SizeFacts
<1>1. /\ Types /\ e \in Experiment /\ output = e
      /\ UNCHANGED <<simulate, build, cwd, e, irq_trace, header, main_h, firmware>>
      /\ line' = text
  BY DEF RunInv, Types, Process
<1>2. \/ text.kind = "END" /\ pc' = "walk" /\ UNCHANGED rx
      \/ text.kind # "END" /\ UNCHANGED <<pc, output>>
  BY DEF Process
<1>3. rx' = rx \/ (text.kind = "row" /\ rx' = [rx EXCEPT ![e].rows = Append(@, text.row)])
  BY <1>1 DEF Process
<1>4. rx' \in [Experiment -> [exists : BOOLEAN, rows : Seq(Nat \X Nat)]]
  <2> DEFINE Row == Nat \X Nat
  <2>1. rx \in [Experiment -> [exists : BOOLEAN, rows : Seq(Row)]]
    BY <1>1 DEF Types
  <2>2. text.kind = "row" => text.row \in Row
    OBVIOUS
  <2> HIDE DEF Row
  <2>3. rx' \in [Experiment -> [exists : BOOLEAN, rows : Seq(Row)]]
    <3>1. CASE text.kind = "row" /\ rx' = [rx EXCEPT ![e].rows = Append(@, text.row)]
      <4>1. rx[e] \in [exists : BOOLEAN, rows : Seq(Row)]
        BY <1>1, <2>1
      <4>2. Append(rx[e].rows, text.row) \in Seq(Row)
        BY <2>2, <3>1, <4>1
      <4> QED
        BY <2>1, <3>1, <4>1, <4>2
    <3> QED
      BY <1>3, <2>1, <3>1
  <2> QED
    BY <2>3 DEF Row
<1>5. Types'
  BY <1>1, <1>2, <1>4 DEF Types
<1>6. Prepared' /\ Lines'
  BY <1>1, <1>2 DEF RunInv, Prepared, Lines, Sound, Flashed
<1>7. \A x \in Experiment : x # e => rx'[x] = rx[x]
  BY <1>1, <1>3 DEF Types
<1>8. OwnRows'
  <2> SUFFICES ASSUME NEW x \in Experiment \ misflashed, NEW n \in DOMAIN rx'[x].rows
               PROVE  rx'[x].rows[n][1] = x
    BY DEF OwnRows
  <2>1. CASE rx'[x] = rx[x]
    BY <2>1 DEF RunInv, OwnRows
  <2>2. CASE rx'[x] # rx[x]
    <3>1. x = e /\ text.kind = "row" /\ rx' = [rx EXCEPT ![e].rows = Append(@, text.row)]
      BY <1>3, <1>7, <2>2
    <3>2. rx[e].rows \in Seq(Nat \X Nat) /\ rx'[e].rows = Append(rx[e].rows, text.row)
      BY <1>1, <3>1 DEF Types
    <3>3. text.row[1] = e
      BY <3>1 DEF RunInv, Prepared, Sound, Flashed
    <3>4. \A m \in DOMAIN rx[e].rows : rx[e].rows[m][1] = e
      BY <1>1, <3>1 DEF RunInv, OwnRows
    <3>5. /\ n \in 1 .. Len(rx[e].rows) + 1
          /\ n <= Len(rx[e].rows) => n \in DOMAIN rx[e].rows /\ rx'[e].rows[n] = rx[e].rows[n]
          /\ n = Len(rx[e].rows) + 1 => rx'[e].rows[n] = text.row
      BY <3>1, <3>2, AppendFacts
    <3> QED
      BY <3>1, <3>3, <3>4, <3>5
  <2> QED
    BY <2>1, <2>2
<1>9. \A x \in Experiment \ (misflashed' \cup disturbed') : x # e => Complete(x)'
  BY <1>1, <1>7 DEF RunInv, DoneIsComplete, InProgress, Complete, FirstRows
<1>10. Fresh'
  <2>1. rx[e].exists
    BY DEF RunInv, Fresh
  <2>2. rx'[e].exists
    <3>1. CASE rx' = rx
      BY <2>1, <3>1
    <3>2. CASE rx' = [rx EXCEPT ![e].rows = Append(@, text.row)]
      <4>1. rx[e] \in [exists : BOOLEAN, rows : Seq(Nat \X Nat)] /\ e \in DOMAIN rx
        BY <1>1 DEF Types
      <4>2. rx'[e] = [rx[e] EXCEPT !.rows = Append(@, text.row)]
        BY <3>2, <4>1
      <4> QED
        BY <2>1, <4>1, <4>2
    <3> QED
      BY <1>3, <3>1, <3>2
  <2> QED
    BY <1>1, <1>2, <1>7, <2>2 DEF RunInv, Fresh
<1> QED
  BY <1>1, <1>2, <1>5, <1>6, <1>8, <1>9, <1>10

LEMMA ReadLineRun == ASSUME RunInv, ReadLine PROVE RunInv'
<1> USE SizeFacts
<1>1. /\ Types /\ pc = "read" /\ e \in Experiment /\ output = e
      /\ UNCHANGED <<faults, misflashed, disturbed>> /\ Process(Printed)
      /\ chip \in 0 .. Rows + 1 /\ chip' \in NextOutput /\ chip' \in 0 .. Rows + 2
  BY DEF RunInv, Types, ReadLine, NextOutput, Silent, past
<1>2. \/ chip = 0 /\ Printed = Text("boot")
      \/ chip = Rows + 1 /\ Printed = Text("END")
      \/ chip \in 1 .. Rows /\ Printed = Line("row", <<firmware.of, chip>>)
  BY <1>1 DEF Printed
<1>3. Printed.kind = "row" => Printed.row \in Nat \X Nat /\ Printed.row[1] = firmware.of
  BY <1>1, <1>2 DEF Text, Line, Types
<1>4. /\ Types' /\ Prepared' /\ Fresh' /\ Lines' /\ OwnRows'
      /\ \A x \in Experiment \ (misflashed' \cup disturbed') : x # e => Complete(x)'
      /\ e' = e /\ pc' \in {"walk", "read"} /\ (pc' = "read" <=> Printed.kind # "END")
  BY <1>1, <1>3, ProcessRun
<1>5. ASSUME e \notin misflashed \cup disturbed, header[e] = "full"
      PROVE  /\ chip' # Silent => chip' = chip + 1
             /\ rx[e].rows = FirstRows(e, chip - 1)
             /\ chip # Rows + 1 => rx'[e].rows = FirstRows(e, chip)
             /\ chip = Rows + 1 => rx' = rx
  <2>1. firmware = Flashed(e) /\ rx[e].rows = FirstRows(e, chip - 1)
    BY <1>1, <1>5 DEF RunInv, Prepared, Sound, Reading, Silent
  <2>2. chip' # Silent => chip' = chip + 1
    <3>1. RowCount = {Rows}
      BY <1>5, <2>1 DEF RowCount, Flashed
    <3> QED
      BY <1>1, <3>1 DEF NextOutput
  <2>3. CASE chip = 0
    <3>1. rx' = rx
      BY <1>1, <1>2, <2>3 DEF Process, Text, Line
    <3>2. FirstRows(e, chip - 1) = << >> /\ FirstRows(e, chip) = << >>
      BY <2>3 DEF FirstRows
    <3> QED
      BY <2>1, <2>2, <2>3, <3>1, <3>2
  <2>4. CASE chip = Rows + 1
    BY <1>1, <1>2, <2>1, <2>2, <2>4 DEF Process, Text, Line
  <2>5. CASE chip \in 1 .. Rows
    <3>1. rx' = [rx EXCEPT ![e].rows = Append(@, <<e, chip>>)]
      BY <1>1, <1>2, <2>1, <2>5 DEF Process, Line, Flashed
    <3>2. rx'[e].rows = Append(FirstRows(e, chip - 1), <<e, chip>>)
      BY <1>1, <2>1, <3>1 DEF Types
    <3>3. e \in Nat /\ chip - 1 \in Nat /\ (chip - 1) + 1 = chip
      BY <1>1, <2>5 DEF Experiment
    <3>4. rx'[e].rows = FirstRows(e, chip)
      BY <3>2, <3>3, NextRow
    <3> QED
      BY <2>1, <2>2, <2>5, <3>4
  <2> QED
    BY <1>1, <2>3, <2>4, <2>5
<1>6. Reading'
  <2> SUFFICES ASSUME pc' = "read", e \notin misflashed \cup disturbed, header[e] = "full",
                      chip' # Silent
               PROVE  rx'[e].rows = FirstRows(e, chip' - 1)
    BY <1>1, <1>4 DEF Reading, FirstRows, Silent, Process
  <2>1. chip # Rows + 1
    BY <1>2, <1>4 DEF Text, Line
  <2> QED
    BY <1>1, <1>5, <2>1
<1>7. DoneIsComplete'
  <2> SUFFICES ASSUME NEW x \in Experiment \ (misflashed \cup disturbed), rx'[x].exists,
                      ~InProgress(x)', header[x] = "full"
               PROVE  rx'[x].rows = FirstRows(x, Rows)
    BY <1>1 DEF DoneIsComplete, FirstRows, Process
  <2>1. CASE x # e
    BY <1>1, <1>4, <2>1 DEF Complete, FirstRows, Process
  <2>2. CASE x = e
    <3>1. pc' # "read"
      BY <1>4, <2>2 DEF InProgress, Types
    <3>2. chip = Rows + 1
      BY <1>2, <1>4, <3>1 DEF Text, Line
    <3> QED
      BY <1>5, <2>2, <3>2
  <2> QED
    BY <2>1, <2>2
<1> QED
  BY <1>4, <1>6, <1>7 DEF RunInv

LEMMA GarbledRun == ASSUME RunInv, GarbledLine PROVE RunInv'
<1> USE SizeFacts
<1>1. /\ Types /\ pc = "read" /\ e \in Experiment /\ output = e
      /\ misflashed' = misflashed /\ disturbed' = disturbed \cup {e}
      /\ chip' \in 0 .. Rows + 2
  <2>1. Types /\ pc = "read" /\ chip # Silent /\ chip' \in NextOutput
    BY DEF RunInv, GarbledLine
  <2>2. e \in Experiment /\ output = e /\ chip \in 0 .. Rows + 2
    BY <2>1 DEF Types
  <2>3. misflashed' = misflashed /\ disturbed' = disturbed \cup {e}
    BY <2>2 DEF GarbledLine
  <2> QED
    BY <2>1, <2>2, <2>3 DEF NextOutput, Silent
<1>2. CASE line.kind = "undefined"
  <2>1. /\ pc' = "idle"
        /\ UNCHANGED <<simulate, build, cwd, e, line, irq_trace, header, rx, main_h, firmware>>
    BY <1>2 DEF GarbledLine, folder
  <2>2. Types' /\ Prepared' /\ Lines'
    BY <1>1, <2>1 DEF Types, Prepared, Lines
  <2>3. Fresh' /\ Reading' /\ OwnRows' /\ DoneIsComplete'
    BY <1>1, <2>1, ResultsKept
  <2> QED
    BY <2>2, <2>3 DEF RunInv
<1>3. CASE line.kind # "undefined"
  <2>1. Process(line)
    BY <1>3 DEF GarbledLine
  <2>2. line.kind = "row" => line.row \in Nat \X Nat /\ line.row[1] = firmware.of
    BY <1>1 DEF RunInv, Types, Lines
  <2>3. /\ Types' /\ Prepared' /\ Fresh' /\ Lines' /\ OwnRows'
        /\ \A x \in Experiment \ (misflashed' \cup disturbed') : x # e => Complete(x)'
        /\ e' = e
    BY <1>1, <2>1, <2>2, ProcessRun
  <2>4. Reading'
    BY <1>1, <2>3 DEF Reading
  <2>5. DoneIsComplete'
    BY <1>1, <2>3 DEF DoneIsComplete, Complete, FirstRows
  <2> QED
    BY <2>3, <2>4, <2>5 DEF RunInv
<1> QED
  BY <1>2, <1>3

LEMMA TimeoutRun == ASSUME RunInv, Timeout PROVE RunInv'
<1> USE SizeFacts
<1>1. /\ Types /\ pc = "read" /\ e \in Experiment /\ output = e
      /\ UNCHANGED <<faults, misflashed, disturbed, chip>> /\ chip = Rows + 2
      /\ Process(Text("empty")) /\ Text("empty").kind = "empty"
  BY DEF RunInv, Types, Timeout, Silent, past, Text, Line
<1>2. /\ Types' /\ Prepared' /\ Fresh' /\ Lines' /\ OwnRows'
      /\ \A x \in Experiment \ (misflashed' \cup disturbed') : x # e => Complete(x)'
      /\ e' = e
  <2>1. chip' \in 0 .. Rows + 2
    BY <1>1
  <2> QED
    BY <1>1, <2>1, ProcessRun
<1>3. Reading'
  BY <1>1 DEF Reading, Silent
<1>4. pc' = "read" /\ output' = e
  BY <1>1 DEF Process
<1>5. DoneIsComplete'
  BY <1>1, <1>2, <1>4 DEF DoneIsComplete, Complete, InProgress, FirstRows
<1> QED
  BY <1>2, <1>3, <1>5 DEF RunInv

LEMMA InterruptRun == ASSUME RunInv, Interrupt PROVE RunInv'
<1> USE SizeFacts DEF Interrupt, folder, board
<1>1. Types'
  BY DEF RunInv, Types
<1>2. Prepared' /\ Lines'
  BY DEF Prepared, Lines
<1>3. Fresh' /\ Reading' /\ OwnRows' /\ DoneIsComplete'
  BY ResultsKept DEF RunInv, Fresh, Types
<1> QED
  BY <1>1, <1>2, <1>3 DEF RunInv

LEMMA CleanRun == ASSUME RunInv, Clean PROVE RunInv'
<1> USE SizeFacts DEF Clean, script, board
<1>1. Types'
  BY DEF RunInv, Types, NoResult, Kind
<1>2. Prepared' /\ Fresh' /\ Lines' /\ Reading'
  BY DEF Prepared, Fresh, NoResult, Lines, Reading
<1>3. OwnRows' /\ DoneIsComplete'
  BY DEF OwnRows, DoneIsComplete, NoResult
<1> QED
  BY <1>1, <1>2, <1>3 DEF RunInv

-----------------------------------------------------------------------------
(* The theorems                                                            *)

LEMMA NextRun == RunInv /\ [Next]_vars => RunInv'
<1> SUFFICES ASSUME RunInv, [Next]_vars PROVE RunInv'
  OBVIOUS
<1>1. CASE UNCHANGED vars
  BY <1>1 DEF vars, script, folder, board, past, RunInv, Types, Prepared, Sound, Flashed, Fresh,
              Lines, Reading, OwnRows, DoneIsComplete, InProgress, FirstRows
<1>2. CASE Start \/ Interrupt \/ Clean
  BY <1>2, StartRun, InterruptRun, CleanRun
<1>3. CASE Step
  BY <1>3, WalkRun, SimulateRun, BlobRun, CopyRun, ChdirRun, FlashRun, OpenRun, ReadLineRun,
     TimeoutRun DEF Step
<1>4. CASE GarbledLine
  BY <1>4, GarbledRun
<1> QED
  BY <1>1, <1>2, <1>3, <1>4 DEF Next

LEMMA RunInvariance == Spec => []RunInv
<1>1. Init => RunInv
  BY InitRun
<1>2. RunInv /\ [Next]_vars => RunInv'
  BY NextRun
<1> QED
  BY <1>1, <1>2, PTL DEF Spec

\* run.py stores under an experiment only rows that come from that experiment's
\* trace, unless its cp or make flash failed in the attempt that collected them.
THEOREM OwnRowsHolds == Spec => []OwnRows
<1>1. RunInv => OwnRows
  BY DEF RunInv
<1> QED
  BY <1>1, RunInvariance, PTL

\* An experiment that run.py skips because rx_times.csv exists, and whose trace.h
\* is whole, has all its rows, once and in order, unless cp, make flash or the
\* reading went wrong in the attempt that collected them.
THEOREM DoneIsCompleteHolds == Spec => []DoneIsComplete
<1>1. RunInv => DoneIsComplete
  BY DEF RunInv
<1> QED
  BY <1>1, RunInvariance, PTL

==============================================================================
