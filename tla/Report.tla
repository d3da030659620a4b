-------------------------------- MODULE Report --------------------------------
(***************************************************************************)
(* diagnostics.Read: the power report over the log of cycles.  The log is  *)
(* read line by line into rows; the report is computed from the rows when  *)
(* the log ends.  A line that cannot be used leaves an empty row, so that  *)
(* nothing is linked across it, and a later line with the start of an      *)
(* earlier one, the second outcome of one cycle, takes its row.            *)
(***************************************************************************)
EXTENDS Integers, SequencesExt

CONSTANTS
  Lines,     \* the lines that may occur
  Filters,   \* the filters a user may give; 0 stands for a bound not given
  MaxLines   \* the longest log

(***************************************************************************)
(* A decoded line.  A line that is not JSON decodes to no start; took is   *)
(* ended_at less started_at.                                               *)
(***************************************************************************)
Statuses == {"missing", "charging", "discharging", "full", "other"}
Line == [start : Nat, took : Int, status : Statuses, capacity : Int]

Empty == [start |-> 0, took |-> 0, status |-> "missing", capacity |-> 0]

ASSUME LogAssumption ==
  /\ Lines \subseteq Line
  /\ Filters \subseteq [since : Nat, until : Nat]
  /\ MaxLines \in Nat

VARIABLES
  filter,
  phase,       \* reading, report or error
  rows,        \* one for each line that took none over
  index,       \* the row of each start
  invalid, records, duplicates,
  input        \* history: the lines read

vars == <<filter, phase, rows, index, invalid, records, duplicates, input>>

TypeOK ==
  /\ filter \in Filters
  /\ phase \in {"reading", "report", "error"}
  /\ rows \in Seq(Line)
  /\ index \in [DOMAIN index -> 1 .. Len(rows)]
  /\ {invalid, records, duplicates} \subseteq Nat
  /\ input \in Seq(Line)

-----------------------------------------------------------------------------
(* Reading. *)

Reversed == filter.since > 0 /\ filter.until > 0 /\ filter.since >= filter.until

Init ==
  /\ filter \in Filters
  /\ phase = IF Reversed THEN "error" ELSE "reading"
  /\ rows = <<>> /\ index = [s \in {} |-> 0]
  /\ invalid = 0 /\ records = 0 /\ duplicates = 0
  /\ input = <<>>

Valid(line) == line.start > 0 /\ line.took >= 0

\* Since is inclusive, Until exclusive.
Selected(line) ==
  /\ Valid(line)
  /\ filter.since > 0 => line.start >= filter.since
  /\ filter.until > 0 => line.start < filter.until

\* The row in place of a line that is invalid or outside the filter.
NoRow == rows
BreakRow == Append(rows, Empty)

\* A second outcome of a cycle replaces the first.
FirstKept(line) == rows
Replaced(line) == [rows EXCEPT ![index[line.start]] = line]

NextRow == Len(rows)
Position == Len(rows) + 1

ReadLine(line) ==
  /\ phase = "reading" /\ Len(input) < MaxLines
  /\ input' = Append(input, line)
  /\ \/ /\ ~Selected(line)
        /\ rows' = BreakRow
        /\ invalid' = IF Valid(line) THEN invalid ELSE invalid + 1
        /\ UNCHANGED <<index, records, duplicates>>
     \/ /\ Selected(line) /\ line.start \in DOMAIN index
        /\ rows' = Replaced(line)
        /\ records' = records + 1 /\ duplicates' = duplicates + 1
        /\ UNCHANGED <<index, invalid>>
     \/ /\ Selected(line) /\ line.start \notin DOMAIN index
        /\ index' = [s \in DOMAIN index \cup {line.start} |->
                       IF s = line.start THEN Position ELSE index[s]]
        /\ rows' = Append(rows, line)
        /\ records' = records + 1
        /\ UNCHANGED <<invalid, duplicates>>
  /\ UNCHANGED <<filter, phase>>

\* The end of the log, a read error, or a line longer than the buffer.
EndReading ==
  /\ phase = "reading"
  /\ phase' \in {"report", "error"}
  /\ UNCHANGED <<filter, rows, index, invalid, records, duplicates, input>>

Next == (\E line \in Lines : ReadLine(line)) \/ EndReading

Spec == Init /\ [][Next]_vars

-----------------------------------------------------------------------------
(* The report. *)

Cycles == Cardinality(DOMAIN index)

\* The capacity of a sample a discharge window may use, or -1.
Capacity(row) ==
  IF row.status = "discharging" /\ row.capacity \in 0 .. 100 THEN row.capacity ELSE -1

NoWindow == [start |-> 0, end |-> 0, samples |-> 0, startCapacity |-> 0, endCapacity |-> 0]

\* A window is reported once it links two samples.
Flush(report) ==
  [report EXCEPT !.window = NoWindow,
                 !.discharge = IF report.window.samples >= 2
                               THEN Append(@, report.window) ELSE @]

\* The clock went back, or the battery was charged in between.
Disagrees(window, row) ==
  /\ window.samples > 0
  /\ row.start <= window.end \/ Capacity(row) > window.endCapacity

Extended(window, row) ==
  [start |-> IF window.samples = 0 THEN row.start ELSE window.start,
   startCapacity |-> IF window.samples = 0 THEN Capacity(row) ELSE window.startCapacity,
   end |-> row.start, endCapacity |-> Capacity(row), samples |-> window.samples + 1]

Linked(report, row) ==
  LET before == IF Disagrees(report.window, row) THEN Flush(report) ELSE report
  IN  [before EXCEPT !.window = Extended(@, row)]

Counted(report, row) ==
  [report EXCEPT
     !.first    = IF @ = 0 THEN row.start ELSE Min({@, row.start}),
     !.last     = Max({@, row.start + row.took}),
     !.took     = Append(@, row.took),
     !.statuses[row.status] = @ + 1]

\* The body of the loop over the rows.
AddRow(report, row) ==
  IF row.start = 0 THEN Flush(report)
  ELSE IF Capacity(row) < 0 THEN Flush(Counted(report, row))
  ELSE Linked(Counted(report, row), row)

EmptyReport ==
  [first |-> 0, last |-> 0, took |-> <<>>, statuses |-> [s \in Statuses |-> 0],
   window |-> NoWindow, discharge |-> <<>>]

Report == Flush(FoldLeft(AddRow, EmptyReport, rows))

\* sort.Float64s.
Sorted(values) ==
  LET order == CHOOSE p \in [DOMAIN values -> DOMAIN values] :
                 IsInjective(p) /\ \A i, j \in DOMAIN values : i <= j => values[p[i]] <= values[p[j]]
  IN  [i \in DOMAIN values |-> values[order[i]]]

\* distribution: twice the median, and the percentile by nearest rank.
Rank(n) == (19 * n + 19) \div 20
Distribution(values) ==
  LET sorted == Sorted(values)
      n == Len(values)
      mid == n \div 2 + 1
  IN  [min |-> sorted[1], max |-> sorted[n], p95 |-> sorted[Rank(n)],
       median2 |-> IF n % 2 = 0 THEN sorted[mid - 1] + sorted[mid] ELSE 2 * sorted[mid]]

-----------------------------------------------------------------------------
(* What the report promises, from the lines alone. *)

Chosen == {i \in DOMAIN input : Selected(input[i])}

\* Where a cycle enters the log, and its last outcome.
Heads == {i \in Chosen : \A j \in Chosen : input[j].start = input[i].start => i <= j}
Outcome(i) == input[Max({j \in Chosen : input[j].start = input[i].start})]

\* The cycle at j comes next after the one at i, and nothing between them
\* speaks against one discharge.
Adjoins(i, j) ==
  /\ i < j /\ \A k \in i + 1 .. j - 1 : k \in Chosen \ Heads
  /\ \A k \in {i, j} : Outcome(k).status = "discharging" /\ Outcome(k).capacity \in 0 .. 100
  /\ Outcome(i).start < Outcome(j).start
  /\ Outcome(j).capacity <= Outcome(i).capacity

Joined(i, j) ==
  \A k \in Heads \cap i .. j - 1 : \E l \in Heads \cap k + 1 .. j : Adjoins(k, l)

\* The longest runs of at least two cycles.
Runs ==
  {run \in Heads \X Heads :
     /\ run[1] < run[2] /\ Joined(run[1], run[2])
     /\ \A k \in Heads : ~Adjoins(k, run[1]) /\ ~Adjoins(run[2], k)}

WindowOf(i, j) ==
  [start |-> Outcome(i).start, end |-> Outcome(j).start,
   startCapacity |-> Outcome(i).capacity, endCapacity |-> Outcome(j).capacity,
   samples |-> Cardinality(Heads \cap i .. j)]

\* Discharge windows are exactly the longest runs of adjacent discharging
\* samples, in their order: none bridges a charging, unreadable, malformed or
\* excluded record, a clock that went back or a rising percentage, and none is
\* lost, also when a second outcome changes a cycle in the middle of one.
WindowsAreRuns ==
  phase = "report" =>
  LET windows == Report.discharge IN
  \E runs \in [DOMAIN windows -> Runs] :
    /\ \A run \in Runs : \E n \in DOMAIN windows : runs[n] = run
    /\ \A m, n \in DOMAIN windows : m < n => runs[m][1] < runs[n][1]
    /\ \A n \in DOMAIN windows : windows[n] = WindowOf(runs[n][1], runs[n][2])

\* The numbers of the log itself.
NumbersOfLog ==
  /\ invalid = Cardinality({i \in DOMAIN input : ~Valid(input[i])})
  /\ records = Cardinality(Chosen) /\ Cycles = Cardinality(Heads)
  /\ duplicates = records - Cycles

CountOf(P(_)) == Cardinality({i \in Heads : P(Outcome(i))})

\* No cycle is counted twice: the numbers are those of the last outcome of
\* each cycle, whatever came between its first record and that one.
FinalOutcomes ==
  phase = "report" =>
  LET took == Report.took
      share(n) == 20 * Cardinality({i \in Heads : Outcome(i).took <= n})
  IN
  /\ NumbersOfLog
  /\ \A s \in Statuses : Report.statuses[s] = CountOf(LAMBDA o : o.status = s)
  /\ \A n \in {input[i].took : i \in DOMAIN input} :
       CountOf(LAMBDA o : o.took = n) = Cardinality({i \in DOMAIN took : took[i] = n})
  /\ Heads # {} =>
       LET d == Distribution(took) IN
       /\ Report.first = Min({Outcome(i).start : i \in Heads})
       /\ Report.last = Max({Outcome(i).start + Outcome(i).took : i \in Heads})
       /\ share(d.p95) >= 19 * Cycles /\ share(d.p95 - 1) < 19 * Cycles
       /\ share(d.median2 \div 2) >= 10 * Cycles
       /\ share(d.min - 1) = 0 /\ share(d.max) = 20 * Cycles
=============================================================================
