------------------------ MODULE HistoricalReplay_proofs ------------------------
(* Theorems about the historical replay, for every archive, log range, list   *)
(* of cohorts and horizons, split of the map, and behaviour of the provider.  *)
EXTENDS HistoricalReplay, FiniteSetTheorems, TLAPS

------------------------------------------------------------------------------
(* Scan, scope and map.                                                    *)

\* A scan is under way only while there is no scope.
ScanInv == scan.step = "scan" => scope = <<>>

\* A scope that was frozen names every launch of the range.
ScopeInv ==
    scope # <<>> => /\ scope \in [1..ExpectedLaunches -> Log]
                    /\ Launch \subseteq {scope[n].launch : n \in 1..ExpectedLaunches}

\* The map is that of the scope.
MapInv == map # <<>> => scope # <<>> /\ map = MapRows

------------------------------------------------------------------------------
(* What a receipt owes to the archive.                                     *)

RowRecord ==
    [ordinal : Nat, implementation : Range(Implementation), launch : Launch,
     baseline : {"COMPLETE", "UNVERIFIED"}, entry : {"none", "found", "reverts"},
     cells : Seq(CellType)]

HorizonsOf(program) == Program[program].horizons

\* A cell of a shard says what the archive says; a gate may understate it.  What is
\* COMPLETE was over, confirmed by a head of h, when it was read.
CellTrue(program, l, cell, horizon, h) ==
    /\ cell.horizon = horizon
    /\ cell.status = "COMPLETE" =>
          /\ ArchiveCell(program, l, horizon) = "COMPLETE"
          /\ ObservedBlock(l, horizon) + Confirmations <= h
    /\ program = "shard" => cell.status = ArchiveCell(program, l, horizon)

CellsTrue(program, l, cells, h) ==
    \A i \in 1..Len(cells) : CellTrue(program, l, cells[i], HorizonsOf(program)[i], h)

RowTrue(program, row, h) ==
    /\ row \in RowRecord
    /\ row.implementation = Implementation[BlockOf(row.launch) + Delay]
    /\ row.baseline = ArchiveBaseline(program, row.launch)
    /\ row.baseline = "COMPLETE" => row.entry = EntryRead(row.launch)
    /\ Len(row.cells) <= Len(HorizonsOf(program))
    /\ CellsTrue(program, row.launch, row.cells, h)

RowDone(program, row) == Len(row.cells) = Len(HorizonsOf(program))

------------------------------------------------------------------------------
(* A job, given the map and the head.                                      *)

\* The launches a job has been given, as they were given to it.
Task(j, m, k) == IF j.program = "shard" THEN m[j.range[1] + k - 1] ELSE Representatives[k]
Tasks(j) == j.range[2] - j.range[1] + 1

\* How many it is done with.
Finished(j) == IF j.step = "outcome" THEN Len(j.rows) - 1 ELSE Len(j.rows)

JobFields(tasks) ==
    [program : DOMAIN Program, step : {"launch", "baseline", "outcome"}, range : Int \X Int,
     todo : Seq(tasks), confirmed : Nat, rows : Seq(RowRecord)]
JobRecord(j, m) == JobFields({Task(j, m, k) : k \in 1..Tasks(j)})

GivenRight(j, m) ==
    /\ j.program = "shard" => m # <<>> /\ j.range \in Ranges
    /\ j.program # "shard" => j.range = <<1, Len(Cohort)>>
    /\ Tasks(j) \in Nat
    /\ \A k \in 1..Tasks(j) : Task(j, m, k).log.launch \in Launch /\ Task(j, m, k).ordinal \in Nat

\* What it was given is what it is done with and what it has to do, in order.
InTurn(j, m) ==
    /\ Finished(j) \in Nat /\ Finished(j) + Len(j.todo) = Tasks(j)
    /\ \A k \in 1..Len(j.todo) : j.todo[k] = Task(j, m, Finished(j) + k)
    /\ \A k \in 1..Len(j.rows) : /\ j.rows[k].launch = Task(j, m, k).log.launch
                                 /\ j.rows[k].ordinal = Task(j, m, k).ordinal

RowsTrue(j, h) ==
    /\ \A k \in 1..Len(j.rows) : RowTrue(j.program, j.rows[k], h)
    /\ \A k \in 1..Finished(j) : RowDone(j.program, j.rows[k])
    /\ j.step \in {"baseline", "outcome"} => Len(j.todo) > 0
    /\ j.step = "outcome" =>
          /\ j.rows[Len(j.rows)].baseline = "COMPLETE"
          /\ Len(j.rows[Len(j.rows)].cells) < Len(HorizonsOf(j.program))

JobRight(j, m, h) ==
    /\ j \in JobRecord(j, m)
    /\ j.confirmed + Confirmations <= h
    /\ GivenRight(j, m) /\ InTurn(j, m) /\ RowsTrue(j, h)

JobInv == job.step # "idle" => JobRight(job, map, head)

------------------------------------------------------------------------------
(* What was published.                                                     *)

ReceiptRight(receipt) ==
    /\ map # <<>>
    /\ receipt.rows \in Seq(RowRecord)
    /\ \A i \in 1..Len(receipt.rows) :
          LET row == receipt.rows[i] IN
          /\ RowTrue("shard", row, head) /\ RowDone("shard", row)
          /\ row.ordinal \in 1..ExpectedLaunches
          /\ row.launch = scope[row.ordinal].launch

ReceiptInv == \A receipt \in receipts : ReceiptRight(receipt)

ReplayInv == TypeOK /\ ScanInv /\ ScopeInv /\ MapInv /\ JobInv /\ ReceiptInv /\ ReportIsTrue /\ GateIsEarned

------------------------------------------------------------------------------
(* The constants.                                                          *)

LEMMA LaunchesAreFinite == IsFiniteSet(Launch) /\ ExpectedLaunches \in Nat
<1>1. IsFiniteSet(Log)
  BY ReplayAssumption DEF ReplayAssumption
<1> DEFINE f == [log \in Log |-> log.launch]
<1>2. f \in Surjection(Log, Launch)
  BY DEF Launch, Surjection
<1> HIDE DEF f
<1>3. IsFiniteSet(Launch)
  BY <1>1, <1>2, FS_Surjection
<1> QED BY <1>3, FS_CardinalityType DEF ExpectedLaunches

LEMMA BlocksAreHeights ==
    ASSUME NEW l \in Launch
    PROVE  /\ BlockOf(l) \in FromBlock..ToBlock /\ BlockOf(l) \in Nat /\ Delay \in Nat
           /\ BlockOf(l) + Delay \in 1..MaxBlock
<1>1. PICK log \in Log : log.launch = l
  BY DEF Launch
<1>2. log.block \in FromBlock..ToBlock /\ log.block = BlockOf(l)
  BY <1>1, ReplayAssumption DEF ReplayAssumption
<1>3. /\ FromBlock \in Nat \ {0} /\ ToBlock \in Nat /\ Delay \in Nat /\ MaxBlock \in Nat
      /\ ToBlock + Delay <= MaxBlock
  BY ReplayAssumption DEF ReplayAssumption
<1> QED BY <1>2, <1>3

LEMMA Programs ==
    /\ DOMAIN Program = {"compatibility", "baselinePolicy", "outcomePolicy", "allHorizons", "shard"}
    /\ Gate = {"compatibility", "baselinePolicy", "outcomePolicy", "allHorizons"}
    /\ HorizonsOf("shard") = Horizon
    /\ "none" \notin DOMAIN Program
    /\ Program["shard"].pending = "throws"
  BY DEF Program, Gate, HorizonsOf, FullReplay

LEMMA HorizonsAreTimes ==
    ASSUME NEW program \in DOMAIN Program
    PROVE  /\ HorizonsOf(program) \in Seq(Nat) /\ Len(HorizonsOf(program)) > 0
           /\ Len(HorizonsOf(program)) \in Nat
           /\ DOMAIN HorizonsOf(program) = 1..Len(HorizonsOf(program))
           /\ \A i \in 1..Len(HorizonsOf(program)) :
                 HorizonsOf(program)[i] \in Nat
                 /\ HorizonsOf(program)[i] \in {Horizon[j] : j \in DOMAIN Horizon}
<1>1. Horizon \in Seq(Nat) /\ Len(Horizon) \in Nat \ {0} /\ DOMAIN Horizon = 1..Len(Horizon)
  BY ReplayAssumption DEF ReplayAssumption
<1>2. HorizonsOf(program) \in {Horizon, LastHorizon}
  BY Programs DEF HorizonsOf, Program, Compatibility, BaselinePolicy, OutcomePolicy, AllHorizons, FullReplay
<1>3. \A i \in 1..Len(Horizon) : Horizon[i] \in Nat /\ Horizon[i] \in {Horizon[j] : j \in DOMAIN Horizon}
  BY <1>1
<1>4. /\ LastHorizon \in Seq(Nat) /\ Len(LastHorizon) = 1 /\ DOMAIN LastHorizon = 1..1
      /\ LastHorizon[1] = Horizon[Len(Horizon)]
  BY <1>1, <1>3 DEF LastHorizon
<1>5. CASE HorizonsOf(program) = Horizon
  BY <1>1, <1>3, <1>5
<1>6. CASE HorizonsOf(program) = LastHorizon
  <2>1. Len(Horizon) \in 1..Len(Horizon)
    BY <1>1
  <2>2. LastHorizon[1] \in Nat /\ LastHorizon[1] \in {Horizon[j] : j \in DOMAIN Horizon}
    BY <1>3, <1>4, <2>1
  <2>3. \A i \in 1..1 : i = 1
    OBVIOUS
  <2>4. /\ LastHorizon \in Seq(Nat) /\ Len(LastHorizon) > 0 /\ Len(LastHorizon) \in Nat
        /\ DOMAIN LastHorizon = 1..Len(LastHorizon)
    BY <1>4
  <2>5. \A i \in 1..Len(LastHorizon) :
           LastHorizon[i] \in Nat /\ LastHorizon[i] \in {Horizon[j] : j \in DOMAIN Horizon}
    BY <1>4, <2>2, <2>3
  <2> QED BY ONLY <1>6, <2>4, <2>5
<1> QED BY <1>2, <1>5, <1>6

LEMMA ObservedIsNumber ==
    ASSUME NEW l \in Launch, NEW h \in Nat
    PROVE  ObservedBlock(l, h) \in Nat
  BY BlocksAreHeights DEF ObservedBlock

------------------------------------------------------------------------------
(* Reads and what the archive holds.                                       *)

LEMMA BaselineByReads ==
    ASSUME NEW program \in DOMAIN Program, NEW l \in Launch,
           NEW pool \in Reads(PoolRead(l)),
           NEW price \in Reads(CalibrationRead(Program[program].calibration, l, BlockOf(l) + Delay)),
           NEW answer, answer = IF pool # "found" THEN pool ELSE price
    PROVE  /\ IsTerminalGap(answer) => ArchiveBaseline(program, l) = "UNVERIFIED"
           /\ answer = "found" => ArchiveBaseline(program, l) = "COMPLETE"
<1> DEFINE method == Program[program].calibration
           b == BlockOf(l) + Delay
<1> HIDE DEF method, b
<1>1. ArchiveBaseline(program, l) =
         IF Market[l].pool /\ Market[l].base # "other" /\ UsdKnown(method, l, b)
         THEN "COMPLETE" ELSE "UNVERIFIED"
  BY DEF ArchiveBaseline, method, b
<1>2. pool = PoolRead(l) \/ pool = "unreachable"
  BY DEF Reads
<1>3. price = CalibrationRead(method, l, b) \/ price = "unreachable"
  BY DEF Reads, method, b
<1>4. /\ PoolRead(l) = "found" => Market[l].pool /\ Market[l].base # "other"
      /\ PoolRead(l) # "found" => ~ (Market[l].pool /\ Market[l].base # "other")
  BY DEF PoolRead
<1>5. /\ CalibrationRead(method, l, b) = "found" => UsdKnown(method, l, b)
      /\ CalibrationRead(method, l, b) = "gap" => ~ UsdKnown(method, l, b)
  BY DEF UsdKnown, CalibrationRead
<1>6. ASSUME IsTerminalGap(answer) PROVE ArchiveBaseline(program, l) = "UNVERIFIED"
  <2>1. answer = "gap"
    BY <1>6 DEF IsTerminalGap
  <2> QED BY <1>1, <1>2, <1>3, <1>4, <1>5, <2>1
<1>7. ASSUME answer = "found" PROVE ArchiveBaseline(program, l) = "COMPLETE"
  BY <1>1, <1>2, <1>3, <1>4, <1>5, <1>7
<1> QED BY <1>6, <1>7

\* The status the code gives a cell whose reads did not fail.
StatusOf(entry, exit, value) ==
    IF entry = "found" /\ ((entry = "found" /\ exit = "found") => value = "found")
    THEN "COMPLETE" ELSE "UNVERIFIED"

LEMMA CellByReads ==
    ASSUME NEW program \in DOMAIN Program, NEW l \in Launch, NEW h, NEW at, at = ObservedBlock(l, h),
           ArchiveBaseline(program, l) = "COMPLETE",
           NEW exit \in Reads(ExitRead(l, at)),
           NEW value \in Reads(ValuationRead(Program[program].valuation, l, at)),
           ~ (/\ EntryRead(l) = "found"
              /\ exit = "unreachable" \/ (exit = "found" /\ value = "unreachable"))
    PROVE  StatusOf(EntryRead(l), exit, value) = ArchiveCell(program, l, h)
<1> DEFINE method == Program[program].valuation
           known == UsdKnown(method, l, at)
<1> HIDE DEF method
<1>1. ArchiveCell(program, l, h) =
         IF Market[l].entry /\ (at \in Sells[l] => known) THEN "COMPLETE" ELSE "UNVERIFIED"
  BY DEF ArchiveCell, method
<1>2. /\ Market[l].entry => EntryRead(l) = "found"
      /\ ~ Market[l].entry => EntryRead(l) = "reverts"
  BY DEF EntryRead
<1>3. exit = "unreachable" \/ (at \in Sells[l] /\ exit = "found") \/ (at \notin Sells[l] /\ exit = "reverts")
  BY DEF Reads, ExitRead
<1>4. value = "unreachable" \/ (known /\ value = "found") \/ (~ known /\ value = "gap")
  BY DEF Reads, ValuationRead, UsdKnown, method
<1> HIDE DEF known
<1> QED BY <1>1, <1>2, <1>3, <1>4 DEF StatusOf

------------------------------------------------------------------------------
(* What the head leaves true.                                              *)

LEMMA RowStaysTrue ==
    ASSUME NEW program \in DOMAIN Program, NEW h \in Nat, NEW g \in Nat, h <= g, NEW row,
           RowTrue(program, row, h)
    PROVE  RowTrue(program, row, g)
<1>1. ASSUME NEW i \in 1..Len(row.cells)
      PROVE  CellTrue(program, row.launch, row.cells[i], HorizonsOf(program)[i], g)
  <2>1. row.launch \in Launch /\ Len(row.cells) \in Nat
    BY DEF RowTrue, RowRecord
  <2>2. HorizonsOf(program)[i] \in Nat
    <3>1. i \in 1..Len(HorizonsOf(program))
      BY <2>1, HorizonsAreTimes DEF RowTrue
    <3> QED BY <3>1, HorizonsAreTimes
  <2>3. ObservedBlock(row.launch, HorizonsOf(program)[i]) \in Nat
    BY <2>1, <2>2, ObservedIsNumber
  <2>4. Confirmations \in Nat
    BY ReplayAssumption DEF ReplayAssumption
  <2>5. CellTrue(program, row.launch, row.cells[i], HorizonsOf(program)[i], h)
    BY DEF RowTrue, CellsTrue
  <2> QED BY <2>3, <2>4, <2>5 DEF CellTrue
<1> QED BY <1>1 DEF RowTrue, CellsTrue

LEMMA JobStaysRight ==
    ASSUME NEW j, NEW m, NEW h \in Nat, NEW g \in Nat, h <= g, JobRight(j, m, h)
    PROVE  JobRight(j, m, g)
<1>1. j.program \in DOMAIN Program /\ j.confirmed \in Nat /\ Confirmations \in Nat
  BY ReplayAssumption DEF ReplayAssumption, JobRight, JobRecord, JobFields
<1>2. RowsTrue(j, g)
  BY <1>1, RowStaysTrue DEF JobRight, RowsTrue
<1> QED BY <1>1, <1>2 DEF JobRight

------------------------------------------------------------------------------
(* How a job moves on.                                                     *)

\* What a job was given depends on its program and its range.
LEMMA SameGiven ==
    ASSUME NEW j, NEW i, NEW m, i.program = j.program, i.range = j.range
    PROVE  /\ \A k \in Nat : Task(i, m, k) = Task(j, m, k)
           /\ Tasks(i) = Tasks(j) /\ JobRecord(i, m) = JobRecord(j, m)
           /\ GivenRight(j, m) => GivenRight(i, m)
<1>1. \A k \in Nat : Task(i, m, k) = Task(j, m, k)
  BY DEF Task
<1>2. Tasks(i) = Tasks(j)
  BY DEF Tasks
<1>3. {Task(i, m, k) : k \in 1..Tasks(i)} = {Task(j, m, k) : k \in 1..Tasks(j)}
  BY <1>1, <1>2
<1>4. JobRecord(i, m) = JobRecord(j, m)
  BY <1>3 DEF JobRecord
<1>5. GivenRight(j, m) => GivenRight(i, m)
  BY <1>1, <1>2 DEF GivenRight
<1> QED BY <1>1, <1>2, <1>4, <1>5

LEMMA CurrentTask ==
    ASSUME NEW j, NEW m, NEW h, JobRight(j, m, h), Len(j.todo) > 0
    PROVE  /\ Finished(j) + 1 \in 1..Tasks(j)
           /\ Head(j.todo) = Task(j, m, Finished(j) + 1)
           /\ Head(j.todo).log.launch \in Launch /\ Head(j.todo).ordinal \in Nat
           /\ Tail(j.todo) \in Seq({Task(j, m, k) : k \in 1..Tasks(j)})
           /\ Len(Tail(j.todo)) = Len(j.todo) - 1
           /\ \A k \in 1..Len(Tail(j.todo)) : Tail(j.todo)[k] = j.todo[k + 1]
<1>1. PICK T : T = {Task(j, m, k) : k \in 1..Tasks(j)}
  OBVIOUS
<1>2. j.todo \in Seq(T) /\ Len(j.todo) \in Nat
  BY <1>1 DEF JobRight, JobRecord, JobFields
<1>3. /\ Head(j.todo) = j.todo[1] /\ Tail(j.todo) \in Seq(T) /\ Len(Tail(j.todo)) = Len(j.todo) - 1
      /\ \A k \in 1..Len(Tail(j.todo)) : Tail(j.todo)[k] = j.todo[k + 1]
  BY <1>2
<1>4. /\ Finished(j) \in Nat /\ Tasks(j) \in Nat /\ Finished(j) + Len(j.todo) = Tasks(j)
      /\ \A k \in 1..Len(j.todo) : j.todo[k] = Task(j, m, Finished(j) + k)
      /\ \A k \in 1..Tasks(j) : Task(j, m, k).log.launch \in Launch /\ Task(j, m, k).ordinal \in Nat
  BY DEF JobRight, InTurn, GivenRight
<1>5. Finished(j) + 1 \in 1..Tasks(j) /\ 1 \in 1..Len(j.todo)
  BY <1>2, <1>4
<1> QED BY <1>1, <1>3, <1>4, <1>5

LEMMA ReadIsRight ==
    ASSUME NEW j, NEW m, NEW h, JobRight(j, m, h), j.step = "launch", Len(j.todo) > 0,
           NEW i, i = [j EXCEPT !.step = "baseline"]
    PROVE  JobRight(i, m, h) /\ i.step = "baseline"
<1>1. /\ j \in JobRecord(j, m) /\ i.program = j.program /\ i.range = j.range /\ i.todo = j.todo
      /\ i.rows = j.rows /\ i.confirmed = j.confirmed /\ i.step = "baseline"
  BY DEF JobRight, JobRecord, JobFields
<1>2. i \in JobRecord(j, m)
  BY <1>1 DEF JobRecord, JobFields
<1>3. Finished(i) = Finished(j)
  BY <1>1 DEF Finished
<1>4. GivenRight(i, m)
  BY <1>1, SameGiven DEF JobRight
<1>5. InTurn(i, m)
  <2>1. Tasks(i) = Tasks(j) /\ \A k \in Nat : Task(i, m, k) = Task(j, m, k)
    BY <1>1 DEF Tasks, Task
  <2>2. Finished(j) \in Nat /\ Len(j.todo) \in Nat /\ Len(j.rows) \in Nat
    BY <1>1 DEF JobRight, InTurn, JobRecord, JobFields
  <2>3. \A k \in 1..Len(j.todo) : j.todo[k] = Task(i, m, Finished(j) + k)
    <3>1. \A k \in 1..Len(j.todo) : Finished(j) + k \in Nat
      BY <2>2
    <3> QED BY <2>1, <3>1 DEF JobRight, InTurn
  <2>4. \A k \in 1..Len(j.rows) : /\ j.rows[k].launch = Task(i, m, k).log.launch
                                 /\ j.rows[k].ordinal = Task(i, m, k).ordinal
    <3>1. \A k \in 1..Len(j.rows) : k \in Nat
      BY <2>2
    <3>2. \A k \in 1..Len(j.rows) : /\ j.rows[k].launch = Task(j, m, k).log.launch
                                     /\ j.rows[k].ordinal = Task(j, m, k).ordinal
      BY DEF JobRight, InTurn
    <3> QED BY ONLY <2>1, <3>1, <3>2
  <2>5. Finished(j) + Len(j.todo) = Tasks(i)
    BY <2>1 DEF JobRight, InTurn
  <2>6. Finished(i) \in Nat /\ Finished(i) + Len(i.todo) = Tasks(i)
    BY <1>1, <1>3, <2>2, <2>5
  <2>7. \A k \in 1..Len(i.todo) : i.todo[k] = Task(i, m, Finished(i) + k)
    BY ONLY <1>1, <1>3, <2>3
  <2>8. \A k \in 1..Len(i.rows) : /\ i.rows[k].launch = Task(i, m, k).log.launch
                                 /\ i.rows[k].ordinal = Task(i, m, k).ordinal
    BY ONLY <1>1, <2>4
  <2> QED BY ONLY <2>6, <2>7, <2>8 DEF InTurn
<1>6. RowsTrue(i, h)
  BY <1>1, <1>3, CurrentTask DEF JobRight, RowsTrue
<1>7. i \in JobRecord(i, m)
  BY ONLY <1>1, <1>2, SameGiven
<1>8. i.confirmed + Confirmations <= h
  BY <1>1 DEF JobRight
<1> QED BY ONLY <1>1, <1>4, <1>5, <1>6, <1>7, <1>8 DEF JobRight

\* The rows of a job with one more, or with its last one changed.
WithRow(j, rows, h) ==
    /\ rows \in Seq(RowRecord)
    /\ Len(rows) = Finished(j) + 1
    /\ \A k \in 1..Finished(j) : rows[k] = j.rows[k]
    /\ LET row == rows[Finished(j) + 1] IN
       /\ RowTrue(j.program, row, h)
       /\ row.launch = Head(j.todo).log.launch /\ row.ordinal = Head(j.todo).ordinal

LEMMA RowsInTurn ==
    ASSUME NEW j, NEW m, NEW h, JobRight(j, m, h), Len(j.todo) > 0, NEW rows, WithRow(j, rows, h)
    PROVE  /\ \A k \in 1..Len(rows) : /\ rows[k].launch = Task(j, m, k).log.launch
                                      /\ rows[k].ordinal = Task(j, m, k).ordinal
                                      /\ RowTrue(j.program, rows[k], h)
           /\ \A k \in 1..Finished(j) : RowDone(j.program, rows[k])
           /\ Finished(j) \in Nat /\ Len(j.rows) \in Nat
<1>1. Finished(j) \in Nat /\ Len(j.rows) \in Nat /\ Finished(j) <= Len(j.rows)
  BY DEF JobRight, JobRecord, JobFields, InTurn, Finished
<1>2. /\ \A k \in 1..Len(j.rows) : /\ j.rows[k].launch = Task(j, m, k).log.launch
                                   /\ j.rows[k].ordinal = Task(j, m, k).ordinal
                                   /\ RowTrue(j.program, j.rows[k], h)
      /\ \A k \in 1..Finished(j) : RowDone(j.program, j.rows[k])
  BY DEF JobRight, InTurn, RowsTrue
<1>3. /\ Len(rows) = Finished(j) + 1 /\ \A k \in 1..Finished(j) : rows[k] = j.rows[k]
      /\ RowTrue(j.program, rows[Finished(j) + 1], h)
      /\ rows[Finished(j) + 1].launch = Head(j.todo).log.launch
      /\ rows[Finished(j) + 1].ordinal = Head(j.todo).ordinal
  BY DEF WithRow
<1>4. Head(j.todo) = Task(j, m, Finished(j) + 1)
  BY CurrentTask
<1>5. ASSUME NEW k \in 1..Len(rows)
      PROVE  /\ rows[k].launch = Task(j, m, k).log.launch
             /\ rows[k].ordinal = Task(j, m, k).ordinal
             /\ RowTrue(j.program, rows[k], h)
  <2>1. CASE k \in 1..Finished(j)
    BY <1>1, <1>2, <1>3, <2>1
  <2>2. CASE k = Finished(j) + 1
    BY <1>3, <1>4, <2>2
  <2> QED BY <1>1, <1>3, <2>1, <2>2
<1> QED BY <1>1, <1>2, <1>3, <1>5

\* The row of a launch is done and the next launch's turn has come.
LEMMA NextIsRight ==
    ASSUME NEW j, NEW m, NEW h, JobRight(j, m, h), Len(j.todo) > 0, NEW rows, WithRow(j, rows, h),
           RowDone(j.program, rows[Finished(j) + 1]),
           NEW i, i = [j EXCEPT !.step = "launch", !.todo = Tail(@), !.rows = rows]
    PROVE  JobRight(i, m, h)
<1>1. /\ j \in JobRecord(j, m) /\ i.program = j.program /\ i.range = j.range
      /\ i.todo = Tail(j.todo) /\ i.rows = rows /\ i.confirmed = j.confirmed /\ i.step = "launch"
  BY DEF JobRight, JobRecord, JobFields
<1>2. i \in JobRecord(j, m)
  <2>1. PICK T : T = {Task(j, m, k) : k \in 1..Tasks(j)}
    OBVIOUS
  <2>2. Tail(j.todo) \in Seq(T) /\ j \in JobFields(T) /\ rows \in Seq(RowRecord)
    BY <1>1, <2>1, CurrentTask DEF JobRecord, WithRow
  <2>3. i \in JobFields(T)
    BY <2>2 DEF JobFields
  <2> QED BY <2>1, <2>3 DEF JobRecord
<1>3. Finished(i) = Finished(j) + 1
  BY <1>1 DEF Finished, WithRow
<1>4. GivenRight(i, m)
  BY <1>1, SameGiven DEF JobRight
<1>5. InTurn(i, m)
  <2>1. /\ Finished(j) \in Nat /\ Finished(j) + Len(j.todo) = Tasks(j) /\ Len(j.todo) \in Nat
        /\ \A k \in 1..Len(j.todo) : j.todo[k] = Task(j, m, Finished(j) + k)
    BY DEF JobRight, InTurn, JobRecord, JobFields
  <2>2. /\ Len(i.todo) = Len(j.todo) - 1
        /\ \A k \in 1..Len(i.todo) : i.todo[k] = j.todo[k + 1]
    BY <1>1, CurrentTask
  <2>3. Tasks(i) = Tasks(j) /\ \A k \in Nat : Task(i, m, k) = Task(j, m, k)
    BY <1>1 DEF Tasks, Task
  <2>4. ASSUME NEW k \in 1..Len(i.todo) PROVE i.todo[k] = Task(i, m, Finished(i) + k)
    <3>1. PICK f, n : f = Finished(j) /\ n = Len(j.todo)
      OBVIOUS
    <3>2. f \in Nat /\ n \in Nat /\ Len(i.todo) = n - 1
      BY <2>1, <2>2, <3>1
    <3>3. k \in Nat /\ k + 1 \in 1..n /\ f + (k + 1) = (f + 1) + k /\ f + (k + 1) \in Nat
      BY <3>2
    <3>4. i.todo[k] = Task(j, m, f + (k + 1))
      BY <2>1, <2>2, <3>1, <3>3
    <3>5. Task(i, m, f + (k + 1)) = Task(j, m, f + (k + 1))
      BY <2>3, <3>3
    <3> QED BY <1>3, <3>1, <3>3, <3>4, <3>5
  <2>5. \A k \in 1..Len(i.rows) : /\ i.rows[k].launch = Task(i, m, k).log.launch
                                  /\ i.rows[k].ordinal = Task(i, m, k).ordinal
    BY <1>1, <2>3, RowsInTurn
  <2>6. Finished(i) \in Nat /\ Finished(i) + Len(i.todo) = Tasks(i)
    BY <1>3, <2>1, <2>2, <2>3
  <2> QED BY ONLY <2>4, <2>5, <2>6 DEF InTurn
<1>6. RowsTrue(i, h)
  <2>1. \A k \in 1..Finished(i) : RowDone(i.program, i.rows[k])
    BY <1>1, <1>3, RowsInTurn
  <2> QED BY <1>1, <2>1, RowsInTurn DEF RowsTrue
<1>7. i \in JobRecord(i, m)
  BY ONLY <1>1, <1>2, SameGiven
<1>8. i.confirmed + Confirmations <= h
  BY <1>1 DEF JobRight
<1> QED BY ONLY <1>4, <1>5, <1>6, <1>7, <1>8 DEF JobRight

\* The row of a launch waits for its next cell.
LEMMA RowIsRight ==
    ASSUME NEW j, NEW m, NEW h, JobRight(j, m, h), Len(j.todo) > 0, NEW rows, WithRow(j, rows, h),
           rows[Finished(j) + 1].baseline = "COMPLETE",
           Len(rows[Finished(j) + 1].cells) < Len(HorizonsOf(j.program)),
           NEW i, i = [j EXCEPT !.step = "outcome", !.rows = rows]
    PROVE  JobRight(i, m, h)
<1>1. /\ j \in JobRecord(j, m) /\ i.program = j.program /\ i.range = j.range
      /\ i.todo = j.todo /\ i.rows = rows /\ i.confirmed = j.confirmed /\ i.step = "outcome"
  BY DEF JobRight, JobRecord, JobFields
<1>2. i \in JobRecord(j, m)
  <2>1. PICK T : T = {Task(j, m, k) : k \in 1..Tasks(j)}
    OBVIOUS
  <2>2. j \in JobFields(T) /\ rows \in Seq(RowRecord)
    BY <1>1, <2>1 DEF JobRecord, WithRow
  <2>3. i \in JobFields(T)
    BY <2>2 DEF JobFields
  <2> QED BY <2>1, <2>3 DEF JobRecord
<1>3. Finished(i) = Finished(j) /\ Len(i.rows) = Finished(j) + 1
  BY <1>1, RowsInTurn DEF Finished, WithRow
<1>4. GivenRight(i, m)
  BY <1>1, SameGiven DEF JobRight
<1>5. InTurn(i, m)
  <2>1. Tasks(i) = Tasks(j) /\ \A k \in Nat : Task(i, m, k) = Task(j, m, k)
    BY <1>1 DEF Tasks, Task
  <2>2. \A k \in 1..Len(i.rows) : /\ i.rows[k].launch = Task(i, m, k).log.launch
                                  /\ i.rows[k].ordinal = Task(i, m, k).ordinal
    BY <1>1, <2>1, RowsInTurn
  <2> QED BY <1>1, <1>3, <2>1, <2>2 DEF JobRight, InTurn
<1>6. RowsTrue(i, h)
  BY <1>1, <1>3, RowsInTurn DEF RowsTrue
<1>7. i \in JobRecord(i, m)
  BY ONLY <1>1, <1>2, SameGiven
<1>8. i.confirmed + Confirmations <= h
  BY <1>1 DEF JobRight
<1> QED BY ONLY <1>4, <1>5, <1>6, <1>7, <1>8 DEF JobRight

\* A row with one more cell.
WithCell(row, cell) == [row EXCEPT !.cells = Append(@, cell)]
LEMMA RowGrows ==
    ASSUME NEW program \in DOMAIN Program, NEW h, NEW row, RowTrue(program, row, h),
           Len(row.cells) < Len(HorizonsOf(program)),
           NEW cell \in CellType,
           CellTrue(program, row.launch, cell, HorizonsOf(program)[Len(row.cells) + 1], h),
           NEW new, new = WithCell(row, cell)
    PROVE  /\ RowTrue(program, new, h) /\ Len(new.cells) = Len(row.cells) + 1
           /\ new.launch = row.launch /\ new.ordinal = row.ordinal /\ new.baseline = row.baseline
<1>1. row \in RowRecord /\ row.cells \in Seq(CellType) /\ Len(row.cells) \in Nat
  BY DEF RowTrue, RowRecord
<1>2. /\ new \in RowRecord /\ new.launch = row.launch /\ new.ordinal = row.ordinal
      /\ new.baseline = row.baseline /\ new.entry = row.entry
      /\ new.implementation = row.implementation /\ new.cells = Append(row.cells, cell)
  <2>1. Append(row.cells, cell) \in Seq(CellType)
    BY <1>1
  <2> QED BY <1>1, <2>1 DEF RowRecord, WithCell
<1>3. /\ Len(new.cells) = Len(row.cells) + 1 /\ new.cells[Len(row.cells) + 1] = cell
      /\ \A i \in 1..Len(row.cells) : new.cells[i] = row.cells[i]
  BY <1>1, <1>2
<1>4. CellsTrue(program, new.launch, new.cells, h)
  <2> SUFFICES ASSUME NEW i \in 1..Len(new.cells)
               PROVE  CellTrue(program, row.launch, new.cells[i], HorizonsOf(program)[i], h)
    BY <1>2 DEF CellsTrue
  <2>1. CASE i \in 1..Len(row.cells)
    BY <1>3, <2>1 DEF RowTrue, CellsTrue
  <2>2. CASE i = Len(row.cells) + 1
    BY <1>3, <2>2
  <2> QED BY <1>1, <1>3, <2>1, <2>2
<1>5. Len(new.cells) <= Len(HorizonsOf(program))
  BY <1>1, <1>3, HorizonsAreTimes
<1> QED BY <1>2, <1>3, <1>4, <1>5 DEF RowTrue

------------------------------------------------------------------------------
(* Rows.                                                                   *)

\* A row as buildBaselineBatch begins it, under the implementation that was live.
FirstRow(l, ordinal, status, entry, cells) ==
    [ordinal |-> ordinal, implementation |-> Implementation[BlockOf(l) + Delay],
     launch |-> l, baseline |-> status, entry |-> entry, cells |-> cells]

LEMMA RowIsTyped ==
    ASSUME NEW l \in Launch, NEW ordinal \in Nat, NEW status \in {"COMPLETE", "UNVERIFIED"},
           NEW entry \in {"none", "found", "reverts"}, NEW cells \in Seq(CellType)
    PROVE  FirstRow(l, ordinal, status, entry, cells) \in RowRecord
<1>1. BlockOf(l) + Delay \in DOMAIN Implementation
  BY BlocksAreHeights, ReplayAssumption DEF ReplayAssumption
<1>2. Implementation[BlockOf(l) + Delay] \in Range(Implementation)
  BY <1>1 DEF Range
<1> QED BY <1>2 DEF FirstRow, RowRecord

LEMMA UnverifiedRow ==
    ASSUME NEW program \in DOMAIN Program, NEW l \in Launch, NEW ordinal \in Nat, NEW h,
           ArchiveBaseline(program, l) = "UNVERIFIED",
           NEW cells,
           cells = [i \in DOMAIN HorizonsOf(program) |-> NotAttempted(HorizonsOf(program)[i])],
           NEW row, row = FirstRow(l, ordinal, "UNVERIFIED", "none", cells)
    PROVE  RowTrue(program, row, h) /\ RowDone(program, row)
<1>1. /\ DOMAIN HorizonsOf(program) = 1..Len(HorizonsOf(program)) /\ Len(HorizonsOf(program)) \in Nat
      /\ \A i \in 1..Len(HorizonsOf(program)) :
            HorizonsOf(program)[i] \in {Horizon[j] : j \in DOMAIN Horizon}
  BY HorizonsAreTimes
<1>2. \A horizon \in {Horizon[j] : j \in DOMAIN Horizon} : NotAttempted(horizon) \in CellType
  <2>1. 0 \in 0..MaxBlock
    BY ReplayAssumption DEF ReplayAssumption
  <2> QED BY <2>1 DEF NotAttempted, CellType
<1>3. cells \in Seq(CellType) /\ Len(cells) = Len(HorizonsOf(program))
  <2>1. \A i \in 1..Len(HorizonsOf(program)) : NotAttempted(HorizonsOf(program)[i]) \in CellType
    BY <1>1, <1>2
  <2>2. cells \in [1..Len(HorizonsOf(program)) -> CellType]
    BY <1>1, <2>1
  <2> QED BY <1>1, <2>2
<1>4. row \in RowRecord
  BY <1>3, RowIsTyped
<1>5. CellsTrue(program, l, cells, h)
  <2> SUFFICES ASSUME NEW i \in 1..Len(cells)
               PROVE  CellTrue(program, l, cells[i], HorizonsOf(program)[i], h)
    BY DEF CellsTrue
  <2>1. cells[i] = NotAttempted(HorizonsOf(program)[i])
    BY <1>1, <1>3
  <2>2. ArchiveCell(program, l, HorizonsOf(program)[i]) = "NOT_ATTEMPTED"
    BY DEF ArchiveCell
  <2> QED BY <2>1, <2>2 DEF CellTrue, NotAttempted
<1> QED BY <1>1, <1>3, <1>4, <1>5 DEF RowTrue, RowDone, FirstRow

LEMMA CompleteRow ==
    ASSUME NEW program \in DOMAIN Program, NEW l \in Launch, NEW ordinal \in Nat, NEW h,
           ArchiveBaseline(program, l) = "COMPLETE",
           NEW row, row = FirstRow(l, ordinal, "COMPLETE", EntryRead(l), <<>>)
    PROVE  RowTrue(program, row, h) /\ Len(row.cells) < Len(HorizonsOf(program))
<1>1. EntryRead(l) \in {"none", "found", "reverts"}
  BY DEF EntryRead
<1>2. row \in RowRecord
  <2>1. <<>> \in Seq(CellType)
    OBVIOUS
  <2> QED BY <1>1, <2>1, RowIsTyped
<1>3. Len(HorizonsOf(program)) \in Nat \ {0}
  BY HorizonsAreTimes
<1>4. row.cells = <<>> /\ Len(row.cells) = 0
  BY DEF FirstRow
<1>5. CellsTrue(program, row.launch, row.cells, h)
  BY <1>4 DEF CellsTrue
<1> QED BY <1>2, <1>3, <1>4, <1>5 DEF RowTrue, FirstRow

LEMMA FunctionIsSequence ==
    ASSUME NEW R, NEW n \in Nat, NEW s \in [1..n -> R]
    PROVE  s \in Seq(R) /\ Len(s) = n
  OBVIOUS

LEMMA SubSequence ==
    ASSUME NEW R, NEW s \in Seq(R), NEW a \in 1..Len(s), NEW b \in 1..Len(s), a <= b
    PROVE  SubSeq(s, a, b) = [k \in 1..(b - a + 1) |-> s[a + k - 1]]
  OBVIOUS

LEMMA LastReplaced ==
    ASSUME NEW R, NEW s \in Seq(R), NEW x \in R, Len(s) > 0, NEW t, t = [s EXCEPT ![Len(s)] = x]
    PROVE  /\ t \in Seq(R) /\ Len(t) = Len(s) /\ t[Len(s)] = x
           /\ \A k \in 1..(Len(s) - 1) : t[k] = s[k]
<1>1. Len(s) \in Nat /\ s \in [1..Len(s) -> R] /\ Len(s) \in 1..Len(s)
  OBVIOUS
<1>2. t \in [1..Len(s) -> R] /\ t[Len(s)] = x
  BY <1>1
<1>3. \A k \in 1..(Len(s) - 1) : k \in 1..Len(s) /\ k # Len(s)
  <2>1. \A n \in Nat : \A k \in 1..(n - 1) : k \in 1..n /\ k # n
    OBVIOUS
  <2> QED BY ONLY <1>1, <2>1
<1>4. \A k \in 1..(Len(s) - 1) : t[k] = s[k]
  BY <1>1, <1>3
<1> QED BY <1>1, <1>2, <1>4, FunctionIsSequence

\* The rows of a job between two launches, and the row of the current one.
LEMMA AppendedRow ==
    ASSUME NEW j, NEW m, NEW h, JobRight(j, m, h), Len(j.todo) > 0, j.step # "outcome",
           NEW row, RowTrue(j.program, row, h),
           row.launch = Head(j.todo).log.launch, row.ordinal = Head(j.todo).ordinal
    PROVE  /\ WithRow(j, Append(j.rows, row), h)
           /\ Append(j.rows, row)[Finished(j) + 1] = row
<1>1. j.rows \in Seq(RowRecord) /\ Len(j.rows) \in Nat /\ row \in RowRecord
  BY DEF JobRight, JobRecord, JobFields, RowTrue
<1>2. Finished(j) = Len(j.rows)
  BY DEF Finished
<1>3. /\ Append(j.rows, row) \in Seq(RowRecord) /\ Len(Append(j.rows, row)) = Len(j.rows) + 1
      /\ Append(j.rows, row)[Len(j.rows) + 1] = row
      /\ \A k \in 1..Len(j.rows) : Append(j.rows, row)[k] = j.rows[k]
  BY <1>1
<1> QED BY <1>1, <1>2, <1>3 DEF WithRow

WithLast(rows, row) == [rows EXCEPT ![Len(rows)] = row]
LEMMA ChangedRow ==
    ASSUME NEW j, NEW m, NEW h, JobRight(j, m, h), Len(j.todo) > 0, j.step = "outcome",
           NEW row, RowTrue(j.program, row, h),
           row.launch = Head(j.todo).log.launch, row.ordinal = Head(j.todo).ordinal,
           NEW rows, rows = WithLast(j.rows, row)
    PROVE  WithRow(j, rows, h) /\ rows[Finished(j) + 1] = row
<1>1. j.rows \in Seq(RowRecord) /\ Len(j.rows) \in Nat /\ row \in RowRecord
  BY DEF JobRight, JobRecord, JobFields, RowTrue
<1>2. Finished(j) = Len(j.rows) - 1 /\ Finished(j) \in Nat
  BY DEF Finished, JobRight, InTurn
<1>3. /\ rows \in Seq(RowRecord) /\ Len(rows) = Len(j.rows) /\ rows[Len(j.rows)] = row
      /\ \A k \in 1..(Len(j.rows) - 1) : rows[k] = j.rows[k]
  BY <1>1, <1>2, LastReplaced DEF WithLast
<1> QED BY <1>1, <1>2, <1>3 DEF WithRow

------------------------------------------------------------------------------
(* The steps of a job.                                                     *)

LEMMA JobIsTyped ==
    ASSUME NEW j, NEW m, NEW h, JobRight(j, m, h)
    PROVE  /\ j.program \in DOMAIN Program /\ j.step \in {"launch", "baseline", "outcome"}
           /\ j.confirmed \in Nat /\ Len(j.todo) \in Nat /\ Len(j.rows) \in Nat
           /\ j.rows \in Seq(RowRecord)
  BY DEF JobRight, JobRecord, JobFields

LEMMA IdleIsIdle == Idle.program = "none" /\ Idle.step = "idle"
  BY DEF Idle

LEMMA JobMoves ==
    ASSUME ReplayInv, UNCHANGED <<head, scan, scope, map, receipts, passed, report>>,
           job' = Idle \/ JobRight(job', map, head)
    PROVE  ReplayInv'
<1>1. /\ head' = head /\ scan' = scan /\ scope' = scope /\ map' = map /\ receipts' = receipts
      /\ passed' = passed /\ report' = report
  OBVIOUS
<1>2. TypeOK'
  <2>1. /\ job'.program \in DOMAIN Program \cup {"none"}
        /\ job'.step \in {"idle", "launch", "baseline", "outcome"}
    BY IdleIsIdle, JobIsTyped
  <2> QED BY <1>1, <2>1 DEF ReplayInv, TypeOK
<1>3. JobInv'
  BY <1>1, IdleIsIdle DEF JobInv
<1>4. ScanInv' /\ ScopeInv' /\ MapInv'
  BY <1>1 DEF ReplayInv, ScanInv, ScopeInv, MapInv, MapRows
<1>5. ReceiptInv'
  BY <1>1 DEF ReplayInv, ReceiptInv, ReceiptRight
<1>6. ReportIsTrue' /\ GateIsEarned'
  BY <1>1 DEF ReplayInv, ReportIsTrue, GateIsEarned
<1> QED BY <1>2, <1>3, <1>4, <1>5, <1>6 DEF ReplayInv

LEMMA ReadLaunchKeeps == ReplayInv /\ ReadLaunch => ReplayInv'
<1> SUFFICES ASSUME ReplayInv, ReadLaunch PROVE ReplayInv'
  OBVIOUS
<1>1. /\ job.step = "launch" /\ job.todo # <<>>
      /\ UNCHANGED <<head, scan, scope, map, receipts, passed, report>>
      /\ job' = Idle \/ job' = [job EXCEPT !.step = "baseline"]
  BY DEF ReadLaunch, Throw
<1>2. JobRight(job, map, head)
  BY <1>1 DEF ReplayInv, JobInv
<1>3. Len(job.todo) > 0
  <2>1. PICK T : job.todo \in Seq(T)
    BY <1>2 DEF JobRight, JobRecord, JobFields
  <2> QED BY <1>1, <2>1
<1>4. job' = [job EXCEPT !.step = "baseline"] => JobRight(job', map, head)
  BY <1>1, <1>2, <1>3, ReadIsRight
<1> QED BY <1>1, <1>4, JobMoves

LEMMA BuildBaselineKeeps == ReplayInv /\ BuildBaseline => ReplayInv'
<1> SUFFICES ASSUME ReplayInv, BuildBaseline PROVE ReplayInv'
  OBVIOUS
<1> DEFINE l == CurrentLaunch
           decision == BlockOf(l) + Delay
           row(status, entry, cells) ==
               [ordinal |-> Current.ordinal, implementation |-> Current.implementation,
                launch |-> l, baseline |-> status, entry |-> entry, cells |-> cells]
           skipped == [i \in DOMAIN Horizons |-> NotAttempted(Horizons[i])]
<1>1. job.step = "baseline" /\ UNCHANGED <<head, scan, scope, map, receipts, passed, report>>
  BY DEF BuildBaseline
<1>2. JobRight(job, map, head) /\ Len(job.todo) > 0
  BY <1>1 DEF ReplayInv, JobInv, JobRight, RowsTrue
<1>3. /\ l \in Launch /\ Current.ordinal \in Nat /\ job.program \in DOMAIN Program
      /\ l = Head(job.todo).log.launch /\ Current.ordinal = Head(job.todo).ordinal
  BY <1>2, CurrentTask, JobIsTyped DEF CurrentLaunch, Current
<1>4. PICK authority \in Reads(AuthorityRead(Current.implementation, decision)),
           pool \in Reads(PoolRead(l)),
           price \in Reads(CalibrationRead(Program[job.program].calibration, l, decision)),
           entry \in Reads(EntryRead(l)) :
           LET answer == IF pool # "found" THEN pool ELSE price IN
           job' = CASE authority # "found" -> Idle
                    [] authority = "found" /\ IsTerminalGap(answer) ->
                         NextLaunch(Append(job.rows, row("UNVERIFIED", "none", skipped)))
                    [] authority = "found" /\ answer = "found" /\ entry # "unreachable" ->
                         [job EXCEPT !.step = "outcome",
                                     !.rows = Append(@, row("COMPLETE", entry, <<>>))]
                    [] OTHER -> Idle
  BY DEF BuildBaseline
<1>5. PICK answer : answer = IF pool # "found" THEN pool ELSE price
  OBVIOUS
<1>6. \/ job' = Idle
      \/ /\ authority = "found" /\ IsTerminalGap(answer)
         /\ job' = NextLaunch(Append(job.rows, row("UNVERIFIED", "none", skipped)))
      \/ /\ authority = "found" /\ answer = "found" /\ entry # "unreachable"
         /\ job' = [job EXCEPT !.step = "outcome",
                               !.rows = Append(@, row("COMPLETE", entry, <<>>))]
  <2> HIDE DEF row, skipped, l, decision
  <2>1. IsTerminalGap(answer) => answer # "found"
    BY DEF IsTerminalGap
  <2> QED BY <1>4, <1>5, <2>1
<1>7. /\ IsTerminalGap(answer) => ArchiveBaseline(job.program, l) = "UNVERIFIED"
      /\ answer = "found" => ArchiveBaseline(job.program, l) = "COMPLETE"
  BY <1>3, <1>4, <1>5, BaselineByReads
<1>8. authority = "found" =>
         \A status, e, cells : row(status, e, cells) = FirstRow(l, Current.ordinal, status, e, cells)
  <2>1. authority = "found" => Current.implementation = Implementation[decision]
    BY <1>4 DEF Reads, AuthorityRead
  <2> QED BY <2>1 DEF FirstRow
<1>9. CASE job' = Idle
  BY <1>1, <1>9, JobMoves
<1>10. CASE /\ authority = "found" /\ IsTerminalGap(answer)
            /\ job' = NextLaunch(Append(job.rows, row("UNVERIFIED", "none", skipped)))
  <2>1. PICK r : r = row("UNVERIFIED", "none", skipped)
    OBVIOUS
  <2>2. r = FirstRow(l, Current.ordinal, "UNVERIFIED", "none", skipped)
    BY <1>8, <1>10, <2>1
  <2>3. skipped = [i \in DOMAIN HorizonsOf(job.program) |-> NotAttempted(HorizonsOf(job.program)[i])]
    BY DEF Horizons, HorizonsOf
  <2>4. RowTrue(job.program, r, head) /\ RowDone(job.program, r)
    BY <1>3, <1>7, <1>10, <2>2, <2>3, UnverifiedRow
  <2>5. r.launch = l /\ r.ordinal = Current.ordinal
    BY <2>2 DEF FirstRow
  <2>6. /\ WithRow(job, Append(job.rows, r), head)
        /\ Append(job.rows, r)[Finished(job) + 1] = r
    <3>1. r.launch = Head(job.todo).log.launch /\ r.ordinal = Head(job.todo).ordinal
      BY <1>3, <2>5
    <3>2. RowTrue(job.program, r, head) /\ job.step # "outcome"
      BY <1>1, <2>4
    <3> QED BY ONLY <1>2, <3>1, <3>2, AppendedRow
  <2>7. job' = [job EXCEPT !.step = "launch", !.todo = Tail(@), !.rows = Append(job.rows, r)]
    BY <1>10, <2>1 DEF NextLaunch
  <2>8. JobRight(job', map, head)
    BY <1>2, <2>4, <2>6, <2>7, NextIsRight
  <2> QED BY <1>1, <2>8, JobMoves
<1>11. CASE /\ authority = "found" /\ answer = "found" /\ entry # "unreachable"
            /\ job' = [job EXCEPT !.step = "outcome",
                                  !.rows = Append(@, row("COMPLETE", entry, <<>>))]
  <2>1. PICK r : r = row("COMPLETE", entry, <<>>)
    OBVIOUS
  <2>2. entry = EntryRead(l)
    BY <1>4, <1>11 DEF Reads
  <2>3. r = FirstRow(l, Current.ordinal, "COMPLETE", EntryRead(l), <<>>)
    BY <1>8, <1>11, <2>1, <2>2
  <2>4. RowTrue(job.program, r, head) /\ Len(r.cells) < Len(HorizonsOf(job.program))
    BY <1>3, <1>7, <1>11, <2>3, CompleteRow
  <2>5. r.launch = l /\ r.ordinal = Current.ordinal /\ r.baseline = "COMPLETE"
    BY <2>3 DEF FirstRow
  <2>6. /\ WithRow(job, Append(job.rows, r), head)
        /\ Append(job.rows, r)[Finished(job) + 1] = r
    <3>1. r.launch = Head(job.todo).log.launch /\ r.ordinal = Head(job.todo).ordinal
      BY <1>3, <2>5
    <3>2. RowTrue(job.program, r, head) /\ job.step # "outcome"
      BY <1>1, <2>4
    <3> QED BY ONLY <1>2, <3>1, <3>2, AppendedRow
  <2>7. job' = [job EXCEPT !.step = "outcome", !.rows = Append(job.rows, r)]
    BY <1>11, <2>1
  <2>8. JobRight(job', map, head)
    BY <1>2, <2>4, <2>5, <2>6, <2>7, RowIsRight
  <2> QED BY <1>1, <2>8, JobMoves
<1> QED BY <1>6, <1>9, <1>10, <1>11

\* The row that waits for its next cell is that of the current launch.
LEMMA LastRow ==
    ASSUME NEW j, NEW m, NEW h, JobRight(j, m, h), j.step = "outcome",
           NEW row, row = j.rows[Len(j.rows)]
    PROVE  /\ Len(j.todo) > 0
           /\ RowTrue(j.program, row, h) /\ row.baseline = "COMPLETE"
           /\ Len(row.cells) \in Nat /\ Len(row.cells) < Len(HorizonsOf(j.program))
           /\ row.launch \in Launch
           /\ row.launch = Head(j.todo).log.launch /\ row.ordinal = Head(j.todo).ordinal
<1>1. /\ Len(j.todo) > 0 /\ row.baseline = "COMPLETE"
      /\ Len(row.cells) < Len(HorizonsOf(j.program))
  BY DEF JobRight, RowsTrue
<1>2. Len(j.rows) \in Nat /\ Finished(j) = Len(j.rows) - 1 /\ Finished(j) \in Nat
  BY JobIsTyped DEF Finished, JobRight, InTurn
<1>3. Len(j.rows) \in 1..Len(j.rows) /\ Len(j.rows) = Finished(j) + 1
  BY <1>2
<1>4. RowTrue(j.program, row, h)
  BY <1>3 DEF JobRight, RowsTrue
<1>5. row.launch = Task(j, m, Len(j.rows)).log.launch /\ row.ordinal = Task(j, m, Len(j.rows)).ordinal
  BY <1>3 DEF JobRight, InTurn
<1>6. Head(j.todo) = Task(j, m, Len(j.rows))
  BY <1>1, <1>3, CurrentTask
<1>7. row.launch \in Launch /\ Len(row.cells) \in Nat
  BY <1>4 DEF RowTrue, RowRecord
<1> QED BY <1>1, <1>4, <1>5, <1>6, <1>7

LEMMA CellAdded ==
    ASSUME NEW j, NEW m, NEW h, JobRight(j, m, h), j.step = "outcome",
           NEW row, row = j.rows[Len(j.rows)],
           NEW cell \in CellType,
           CellTrue(j.program, row.launch, cell, HorizonsOf(j.program)[Len(row.cells) + 1], h),
           NEW rows, rows = [j.rows EXCEPT ![Len(j.rows)].cells = Append(@, cell)],
           NEW i, i = IF Len(row.cells) + 1 = Len(HorizonsOf(j.program))
                      THEN [j EXCEPT !.step = "launch", !.todo = Tail(@), !.rows = rows]
                      ELSE [j EXCEPT !.rows = rows]
    PROVE  JobRight(i, m, h)
<1>1. /\ Len(j.todo) > 0
      /\ RowTrue(j.program, row, h) /\ row.baseline = "COMPLETE"
      /\ Len(row.cells) \in Nat /\ Len(row.cells) < Len(HorizonsOf(j.program))
      /\ row.launch = Head(j.todo).log.launch /\ row.ordinal = Head(j.todo).ordinal
      /\ j.program \in DOMAIN Program
  BY LastRow, JobIsTyped
<1>2. PICK new : new = WithCell(row, cell)
  OBVIOUS
<1>3. /\ RowTrue(j.program, new, h) /\ Len(new.cells) = Len(row.cells) + 1
      /\ new.launch = row.launch /\ new.ordinal = row.ordinal /\ new.baseline = row.baseline
  <2>1. CellTrue(j.program, row.launch, cell, HorizonsOf(j.program)[Len(row.cells) + 1], h)
    OBVIOUS
  <2> QED BY ONLY cell \in CellType, <1>1, <1>2, <2>1, RowGrows
<1>4. rows = WithLast(j.rows, new)
  BY <1>2, Zenon DEF WithLast, WithCell
<1>5. new.launch = Head(j.todo).log.launch /\ new.ordinal = Head(j.todo).ordinal
  BY <1>1, <1>3
<1>6. WithRow(j, rows, h) /\ rows[Finished(j) + 1] = new
  <2>1. JobRight(j, m, h) /\ Len(j.todo) > 0 /\ j.step = "outcome" /\ RowTrue(j.program, new, h)
    BY <1>1, <1>3
  <2> QED BY ONLY <2>1, <1>4, <1>5, ChangedRow
<1>7. Len(HorizonsOf(j.program)) \in Nat
  BY <1>1, HorizonsAreTimes
<1>8. CASE Len(row.cells) + 1 = Len(HorizonsOf(j.program))
  <2>1. RowDone(j.program, new)
    BY <1>3, <1>8 DEF RowDone
  <2>2. i = [j EXCEPT !.step = "launch", !.todo = Tail(@), !.rows = rows]
    BY <1>8
  <2> QED BY ONLY JobRight(j, m, h), <1>1, <1>6, <2>1, <2>2, NextIsRight
<1>9. CASE Len(row.cells) + 1 # Len(HorizonsOf(j.program))
  <2>1. Len(new.cells) < Len(HorizonsOf(j.program)) /\ new.baseline = "COMPLETE"
    BY ONLY <1>1, <1>3, <1>7, <1>9
  <2>2. i = [j EXCEPT !.step = "outcome", !.rows = rows]
    <3>1. j \in JobRecord(j, m)
      BY DEF JobRight
    <3>2. i = [j EXCEPT !.rows = rows]
      BY <1>9
    <3> QED BY ONLY <3>1, <3>2, j.step = "outcome" DEF JobRecord, JobFields
  <2> QED BY ONLY JobRight(j, m, h), <1>1, <1>6, <2>1, <2>2, RowIsRight
<1> QED BY <1>8, <1>9

LEMMA BuildOutcomeKeeps == ReplayInv /\ BuildOutcome => ReplayInv'
<1> SUFFICES ASSUME ReplayInv, BuildOutcome PROVE ReplayInv'
  OBVIOUS
<1> DEFINE row == job.rows[Len(job.rows)]
           horizon == Horizons[Len(row.cells) + 1]
           at == ObservedBlock(CurrentLaunch, horizon)
           done(cell) ==
               LET rows == [job.rows EXCEPT ![Len(job.rows)].cells = Append(@, cell)] IN
               IF Len(row.cells) + 1 = Len(Horizons)
               THEN NextLaunch(rows) ELSE [job EXCEPT !.rows = rows]
           unripe == [horizon |-> horizon, status |-> "UNVERIFIED", at |-> 0, evidence |-> FALSE]
<1>1. job.step = "outcome" /\ UNCHANGED <<head, scan, scope, map, receipts, passed, report>>
  BY DEF BuildOutcome
<1>2. JobRight(job, map, head)
  BY <1>1 DEF ReplayInv, JobInv
<1>3. /\ RowTrue(job.program, row, head) /\ row.baseline = "COMPLETE"
      /\ Len(row.cells) \in Nat /\ Len(row.cells) < Len(HorizonsOf(job.program))
      /\ row.launch \in Launch /\ row.launch = CurrentLaunch
      /\ job.program \in DOMAIN Program /\ job.confirmed \in Nat
  BY <1>1, <1>2, LastRow, JobIsTyped DEF CurrentLaunch, Current
<1>4. IF job.confirmed < at
      THEN job' = IF Program[job.program].pending = "throws" THEN Idle ELSE done(unripe)
      ELSE \E exit \in Reads(ExitRead(CurrentLaunch, at)),
              value \in Reads(ValuationRead(Program[job.program].valuation, CurrentLaunch, at)) :
              job' = IF \/ row.entry = "found" /\
                           (exit = "unreachable" \/ (exit = "found" /\ value = "unreachable"))
                        \/ ObservedBlockDrifts(at)
                     THEN Idle ELSE done(Cell(horizon, at, row.entry, exit, value))
  BY DEF BuildOutcome
<1>5. /\ horizon = HorizonsOf(job.program)[Len(row.cells) + 1]
      /\ horizon \in Nat /\ horizon \in {Horizon[j] : j \in DOMAIN Horizon}
  <2>1. Len(HorizonsOf(job.program)) \in Nat
    BY <1>3, HorizonsAreTimes
  <2>2. Len(row.cells) + 1 \in 1..Len(HorizonsOf(job.program))
    BY <1>3, <2>1
  <2>3. horizon = HorizonsOf(job.program)[Len(row.cells) + 1]
    BY DEF Horizons, HorizonsOf
  <2> QED BY <1>3, <2>2, <2>3, HorizonsAreTimes
<1>6. at = ObservedBlock(row.launch, horizon) /\ at \in Nat
  BY <1>3, <1>5, ObservedIsNumber
<1>7. ASSUME NEW cell \in CellType, CellTrue(job.program, row.launch, cell, horizon, head),
             job' = done(cell)
      PROVE  ReplayInv'
  <2>1. PICK r : r = row
    OBVIOUS
  <2>2. PICK rows : rows = [job.rows EXCEPT ![Len(job.rows)].cells = Append(@, cell)]
    OBVIOUS
  <2>3. job' = IF Len(r.cells) + 1 = Len(HorizonsOf(job.program))
               THEN [job EXCEPT !.step = "launch", !.todo = Tail(@), !.rows = rows]
               ELSE [job EXCEPT !.rows = rows]
    BY <1>7, <2>1, <2>2 DEF NextLaunch, Horizons, HorizonsOf
  <2>4. CellTrue(job.program, r.launch, cell, HorizonsOf(job.program)[Len(r.cells) + 1], head)
    BY <1>5, <1>7, <2>1
  <2>5. JobRight(job', map, head)
    BY <1>1, <1>2, <2>1, <2>2, <2>3, <2>4, CellAdded
  <2> QED BY <1>1, <2>5, JobMoves
<1>8. CASE job' = Idle
  BY <1>1, <1>8, JobMoves
<1>9. CASE job.confirmed < at
  <2>1. CASE Program[job.program].pending = "throws"
    BY <1>4, <1>8, <1>9, <2>1
  <2>2. CASE Program[job.program].pending # "throws"
    <3>1. job' = done(unripe) /\ job.program # "shard"
      BY <1>4, <1>9, <2>2, Programs
    <3>2. 0 \in 0..MaxBlock
      BY ReplayAssumption DEF ReplayAssumption
    <3>3. unripe \in CellType
      BY <1>5, <3>2 DEF CellType
    <3>4. CellTrue(job.program, row.launch, unripe, horizon, head)
      BY <3>1 DEF CellTrue
    <3> QED BY <1>7, <3>1, <3>3, <3>4
  <2> QED BY <2>1, <2>2
<1>10. CASE ~ (job.confirmed < at)
  <2>1. PICK exit \in Reads(ExitRead(CurrentLaunch, at)),
             value \in Reads(ValuationRead(Program[job.program].valuation, CurrentLaunch, at)) :
             job' = IF \/ row.entry = "found" /\
                          (exit = "unreachable" \/ (exit = "found" /\ value = "unreachable"))
                       \/ ObservedBlockDrifts(at)
                    THEN Idle ELSE done(Cell(horizon, at, row.entry, exit, value))
    BY <1>4, <1>10
  <2>2. CASE \/ row.entry = "found" /\ (exit = "unreachable" \/ (exit = "found" /\ value = "unreachable"))
             \/ ObservedBlockDrifts(at)
    BY <1>8, <2>1, <2>2
  <2>3. CASE /\ ~ (row.entry = "found" /\ (exit = "unreachable" \/ (exit = "found" /\ value = "unreachable")))
             /\ ~ ObservedBlockDrifts(at)
    <3>1. PICK cell : cell = Cell(horizon, at, row.entry, exit, value)
      OBVIOUS
    <3>2. job' = done(cell)
      BY <2>1, <2>3, <3>1
    <3>3. row.entry = EntryRead(row.launch) /\ ArchiveBaseline(job.program, row.launch) = "COMPLETE"
      BY <1>3 DEF RowTrue
    <3>4. /\ cell.horizon = horizon /\ cell.at = at
          /\ cell.status = StatusOf(row.entry, exit, value)
      BY <3>1 DEF Cell, StatusOf
    <3>5. cell.status = ArchiveCell(job.program, row.launch, horizon)
      <4>1. PICK w : w = row.launch
        OBVIOUS
      <4>2. w \in Launch /\ w = CurrentLaunch /\ at = ObservedBlock(w, horizon)
        BY <1>3, <1>6, <4>1
      <4>3. StatusOf(EntryRead(w), exit, value) = ArchiveCell(job.program, w, horizon)
        <5> HIDE DEF at, horizon, row
        <5> QED BY <1>3, <2>1, <2>3, <3>3, <4>1, <4>2, CellByReads
      <4> QED BY <3>3, <3>4, <4>1, <4>3
    <3>6. at + Confirmations <= head /\ at \in 0..MaxBlock
      <4>1. job.confirmed + Confirmations <= head /\ Confirmations \in Nat
        BY <1>2, ReplayAssumption DEF JobRight, ReplayAssumption
      <4>2. head \in 1..MaxBlock /\ MaxBlock \in Nat
        BY ReplayAssumption DEF ReplayAssumption, ReplayInv, TypeOK
      <4> HIDE DEF at
      <4> QED BY <1>3, <1>6, <1>10, <4>1, <4>2
    <3>7. CellTrue(job.program, row.launch, cell, horizon, head)
      BY <1>6, <3>4, <3>5, <3>6 DEF CellTrue
    <3>8. cell \in CellType
      <4>1. PICK status, evidence :
               /\ cell = [horizon |-> horizon, at |-> at, status |-> status, evidence |-> evidence]
               /\ status \in {"COMPLETE", "UNVERIFIED"} /\ evidence \in BOOLEAN
        BY <3>1 DEF Cell
      <4> QED BY <1>5, <3>6, <4>1 DEF CellType
    <3> QED BY <1>7, <3>2, <3>7, <3>8
  <2> QED BY <2>2, <2>3
<1> QED BY <1>9, <1>10

\* What a program is given, and a job that has just been given it.
LEMMA FreshJob ==
    ASSUME NEW program \in DOMAIN Program, NEW range \in Int \X Int, NEW m,
           NEW h \in Nat, Confirmations <= h, NEW todo,
           NEW i, i = [program |-> program, step |-> "launch", range |-> range, todo |-> todo,
                       confirmed |-> h - Confirmations, rows |-> <<>>],
           GivenRight(i, m), todo = [k \in 1..Tasks(i) |-> Task(i, m, k)]
    PROVE  JobRight(i, m, h)
<1>1. PICK T, n : T = {Task(i, m, k) : k \in 1..Tasks(i)} /\ n = Tasks(i)
  OBVIOUS
<1>2. n \in Nat /\ todo \in [1..n -> T] /\ \A k \in 1..n : todo[k] = Task(i, m, k)
  BY <1>1 DEF GivenRight
<1>3. todo \in Seq(T) /\ Len(todo) = n
  BY <1>2, FunctionIsSequence
<1>4. Confirmations \in Nat /\ h - Confirmations \in Nat
  BY ReplayAssumption DEF ReplayAssumption
<1>5. <<>> \in Seq(RowRecord) /\ Len(<<>>) = 0
  OBVIOUS
<1>6. i \in JobRecord(i, m)
  BY <1>1, <1>3, <1>4, <1>5 DEF JobRecord, JobFields
<1>7. Finished(i) = 0 /\ i.rows = <<>> /\ i.todo = todo /\ i.step = "launch"
  BY <1>5 DEF Finished
<1>8. InTurn(i, m)
  <2>1. ASSUME NEW k \in 1..n PROVE 0 + k = k /\ todo[k] = Task(i, m, 0 + k)
    BY <1>2
  <2> QED BY <1>1, <1>2, <1>3, <1>5, <1>7, <2>1 DEF InTurn
<1>9. RowsTrue(i, h)
  BY <1>5, <1>7 DEF RowsTrue
<1> QED BY <1>4, <1>6, <1>8, <1>9 DEF JobRight

LEMMA Representation ==
    /\ Len(Cohort) \in Nat /\ DOMAIN Cohort = 1..Len(Cohort)
    /\ \A k \in 1..Len(Cohort) : /\ Cohort[k].first \in Launch
                                 /\ Representatives[k].log.launch = Cohort[k].first
                                 /\ Representatives[k].ordinal = k
<1>1. PICK S : /\ Cohort \in Seq(S)
               /\ S = [implementation : Range(Implementation), launches : Nat \ {0},
                       first : Launch, observed : Nat]
  BY ReplayAssumption DEF ReplayAssumption
<1>2. Len(Cohort) \in Nat /\ DOMAIN Cohort = 1..Len(Cohort) /\ \A k \in 1..Len(Cohort) : Cohort[k] \in S
  <2>1. Cohort \in Seq(S)
    BY <1>1
  <2> QED BY ONLY <2>1
<1>3. \A k \in 1..Len(Cohort) : Cohort[k].first \in Launch
  BY <1>1, <1>2
<1>4. \A k \in 1..Len(Cohort) : /\ Representatives[k].log.launch = Cohort[k].first
                                /\ Representatives[k].ordinal = k
  BY <1>2 DEF Representatives
<1> QED BY <1>2, <1>3, <1>4

LEMMA BeginGateKeeps == ReplayInv /\ BeginGate => ReplayInv'
<1> SUFFICES ASSUME ReplayInv, BeginGate PROVE ReplayInv'
  OBVIOUS
<1>1. PICK gate \in Gate \ passed : Begin(gate, <<1, Len(Cohort)>>, Representatives)
  BY DEF BeginGate
<1>2. UNCHANGED <<head, scan, scope, map, receipts, passed, report>> /\ Confirmations <= head
  <2>1. head \in Nat /\ Confirmations \in Nat
    BY ReplayAssumption DEF ReplayAssumption, ReplayInv, TypeOK
  <2> QED BY <1>1, <2>1 DEF Begin
<1>3. PICK i : i = [program |-> gate, step |-> "launch", range |-> <<1, Len(Cohort)>>,
                    todo |-> Representatives, confirmed |-> head - Confirmations, rows |-> <<>>]
  OBVIOUS
<1>4. job' = i
  BY <1>1, <1>3 DEF Begin
<1>5. gate \in DOMAIN Program /\ gate # "shard"
  BY Programs
<1>6. i.program = gate /\ i.range = <<1, Len(Cohort)>> /\ i.range[1] = 1 /\ i.range[2] = Len(Cohort)
  BY <1>3
<1>7. Tasks(i) = Len(Cohort)
  BY <1>6, Representation DEF Tasks
<1>8. \A k : Task(i, map, k) = Representatives[k]
  BY <1>5, <1>6 DEF Task
<1>9. GivenRight(i, map)
  <2>1. \A k \in 1..Len(Cohort) : k \in Nat
    BY Representation
  <2> QED BY <1>5, <1>6, <1>7, <1>8, <2>1, Representation DEF GivenRight
<1>10. Representatives = [k \in 1..Tasks(i) |-> Task(i, map, k)]
  <2>1. Representatives = [k \in 1..Len(Cohort) |-> Representatives[k]]
    BY Representation DEF Representatives
  <2> QED BY <1>7, <1>8, <2>1
<1>11. JobRight(i, map, head)
  <2>1. <<1, Len(Cohort)>> \in Int \X Int /\ head \in Nat
    BY Representation, ReplayAssumption DEF ReplayInv, TypeOK, ReplayAssumption
  <2>2. Confirmations <= head
    BY <1>2
  <2> QED BY ONLY <1>3, <1>5, <1>9, <1>10, <2>1, <2>2, FreshJob
<1> QED BY <1>2, <1>4, <1>11, JobMoves

\* The map numbers the launches of the scope.
LEMMA MapIsRight ==
    ASSUME MapInv, ScopeInv, map # <<>>
    PROVE  /\ ExpectedLaunches \in Nat /\ map = [n \in 1..ExpectedLaunches |-> map[n]]
           /\ scope \in [1..ExpectedLaunches -> Log]
           /\ Launch \subseteq {scope[n].launch : n \in 1..ExpectedLaunches}
           /\ \A n \in 1..ExpectedLaunches :
                 /\ map[n].ordinal = n /\ map[n].log = scope[n] /\ scope[n].launch \in Launch
<1>1. /\ map = MapRows /\ scope \in [1..ExpectedLaunches -> Log]
      /\ Launch \subseteq {scope[n].launch : n \in 1..ExpectedLaunches}
  BY DEF MapInv, ScopeInv
<1>2. DOMAIN scope = 1..ExpectedLaunches
  BY <1>1
<1>3. map = [n \in 1..ExpectedLaunches |->
               [ordinal |-> n, log |-> scope[n], implementation |-> Cohort[CohortOf(n)].implementation]]
  BY <1>1, <1>2 DEF MapRows
<1>4. \A n \in 1..ExpectedLaunches : map[n].ordinal = n /\ map[n].log = scope[n]
  BY <1>3
<1>5. \A n \in 1..ExpectedLaunches : scope[n].launch \in Launch
  BY <1>1 DEF Launch
<1>6. map = [n \in 1..ExpectedLaunches |-> map[n]]
  BY <1>3
<1> QED BY <1>1, <1>4, <1>5, <1>6, LaunchesAreFinite

LEMMA RangesAreIn ==
    ASSUME NEW range \in Ranges
    PROVE  /\ range \in Int \X Int /\ range[1] \in 1..ExpectedLaunches
           /\ range[2] \in 1..ExpectedLaunches /\ range[1] <= range[2]
           /\ ExpectedLaunches \in Nat
<1>1. range \in (1..ExpectedLaunches) \X (1..ExpectedLaunches) /\ range[1] <= range[2]
  BY ReplayAssumption DEF ReplayAssumption
<1> QED BY <1>1, LaunchesAreFinite

LEMMA BeginShardKeeps == ReplayInv /\ BeginShard => ReplayInv'
<1> SUFFICES ASSUME ReplayInv, BeginShard PROVE ReplayInv'
  OBVIOUS
<1>1. PICK range \in Ranges : Begin("shard", range, SubSeq(map, range[1], range[2])) /\ map # <<>>
  BY DEF BeginShard
<1>2. UNCHANGED <<head, scan, scope, map, receipts, passed, report>> /\ Confirmations <= head
  <2>1. head \in Nat /\ Confirmations \in Nat
    BY ReplayAssumption DEF ReplayAssumption, ReplayInv, TypeOK
  <2> QED BY <1>1, <2>1 DEF Begin
<1>3. PICK i, todo : /\ todo = SubSeq(map, range[1], range[2])
                     /\ i = [program |-> "shard", step |-> "launch", range |-> range,
                             todo |-> todo, confirmed |-> head - Confirmations, rows |-> <<>>]
  OBVIOUS
<1>4. job' = i
  BY <1>1, <1>3 DEF Begin
<1>5. "shard" \in DOMAIN Program
  BY Programs
<1>6. i.program = "shard" /\ i.range = range
  BY <1>3
<1>7. PICK a, b, n, N : /\ a = range[1] /\ b = range[2] /\ n = b - a + 1 /\ N = ExpectedLaunches
                        /\ a \in 1..N /\ b \in 1..N /\ a <= b /\ N \in Nat
  BY RangesAreIn
<1>8. Tasks(i) = n /\ n \in Nat /\ \A k \in 1..n : a + k - 1 \in 1..N
  BY <1>6, <1>7 DEF Tasks
<1>9. \A k : Task(i, map, k) = map[a + k - 1]
  BY <1>6, <1>7 DEF Task
<1>10. GivenRight(i, map)
  <2>1. \A k \in 1..n : map[a + k - 1].log.launch \in Launch /\ map[a + k - 1].ordinal \in Nat
    <3>1. \A p \in 1..N : p \in Nat
      BY <1>7
    <3> QED BY <1>1, <1>7, <1>8, <3>1, MapIsRight DEF ReplayInv
  <2> QED BY <1>1, <1>6, <1>8, <1>9, <2>1 DEF GivenRight
<1>11. todo = [k \in 1..Tasks(i) |-> Task(i, map, k)]
  <2>1. PICK M, s : s = map /\ M = {map[p] : p \in 1..N} /\ s = [p \in 1..N |-> s[p]]
    BY <1>1, <1>7, MapIsRight DEF ReplayInv
  <2>2. s \in [1..N -> M]
    BY <2>1
  <2>3. s \in Seq(M) /\ Len(s) = N
    BY <1>7, <2>2, FunctionIsSequence
  <2>4. SubSeq(s, a, b) = [k \in 1..n |-> s[a + k - 1]]
    <3>1. s \in Seq(M) /\ a \in 1..Len(s) /\ b \in 1..Len(s) /\ a <= b /\ n = b - a + 1
      BY ONLY <1>7, <2>3
    <3>2. SubSeq(s, a, b) = [k \in 1..(b - a + 1) |-> s[a + k - 1]]
      BY ONLY <3>1, SubSequence
    <3> QED BY ONLY <3>1, <3>2, Zenon
  <2>5. todo = [k \in 1..n |-> s[a + k - 1]]
    <3>1. todo = SubSeq(s, a, b)
      BY ONLY <1>3, <1>7, <2>1
    <3> QED BY ONLY <2>4, <3>1
  <2>6. \A k \in 1..n : s[a + k - 1] = Task(i, map, k)
    BY ONLY <1>9, <2>1
  <2>7. todo = [k \in 1..n |-> Task(i, map, k)]
    BY ONLY <2>5, <2>6
  <2>8. Tasks(i) = n
    BY ONLY <1>8
  <2> QED BY ONLY <2>7, <2>8, Zenon
<1>12. JobRight(i, map, head)
  <2>1. range \in Int \X Int /\ head \in Nat
    BY RangesAreIn, ReplayAssumption DEF ReplayInv, TypeOK, ReplayAssumption
  <2>2. Confirmations <= head
    BY <1>2
  <2>3. i = [program |-> "shard", step |-> "launch", range |-> range, todo |-> todo,
             confirmed |-> head - Confirmations, rows |-> <<>>]
    BY <1>3
  <2> QED BY ONLY <1>5, <1>10, <1>11, <2>1, <2>2, <2>3, FreshJob
<1> QED BY <1>2, <1>4, <1>12, JobMoves

\* A job that has nothing left to do has done all it was given.
LEMMA JobDone ==
    ASSUME NEW j, NEW m, NEW h, JobRight(j, m, h), j.step = "launch", j.todo = <<>>
    PROVE  /\ Len(j.rows) = Tasks(j) /\ Tasks(j) \in Nat
           /\ \A k \in 1..Tasks(j) : /\ RowTrue(j.program, j.rows[k], h)
                                     /\ RowDone(j.program, j.rows[k])
                                     /\ j.rows[k].launch = Task(j, m, k).log.launch
                                     /\ j.rows[k].ordinal = Task(j, m, k).ordinal
<1>1. Len(j.todo) = 0 /\ Finished(j) = Len(j.rows) /\ Len(j.rows) \in Nat
  BY JobIsTyped DEF Finished
<1>2. Len(j.rows) = Tasks(j)
  BY <1>1 DEF JobRight, InTurn
<1> QED BY <1>1, <1>2 DEF JobRight, InTurn, RowsTrue

\* The job has ended and left something behind.
LEMMA JobEnds ==
    ASSUME ReplayInv, UNCHANGED <<head, scan, scope, map, report>>, job' = Idle
    PROVE  /\ ScanInv' /\ ScopeInv' /\ MapInv' /\ JobInv' /\ ReportIsTrue'
           /\ job'.program \in DOMAIN Program \cup {"none"}
           /\ job'.step \in {"idle", "launch", "baseline", "outcome"}
<1>1. job'.program = "none" /\ job'.step = "idle"
  BY IdleIsIdle
<1> QED BY <1>1 DEF ReplayInv, ScanInv, ScopeInv, MapInv, MapRows, JobInv, ReportIsTrue

LEMMA WriteReceiptKeeps == ReplayInv /\ WriteReceipt => ReplayInv'
<1> SUFFICES ASSUME ReplayInv, WriteReceipt PROVE ReplayInv'
  OBVIOUS
<1>1. PICK new :
         /\ new = [range |-> job.range, rows |-> job.rows, pass |-> Accounted(job.range, job.rows)]
         /\ receipts' = receipts \cup {new}
  BY DEF WriteReceipt
<1>2. /\ job.step = "launch" /\ job.todo = <<>> /\ job.program = "shard" /\ job' = Idle
      /\ UNCHANGED <<head, scan, scope, map, passed, report>>
  BY DEF WriteReceipt
<1>3. JobRight(job, map, head)
  BY <1>2 DEF ReplayInv, JobInv
<1>4. job.range \in Ranges /\ map # <<>>
  BY <1>2, <1>3 DEF JobRight, GivenRight
<1>5. PICK rows : rows = job.rows /\ rows = new.rows /\ rows \in Seq(RowRecord)
  BY <1>1, <1>3, JobIsTyped
<1>6. ASSUME NEW k \in 1..Len(rows)
      PROVE  /\ RowTrue("shard", rows[k], head) /\ RowDone("shard", rows[k])
             /\ rows[k].ordinal \in 1..ExpectedLaunches
             /\ rows[k].launch = scope[rows[k].ordinal].launch
  <2>1. /\ k \in 1..Tasks(job) /\ RowTrue("shard", rows[k], head) /\ RowDone("shard", rows[k])
        /\ rows[k].launch = Task(job, map, k).log.launch
        /\ rows[k].ordinal = Task(job, map, k).ordinal
    <3>1. k \in 1..Len(job.rows) /\ job.rows[k] = rows[k] /\ job.program = "shard"
      BY <1>2, <1>5
    <3> QED BY ONLY <1>2, <1>3, <3>1, JobDone
  <2>2. PICK a, b, N : /\ a = job.range[1] /\ b = job.range[2] /\ N = ExpectedLaunches
                       /\ a \in 1..N /\ b \in 1..N /\ N \in Nat
    BY <1>4, RangesAreIn
  <2>3. k \in 1..(b - a + 1)
    BY <2>1, <2>2 DEF Tasks
  <2>4. a + k - 1 \in 1..N
    <3>1. \A x, y \in 1..N : \A z \in 1..(y - x + 1) : x + z - 1 \in 1..N
      BY <2>2
    <3> QED BY ONLY <2>2, <2>3, <3>1
  <2>5. Task(job, map, k) = map[a + k - 1]
    BY <1>2, <2>2 DEF Task
  <2>6. map[a + k - 1].ordinal = a + k - 1 /\ map[a + k - 1].log = scope[a + k - 1]
    BY <1>4, <2>2, <2>4, MapIsRight DEF ReplayInv
  <2> QED BY <2>1, <2>2, <2>4, <2>5, <2>6
<1>7. ReceiptRight(new)
  BY <1>4, <1>5, <1>6 DEF ReceiptRight
<1>8. ReceiptInv'
  BY <1>1, <1>2, <1>7 DEF ReplayInv, ReceiptInv, ReceiptRight
<1>9. \A i \in DOMAIN new.rows : RowType(new.rows[i])
  <2> SUFFICES ASSUME NEW i \in 1..Len(rows) PROVE RowType(rows[i])
    BY <1>5
  <2>1. rows[i] \in RowRecord /\ rows[i].ordinal \in 1..ExpectedLaunches
    BY <1>6 DEF RowTrue
  <2>2. rows[i].cells \in Seq(CellType)
    BY <2>1 DEF RowRecord
  <2>3. \A c \in DOMAIN rows[i].cells : rows[i].cells[c] \in CellType
    BY <2>2
  <2> QED BY <2>1, <2>3 DEF RowType, RowRecord
<1>10. TypeOK'
  <2>1. \A receipt \in receipts' : \A i \in DOMAIN receipt.rows : RowType(receipt.rows[i])
    BY <1>1, <1>9 DEF ReplayInv, TypeOK
  <2> QED BY <1>2, <2>1, JobEnds DEF ReplayInv, TypeOK
<1>11. GateIsEarned'
  BY <1>2 DEF ReplayInv, GateIsEarned
<1> QED BY <1>2, <1>8, <1>10, <1>11, JobEnds DEF ReplayInv

LEMMA WriteVerdictKeeps == ReplayInv /\ WriteVerdict => ReplayInv'
<1> SUFFICES ASSUME ReplayInv, WriteVerdict PROVE ReplayInv'
  OBVIOUS
<1>1. /\ job.step = "launch" /\ job.todo = <<>> /\ job.program \in Gate /\ job' = Idle
      /\ passed' = IF AllComplete(job.rows) THEN passed \cup {job.program} ELSE passed
      /\ UNCHANGED <<head, scan, scope, map, receipts, report>>
  BY DEF WriteVerdict
<1>2. JobRight(job, map, head) /\ job.program \in DOMAIN Program /\ job.program # "shard"
  BY <1>1, Programs DEF ReplayInv, JobInv
<1>3. PICK gate, rows : gate = job.program /\ rows = job.rows
  OBVIOUS
<1>4. Tasks(job) = Len(Cohort)
  <2>1. job.range[1] = 1 /\ job.range[2] = Len(Cohort)
    BY <1>2 DEF JobRight, GivenRight
  <2> QED BY <2>1, Representation DEF Tasks
<1>5. ASSUME NEW i \in DOMAIN Cohort, AllComplete(rows)
      PROVE  /\ ArchiveBaseline(gate, Cohort[i].first) = "COMPLETE"
             /\ \A c \in DOMAIN Program[gate].horizons :
                   /\ ArchiveCell(gate, Cohort[i].first, Program[gate].horizons[c]) = "COMPLETE"
                   /\ ObservedBlock(Cohort[i].first, Program[gate].horizons[c]) <= head - Confirmations
  <2>1. PICK row, l : row = rows[i] /\ l = Cohort[i].first
    OBVIOUS
  <2>2. i \in 1..Len(Cohort) /\ l \in Launch
    BY <2>1, Representation
  <2>3. RowTrue(gate, row, head) /\ RowDone(gate, row) /\ row.launch = l
    <3>1. Task(job, map, i).log.launch = l
      BY <1>2, <2>1, <2>2, Representation DEF Task
    <3> QED BY <1>1, <1>2, <1>3, <1>4, <2>1, <2>2, <3>1, JobDone
  <2>4. rows \in Seq(RowRecord) /\ Len(rows) = Len(Cohort)
    BY <1>1, <1>2, <1>3, <1>4, JobDone, JobIsTyped
  <2>5. i \in DOMAIN rows
    BY <2>2, <2>4
  <2>6. row.baseline = "COMPLETE" /\ \A c \in DOMAIN row.cells : row.cells[c].status = "COMPLETE"
    BY <1>5, <2>1, <2>5 DEF AllComplete
  <2>7. ArchiveBaseline(gate, l) = "COMPLETE"
    BY <2>3, <2>6 DEF RowTrue
  <2>8. ASSUME NEW c \in DOMAIN HorizonsOf(gate)
        PROVE  /\ ArchiveCell(gate, l, HorizonsOf(gate)[c]) = "COMPLETE"
               /\ ObservedBlock(l, HorizonsOf(gate)[c]) <= head - Confirmations
    <3>1. c \in 1..Len(HorizonsOf(gate)) /\ HorizonsOf(gate)[c] \in Nat
      BY <1>2, <1>3, <2>8, HorizonsAreTimes
    <3>2. row.cells \in Seq(CellType) /\ Len(row.cells) = Len(HorizonsOf(gate))
      BY <2>3 DEF RowTrue, RowRecord, RowDone
    <3>3. c \in DOMAIN row.cells /\ c \in 1..Len(row.cells)
      BY <3>1, <3>2
    <3>4. CellTrue(gate, l, row.cells[c], HorizonsOf(gate)[c], head)
      BY <2>3, <3>3 DEF RowTrue, CellsTrue
    <3>5. /\ ArchiveCell(gate, l, HorizonsOf(gate)[c]) = "COMPLETE"
          /\ ObservedBlock(l, HorizonsOf(gate)[c]) + Confirmations <= head
      BY <2>6, <3>3, <3>4 DEF CellTrue
    <3>6. ObservedBlock(l, HorizonsOf(gate)[c]) \in Nat /\ Confirmations \in Nat /\ head \in Nat
      <4>1. head \in 1..MaxBlock /\ MaxBlock \in Nat /\ Confirmations \in Nat
        BY ReplayAssumption DEF ReplayAssumption, ReplayInv, TypeOK
      <4>2. head \in Nat
        BY ONLY <4>1
      <4> QED BY ONLY <2>2, <3>1, <4>1, <4>2, ObservedIsNumber
    <3> QED BY ONLY <3>5, <3>6
  <2> QED BY <2>1, <2>7, <2>8 DEF HorizonsOf
<1>6. GateIsEarned'
  <2>1. head' = head
    BY <1>1
  <2>2. CASE AllComplete(rows)
    <3>1. passed' = passed \cup {gate}
      BY <1>1, <1>3, <2>2
    <3> QED BY <1>5, <2>1, <2>2, <3>1 DEF ReplayInv, GateIsEarned
  <2>3. CASE ~ AllComplete(rows)
    BY <1>1, <1>3, <2>1, <2>3 DEF ReplayInv, GateIsEarned
  <2> QED BY <2>2, <2>3
<1>7. TypeOK'
  <2>1. passed' \subseteq Gate
    BY <1>1 DEF ReplayInv, TypeOK
  <2> QED BY <1>1, <2>1, JobEnds DEF ReplayInv, TypeOK
<1>8. ReceiptInv'
  BY <1>1 DEF ReplayInv, ReceiptInv, ReceiptRight
<1> QED BY <1>1, <1>6, <1>7, <1>8, JobEnds DEF ReplayInv

------------------------------------------------------------------------------
(* The steps of the scan and of the map.                                   *)

ScanRecord ==
    [step : {"idle", "scan", "threw"}, cursor : FromBlock..(ToBlock + 1),
     span : MinSpan..MaxSpan, retries : 0..MaxRetries, logs : SUBSET Log, lagged : BOOLEAN]

LEMMA RangeOfScan ==
    /\ FromBlock \in Nat \ {0} /\ ToBlock \in Nat /\ FromBlock <= ToBlock
    /\ MinSpan \in Nat \ {0} /\ MaxSpan \in Nat /\ MinSpan <= MaxSpan /\ MaxRetries \in Nat
  BY ReplayAssumption DEF ReplayAssumption

LEMMA UnscannedIsTyped == Unscanned \in ScanRecord /\ Unscanned.step = "idle"
<1>1. FromBlock \in FromBlock..(ToBlock + 1) /\ MaxSpan \in MinSpan..MaxSpan /\ 0 \in 0..MaxRetries
  BY RangeOfScan
<1> QED BY <1>1 DEF Unscanned, ScanRecord

LEMMA ScanMoves ==
    ASSUME ReplayInv, UNCHANGED <<head, scope, map, job, receipts, passed, report>>,
           scan' \in ScanRecord, scope = <<>>
    PROVE  ReplayInv'
<1>1. TypeOK'
  BY DEF ReplayInv, TypeOK, ScanRecord
<1>2. ScanInv' /\ ScopeInv' /\ MapInv' /\ JobInv'
  BY DEF ReplayInv, ScanInv, ScopeInv, MapInv, MapRows, JobInv
<1>3. ReceiptInv'
  BY DEF ReplayInv, ReceiptInv, ReceiptRight
<1>4. ReportIsTrue' /\ GateIsEarned'
  BY DEF ReplayInv, ReportIsTrue, GateIsEarned
<1> QED BY <1>1, <1>2, <1>3, <1>4 DEF ReplayInv

LEMMA BeginScanKeeps == ReplayInv /\ BeginScan => ReplayInv'
<1> SUFFICES ASSUME ReplayInv, BeginScan PROVE ReplayInv'
  OBVIOUS
<1>1. scan' \in ScanRecord
  BY UnscannedIsTyped DEF BeginScan, ScanRecord
<1> QED BY <1>1, ScanMoves DEF BeginScan

\* A chunk is not empty and ends within the range.
LEMMA ChunkAdvances ==
    ASSUME scan \in ScanRecord, scan.cursor <= ToBlock
    PROVE  /\ ScanEnd \in Nat /\ scan.cursor <= ScanEnd /\ ScanEnd + 1 \in FromBlock..(ToBlock + 1)
           /\ Smaller(scan.span * 2, MaxSpan) \in MinSpan..MaxSpan
           /\ Larger(scan.span \div 2, MinSpan) \in MinSpan..MaxSpan
<1>1. scan.cursor \in FromBlock..(ToBlock + 1) /\ scan.span \in MinSpan..MaxSpan
  BY DEF ScanRecord
<1>2. PICK c, s : c = scan.cursor /\ s = scan.span
  OBVIOUS
<1>3. /\ c \in Nat /\ s \in Nat /\ FromBlock <= c /\ c <= ToBlock /\ 1 <= s
      /\ MinSpan <= s /\ s <= MaxSpan
  BY <1>1, <1>2, RangeOfScan
<1>4. ScanEnd \in Nat /\ c <= ScanEnd /\ ScanEnd <= ToBlock
  BY <1>2, <1>3, RangeOfScan DEF ScanEnd, Smaller
<1>5. Smaller(s * 2, MaxSpan) \in MinSpan..MaxSpan
  BY <1>3, RangeOfScan DEF Smaller
<1>6. s \div 2 \in Nat /\ s \div 2 <= s
  BY <1>3
<1>7. Larger(s \div 2, MinSpan) \in MinSpan..MaxSpan
  BY <1>3, <1>6, RangeOfScan DEF Larger
<1> QED BY <1>2, <1>3, <1>4, <1>5, <1>7, RangeOfScan

LEMMA ScanIsTyped ==
    ASSUME ReplayInv, scan.step = "scan"
    PROVE  scan \in ScanRecord /\ scope = <<>> /\ map = <<>>
  BY DEF ReplayInv, TypeOK, ScanRecord, ScanInv, MapInv

LEMMA ReadChunkKeeps == ReplayInv /\ ReadChunk => ReplayInv'
<1> SUFFICES ASSUME ReplayInv, ReadChunk PROVE ReplayInv'
  OBVIOUS
<1>1. /\ scan.step = "scan" /\ scan.cursor <= ToBlock
      /\ UNCHANGED <<head, scope, map, job, receipts, passed, report>>
  BY DEF ReadChunk
<1>2. scan \in ScanRecord /\ scope = <<>>
  BY <1>1, ScanIsTyped
<1>3. PICK answer \in SUBSET LogsIn(scan.cursor, ScanEnd) :
        scan' = [scan EXCEPT
             !.logs = @ \cup answer,
             !.lagged = @ \/ answer # LogsIn(scan.cursor, ScanEnd),
             !.cursor = ScanEnd + 1,
             !.span = Smaller(@ * 2, MaxSpan),
             !.retries = 0]
  BY DEF ReadChunk
<1>4. PICK lagged, cursor, span : /\ lagged = (scan.lagged \/ answer # LogsIn(scan.cursor, ScanEnd))
                                  /\ cursor = ScanEnd + 1
                                  /\ span = Smaller(scan.span * 2, MaxSpan)
  OBVIOUS
<1>5. /\ lagged \in BOOLEAN /\ cursor \in FromBlock..(ToBlock + 1) /\ span \in MinSpan..MaxSpan
      /\ answer \subseteq Log /\ 0 \in 0..MaxRetries
  BY <1>1, <1>2, <1>4, ChunkAdvances, RangeOfScan DEF LogsIn
<1>6. scan' = [scan EXCEPT !.logs = @ \cup answer, !.lagged = lagged, !.cursor = cursor,
                           !.span = span, !.retries = 0]
  BY <1>3, <1>4
<1>7. scan' \in ScanRecord
  BY <1>2, <1>5, <1>6 DEF ScanRecord
<1> QED BY <1>1, <1>2, <1>7, ScanMoves

LEMMA RetryChunkKeeps == ReplayInv /\ RetryChunk => ReplayInv'
<1> SUFFICES ASSUME ReplayInv, RetryChunk PROVE ReplayInv'
  OBVIOUS
<1>1. scan \in ScanRecord /\ scope = <<>>
  BY ScanIsTyped DEF RetryChunk
<1>2. scan.retries + 1 \in 0..MaxRetries
  BY <1>1, RangeOfScan DEF RetryChunk, ScanRecord
<1>3. scan' \in ScanRecord
  BY <1>1, <1>2 DEF RetryChunk, ScanRecord
<1> QED BY <1>1, <1>3, ScanMoves DEF RetryChunk

LEMMA ShrinkChunkKeeps == ReplayInv /\ ShrinkChunk => ReplayInv'
<1> SUFFICES ASSUME ReplayInv, ShrinkChunk PROVE ReplayInv'
  OBVIOUS
<1>1. scan \in ScanRecord /\ scope = <<>>
  BY ScanIsTyped DEF ShrinkChunk
<1>2. Larger(scan.span \div 2, MinSpan) \in MinSpan..MaxSpan /\ 0 \in 0..MaxRetries
  BY <1>1, ChunkAdvances, RangeOfScan DEF ShrinkChunk
<1>3. \/ scan' = [scan EXCEPT !.span = Larger(@ \div 2, MinSpan), !.retries = 0]
      \/ scan' = [scan EXCEPT !.step = "threw"]
  BY DEF ShrinkChunk
<1>4. scan' \in ScanRecord
  BY <1>1, <1>2, <1>3 DEF ScanRecord
<1> QED BY <1>1, <1>4, ScanMoves DEF ShrinkChunk

\* As many launches as the range has, in order and each once, are all of them.
LEMMA ScopeIsWhole ==
    ASSUME NEW logs \in SUBSET Log, NEW launches \in Sorted(Deduplicated(logs)),
           ScopeHolds(launches)
    PROVE  /\ launches \in [1..ExpectedLaunches -> Log] /\ Len(launches) = ExpectedLaunches
           /\ Launch \subseteq {launches[n].launch : n \in 1..ExpectedLaunches}
<1>1. PICK D, c, N : /\ D = Deduplicated(logs) /\ D \subseteq Log /\ D \subseteq logs
                     /\ c = Cardinality(D) /\ N = ExpectedLaunches
  BY DEF Deduplicated
<1>2. c \in Nat /\ N \in Nat
  <2>1. IsFiniteSet(Log)
    BY ReplayAssumption DEF ReplayAssumption
  <2> QED BY <1>1, <2>1, FS_Subset, FS_CardinalityType, LaunchesAreFinite
<1>3. /\ launches \in [1..c -> D]
      /\ \A m, n \in 1..c : m < n => InOrder(launches[m], launches[n])
  <2>1. /\ launches \in [1..c -> D]
        /\ \A m, n \in DOMAIN launches : m < n => InOrder(launches[m], launches[n])
    BY <1>1 DEF Sorted
  <2> QED BY <2>1
<1>4. Len(launches) = c
  BY <1>2, <1>3, FunctionIsSequence
<1>5. c = N
  BY <1>1, <1>4 DEF ScopeHolds
<1>6. \A m, n \in 1..N : m < n => launches[m].launch # launches[n].launch
  <2> SUFFICES ASSUME NEW m \in 1..N, NEW n \in 1..N, m < n, launches[m].launch = launches[n].launch
               PROVE  FALSE
    OBVIOUS
  <2>1. PICK x, y : x = launches[m] /\ y = launches[n] /\ x \in D /\ y \in D
    BY <1>3, <1>5
  <2>2. x.launch = y.launch /\ x \in logs /\ y \in logs /\ x \in Log /\ y \in Log
    BY <1>1, <2>1
  <2>3. x.index <= y.index /\ y.index <= x.index
    BY <1>1, <2>1, <2>2 DEF Deduplicated
  <2>4. /\ x.block = BlockOf(x.launch) /\ y.block = BlockOf(y.launch)
        /\ x.index \in Nat /\ y.index \in Nat
        /\ x.block \in Nat /\ y.block \in Nat
    <3>1. \A log \in Log : /\ log.block \in FromBlock..ToBlock /\ log.index \in Nat
                           /\ log.block = BlockOf(log.launch)
      BY ReplayAssumption DEF ReplayAssumption
    <3>2. \A b \in FromBlock..ToBlock : b \in Nat
      BY RangeOfScan
    <3> QED BY <2>2, <3>1, <3>2
  <2>5. x.block = y.block
    BY <2>2, <2>4
  <2>6. InOrder(x, y)
    BY <1>3, <1>5, <2>1
  <2> QED BY <2>3, <2>4, <2>5, <2>6 DEF InOrder
<1>7. PICK g : g = [n \in 1..N |-> launches[n].launch]
  OBVIOUS
<1>8. g \in [1..N -> Launch]
  BY <1>1, <1>3, <1>5, <1>7 DEF Launch
<1>9. g \in Injection(1..N, Launch)
  <2>1. ASSUME NEW m \in 1..N, NEW n \in 1..N, g[m] = g[n] PROVE m = n
    <3>1. launches[m].launch = launches[n].launch
      BY <1>7, <2>1
    <3>2. ~ (m < n) /\ ~ (n < m)
      BY <1>6, <3>1
    <3> QED BY <1>2, <3>2
  <2> QED BY <1>8, <2>1 DEF Injection, IsInjective
<1>10. g \in Surjection(1..N, Launch)
  <2>1. Cardinality(1..N) = N
    BY <1>2, FS_Interval
  <2>2. Cardinality(Launch) = N
    BY <1>1 DEF ExpectedLaunches
  <2> QED BY <1>9, <2>1, <2>2, FS_Injection, LaunchesAreFinite
<1>11. Launch \subseteq {launches[n].launch : n \in 1..N}
  <2> SUFFICES ASSUME NEW l \in Launch PROVE \E n \in 1..N : launches[n].launch = l
    OBVIOUS
  <2>1. PICK n \in 1..N : g[n] = l
    BY <1>10 DEF Surjection
  <2> QED BY <1>7, <2>1
<1> QED BY <1>1, <1>3, <1>4, <1>5, <1>11

LEMMA FreezeScopeKeeps == ReplayInv /\ FreezeScope => ReplayInv'
<1> SUFFICES ASSUME ReplayInv, FreezeScope PROVE ReplayInv'
  OBVIOUS
<1>1. scan.step = "scan" /\ UNCHANGED <<head, map, job, receipts, passed, report>>
  BY DEF FreezeScope
<1>2. scan \in ScanRecord /\ scope = <<>> /\ map = <<>>
  BY <1>1, ScanIsTyped
<1>3. PICK launches \in Sorted(Deduplicated(scan.logs)) :
          IF ScopeHolds(launches)
          THEN scope' = launches /\ scan' = [Unscanned EXCEPT !.lagged = scan.lagged]
          ELSE scan' = [scan EXCEPT !.step = "threw"] /\ UNCHANGED scope
  BY DEF FreezeScope
<1>4. CASE ~ ScopeHolds(launches)
  <2>1. scan' = [scan EXCEPT !.step = "threw"] /\ scope' = scope
    BY <1>3, <1>4
  <2>2. scan' \in ScanRecord
    BY <1>2, <2>1 DEF ScanRecord
  <2> QED BY <1>1, <1>2, <2>1, <2>2, ScanMoves
<1>5. CASE ScopeHolds(launches)
  <2>1. scope' = launches /\ scan' = [Unscanned EXCEPT !.lagged = scan.lagged]
    BY <1>3, <1>5
  <2>2. scan' \in ScanRecord /\ scan'.step = "idle"
    BY <1>2, <2>1, UnscannedIsTyped DEF ScanRecord
  <2>3. /\ scope' \in [1..ExpectedLaunches -> Log] /\ Len(scope') = ExpectedLaunches
        /\ Launch \subseteq {scope'[n].launch : n \in 1..ExpectedLaunches}
    <3>1. scan.logs \in SUBSET Log
      BY <1>2 DEF ScanRecord
    <3> QED BY <1>5, <2>1, <3>1, ScopeIsWhole
  <2>4. Range(scope') \subseteq Log
    BY <2>3 DEF Range
  <2>5. TypeOK'
    BY <1>1, <2>2, <2>3, <2>4 DEF ReplayInv, TypeOK, ScanRecord
  <2>6. ScanInv' /\ ScopeInv' /\ MapInv' /\ JobInv'
    BY <1>1, <1>2, <2>2, <2>3 DEF ReplayInv, ScanInv, ScopeInv, MapInv, JobInv
  <2>7. ReceiptInv'
    BY <1>1, <1>2 DEF ReplayInv, ReceiptInv, ReceiptRight
  <2>8. ReportIsTrue' /\ GateIsEarned'
    BY <1>1 DEF ReplayInv, ReportIsTrue, GateIsEarned
  <2> QED BY <2>5, <2>6, <2>7, <2>8 DEF ReplayInv
<1> QED BY <1>4, <1>5

\* A job that runs before there is a map does not need one.
LEMMA GateNeedsNoMap ==
    ASSUME NEW j, NEW m, NEW h, JobRight(j, <<>>, h)
    PROVE  JobRight(j, m, h)
<1>1. j.program # "shard"
  BY DEF JobRight, GivenRight
<1>2. \A k : Task(j, m, k) = Task(j, <<>>, k)
  BY <1>1 DEF Task
<1>3. JobRecord(j, m) = JobRecord(j, <<>>)
  <2>1. {Task(j, m, k) : k \in 1..Tasks(j)} = {Task(j, <<>>, k) : k \in 1..Tasks(j)}
    BY <1>2
  <2> QED BY <2>1 DEF JobRecord
<1>4. GivenRight(j, m)
  BY <1>1, <1>2 DEF JobRight, GivenRight
<1>5. InTurn(j, m)
  BY <1>2 DEF JobRight, InTurn
<1> QED BY <1>3, <1>4, <1>5 DEF JobRight

LEMMA FreezeMapKeeps == ReplayInv /\ FreezeMap => ReplayInv'
<1> SUFFICES ASSUME ReplayInv, FreezeMap PROVE ReplayInv'
  OBVIOUS
<1>1. /\ scope # <<>> /\ map = <<>> /\ map' = MapRows
      /\ UNCHANGED <<head, scan, scope, job, receipts, passed, report>>
  BY DEF FreezeMap
<1>2. scope \in [1..ExpectedLaunches -> Log] /\ ExpectedLaunches \in Nat
  BY <1>1, LaunchesAreFinite DEF ReplayInv, ScopeInv
<1>3. Len(map') = ExpectedLaunches
  <2>1. PICK R : R = {MapRows[n] : n \in 1..ExpectedLaunches}
    OBVIOUS
  <2>2. DOMAIN scope = 1..ExpectedLaunches
    BY <1>2
  <2>3. MapRows \in [1..ExpectedLaunches -> R]
    BY <2>1, <2>2 DEF MapRows
  <2> QED BY <1>1, <1>2, <2>3, FunctionIsSequence
<1>4. TypeOK'
  BY <1>1, <1>3 DEF ReplayInv, TypeOK
<1>5. ScanInv' /\ ScopeInv' /\ MapInv'
  BY <1>1 DEF ReplayInv, ScanInv, ScopeInv, MapInv, MapRows
<1>6. JobInv'
  BY <1>1, GateNeedsNoMap DEF ReplayInv, JobInv
<1>7. ReceiptInv'
  BY <1>1 DEF ReplayInv, ReceiptInv, ReceiptRight
<1>8. ReportIsTrue' /\ GateIsEarned'
  BY <1>1 DEF ReplayInv, ReportIsTrue, GateIsEarned
<1> QED BY <1>4, <1>5, <1>6, <1>7, <1>8 DEF ReplayInv

------------------------------------------------------------------------------
(* The aggregate and the head.                                             *)

\* What ReportIsTrue says of a report.
TrueReport(rows) ==
    /\ {rows[n].launch : n \in DOMAIN rows} = Launch
    /\ Len(rows) = ExpectedLaunches
    /\ \A n \in DOMAIN rows :
          LET row == rows[n] IN
          /\ row.implementation = Implementation[BlockOf(row.launch) + Delay]
          /\ row.baseline = ArchiveBaseline("shard", row.launch)
          /\ \A i \in DOMAIN Horizon :
                row.cells[i].status = ArchiveCell("shard", row.launch, Horizon[i])

LEMMA AggregateKeeps == ReplayInv /\ Aggregate => ReplayInv'
<1> SUFFICES ASSUME ReplayInv, Aggregate PROVE ReplayInv'
  OBVIOUS
<1>1. PICK files \in [1..ShardFiles -> receipts] : CoversScope(files) /\ report' = Joined(files)
  BY DEF Aggregate
<1>2. UNCHANGED <<head, scan, scope, map, job, receipts, passed>>
  BY DEF Aggregate
<1>3. PICK N, r : N = ExpectedLaunches /\ N \in Nat /\ r = Joined(files)
  BY LaunchesAreFinite
<1>4. r = [n \in 1..N |->
            RowAt(files, CHOOSE place \in Places(files) : RowAt(files, place).ordinal = n)]
  BY <1>3 DEF Joined
<1>5. ASSUME NEW n \in 1..N
      PROVE  /\ map # <<>> /\ RowTrue("shard", r[n], head) /\ RowDone("shard", r[n])
             /\ r[n].launch = scope[n].launch
  <2>1. PICK place : /\ place = CHOOSE p \in Places(files) : RowAt(files, p).ordinal = n
                     /\ r[n] = RowAt(files, place)
    BY <1>4
  <2>2. n \in {RowAt(files, p).ordinal : p \in Places(files)}
    BY <1>1, <1>3 DEF CoversScope
  <2>3. \E p \in Places(files) : RowAt(files, p).ordinal = n
    BY <2>2
  <2>4. place \in Places(files) /\ RowAt(files, place).ordinal = n
    BY <2>1, <2>3
  <2>5. PICK f, k : f \in 1..ShardFiles /\ k \in DOMAIN files[f].rows /\ r[n] = files[f].rows[k]
    <3>1. PICK f \in 1..ShardFiles : place \in {f} \X DOMAIN files[f].rows
      BY <2>4 DEF Places
    <3>2. place[1] = f /\ place[2] \in DOMAIN files[f].rows
      BY <3>1
    <3> QED BY <2>1, <3>2 DEF RowAt
  <2>6. ReceiptRight(files[f])
    BY <1>1, <2>5 DEF ReplayInv, ReceiptInv
  <2>7. k \in 1..Len(files[f].rows)
    BY <2>5, <2>6 DEF ReceiptRight
  <2>8. r[n].ordinal = n
    BY <2>1, <2>4
  <2> QED BY <2>5, <2>6, <2>7, <2>8 DEF ReceiptRight
<1>6. ReportIsTrue'
  <2> SUFFICES ASSUME r # <<>> PROVE TrueReport(r)
    <3>1. report' = r
      BY ONLY <1>1, <1>3
    <3>2. ReportIsTrue' <=> (report' # <<>> => TrueReport(report'))
      BY DEF ReportIsTrue, TrueReport
    <3> QED BY <3>1, <3>2
  <2>1. PICK R : R = {r[n] : n \in 1..N} /\ r \in [1..N -> R]
    <3>1. PICK R : R = {r[n] : n \in 1..N}
      OBVIOUS
    <3>2. r = [n \in 1..N |-> r[n]]
      BY ONLY <1>4
    <3>3. r \in [1..N -> R]
      BY ONLY <3>1, <3>2
    <3> QED BY <3>1, <3>3
  <2>2. Len(r) = N /\ DOMAIN r = 1..N
    BY <1>3, <2>1, FunctionIsSequence
  <2>3. N # 0
    <3>1. N = 0 => r = <<>>
      BY <1>3, <2>1, FunctionIsSequence
    <3> QED BY <3>1
  <2>4. map # <<>>
    <3>1. 1 \in 1..N
      BY <1>3, <2>3
    <3> QED BY <1>5, <3>1
  <2>5. /\ \A n \in 1..N : scope[n].launch \in Launch
        /\ Launch \subseteq {scope[n].launch : n \in 1..N}
    BY <1>3, <2>4, MapIsRight DEF ReplayInv
  <2>6. {r[n].launch : n \in DOMAIN r} = Launch
    BY <1>5, <2>2, <2>5
  <2>7. ASSUME NEW n \in 1..N
        PROVE  /\ r[n].implementation = Implementation[BlockOf(r[n].launch) + Delay]
               /\ r[n].baseline = ArchiveBaseline("shard", r[n].launch)
               /\ \A i \in DOMAIN Horizon :
                     r[n].cells[i].status = ArchiveCell("shard", r[n].launch, Horizon[i])
    <3>1. PICK row : row = r[n] /\ RowTrue("shard", row, head) /\ RowDone("shard", row)
      BY <1>5
    <3>2. Len(row.cells) = Len(Horizon) /\ DOMAIN Horizon = 1..Len(Horizon)
      BY <3>1, Programs, ReplayAssumption DEF RowDone, ReplayAssumption
    <3>3. \A i \in DOMAIN Horizon : CellTrue("shard", row.launch, row.cells[i], Horizon[i], head)
      BY <3>1, <3>2, Programs DEF RowTrue, CellsTrue
    <3> QED BY <3>1, <3>3 DEF RowTrue, CellTrue
  <2> QED BY <1>3, <2>2, <2>6, <2>7 DEF TrueReport
<1>7. TypeOK' /\ ScanInv' /\ ScopeInv' /\ MapInv' /\ JobInv'
  BY <1>2 DEF ReplayInv, TypeOK, ScanInv, ScopeInv, MapInv, MapRows, JobInv
<1>8. ReceiptInv' /\ GateIsEarned'
  BY <1>2 DEF ReplayInv, ReceiptInv, ReceiptRight, GateIsEarned
<1> QED BY <1>6, <1>7, <1>8 DEF ReplayInv

LEMMA MineKeeps == ReplayInv /\ Mine => ReplayInv'
<1> SUFFICES ASSUME ReplayInv, Mine PROVE ReplayInv'
  OBVIOUS
<1>1. /\ head < MaxBlock /\ head' = head + 1
      /\ UNCHANGED <<scan, scope, map, job, receipts, passed, report>>
  BY DEF Mine
<1>2. head \in 1..MaxBlock /\ MaxBlock \in Nat /\ Confirmations \in Nat
  BY ReplayAssumption DEF ReplayAssumption, ReplayInv, TypeOK
<1>3. head \in Nat /\ head' \in Nat /\ head <= head' /\ head' \in 1..MaxBlock
  BY <1>1, <1>2
<1>4. TypeOK'
  BY <1>1, <1>3 DEF ReplayInv, TypeOK
<1>5. ScanInv' /\ ScopeInv' /\ MapInv'
  BY <1>1 DEF ReplayInv, ScanInv, ScopeInv, MapInv, MapRows
<1>6. JobInv'
  BY <1>1, <1>3, JobStaysRight DEF ReplayInv, JobInv
<1>7. ReceiptInv'
  <2>1. ASSUME NEW receipt \in receipts PROVE ReceiptRight(receipt)'
    <3>1. ReceiptRight(receipt)
      BY DEF ReplayInv, ReceiptInv
    <3>2. \A row : RowTrue("shard", row, head) => RowTrue("shard", row, head')
      BY <1>3, Programs, RowStaysTrue
    <3> QED BY <1>1, <3>1, <3>2 DEF ReceiptRight
  <2> QED BY <1>1, <2>1 DEF ReceiptInv
<1>8. ReportIsTrue'
  BY <1>1 DEF ReplayInv, ReportIsTrue
<1>9. GateIsEarned'
  <2> SUFFICES ASSUME NEW gate \in passed, NEW i \in DOMAIN Cohort
               PROVE  /\ ArchiveBaseline(gate, Cohort[i].first) = "COMPLETE"
                      /\ \A c \in DOMAIN Program[gate].horizons :
                           /\ ArchiveCell(gate, Cohort[i].first, Program[gate].horizons[c]) = "COMPLETE"
                           /\ ObservedBlock(Cohort[i].first, Program[gate].horizons[c]) <= head' - Confirmations
    BY <1>1 DEF GateIsEarned
  <2>1. gate \in DOMAIN Program /\ Cohort[i].first \in Launch
    BY Programs, Representation DEF ReplayInv, TypeOK
  <2>2. ASSUME NEW c \in DOMAIN Program[gate].horizons
        PROVE  ObservedBlock(Cohort[i].first, Program[gate].horizons[c]) <= head' - Confirmations
    <3>1. PICK at : at = ObservedBlock(Cohort[i].first, Program[gate].horizons[c])
      OBVIOUS
    <3>2. Program[gate].horizons[c] \in Nat
      BY <2>1, <2>2, HorizonsAreTimes DEF HorizonsOf
    <3>3. at \in Nat
      BY <2>1, <3>1, <3>2, ObservedIsNumber
    <3>4. at <= head - Confirmations
      BY <3>1 DEF ReplayInv, GateIsEarned
    <3> QED BY <1>2, <1>3, <3>1, <3>3, <3>4, <1>1
  <2> QED BY <2>2 DEF ReplayInv, GateIsEarned
<1> QED BY <1>4, <1>5, <1>6, <1>7, <1>8, <1>9 DEF ReplayInv

------------------------------------------------------------------------------
(* The theorems.                                                           *)

LEMMA InitHolds == Init => ReplayInv
<1> SUFFICES ASSUME Init PROVE ReplayInv
  OBVIOUS
<1>1. /\ head = ToBlock + Delay /\ scan = Unscanned /\ scope = <<>> /\ map = <<>> /\ report = <<>>
      /\ job = Idle /\ receipts = {} /\ passed = {}
  BY DEF Init
<1>2. ToBlock + Delay \in 1..MaxBlock
  <2>1. /\ FromBlock \in Nat \ {0} /\ ToBlock \in Nat /\ FromBlock <= ToBlock /\ Delay \in Nat
        /\ MaxBlock \in Nat /\ ToBlock + Delay <= MaxBlock
    BY ReplayAssumption DEF ReplayAssumption
  <2> QED BY ONLY <2>1
<1>3. /\ Len(scope) \in {0, ExpectedLaunches} /\ Len(map) \in {0, ExpectedLaunches}
      /\ Range(scope) \subseteq Log
  BY <1>1 DEF Range
<1>4. TypeOK
  BY <1>1, <1>2, <1>3, UnscannedIsTyped, IdleIsIdle DEF TypeOK, ScanRecord
<1>5. ScanInv /\ ScopeInv /\ MapInv /\ JobInv
  BY <1>1, IdleIsIdle DEF ScanInv, ScopeInv, MapInv, JobInv
<1>6. ReceiptInv /\ ReportIsTrue /\ GateIsEarned
  BY <1>1 DEF ReceiptInv, ReportIsTrue, GateIsEarned
<1> QED BY <1>4, <1>5, <1>6 DEF ReplayInv

LEMMA StepKeeps == ReplayInv /\ [Next]_vars => ReplayInv'
<1> SUFFICES ASSUME ReplayInv, [Next]_vars PROVE ReplayInv'
  OBVIOUS
<1>1. CASE BeginScan
  BY <1>1, BeginScanKeeps
<1>2. CASE ScanStep
  BY <1>2, ReadChunkKeeps, RetryChunkKeeps, ShrinkChunkKeeps, FreezeScopeKeeps DEF ScanStep
<1>3. CASE FreezeMap
  BY <1>3, FreezeMapKeeps
<1>4. CASE ReplayStep
  BY <1>4, BeginGateKeeps, BeginShardKeeps, ReadLaunchKeeps, BuildBaselineKeeps, BuildOutcomeKeeps,
     WriteReceiptKeeps, WriteVerdictKeeps DEF ReplayStep
<1>5. CASE Aggregate
  BY <1>5, AggregateKeeps
<1>6. CASE Mine
  BY <1>6, MineKeeps
<1>7. CASE UNCHANGED vars
  <2>1. job' = job /\ UNCHANGED <<head, scan, scope, map, receipts, passed, report>>
    BY <1>7 DEF vars
  <2>2. TypeOK' /\ ScanInv' /\ ScopeInv' /\ MapInv' /\ JobInv'
    BY <2>1 DEF ReplayInv, TypeOK, ScanInv, ScopeInv, MapInv, MapRows, JobInv
  <2>3. ReceiptInv' /\ ReportIsTrue' /\ GateIsEarned'
    BY <2>1 DEF ReplayInv, ReceiptInv, ReceiptRight, ReportIsTrue, GateIsEarned
  <2> QED BY <2>2, <2>3 DEF ReplayInv
<1> QED BY <1>1, <1>2, <1>3, <1>4, <1>5, <1>6, <1>7 DEF Next

\* The invariant of the replay holds in every state.
THEOREM ReplayInvariant == Spec => []ReplayInv
  BY InitHolds, StepKeeps, PTL DEF Spec

\* The variables of the scan, of the jobs, and what was published keep their types;
\* historicalFullReplayCli.ts writes no row that is not one of the range.
THEOREM TypeCorrect == Spec => []TypeOK
<1>1. ReplayInv => TypeOK
  BY DEF ReplayInv
<1> QED BY <1>1, ReplayInvariant, PTL

\* What the programs publish of the past is what the archive holds of it: the report of
\* historical-full-replay-r1-aggregate.mjs has every launch once, with the archive's own
\* baseline and cells, and a gate that passed was earned by every cohort.
THEOREM VerdictsTrue == Spec => []VerdictsAreTrue
<1>1. ReplayInv => VerdictsAreTrue
  BY DEF ReplayInv, VerdictsAreTrue
<1> QED BY <1>1, ReplayInvariant, PTL

\* A scope that discoverLaunches has frozen lacks no launch of the range, although any
\* chunk may have been answered by an index that lags.
ScopeIsComplete == scope # <<>> => {scope[n].launch : n \in DOMAIN scope} = Launch
THEOREM ScopeComplete == Spec => []ScopeIsComplete
<1>1. ReplayInv => ScopeIsComplete
  <2> SUFFICES ASSUME ReplayInv, scope # <<>>
               PROVE  {scope[n].launch : n \in DOMAIN scope} = Launch
    BY DEF ScopeIsComplete
  <2>1. /\ scope \in [1..ExpectedLaunches -> Log]
        /\ Launch \subseteq {scope[n].launch : n \in 1..ExpectedLaunches}
    BY DEF ReplayInv, ScopeInv
  <2>2. DOMAIN scope = 1..ExpectedLaunches /\ \A n \in DOMAIN scope : scope[n].launch \in Launch
    BY <2>1 DEF Launch
  <2> QED BY <2>1, <2>2
<1> QED BY <1>1, ReplayInvariant, PTL

\* What a receipt in the directory says stays true: every row of every shard receipt, whether
\* the aggregate takes it or not, is the archive's answer for a launch of the scope.
THEOREM ReceiptsTrue == Spec => []ReceiptInv
<1>1. ReplayInv => ReceiptInv
  BY DEF ReplayInv
<1> QED BY <1>1, ReplayInvariant, PTL

------------------------------------------------------------------------------
(* The scan skips nothing.                                                 *)

\* However often the span grew and shrank, a scan has asked for each block below its
\* cursor and for none above: discoverLaunches holds nothing else, and all of it if every
\* answer was whole.
ScanIsGapless ==
    scan.step # "idle" =>
        /\ scan.logs \subseteq LogsIn(FromBlock, scan.cursor - 1)
        /\ ~ scan.lagged => scan.logs = LogsIn(FromBlock, scan.cursor - 1)

LEMMA RangesJoin ==
    ASSUME NEW a \in Nat, NEW c \in Nat, NEW e \in Nat, a <= c, c <= e
    PROVE  LogsIn(a, (e + 1) - 1) = LogsIn(a, c - 1) \cup LogsIn(c, e)
<1>1. \A b \in Nat : b \in a..((e + 1) - 1) <=> b \in a..(c - 1) \/ b \in c..e
  OBVIOUS
<1>2. \A log \in Log : log.block \in Nat
  <2>1. \A log \in Log : log.block \in FromBlock..ToBlock
    BY ReplayAssumption DEF ReplayAssumption
  <2>2. \A b \in FromBlock..ToBlock : b \in Nat
    BY RangeOfScan
  <2> QED BY <2>1, <2>2
<1> QED BY <1>1, <1>2 DEF LogsIn

LEMMA ChunkIsGapless ==
    ASSUME TypeOK, ScanIsGapless, ReadChunk
    PROVE  ScanIsGapless'
<1>1. scan.step = "scan" /\ scan.cursor <= ToBlock /\ scan \in ScanRecord
  BY DEF ReadChunk, TypeOK, ScanRecord
<1>2. PICK answer, c, e : /\ answer \subseteq LogsIn(c, e) /\ c = scan.cursor /\ e = ScanEnd
                          /\ scan' = [scan EXCEPT
                                !.logs = @ \cup answer,
                                !.lagged = @ \/ answer # LogsIn(c, e),
                                !.cursor = e + 1,
                                !.span = Smaller(@ * 2, MaxSpan),
                                !.retries = 0]
  <2>1. PICK answer \in SUBSET LogsIn(scan.cursor, ScanEnd) :
           scan' = [scan EXCEPT
             !.logs = @ \cup answer,
             !.lagged = @ \/ answer # LogsIn(scan.cursor, ScanEnd),
             !.cursor = ScanEnd + 1,
             !.span = Smaller(@ * 2, MaxSpan),
             !.retries = 0]
    BY DEF ReadChunk
  <2> WITNESS answer, scan.cursor, ScanEnd
  <2> QED BY ONLY <2>1
<1>3. /\ scan'.logs = scan.logs \cup answer /\ scan'.cursor = e + 1
      /\ scan'.lagged = (scan.lagged \/ answer # LogsIn(c, e))
  BY <1>1, <1>2 DEF ScanRecord
<1>4. FromBlock \in Nat /\ c \in Nat /\ e \in Nat /\ FromBlock <= c /\ c <= e
  <2>1. c \in FromBlock..(ToBlock + 1) /\ e \in Nat /\ c <= e
    BY <1>1, <1>2, ChunkAdvances DEF ScanRecord
  <2>2. FromBlock \in Nat /\ ToBlock \in Nat
    BY RangeOfScan
  <2> QED BY ONLY <2>1, <2>2
<1>5. LogsIn(FromBlock, (e + 1) - 1) = LogsIn(FromBlock, c - 1) \cup LogsIn(c, e)
  BY ONLY <1>4, RangesJoin
<1>6. /\ scan.logs \subseteq LogsIn(FromBlock, c - 1)
      /\ ~ scan.lagged => scan.logs = LogsIn(FromBlock, c - 1)
  BY <1>1, <1>2 DEF ScanIsGapless
<1>7. LogsIn(FromBlock, scan'.cursor - 1) = LogsIn(FromBlock, c - 1) \cup LogsIn(c, e)
  BY ONLY <1>3, <1>5, Zenon
<1>8. scan'.logs \subseteq LogsIn(FromBlock, scan'.cursor - 1)
  BY ONLY <1>2, <1>3, <1>6, <1>7
<1>9. ~ scan'.lagged => scan'.logs = LogsIn(FromBlock, scan'.cursor - 1)
  <2> SUFFICES ASSUME ~ scan'.lagged PROVE scan'.logs = LogsIn(FromBlock, scan'.cursor - 1)
    OBVIOUS
  <2>1. ~ scan.lagged /\ answer = LogsIn(c, e)
    BY <1>3
  <2> QED BY ONLY <2>1, <1>3, <1>6, <1>7
<1>10. ScanIsGapless' <=>
         (scan'.step # "idle" =>
            /\ scan'.logs \subseteq LogsIn(FromBlock, scan'.cursor - 1)
            /\ ~ scan'.lagged => scan'.logs = LogsIn(FromBlock, scan'.cursor - 1))
  BY DEF ScanIsGapless, LogsIn
<1> QED BY ONLY <1>8, <1>9, <1>10

LEMMA StepIsGapless ==
    ASSUME TypeOK, ScanIsGapless, [Next]_vars
    PROVE  ScanIsGapless'
<1>1. CASE BeginScan
  <2>1. scan'.logs = {} /\ scan'.cursor = FromBlock
    BY <1>1 DEF BeginScan, Unscanned
  <2>2. LogsIn(FromBlock, FromBlock - 1) = {}
    <3>1. FromBlock..(FromBlock - 1) = {}
      BY RangeOfScan
    <3> QED BY <3>1 DEF LogsIn
  <2> QED BY <2>1, <2>2 DEF ScanIsGapless
<1>2. CASE ReadChunk
  BY <1>2, ChunkIsGapless
<1>3. ASSUME scan'.logs = scan.logs, scan'.cursor = scan.cursor, scan'.lagged = scan.lagged,
             scan.step = "scan" \/ scan' = scan
      PROVE  ScanIsGapless'
  BY <1>3 DEF ScanIsGapless, LogsIn
<1>4. CASE RetryChunk
  BY <1>3, <1>4 DEF RetryChunk, TypeOK
<1>5. CASE ShrinkChunk
  <2>1. scan.step = "scan" /\ scan \in ScanRecord
    BY <1>5 DEF ShrinkChunk, TypeOK, ScanRecord
  <2>2. \/ scan' = [scan EXCEPT !.span = Larger(@ \div 2, MinSpan), !.retries = 0]
        \/ scan' = [scan EXCEPT !.step = "threw"]
    BY <1>5 DEF ShrinkChunk
  <2>3. scan'.logs = scan.logs /\ scan'.cursor = scan.cursor /\ scan'.lagged = scan.lagged
    BY ONLY <2>1, <2>2 DEF ScanRecord
  <2> QED BY <1>3, <2>1, <2>3
<1>6. CASE FreezeScope
  <2>1. scan.step = "scan" /\ scan \in ScanRecord
    BY <1>6 DEF FreezeScope, TypeOK, ScanRecord
  <2>2. \/ scan' = [Unscanned EXCEPT !.lagged = scan.lagged]
        \/ scan' = [scan EXCEPT !.step = "threw"]
    BY <1>6 DEF FreezeScope
  <2>3. CASE scan' = [Unscanned EXCEPT !.lagged = scan.lagged]
    <3>1. scan'.step = "idle"
      BY <2>3 DEF Unscanned
    <3> QED BY <3>1 DEF ScanIsGapless
  <2>4. CASE scan' = [scan EXCEPT !.step = "threw"]
    <3>1. scan'.logs = scan.logs /\ scan'.cursor = scan.cursor /\ scan'.lagged = scan.lagged
      BY ONLY <2>1, <2>4 DEF ScanRecord
    <3> QED BY <1>3, <2>1, <3>1
  <2> QED BY <2>2, <2>3, <2>4
<1>7. CASE UNCHANGED scan
  BY <1>3, <1>7
<1>8. CASE FreezeMap \/ ReplayStep \/ Aggregate \/ Mine \/ UNCHANGED vars
  <2>1. UNCHANGED scan
    BY <1>8 DEF FreezeMap, ReplayStep, BeginGate, BeginShard, Begin, ReadLaunch, BuildBaseline,
               BuildOutcome, WriteReceipt, WriteVerdict, Aggregate, Mine, vars
  <2> QED BY <1>7, <2>1
<1> QED BY <1>1, <1>2, <1>4, <1>5, <1>6, <1>8 DEF Next, ScanStep

\* discoverLaunches has all logs below its cursor and none above, whatever was refused,
\* failed or grew in between; what it lacks, a lagging index did not have.
THEOREM ScanGapless == Spec => []ScanIsGapless
<1>1. Init => ScanIsGapless
  BY DEF Init, Unscanned, ScanIsGapless
<1>2. TypeOK /\ ScanIsGapless /\ [Next]_vars => ScanIsGapless'
  BY StepIsGapless
<1> QED BY <1>1, <1>2, TypeCorrect, PTL DEF Spec

==============================================================================
