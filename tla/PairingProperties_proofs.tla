----------------------- MODULE PairingProperties_proofs -----------------------
(* What the pairing gate promises for every command line, plan, test binary, *)
(* overlay and set of logs: the invariants of the runner's control, each     *)
(* shown step by step; what a campaign leaves on disk, case by case; and     *)
(* what its report says of its captures.                                     *)
EXTENDS PairingOperators_proofs

(* The fields that an update of a record changes only if it has them.        *)
GateFields == {"command", "at", "exit", "todo", "left", "limit", "log", "success",
               "phases", "before", "pins", "executed", "error"}
DiskFields == {"report", "overlay", "cases", "manifest", "measurement"}
WorldFields == {"checkout", "scratch", "hagia", "lock", "tests"}

Shape ==
    /\ GateFields \subseteq DOMAIN gate
    /\ DiskFields \subseteq DOMAIN disk
    /\ WorldFields \subseteq DOMAIN world

(* The lock is this gate's from the moment it holds the lease to its exit.   *)
LeaseInv == Shape /\ (Leased => world.lock = "ours")

USE DEF GateFields, DiskFields, WorldFields

LEMMA ShapeInit == GateInit => Shape
BY DEF GateInit, Shape, Reported

LEMMA ShapeStep == Shape /\ [GateNext]_gateVars => Shape'
<1> SUFFICES ASSUME Shape, [GateNext]_gateVars PROVE Shape'
  OBVIOUS
<1> USE DEF Shape, Goto, Exit, Conclude, PhaseDone, WriteReport, TearReport, Reported
<1>1. CASE ParseOptions
  BY <1>1 DEF ParseOptions
<1>2. CASE CheckInputs
  BY <1>2 DEF CheckInputs
<1>3. CASE TakeLock
  BY <1>3 DEF TakeLock
<1>4. CASE MakeEvidence
  BY <1>4 DEF MakeEvidence
<1>5. CASE PrepareOverlay
  BY <1>5 DEF PrepareOverlay
<1>6. CASE IdentifyBefore
  BY <1>6 DEF IdentifyBefore
<1>7. CASE ReportRunning
  BY <1>7 DEF ReportRunning
<1>8. CASE TakePhase
  BY <1>8 DEF TakePhase
<1>9. CASE LaunchPhase
  BY <1>9 DEF LaunchPhase
<1>10. CASE JudgePhase
  BY <1>10 DEF JudgePhase
<1>11. CASE AfterPhase
  BY <1>11 DEF AfterPhase
<1>12. CASE ConcludeCase
  BY <1>12 DEF ConcludeCase
<1>13. CASE JudgeCampaign
  BY <1>13 DEF JudgeCampaign
<1>14. CASE FinalReport
  BY <1>14 DEF FinalReport
<1>15. CASE PhaseStep
  BY <1>15 DEF PhaseStep
<1>16. CASE PhaseExits
  BY <1>16 DEF PhaseExits
<1>17. CASE WorkerExits
  BY <1>17 DEF WorkerExits
<1>18. CASE KillPhase
  BY <1>18 DEF KillPhase
<1>19. CASE Tick
  BY <1>19 DEF Tick
<1>20. CASE OtherGate
  BY <1>20 DEF OtherGate
<1>21. CASE Tamper
  BY <1>21 DEF Tamper
<1>22. CASE UNCHANGED gateVars
  BY <1>22 DEF gateVars
<1> QED
  BY <1>1, <1>2, <1>3, <1>4, <1>5, <1>6, <1>7, <1>8, <1>9, <1>10, <1>11, <1>12, <1>13,
     <1>14, <1>15, <1>16, <1>17, <1>18, <1>19, <1>20, <1>21, <1>22 DEF GateNext, GateStep

LEMMA LeaseStep == LeaseInv /\ [GateNext]_gateVars => LeaseInv'
<1> SUFFICES ASSUME LeaseInv, [GateNext]_gateVars PROVE LeaseInv'
  OBVIOUS
<1>1. Shape'
  BY ShapeStep DEF LeaseInv
<1> USE <1>1 DEF LeaseInv, Shape, At, Leased, Goto, Exit, Conclude, PhaseDone
<1>2. CASE ParseOptions
  BY <1>2 DEF ParseOptions
<1>3. CASE CheckInputs
  BY <1>3 DEF CheckInputs
<1>4. CASE TakeLock
  BY <1>4 DEF TakeLock
<1>5. CASE MakeEvidence
  BY <1>5 DEF MakeEvidence
<1>6. CASE PrepareOverlay
  BY <1>6 DEF PrepareOverlay
<1>7. CASE IdentifyBefore
  BY <1>7 DEF IdentifyBefore
<1>8. CASE ReportRunning
  BY <1>8 DEF ReportRunning
<1>9. CASE TakePhase
  BY <1>9 DEF TakePhase
<1>10. CASE LaunchPhase
  BY <1>10 DEF LaunchPhase
<1>11. CASE JudgePhase
  BY <1>11 DEF JudgePhase
<1>12. CASE AfterPhase
  BY <1>12 DEF AfterPhase
<1>13. CASE ConcludeCase
  BY <1>13 DEF ConcludeCase
<1>14. CASE JudgeCampaign
  BY <1>14 DEF JudgeCampaign
<1>15. CASE FinalReport
  BY <1>15 DEF FinalReport
<1>16. CASE PhaseStep
  BY <1>16 DEF PhaseStep
<1>17. CASE PhaseExits
  BY <1>17 DEF PhaseExits
<1>18. CASE WorkerExits
  BY <1>18 DEF WorkerExits
<1>19. CASE KillPhase
  BY <1>19 DEF KillPhase
<1>20. CASE Tick
  BY <1>20 DEF Tick
<1>21. CASE OtherGate
  BY <1>21 DEF OtherGate
<1>22. CASE Tamper
  BY <1>22 DEF Tamper
<1>23. CASE UNCHANGED gateVars
  BY <1>23 DEF gateVars
<1> QED
  BY <1>2, <1>3, <1>4, <1>5, <1>6, <1>7, <1>8, <1>9, <1>10, <1>11, <1>12, <1>13, <1>14,
     <1>15, <1>16, <1>17, <1>18, <1>19, <1>20, <1>21, <1>22, <1>23 DEF GateNext, GateStep

(* Only the other gate itself takes its lock away: this one writes the lock   *)
(* when it is free, and frees it when it is its own.                         *)
LEMMA OthersLockStep ==
  ASSUME LeaseInv, [GateNext]_gateVars, world.lock = "theirs", world'.lock # "theirs"
  PROVE  gate' = gate
<1> USE DEF LeaseInv, Shape, At, Leased, Goto, Exit, Conclude, PhaseDone
<1>1. CASE ParseOptions
  BY <1>1 DEF ParseOptions
<1>2. CASE CheckInputs
  BY <1>2 DEF CheckInputs
<1>3. CASE TakeLock
  BY <1>3 DEF TakeLock
<1>4. CASE MakeEvidence
  BY <1>4 DEF MakeEvidence
<1>5. CASE PrepareOverlay
  BY <1>5 DEF PrepareOverlay
<1>6. CASE IdentifyBefore
  BY <1>6 DEF IdentifyBefore
<1>7. CASE ReportRunning
  BY <1>7 DEF ReportRunning
<1>8. CASE TakePhase
  BY <1>8 DEF TakePhase
<1>9. CASE LaunchPhase
  BY <1>9 DEF LaunchPhase
<1>10. CASE JudgePhase
  BY <1>10 DEF JudgePhase
<1>11. CASE AfterPhase
  BY <1>11 DEF AfterPhase
<1>12. CASE ConcludeCase
  BY <1>12 DEF ConcludeCase
<1>13. CASE JudgeCampaign
  BY <1>13 DEF JudgeCampaign
<1>14. CASE FinalReport
  BY <1>14 DEF FinalReport
<1>15. CASE PhaseStep
  BY <1>15 DEF PhaseStep
<1>16. CASE PhaseExits
  BY <1>16 DEF PhaseExits
<1>17. CASE WorkerExits
  BY <1>17 DEF WorkerExits
<1>18. CASE KillPhase
  BY <1>18 DEF KillPhase
<1>19. CASE Tick
  BY <1>19 DEF Tick
<1>20. CASE OtherGate
  BY <1>20 DEF OtherGate
<1>21. CASE Tamper
  BY <1>21 DEF Tamper
<1>22. CASE UNCHANGED gateVars
  BY <1>22 DEF gateVars
<1> QED
  BY <1>1, <1>2, <1>3, <1>4, <1>5, <1>6, <1>7, <1>8, <1>9, <1>10, <1>11, <1>12, <1>13,
     <1>14, <1>15, <1>16, <1>17, <1>18, <1>19, <1>20, <1>21, <1>22 DEF GateNext, GateStep

(* A gate that finds the build target locked leaves the lock of the other     *)
(* gate where it is, whatever makes it exit and wherever it does.            *)
THEOREM OthersLock == GateSpec => OthersLockSurvives
<1>1. GateInit => LeaseInv
  BY ShapeInit DEF GateInit, LeaseInv, Leased
<1>2. LeaseInv /\ [GateNext]_gateVars => LeaseInv'
  BY LeaseStep
<1>3. LeaseInv /\ [GateNext]_gateVars
        => [world.lock = "theirs" /\ world'.lock # "theirs" => gate' = gate]_gateVars
  BY OthersLockStep
<1> QED
  BY <1>1, <1>2, <1>3, PTL DEF GateSpec, OthersLockSurvives

-----------------------------------------------------------------------------
(* Before the first report nothing is written; a gate that has not ended has *)
(* no exit, and its report is not a verdict.                                 *)
StatusInv ==
    /\ Shape
    /\ gate.at \in {"options", "inputs", "lock", "evidence", "overlay", "identity", "report"}
           => disk.report.status = "absent"
    /\ ~At("exited") => ~Exited
    /\ ExitAgreesWithReport

LEMMA StatusIsWritten ==
  ASSUME Shape, NEW status, NEW phases, WriteReport(status, phases)
  PROVE  disk'.report.status = status
BY DEF Shape, WriteReport, Reported

LEMMA ExitIsRecorded ==
  ASSUME Shape, NEW result, Exit(result)
  PROVE  gate'.at = "exited" /\ gate'.exit = result
BY DEF Shape, Exit

LEMMA StatusStep == StatusInv /\ [GateNext]_gateVars => StatusInv'
<1> SUFFICES ASSUME StatusInv, [GateNext]_gateVars PROVE StatusInv'
  OBVIOUS
<1>1. Shape'
  BY ShapeStep DEF StatusInv
<1> USE <1>1 DEF StatusInv, Shape, At, Goto, Exit, Exited, Conclude, PhaseDone,
                 ExitAgreesWithReport
<1>2. CASE ParseOptions
  BY <1>2 DEF ParseOptions
<1>3. CASE CheckInputs
  BY <1>3 DEF CheckInputs
<1>4. CASE TakeLock
  BY <1>4 DEF TakeLock
<1>5. CASE MakeEvidence
  BY <1>5 DEF MakeEvidence
<1>6. CASE PrepareOverlay
  <2>1. CASE Goto("identity")
    BY <1>6, <2>1 DEF PrepareOverlay
  <2>2. CASE Exit("fail")
    <3>1. \/ WriteReport("fail", <<>>) \/ WriteReport("torn", <<>>)
          \/ Goto("identity")
      BY <1>6 DEF PrepareOverlay, TearReport
    <3> QED
      BY <2>1, <2>2, <3>1, StatusIsWritten, ExitIsRecorded
  <2> QED
    BY <1>6, <2>1, <2>2 DEF PrepareOverlay
<1>7. CASE IdentifyBefore
  BY <1>7 DEF IdentifyBefore
<1>8. CASE ReportRunning
  <2>1. CASE /\ WriteReport("running", <<>>)
             /\ gate' = [gate EXCEPT !.at = "next", !.todo = Plan(gate.command.measure)]
    BY <1>8, <2>1, StatusIsWritten DEF ReportRunning
  <2>2. CASE Exit("fail") /\ WriteReport("torn", <<>>)
    BY <2>2, StatusIsWritten, ExitIsRecorded
  <2> QED
    BY <1>8, <2>1, <2>2 DEF ReportRunning, TearReport
<1>9. CASE TakePhase
  BY <1>9 DEF TakePhase
<1>10. CASE LaunchPhase
  BY <1>10 DEF LaunchPhase
<1>11. CASE JudgePhase
  <2>1. gate'.at \in {"final", "after"} /\ gate'.exit = gate.exit /\ gate.at = "judge"
    BY <1>11 DEF JudgePhase
  <2>2. PICK phases : WriteReport("running", phases) \/ WriteReport("torn", phases)
    BY <1>11 DEF JudgePhase, TearReport
  <2>3. disk'.report.status \in {"running", "torn"}
    BY <2>2, StatusIsWritten
  <2> QED
    BY <2>1, <2>3
<1>12. CASE AfterPhase
  BY <1>12 DEF AfterPhase
<1>13. CASE ConcludeCase
  <2>1. gate.at = "judge" /\ gate'.at \in {"next", "final"} /\ gate'.exit = gate.exit
    BY <1>13 DEF ConcludeCase
  <2>2. disk'.report = disk.report
    BY <1>13 DEF ConcludeCase
  <2> QED
    BY <2>1, <2>2
<1>14. CASE JudgeCampaign
  BY <1>14 DEF JudgeCampaign
<1>15. CASE FinalReport
  <2>1. CASE Exit("fail") /\ WriteReport("torn", <<>>)
    BY <2>1, StatusIsWritten, ExitIsRecorded
  <2>2. CASE \E result \in {"pass", "fail"} : WriteReport(result, gate.phases) /\ Exit(result)
    BY <2>2, StatusIsWritten, ExitIsRecorded
  <2> QED
    BY <1>15, <2>1, <2>2 DEF FinalReport, TearReport
<1>16. CASE PhaseStep
  BY <1>16 DEF PhaseStep
<1>17. CASE PhaseExits
  BY <1>17 DEF PhaseExits
<1>18. CASE WorkerExits
  BY <1>18 DEF WorkerExits
<1>19. CASE KillPhase
  BY <1>19 DEF KillPhase
<1>20. CASE Tick
  BY <1>20 DEF Tick
<1>21. CASE OtherGate
  BY <1>21 DEF OtherGate
<1>22. CASE Tamper
  BY <1>22 DEF Tamper
<1>23. CASE UNCHANGED gateVars
  BY <1>23 DEF gateVars
<1> QED
  BY <1>2, <1>3, <1>4, <1>5, <1>6, <1>7, <1>8, <1>9, <1>10, <1>11, <1>12, <1>13, <1>14,
     <1>15, <1>16, <1>17, <1>18, <1>19, <1>20, <1>21, <1>22, <1>23 DEF GateNext, GateStep

(* The exit of the runner and the report it leaves behind always agree.      *)
THEOREM ReportAgrees == GateSpec => []ExitAgreesWithReport
<1>1. GateInit => StatusInv
  BY ShapeInit DEF GateInit, StatusInv, At, Exited, ExitAgreesWithReport, Reported
<1>2. StatusInv => ExitAgreesWithReport
  BY DEF StatusInv
<1> QED
  BY <1>1, <1>2, StatusStep, PTL DEF GateSpec

-----------------------------------------------------------------------------
(* A report is judged once, at the end of the phases; nothing of what it was *)
(* judged from changes after it.                                             *)
MeasureInv ==
    /\ Shape
    /\ gate.at \notin {"final", "exited"} => disk.measurement = Refused
    /\ disk.measurement \in {Refused, Report(Manifest, disk.cases)}

LEMMA MeasureStep == MeasureInv /\ [GateNext]_gateVars => MeasureInv'
<1> SUFFICES ASSUME MeasureInv, [GateNext]_gateVars PROVE MeasureInv'
  OBVIOUS
<1>1. Shape'
  BY ShapeStep DEF MeasureInv
<1> USE <1>1 DEF MeasureInv, Shape, At, Goto, Exit, Conclude, PhaseDone, WriteReport,
                 TearReport, Manifest
<1>2. CASE ParseOptions
  BY <1>2 DEF ParseOptions
<1>3. CASE CheckInputs
  BY <1>3 DEF CheckInputs
<1>4. CASE TakeLock
  BY <1>4 DEF TakeLock
<1>5. CASE MakeEvidence
  BY <1>5 DEF MakeEvidence
<1>6. CASE PrepareOverlay
  BY <1>6 DEF PrepareOverlay
<1>7. CASE IdentifyBefore
  BY <1>7 DEF IdentifyBefore
<1>8. CASE ReportRunning
  BY <1>8 DEF ReportRunning
<1>9. CASE TakePhase
  BY <1>9 DEF TakePhase
<1>10. CASE LaunchPhase
  BY <1>10 DEF LaunchPhase
<1>11. CASE JudgePhase
  BY <1>11 DEF JudgePhase
<1>12. CASE AfterPhase
  BY <1>12 DEF AfterPhase
<1>13. CASE ConcludeCase
  BY <1>13 DEF ConcludeCase
<1>14. CASE JudgeCampaign
  <2>1. gate'.at = "final" /\ gate'.command = gate.command
    BY <1>14 DEF JudgeCampaign
  <2>2. \/ disk' = disk
        \/ disk' = [disk EXCEPT !.measurement = Report(Manifest, disk.cases)]
    BY <1>14 DEF JudgeCampaign
  <2>3. disk.measurement = Refused
    BY <1>14 DEF JudgeCampaign
  <2> QED
    BY <2>1, <2>2, <2>3
<1>15. CASE FinalReport
  BY <1>15 DEF FinalReport
<1>16. CASE PhaseStep
  BY <1>16 DEF PhaseStep
<1>17. CASE PhaseExits
  BY <1>17 DEF PhaseExits
<1>18. CASE WorkerExits
  BY <1>18 DEF WorkerExits
<1>19. CASE KillPhase
  BY <1>19 DEF KillPhase
<1>20. CASE Tick
  BY <1>20 DEF Tick
<1>21. CASE OtherGate
  BY <1>21 DEF OtherGate
<1>22. CASE Tamper
  BY <1>22 DEF Tamper
<1>23. CASE UNCHANGED gateVars
  BY <1>23 DEF gateVars
<1> QED
  BY <1>2, <1>3, <1>4, <1>5, <1>6, <1>7, <1>8, <1>9, <1>10, <1>11, <1>12, <1>13, <1>14,
     <1>15, <1>16, <1>17, <1>18, <1>19, <1>20, <1>21, <1>22, <1>23 DEF GateNext, GateStep

(* One capture of a judged campaign and the other of its pair.               *)
Earned(runs, i) ==
    /\ runs[i].sha256.status = "complete"
    /\ \A id \in DOMAIN runs[i].load_sha256.blocks_per_worker :
           runs[i].load_sha256.blocks_per_worker[id] > 0
    /\ \E j \in DOMAIN runs \ {i} :
           /\ Key(runs[j]) = Key(runs[i])
           /\ runs[j].sha256.wire # runs[i].sha256.wire
           /\ Survivors(runs[j].sha256) = Survivors(runs[i].sha256)

LEMMA ReportEarns ==
  ASSUME NEW manifest, NEW cases, Report(manifest, cases).latency_gate_pass
  PROVE  manifest.mode = "acceptance" /\ \A i \in DOMAIN manifest.runs : Earned(manifest.runs, i)
<1> DEFINE runs == manifest.runs
<1>1. /\ Judgeable(manifest, cases)
      /\ manifest.mode = "acceptance"
      /\ \A group \in Groups(runs) : BudgetsPass(OnWire(runs, group, "current-ipc"),
                                                 OnWire(runs, group, "9p2000.L"))
  BY DEF Report, Refused
<1> SUFFICES ASSUME NEW i \in DOMAIN runs PROVE Earned(runs, i)
  BY <1>1
<1> DEFINE group == {k \in DOMAIN runs : Key(runs[k]) = Key(runs[i])}
<1>2. group \in Groups(runs) /\ i \in group
  BY DEF Groups
<1>3. PairAlternates(runs, group)
  BY <1>1, <1>2 DEF Judgeable, PairCompares
<1>4. PICK a, b : /\ group = {a, b}
                  /\ runs[a].sha256.wire = "current-ipc"
                  /\ runs[b].sha256.wire = "9p2000.L"
                  /\ OnWire(runs, group, "current-ipc") = runs[a].sha256
                  /\ OnWire(runs, group, "9p2000.L") = runs[b].sha256
  BY <1>3, PairHasBothWires
<1>5. BudgetsPass(runs[a].sha256, runs[b].sha256)
  BY <1>1, <1>2, <1>4
<1>6. /\ runs[a].sha256.status = "complete" /\ runs[b].sha256.status = "complete"
      /\ Survivors(runs[a].sha256) = Survivors(runs[b].sha256)
  BY <1>5 DEF BudgetsPass, NoFailedWork, SameSurvivors
<1>7. \A id \in DOMAIN runs[i].load_sha256.blocks_per_worker :
        runs[i].load_sha256.blocks_per_worker[id] > 0
  BY <1>1 DEF Judgeable, Readable, ValidLoad
<1>8. /\ a \in DOMAIN runs /\ b \in DOMAIN runs
      /\ Key(runs[a]) = Key(runs[i]) /\ Key(runs[b]) = Key(runs[i])
  BY <1>4
<1>9. runs[a].sha256.wire # runs[b].sha256.wire
  BY <1>4
<1>10. CASE i = a
  BY <1>6, <1>7, <1>8, <1>9, <1>10 DEF Earned
<1>11. CASE i = b
  BY <1>6, <1>7, <1>8, <1>9, <1>11 DEF Earned
<1> QED
  BY <1>2, <1>4, <1>10, <1>11

(* The latency gate passes for an acceptance campaign only, when each update *)
(* that one wire answered the other answered too, none failed and the load   *)
(* made progress: for any conditions, pairs, budgets and captures.           *)
THEOREM GatePass == GateSpec => []GatePassIsEarned
<1>1. GateInit => MeasureInv
  BY ShapeInit DEF GateInit, MeasureInv
<1>2. MeasureInv => GatePassIsEarned
  <2> SUFFICES ASSUME MeasureInv, disk.measurement.latency_gate_pass
               PROVE  /\ gate.command.measure = "acceptance"
                      /\ \A i \in DOMAIN disk.manifest.runs : Earned(disk.manifest.runs, i)
    BY DEF GatePassIsEarned, Earned
  <2>1. Report(Manifest, disk.cases).latency_gate_pass
    BY DEF MeasureInv, Refused
  <2> QED
    BY <2>1, ReportEarns DEF Manifest
<1> QED
  BY <1>1, <1>2, MeasureStep, PTL DEF GateSpec

-----------------------------------------------------------------------------
(* The nearest rank: the least position that has "percent" of the values at  *)
(* or below it, always one of the positions there are.                       *)
THEOREM NearestRank ==
  ASSUME NEW size \in Nat \ {0}, NEW percent \in 1..100
  PROVE  /\ Rank(size, percent) \in 1..size
         /\ 100 * Rank(size, percent) >= size * percent
         /\ 100 * (Rank(size, percent) - 1) < size * percent
<1> DEFINE work == size * percent
<1>1. work \in Nat /\ work >= 1 /\ work <= 100 * size
  OBVIOUS
<1>2. Rank(size, percent) = (work + 99) \div 100
  BY DEF Rank
<1> HIDE DEF work
<1>3. Rank(size, percent) \in Int /\ 100 * Rank(size, percent) <= work + 99
        /\ work + 99 < 100 * Rank(size, percent) + 100
  BY <1>1, <1>2
<1>4. /\ Rank(size, percent) \in 1..size
      /\ 100 * Rank(size, percent) >= work
      /\ 100 * (Rank(size, percent) - 1) < work
  BY <1>1, <1>3
<1> QED
  BY <1>4 DEF work

-----------------------------------------------------------------------------
(* The plan is executed in order.                                            *)
InPhases == gate.at \in {"next", "launch", "running", "judge", "after"}

Planned == Plan(gate.command.measure)
Done == Len(Planned) - Len(gate.todo)

(* What the first n items of the plan leave in the report when they pass.    *)
AllPassed(n) == [i \in 1..n |-> Passed(Planned[i])]

PassedInFull ==
    [i \in {j \in DOMAIN Planned : Planned[j].judge # "campaign"} |-> Passed(Planned[i])]

(* What is left to do is the end of the plan, and the phases recorded are    *)
(* the items before it, with the current one once it was judged.             *)
InOrder ==
    /\ ~gate.error
    /\ IsSeq(gate.todo) /\ Done \in 0..Len(Planned)
    /\ \A i \in 1..Len(gate.todo) : gate.todo[i] = Planned[Done + i]
    /\ \A i \in 1..Done : Planned[i].judge # "campaign"
    /\ gate.phases = AllPassed(IF gate.at = "after" THEN Done + 1 ELSE Done)
    /\ gate.at # "next" => gate.todo # <<>> /\ Phase.judge # "campaign"

ProgressInv ==
    /\ StatusInv
    /\ gate.command \in Commands
    /\ ~InPhases /\ gate.at \notin {"final", "exited"} => gate.phases = <<>> /\ ~gate.error
    /\ InPhases => InOrder
    /\ gate.at = "final" /\ ~gate.error => gate.phases = PassedInFull
    /\ gate.exit = "pass" => disk.report.phases = PassedInFull

LEMMA PlannedIsKnown ==
  ASSUME gate.command \in Commands
  PROVE  PlanKnown(gate.command.measure, Planned)
BY PlanIsKnown, PlanAssumption DEF Planned

LEMMA TodoMoves ==
  ASSUME NEW todo, IsSeq(todo), todo # <<>>
  PROVE  /\ Head(todo) = todo[1] /\ 1 \in 1..Len(todo)
         /\ IsSeq(Tail(todo)) /\ Len(Tail(todo)) = Len(todo) - 1
         /\ \A i \in 1..Len(Tail(todo)) : Tail(todo)[i] = todo[i + 1]
<1>1. todo \in Seq(RangeOf(todo))
  BY DEF IsSeq
<1>2. Tail(todo) \in Seq(RangeOf(todo))
  BY <1>1
<1>3. IsSeq(Tail(todo))
  BY <1>2, AnySeqIsSeq
<1> QED
  BY <1>1, <1>3

LEMMA OneMorePassed ==
  ASSUME NEW n \in Nat
  PROVE  Append(AllPassed(n), Passed(Planned[n + 1])) = AllPassed(n + 1)
<1> DEFINE S == {Passed(Planned[i]) : i \in 1..n + 1}
           s == AllPassed(n)
           e == Passed(Planned[n + 1])
<1>1. s \in [1..n -> S] /\ e \in S
  BY DEF AllPassed
<1>2. s \in Seq(S) /\ Len(s) = n
  <2>1. s \in Seq(S)
    BY <1>1
  <2> QED
    BY <1>1, <2>1
<1>3. \A i \in 1..n : s[i] = Passed(Planned[i])
  BY DEF AllPassed
<1> HIDE DEF S, s, e
<1>4. /\ Append(s, e) \in Seq(S) /\ Len(Append(s, e)) = n + 1
      /\ \A i \in 1..n : Append(s, e)[i] = s[i]
      /\ Append(s, e)[n + 1] = e
  BY <1>1, <1>2
<1>5. Append(s, e) = [i \in 1..n + 1 |-> Append(s, e)[i]]
  <2>1. \A t \in Seq(S) : t = [i \in 1..Len(t) |-> t[i]]
    OBVIOUS
  <2> QED
    BY <1>4, <2>1
<1>6. \A i \in 1..n + 1 : Append(s, e)[i] = Passed(Planned[i])
  BY <1>3, <1>4 DEF e
<1>7. [i \in 1..n + 1 |-> Append(s, e)[i]] = [i \in 1..n + 1 |-> Passed(Planned[i])]
  BY <1>6
<1> QED
  BY <1>5, <1>7 DEF AllPassed, s, e

(* The item at hand and what follows it.                                     *)
LEMMA AtHand ==
  ASSUME ProgressInv, InPhases, gate.todo # <<>>
  PROVE  /\ Done + 1 \in 1..Len(Planned) /\ Phase = Planned[Done + 1]
         /\ IsSeq(Tail(gate.todo)) /\ Len(Tail(gate.todo)) = Len(gate.todo) - 1
         /\ \A i \in 1..Len(Tail(gate.todo)) : Tail(gate.todo)[i] = Planned[Done + 1 + i]
         /\ Len(gate.todo) \in Nat /\ Done \in Nat
<1>1. IsSeq(gate.todo) /\ Done \in 0..Len(Planned) /\ IsSeq(Planned)
      /\ \A i \in 1..Len(gate.todo) : gate.todo[i] = Planned[Done + i]
  BY PlannedIsKnown DEF ProgressInv, InOrder, PlanKnown
<1>2. Len(gate.todo) \in Nat /\ Len(Planned) \in Nat
  BY <1>1 DEF IsSeq
<1>3. /\ Head(gate.todo) = gate.todo[1] /\ 1 \in 1..Len(gate.todo)
      /\ IsSeq(Tail(gate.todo)) /\ Len(Tail(gate.todo)) = Len(gate.todo) - 1
      /\ \A i \in 1..Len(Tail(gate.todo)) : Tail(gate.todo)[i] = gate.todo[i + 1]
  BY <1>1, TodoMoves
<1>4. \A i \in 1..Len(Tail(gate.todo)) : i + 1 \in 1..Len(gate.todo) /\ Done + (i + 1) = Done + 1 + i
  BY <1>1, <1>2, <1>3
<1>5. Done + 1 \in 1..Len(Planned) /\ Phase = Planned[Done + 1]
  <2>1. Done + 1 \in 1..Len(Planned)
    BY <1>1, <1>2, <1>3 DEF Done
  <2>2. Head(gate.todo) = Planned[Done + 1]
    BY <1>1, <1>3
  <2> QED
    BY <2>1, <2>2 DEF Phase
<1> QED
  BY <1>1, <1>2, <1>3, <1>4, <1>5

(* With the last phase passed, the report is the plan's; a campaign's own    *)
(* item is the last of all.                                                  *)
LEMMA AllDone ==
  ASSUME ProgressInv, gate.at = "next",
         gate.todo = <<>> \/ Phase.judge = "campaign"
  PROVE  gate.phases = PassedInFull
<1>1. InPhases /\ InOrder /\ PlanKnown(gate.command.measure, Planned)
  BY PlannedIsKnown DEF ProgressInv, InPhases
<1>2. IsSeq(Planned) /\ Len(Planned) \in Nat /\ DOMAIN Planned = 1..Len(Planned)
  BY <1>1 DEF PlanKnown, IsSeq
<1>3. gate.phases = AllPassed(Done) /\ \A i \in 1..Done : Planned[i].judge # "campaign"
  BY <1>1 DEF InOrder
<1>4. CASE gate.todo = <<>>
  <2>1. Done = Len(Planned)
    BY <1>2, <1>4 DEF Done
  <2>2. {j \in DOMAIN Planned : Planned[j].judge # "campaign"} = 1..Done
    BY <1>2, <1>3, <2>1
  <2> QED
    BY <1>3, <2>2 DEF AllPassed, PassedInFull
<1>5. CASE gate.todo # <<>> /\ Phase.judge = "campaign"
  <2>1. Done + 1 \in 1..Len(Planned) /\ Phase = Planned[Done + 1] /\ Done \in Nat
    BY <1>1, <1>5, AtHand
  <2>2. Done + 1 = Len(Planned)
    BY <1>1, <1>5, <2>1 DEF PlanKnown
  <2>3. {j \in DOMAIN Planned : Planned[j].judge # "campaign"} = 1..Done
    BY <1>2, <1>3, <1>5, <2>1, <2>2
  <2> QED
    BY <1>3, <2>3 DEF AllPassed, PassedInFull
<1> QED
  BY <1>4, <1>5

(* A step that neither finishes nor records a phase.                         *)
LEMMA ProgressKept ==
  ASSUME ProgressInv, StatusInv', InPhases, InPhases',
         gate'.command = gate.command, gate'.todo = gate.todo,
         gate'.phases = gate.phases, gate'.error = gate.error, gate'.exit = gate.exit,
         gate'.at = "after" <=> gate.at = "after",
         gate'.at # "next" => gate.todo # <<>> /\ Phase.judge # "campaign"
  PROVE  ProgressInv'
<1>1. Planned' = Planned /\ Done' = Done /\ Phase' = Phase
  BY DEF Planned, Done, Phase
<1>2. InOrder'
  <2>1. InOrder
    BY DEF ProgressInv
  <2> QED
    BY <1>1, <2>1 DEF InOrder, AllPassed
<1>3. gate'.exit # "pass" /\ gate'.at # "final" /\ gate'.at # "exited"
  BY DEF InPhases, ProgressInv, StatusInv, At, Exited
<1> QED
  BY <1>2, <1>3 DEF ProgressInv, InPhases

(* A gate that ends its phases, with an error or with the whole plan passed, *)
(* or that ends before it reports a verdict.                                 *)
LEMMA ProgressConcludes ==
  ASSUME ProgressInv, StatusInv', gate'.at = "final",
         gate'.command = gate.command, gate'.exit = gate.exit,
         gate.at \notin {"final", "exited"},
         gate'.error \/ gate'.phases = PassedInFull
  PROVE  ProgressInv'
<1>1. PassedInFull' = PassedInFull
  BY DEF PassedInFull, Planned
<1>2. gate'.exit # "pass"
  BY DEF ProgressInv, StatusInv, At, Exited
<1> QED
  BY <1>1, <1>2 DEF ProgressInv, InPhases

LEMMA ProgressEnds ==
  ASSUME ProgressInv, StatusInv', gate'.at = "exited", gate'.exit = "fail",
         gate'.command = gate.command
  PROVE  ProgressInv'
BY DEF ProgressInv, InPhases

(* The current item is done.                                                 *)
LEMMA ProgressMoves ==
  ASSUME ProgressInv, StatusInv', InPhases, gate.todo # <<>>, Phase.judge # "campaign",
         gate'.at = "next", gate'.todo = Tail(gate.todo), ~gate'.error,
         gate'.command = gate.command, gate'.exit = gate.exit,
         gate'.phases = AllPassed(Done + 1)
  PROVE  ProgressInv'
<1>1. Planned' = Planned /\ Done' = Len(Planned) - Len(Tail(gate.todo))
  BY DEF Planned, Done
<1>2. /\ Done + 1 \in 1..Len(Planned) /\ Phase = Planned[Done + 1]
      /\ IsSeq(Tail(gate.todo)) /\ Len(Tail(gate.todo)) = Len(gate.todo) - 1
      /\ \A i \in 1..Len(Tail(gate.todo)) : Tail(gate.todo)[i] = Planned[Done + 1 + i]
      /\ Len(gate.todo) \in Nat /\ Done \in Nat
  BY AtHand
<1>3. IsSeq(Planned) /\ Len(Planned) \in Nat
  BY PlannedIsKnown DEF ProgressInv, PlanKnown, IsSeq
<1>4. Done' = Done + 1 /\ Done' \in 0..Len(Planned)
  <2>1. Done = Len(Planned) - Len(gate.todo)
    BY DEF Done
  <2>2. Done' = Len(Planned) - (Len(gate.todo) - 1)
    BY <1>1, <1>2
  <2>3. Done' = Done + 1
    BY <1>2, <1>3, <2>1, <2>2
  <2> QED
    BY <1>2, <1>3, <2>3
<1>5. \A i \in 1..Done' : Planned[i].judge # "campaign"
  <2>1. \A i \in 1..Done : Planned[i].judge # "campaign"
    BY DEF ProgressInv, InOrder
  <2>2. \A i \in 1..Done + 1 : i \in 1..Done \/ i = Done + 1
    BY <1>2
  <2>3. Planned[Done + 1].judge # "campaign"
    BY <1>2
  <2> HIDE DEF Done, Planned
  <2> QED
    BY <1>4, <2>1, <2>2, <2>3
<1>6. gate'.phases = [i \in 1..Done' |-> Passed(Planned'[i])]
  BY <1>1, <1>4 DEF AllPassed
<1>7. InOrder'
  <2>1. \A i \in 1..Len(gate'.todo) : gate'.todo[i] = Planned'[Done' + i]
    BY <1>1, <1>2, <1>4
  <2>2. \A i \in 1..Done' : Planned'[i].judge # "campaign"
    BY <1>1, <1>5
  <2> QED
    BY <1>1, <1>2, <1>4, <1>6, <2>1, <2>2 DEF InOrder, AllPassed
<1>8. gate'.exit # "pass"
  BY DEF ProgressInv, StatusInv, At, Exited, InPhases
<1> QED
  BY <1>7, <1>8 DEF ProgressInv, InPhases

LEMMA ProgressFails ==
  ASSUME ProgressInv, StatusInv', Shape, Exit("fail")
  PROVE  ProgressInv'
<1>1. gate'.at = "exited" /\ gate'.exit = "fail" /\ gate'.command = gate.command
  BY DEF Exit, Shape
<1> QED
  BY <1>1, ProgressEnds

(* A step before the phases.                                                 *)
LEMMA ProgressBefore ==
  ASSUME ProgressInv, StatusInv', ~InPhases, gate.at \notin {"final", "exited"},
         gate'.at \in {"inputs", "lock", "evidence", "overlay", "identity", "report"},
         gate'.command = gate.command, gate'.exit = gate.exit,
         gate'.phases = gate.phases, gate'.error = gate.error
  PROVE  ProgressInv'
<1>1. gate'.exit # "pass"
  BY DEF ProgressInv, StatusInv, At, Exited
<1> QED
  BY <1>1 DEF ProgressInv, InPhases

(* The current item was judged and recorded as passed.                       *)
LEMMA ProgressRecords ==
  ASSUME ProgressInv, StatusInv', InPhases, gate.at # "after", gate.todo # <<>>,
         Phase.judge # "campaign", gate'.at = "after", gate'.todo = gate.todo, ~gate'.error,
         gate'.command = gate.command, gate'.exit = gate.exit,
         gate'.phases = AllPassed(Done + 1)
  PROVE  ProgressInv'
<1>1. Planned' = Planned /\ Done' = Done /\ Phase' = Phase
  BY DEF Planned, Done, Phase
<1>2. InOrder'
  <2>1. InOrder
    BY DEF ProgressInv
  <2> QED
    BY <1>1, <2>1 DEF InOrder, AllPassed
<1>3. gate'.exit # "pass"
  BY DEF InPhases, ProgressInv, StatusInv, At, Exited
<1> QED
  BY <1>2, <1>3 DEF ProgressInv, InPhases

LEMMA RecordedPassed ==
  ASSUME ProgressInv, InPhases, gate.at # "after", gate.todo # <<>>, NEW passed, passed = TRUE
  PROVE  Append(gate.phases, Outcome(Phase, passed)) = AllPassed(Done + 1)
<1>1. gate.phases = AllPassed(Done)
  BY DEF ProgressInv, InOrder
<1>2. Done \in Nat /\ Phase = Planned[Done + 1]
  BY AtHand
<1>3. Outcome(Phase, passed) = Passed(Planned[Done + 1])
  BY <1>2 DEF Passed
<1> QED
  BY <1>1, <1>2, <1>3, OneMorePassed

LEMMA ProgressStep == ProgressInv /\ [GateNext]_gateVars => ProgressInv'
<1> SUFFICES ASSUME ProgressInv, [GateNext]_gateVars PROVE ProgressInv'
  OBVIOUS
<1>1. StatusInv' /\ Shape /\ Shape'
  BY StatusStep, ShapeStep DEF ProgressInv, StatusInv
<1>2. /\ GateFields \subseteq DOMAIN gate /\ DiskFields \subseteq DOMAIN disk
      /\ GateFields \subseteq DOMAIN gate'
  BY <1>1 DEF Shape
<1> USE <1>1, <1>2 DEF At, Goto, Conclude, PhaseDone, GateFields, DiskFields
<1>3. CASE ParseOptions
  <2>1. ~InPhases /\ gate.at \notin {"final", "exited"}
    BY <1>3 DEF ParseOptions, InPhases
  <2>2. \/ /\ gate'.at = "inputs" /\ gate'.exit = gate.exit
           /\ gate'.phases = gate.phases /\ gate'.error = gate.error
           /\ gate'.command = gate.command
        \/ Exit("fail")
    BY <1>3 DEF ParseOptions
  <2> QED
    BY <2>1, <2>2, ProgressBefore, ProgressFails
<1>4. CASE CheckInputs
  <2>1. ~InPhases /\ gate.at \notin {"final", "exited"}
    BY <1>4 DEF CheckInputs, InPhases
  <2>2. \/ /\ gate'.at = "lock" /\ gate'.exit = gate.exit
           /\ gate'.phases = gate.phases /\ gate'.error = gate.error
           /\ gate'.command = gate.command
        \/ Exit("fail")
    BY <1>4 DEF CheckInputs
  <2> QED
    BY <2>1, <2>2, ProgressBefore, ProgressFails
<1>5. CASE TakeLock
  <2>1. ~InPhases /\ gate.at \notin {"final", "exited"}
    BY <1>5 DEF TakeLock, InPhases
  <2>2. \/ /\ gate'.at = "evidence" /\ gate'.exit = gate.exit
           /\ gate'.phases = gate.phases /\ gate'.error = gate.error
           /\ gate'.command = gate.command
        \/ Exit("fail")
    BY <1>5 DEF TakeLock
  <2> QED
    BY <2>1, <2>2, ProgressBefore, ProgressFails
<1>6. CASE MakeEvidence
  <2>1. ~InPhases /\ gate.at \notin {"final", "exited"}
    BY <1>6 DEF MakeEvidence, InPhases
  <2>2. \/ /\ gate'.at = "overlay" /\ gate'.exit = gate.exit
           /\ gate'.phases = gate.phases /\ gate'.error = gate.error
           /\ gate'.command = gate.command
        \/ Exit("fail")
    BY <1>6 DEF MakeEvidence
  <2> QED
    BY <2>1, <2>2, ProgressBefore, ProgressFails
<1>7. CASE PrepareOverlay
  <2>1. ~InPhases /\ gate.at \notin {"final", "exited"}
    BY <1>7 DEF PrepareOverlay, InPhases
  <2>2. \/ /\ gate'.at = "identity" /\ gate'.exit = gate.exit
           /\ gate'.phases = gate.phases /\ gate'.error = gate.error
           /\ gate'.command = gate.command
        \/ Exit("fail")
    BY <1>7 DEF PrepareOverlay
  <2> QED
    BY <2>1, <2>2, ProgressBefore, ProgressFails
<1>8. CASE IdentifyBefore
  <2>1. ~InPhases /\ gate.at \notin {"final", "exited"}
    BY <1>8 DEF IdentifyBefore, InPhases
  <2>2. \/ /\ gate'.at = "report" /\ gate'.exit = gate.exit
           /\ gate'.phases = gate.phases /\ gate'.error = gate.error
           /\ gate'.command = gate.command
        \/ Exit("fail")
    BY <1>8 DEF IdentifyBefore
  <2> QED
    BY <2>1, <2>2, ProgressBefore, ProgressFails
<1>9. CASE ReportRunning
  <2>1. CASE Exit("fail")
    BY <2>1, ProgressFails
  <2>2. CASE gate' = [gate EXCEPT !.at = "next", !.todo = Planned]
    <3>1. IsSeq(Planned) /\ Len(Planned) \in Nat
      BY PlannedIsKnown DEF ProgressInv, PlanKnown, IsSeq
    <3>2. Planned' = Planned /\ Done' = 0
      BY <2>2, <3>1 DEF Planned, Done
    <3>3. gate'.phases = <<>> /\ ~gate'.error /\ gate'.exit # "pass" /\ gate'.command \in Commands
      BY <1>9, <2>2 DEF ReportRunning, ProgressInv, StatusInv, InPhases, Exited
    <3>4. AllPassed(0)' = <<>>
      BY DEF AllPassed
    <3>5. InOrder'
      BY <2>2, <3>1, <3>2, <3>3, <3>4 DEF InOrder
    <3> QED
      BY <2>2, <3>3, <3>5 DEF ProgressInv, InPhases
  <2> QED
    BY <1>9, <2>1, <2>2 DEF ReportRunning, Planned
<1>10. CASE TakePhase
  <2>1. gate.at = "next" /\ InPhases
    BY <1>10 DEF TakePhase, InPhases
  <2>2. CASE gate.todo = <<>> /\ Conclude(FALSE)
    <3>1. gate.phases = PassedInFull
      BY <2>1, <2>2, AllDone
    <3> QED
      BY <2>1, <2>2, <3>1, ProgressConcludes
  <2>3. CASE Conclude(TRUE)
    BY <2>1, <2>3, ProgressConcludes
  <2>4. CASE gate.todo # <<>> /\ Phase.judge # "campaign" /\ Goto("launch")
    BY <2>1, <2>4, ProgressKept DEF InPhases
  <2> QED
    BY <1>10, <2>2, <2>3, <2>4 DEF TakePhase
<1>11. CASE LaunchPhase
  <2>1. /\ gate.at = "launch" /\ gate'.at \in {"judge", "running"}
        /\ gate'.todo = gate.todo /\ gate'.phases = gate.phases /\ gate'.error = gate.error
        /\ gate'.exit = gate.exit /\ gate'.command = gate.command
    BY <1>11 DEF LaunchPhase
  <2>2. InPhases /\ InPhases' /\ gate.todo # <<>> /\ Phase.judge # "campaign"
    BY <2>1 DEF InPhases, ProgressInv, InOrder
  <2> QED
    BY <2>1, <2>2, ProgressKept
<1>12. CASE JudgePhase
  <2> DEFINE passed == gate.success /\ gate.log.readable /\ Judgment(Phase, gate.log)
             phases == Append(gate.phases, Outcome(Phase, passed))
  <2>1. gate.at = "judge" /\ InPhases /\ gate.todo # <<>> /\ Phase.judge # "campaign"
    BY <1>12 DEF JudgePhase, InPhases, ProgressInv, InOrder
  <2>2. CASE passed /\ gate' = [[gate EXCEPT !.phases = phases] EXCEPT !.at = "after"]
    <3>1. passed = TRUE
      BY <2>2
    <3> HIDE DEF passed
    <3>2. phases = AllPassed(Done + 1)
      BY <2>1, <3>1, RecordedPassed
    <3>3. ~gate.error
      BY <2>1 DEF ProgressInv, InOrder
    <3> HIDE DEF phases
    <3>4. /\ gate'.at = "after" /\ gate'.todo = gate.todo /\ gate'.error = gate.error
          /\ gate'.command = gate.command /\ gate'.exit = gate.exit /\ gate'.phases = phases
      BY <2>2
    <3> QED
      BY <2>1, <3>2, <3>3, <3>4, ProgressRecords
  <2>3. CASE gate' = [[gate EXCEPT !.phases = phases] EXCEPT !.at = "final", !.error = TRUE]
    <3> HIDE DEF passed, phases
    <3> QED
      BY <2>1, <2>3, ProgressConcludes
  <2> QED
    BY <1>12, <2>2, <2>3 DEF JudgePhase
<1>13. CASE AfterPhase
  <2>1. gate.at = "after" /\ InPhases /\ gate.todo # <<>> /\ Phase.judge # "campaign"
        /\ ~gate.error /\ gate.phases = AllPassed(Done + 1)
    BY <1>13 DEF AfterPhase, InPhases, ProgressInv, InOrder
  <2>2. CASE Conclude(TRUE)
    BY <2>1, <2>2, ProgressConcludes
  <2>3. CASE PhaseDone
    BY <2>1, <2>3, ProgressMoves
  <2>4. CASE gate' = [gate EXCEPT !.at = "next", !.todo = Tail(@),
                                  !.pins[Phase.family] = Executable]
    <3>1. /\ gate'.at = "next" /\ gate'.todo = Tail(gate.todo) /\ gate'.error = gate.error
          /\ gate'.command = gate.command /\ gate'.exit = gate.exit /\ gate'.phases = gate.phases
      BY <2>4
    <3> QED
      BY <2>1, <3>1, ProgressMoves
  <2> QED
    BY <1>13, <2>2, <2>3, <2>4 DEF AfterPhase
<1>14. CASE ConcludeCase
  <2> DEFINE files == IF Work.ordinal \in DOMAIN disk.cases THEN disk.cases[Work.ordinal]
                      ELSE [capture |-> <<>>, load |-> <<>>, environment |-> <<>>]
             result == gate.success /\ gate.log.readable /\ RequireExactlyOne(gate.log)
             captured == /\ Present(files) /\ Decodes(files.capture[1])
                         /\ CommandedWorkload(files.capture[1], Work)
             passed == result /\ captured /\ Executable = gate.pins[Phase.family]
             phases == Append(gate.phases, Outcome(Phase, passed))
  <2>1. gate.at = "judge" /\ InPhases /\ gate.todo # <<>> /\ Phase.judge # "campaign"
    BY <1>14 DEF ConcludeCase, InPhases, ProgressInv, InOrder
  <2>2. \/ passed /\ gate' = [gate EXCEPT !.phases = phases, !.at = "next", !.todo = Tail(@)]
        \/ gate' = [gate EXCEPT !.phases = phases, !.at = "final", !.error = TRUE]
    BY <1>14 DEF ConcludeCase
  <2> HIDE DEF files
  <2>3. passed \in BOOLEAN
    OBVIOUS
  <2> HIDE DEF passed
  <2>4. CASE passed /\ gate' = [gate EXCEPT !.phases = phases, !.at = "next", !.todo = Tail(@)]
    <3>1. passed = TRUE
      BY <2>3, <2>4
    <3>2. phases = AllPassed(Done + 1)
      BY <2>1, <3>1, RecordedPassed
    <3>3. ~gate.error
      BY <2>1 DEF ProgressInv, InOrder
    <3> HIDE DEF phases
    <3>4. /\ gate'.at = "next" /\ gate'.todo = Tail(gate.todo) /\ gate'.error = gate.error
          /\ gate'.command = gate.command /\ gate'.exit = gate.exit /\ gate'.phases = phases
      BY <2>4
    <3> QED
      BY <2>1, <3>2, <3>3, <3>4, ProgressMoves
  <2>5. CASE gate' = [gate EXCEPT !.phases = phases, !.at = "final", !.error = TRUE]
    <3> HIDE DEF phases
    <3> QED
      BY <2>1, <2>5, ProgressConcludes
  <2> QED
    BY <2>2, <2>4, <2>5
<1>15. CASE JudgeCampaign
  <2>1. /\ gate.at = "next" /\ Phase.judge = "campaign"
        /\ gate'.at = "final" /\ gate'.exit = gate.exit /\ gate'.command = gate.command
        /\ gate'.phases = gate.phases
    BY <1>15 DEF JudgeCampaign
  <2>2. gate.phases = PassedInFull
    BY <2>1, AllDone
  <2> QED
    BY <2>1, <2>2, ProgressConcludes
<1>16. CASE FinalReport
  <2>1. CASE Exit("fail")
    BY <2>1, ProgressFails
  <2>2. CASE ~gate.error /\ WriteReport("pass", gate.phases) /\ Exit("pass")
    <3>1. gate.phases = PassedInFull
      BY <1>16, <2>2 DEF FinalReport, ProgressInv
    <3>2. disk'.report.phases = gate.phases
      BY <2>2 DEF WriteReport, Reported
    <3>3. gate'.at = "exited" /\ gate'.command = gate.command
      BY <2>2 DEF Exit
    <3>4. PassedInFull' = PassedInFull
      BY <3>3 DEF PassedInFull, Planned
    <3> QED
      BY <3>1, <3>2, <3>3, <3>4 DEF ProgressInv, InPhases
  <2>3. \/ Exit("fail")
        \/ \E coherent \in {Coherent, FALSE} :
              LET result == IF ~gate.error /\ coherent THEN "pass" ELSE "fail"
              IN  WriteReport(result, gate.phases) /\ Exit(result)
    BY <1>16 DEF FinalReport
  <2> QED
    BY <2>1, <2>2, <2>3
<1>17. CASE UNCHANGED <<gate, disk>>
  <2>1. Planned' = Planned /\ Done' = Done /\ Phase' = Phase /\ PassedInFull' = PassedInFull
    BY <1>17 DEF Planned, Done, Phase, PassedInFull
  <2> QED
    BY <1>17, <2>1 DEF ProgressInv, InPhases, InOrder, AllPassed
<1>18. CASE PhaseExits
  <2>1. /\ gate.at = "running" /\ gate'.at = "judge"
        /\ gate'.todo = gate.todo /\ gate'.phases = gate.phases /\ gate'.error = gate.error
        /\ gate'.exit = gate.exit /\ gate'.command = gate.command
    BY <1>18 DEF PhaseExits
  <2>2. InPhases /\ InPhases' /\ gate.todo # <<>> /\ Phase.judge # "campaign"
    BY <2>1 DEF InPhases, ProgressInv, InOrder
  <2> QED
    BY <2>1, <2>2, ProgressKept
<1>19. CASE WorkerExits
  <2>1. /\ gate.at = "running" /\ gate'.at = "judge"
        /\ gate'.todo = gate.todo /\ gate'.phases = gate.phases /\ gate'.error = gate.error
        /\ gate'.exit = gate.exit /\ gate'.command = gate.command
    BY <1>19 DEF WorkerExits
  <2>2. InPhases /\ InPhases' /\ gate.todo # <<>> /\ Phase.judge # "campaign"
    BY <2>1 DEF InPhases, ProgressInv, InOrder
  <2> QED
    BY <2>1, <2>2, ProgressKept
<1>20. CASE KillPhase
  <2>1. /\ gate.at = "running" /\ gate'.at = "judge"
        /\ gate'.todo = gate.todo /\ gate'.phases = gate.phases /\ gate'.error = gate.error
        /\ gate'.exit = gate.exit /\ gate'.command = gate.command
    BY <1>20 DEF KillPhase
  <2>2. InPhases /\ InPhases' /\ gate.todo # <<>> /\ Phase.judge # "campaign"
    BY <2>1 DEF InPhases, ProgressInv, InOrder
  <2> QED
    BY <2>1, <2>2, ProgressKept
<1>21. CASE Tick
  <2>1. /\ gate'.at = gate.at /\ gate'.todo = gate.todo /\ gate'.phases = gate.phases
        /\ gate'.error = gate.error /\ gate'.exit = gate.exit /\ gate'.command = gate.command
        /\ disk' = disk
    BY <1>21 DEF Tick
  <2>2. Planned' = Planned /\ Done' = Done /\ Phase' = Phase
    BY <2>1 DEF Planned, Done, Phase
  <2> QED
    BY <2>1, <2>2 DEF ProgressInv, InPhases, InOrder, AllPassed, PassedInFull
<1> QED
  BY <1>3, <1>4, <1>5, <1>6, <1>7, <1>8, <1>9, <1>10, <1>11, <1>12, <1>13, <1>14, <1>15,
     <1>16, <1>17, <1>18, <1>19, <1>20, <1>21
  DEF GateNext, GateStep, PhaseStep, OtherGate, Tamper, gateVars

LEMMA ProgressStart == GateInit => ProgressInv
<1> SUFFICES ASSUME GateInit PROVE ProgressInv
  OBVIOUS
<1>1. StatusInv
  BY ShapeInit DEF GateInit, StatusInv, At, Exited, ExitAgreesWithReport, Reported
<1> QED
  BY <1>1 DEF GateInit, ProgressInv, InPhases

(* The report a passed gate leaves behind names every phase of its plan but  *)
(* the campaign's own, in order, each passed: the plan of every command line *)
(* is executed from its first item to its last, none skipped, none twice.    *)
THEOREM ReportTells == GateSpec => []ReportTellsTheRun
<1>1. ProgressInv => ReportTellsTheRun
  BY DEF ProgressInv, StatusInv, ReportTellsTheRun, PassedInFull, Planned
<1> QED
  BY <1>1, ProgressStart, ProgressStep, PTL DEF GateSpec

-----------------------------------------------------------------------------
(* The captures of a campaign.                                               *)

(* A measurement that runs is asked what the campaign asks.                  *)
LEMMA PhaseIsWorkable ==
  ASSUME ProgressInv, InPhases, gate.todo # <<>>, Phase.judge = "measure"
  PROVE  /\ gate.command.measure \in DOMAIN Pairs
         /\ Done - 2 \in 1..CampaignCases(gate.command.measure)
         /\ Phase = Measurement(Done - 2, gate.command.measure)
         /\ Work = WorkOf(Done - 2, gate.command.measure)
         /\ Workable(Work, gate.command.measure)
<1> DEFINE measure == gate.command.measure
<1>1. Done + 1 \in 1..Len(Planned) /\ Phase = Planned[Done + 1] /\ Done \in Nat
  BY AtHand
<1>2. PlanKnown(measure, Planned)
  BY PlannedIsKnown DEF ProgressInv
<1>3. /\ measure \in DOMAIN Pairs /\ (Done + 1) - 3 \in 1..CampaignCases(measure)
      /\ Phase = Measurement((Done + 1) - 3, measure)
  BY <1>1, <1>2 DEF PlanKnown
<1>4. (Done + 1) - 3 = Done - 2
  BY <1>1
<1>5. Work = WorkOf(Done - 2, measure)
  BY <1>3, <1>4 DEF Work, Measurement
<1>6. Done - 2 \in Nat \ {0}
  BY <1>1, <1>3, <1>4
<1> QED
  BY <1>3, <1>4, <1>5, <1>6, WorkIsWorkable

CaptureInv == ProgressInv /\ DragInv

LEMMA CaptureStep == CaptureInv /\ [GateNext]_gateVars => CaptureInv'
<1> SUFFICES ASSUME CaptureInv, [GateNext]_gateVars PROVE DragInv'
  BY ProgressStep DEF CaptureInv
<1>1. CASE UNCHANGED drag
  BY <1>1 DEF CaptureInv, DragInv, Accounts, Custody, Identified, Unbroken, Verdict
<1>2. CASE drag' = NoDrag
  BY <1>2, NoDragInv
<1>3. CASE PhaseStep
  <2>1. Workable(Work, gate.command.measure)
    <3>1. gate.at = "running" /\ Phase.judge = "measure"
      BY <1>3 DEF PhaseStep, At
    <3>2. InPhases /\ gate.todo # <<>>
      BY <3>1 DEF CaptureInv, ProgressInv, InPhases, InOrder
    <3> QED
      BY <3>1, <3>2, PhaseIsWorkable DEF CaptureInv
  <2>2. CASE drag' = NewDrag(Work)
    BY <2>1, <2>2, NewDragInv DEF Workable
  <2>3. CASE DragStep(gate.executed.hagia = Frozen)
    BY <2>3, DragInvStep DEF CaptureInv
  <2> QED
    BY <1>1, <1>3, <2>2, <2>3
       DEF PhaseStep, WorkerStep, StartFixture, FixtureExits, WriteEnvironment, WriteLoad
<1> QED
  BY <1>1, <1>2, <1>3
     DEF GateNext, GateStep, ParseOptions, CheckInputs, TakeLock, MakeEvidence, PrepareOverlay,
         IdentifyBefore, ReportRunning, TakePhase, LaunchPhase, JudgePhase, AfterPhase,
         ConcludeCase, JudgeCampaign, FinalReport, NothingRuns, PhaseExits, WorkerExits,
         KillPhase, Tick, OtherGate, Tamper, gateVars

(* A capture that is wholly written is decoded exactly when no panic cut its *)
(* accounts: for any conditions, rates, number of updates, drain budget and  *)
(* number of mishaps, in any order.                                          *)
THEOREM Interrupted == GateSpec => []InterruptedIsRefused
<1>1. GateInit => CaptureInv
  BY ProgressStart, NoDragInv DEF GateInit, CaptureInv
<1>2. CaptureInv => InterruptedIsRefused
  <2> SUFFICES ASSUME CaptureInv, drag.file # <<>>, drag.file[1].whole
               PROVE  Decodes(drag.file[1]) <=> ~drag.interrupted
    BY DEF InterruptedIsRefused
  <2>1. drag.at \notin {"setup", "measuring", "writing"}
    BY DEF CaptureInv, DragInv
  <2> QED
    BY <2>1 DEF CaptureInv, DragInv, Verdict
<1> QED
  BY <1>1, <1>2, CaptureStep, PTL DEF GateSpec

-----------------------------------------------------------------------------
(* The executables of a gate that passed.                                    *)

(* A file that is replaced is never put back.                                *)
Built == {"built", "rebuilt"}

Files ==
    /\ world.hagia \in {Frozen, "rebuilt"}
    /\ DOMAIN world.tests = {BinaryOf[f] : f \in DOMAIN BinaryOf}
    /\ \A f \in DOMAIN BinaryOf : world.tests[BinaryOf[f]] \in Built

TestOf(family) == world.tests[BinaryOf[family]]

(* What was executed is no newer than what is there now.                     *)
Genuine(hagia) ==
    hagia \in {Frozen, "rebuilt"} /\ (hagia = "rebuilt" => world.hagia = "rebuilt")

RecordedHagia == gate.before.hagia_sha256

(* The phase executes, or passed its own part.                               *)
InRun ==
    \/ gate.at \in {"running", "after"}
    \/ gate.at = "judge" /\ gate.success

(* The executables that were listed, and the Hagia that was identified.      *)
Listed ==
    /\ DOMAIN gate.pins = DOMAIN BinaryOf
    /\ \A f \in DOMAIN BinaryOf :
           gate.pins[f] \in Built \cup {"unknown"}
               /\ (gate.pins[f] = "rebuilt" => TestOf(f) = "rebuilt")
    /\ gate.at \in {"report", "final"} \/ InPhases =>
           (RecordedHagia = "rebuilt" => world.hagia = "rebuilt")

(* A case is only taken when its executable is the listed one.               *)
Taken ==
    gate.at \in {"launch", "running", "judge", "after"} /\ Judged(Phase)
        => gate.pins[Phase.family] \in Built

(* What the phase executes, between the digests before and after it.         *)
Executing ==
    InRun =>
        /\ Genuine(gate.executed.hagia)
        /\ RecordedHagia = "rebuilt" => gate.executed.hagia = "rebuilt"
        /\ Judged(Phase) =>
               /\ gate.executed.tests \in Built
               /\ gate.executed.tests = "rebuilt" => TestOf(Phase.family) = "rebuilt"
               /\ gate.pins[Phase.family] = "rebuilt" => gate.executed.tests = "rebuilt"
               /\ gate.at # "running" /\ Phase.family = "session"
                     => gate.executed.hagia = Frozen

(* A case of the item ran with the given test executable.                    *)
RanWith(item, tests) ==
    /\ item.family = "session" => RecordedHagia # "rebuilt"
    /\ \E case \in ran :
          /\ case.item = item /\ case.tests = tests
          /\ case.hagia # {} /\ \A hagia \in case.hagia : Genuine(hagia)

RanPinned(item) == Judged(item) => RanWith(item, gate.pins[item.family])

Ran ==
    /\ InPhases => \A i \in 1..Done : RanPinned(Planned[i])
    /\ gate.at = "after" /\ Judged(Phase) => RanWith(Phase, gate.executed.tests)
    /\ gate.at = "final" /\ ~gate.error => \A i \in 1..Len(Planned) : RanPinned(Planned[i])

(* A worker passes only when its fixture did, which found the frozen Hagia.  *)
OwnCase ==
    IF gate.at = "running" /\ Phase.judge = "measure"
    THEN /\ {"at", "success"} \subseteq DOMAIN worker
         /\ worker.at = "passed" => worker.success
         /\ worker.success \/ drag.at \notin {"absent", "setup", "failed"}
               => gate.executed.hagia = Frozen
    ELSE drag.at = "absent"

BinaryInv ==
    /\ CaptureInv /\ Files /\ Listed /\ Taken /\ Executing /\ Ran /\ OwnCase
    /\ PassRanTheNamedBinaries

WorldKept ==
    /\ world.hagia = "rebuilt" => world'.hagia = "rebuilt"
    /\ \A f \in DOMAIN BinaryOf : TestOf(f) = "rebuilt" => TestOf(f)' = "rebuilt"

LEMMA FilesStep ==
  ASSUME Shape, Files, [GateNext]_gateVars
  PROVE  Files' /\ WorldKept
<1>1. CASE world'.hagia = world.hagia /\ world'.tests = world.tests
  BY <1>1 DEF Files, WorldKept, TestOf
<1>2. CASE Tamper
  <2>1. CASE world' = [world EXCEPT !.hagia = "rebuilt"]
    BY <2>1 DEF Files, WorldKept, TestOf, Shape
  <2>2. CASE \E b \in DOMAIN world.tests : world' = [world EXCEPT !.tests[b] = "rebuilt"]
    <3>1. PICK b \in DOMAIN world.tests : world' = [world EXCEPT !.tests[b] = "rebuilt"]
      BY <2>2
    <3>2. world'.hagia = world.hagia /\ world'.tests = [world.tests EXCEPT ![b] = "rebuilt"]
      BY <3>1 DEF Shape
    <3>3. DOMAIN world'.tests = DOMAIN world.tests
          /\ \A f \in DOMAIN BinaryOf : \/ world'.tests[BinaryOf[f]] = "rebuilt"
                                       \/ world'.tests[BinaryOf[f]] = world.tests[BinaryOf[f]]
      BY <3>2 DEF Files
    <3> QED
      BY <3>2, <3>3 DEF Files, WorldKept, TestOf, Built
  <2> QED
    BY <1>1, <1>2, <2>1, <2>2 DEF Tamper, Shape
<1>3. CASE UNCHANGED world
  BY <1>1, <1>3
<1>4. CASE PrepareOverlay
  BY <1>1, <1>4 DEF PrepareOverlay, Exit, Shape
<1>5. CASE OtherGate \/ TakeLock \/ \E result : Exit(result)
  BY <1>1, <1>5 DEF OtherGate, TakeLock, Exit, Shape
<1> QED
  BY <1>2, <1>3, <1>4, <1>5
     DEF GateNext, GateStep, ParseOptions, CheckInputs, MakeEvidence,
         IdentifyBefore, ReportRunning, TakePhase, LaunchPhase, JudgePhase, AfterPhase,
         ConcludeCase, JudgeCampaign, FinalReport, PhaseExits, WorkerExits,
         KillPhase, Tick, PhaseStep, gateVars

LEMMA RanStays ==
  ASSUME Files', WorldKept, ran \subseteq ran', RecordedHagia' = RecordedHagia,
         NEW item, NEW tests, RanWith(item, tests)
  PROVE  RanWith(item, tests)'
BY DEF RanWith, Genuine, WorldKept, Files

(* The state that a step of the gate starts from, and what it leaves alone.  *)
Ready == Shape /\ ProgressInv /\ Files /\ Listed /\ Taken /\ Executing /\ Ran

Again == Files' /\ WorldKept

LEMMA FamilyIsKnown ==
  ASSUME ProgressInv, InPhases, gate.todo # <<>>, Judged(Phase) \/ Listing(Phase)
  PROVE  Phase.family \in Families /\ Phase.family \in DOMAIN BinaryOf
<1>1. Done + 1 \in 1..Len(Planned) /\ Phase = Planned[Done + 1]
  BY AtHand
<1>2. PlanKnown(gate.command.measure, Planned)
  BY PlannedIsKnown DEF ProgressInv
<1>3. Phase.family \in Families
  BY <1>1, <1>2 DEF PlanKnown
<1> QED
  BY <1>3, PlanAssumption

LEMMA AtWork ==
  ASSUME ProgressInv, gate.at \in {"launch", "running", "judge", "after"}
  PROVE  InPhases /\ gate.todo # <<>> /\ Phase.judge # "campaign"
BY DEF ProgressInv, InPhases, InOrder

(* A step that lists nothing.                                                *)
LEMMA ListedStays ==
  ASSUME Ready, Again, gate'.pins = gate.pins, gate'.before = gate.before,
         gate'.at \in {"report", "final"} \/ InPhases'
             => gate.at \in {"report", "final"} \/ InPhases
  PROVE  Listed'
<1>1. RecordedHagia' = RecordedHagia
  BY DEF RecordedHagia
<1>2. \A f \in DOMAIN BinaryOf : TestOf(f) = "rebuilt" => TestOf(f)' = "rebuilt"
  BY DEF Again, WorldKept
<1> QED
  BY <1>1, <1>2 DEF Ready, Again, Listed, WorldKept

LEMMA TakenStays ==
  ASSUME Ready, gate'.pins = gate.pins, gate'.todo = gate.todo,
         gate'.at \in {"launch", "running", "judge", "after"}
             => gate.at \in {"launch", "running", "judge", "after"}
  PROVE  Taken'
BY DEF Ready, Taken, Phase, Judged

(* A step that executes nothing new.                                         *)
LEMMA ExecutingStays ==
  ASSUME Ready, Again, gate'.pins = gate.pins, gate'.before = gate.before,
         gate'.todo = gate.todo, gate'.executed = gate.executed,
         InRun' => InRun,
         InRun' /\ Judged(Phase) /\ gate.at = "running" /\ gate'.at # "running"
             /\ Phase.family = "session" => gate.executed.hagia = Frozen
  PROVE  Executing'
<1>1. Phase' = Phase /\ RecordedHagia' = RecordedHagia
  BY DEF Phase, RecordedHagia
<1>2. CASE ~InRun'
  BY <1>2 DEF Executing
<1>3. CASE InRun'
  <2>1. /\ InRun /\ Genuine(gate.executed.hagia)
        /\ RecordedHagia = "rebuilt" => gate.executed.hagia = "rebuilt"
    BY <1>3 DEF Ready, Executing
  <2>2. Genuine(gate.executed.hagia)'
    BY <2>1 DEF Genuine, Again, WorldKept
  <2>3. ASSUME Judged(Phase)
        PROVE  /\ gate.executed.tests \in Built
               /\ gate.executed.tests = "rebuilt" => TestOf(Phase.family) = "rebuilt"
               /\ gate.pins[Phase.family] = "rebuilt" => gate.executed.tests = "rebuilt"
               /\ gate'.at # "running" /\ Phase.family = "session"
                     => gate.executed.hagia = Frozen
    BY <1>3, <2>1, <2>3 DEF Ready, Executing
  <2>4. Judged(Phase) => Phase.family \in DOMAIN BinaryOf
    BY <2>1, AtWork, FamilyIsKnown DEF Ready, InRun
  <2>5. Judged(Phase) => (TestOf(Phase.family) = "rebuilt" => TestOf(Phase.family)' = "rebuilt")
    BY <1>1, <2>4 DEF Again, WorldKept, TestOf
  <2> QED
    BY <1>1, <2>1, <2>2, <2>3, <2>5 DEF Executing, Judged, TestOf
<1> QED
  BY <1>2, <1>3

LEMMA PinnedStays ==
  ASSUME Again, ran \subseteq ran', gate'.before = gate.before,
         NEW item, RanPinned(item), Judged(item) => gate'.pins[item.family] = gate.pins[item.family]
  PROVE  RanPinned(item)'
<1>1. RecordedHagia' = RecordedHagia
  BY DEF RecordedHagia
<1> QED
  BY <1>1, RanStays DEF RanPinned, Again, Judged

(* A step that moves no phase forward.                                       *)
LEMMA RanKept ==
  ASSUME Ready, Again, ran' = ran, gate'.pins = gate.pins, gate'.before = gate.before,
         gate'.todo = gate.todo, gate'.command = gate.command,
         InPhases' => InPhases, gate'.at = "after" => gate.at = "after",
         gate'.executed = gate.executed \/ gate'.at # "after",
         gate'.at = "final" => gate'.error
  PROVE  Ran'
<1>1. Planned' = Planned /\ Done' = Done /\ Phase' = Phase /\ RecordedHagia' = RecordedHagia
  BY DEF Planned, Done, Phase, RecordedHagia
<1>2. ASSUME InPhases', NEW i \in 1..Done PROVE RanPinned(Planned[i])'
  <2>1. RanPinned(Planned[i])
    BY <1>2 DEF Ready, Ran
  <2> QED
    BY <1>1, <2>1, PinnedStays DEF RanPinned, Again
<1>3. ASSUME gate'.at = "after", Judged(Phase) PROVE RanWith(Phase, gate.executed.tests)'
  <2>1. RanWith(Phase, gate.executed.tests)
    BY <1>3 DEF Ready, Ran
  <2>2. PICK item, tests : item = Phase /\ tests = gate.executed.tests
    OBVIOUS
  <2>3. RanWith(item, tests)'
    BY <1>1, <2>1, <2>2, RanStays DEF Again
  <2> QED
    BY <1>1, <1>3, <2>2, <2>3 DEF RanWith
<1> QED
  BY <1>1, <1>2, <1>3 DEF Ran, Judged, RanPinned

(* The parts of the invariant that speak of the phases.                      *)
Carried == Listed' /\ Taken' /\ Executing' /\ Ran'

(* A step beside the runner, or of its phase.                                *)
LEMMA OthersCarry ==
  ASSUME Ready, Again, ran' = ran, gate'.at = gate.at, gate'.pins = gate.pins,
         gate'.before = gate.before, gate'.todo = gate.todo, gate'.command = gate.command,
         gate'.executed = gate.executed, gate'.success = gate.success, gate'.error = gate.error
  PROVE  Carried
<1>1. InPhases' = InPhases /\ InRun' = InRun
  BY DEF InPhases, InRun
<1>2. Listed' /\ Taken' /\ Executing'
  BY <1>1, ListedStays, TakenStays, ExecutingStays
<1>3. CASE gate.at # "final"
  BY <1>1, <1>2, <1>3, RanKept DEF Carried
<1>4. CASE gate.at = "final"
  <2>1. Planned' = Planned
    BY DEF Planned
  <2>2. ASSUME ~gate'.error, NEW i \in 1..Len(Planned) PROVE RanPinned(Planned[i])'
    <3>1. RanPinned(Planned[i])
      BY <1>4, <2>2 DEF Ready, Ran
    <3> QED
      BY <2>1, <3>1, PinnedStays DEF RanPinned
  <2>3. Ran'
    BY <1>4, <2>1, <2>2 DEF Ran, InPhases, RanPinned
  <2> QED
    BY <1>2, <2>3 DEF Carried
<1> QED
  BY <1>3, <1>4

(* The steps before the phases and after them.                               *)
LEMMA OutsideCarries ==
  ASSUME Ready, Again, gate'.pins = gate.pins,
         gate'.at \notin {"launch", "running", "judge", "after", "next", "final"},
         gate'.at = "report" =>
            gate'.before.hagia_sha256 = world.hagia /\ world'.hagia = world.hagia
  PROVE  Carried
<1>1. ~InRun' /\ ~InPhases'
  BY DEF InRun, InPhases
<1>2. Listed'
  <2>1. \A f \in DOMAIN BinaryOf : TestOf(f) = "rebuilt" => TestOf(f)' = "rebuilt"
    BY DEF Again, WorldKept
  <2> QED
    BY <1>1, <2>1 DEF Listed, Ready, RecordedHagia, InPhases
<1> QED
  BY <1>1, <1>2 DEF Carried, Taken, Executing, Ran, InPhases

(* A phase that fails ends the gate.                                         *)
LEMMA FailureCarries ==
  ASSUME Ready, Again, InPhases, ran' = ran, gate'.at = "final", gate'.error,
         gate'.pins = gate.pins, gate'.before = gate.before, gate'.todo = gate.todo,
         gate'.command = gate.command
  PROVE  Carried
<1>1. ~InRun' /\ ~InPhases'
  BY DEF InRun, InPhases
<1> QED
  BY <1>1, ListedStays DEF Carried, Taken, Executing, Ran, InPhases

LEMMA TakeCarries ==
  ASSUME Ready, Again, TakePhase
  PROVE  Carried
<1>1. /\ GateFields \subseteq DOMAIN gate /\ gate.at = "next" /\ InPhases /\ ran' = ran
      /\ world' = world
  BY DEF Ready, Shape, TakePhase, At, InPhases
<1>2. CASE gate.todo = <<>> /\ Conclude(FALSE)
  <2>1. /\ gate'.at = "final" /\ gate'.pins = gate.pins /\ gate'.before = gate.before
        /\ gate'.command = gate.command
    BY <1>1, <1>2 DEF Conclude
  <2>2. Done = Len(Planned) /\ Planned' = Planned
    <3>1. Len(Planned) \in Nat
      BY PlannedIsKnown DEF Ready, ProgressInv, PlanKnown, IsSeq
    <3> QED
      BY <1>2, <2>1, <3>1 DEF Done, Planned
  <2>3. ASSUME NEW i \in 1..Len(Planned) PROVE RanPinned(Planned[i])'
    <3>1. RanPinned(Planned[i])
      BY <1>1, <2>2 DEF Ready, Ran
    <3> QED
      BY <1>1, <2>1, <2>2, <3>1, PinnedStays DEF RanPinned
  <2>4. Listed'
    BY <1>1, <2>1, ListedStays
  <2> QED
    BY <2>1, <2>2, <2>3, <2>4 DEF Carried, Taken, Executing, Ran, InPhases, InRun, RanPinned
<1>3. CASE Conclude(TRUE)
  BY <1>1, <1>3, FailureCarries DEF Conclude
<1>4. CASE /\ gate.todo # <<>> /\ Goto("launch")
           /\ ~(Pinned(Phase) /\ Executable # gate.pins[Phase.family])
  <2>1. /\ gate'.at = "launch" /\ gate'.pins = gate.pins /\ gate'.before = gate.before
        /\ gate'.command = gate.command /\ gate'.todo = gate.todo
        /\ gate'.executed = gate.executed
    BY <1>1, <1>4 DEF Goto
  <2>2. InPhases' /\ ~InRun'
    BY <2>1 DEF InPhases, InRun
  <2>3. Taken'
    <3>1. Judged(Phase) => gate.pins[Phase.family] \in Built
      <4> SUFFICES ASSUME Judged(Phase) PROVE gate.pins[Phase.family] \in Built
        OBVIOUS
      <4>1. Phase.family \in DOMAIN BinaryOf
        BY <1>1, <1>4, FamilyIsKnown DEF Ready
      <4>2. gate.pins[Phase.family] = world.tests[BinaryOf[Phase.family]]
        BY <1>4 DEF Judged, Pinned, Executable
      <4> QED
        BY <4>1, <4>2 DEF Ready, Files
    <3> QED
      BY <2>1, <3>1 DEF Taken, Phase, Judged
  <2>4. Listed' /\ Ran'
    BY <1>1, <2>1, <2>2, ListedStays, RanKept
  <2> QED
    BY <2>2, <2>3, <2>4 DEF Carried, Executing
<1> QED
  BY <1>2, <1>3, <1>4 DEF TakePhase

LEMMA LaunchCarries ==
  ASSUME Ready, Again, LaunchPhase
  PROVE  Carried
<1>1. /\ GateFields \subseteq DOMAIN gate /\ gate.at = "launch" /\ ran' = ran /\ world' = world
      /\ InPhases /\ gate.todo # <<>>
  BY AtWork DEF Ready, Shape, LaunchPhase, At
<1>2. /\ gate'.pins = gate.pins /\ gate'.before = gate.before /\ gate'.command = gate.command
      /\ gate'.todo = gate.todo /\ gate'.at \in {"running", "judge"}
  BY <1>1 DEF LaunchPhase
<1>3. Listed' /\ Taken'
  BY <1>1, <1>2, ListedStays, TakenStays DEF InPhases
<1>4. Ran'
  BY <1>1, <1>2, RanKept DEF InPhases
<1>5. CASE gate'.at = "judge" /\ gate'.success = FALSE
  BY <1>3, <1>4, <1>5 DEF Carried, Executing, InRun
<1>6. CASE /\ gate'.at = "running"
           /\ gate'.executed = [tests |-> IF Phase.family = "none" THEN "none" ELSE Executable,
                                hagia |-> world.hagia]
  <2>1. gate'.executed.hagia = world.hagia /\ Phase' = Phase
    BY <1>2, <1>6 DEF Phase
  <2>2. Genuine(gate.executed.hagia)'
    BY <1>1, <2>1 DEF Genuine, Ready, Files
  <2>3. RecordedHagia' = "rebuilt" => gate'.executed.hagia = "rebuilt"
    BY <1>1, <1>2, <2>1 DEF Ready, Listed, RecordedHagia
  <2>4. ASSUME Judged(Phase)
        PROVE  /\ gate'.executed.tests \in Built
               /\ gate'.executed.tests = "rebuilt" => TestOf(Phase.family) = "rebuilt"
               /\ gate.pins[Phase.family] = "rebuilt" => gate'.executed.tests = "rebuilt"
    <3>1. Phase.family \in Families /\ Phase.family \in DOMAIN BinaryOf
      BY <1>1, <2>4, FamilyIsKnown DEF Ready
    <3>2. gate'.executed.tests = TestOf(Phase.family)
      BY <1>6, <3>1 DEF Families, Executable, TestOf
    <3>3. gate.pins[Phase.family] = "rebuilt" => TestOf(Phase.family) = "rebuilt"
      BY <3>1 DEF Ready, Listed
    <3> QED
      BY <3>1, <3>2, <3>3 DEF Ready, Files, TestOf
  <2>5. Executing'
    BY <1>1, <1>2, <1>6, <2>1, <2>2, <2>3, <2>4 DEF Executing, Judged, TestOf
  <2> QED
    BY <1>3, <1>4, <2>5 DEF Carried
<1> QED
  BY <1>1, <1>5, <1>6 DEF LaunchPhase

(* A phase that was killed, or that ends with its own verdict.               *)
LEMMA ExitCarries ==
  ASSUME Ready, Again, OwnCase, PhaseExits \/ WorkerExits \/ KillPhase
  PROVE  Carried
<1>1. /\ GateFields \subseteq DOMAIN gate /\ gate.at = "running" /\ ran' = ran
      /\ InPhases /\ gate.todo # <<>>
  BY AtWork DEF Ready, Shape, PhaseExits, WorkerExits, KillPhase, At
<1>2. /\ gate'.pins = gate.pins /\ gate'.before = gate.before /\ gate'.command = gate.command
      /\ gate'.todo = gate.todo /\ gate'.at = "judge" /\ gate'.executed = gate.executed
  BY <1>1 DEF PhaseExits, WorkerExits, KillPhase
<1>3. Listed' /\ Taken' /\ Ran'
  BY <1>1, <1>2, ListedStays, TakenStays, RanKept DEF InPhases
<1>4. gate'.success /\ Judged(Phase) /\ Phase.family = "session" => gate.executed.hagia = Frozen
  <2>1. CASE PhaseExits
    BY <1>1, <2>1 DEF PhaseExits, Judged
  <2>2. CASE WorkerExits
    <3>1. Phase.judge = "measure" /\ (gate'.success => worker.at = "passed")
      BY <1>1, <2>2 DEF WorkerExits
    <3> QED
      BY <1>1, <3>1 DEF OwnCase
  <2>3. CASE KillPhase
    <3>1. gate'.success = FALSE
      BY <1>1, <2>3 DEF KillPhase
    <3> QED
      BY <3>1
  <2> QED
    BY <2>1, <2>2, <2>3
<1>5. Executing'
  BY <1>1, <1>2, <1>4, ExecutingStays DEF InRun
<1> QED
  BY <1>3, <1>5 DEF Carried

(* What a case that passed its part is recorded to have executed.            *)
LEMMA ExecutedRan ==
  ASSUME Ready, Again, gate.at \in {"judge", "after"}, InRun, Judged(Phase),
         gate'.before = gate.before, world' = world, ran' = ran \cup {Executed(Phase)},
         NEW item, item = Phase, NEW tests, tests = gate.executed.tests
  PROVE  RanWith(item, tests)'
<1> DEFINE case == Executed(Phase)
<1>1. Genuine(gate.executed.hagia) /\ Genuine(world.hagia)
  BY DEF Ready, Executing, Files, Genuine
<1>2. /\ case.item = Phase /\ case.tests = gate.executed.tests
      /\ case.hagia = {gate.executed.hagia, world.hagia}
  BY DEF Executed
<1>3. case \in ran'
  OBVIOUS
<1> HIDE DEF case
<1>4. Phase.family = "session" => RecordedHagia # "rebuilt"
  BY HashAssumption DEF Ready, Executing
<1> QED
  BY <1>1, <1>2, <1>3, <1>4 DEF RanWith, Genuine, RecordedHagia

(* Its executable is the listed one when the digest after it says so.        *)
LEMMA ListedWasExecuted ==
  ASSUME Ready, gate.at \in {"judge", "after"}, InRun, Judged(Phase),
         Executable = gate.pins[Phase.family]
  PROVE  gate.executed.tests = gate.pins[Phase.family]
<1>1. /\ gate.executed.tests \in Built /\ gate.pins[Phase.family] \in Built
      /\ gate.executed.tests = "rebuilt" => Executable = "rebuilt"
      /\ gate.pins[Phase.family] = "rebuilt" => gate.executed.tests = "rebuilt"
  BY DEF Ready, Taken, Executing, Executable, TestOf
<1> QED
  BY <1>1 DEF Built

LEMMA JudgeCarries ==
  ASSUME Ready, Again, JudgePhase
  PROVE  Carried
<1> DEFINE passed == gate.success /\ gate.log.readable /\ Judgment(Phase, gate.log)
           phases == Append(gate.phases, Outcome(Phase, passed))
<1>1. /\ GateFields \subseteq DOMAIN gate /\ gate.at = "judge" /\ world' = world
      /\ InPhases /\ gate.todo # <<>> /\ Phase.judge # "measure"
  BY AtWork DEF Ready, Shape, JudgePhase, At
<1>2. CASE /\ passed /\ gate' = [[gate EXCEPT !.phases = phases] EXCEPT !.at = "after"]
           /\ ran' = IF passed /\ Phase.judge = "exactly-one"
                     THEN ran \cup {Executed(Phase)} ELSE ran
  <2>1. passed /\ gate.success
    BY <1>2
  <2> HIDE DEF passed, phases
  <2>2. /\ gate'.pins = gate.pins /\ gate'.before = gate.before /\ gate'.command = gate.command
        /\ gate'.todo = gate.todo /\ gate'.at = "after" /\ gate'.executed = gate.executed
    BY <1>1, <1>2
  <2>3. InRun /\ InRun' /\ InPhases'
    BY <1>1, <2>1, <2>2 DEF InRun, InPhases
  <2>4. Listed' /\ Taken' /\ Executing'
    BY <1>1, <2>2, <2>3, ListedStays, TakenStays, ExecutingStays
  <2>5. Planned' = Planned /\ Done' = Done /\ Phase' = Phase
    BY <2>2 DEF Planned, Done, Phase
  <2>6. ran \subseteq ran'
    BY <1>2
  <2>7. ASSUME NEW i \in 1..Done PROVE RanPinned(Planned[i])'
    <3>1. RanPinned(Planned[i])
      BY <1>1 DEF Ready, Ran
    <3> QED
      BY <2>2, <2>5, <2>6, <3>1, PinnedStays DEF RanPinned
  <2>8. ASSUME Judged(Phase) PROVE RanWith(Phase, gate.executed.tests)'
    <3>1. ran' = ran \cup {Executed(Phase)}
      BY <1>1, <1>2, <2>1, <2>8 DEF Judged
    <3>2. PICK item, tests : item = Phase /\ tests = gate.executed.tests
      OBVIOUS
    <3>3. RanWith(item, tests)'
      BY <1>1, <2>2, <2>3, <2>8, <3>1, <3>2, ExecutedRan
    <3> QED
      BY <2>2, <2>5, <3>2, <3>3 DEF RanWith
  <2> QED
    BY <2>2, <2>4, <2>5, <2>7, <2>8 DEF Carried, Ran, Judged, RanPinned
<1>3. CASE /\ gate' = [[gate EXCEPT !.phases = phases] EXCEPT !.at = "final", !.error = TRUE]
           /\ ran' = ran
  <2> HIDE DEF passed, phases
  <2> QED
    BY <1>1, <1>3, FailureCarries
<1> QED
  BY <1>1, <1>2, <1>3 DEF JudgePhase

(* The item at hand is done.                                                 *)
LEMMA DoneCarries ==
  ASSUME Ready, Again, InPhases, gate.todo # <<>>, ran \subseteq ran',
         gate'.at = "next", gate'.todo = Tail(gate.todo),
         gate'.before = gate.before, gate'.command = gate.command,
         \A i \in 1..Done : Judged(Planned[i]) =>
             gate'.pins[Planned[i].family] = gate.pins[Planned[i].family],
         Listed', NEW item, item = Phase, RanPinned(item)'
  PROVE  Carried
<1>1. /\ Phase = Planned[Done + 1] /\ Done \in Nat /\ Len(gate.todo) \in Nat
      /\ Len(Tail(gate.todo)) = Len(gate.todo) - 1 /\ Done + 1 \in 1..Len(Planned)
  BY AtHand DEF Ready
<1>2. Planned' = Planned /\ Done' = Done + 1
  <2>1. Planned' = Planned
    BY DEF Planned
  <2>2. Len(Planned) \in Nat
    BY PlannedIsKnown DEF Ready, ProgressInv, PlanKnown, IsSeq
  <2>3. Done' = Len(Planned) - Len(Tail(gate.todo)) /\ Done = Len(Planned) - Len(gate.todo)
    BY <2>1 DEF Done
  <2>4. Len(Planned) - (Len(gate.todo) - 1) = (Len(Planned) - Len(gate.todo)) + 1
    BY <1>1, <2>2
  <2>5. Done' = Done + 1
    BY <1>1, <2>3, <2>4
  <2> QED
    BY <2>1, <2>5
<1>3. ASSUME NEW i \in 1..Done + 1 PROVE RanPinned(Planned[i])'
  <2>1. CASE i = Done + 1
    BY <1>1, <1>2, <2>1 DEF RanPinned
  <2>2. CASE i \in 1..Done
    <3>1. RanPinned(Planned[i])
      BY <2>2 DEF Ready, Ran
    <3>2. PICK other : other = Planned[i]
      OBVIOUS
    <3>3. RanPinned(other)'
      BY <2>2, <3>1, <3>2, PinnedStays
    <3> QED
      BY <1>2, <3>2, <3>3 DEF RanPinned
  <2> QED
    BY <1>1, <2>1, <2>2
<1> QED
  BY <1>2, <1>3 DEF Carried, Taken, Executing, Ran, InPhases, InRun, RanPinned

LEMMA AfterCarries ==
  ASSUME Ready, Again, AfterPhase
  PROVE  Carried
<1>1. /\ GateFields \subseteq DOMAIN gate /\ gate.at = "after" /\ InPhases /\ gate.todo # <<>>
      /\ world' = world /\ ran' = ran /\ InRun
  BY AtWork DEF Ready, Shape, AfterPhase, At, InRun
<1>2. PICK item : item = Phase
  OBVIOUS
<1>3. CASE Conclude(TRUE)
  BY <1>1, <1>3, FailureCarries DEF Conclude
<1>4. CASE /\ PhaseDone
           /\ Judged(Phase) => Executable = gate.pins[Phase.family]
  <2>1. /\ gate'.pins = gate.pins /\ gate'.before = gate.before /\ gate'.command = gate.command
        /\ gate'.todo = Tail(gate.todo) /\ gate'.at = "next"
    BY <1>1, <1>4 DEF PhaseDone
  <2>2. Listed'
    BY <1>1, <2>1, ListedStays
  <2>3. RanPinned(item)'
    <3> SUFFICES ASSUME Judged(Phase) PROVE RanWith(item, gate.pins[item.family])'
      BY <1>2 DEF RanPinned, Judged
    <3>1. gate.executed.tests = gate.pins[Phase.family]
      BY <1>1, <1>4, ListedWasExecuted
    <3>2. RanWith(Phase, gate.executed.tests)
      BY <1>1 DEF Ready, Ran
    <3>3. PICK tests : tests = gate.executed.tests
      OBVIOUS
    <3>4. RanWith(item, tests)'
      BY <1>1, <1>2, <2>1, <3>2, <3>3, RanStays DEF Again, RecordedHagia
    <3> QED
      BY <1>2, <2>1, <3>1, <3>3, <3>4 DEF RanWith
  <2> QED
    BY <1>1, <1>2, <2>1, <2>2, <2>3, DoneCarries
<1>5. CASE /\ Listing(Phase) /\ ~Judged(Phase)
           /\ gate' = [gate EXCEPT !.at = "next", !.todo = Tail(@),
                                   !.pins[Phase.family] = Executable]
  <2>1. /\ gate'.before = gate.before /\ gate'.command = gate.command
        /\ gate'.todo = Tail(gate.todo) /\ gate'.at = "next"
        /\ gate'.pins = [gate.pins EXCEPT ![Phase.family] = Executable]
    BY <1>1, <1>5
  <2>2. Phase.family \in DOMAIN BinaryOf /\ DOMAIN gate.pins = DOMAIN BinaryOf
    BY <1>1, <1>5, FamilyIsKnown DEF Ready, Listed
  <2>3. Listed'
    <3>1. Executable = TestOf(Phase.family) /\ TestOf(Phase.family) \in Built
      BY <2>2 DEF Executable, TestOf, Ready, Files
    <3>2. DOMAIN gate'.pins = DOMAIN BinaryOf
          /\ \A f \in DOMAIN BinaryOf : gate'.pins[f] \in {TestOf(f), gate.pins[f]}
      BY <2>1, <2>2, <3>1
    <3>3. \A f \in DOMAIN BinaryOf : /\ gate'.pins[f] \in Built \cup {"unknown"}
                                     /\ gate'.pins[f] = "rebuilt" => TestOf(f) = "rebuilt"
      BY <3>2 DEF Ready, Listed, Files, TestOf
    <3>4. RecordedHagia = "rebuilt" => world.hagia = "rebuilt"
      BY <1>1 DEF Ready, Listed
    <3> QED
      BY <1>1, <2>1, <3>2, <3>3, <3>4 DEF Listed, TestOf, RecordedHagia
  <2>4. ASSUME NEW i \in 1..Done, Judged(Planned[i])
        PROVE  gate'.pins[Planned[i].family] = gate.pins[Planned[i].family]
    <3>1. Done + 1 \in 1..Len(Planned) /\ Phase = Planned[Done + 1] /\ Done \in Nat
      BY <1>1, AtHand DEF Ready
    <3>2. i \in 1..Len(Planned) /\ i < Done + 1
      BY <3>1
    <3>3. PlanKnown(gate.command.measure, Planned)
      BY PlannedIsKnown DEF Ready, ProgressInv
    <3>4. Planned[i].family # Phase.family /\ Planned[i].family \in DOMAIN BinaryOf
      BY <1>5, <2>4, <3>1, <3>2, <3>3, PlanAssumption DEF PlanKnown
    <3> QED
      BY <2>1, <2>2, <3>4
  <2>5. RanPinned(item)'
    BY <1>2, <1>5 DEF RanPinned, Judged
  <2> QED
    BY <1>1, <1>2, <2>1, <2>3, <2>4, <2>5, DoneCarries
<1> QED
  BY <1>3, <1>4, <1>5 DEF AfterPhase, Judged, Listing

LEMMA CaseCarries ==
  ASSUME Ready, Again, ConcludeCase
  PROVE  Carried
<1> DEFINE files == IF Work.ordinal \in DOMAIN disk.cases THEN disk.cases[Work.ordinal]
                    ELSE [capture |-> <<>>, load |-> <<>>, environment |-> <<>>]
           result == gate.success /\ gate.log.readable /\ RequireExactlyOne(gate.log)
           captured == /\ Present(files) /\ Decodes(files.capture[1])
                       /\ CommandedWorkload(files.capture[1], Work)
           passed == result /\ captured /\ Executable = gate.pins[Phase.family]
           phases == Append(gate.phases, Outcome(Phase, passed))
<1>1. /\ GateFields \subseteq DOMAIN gate /\ gate.at = "judge" /\ InPhases /\ gate.todo # <<>>
      /\ world' = world /\ Judged(Phase)
  BY AtWork DEF Ready, Shape, ConcludeCase, At, Judged
<1>2. \/ /\ passed /\ ran' = ran \cup {Executed(Phase)}
         /\ gate' = [gate EXCEPT !.phases = phases, !.at = "next", !.todo = Tail(@)]
      \/ /\ ran' = ran
         /\ gate' = [gate EXCEPT !.phases = phases, !.at = "final", !.error = TRUE]
  BY DEF ConcludeCase
<1> HIDE DEF files, captured
<1>3. passed => gate.success /\ Executable = gate.pins[Phase.family]
  OBVIOUS
<1> HIDE DEF passed, phases
<1>4. CASE /\ passed /\ ran' = ran \cup {Executed(Phase)}
           /\ gate' = [gate EXCEPT !.phases = phases, !.at = "next", !.todo = Tail(@)]
  <2>1. /\ gate'.pins = gate.pins /\ gate'.before = gate.before /\ gate'.command = gate.command
        /\ gate'.todo = Tail(gate.todo) /\ gate'.at = "next"
    BY <1>1, <1>4
  <2>2. Listed'
    BY <1>1, <2>1, ListedStays
  <2>3. PICK item, tests : item = Phase /\ tests = gate.executed.tests
    OBVIOUS
  <2>4. RanPinned(item)'
    <3>1. InRun
      BY <1>1, <1>3, <1>4 DEF InRun
    <3>2. gate.executed.tests = gate.pins[Phase.family]
      BY <1>1, <1>3, <1>4, <3>1, ListedWasExecuted
    <3>3. RanWith(item, tests)'
      BY <1>1, <1>4, <2>1, <2>3, <3>1, ExecutedRan
    <3> QED
      BY <2>1, <2>3, <3>2, <3>3 DEF RanPinned, RanWith
  <2> QED
    BY <1>1, <1>4, <2>1, <2>2, <2>3, <2>4, DoneCarries
<1>5. CASE /\ ran' = ran
           /\ gate' = [gate EXCEPT !.phases = phases, !.at = "final", !.error = TRUE]
  BY <1>1, <1>5, FailureCarries
<1> QED
  BY <1>2, <1>4, <1>5

LEMMA CampaignCarries ==
  ASSUME Ready, Again, JudgeCampaign
  PROVE  Carried
<1>1. /\ GateFields \subseteq DOMAIN gate /\ gate.at = "next" /\ InPhases /\ gate.todo # <<>>
      /\ world' = world /\ ran' = ran /\ Phase.judge = "campaign"
  BY DEF Ready, Shape, JudgeCampaign, At, InPhases
<1>2. /\ gate'.at = "final" /\ gate'.pins = gate.pins /\ gate'.before = gate.before
      /\ gate'.command = gate.command
  BY <1>1 DEF JudgeCampaign, Conclude
<1>3. Planned' = Planned
  BY <1>2 DEF Planned
<1>4. /\ Phase = Planned[Done + 1] /\ Done \in Nat /\ Done + 1 = Len(Planned)
  <2>1. Done + 1 \in 1..Len(Planned) /\ Phase = Planned[Done + 1] /\ Done \in Nat
    BY <1>1, AtHand DEF Ready
  <2>2. PlanKnown(gate.command.measure, Planned)
    BY PlannedIsKnown DEF Ready, ProgressInv
  <2> QED
    BY <1>1, <2>1, <2>2 DEF PlanKnown
<1>5. ASSUME NEW i \in 1..Len(Planned) PROVE RanPinned(Planned[i])'
  <2>1. RanPinned(Planned[i])
    <3>1. CASE i \in 1..Done
      BY <1>1, <3>1 DEF Ready, Ran
    <3>2. CASE i = Done + 1
      BY <1>1, <1>4, <3>2 DEF RanPinned, Judged
    <3> QED
      BY <1>4, <3>1, <3>2
  <2> QED
    BY <1>1, <1>2, <1>3, <2>1, PinnedStays DEF RanPinned
<1>6. Listed'
  BY <1>1, <1>2, ListedStays
<1> QED
  BY <1>2, <1>3, <1>5, <1>6 DEF Carried, Taken, Executing, Ran, InPhases, InRun, RanPinned

(* A fixture that does not find the frozen Hagia fails in its setup.         *)
LEMMA UnfrozenFails ==
  ASSUME DragInv, drag.at \in {"absent", "setup", "failed"}, NEW frozen, ~frozen, DragStep(frozen)
  PROVE  drag'.at = "failed"
<1>1. SetUp(frozen)
  BY DEF DragStep, WriteCapture, EndDrag, OfferAdmitted, OfferReplaces, OfferRefused,
         PanicInOffer, Dispatch, SettleCommitted, SettleRefused, PanicInSample,
         LoopCompletes, LoopExpires, LoopFails, DragClock, Measuring
<1>2. "at" \in DOMAIN drag
  BY <1>1 DEF SetUp, DragInv, DragFields
<1> QED
  BY <1>1, <1>2 DEF SetUp

LEMMA WorkerOwns ==
  ASSUME CaptureInv, OwnCase, PhaseStep
  PROVE  OwnCase'
<1> DEFINE own == gate.executed.hagia = Frozen
<1>1. /\ gate.at = "running" /\ Phase.judge = "measure" /\ gate' = gate
      /\ WorkerStep(Work, own)
  BY DEF PhaseStep, At
<1>2. /\ {"at", "success"} \subseteq DOMAIN worker
      /\ worker.at = "passed" => worker.success
      /\ worker.success \/ drag.at \notin {"absent", "setup", "failed"} => own
  BY <1>1 DEF OwnCase
<1>3. SUFFICES /\ {"at", "success"} \subseteq DOMAIN worker'
               /\ worker'.at = "passed" => worker'.success
               /\ worker'.success \/ drag'.at \notin {"absent", "setup", "failed"} => own
  BY <1>1 DEF OwnCase, Phase
<1>4. CASE MainArrives /\ UNCHANGED <<drag, mishaps>>
  BY <1>2, <1>4 DEF MainArrives
<1>5. CASE LoadStep /\ UNCHANGED <<drag, mishaps>>
  BY <1>2, <1>5 DEF LoadStep, ThreadArrives, ThreadStops
<1>6. CASE StartFixture(Work)
  <2>1. \/ worker' = [worker EXCEPT !.at = "fixture"] /\ drag' = NewDrag(Work)
        \/ worker' = [worker EXCEPT !.at = "joining", !.stopping = TRUE] /\ drag' = drag
    BY <1>6 DEF StartFixture
  <2>2. NewDrag(Work).at = "setup"
    BY DEF NewDrag
  <2>3. /\ {"at", "success"} \subseteq DOMAIN worker' /\ worker'.at # "passed"
        /\ worker'.success = worker.success
    <3>1. CASE worker' = [worker EXCEPT !.at = "fixture"]
      BY <1>2, <3>1
    <3>2. CASE worker' = [worker EXCEPT !.at = "joining", !.stopping = TRUE]
      <4> DEFINE joining == [worker EXCEPT !.at = "joining"]
      <4>1. /\ {"at", "success"} \subseteq DOMAIN joining /\ joining.at = "joining"
            /\ joining.success = worker.success
        BY <1>2
      <4>2. worker' = [joining EXCEPT !.stopping = TRUE]
        BY <3>2
      <4> HIDE DEF joining
      <4> QED
        BY <4>1, <4>2
    <3> QED
      BY <2>1, <3>1, <3>2
  <2> QED
    BY <1>2, <2>1, <2>2, <2>3
<1>7. CASE DragStep(own) /\ UNCHANGED worker
  <2>1. CASE own
    BY <1>2, <1>7, <2>1
  <2>2. CASE ~own
    BY <1>2, <1>7, <2>2, UnfrozenFails DEF CaptureInv
  <2> QED
    BY <2>1, <2>2
<1>8. CASE FixtureExits
  BY <1>2, <1>8 DEF FixtureExits
<1>9. CASE WriteEnvironment
  BY <1>2, <1>9 DEF WriteEnvironment
<1>10. CASE WriteLoad
  BY <1>2, <1>10 DEF WriteLoad
<1> QED
  BY <1>1, <1>4, <1>5, <1>6, <1>7, <1>8, <1>9, <1>10 DEF WorkerStep

LEMMA OwnCaseStep ==
  ASSUME Shape, CaptureInv, OwnCase, [GateNext]_gateVars
  PROVE  OwnCase'
<1>1. CASE PhaseStep
  BY <1>1, WorkerOwns
<1>2. CASE drag' = NoDrag /\ gate'.at = "judge"
  BY <1>2 DEF OwnCase, NoDrag
<1>3. CASE LaunchPhase
  <2>1. drag.at = "absent" /\ drag' = drag /\ gate'.todo = gate.todo
    BY <1>3 DEF LaunchPhase, OwnCase, At, Shape
  <2>2. CASE gate'.at = "judge"
    BY <2>1, <2>2 DEF OwnCase
  <2>3. CASE worker' = IF Phase.judge = "measure"
                       THEN NewWorker(Work.load, gate.command.proc) ELSE NoWorker
    <3>1. Phase' = Phase
      BY <2>1 DEF Phase
    <3> QED
      BY <2>1, <2>3, <3>1 DEF OwnCase, NewWorker
  <2> QED
    BY <1>3, <2>2, <2>3 DEF LaunchPhase, Shape
<1>4. CASE UNCHANGED drag /\ gate.at # "running" /\ gate'.at # "running"
  BY <1>4 DEF OwnCase
<1>5. CASE /\ UNCHANGED <<drag, worker>> /\ gate'.at = gate.at /\ gate'.todo = gate.todo
           /\ gate'.executed = gate.executed
  BY <1>5 DEF OwnCase, Phase
<1>6. CASE PhaseExits
  <2>1. drag.at = "absent" /\ drag' = drag /\ gate'.at = "judge"
    BY <1>6 DEF PhaseExits, OwnCase, NothingRuns, Shape
  <2> QED
    BY <2>1 DEF OwnCase
<1>7. CASE WorkerExits \/ KillPhase
  BY <1>2, <1>7 DEF WorkerExits, KillPhase, Shape
<1>8. CASE Tick \/ OtherGate \/ Tamper \/ UNCHANGED gateVars
  BY <1>5, <1>8 DEF Tick, OtherGate, Tamper, gateVars, Shape
<1>9. CASE ParseOptions \/ CheckInputs \/ TakeLock \/ MakeEvidence
             \/ PrepareOverlay \/ IdentifyBefore \/ ReportRunning
  BY <1>4, <1>9 DEF ParseOptions, CheckInputs, TakeLock, MakeEvidence, PrepareOverlay,
       IdentifyBefore, ReportRunning, NothingRuns, At, Goto, Exit, Shape
<1>10. CASE TakePhase \/ JudgePhase \/ AfterPhase \/ ConcludeCase \/ JudgeCampaign \/ FinalReport
  BY <1>4, <1>10 DEF TakePhase, JudgePhase, AfterPhase, ConcludeCase, JudgeCampaign,
       FinalReport, NothingRuns, At, Goto, Exit, Conclude, PhaseDone, Shape
<1> QED
  BY <1>1, <1>3, <1>6, <1>7, <1>8, <1>9, <1>10 DEF GateNext, GateStep

(* A gate that passes finds the identity it began with.                      *)
LEMMA PassEarned ==
  ASSUME Ready, gate.at = "final", ~gate.error, Coherent
  PROVE  \A i \in 1..Len(Planned) : Judged(Planned[i]) =>
            \E case \in ran : /\ case.item = Planned[i]
                              /\ case.tests = gate.pins[Planned[i].family]
                              /\ case.hagia = {Frozen}
<1>1. \A i \in 1..Len(Planned) : RanPinned(Planned[i])
  BY DEF Ready, Ran
<1>2. world.hagia = RecordedHagia
  BY DEF Coherent, Identity, RecordedHagia
<1>3. RecordedHagia # "rebuilt"
  <2>1. PlanKnown(gate.command.measure, Planned)
    BY PlannedIsKnown DEF Ready, ProgressInv
  <2>2. PICK i \in 1..Len(Planned) : Judged(Planned[i]) /\ Planned[i].family = "session"
    BY <2>1 DEF PlanKnown
  <2> QED
    BY <1>1, <2>2 DEF RanPinned, RanWith
<1>4. \A hagia : Genuine(hagia) => hagia = Frozen
  BY <1>2, <1>3 DEF Genuine
<1>5. SUFFICES ASSUME NEW i \in 1..Len(Planned), Judged(Planned[i])
               PROVE  \E case \in ran : /\ case.item = Planned[i]
                                        /\ case.tests = gate.pins[Planned[i].family]
                                        /\ case.hagia = {Frozen}
  OBVIOUS
<1>6. PICK case \in ran : /\ case.item = Planned[i]
                          /\ case.tests = gate.pins[Planned[i].family]
                          /\ case.hagia # {}
                          /\ \A hagia \in case.hagia : Genuine(hagia)
  BY <1>1, <1>5 DEF RanPinned, RanWith
<1> HIDE DEF Genuine
<1>7. case.hagia = {Frozen}
  BY <1>4, <1>6
<1> QED
  BY <1>6, <1>7

LEMMA BinaryStep == BinaryInv /\ [GateNext]_gateVars => BinaryInv'
<1> SUFFICES ASSUME BinaryInv, [GateNext]_gateVars PROVE BinaryInv'
  OBVIOUS
<1>1. /\ Ready /\ CaptureInv /\ CaptureInv' /\ OwnCase /\ Shape
  BY CaptureStep DEF BinaryInv, CaptureInv, ProgressInv, StatusInv, Ready
<1>2. Again
  BY <1>1, FilesStep DEF Again, Ready
<1>3. OwnCase'
  BY <1>1, OwnCaseStep
<1>4. GateFields \subseteq DOMAIN gate
  BY <1>1 DEF Shape
<1>5. Carried
  <2>1. CASE PhaseStep \/ Tick \/ OtherGate \/ Tamper \/ UNCHANGED gateVars
    <3>1. /\ ran' = ran /\ gate'.at = gate.at /\ gate'.pins = gate.pins
          /\ gate'.before = gate.before /\ gate'.todo = gate.todo
          /\ gate'.command = gate.command /\ gate'.executed = gate.executed
          /\ gate'.success = gate.success /\ gate'.error = gate.error
      BY <1>4, <2>1 DEF PhaseStep, Tick, OtherGate, Tamper, gateVars
    <3> QED
      BY <1>1, <1>2, <3>1, OthersCarry
  <2>2. CASE ParseOptions \/ CheckInputs \/ TakeLock \/ MakeEvidence \/ PrepareOverlay
    <3>1. /\ gate'.pins = gate.pins
          /\ gate'.at \in {"inputs", "lock", "evidence", "overlay", "identity", "exited"}
      BY <1>4, <2>2 DEF ParseOptions, CheckInputs, TakeLock, MakeEvidence, PrepareOverlay,
                        Goto, Exit
    <3> QED
      BY <1>1, <1>2, <3>1, OutsideCarries
  <2>3. CASE FinalReport \/ Exit("fail")
    <3>1. gate'.pins = gate.pins /\ gate'.at = "exited"
      BY <1>4, <2>3 DEF FinalReport, Exit
    <3> QED
      BY <1>1, <1>2, <3>1, OutsideCarries
  <2>4. CASE IdentifyBefore
    <3>1. CASE gate' = [gate EXCEPT !.at = "report", !.before = Identity] /\ world' = world
      <4>1. gate'.at = "report" /\ gate'.before = Identity /\ gate'.pins = gate.pins
        BY <1>4, <3>1
      <4>2. gate'.before.hagia_sha256 = world.hagia
        BY <4>1 DEF Identity
      <4> QED
        BY <1>1, <1>2, <3>1, <4>1, <4>2, OutsideCarries
    <3> QED
      BY <2>3, <2>4, <3>1 DEF IdentifyBefore
  <2>5. CASE ReportRunning
    <3>1. CASE gate' = [gate EXCEPT !.at = "next", !.todo = Planned] /\ world' = world
      <4>1. /\ gate.at = "report" /\ gate'.at = "next" /\ gate'.todo = Planned
            /\ gate'.pins = gate.pins /\ gate'.before = gate.before
            /\ gate'.command = gate.command
        BY <1>4, <2>5, <3>1 DEF ReportRunning, At
      <4>2. Done' = 0
        <5>1. Len(Planned) \in Nat /\ Planned' = Planned
          BY <1>1, <4>1, PlannedIsKnown DEF Ready, ProgressInv, PlanKnown, IsSeq, Planned
        <5> QED
          BY <4>1, <5>1 DEF Done
      <4>3. Listed'
        BY <1>1, <1>2, <4>1, ListedStays
      <4> QED
        BY <4>1, <4>2, <4>3 DEF Carried, Taken, Executing, Ran, InRun
    <3> QED
      BY <2>3, <2>5, <3>1 DEF ReportRunning, Planned
  <2>6. CASE TakePhase \/ LaunchPhase \/ JudgePhase \/ AfterPhase \/ ConcludeCase \/ JudgeCampaign
    BY <1>1, <1>2, <2>6, TakeCarries, LaunchCarries, JudgeCarries, AfterCarries, CaseCarries,
       CampaignCarries
  <2>7. CASE PhaseExits \/ WorkerExits \/ KillPhase
    BY <1>1, <1>2, <2>7, ExitCarries
  <2> QED
    BY <2>1, <2>2, <2>3, <2>4, <2>5, <2>6, <2>7 DEF GateNext, GateStep
<1>6. PassRanTheNamedBinaries'
  <2>1. gate'.exit = "pass" => gate'.at = "exited"
    BY <1>1 DEF CaptureInv, ProgressInv, StatusInv, At, Exited
  <2>2. CASE gate.at # "final" /\ gate.at # "exited"
    <3>1. gate'.at # "exited" \/ gate'.exit = "fail"
      BY <1>4, <2>2
         DEF GateNext, GateStep, ParseOptions, CheckInputs, TakeLock, MakeEvidence,
             PrepareOverlay, IdentifyBefore, ReportRunning, TakePhase, LaunchPhase, JudgePhase,
             AfterPhase, ConcludeCase, JudgeCampaign, FinalReport, PhaseStep, PhaseExits,
             WorkerExits, KillPhase, Tick, OtherGate, Tamper, gateVars, At, Goto, Exit,
             Conclude, PhaseDone
    <3> QED
      BY <2>1, <3>1 DEF PassRanTheNamedBinaries
  <2>3. CASE gate.at = "exited"
    <3>1. gate' = gate /\ ran' = ran
      BY <2>3
         DEF GateNext, GateStep, ParseOptions, CheckInputs, TakeLock, MakeEvidence,
             PrepareOverlay, IdentifyBefore, ReportRunning, TakePhase, LaunchPhase, JudgePhase,
             AfterPhase, ConcludeCase, JudgeCampaign, FinalReport, PhaseStep, PhaseExits,
             WorkerExits, KillPhase, Tick, OtherGate, Tamper, gateVars, At
    <3> QED
      BY <3>1 DEF BinaryInv, PassRanTheNamedBinaries
  <2>4. CASE gate.at = "final"
    <3>1. CASE FinalReport /\ gate'.exit = "pass"
      <4>1. ran' = ran /\ gate'.pins = gate.pins /\ gate'.command = gate.command
        BY <1>4, <3>1 DEF FinalReport, Exit
      <4>2. ~gate.error /\ Coherent
        <5>1. \A result : Exit(result) => gate'.exit = result
          BY <1>4 DEF Exit
        <5>2. PICK coherent \in {Coherent, FALSE} :
                Exit(IF ~gate.error /\ coherent THEN "pass" ELSE "fail")
          BY <3>1, <5>1 DEF FinalReport
        <5>3. (IF ~gate.error /\ coherent THEN "pass" ELSE "fail") = "pass"
          BY <3>1, <5>1, <5>2
        <5>4. ~gate.error /\ coherent
          BY <5>3
        <5> QED
          BY <5>2, <5>4
      <4>3. DOMAIN Planned = 1..Len(Planned)
        BY <1>1, PlannedIsKnown DEF Ready, ProgressInv, PlanKnown, IsSeq
      <4>4. \A i \in DOMAIN Planned : Judged(Planned[i]) =>
              \E case \in ran : /\ case.item = Planned[i]
                                /\ case.tests = gate.pins[Planned[i].family]
                                /\ case.hagia = {Frozen}
        BY <1>1, <2>4, <4>2, <4>3, PassEarned
      <4> QED
        BY <4>1, <4>4 DEF PassRanTheNamedBinaries, Planned
    <3>2. CASE ~FinalReport
      <4>1. gate'.at # "exited"
        BY <1>4, <2>4, <3>2
         DEF GateNext, GateStep, ParseOptions, CheckInputs, TakeLock, MakeEvidence,
             PrepareOverlay, IdentifyBefore, ReportRunning, TakePhase, LaunchPhase, JudgePhase,
             AfterPhase, ConcludeCase, JudgeCampaign, PhaseStep, PhaseExits,
             WorkerExits, KillPhase, Tick, OtherGate, Tamper, gateVars, At
      <4> QED
        BY <2>1, <4>1 DEF PassRanTheNamedBinaries
    <3> QED
      BY <3>1, <3>2 DEF PassRanTheNamedBinaries
  <2> QED
    BY <2>2, <2>3, <2>4
<1> QED
  BY <1>1, <1>2, <1>3, <1>5, <1>6 DEF BinaryInv, Again, Carried

(* Every case of a gate that passed ran the test executable that was listed  *)
(* and the frozen Hagia, whatever files were replaced, how many and when.    *)
THEOREM PassRan == GateSpec => []PassRanTheNamedBinaries
<1>1. GateInit => BinaryInv
  <2> SUFFICES ASSUME GateInit PROVE BinaryInv
    OBVIOUS
  <2>1. CaptureInv
    BY ProgressStart, NoDragInv DEF GateInit, CaptureInv
  <2>2. Files /\ Listed
    BY DEF GateInit, Files, Listed, Built, InPhases
  <2>3. Taken /\ Executing /\ Ran /\ OwnCase /\ PassRanTheNamedBinaries
    BY DEF GateInit, Taken, Executing, Ran, OwnCase, PassRanTheNamedBinaries, InRun, InPhases,
           NoDrag
  <2> QED
    BY <2>1, <2>2, <2>3 DEF BinaryInv
<1>2. BinaryInv => PassRanTheNamedBinaries
  BY DEF BinaryInv
<1> QED
  BY <1>1, <1>2, BinaryStep, PTL DEF GateSpec

-----------------------------------------------------------------------------
(* The overlay that is recorded is the one that was laid, as long as nobody  *)
(* edits the scratch.                                                        *)
Overlaid == gate.at \notin {"options", "inputs", "lock", "evidence", "overlay", "exited"}
                \/ gate.exit = "pass"

LaidOut == /\ Prepared.fits
           /\ world.scratch.tree = Prepared.tree /\ disk.overlay = Prepared.files

OverlayInv ==
    /\ Shape /\ mishaps \in Nat
    /\ gate.exit = "pass" => gate.at = "exited"
    /\ Overlaid /\ mishaps = 0 => LaidOut

LEMMA PhaseCounts == PhaseStep => mishaps' = mishaps \/ mishaps' = mishaps + 1
BY DEF PhaseStep, WorkerStep, StartFixture, FixtureExits, WriteEnvironment, WriteLoad, DragStep,
       SetUp, WriteCapture, EndDrag, OfferAdmitted, OfferReplaces, OfferRefused, PanicInOffer,
       Dispatch, SettleCommitted, SettleRefused, PanicInSample, LoopCompletes, LoopExpires,
       LoopFails, DragClock, Mishap, NoMishap

(* What a step that is not PrepareOverlay's leaves of the overlay.           *)
LEMMA OverlayKept ==
  ASSUME OverlayInv, mishaps' = mishaps \/ mishaps' = mishaps + 1,
         gate'.exit = "pass" => gate'.at = "exited",
         Overlaid' => Overlaid,
         mishaps' = mishaps => world'.scratch = world.scratch /\ disk'.overlay = disk.overlay,
         Shape'
  PROVE  OverlayInv'
<1>1. mishaps' \in Nat /\ (mishaps' = 0 => mishaps' = mishaps)
  BY DEF OverlayInv
<1>2. Prepared' = Prepared
  BY DEF Prepared, FixturesInstalled, Laid, DependenciesFit, DependenciesAdded, Applied, MountFiles
<1>3. CASE mishaps' # 0
  BY <1>1, <1>3 DEF OverlayInv
<1>4. CASE mishaps' = 0
  BY <1>1, <1>2, <1>4 DEF OverlayInv, LaidOut
<1> QED
  BY <1>3, <1>4

LEMMA OverlayStep == OverlayInv /\ [GateNext]_gateVars => OverlayInv'
<1> SUFFICES ASSUME OverlayInv, [GateNext]_gateVars PROVE OverlayInv'
  OBVIOUS
<1>1. Shape'
  BY ShapeStep DEF OverlayInv
<1>2. /\ GateFields \subseteq DOMAIN gate /\ DiskFields \subseteq DOMAIN disk
      /\ WorldFields \subseteq DOMAIN world
      /\ gate.exit = "pass" => gate.at = "exited"
  BY DEF OverlayInv, Shape
<1>3. CASE PhaseStep \/ Tick \/ OtherGate \/ PhaseExits \/ UNCHANGED gateVars
  <2>1. mishaps' = mishaps \/ mishaps' = mishaps + 1
    BY <1>3, PhaseCounts DEF Tick, OtherGate, PhaseExits, gateVars
  <2>2. /\ gate'.exit = gate.exit
        /\ gate'.at = gate.at \/ (gate.at = "running" /\ gate'.at = "judge")
        /\ world'.scratch = world.scratch /\ disk' = disk
    <3>1. CASE PhaseExits
      BY <1>2, <3>1 DEF PhaseExits, At
    <3>2. CASE PhaseStep \/ UNCHANGED gateVars
      <4>1. gate' = gate /\ world' = world /\ disk' = disk
        BY <3>2 DEF PhaseStep, gateVars
      <4> QED
        BY <4>1
    <3>3. CASE Tick
      <4>1. world' = world /\ disk' = disk
        BY <3>3 DEF Tick
      <4>2. gate'.exit = gate.exit /\ gate'.at = gate.at
        BY <1>2, <3>3 DEF Tick
      <4> QED
        BY <4>1, <4>2
    <3>4. CASE OtherGate
      <4>1. gate' = gate /\ disk' = disk
        BY <3>4 DEF OtherGate
      <4>2. world'.scratch = world.scratch
        BY <1>2, <3>4 DEF OtherGate
      <4> QED
        BY <4>1, <4>2
    <3> QED
      BY <1>3, <3>1, <3>2, <3>3, <3>4
  <2> QED
    BY <1>1, <1>2, <2>1, <2>2, OverlayKept DEF Overlaid
<1>4. CASE Tamper
  BY <1>1, <1>2, <1>4, OverlayKept DEF Tamper, Mishap, Overlaid, OverlayInv
<1>5. CASE ParseOptions \/ CheckInputs \/ TakeLock \/ MakeEvidence
  <2>1. /\ mishaps' = mishaps \/ mishaps' = mishaps + 1
        /\ gate'.exit = gate.exit \/ gate'.exit = "fail"
        /\ gate'.at \in {"inputs", "lock", "evidence", "overlay", "exited"}
        /\ gate.at # "exited"
    BY <1>2, <1>5 DEF ParseOptions, CheckInputs, TakeLock, MakeEvidence, Goto, Exit, At, Mishap,
                      NoMishap
  <2>2. world'.scratch = world.scratch /\ disk' = disk
    BY <1>2, <1>5 DEF ParseOptions, CheckInputs, TakeLock, MakeEvidence, Exit
  <2> QED
    BY <1>1, <1>2, <2>1, <2>2, OverlayKept DEF Overlaid
<1>6. CASE PrepareOverlay
  <2>1. CASE /\ Prepared.fits
             /\ world' = [world EXCEPT !.scratch = [Scratch EXCEPT !.tree = Prepared.tree]]
             /\ disk' = [disk EXCEPT !.overlay = Prepared.files]
             /\ Goto("identity") /\ NoMishap
    <3>1. /\ gate'.exit = gate.exit /\ gate'.at = "identity" /\ gate.at # "exited"
          /\ mishaps' = mishaps
      BY <1>2, <1>6, <2>1 DEF Goto, NoMishap, PrepareOverlay, At
    <3>2. world'.scratch.tree = Prepared.tree /\ disk'.overlay = Prepared.files
      BY <1>2, <2>1 DEF Scratch
    <3>3. LaidOut'
      BY <2>1, <3>2 DEF LaidOut
    <3> QED
      BY <1>1, <1>2, <3>1, <3>3 DEF OverlayInv
  <2>2. CASE /\ Exit("fail") /\ gate.at = "overlay"
             /\ mishaps' = mishaps \/ mishaps' = mishaps + 1
    BY <1>1, <1>2, <2>2 DEF Exit, OverlayInv, Overlaid
  <2> QED
    BY <1>6, <2>1, <2>2 DEF PrepareOverlay, Mishap, NoMishap, At
<1>7. CASE IdentifyBefore \/ ReportRunning \/ FinalReport
  <2>1. mishaps' = mishaps \/ mishaps' = mishaps + 1
    BY <1>7 DEF IdentifyBefore, ReportRunning, FinalReport, Mishap, NoMishap
  <2>2. gate.at \in {"identity", "report", "final"} /\ world'.scratch = world.scratch
    BY <1>2, <1>7 DEF IdentifyBefore, ReportRunning, FinalReport, Exit, At
  <2>3. disk'.overlay = disk.overlay
    BY <1>2, <1>7 DEF IdentifyBefore, ReportRunning, FinalReport, WriteReport, TearReport
  <2>4. gate'.exit = gate.exit \/ gate'.at = "exited"
    BY <1>2, <1>7 DEF IdentifyBefore, ReportRunning, FinalReport, Exit
  <2> QED
    BY <1>1, <1>2, <2>1, <2>2, <2>3, <2>4, OverlayKept DEF Overlaid
<1>8. CASE \/ TakePhase \/ LaunchPhase \/ JudgePhase \/ AfterPhase
           \/ ConcludeCase \/ JudgeCampaign \/ WorkerExits \/ KillPhase
  <2>1. mishaps' = mishaps \/ mishaps' = mishaps + 1
    BY <1>8 DEF TakePhase, LaunchPhase, JudgePhase, AfterPhase, ConcludeCase, JudgeCampaign,
                WorkerExits, KillPhase, Mishap, NoMishap
  <2>2. /\ gate.at \in {"next", "launch", "judge", "after", "running"} /\ world' = world
        /\ gate'.exit = gate.exit
    BY <1>2, <1>8 DEF TakePhase, LaunchPhase, JudgePhase, AfterPhase, ConcludeCase,
         JudgeCampaign, WorkerExits, KillPhase, At, Goto, Conclude, PhaseDone
  <2>3. disk'.overlay = disk.overlay
    BY <1>2, <1>8 DEF TakePhase, LaunchPhase, JudgePhase, AfterPhase, ConcludeCase,
         JudgeCampaign, WorkerExits, KillPhase, WriteReport, TearReport
  <2> QED
    BY <1>1, <1>2, <2>1, <2>2, <2>3, OverlayKept DEF Overlaid
<1> QED
  BY <1>3, <1>4, <1>5, <1>6, <1>7, <1>8 DEF GateNext, GateStep

(* The manifest of a gate that passed names every file of the scratch that   *)
(* differs from the pinned commit, as it is, and no other, for every list of *)
(* fixtures, dependency edits and legacy recipes that the overlay fits.      *)
THEOREM ManifestNames == GateSpec => []ManifestNamesEveryChange
<1>1. GateInit => OverlayInv
  <2> SUFFICES ASSUME GateInit PROVE OverlayInv
    OBVIOUS
  <2>1. gate.at = "options" /\ gate.exit = "none"
    BY DEF GateInit
  <2> QED
    BY <2>1, ShapeInit DEF OverlayInv, Overlaid, GateInit
<1>2. OverlayInv => ManifestNamesEveryChange
  <2> SUFFICES ASSUME OverlayInv, gate.exit = "pass", mishaps = 0
               PROVE  ManifestNamesEveryChange
    BY DEF ManifestNamesEveryChange
  <2>1. LaidOut
    BY DEF OverlayInv, Overlaid
  <2>2. disk.overlay = {[path |-> p, content |-> Prepared.tree[p]] : p \in Differing(Prepared.tree)}
    BY <2>1, ManifestNamesTheOverlay DEF LaidOut
  <2>3. PinnedTree = CommitTree[Compatibility.sophia_commit]
    BY DEF PinnedTree, Scratch
  <2> QED
    BY <2>1, <2>2, <2>3 DEF LaidOut, Differing, ManifestNamesEveryChange
<1> QED
  BY <1>1, <1>2, OverlayStep, PTL DEF GateSpec

-----------------------------------------------------------------------------
(* The worker of a case and what it leaves.                                  *)

WorkerFields == {"at", "stopping", "success", "proc", "threads", "blocks", "load",
                 "environment"}

(* A file that is there or is not.                                           *)
OneAtMost(file) == file = <<>> \/ file = <<file[1]>>

(* The reports of a worker that passes are those of its load and fixture.    *)
WorkerInv(load) ==
    /\ WorkerFields \subseteq DOMAIN worker
    /\ DOMAIN worker.threads = 1..Workers(load)
    /\ worker.blocks \in [1..Workers(load) -> Nat]
    /\ OneAtMost(worker.load) /\ OneAtMost(worker.environment)
    /\ worker.at \in {"spawned", "waiting", "fixture"} => ~worker.success
    /\ worker.success => drag.at = "passed"
    /\ worker.at \in {"reporting", "passed"} =>
           /\ worker.environment # <<>>
           /\ ValidEnvironment(worker.environment[1])
    /\ worker.at = "passed" =>
           /\ worker.success
           /\ worker.load # <<>> /\ ValidLoad(worker.load[1], load)

LEMMA WorkersCount ==
  ASSUME NEW load
  PROVE  Workers(load) \in Nat /\ Cardinality(1..Workers(load)) = Workers(load)
<1>1. Workers(load) \in Nat
  BY DEF Workers
<1> QED
  BY <1>1, FS_Interval

LEMMA WrittenLoad ==
  ASSUME NEW load, NEW blocks \in [1..Workers(load) -> Nat],
         \A id \in 1..Workers(load) : blocks[id] > 0
  PROVE  ValidLoad([workers |-> Workers(load), blocks_per_worker |-> blocks, elapsed_ns |-> 1],
                   load)
<1> DEFINE report == [workers |-> Workers(load), blocks_per_worker |-> blocks, elapsed_ns |-> 1]
           n == Workers(load)
<1>1. n \in Nat
  BY WorkersCount
<1>2. /\ report.workers = n /\ report.blocks_per_worker = blocks
      /\ report.elapsed_ns = 1
  OBVIOUS
<1> HIDE DEF report, n
<1>3. blocks \in Seq(Nat) /\ Len(blocks) = n /\ DOMAIN blocks = 1..n
  BY <1>1 DEF n
<1>4. \A id \in 1..n : blocks[id] > 0
  BY DEF n
<1> QED
  BY <1>2, <1>3, <1>4 DEF ValidLoad, n, report

LEMMA NewWorkerInv ==
  ASSUME NEW load, NEW proc, worker' = NewWorker(load, proc)
  PROVE  WorkerInv(load)'
<1> DEFINE new == NewWorker(load, proc)
<1>1. /\ WorkerFields \subseteq DOMAIN new
      /\ DOMAIN new.threads = 1..Workers(load)
      /\ new.blocks \in [1..Workers(load) -> Nat]
      /\ new.load = <<>> /\ new.environment = <<>>
      /\ new.at = "spawned" /\ new.success = FALSE
  BY DEF NewWorker, WorkerFields
<1> HIDE DEF new
<1> QED
  BY <1>1 DEF WorkerInv, OneAtMost, new

LEMMA WorkerInvStep ==
  ASSUME NEW work, NEW frozen, WorkerInv(work.load), WorkerStep(work, frozen)
  PROVE  WorkerInv(work.load)'
<1> DEFINE load == work.load
           n == Workers(load)
<1>1. /\ WorkerFields \subseteq DOMAIN worker
      /\ DOMAIN worker.threads = 1..n
      /\ worker.blocks \in [1..n -> Nat]
      /\ OneAtMost(worker.load) /\ OneAtMost(worker.environment)
      /\ worker.at \in {"spawned", "waiting", "fixture"} => ~worker.success
      /\ worker.success => drag.at = "passed"
      /\ worker.at \in {"reporting", "passed"} =>
             /\ worker.environment # <<>>
             /\ ValidEnvironment(worker.environment[1])
      /\ worker.at = "passed" =>
             /\ worker.success
             /\ worker.load # <<>> /\ ValidLoad(worker.load[1], load)
  BY DEF WorkerInv
<1> SUFFICES
      /\ WorkerFields \subseteq DOMAIN worker'
      /\ DOMAIN worker'.threads = 1..n
      /\ worker'.blocks \in [1..n -> Nat]
      /\ OneAtMost(worker'.load) /\ OneAtMost(worker'.environment)
      /\ worker'.at \in {"spawned", "waiting", "fixture"} => ~worker'.success
      /\ worker'.success => drag'.at = "passed"
      /\ worker'.at \in {"reporting", "passed"} =>
             /\ worker'.environment # <<>>
             /\ ValidEnvironment(worker'.environment[1])
      /\ worker'.at = "passed" =>
             /\ worker'.success
             /\ worker'.load # <<>> /\ ValidLoad(worker'.load[1], load)
  BY DEF WorkerInv, OneAtMost
<1> HIDE DEF load, n
<1>2. CASE MainArrives /\ UNCHANGED <<drag, mishaps>>
  BY <1>1, <1>2 DEF MainArrives, WorkerFields
<1>3. CASE LoadStep /\ UNCHANGED <<drag, mishaps>>
  <2>1. PICK id \in Threads : ThreadArrives(id) \/ ThreadStops(id)
    BY <1>3 DEF LoadStep
  <2>2. CASE ThreadArrives(id)
    BY <1>1, <1>3, <2>2 DEF ThreadArrives, WorkerFields
  <2>3. CASE ThreadStops(id)
    <3>1. PICK blocks \in 0..1 :
            worker' = [worker EXCEPT !.threads[id] = "done", !.blocks[id] = blocks]
      BY <2>3 DEF ThreadStops
    <3> DEFINE stopped == [worker EXCEPT !.threads[id] = "done"]
    <3>2. worker' = [stopped EXCEPT !.blocks[id] = blocks]
      BY <3>1
    <3>3. /\ DOMAIN stopped = DOMAIN worker /\ DOMAIN stopped.threads = 1..n
          /\ \A field \in DOMAIN worker \ {"threads"} : stopped[field] = worker[field]
      BY <1>1 DEF WorkerFields
    <3> HIDE DEF stopped
    <3>4. /\ DOMAIN worker' = DOMAIN worker
          /\ \A field \in DOMAIN worker \ {"threads", "blocks"} : worker'[field] = worker[field]
          /\ worker'.threads = stopped.threads
          /\ worker'.blocks = [worker.blocks EXCEPT ![id] = blocks]
      BY <1>1, <3>2, <3>3 DEF WorkerFields
    <3>5. worker'.blocks \in [1..n -> Nat]
      <4>1. \A S, T : \A f \in [S -> T], e \in T : \A i : [f EXCEPT ![i] = e] \in [S -> T]
        OBVIOUS
      <4>2. blocks \in Nat
        OBVIOUS
      <4> QED
        BY <1>1, <3>4, <4>1, <4>2
    <3> QED
      BY <1>1, <1>3, <3>3, <3>4, <3>5 DEF WorkerFields
  <2> QED
    BY <2>1, <2>2, <2>3
<1>4. CASE StartFixture(work)
  <2>1. \/ worker' = [worker EXCEPT !.at = "fixture"]
        \/ worker' = [worker EXCEPT !.at = "joining", !.stopping = TRUE]
    BY <1>4 DEF StartFixture
  <2>2. ~worker.success
    BY <1>1, <1>4 DEF StartFixture
  <2>3. CASE worker' = [worker EXCEPT !.at = "fixture"]
    BY <1>1, <2>2, <2>3 DEF WorkerFields
  <2>4. CASE worker' = [worker EXCEPT !.at = "joining", !.stopping = TRUE]
    <3>1. /\ DOMAIN worker' = DOMAIN worker /\ worker'.at = "joining"
          /\ \A field \in DOMAIN worker \ {"at", "stopping"} : worker'[field] = worker[field]
      BY <1>1, <2>4 DEF WorkerFields
    <3> QED
      BY <1>1, <2>2, <3>1 DEF WorkerFields
  <2> QED
    BY <2>1, <2>3, <2>4
<1>5. CASE worker.at = "fixture" /\ DragStep(frozen) /\ UNCHANGED worker
  BY <1>1, <1>5
<1>6. CASE FixtureExits
  <2>1. worker' = [worker EXCEPT !.at = "joining", !.stopping = TRUE,
                                 !.success = drag.at = "passed"] /\ drag' = drag
    BY <1>6 DEF FixtureExits
  <2> DEFINE joining == [worker EXCEPT !.at = "joining", !.stopping = TRUE]
             passed == drag.at = "passed"
  <2>2. /\ DOMAIN joining = DOMAIN worker /\ joining.at = "joining"
        /\ \A field \in DOMAIN worker \ {"at", "stopping"} : joining[field] = worker[field]
    BY <1>1 DEF WorkerFields
  <2>3. worker' = [joining EXCEPT !.success = passed]
    BY <2>1
  <2> HIDE DEF joining
  <2>4. /\ DOMAIN worker' = DOMAIN worker /\ worker'.at = "joining" /\ worker'.success = passed
        /\ \A field \in DOMAIN worker \ {"at", "stopping", "success"} :
               worker'[field] = worker[field]
    BY <1>1, <2>2, <2>3 DEF WorkerFields
  <2> QED
    BY <1>1, <2>1, <2>4 DEF WorkerFields
<1>7. CASE WriteEnvironment
  <2>1. \/ worker' = [worker EXCEPT !.at = "reporting",
                                    !.environment = <<Environment(worker.proc)>>]
        \/ worker' = [worker EXCEPT !.at = "failed"]
    BY <1>7 DEF WriteEnvironment, Environment
  <2>2. worker.at = "joining" /\ drag' = drag
    BY <1>7 DEF WriteEnvironment
  <2>3. CASE worker' = [worker EXCEPT !.at = "failed"]
    BY <1>1, <2>2, <2>3 DEF WorkerFields
  <2>4. CASE worker' = [worker EXCEPT !.at = "reporting",
                                      !.environment = <<Environment(worker.proc)>>]
    <3> DEFINE made == Environment(worker.proc)
    <3>1. ValidEnvironment(made)
      BY EnvironmentIsValid
    <3> HIDE DEF made
    <3>2. /\ DOMAIN worker' = DOMAIN worker /\ worker'.at = "reporting"
          /\ worker'.environment = <<made>>
          /\ \A field \in DOMAIN worker \ {"at", "environment"} : worker'[field] = worker[field]
      BY <1>1, <2>4 DEF WorkerFields, made
    <3>3. <<made>>[1] = made /\ <<made>> # <<>>
      OBVIOUS
    <3> QED
      BY <1>1, <2>2, <3>1, <3>2, <3>3 DEF WorkerFields, OneAtMost
  <2> QED
    BY <2>1, <2>3, <2>4
<1>8. CASE WriteLoad
  <2> DEFINE report == [workers |-> Cardinality(Threads), blocks_per_worker |-> worker.blocks,
                        elapsed_ns |-> 1]
             progress == \A id \in Threads : worker.blocks[id] > 0
  <2>1. worker.at = "reporting" /\ drag' = drag
    BY <1>8 DEF WriteLoad
  <2>2. \/ worker' = [worker EXCEPT !.load = <<report>>,
                                    !.at = IF worker.success /\ progress THEN "passed" ELSE "failed"]
        \/ worker' = [worker EXCEPT !.at = "failed", !.load = <<TornLoad>>]
    BY <1>8 DEF WriteLoad
  <2>3. progress => ValidLoad(report, load)
    BY <1>1, WorkersCount, WrittenLoad DEF Threads, n
  <2>4. <<report>>[1] = report /\ <<TornLoad>>[1] = TornLoad
    OBVIOUS
  <2> HIDE DEF report, progress
  <2>5. /\ DOMAIN worker' = DOMAIN worker
        /\ \/ /\ worker'.load = <<report>>
              /\ worker'.at = IF worker.success /\ progress THEN "passed" ELSE "failed"
           \/ worker'.load = <<TornLoad>> /\ worker'.at = "failed"
        /\ \A field \in DOMAIN worker \ {"at", "load"} : worker'[field] = worker[field]
    BY <1>1, <2>2 DEF WorkerFields
  <2> QED
    BY <1>1, <2>1, <2>3, <2>4, <2>5 DEF WorkerFields, OneAtMost
<1> QED
  BY <1>2, <1>3, <1>4, <1>5, <1>6, <1>7, <1>8 DEF WorkerStep

-----------------------------------------------------------------------------
(* The evidence of a campaign, case by case.                                 *)

Exercising == gate.at = "running" /\ Phase.judge = "measure"
Judging == gate.at = "judge" /\ Phase.judge = "measure"

(* How many cases passed: the three phases before them are not measured.     *)
CasesDone == IF gate.command.measure = "none" \/ Done <= 3 THEN 0 ELSE Done - 3

(* The entries are in order and bind the files beside them.                  *)
Listings(runs, cases) ==
    /\ IsSeq(runs) /\ Len(runs) <= MaxRuns
    /\ \A o \in DOMAIN cases :
           /\ OneAtMost(cases[o].capture) /\ OneAtMost(cases[o].load)
           /\ OneAtMost(cases[o].environment)
    /\ \A i \in 1..Len(runs) :
           /\ runs[i].ordinal = i /\ runs[i].path = i /\ runs[i].pair \in 1..MaxPair
           /\ i \in DOMAIN cases
           /\ cases[i].capture = <<runs[i].sha256>>
           /\ cases[i].load = <<runs[i].load_sha256>>
           /\ cases[i].environment = <<runs[i].environment_sha256>>

(* Whatever has its three files is listed.                                   *)
AllListed(runs, cases) ==
    \A o \in DOMAIN cases : Present(cases[o]) => o \in 1..Len(runs)

(* The files of a case whose worker passed.                                  *)
Succeeded(files, load) ==
    /\ files.capture # <<>> /\ Answered(files.capture[1])
    /\ files.load # <<>> /\ ValidLoad(files.load[1], load)
    /\ files.environment # <<>> /\ ValidEnvironment(files.environment[1])

Bound ==
    /\ {"whole", "runs"} \subseteq DOMAIN disk.manifest
    /\ Listings(disk.manifest.runs, disk.cases)
    /\ \A i \in 1..Len(disk.manifest.runs) :
           GapIsElapsedTime(disk.manifest.runs[i], gate.command.saves)
    /\ ~InPhases /\ gate.at \notin {"final", "exited"} =>
           disk.cases = <<>> /\ disk.manifest.runs = <<>> /\ disk.manifest.whole
    /\ gate.at = "final" /\ disk.manifest.whole => AllListed(disk.manifest.runs, disk.cases)

(* As long as the campaign goes on its cases passed, but the one at hand.    *)
Ongoing ==
    InPhases =>
        /\ disk.manifest.whole
        /\ Len(disk.manifest.runs) = CasesDone
        /\ \A o \in DOMAIN disk.cases :
               o \in 1..CasesDone \/ (Judging /\ o = Work.ordinal)
        /\ \A i \in 1..CasesDone : AsPlanned(disk.manifest.runs[i], WorkOf(i, gate.command.measure))

CaseAtHand ==
    Judging =>
        /\ \E n \in 0..Len(gate.command.saves) :
               gate.log.saves = SubSeq(gate.command.saves, 1, n)
        /\ gate.success =>
               /\ Work.ordinal \in DOMAIN disk.cases
               /\ Succeeded(disk.cases[Work.ordinal], Work.load)

Evidence == Bound /\ Ongoing /\ CaseAtHand

CampaignInv ==
    /\ CaptureInv /\ FileInv
    /\ Exercising => WorkerInv(Work.load)
    /\ Evidence

LEMMA ListingsBind ==
  ASSUME NEW runs, NEW cases, Listings(runs, cases)
  PROVE  /\ Contiguous(runs) \/ runs = <<>>
         /\ PinnedBytes(runs, cases)
         /\ DOMAIN runs = 1..Len(runs)
<1>1. Len(runs) \in Nat /\ DOMAIN runs = 1..Len(runs) /\ runs \in Seq(RangeOf(runs))
  BY DEF Listings, IsSeq
<1>2. MaxRuns \in Nat
  BY CampaignAssumption
<1>3. ASSUME runs # <<>> PROVE Contiguous(runs)
  <2>1. Len(runs) # 0
    BY <1>1, <1>3
  <2>2. Len(runs) \in 1..MaxRuns
    BY <1>1, <1>2, <2>1 DEF Listings
  <2> QED
    BY <1>1, <2>2 DEF Listings, Contiguous
<1>4. PinnedBytes(runs, cases)
  BY <1>1 DEF Listings, PinnedBytes
<1> QED
  BY <1>1, <1>3, <1>4

(* A sequence with one more element.                                         *)
LEMMA AppendIs ==
  ASSUME NEW s, NEW e, IsSeq(s)
  PROVE  /\ IsSeq(Append(s, e)) /\ Len(s) \in Nat /\ Len(Append(s, e)) = Len(s) + 1
         /\ \A i \in 1..Len(s) : Append(s, e)[i] = s[i]
         /\ Append(s, e)[Len(s) + 1] = e
<1> DEFINE S == RangeOf(s) \cup {e}
<1>1. s \in Seq(S) /\ e \in S
  BY DEF IsSeq
<1> HIDE DEF S
<1>2. /\ Append(s, e) \in Seq(S) /\ Len(s) \in Nat /\ Len(Append(s, e)) = Len(s) + 1
      /\ \A i \in 1..Len(s) : Append(s, e)[i] = s[i]
      /\ Append(s, e)[Len(s) + 1] = e
  BY <1>1
<1> QED
  BY <1>2, AnySeqIsSeq

LEMMA OneMoreListed ==
  ASSUME NEW runs, NEW cases, NEW entry, NEW o, Listings(runs, cases),
         o = Len(runs) + 1, o <= MaxRuns, o \in DOMAIN cases,
         entry.ordinal = o, entry.path = o, entry.pair \in 1..MaxPair,
         cases[o].capture = <<entry.sha256>>, cases[o].load = <<entry.load_sha256>>,
         cases[o].environment = <<entry.environment_sha256>>
  PROVE  Listings(Append(runs, entry), cases)
<1> DEFINE more == Append(runs, entry)
<1>1. /\ IsSeq(more) /\ Len(runs) \in Nat /\ Len(more) = o
      /\ \A i \in 1..Len(runs) : more[i] = runs[i]
      /\ more[o] = entry
  BY AppendIs DEF Listings
<1> HIDE DEF more
<1>2. \A i \in 1..o : i \in 1..Len(runs) \/ i = o
  BY <1>1
<1>3. ASSUME NEW i \in 1..Len(more)
      PROVE  /\ more[i].ordinal = i /\ more[i].path = i /\ more[i].pair \in 1..MaxPair
             /\ i \in DOMAIN cases
             /\ cases[i].capture = <<more[i].sha256>>
             /\ cases[i].load = <<more[i].load_sha256>>
             /\ cases[i].environment = <<more[i].environment_sha256>>
  <2>1. CASE i \in 1..Len(runs)
    BY <1>1, <2>1 DEF Listings
  <2>2. CASE i = o
    BY <1>1, <2>2
  <2> QED
    BY <1>1, <1>2, <2>1, <2>2
<1>4. Listings(more, cases)
  BY <1>1, <1>3 DEF Listings
<1> QED
  BY <1>4 DEF more

(* Files put beside those that are listed.                                   *)
Filed(cases, o, files, after) ==
    /\ DOMAIN after = DOMAIN cases \cup {o}
    /\ after[o] = files
    /\ \A p \in DOMAIN cases \ {o} : after[p] = cases[p]

LEMMA FilesKeepListings ==
  ASSUME NEW runs, NEW cases, NEW o, NEW files, NEW after,
         Listings(runs, cases), Filed(cases, o, files, after), o = Len(runs) + 1,
         OneAtMost(files.capture), OneAtMost(files.load), OneAtMost(files.environment)
  PROVE  Listings(runs, after)
<1>1. \A i \in 1..Len(runs) : i # o
  BY DEF Listings, IsSeq
<1>2. \A i \in 1..Len(runs) : i \in DOMAIN after /\ after[i] = cases[i]
  BY <1>1 DEF Listings, Filed
<1>3. ASSUME NEW p \in DOMAIN after
      PROVE  /\ OneAtMost(after[p].capture) /\ OneAtMost(after[p].load)
             /\ OneAtMost(after[p].environment)
  <2>1. CASE p = o
    BY <2>1 DEF Filed
  <2>2. CASE p # o
    BY <1>3, <2>2 DEF Filed, Listings
  <2> QED
    BY <2>1, <2>2
<1> QED
  BY <1>2, <1>3 DEF Listings

(* The saves of a log and their gaps.                                        *)
LEMMA SavesOfLog ==
  ASSUME gate.command \in Commands, NEW n \in 0..Len(gate.command.saves)
  PROVE  LET saves == SubSeq(gate.command.saves, 1, n)
         IN  IsSeq(saves) /\ Len(saves) = n /\ Stamped(saves)
<1> DEFINE all == gate.command.saves
           saves == SubSeq(all, 1, n)
<1>1. all \in Seq(Stamp) /\ n \in Nat /\ n <= Len(all)
  BY SavesAssumption
<1>2. \A i \in 1..Len(all) : \/ all[i].date = <<>>
                             \/ ParsesStamp(all[i]) /\ all[i].date[1] >= 1970
  BY <1>1, SavesAssumption
<1> HIDE DEF all
<1>3. saves \in Seq(Stamp) /\ Len(saves) = n /\ \A i \in 1..n : saves[i] = all[i]
  BY <1>1
<1> HIDE DEF saves
<1>4. IsSeq(saves)
  BY <1>3, AnySeqIsSeq
<1>5. Stamped(saves)
  BY <1>1, <1>2, <1>3 DEF Stamped
<1> QED
  BY <1>3, <1>4, <1>5 DEF saves, all

LEMMA IndexedGap ==
  ASSUME gate.command \in Commands, NEW work, NEW files, NEW log,
         \E n \in 0..Len(gate.command.saves) : log.saves = SubSeq(gate.command.saves, 1, n)
  PROVE  GapIsElapsedTime(Indexed(work, files, log), gate.command.saves)
<1> DEFINE all == gate.command.saves
           entry == Indexed(work, files, log)
           saves == SubSeq(all, 1, entry.checkpoint_saves)
           steps == {Elapsed(saves[j], saves[j + 1]) : j \in 1..Len(saves) - 1}
<1>1. all \in Seq(Stamp)
  BY SavesAssumption
<1>2. CASE log.readable
  <2>1. PICK n \in 0..Len(all) : log.saves = SubSeq(all, 1, n)
    OBVIOUS
  <2>2. IsSeq(log.saves) /\ Len(log.saves) = n /\ Stamped(log.saves)
    BY <2>1, SavesOfLog
  <2>3. /\ entry.checkpoint_saves = Len(log.saves)
        /\ entry.checkpoint_max_gap_ms = CheckpointGaps(log.saves).checkpoint_max_gap_ms
    BY <1>2 DEF Indexed, CheckpointGaps
  <2> HIDE DEF entry
  <2>4. saves = log.saves
    BY <2>1, <2>2, <2>3
  <2>5. GapIsElapsedTime(entry, all)
    BY <2>2, <2>3, <2>4, GapsAreElapsed DEF GapIsElapsedTime
  <2> QED
    BY <2>5 DEF entry, all
<1>3. CASE ~log.readable
  <2>1. entry.checkpoint_saves = Absent /\ entry.checkpoint_max_gap_ms = Absent
    BY <1>3 DEF Indexed
  <2> HIDE DEF entry, all
  <2>2. saves = <<>>
    BY <1>1, <2>1 DEF Absent
  <2>3. steps = {}
    <3> HIDE DEF saves
    <3>1. Len(saves) = 0
      BY <2>2
    <3>2. 1..Len(saves) - 1 = {}
      BY <3>1
    <3> QED
      BY <3>2
  <2> HIDE DEF saves
  <2>4. GapIsElapsedTime(entry, all)
    BY <2>1, <2>3 DEF GapIsElapsedTime, saves, all
  <2> QED
    BY <2>4 DEF entry, all
<1> QED
  BY <1>2, <1>3

(* Where the campaign stands.                                                *)
LEMMA CaseIsNext ==
  ASSUME ProgressInv, InPhases, gate.todo # <<>>, Phase.judge = "measure"
  PROVE  /\ gate.command.measure \in DOMAIN Pairs /\ CasesDone \in Nat
         /\ CasesDone + 1 \in 1..CampaignCases(gate.command.measure)
         /\ Work = WorkOf(CasesDone + 1, gate.command.measure)
         /\ Work.ordinal = CasesDone + 1
         /\ Work.pair \in 1..Pairs[gate.command.measure]
         /\ gate'.todo = Tail(gate.todo) /\ gate'.command = gate.command =>
                CasesDone' = CasesDone + 1
<1> DEFINE measure == gate.command.measure
           n == CampaignCases(measure)
<1>1. /\ measure \in DOMAIN Pairs /\ Done - 2 \in 1..n
      /\ Work = WorkOf(Done - 2, measure) /\ Workable(Work, measure)
  BY PhaseIsWorkable
<1>2. /\ Done + 1 \in 1..Len(Planned) /\ Phase = Planned[Done + 1] /\ Done \in Nat
      /\ Len(Tail(gate.todo)) = Len(gate.todo) - 1 /\ Len(gate.todo) \in Nat
  BY AtHand
<1>3. PlanKnown(measure, Planned)
  BY PlannedIsKnown DEF ProgressInv
<1>4. measure # "none" /\ Len(Planned) \in Nat
  BY <1>2, <1>3 DEF PlanKnown, IsSeq
<1>5. CasesDone \in Nat /\ CasesDone + 1 = Done - 2
  <2>1. Done \in Nat /\ Done - 2 >= 1
    BY <1>1, <1>2
  <2> QED
    BY <1>4, <2>1 DEF CasesDone
<1>6. WorkOf(Done - 2, measure).ordinal = Done - 2
  BY DEF WorkOf
<1>7. ASSUME gate'.todo = Tail(gate.todo), gate'.command = gate.command
      PROVE  CasesDone' = CasesDone + 1
  <2>1. Done' = Done + 1
    <3>1. Done' = Len(Planned) - Len(Tail(gate.todo))
      BY <1>7 DEF Done, Planned
    <3>2. \A a, b \in Nat : a - (b - 1) = (a - b) + 1
      OBVIOUS
    <3> QED
      BY <1>2, <1>4, <3>1, <3>2 DEF Done
  <2>2. Done \in Nat /\ Done - 2 >= 1
    BY <1>1, <1>2
  <2>3. CasesDone' = Done' - 3
    BY <1>4, <1>7, <2>1, <2>2 DEF CasesDone
  <2> QED
    BY <1>5, <2>1, <2>2, <2>3
<1> QED
  BY <1>1, <1>5, <1>6, <1>7 DEF Workable

LEMMA OtherPhaseDone ==
  ASSUME ProgressInv, InPhases, gate.todo # <<>>, Phase.judge \notin {"measure", "campaign"},
         gate'.todo = Tail(gate.todo), gate'.command = gate.command
  PROVE  CasesDone' = CasesDone
<1> DEFINE measure == gate.command.measure
           n == CampaignCases(measure)
<1>1. /\ Done + 1 \in 1..Len(Planned) /\ Phase = Planned[Done + 1] /\ Done \in Nat
      /\ Len(Tail(gate.todo)) = Len(gate.todo) - 1 /\ Len(gate.todo) \in Nat
  BY AtHand
<1>2. PlanKnown(measure, Planned)
  BY PlannedIsKnown DEF ProgressInv
<1>3. Len(Planned) \in Nat
  BY <1>2 DEF PlanKnown, IsSeq
<1>4. Done' = Done + 1
  <2>1. Done' = Len(Planned) - Len(Tail(gate.todo))
    BY DEF Done, Planned
  <2>2. \A a, b \in Nat : a - (b - 1) = (a - b) + 1
    OBVIOUS
  <2> QED
    BY <1>1, <1>3, <2>1, <2>2 DEF Done
<1>5. CASE measure = "none"
  BY <1>5 DEF CasesDone
<1>6. CASE measure # "none"
  <2>1. /\ Len(Planned) = 4 + n /\ Planned[Len(Planned)].judge = "campaign"
        /\ \A o \in 1..n : Planned[o + 3] = Measurement(o, measure)
    BY <1>2, <1>6 DEF PlanKnown
  <2>2. n \in Nat \ {0}
    BY <1>2, <1>6, ConditionsCount DEF PlanKnown
  <2>3. Done + 1 # Len(Planned)
    BY <1>1, <2>1
  <2>4. \A o \in 1..n : Done + 1 # o + 3
    <3> SUFFICES ASSUME NEW o \in 1..n, Done + 1 = o + 3 PROVE FALSE
      OBVIOUS
    <3>1. Phase = Measurement(o, measure)
      BY <1>1, <2>1
    <3> QED
      BY <3>1 DEF Measurement
  <2> HIDE DEF n
  <2>5. Done + 1 <= 3
    <3> SUFFICES ASSUME Done + 1 > 3 PROVE FALSE
      BY <1>1
    <3>1. (Done + 1) - 3 \in 1..n /\ Done + 1 = ((Done + 1) - 3) + 3
      BY <1>1, <1>3, <2>1, <2>2, <2>3
    <3> QED
      BY <2>4, <3>1
  <2>6. Done <= 3 /\ Done' <= 3
    BY <1>1, <1>4, <2>5
  <2> QED
    BY <2>6 DEF CasesDone
<1> QED
  BY <1>5, <1>6

LEMMA SamePlace ==
  ASSUME gate'.todo = gate.todo, gate'.command = gate.command
  PROVE  /\ CasesDone' = CasesDone /\ Done' = Done /\ Planned' = Planned
         /\ Phase' = Phase /\ Work' = Work
BY DEF CasesDone, Done, Planned, Phase, Work

(* The campaign is at its report with every case done.                       *)
LEMMA EveryCaseDone ==
  ASSUME ProgressInv, gate.at = "next", gate.todo # <<>>, Phase.judge = "campaign"
  PROVE  /\ gate.command.measure \in DOMAIN Pairs
         /\ CasesDone = CampaignCases(gate.command.measure)
<1> DEFINE measure == gate.command.measure
           n == CampaignCases(measure)
<1>1. Done + 1 \in 1..Len(Planned) /\ Phase = Planned[Done + 1] /\ Done \in Nat
  BY AtHand DEF InPhases
<1>2. PlanKnown(measure, Planned)
  BY PlannedIsKnown DEF ProgressInv
<1>3. measure # "none" /\ Done + 1 = Len(Planned)
  BY <1>1, <1>2 DEF PlanKnown
<1>4. measure \in DOMAIN Pairs /\ Len(Planned) = 4 + n
  BY <1>2, <1>3 DEF PlanKnown
<1>5. n \in Nat \ {0}
  BY <1>3, <1>4, ConditionsCount
<1> HIDE DEF n
<1>6. Done = 3 + n
  BY <1>1, <1>3, <1>4, <1>5
<1>7. CasesDone = n
  <2>1. ~(Done <= 3) /\ Done - 3 = n
    BY <1>5, <1>6
  <2> QED
    BY <1>3, <2>1 DEF CasesDone
<1> QED
  BY <1>4, <1>7 DEF n

-----------------------------------------------------------------------------
(* Steps that leave the files and the manifest as they are.                  *)

Untouched ==
    /\ disk'.cases = disk.cases /\ disk'.manifest = disk.manifest
    /\ gate'.command = gate.command

LEMMA BoundStays ==
  ASSUME Bound, Untouched
  PROVE  /\ {"whole", "runs"} \subseteq DOMAIN disk'.manifest
         /\ Listings(disk'.manifest.runs, disk'.cases)
         /\ \A i \in 1..Len(disk'.manifest.runs) :
                GapIsElapsedTime(disk'.manifest.runs[i], gate'.command.saves)
BY DEF Bound, Untouched

(* The runner stays where it is.                                             *)
LEMMA EvidenceWaits ==
  ASSUME Evidence, Untouched, gate'.at = gate.at, gate'.todo = gate.todo,
         gate'.success = gate.success, gate'.log = gate.log
  PROVE  Evidence'
<1>1. /\ CasesDone' = CasesDone /\ Phase' = Phase /\ Work' = Work
      /\ InPhases' = InPhases /\ Judging' = Judging
  BY SamePlace DEF Untouched, InPhases, Judging, Phase
<1>2. Bound'
  <2>1. /\ ~InPhases /\ gate.at \notin {"final", "exited"} =>
             disk.cases = <<>> /\ disk.manifest.runs = <<>> /\ disk.manifest.whole
        /\ gate.at = "final" /\ disk.manifest.whole => AllListed(disk.manifest.runs, disk.cases)
    BY DEF Evidence, Bound
  <2> QED
    BY <1>1, <2>1, BoundStays DEF Evidence, Bound, Untouched
<1>3. Ongoing'
  BY <1>1 DEF Evidence, Ongoing, Untouched
<1>4. CaseAtHand'
  BY <1>1 DEF Evidence, CaseAtHand, Untouched
<1> QED
  BY <1>2, <1>3, <1>4 DEF Evidence

(* Before the phases and after the end there is nothing to judge.            *)
LEMMA EvidenceOutside ==
  ASSUME Evidence, Untouched, ~InPhases', gate'.at # "final",
         gate'.at = "exited" \/ (~InPhases /\ gate.at \notin {"final", "exited"})
  PROVE  Evidence'
<1>1. ~Judging'
  BY DEF Judging, InPhases
<1>2. Bound'
  BY BoundStays DEF Evidence, Bound, Untouched
<1> QED
  BY <1>1, <1>2 DEF Evidence, Ongoing, CaseAtHand

LEMMA EvidenceBegins ==
  ASSUME Evidence, Untouched, ~InPhases, gate.at \notin {"final", "exited"},
         gate'.at = "next", CasesDone' = 0
  PROVE  Evidence'
<1>1. /\ disk.cases = <<>> /\ disk.manifest.runs = <<>> /\ disk.manifest.whole
  BY DEF Evidence, Bound
<1>2. InPhases' /\ ~Judging'
  BY DEF Judging, InPhases
<1>3. Bound'
  BY <1>2, BoundStays DEF Evidence, Bound
<1>4. Ongoing'
  <2>1. disk'.cases = <<>> /\ disk'.manifest.runs = <<>> /\ disk'.manifest.whole
    BY <1>1 DEF Untouched
  <2>2. DOMAIN disk'.cases = {} /\ Len(disk'.manifest.runs) = 0
    BY <2>1
  <2> QED
    BY <2>1, <2>2 DEF Ongoing
<1> QED
  BY <1>2, <1>3, <1>4 DEF Evidence, CaseAtHand

(* The runner goes from one step to the next, or ends its phases, with no    *)
(* case at hand to be judged.                                                *)
LEMMA EvidenceGoesOn ==
  ASSUME Evidence, Untouched, InPhases, ~Judging,
         gate'.at = "final" \/ (InPhases' /\ CasesDone' = CasesDone),
         Judging' => gate'.success = FALSE /\ gate'.log = NoLog
  PROVE  Evidence'
<1>1. /\ disk.manifest.whole
      /\ Len(disk.manifest.runs) = CasesDone
      /\ \A o \in DOMAIN disk.cases : o \in 1..CasesDone
      /\ \A i \in 1..CasesDone :
             AsPlanned(disk.manifest.runs[i], WorkOf(i, gate.command.measure))
  BY DEF Evidence, Ongoing
<1>2. AllListed(disk.manifest.runs, disk.cases)
  BY <1>1 DEF AllListed
<1>3. Bound'
  <2>1. ~InPhases' => gate'.at = "final"
    OBVIOUS
  <2> QED
    BY <1>2, <2>1, BoundStays DEF Evidence, Bound, Untouched
<1>4. Ongoing'
  <2>1. gate'.at = "final" => ~InPhases'
    BY DEF InPhases
  <2> QED
    BY <1>1, <2>1 DEF Ongoing, Untouched
<1>5. CaseAtHand'
  <2> SUFFICES ASSUME Judging' PROVE CaseAtHand'
    BY DEF CaseAtHand
  <2>1. /\ gate'.success = FALSE /\ gate'.log.saves = <<>>
    BY DEF NoLog
  <2> QED
    BY <2>1 DEF CaseAtHand
<1> QED
  BY <1>3, <1>4, <1>5 DEF Evidence

-----------------------------------------------------------------------------
(* Steps that leave a file or list one.                                      *)

LEMMA CasePhase ==
  ASSUME CampaignInv, gate.at \in {"running", "judge"}
  PROVE  ProgressInv /\ InPhases /\ gate.todo # <<>> /\ gate.command \in Commands
         /\ GateFields \subseteq DOMAIN gate /\ DiskFields \subseteq DOMAIN disk
BY DEF CampaignInv, CaptureInv, ProgressInv, InPhases, InOrder, StatusInv, Shape

(* What is on disk when the processes of a case are gone.                    *)
LEMMA FilesArrive ==
  ASSUME CampaignInv, Exercising,
         disk' = [disk EXCEPT !.cases = WithCase(@)],
         gate'.at = "judge", gate'.todo = gate.todo, gate'.command = gate.command,
         \E n \in 0..Len(gate.command.saves) :
             gate'.log.saves = SubSeq(gate.command.saves, 1, n),
         gate'.success => worker.at = "passed"
  PROVE  Evidence'
<1> DEFINE runs == disk.manifest.runs
           cases == disk.cases
           o == Work.ordinal
           after == WithCase(cases)
<1>1. /\ ProgressInv /\ InPhases /\ gate.todo # <<>> /\ DiskFields \subseteq DOMAIN disk
      /\ Phase.judge = "measure" /\ ~Judging /\ Evidence
  BY CasePhase DEF Exercising, Judging, CampaignInv
<1>2. CasesDone \in Nat /\ o = CasesDone + 1
  BY <1>1, CaseIsNext
<1>3. /\ disk.manifest.whole
      /\ Len(runs) = CasesDone
      /\ \A p \in DOMAIN cases : p \in 1..CasesDone
      /\ \A i \in 1..CasesDone : AsPlanned(runs[i], WorkOf(i, gate.command.measure))
  BY <1>1 DEF Evidence, Ongoing
<1>4. /\ disk'.cases = after /\ disk'.manifest = disk.manifest
  BY <1>1
<1>5. /\ CasesDone' = CasesDone /\ Phase' = Phase /\ Work' = Work /\ InPhases' /\ Judging'
  BY <1>1, SamePlace DEF InPhases, Judging
<1>6. Filed(cases, o, CaseFiles, after)
  BY DEF Filed, WithCase
<1>7. /\ CaseFiles.capture = drag.file /\ CaseFiles.load = worker.load
      /\ CaseFiles.environment = worker.environment
  BY DEF CaseFiles
<1>8. WorkerInv(Work.load) /\ FileInv
  BY DEF CampaignInv
<1> HIDE DEF after
<1>9. Bound'
  <2>1. Listings(runs, cases)
    BY <1>1 DEF Evidence, Bound
  <2>2. OneAtMost(drag.file) /\ OneAtMost(worker.load) /\ OneAtMost(worker.environment)
    BY <1>8 DEF FileInv, WorkerInv, OneAtMost
  <2>3. Listings(runs, after)
    BY <1>2, <1>3, <1>6, <1>7, <2>1, <2>2, FilesKeepListings
  <2>4. gate'.at # "final"
    OBVIOUS
  <2> QED
    BY <1>1, <1>4, <1>5, <2>3, <2>4 DEF Evidence, Bound
<1>10. Ongoing'
  <2>1. \A p \in DOMAIN after : p \in 1..CasesDone \/ p = o
    BY <1>3, <1>6 DEF Filed
  <2> QED
    BY <1>3, <1>4, <1>5, <2>1 DEF Ongoing
<1>11. CaseAtHand'
  <2>1. o \in DOMAIN after /\ after[o] = CaseFiles
    BY <1>6 DEF Filed
  <2>2. worker.at = "passed" => Succeeded(CaseFiles, Work.load)
    BY <1>7, <1>8 DEF FileInv, WorkerInv, Succeeded
  <2> QED
    BY <1>4, <1>5, <2>1, <2>2 DEF CaseAtHand
<1> QED
  BY <1>9, <1>10, <1>11 DEF Evidence

FilesAtHand ==
    IF Work.ordinal \in DOMAIN disk.cases THEN disk.cases[Work.ordinal]
    ELSE [capture |-> <<>>, load |-> <<>>, environment |-> <<>>]

RunsIndexed ==
    IF Indexes(FilesAtHand)
    THEN Append(disk.manifest.runs, Indexed(Work, FilesAtHand, gate.log))
    ELSE disk.manifest.runs

(* The listing of the case at hand.                                          *)
LEMMA CaseIndexed ==
  ASSUME CampaignInv, Judging
  PROVE  /\ Listings(RunsIndexed, disk.cases)
         /\ AllListed(RunsIndexed, disk.cases)
         /\ \A i \in 1..Len(RunsIndexed) :
                GapIsElapsedTime(RunsIndexed[i], gate.command.saves)
         /\ Present(FilesAtHand) =>
                /\ Len(RunsIndexed) = CasesDone + 1
                /\ \A i \in 1..CasesDone : RunsIndexed[i] = disk.manifest.runs[i]
                /\ RunsIndexed[CasesDone + 1] = Indexed(Work, FilesAtHand, gate.log)
<1> DEFINE runs == disk.manifest.runs
           cases == disk.cases
           o == Work.ordinal
           files == FilesAtHand
           entry == Indexed(Work, files, gate.log)
           more == RunsIndexed
           measure == gate.command.measure
<1>1. /\ ProgressInv /\ InPhases /\ gate.todo # <<>> /\ gate.command \in Commands
      /\ Phase.judge = "measure" /\ Evidence
  BY CasePhase DEF Judging, CampaignInv
<1>2. /\ measure \in DOMAIN Pairs
      /\ CasesDone \in Nat /\ CasesDone + 1 \in 1..CampaignCases(measure)
      /\ o = CasesDone + 1 /\ Work.pair \in 1..Pairs[measure]
  BY <1>1, CaseIsNext
<1>3. /\ Len(runs) = CasesDone
      /\ \A p \in DOMAIN cases : p \in 1..CasesDone \/ p = o
  BY <1>1 DEF Evidence, Ongoing
<1>4. /\ Listings(runs, cases)
      /\ \A i \in 1..Len(runs) : GapIsElapsedTime(runs[i], gate.command.saves)
  BY <1>1 DEF Evidence, Bound
<1>5. GapIsElapsedTime(entry, gate.command.saves)
  BY <1>1, IndexedGap DEF Evidence, CaseAtHand
<1>6. o \in DOMAIN cases => files = cases[o]
  BY DEF FilesAtHand
<1>7. Present(files) => o \in DOMAIN cases
  BY DEF FilesAtHand, Present
<1>8. /\ entry.ordinal = o /\ entry.path = o /\ entry.pair = Work.pair
      /\ entry.sha256 = files.capture[1] /\ entry.load_sha256 = files.load[1]
      /\ entry.environment_sha256 = files.environment[1]
  BY DEF Indexed
<1>9. CASE Present(files)
  <2>1. more = Append(runs, entry)
    BY <1>9 DEF RunsIndexed, Indexes
  <2>2. /\ files.capture = <<files.capture[1]>> /\ files.load = <<files.load[1]>>
        /\ files.environment = <<files.environment[1]>>
    BY <1>4, <1>6, <1>7, <1>9 DEF Listings, OneAtMost, Present
  <2>3. o <= MaxRuns /\ entry.pair \in 1..MaxPair
    <3>1. /\ CampaignCases(measure) <= MaxRuns /\ Pairs[measure] <= MaxPair
          /\ MaxRuns \in Nat /\ MaxPair \in Nat /\ Pairs[measure] \in Nat
      BY <1>2, CampaignAssumption, PlanAssumption
    <3>2. CampaignCases(measure) \in Nat
      <4>1. PICK n \in Nat \ {0} : CampaignCases(measure) = 2 * n
        BY <1>2, CampaignCount
      <4> QED
        BY <4>1
    <3> HIDE DEF entry, o
    <3> QED
      BY <1>2, <1>8, <3>1, <3>2
  <2> HIDE DEF entry, more, files, runs, cases, o
  <2>4. Listings(more, cases)
    BY <1>2, <1>3, <1>4, <1>6, <1>7, <1>8, <1>9, <2>1, <2>2, <2>3, OneMoreListed
  <2>5. /\ Len(more) = CasesDone + 1
        /\ \A i \in 1..CasesDone : more[i] = runs[i]
        /\ more[CasesDone + 1] = entry
    BY <1>3, <1>4, <2>1, AppendIs DEF Listings
  <2>6. AllListed(more, cases)
    <3>1. \A p : p \in 1..CasesDone \/ p = o => p \in 1..CasesDone + 1
      BY <1>2
    <3> QED
      BY <1>3, <2>5, <3>1 DEF AllListed
  <2>7. ASSUME NEW i \in 1..Len(more) PROVE GapIsElapsedTime(more[i], gate.command.saves)
    <3>1. i \in 1..CasesDone \/ i = CasesDone + 1
      BY <1>2, <2>5
    <3> QED
      BY <1>3, <1>4, <1>5, <2>5, <3>1
  <2> QED
    BY <2>4, <2>5, <2>6, <2>7 DEF entry, more, files, runs, cases
<1>10. CASE ~Present(files)
  <2>1. more = runs
    BY <1>10 DEF RunsIndexed, Indexes
  <2>2. AllListed(runs, cases)
    BY <1>3, <1>6, <1>10 DEF AllListed
  <2> HIDE DEF more, files, runs, cases
  <2> QED
    BY <1>4, <1>10, <2>1, <2>2 DEF more, files, runs, cases
<1> QED
  BY <1>9, <1>10

(* A case that passes is listed as it was planned.                           *)
LEMMA PassedIsPlanned ==
  ASSUME CampaignInv, Judging, gate.success, Present(FilesAtHand),
         Decodes(FilesAtHand.capture[1]), CommandedWorkload(FilesAtHand.capture[1], Work)
  PROVE  AsPlanned(Indexed(Work, FilesAtHand, gate.log), Work)
<1> DEFINE files == FilesAtHand
           entry == Indexed(Work, files, gate.log)
<1>1. Succeeded(files, Work.load)
  BY DEF CampaignInv, Evidence, CaseAtHand, FilesAtHand
<1>2. /\ entry.ordinal = Work.ordinal /\ entry.path = Work.ordinal
      /\ entry.pair = Work.pair /\ entry.load = Work.load
      /\ entry.sha256 = files.capture[1] /\ entry.load_sha256 = files.load[1]
      /\ entry.environment_sha256 = files.environment[1]
  BY DEF Indexed
<1> HIDE DEF files, entry
<1>3. Readable(entry) /\ Answered(entry.sha256)
  BY <1>1, <1>2 DEF Succeeded, Readable, files
<1>4. CommandedWorkload(entry.sha256, Work)
  BY <1>2 DEF files
<1>5. AsPlanned(entry, Work)
  BY <1>2, <1>3, <1>4 DEF AsPlanned
<1> QED
  BY <1>5 DEF entry, files

LEMMA CaseConcludes ==
  ASSUME CampaignInv, ConcludeCase
  PROVE  Evidence'
<1> DEFINE result == gate.success /\ gate.log.readable /\ RequireExactlyOne(gate.log)
           captured == /\ Present(FilesAtHand) /\ Decodes(FilesAtHand.capture[1])
                       /\ CommandedWorkload(FilesAtHand.capture[1], Work)
           passed == result /\ captured /\ Executable = gate.pins[Phase.family]
           phases == Append(gate.phases, Outcome(Phase, passed))
           next == [gate EXCEPT !.phases = phases, !.at = "next", !.todo = Tail(@)]
           final == [gate EXCEPT !.phases = phases, !.at = "final", !.error = TRUE]
           runs == disk.manifest.runs
           cases == disk.cases
           more == RunsIndexed
           measure == gate.command.measure
<1>1. /\ Judging /\ gate.at = "judge" /\ ProgressInv /\ InPhases /\ gate.todo # <<>>
      /\ GateFields \subseteq DOMAIN gate /\ DiskFields \subseteq DOMAIN disk
      /\ Phase.judge = "measure" /\ Evidence
  BY CasePhase DEF ConcludeCase, At, Judging, CampaignInv
<1>2. \/ /\ disk' = [disk EXCEPT !.manifest.runs = more]
         /\ gate' = IF passed THEN next ELSE final
      \/ /\ disk' = [disk EXCEPT !.manifest.whole = FALSE]
         /\ gate' = final
  BY DEF ConcludeCase, FilesAtHand, RunsIndexed
<1>3. /\ Listings(more, cases) /\ AllListed(more, cases)
      /\ \A i \in 1..Len(more) : GapIsElapsedTime(more[i], gate.command.saves)
      /\ Present(FilesAtHand) =>
             /\ Len(more) = CasesDone + 1
             /\ \A i \in 1..CasesDone : more[i] = runs[i]
             /\ more[CasesDone + 1] = Indexed(Work, FilesAtHand, gate.log)
  BY <1>1, CaseIndexed
<1>4. /\ measure \in DOMAIN Pairs /\ CasesDone \in Nat
      /\ Work = WorkOf(CasesDone + 1, measure) /\ Work.ordinal = CasesDone + 1
  BY <1>1, CaseIsNext
<1>5. /\ {"whole", "runs"} \subseteq DOMAIN disk.manifest /\ disk.manifest.whole
      /\ Listings(runs, cases)
      /\ \A i \in 1..Len(runs) : GapIsElapsedTime(runs[i], gate.command.saves)
      /\ Len(runs) = CasesDone
      /\ \A p \in DOMAIN cases : p \in 1..CasesDone \/ p = Work.ordinal
      /\ \A i \in 1..CasesDone : AsPlanned(runs[i], WorkOf(i, measure))
  BY <1>1 DEF Evidence, Bound, Ongoing
<1>6. passed => /\ gate.success /\ Present(FilesAtHand) /\ Decodes(FilesAtHand.capture[1])
                /\ CommandedWorkload(FilesAtHand.capture[1], Work)
  OBVIOUS
<1> HIDE DEF passed
<1>7. /\ gate' = next \/ gate' = final
      /\ next.at = "next" /\ next.todo = Tail(gate.todo) /\ next.command = gate.command
      /\ final.at = "final" /\ final.command = gate.command
  BY <1>1, <1>2
<1> HIDE DEF next, final
<1>8. ASSUME NEW listed, disk' = [disk EXCEPT !.manifest.runs = listed]
      PROVE  /\ disk'.cases = cases /\ disk'.manifest.runs = listed
             /\ disk'.manifest.whole = disk.manifest.whole
             /\ {"whole", "runs"} \subseteq DOMAIN disk'.manifest
  BY <1>1, <1>5, <1>8
<1>9. CASE disk' = [disk EXCEPT !.manifest.runs = more] /\ passed /\ gate' = next
  <2>1. /\ disk'.cases = cases /\ disk'.manifest.runs = more /\ disk'.manifest.whole
        /\ {"whole", "runs"} \subseteq DOMAIN disk'.manifest
    BY <1>5, <1>8, <1>9
  <2>2. /\ gate'.at = "next" /\ gate'.todo = Tail(gate.todo) /\ gate'.command = gate.command
    BY <1>7, <1>9
  <2>3. CasesDone' = CasesDone + 1
    BY <1>1, <2>2, CaseIsNext
  <2>4. InPhases' /\ ~Judging'
    BY <2>2 DEF InPhases, Judging
  <2>5. AsPlanned(Indexed(Work, FilesAtHand, gate.log), Work)
    BY <1>1, <1>6, <1>9, PassedIsPlanned
  <2> HIDE DEF runs, cases, more, measure
  <2>6. Bound'
    BY <1>3, <2>1, <2>2, <2>4 DEF Bound
  <2>7. \A i \in 1..CasesDone + 1 : AsPlanned(more[i], WorkOf(i, measure))
    <3> TAKE i \in 1..CasesDone + 1
    <3>1. i \in 1..CasesDone \/ i = CasesDone + 1
      BY <1>4
    <3> QED
      BY <1>3, <1>4, <1>5, <1>6, <1>9, <2>5, <3>1
  <2>8. Ongoing'
    <3>1. \A p \in DOMAIN cases : p \in 1..CasesDone + 1
      <4>1. \A p : p \in 1..CasesDone \/ p = CasesDone + 1 => p \in 1..CasesDone + 1
        BY <1>4
      <4> QED
        BY <1>4, <1>5, <4>1
    <3> QED
      BY <1>3, <1>6, <1>9, <2>1, <2>2, <2>3, <2>7, <3>1 DEF Ongoing, measure
  <2> QED
    BY <2>4, <2>6, <2>8 DEF Evidence, CaseAtHand
<1>10. ASSUME gate' = final,
             \/ disk' = [disk EXCEPT !.manifest.runs = more]
             \/ disk' = [disk EXCEPT !.manifest.whole = FALSE]
       PROVE  Evidence'
  <2>1. gate'.at = "final" /\ gate'.command = gate.command
    BY <1>7, <1>10
  <2>2. ~InPhases' /\ ~Judging'
    BY <2>1 DEF InPhases, Judging
  <2>3. /\ disk'.cases = cases /\ {"whole", "runs"} \subseteq DOMAIN disk'.manifest
        /\ \/ disk'.manifest.runs = more
           \/ disk'.manifest.runs = runs /\ disk'.manifest.whole = FALSE
    <3>1. CASE disk' = [disk EXCEPT !.manifest.whole = FALSE]
      BY <1>1, <1>5, <3>1
    <3> QED
      BY <1>8, <1>10, <3>1
  <2> HIDE DEF runs, cases, more
  <2>4. Bound'
    BY <1>3, <1>5, <2>1, <2>3 DEF Bound
  <2> QED
    BY <2>2, <2>4 DEF Evidence, Ongoing, CaseAtHand
<1> QED
  BY <1>2, <1>9, <1>10

(* The other steps of the runner.                                            *)
LEMMA EvidenceStep ==
  ASSUME CampaignInv, [GateNext]_gateVars
  PROVE  Evidence'
<1>1. /\ ProgressInv /\ Evidence /\ GateFields \subseteq DOMAIN gate
      /\ DiskFields \subseteq DOMAIN disk /\ gate.command \in Commands
      /\ InPhases => InOrder
  BY DEF CampaignInv, CaptureInv, ProgressInv, StatusInv, Shape
<1>2. CASE PhaseStep \/ Tick \/ OtherGate \/ Tamper \/ UNCHANGED gateVars
  <2>1. /\ Untouched /\ gate'.at = gate.at /\ gate'.todo = gate.todo
        /\ gate'.success = gate.success /\ gate'.log = gate.log
    BY <1>1, <1>2 DEF PhaseStep, Tick, OtherGate, Tamper, gateVars, Untouched
  <2> QED
    BY <1>1, <2>1, EvidenceWaits
<1>3. CASE ParseOptions \/ CheckInputs \/ TakeLock \/ MakeEvidence \/ PrepareOverlay
           \/ IdentifyBefore
  <2>1. /\ Untouched
        /\ gate.at \in {"options", "inputs", "lock", "evidence", "overlay", "identity"}
        /\ gate'.at \in {"inputs", "lock", "evidence", "overlay", "identity", "report",
                         "exited"}
    BY <1>1, <1>3
       DEF ParseOptions, CheckInputs, TakeLock, MakeEvidence, PrepareOverlay, IdentifyBefore,
           Goto, Exit, At, Untouched, WriteReport, TearReport
  <2> QED
    BY <1>1, <2>1, EvidenceOutside DEF InPhases
<1>4. CASE ReportRunning
  <2>1. /\ Untouched /\ gate.at = "report"
        /\ \/ gate'.at = "exited"
           \/ gate'.at = "next" /\ gate'.todo = Planned
    BY <1>1, <1>4 DEF ReportRunning, Exit, At, Untouched, WriteReport, TearReport, Planned
  <2>2. ASSUME gate'.todo = Planned PROVE CasesDone' = 0
    <3>1. Len(Planned) \in Nat /\ Planned' = Planned
      BY <1>1, <2>1, PlannedIsKnown DEF PlanKnown, IsSeq, Planned, Untouched
    <3>2. Done' = 0
      BY <2>2, <3>1 DEF Done
    <3> QED
      BY <3>2 DEF CasesDone
  <2> QED
    BY <1>1, <2>1, <2>2, EvidenceOutside, EvidenceBegins DEF InPhases
<1>5. CASE FinalReport
  <2>1. Untouched /\ gate'.at = "exited"
    BY <1>1, <1>5 DEF FinalReport, Exit, Untouched, WriteReport, TearReport
  <2> QED
    BY <1>1, <2>1, EvidenceOutside DEF InPhases
<1>6. CASE TakePhase \/ JudgeCampaign
  <2>1. /\ Untouched /\ gate.at = "next"
        /\ \/ gate'.at = "final"
           \/ gate'.at = "launch" /\ gate'.todo = gate.todo
    BY <1>1, <1>6 DEF TakePhase, JudgeCampaign, Conclude, Goto, At, Untouched
  <2>2. InPhases /\ ~Judging /\ ~Judging'
    BY <2>1 DEF InPhases, Judging
  <2>3. gate'.at = "launch" => InPhases' /\ CasesDone' = CasesDone
    BY <2>1, SamePlace DEF InPhases, Untouched
  <2> QED
    BY <1>1, <2>1, <2>2, <2>3, EvidenceGoesOn
<1>7. CASE LaunchPhase
  <2>1. /\ Untouched /\ gate.at = "launch" /\ gate'.todo = gate.todo
        /\ \/ gate'.at = "running"
           \/ gate'.at = "judge" /\ gate'.success = FALSE /\ gate'.log = NoLog
    BY <1>1, <1>7 DEF LaunchPhase, At, Untouched
  <2>2. /\ InPhases /\ ~Judging /\ InPhases' /\ CasesDone' = CasesDone
        /\ Judging' => gate'.success = FALSE /\ gate'.log = NoLog
    BY <2>1, SamePlace DEF InPhases, Judging, Untouched
  <2> QED
    BY <1>1, <2>2, <2>1, EvidenceGoesOn
<1>8. CASE PhaseExits \/ JudgePhase
  <2>1. /\ Untouched /\ gate.at \in {"running", "judge"} /\ gate'.todo = gate.todo
        /\ Phase.judge # "measure" /\ gate'.at \in {"judge", "final", "after"}
    BY <1>1, <1>8 DEF PhaseExits, JudgePhase, WriteReport, TearReport, At, Untouched
  <2>2. InPhases /\ ~Judging /\ ~Judging'
    BY <2>1, SamePlace DEF InPhases, Judging, Untouched
  <2>3. gate'.at # "final" => InPhases' /\ CasesDone' = CasesDone
    BY <2>1, SamePlace DEF InPhases, Untouched
  <2> QED
    BY <1>1, <2>1, <2>2, <2>3, EvidenceGoesOn
<1>9. CASE AfterPhase
  <2>1. /\ Untouched /\ gate.at = "after" /\ Phase.judge # "measure"
        /\ gate'.at = "final" \/ (gate'.at = "next" /\ gate'.todo = Tail(gate.todo))
    BY <1>1, <1>9 DEF AfterPhase, PhaseDone, Conclude, At, Untouched
  <2>2. /\ InPhases /\ ~Judging /\ ~Judging'
        /\ gate.todo # <<>> /\ Phase.judge # "campaign"
    BY <1>1, <2>1 DEF InPhases, Judging, InOrder
  <2>3. gate'.at = "next" => InPhases' /\ CasesDone' = CasesDone
    BY <1>1, <2>1, <2>2, OtherPhaseDone DEF InPhases, Untouched
  <2> QED
    BY <1>1, <2>1, <2>2, <2>3, EvidenceGoesOn
<1>10. CASE WorkerExits
  <2> DEFINE results == IF drag = NoDrag THEN <<>>
                        ELSE IF drag.at = "passed" THEN Summary("ok", 1)
                             ELSE Summary("failed", 0)
             saves == IF drag # NoDrag THEN Len(gate.command.saves) ELSE 0
  <2>1. /\ Exercising /\ disk' = [disk EXCEPT !.cases = WithCase(@)]
        /\ \E readable \in BOOLEAN :
              gate' = [gate EXCEPT
                      !.at = "judge", !.success = worker.at = "passed", !.limit = NoLimit,
                      !.log = CaseLog(saves, results, readable)]
    BY <1>10 DEF WorkerExits, Exercising, At
  <2>2. PICK readable \in BOOLEAN :
              gate' = [gate EXCEPT
                      !.at = "judge", !.success = worker.at = "passed", !.limit = NoLimit,
                      !.log = CaseLog(saves, results, readable)]
    BY <2>1
  <2>3. saves \in 0..Len(gate.command.saves)
    <3>1. Len(gate.command.saves) \in Nat
      BY <1>1, SavesAssumption
    <3> QED
      BY <3>1
  <2>4. CaseLog(saves, results, readable).saves = SubSeq(gate.command.saves, 1, saves)
    BY DEF CaseLog, NoLog
  <2> DEFINE passed == worker.at = "passed"
             log == CaseLog(saves, results, readable)
             once == [gate EXCEPT !.at = "judge", !.success = passed, !.limit = NoLimit]
  <2>5. gate' = [once EXCEPT !.log = log]
    BY <2>2
  <2> HIDE DEF saves, results, log, passed
  <2>6. /\ DOMAIN once = DOMAIN gate /\ once.at = "judge" /\ once.success = passed
        /\ once.todo = gate.todo /\ once.command = gate.command
    BY <1>1
  <2> HIDE DEF once
  <2>7. /\ gate'.at = "judge" /\ gate'.todo = gate.todo /\ gate'.command = gate.command
        /\ gate'.log = log /\ gate'.success = passed
    BY <1>1, <2>5, <2>6
  <2> QED
    BY <2>1, <2>3, <2>4, <2>7, FilesArrive DEF log, passed
<1>11. CASE KillPhase
  <2>1. PICK saves \in 0..IF drag = NoDrag THEN 0 ELSE Len(gate.command.saves) :
          gate' = [gate EXCEPT !.at = "judge", !.success = FALSE, !.limit = NoLimit,
                               !.log = CaseLog(saves, <<>>, TRUE)]
    BY <1>11 DEF KillPhase
  <2>2. /\ gate.at = "running" /\ InPhases /\ gate'.todo = gate.todo
        /\ gate'.command = gate.command
        /\ gate'.at = "judge" /\ gate'.success = FALSE
        /\ gate'.log = CaseLog(saves, <<>>, TRUE)
    BY <1>1, <1>11, <2>1 DEF KillPhase, At, InPhases
  <2>3. CASE Phase.judge = "measure"
    <3>1. Exercising /\ disk' = [disk EXCEPT !.cases = WithCase(@)]
      BY <1>11, <2>2, <2>3 DEF KillPhase, Exercising
    <3>2. saves \in 0..Len(gate.command.saves)
      <4>1. Len(gate.command.saves) \in Nat
        BY <1>1, SavesAssumption
      <4> QED
        BY <4>1
    <3>3. CaseLog(saves, <<>>, TRUE).saves = SubSeq(gate.command.saves, 1, saves)
      BY DEF CaseLog, NoLog
    <3> QED
      BY <2>2, <3>1, <3>2, <3>3, FilesArrive
  <2>4. CASE Phase.judge # "measure"
    <3>1. Untouched
      BY <1>11, <2>2, <2>4 DEF KillPhase, Untouched
    <3>2. InPhases /\ ~Judging /\ ~Judging' /\ InPhases' /\ CasesDone' = CasesDone
      BY <2>2, <2>4, SamePlace DEF InPhases, Judging
    <3> QED
      BY <1>1, <3>1, <3>2, EvidenceGoesOn
  <2> QED
    BY <2>3, <2>4
<1>12. CASE ConcludeCase
  BY <1>12, CaseConcludes
<1> QED
  BY <1>2, <1>3, <1>4, <1>5, <1>6, <1>7, <1>8, <1>9, <1>10, <1>11, <1>12 DEF GateNext, GateStep

(* The files beside the captures.                                            *)
LEMMA FileStep ==
  ASSUME CampaignInv, [GateNext]_gateVars
  PROVE  FileInv'
<1>1. CASE UNCHANGED drag
  BY <1>1 DEF CampaignInv, FileInv, Answered
<1>2. CASE drag' = NoDrag \/ drag' = NewDrag(Work)
  BY <1>2, NewFileInv
<1>3. CASE DragStep(gate.executed.hagia = Frozen)
  BY <1>3, FileInvStep DEF CampaignInv, CaptureInv
<1> QED
  BY <1>1, <1>2, <1>3
     DEF GateNext, GateStep, ParseOptions, CheckInputs, TakeLock, MakeEvidence, PrepareOverlay,
         IdentifyBefore, ReportRunning, TakePhase, LaunchPhase, JudgePhase, AfterPhase,
         ConcludeCase, JudgeCampaign, FinalReport, NothingRuns, PhaseExits, WorkerExits,
         KillPhase, Tick, OtherGate, Tamper, gateVars,
         PhaseStep, WorkerStep, StartFixture, FixtureExits, WriteEnvironment, WriteLoad

LEMMA WorkerPart ==
  ASSUME CampaignInv, [GateNext]_gateVars, Exercising'
  PROVE  WorkerInv(Work.load)'
<1>1. /\ Shape /\ GateFields \subseteq DOMAIN gate
  BY DEF CampaignInv, CaptureInv, ProgressInv, StatusInv, Shape
<1>2. CASE LaunchPhase
  <2>1. gate'.at = "running" /\ gate'.todo = gate.todo
    BY <1>1, <1>2 DEF LaunchPhase, Exercising
  <2>2. Phase' = Phase /\ Work' = Work
    BY <2>1 DEF Phase, Work
  <2>3. worker' = NewWorker(Work.load, gate.command.proc)
    BY <1>1, <1>2, <2>1, <2>2 DEF LaunchPhase, Exercising
  <2>4. PICK load, proc : load = Work.load /\ proc = gate.command.proc
    OBVIOUS
  <2>5. WorkerInv(load)'
    BY <2>3, <2>4, NewWorkerInv
  <2>6. load = Work'.load
    BY <2>2, <2>4
  <2> QED
    BY <2>5, <2>6 DEF WorkerInv
<1>3. CASE PhaseStep
  <2>1. /\ gate' = gate /\ Exercising /\ WorkerStep(Work, gate.executed.hagia = Frozen)
    BY <1>3 DEF PhaseStep, Exercising, At
  <2>2. Work' = Work
    BY <2>1 DEF Work, Phase
  <2>3. PICK work, frozen : work = Work /\ frozen = (gate.executed.hagia = Frozen)
    OBVIOUS
  <2>4. WorkerInv(work.load) /\ WorkerStep(work, frozen)
    BY <2>1, <2>3 DEF CampaignInv
  <2>5. WorkerInv(work.load)'
    BY <2>4, WorkerInvStep
  <2>6. work = Work'
    BY <2>2, <2>3
  <2> QED
    BY <2>5, <2>6 DEF WorkerInv
<1>4. CASE Tick \/ OtherGate \/ Tamper \/ UNCHANGED gateVars
  <2>1. /\ gate'.at = gate.at /\ gate'.todo = gate.todo
        /\ worker' = worker /\ drag' = drag
    BY <1>1, <1>4 DEF Tick, OtherGate, Tamper, gateVars
  <2>2. Exercising /\ Work' = Work
    BY <2>1 DEF Exercising, Phase, Work
  <2> QED
    BY <2>1, <2>2 DEF CampaignInv, WorkerInv
<1>5. CASE ~(LaunchPhase \/ PhaseStep \/ Tick \/ OtherGate \/ Tamper \/ UNCHANGED gateVars)
  <2>1. gate'.at # "running"
    BY <1>1, <1>5
       DEF GateNext, GateStep, ParseOptions, CheckInputs, TakeLock, MakeEvidence,
           PrepareOverlay, IdentifyBefore, ReportRunning, TakePhase, JudgePhase, AfterPhase,
           ConcludeCase, JudgeCampaign, FinalReport, PhaseExits, WorkerExits, KillPhase,
           Goto, Exit, Conclude, PhaseDone, At
  <2> QED
    BY <2>1 DEF Exercising
<1> QED
  BY <1>2, <1>3, <1>4, <1>5

LEMMA CampaignStep == CampaignInv /\ [GateNext]_gateVars => CampaignInv'
<1> SUFFICES ASSUME CampaignInv, [GateNext]_gateVars PROVE CampaignInv'
  OBVIOUS
<1>1. CaptureInv'
  BY CaptureStep DEF CampaignInv
<1>2. FileInv'
  BY FileStep
<1>3. (Exercising => WorkerInv(Work.load))'
  BY WorkerPart
<1>4. Evidence'
  BY EvidenceStep
<1> QED
  BY <1>1, <1>2, <1>3, <1>4 DEF CampaignInv

LEMMA CampaignStart == GateInit => CampaignInv
<1> SUFFICES ASSUME GateInit PROVE CampaignInv
  OBVIOUS
<1>1. /\ gate.at = "options" /\ disk.cases = <<>> /\ disk.manifest.whole
      /\ disk.manifest = [whole |-> TRUE, runs |-> <<>>] /\ drag = NoDrag
  BY DEF GateInit
<1>2. CaptureInv
  BY ProgressStart, NoDragInv DEF GateInit, CaptureInv
<1>3. FileInv
  BY <1>1 DEF NoDrag, FileInv
<1>4. ~InPhases /\ ~Judging /\ ~Exercising
  BY <1>1 DEF InPhases, Judging, Exercising
<1>5. Listings(<<>>, <<>>)
  <2>1. IsSeq(<<>>) /\ Len(<<>>) = 0 /\ DOMAIN <<>> = {} /\ MaxRuns \in Nat
    BY NoneIsSeq, CampaignAssumption
  <2> QED
    BY <2>1 DEF Listings
<1>6. Bound
  BY <1>1, <1>4, <1>5 DEF Bound
<1> QED
  BY <1>2, <1>3, <1>4, <1>6 DEF CampaignInv, Evidence, Ongoing, CaseAtHand

(* The manifest of a campaign, whatever went wrong in it, lists the bytes    *)
(* that are on disk, in order and with none left out, and its gaps are time  *)
(* that passed: for any conditions, number of cases, saves and failures.     *)
THEOREM ManifestBinds == GateSpec => []ManifestBindsTheDisk
<1>1. CampaignInv => ManifestBindsTheDisk
  <2> SUFFICES ASSUME CampaignInv, BetweenPhases PROVE ManifestBindsTheDisk
    BY DEF ManifestBindsTheDisk
  <2> DEFINE runs == disk.manifest.runs
             cases == disk.cases
  <2>1. /\ Listings(runs, cases)
        /\ \A i \in 1..Len(runs) : GapIsElapsedTime(runs[i], gate.command.saves)
    BY DEF CampaignInv, Evidence, Bound
  <2>2. /\ Contiguous(runs) \/ runs = <<>>
        /\ PinnedBytes(runs, cases)
        /\ DOMAIN runs = 1..Len(runs)
    BY <2>1, ListingsBind
  <2>3. disk.manifest.whole => AllListed(runs, cases)
    <3>1. CASE gate.at = "next"
      <4>1. InPhases /\ ~Judging
        BY <3>1 DEF InPhases, Judging
      <4> QED
        BY <4>1 DEF CampaignInv, Evidence, Ongoing, AllListed
    <3>2. CASE gate.at = "final"
      BY <3>2 DEF CampaignInv, Evidence, Bound
    <3> QED
      BY <3>1, <3>2 DEF BetweenPhases
  <2> QED
    BY <2>1, <2>2, <2>3 DEF ManifestBindsTheDisk, ManifestBindsBytes, AllListed
<1> QED
  BY <1>1, CampaignStart, CampaignStep, PTL DEF GateSpec

(* The report judges every campaign whose cases all passed: what the worker  *)
(* samples and the fixture accounts for, the reader accepts, and the cases   *)
(* group into pairs of the two wires that compare.                           *)
THEOREM CampaignReadable == GateSpec => []CampaignIsReadable
<1>1. CampaignInv => CampaignIsReadable
  <2> SUFFICES ASSUME CampaignInv, gate.at = "next", gate.todo # <<>>,
                      Phase.judge = "campaign"
               PROVE  Judgeable(Manifest, disk.cases)
    BY DEF CampaignIsReadable, At
  <2> DEFINE runs == disk.manifest.runs
             measure == gate.command.measure
  <2>1. measure \in DOMAIN Pairs /\ CasesDone = CampaignCases(measure)
    BY EveryCaseDone DEF CampaignInv, CaptureInv
  <2>2. InPhases
    BY DEF InPhases
  <2>3. /\ Listings(runs, disk.cases) /\ Len(runs) = CasesDone
        /\ \A i \in 1..CasesDone : AsPlanned(runs[i], WorkOf(i, measure))
    BY <2>2 DEF CampaignInv, Evidence, Bound, Ongoing
  <2>4. PinnedBytes(runs, disk.cases) /\ DOMAIN runs = 1..Len(runs) /\ IsSeq(runs)
    BY <2>3, ListingsBind DEF Listings
  <2>5. WholeCampaign(runs, measure)
    BY <2>1, <2>3, <2>4 DEF WholeCampaign
  <2>6. Judgeable([mode |-> measure, runs |-> runs], disk.cases)
    BY <2>1, <2>4, <2>5, WholeIsJudged
  <2> QED
    BY <2>6 DEF Manifest
<1> QED
  BY <1>1, CampaignStart, CampaignStep, PTL DEF GateSpec

=============================================================================
