----------------------------- MODULE PairingGate -----------------------------
(* The pairing runner (runner/src/main.rs, acceptance.rs, legacy.rs and the  *)
(* orchestration of measurement_run.rs): one sequential process that checks  *)
(* its inputs, takes the lock of the build target, lays the overlay over a   *)
(* scratch checkout and runs its phases under one deadline, writing evidence *)
(* as it goes. Beside it run the processes of the phase, another gate on the *)
(* same target, and whoever edits the files it relies on.                    *)
EXTENDS MeasurementWorker, PairingOverlay, PairingLogs

CONSTANTS
    Commands,       \* the command lines: [sha256, fresh, timeout, measure, proc, saves]
    MaxTimeout,     \* 43200
    ScheduleFloor,  \* 10800: the least timeout of an acceptance campaign
    Frozen,         \* the hash of the Hagia executable in compatibility.json
    Updates,        \* measure |-> offered updates of a capture: 16 and 10_000
    Pairs,          \* measure |-> pairs of a condition: 1 and 5
    LegacyCases,    \* family |-> the names of its cases, in order
    BinaryOf,       \* family |-> the test executable that Cargo builds for it
    Timing,         \* TEST: the name of the measurement fixture
    Ignored,        \* the ignored case of the runtime family
    PhaseLogs       \* judge |-> the logs that a phase of it may leave

VARIABLES
    gate,           \* the runner
    world,          \* the files and locks it relies on
    disk,           \* the evidence directory
    ran             \* the judged cases and what they really executed

gateVars == <<gate, world, disk, drag, worker, ran, mishaps>>

Families == {"session", "runtime", "native", "pregraphics"}

ASSUME PlanAssumption ==
    /\ Required \in Seq(STRING) \ {<<>>}
    /\ \A family \in Families \ {"session"} : LegacyCases[family] \in Seq(STRING)
    /\ Families \subseteq DOMAIN BinaryOf
    /\ Pairs \in [DOMAIN Pairs -> Nat \ {0}]
    /\ Updates \in [DOMAIN Pairs -> 1..MaxUpdates]
    /\ \A command \in Commands :
           /\ command.measure \in {"none"} \cup DOMAIN Pairs
           /\ command.timeout \in Nat

(* A save is stamped with an instant from 1970 on, or its stamp is empty.    *)
Stamp == [date : Seq(Nat), time : Nat \X Nat \X Nat, offset : Int]

ASSUME SavesAssumption ==
    \A command \in Commands :
        /\ command.saves \in Seq(Stamp)
        /\ \A i \in DOMAIN command.saves :
               \/ command.saves[i].date = <<>>
               \/ ParsesStamp(command.saves[i]) /\ command.saves[i].date[1] >= 1970

(* The hash of an executable that is replaced is another one.                *)
ASSUME HashAssumption == Frozen # "rebuilt"

-----------------------------------------------------------------------------
(* The phases of a command, in their order.                                  *)

Item(name, judge, family) ==
    [name |-> name, judge |-> judge, family |-> family, work |-> <<>>]

Cases(family, names) ==
    [i \in DOMAIN names |-> Item(names[i], "exactly-one", family)]

LegacyPhases(family) ==
    <<Item(family, "family-list", family)>>
    \o (IF family = "runtime" THEN <<Item(family, "ignored-list", family)>> ELSE <<>>)
    \o Cases(family, LegacyCases[family])

Checks == <<Item("strict", "status", "none"), Item("strict-runtime", "status", "none"),
            Item("layout", "status", "none"), Item("format", "status", "none"),
            Item("overlay-format", "status", "none"), Item("whitespace", "status", "none")>>

(* Conditions in their nesting: kind, rate, load, pair, and the wires in the *)
(* order of the pair.                                                        *)
WorkOf(ordinal, measure) ==
    LET n == ordinal - 1
        pairs == Pairs[measure]
        pair == ((n \div 2) % pairs) + 1
        condition == (n \div 2) \div pairs
    IN  [ordinal |-> ordinal, pair |-> pair, updates |-> Updates[measure],
         wire |-> WireOrder(pair)[(n % 2) + 1],
         load |-> Loads[(condition % Len(Loads)) + 1],
         rate |-> Rates[((condition \div Len(Loads)) % Len(Rates)) + 1],
         kind |-> Kinds[(((condition \div Len(Loads)) \div Len(Rates)) % Len(Kinds)) + 1]]

CampaignCases(measure) == 2 * Pairs[measure] * Len(Loads) * Len(Rates) * Len(Kinds)

(* The reader takes as many cases and pairs as the runner plans, and asks of *)
(* acceptance what the runner does.                                          *)
ASSUME CampaignAssumption ==
    /\ \A measure \in DOMAIN Pairs :
           CampaignCases(measure) <= MaxRuns /\ Pairs[measure] <= MaxPair
    /\ "acceptance" \in DOMAIN Pairs =>
           /\ CampaignCases("acceptance") = 2 * AcceptanceGroups
           /\ Updates["acceptance"] >= AdmittedFloor
    /\ {MaxRuns, MaxPair, AcceptanceGroups, AdmittedFloor} \subseteq Nat

CampaignPhases(measure) ==
    [o \in 1..CampaignCases(measure) |->
        [name |-> "measure", judge |-> "measure", family |-> "session",
         work |-> <<WorkOf(o, measure)>>]]
    \o <<Item("report", "campaign", "none")>>

Plan(measure) ==
    <<Item("isolation", "status", "none"), Item("protocol", "nonempty", "none"),
      Item("required-list", "required-list", "session")>>
    \o IF measure # "none" THEN CampaignPhases(measure)
       ELSE Cases("session", Required)
            \o LegacyPhases("runtime") \o LegacyPhases("native")
            \o LegacyPhases("pregraphics") \o Checks

-----------------------------------------------------------------------------
(* Shorthands.                                                               *)

At(step) == gate.at = step
Goto(step) == gate' = [gate EXCEPT !.at = step]

Phase == Head(gate.todo)
Work == Phase.work[1]
Executable == world.tests[BinaryOf[Phase.family]]

Leased == gate.at \notin {"options", "inputs", "lock", "exited"}

(* The process ends; dropping the lease removes the lock it created.         *)
Exit(result) ==
    /\ gate' = [gate EXCEPT !.at = "exited", !.exit = result]
    /\ world' = [world EXCEPT !.lock = IF Leased THEN "free" ELSE @]

NothingRuns == UNCHANGED <<drag, worker>>

(* fs::write of report.json: a write that fails leaves the file truncated.   *)
Reported(status, phases) == [status |-> status, phases |-> phases]

WriteReport(status, phases) ==
    disk' = [disk EXCEPT !.report = Reported(status, phases)]

TearReport == WriteReport("torn", <<>>)

(* identity: unknown when git fails or sees untracked files.                 *)
KnownIdentity == ~world.scratch.untracked

Identity ==
    [sophia_commit |-> world.scratch.head, diff |-> world.scratch.tree,
     overlay_manifest |-> disk.overlay, hagia_sha256 |-> world.hagia]

-----------------------------------------------------------------------------
(* run: from the command line to the first report.                           *)

(* options: the range of the timeout, the floor of an acceptance campaign    *)
(* and an evidence directory that does not exist yet.                        *)
OptionsAccepted(command) ==
    /\ command.timeout \in 1..MaxTimeout
    /\ command.measure = "acceptance" => command.timeout >= ScheduleFloor
    /\ command.fresh

ParseOptions ==
    /\ At("options") /\ NothingRuns
    /\ IF OptionsAccepted(gate.command)
       THEN Goto("inputs") /\ UNCHANGED world
       ELSE Exit("fail")
    /\ UNCHANGED <<disk, ran, mishaps>>

CheckInputs ==
    /\ At("inputs") /\ NothingRuns
    /\ IF /\ ValidSource(world.checkout)
          /\ world.hagia = gate.command.sha256 /\ gate.command.sha256 = Frozen
       THEN Goto("lock") /\ UNCHANGED world
       ELSE Exit("fail")
    /\ UNCHANGED <<disk, ran, mishaps>>

(* File::create_new, then the lease. Should the lease come first, a gate     *)
(* that finds the lock taken would remove it as it leaves.                   *)
TakeLockLeaseFirst ==
    /\ At("lock") /\ NothingRuns
    /\ IF world.lock = "free"
       THEN /\ Goto("evidence")
            /\ world' = [world EXCEPT !.lock = "ours"]
       ELSE /\ gate' = [gate EXCEPT !.at = "exited", !.exit = "fail"]
            /\ world' = [world EXCEPT !.lock = "free"]
    /\ UNCHANGED <<disk, ran, mishaps>>

TakeLock ==
    /\ At("lock") /\ NothingRuns
    /\ IF world.lock = "free"
       THEN /\ Goto("evidence")
            /\ world' = [world EXCEPT !.lock = "ours"]
       ELSE Exit("fail")
    /\ UNCHANGED <<disk, ran, mishaps>>

(* The evidence directories are created, never reused. The deadline is set.  *)
MakeEvidence ==
    /\ At("evidence") /\ NothingRuns
    /\ \/ /\ gate' = [gate EXCEPT !.at = "overlay", !.left = gate.command.timeout]
          /\ UNCHANGED world
          /\ NoMishap
       \/ Exit("fail") /\ Mishap
    /\ UNCHANGED <<disk, ran>>

(* overlay::prepare. Its git commands have a bound of their own; a failure   *)
(* is reported, and so is an error of that report.                           *)
PrepareOverlay ==
    /\ At("overlay") /\ NothingRuns
    /\ \/ /\ ValidSource(world.checkout) /\ Prepared.fits
          /\ world' = [world EXCEPT !.scratch = [Scratch EXCEPT !.tree = Prepared.tree]]
          /\ disk' = [disk EXCEPT !.overlay = Prepared.files]
          /\ Goto("identity")
          /\ NoMishap
       \/ /\ ~(ValidSource(world.checkout) /\ Prepared.fits)
          /\ \/ WriteReport("fail", <<>>) /\ NoMishap
             \/ TearReport /\ Mishap
          /\ Exit("fail")
       \/ /\ ValidSource(world.checkout) /\ Prepared.fits
          /\ WriteReport("fail", <<>>) /\ Mishap
          /\ Exit("fail")
    /\ UNCHANGED ran

IdentifyBefore ==
    /\ At("identity") /\ NothingRuns
    /\ \/ /\ KnownIdentity
          /\ gate' = [gate EXCEPT !.at = "report", !.before = Identity]
          /\ UNCHANGED world
          /\ NoMishap
       \/ ~KnownIdentity /\ Exit("fail") /\ NoMishap
       \/ Exit("fail") /\ Mishap
    /\ UNCHANGED <<disk, ran>>

ReportRunning ==
    /\ At("report") /\ NothingRuns
    /\ \/ /\ gate' = [gate EXCEPT !.at = "next", !.todo = Plan(gate.command.measure)]
          /\ WriteReport("running", <<>>)
          /\ UNCHANGED world
          /\ NoMishap
       \/ Exit("fail") /\ TearReport /\ Mishap
    /\ UNCHANGED ran

-----------------------------------------------------------------------------
(* exercise: one phase after the other. "left" is what remains of the        *)
(* deadline, Expired once it has passed.                                     *)

Expired == -1
NoLimit == -1

Conclude(failed) == gate' = [gate EXCEPT !.at = "final", !.error = failed]

Pinned(item) == item.judge \in {"exactly-one", "measure"}

(* The digest before a case; the evidence directory of a measurement.        *)
TakePhase ==
    /\ At("next") /\ NothingRuns
    /\ \/ gate.todo = <<>> /\ Conclude(FALSE) /\ NoMishap
       \/ /\ gate.todo # <<>> /\ Phase.judge # "campaign"
          /\ IF Pinned(Phase) /\ Executable # gate.pins[Phase.family]
             THEN Conclude(TRUE)
             ELSE Goto("launch")
          /\ NoMishap
       \/ /\ gate.todo # <<>> /\ Phase.judge = "measure"
          /\ Conclude(TRUE) /\ Mishap
    /\ UNCHANGED <<world, disk, ran>>

(* The remaining time, rounded to milliseconds; "timeout 0.000s" sets no     *)
(* limit at all.                                                             *)
LimitOf(left) == IF left = 0 THEN NoLimit ELSE left

(* stage_with_env: nothing starts after the deadline, or when the log or the *)
(* process cannot be made. What is executed is what the files hold now, after*)
(* the digest.                                                               *)
LaunchPhase ==
    /\ At("launch")
    /\ \/ /\ IF gate.left = Expired THEN NoMishap ELSE Mishap
          /\ gate' = [gate EXCEPT !.at = "judge", !.success = FALSE, !.log = NoLog]
          /\ UNCHANGED worker
       \/ /\ gate.left # Expired /\ NoMishap
          /\ gate' = [gate EXCEPT
                  !.at = "running", !.limit = LimitOf(gate.left), !.log = NoLog,
                  !.executed = [tests |-> IF Phase.family = "none" THEN "none"
                                          ELSE Executable,
                                hagia |-> world.hagia]]
          /\ worker' = IF Phase.judge = "measure"
                       THEN NewWorker(Work.load, gate.command.proc) ELSE NoWorker
    /\ UNCHANGED <<world, disk, drag, ran>>

(* An owner case asserts the frozen executable before it passes.             *)
PhaseExits ==
    /\ At("running") /\ Phase.judge # "measure" /\ NothingRuns
    /\ \E log \in PhaseLogs[Phase.judge], success \in BOOLEAN :
          /\ success /\ Phase.judge = "exactly-one" /\ Phase.family = "session"
                => gate.executed.hagia = Frozen
          /\ gate' = [gate EXCEPT !.at = "judge", !.success = success, !.log = log,
                                  !.limit = NoLimit]
    /\ UNCHANGED <<world, disk, ran, mishaps>>

(* The files of a measurement case, as they are when its processes are gone. *)
CaseFiles ==
    [capture |-> drag.file, load |-> worker.load, environment |-> worker.environment]

WithCase(cases) ==
    [o \in DOMAIN cases \cup {Work.ordinal} |->
        IF o = Work.ordinal THEN CaseFiles ELSE cases[o]]

Summary(verdict, passed) ==
    <<[verdict |-> verdict, passed |-> passed, failed |-> 1 - passed, ignored |-> 0]>>

(* The log holds what the fixture wrote: its checkpoint saves, and a summary *)
(* of the harness when it was not killed. It may be too long to be read.     *)
CaseLog(saves, results, readable) ==
    [NoLog EXCEPT !.saves = SubSeq(gate.command.saves, 1, saves), !.results = results,
                  !.readable = readable]

WorkerExits ==
    LET started == drag # NoDrag
        results == IF ~started THEN <<>>
                   ELSE IF drag.at = "passed" THEN Summary("ok", 1) ELSE Summary("failed", 0)
        saves == IF started THEN Len(gate.command.saves) ELSE 0
    IN  /\ At("running") /\ Phase.judge = "measure" /\ WorkerEnded
        /\ \E readable \in BOOLEAN :
              /\ IF readable THEN NoMishap ELSE Mishap
              /\ gate' = [gate EXCEPT
                      !.at = "judge", !.success = worker.at = "passed", !.limit = NoLimit,
                      !.log = CaseLog(saves, results, readable)]
        /\ disk' = [disk EXCEPT !.cases = WithCase(@)]
        /\ worker' = NoWorker /\ drag' = NoDrag
        /\ UNCHANGED <<world, ran>>

(* timeout --signal=KILL: the whole namespace goes at once, the load, the    *)
(* fixture and a half-written capture with it. Killing the one process that  *)
(* timeout(1) started would leave the load of a measurement running.         *)
KillPhaseAlone ==
    /\ At("running") /\ gate.limit = 0 /\ NoMishap
    /\ Phase.judge = "measure" => Threads = {}
    /\ gate' = [gate EXCEPT !.at = "judge", !.success = FALSE, !.limit = NoLimit]
    /\ worker' = NoWorker /\ drag' = NoDrag
    /\ UNCHANGED <<world, disk, ran>>

KillPhase ==
    /\ At("running") /\ gate.limit = 0 /\ NoMishap
    /\ \E saves \in 0..IF drag = NoDrag THEN 0 ELSE Len(gate.command.saves) :
          gate' = [gate EXCEPT !.at = "judge", !.success = FALSE, !.limit = NoLimit,
                               !.log = CaseLog(saves, <<>>, TRUE)]
    /\ disk' = IF Phase.judge # "measure" THEN disk
               ELSE [disk EXCEPT !.cases = WithCase(@)]
    /\ worker' = NoWorker /\ drag' = NoDrag
    /\ UNCHANGED <<world, ran>>

-----------------------------------------------------------------------------
(* The judgment of a phase.                                                  *)

Judgment(item, log) ==
    CASE item.judge = "nonempty"      -> RequireNonempty(log)
      [] item.judge = "required-list" -> ListsRequired(log)
      [] item.judge = "exactly-one"   -> RequireExactlyOne(log)
      [] item.judge = "ignored-list"  -> ListsNamed(log, Ignored)
      [] OTHER                        -> TRUE

Outcome(item, passed) == [name |-> item.name, passed |-> passed]

Executed(item) ==
    [item |-> item, tests |-> gate.executed.tests,
     hagia |-> {gate.executed.hagia, world.hagia}]

(* The phase closure: the log is read and judged, the phase recorded and the *)
(* running report rewritten. An error of the write takes precedence.         *)
JudgePhase ==
    LET passed == gate.success /\ gate.log.readable /\ Judgment(Phase, gate.log)
        phases == Append(gate.phases, Outcome(Phase, passed))
        judged == [gate EXCEPT !.phases = phases]
    IN  /\ At("judge") /\ Phase.judge # "measure" /\ NothingRuns
        /\ \/ /\ WriteReport("running", phases)
              /\ gate' = IF ~passed THEN [judged EXCEPT !.at = "final", !.error = TRUE]
                         ELSE [judged EXCEPT !.at = "after"]
              /\ ran' = IF passed /\ Phase.judge = "exactly-one"
                        THEN ran \cup {Executed(Phase)} ELSE ran
              /\ NoMishap
           \/ /\ TearReport /\ Mishap
              /\ gate' = [judged EXCEPT !.at = "final", !.error = TRUE]
              /\ UNCHANGED ran
        /\ UNCHANGED world

PhaseDone == gate' = [gate EXCEPT !.at = "next", !.todo = Tail(@)]

Entry(family) ==
    IF family = "runtime" THEN "tests/policy_transport.rs" ELSE "unittests src/lib.rs"

(* After a listing: its executable is hashed and its tests are named.        *)
ListingServes(item, log) ==
    /\ ListsBinary(log, Entry(item.family))
    /\ item.judge = "family-list" =>
           \A i \in DOMAIN LegacyCases[item.family] :
               ListsNamed(log, LegacyCases[item.family][i])
    /\ item.judge = "required-list" /\ gate.command.measure # "none" =>
           ListsNamed(log, Timing)

(* A case that only hashes its executable before it runs.                    *)
AfterPhaseUnchecked ==
    /\ At("after") /\ NothingRuns
    /\ \/ /\ Phase.judge \notin {"required-list", "family-list"}
          /\ PhaseDone
       \/ /\ Phase.judge \in {"required-list", "family-list"}
          /\ IF ListingServes(Phase, gate.log)
             THEN gate' = [gate EXCEPT !.at = "next", !.todo = Tail(@),
                                       !.pins[Phase.family] = Executable]
             ELSE Conclude(TRUE)
    /\ NoMishap
    /\ UNCHANGED <<world, disk, ran>>

(* What follows a phase that passed: nothing, the digest after a case, or    *)
(* the record of the listed executable (and of the campaign's machine).      *)
AfterPhase ==
    /\ At("after") /\ NothingRuns
    /\ \/ Phase.judge \in {"status", "nonempty", "ignored-list"} /\ PhaseDone /\ NoMishap
       \/ /\ Phase.judge = "exactly-one" /\ NoMishap
          /\ IF Executable = gate.pins[Phase.family] THEN PhaseDone ELSE Conclude(TRUE)
       \/ /\ Phase.judge \in {"required-list", "family-list"}
          /\ IF ListingServes(Phase, gate.log)
             THEN \/ /\ gate' = [gate EXCEPT !.at = "next", !.todo = Tail(@),
                                             !.pins[Phase.family] = Executable]
                     /\ NoMishap
                  \/ Conclude(TRUE) /\ Mishap
             ELSE Conclude(TRUE) /\ NoMishap
    /\ UNCHANGED <<world, disk, ran>>

-----------------------------------------------------------------------------
(* measurement_run::exercise: a case after its worker, and the report.       *)

Present(files) == files.capture # <<>> /\ files.load # <<>> /\ files.environment # <<>>

Indexed(work, files, log) ==
    LET gaps == IF log.readable THEN CheckpointGaps(log.saves)
                ELSE [checkpoint_saves |-> Absent, checkpoint_max_gap_ms |-> Absent]
    IN  [ordinal |-> work.ordinal, pair |-> work.pair, load |-> work.load,
         path |-> work.ordinal, sha256 |-> files.capture[1],
         load_sha256 |-> files.load[1], environment_sha256 |-> files.environment[1],
         checkpoint_saves |-> gaps.checkpoint_saves,
         checkpoint_max_gap_ms |-> gaps.checkpoint_max_gap_ms]

CommandedWorkload(run, work) ==
    /\ run.wire = work.wire /\ run.kind = work.kind
    /\ run.rate_hz = work.rate /\ run.requested_updates = work.updates

(* Indexing only what decodes: a failed case would leave no trace of the     *)
(* partial capture it has.                                                   *)
IndexesDecoded(files) == Present(files) /\ Decodes(files.capture[1])

(* The raw bytes are indexed before they are judged.                         *)
Indexes(files) == Present(files)

(* Process failure first, then the executable's identity, then the capture.  *)
ConcludeCase ==
    LET files == IF Work.ordinal \in DOMAIN disk.cases THEN disk.cases[Work.ordinal]
                 ELSE [capture |-> <<>>, load |-> <<>>, environment |-> <<>>]
        result == gate.success /\ gate.log.readable /\ RequireExactlyOne(gate.log)
        captured == /\ Present(files) /\ Decodes(files.capture[1])
                    /\ CommandedWorkload(files.capture[1], Work)
        passed == result /\ captured /\ Executable = gate.pins[Phase.family]
        phases == Append(gate.phases, Outcome(Phase, passed))
        indexed == IF Indexes(files)
                   THEN Append(disk.manifest.runs, Indexed(Work, files, gate.log))
                   ELSE disk.manifest.runs
    IN  /\ At("judge") /\ Phase.judge = "measure" /\ NothingRuns
        /\ \/ /\ disk' = [disk EXCEPT !.manifest.runs = indexed]
              /\ gate' = IF passed
                         THEN [gate EXCEPT !.phases = phases, !.at = "next", !.todo = Tail(@)]
                         ELSE [gate EXCEPT !.phases = phases, !.at = "final", !.error = TRUE]
              /\ ran' = IF passed THEN ran \cup {Executed(Phase)} ELSE ran
              /\ NoMishap
           \/ /\ disk' = [disk EXCEPT !.manifest.whole = FALSE]
              /\ gate' = [gate EXCEPT !.phases = phases, !.at = "final", !.error = TRUE]
              /\ UNCHANGED ran
              /\ Mishap
        /\ UNCHANGED world

Manifest == [mode |-> gate.command.measure, runs |-> disk.manifest.runs]

JudgeCampaign ==
    LET report == Report(Manifest, disk.cases)
    IN  /\ At("next") /\ gate.todo # <<>> /\ Phase.judge = "campaign" /\ NothingRuns
        /\ \/ /\ disk' = IF report.outcome = "refused" THEN disk
                         ELSE [disk EXCEPT !.measurement = report]
              /\ Conclude(~report.budgets_pass)
              /\ NoMishap
           \/ UNCHANGED disk /\ Conclude(TRUE) /\ Mishap
        /\ UNCHANGED <<world, ran>>

-----------------------------------------------------------------------------
(* The end of run.                                                           *)

(* The evidence is coherent: the caller's checkout and everything the        *)
(* identity names are what they were.                                        *)
Coherent ==
    /\ ValidSource(world.checkout)
    /\ KnownIdentity /\ Identity = gate.before

(* Reporting before that is known would leave a "pass" behind a failure.     *)
FinalReportEarly ==
    /\ At("final") /\ NothingRuns
    /\ WriteReport(IF gate.error THEN "fail" ELSE "pass", gate.phases)
    /\ Exit(IF ~gate.error /\ Coherent THEN "pass" ELSE "fail")
    /\ NoMishap
    /\ UNCHANGED ran

FinalReport ==
    /\ At("final") /\ NothingRuns
    /\ \/ \E coherent \in {Coherent, FALSE} :
              LET result == IF ~gate.error /\ coherent THEN "pass" ELSE "fail"
              IN  /\ WriteReport(result, gate.phases)
                  /\ Exit(result)
                  /\ IF coherent = Coherent THEN NoMishap ELSE Mishap
       \/ TearReport /\ Exit("fail") /\ Mishap
    /\ UNCHANGED ran

-----------------------------------------------------------------------------
(* The others.                                                               *)

Tick ==
    /\ gate.left # Expired /\ gate.at \notin {"options", "inputs", "lock", "evidence", "exited"}
    /\ At("running") => gate.limit # 0
    /\ gate' = [gate EXCEPT !.left = @ - 1,
                            !.limit = IF @ > 0 THEN @ - 1 ELSE @]
    /\ UNCHANGED <<world, disk, drag, worker, ran, mishaps>>

(* Another gate takes and drops the lock of the same target.                 *)
OtherGate ==
    /\ ~At("exited")
    /\ \/ world.lock = "free" /\ world' = [world EXCEPT !.lock = "theirs"]
       \/ world.lock = "theirs" /\ world' = [world EXCEPT !.lock = "free"]
    /\ UNCHANGED <<gate, disk, drag, worker, ran, mishaps>>

(* Someone replaces a file the runner relies on.                             *)
Tamper ==
    /\ Mishap
    /\ ~At("exited")
    /\ world' \in {[world EXCEPT !.hagia = "rebuilt"]}
                  \cup {[world EXCEPT !.tests[b] = "rebuilt"] : b \in DOMAIN world.tests}
                  \cup {[world EXCEPT !.checkout.tree[MountPath] = Append(@, "edit")],
                        [world EXCEPT !.scratch.tree[QidPath] = Append(@, "edit")],
                        [world EXCEPT !.scratch.untracked = TRUE]}
    /\ UNCHANGED <<gate, disk, drag, worker, ran>>

-----------------------------------------------------------------------------

GateInit ==
    /\ gate \in {[command |-> command, at |-> "options", todo |-> <<>>, left |-> 0,
                  limit |-> NoLimit, log |-> NoLog, success |-> FALSE, phases |-> <<>>,
                  before |-> <<>>, pins |-> [f \in DOMAIN BinaryOf |-> "unknown"],
                  executed |-> <<>>, error |-> FALSE, exit |-> "none"] :
                    command \in Commands}
    /\ world = [checkout |-> Scratch, scratch |-> Scratch, hagia |-> Frozen, lock |-> "free",
                tests |-> [b \in {BinaryOf[f] : f \in DOMAIN BinaryOf} |-> "built"]]
    /\ disk = [report |-> Reported("absent", <<>>), overlay |-> {}, cases |-> <<>>,
               manifest |-> [whole |-> TRUE, runs |-> <<>>], measurement |-> Refused]
    /\ drag = NoDrag /\ worker = NoWorker
    /\ ran = {} /\ mishaps = 0

(* The runner's own steps: it never waits but for the phase it started.      *)
GateStep ==
    \/ ParseOptions \/ CheckInputs \/ TakeLock \/ MakeEvidence
    \/ PrepareOverlay \/ IdentifyBefore \/ ReportRunning
    \/ TakePhase \/ LaunchPhase \/ JudgePhase \/ AfterPhase
    \/ ConcludeCase \/ JudgeCampaign \/ FinalReport

PhaseStep ==
    /\ At("running") /\ Phase.judge = "measure" /\ gate.limit # 0
    /\ WorkerStep(Work, gate.executed.hagia = Frozen)
    /\ UNCHANGED <<gate, world, disk, ran>>

GateNext ==
    \/ GateStep
    \/ PhaseStep \/ PhaseExits \/ WorkerExits \/ KillPhase
    \/ Tick \/ OtherGate \/ Tamper

(* The runner and timeout(1) go on, and time passes; a phase may hang.       *)
GateSpec ==
    /\ GateInit /\ [][GateNext]_gateVars
    /\ WF_gateVars(GateStep) /\ WF_gateVars(KillPhase) /\ WF_gateVars(Tick)
=============================================================================
