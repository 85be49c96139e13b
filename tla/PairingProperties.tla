--------------------------- MODULE PairingProperties ---------------------------
(* What the pairing gate and its measurement campaigns promise.              *)
EXTENDS PairingGate

Exited == gate.exit # "none"

BetweenPhases == gate.at \in {"next", "final"}

Judged(item) == item.judge \in {"exactly-one", "measure"}

-----------------------------------------------------------------------------
(* The exit of the runner and its report agree, whatever read or write of it *)
(* fails: a gate that ended never leaves "running" behind (write_report      *)
(* rewrites one file), and "pass" is written by a gate that passes and no    *)
(* other.                                                                    *)
ExitAgreesWithReport ==
    /\ Exited => disk.report.status # "running"
    /\ gate.exit = "pass" <=> disk.report.status = "pass"

Passed(item) == Outcome(item, TRUE)

(* And a gate that passes reports every phase of its plan, in order, each    *)
(* passed. Only the campaign's report, always last, has no phase of its own. *)
ReportTellsTheRun ==
    /\ ExitAgreesWithReport
    /\ gate.exit = "pass" =>
           LET plan == Plan(gate.command.measure)
           IN  disk.report.phases =
                   [i \in {j \in DOMAIN plan : plan[j].judge # "campaign"} |-> Passed(plan[i])]

(* Every case of a gate that passed ran the test executable whose hash the   *)
(* gate recorded and the frozen Hagia, though one of the files it relies on  *)
(* was replaced at any moment: digest before and after a case, identity      *)
(* before and after the gate.                                                *)
PassRanTheNamedBinaries ==
    gate.exit = "pass" =>
        \A i \in DOMAIN Plan(gate.command.measure) :
            LET item == Plan(gate.command.measure)[i]
            IN  Judged(item) =>
                    \E case \in ran :
                        /\ case.item = item
                        /\ case.tests = gate.pins[item.family]
                        /\ case.hagia = {Frozen}

(* The overlay manifest that a passed gate is identified by names exactly    *)
(* the files of the scratch checkout that differ from the pinned commit, as  *)
(* they are: also a parent to which several recipes append. (An edit of the  *)
(* scratch between prepare and the first identity goes unseen: nothing       *)
(* compares the recorded diff with the manifest.)                            *)
ManifestNamesEveryChange ==
    gate.exit = "pass" /\ mishaps = 0 =>
        LET tree == world.scratch.tree
            pinned == CommitTree[Compatibility.sophia_commit]
        IN  disk.overlay = {[path |-> p, content |-> tree[p]] :
                p \in {q \in DOMAIN tree : q \notin DOMAIN pinned \/ tree[q] # pinned[q]}}

(* The lock file of another gate on the same build target goes only when     *)
(* that gate drops it (TargetLease).                                         *)
OthersLockSurvives ==
    [][world.lock = "theirs" /\ world'.lock # "theirs" => gate' = gate]_gateVars

-----------------------------------------------------------------------------
(* Every gate ends, though each of its phases may hang, unless a phase was   *)
(* started without a limit.                                                  *)
BoundedRunsEnd == <>(Exited \/ (At("running") /\ gate.limit = NoLimit))

(* "The outer deadline covers all isolated phases without renewal"           *)
(* (tools/sophia_pairing/README.md): none still runs once it has passed.     *)
DeadlineCoversPhases == At("running") => gate.left # Expired

-----------------------------------------------------------------------------
(* A capture that is wholly written is decoded exactly when no panic cut its *)
(* accounts in the middle: every refusal, timeout, lost transport and        *)
(* deadline keeps them coherent, and an interrupted account never passes     *)
(* for a coherent one (Capture::finish and decode_run).                      *)
InterruptedIsRefused ==
    drag.file # <<>> /\ drag.file[1].whole =>
        (Decodes(drag.file[1]) <=> ~drag.interrupted)

(* The calendar as it is taught, as a reference for days_from_civil: where   *)
(* the months begin, and 365 days a year and one more for each leap year     *)
(* since 1970.                                                               *)
Leap(year) == year % 4 = 0 /\ (year % 100 # 0 \/ year % 400 = 0)

MonthBegins == <<0, 31, 59, 90, 120, 151, 181, 212, 243, 273, 304, 334>>

DayOfYear(date) ==
    MonthBegins[date[2]] + date[3] + IF Leap(date[1]) /\ date[2] > 2 THEN 1 ELSE 0

LeapYears(end) == {year \in 1970..end - 1 : Leap(year)}

DayNumber(date) ==
    365 * (date[1] - 1970) + Cardinality(LeapYears(date[1])) + DayOfYear(date)

(* Seconds from one save to the next by that calendar, each local time put   *)
(* back to UTC by its offset. A clock that was set back shows none.          *)
Elapsed(before, after) ==
    LET local(save) == save.time[1] * 3600 + save.time[2] * 60 + save.time[3]
                           - save.offset * 60
        seconds == (DayNumber(after.date) - DayNumber(before.date)) * 86400
                       + local(after) - local(before)
    IN  IF seconds >= 0 THEN seconds ELSE 0

(* The largest checkpoint gap of a manifest entry is time that really passed *)
(* between two saves, over month ends, leap days and offsets, and none is    *)
(* given when a stamp cannot be read (extract_checkpoint_gaps).              *)
GapIsElapsedTime(entry, written) ==
    LET gap == entry.checkpoint_max_gap_ms
        saves == SubSeq(written, 1, entry.checkpoint_saves)
        steps == {Elapsed(saves[j], saves[j + 1]) : j \in 1..Len(saves) - 1}
    IN  IF (\A j \in DOMAIN saves : saves[j].date # <<>>) /\ steps # {}
        THEN gap \in steps /\ \A step \in steps : step <= gap
        ELSE gap = Absent

(* The campaign's manifest lists the bytes that are on disk, in execution    *)
(* order, with every case that left its three files, failed or not: partial  *)
(* evidence is never dropped because its accounts do not parse. The gaps     *)
(* beside them are time that passed.                                         *)
ManifestBindsBytes ==
    /\ Contiguous(disk.manifest.runs) \/ disk.manifest.runs = <<>>
    /\ PinnedBytes(disk.manifest.runs, disk.cases)
    /\ disk.manifest.whole =>
           \A ordinal \in DOMAIN disk.cases :
               Present(disk.cases[ordinal]) => ordinal \in DOMAIN disk.manifest.runs

ManifestBindsTheDisk ==
    BetweenPhases =>
        /\ ManifestBindsBytes
        /\ \A i \in DOMAIN disk.manifest.runs :
               GapIsElapsedTime(disk.manifest.runs[i], gate.command.saves)

(* A campaign whose every case passed can be judged: what the worker and the *)
(* runner accept, the report reads (sample_environment against               *)
(* validate_environment, decode_run against the fixture).                    *)
CampaignIsReadable ==
    At("next") /\ gate.todo # <<>> /\ Phase.judge = "campaign" =>
        Judgeable(Manifest, disk.cases)

(* The latency gate passes for an acceptance campaign only, when each update *)
(* that one wire answered the other answered too, in every pair, none failed *)
(* and the load made progress under every capture.                           *)
GatePassIsEarned ==
    disk.measurement.latency_gate_pass =>
        /\ gate.command.measure = "acceptance"
        /\ \A i \in DOMAIN disk.manifest.runs :
               LET entry == disk.manifest.runs[i]
               IN  /\ entry.sha256.status = "complete"
                   /\ \A id \in DOMAIN entry.load_sha256.blocks_per_worker :
                          entry.load_sha256.blocks_per_worker[id] > 0
                   /\ \E j \in DOMAIN disk.manifest.runs \ {i} :
                          /\ Key(disk.manifest.runs[j]) = Key(entry)
                          /\ disk.manifest.runs[j].sha256.wire # entry.sha256.wire
                          /\ Survivors(disk.manifest.runs[j].sha256)
                                 = Survivors(entry.sha256)
=============================================================================
