-------------------------- MODULE MeasurementReport --------------------------
(* The reader of a measurement campaign (runner/src/measurement.rs): the     *)
(* accounts a capture must keep to be decoded, the nearest-rank percentiles, *)
(* the comparison of the two wires of a pair and the report on a manifest.   *)
(*                                                                           *)
(* A capture is a record with the fields of measurement.json; an identity    *)
(* that JSON has as null is 0, and time is in the unit of Interval. A file   *)
(* that may be missing is a sequence with one content or none, and the hash  *)
(* of a file is its content.                                                 *)
EXTENDS MeasurementEnvironment, Functions

CONSTANTS
    Kinds,              \* <<"move", "resize">>
    Rates,              \* <<60, 120>>
    Loads,              \* <<"idle", "cpu">>
    Interval,           \* rate |-> 1_000_000_000 / rate
    P95Slack,           \* 1_000_000 ns
    P99Slack,           \* 2_000_000 ns
    MaxUpdates,         \* MAX_UPDATES
    AdmittedFloor,      \* 10_000: what acceptance asks of every capture
    MaxPair,            \* 5: the largest pair number
    AcceptanceGroups,   \* 40: the pairs that acceptance requires
    MaxRuns             \* 80: the most captures a manifest may list

RangeOf(seq) == {seq[i] : i \in DOMAIN seq}

(* There is a condition to measure, none is there twice, and each rate has   *)
(* its interval.                                                             *)
ASSUME ConditionAssumption ==
    /\ Kinds \in Seq(STRING) \ {<<>>}
    /\ Loads \in Seq(STRING) \ {<<>>}
    /\ Rates \in Seq(Nat \ {0}) \ {<<>>}
    /\ IsInjective(Kinds) /\ IsInjective(Loads) /\ IsInjective(Rates)
    /\ \A r \in DOMAIN Rates : Rates[r] \in DOMAIN Interval /\ Interval[Rates[r]] \in Nat

-----------------------------------------------------------------------------
(* decode_run.                                                               *)

ScheduledAt(rate, sequence) == (sequence - 1) * Interval[rate]

(* offered_timing: the entry's identity, its absolute schedule and the order *)
(* of its times, the last of which is settled_ns or observed_ns.             *)
OfferedTiming(entry, run) ==
    /\ entry.offered_sequence \in 1..run.offered
    /\ entry.scheduled_ns = ScheduledAt(run.rate_hz, entry.offered_sequence)
    /\ entry.scheduled_ns <= entry.enqueued_ns
    /\ entry.enqueued_ns <= entry.ended_ns
    /\ entry.ended_ns <= run.elapsed_ns

(* failed_offer and the sample loop share the set of sequences seen: each    *)
(* offered update has one outcome at most.                                   *)
Outcomes(run) == run.unresolved_updates \o run.failures \o run.samples

EachOfferedOnce(run) ==
    \A i, j \in DOMAIN Outcomes(run) :
        Outcomes(run)[i].offered_sequence = Outcomes(run)[j].offered_sequence
            => i = j

CountersWithinOffered(run) ==
    /\ run.offered <= run.requested_updates
    /\ \A count \in {run.admitted, run.rejected, run.settled, run.coalesced,
                     run.timeouts, run.disconnects, run.rejected_settlements,
                     run.unresolved} : count <= run.offered

(* Conservation without the admission side: offers that neither entered the  *)
(* queue nor were refused go unnoticed.                                      *)
CountersCoherentLoose(run) ==
    /\ run.settled = Len(run.samples)
    /\ run.settled <= run.admitted

CountersCoherent(run) ==
    /\ run.status = "complete" => run.offered = run.requested_updates
    /\ run.admitted + run.rejected = run.offered
    /\ run.settled = Len(run.samples)
    /\ run.settled <= run.admitted
    /\ run.admitted = run.settled + run.coalesced + run.timeouts
                        + run.disconnects + run.rejected_settlements
                        + run.unresolved
    /\ run.max_in_flight <= 1
    /\ run.settled > 0 => run.max_in_flight = 1
    /\ run.max_queue_depth <= 1

FailuresWithinOffered(run) ==
    /\ Len(run.failures) <= run.offered
    /\ Len(run.unresolved_updates) <= run.offered

CompleteIsClean(run) ==
    run.status = "complete" =>
        /\ run.failures = <<>> /\ run.unresolved_updates = <<>>
        /\ run.rejected = 0 /\ run.timeouts = 0 /\ run.disconnects = 0
        /\ run.rejected_settlements = 0 /\ run.unresolved = 0
        /\ ~run.error

FailedFor(run, reasons) ==
    Cardinality({i \in DOMAIN run.failures : run.failures[i].reason \in reasons})

ReasonsMatchCounters(run) ==
    /\ FailedFor(run, {"enqueue_refused"}) = run.rejected
    /\ FailedFor(run, {"timed_out"}) = run.timeouts
    /\ FailedFor(run, {"disconnected"}) = run.disconnects
    /\ FailedFor(run, {"rejected_stale", "rejected_invalid"}) = run.rejected_settlements
    /\ FailedFor(run, {"measurement_deadline"}) + Len(run.unresolved_updates)
           = run.unresolved

(* Samples rise in all three identities, from 0.                             *)
SamplesRise(run) ==
    \A i \in DOMAIN run.samples :
        LET sample == run.samples[i]
            prior == IF i = 1
                     THEN [offered_sequence |-> 0, request_id |-> 0, transaction |-> 0]
                     ELSE run.samples[i - 1]
        IN  /\ sample.offered_sequence > prior.offered_sequence
            /\ sample.request_id > prior.request_id
            /\ sample.transaction > prior.transaction

Decodes(run) ==
    /\ run.whole                \* the bytes parse, with exactly these fields
    /\ run.rate_hz \in RangeOf(Rates)
    /\ run.requested_updates \in 1..MaxUpdates
    /\ CountersWithinOffered(run)
    /\ CountersCoherent(run)
    /\ FailuresWithinOffered(run)
    /\ CompleteIsClean(run)
    /\ \A i \in DOMAIN Outcomes(run) : OfferedTiming(Outcomes(run)[i], run)
    /\ EachOfferedOnce(run)
    /\ ReasonsMatchCounters(run)
    /\ SamplesRise(run)

-----------------------------------------------------------------------------
(* Latency distributions.                                                    *)

Rank(size, percent) == (size * percent + 99) \div 100

Percentile(values, percent) ==
    SortSeq(values, LAMBDA a, b : a < b)[Rank(Len(values), percent)]

Latencies(run) ==
    [i \in DOMAIN run.samples |-> run.samples[i].ended_ns - run.samples[i].enqueued_ns]

Survivors(run) == [i \in DOMAIN run.samples |-> run.samples[i].offered_sequence]

-----------------------------------------------------------------------------
(* compare: the two captures of a pair.                                      *)

Comparable(ipc, files) ==
    /\ ipc.wire = "current-ipc" /\ files.wire = "9p2000.L"
    /\ ipc.kind = files.kind
    /\ ipc.rate_hz = files.rate_hz
    /\ ipc.requested_updates = files.requested_updates
    /\ ipc.samples # <<>> /\ files.samples # <<>>

LatencyWithinBudgets(ipc, files) ==
    LET p(run, percent) == Percentile(Latencies(run), percent)
    IN  /\ p(files, 95) <= p(ipc, 95) + P95Slack
        /\ p(files, 99) <= p(ipc, 99) + P99Slack
        /\ p(files, 99) <= Interval[files.rate_hz]

NoFailedWork(run) ==
    /\ run.status = "complete"
    /\ run.timeouts = 0 /\ run.disconnects = 0
    /\ run.rejected = 0 /\ run.rejected_settlements = 0 /\ run.unresolved = 0

(* Equal counts alone: two captures that lost different updates compare as   *)
(* equal work.                                                               *)
SameSurvivorsLoose(ipc, files) == ipc.rate_hz = files.rate_hz

SameSurvivors(ipc, files) ==
    /\ ipc.coalesced = files.coalesced
    /\ ipc.settled = files.settled
    /\ Survivors(ipc) = Survivors(files)

BudgetsPass(ipc, files) ==
    /\ NoFailedWork(ipc) /\ NoFailedWork(files)
    /\ LatencyWithinBudgets(ipc, files)
    /\ SameSurvivors(ipc, files)

-----------------------------------------------------------------------------
(* report: the files of a campaign, read back through its manifest.          *)

(* Which wire runs first alternates with the pair.                           *)
WireOrder(pair) ==
    IF pair % 2 = 1 THEN <<"current-ipc", "9p2000.L">>
                    ELSE <<"9p2000.L", "current-ipc">>

(* validate_load: the worker count of the load and progress of each worker.  *)
Workers(load) == IF load = "idle" THEN 0 ELSE 2

ValidLoad(report, load) ==
    /\ report.workers = Workers(load)
    /\ Len(report.blocks_per_worker) = Workers(load)
    /\ \A i \in DOMAIN report.blocks_per_worker : report.blocks_per_worker[i] > 0
    /\ report.elapsed_ns > 0

(* The manifest lists its captures in execution order, and the three files   *)
(* of each are there, once, with the bytes that were hashed.                 *)
Contiguous(runs) ==
    /\ Len(runs) \in 1..MaxRuns
    /\ \A i \in DOMAIN runs : runs[i].ordinal = i /\ runs[i].pair \in 1..MaxPair

PinnedBytes(runs, cases) ==
    \A i \in DOMAIN runs :
        /\ runs[i].path \in DOMAIN cases
        /\ \A j \in DOMAIN runs : runs[j].path = runs[i].path => j = i
        /\ cases[runs[i].path].capture = <<runs[i].sha256>>
        /\ cases[runs[i].path].load = <<runs[i].load_sha256>>
        /\ cases[runs[i].path].environment = <<runs[i].environment_sha256>>

Readable(entry) ==
    /\ Decodes(entry.sha256)
    /\ ValidLoad(entry.load_sha256, entry.load)
    /\ ValidEnvironment(entry.environment_sha256)

Key(entry) == <<entry.sha256.kind, entry.sha256.rate_hz, entry.load, entry.pair>>

Groups(runs) == {{i \in DOMAIN runs : Key(runs[i]) = Key(runs[j])} : j \in DOMAIN runs}

(* The two captures of a group are adjacent and in the order of their pair.  *)
PairAlternates(runs, group) ==
    \E i \in group :
        /\ group = {i, i + 1}
        /\ <<runs[i].sha256.wire, runs[i + 1].sha256.wire>> = WireOrder(runs[i].pair)

OnWire(runs, group, wire) ==
    runs[CHOOSE i \in group : runs[i].sha256.wire = wire].sha256

PairCompares(runs, group) ==
    /\ PairAlternates(runs, group)
    /\ Comparable(OnWire(runs, group, "current-ipc"), OnWire(runs, group, "9p2000.L"))

(* Everything that makes report refuse a campaign instead of judging it.     *)
Judgeable(manifest, cases) ==
    /\ Contiguous(manifest.runs)
    /\ PinnedBytes(manifest.runs, cases)
    /\ \A i \in DOMAIN manifest.runs : Readable(manifest.runs[i])
    /\ \A group \in Groups(manifest.runs) : PairCompares(manifest.runs, group)
    /\ manifest.mode = "acceptance" =>
           /\ \A i \in DOMAIN manifest.runs :
                  manifest.runs[i].sha256.admitted >= AdmittedFloor
           /\ Cardinality(Groups(manifest.runs)) = AcceptanceGroups

Refused == [outcome |-> "refused", budgets_pass |-> FALSE, latency_gate_pass |-> FALSE]

Report(manifest, cases) ==
    IF ~Judgeable(manifest, cases) THEN Refused
    ELSE LET runs == manifest.runs
             budgets == \A group \in Groups(runs) :
                            BudgetsPass(OnWire(runs, group, "current-ipc"),
                                        OnWire(runs, group, "9p2000.L"))
         IN  [outcome |-> "judged", budgets_pass |-> budgets,
              latency_gate_pass |-> manifest.mode = "acceptance" /\ budgets]
=============================================================================
