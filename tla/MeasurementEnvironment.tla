------------------------ MODULE MeasurementEnvironment ------------------------
(* What the runner samples beside a measurement case (measurement.rs): the   *)
(* Dirty and Writeback lines of /proc/meminfo, the pressure files, and the   *)
(* gaps between Hagia's checkpoint saves in the log of the case. The sampler *)
(* writes environment.json, the reader of a campaign validates it.           *)
(*                                                                           *)
(* A /proc file is [state, lines], its state "read", "unreadable" or         *)
(* "not utf8". A meminfo line is [key, value], a pressure line [key, avg10,  *)
(* total]; a number is a natural, or Absent, or Garbage. A sample is the set *)
(* of its entries, each with the key <<source, name>> and a typed value.     *)
EXTENDS Integers, Sequences, FiniteSets, TLC

Absent == -1        \* the line has no such word
Garbage == -2       \* a word that does not parse as u64

Resources == <<"io", "cpu", "memory">>
Sources == {"meminfo"} \cup {Resources[r] : r \in DOMAIN Resources}

Number(n) == [type |-> "u64", value |-> n]
Text == [type |-> "string", value |-> 0]

-----------------------------------------------------------------------------
(* parse_meminfo and parse_pressure.                                         *)

Lines(file, key) == {i \in DOMAIN file.lines : file.lines[i].key = key}

TheLine(file, key) == file.lines[CHOOSE i \in Lines(file, key) : TRUE]

(* Each of the two lines once, with a number.                                *)
ParsesMeminfo(file) ==
    /\ file.state = "read"
    /\ \A key \in {"Dirty", "Writeback"} :
           /\ Cardinality(Lines(file, key)) = 1
           /\ TheLine(file, key).value >= 0

(* One "some" line, one "full" line at most, each with its average and total.*)
ParsesPressure(file) ==
    /\ file.state = "read"
    /\ Cardinality(Lines(file, "some")) = 1
    /\ Cardinality(Lines(file, "full")) <= 1
    /\ \A i \in Lines(file, "some") \cup Lines(file, "full") :
           file.lines[i].avg10 # Absent /\ file.lines[i].total >= 0

-----------------------------------------------------------------------------
(* sample_environment: what can be read, and a reason for what cannot.       *)

Recorded(source, key, value) == [key |-> <<source, key>>, value |-> value]

MeminfoEntries(file) ==
    IF ParsesMeminfo(file)
    THEN {Recorded("meminfo", "dirty_kb", Number(TheLine(file, "Dirty").value)),
          Recorded("meminfo", "writeback_kb", Number(TheLine(file, "Writeback").value))}
    ELSE {Recorded("meminfo", "unavailable", Text)}

PressureEntries(resource, file) ==
    IF ~ParsesPressure(file) THEN {Recorded(resource, "unavailable", Text)}
    ELSE {Recorded(resource, "some_avg10", Text),
          Recorded(resource, "some_total", Number(TheLine(file, "some").total))}
         \cup IF Lines(file, "full") = {} THEN {}
              ELSE {Recorded(resource, "full_avg10", Text),
                    Recorded(resource, "full_total", Number(TheLine(file, "full").total))}

SampleEnvironment(clock, proc) ==
    {Recorded("clock", "monotonic_ns", Number(clock))}
        \cup MeminfoEntries(proc.meminfo)
        \cup PressureEntries("io", proc.io)
        \cup PressureEntries("cpu", proc.cpu)
        \cup PressureEntries("memory", proc.memory)

-----------------------------------------------------------------------------
(* validate_environment.                                                     *)

StringKeys ==
    {<<"meminfo", "unavailable">>}
    \cup {<<r, k>> : r \in {"io", "cpu", "memory"},
                     k \in {"some_avg10", "full_avg10", "unavailable"}}

U64Keys ==
    {<<"clock", "monotonic_ns">>, <<"meminfo", "dirty_kb">>, <<"meminfo", "writeback_kb">>}
    \cup {<<r, k>> : r \in {"io", "cpu", "memory"}, k \in {"some_total", "full_total"}}

(* The reader without the keys of a full pressure line.                      *)
ValidSampleNarrow(sample) ==
    \A entry \in sample :
        /\ entry.key \in StringKeys \cup U64Keys
        /\ entry.key[2] \notin {"full_avg10", "full_total"}

ValidSample(sample) ==
    \A entry \in sample :
        /\ entry.key \in StringKeys => entry.value.type = "string"
        /\ entry.key \in U64Keys => entry.value.type = "u64"
        /\ entry.key \in StringKeys \cup U64Keys

Clocks(sample) ==
    {entry.value.value : entry \in {e \in sample : e.key = <<"clock", "monotonic_ns">>}}

ValidEnvironment(environment) ==
    /\ environment.sources = Sources
    /\ ValidSample(environment.start)
    /\ ValidSample(environment.end)
    /\ Clocks(environment.start) # {} /\ Clocks(environment.end) # {}
    /\ \A before \in Clocks(environment.start), after \in Clocks(environment.end) :
           before <= after

-----------------------------------------------------------------------------
(* Checkpoint gaps. A save line of the log is [date, time, offset] with the  *)
(* date <<year, month, day>>, the time <<hours, minutes, seconds>> and the   *)
(* offset in minutes; an unreadable stamp has an empty date. Milliseconds    *)
(* are left out: seconds since 1970 are as much as the checker's integers    *)
(* hold.                                                                     *)

(* Days since 1970 of a date in the proleptic Gregorian calendar, with the   *)
(* year beginning in March.                                                  *)
DaysOf(date) ==
    LET year == IF date[2] <= 2 THEN date[1] - 1 ELSE date[1]
        era == year \div 400
        yoe == year - era * 400
        doy == (153 * (date[2] + IF date[2] > 2 THEN -3 ELSE 9) + 2) \div 5 + date[3] - 1
        doe == yoe * 365 + yoe \div 4 - yoe \div 100 + doy
    IN  era * 146097 + doe - 719468

StampSeconds(save) ==
    DaysOf(save.date) * 86400
        + save.time[1] * 3600 + save.time[2] * 60 + save.time[3] - save.offset * 60

(* A month, a day and a time in their ranges (31 days in each month), and    *)
(* not before 1970.                                                          *)
ParsesStamp(save) ==
    /\ Len(save.date) = 3
    /\ save.date[2] \in 1..12 /\ save.date[3] \in 1..31
    /\ save.time[1] <= 23 /\ save.time[2] <= 59 /\ save.time[3] <= 60
    /\ StampSeconds(save) >= 0

(* extract_checkpoint_gaps: the number of saves, and the largest gap if      *)
(* every stamp could be read and there are two of them (else Absent).        *)
Gap(before, after) ==
    IF StampSeconds(after) >= StampSeconds(before)
    THEN StampSeconds(after) - StampSeconds(before) ELSE 0

CheckpointGaps(saves) ==
    LET gaps == {Gap(saves[i], saves[i + 1]) : i \in 1..Len(saves) - 1}
    IN  [checkpoint_saves |-> Len(saves),
         checkpoint_max_gap_ms |->
            IF Len(saves) < 2 \/ \E i \in DOMAIN saves : ~ParsesStamp(saves[i])
            THEN Absent
            ELSE CHOOSE gap \in gaps : \A other \in gaps : other <= gap]
=============================================================================
