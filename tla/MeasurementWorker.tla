--------------------------- MODULE MeasurementWorker ---------------------------
(* The subprocess that runs one measurement case (measurement_run.rs,        *)
(* worker): it samples the environment, starts the CPU load behind a         *)
(* barrier, runs the fixture, stops the load, and writes its two reports     *)
(* before it judges the case.                                                *)
EXTENDS DragCapture

VARIABLE worker     \* the subprocess, or NoWorker when none runs

NoWorker == [at |-> "absent", threads |-> <<>>, load |-> <<>>, environment |-> <<>>]

(* The first sample is taken and the load threads are spawned.               *)
NewWorker(load, proc) ==
    [at |-> "spawned", stopping |-> FALSE, success |-> FALSE, proc |-> proc,
     threads |-> [id \in 1..Workers(load) |-> "spawned"],
     blocks |-> [id \in 1..Workers(load) |-> 0],
     load |-> <<>>, environment |-> <<>>]

Threads == DOMAIN worker.threads

-----------------------------------------------------------------------------
(* Barrier::new(workers + 1): the load threads and the main thread.          *)

Arrivals ==
    Cardinality({id \in Threads : worker.threads[id] # "spawned"})
        + IF worker.at = "spawned" THEN 0 ELSE 1

BarrierOpen == Arrivals = Cardinality(Threads) + 1

ThreadArrives(id) ==
    /\ worker.threads[id] = "spawned"
    /\ worker' = [worker EXCEPT !.threads[id] = "arrived"]

MainArrives ==
    /\ worker.at = "spawned"
    /\ worker' = [worker EXCEPT !.at = "waiting"]

(* Released, a thread computes blocks until it sees the stop flag; it may be *)
(* released so late that it computes none. Only that is told apart.          *)
ThreadStops(id) ==
    /\ worker.threads[id] = "arrived" /\ BarrierOpen /\ worker.stopping
    /\ \E blocks \in 0..1 :
          worker' = [worker EXCEPT !.threads[id] = "done", !.blocks[id] = blocks]

LoadStep ==
    \E id \in Threads : ThreadArrives(id) \/ ThreadStops(id)

-----------------------------------------------------------------------------
(* The fixture and the reports.                                              *)

(* Command::status begins: the fixture is started, or cannot be.             *)
StartFixture(work) ==
    /\ worker.at = "waiting" /\ BarrierOpen
    /\ \/ /\ worker' = [worker EXCEPT !.at = "fixture"]
          /\ drag' = NewDrag(work)
          /\ NoMishap
       \/ /\ worker' = [worker EXCEPT !.at = "joining", !.stopping = TRUE]
          /\ UNCHANGED drag
          /\ Mishap

FixtureExits ==
    /\ worker.at = "fixture" /\ drag.at \in {"passed", "failed"}
    /\ worker' = [worker EXCEPT !.at = "joining", !.stopping = TRUE,
                                !.success = drag.at = "passed"]
    /\ UNCHANGED <<drag, mishaps>>

(* Every thread joined; the second sample and environment.json.              *)
WriteEnvironment ==
    /\ worker.at = "joining"
    /\ \A id \in Threads : worker.threads[id] = "done"
    /\ \/ /\ worker' = [worker EXCEPT !.at = "reporting",
                !.environment = <<[sources |-> Sources,
                                   start |-> SampleEnvironment(0, worker.proc),
                                   end |-> SampleEnvironment(1, worker.proc)]>>]
          /\ NoMishap
       \/ worker' = [worker EXCEPT !.at = "failed"] /\ Mishap
    /\ UNCHANGED drag

(* A write that fails midway leaves bytes that do not parse.                 *)
TornLoad == [workers |-> 0, blocks_per_worker |-> <<>>, elapsed_ns |-> 0]

(* load.json, then the status of the fixture and the progress of the load.   *)
WriteLoad ==
    /\ worker.at = "reporting"
    /\ \/ /\ worker' = [worker EXCEPT
                !.load = <<[workers |-> Cardinality(Threads),
                            blocks_per_worker |-> worker.blocks, elapsed_ns |-> 1]>>,
                !.at = IF worker.success /\ \A id \in Threads : worker.blocks[id] > 0
                       THEN "passed" ELSE "failed"]
          /\ NoMishap
       \/ worker' = [worker EXCEPT !.at = "failed", !.load = <<TornLoad>>] /\ Mishap
    /\ UNCHANGED drag

WorkerStep(work, frozen) ==
    \/ (MainArrives \/ LoadStep) /\ UNCHANGED <<drag, mishaps>>
    \/ StartFixture(work)
    \/ worker.at = "fixture" /\ DragStep(frozen) /\ UNCHANGED worker
    \/ FixtureExits
    \/ WriteEnvironment
    \/ WriteLoad

WorkerEnded == worker.at \in {"passed", "failed"}
=============================================================================
