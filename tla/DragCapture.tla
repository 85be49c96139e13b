----------------------------- MODULE DragCapture -----------------------------
(* The measurement fixture as the runner sees it: the accounts that Capture  *)
(* keeps of a paced drag (fixtures/policy_hagia_drag_measurement.rs), from   *)
(* the first offer to the capture file. Session's request queue holds one    *)
(* update beside the one in flight; a later offer replaces the queued one.   *)
(*                                                                           *)
(* What goes wrong around it - a stall, a refusal, a lost transport, a panic *)
(* in a helper - is a mishap, and MaxMishaps bounds them in a run.           *)
EXTENDS MeasurementReport

CONSTANTS
    DrainBudget,    \* DRAIN_BUDGET, in the unit of Interval
    MaxMishaps      \* what may go wrong in a run, all causes together

VARIABLES
    drag,           \* the fixture, or NoDrag when none runs
    mishaps         \* what went wrong so far

(* A capture of the given work, its counters at zero.                         *)
NewRun(work) ==
    [wire |-> work.wire, kind |-> work.kind, rate_hz |-> work.rate,
     requested_updates |-> work.updates, whole |-> FALSE, status |-> "failed", offered |-> 0, admitted |-> 0,
     rejected |-> 0, rejected_settlements |-> 0, unresolved |-> 0, coalesced |-> 0,
     settled |-> 0, timeouts |-> 0, disconnects |-> 0, max_in_flight |-> 0,
     max_queue_depth |-> 0, elapsed_ns |-> 0, samples |-> <<>>, failures |-> <<>>,
     unresolved_updates |-> <<>>, error |-> FALSE]

(* Capture::new with the settings of the environment. "queued" and "active"  *)
(* hold a ticket or none; "file" is measurement.json.                        *)
NewDrag(work) ==
    [at |-> "setup", clock |-> 0, queued |-> <<>>, active |-> <<>>,
     requests |-> 0, transactions |-> 0, interrupted |-> FALSE, file |-> <<>>,
     run |-> NewRun(work)]

NoDrag == [at |-> "absent", file |-> <<>>, interrupted |-> FALSE]

Measuring == drag.at = "measuring"
Mishap == mishaps < MaxMishaps /\ mishaps' = mishaps + 1
NoMishap == UNCHANGED mishaps

-----------------------------------------------------------------------------
(* Tickets and records. What became of a ticket is added as it ends.         *)

Ticket ==
    [offered_sequence |-> drag.run.offered + 1, request_id |-> 0, transaction |-> 0,
     scheduled_ns |-> ScheduledAt(drag.run.rate_hz, drag.run.offered + 1),
     enqueued_ns |-> drag.clock, ended_ns |-> 0, reason |-> "none"]

Ended(ticket) == [ticket EXCEPT !.ended_ns = drag.clock]

Failure(ticket, reason) == [Ended(ticket) EXCEPT !.reason = reason]

(* finish: what is in flight or queued is disconnected, cut off by the       *)
(* measurement deadline, or unresolved; counters are never repaired.         *)
Finished(d, failed, cut) ==
    LET left == d.active \o d.queued
        reasons == [i \in DOMAIN left |-> Failure(left[i], cut)]
        counted == [d.run EXCEPT
            !.disconnects = @ + IF cut = "disconnected" THEN Len(left) ELSE 0,
            !.unresolved = @ + IF cut = "disconnected" THEN 0 ELSE Len(left),
            !.failures = @ \o IF cut = "none" THEN <<>> ELSE reasons,
            !.unresolved_updates =
                IF cut = "none" THEN [i \in DOMAIN left |-> Ended(left[i])] ELSE <<>>]
        error == \/ failed
                 \/ counted.admitted + counted.rejected # counted.offered
                 \/ counted.admitted # counted.coalesced + counted.settled
                        + counted.timeouts + counted.disconnects
                        + counted.rejected_settlements + counted.unresolved
                 \/ counted.offered # counted.requested_updates
    IN  [counted EXCEPT !.error = error, !.elapsed_ns = d.clock,
            !.status = IF ~error /\ counted.rejected = 0 THEN "complete" ELSE "failed"]

(* The loop ends: the report is made, and its file created to be written.    *)
Finish(d, failed, cut) ==
    drag' = [d EXCEPT !.at = "writing", !.run = Finished(d, failed, cut),
                      !.file = <<Finished(d, failed, cut)>>]

-----------------------------------------------------------------------------
(* Before and after the timed window.                                        *)

(* with_normal_hagia_transport asserts the frozen executable; the untimed    *)
(* setup can fail on its own.                                                *)
SetUp(frozen) ==
    /\ drag.at = "setup"
    /\ \/ frozen /\ NoMishap /\ drag' = [drag EXCEPT !.at = "measuring"]
       \/ ~frozen /\ NoMishap /\ drag' = [drag EXCEPT !.at = "failed"]
       \/ Mishap /\ drag' = [drag EXCEPT !.at = "failed"]

(* The file is whole. An error or a rejected offer then fails the test.      *)
WriteCapture ==
    /\ drag.at = "writing"
    /\ drag' = [drag EXCEPT
            !.file = <<[drag.run EXCEPT !.whole = TRUE]>>,
            !.at = IF drag.run.error \/ drag.run.rejected # 0
                   THEN "failed" ELSE "ending"]
    /\ NoMishap

(* The untimed End, its drain and the last checkpoint.                       *)
EndDrag ==
    /\ drag.at = "ending"
    /\ \/ NoMishap /\ drag' = [drag EXCEPT !.at = "passed"]
       \/ Mishap /\ drag' = [drag EXCEPT !.at = "failed"]

-----------------------------------------------------------------------------
(* offer: every elapsed slot of the schedule.                                *)

OfferDue ==
    /\ drag.run.offered < drag.run.requested_updates
    /\ drag.clock >= ScheduledAt(drag.run.rate_hz, drag.run.offered + 1)

(* The drag with a queued ticket, its depths observed.                       *)
Queued(run) ==
    [drag EXCEPT !.queued = <<Ticket>>,
                 !.run = [run EXCEPT !.max_queue_depth = 1]]

OfferAdmitted ==
    /\ Measuring /\ OfferDue /\ drag.queued = <<>>
    /\ drag' = Queued([drag.run EXCEPT !.offered = @ + 1, !.admitted = @ + 1])
    /\ NoMishap

(* Duplicate, with the queued update observed to be the new one.             *)
OfferReplaces ==
    /\ Measuring /\ OfferDue /\ drag.queued # <<>>
    /\ drag' = Queued([drag.run EXCEPT !.offered = @ + 1, !.admitted = @ + 1,
                                       !.coalesced = @ + 1])
    /\ NoMishap

OfferRefused ==
    LET refused == [drag EXCEPT
            !.run = [drag.run EXCEPT !.offered = @ + 1, !.rejected = @ + 1,
                                     !.failures = Append(@, Failure(Ticket, "enqueue_refused"))]]
    IN  /\ Measuring /\ OfferDue /\ Mishap
        /\ \/ drag' = refused                       \* RejectedCapacity, Duplicate
           \/ Finish(refused, TRUE, "none")         \* the enqueue returns an error

(* A panic after the offer is counted and before its admission is.           *)
PanicInOffer ==
    /\ Measuring /\ OfferDue /\ Mishap
    /\ Finish([drag EXCEPT !.interrupted = TRUE,
                           !.run = [drag.run EXCEPT !.offered = @ + 1]], TRUE, "none")

-----------------------------------------------------------------------------
(* dispatched and sample: the request in flight and its layout settlement.   *)

Dispatch ==
    /\ Measuring /\ drag.queued # <<>> /\ drag.active = <<>>
    /\ drag' = [drag EXCEPT
            !.requests = @ + 1, !.queued = <<>>,
            !.active = <<[drag.queued[1] EXCEPT !.request_id = drag.requests + 1]>>,
            !.run = [drag.run EXCEPT !.max_in_flight = 1]]
    /\ NoMishap

(* The active ticket with the transaction of its settlement.                 *)
SettledTicket == [drag.active[1] EXCEPT !.transaction = drag.transactions + 1]

SettleCommitted ==
    /\ Measuring /\ drag.active # <<>>
    /\ drag' = [drag EXCEPT
            !.transactions = @ + 1, !.active = <<>>,
            !.run = [drag.run EXCEPT !.settled = @ + 1,
                                     !.samples = Append(@, Ended(SettledTicket))]]
    /\ NoMishap

SettleRefused ==
    LET failing(reason) == [drag EXCEPT
            !.transactions = @ + 1, !.active = <<>>,
            !.run = [drag.run EXCEPT
                !.timeouts = @ + IF reason = "timed_out" THEN 1 ELSE 0,
                !.rejected_settlements = @ + IF reason = "timed_out" THEN 0 ELSE 1,
                !.failures = Append(@, Failure(SettledTicket, reason))]]
    IN  /\ Measuring /\ drag.active # <<>> /\ Mishap
        /\ \E reason \in {"timed_out", "rejected_stale"} :
              Finish(failing(reason), TRUE, "none")

(* A panic after sample took the active ticket and before it counted it.     *)
PanicInSample ==
    /\ Measuring /\ drag.active # <<>> /\ Mishap
    /\ Finish([drag EXCEPT !.interrupted = TRUE, !.active = <<>>], TRUE, "none")

-----------------------------------------------------------------------------
(* The ends of measured_loop.                                                *)

LoopDeadline ==
    ScheduledAt(drag.run.rate_hz, drag.run.requested_updates) + DrainBudget

LoopCompletes ==
    /\ Measuring
    /\ drag.run.offered = drag.run.requested_updates
    /\ drag.active = <<>> /\ drag.queued = <<>>
    /\ Finish(drag, FALSE, "none")
    /\ NoMishap

LoopExpires ==
    /\ Measuring /\ drag.clock >= LoopDeadline
    /\ Finish(drag, TRUE, "measurement_deadline")
    /\ NoMishap

(* A lost transport, an owner error or a panic with all tickets in custody.  *)
LoopFails ==
    /\ Measuring /\ Mishap
    /\ \E cut \in {"disconnected", "none"} : Finish(drag, TRUE, cut)

(* The loop sleeps until the next offer is due. Any other passing of time is *)
(* a mishap: it wakes late, or work waits for a stalled owner.               *)
DragClock ==
    \E ticks \in {1, Interval[drag.run.rate_hz]} :
        LET idle == /\ drag.queued = <<>> /\ drag.active = <<>>
                    /\ drag.run.offered < drag.run.requested_updates
                    /\ drag.clock + ticks <= ScheduledAt(drag.run.rate_hz,
                                                        drag.run.offered + 1)
        IN  /\ Measuring /\ drag.clock + ticks <= LoopDeadline
            /\ drag' = [drag EXCEPT !.clock = @ + ticks]
            /\ IF idle THEN NoMishap ELSE Mishap

DragStep(frozen) ==
    \/ SetUp(frozen) \/ WriteCapture \/ EndDrag
    \/ OfferAdmitted \/ OfferReplaces \/ OfferRefused \/ PanicInOffer
    \/ Dispatch \/ SettleCommitted \/ SettleRefused \/ PanicInSample
    \/ LoopCompletes \/ LoopExpires \/ LoopFails \/ DragClock
=============================================================================
