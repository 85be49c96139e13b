----------------------- MODULE PairingOperators_proofs ------------------------
(* What the parts of the pairing gate compute, for every value of its        *)
(* constants.  First the accounts of a capture, whatever its wire, kind,     *)
(* rate, number of updates and moment of failure: they stay coherent while   *)
(* the drag is measured, so that the file that Capture::finish writes of     *)
(* them is decoded, and a panic between two of its counters leaves a file    *)
(* that is not.  Then the operators of the gate: its plan, for every command *)
(* line, list of required tests and legacy family (main.rs, run), which the  *)
(* proofs about the gate use only through PlanKnown; the overlay, for every  *)
(* list of recipes, with the manifest that names it (overlay.rs, prepare,    *)
(* and legacy.rs, apply); the checkpoint gaps by the taught calendar; and    *)
(* what makes a campaign readable (measurement.rs, report).                  *)
EXTENDS PairingProperties, SequenceTheorems, FiniteSetTheorems, WellFoundedInduction, TLAPS

-----------------------------------------------------------------------------
(* Sequences, whatever they hold.                                            *)

IsSeq(s) == s \in Seq(RangeOf(s))

LEMMA FunctionIsSeq ==
  ASSUME NEW n \in Nat, NEW f, f = [i \in 1..n |-> f[i]]
  PROVE  IsSeq(f) /\ Len(f) = n
<1>1. f \in [1..n -> RangeOf(f)]
  BY DEF RangeOf
<1>2. f \in Seq(RangeOf(f))
  BY <1>1
<1> QED
  BY <1>1, <1>2 DEF IsSeq

LEMMA AnySeqIsSeq ==
  ASSUME NEW S, NEW s \in Seq(S)
  PROVE  IsSeq(s)
<1>1. Len(s) \in Nat /\ s = [i \in 1..Len(s) |-> s[i]]
  OBVIOUS
<1> QED
  BY <1>1, FunctionIsSeq

LEMMA SeqsJoin ==
  ASSUME NEW s, NEW t, IsSeq(s), IsSeq(t)
  PROVE  /\ IsSeq(s \o t) /\ Len(s \o t) = Len(s) + Len(t)
         /\ \A i \in 1..Len(s) : (s \o t)[i] = s[i]
         /\ \A i \in 1..Len(t) : (s \o t)[i + Len(s)] = t[i]
<1> DEFINE S == RangeOf(s) \cup RangeOf(t)
<1>1. s \in Seq(S) /\ t \in Seq(S)
  BY DEF IsSeq
<1> HIDE DEF S
<1>2. s \o t \in Seq(S)
  BY <1>1
<1>3. IsSeq(s \o t)
  BY <1>2, AnySeqIsSeq
<1> QED
  BY <1>1, <1>3

(* An element of a joined sequence is in the one or the other.               *)
LEMMA JoinedFrom ==
  ASSUME NEW s, NEW t, IsSeq(s), IsSeq(t), NEW i \in 1..Len(s \o t)
  PROVE  /\ Len(s) \in Nat /\ Len(t) \in Nat
         /\ \/ i \in 1..Len(s) /\ (s \o t)[i] = s[i]
            \/ i - Len(s) \in 1..Len(t) /\ (s \o t)[i] = t[i - Len(s)]
<1>1. Len(s) \in Nat /\ Len(t) \in Nat /\ Len(s \o t) = Len(s) + Len(t)
  BY SeqsJoin DEF IsSeq
<1>2. CASE i \in 1..Len(s)
  BY <1>1, <1>2, SeqsJoin
<1>3. CASE i \notin 1..Len(s)
  <2>1. i - Len(s) \in 1..Len(t) /\ i = (i - Len(s)) + Len(s)
    BY <1>1, <1>3
  <2>2. \A k \in 1..Len(t) : (s \o t)[k + Len(s)] = t[k]
    BY SeqsJoin
  <2>3. (s \o t)[(i - Len(s)) + Len(s)] = t[i - Len(s)]
    BY <2>1, <2>2
  <2> QED
    BY <1>1, <2>1, <2>3
<1> QED
  BY <1>2, <1>3

LEMMA OneIsSeq ==
  ASSUME NEW e
  PROVE  IsSeq(<<e>>) /\ Len(<<e>>) = 1 /\ <<e>>[1] = e
<1>1. <<e>> \in Seq({e}) /\ Len(<<e>>) = 1 /\ <<e>>[1] = e
  OBVIOUS
<1> QED
  BY <1>1, AnySeqIsSeq

LEMMA NoneIsSeq == IsSeq(<<>>) /\ Len(<<>>) = 0
<1>1. <<>> \in Seq({})
  OBVIOUS
<1> QED
  BY <1>1, AnySeqIsSeq

LEMMA AppendJoins ==
  ASSUME NEW s, IsSeq(s), NEW e
  PROVE  Append(s, e) = s \o <<e>>
<1> DEFINE S == RangeOf(s) \cup {e}
<1>1. s \in Seq(S) /\ e \in S
  BY DEF IsSeq
<1> HIDE DEF S
<1> QED
  BY <1>1, AppendIsConcat

-----------------------------------------------------------------------------
(* How many failures have one of the reasons.                                *)
Counted(failures, reasons) ==
    Cardinality({i \in DOMAIN failures : failures[i].reason \in reasons})

AllFor(s, reason) == \A i \in 1..Len(s) : s[i].reason = reason

LEMMA CountedIsNat ==
  ASSUME NEW s, IsSeq(s), NEW reasons
  PROVE  Counted(s, reasons) \in Nat
<1> DEFINE In == {i \in DOMAIN s : s[i].reason \in reasons}
<1>1. IsFiniteSet(1..Len(s)) /\ In \subseteq 1..Len(s)
  BY FS_Interval DEF IsSeq
<1> HIDE DEF In
<1>2. Cardinality(In) \in Nat
  BY <1>1, FS_Subset, FS_CardinalityType
<1> QED
  BY <1>2 DEF Counted, In

(* Failures that end for one reason add to the count of that reason only.    *)
LEMMA CountedJoin ==
  ASSUME NEW s, NEW t, IsSeq(s), IsSeq(t), NEW reason, AllFor(t, reason),
         NEW reasons
  PROVE  Counted(s \o t, reasons)
             = Counted(s, reasons) + (IF reason \in reasons THEN Len(t) ELSE 0)
<1> DEFINE u == s \o t
           n == Len(s)
           m == Len(t)
           In(x) == {i \in DOMAIN x : x[i].reason \in reasons}
           Added == IF reason \in reasons THEN n + 1..n + m ELSE {}
<1>1. n \in Nat /\ m \in Nat /\ DOMAIN s = 1..n /\ DOMAIN t = 1..m
  BY DEF IsSeq
<1>2. IsSeq(u) /\ Len(u) = n + m
  BY <1>1, SeqsJoin
<1>3. DOMAIN u = 1..n + m
  BY <1>1, <1>2 DEF IsSeq
<1>4. \A i \in 1..n : u[i] = s[i]
  BY SeqsJoin
<1>5. \A i \in n + 1..n + m : u[i].reason = reason
  <2> TAKE i \in n + 1..n + m
  <2>1. i \in 1..Len(u) /\ i \notin 1..n
    BY <1>1, <1>2
  <2>2. i - n \in 1..m /\ u[i] = t[i - n]
    BY <2>1, JoinedFrom
  <2> QED
    BY <2>2 DEF AllFor
<1> HIDE DEF u, n, m
<1>6. 1..n + m = (1..n) \cup (n + 1..n + m) /\ (1..n) \cap (n + 1..n + m) = {}
  BY <1>1
<1>7. In(u) = In(s) \cup Added /\ In(s) \cap Added = {}
  BY <1>1, <1>3, <1>4, <1>5, <1>6
<1>8. IsFiniteSet(In(s)) /\ Cardinality(In(s)) \in Nat
  <2>1. IsFiniteSet(1..n)
    BY <1>1, FS_Interval
  <2>2. In(s) \subseteq 1..n
    BY <1>1
  <2> QED
    BY <2>1, <2>2, FS_Subset, FS_CardinalityType
<1>9. IsFiniteSet(Added) /\ Cardinality(Added) = IF reason \in reasons THEN m ELSE 0
  <2>1. IsFiniteSet(n + 1..n + m) /\ Cardinality(n + 1..n + m) = m
    <3>1. n + 1 \in Int /\ n + m \in Int
      BY <1>1
    <3>2. Cardinality(n + 1..n + m)
            = IF n + 1 > n + m THEN 0 ELSE (n + m) - (n + 1) + 1
      BY <3>1, FS_Interval
    <3> QED
      BY <1>1, <3>1, <3>2, FS_Interval
  <2>2. IsFiniteSet({}) /\ Cardinality({}) = 0
    BY FS_EmptySet
  <2> QED
    BY <2>1, <2>2
<1> HIDE DEF Added
<1>10. Cardinality(In(s) \cup Added) = Cardinality(In(s)) + Cardinality(Added) - Cardinality(In(s) \cap Added)
  BY <1>8, <1>9, FS_Union
<1>11. Cardinality(In(s) \cap Added) = 0
  BY <1>7, FS_EmptySet
<1>12. Counted(u, reasons) = Cardinality(In(u)) /\ Counted(s, reasons) = Cardinality(In(s))
  BY DEF Counted
<1> HIDE DEF In
<1>13. Counted(u, reasons) = Counted(s, reasons) + Cardinality(Added)
  BY <1>1, <1>7, <1>8, <1>9, <1>10, <1>11, <1>12
<1> QED
  BY <1>8, <1>9, <1>12, <1>13 DEF u, m

-----------------------------------------------------------------------------
(* Tickets.                                                                  *)

Reasons == {"none", "enqueue_refused", "timed_out", "rejected_stale", "disconnected",
            "measurement_deadline"}

TicketType ==
    [offered_sequence : Nat, request_id : Nat, transaction : Nat, scheduled_ns : Int,
     enqueued_ns : Int, ended_ns : Int, reason : Reasons]

(* Tickets of the first n offers at this rate, none enqueued before its slot *)
(* or after this time.                                                       *)
Ticketed(s, rate, n, clock) ==
    /\ IsSeq(s)
    /\ \A i \in 1..Len(s) :
           /\ s[i] \in TicketType
           /\ s[i].offered_sequence \in 1..n
           /\ s[i].scheduled_ns = ScheduledAt(rate, s[i].offered_sequence)
           /\ s[i].scheduled_ns <= s[i].enqueued_ns
           /\ s[i].enqueued_ns <= clock

(* They ended, after they were enqueued and not after this time.             *)
AllEnded(s, clock) ==
    \A i \in 1..Len(s) : s[i].enqueued_ns <= s[i].ended_ns /\ s[i].ended_ns <= clock

Distinct(s) ==
    \A i, j \in 1..Len(s) : s[i].offered_sequence = s[j].offered_sequence => i = j

Apart(s, t) ==
    \A i \in 1..Len(s), j \in 1..Len(t) : s[i].offered_sequence # t[j].offered_sequence

Before(s, t) ==
    \A i \in 1..Len(s), j \in 1..Len(t) : s[i].offered_sequence < t[j].offered_sequence

Rising(s) ==
    /\ \A i \in 1..Len(s) :
           /\ s[i].offered_sequence \in Nat \ {0}
           /\ s[i].request_id \in Nat \ {0}
           /\ s[i].transaction \in Nat \ {0}
    /\ \A i, j \in 1..Len(s) : i < j =>
           /\ s[i].offered_sequence < s[j].offered_sequence
           /\ s[i].request_id < s[j].request_id
           /\ s[i].transaction < s[j].transaction

LEMMA TicketedIsSeq ==
  ASSUME NEW s, NEW rate, NEW n, NEW clock, Ticketed(s, rate, n, clock)
  PROVE  IsSeq(s) /\ Len(s) \in Nat /\ DOMAIN s = 1..Len(s)
<1>1. IsSeq(s)
  BY DEF Ticketed
<1> QED
  BY <1>1 DEF IsSeq

LEMMA TicketedJoin ==
  ASSUME NEW s, NEW t, NEW rate, NEW n \in Nat, NEW clock \in Int,
         Ticketed(s, rate, n, clock), Ticketed(t, rate, n, clock)
  PROVE  Ticketed(s \o t, rate, n, clock)
<1>1. IsSeq(s) /\ IsSeq(t) /\ IsSeq(s \o t)
  BY SeqsJoin DEF Ticketed
<1>2. ASSUME NEW i \in 1..Len(s \o t)
      PROVE  \/ \E k \in 1..Len(s) : (s \o t)[i] = s[k]
             \/ \E k \in 1..Len(t) : (s \o t)[i] = t[k]
  BY <1>1, JoinedFrom
<1> QED
  BY <1>1, <1>2 DEF Ticketed

LEMMA TicketedLater ==
  ASSUME NEW s, NEW rate, NEW n \in Nat, NEW clock \in Int, Ticketed(s, rate, n, clock),
         NEW m \in Nat, n <= m, NEW later \in Int, clock <= later
  PROVE  Ticketed(s, rate, m, later)
BY DEF Ticketed, TicketType

LEMMA EndedJoin ==
  ASSUME NEW s, NEW t, NEW clock, IsSeq(s), IsSeq(t), AllEnded(s, clock), AllEnded(t, clock)
  PROVE  AllEnded(s \o t, clock)
<1>1. ASSUME NEW i \in 1..Len(s \o t)
      PROVE  \/ \E k \in 1..Len(s) : (s \o t)[i] = s[k]
             \/ \E k \in 1..Len(t) : (s \o t)[i] = t[k]
  BY JoinedFrom
<1> QED
  BY <1>1 DEF AllEnded

LEMMA ApartJoin ==
  ASSUME NEW s, NEW t, NEW u, IsSeq(s), IsSeq(t)
  PROVE  /\ Apart(s, u) /\ Apart(t, u) => Apart(s \o t, u)
         /\ Apart(u, s) /\ Apart(u, t) => Apart(u, s \o t)
<1>1. ASSUME NEW i \in 1..Len(s \o t)
      PROVE  \/ \E k \in 1..Len(s) : (s \o t)[i] = s[k]
             \/ \E k \in 1..Len(t) : (s \o t)[i] = t[k]
  BY JoinedFrom
<1>2. ASSUME Apart(s, u), Apart(t, u) PROVE Apart(s \o t, u)
  BY <1>1, <1>2 DEF Apart
<1>3. ASSUME Apart(u, s), Apart(u, t) PROVE Apart(u, s \o t)
  BY <1>1, <1>3 DEF Apart
<1> QED
  BY <1>2, <1>3

LEMMA BeforeJoin ==
  ASSUME NEW s, NEW t, NEW u, IsSeq(s), IsSeq(t), Before(s, u), Before(t, u)
  PROVE  Before(s \o t, u)
<1>1. ASSUME NEW i \in 1..Len(s \o t)
      PROVE  \/ \E k \in 1..Len(s) : (s \o t)[i] = s[k]
             \/ \E k \in 1..Len(t) : (s \o t)[i] = t[k]
  BY JoinedFrom
<1> QED
  BY <1>1 DEF Before

LEMMA DistinctJoin ==
  ASSUME NEW s, NEW t, IsSeq(s), IsSeq(t), Distinct(s), Distinct(t), Apart(s, t)
  PROVE  Distinct(s \o t)
<1> DEFINE u == s \o t
<1> SUFFICES ASSUME NEW i \in 1..Len(u), NEW j \in 1..Len(u),
                    u[i].offered_sequence = u[j].offered_sequence
             PROVE  i = j
  BY DEF Distinct
<1>1. /\ Len(s) \in Nat
      /\ \/ i \in 1..Len(s) /\ u[i] = s[i]
         \/ i - Len(s) \in 1..Len(t) /\ u[i] = t[i - Len(s)]
      /\ \/ j \in 1..Len(s) /\ u[j] = s[j]
         \/ j - Len(s) \in 1..Len(t) /\ u[j] = t[j - Len(s)]
  BY JoinedFrom
<1> HIDE DEF u
<1>2. CASE i \in 1..Len(s) /\ u[i] = s[i] /\ j \in 1..Len(s) /\ u[j] = s[j]
  BY <1>2 DEF Distinct
<1>3. CASE /\ i - Len(s) \in 1..Len(t) /\ u[i] = t[i - Len(s)]
           /\ j - Len(s) \in 1..Len(t) /\ u[j] = t[j - Len(s)]
  <2>1. i - Len(s) = j - Len(s)
    BY <1>3 DEF Distinct
  <2> QED
    BY <1>1, <2>1
<1>4. CASE i \in 1..Len(s) /\ u[i] = s[i] /\ j - Len(s) \in 1..Len(t) /\ u[j] = t[j - Len(s)]
  BY <1>4 DEF Apart
<1>5. CASE j \in 1..Len(s) /\ u[j] = s[j] /\ i - Len(s) \in 1..Len(t) /\ u[i] = t[i - Len(s)]
  BY <1>5 DEF Apart
<1> QED
  BY <1>1, <1>2, <1>3, <1>4, <1>5

LEMMA RisingMore ==
  ASSUME NEW s, NEW e, IsSeq(s), Rising(s),
         e.offered_sequence \in Nat \ {0}, e.request_id \in Nat \ {0},
         e.transaction \in Nat \ {0},
         \A i \in 1..Len(s) : /\ s[i].offered_sequence < e.offered_sequence
                              /\ s[i].request_id < e.request_id
                              /\ s[i].transaction < e.transaction
  PROVE  Rising(s \o <<e>>)
<1> DEFINE u == s \o <<e>>
<1>1. IsSeq(<<e>>) /\ Len(<<e>>) = 1 /\ <<e>>[1] = e
  BY OneIsSeq
<1>2. ASSUME NEW i \in 1..Len(u)
      PROVE  /\ Len(s) \in Nat
             /\ \/ i \in 1..Len(s) /\ u[i] = s[i]
                \/ i = Len(s) + 1 /\ u[i] = e
  <2>1. /\ Len(s) \in Nat
        /\ \/ i \in 1..Len(s) /\ u[i] = s[i]
           \/ i - Len(s) \in 1..Len(<<e>>) /\ u[i] = <<e>>[i - Len(s)]
    BY <1>1, JoinedFrom
  <2>2. CASE i - Len(s) \in 1..Len(<<e>>) /\ u[i] = <<e>>[i - Len(s)]
    <3>1. i - Len(s) = 1
      BY <1>1, <2>1, <2>2
    <3> QED
      BY <1>1, <2>1, <2>2, <3>1
  <2> QED
    BY <2>1, <2>2
<1> HIDE DEF u
<1>3. ASSUME NEW i \in 1..Len(u), NEW j \in 1..Len(u), i < j
      PROVE  i \in 1..Len(s) /\ u[i] = s[i]
  <2>1. j <= Len(s) + 1
    BY <1>2
  <2> QED
    BY <1>2, <1>3, <2>1
<1>4. Rising(u)
  <2>1. \A i \in 1..Len(u) : /\ u[i].offered_sequence \in Nat \ {0}
                            /\ u[i].request_id \in Nat \ {0}
                            /\ u[i].transaction \in Nat \ {0}
    BY <1>2 DEF Rising
  <2>2. ASSUME NEW i \in 1..Len(u), NEW j \in 1..Len(u), i < j
        PROVE  /\ u[i].offered_sequence < u[j].offered_sequence
               /\ u[i].request_id < u[j].request_id
               /\ u[i].transaction < u[j].transaction
    BY <1>2, <1>3, <2>2 DEF Rising
  <2> QED
    BY <2>1, <2>2 DEF Rising
<1> QED
  BY <1>4 DEF u

(* Rising samples rise one by one, as decode_run reads them.                 *)
LEMMA RisingSamples ==
  ASSUME NEW run, IsSeq(run.samples), Rising(run.samples)
  PROVE  SamplesRise(run) /\ Distinct(run.samples)
<1> DEFINE s == run.samples
<1>1. Len(s) \in Nat /\ DOMAIN s = 1..Len(s)
  BY DEF IsSeq
<1>2. Distinct(s)
  <2> SUFFICES ASSUME NEW i \in 1..Len(s), NEW j \in 1..Len(s), i # j
               PROVE  s[i].offered_sequence # s[j].offered_sequence
    BY DEF Distinct
  <2>1. i < j \/ j < i
    BY <1>1
  <2> QED
    BY <2>1 DEF Rising
<1>3. ASSUME NEW i \in 1..Len(s)
      PROVE  /\ s[i].offered_sequence > 0 /\ s[i].request_id > 0 /\ s[i].transaction > 0
             /\ i # 1 => /\ s[i].offered_sequence > s[i - 1].offered_sequence
                        /\ s[i].request_id > s[i - 1].request_id
                        /\ s[i].transaction > s[i - 1].transaction
  <2>1. i # 1 => i - 1 \in 1..Len(s) /\ i - 1 < i
    BY <1>1
  <2> QED
    BY <2>1 DEF Rising
<1> QED
  BY <1>1, <1>2, <1>3 DEF SamplesRise

-----------------------------------------------------------------------------
(* The accounts of a capture that is being measured.                         *)

RunFields ==
    {"wire", "kind", "rate_hz", "requested_updates", "whole", "status", "offered", "admitted",
     "rejected", "rejected_settlements", "unresolved", "coalesced", "settled", "timeouts",
     "disconnects", "max_in_flight", "max_queue_depth", "elapsed_ns", "samples", "failures",
     "unresolved_updates", "error"}

DragFields == {"at", "clock", "queued", "active", "requests", "transactions", "interrupted",
               "file", "run"}

(* What is asked of a campaign: a rate of the schedule, and enough updates.  *)
Asked(run) == run.rate_hz \in RangeOf(Rates) /\ run.requested_updates \in 1..MaxUpdates

(* Every offer is admitted or refused, and every admitted one is settled,    *)
(* coalesced, failed, in flight or queued; the last one was not coalesced.   *)
Balanced(run, active, queued) ==
    /\ {run.offered, run.admitted, run.rejected, run.settled, run.coalesced, run.timeouts,
        run.rejected_settlements} \subseteq Nat
    /\ run.offered = run.admitted + run.rejected
    /\ run.offered <= run.requested_updates
    /\ run.admitted = run.settled + run.coalesced + run.timeouts + run.rejected_settlements
                         + active + queued
    /\ run.admitted > 0 => run.coalesced < run.admitted
    /\ run.disconnects = 0 /\ run.unresolved = 0
    /\ run.max_in_flight \in 0..1 /\ run.max_queue_depth \in 0..1
    /\ run.settled > 0 \/ active > 0 => run.max_in_flight = 1

(* Each failure has its record, with its reason, and nothing is written yet. *)
Booked(run) ==
    /\ run.whole = FALSE
    /\ run.unresolved_updates = <<>>
    /\ Len(run.samples) = run.settled
    /\ Len(run.failures) = run.rejected + run.timeouts + run.rejected_settlements
    /\ Counted(run.failures, {"enqueue_refused"}) = run.rejected
    /\ Counted(run.failures, {"timed_out"}) = run.timeouts
    /\ Counted(run.failures, {"rejected_stale", "rejected_invalid"}) = run.rejected_settlements
    /\ Counted(run.failures, {"disconnected"}) = 0
    /\ Counted(run.failures, {"measurement_deadline"}) = 0

(* The tickets in custody are the latest, and no ticket is in two places:    *)
(* among the failures f, the samples s, in flight (a) or queued (q).         *)
Held(f, s, a, q, rate, n, clock) ==
    /\ n \in Nat /\ clock \in Int
    /\ Ticketed(f, rate, n, clock) /\ AllEnded(f, clock) /\ Distinct(f)
    /\ Ticketed(s, rate, n, clock) /\ AllEnded(s, clock) /\ Rising(s)
    /\ Ticketed(a, rate, n, clock) /\ Len(a) <= 1
    /\ Ticketed(q, rate, n, clock) /\ Len(q) <= 1
    /\ Apart(f, s) /\ Apart(f, a) /\ Apart(f, q)
    /\ Before(s, a) /\ Before(s, q) /\ Before(a, q)

Custody(d) ==
    Held(d.run.failures, d.run.samples, d.active, d.queued, d.run.rate_hz, d.run.offered, d.clock)

(* Identities are given out in order.                                        *)
Numbered(s, a, requests, transactions) ==
    /\ requests \in Nat /\ transactions \in Nat
    /\ \A i \in 1..Len(s) : s[i].request_id <= requests /\ s[i].transaction <= transactions
    /\ \A j \in 1..Len(a) :
           /\ a[j].request_id \in 1..requests
           /\ \A i \in 1..Len(s) : s[i].request_id < a[j].request_id

Identified(d) == Numbered(d.run.samples, d.active, d.requests, d.transactions)

Accounts(d) ==
    /\ DragFields \subseteq DOMAIN d /\ RunFields \subseteq DOMAIN d.run
    /\ d.clock \in Int
    /\ Asked(d.run)
    /\ Balanced(d.run, Len(d.active), Len(d.queued))
    /\ Booked(d.run)
    /\ Custody(d)
    /\ Identified(d)

(* Nothing failed but offers.                                                *)
Unbroken(d) == d.run.timeouts = 0 /\ d.run.rejected_settlements = 0

-----------------------------------------------------------------------------
(* What finish makes of coherent accounts is decoded.                        *)

LEMMA ApartFromBefore ==
  ASSUME NEW s, NEW t, NEW rate, NEW n, NEW clock,
         Ticketed(s, rate, n, clock), Ticketed(t, rate, n, clock), Before(s, t)
  PROVE  Apart(s, t) /\ Apart(t, s)
<1>1. /\ \A i \in 1..Len(s) : s[i].offered_sequence \in Nat
      /\ \A j \in 1..Len(t) : t[j].offered_sequence \in Nat
  BY DEF Ticketed, TicketType
<1> QED
  BY <1>1 DEF Before, Apart

(* What is left when the loop ends.                                          *)
LEMMA LeftInCustody ==
  ASSUME NEW d, Accounts(d), NEW left, left = d.active \o d.queued
  PROVE  /\ Ticketed(left, d.run.rate_hz, d.run.offered, d.clock)
         /\ Len(left) = Len(d.active) + Len(d.queued)
         /\ Distinct(left)
         /\ Apart(d.run.failures, left) /\ Apart(left, d.run.samples)
         /\ DOMAIN left = 1..Len(left)
<1> DEFINE n == d.run.offered
           rate == d.run.rate_hz
           a == d.active
           q == d.queued
           f == d.run.failures
           s == d.run.samples
<1>1. /\ Ticketed(a, rate, n, d.clock) /\ Ticketed(q, rate, n, d.clock)
      /\ Ticketed(s, rate, n, d.clock) /\ n \in Nat /\ d.clock \in Int
      /\ Len(a) <= 1 /\ Len(q) <= 1
      /\ Apart(f, a) /\ Apart(f, q) /\ Before(a, q) /\ Before(s, a) /\ Before(s, q)
  BY DEF Accounts, Custody, Held, Balanced
<1> HIDE DEF n, rate, a, q, f, s
<1>2. IsSeq(a) /\ IsSeq(q) /\ Len(a) \in Nat /\ Len(q) \in Nat /\ left = a \o q
  BY <1>1 DEF Ticketed, IsSeq, a, q
<1>3. Distinct(a) /\ Distinct(q)
  BY <1>1, <1>2 DEF Distinct
<1>4. Apart(a, q) /\ Apart(a, s) /\ Apart(q, s)
  BY <1>1, ApartFromBefore
<1>5. Ticketed(left, rate, n, d.clock)
  BY <1>1, <1>2, TicketedJoin
<1>6. Len(left) = Len(a) + Len(q)
  BY <1>2, SeqsJoin
<1>7. Distinct(left)
  BY <1>2, <1>3, <1>4, DistinctJoin
<1>8. Apart(f, left) /\ Apart(left, s)
  BY <1>1, <1>2, <1>4, ApartJoin
<1>9. DOMAIN left = 1..Len(left)
  BY <1>5 DEF Ticketed, IsSeq
<1> QED
  BY <1>5, <1>6, <1>7, <1>8, <1>9 DEF n, rate, a, q, f, s

(* Each of the tickets left, with its end and its reason added.              *)
EndedAs(left, clock, reason) ==
    [i \in DOMAIN left |-> [[left[i] EXCEPT !.ended_ns = clock] EXCEPT !.reason = reason]]

LEMMA EndedTickets ==
  ASSUME NEW left, NEW rate, NEW n \in Nat, NEW clock \in Int,
         Ticketed(left, rate, n, clock), NEW reason \in Reasons
  PROVE  LET ended == EndedAs(left, clock, reason) IN
         /\ Ticketed(ended, rate, n, clock) /\ AllEnded(ended, clock)
         /\ Len(ended) = Len(left)
         /\ \A i \in 1..Len(left) : /\ ended[i].offered_sequence = left[i].offered_sequence
                                    /\ ended[i].reason = reason
<1> DEFINE ended == EndedAs(left, clock, reason)
<1>1. IsSeq(left) /\ Len(left) \in Nat /\ DOMAIN left = 1..Len(left)
  BY DEF Ticketed, IsSeq
<1>2. ended = [i \in 1..Len(left) |-> ended[i]]
  <2> DEFINE e(i) == [[left[i] EXCEPT !.ended_ns = clock] EXCEPT !.reason = reason]
  <2>1. ended = [i \in 1..Len(left) |-> e(i)]
    BY <1>1 DEF EndedAs
  <2> HIDE DEF e, ended
  <2> QED
    BY <2>1
<1>3. IsSeq(ended) /\ Len(ended) = Len(left)
  BY <1>1, <1>2, FunctionIsSeq
<1>4. ASSUME NEW i \in 1..Len(left)
      PROVE  /\ ended[i] \in TicketType
             /\ ended[i].offered_sequence = left[i].offered_sequence
             /\ ended[i].scheduled_ns = left[i].scheduled_ns
             /\ ended[i].enqueued_ns = left[i].enqueued_ns
             /\ ended[i].ended_ns = clock /\ ended[i].reason = reason
  <2>1. left[i] \in TicketType
    BY DEF Ticketed
  <2>2. ended[i] = [[left[i] EXCEPT !.ended_ns = clock] EXCEPT !.reason = reason]
    BY <1>1 DEF EndedAs
  <2> HIDE DEF ended
  <2> QED
    BY <2>1, <2>2 DEF TicketType
<1> HIDE DEF ended
<1>5. \A i \in 1..Len(left) :
        /\ left[i].offered_sequence \in 1..n
        /\ left[i].scheduled_ns = ScheduledAt(rate, left[i].offered_sequence)
        /\ left[i].scheduled_ns <= left[i].enqueued_ns
        /\ left[i].enqueued_ns <= clock
  BY DEF Ticketed
<1>6. Ticketed(ended, rate, n, clock)
  BY <1>3, <1>4, <1>5 DEF Ticketed
<1>7. AllEnded(ended, clock)
  BY <1>3, <1>4, <1>5 DEF AllEnded
<1> QED
  BY <1>3, <1>4, <1>6, <1>7 DEF ended

(* The same without a reason.                                                *)
EndedBare(left, clock) ==
    [i \in DOMAIN left |-> [left[i] EXCEPT !.ended_ns = clock]]

LEMMA UnresolvedTickets ==
  ASSUME NEW left, NEW rate, NEW n \in Nat, NEW clock \in Int,
         Ticketed(left, rate, n, clock)
  PROVE  LET ended == EndedBare(left, clock) IN
         /\ Ticketed(ended, rate, n, clock) /\ AllEnded(ended, clock)
         /\ Len(ended) = Len(left)
         /\ \A i \in 1..Len(left) : ended[i].offered_sequence = left[i].offered_sequence
<1> DEFINE ended == EndedBare(left, clock)
<1>1. IsSeq(left) /\ Len(left) \in Nat /\ DOMAIN left = 1..Len(left)
  BY DEF Ticketed, IsSeq
<1>2. ended = [i \in 1..Len(left) |-> ended[i]]
  <2> DEFINE e(i) == [left[i] EXCEPT !.ended_ns = clock]
  <2>1. ended = [i \in 1..Len(left) |-> e(i)]
    BY <1>1 DEF EndedBare
  <2> HIDE DEF e, ended
  <2> QED
    BY <2>1
<1>3. IsSeq(ended) /\ Len(ended) = Len(left)
  BY <1>1, <1>2, FunctionIsSeq
<1>4. ASSUME NEW i \in 1..Len(left)
      PROVE  /\ ended[i] \in TicketType
             /\ ended[i].offered_sequence = left[i].offered_sequence
             /\ ended[i].scheduled_ns = left[i].scheduled_ns
             /\ ended[i].enqueued_ns = left[i].enqueued_ns
             /\ ended[i].ended_ns = clock
  <2>1. left[i] \in TicketType
    BY DEF Ticketed
  <2>2. ended[i] = [left[i] EXCEPT !.ended_ns = clock]
    BY <1>1 DEF EndedBare
  <2> HIDE DEF ended
  <2> QED
    BY <2>1, <2>2 DEF TicketType
<1> HIDE DEF ended
<1>5. \A i \in 1..Len(left) :
        /\ left[i].offered_sequence \in 1..n
        /\ left[i].scheduled_ns = ScheduledAt(rate, left[i].offered_sequence)
        /\ left[i].scheduled_ns <= left[i].enqueued_ns
        /\ left[i].enqueued_ns <= clock
  BY DEF Ticketed
<1>6. Ticketed(ended, rate, n, clock)
  BY <1>3, <1>4, <1>5 DEF Ticketed
<1>7. AllEnded(ended, clock)
  BY <1>3, <1>4, <1>5 DEF AllEnded
<1> QED
  BY <1>3, <1>4, <1>6, <1>7 DEF ended

(* The fields of the file, as finish makes them.                             *)
FileOf(run, d, failed, cut) ==
    LET left == d.active \o d.queued IN
    /\ run.wire = d.run.wire /\ run.kind = d.run.kind
    /\ run.rate_hz = d.run.rate_hz /\ run.requested_updates = d.run.requested_updates
    /\ run.offered = d.run.offered /\ run.admitted = d.run.admitted
    /\ run.rejected = d.run.rejected /\ run.settled = d.run.settled
    /\ run.coalesced = d.run.coalesced /\ run.timeouts = d.run.timeouts
    /\ run.rejected_settlements = d.run.rejected_settlements
    /\ run.max_in_flight = d.run.max_in_flight
    /\ run.max_queue_depth = d.run.max_queue_depth
    /\ run.samples = d.run.samples /\ run.elapsed_ns = d.clock
    /\ run.disconnects = d.run.disconnects + (IF cut = "disconnected" THEN Len(left) ELSE 0)
    /\ run.unresolved = d.run.unresolved + (IF cut = "disconnected" THEN 0 ELSE Len(left))
    /\ run.failures = d.run.failures \o (IF cut = "none" THEN <<>>
                                         ELSE EndedAs(left, d.clock, cut))
    /\ run.unresolved_updates = (IF cut = "none" THEN EndedBare(left, d.clock) ELSE <<>>)
    /\ run.status = "complete" <=> ~run.error /\ run.rejected = 0
    /\ failed => run.error = TRUE
    /\ run.error \in BOOLEAN
    /\ ~run.error => /\ run.admitted + run.rejected = run.offered
                     /\ run.admitted = run.coalesced + run.settled + run.timeouts
                            + run.disconnects + run.rejected_settlements + run.unresolved
                     /\ run.offered = run.requested_updates

LEMMA FinishedFields ==
  ASSUME NEW d, RunFields \subseteq DOMAIN d.run, NEW failed, NEW cut, d.clock = drag.clock,
         NEW run, run = Finished(d, failed, cut)
  PROVE  FileOf(run, d, failed, cut) /\ RunFields \subseteq DOMAIN run /\ run.whole = d.run.whole
<1> DEFINE left == d.active \o d.queued
<1>1. [i \in DOMAIN left |-> Failure(left[i], cut)] = EndedAs(left, d.clock, cut)
  BY DEF Failure, Ended, EndedAs
<1>2. [i \in DOMAIN left |-> Ended(left[i])] = EndedBare(left, d.clock)
  BY DEF Ended, EndedBare
<1> HIDE DEF left
<1> DEFINE counted == [d.run EXCEPT
            !.disconnects = @ + IF cut = "disconnected" THEN Len(left) ELSE 0,
            !.unresolved = @ + IF cut = "disconnected" THEN 0 ELSE Len(left),
            !.failures = @ \o IF cut = "none" THEN <<>> ELSE EndedAs(left, d.clock, cut),
            !.unresolved_updates =
                IF cut = "none" THEN EndedBare(left, d.clock) ELSE <<>>]
           error == \/ failed
                 \/ counted.admitted + counted.rejected # counted.offered
                 \/ counted.admitted # counted.coalesced + counted.settled
                        + counted.timeouts + counted.disconnects
                        + counted.rejected_settlements + counted.unresolved
                 \/ counted.offered # counted.requested_updates
<1>3. run = [counted EXCEPT !.error = error, !.elapsed_ns = d.clock,
                !.status = IF ~error /\ counted.rejected = 0 THEN "complete" ELSE "failed"]
  BY <1>1, <1>2, ZenonT(60) DEF Finished, left
<1>4. /\ RunFields \subseteq DOMAIN counted
      /\ counted.disconnects = d.run.disconnects + IF cut = "disconnected" THEN Len(left) ELSE 0
      /\ counted.unresolved = d.run.unresolved + IF cut = "disconnected" THEN 0 ELSE Len(left)
      /\ counted.failures = d.run.failures \o IF cut = "none" THEN <<>>
                                              ELSE EndedAs(left, d.clock, cut)
      /\ counted.unresolved_updates = IF cut = "none" THEN EndedBare(left, d.clock) ELSE <<>>
      /\ counted.rate_hz = d.run.rate_hz /\ counted.requested_updates = d.run.requested_updates
      /\ counted.offered = d.run.offered /\ counted.admitted = d.run.admitted
      /\ counted.rejected = d.run.rejected /\ counted.settled = d.run.settled
      /\ counted.coalesced = d.run.coalesced /\ counted.timeouts = d.run.timeouts
      /\ counted.rejected_settlements = d.run.rejected_settlements
      /\ counted.max_in_flight = d.run.max_in_flight
      /\ counted.max_queue_depth = d.run.max_queue_depth
      /\ counted.samples = d.run.samples /\ counted.whole = d.run.whole
      /\ counted.wire = d.run.wire /\ counted.kind = d.run.kind
  BY DEF RunFields
<1>5. error \in BOOLEAN
  OBVIOUS
<1>6. failed => error
  OBVIOUS
<1>7. ~error => /\ counted.admitted + counted.rejected = counted.offered
                /\ counted.admitted = counted.coalesced + counted.settled
                      + counted.timeouts + counted.disconnects
                      + counted.rejected_settlements + counted.unresolved
                /\ counted.offered = counted.requested_updates
  OBVIOUS
<1> HIDE DEF counted, error
<1>8. /\ run.error = error
      /\ run.status = (IF ~error /\ counted.rejected = 0 THEN "complete" ELSE "failed")
      /\ run.elapsed_ns = d.clock
      /\ RunFields \subseteq DOMAIN run
      /\ \A field \in RunFields \ {"error", "status", "elapsed_ns"} : run[field] = counted[field]
  BY <1>3, <1>4 DEF RunFields
<1> QED
  BY <1>4, <1>5, <1>6, <1>7, <1>8, ZenonT(60) DEF RunFields, left, FileOf

(* Records with the sequences of tickets are apart from what those are.      *)
LEMMA SameTickets ==
  ASSUME NEW t, NEW left, Len(t) = Len(left), Distinct(left),
         \A i \in 1..Len(left) : t[i].offered_sequence = left[i].offered_sequence
  PROVE  /\ Distinct(t)
         /\ \A s : Apart(left, s) => Apart(t, s)
         /\ \A s : Apart(s, left) => Apart(s, t) /\ Apart(t, s)
<1>1. Distinct(t)
  BY DEF Distinct
<1>2. \A s : Apart(left, s) => Apart(t, s)
  BY DEF Apart
<1>3. \A s : Apart(s, left) => Apart(s, t) /\ Apart(t, s)
  BY DEF Apart
<1> QED
  BY <1>1, <1>2, <1>3

(* The records u of the tickets left: they are apart from the failures f and *)
(* the samples s.                                                            *)
Unresolves(u, left, f, s, rate, n, clock) ==
    /\ Ticketed(u, rate, n, clock) /\ AllEnded(u, clock)
    /\ Distinct(u) /\ Apart(u, f) /\ Apart(u, s)
    /\ Len(u) = Len(left)

(* The failures "all" are f and, for one reason, the tickets left.           *)
Fails(all, left, f, s, rate, n, clock, cut) ==
    /\ Ticketed(all, rate, n, clock) /\ AllEnded(all, clock)
    /\ Distinct(all) /\ Apart(all, s)
    /\ Len(all) = Len(f) + Len(left)
    /\ \A reasons : Counted(all, reasons) =
           Counted(f, reasons) + IF cut \in reasons THEN Len(left) ELSE 0

(* What the loop has left, unresolved.                                       *)
LEMMA LeftUnresolved ==
  ASSUME NEW left, NEW f, NEW s, NEW rate, NEW n, n \in Nat, NEW clock, clock \in Int,
         Ticketed(left, rate, n, clock), Distinct(left), Apart(f, left), Apart(left, s)
  PROVE  Unresolves(EndedBare(left, clock), left, f, s, rate, n, clock)
<1> DEFINE bare == EndedBare(left, clock)
<1>1. /\ Ticketed(bare, rate, n, clock) /\ AllEnded(bare, clock) /\ Len(bare) = Len(left)
      /\ \A i \in 1..Len(left) : bare[i].offered_sequence = left[i].offered_sequence
  BY UnresolvedTickets
<1> HIDE DEF bare
<1>2. Distinct(bare) /\ Apart(bare, f) /\ Apart(bare, s)
  BY <1>1, SameTickets
<1>3. Unresolves(bare, left, f, s, rate, n, clock)
  BY <1>1, <1>2 DEF Unresolves
<1> QED
  BY <1>3 DEF bare

(* And as failures, all for one reason, after the others.                    *)
LEMMA LeftFails ==
  ASSUME NEW left, NEW f, NEW s, NEW rate, NEW n, n \in Nat, NEW clock, clock \in Int,
         Ticketed(left, rate, n, clock), Distinct(left), Apart(f, left), Apart(left, s),
         Ticketed(f, rate, n, clock), AllEnded(f, clock), Distinct(f), Apart(f, s),
         NEW cut \in Reasons
  PROVE  Fails(f \o EndedAs(left, clock, cut), left, f, s, rate, n, clock, cut)
<1> DEFINE ended == EndedAs(left, clock, cut)
<1>1. /\ Ticketed(ended, rate, n, clock) /\ AllEnded(ended, clock) /\ Len(ended) = Len(left)
      /\ \A i \in 1..Len(left) : /\ ended[i].offered_sequence = left[i].offered_sequence
                                 /\ ended[i].reason = cut
  BY EndedTickets
<1> HIDE DEF ended
<1>2. Distinct(ended) /\ Apart(f, ended) /\ Apart(ended, s)
  BY <1>1, SameTickets
<1>3. IsSeq(f) /\ IsSeq(ended)
  BY <1>1 DEF Ticketed
<1>4. Ticketed(f \o ended, rate, n, clock)
  BY <1>1, TicketedJoin
<1>5. AllEnded(f \o ended, clock)
  BY <1>1, <1>3, EndedJoin
<1>6. Distinct(f \o ended)
  BY <1>2, <1>3, DistinctJoin
<1>7. Apart(f \o ended, s)
  BY <1>2, <1>3, ApartJoin
<1>8. Len(f \o ended) = Len(f) + Len(ended)
  BY <1>3, SeqsJoin
<1>9. AllFor(ended, cut)
  BY <1>1 DEF AllFor
<1>10. \A reasons : Counted(f \o ended, reasons) =
                Counted(f, reasons) + IF cut \in reasons THEN Len(ended) ELSE 0
  <2> TAKE reasons
  <2>1. Counted(f \o ended, reasons) =
            Counted(f, reasons) + (IF cut \in reasons THEN Len(ended) ELSE 0)
    BY <1>3, <1>9, CountedJoin
  <2> QED
    BY <2>1
<1>11. Fails(f \o ended, left, f, s, rate, n, clock, cut)
  BY <1>1, <1>4, <1>5, <1>6, <1>7, <1>8, <1>10 DEF Fails
<1> QED
  BY <1>11 DEF ended

(* The records of a file, and what decode_run asks of them together.         *)
LEMMA OutcomesDecode ==
  ASSUME NEW run, NEW rate, NEW n \in Nat, NEW clock \in Int,
         run.rate_hz = rate, run.offered = n, run.elapsed_ns = clock,
         Ticketed(run.unresolved_updates, rate, n, clock), AllEnded(run.unresolved_updates, clock),
         Ticketed(run.failures, rate, n, clock), AllEnded(run.failures, clock),
         Ticketed(run.samples, rate, n, clock), AllEnded(run.samples, clock),
         Distinct(run.unresolved_updates), Distinct(run.failures), Rising(run.samples),
         Apart(run.unresolved_updates, run.failures), Apart(run.unresolved_updates, run.samples),
         Apart(run.failures, run.samples)
  PROVE  /\ \A i \in DOMAIN Outcomes(run) : OfferedTiming(Outcomes(run)[i], run)
         /\ EachOfferedOnce(run) /\ SamplesRise(run)
<1> DEFINE u == run.unresolved_updates
           f == run.failures
           s == run.samples
           uf == u \o f
           all == uf \o s
<1>1. /\ Ticketed(u, rate, n, clock) /\ AllEnded(u, clock) /\ IsSeq(u)
      /\ Ticketed(f, rate, n, clock) /\ AllEnded(f, clock) /\ IsSeq(f)
      /\ Ticketed(s, rate, n, clock) /\ AllEnded(s, clock) /\ IsSeq(s)
      /\ Distinct(u) /\ Distinct(f) /\ Rising(s) /\ Apart(u, f) /\ Apart(u, s) /\ Apart(f, s)
  BY DEF Ticketed
<1>2. SamplesRise(run) /\ Distinct(s)
  BY <1>1, RisingSamples
<1>3. Outcomes(run) = all
  BY DEF Outcomes
<1> HIDE DEF u, f, s
<1>4. IsSeq(uf)
  BY <1>1, SeqsJoin
<1>5. Ticketed(uf, rate, n, clock)
  BY <1>1, TicketedJoin
<1>6. AllEnded(uf, clock) /\ Distinct(uf) /\ Apart(uf, s)
  BY <1>1, EndedJoin, DistinctJoin, ApartJoin
<1> HIDE DEF uf
<1>7. IsSeq(all) /\ Ticketed(all, rate, n, clock) /\ AllEnded(all, clock)
  BY <1>1, <1>4, <1>5, <1>6, TicketedJoin, EndedJoin, SeqsJoin
<1>8. Distinct(all)
  BY <1>1, <1>2, <1>4, <1>6, DistinctJoin
<1> HIDE DEF all
<1>9. DOMAIN all = 1..Len(all)
  BY <1>7 DEF IsSeq
<1>10. \A i \in 1..Len(all) : OfferedTiming(all[i], run)
  BY <1>7 DEF Ticketed, AllEnded, OfferedTiming
<1>11. EachOfferedOnce(run)
  BY <1>3, <1>8, <1>9 DEF EachOfferedOnce, Distinct
<1> QED
  BY <1>2, <1>3, <1>9, <1>10, <1>11

(* The loop ended with an error, or it answered every update.                *)
Over(d, failed, cut) ==
    failed \/ (Unbroken(d) /\ d.active = <<>> /\ d.queued = <<>> /\ cut = "none")

Sums(offered, admitted, rejected, settled, coalesced, timeouts, refused, k) ==
    /\ offered \in Nat /\ admitted \in Nat /\ rejected \in Nat /\ settled \in Nat
    /\ coalesced \in Nat /\ timeouts \in Nat /\ refused \in Nat /\ k \in Nat
    /\ offered = admitted + rejected
    /\ admitted = settled + coalesced + timeouts + refused + k

LEMMA CountersAddUp ==
  ASSUME NEW offered, NEW admitted, NEW rejected, NEW settled, NEW coalesced, NEW timeouts,
         NEW refused, NEW k,
         Sums(offered, admitted, rejected, settled, coalesced, timeouts, refused, k)
  PROVE  /\ admitted <= offered /\ rejected <= offered /\ settled <= offered
         /\ coalesced <= offered /\ timeouts <= offered /\ refused <= offered
         /\ k <= offered /\ 0 <= offered /\ settled <= admitted
         /\ rejected + timeouts + refused + k <= offered
         /\ rejected + timeouts + refused <= offered
BY DEF Sums

LEMMA FileDecodes ==
  ASSUME NEW d, Accounts(d), NEW failed \in BOOLEAN,
         NEW cut \in {"none", "disconnected", "measurement_deadline"}, Over(d, failed, cut),
         NEW file, FileOf(file, d, failed, cut), file.whole = TRUE
  PROVE  Decodes(file)
<1> DEFINE left == d.active \o d.queued
           f == d.run.failures
           s == d.run.samples
           rate == d.run.rate_hz
           n == d.run.offered
           clock == d.clock
           k == Len(left)
<1>3. /\ Ticketed(left, rate, n, clock) /\ k = Len(d.active) + Len(d.queued)
      /\ Distinct(left) /\ Apart(f, left) /\ Apart(left, s)
  BY LeftInCustody
<1>4. /\ Ticketed(f, rate, n, clock) /\ AllEnded(f, clock) /\ Distinct(f) /\ Apart(f, s)
      /\ Ticketed(s, rate, n, clock) /\ AllEnded(s, clock) /\ Rising(s)
      /\ n \in Nat /\ clock \in Int
  BY DEF Accounts, Custody, Held, Balanced
<1>5. /\ Asked(d.run) /\ Balanced(d.run, Len(d.active), Len(d.queued)) /\ Booked(d.run)
  BY DEF Accounts
<1> HIDE DEF left, f, s, rate, n, clock, k
<1>6. failed \/ (Unbroken(d) /\ k = 0 /\ cut = "none")
  <2>1. ASSUME d.active = <<>>, d.queued = <<>> PROVE k = 0
    <3>1. Len(d.active) = 0 /\ Len(d.queued) = 0
      BY <2>1, NoneIsSeq
    <3> QED
      BY <1>3, <3>1
  <2> QED
    BY <2>1 DEF Over
<1> DEFINE u2 == file.unresolved_updates
           f2 == file.failures
<1>7. k \in Nat /\ Len(f) \in Nat /\ IsSeq(f)
  BY <1>3, <1>4, TicketedIsSeq DEF k
<1>8. \A reasons : Counted(f, reasons) \in Nat
  BY <1>7, CountedIsNat
<1>9. /\ Ticketed(u2, rate, n, clock) /\ AllEnded(u2, clock) /\ Distinct(u2)
      /\ Ticketed(f2, rate, n, clock) /\ AllEnded(f2, clock) /\ Distinct(f2)
      /\ Apart(u2, f2) /\ Apart(u2, s) /\ Apart(f2, s)
      /\ Len(u2) = (IF cut = "none" THEN k ELSE 0)
      /\ Len(f2) = Len(f) + (IF cut = "none" THEN 0 ELSE k)
      /\ \A reasons : Counted(f2, reasons) = Counted(f, reasons)
                          + (IF cut # "none" /\ cut \in reasons THEN k ELSE 0)
  <2>1. CASE cut = "none"
    <3>1. u2 = EndedBare(left, clock)
      BY <2>1 DEF FileOf, left, clock
    <3>2. f2 = f
      <4>1. f2 = f \o <<>>
        BY <2>1 DEF FileOf, f
      <4>2. f \in Seq(RangeOf(f))
        BY <1>7 DEF IsSeq
      <4> HIDE DEF f2
      <4> QED
        BY <4>1, <4>2
    <3> HIDE DEF u2, f2
    <3>3. Unresolves(u2, left, f, s, rate, n, clock)
      BY <1>3, <1>4, <3>1, LeftUnresolved
    <3> QED
      BY <1>4, <1>7, <1>8, <2>1, <3>2, <3>3 DEF k, Unresolves
  <2>2. CASE cut # "none"
    <3>1. u2 = <<>> /\ f2 = f \o EndedAs(left, clock, cut)
      BY <2>2 DEF FileOf, left, clock, f
    <3> HIDE DEF u2, f2
    <3>4. cut \in Reasons
      BY <2>2 DEF Reasons
    <3>5. Fails(f2, left, f, s, rate, n, clock, cut)
      BY <1>3, <1>4, <3>1, <3>4, LeftFails
    <3>2. /\ Ticketed(f2, rate, n, clock) /\ AllEnded(f2, clock)
          /\ Distinct(f2) /\ Apart(f2, s) /\ Len(f2) = Len(f) + Len(left)
          /\ \A reasons : Counted(f2, reasons) =
                Counted(f, reasons) + IF cut \in reasons THEN Len(left) ELSE 0
      BY <3>5 DEF Fails
    <3>3. /\ Ticketed(u2, rate, n, clock) /\ AllEnded(u2, clock)
          /\ Distinct(u2) /\ Apart(u2, f2) /\ Apart(u2, s) /\ Len(u2) = 0
      BY <3>1, NoneIsSeq DEF Ticketed, AllEnded, Distinct, Apart
    <3> QED
      BY <2>2, <3>2, <3>3 DEF k
  <2> QED
    BY <2>1, <2>2
<1>10. /\ file.rate_hz = rate /\ file.requested_updates = d.run.requested_updates
       /\ file.offered = n /\ file.admitted = d.run.admitted
       /\ file.rejected = d.run.rejected /\ file.settled = d.run.settled
       /\ file.coalesced = d.run.coalesced /\ file.timeouts = d.run.timeouts
       /\ file.rejected_settlements = d.run.rejected_settlements
       /\ file.max_in_flight = d.run.max_in_flight
       /\ file.max_queue_depth = d.run.max_queue_depth
       /\ file.samples = s /\ file.elapsed_ns = clock
       /\ file.disconnects = d.run.disconnects + (IF cut = "disconnected" THEN k ELSE 0)
       /\ file.unresolved = d.run.unresolved + (IF cut = "disconnected" THEN 0 ELSE k)
  BY DEF FileOf, rate, n, s, clock, k, left
<1>20. /\ file.failures = f2 /\ file.unresolved_updates = u2
       /\ file.status = "complete" => ~file.error /\ d.run.rejected = 0
       /\ failed => file.error = TRUE
       /\ file.error \in BOOLEAN
       /\ ~file.error => n = d.run.requested_updates
  BY DEF FileOf, n
<1> HIDE DEF u2, f2
<1>12. file.status = "complete" =>
           Unbroken(d) /\ k = 0 /\ cut = "none" /\ d.run.rejected = 0 /\ ~file.error
  BY <1>6, <1>20
<1>13. Balanced(d.run, Len(d.active), Len(d.queued)) /\ Len(d.active) + Len(d.queued) = k
       /\ Len(d.active) \in Nat /\ Len(d.queued) \in Nat /\ n = d.run.offered
       /\ Len(s) = d.run.settled
       /\ Len(f) = d.run.rejected + d.run.timeouts + d.run.rejected_settlements
  BY <1>3, <1>5 DEF Accounts, Custody, Held, Ticketed, IsSeq, Booked, n, s, f
<1>19. /\ file.offered \in Nat /\ file.admitted \in Nat /\ file.rejected \in Nat
       /\ file.settled \in Nat /\ file.coalesced \in Nat /\ file.timeouts \in Nat
       /\ file.rejected_settlements \in Nat
       /\ file.offered = file.admitted + file.rejected
       /\ file.offered <= file.requested_updates
       /\ file.admitted = file.settled + file.coalesced + file.timeouts
                            + file.rejected_settlements + k
       /\ file.disconnects = (IF cut = "disconnected" THEN k ELSE 0)
       /\ file.unresolved = (IF cut = "disconnected" THEN 0 ELSE k)
       /\ file.max_in_flight \in 0..1 /\ file.max_queue_depth \in 0..1
       /\ file.settled > 0 => file.max_in_flight = 1
       /\ Len(file.samples) = file.settled
       /\ Len(f) = file.rejected + file.timeouts + file.rejected_settlements
  <2> DEFINE r == d.run
  <2>1. /\ r.offered \in Nat /\ r.admitted \in Nat /\ r.rejected \in Nat
        /\ r.settled \in Nat /\ r.coalesced \in Nat /\ r.timeouts \in Nat
        /\ r.rejected_settlements \in Nat
        /\ r.offered = r.admitted + r.rejected
        /\ r.offered <= r.requested_updates
        /\ r.disconnects = 0 /\ r.unresolved = 0
        /\ r.max_in_flight \in 0..1 /\ r.max_queue_depth \in 0..1
        /\ r.settled > 0 => r.max_in_flight = 1
    BY <1>13 DEF Balanced
  <2>2. r.admitted = r.settled + r.coalesced + r.timeouts + r.rejected_settlements
                        + Len(d.active) + Len(d.queued)
    BY <1>13 DEF Balanced
  <2>3. r.admitted = r.settled + r.coalesced + r.timeouts + r.rejected_settlements + k
    <3> DEFINE sum == r.settled + r.coalesced + r.timeouts + r.rejected_settlements
    <3>1. sum \in Nat
      BY <2>1
    <3>2. r.admitted = sum + Len(d.active) + Len(d.queued)
      BY <2>2
    <3> DEFINE x == Len(d.active)
               y == Len(d.queued)
    <3>4. x \in Nat /\ y \in Nat /\ x + y = k
      BY <1>13
    <3> HIDE DEF sum, x, y
    <3>5. r.admitted = sum + x + y
      BY <3>2 DEF x, y
    <3>3. r.admitted = sum + k
      BY <3>1, <3>4, <3>5
    <3> QED
      BY <3>3 DEF sum
  <2>4. /\ file.disconnects = (IF cut = "disconnected" THEN k ELSE 0)
        /\ file.unresolved = (IF cut = "disconnected" THEN 0 ELSE k)
    <3>1. /\ file.disconnects = 0 + (IF cut = "disconnected" THEN k ELSE 0)
          /\ file.unresolved = 0 + (IF cut = "disconnected" THEN 0 ELSE k)
      BY <1>10, <2>1
    <3> QED
      BY <1>7, <3>1
  <2>5. /\ file.offered = r.offered /\ file.admitted = r.admitted
        /\ file.requested_updates = r.requested_updates
        /\ file.rejected = r.rejected /\ file.settled = r.settled
        /\ file.coalesced = r.coalesced /\ file.timeouts = r.timeouts
        /\ file.rejected_settlements = r.rejected_settlements
        /\ file.max_in_flight = r.max_in_flight
        /\ file.max_queue_depth = r.max_queue_depth
        /\ Len(file.samples) = r.settled
    BY <1>10, <1>13
  <2>6. Len(f) = r.rejected + r.timeouts + r.rejected_settlements
    BY <1>13
  <2> HIDE DEF r
  <2> QED
    BY <2>1, <2>3, <2>4, <2>5, <2>6
<1>14. CountersWithinOffered(file) /\ CountersCoherent(file) /\ FailuresWithinOffered(file)
  <2>4. /\ file.admitted <= file.offered /\ file.rejected <= file.offered
        /\ file.settled <= file.offered /\ file.coalesced <= file.offered
        /\ file.timeouts <= file.offered /\ file.rejected_settlements <= file.offered
        /\ k <= file.offered /\ 0 <= file.offered /\ file.settled <= file.admitted
        /\ file.rejected + file.timeouts + file.rejected_settlements + k <= file.offered
        /\ file.rejected + file.timeouts + file.rejected_settlements <= file.offered
    <3>1. Sums(file.offered, file.admitted, file.rejected, file.settled, file.coalesced,
               file.timeouts, file.rejected_settlements, k)
      BY <1>7, <1>19 DEF Sums
    <3> QED
      BY <3>1, CountersAddUp
  <2>5. /\ file.disconnects <= file.offered /\ file.unresolved <= file.offered
    BY <1>19, <2>4
  <2>1. CountersWithinOffered(file)
    BY <1>19, <2>4, <2>5 DEF CountersWithinOffered
  <2>2. CountersCoherent(file)
    <3>1. file.admitted + file.rejected = file.offered
      BY <1>19
    <3>2. file.status = "complete" => file.offered = file.requested_updates
      BY <1>10, <1>20
    <3>3. file.settled = Len(file.samples) /\ file.max_in_flight <= 1 /\ file.max_queue_depth <= 1
      BY <1>19, SMTT(30)
    <3>4. file.disconnects + file.unresolved = k /\ file.disconnects \in Nat /\ file.unresolved \in Nat
      BY <1>7, <1>19
    <3>5. file.admitted = file.settled + file.coalesced + file.timeouts
                            + file.disconnects + file.rejected_settlements + file.unresolved
      <4> DEFINE sum == file.settled + file.coalesced + file.timeouts
                 w == file.rejected_settlements
                 x == file.disconnects
                 y == file.unresolved
      <4>1. sum \in Nat /\ w \in Nat /\ file.admitted = sum + w + k
        BY <1>19, SMTT(30)
      <4>2. x \in Nat /\ y \in Nat /\ x + y = k
        BY <3>4
      <4> HIDE DEF sum, w, x, y
      <4>3. file.admitted = sum + x + w + y
        BY <4>1, <4>2
      <4> QED
        BY <4>3 DEF sum, w, x, y
    <3> QED
      BY <1>19, <2>4, <3>1, <3>2, <3>3, <3>5 DEF CountersCoherent
  <2>3. FailuresWithinOffered(file)
    <3>1. Len(f2) <= file.offered
      BY <1>7, <1>9, <1>19, <2>4
    <3>2. Len(u2) <= file.offered
      BY <1>9, <2>4
    <3> QED
      BY <1>20, <3>1, <3>2 DEF FailuresWithinOffered
  <2> QED
    BY <2>1, <2>2, <2>3
<1>15. CompleteIsClean(file)
  <2> SUFFICES ASSUME file.status = "complete"
               PROVE  /\ file.failures = <<>> /\ file.unresolved_updates = <<>>
                      /\ file.rejected = 0 /\ file.timeouts = 0 /\ file.disconnects = 0
                      /\ file.rejected_settlements = 0 /\ file.unresolved = 0
                      /\ ~file.error
    BY <1>10, <1>20 DEF CompleteIsClean
  <2>1. /\ d.run.rejected = 0 /\ d.run.timeouts = 0 /\ d.run.rejected_settlements = 0
        /\ d.run.disconnects = 0 /\ d.run.unresolved = 0 /\ k = 0 /\ cut = "none" /\ ~file.error
    BY <1>12, <1>13 DEF Unbroken, Balanced
  <2>2. Len(f2) = 0 /\ Len(u2) = 0
    BY <1>9, <1>13, <2>1
  <2>3. IsSeq(f2) /\ IsSeq(u2)
    BY <1>9 DEF Ticketed
  <2>4. f2 = <<>> /\ u2 = <<>>
    BY <2>2, <2>3, EmptySeq DEF IsSeq
  <2> QED
    BY <1>10, <1>20, <2>1, <2>4
<1>16. ReasonsMatchCounters(file)
  <2>1. /\ Counted(f, {"enqueue_refused"}) = d.run.rejected
        /\ Counted(f, {"timed_out"}) = d.run.timeouts
        /\ Counted(f, {"rejected_stale", "rejected_invalid"}) = d.run.rejected_settlements
        /\ Counted(f, {"disconnected"}) = 0
        /\ Counted(f, {"measurement_deadline"}) = 0
    BY <1>5 DEF Booked, f
  <2>2. \A reasons : FailedFor(file, reasons) = Counted(f2, reasons)
    BY <1>20 DEF FailedFor, Counted
  <2>3. /\ FailedFor(file, {"enqueue_refused"}) = d.run.rejected
        /\ FailedFor(file, {"timed_out"}) = d.run.timeouts
        /\ FailedFor(file, {"rejected_stale", "rejected_invalid"}) = d.run.rejected_settlements
        /\ FailedFor(file, {"disconnected"}) = IF cut = "disconnected" THEN k ELSE 0
        /\ FailedFor(file, {"measurement_deadline"}) = IF cut = "measurement_deadline" THEN k ELSE 0
    BY <1>8, <1>9, <2>1, <2>2, <1>7
  <2> QED
    <3>1. FailedFor(file, {"measurement_deadline"}) + Len(u2) = file.unresolved
      BY <1>7, <1>9, <1>19, <2>3, SMTT(30)
    <3> QED
      BY <1>10, <1>19, <1>20, <2>3, <3>1 DEF ReasonsMatchCounters
<1>17. /\ \A i \in DOMAIN Outcomes(file) : OfferedTiming(Outcomes(file)[i], file)
       /\ EachOfferedOnce(file) /\ SamplesRise(file)
  BY <1>4, <1>9, <1>10, <1>20, OutcomesDecode
<1>18. file.rate_hz \in RangeOf(Rates) /\ file.requested_updates \in 1..MaxUpdates
  BY <1>5, <1>10 DEF Asked, rate
<1> QED
  BY <1>14, <1>15, <1>16, <1>17, <1>18 DEF Decodes

-----------------------------------------------------------------------------
(* What each operation does to the tickets.                                  *)

(* The ticket of the next offer, made when it is due.                        *)
Due(t, rate, n, clock) ==
    /\ t \in TicketType
    /\ t.offered_sequence = n + 1
    /\ t.scheduled_ns = ScheduledAt(rate, n + 1)
    /\ t.scheduled_ns <= t.enqueued_ns
    /\ t.enqueued_ns = clock

LEMMA OneTicket ==
  ASSUME NEW t, NEW rate, NEW n, n \in Nat, NEW clock, clock \in Int,
         t \in TicketType, t.offered_sequence \in 1..n,
         t.scheduled_ns = ScheduledAt(rate, t.offered_sequence),
         t.scheduled_ns <= t.enqueued_ns, t.enqueued_ns <= clock
  PROVE  Ticketed(<<t>>, rate, n, clock)
<1>1. IsSeq(<<t>>) /\ Len(<<t>>) = 1 /\ <<t>>[1] = t
  BY OneIsSeq
<1>2. \A i \in 1..Len(<<t>>) : <<t>>[i] = t
  BY <1>1
<1> QED
  BY <1>1, <1>2 DEF Ticketed

LEMMA NoTicket ==
  ASSUME NEW rate, NEW n, NEW clock
  PROVE  Ticketed(<<>>, rate, n, clock) /\ Len(<<>>) = 0
BY NoneIsSeq DEF Ticketed

LEMMA NothingMeets ==
  ASSUME NEW s
  PROVE  Apart(s, <<>>) /\ Apart(<<>>, s) /\ Before(s, <<>>) /\ Before(<<>>, s)
BY NoneIsSeq DEF Apart, Before

(* The new ticket comes after all that there are.                            *)
LEMMA DueIsLatest ==
  ASSUME NEW t, NEW rate, NEW n, n \in Nat, NEW clock, clock \in Int, Due(t, rate, n, clock)
  PROVE  /\ Ticketed(<<t>>, rate, n + 1, clock) /\ Len(<<t>>) = 1
         /\ \A s : Ticketed(s, rate, n, clock) =>
               /\ Before(s, <<t>>) /\ Apart(s, <<t>>) /\ Apart(<<t>>, s)
               /\ Ticketed(s, rate, n + 1, clock)
<1>1. Len(<<t>>) = 1 /\ <<t>>[1] = t
  BY OneIsSeq
<1>2. Ticketed(<<t>>, rate, n + 1, clock)
  <2>1. n + 1 \in Nat /\ n + 1 \in 1..n + 1
    OBVIOUS
  <2>2. t \in TicketType /\ t.offered_sequence = n + 1 /\ t.enqueued_ns <= clock
        /\ t.scheduled_ns = ScheduledAt(rate, t.offered_sequence)
        /\ t.scheduled_ns <= t.enqueued_ns
    BY DEF Due
  <2> QED
    BY <2>1, <2>2, OneTicket
<1>3. ASSUME NEW s, Ticketed(s, rate, n, clock)
      PROVE  /\ Before(s, <<t>>) /\ Apart(s, <<t>>) /\ Apart(<<t>>, s)
             /\ Ticketed(s, rate, n + 1, clock)
  <2>1. \A i \in 1..Len(s) : s[i].offered_sequence \in 1..n
    BY <1>3 DEF Ticketed
  <2>2. \A i \in 1..Len(<<t>>) : <<t>>[i].offered_sequence = n + 1
    BY <1>1 DEF Due
  <2>3. Ticketed(s, rate, n + 1, clock)
    <3>1. \A i \in 1..Len(s) : s[i].offered_sequence \in 1..n + 1
      BY <2>1
    <3> QED
      BY <1>3, <3>1 DEF Ticketed
  <2>4. Before(s, <<t>>)
    BY <2>1, <2>2 DEF Before
  <2>5. Apart(s, <<t>>) /\ Apart(<<t>>, s)
    BY <2>1, <2>2 DEF Apart
  <2> QED
    BY <2>3, <2>4, <2>5
<1> QED
  BY <1>1, <1>2, <1>3

(* offer, admitted: the new ticket is queued, in the place of another.       *)
LEMMA OfferHeld ==
  ASSUME NEW f, NEW s, NEW a, NEW q, NEW rate, NEW n, NEW clock, Held(f, s, a, q, rate, n, clock),
         NEW t, Due(t, rate, n, clock)
  PROVE  Held(f, s, a, <<t>>, rate, n + 1, clock)
<1>1. n \in Nat /\ clock \in Int /\ n + 1 \in Nat
  BY DEF Held
<1>2. /\ Ticketed(f, rate, n, clock) /\ Ticketed(s, rate, n, clock)
      /\ Ticketed(a, rate, n, clock)
  BY DEF Held
<1>3. /\ Ticketed(<<t>>, rate, n + 1, clock) /\ Len(<<t>>) <= 1
      /\ Before(s, <<t>>) /\ Before(a, <<t>>) /\ Apart(f, <<t>>)
      /\ Ticketed(f, rate, n + 1, clock) /\ Ticketed(s, rate, n + 1, clock)
      /\ Ticketed(a, rate, n + 1, clock)
  <2>1. /\ Ticketed(<<t>>, rate, n + 1, clock) /\ Len(<<t>>) = 1
        /\ \A x : Ticketed(x, rate, n, clock) =>
               /\ Before(x, <<t>>) /\ Apart(x, <<t>>) /\ Apart(<<t>>, x)
               /\ Ticketed(x, rate, n + 1, clock)
    BY <1>1, DueIsLatest
  <2> QED
    BY <1>2, <2>1
<1> QED
  BY <1>1, <1>3 DEF Held

(* offer, refused: it fails at once.                                         *)
LEMMA RefusalHeld ==
  ASSUME NEW f, NEW s, NEW a, NEW q, NEW rate, NEW n, NEW clock, Held(f, s, a, q, rate, n, clock),
         NEW t, Due(t, rate, n, clock), t.ended_ns = clock
  PROVE  Held(f \o <<t>>, s, a, q, rate, n + 1, clock)
<1>1. n \in Nat /\ clock \in Int /\ n + 1 \in Nat
  BY DEF Held
<1>2. /\ Ticketed(f, rate, n, clock) /\ Ticketed(s, rate, n, clock)
      /\ Ticketed(a, rate, n, clock) /\ Ticketed(q, rate, n, clock)
      /\ AllEnded(f, clock) /\ Distinct(f) /\ Apart(f, s) /\ Apart(f, a) /\ Apart(f, q)
  BY DEF Held
<1>3. /\ Ticketed(<<t>>, rate, n + 1, clock)
      /\ Apart(f, <<t>>) /\ Apart(<<t>>, s) /\ Apart(<<t>>, a) /\ Apart(<<t>>, q)
      /\ Ticketed(f, rate, n + 1, clock) /\ Ticketed(s, rate, n + 1, clock)
      /\ Ticketed(a, rate, n + 1, clock) /\ Ticketed(q, rate, n + 1, clock)
  <2>1. /\ Ticketed(<<t>>, rate, n + 1, clock) /\ Len(<<t>>) = 1
        /\ \A x : Ticketed(x, rate, n, clock) =>
               /\ Before(x, <<t>>) /\ Apart(x, <<t>>) /\ Apart(<<t>>, x)
               /\ Ticketed(x, rate, n + 1, clock)
    BY <1>1, DueIsLatest
  <2> QED
    BY <1>2, <2>1
<1>4. IsSeq(f) /\ IsSeq(<<t>>) /\ Len(<<t>>) = 1 /\ <<t>>[1] = t
  BY <1>2, OneIsSeq DEF Ticketed
<1>5. AllEnded(<<t>>, clock) /\ Distinct(<<t>>)
  <2>1. \A i \in 1..Len(<<t>>) : i = 1 /\ <<t>>[i] = t
    BY <1>4
  <2>2. t.enqueued_ns <= t.ended_ns /\ t.ended_ns <= clock
    BY <1>1 DEF Due
  <2> QED
    BY <2>1, <2>2 DEF AllEnded, Distinct
<1>6. Ticketed(f \o <<t>>, rate, n + 1, clock)
  BY <1>1, <1>3, TicketedJoin
<1>7. AllEnded(f \o <<t>>, clock) /\ Distinct(f \o <<t>>)
  BY <1>2, <1>3, <1>4, <1>5, EndedJoin, DistinctJoin
<1>8. Apart(f \o <<t>>, s) /\ Apart(f \o <<t>>, a) /\ Apart(f \o <<t>>, q)
  BY <1>2, <1>3, <1>4, ApartJoin
<1> QED
  BY <1>1, <1>3, <1>6, <1>7, <1>8 DEF Held

(* The same ticket, with more known of it.                                   *)
Same(e, t) ==
    /\ e \in TicketType
    /\ e.offered_sequence = t.offered_sequence
    /\ e.scheduled_ns = t.scheduled_ns
    /\ e.enqueued_ns = t.enqueued_ns

LEMMA OneInCustody ==
  ASSUME NEW a, NEW rate, NEW n, NEW clock, Ticketed(a, rate, n, clock), a # <<>>, Len(a) <= 1
  PROVE  Len(a) = 1 /\ 1 \in 1..Len(a) /\ \A i \in 1..Len(a) : i = 1
<1>1. IsSeq(a) /\ Len(a) \in Nat
  BY TicketedIsSeq
<1>2. Len(a) # 0
  BY <1>1, EmptySeq DEF IsSeq
<1> HIDE DEF IsSeq
<1>3. Len(a) = 1
  BY <1>1, <1>2
<1> QED
  BY <1>3

LEMMA SameTicket ==
  ASSUME NEW a, NEW rate, NEW n, n \in Nat, NEW clock, clock \in Int,
         Ticketed(a, rate, n, clock), a # <<>>, Len(a) <= 1, NEW e, Same(e, a[1])
  PROVE  /\ Ticketed(<<e>>, rate, n, clock) /\ Len(<<e>>) = 1 /\ Distinct(<<e>>)
         /\ \A x : /\ Apart(x, a) => Apart(x, <<e>>) /\ Apart(<<e>>, x)
                   /\ Before(x, a) => Before(x, <<e>>)
                   /\ Before(a, x) => Before(<<e>>, x)
<1>1. Len(a) = 1 /\ 1 \in 1..Len(a)
  BY OneInCustody
<1>2. Len(<<e>>) = 1 /\ \A i \in 1..Len(<<e>>) : i = 1 /\ <<e>>[i] = e
  BY OneIsSeq
<1>3. Ticketed(<<e>>, rate, n, clock)
  <2>1. /\ a[1].offered_sequence \in 1..n
        /\ a[1].scheduled_ns = ScheduledAt(rate, a[1].offered_sequence)
        /\ a[1].scheduled_ns <= a[1].enqueued_ns
        /\ a[1].enqueued_ns <= clock
    BY <1>1 DEF Ticketed
  <2>2. /\ e \in TicketType /\ e.offered_sequence \in 1..n
        /\ e.scheduled_ns = ScheduledAt(rate, e.offered_sequence)
        /\ e.scheduled_ns <= e.enqueued_ns
        /\ e.enqueued_ns <= clock
    BY <2>1 DEF Same
  <2> QED
    BY <2>2, OneTicket
<1>4. e.offered_sequence = a[1].offered_sequence
  BY DEF Same
<1>5. Distinct(<<e>>)
  BY <1>2 DEF Distinct
<1>6. ASSUME NEW x, Apart(x, a) PROVE Apart(x, <<e>>) /\ Apart(<<e>>, x)
  <2>1. \A i \in 1..Len(x) : x[i].offered_sequence # e.offered_sequence
    BY <1>1, <1>4, <1>6 DEF Apart
  <2> QED
    BY <1>2, <2>1 DEF Apart
<1>7. ASSUME NEW x, Before(x, a) PROVE Before(x, <<e>>)
  BY <1>1, <1>2, <1>4, <1>7 DEF Before
<1>8. ASSUME NEW x, Before(a, x) PROVE Before(<<e>>, x)
  BY <1>1, <1>2, <1>4, <1>8 DEF Before
<1> QED
  BY <1>2, <1>3, <1>5, <1>6, <1>7, <1>8

(* dispatched: the queued ticket is in flight.                               *)
LEMMA DispatchHeld ==
  ASSUME NEW f, NEW s, NEW q, NEW rate, NEW n, NEW clock, Held(f, s, <<>>, q, rate, n, clock),
         q # <<>>, NEW t, Same(t, q[1])
  PROVE  Held(f, s, <<t>>, <<>>, rate, n, clock)
<1>1. /\ n \in Nat /\ clock \in Int /\ Ticketed(q, rate, n, clock) /\ Len(q) <= 1
      /\ Apart(f, q) /\ Before(s, q)
  BY DEF Held
<1>2. /\ Ticketed(<<t>>, rate, n, clock) /\ Len(<<t>>) = 1 /\ Apart(f, <<t>>)
      /\ Before(s, <<t>>)
  BY <1>1, SameTicket
<1>3. /\ Ticketed(<<>>, rate, n, clock) /\ Len(<<>>) = 0
      /\ Apart(f, <<>>) /\ Before(s, <<>>) /\ Before(<<t>>, <<>>)
  BY NoTicket, NothingMeets
<1> QED
  BY <1>2, <1>3 DEF Held

(* A sample with the identities of t comes after these samples.              *)
Latest(t, s) ==
    /\ t.request_id \in Nat \ {0} /\ t.transaction \in Nat \ {0}
    /\ \A i \in 1..Len(s) : /\ s[i].request_id < t.request_id
                            /\ s[i].transaction < t.transaction

(* sample, committed: the ticket in flight is a sample.                      *)
LEMMA CommitHeld ==
  ASSUME NEW f, NEW s, NEW a, NEW q, NEW rate, NEW n, NEW clock, Held(f, s, a, q, rate, n, clock),
         a # <<>>, NEW e, Same(e, a[1]), e.ended_ns = clock, Latest(e, s)
  PROVE  Held(f, s \o <<e>>, <<>>, q, rate, n, clock)
<1>1. /\ n \in Nat /\ clock \in Int /\ Ticketed(a, rate, n, clock) /\ Len(a) <= 1
      /\ Ticketed(s, rate, n, clock) /\ AllEnded(s, clock) /\ Rising(s)
      /\ Ticketed(f, rate, n, clock) /\ Ticketed(q, rate, n, clock)
      /\ Apart(f, a) /\ Apart(f, s) /\ Before(s, a) /\ Before(s, q) /\ Before(a, q)
  BY DEF Held
<1>2. /\ Ticketed(<<e>>, rate, n, clock) /\ Len(<<e>>) = 1
      /\ Apart(f, <<e>>) /\ Before(s, <<e>>) /\ Before(<<e>>, q)
  BY <1>1, SameTicket
<1>3. /\ Ticketed(<<>>, rate, n, clock) /\ Len(<<>>) = 0
      /\ Apart(f, <<>>) /\ Before(s \o <<e>>, <<>>) /\ Before(<<>>, q)
  BY NoTicket, NothingMeets
<1>4. IsSeq(s) /\ IsSeq(<<e>>) /\ IsSeq(f) /\ IsSeq(q) /\ <<e>>[1] = e
  BY <1>1, <1>2, OneIsSeq DEF Ticketed
<1>5. AllEnded(<<e>>, clock)
  <2>1. e.enqueued_ns <= clock
    <3>1. 1 \in 1..Len(<<e>>)
      BY <1>2
    <3> QED
      BY <1>2, <1>4, <3>1 DEF Ticketed
  <2>2. \A i \in 1..Len(<<e>>) : <<e>>[i] = e
    BY OneIsSeq
  <2> QED
    BY <1>1, <2>1, <2>2 DEF AllEnded
<1>6. Ticketed(s \o <<e>>, rate, n, clock)
  BY <1>1, <1>2, TicketedJoin
<1>7. AllEnded(s \o <<e>>, clock)
  BY <1>1, <1>4, <1>5, EndedJoin
<1>8. Apart(f, s \o <<e>>)
  BY <1>1, <1>2, <1>4, ApartJoin
<1>9. Before(s \o <<e>>, q)
  BY <1>1, <1>2, <1>4, BeforeJoin
<1>10. Rising(s \o <<e>>)
  <2>1. 1 \in 1..Len(<<e>>)
    BY <1>2
  <2>2. e.offered_sequence \in Nat \ {0}
    BY <1>1, <1>2, <1>4, <2>1 DEF Ticketed
  <2>3. \A i \in 1..Len(s) : s[i].offered_sequence < e.offered_sequence
    BY <1>2, <1>4, <2>1 DEF Before
  <2> QED
    BY <1>1, <1>4, <2>2, <2>3, RisingMore DEF Latest
<1> QED
  BY <1>1, <1>3, <1>6, <1>7, <1>8, <1>9, <1>10 DEF Held

(* sample, refused or timed out: the ticket in flight is a failure.          *)
LEMMA FailureHeld ==
  ASSUME NEW f, NEW s, NEW a, NEW q, NEW rate, NEW n, NEW clock, Held(f, s, a, q, rate, n, clock),
         a # <<>>, NEW e, Same(e, a[1]), e.ended_ns = clock
  PROVE  Held(f \o <<e>>, s, <<>>, q, rate, n, clock)
<1>1. /\ n \in Nat /\ clock \in Int /\ Ticketed(a, rate, n, clock) /\ Len(a) <= 1
      /\ Ticketed(s, rate, n, clock) /\ Ticketed(q, rate, n, clock)
      /\ Ticketed(f, rate, n, clock) /\ AllEnded(f, clock) /\ Distinct(f)
      /\ Apart(f, a) /\ Apart(f, s) /\ Apart(f, q) /\ Before(s, a) /\ Before(a, q)
  BY DEF Held
<1>2. /\ Ticketed(<<e>>, rate, n, clock) /\ Len(<<e>>) = 1 /\ Distinct(<<e>>)
      /\ Apart(f, <<e>>) /\ Before(s, <<e>>) /\ Before(<<e>>, q)
  BY <1>1, SameTicket
<1>3. Apart(<<e>>, s) /\ Apart(<<e>>, q)
  BY <1>1, <1>2, ApartFromBefore
<1>4. IsSeq(s) /\ IsSeq(<<e>>) /\ IsSeq(f) /\ IsSeq(q) /\ <<e>>[1] = e
  BY <1>1, <1>2, OneIsSeq DEF Ticketed
<1>5. AllEnded(<<e>>, clock)
  <2>1. e.enqueued_ns <= clock
    <3>1. 1 \in 1..Len(<<e>>)
      BY <1>2
    <3> QED
      BY <1>2, <1>4, <3>1 DEF Ticketed
  <2>2. \A i \in 1..Len(<<e>>) : <<e>>[i] = e
    BY OneIsSeq
  <2> QED
    BY <1>1, <2>1, <2>2 DEF AllEnded
<1>6. Ticketed(f \o <<e>>, rate, n, clock)
  BY <1>1, <1>2, TicketedJoin
<1>7. AllEnded(f \o <<e>>, clock)
  BY <1>1, <1>4, <1>5, EndedJoin
<1>8. Distinct(f \o <<e>>)
  BY <1>1, <1>2, <1>4, DistinctJoin
<1>9. /\ Apart(f \o <<e>>, s) /\ Apart(f \o <<e>>, q)
  BY <1>1, <1>3, <1>4, ApartJoin
<1>10. /\ Ticketed(<<>>, rate, n, clock) /\ Len(<<>>) = 0
       /\ Apart(f \o <<e>>, <<>>) /\ Before(s, <<>>) /\ Before(<<>>, q)
  BY NoTicket, NothingMeets
<1> QED
  BY <1>6, <1>7, <1>8, <1>9, <1>10 DEF Held

(* Time passes.                                                              *)
LEMMA ClockHeld ==
  ASSUME NEW f, NEW s, NEW a, NEW q, NEW rate, NEW n, NEW clock, Held(f, s, a, q, rate, n, clock),
         NEW later, later \in Int, clock <= later
  PROVE  Held(f, s, a, q, rate, n, later)
<1>1. n \in Nat /\ clock \in Int /\ n <= n
  BY DEF Held
<1>2. \A x : Ticketed(x, rate, n, clock) => Ticketed(x, rate, n, later)
  BY <1>1, TicketedLater
<1>3. \A x : Ticketed(x, rate, n, clock) /\ AllEnded(x, clock) => AllEnded(x, later)
  <2> TAKE x
  <2> HAVE Ticketed(x, rate, n, clock) /\ AllEnded(x, clock)
  <2>1. \A i \in 1..Len(x) : x[i].ended_ns \in Int
    BY DEF Ticketed, TicketType
  <2> QED
    BY <1>1, <2>1 DEF AllEnded
<1> QED
  BY <1>2, <1>3 DEF Held

-----------------------------------------------------------------------------
(* What each operation does to the counters, and to the records they count.  *)

(* The counters of s are those of r and so many more.                        *)
CountsUp(r, s, offered, admitted, rejected, settled, coalesced, timeouts, refused) ==
    /\ s.offered = r.offered + offered /\ s.admitted = r.admitted + admitted
    /\ s.rejected = r.rejected + rejected /\ s.settled = r.settled + settled
    /\ s.coalesced = r.coalesced + coalesced /\ s.timeouts = r.timeouts + timeouts
    /\ s.rejected_settlements = r.rejected_settlements + refused
    /\ s.requested_updates = r.requested_updates /\ s.rate_hz = r.rate_hz
    /\ s.disconnects = r.disconnects /\ s.unresolved = r.unresolved /\ s.whole = r.whole
    /\ s.max_queue_depth \in {r.max_queue_depth, 1}
    /\ s.max_in_flight \in {r.max_in_flight, 1}

LEMMA SumMoves ==
  ASSUME NEW admitted \in Nat, NEW settled \in Nat, NEW coalesced \in Nat, NEW timeouts \in Nat,
         NEW refused \in Nat, NEW active \in Nat, NEW queued \in Nat,
         NEW b \in Nat, NEW d \in Nat, NEW e \in Nat, NEW g \in Nat, NEW h \in Nat,
         NEW active2 \in Nat, NEW queued2 \in Nat,
         admitted = settled + coalesced + timeouts + refused + active + queued,
         b + active + queued = d + e + g + h + active2 + queued2
  PROVE  admitted + b = (settled + d) + (coalesced + e) + (timeouts + g) + (refused + h)
                            + active2 + queued2
OBVIOUS

LEMMA Rebalanced ==
  ASSUME NEW r, NEW s, NEW active \in Nat, NEW queued \in Nat, NEW active2 \in Nat,
         NEW queued2 \in Nat, Balanced(r, active, queued),
         NEW a \in Nat, NEW b \in Nat, NEW c \in Nat, NEW d \in Nat, NEW e \in Nat, NEW g \in Nat,
         NEW h \in Nat, CountsUp(r, s, a, b, c, d, e, g, h),
         a = b + c, r.offered + a <= r.requested_updates,
         b + active + queued = d + e + g + h + active2 + queued2,
         e <= b, e <= queued,
         d > 0 \/ active2 > 0 => active > 0 \/ s.max_in_flight = 1
  PROVE  Balanced(s, active2, queued2)
<1>1. /\ r.offered \in Nat /\ r.admitted \in Nat /\ r.rejected \in Nat /\ r.settled \in Nat
      /\ r.coalesced \in Nat /\ r.timeouts \in Nat /\ r.rejected_settlements \in Nat
  BY DEF Balanced
<1>2. r.admitted = r.settled + r.coalesced + r.timeouts + r.rejected_settlements
                       + active + queued
  BY DEF Balanced
<1>3. /\ s.offered = r.offered + a /\ s.admitted = r.admitted + b
      /\ s.rejected = r.rejected + c /\ s.settled = r.settled + d
      /\ s.coalesced = r.coalesced + e /\ s.timeouts = r.timeouts + g
      /\ s.rejected_settlements = r.rejected_settlements + h
  BY DEF CountsUp
<1>4. /\ s.offered \in Nat /\ s.admitted \in Nat /\ s.rejected \in Nat /\ s.settled \in Nat
      /\ s.coalesced \in Nat /\ s.timeouts \in Nat /\ s.rejected_settlements \in Nat
  BY <1>1, <1>3
<1>5. s.offered = s.admitted + s.rejected
  <2>1. r.offered = r.admitted + r.rejected
    BY DEF Balanced
  <2> QED
    BY <1>1, <1>3, <2>1
<1>6. s.admitted = s.settled + s.coalesced + s.timeouts + s.rejected_settlements
                       + active2 + queued2
  <2>1. r.admitted + b = (r.settled + d) + (r.coalesced + e) + (r.timeouts + g)
                             + (r.rejected_settlements + h) + active2 + queued2
    BY <1>1, <1>2, SumMoves
  <2> QED
    BY <1>3, <2>1
<1>7. /\ s.offered <= s.requested_updates /\ s.disconnects = 0 /\ s.unresolved = 0
      /\ s.max_in_flight \in 0..1 /\ s.max_queue_depth \in 0..1
  BY <1>3 DEF Balanced, CountsUp
<1>8. s.settled > 0 \/ active2 > 0 => s.max_in_flight = 1
  <2>1. s.settled > 0 => r.settled > 0 \/ d > 0
    BY <1>1, <1>3
  <2>2. r.settled > 0 \/ active > 0 => r.max_in_flight = 1
    BY DEF Balanced
  <2>3. r.max_in_flight = 1 => s.max_in_flight = 1
    BY DEF CountsUp
  <2> QED
    BY <2>1, <2>2, <2>3
<1>9. s.admitted > 0 => s.coalesced < s.admitted
  <2> DEFINE x == r.admitted
             y == r.coalesced
             rest == r.settled + r.timeouts + r.rejected_settlements + active
  <2>1. x \in Nat /\ y \in Nat /\ rest \in Nat /\ x = y + rest + queued
        /\ (x > 0 => y < x)
    BY <1>1, <1>2 DEF Balanced
  <2>2. s.admitted = x + b /\ s.coalesced = y + e
    BY <1>3
  <2> HIDE DEF x, y, rest
  <2>3. x + b > 0 => y + e < x + b
    BY <2>1
  <2> QED
    BY <2>2, <2>3
<1> QED
  BY <1>4, <1>5, <1>6, <1>7, <1>8, <1>9 DEF Balanced

LEMMA CountedOne ==
  ASSUME NEW s, IsSeq(s), NEW e, NEW reasons
  PROVE  Counted(s \o <<e>>, reasons)
             = Counted(s, reasons) + IF e.reason \in reasons THEN 1 ELSE 0
<1> DEFINE one == <<e>>
           reason == e.reason
<1>1. Len(one) = 1
  BY OneIsSeq
<1>5. IsSeq(s) /\ IsSeq(one)
  BY OneIsSeq
<1>2. AllFor(one, reason)
  <2>1. \A i \in 1..Len(one) : one[i] = e
    BY OneIsSeq
  <2> QED
    BY <2>1 DEF AllFor
<1> HIDE DEF one, reason
<1>3. Counted(s \o one, reasons)
          = Counted(s, reasons) + (IF reason \in reasons THEN Len(one) ELSE 0)
  BY <1>5, <1>2, CountedJoin
<1>4. Counted(s \o one, reasons) = Counted(s, reasons) + IF reason \in reasons THEN 1 ELSE 0
  BY <1>1, <1>3
<1> QED
  BY <1>4 DEF one, reason

(* The records stay as they are.                                             *)
LEMMA RecordsBooked ==
  ASSUME NEW r, NEW s, Booked(r), NEW a, NEW b, NEW e, CountsUp(r, s, a, b, 0, 0, e, 0, 0),
         r.rejected \in Nat, r.settled \in Nat, r.timeouts \in Nat, r.rejected_settlements \in Nat,
         s.failures = r.failures, s.samples = r.samples,
         s.unresolved_updates = r.unresolved_updates
  PROVE  Booked(s)
<1>1. /\ s.rejected = r.rejected /\ s.settled = r.settled /\ s.timeouts = r.timeouts
      /\ s.whole = r.whole
      /\ s.rejected_settlements = r.rejected_settlements
  BY DEF CountsUp
<1> QED
  BY <1>1 DEF Booked

(* A failure for this reason counts as a refused offer (c), a time-out (g)   *)
(* or a refused settlement (h).                                              *)
CountsAs(reason, c, g, h) ==
    /\ reason \in {"enqueue_refused", "timed_out", "rejected_stale"}
    /\ c = IF reason = "enqueue_refused" THEN 1 ELSE 0
    /\ g = IF reason = "timed_out" THEN 1 ELSE 0
    /\ h = IF reason = "rejected_stale" THEN 1 ELSE 0

(* An offer refused, a settlement refused or a time-out is recorded.         *)
LEMMA FailureBooked ==
  ASSUME NEW r, NEW s, Booked(r), IsSeq(r.failures), NEW t, NEW a, NEW b, NEW c, NEW e, NEW g, NEW h,
         CountsUp(r, s, a, b, c, 0, e, g, h), CountsAs(t.reason, c, g, h),
         r.rejected \in Nat, r.settled \in Nat, r.timeouts \in Nat, r.rejected_settlements \in Nat,
         s.failures = r.failures \o <<t>>, s.samples = r.samples,
         s.unresolved_updates = r.unresolved_updates
  PROVE  Booked(s)
<1> DEFINE f == r.failures
           x == s.failures
<1>1. /\ s.rejected = r.rejected + c /\ s.settled = r.settled /\ s.timeouts = r.timeouts + g
      /\ s.whole = r.whole
      /\ s.rejected_settlements = r.rejected_settlements + h
  BY DEF CountsUp
<1>2. IsSeq(f) /\ IsSeq(<<t>>) /\ Len(<<t>>) = 1 /\ <<t>>[1] = t /\ x = f \o <<t>>
  BY OneIsSeq
<1>4. Len(x) = Len(f) + 1 /\ Len(f) \in Nat
  BY <1>2, SeqsJoin DEF IsSeq
<1> HIDE DEF f, x
<1>5. \A reasons : /\ Counted(x, reasons) = Counted(f, reasons)
                                               + IF t.reason \in reasons THEN 1 ELSE 0
                   /\ Counted(f, reasons) \in Nat
  <2> TAKE reasons
  <2>1. Counted(f \o <<t>>, reasons)
          = Counted(f, reasons) + IF t.reason \in reasons THEN 1 ELSE 0
    BY <1>2, CountedOne
  <2>2. Counted(f, reasons) \in Nat
    BY <1>2, CountedIsNat
  <2> QED
    BY <1>2, <2>1, <2>2
<1>6. /\ Len(f) = r.rejected + r.timeouts + r.rejected_settlements
      /\ Counted(f, {"enqueue_refused"}) = r.rejected
      /\ Counted(f, {"timed_out"}) = r.timeouts
      /\ Counted(f, {"rejected_stale", "rejected_invalid"}) = r.rejected_settlements
      /\ Counted(f, {"disconnected"}) = 0
      /\ Counted(f, {"measurement_deadline"}) = 0
      /\ r.unresolved_updates = <<>> /\ Len(r.samples) = r.settled /\ r.whole = FALSE
  BY DEF Booked, f
<1>7. c \in Nat /\ g \in Nat /\ h \in Nat /\ c + g + h = 1
  BY DEF CountsAs
<1>8. Len(x) = s.rejected + s.timeouts + s.rejected_settlements
  <2> DEFINE p == r.rejected
             q == r.timeouts
             w == r.rejected_settlements
  <2>1. p \in Nat /\ q \in Nat /\ w \in Nat /\ Len(x) = p + q + w + 1
    BY <1>4, <1>6
  <2>2. s.rejected = p + c /\ s.timeouts = q + g /\ s.rejected_settlements = w + h
    BY <1>1
  <2> HIDE DEF p, q, w
  <2>3. p + q + w + 1 = (p + c) + (q + g) + (w + h)
    BY <1>7, <2>1
  <2> QED
    BY <2>1, <2>2, <2>3
<1>9. /\ Counted(x, {"enqueue_refused"}) = s.rejected
      /\ Counted(x, {"timed_out"}) = s.timeouts
      /\ Counted(x, {"rejected_stale", "rejected_invalid"}) = s.rejected_settlements
      /\ Counted(x, {"disconnected"}) = 0
      /\ Counted(x, {"measurement_deadline"}) = 0
  <2>1. /\ Counted(x, {"enqueue_refused"}) = r.rejected + c
        /\ Counted(x, {"timed_out"}) = r.timeouts + g
    BY <1>5, <1>6 DEF CountsAs
  <2>2. Counted(x, {"rejected_stale", "rejected_invalid"}) = r.rejected_settlements + h
    BY <1>5, <1>6 DEF CountsAs
  <2>3. Counted(x, {"disconnected"}) = 0 /\ Counted(x, {"measurement_deadline"}) = 0
    BY <1>5, <1>6 DEF CountsAs
  <2> QED
    BY <1>1, <2>1, <2>2, <2>3
<1> QED
  BY <1>1, <1>6, <1>8, <1>9 DEF Booked, x

(* A committed settlement is a sample.                                       *)
LEMMA SampleBooked ==
  ASSUME NEW r, NEW s, Booked(r), IsSeq(r.samples), NEW t, CountsUp(r, s, 0, 0, 0, 1, 0, 0, 0),
         r.rejected \in Nat, r.settled \in Nat, r.timeouts \in Nat, r.rejected_settlements \in Nat,
         s.failures = r.failures, s.samples = r.samples \o <<t>>,
         s.unresolved_updates = r.unresolved_updates
  PROVE  Booked(s)
<1>1. /\ s.rejected = r.rejected /\ s.settled = r.settled + 1 /\ s.timeouts = r.timeouts
      /\ s.whole = r.whole
      /\ s.rejected_settlements = r.rejected_settlements
  BY DEF CountsUp
<1>2. Len(s.samples) = Len(r.samples) + 1
  BY OneIsSeq, SeqsJoin
<1> QED
  BY <1>1, <1>2 DEF Booked

-----------------------------------------------------------------------------
(* The identities that are given out.                                        *)

LEMMA DispatchNumbered ==
  ASSUME NEW s, NEW requests, NEW transactions, Numbered(s, <<>>, requests, transactions),
         NEW t, t.request_id = requests + 1, \A i \in 1..Len(s) : s[i].request_id \in Nat
  PROVE  Numbered(s, <<t>>, requests + 1, transactions)
<1>1. \A j \in 1..Len(<<t>>) : <<t>>[j] = t
  BY OneIsSeq
<1>2. /\ requests \in Nat /\ transactions \in Nat
      /\ \A i \in 1..Len(s) : s[i].request_id <= requests /\ s[i].transaction <= transactions
  BY DEF Numbered
<1>3. \A i \in 1..Len(s) : s[i].request_id <= requests + 1 /\ s[i].request_id < requests + 1
  BY <1>2
<1>4. t.request_id \in 1..requests + 1 /\ requests + 1 \in Nat
  BY <1>2
<1> QED
  BY <1>1, <1>2, <1>3, <1>4 DEF Numbered

LEMMA CommitNumbered ==
  ASSUME NEW s, NEW a, NEW requests, NEW transactions, Numbered(s, a, requests, transactions),
         IsSeq(s), 1 \in 1..Len(a), NEW t, t.request_id = a[1].request_id,
         t.transaction = transactions + 1, \A i \in 1..Len(s) : s[i].transaction \in Nat
  PROVE  Numbered(s \o <<t>>, <<>>, requests, transactions + 1) /\ Latest(t, s)
<1> DEFINE u == s \o <<t>>
<1>1. /\ requests \in Nat /\ transactions \in Nat
      /\ \A i \in 1..Len(s) : s[i].request_id <= requests /\ s[i].transaction <= transactions
      /\ t.request_id \in 1..requests
      /\ \A i \in 1..Len(s) : s[i].request_id < t.request_id
  BY DEF Numbered
<1>2. \A i \in 1..Len(s) : s[i].transaction < t.transaction
                           /\ s[i].transaction <= transactions + 1
  BY <1>1
<1>3. ASSUME NEW i \in 1..Len(u)
      PROVE  (\E k \in 1..Len(s) : u[i] = s[k]) \/ u[i] = t
  <2>1. \/ \E k \in 1..Len(s) : u[i] = s[k]
        \/ \E k \in 1..Len(<<t>>) : u[i] = <<t>>[k]
    <3>1. IsSeq(<<t>>)
      BY OneIsSeq
    <3> QED
      BY <3>1, JoinedFrom
  <2>2. \A k \in 1..Len(<<t>>) : <<t>>[k] = t
    BY OneIsSeq
  <2> QED
    BY <2>1, <2>2
<1> HIDE DEF u
<1>4. \A i \in 1..Len(u) : u[i].request_id <= requests /\ u[i].transaction <= transactions + 1
  <2>1. t.request_id <= requests /\ t.transaction <= transactions + 1
    BY <1>1
  <2> QED
    BY <1>1, <1>2, <1>3, <2>1
<1>5. Numbered(u, <<>>, requests, transactions + 1)
  BY <1>1, <1>4, NoneIsSeq DEF Numbered
<1>6. Latest(t, s)
  BY <1>1, <1>2 DEF Latest
<1> QED
  BY <1>5, <1>6 DEF u

LEMMA FailureNumbered ==
  ASSUME NEW s, NEW a, NEW requests, NEW transactions, Numbered(s, a, requests, transactions),
         \A i \in 1..Len(s) : s[i].transaction \in Nat
  PROVE  Numbered(s, <<>>, requests, transactions + 1)
BY NoneIsSeq DEF Numbered

-----------------------------------------------------------------------------
(* Each operation of the fixture keeps the accounts.                         *)

(* The ticket of an offer that is due.                                       *)
LEMMA TicketIsDue ==
  ASSUME Accounts(drag), OfferDue
  PROVE  /\ Due(Ticket, drag.run.rate_hz, drag.run.offered, drag.clock)
         /\ drag.run.offered + 1 <= drag.run.requested_updates
<1> DEFINE rate == drag.run.rate_hz
           n == drag.run.offered
           clock == drag.clock
<1>1. n \in Nat /\ clock \in Int /\ rate \in RangeOf(Rates)
      /\ drag.run.requested_updates \in 1..MaxUpdates
  BY DEF Accounts, Balanced, Asked
<1>2. Interval[rate] \in Nat
  BY <1>1, ConditionAssumption DEF RangeOf
<1>3. ScheduledAt(rate, n + 1) \in Int
  <2>1. ScheduledAt(rate, n + 1) = n * Interval[rate]
    BY <1>1, <1>2 DEF ScheduledAt
  <2> QED
    BY <1>1, <1>2, <2>1
<1>4. ScheduledAt(rate, n + 1) <= clock
  BY <1>1, <1>3 DEF OfferDue
<1>5. Ticket = [offered_sequence |-> n + 1, request_id |-> 0, transaction |-> 0,
                scheduled_ns |-> ScheduledAt(rate, n + 1),
                enqueued_ns |-> clock, ended_ns |-> 0, reason |-> "none"]
  BY DEF Ticket
<1>6. n + 1 <= drag.run.requested_updates
  <2>1. n < drag.run.requested_updates
    BY DEF OfferDue
  <2> QED
    BY <1>1, <2>1
<1> HIDE DEF rate, n, clock
<1>7. Due(Ticket, rate, n, clock)
  BY <1>1, <1>3, <1>4, <1>5 DEF Due, TicketType, Reasons
<1> QED
  BY <1>6, <1>7 DEF rate, n, clock

(* Of coherent accounts.                                                     *)
LEMMA AccountsType ==
  ASSUME NEW d, Accounts(d)
  PROVE  /\ IsSeq(d.run.failures) /\ IsSeq(d.run.samples) /\ IsSeq(d.active) /\ IsSeq(d.queued)
         /\ Len(d.active) \in Nat /\ Len(d.queued) \in Nat
         /\ Len(d.active) <= 1 /\ Len(d.queued) <= 1
         /\ d.run.offered \in Nat /\ d.run.rejected \in Nat /\ d.run.settled \in Nat
         /\ d.run.timeouts \in Nat /\ d.run.rejected_settlements \in Nat
         /\ d.clock \in Int
         /\ \A i \in 1..Len(d.run.samples) : /\ d.run.samples[i].request_id \in Nat
                                             /\ d.run.samples[i].transaction \in Nat
         /\ d.active # <<>> => 1 \in 1..Len(d.active) /\ Len(d.active) = 1
         /\ d.queued # <<>> => 1 \in 1..Len(d.queued) /\ Len(d.queued) = 1
<1>1. /\ Ticketed(d.run.failures, d.run.rate_hz, d.run.offered, d.clock)
      /\ Ticketed(d.run.samples, d.run.rate_hz, d.run.offered, d.clock)
      /\ Ticketed(d.active, d.run.rate_hz, d.run.offered, d.clock)
      /\ Ticketed(d.queued, d.run.rate_hz, d.run.offered, d.clock)
      /\ Len(d.active) <= 1 /\ Len(d.queued) <= 1
  BY DEF Accounts, Custody, Held
<1>2. /\ IsSeq(d.run.failures) /\ IsSeq(d.run.samples) /\ IsSeq(d.active) /\ IsSeq(d.queued)
      /\ Len(d.active) \in Nat /\ Len(d.queued) \in Nat
  BY <1>1, TicketedIsSeq
<1>3. \A i \in 1..Len(d.run.samples) : /\ d.run.samples[i].request_id \in Nat
                                       /\ d.run.samples[i].transaction \in Nat
  BY <1>1 DEF Ticketed, TicketType
<1>4. /\ d.run.offered \in Nat /\ d.run.rejected \in Nat /\ d.run.settled \in Nat
      /\ d.run.timeouts \in Nat /\ d.run.rejected_settlements \in Nat
      /\ d.clock \in Int
  BY DEF Accounts, Balanced
<1>5. /\ d.active # <<>> => 1 \in 1..Len(d.active) /\ Len(d.active) = 1
      /\ d.queued # <<>> => 1 \in 1..Len(d.queued) /\ Len(d.queued) = 1
  BY <1>1, OneInCustody
<1> QED
  BY <1>1, <1>2, <1>3, <1>4, <1>5

(* The parts of the fixture that most operations leave alone.                *)
SameRecords(r, s) ==
    /\ RunFields \subseteq DOMAIN s
    /\ s.failures = r.failures /\ s.samples = r.samples
    /\ s.unresolved_updates = r.unresolved_updates

LEMMA OfferAccounts ==
  ASSUME Accounts(drag), OfferDue, NEW e, NEW c, c = Len(drag.queued),
         DragFields \subseteq DOMAIN e, SameRecords(drag.run, e.run),
         CountsUp(drag.run, e.run, 1, 1, 0, 0, c, 0, 0),
         e.queued = <<Ticket>>, e.active = drag.active, e.clock = drag.clock,
         e.requests = drag.requests, e.transactions = drag.transactions
  PROVE  Accounts(e)
<1> DEFINE r == drag.run
           s == e.run
           a == Len(drag.active)
<1>1. /\ Asked(r) /\ Balanced(r, a, c) /\ Booked(r) /\ Custody(drag) /\ Identified(drag)
  BY DEF Accounts
<1>2. a \in Nat /\ c \in Nat /\ r.offered \in Nat /\ r.rejected \in Nat /\ r.settled \in Nat
      /\ r.timeouts \in Nat /\ r.rejected_settlements \in Nat
  BY AccountsType
<1>3. /\ Due(Ticket, r.rate_hz, r.offered, drag.clock)
      /\ r.offered + 1 <= r.requested_updates
  BY TicketIsDue
<1>4. /\ s.offered = r.offered + 1 /\ s.rate_hz = r.rate_hz
      /\ s.requested_updates = r.requested_updates
      /\ s.failures = r.failures /\ s.samples = r.samples
      /\ s.unresolved_updates = r.unresolved_updates
  BY DEF CountsUp, SameRecords
<1>5. CountsUp(r, s, 1, 1, 0, 0, c, 0, 0)
  OBVIOUS
<1> HIDE DEF r, s, a
<1>6. Asked(s)
  BY <1>1, <1>4 DEF Asked
<1>7. Balanced(s, a, 1)
  <2>1. 1 + a + c = 0 + c + 0 + 0 + a + 1
    <3>1. \A x, y \in Nat : 1 + x + y = 0 + y + 0 + 0 + x + 1
      OBVIOUS
    <3> QED
      BY <1>2, <3>1, Zenon
  <2>2. 1 = 1 + 0 /\ (0 > 0 \/ a > 0 => a > 0)
    OBVIOUS
  <2>3. c <= 1 /\ c <= c
    BY <1>2, AccountsType
  <2> QED
    BY <1>1, <1>2, <1>3, <1>5, <2>1, <2>2, <2>3, Rebalanced
<1>8. Booked(s)
  BY <1>1, <1>2, <1>4, <1>5, RecordsBooked
<1>9. Custody(e)
  <2>1. Held(r.failures, r.samples, drag.active, drag.queued, r.rate_hz, r.offered, drag.clock)
    BY <1>1 DEF Custody, r
  <2>2. Held(r.failures, r.samples, drag.active, <<Ticket>>, r.rate_hz, r.offered + 1, drag.clock)
    BY <1>3, <2>1, OfferHeld
  <2> QED
    BY <1>4, <2>2 DEF Custody, s
<1>10. Identified(e)
  BY <1>1, <1>4 DEF Identified, r, s
<1>11. Len(e.active) = a /\ Len(e.queued) = 1
  BY OneIsSeq DEF a
<1>12. e.clock \in Int
  BY AccountsType
<1> QED
  BY <1>6, <1>7, <1>8, <1>9, <1>10, <1>11, <1>12 DEF Accounts, SameRecords, s

LEMMA RefusalAccounts ==
  ASSUME Accounts(drag), OfferDue, NEW e, NEW t, t = Failure(Ticket, "enqueue_refused"),
         DragFields \subseteq DOMAIN e, RunFields \subseteq DOMAIN e.run,
         CountsUp(drag.run, e.run, 1, 0, 1, 0, 0, 0, 0),
         e.run.failures = drag.run.failures \o <<t>>, e.run.samples = drag.run.samples,
         e.run.unresolved_updates = drag.run.unresolved_updates,
         e.queued = drag.queued, e.active = drag.active, e.clock = drag.clock,
         e.requests = drag.requests, e.transactions = drag.transactions
  PROVE  Accounts(e)
<1> DEFINE r == drag.run
           s == e.run
           a == Len(drag.active)
           q == Len(drag.queued)
<1>1. /\ Asked(r) /\ Balanced(r, a, q) /\ Booked(r) /\ Custody(drag) /\ Identified(drag)
  BY DEF Accounts
<1>2. a \in Nat /\ q \in Nat /\ r.offered \in Nat /\ r.rejected \in Nat /\ r.settled \in Nat
      /\ r.timeouts \in Nat /\ r.rejected_settlements \in Nat /\ IsSeq(r.failures)
  BY AccountsType
<1>3. /\ Due(t, r.rate_hz, r.offered, drag.clock) /\ t.ended_ns = drag.clock
      /\ t.reason = "enqueue_refused"
      /\ r.offered + 1 <= r.requested_updates
  <2>1. /\ Due(Ticket, r.rate_hz, r.offered, drag.clock)
        /\ r.offered + 1 <= r.requested_updates /\ drag.clock \in Int
    BY TicketIsDue, AccountsType
  <2>2. t = [[Ticket EXCEPT !.ended_ns = drag.clock] EXCEPT !.reason = "enqueue_refused"]
    BY DEF Failure, Ended
  <2> HIDE DEF r
  <2> QED
    BY <2>1, <2>2 DEF Due, TicketType, Reasons
<1>4. /\ s.offered = r.offered + 1 /\ s.rate_hz = r.rate_hz
      /\ s.requested_updates = r.requested_updates
      /\ s.failures = r.failures \o <<t>> /\ s.samples = r.samples
      /\ s.unresolved_updates = r.unresolved_updates
  BY DEF CountsUp
<1>5. CountsUp(r, s, 1, 0, 1, 0, 0, 0, 0)
  OBVIOUS
<1> HIDE DEF r, s, a, q
<1>6. Asked(s)
  BY <1>1, <1>4 DEF Asked
<1>7. Balanced(s, a, q)
  <2>1. 0 + a + q = 0 + 0 + 0 + 0 + a + q
    BY <1>2
  <2>2. 1 = 0 + 1 /\ (0 > 0 \/ a > 0 => a > 0)
    OBVIOUS
  <2>3. 0 <= 0 /\ 0 <= q
    BY <1>2
  <2> QED
    BY <1>1, <1>2, <1>3, <1>5, <2>1, <2>2, <2>3, Rebalanced
<1>8. Booked(s)
  <2>1. CountsAs(t.reason, 1, 0, 0)
    BY <1>3 DEF CountsAs
  <2> QED
    BY <1>1, <1>2, <1>4, <1>5, <2>1, FailureBooked
<1>9. Custody(e)
  <2>1. Held(r.failures, r.samples, drag.active, drag.queued, r.rate_hz, r.offered, drag.clock)
    BY <1>1 DEF Custody, r
  <2>2. Held(r.failures \o <<t>>, r.samples, drag.active, drag.queued, r.rate_hz,
             r.offered + 1, drag.clock)
    BY <1>3, <2>1, RefusalHeld
  <2> QED
    BY <1>4, <2>2 DEF Custody, s
<1>10. Identified(e)
  BY <1>1, <1>4 DEF Identified, r, s
<1>11. Len(e.active) = a /\ Len(e.queued) = q
  BY DEF a, q
<1>12. e.clock \in Int
  BY AccountsType
<1> QED
  BY <1>6, <1>7, <1>8, <1>9, <1>10, <1>11, <1>12 DEF Accounts, s

LEMMA DispatchAccounts ==
  ASSUME Accounts(drag), drag.active = <<>>, drag.queued # <<>>, NEW e, NEW t,
         t = [drag.queued[1] EXCEPT !.request_id = drag.requests + 1],
         DragFields \subseteq DOMAIN e, SameRecords(drag.run, e.run),
         CountsUp(drag.run, e.run, 0, 0, 0, 0, 0, 0, 0), e.run.max_in_flight = 1,
         e.queued = <<>>, e.active = <<t>>, e.clock = drag.clock,
         e.requests = drag.requests + 1, e.transactions = drag.transactions
  PROVE  Accounts(e)
<1> DEFINE r == drag.run
           s == e.run
           held == drag.queued[1]
<1>1. /\ Asked(r) /\ Balanced(r, 0, 1) /\ Booked(r) /\ Custody(drag) /\ Identified(drag)
  <2>1. Len(drag.active) = 0 /\ Len(drag.queued) = 1
    BY AccountsType, NoneIsSeq
  <2> QED
    BY <2>1 DEF Accounts
<1>2. /\ r.offered \in Nat /\ r.rejected \in Nat /\ r.settled \in Nat
      /\ r.timeouts \in Nat /\ r.rejected_settlements \in Nat
      /\ r.offered + 0 <= r.requested_updates
      /\ \A i \in 1..Len(r.samples) : r.samples[i].request_id \in Nat
  <2>1. r.offered + 0 <= r.requested_updates
    BY <1>1 DEF Balanced
  <2> QED
    BY <2>1, AccountsType
<1>3. held \in TicketType /\ drag.requests \in Nat
  <2>1. 1 \in 1..Len(drag.queued)
    BY AccountsType
  <2> QED
    BY <1>1, <2>1 DEF Custody, Held, Ticketed, Identified, Numbered
<1>4. Same(t, held) /\ t.request_id = drag.requests + 1
  <2>1. t = [held EXCEPT !.request_id = drag.requests + 1]
    OBVIOUS
  <2> HIDE DEF held
  <2>2. drag.requests + 1 \in Nat
    BY <1>3
  <2> QED
    BY <1>3, <2>1, <2>2 DEF Same, TicketType
<1>5. /\ s.offered = r.offered /\ s.rate_hz = r.rate_hz
      /\ s.requested_updates = r.requested_updates
      /\ s.failures = r.failures /\ s.samples = r.samples
      /\ s.unresolved_updates = r.unresolved_updates
  BY <1>2 DEF CountsUp, SameRecords
<1>6. CountsUp(r, s, 0, 0, 0, 0, 0, 0, 0) /\ s.max_in_flight = 1
  OBVIOUS
<1> HIDE DEF r, s, held
<1>7. Asked(s)
  BY <1>1, <1>5 DEF Asked
<1>8. Balanced(s, 1, 0)
  <2>1. \E a, q, a2, q2, o \in Nat : /\ a = 0 /\ q = 1 /\ a2 = 1 /\ q2 = 0 /\ o = 0
    OBVIOUS
  <2>2. PICK a \in Nat, q \in Nat, a2 \in Nat, q2 \in Nat, o \in Nat :
           a = 0 /\ q = 1 /\ a2 = 1 /\ q2 = 0 /\ o = 0
    BY <2>1
  <2>3. Balanced(r, a, q) /\ CountsUp(r, s, o, o, o, o, o, o, o) /\ r.offered + o <= r.requested_updates
    BY <1>1, <1>2, <1>6, <2>2
  <2>4. o = o + o /\ o + a + q = o + o + o + o + a2 + q2
        /\ (o > 0 \/ a2 > 0 => a > 0 \/ s.max_in_flight = 1) /\ o <= o /\ o <= q
    BY <1>6, <2>2
  <2>5. Balanced(s, a2, q2)
    BY <2>3, <2>4, Rebalanced
  <2> QED
    BY <2>2, <2>5
<1>9. Booked(s)
  BY <1>1, <1>2, <1>5, <1>6, RecordsBooked
<1>10. Custody(e)
  <2>1. Held(r.failures, r.samples, <<>>, drag.queued, r.rate_hz, r.offered, drag.clock)
    BY <1>1 DEF Custody, r
  <2>2. Held(r.failures, r.samples, <<t>>, <<>>, r.rate_hz, r.offered, drag.clock)
    BY <1>4, <2>1, DispatchHeld DEF held
  <2> QED
    BY <1>5, <2>2 DEF Custody, s
<1>11. Identified(e)
  <2>1. Numbered(r.samples, <<>>, drag.requests, drag.transactions)
    BY <1>1 DEF Identified, r
  <2>2. Numbered(r.samples, <<t>>, drag.requests + 1, drag.transactions)
    BY <1>2, <1>4, <2>1, DispatchNumbered
  <2> QED
    BY <1>5, <2>2 DEF Identified, s
<1>12. Len(e.active) = 1 /\ Len(e.queued) = 0
  BY OneIsSeq, NoneIsSeq
<1>13. e.clock \in Int
  BY AccountsType
<1> QED
  BY <1>7, <1>8, <1>9, <1>10, <1>11, <1>12, <1>13 DEF Accounts, SameRecords, s

(* The ticket in flight, settled.                                            *)
LEMMA SettledIsSame ==
  ASSUME Accounts(drag), drag.active # <<>>, NEW reason \in Reasons
  PROVE  /\ Same(Ended(SettledTicket), drag.active[1])
         /\ Ended(SettledTicket).ended_ns = drag.clock
         /\ Ended(SettledTicket).request_id = drag.active[1].request_id
         /\ Ended(SettledTicket).transaction = drag.transactions + 1
         /\ Same(Failure(SettledTicket, reason), drag.active[1])
         /\ Failure(SettledTicket, reason).ended_ns = drag.clock
         /\ Failure(SettledTicket, reason).reason = reason
<1> DEFINE held == drag.active[1]
           transaction == drag.transactions + 1
           clock == drag.clock
           ended == Ended(SettledTicket)
           failed == Failure(SettledTicket, reason)
<1>1. held \in TicketType /\ transaction \in Nat /\ clock \in Int
  <2>1. 1 \in 1..Len(drag.active) /\ clock \in Int
    BY AccountsType
  <2>2. Ticketed(drag.active, drag.run.rate_hz, drag.run.offered, clock) /\ drag.transactions \in Nat
    BY DEF Accounts, Custody, Held, Identified, Numbered
  <2>3. held \in TicketType
    BY <2>1, <2>2 DEF Ticketed
  <2> QED
    BY <2>1, <2>2, <2>3
<1>2. /\ ended = [[held EXCEPT !.transaction = transaction] EXCEPT !.ended_ns = clock]
      /\ failed = [[[held EXCEPT !.transaction = transaction] EXCEPT !.ended_ns = clock]
                      EXCEPT !.reason = reason]
  BY DEF Ended, Failure, SettledTicket
<1> HIDE DEF held, transaction, clock, ended, failed
<1>3. /\ ended \in TicketType /\ ended.offered_sequence = held.offered_sequence
      /\ ended.scheduled_ns = held.scheduled_ns /\ ended.enqueued_ns = held.enqueued_ns
      /\ ended.ended_ns = clock /\ ended.request_id = held.request_id
      /\ ended.transaction = transaction
  BY <1>1, <1>2 DEF TicketType
<1>4. /\ failed \in TicketType /\ failed.offered_sequence = held.offered_sequence
      /\ failed.scheduled_ns = held.scheduled_ns /\ failed.enqueued_ns = held.enqueued_ns
      /\ failed.ended_ns = clock /\ failed.reason = reason
  BY <1>1, <1>2 DEF TicketType
<1> QED
  BY <1>3, <1>4 DEF Same, held, transaction, clock, ended, failed

LEMMA CommitAccounts ==
  ASSUME Accounts(drag), drag.active # <<>>, NEW e, NEW t, t = Ended(SettledTicket),
         DragFields \subseteq DOMAIN e, RunFields \subseteq DOMAIN e.run,
         CountsUp(drag.run, e.run, 0, 0, 0, 1, 0, 0, 0),
         e.run.failures = drag.run.failures, e.run.samples = drag.run.samples \o <<t>>,
         e.run.unresolved_updates = drag.run.unresolved_updates,
         e.queued = drag.queued, e.active = <<>>, e.clock = drag.clock,
         e.requests = drag.requests, e.transactions = drag.transactions + 1
  PROVE  Accounts(e)
<1> DEFINE r == drag.run
           s == e.run
           q == Len(drag.queued)
           held == drag.active[1]
<1>1. /\ Asked(r) /\ Balanced(r, 1, q) /\ Booked(r) /\ Custody(drag) /\ Identified(drag)
  <2>1. Len(drag.active) = 1
    BY AccountsType
  <2> QED
    BY <2>1 DEF Accounts
<1>2. /\ q \in Nat /\ r.offered \in Nat /\ r.rejected \in Nat /\ r.settled \in Nat
      /\ r.timeouts \in Nat /\ r.rejected_settlements \in Nat
      /\ r.offered + 0 <= r.requested_updates
      /\ IsSeq(r.samples) /\ \A i \in 1..Len(r.samples) : r.samples[i].transaction \in Nat
  <2>1. r.offered + 0 <= r.requested_updates
    BY <1>1 DEF Balanced
  <2> QED
    BY <2>1, AccountsType
<1>3. Same(t, held) /\ t.ended_ns = drag.clock /\ t.request_id = held.request_id
      /\ t.transaction = drag.transactions + 1
  <2>1. "none" \in Reasons
    BY DEF Reasons
  <2> QED
    BY <2>1, SettledIsSame
<1>4. /\ s.offered = r.offered /\ s.rate_hz = r.rate_hz
      /\ s.requested_updates = r.requested_updates
      /\ s.failures = r.failures /\ s.samples = r.samples \o <<t>>
      /\ s.unresolved_updates = r.unresolved_updates
  BY <1>2 DEF CountsUp
<1>5. CountsUp(r, s, 0, 0, 0, 1, 0, 0, 0)
  OBVIOUS
<1>6. 1 \in 1..Len(drag.active)
  BY AccountsType
<1> HIDE DEF r, s, q, held
<1>7. Asked(s)
  BY <1>1, <1>4 DEF Asked
<1>8. Balanced(s, 0, q)
  <2>2. PICK z \in Nat, o \in Nat : z = 0 /\ o = 1
    OBVIOUS
  <2>3. Balanced(r, o, q) /\ CountsUp(r, s, z, z, z, o, z, z, z) /\ r.offered + z <= r.requested_updates
    BY <1>1, <1>2, <1>5, <2>2
  <2>4. z = z + z /\ z + o + q = o + z + z + z + z + q /\ (o > 0 \/ z > 0 => o > 0)
        /\ z <= z /\ z <= q
    BY <1>2, <2>2
  <2>5. Balanced(s, z, q)
    BY <1>2, <2>3, <2>4, Rebalanced, ZenonT(60)
  <2> QED
    BY <2>2, <2>5
<1>9. Booked(s)
  BY <1>1, <1>2, <1>4, <1>5, SampleBooked
<1>10. /\ Numbered(r.samples \o <<t>>, <<>>, drag.requests, drag.transactions + 1)
       /\ Latest(t, r.samples)
  <2>1. Numbered(r.samples, drag.active, drag.requests, drag.transactions)
    BY <1>1 DEF Identified, r
  <2> QED
    <3>1. /\ t.request_id = drag.active[1].request_id /\ t.transaction = drag.transactions + 1
          /\ IsSeq(r.samples) /\ \A i \in 1..Len(r.samples) : r.samples[i].transaction \in Nat
      BY <1>2, <1>3 DEF held
    <3> QED
      BY <1>6, <2>1, <3>1, CommitNumbered
<1>11. Custody(e)
  <2>1. Held(r.failures, r.samples, drag.active, drag.queued, r.rate_hz, r.offered, drag.clock)
    BY <1>1 DEF Custody, r
  <2>2. Held(r.failures, r.samples \o <<t>>, <<>>, drag.queued, r.rate_hz, r.offered, drag.clock)
    BY <1>3, <1>10, <2>1, CommitHeld DEF held
  <2> QED
    BY <1>4, <2>2 DEF Custody, s
<1>12. Identified(e)
  BY <1>4, <1>10 DEF Identified, s
<1>13. Len(e.active) = 0 /\ Len(e.queued) = q
  BY NoneIsSeq DEF q
<1>14. e.clock \in Int
  BY AccountsType
<1> QED
  BY <1>7, <1>8, <1>9, <1>11, <1>12, <1>13, <1>14 DEF Accounts, s

LEMMA FailureAccounts ==
  ASSUME Accounts(drag), drag.active # <<>>, NEW e, NEW t,
         NEW reason \in {"timed_out", "rejected_stale"}, t = Failure(SettledTicket, reason),
         DragFields \subseteq DOMAIN e, RunFields \subseteq DOMAIN e.run,
         NEW g \in Nat, NEW h \in Nat, CountsAs(reason, 0, g, h),
         CountsUp(drag.run, e.run, 0, 0, 0, 0, 0, g, h),
         e.run.failures = drag.run.failures \o <<t>>, e.run.samples = drag.run.samples,
         e.run.unresolved_updates = drag.run.unresolved_updates,
         e.queued = drag.queued, e.active = <<>>, e.clock = drag.clock,
         e.requests = drag.requests, e.transactions = drag.transactions + 1
  PROVE  Accounts(e)
<1> DEFINE r == drag.run
           s == e.run
           q == Len(drag.queued)
           held == drag.active[1]
<1>1. /\ Asked(r) /\ Balanced(r, 1, q) /\ Booked(r) /\ Custody(drag) /\ Identified(drag)
  <2>1. Len(drag.active) = 1
    BY AccountsType
  <2> QED
    BY <2>1 DEF Accounts
<1>2. /\ q \in Nat /\ r.offered \in Nat /\ r.rejected \in Nat /\ r.settled \in Nat
      /\ r.timeouts \in Nat /\ r.rejected_settlements \in Nat
      /\ r.offered + 0 <= r.requested_updates /\ IsSeq(r.failures)
      /\ \A i \in 1..Len(r.samples) : r.samples[i].transaction \in Nat
  <2>1. r.offered + 0 <= r.requested_updates
    BY <1>1 DEF Balanced
  <2> QED
    BY <2>1, AccountsType
<1>3. Same(t, held) /\ t.ended_ns = drag.clock /\ t.reason = reason
  <2>1. reason \in Reasons
    BY DEF Reasons
  <2> QED
    BY <2>1, SettledIsSame
<1>4. /\ s.offered = r.offered /\ s.rate_hz = r.rate_hz
      /\ s.requested_updates = r.requested_updates
      /\ s.failures = r.failures \o <<t>> /\ s.samples = r.samples
      /\ s.unresolved_updates = r.unresolved_updates
  BY <1>2 DEF CountsUp
<1>5. CountsUp(r, s, 0, 0, 0, 0, 0, g, h) /\ CountsAs(t.reason, 0, g, h) /\ g + h = 1
  BY <1>3 DEF CountsAs
<1> HIDE DEF r, s, q, held
<1>7. Asked(s)
  BY <1>1, <1>4 DEF Asked
<1>8. Balanced(s, 0, q)
  <2>2. PICK z \in Nat, o \in Nat : z = 0 /\ o = 1
    OBVIOUS
  <2>3. Balanced(r, o, q) /\ CountsUp(r, s, z, z, z, z, z, g, h) /\ r.offered + z <= r.requested_updates
    BY <1>1, <1>2, <1>5, <2>2
  <2>4. z = z + z /\ z + o + q = z + z + g + h + z + q /\ (z > 0 \/ z > 0 => o > 0)
        /\ z <= z /\ z <= q
    BY <1>2, <1>5, <2>2
  <2>5. Balanced(s, z, q)
    BY <1>2, <2>3, <2>4, Rebalanced, ZenonT(60)
  <2> QED
    BY <2>2, <2>5
<1>9. Booked(s)
  BY <1>1, <1>2, <1>4, <1>5, FailureBooked
<1>10. Identified(e)
  <2>1. Numbered(r.samples, drag.active, drag.requests, drag.transactions)
    BY <1>1 DEF Identified, r
  <2>2. Numbered(r.samples, <<>>, drag.requests, drag.transactions + 1)
    BY <1>2, <2>1, FailureNumbered
  <2> QED
    BY <1>4, <2>2 DEF Identified, s
<1>11. Custody(e)
  <2>1. Held(r.failures, r.samples, drag.active, drag.queued, r.rate_hz, r.offered, drag.clock)
    BY <1>1 DEF Custody, r
  <2>2. Held(r.failures \o <<t>>, r.samples, <<>>, drag.queued, r.rate_hz, r.offered, drag.clock)
    BY <1>3, <2>1, FailureHeld DEF held
  <2> QED
    BY <1>4, <2>2 DEF Custody, s
<1>13. Len(e.active) = 0 /\ Len(e.queued) = q
  BY NoneIsSeq DEF q
<1>14. e.clock \in Int
  BY AccountsType
<1> QED
  BY <1>7, <1>8, <1>9, <1>10, <1>11, <1>13, <1>14 DEF Accounts, s

LEMMA ClockAccounts ==
  ASSUME Accounts(drag), NEW e, DragFields \subseteq DOMAIN e, e.run = drag.run,
         e.queued = drag.queued, e.active = drag.active,
         e.clock \in Int, drag.clock <= e.clock,
         e.requests = drag.requests, e.transactions = drag.transactions
  PROVE  Accounts(e)
<1> DEFINE r == drag.run
<1>1. Held(r.failures, r.samples, drag.active, drag.queued, r.rate_hz, r.offered, drag.clock)
  BY DEF Accounts, Custody
<1>2. Held(r.failures, r.samples, drag.active, drag.queued, r.rate_hz, r.offered, e.clock)
  BY <1>1, ClockHeld
<1> QED
  BY <1>2 DEF Accounts, Custody, Identified

(* The fixture starts with coherent accounts.                                *)
LEMMA NewAccounts ==
  ASSUME NEW work, work.rate \in RangeOf(Rates), work.updates \in 1..MaxUpdates
  PROVE  Accounts(NewDrag(work)) /\ Unbroken(NewDrag(work))
<1> DEFINE d == NewDrag(work)
           r == d.run
<1>1. r = NewRun(work) /\ d.clock = 0 /\ d.queued = <<>> /\ d.active = <<>>
      /\ d.requests = 0 /\ d.transactions = 0 /\ DragFields \subseteq DOMAIN d
  BY DEF NewDrag, DragFields
<1> HIDE DEF d, r
<1>2. /\ RunFields \subseteq DOMAIN r /\ r.rate_hz = work.rate /\ r.requested_updates = work.updates
      /\ r.offered = 0 /\ r.admitted = 0 /\ r.rejected = 0 /\ r.rejected_settlements = 0
      /\ r.unresolved = 0 /\ r.coalesced = 0 /\ r.settled = 0 /\ r.timeouts = 0
      /\ r.disconnects = 0 /\ r.max_in_flight = 0 /\ r.max_queue_depth = 0
      /\ r.samples = <<>> /\ r.failures = <<>> /\ r.unresolved_updates = <<>>
      /\ r.whole = FALSE
  BY <1>1 DEF NewRun, RunFields
<1>3. IsSeq(<<>>) /\ Len(<<>>) = 0
  BY NoneIsSeq
<1>4. Asked(r)
  BY <1>2 DEF Asked
<1>5. Balanced(r, 0, 0)
  BY <1>2 DEF Balanced
<1>6. Booked(r)
  <2>1. \A reasons : Counted(<<>>, reasons) = 0
    <3> TAKE reasons
    <3>1. {i \in DOMAIN <<>> : <<>>[i].reason \in reasons} = {}
      OBVIOUS
    <3> QED
      BY <3>1, FS_EmptySet DEF Counted
  <2> QED
    BY <1>2, <1>3, <2>1 DEF Booked
<1>7. Held(<<>>, <<>>, <<>>, <<>>, work.rate, 0, 0)
  <2>1. Ticketed(<<>>, work.rate, 0, 0)
    BY NoTicket
  <2>2. AllEnded(<<>>, 0) /\ Distinct(<<>>) /\ Rising(<<>>)
    BY <1>3 DEF AllEnded, Distinct, Rising
  <2> QED
    BY <1>3, <2>1, <2>2, NothingMeets DEF Held
<1>8. Numbered(<<>>, <<>>, 0, 0)
  BY <1>3 DEF Numbered
<1>9. Custody(d) /\ Identified(d)
  BY <1>1, <1>2, <1>7, <1>8 DEF Custody, Identified, r
<1>10. Len(d.active) = 0 /\ Len(d.queued) = 0
  BY <1>1, <1>3
<1>11. Accounts(d) /\ Unbroken(d)
  BY <1>1, <1>2, <1>4, <1>5, <1>6, <1>9, <1>10 DEF Accounts, Unbroken, r
<1> QED
  BY <1>11 DEF d

-----------------------------------------------------------------------------
(* The invariant of the fixture.                                             *)

(* A file that is whole is decoded exactly when no panic cut its accounts.   *)
Verdict(d) == d.file # <<>> /\ d.file[1].whole => (Decodes(d.file[1]) <=> ~d.interrupted)

(* An interrupted capture is one that failed.                                *)
Excused(run, interrupted) == interrupted => run.error

(* The accounts are coherent until the loop ends; then the file that is      *)
(* written of them is decoded, unless a panic cut them.                      *)
DragInv ==
    /\ drag.at \in {"absent", "setup", "measuring", "writing", "ending", "passed", "failed"}
    /\ drag.at # "absent" => DragFields \subseteq DOMAIN drag
    /\ drag.at \in {"setup", "measuring"} =>
           /\ Accounts(drag) /\ Unbroken(drag)
           /\ drag.interrupted = FALSE /\ drag.file = <<>>
    /\ drag.at = "writing" =>
           /\ RunFields \subseteq DOMAIN drag.run
           /\ drag.file = <<drag.run>> /\ drag.run.whole = FALSE
           /\ Decodes([drag.run EXCEPT !.whole = TRUE]) <=> ~drag.interrupted
           /\ Excused(drag.run, drag.interrupted)
    /\ drag.at \in {"absent", "ending", "passed", "failed"} => Verdict(drag)

-----------------------------------------------------------------------------
(* The end of the loop.                                                      *)

LEMMA FinishFields ==
  ASSUME NEW d, DragFields \subseteq DOMAIN d, RunFields \subseteq DOMAIN d.run,
         d.run.whole = FALSE, d.clock = drag.clock, NEW failed, NEW cut, Finish(d, failed, cut)
  PROVE  /\ drag'.at = "writing" /\ DragFields \subseteq DOMAIN drag'
         /\ RunFields \subseteq DOMAIN drag'.run
         /\ drag'.file = <<drag'.run>> /\ drag'.run.whole = FALSE
         /\ drag'.interrupted = d.interrupted
         /\ FileOf(drag'.run, d, failed, cut)
         /\ FileOf([drag'.run EXCEPT !.whole = TRUE], d, failed, cut)
         /\ [drag'.run EXCEPT !.whole = TRUE].whole = TRUE
<1> DEFINE run == Finished(d, failed, cut)
<1>1. FileOf(run, d, failed, cut) /\ RunFields \subseteq DOMAIN run /\ run.whole = FALSE
  BY FinishedFields
<1>2. drag' = [d EXCEPT !.at = "writing", !.run = run, !.file = <<run>>]
  BY DEF Finish
<1> HIDE DEF run
<1>3. /\ drag'.at = "writing" /\ DragFields \subseteq DOMAIN drag' /\ drag'.run = run
      /\ drag'.file = <<run>> /\ drag'.interrupted = d.interrupted
  BY <1>2 DEF DragFields
<1>4. LET file == [run EXCEPT !.whole = TRUE]
      IN  /\ file.whole = TRUE
          /\ \A field \in RunFields \ {"whole"} : file[field] = run[field]
  BY <1>1 DEF RunFields
<1> DEFINE file == [run EXCEPT !.whole = TRUE]
<1>5. file.whole = TRUE /\ \A field \in RunFields \ {"whole"} : file[field] = run[field]
  BY <1>4
<1> HIDE DEF file
<1>6. FileOf(file, d, failed, cut)
  <2>1. /\ file.wire = run.wire /\ file.kind = run.kind /\ file.rate_hz = run.rate_hz
        /\ file.requested_updates = run.requested_updates /\ file.offered = run.offered
        /\ file.admitted = run.admitted /\ file.rejected = run.rejected
        /\ file.settled = run.settled /\ file.coalesced = run.coalesced
        /\ file.timeouts = run.timeouts /\ file.samples = run.samples
    BY <1>5 DEF RunFields
  <2>2. /\ file.rejected_settlements = run.rejected_settlements
        /\ file.max_in_flight = run.max_in_flight
        /\ file.max_queue_depth = run.max_queue_depth /\ file.elapsed_ns = run.elapsed_ns
        /\ file.disconnects = run.disconnects /\ file.unresolved = run.unresolved
        /\ file.failures = run.failures /\ file.unresolved_updates = run.unresolved_updates
        /\ file.status = run.status /\ file.error = run.error
    BY <1>5 DEF RunFields
  <2> QED
    BY <1>1, <2>1, <2>2, Zenon DEF FileOf
<1> QED
  BY <1>1, <1>3, <1>5, <1>6 DEF file

(* The run that is written after this step, and nothing else is done.        *)
Writing(run, interrupted) ==
    /\ RunFields \subseteq DOMAIN run
    /\ run.whole = FALSE
    /\ Decodes([run EXCEPT !.whole = TRUE]) <=> ~interrupted
    /\ Excused(run, interrupted)

Written ==
    /\ drag'.at = "writing" /\ DragFields \subseteq DOMAIN drag'
    /\ drag'.file = <<drag'.run>> /\ Writing(drag'.run, drag'.interrupted)

LEMMA FinishDecodes ==
  ASSUME NEW d, Accounts(d), d.clock = drag.clock, d.interrupted = FALSE,
         NEW failed \in BOOLEAN, NEW cut \in {"none", "disconnected", "measurement_deadline"},
         Over(d, failed, cut), Finish(d, failed, cut)
  PROVE  Written
<1>1. DragFields \subseteq DOMAIN d /\ RunFields \subseteq DOMAIN d.run /\ d.run.whole = FALSE
  BY DEF Accounts, Booked
<1> DEFINE file == [drag'.run EXCEPT !.whole = TRUE]
<1>2. /\ drag'.at = "writing" /\ DragFields \subseteq DOMAIN drag'
      /\ RunFields \subseteq DOMAIN drag'.run
      /\ drag'.file = <<drag'.run>> /\ drag'.run.whole = FALSE
      /\ drag'.interrupted = FALSE
      /\ FileOf(file, d, failed, cut) /\ file.whole = TRUE
  BY <1>1, FinishFields
<1> HIDE DEF file
<1>3. Decodes(file)
  BY <1>2, FileDecodes
<1> QED
  BY <1>2, <1>3 DEF Written, Writing, Excused, file

(* A file whose counters do not add up is not decoded.                       *)
LEMMA BrokenFile ==
  ASSUME NEW d, DragFields \subseteq DOMAIN d, RunFields \subseteq DOMAIN d.run,
         d.run.whole = FALSE, d.clock = drag.clock, d.interrupted = TRUE,
         Finish(d, TRUE, "none"),
         NEW file, file = [drag'.run EXCEPT !.whole = TRUE],
         FileOf(file, d, TRUE, "none") => ~CountersCoherent(file)
  PROVE  Written
<1>1. /\ drag'.at = "writing" /\ DragFields \subseteq DOMAIN drag'
      /\ RunFields \subseteq DOMAIN drag'.run
      /\ drag'.file = <<drag'.run>> /\ drag'.run.whole = FALSE
      /\ drag'.interrupted = TRUE
      /\ FileOf(drag'.run, d, TRUE, "none")
      /\ FileOf(file, d, TRUE, "none")
  BY FinishFields
<1>2. ~Decodes(file)
  BY <1>1 DEF Decodes
<1>3. drag'.run.error = TRUE
  BY <1>1 DEF FileOf
<1> QED
  BY <1>1, <1>2, <1>3 DEF Written, Writing, Excused

-----------------------------------------------------------------------------
(* The steps of the fixture, one by one.                                     *)

(* The fixture is measuring, with coherent accounts.                         *)
Sound(d) ==
    /\ d.at \in {"setup", "measuring"} /\ DragFields \subseteq DOMAIN d
    /\ Accounts(d) /\ Unbroken(d) /\ d.interrupted = FALSE /\ d.file = <<>>

LEMMA OfferStep ==
  ASSUME Sound(drag), OfferAdmitted \/ OfferReplaces
  PROVE  Sound(drag')
<1> DEFINE c == Len(drag.queued)
           r == drag.run
<1>1. /\ DragFields \subseteq DOMAIN drag /\ RunFields \subseteq DOMAIN r /\ Accounts(drag)
      /\ Unbroken(drag) /\ drag.interrupted = FALSE /\ drag.file = <<>> /\ OfferDue
      /\ drag.at = "measuring"
  BY DEF Sound, Accounts, OfferAdmitted, OfferReplaces, Measuring
<1>2. /\ r.offered \in Nat /\ r.rejected \in Nat /\ r.settled \in Nat /\ r.coalesced \in Nat
      /\ r.timeouts \in Nat /\ r.rejected_settlements \in Nat /\ r.admitted \in Nat
      /\ r.disconnects = 0 /\ r.unresolved = 0
  BY <1>1 DEF Accounts, Balanced
<1> HIDE DEF r
<1>3. \E s : /\ drag' = [drag EXCEPT !.queued = <<Ticket>>, !.run = s]
             /\ CountsUp(r, s, 1, 1, 0, 0, c, 0, 0) /\ SameRecords(r, s)
  <2>1. CASE OfferAdmitted
    <3> DEFINE s == [[r EXCEPT !.offered = @ + 1, !.admitted = @ + 1]
                        EXCEPT !.max_queue_depth = 1]
    <3>1. c = 0
      BY <2>1, NoneIsSeq DEF OfferAdmitted
    <3>2. drag' = [drag EXCEPT !.queued = <<Ticket>>, !.run = s]
      BY <2>1 DEF OfferAdmitted, Queued, r
    <3>3. CountsUp(r, s, 1, 1, 0, 0, 0, 0, 0) /\ SameRecords(r, s)
      BY <1>1, <1>2 DEF CountsUp, SameRecords, RunFields
    <3> QED
      BY <3>1, <3>2, <3>3
  <2>2. CASE OfferReplaces
    <3> DEFINE s == [[r EXCEPT !.offered = @ + 1, !.admitted = @ + 1, !.coalesced = @ + 1]
                        EXCEPT !.max_queue_depth = 1]
    <3>1. c = 1
      BY <1>1, <2>2, AccountsType DEF OfferReplaces
    <3>2. drag' = [drag EXCEPT !.queued = <<Ticket>>, !.run = s]
      BY <2>2 DEF OfferReplaces, Queued, r
    <3>3. CountsUp(r, s, 1, 1, 0, 0, 1, 0, 0) /\ SameRecords(r, s)
      BY <1>1, <1>2 DEF CountsUp, SameRecords, RunFields
    <3> QED
      BY <3>1, <3>2, <3>3
  <2> QED
    BY <2>1, <2>2
<1>4. PICK s : /\ drag' = [drag EXCEPT !.queued = <<Ticket>>, !.run = s]
               /\ CountsUp(r, s, 1, 1, 0, 0, c, 0, 0) /\ SameRecords(r, s)
  BY <1>3
<1> HIDE DEF c
<1>5. /\ drag'.at = drag.at /\ DragFields \subseteq DOMAIN drag'
      /\ drag'.queued = <<Ticket>> /\ drag'.active = drag.active /\ drag'.clock = drag.clock
      /\ drag'.requests = drag.requests /\ drag'.transactions = drag.transactions
      /\ drag'.interrupted = drag.interrupted /\ drag'.file = drag.file /\ drag'.run = s
  BY <1>1, <1>4 DEF DragFields
<1>6. Accounts(drag')
  BY <1>1, <1>4, <1>5, OfferAccounts DEF c, r
<1>7. Unbroken(drag')
  <2>1. s.timeouts = r.timeouts + 0 /\ s.rejected_settlements = r.rejected_settlements + 0
    BY <1>4 DEF CountsUp
  <2> QED
    BY <1>1, <1>2, <1>5, <2>1 DEF Unbroken, r
<1> QED
  BY <1>1, <1>5, <1>6, <1>7 DEF Sound

LEMMA RefusalStep ==
  ASSUME Sound(drag), OfferRefused
  PROVE  Sound(drag') \/ Written
<1> DEFINE r == drag.run
           t == Failure(Ticket, "enqueue_refused")
           e == [drag EXCEPT
            !.run = [drag.run EXCEPT !.offered = @ + 1, !.rejected = @ + 1,
                              !.failures = Append(@, Failure(Ticket, "enqueue_refused"))]]
           s == [r EXCEPT !.offered = r.offered + 1, !.rejected = r.rejected + 1,
                          !.failures = Append(r.failures, t)]
<1>1. /\ DragFields \subseteq DOMAIN drag /\ RunFields \subseteq DOMAIN r /\ Accounts(drag)
      /\ Unbroken(drag) /\ drag.interrupted = FALSE /\ drag.file = <<>> /\ OfferDue
      /\ drag.at = "measuring"
  BY DEF Sound, Accounts, OfferRefused, Measuring
<1>2. /\ r.offered \in Nat /\ r.rejected \in Nat /\ r.settled \in Nat /\ r.coalesced \in Nat
      /\ r.timeouts \in Nat /\ r.rejected_settlements \in Nat /\ r.admitted \in Nat
  BY <1>1 DEF Accounts, Balanced
<1>3. drag' = e \/ Finish(e, TRUE, "none")
  BY DEF OfferRefused
<1>4. Append(r.failures, t) = r.failures \o <<t>>
  BY <1>1, AccountsType, AppendJoins
<1>6. /\ e.at = drag.at /\ DragFields \subseteq DOMAIN e
      /\ e.queued = drag.queued /\ e.active = drag.active /\ e.clock = drag.clock
      /\ e.requests = drag.requests /\ e.transactions = drag.transactions
      /\ e.interrupted = drag.interrupted /\ e.file = drag.file /\ e.run = s
  BY <1>1 DEF DragFields
<1> HIDE DEF e, r, t
<1>5. /\ CountsUp(r, s, 1, 0, 1, 0, 0, 0, 0) /\ RunFields \subseteq DOMAIN s
      /\ s.failures = r.failures \o <<t>> /\ s.samples = r.samples
      /\ s.unresolved_updates = r.unresolved_updates
      /\ s.timeouts = r.timeouts /\ s.rejected_settlements = r.rejected_settlements
  BY <1>1, <1>2, <1>4 DEF CountsUp, RunFields
<1> HIDE DEF s
<1>7. Accounts(e)
  BY <1>1, <1>5, <1>6, RefusalAccounts DEF r, t
<1>8. Unbroken(e)
  BY <1>1, <1>5, <1>6 DEF Unbroken, r
<1>9. CASE drag' = e
  BY <1>1, <1>6, <1>7, <1>8, <1>9 DEF Sound
<1>10. CASE Finish(e, TRUE, "none")
  BY <1>1, <1>6, <1>7, <1>10, FinishDecodes DEF Over
<1> QED
  BY <1>3, <1>9, <1>10

LEMMA PanicInOfferStep ==
  ASSUME Sound(drag), PanicInOffer
  PROVE  Written
<1> DEFINE r == drag.run
           e == [drag EXCEPT !.interrupted = TRUE,
                             !.run = [drag.run EXCEPT !.offered = @ + 1]]
           s == [r EXCEPT !.offered = r.offered + 1]
<1>1. /\ DragFields \subseteq DOMAIN drag /\ RunFields \subseteq DOMAIN r /\ Accounts(drag)
      /\ r.whole = FALSE
  BY DEF Sound, Accounts, Booked
<1>2. /\ r.offered \in Nat /\ r.rejected \in Nat /\ r.admitted \in Nat
      /\ r.offered = r.admitted + r.rejected
  BY <1>1 DEF Accounts, Balanced
<1>3. Finish(e, TRUE, "none")
  BY DEF PanicInOffer
<1>5. /\ DragFields \subseteq DOMAIN e /\ e.clock = drag.clock /\ e.interrupted = TRUE /\ e.run = s
  BY <1>1 DEF DragFields
<1> HIDE DEF e, r
<1>4. /\ RunFields \subseteq DOMAIN s /\ s.whole = FALSE
      /\ s.offered = r.offered + 1 /\ s.admitted = r.admitted /\ s.rejected = r.rejected
  BY <1>1 DEF RunFields
<1> HIDE DEF s
<1>6. ASSUME NEW file, FileOf(file, e, TRUE, "none") PROVE ~CountersCoherent(file)
  <2>1. file.offered = r.offered + 1 /\ file.admitted = r.admitted /\ file.rejected = r.rejected
    BY <1>4, <1>5, <1>6 DEF FileOf
  <2>2. file.admitted + file.rejected # file.offered
    BY <1>2, <2>1
  <2> QED
    BY <2>2 DEF CountersCoherent
<1> QED
  BY <1>3, <1>4, <1>5, <1>6, BrokenFile

LEMMA DispatchStep ==
  ASSUME Sound(drag), Dispatch
  PROVE  Sound(drag')
<1> DEFINE r == drag.run
           t == [drag.queued[1] EXCEPT !.request_id = drag.requests + 1]
           s == [r EXCEPT !.max_in_flight = 1]
<1>1. /\ DragFields \subseteq DOMAIN drag /\ RunFields \subseteq DOMAIN r /\ Accounts(drag)
      /\ Unbroken(drag) /\ drag.interrupted = FALSE /\ drag.file = <<>>
      /\ drag.at = "measuring" /\ drag.queued # <<>> /\ drag.active = <<>>
  BY DEF Sound, Accounts, Dispatch, Measuring
<1>2. /\ r.offered \in Nat /\ r.rejected \in Nat /\ r.settled \in Nat /\ r.coalesced \in Nat
      /\ r.timeouts \in Nat /\ r.rejected_settlements \in Nat /\ r.admitted \in Nat
  BY <1>1 DEF Accounts, Balanced
<1>3. drag' = [drag EXCEPT !.requests = @ + 1, !.queued = <<>>, !.active = <<t>>, !.run = s]
  BY DEF Dispatch
<1> HIDE DEF r, t
<1>4. /\ CountsUp(r, s, 0, 0, 0, 0, 0, 0, 0) /\ SameRecords(r, s) /\ s.max_in_flight = 1
      /\ s.timeouts = r.timeouts /\ s.rejected_settlements = r.rejected_settlements
  BY <1>1, <1>2 DEF CountsUp, SameRecords, RunFields
<1> HIDE DEF s
<1>5. /\ drag'.at = drag.at /\ DragFields \subseteq DOMAIN drag'
      /\ drag'.queued = <<>> /\ drag'.active = <<t>> /\ drag'.clock = drag.clock
      /\ drag'.requests = drag.requests + 1 /\ drag'.transactions = drag.transactions
      /\ drag'.interrupted = drag.interrupted /\ drag'.file = drag.file /\ drag'.run = s
  BY <1>1, <1>3 DEF DragFields
<1>6. Accounts(drag')
  BY <1>1, <1>4, <1>5, DispatchAccounts DEF r, t
<1>7. Unbroken(drag')
  BY <1>1, <1>4, <1>5 DEF Unbroken, r
<1> QED
  BY <1>1, <1>5, <1>6, <1>7 DEF Sound

LEMMA CommitStep ==
  ASSUME Sound(drag), SettleCommitted
  PROVE  Sound(drag')
<1> DEFINE r == drag.run
           t == Ended(SettledTicket)
           s == [r EXCEPT !.settled = r.settled + 1, !.samples = Append(r.samples, t)]
           e == [drag EXCEPT
            !.transactions = @ + 1, !.active = <<>>,
            !.run = [drag.run EXCEPT !.settled = @ + 1,
                              !.samples = Append(@, Ended(SettledTicket))]]
<1>1. /\ DragFields \subseteq DOMAIN drag /\ RunFields \subseteq DOMAIN r /\ Accounts(drag)
      /\ Unbroken(drag) /\ drag.interrupted = FALSE /\ drag.file = <<>>
      /\ drag.at = "measuring" /\ drag.active # <<>>
  BY DEF Sound, Accounts, SettleCommitted, Measuring
<1>2. /\ r.offered \in Nat /\ r.rejected \in Nat /\ r.settled \in Nat /\ r.coalesced \in Nat
      /\ r.timeouts \in Nat /\ r.rejected_settlements \in Nat /\ r.admitted \in Nat
  BY <1>1 DEF Accounts, Balanced
<1>3. drag' = e
  BY DEF SettleCommitted
<1>6. /\ e.at = drag.at /\ DragFields \subseteq DOMAIN e
      /\ e.queued = drag.queued /\ e.active = <<>> /\ e.clock = drag.clock
      /\ e.requests = drag.requests /\ e.transactions = drag.transactions + 1
      /\ e.interrupted = drag.interrupted /\ e.file = drag.file /\ e.run = s
  BY <1>1 DEF DragFields
<1> HIDE DEF e
<1>4. Append(r.samples, t) = r.samples \o <<t>>
  BY <1>1, AccountsType, AppendJoins
<1> HIDE DEF r, t
<1>5. /\ CountsUp(r, s, 0, 0, 0, 1, 0, 0, 0) /\ RunFields \subseteq DOMAIN s
      /\ s.failures = r.failures /\ s.samples = r.samples \o <<t>>
      /\ s.unresolved_updates = r.unresolved_updates
      /\ s.timeouts = r.timeouts /\ s.rejected_settlements = r.rejected_settlements
  BY <1>1, <1>2, <1>4 DEF CountsUp, RunFields
<1> HIDE DEF s
<1>7. Accounts(drag')
  BY <1>1, <1>3, <1>5, <1>6, CommitAccounts DEF r, t
<1>8. Unbroken(drag')
  BY <1>1, <1>3, <1>5, <1>6 DEF Unbroken, r
<1> QED
  BY <1>1, <1>3, <1>6, <1>7, <1>8 DEF Sound

LEMMA FailureStep ==
  ASSUME Sound(drag), SettleRefused
  PROVE  Written
<1>1. PICK reason \in {"timed_out", "rejected_stale"} :
         Finish([drag EXCEPT
            !.transactions = @ + 1, !.active = <<>>,
            !.run = [drag.run EXCEPT
                !.timeouts = @ + IF reason = "timed_out" THEN 1 ELSE 0,
                !.rejected_settlements = @ + IF reason = "timed_out" THEN 0 ELSE 1,
                !.failures = Append(@, Failure(SettledTicket, reason))]], TRUE, "none")
  BY DEF SettleRefused
<1> DEFINE r == drag.run
           t == Failure(SettledTicket, reason)
           g == IF reason = "timed_out" THEN 1 ELSE 0
           h == IF reason = "timed_out" THEN 0 ELSE 1
           s == [r EXCEPT !.timeouts = r.timeouts + g,
                          !.rejected_settlements = r.rejected_settlements + h,
                          !.failures = Append(r.failures, t)]
           e == [drag EXCEPT
            !.transactions = @ + 1, !.active = <<>>,
            !.run = [drag.run EXCEPT
                !.timeouts = @ + IF reason = "timed_out" THEN 1 ELSE 0,
                !.rejected_settlements = @ + IF reason = "timed_out" THEN 0 ELSE 1,
                !.failures = Append(@, Failure(SettledTicket, reason))]]
<1>2. /\ DragFields \subseteq DOMAIN drag /\ RunFields \subseteq DOMAIN r /\ Accounts(drag)
      /\ drag.interrupted = FALSE /\ drag.active # <<>>
  BY DEF Sound, Accounts, SettleRefused
<1>3. /\ r.offered \in Nat /\ r.rejected \in Nat /\ r.settled \in Nat /\ r.coalesced \in Nat
      /\ r.timeouts \in Nat /\ r.rejected_settlements \in Nat /\ r.admitted \in Nat
  BY <1>2 DEF Accounts, Balanced
<1>4. Finish(e, TRUE, "none")
  BY <1>1
<1>8. /\ DragFields \subseteq DOMAIN e
      /\ e.queued = drag.queued /\ e.active = <<>> /\ e.clock = drag.clock
      /\ e.requests = drag.requests /\ e.transactions = drag.transactions + 1
      /\ e.interrupted = drag.interrupted /\ e.run = s
  BY <1>2 DEF DragFields
<1> HIDE DEF e
<1>5. Append(r.failures, t) = r.failures \o <<t>>
  BY <1>2, AccountsType, AppendJoins
<1>6. g \in Nat /\ h \in Nat /\ CountsAs(reason, 0, g, h)
  BY DEF CountsAs
<1> HIDE DEF r, t, g, h
<1>7. /\ CountsUp(r, s, 0, 0, 0, 0, 0, g, h) /\ RunFields \subseteq DOMAIN s
      /\ s.failures = r.failures \o <<t>> /\ s.samples = r.samples
      /\ s.unresolved_updates = r.unresolved_updates
  BY <1>2, <1>3, <1>5 DEF CountsUp, RunFields
<1> HIDE DEF s
<1>9. Accounts(e)
  BY <1>2, <1>6, <1>7, <1>8, FailureAccounts DEF r, t
<1> QED
  BY <1>2, <1>4, <1>8, <1>9, FinishDecodes DEF Over

LEMMA PanicInSampleStep ==
  ASSUME Sound(drag), PanicInSample
  PROVE  Written
<1> DEFINE r == drag.run
           q == Len(drag.queued)
           e == [drag EXCEPT !.interrupted = TRUE, !.active = <<>>]
<1>1. /\ DragFields \subseteq DOMAIN drag /\ RunFields \subseteq DOMAIN r /\ Accounts(drag)
      /\ r.whole = FALSE /\ drag.active # <<>>
  BY DEF Sound, Accounts, Booked, PanicInSample
<1>2. /\ r.settled \in Nat /\ r.coalesced \in Nat /\ r.timeouts \in Nat
      /\ r.rejected_settlements \in Nat /\ r.disconnects = 0 /\ r.unresolved = 0
      /\ r.admitted = r.settled + r.coalesced + r.timeouts + r.rejected_settlements + 1 + q
      /\ q \in Nat /\ IsSeq(drag.queued)
  <2>1. Len(drag.active) = 1 /\ q \in Nat /\ IsSeq(drag.queued)
    BY <1>1, AccountsType
  <2>2. Balanced(r, Len(drag.active), q)
    BY <1>1 DEF Accounts
  <2> HIDE DEF r, q
  <2> QED
    BY <2>1, <2>2 DEF Balanced, q
<1>3. Finish(e, TRUE, "none")
  BY DEF PanicInSample
<1>4. /\ DragFields \subseteq DOMAIN e /\ e.clock = drag.clock /\ e.interrupted = TRUE
      /\ e.run = r /\ e.active = <<>> /\ e.queued = drag.queued
  BY <1>1 DEF DragFields
<1>5. Len(<<>> \o drag.queued) = q
  BY <1>2, NoneIsSeq, SeqsJoin
<1> HIDE DEF e, r, q
<1>6. ASSUME NEW file, FileOf(file, e, TRUE, "none") PROVE ~CountersCoherent(file)
  <2>1. /\ file.settled = r.settled /\ file.coalesced = r.coalesced
        /\ file.timeouts = r.timeouts /\ file.rejected_settlements = r.rejected_settlements
        /\ file.admitted = r.admitted
        /\ file.disconnects = r.disconnects + 0 /\ file.unresolved = r.unresolved + q
    BY <1>4, <1>5, <1>6 DEF FileOf
  <2> DEFINE sum == r.settled + r.coalesced + r.timeouts
             w == r.rejected_settlements
  <2>2. sum \in Nat /\ w \in Nat /\ q \in Nat /\ file.admitted = sum + w + 1 + q
    BY <1>2, <2>1
  <2>3. file.disconnects = 0 /\ file.unresolved = q
    BY <1>2, <2>1
  <2>4. file.settled + file.coalesced + file.timeouts = sum /\ file.rejected_settlements = w
    BY <2>1
  <2> HIDE DEF sum, w
  <2>5. file.admitted # sum + 0 + w + q
    BY <2>2
  <2> QED
    BY <2>3, <2>4, <2>5 DEF CountersCoherent
<1> QED
  BY <1>1, <1>3, <1>4, <1>6, BrokenFile

LEMMA LoopEndStep ==
  ASSUME Sound(drag), LoopCompletes \/ LoopExpires \/ LoopFails
  PROVE  Written
<1>1. Accounts(drag) /\ Unbroken(drag) /\ drag.interrupted = FALSE
  BY DEF Sound
<1>2. CASE LoopCompletes
  BY <1>1, <1>2, FinishDecodes DEF LoopCompletes, Over
<1>3. CASE LoopExpires
  BY <1>1, <1>3, FinishDecodes DEF LoopExpires, Over
<1>4. CASE LoopFails
  BY <1>1, <1>4, FinishDecodes DEF LoopFails, Over
<1> QED
  BY <1>2, <1>3, <1>4

LEMMA ClockStep ==
  ASSUME Sound(drag), DragClock
  PROVE  Sound(drag')
<1>1. /\ DragFields \subseteq DOMAIN drag /\ Accounts(drag) /\ Unbroken(drag)
      /\ drag.interrupted = FALSE /\ drag.file = <<>> /\ drag.at \in {"setup", "measuring"}
      /\ drag.clock \in Int /\ drag.run.rate_hz \in RangeOf(Rates)
  BY DEF Sound, Accounts, Asked
<1>2. Interval[drag.run.rate_hz] \in Nat
  BY <1>1, ConditionAssumption DEF RangeOf
<1>3. PICK ticks \in {1, Interval[drag.run.rate_hz]} : drag' = [drag EXCEPT !.clock = @ + ticks]
  BY DEF DragClock
<1>4. ticks \in Nat
  BY <1>2, <1>3
<1>5. /\ drag'.at = drag.at /\ DragFields \subseteq DOMAIN drag'
      /\ drag'.queued = drag.queued /\ drag'.active = drag.active
      /\ drag'.clock = drag.clock + ticks
      /\ drag'.requests = drag.requests /\ drag'.transactions = drag.transactions
      /\ drag'.interrupted = drag.interrupted /\ drag'.file = drag.file
      /\ drag'.run = drag.run
  BY <1>1, <1>3 DEF DragFields
<1>6. drag'.clock \in Int /\ drag.clock <= drag'.clock
  BY <1>1, <1>4, <1>5
<1>7. Accounts(drag')
  BY <1>1, <1>5, <1>6, ClockAccounts
<1> QED
  BY <1>1, <1>5, <1>7 DEF Sound, Unbroken

(* A fixture that is no longer measuring changes its file once, in full.     *)
LEMMA SetUpStep ==
  ASSUME NEW frozen, Sound(drag), SetUp(frozen)
  PROVE  Sound(drag') \/ (drag'.at = "failed" /\ drag'.file = <<>> /\ DragFields \subseteq DOMAIN drag')
<1>1. PICK at \in {"measuring", "failed"} : drag' = [drag EXCEPT !.at = at]
  BY DEF SetUp
<1>2. /\ DragFields \subseteq DOMAIN drag /\ Accounts(drag) /\ Unbroken(drag)
      /\ drag.interrupted = FALSE /\ drag.file = <<>> /\ drag.clock \in Int
  BY DEF Sound, Accounts
<1>3. /\ drag'.at = at /\ DragFields \subseteq DOMAIN drag'
      /\ drag'.queued = drag.queued /\ drag'.active = drag.active /\ drag'.clock = drag.clock
      /\ drag'.requests = drag.requests /\ drag'.transactions = drag.transactions
      /\ drag'.interrupted = drag.interrupted /\ drag'.file = drag.file
      /\ drag'.run = drag.run
  BY <1>1, <1>2 DEF DragFields
<1>4. Accounts(drag')
  BY <1>2, <1>3, ClockAccounts
<1> QED
  BY <1>1, <1>2, <1>3, <1>4 DEF Sound, Unbroken

LEMMA WriteStep ==
  ASSUME drag.at = "writing", DragFields \subseteq DOMAIN drag,
         Writing(drag.run, drag.interrupted), WriteCapture
  PROVE  /\ drag'.at \in {"failed", "ending"} /\ DragFields \subseteq DOMAIN drag'
         /\ Verdict(drag')
<1> DEFINE file == [drag.run EXCEPT !.whole = TRUE]
<1>1. Decodes(file) <=> ~drag.interrupted
  BY DEF Writing
<1>2. /\ drag'.at \in {"failed", "ending"} /\ DragFields \subseteq DOMAIN drag'
      /\ drag'.file = <<file>> /\ drag'.interrupted = drag.interrupted
  BY DEF WriteCapture, DragFields
<1> HIDE DEF file
<1>3. drag'.file # <<>> /\ drag'.file[1] = file
  BY <1>2
<1> QED
  BY <1>1, <1>2, <1>3 DEF Verdict

LEMMA EndStep ==
  ASSUME DragFields \subseteq DOMAIN drag, Verdict(drag), EndDrag
  PROVE  /\ drag'.at \in {"failed", "passed"} /\ DragFields \subseteq DOMAIN drag'
         /\ Verdict(drag')
<1>1. /\ drag'.at \in {"failed", "passed"} /\ DragFields \subseteq DOMAIN drag'
      /\ drag'.file = drag.file /\ drag'.interrupted = drag.interrupted
  BY DEF EndDrag, DragFields
<1> QED
  BY <1>1 DEF Verdict

LEMMA DragInvStep ==
  ASSUME DragInv, NEW frozen, DragStep(frozen)
  PROVE  DragInv'
<1> DEFINE Ended1 == /\ drag'.at \in {"failed", "passed", "ending"}
                     /\ DragFields \subseteq DOMAIN drag' /\ Verdict(drag')
<1>1. Sound(drag') => DragInv'
  BY DEF Sound, DragInv
<1>2. Written => DragInv'
  BY DEF Written, Writing, DragInv
<1>3. Ended1 => DragInv'
  BY DEF DragInv
<1>4. drag.at \in {"setup", "measuring"} => Sound(drag)
  BY DEF DragInv, Sound
<1>5. drag.at = "writing" => /\ DragFields \subseteq DOMAIN drag
                            /\ Writing(drag.run, drag.interrupted)
  BY DEF DragInv, Writing
<1>6. drag.at = "ending" => DragFields \subseteq DOMAIN drag /\ Verdict(drag)
  BY DEF DragInv
<1>7. CASE SetUp(frozen)
  <2>1. Sound(drag)
    BY <1>4, <1>7 DEF SetUp
  <2>2. CASE Sound(drag')
    BY <1>1, <2>2
  <2>3. CASE drag'.at = "failed" /\ drag'.file = <<>> /\ DragFields \subseteq DOMAIN drag'
    BY <1>3, <2>3 DEF Verdict
  <2> QED
    BY <1>7, <2>1, <2>2, <2>3, SetUpStep
<1>8. CASE WriteCapture
  <2>1. drag.at = "writing"
    BY <1>8 DEF WriteCapture
  <2> QED
    BY <1>3, <1>5, <1>8, <2>1, WriteStep
<1>9. CASE EndDrag
  <2>1. drag.at = "ending"
    BY <1>9 DEF EndDrag
  <2> QED
    BY <1>3, <1>6, <1>9, <2>1, EndStep
<1>10. CASE OfferAdmitted \/ OfferReplaces
  <2>1. drag.at = "measuring"
    BY <1>10 DEF OfferAdmitted, OfferReplaces, Measuring
  <2> QED
    BY <1>1, <1>4, <1>10, <2>1, OfferStep
<1>11. CASE OfferRefused
  <2>1. drag.at = "measuring"
    BY <1>11 DEF OfferRefused, Measuring
  <2> QED
    BY <1>1, <1>2, <1>4, <1>11, <2>1, RefusalStep
<1>12. CASE PanicInOffer
  <2>1. drag.at = "measuring"
    BY <1>12 DEF PanicInOffer, Measuring
  <2> QED
    BY <1>2, <1>4, <1>12, <2>1, PanicInOfferStep
<1>13. CASE Dispatch
  <2>1. drag.at = "measuring"
    BY <1>13 DEF Dispatch, Measuring
  <2> QED
    BY <1>1, <1>4, <1>13, <2>1, DispatchStep
<1>14. CASE SettleCommitted
  <2>1. drag.at = "measuring"
    BY <1>14 DEF SettleCommitted, Measuring
  <2> QED
    BY <1>1, <1>4, <1>14, <2>1, CommitStep
<1>15. CASE SettleRefused
  <2>1. drag.at = "measuring"
    BY <1>15 DEF SettleRefused, Measuring
  <2> QED
    BY <1>2, <1>4, <1>15, <2>1, FailureStep
<1>16. CASE PanicInSample
  <2>1. drag.at = "measuring"
    BY <1>16 DEF PanicInSample, Measuring
  <2> QED
    BY <1>2, <1>4, <1>16, <2>1, PanicInSampleStep
<1>17. CASE LoopCompletes \/ LoopExpires \/ LoopFails
  <2>1. drag.at = "measuring"
    BY <1>17 DEF LoopCompletes, LoopExpires, LoopFails, Measuring
  <2> QED
    BY <1>2, <1>4, <1>17, <2>1, LoopEndStep
<1>18. CASE DragClock
  <2>1. drag.at = "measuring"
    BY <1>18 DEF DragClock, Measuring
  <2> QED
    BY <1>1, <1>4, <1>18, <2>1, ClockStep
<1> QED
  BY <1>7, <1>8, <1>9, <1>10, <1>11, <1>12, <1>13, <1>14, <1>15, <1>16, <1>17, <1>18
     DEF DragStep

(* The fixture starts with coherent accounts, and there may be none.         *)
LEMMA NewDragInv ==
  ASSUME NEW work, work.rate \in RangeOf(Rates), work.updates \in 1..MaxUpdates,
         drag' = NewDrag(work)
  PROVE  DragInv'
<1>1. Accounts(drag') /\ Unbroken(drag')
  BY NewAccounts
<1>2. /\ drag'.at = "setup" /\ DragFields \subseteq DOMAIN drag'
      /\ drag'.interrupted = FALSE /\ drag'.file = <<>>
  BY DEF NewDrag, DragFields
<1> QED
  BY <1>1, <1>2 DEF DragInv

LEMMA NoDragInv ==
  /\ drag = NoDrag => DragInv
  /\ drag' = NoDrag => DragInv'
BY DEF NoDrag, DragInv, Verdict

-----------------------------------------------------------------------------
(* The file of a fixture that passes.                                        *)

(* Every update was admitted, and not all of them were coalesced.            *)
Answered(run) ==
    /\ run.status = "complete"
    /\ run.admitted = run.requested_updates
    /\ run.samples # <<>>

(* There is one capture file at most, and behind a fixture that goes on to   *)
(* pass it is that of a complete run.                                        *)
FileInv ==
    /\ drag.file = <<>> \/ drag.file = <<drag.file[1]>>
    /\ drag.at = "writing" /\ ~drag.run.error /\ drag.run.rejected = 0 => Answered(drag.run)
    /\ drag.at \in {"ending", "passed"} => drag.file # <<>> /\ Answered(drag.file[1])

(* A loop that fails leaves a file with an error.                            *)
LEMMA FailedFile ==
  ASSUME Sound(drag), NEW d, DragFields \subseteq DOMAIN d, RunFields \subseteq DOMAIN d.run,
         d.run.whole = drag.run.whole, d.clock = drag.clock, NEW cut, Finish(d, TRUE, cut)
  PROVE  FileInv'
<1>1. drag.run.whole = FALSE
  BY DEF Sound, Accounts, Booked
<1>2. /\ drag'.at = "writing" /\ drag'.file = <<drag'.run>>
      /\ FileOf(drag'.run, d, TRUE, cut)
  BY <1>1, FinishFields
<1>3. drag'.run.error
  BY <1>2 DEF FileOf
<1> QED
  BY <1>2, <1>3 DEF FileInv

LEMMA CompleteFile ==
  ASSUME Sound(drag), LoopCompletes
  PROVE  FileInv'
<1> DEFINE r == drag.run
           file == drag'.run
<1>1. /\ DragFields \subseteq DOMAIN drag /\ RunFields \subseteq DOMAIN r
      /\ r.whole = FALSE /\ Len(r.samples) = r.settled
      /\ Asked(r) /\ Balanced(r, Len(drag.active), Len(drag.queued)) /\ Unbroken(drag)
  BY DEF Sound, Accounts, Booked
<1>2. /\ Finish(drag, FALSE, "none")
      /\ drag.active = <<>> /\ drag.queued = <<>>
  BY DEF LoopCompletes
<1>3. /\ drag'.at = "writing" /\ drag'.file = <<file>>
      /\ FileOf(file, drag, FALSE, "none")
  BY <1>1, <1>2, FinishFields
<1>4. ASSUME ~file.error, file.rejected = 0
      PROVE  Answered(file)
  <2>1. Len(drag.active \o drag.queued) = 0
    BY <1>2
  <2>2. /\ file.status = "complete"
        /\ file.offered = file.requested_updates /\ file.offered = file.admitted + 0
        /\ file.admitted = file.coalesced + file.settled + file.timeouts + file.disconnects
                              + file.rejected_settlements + file.unresolved
    BY <1>3, <1>4 DEF FileOf
  <2>3. /\ file.requested_updates = r.requested_updates /\ file.admitted = r.admitted
        /\ file.coalesced = r.coalesced /\ file.settled = r.settled
        /\ file.samples = r.samples
        /\ file.timeouts = r.timeouts /\ file.rejected_settlements = r.rejected_settlements
        /\ file.disconnects = r.disconnects + 0
        /\ file.unresolved = r.unresolved + Len(drag.active \o drag.queued)
    BY <1>3 DEF FileOf
  <2>4. /\ r.admitted \in Nat /\ r.coalesced \in Nat /\ r.settled \in Nat
        /\ r.timeouts = 0 /\ r.rejected_settlements = 0 /\ r.disconnects = 0
        /\ r.unresolved = 0 /\ r.requested_updates \in Nat \ {0}
        /\ r.admitted > 0 => r.coalesced < r.admitted
    <3> HIDE DEF r
    <3>1. r.requested_updates \in Nat \ {0}
      <4>1. \A x : x \in 1..MaxUpdates => x \in Nat \ {0}
        OBVIOUS
      <4> QED
        BY <1>1, <4>1 DEF Asked
    <3>2. r.timeouts = 0 /\ r.rejected_settlements = 0
      BY <1>1 DEF Unbroken, r
    <3>3. /\ r.admitted \in Nat /\ r.coalesced \in Nat /\ r.settled \in Nat
          /\ r.disconnects = 0 /\ r.unresolved = 0
          /\ r.admitted > 0 => r.coalesced < r.admitted
      BY <1>1 DEF Balanced
    <3> QED
      BY <3>1, <3>2, <3>3
  <2> HIDE DEF file, r
  <2>5. r.admitted = r.requested_updates
    <3>1. file.offered = r.requested_updates /\ file.offered = r.admitted + 0
      BY <2>2, <2>3
    <3> QED
      BY <2>4, <3>1
  <2>6. r.admitted = r.coalesced + r.settled + 0 + (0 + 0) + 0 + (0 + 0)
    BY <2>1, <2>2, <2>3, <2>4
  <2>7. r.settled > 0
    BY <2>4, <2>5, <2>6
  <2>8. file.samples # <<>>
    BY <1>1, <2>3, <2>7 DEF r
  <2> QED
    BY <2>2, <2>3, <2>5, <2>8 DEF Answered
<1> HIDE DEF file
<1> QED
  BY <1>3, <1>4 DEF FileInv, file

LEMMA FileInvStep ==
  ASSUME DragInv, FileInv, NEW frozen, DragStep(frozen)
  PROVE  FileInv'
<1>1. drag.at \in {"setup", "measuring"} =>
          /\ Sound(drag) /\ DragFields \subseteq DOMAIN drag /\ RunFields \subseteq DOMAIN drag.run
  BY DEF DragInv, Sound, Accounts
<1>2. CASE /\ drag'.at \in {"setup", "measuring", "failed"} /\ drag'.file = drag.file
  BY <1>2 DEF FileInv
<1>3. CASE SetUp(frozen)
  BY <1>1, <1>2, <1>3 DEF SetUp, DragFields
<1>4. CASE WriteCapture
  <2> DEFINE file == [drag.run EXCEPT !.whole = TRUE]
  <2>1. /\ drag.at = "writing" /\ DragFields \subseteq DOMAIN drag
        /\ RunFields \subseteq DOMAIN drag.run
    BY <1>4 DEF WriteCapture, DragInv
  <2>2. /\ file.status = drag.run.status /\ file.admitted = drag.run.admitted
        /\ file.requested_updates = drag.run.requested_updates
        /\ file.samples = drag.run.samples
    BY <2>1 DEF RunFields
  <2>3. /\ drag'.file = <<file>>
        /\ drag'.at = IF drag.run.error \/ drag.run.rejected # 0 THEN "failed" ELSE "ending"
    BY <1>4, <2>1 DEF WriteCapture, DragFields
  <2> HIDE DEF file
  <2>4. drag'.at = "ending" => Answered(file)
    BY <2>1, <2>2, <2>3 DEF FileInv, Answered
  <2> QED
    BY <2>3, <2>4 DEF FileInv
<1>5. CASE EndDrag
  <2>1. /\ drag.at = "ending" /\ DragFields \subseteq DOMAIN drag
    BY <1>5 DEF EndDrag, DragInv
  <2>2. drag'.at \in {"passed", "failed"} /\ drag'.file = drag.file
    BY <1>5, <2>1 DEF EndDrag, DragFields
  <2> QED
    BY <2>1, <2>2 DEF FileInv
<1>6. CASE OfferAdmitted \/ OfferReplaces \/ Dispatch \/ SettleCommitted \/ DragClock
  <2>1. drag.at = "measuring"
    BY <1>6 DEF OfferAdmitted, OfferReplaces, Dispatch, SettleCommitted, DragClock, Measuring
  <2> QED
    BY <1>1, <1>2, <1>6, <2>1
       DEF OfferAdmitted, OfferReplaces, Queued, Dispatch, SettleCommitted, DragClock, DragFields
<1>7. CASE OfferRefused
  <2> DEFINE e == [drag EXCEPT
            !.run = [drag.run EXCEPT !.offered = @ + 1, !.rejected = @ + 1,
                              !.failures = Append(@, Failure(Ticket, "enqueue_refused"))]]
  <2>1. drag.at = "measuring" /\ (drag' = e \/ Finish(e, TRUE, "none"))
    BY <1>7 DEF OfferRefused, Measuring
  <2>2. /\ DragFields \subseteq DOMAIN e /\ RunFields \subseteq DOMAIN e.run
        /\ e.run.whole = drag.run.whole /\ e.clock = drag.clock
        /\ e.at = drag.at /\ e.file = drag.file
    BY <1>1, <2>1 DEF DragFields, RunFields
  <2> HIDE DEF e
  <2> QED
    BY <1>1, <1>2, <2>1, <2>2, FailedFile
<1>8. CASE PanicInOffer
  <2> DEFINE s == [drag.run EXCEPT !.offered = @ + 1]
             e == [drag EXCEPT !.interrupted = TRUE, !.run = s]
  <2>1. drag.at = "measuring" /\ Finish(e, TRUE, "none")
    BY <1>8 DEF PanicInOffer, Measuring
  <2>2. RunFields \subseteq DOMAIN s /\ s.whole = drag.run.whole
    BY <1>1, <2>1 DEF RunFields
  <2> HIDE DEF s
  <2>3. DragFields \subseteq DOMAIN e /\ e.run = s /\ e.clock = drag.clock
    BY <1>1, <2>1 DEF DragFields
  <2> HIDE DEF e
  <2> QED
    BY <1>1, <2>1, <2>2, <2>3, FailedFile
<1>9. CASE SettleRefused
  <2>1. drag.at = "measuring"
    BY <1>9 DEF SettleRefused, Measuring
  <2>2. PICK reason \in {"timed_out", "rejected_stale"} :
         Finish([drag EXCEPT
            !.transactions = @ + 1, !.active = <<>>,
            !.run = [drag.run EXCEPT
                !.timeouts = @ + IF reason = "timed_out" THEN 1 ELSE 0,
                !.rejected_settlements = @ + IF reason = "timed_out" THEN 0 ELSE 1,
                !.failures = Append(@, Failure(SettledTicket, reason))]], TRUE, "none")
    BY <1>9 DEF SettleRefused
  <2> DEFINE s == [drag.run EXCEPT
                !.timeouts = @ + IF reason = "timed_out" THEN 1 ELSE 0,
                !.rejected_settlements = @ + IF reason = "timed_out" THEN 0 ELSE 1,
                !.failures = Append(@, Failure(SettledTicket, reason))]
             e == [drag EXCEPT !.transactions = @ + 1, !.active = <<>>, !.run = s]
  <2>3. Finish(e, TRUE, "none")
    BY <2>2
  <2>4. RunFields \subseteq DOMAIN s /\ s.whole = drag.run.whole
    BY <1>1, <2>1 DEF RunFields
  <2> HIDE DEF s
  <2>5. DragFields \subseteq DOMAIN e /\ e.run = s /\ e.clock = drag.clock
    BY <1>1, <2>1 DEF DragFields
  <2> HIDE DEF e
  <2> QED
    BY <1>1, <2>1, <2>3, <2>4, <2>5, FailedFile
<1>10. CASE PanicInSample
  <2> DEFINE e == [drag EXCEPT !.interrupted = TRUE, !.active = <<>>]
  <2>1. drag.at = "measuring" /\ Finish(e, TRUE, "none")
    BY <1>10 DEF PanicInSample, Measuring
  <2>2. DragFields \subseteq DOMAIN e /\ e.run = drag.run /\ e.clock = drag.clock
    BY <1>1, <2>1 DEF DragFields
  <2> HIDE DEF e
  <2> QED
    BY <1>1, <2>1, <2>2, FailedFile
<1>11. CASE LoopCompletes
  <2>1. drag.at = "measuring"
    BY <1>11 DEF LoopCompletes, Measuring
  <2> QED
    BY <1>1, <1>11, <2>1, CompleteFile
<1>12. CASE LoopExpires \/ LoopFails
  <2>1. drag.at = "measuring" /\ \E cut : Finish(drag, TRUE, cut)
    BY <1>12 DEF LoopExpires, LoopFails, Measuring
  <2> QED
    BY <1>1, <2>1, FailedFile
<1> QED
  BY <1>3, <1>4, <1>5, <1>6, <1>7, <1>8, <1>9, <1>10, <1>11, <1>12 DEF DragStep

LEMMA NewFileInv ==
  ASSUME NEW work, drag' = NewDrag(work) \/ drag' = NoDrag
  PROVE  FileInv'
BY DEF NewDrag, NoDrag, FileInv

-----------------------------------------------------------------------------
(* The plan.                                                                 *)

(* The judges of the phases that every gate may have.                        *)
Usual == {"status", "nonempty", "required-list", "family-list", "ignored-list",
          "exactly-one"}

Listing(item) == item.judge \in {"required-list", "family-list"}

(* A part of a plan: its judges are in K, its judged cases of the families J *)
(* and its listings of the families L, none after a case of its family.      *)
Piece(K, s, J, L) ==
    /\ IsSeq(s)
    /\ \A i \in 1..Len(s) :
           /\ s[i].judge \in K
           /\ Judged(s[i]) => s[i].family \in J
           /\ Listing(s[i]) => s[i].family \in L
    /\ \A i, j \in 1..Len(s) :
           i < j /\ Judged(s[i]) /\ Listing(s[j]) => s[i].family # s[j].family

LEMMA PiecesJoin ==
  ASSUME NEW K, NEW s, NEW t, NEW Js, NEW Ls, NEW Jt, NEW Lt,
         Piece(K, s, Js, Ls), Piece(K, t, Jt, Lt), Js \cap Lt = {}
  PROVE  Piece(K, s \o t, Js \cup Jt, Ls \cup Lt)
<1> DEFINE u == s \o t
<1>1. IsSeq(s) /\ IsSeq(t) /\ Len(s) \in Nat /\ Len(t) \in Nat
  BY DEF Piece, IsSeq
<1>2. IsSeq(u) /\ Len(u) = Len(s) + Len(t)
  BY <1>1, SeqsJoin
<1>3. \A i \in 1..Len(s) : u[i] = s[i]
  BY <1>1, SeqsJoin
<1>4. \A i \in 1..Len(u) : i > Len(s) => i - Len(s) \in 1..Len(t) /\ u[i] = t[i - Len(s)]
  <2> SUFFICES ASSUME NEW i \in 1..Len(u), i > Len(s)
               PROVE  i - Len(s) \in 1..Len(t) /\ u[i] = t[i - Len(s)]
    OBVIOUS
  <2>1. i - Len(s) \in 1..Len(t) /\ i = (i - Len(s)) + Len(s)
    BY <1>1, <1>2
  <2> QED
    BY <1>1, <2>1, SeqsJoin
<1> HIDE DEF u
<1>5. ASSUME NEW i \in 1..Len(u)
      PROVE  /\ u[i].judge \in K
             /\ Judged(u[i]) => u[i].family \in Js \cup Jt
             /\ Listing(u[i]) => u[i].family \in Ls \cup Lt
             /\ i > Len(s) /\ Listing(u[i]) => u[i].family \in Lt
             /\ i <= Len(s) /\ Judged(u[i]) => u[i].family \in Js
  <2>1. CASE i <= Len(s)
    <3>1. i \in 1..Len(s) /\ u[i] = s[i]
      BY <1>1, <1>2, <1>3, <2>1
    <3> QED
      BY <1>1, <3>1, <2>1 DEF Piece
  <2>2. CASE i > Len(s)
    <3>1. i - Len(s) \in 1..Len(t) /\ u[i] = t[i - Len(s)]
      BY <1>4, <2>2
    <3> QED
      BY <1>1, <3>1, <2>2 DEF Piece
  <2> QED
    BY <1>1, <1>2, <2>1, <2>2
<1>6. ASSUME NEW i \in 1..Len(u), NEW j \in 1..Len(u), i < j, Judged(u[i]), Listing(u[j])
      PROVE  u[i].family # u[j].family
  <2>1. CASE j <= Len(s)
    <3>1. i \in 1..Len(s) /\ j \in 1..Len(s) /\ u[i] = s[i] /\ u[j] = s[j]
      BY <1>1, <1>2, <1>3, <1>6, <2>1
    <3> QED
      BY <1>6, <3>1 DEF Piece
  <2>2. CASE i <= Len(s) /\ j > Len(s)
    BY <1>5, <1>6, <2>2
  <2>3. CASE i > Len(s)
    <3>1. i - Len(s) \in 1..Len(t) /\ u[i] = t[i - Len(s)]
          /\ j - Len(s) \in 1..Len(t) /\ u[j] = t[j - Len(s)]
      BY <1>1, <1>2, <1>4, <1>6, <2>3
    <3>2. i - Len(s) < j - Len(s)
      BY <1>1, <1>2, <1>6
    <3> QED
      BY <1>6, <3>1, <3>2 DEF Piece
  <2> QED
    BY <1>1, <1>2, <2>1, <2>2, <2>3
<1>7. Piece(K, u, Js \cup Jt, Ls \cup Lt)
  BY <1>2, <1>5, <1>6 DEF Piece
<1> QED
  BY <1>7 DEF u

(* A sequence of items of one kind.                                          *)
LEMMA UniformPiece ==
  ASSUME NEW K, NEW s, IsSeq(s), NEW judge \in K, NEW family, NEW J, NEW L,
         \A i \in 1..Len(s) : s[i].judge = judge /\ s[i].family = family,
         judge \in {"exactly-one", "measure"} => family \in J,
         judge \in {"required-list", "family-list"} => family \in L
  PROVE  Piece(K, s, J, L)
BY DEF Piece, Judged, Listing

LEMMA CasesArePieces ==
  ASSUME NEW K, Usual \subseteq K, NEW family, NEW names \in Seq(STRING)
  PROVE  /\ Piece(K, Cases(family, names), {family}, {})
         /\ Len(Cases(family, names)) = Len(names)
<1> DEFINE cases == Cases(family, names)
<1>1. Len(names) \in Nat /\ DOMAIN names = 1..Len(names)
  OBVIOUS
<1>2. cases = [i \in 1..Len(names) |-> cases[i]]
  BY <1>1 DEF Cases
<1>3. IsSeq(cases) /\ Len(cases) = Len(names)
  BY <1>1, <1>2, FunctionIsSeq
<1>4. \A i \in 1..Len(cases) : cases[i].judge = "exactly-one" /\ cases[i].family = family
  BY <1>1, <1>3 DEF Cases, Item
<1> HIDE DEF cases
<1>5. Piece(K, cases, {family}, {})
  BY <1>3, <1>4, UniformPiece DEF Usual
<1> QED
  BY <1>3, <1>5 DEF cases

LEMMA OneIsPiece ==
  ASSUME NEW K, Usual \subseteq K, NEW item, NEW judge \in Usual \ {"exactly-one"},
         item.judge = judge, NEW L,
         judge \in {"required-list", "family-list"} => item.family \in L
  PROVE  Piece(K, <<item>>, {}, L) /\ Len(<<item>>) = 1
<1>1. <<item>> \in Seq({item}) /\ Len(<<item>>) = 1 /\ <<item>>[1] = item
  OBVIOUS
<1>2. IsSeq(<<item>>)
  BY <1>1, AnySeqIsSeq
<1>3. \A i \in 1..Len(<<item>>) : <<item>>[i].judge = judge /\ <<item>>[i].family = item.family
  BY <1>1
<1>4. judge \in K /\ judge \notin {"exactly-one", "measure"}
  BY DEF Usual
<1>5. Piece(K, <<item>>, {}, L)
  BY <1>2, <1>3, <1>4, UniformPiece
<1> QED
  BY <1>1, <1>5

LEMMA NothingIsPiece ==
  ASSUME NEW K
  PROVE  Piece(K, <<>>, {}, {})
<1>1. <<>> \in Seq({}) /\ Len(<<>>) = 0
  OBVIOUS
<1>2. IsSeq(<<>>)
  BY <1>1, AnySeqIsSeq
<1> QED
  BY <1>1, <1>2 DEF Piece

LEMMA LegacyPhasesArePieces ==
  ASSUME NEW K, Usual \subseteq K, NEW family \in Families \ {"session"}
  PROVE  Piece(K, LegacyPhases(family), {family}, {family})
<1> DEFINE listing == <<Item(family, "family-list", family)>>
           ignored == IF family = "runtime" THEN <<Item(family, "ignored-list", family)>> ELSE <<>>
           cases == Cases(family, LegacyCases[family])
<1>1. Piece(K, listing, {}, {family})
  BY OneIsPiece DEF Item, Usual
<1>2. Piece(K, <<Item(family, "ignored-list", family)>>, {}, {})
  BY OneIsPiece DEF Item, Usual
<1>3. Piece(K, ignored, {}, {})
  BY <1>2, NothingIsPiece
<1>4. Piece(K, cases, {family}, {})
  BY CasesArePieces, PlanAssumption
<1>5. LegacyPhases(family) = (listing \o ignored) \o cases
  BY DEF LegacyPhases
<1> HIDE DEF ignored, listing, cases
<1>6. Piece(K, listing \o ignored, {} \cup {}, {family} \cup {})
  BY <1>1, <1>3, PiecesJoin
<1>7. Piece(K, listing \o ignored, {}, {family})
  BY <1>6
<1>8. Piece(K, (listing \o ignored) \o cases, {} \cup {family}, {family} \cup {})
  BY <1>4, <1>7, PiecesJoin
<1> QED
  BY <1>5, <1>8

LEMMA SixInSeq ==
  ASSUME NEW S, NEW a \in S, NEW b \in S, NEW c \in S, NEW d \in S, NEW e \in S, NEW f \in S
  PROVE  <<a, b, c, d, e, f>> \in Seq(S)
OBVIOUS

LEMMA ChecksArePieces ==
  ASSUME NEW K, Usual \subseteq K
  PROVE  Piece(K, Checks, {}, {})
<1> DEFINE Status(name) == Item(name, "status", "none")
           S == {Status("strict"), Status("strict-runtime"), Status("layout"), Status("format"),
                 Status("overlay-format"), Status("whitespace")}
<1>1. \A item \in S : item.judge = "status" /\ item.family = "none"
  BY DEF Item
<1>2. Checks = <<Status("strict"), Status("strict-runtime"), Status("layout"), Status("format"),
        Status("overlay-format"), Status("whitespace")>>
  BY DEF Checks
<1> HIDE DEF Status
<1>3. Checks \in Seq(S)
  BY <1>2, SixInSeq
<1> HIDE DEF S
<1>4. \A i \in 1..Len(Checks) : Checks[i] \in S
  BY <1>3
<1> QED
  BY <1>1, <1>3, <1>4, AnySeqIsSeq, UniformPiece DEF Usual

LEMMA ConcatAssociates ==
  ASSUME NEW s, NEW t, NEW u, IsSeq(s), IsSeq(t), IsSeq(u)
  PROVE  s \o (t \o u) = (s \o t) \o u
<1> DEFINE S == RangeOf(s) \cup RangeOf(t) \cup RangeOf(u)
<1>1. s \in Seq(S) /\ t \in Seq(S) /\ u \in Seq(S)
  BY DEF IsSeq
<1> HIDE DEF S
<1> QED
  BY <1>1, ConcatAssociative

(* The measurements of a campaign, in execution order.                       *)
Measurement(ordinal, measure) ==
    [name |-> "measure", judge |-> "measure", family |-> "session",
     work |-> <<WorkOf(ordinal, measure)>>]

CampaignReport == Item("report", "campaign", "none")

Opening == <<Item("isolation", "status", "none"), Item("protocol", "nonempty", "none"),
             Item("required-list", "required-list", "session")>>

LEMMA OpeningIsPiece ==
  ASSUME NEW K, Usual \subseteq K
  PROVE  Piece(K, Opening, {}, {"session"}) /\ Len(Opening) = 3
<1> DEFINE a == Item("isolation", "status", "none")
           b == Item("protocol", "nonempty", "none")
           c == Item("required-list", "required-list", "session")
<1>1. /\ a.judge = "status" /\ b.judge = "nonempty"
      /\ c.judge = "required-list" /\ c.family = "session"
  BY DEF Item
<1>2. Opening = <<a, b, c>>
  BY DEF Opening
<1> HIDE DEF a, b, c
<1>3. <<a, b, c>> \in Seq({a, b, c}) /\ Len(<<a, b, c>>) = 3
      /\ \A i \in 1..3 : <<a, b, c>>[i] \in {a, b, c}
  OBVIOUS
<1>4. IsSeq(Opening) /\ Len(Opening) = 3 /\ \A i \in 1..3 : Opening[i] \in {a, b, c}
  BY <1>2, <1>3, AnySeqIsSeq
<1>5. \A i \in 1..3 : ~Judged(Opening[i]) /\ Opening[i].judge \in Usual
                       /\ (Listing(Opening[i]) => Opening[i].family = "session")
  BY <1>1, <1>4 DEF Judged, Listing, Usual
<1> QED
  BY <1>4, <1>5 DEF Piece

LEMMA ProductCounts ==
  ASSUME NEW a \in Nat \ {0}, NEW b \in Nat \ {0}
  PROVE  a * b \in Nat \ {0}
OBVIOUS

LEMMA ConditionsCount ==
  ASSUME NEW measure \in DOMAIN Pairs
  PROVE  CampaignCases(measure) \in Nat \ {0}
<1>1. Pairs[measure] \in Nat \ {0}
  BY PlanAssumption
<1>2. /\ Len(Loads) \in Nat \ {0} /\ Len(Rates) \in Nat \ {0} /\ Len(Kinds) \in Nat \ {0}
  BY ConditionAssumption, EmptySeq
<1>3. 2 * Pairs[measure] \in Nat \ {0}
  BY <1>1
<1>4. 2 * Pairs[measure] * Len(Loads) \in Nat \ {0}
  BY <1>2, <1>3, ProductCounts
<1>5. 2 * Pairs[measure] * Len(Loads) * Len(Rates) \in Nat \ {0}
  BY <1>2, <1>4, ProductCounts
<1> QED
  BY <1>2, <1>5, ProductCounts DEF CampaignCases

LEMMA MeasurementsArePieces ==
  ASSUME NEW K, "measure" \in K, NEW measure \in DOMAIN Pairs
  PROVE  LET cases == [o \in 1..CampaignCases(measure) |-> Measurement(o, measure)]
         IN  Piece(K, cases, {"session"}, {}) /\ Len(cases) = CampaignCases(measure)
<1> DEFINE cases == [o \in 1..CampaignCases(measure) |-> Measurement(o, measure)]
<1>1. CampaignCases(measure) \in Nat
  BY ConditionsCount
<1>2. IsSeq(cases) /\ Len(cases) = CampaignCases(measure)
  BY <1>1, FunctionIsSeq
<1>3. \A i \in 1..Len(cases) : cases[i].judge = "measure" /\ cases[i].family = "session"
  BY <1>2 DEF Measurement
<1> HIDE DEF cases
<1>4. Piece(K, cases, {"session"}, {})
  BY <1>2, <1>3, UniformPiece
<1> QED
  BY <1>2, <1>4 DEF cases

(* A plan is a piece, and for a campaign the report after it.                *)
PlanOf(measure, body) ==
    Plan(measure) = IF measure = "none" THEN body ELSE body \o <<CampaignReport>>

MeasuredBody(measure, body) ==
    /\ Len(body) = 3 + CampaignCases(measure)
    /\ \A i \in 1..3 : ~Judged(body[i])
    /\ \A o \in 1..CampaignCases(measure) : body[o + 3] = Measurement(o, measure)

LEMMA MeasuredPlan ==
  ASSUME NEW measure \in DOMAIN Pairs, measure # "none"
  PROVE  \E body : /\ Piece(Usual \cup {"measure"}, body, Families, Families)
                   /\ PlanOf(measure, body)
                   /\ MeasuredBody(measure, body)
<1> DEFINE K == Usual \cup {"measure"}
           cases == [o \in 1..CampaignCases(measure) |-> Measurement(o, measure)]
           body == Opening \o cases
<1>1. Piece(K, Opening, {}, {"session"}) /\ Len(Opening) = 3
  BY OpeningIsPiece
<1>2. Piece(K, cases, {"session"}, {}) /\ Len(cases) = CampaignCases(measure)
      /\ \A o \in 1..CampaignCases(measure) : cases[o] = Measurement(o, measure)
  BY MeasurementsArePieces
<1>3. IsSeq(<<CampaignReport>>)
  <2>1. <<CampaignReport>> \in Seq({CampaignReport})
    OBVIOUS
  <2> QED
    BY <2>1, AnySeqIsSeq
<1>4. Plan(measure) = Opening \o (cases \o <<CampaignReport>>)
  BY DEF Plan, CampaignPhases, Opening, CampaignReport, CampaignCases, Measurement
<1> HIDE DEF cases
<1>5. IsSeq(Opening) /\ IsSeq(cases)
  BY <1>1, <1>2 DEF Piece
<1>6. Plan(measure) = body \o <<CampaignReport>>
  BY <1>3, <1>4, <1>5, ConcatAssociates
<1>7. Piece(K, body, {} \cup {"session"}, {"session"} \cup {})
  BY <1>1, <1>2, PiecesJoin
<1>8. Piece(K, body, Families, Families)
  BY <1>7 DEF Piece, Families
<1>9. MeasuredBody(measure, body)
  <2>1. Len(body) = 3 + CampaignCases(measure) /\ (\A i \in 1..3 : body[i] = Opening[i])
        /\ \A o \in 1..CampaignCases(measure) : body[o + 3] = cases[o]
    <3>1. /\ Len(body) = Len(Opening) + Len(cases)
          /\ \A i \in 1..Len(Opening) : body[i] = Opening[i]
          /\ \A o \in 1..Len(cases) : body[o + Len(Opening)] = cases[o]
      BY <1>5, SeqsJoin
    <3> QED
      BY <1>1, <1>2, <3>1
  <2>2. \A i \in 1..Len(Opening) : Judged(Opening[i]) => Opening[i].family \in {}
    BY <1>1 DEF Piece
  <2> QED
    BY <1>1, <1>2, <2>1, <2>2 DEF MeasuredBody
<1> QED
  BY <1>6, <1>8, <1>9 DEF PlanOf

(* What begins a part of a plan begins the whole.                            *)
LEMMA FirstStays ==
  ASSUME NEW s, NEW t, IsSeq(s), IsSeq(t), Len(s) >= 1
  PROVE  (s \o t)[1] = s[1] /\ Len(s \o t) >= 1
<1>1. Len(s) \in Nat /\ Len(t) \in Nat
  BY DEF IsSeq
<1> QED
  BY <1>1, SeqsJoin

LEMMA OwnerPlan ==
  \E body : /\ Piece(Usual, body, Families, Families)
            /\ PlanOf("none", body)
            /\ \E i \in 1..Len(body) : Judged(body[i]) /\ body[i].family = "session"
<1> DEFINE cases == Cases("session", Required)
           a == Opening
           b == ((((cases \o LegacyPhases("runtime")) \o LegacyPhases("native"))
                      \o LegacyPhases("pregraphics")) \o Checks)
           body == a \o b
<1>1. Piece(Usual, a, {}, {"session"}) /\ Len(a) = 3
  BY OpeningIsPiece
<1>2. Piece(Usual, cases, {"session"}, {}) /\ Len(cases) = Len(Required)
  BY PlanAssumption, CasesArePieces
<1>3. /\ Piece(Usual, LegacyPhases("runtime"), {"runtime"}, {"runtime"})
      /\ Piece(Usual, LegacyPhases("native"), {"native"}, {"native"})
      /\ Piece(Usual, LegacyPhases("pregraphics"), {"pregraphics"}, {"pregraphics"})
  BY LegacyPhasesArePieces DEF Families
<1>4. Piece(Usual, Checks, {}, {})
  BY ChecksArePieces
<1>5. Plan("none") = body
  BY DEF Plan, Opening
<1> HIDE DEF a, cases
<1> DEFINE c == cases \o LegacyPhases("runtime")
           d == c \o LegacyPhases("native")
           e == d \o LegacyPhases("pregraphics")
           g == e \o Checks
<1>6. /\ IsSeq(cases) /\ IsSeq(Checks) /\ IsSeq(LegacyPhases("runtime"))
      /\ IsSeq(LegacyPhases("native")) /\ IsSeq(LegacyPhases("pregraphics"))
  BY <1>2, <1>3, <1>4 DEF Piece
<1>7. Len(cases) >= 1 /\ cases[1] = Item(Required[1], "exactly-one", "session")
  <2>1. Len(Required) >= 1 /\ 1 \in DOMAIN Required
    BY PlanAssumption, EmptySeq
  <2> QED
    BY <1>2, <2>1 DEF cases, Cases
<1>8. /\ Piece(Usual, c, {"session"} \cup {"runtime"}, {} \cup {"runtime"})
      /\ IsSeq(c) /\ Len(c) >= 1 /\ c[1] = cases[1]
  BY <1>2, <1>3, <1>6, <1>7, PiecesJoin, FirstStays, SeqsJoin
<1> HIDE DEF c
<1>9. /\ Piece(Usual, d, ({"session"} \cup {"runtime"}) \cup {"native"},
                         ({} \cup {"runtime"}) \cup {"native"})
      /\ IsSeq(d) /\ Len(d) >= 1 /\ d[1] = c[1]
  <2>1. ({"session"} \cup {"runtime"}) \cap {"native"} = {}
    OBVIOUS
  <2> QED
    BY <1>3, <1>6, <1>8, <2>1, PiecesJoin, FirstStays, SeqsJoin
<1> HIDE DEF d
<1>10. /\ Piece(Usual, e, (({"session"} \cup {"runtime"}) \cup {"native"}) \cup {"pregraphics"},
                          (({} \cup {"runtime"}) \cup {"native"}) \cup {"pregraphics"})
       /\ IsSeq(e) /\ Len(e) >= 1 /\ e[1] = d[1]
  <2>1. (({"session"} \cup {"runtime"}) \cup {"native"}) \cap {"pregraphics"} = {}
    OBVIOUS
  <2> QED
    BY <1>3, <1>6, <1>9, <2>1, PiecesJoin, FirstStays, SeqsJoin
<1>11. Piece(Usual, e, Families, Families \ {"session"})
  BY <1>10 DEF Piece, Families
<1> HIDE DEF e
<1>12. /\ Piece(Usual, g, Families \cup {}, (Families \ {"session"}) \cup {})
       /\ IsSeq(g) /\ Len(g) >= 1 /\ g[1] = e[1]
  BY <1>4, <1>6, <1>10, <1>11, PiecesJoin, FirstStays, SeqsJoin
<1>13. g = b
  BY DEF c, d, e
<1> HIDE DEF g, b
<1>14. Piece(Usual, body, {} \cup (Families \cup {}),
             {"session"} \cup ((Families \ {"session"}) \cup {}))
  BY <1>1, <1>12, <1>13, PiecesJoin
<1>15. Piece(Usual, body, Families, Families)
  <2>1. {} \cup (Families \cup {}) = Families
        /\ {"session"} \cup ((Families \ {"session"}) \cup {}) = Families
    BY DEF Families
  <2> QED
    BY <1>14, <2>1
<1>16. IsSeq(a) /\ Len(a) = 3
  BY <1>1 DEF Piece
<1>17. body[1 + 3] = cases[1] /\ 1 + 3 \in 1..Len(body)
  <2>1. Len(b) \in Nat /\ 1 \in 1..Len(b)
    BY <1>12, <1>13 DEF IsSeq
  <2>2. body[1 + 3] = b[1] /\ Len(body) = 3 + Len(b)
    <3>1. /\ Len(body) = Len(a) + Len(b)
          /\ \A i \in 1..Len(b) : body[i + Len(a)] = b[i]
      <4>1. IsSeq(a) /\ IsSeq(b)
        BY <1>12, <1>13, <1>16
      <4> QED
        BY <4>1, SeqsJoin
    <3> QED
      BY <1>16, <2>1, <3>1
  <2> QED
    BY <1>8, <1>9, <1>10, <1>12, <1>13, <2>1, <2>2
<1>18. Judged(cases[1]) /\ cases[1].family = "session"
  BY <1>7 DEF Item, Judged
<1> QED
  BY <1>5, <1>15, <1>17, <1>18 DEF PlanOf

(* What the proofs below use of a plan: it is a sequence; only its last item  *)
(* is judged as a campaign; a case comes after the listing of its family     *)
(* that pins its executable; the owner ("session") family has a case; and    *)
(* the measurement at a position is that of its ordinal.                     *)
PlanKnown(measure, plan) ==
    /\ IsSeq(plan)
    /\ \A i \in 1..Len(plan) : plan[i].judge = "campaign" => i = Len(plan)
    /\ \A i \in 1..Len(plan) : Judged(plan[i]) \/ Listing(plan[i]) => plan[i].family \in Families
    /\ \A i, j \in 1..Len(plan) :
           i < j /\ Judged(plan[i]) /\ Listing(plan[j]) => plan[i].family # plan[j].family
    /\ \E i \in 1..Len(plan) : Judged(plan[i]) /\ plan[i].family = "session"
    /\ \A i \in 1..Len(plan) : plan[i].judge = "measure" =>
           /\ measure \in DOMAIN Pairs /\ i - 3 \in 1..CampaignCases(measure)
           /\ plan[i] = Measurement(i - 3, measure)
    /\ \A i \in 1..Len(plan) : plan[i].judge \in {"measure", "campaign"} => measure # "none"
    /\ measure # "none" =>
           /\ measure \in DOMAIN Pairs
           /\ Len(plan) = 4 + CampaignCases(measure)
           /\ plan[Len(plan)].judge = "campaign"
           /\ \A o \in 1..CampaignCases(measure) : plan[o + 3] = Measurement(o, measure)

LEMMA PlanIsKnown ==
  ASSUME NEW measure \in {"none"} \cup DOMAIN Pairs
  PROVE  PlanKnown(measure, Plan(measure))
<1> DEFINE plan == Plan(measure)
<1>1. CASE measure = "none"
  <2>1. PICK body : /\ Piece(Usual, body, Families, Families)
                    /\ PlanOf("none", body)
                    /\ \E i \in 1..Len(body) : Judged(body[i]) /\ body[i].family = "session"
    BY OwnerPlan
  <2>2. plan = body
    BY <1>1, <2>1 DEF PlanOf
  <2>3. \A i \in 1..Len(body) : body[i].judge \notin {"campaign", "measure"}
    BY <2>1 DEF Piece, Usual
  <2> QED
    BY <1>1, <2>1, <2>2, <2>3 DEF PlanKnown, Piece
<1>2. CASE measure # "none"
  <2> DEFINE n == CampaignCases(measure)
  <2>1. PICK body : /\ Piece(Usual \cup {"measure"}, body, Families, Families)
                    /\ PlanOf(measure, body)
                    /\ MeasuredBody(measure, body)
    BY <1>2, MeasuredPlan
  <2>2. plan = body \o <<CampaignReport>>
    BY <1>2, <2>1 DEF PlanOf
  <2>3. n \in Nat \ {0} /\ measure \in DOMAIN Pairs
    BY <1>2, ConditionsCount
  <2>4. IsSeq(body) /\ Len(body) = 3 + n
    BY <2>1 DEF Piece, MeasuredBody
  <2>5. IsSeq(<<CampaignReport>>) /\ Len(<<CampaignReport>>) = 1 /\ <<CampaignReport>>[1] = CampaignReport
    <3>1. <<CampaignReport>> \in Seq({CampaignReport}) /\ Len(<<CampaignReport>>) = 1
          /\ <<CampaignReport>>[1] = CampaignReport
      OBVIOUS
    <3> QED
      BY <3>1, AnySeqIsSeq
  <2>6. IsSeq(plan) /\ Len(plan) = 4 + n /\ (\A i \in 1..3 + n : plan[i] = body[i])
        /\ plan[4 + n] = CampaignReport
    <3>1. /\ IsSeq(plan) /\ Len(plan) = Len(body) + Len(<<CampaignReport>>)
          /\ \A i \in 1..Len(body) : plan[i] = body[i]
          /\ \A i \in 1..Len(<<CampaignReport>>) : plan[i + Len(body)] = <<CampaignReport>>[i]
      BY <2>2, <2>4, <2>5, SeqsJoin
    <3> QED
      BY <2>3, <2>4, <2>5, <3>1
  <2> HIDE DEF plan, n
  <2>7. CampaignReport.judge = "campaign"
    BY DEF CampaignReport, Item
  <2>8. ASSUME NEW i \in 1..Len(plan)
        PROVE  \/ i = 4 + n /\ plan[i] = CampaignReport
               \/ i \in 1..3 + n /\ plan[i] = body[i] /\ plan[i].judge # "campaign"
    <3>1. i = 4 + n \/ i \in 1..3 + n
      BY <2>3, <2>6
    <3>2. \A k \in 1..3 + n : body[k].judge # "campaign"
      BY <2>1, <2>4 DEF Piece, Usual
    <3> QED
      BY <2>6, <3>1, <3>2
  <2>9. ASSUME NEW i \in 1..Len(plan), plan[i].judge = "measure"
        PROVE  i - 3 \in 1..n /\ plan[i] = Measurement(i - 3, measure)
    <3>1. i \in 1..3 + n /\ plan[i] = body[i]
      BY <2>7, <2>8, <2>9
    <3>2. i \notin 1..3
      BY <2>1, <2>9, <3>1 DEF MeasuredBody, Judged
    <3>3. i - 3 \in 1..n /\ i = (i - 3) + 3
      BY <2>3, <3>1, <3>2
    <3>4. \A o \in 1..n : body[o + 3] = Measurement(o, measure)
      BY <2>1 DEF MeasuredBody, n
    <3>5. body[(i - 3) + 3] = Measurement(i - 3, measure)
      BY <3>3, <3>4
    <3> QED
      BY <3>1, <3>3, <3>5
  <2>10. \A o \in 1..n : plan[o + 3] = Measurement(o, measure)
    <3> TAKE o \in 1..n
    <3>1. o + 3 \in 1..3 + n
      BY <2>3
    <3>2. body[o + 3] = Measurement(o, measure)
      BY <2>1 DEF MeasuredBody, n
    <3> QED
      BY <2>6, <3>1, <3>2
  <2>11. \A i \in 1..Len(plan) : Judged(plan[i]) \/ Listing(plan[i])
            => i \in 1..Len(body) /\ plan[i] = body[i]
    BY <2>4, <2>7, <2>8 DEF Judged, Listing
  <2>12. \A i \in 1..Len(plan) : Judged(plan[i]) \/ Listing(plan[i]) => plan[i].family \in Families
    BY <2>1, <2>11 DEF Piece
  <2>13. \A i, j \in 1..Len(plan) :
            i < j /\ Judged(plan[i]) /\ Listing(plan[j]) => plan[i].family # plan[j].family
    BY <2>1, <2>11 DEF Piece
  <2>14. \E i \in 1..Len(plan) : Judged(plan[i]) /\ plan[i].family = "session"
    <3>1. 4 \in 1..Len(plan) /\ 1 \in 1..n
      BY <2>3, <2>6
    <3>2. plan[4] = Measurement(1, measure)
      BY <2>10, <3>1
    <3> QED
      BY <3>1, <3>2 DEF Measurement, Judged
  <2>15. \A i \in 1..Len(plan) : plan[i].judge = "campaign" => i = Len(plan)
    BY <2>6, <2>8
  <2>16. plan[Len(plan)].judge = "campaign"
    BY <2>6, <2>7
  <2> QED
    BY <1>2, <2>3, <2>6, <2>9, <2>10, <2>12, <2>13, <2>14, <2>15, <2>16 DEF PlanKnown, n, plan
<1> QED
  BY <1>1, <1>2

-----------------------------------------------------------------------------
(* What a measurement is asked to do.                                        *)

LEMMA RemainderIsIndex ==
  ASSUME NEW x \in Nat, NEW n \in Nat \ {0}
  PROVE  x \div n \in Nat /\ (x % n) + 1 \in 1..n
OBVIOUS

(* The work of a phase is of the conditions of the campaign.                 *)
Workable(work, measure) ==
    /\ work.rate \in RangeOf(Rates) /\ work.load \in RangeOf(Loads)
    /\ work.kind \in RangeOf(Kinds)
    /\ work.updates = Updates[measure] /\ work.updates \in 1..MaxUpdates
    /\ work.pair \in 1..Pairs[measure]
    /\ work.wire \in {"current-ipc", "9p2000.L"}

LEMMA WorkIsWorkable ==
  ASSUME NEW ordinal \in Nat \ {0}, NEW measure \in DOMAIN Pairs
  PROVE  Workable(WorkOf(ordinal, measure), measure)
<1> DEFINE n == ordinal - 1
           pairs == Pairs[measure]
           pair == ((n \div 2) % pairs) + 1
           condition == (n \div 2) \div pairs
           first == condition \div Len(Loads)
           second == first \div Len(Rates)
<1>1. /\ Len(Loads) \in Nat \ {0} /\ Len(Rates) \in Nat \ {0} /\ Len(Kinds) \in Nat \ {0}
      /\ DOMAIN Loads = 1..Len(Loads) /\ DOMAIN Rates = 1..Len(Rates)
      /\ DOMAIN Kinds = 1..Len(Kinds)
  BY ConditionAssumption, EmptySeq
<1>2. pairs \in Nat \ {0} /\ Updates[measure] \in 1..MaxUpdates
  BY PlanAssumption
<1>3. n \div 2 \in Nat /\ (n % 2) + 1 \in 1..2
  <2>1. n \in Nat /\ 2 \in Nat \ {0}
    OBVIOUS
  <2> QED
    BY <2>1, RemainderIsIndex
<1>4. pair \in 1..pairs /\ condition \in Nat
  BY <1>2, <1>3, RemainderIsIndex
<1>5. /\ (condition % Len(Loads)) + 1 \in DOMAIN Loads
      /\ first \in Nat
  BY <1>1, <1>4, RemainderIsIndex
<1>6. (first % Len(Rates)) + 1 \in DOMAIN Rates /\ second \in Nat
  BY <1>1, <1>5, RemainderIsIndex
<1>7. (second % Len(Kinds)) + 1 \in DOMAIN Kinds
  BY <1>1, <1>6, RemainderIsIndex
<1>8. WireOrder(pair)[(n % 2) + 1] \in {"current-ipc", "9p2000.L"}
  BY <1>3 DEF WireOrder
<1>9. /\ WorkOf(ordinal, measure).rate = Rates[(first % Len(Rates)) + 1]
      /\ WorkOf(ordinal, measure).load = Loads[(condition % Len(Loads)) + 1]
      /\ WorkOf(ordinal, measure).kind = Kinds[(second % Len(Kinds)) + 1]
      /\ WorkOf(ordinal, measure).updates = Updates[measure]
      /\ WorkOf(ordinal, measure).pair = pair
      /\ WorkOf(ordinal, measure).wire = WireOrder(pair)[(n % 2) + 1]
  BY DEF WorkOf
<1> HIDE DEF n, pairs, pair, condition, first, second
<1> QED
  BY <1>2, <1>4, <1>5, <1>6, <1>7, <1>8, <1>9 DEF Workable, RangeOf, pairs
-----------------------------------------------------------------------------
(* Induction over the naturals, from the well-foundedness of their order.    *)

LEMMA LeastNatural ==
  ASSUME NEW T, T \subseteq Nat, T # {}
  PROVE  \E n \in T : \A m \in T : n <= m
<1> DEFINE Less == OpToRel(<, Nat)
<1>1. IsWellFoundedOn(Less, Nat)
  BY NatLessThanWellFounded, Zenon
<1> HIDE DEF Less
<1>2. PICK n \in T : \A m \in T : ~(<<m, n>> \in Less)
  BY <1>1, WFMin
<1>3. \A m \in T : ~(m < n)
  BY <1>2 DEF Less, OpToRel
<1> QED
  BY <1>2, <1>3

LEMMA EveryNatural ==
  ASSUME NEW P, P \subseteq Nat, 0 \in P, \A n \in P : n + 1 \in P
  PROVE  P = Nat
<1>1. CASE Nat \ P # {}
  <2>1. PICK n \in Nat \ P : \A m \in Nat \ P : n <= m
    BY <1>1, LeastNatural
  <2>2. n # 0 /\ n - 1 \in Nat
    BY <2>1
  <2>3. n - 1 \in P
    BY <2>1, <2>2
  <2> QED
    BY <2>1, <2>3
<1> QED
  BY <1>1

-----------------------------------------------------------------------------
(* The overlay that prepare lays (overlay.rs and legacy.rs, apply).          *)

LEMMA LaidIs ==
  ASSUME NEW files, NEW tree
  PROVE  /\ DOMAIN Laid(files, tree) = DOMAIN files \cup DOMAIN tree
         /\ \A p \in DOMAIN files : Laid(files, tree)[p] = files[p]
         /\ \A p \in DOMAIN tree \ DOMAIN files : Laid(files, tree)[p] = tree[p]
BY DEF Laid

(* One recipe on a tree.                                                     *)
OneMount(mount, tree, after) ==
    /\ DOMAIN after = DOMAIN tree \cup {mount.destination}
    /\ after[mount.destination] = mount.contents
    /\ after[mount.parent] = tree[mount.parent] \o mount.lines
    /\ \A p \in DOMAIN tree \ {mount.parent} : after[p] = tree[p]

LEMMA MountAppliedIs ==
  ASSUME NEW mount, NEW tree, mount.parent \in DOMAIN tree, mount.destination \notin DOMAIN tree
  PROVE  OneMount(mount, tree, MountApplied(mount, tree))
<1> DEFINE copied == [p \in {mount.destination} |-> mount.contents]
           grown  == [tree EXCEPT ![mount.parent] = @ \o mount.lines]
<1>1. DOMAIN copied = {mount.destination} /\ copied[mount.destination] = mount.contents
  OBVIOUS
<1>2. /\ DOMAIN grown = DOMAIN tree
      /\ grown[mount.parent] = tree[mount.parent] \o mount.lines
      /\ \A p \in DOMAIN tree \ {mount.parent} : grown[p] = tree[p]
  OBVIOUS
<1>3. MountApplied(mount, tree) = Laid(copied, grown)
  BY DEF MountApplied
<1>4. mount.parent # mount.destination
  OBVIOUS
<1> HIDE DEF copied, grown
<1>5. /\ DOMAIN Laid(copied, grown) = DOMAIN copied \cup DOMAIN grown
      /\ \A p \in DOMAIN copied : Laid(copied, grown)[p] = copied[p]
      /\ \A p \in DOMAIN grown \ DOMAIN copied : Laid(copied, grown)[p] = grown[p]
  BY LaidIs
<1> DEFINE laid == Laid(copied, grown)
<1>6. /\ DOMAIN laid = DOMAIN tree \cup {mount.destination}
      /\ laid[mount.destination] = mount.contents
      /\ laid[mount.parent] = tree[mount.parent] \o mount.lines
  BY <1>1, <1>2, <1>4, <1>5
<1>7. \A p \in DOMAIN tree \ {mount.parent} : laid[p] = tree[p]
  BY <1>1, <1>2, <1>5
<1> QED
  BY <1>3, <1>6, <1>7 DEF OneMount

(* The files that the first n recipes copy, and those they append to.        *)
Copied(n) == {Mounts[m].destination : m \in 1..n}
Grown(n) == {Mounts[m].parent : m \in 1..n}

(* A tree that the recipes can start from.                                   *)
Mountable(start) ==
    /\ \A p \in Grown(Len(Mounts)) : p \in DOMAIN start /\ IsSeq(start[p])
    /\ Copied(Len(Mounts)) \cap Grown(Len(Mounts)) = {}

(* What the first n recipes made of it when all of them fitted.              *)
Mounted(start, n, after) ==
    after.fits =>
        /\ DOMAIN after.tree = DOMAIN start \cup Copied(n)
        /\ Copied(n) \cap DOMAIN start = {}
        /\ \A m \in 1..n : after.tree[Mounts[m].destination] = Mounts[m].contents
        /\ \A p \in DOMAIN start \ Grown(n) : after.tree[p] = start[p]
        /\ \A p \in Grown(n) : /\ IsSeq(after.tree[p])
                               /\ Len(after.tree[p]) > Len(start[p])

WithRecipe(before, n) ==
    [tree |-> MountApplied(Mounts[n], before.tree),
     fits |-> before.fits /\ MountFits(Mounts[n], before.tree)]

LEMMA RecipesAre ==
  /\ Len(Mounts) \in Nat /\ DOMAIN Mounts = 1..Len(Mounts)
  /\ \A m \in 1..Len(Mounts) : IsSeq(Mounts[m].lines) /\ Len(Mounts[m].lines) > 0
<1> DEFINE Recipe == [destination : STRING, contents : Seq(STRING), parent : STRING,
                      anchor : STRING, lines : Seq(STRING) \ {<<>>}]
<1>1. Mounts \in Seq(Recipe)
  BY OverlayAssumption
<1>2. ASSUME NEW recipe \in Recipe PROVE IsSeq(recipe.lines) /\ Len(recipe.lines) > 0
  <2>1. recipe.lines \in Seq(STRING) /\ recipe.lines # <<>>
    OBVIOUS
  <2> QED
    BY <2>1, AnySeqIsSeq
<1> HIDE DEF Recipe
<1> QED
  BY <1>1, <1>2

LEMMA MountedOnce ==
  ASSUME NEW start, Mountable(start), NEW n \in 1..Len(Mounts), NEW before,
         Mounted(start, n - 1, before)
  PROVE  Mounted(start, n, WithRecipe(before, n))
<1> DEFINE mount == Mounts[n]
           tree == before.tree
           after == MountApplied(mount, tree)
<1>1. SUFFICES ASSUME before.fits, MountFits(mount, tree)
               PROVE  Mounted(start, n, [tree |-> after, fits |-> TRUE])
  BY DEF Mounted, WithRecipe
<1>2. /\ n - 1 \in Nat /\ 1..n = (1..n - 1) \cup {n}
      /\ \A m \in 1..n - 1 : m \in 1..Len(Mounts)
  BY RecipesAre
<1>3. /\ Copied(n) = Copied(n - 1) \cup {mount.destination}
      /\ Grown(n) = Grown(n - 1) \cup {mount.parent}
      /\ Copied(n) \subseteq Copied(Len(Mounts)) /\ Grown(n) \subseteq Grown(Len(Mounts))
  BY <1>2 DEF Copied, Grown
<1>4. /\ DOMAIN tree = DOMAIN start \cup Copied(n - 1)
      /\ Copied(n - 1) \cap DOMAIN start = {}
      /\ \A m \in 1..n - 1 : tree[Mounts[m].destination] = Mounts[m].contents
      /\ \A p \in DOMAIN start \ Grown(n - 1) : tree[p] = start[p]
      /\ \A p \in Grown(n - 1) : IsSeq(tree[p]) /\ Len(tree[p]) > Len(start[p])
  BY <1>1 DEF Mounted
<1>5. /\ mount.parent \in DOMAIN start /\ IsSeq(start[mount.parent])
      /\ mount.destination \notin DOMAIN tree
  BY <1>1, <1>3 DEF Mountable, MountFits
<1>6. /\ DOMAIN after = DOMAIN tree \cup {mount.destination}
      /\ after[mount.destination] = mount.contents
      /\ after[mount.parent] = tree[mount.parent] \o mount.lines
      /\ \A p \in DOMAIN tree \ {mount.parent} : after[p] = tree[p]
  <2>1. mount.parent \in DOMAIN tree
    BY <1>4, <1>5
  <2>2. mount.destination \notin DOMAIN tree
    BY <1>5
  <2>3. OneMount(mount, tree, after)
    BY <2>1, <2>2, MountAppliedIs
  <2> QED
    BY <2>3 DEF OneMount
<1> HIDE DEF after
<1>7. IsSeq(after[mount.parent]) /\ Len(after[mount.parent]) > Len(start[mount.parent])
  <2>1. /\ IsSeq(tree[mount.parent]) /\ Len(tree[mount.parent]) >= Len(start[mount.parent])
        /\ Len(tree[mount.parent]) \in Nat /\ Len(start[mount.parent]) \in Nat
    <3>1. CASE mount.parent \in Grown(n - 1)
      <4>1. IsSeq(tree[mount.parent]) /\ Len(tree[mount.parent]) > Len(start[mount.parent])
        BY <1>4, <3>1
      <4>2. Len(tree[mount.parent]) \in Nat /\ Len(start[mount.parent]) \in Nat
        BY <1>5, <4>1 DEF IsSeq
      <4> QED
        BY <4>1, <4>2
    <3>2. CASE mount.parent \notin Grown(n - 1)
      <4>1. tree[mount.parent] = start[mount.parent]
        BY <1>4, <1>5, <3>2
      <4>2. Len(start[mount.parent]) \in Nat
        BY <1>5 DEF IsSeq
      <4> QED
        BY <1>5, <4>1, <4>2
    <3> QED
      BY <3>1, <3>2
  <2>2. IsSeq(mount.lines) /\ Len(mount.lines) > 0 /\ Len(mount.lines) \in Nat
    BY RecipesAre DEF IsSeq
  <2>3. /\ IsSeq(after[mount.parent])
        /\ Len(after[mount.parent]) = Len(tree[mount.parent]) + Len(mount.lines)
    BY <1>6, <2>1, <2>2, SeqsJoin, SMTT(30)
  <2>4. \A a, b, c \in Nat : a >= b /\ c > 0 => a + c > b
    OBVIOUS
  <2> QED
    BY <2>1, <2>2, <2>3, <2>4
<1>8. \A m \in 1..n : after[Mounts[m].destination] = Mounts[m].contents
  <2>1. ASSUME NEW m \in 1..n - 1 PROVE after[Mounts[m].destination] = Mounts[m].contents
    <3>1. Mounts[m].destination \in Copied(n - 1) /\ Mounts[m].destination \in Copied(Len(Mounts))
      BY <1>2 DEF Copied
    <3>2. Mounts[m].destination # mount.parent
      BY <1>3, <3>1 DEF Mountable
    <3> QED
      BY <1>4, <1>6, <3>1, <3>2
  <2> QED
    BY <1>2, <1>6, <2>1
<1>9. \A p \in DOMAIN start \ Grown(n) : after[p] = start[p]
  BY <1>3, <1>4, <1>6
<1>10. \A p \in Grown(n) : IsSeq(after[p]) /\ Len(after[p]) > Len(start[p])
  <2>1. ASSUME NEW p \in Grown(n - 1), p # mount.parent
        PROVE  IsSeq(after[p]) /\ Len(after[p]) > Len(start[p])
    <3>1. p \in DOMAIN tree
      BY <1>3, <1>4 DEF Mountable
    <3> QED
      BY <1>4, <1>6, <2>1, <3>1
  <2> QED
    BY <1>3, <1>7, <2>1
<1> QED
  BY <1>3, <1>4, <1>5, <1>6, <1>8, <1>9, <1>10 DEF Mounted

(* The trees after each recipe: there is such a function, so that the        *)
(* recursive definition of Applied is one.                                   *)
Recipes(start, n, after) ==
    after = [k \in 0..n |-> IF k = 0 THEN [tree |-> start, fits |-> TRUE]
                            ELSE WithRecipe(after[k - 1], k)]

LEMMA RecipesExist ==
  ASSUME NEW start, NEW n \in Nat
  PROVE  \E after : Recipes(start, n, after)
<1> DEFINE first == [tree |-> start, fits |-> TRUE]
           P == {k \in Nat : \E after : Recipes(start, k, after)}
<1> HIDE DEF first
<1>1. 0 \in P
  <2> DEFINE after == [k \in 0..0 |-> first]
  <2>1. after = [k \in 0..0 |-> IF k = 0 THEN first ELSE WithRecipe(after[k - 1], k)]
    OBVIOUS
  <2> QED
    BY <2>1 DEF Recipes, first
<1>2. ASSUME NEW k \in P PROVE k + 1 \in P
  <2>1. PICK before : before = [j \in 0..k |-> IF j = 0 THEN first
                                              ELSE WithRecipe(before[j - 1], j)]
    BY <1>2 DEF Recipes, first
  <2> DEFINE after == [j \in 0..k + 1 |-> IF j = k + 1 THEN WithRecipe(before[k], k + 1)
                                          ELSE before[j]]
  <2>2. k \in Nat /\ \A j \in 0..k : after[j] = before[j]
    OBVIOUS
  <2>3. ASSUME NEW j \in 0..k + 1
        PROVE  after[j] = IF j = 0 THEN first ELSE WithRecipe(after[j - 1], j)
    <3>1. CASE j = k + 1
      <4>1. j - 1 = k /\ j # 0 /\ after[j - 1] = before[k]
        BY <2>2, <3>1
      <4> QED
        BY <3>1, <4>1
    <3>2. CASE j # k + 1
      <4>1. j \in 0..k /\ (j # 0 => j - 1 \in 0..k)
        BY <2>2, <3>2
      <4>2. before[j] = IF j = 0 THEN first ELSE WithRecipe(before[j - 1], j)
        BY <2>1, <4>1
      <4>3. after[j] = before[j] /\ (j # 0 => after[j - 1] = before[j - 1])
        BY <2>2, <4>1
      <4> HIDE DEF after
      <4> QED
        BY <4>2, <4>3
    <3> QED
      BY <3>1, <3>2
  <2>4. after = [j \in 0..k + 1 |-> after[j]]
    OBVIOUS
  <2> HIDE DEF after
  <2>5. after = [j \in 0..k + 1 |-> IF j = 0 THEN first ELSE WithRecipe(after[j - 1], j)]
    BY <2>3, <2>4
  <2> QED
    BY <2>2, <2>5 DEF Recipes, first
<1>3. P = Nat
  <2> P \subseteq Nat
    OBVIOUS
  <2> HIDE DEF P
  <2> QED
    BY <1>1, <1>2, EveryNatural
<1> QED
  BY <1>3

LEMMA AppliedMounts ==
  ASSUME NEW start, Mountable(start)
  PROVE  Mounted(start, Len(Mounts), Applied(start))
<1> DEFINE after == CHOOSE f : Recipes(start, Len(Mounts), f)
           P == {n \in Nat : n <= Len(Mounts) => Mounted(start, n, after[n])}
<1>1. Applied(start) = after[Len(Mounts)]
  BY DEF Applied, Recipes, WithRecipe
<1>2. Recipes(start, Len(Mounts), after)
  BY RecipesAre, RecipesExist
<1> HIDE DEF after
<1>3. 0 \in P
  <2>1. after[0] = [tree |-> start, fits |-> TRUE]
    BY <1>2, RecipesAre DEF Recipes
  <2> QED
    BY <2>1 DEF Mounted, Copied, Grown
<1>4. ASSUME NEW n \in P PROVE n + 1 \in P
  <2>1. CASE n + 1 <= Len(Mounts)
    <3>1. /\ n + 1 \in 1..Len(Mounts) /\ n + 1 \in 0..Len(Mounts) /\ n + 1 # 0
          /\ (n + 1) - 1 = n /\ n <= Len(Mounts)
      BY <2>1, RecipesAre
    <3>2. after[n + 1] = WithRecipe(after[n], n + 1)
      BY <1>2, <3>1 DEF Recipes
    <3>3. Mounted(start, (n + 1) - 1, after[n])
      BY <3>1
    <3>4. Mounted(start, n + 1, after[n + 1])
      BY <3>1, <3>2, <3>3, MountedOnce
    <3> QED
      BY <3>4
  <2> QED
    BY <2>1
<1>5. P = Nat
  <2> P \subseteq Nat
    OBVIOUS
  <2> HIDE DEF P
  <2> QED
    BY <1>3, <1>4, EveryNatural
<1> QED
  BY <1>1, <1>5, RecipesAre

(* A context is replaced by something else.                                  *)
LEMMA ReplacedDiffers ==
  ASSUME NEW content, IsSeq(content), NEW context, NEW replacement, IsSeq(replacement),
         replacement # <<context>>, Occurrences(context, content) = 1
  PROVE  Replaced(content, context, replacement) # content
<1> DEFINE at == CHOOSE i \in DOMAIN content : content[i] = context
           before == SubSeq(content, 1, at - 1)
           after == SubSeq(content, at + 1, Len(content))
           S == RangeOf(content)
<1>1. \E i \in DOMAIN content : content[i] = context
  <2>1. CASE {i \in DOMAIN content : content[i] = context} = {}
    BY <2>1, FS_EmptySet DEF Occurrences
  <2> QED
    BY <2>1
<1>2. at \in DOMAIN content /\ content[at] = context
  BY <1>1
<1>3. content \in Seq(S) /\ Len(content) \in Nat /\ at \in 1..Len(content)
  BY <1>2 DEF IsSeq
<1> HIDE DEF at, S
<1>4. before \in Seq(S) /\ Len(before) = at - 1
  BY <1>3
<1>5. after \in Seq(S) /\ Len(after) = Len(content) - at
  BY <1>3
<1>6. Replaced(content, context, replacement) = before \o replacement \o after
  BY DEF Replaced, at
<1> HIDE DEF before, after
<1>7. IsSeq(before) /\ IsSeq(after) /\ Len(replacement) \in Nat
  BY <1>4, <1>5, AnySeqIsSeq DEF IsSeq
<1>8. /\ IsSeq(before \o replacement) /\ Len(before \o replacement) = at - 1 + Len(replacement)
      /\ \A i \in 1..Len(replacement) : (before \o replacement)[i + (at - 1)] = replacement[i]
  BY <1>4, <1>7, SeqsJoin
<1>9. /\ Len(before \o replacement \o after) = Len(content) - 1 + Len(replacement)
      /\ \A i \in 1..at - 1 + Len(replacement) :
             (before \o replacement \o after)[i] = (before \o replacement)[i]
  <2>1. Len(before \o replacement \o after) = Len(before \o replacement) + Len(after)
    BY <1>7, <1>8, SeqsJoin
  <2>2. \A i \in 1..Len(before \o replacement) :
            (before \o replacement \o after)[i] = (before \o replacement)[i]
    BY <1>7, <1>8, SeqsJoin
  <2> QED
    BY <1>3, <1>5, <1>7, <1>8, <2>1, <2>2
<1>10. CASE Len(replacement) # 1
  <2>1. Len(content) - 1 + Len(replacement) # Len(content)
    <3>1. \A a, b \in Nat : b # 1 => a - 1 + b # a
      OBVIOUS
    <3> QED
      BY <1>3, <1>7, <1>10, <3>1
  <2> QED
    BY <1>6, <1>9, <2>1
<1>11. CASE Len(replacement) = 1
  <2>1. replacement[1] # context
    <3>1. replacement = <<replacement[1]>>
      BY <1>11 DEF IsSeq
    <3> QED
      BY <3>1
  <2>2. (before \o replacement)[1 + (at - 1)] = replacement[1] /\ 1 + (at - 1) = at
    BY <1>3, <1>8, <1>11
  <2>3. (before \o replacement \o after)[at] = replacement[1]
    <3>1. at \in 1..at - 1 + Len(replacement)
      BY <1>3, <1>11
    <3> QED
      BY <1>9, <2>2, <3>1
  <2> QED
    BY <1>2, <1>6, <2>1, <2>3
<1> QED
  BY <1>10, <1>11

PinnedTree == Scratch.tree
Added == DependenciesAdded(FixturesInstalled(PinnedTree))
Amended == {Dependencies[d].path : d \in DOMAIN Dependencies}
Parents == Grown(Len(Mounts))
Copies == Copied(Len(Mounts))

(* What the assumptions and the checks of the source say of the paths.       *)
PathsApart ==
    /\ DOMAIN Fixtures \cap DOMAIN PinnedTree = {} /\ Edited \subseteq DOMAIN PinnedTree
    /\ MountPath # QidPath /\ Edited = {MountPath, QidPath} \cup Amended
    /\ {MountPath, QidPath} \cap Amended = {}
    /\ Parents \subseteq DOMAIN PinnedTree \ Edited /\ Copies \cap DOMAIN PinnedTree = {}
    /\ \A p \in DOMAIN PinnedTree : IsSeq(PinnedTree[p])

LEMMA SourcePaths == ASSUME ValidSource(Scratch) PROVE PathsApart
<1>1. PinnedTree = CommitTree[Compatibility.sophia_commit]
  BY DEF PinnedTree, Scratch
<1>2. \A p \in DOMAIN PinnedTree : PinnedTree[p] \in Seq(STRING)
  BY <1>1, OverlayAssumption
<1>3. \A p \in DOMAIN PinnedTree : IsSeq(PinnedTree[p])
  BY <1>2, AnySeqIsSeq
<1>4. DOMAIN Fixtures \cap DOMAIN PinnedTree = {} /\ ValidMounts(PinnedTree)
  BY DEF ValidSource, PinnedTree
<1>5. Edited \subseteq DOMAIN PinnedTree /\ {MountPath, QidPath} \cap Amended = {}
  BY <1>1, OverlayAssumption DEF Amended
<1>6. Parents \subseteq DOMAIN PinnedTree \ Edited
  BY <1>4, OverlayAssumption, RecipesAre DEF Parents, Grown, ValidMounts
<1>7. Copies \cap DOMAIN PinnedTree = {}
  BY <1>4, RecipesAre DEF Copies, Copied, ValidMounts
<1> QED
  BY <1>3, <1>4, <1>5, <1>6, <1>7, OverlayAssumption DEF PathsApart, Edited, Amended

LEMMA AddedIs ==
  ASSUME PathsApart, DependenciesFit(FixturesInstalled(PinnedTree))
  PROVE  /\ DOMAIN Added = DOMAIN Fixtures \cup DOMAIN PinnedTree
         /\ \A p \in DOMAIN PinnedTree \ Edited : Added[p] = PinnedTree[p]
         /\ \A p \in Edited : Added[p] # PinnedTree[p]
<1> DEFINE based == FixturesInstalled(PinnedTree)
           mounted == [PinnedTree EXCEPT ![MountPath] = @ \o MountText, ![QidPath] = @ \o QidText]
<1>1. based = Laid(Fixtures, mounted)
  BY DEF FixturesInstalled
<1>2. DOMAIN mounted = DOMAIN PinnedTree
  OBVIOUS
<1>3. \A p \in DOMAIN PinnedTree \ {MountPath, QidPath} : mounted[p] = PinnedTree[p]
  OBVIOUS
<1>4. \A p \in {MountPath, QidPath} : mounted[p] # PinnedTree[p]
  <2>1. /\ IsSeq(MountText) /\ Len(MountText) \in Nat /\ Len(MountText) > 0
        /\ IsSeq(QidText) /\ Len(QidText) \in Nat /\ Len(QidText) > 0
    BY OverlayAssumption, AnySeqIsSeq
  <2>2. IsSeq(PinnedTree[MountPath]) /\ IsSeq(PinnedTree[QidPath])
    BY DEF PathsApart
  <2>3. /\ mounted[MountPath] = PinnedTree[MountPath] \o MountText
        /\ mounted[QidPath] = PinnedTree[QidPath] \o QidText
    BY DEF PathsApart
  <2> HIDE DEF mounted
  <2>4. \A s, t : IsSeq(s) /\ IsSeq(t) /\ Len(t) > 0 => s \o t # s
    <3>1. SUFFICES ASSUME NEW s, NEW t, IsSeq(s), IsSeq(t), Len(t) > 0
                   PROVE  Len(s \o t) # Len(s)
      OBVIOUS
    <3>2. Len(s) \in Nat /\ Len(t) \in Nat
      BY <3>1 DEF IsSeq
    <3> QED
      BY <3>1, <3>2, SeqsJoin
  <2> QED
    BY <2>1, <2>2, <2>3, <2>4
<1> HIDE DEF mounted
<1>5. /\ DOMAIN based = DOMAIN Fixtures \cup DOMAIN PinnedTree
      /\ \A p \in DOMAIN PinnedTree : based[p] = mounted[p]
  <2>1. /\ DOMAIN Laid(Fixtures, mounted) = DOMAIN Fixtures \cup DOMAIN mounted
        /\ \A p \in DOMAIN mounted \ DOMAIN Fixtures : Laid(Fixtures, mounted)[p] = mounted[p]
    BY LaidIs
  <2> HIDE DEF based
  <2> QED
    BY <1>1, <1>2, <2>1 DEF PathsApart
<1> HIDE DEF based
<1>6. DOMAIN Added = DOMAIN based
  BY DEF Added, DependenciesAdded, based
<1>7. \A p \in DOMAIN based \ Amended : Added[p] = based[p]
  BY DEF Added, DependenciesAdded, Amended, based
<1>8. ASSUME NEW p \in Amended PROVE Added[p] # PinnedTree[p]
  <2> DEFINE d == CHOOSE d \in DOMAIN Dependencies : Dependencies[d].path = p
  <2>1. p \in DOMAIN PinnedTree /\ p \notin {MountPath, QidPath}
    BY DEF PathsApart
  <2>2. d \in DOMAIN Dependencies /\ Dependencies[d].path = p
    BY DEF Amended
  <2>3. based[p] = PinnedTree[p]
    BY <1>3, <1>5, <2>1
  <2>4. Added[p] = Replaced(based[p], Dependencies[d].context, Dependencies[d].replacement)
    BY <1>5, <2>1, <2>2 DEF Added, DependenciesAdded, based
  <2> HIDE DEF d
  <2>5. /\ Dependencies[d].replacement \in Seq(STRING)
        /\ Dependencies[d].replacement # <<Dependencies[d].context>>
    BY <2>2, OverlayAssumption
  <2>6. IsSeq(Dependencies[d].replacement) /\ IsSeq(PinnedTree[p])
    BY <2>1, <2>5, AnySeqIsSeq DEF PathsApart
  <2>7. Occurrences(Dependencies[d].context, PinnedTree[p]) = 1
    BY <2>2, <2>3 DEF DependenciesFit, based
  <2> QED
    BY <2>3, <2>4, <2>5, <2>6, <2>7, ReplacedDiffers
<1> QED
  BY <1>3, <1>4, <1>5, <1>6, <1>7, <1>8 DEF PathsApart

(* The manifest of an overlay that could be laid names the files of the      *)
(* scratch that differ from the pinned commit, and no other.                 *)
Differing(tree) == {p \in DOMAIN tree : p \notin DOMAIN PinnedTree \/ tree[p] # PinnedTree[p]}

LEMMA ManifestNamesTheOverlay ==
  ASSUME Prepared.fits
  PROVE  Prepared.files =
             {[path |-> p, content |-> Prepared.tree[p]] : p \in Differing(Prepared.tree)}
<1> DEFINE tree == Applied(Added).tree
<1>1. /\ ValidSource(Scratch) /\ DependenciesFit(FixturesInstalled(PinnedTree))
      /\ Applied(Added).fits /\ Prepared.tree = tree
      /\ Prepared.files = {[path |-> p, content |-> Added[p]] : p \in DOMAIN Fixtures \cup Edited}
                              \cup MountFiles(tree)
  BY DEF Prepared, Added, PinnedTree
<1>2. PathsApart
  BY <1>1, SourcePaths
<1>3. /\ DOMAIN Added = DOMAIN Fixtures \cup DOMAIN PinnedTree
      /\ \A p \in DOMAIN PinnedTree \ Edited : Added[p] = PinnedTree[p]
      /\ \A p \in Edited : Added[p] # PinnedTree[p]
  BY <1>1, <1>2, AddedIs
<1>4. Mountable(Added)
  BY <1>2, <1>3 DEF Mountable, PathsApart, Parents, Copies
<1>5. Mounted(Added, Len(Mounts), Applied(Added))
  BY <1>4, AppliedMounts
<1>6. /\ DOMAIN tree = DOMAIN Added \cup Copies /\ Copies \cap DOMAIN Added = {}
      /\ \A m \in 1..Len(Mounts) : tree[Mounts[m].destination] = Mounts[m].contents
      /\ \A p \in DOMAIN Added \ Parents : tree[p] = Added[p]
      /\ \A p \in Parents : IsSeq(tree[p]) /\ Len(tree[p]) > Len(Added[p])
  BY <1>1, <1>5 DEF Mounted, Parents, Copies
<1> HIDE DEF tree
<1>7. \A p \in Parents : tree[p] # PinnedTree[p]
  <2>1. ASSUME NEW p \in Parents PROVE tree[p] # PinnedTree[p]
    <3>1. Added[p] = PinnedTree[p] /\ Len(PinnedTree[p]) \in Nat
      BY <1>2, <1>3 DEF PathsApart, IsSeq
    <3> QED
      BY <1>6, <3>1
  <2> QED
    BY <2>1
<1>8. \A p \in DOMAIN Fixtures \cup Edited : p \in DOMAIN tree /\ tree[p] = Added[p]
  BY <1>2, <1>3, <1>6 DEF PathsApart
<1>9. Differing(tree) = DOMAIN Fixtures \cup Edited \cup Copies \cup Parents
  <2>1. ASSUME NEW p \in DOMAIN Fixtures \cup Edited \cup Copies \cup Parents
        PROVE  p \in Differing(tree)
    BY <1>2, <1>3, <1>6, <1>7, <1>8 DEF PathsApart, Differing
  <2>2. ASSUME NEW p \in DOMAIN PinnedTree \ (Edited \cup Parents) PROVE tree[p] = PinnedTree[p]
    BY <1>2, <1>3, <1>6 DEF PathsApart
  <2>3. Differing(tree) \subseteq DOMAIN Fixtures \cup Edited \cup Copies \cup Parents
    BY <1>3, <1>6, <2>2 DEF Differing
  <2> QED
    BY <2>1, <2>3
<1>10. MountFiles(tree) = {[path |-> p, content |-> tree[p]] : p \in Copies \cup Parents}
  <2>1. DOMAIN Mounts = 1..Len(Mounts)
    BY RecipesAre
  <2>2. {[path |-> Mounts[m].destination, content |-> Mounts[m].contents] : m \in DOMAIN Mounts}
           = {[path |-> p, content |-> tree[p]] : p \in Copies}
    BY <1>6, <2>1 DEF Copies, Copied
  <2>3. {[path |-> Mounts[m].parent, content |-> tree[Mounts[m].parent]] : m \in DOMAIN Mounts}
           = {[path |-> p, content |-> tree[p]] : p \in Parents}
    BY <2>1 DEF Parents, Grown
  <2> QED
    BY <2>2, <2>3 DEF MountFiles
<1>11. {[path |-> p, content |-> Added[p]] : p \in DOMAIN Fixtures \cup Edited}
          = {[path |-> p, content |-> tree[p]] : p \in DOMAIN Fixtures \cup Edited}
  BY <1>8
<1> QED
  BY <1>1, <1>9, <1>10, <1>11

-----------------------------------------------------------------------------
(* What a worker leaves that passes.                                         *)

(* An entry whose value has the type of its key.                             *)
Typed(entry) ==
    \/ entry.key \in StringKeys \ U64Keys /\ entry.value.type = "string"
    \/ entry.key \in U64Keys \ StringKeys /\ entry.value.type = "u64"

LEMMA TypedIsValid ==
  ASSUME NEW sample, \A entry \in sample : Typed(entry)
  PROVE  ValidSample(sample)
BY DEF Typed, ValidSample

LEMMA MeminfoIsTyped ==
  ASSUME NEW file, NEW entry \in MeminfoEntries(file)
  PROVE  Typed(entry) /\ entry.key[1] = "meminfo"
<1> DEFINE text == Recorded("meminfo", "unavailable", Text)
           number(key, n) == Recorded("meminfo", key, Number(n))
<1>1. \/ entry = text
      \/ entry = number("dirty_kb", TheLine(file, "Dirty").value)
      \/ entry = number("writeback_kb", TheLine(file, "Writeback").value)
  BY DEF MeminfoEntries
<1>2. Typed(text) /\ text.key[1] = "meminfo"
  BY DEF Typed, Recorded, Text, StringKeys, U64Keys
<1>3. ASSUME NEW key \in {"dirty_kb", "writeback_kb"}, NEW n
      PROVE  Typed(number(key, n)) /\ number(key, n).key[1] = "meminfo"
  BY <1>3 DEF Typed, Recorded, Number, StringKeys, U64Keys
<1> HIDE DEF text, number
<1> QED
  BY <1>1, <1>2, <1>3

LEMMA PressureIsTyped ==
  ASSUME NEW resource \in {"io", "cpu", "memory"}, NEW file,
         NEW entry \in PressureEntries(resource, file)
  PROVE  Typed(entry) /\ entry.key[1] = resource
<1> DEFINE text(key) == Recorded(resource, key, Text)
           number(key, n) == Recorded(resource, key, Number(n))
<1>1. \/ entry = text("unavailable") \/ entry = text("some_avg10") \/ entry = text("full_avg10")
      \/ entry = number("some_total", TheLine(file, "some").total)
      \/ entry = number("full_total", TheLine(file, "full").total)
  BY DEF PressureEntries
<1>2. ASSUME NEW key \in {"unavailable", "some_avg10", "full_avg10"}
      PROVE  Typed(text(key)) /\ text(key).key[1] = resource
  BY <1>2 DEF Typed, Recorded, Text, StringKeys, U64Keys
<1>3. ASSUME NEW key \in {"some_total", "full_total"}, NEW n
      PROVE  Typed(number(key, n)) /\ number(key, n).key[1] = resource
  BY <1>3 DEF Typed, Recorded, Number, StringKeys, U64Keys
<1> HIDE DEF text, number
<1> QED
  BY <1>1, <1>2, <1>3

(* Whatever the kernel shows, what is sampled of it is accepted.             *)
LEMMA SampledIsValid ==
  ASSUME NEW clock, NEW proc
  PROVE  /\ ValidSample(SampleEnvironment(clock, proc))
         /\ Clocks(SampleEnvironment(clock, proc)) = {clock}
<1> DEFINE sample == SampleEnvironment(clock, proc)
           time == Recorded("clock", "monotonic_ns", Number(clock))
<1>1. Typed(time) /\ time.key = <<"clock", "monotonic_ns">> /\ time.value.value = clock
  BY DEF Typed, Recorded, Number, StringKeys, U64Keys
<1>2. \A entry \in sample : entry = time \/ (Typed(entry) /\ entry.key[1] # "clock")
  <2> TAKE entry \in sample
  <2>1. \/ entry = time \/ entry \in MeminfoEntries(proc.meminfo)
        \/ entry \in PressureEntries("io", proc.io)
        \/ entry \in PressureEntries("cpu", proc.cpu)
        \/ entry \in PressureEntries("memory", proc.memory)
    BY DEF SampleEnvironment
  <2> HIDE DEF time, sample
  <2>2. "meminfo" # "clock" /\ "io" # "clock" /\ "cpu" # "clock" /\ "memory" # "clock"
    OBVIOUS
  <2> QED
    BY <2>1, <2>2, MeminfoIsTyped, PressureIsTyped
<1>3. time \in sample
  BY DEF SampleEnvironment
<1> HIDE DEF time, sample
<1>4. ValidSample(sample)
  BY <1>1, <1>2, TypedIsValid
<1>5. {e \in sample : e.key = <<"clock", "monotonic_ns">>} = {time}
  <2>1. \A entry \in sample : entry.key[1] # "clock" => entry.key # <<"clock", "monotonic_ns">>
    OBVIOUS
  <2> QED
    BY <1>1, <1>2, <1>3, <2>1
<1>6. Clocks(sample) = {clock}
  BY <1>1, <1>5 DEF Clocks
<1> QED
  BY <1>4, <1>6 DEF sample

Environment(proc) ==
    [sources |-> Sources, start |-> SampleEnvironment(0, proc), end |-> SampleEnvironment(1, proc)]

LEMMA EnvironmentIsValid ==
  ASSUME NEW proc
  PROVE  ValidEnvironment(Environment(proc))
<1>1. /\ Environment(proc).sources = Sources
      /\ Environment(proc).start = SampleEnvironment(0, proc)
      /\ Environment(proc).end = SampleEnvironment(1, proc)
  BY DEF Environment
<1> QED
  BY <1>1, SampledIsValid DEF ValidEnvironment

(* The leap years before a year, as days_from_civil counts them.             *)
LeapsBefore(year) == (year - 1) \div 4 - (year - 1) \div 100 + (year - 1) \div 400

LEMMA OneMoreLeap ==
  ASSUME NEW year \in Nat
  PROVE  LeapsBefore(year + 1) = LeapsBefore(year) + IF Leap(year) THEN 1 ELSE 0
<1>1. /\ (year - 1) \div 4 = IF year % 4 = 0 THEN year \div 4 - 1 ELSE year \div 4
      /\ (year - 1) \div 100 = IF year % 100 = 0 THEN year \div 100 - 1 ELSE year \div 100
      /\ (year - 1) \div 400 = IF year % 400 = 0 THEN year \div 400 - 1 ELSE year \div 400
  OBVIOUS
<1>2. (year + 1) - 1 = year
  OBVIOUS
<1>3. (year % 400 = 0 => year % 100 = 0) /\ (year % 100 = 0 => year % 4 = 0)
  OBVIOUS
<1>4. year \div 4 \in Int /\ year \div 100 \in Int /\ year \div 400 \in Int
  OBVIOUS
<1> QED
  BY <1>1, <1>2, <1>3, <1>4 DEF LeapsBefore, Leap

LEMMA LeapsAreCounted ==
  ASSUME NEW n \in Nat
  PROVE  /\ IsFiniteSet(LeapYears(1970 + n))
         /\ Cardinality(LeapYears(1970 + n)) = LeapsBefore(1970 + n) - LeapsBefore(1970)
         /\ Cardinality(LeapYears(1970 + n)) \in Nat
<1> DEFINE leaps(m) == LeapYears(1970 + m)
           CountedTo(m) == /\ IsFiniteSet(leaps(m))
                           /\ Cardinality(leaps(m)) = LeapsBefore(1970 + m) - LeapsBefore(1970)
                           /\ Cardinality(leaps(m)) \in Nat
           P == {m \in Nat : CountedTo(m)}
<1>1. LeapsBefore(1970) \in Int /\ \A m \in Nat : LeapsBefore(1970 + m) \in Int
  BY DEF LeapsBefore
<1>2. CountedTo(0)
  <2>1. leaps(0) = {}
    BY DEF LeapYears
  <2> QED
    BY <1>1, <2>1, FS_EmptySet
<1>3. ASSUME NEW m \in Nat, CountedTo(m) PROVE CountedTo(m + 1)
  <2>1. LeapsBefore(1970 + (m + 1)) = LeapsBefore(1970 + m) + IF Leap(1970 + m) THEN 1 ELSE 0
    <3>1. 1970 + m \in Nat /\ (1970 + m) + 1 = 1970 + (m + 1)
      OBVIOUS
    <3> QED
      BY <3>1, OneMoreLeap
  <2>2. leaps(m + 1) = IF Leap(1970 + m) THEN leaps(m) \cup {1970 + m} ELSE leaps(m)
    <3>1. 1970..1970 + (m + 1) - 1 = (1970..1970 + m - 1) \cup {1970 + m}
      OBVIOUS
    <3> QED
      BY <3>1 DEF LeapYears
  <2>3. 1970 + m \notin leaps(m)
    BY DEF LeapYears
  <2> HIDE DEF leaps
  <2>4. CASE Leap(1970 + m)
    <3>1. IsFiniteSet(leaps(m + 1)) /\ Cardinality(leaps(m + 1)) = Cardinality(leaps(m)) + 1
      BY <1>3, <2>2, <2>3, <2>4, FS_AddElement
    <3> QED
      BY <1>1, <1>3, <2>1, <2>4, <3>1
  <2>5. CASE ~Leap(1970 + m)
    BY <1>1, <1>3, <2>1, <2>2, <2>5
  <2> QED
    BY <2>4, <2>5
<1> HIDE DEF CountedTo
<1>4. 0 \in P /\ (\A m \in P : m + 1 \in P) /\ P \subseteq Nat
  BY <1>2, <1>3
<1>5. P = Nat
  BY <1>4, EveryNatural
<1>6. CountedTo(n)
  BY <1>5
<1> QED
  BY <1>6 DEF CountedTo

(* The code's count of days and the calendar's are the same.                 *)
LEMMA DaysAreCounted ==
  ASSUME NEW date, date[1] \in Int, date[1] >= 1970, date[2] \in 1..12, date[3] \in Int
  PROVE  DaysOf(date) \in Int /\ DayNumber(date) = DaysOf(date) + 1
<1> DEFINE Y == date[1]
           M == date[2]
           D == date[3]
           march == IF M <= 2 THEN Y - 1 ELSE Y
           doy == (153 * (M + IF M > 2 THEN -3 ELSE 9) + 2) \div 5 + D - 1
<1>1. DaysOf(date) = (march \div 400) * 146097
         + ((march - (march \div 400) * 400) * 365 + (march - (march \div 400) * 400) \div 4
             - (march - (march \div 400) * 400) \div 100 + doy) - 719468
  BY DEF DaysOf
<1>2. march \in Nat /\ doy \in Int
  OBVIOUS
<1>3. \A m, d \in Int : m >= 0 =>
        (m \div 400) * 146097 + ((m - (m \div 400) * 400) * 365 + (m - (m \div 400) * 400) \div 4
             - (m - (m \div 400) * 400) \div 100 + d) - 719468
          = 365 * m + m \div 4 - m \div 100 + m \div 400 + d - 719468
  OBVIOUS
<1>4. DaysOf(date) = 365 * march + march \div 4 - march \div 100 + march \div 400 + doy - 719468
  <2> HIDE DEF march, doy
  <2> QED
    BY <1>1, <1>2, <1>3
<1>5. 365 * march + march \div 4 - march \div 100 + march \div 400
        = IF M <= 2 THEN 365 * Y - 365 + LeapsBefore(Y)
          ELSE 365 * Y + LeapsBefore(Y) + IF Leap(Y) THEN 1 ELSE 0
  <2>1. Y \in Nat /\ LeapsBefore(Y + 1) = LeapsBefore(Y) + IF Leap(Y) THEN 1 ELSE 0
    BY OneMoreLeap
  <2>2. LeapsBefore(Y + 1) = Y \div 4 - Y \div 100 + Y \div 400
    BY DEF LeapsBefore
  <2>3. LeapsBefore(Y) \in Int
    BY DEF LeapsBefore
  <2> QED
    BY <2>1, <2>2, <2>3 DEF LeapsBefore
<1>6. doy = MonthBegins[M] + D - 1 + IF M <= 2 THEN 306 ELSE -59
  BY DEF MonthBegins
<1>7. Cardinality(LeapYears(Y)) = LeapsBefore(Y) - 477
  <2>1. Y - 1970 \in Nat /\ 1970 + (Y - 1970) = Y
    OBVIOUS
  <2>2. LeapsBefore(1970) = 477
    BY DEF LeapsBefore
  <2>3. \A n \in Nat : Cardinality(LeapYears(1970 + n)) = LeapsBefore(1970 + n) - 477
    BY <2>2, LeapsAreCounted
  <2> QED
    BY <2>1, <2>3
<1>8. LeapsBefore(Y) \in Int /\ MonthBegins[M] \in Int
  BY DEF LeapsBefore, MonthBegins
<1>9. DayNumber(date) = 365 * (Y - 1970) + (LeapsBefore(Y) - 477)
                           + (MonthBegins[M] + D + IF Leap(Y) /\ M > 2 THEN 1 ELSE 0)
  BY <1>7 DEF DayNumber, DayOfYear
<1> HIDE DEF march, doy
<1> QED
  BY <1>2, <1>4, <1>5, <1>6, <1>8, <1>9

(* Stamps are empty or instants.                                             *)
Stamped(saves) ==
    \A i \in 1..Len(saves) :
        /\ saves[i] \in Stamp
        /\ saves[i].date # <<>> => ParsesStamp(saves[i]) /\ saves[i].date[1] >= 1970

LEMMA GapIsElapsed ==
  ASSUME NEW before \in Stamp, NEW after \in Stamp,
         ParsesStamp(before), ParsesStamp(after),
         before.date[1] >= 1970, after.date[1] >= 1970
  PROVE  Gap(before, after) \in Nat /\ Gap(before, after) = Elapsed(before, after)
<1>1. \A save \in Stamp : ParsesStamp(save) =>
        /\ save.date[1] \in Int /\ save.date[2] \in 1..12 /\ save.date[3] \in Int
        /\ save.time[1] \in Int /\ save.time[2] \in Int /\ save.time[3] \in Int
        /\ save.offset \in Int
  <2> SUFFICES ASSUME NEW save \in Stamp, ParsesStamp(save)
               PROVE  /\ save.date[1] \in Int /\ save.date[2] \in 1..12 /\ save.date[3] \in Int
                      /\ save.time[1] \in Int /\ save.time[2] \in Int /\ save.time[3] \in Int
                      /\ save.offset \in Int
    OBVIOUS
  <2>1. save.date \in Seq(Nat) /\ Len(save.date) = 3 /\ save.date[2] \in 1..12
    BY DEF Stamp, ParsesStamp
  <2>2. save.time \in Nat \X Nat \X Nat /\ save.offset \in Int
    BY DEF Stamp
  <2> QED
    BY <2>1, <2>2, SMTT(30)
<1>2. /\ DaysOf(before.date) \in Int /\ DayNumber(before.date) = DaysOf(before.date) + 1
      /\ DaysOf(after.date) \in Int /\ DayNumber(after.date) = DaysOf(after.date) + 1
  BY <1>1, DaysAreCounted
<1>3. StampSeconds(before) \in Int /\ StampSeconds(after) \in Int
  BY <1>1, <1>2 DEF StampSeconds
<1>4. (DayNumber(after.date) - DayNumber(before.date)) * 86400
        + (after.time[1] * 3600 + after.time[2] * 60 + after.time[3] - after.offset * 60)
        - (before.time[1] * 3600 + before.time[2] * 60 + before.time[3] - before.offset * 60)
        = StampSeconds(after) - StampSeconds(before)
  BY <1>1, <1>2 DEF StampSeconds
<1>5. Elapsed(before, after) =
        IF StampSeconds(after) - StampSeconds(before) >= 0
        THEN StampSeconds(after) - StampSeconds(before) ELSE 0
  BY <1>4 DEF Elapsed
<1> QED
  BY <1>3, <1>5 DEF Gap

(* Of finitely many numbers one is the largest.                              *)
LEMMA OneIsLargest ==
  ASSUME NEW k \in Nat \ {0}, NEW f \in [1..k -> Int]
  PROVE  \E i \in 1..k : \A j \in 1..k : f[j] <= f[i]
<1> DEFINE Largest(m) == \E i \in 1..m : \A j \in 1..m : f[j] <= f[i]
           P == {m \in Nat : m + 1 <= k => Largest(m + 1)}
<1>1. 0 \in P
  OBVIOUS
<1>2. ASSUME NEW m \in P PROVE m + 1 \in P
  <2> SUFFICES ASSUME m + 2 <= k PROVE Largest(m + 2)
    BY <1>2
  <2>1. PICK i \in 1..m + 1 : \A j \in 1..m + 1 : f[j] <= f[i]
    BY <1>2
  <2>2. f[m + 2] \in Int /\ \A j \in 1..m + 2 : f[j] \in Int
    BY <1>2
  <2>3. \A j \in 1..m + 2 : j \in 1..m + 1 \/ j = m + 2
    BY <1>2
  <2>4. CASE f[m + 2] <= f[i]
    BY <1>2, <2>1, <2>3, <2>4
  <2>5. CASE f[m + 2] > f[i]
    <3>1. \A j \in 1..m + 2 : f[j] <= f[m + 2]
      BY <1>2, <2>1, <2>2, <2>3, <2>5
    <3>2. m + 2 \in 1..m + 2
      BY <1>2
    <3> QED
      BY <3>1, <3>2
  <2> QED
    BY <1>2, <2>1, <2>2, <2>4, <2>5
<1>3. P = Nat
  <2> HIDE DEF Largest
  <2> QED
    BY <1>1, <1>2, EveryNatural
<1>4. k - 1 \in P
  <2> HIDE DEF P
  <2> QED
    BY <1>3
<1> QED
  BY <1>4

(* The largest gap of a log is the longest time between two of its saves,    *)
(* and absent when there is none or a stamp is empty.                        *)
LEMMA GapsAreElapsed ==
  ASSUME NEW saves, IsSeq(saves), Stamped(saves)
  PROVE  LET gap == CheckpointGaps(saves).checkpoint_max_gap_ms
             steps == {Elapsed(saves[j], saves[j + 1]) : j \in 1..Len(saves) - 1}
         IN  IF (\A j \in DOMAIN saves : saves[j].date # <<>>) /\ steps # {}
             THEN gap \in steps /\ \A step \in steps : step <= gap
             ELSE gap = Absent
<1> DEFINE n == Len(saves)
           gaps == {Gap(saves[i], saves[i + 1]) : i \in 1..n - 1}
           gap == CheckpointGaps(saves).checkpoint_max_gap_ms
           steps == {Elapsed(saves[j], saves[j + 1]) : j \in 1..n - 1}
           dated == \A j \in DOMAIN saves : saves[j].date # <<>>
<1>1. n \in Nat /\ DOMAIN saves = 1..n
  BY DEF IsSeq
<1>2. gap = IF n < 2 \/ \E i \in DOMAIN saves : ~ParsesStamp(saves[i]) THEN Absent
            ELSE CHOOSE g \in gaps : \A other \in gaps : other <= g
  BY DEF CheckpointGaps
<1>3. \A i \in 1..n : ParsesStamp(saves[i]) <=> saves[i].date # <<>>
  <2> SUFFICES ASSUME NEW i \in 1..n PROVE ParsesStamp(saves[i]) => saves[i].date # <<>>
    BY DEF Stamped
  <2> QED
    BY DEF ParsesStamp
<1>4. steps = {} <=> n < 2
  <2>1. CASE n < 2
    BY <1>1, <2>1
  <2>2. CASE n >= 2
    <3>1. 1 \in 1..n - 1
      BY <1>1, <2>2
    <3> QED
      BY <1>1, <2>2, <3>1
  <2> QED
    BY <1>1, <2>1, <2>2
<1>5. CASE ~(dated /\ n >= 2)
  BY <1>1, <1>2, <1>3, <1>4, <1>5
<1>6. CASE dated /\ n >= 2
  <2>1. \A i \in 1..n - 1 :
            /\ Gap(saves[i], saves[i + 1]) \in Nat
            /\ Gap(saves[i], saves[i + 1]) = Elapsed(saves[i], saves[i + 1])
    <3> TAKE i \in 1..n - 1
    <3>1. i \in 1..n /\ i + 1 \in 1..n
      BY <1>1
    <3> QED
      BY <1>1, <1>3, <1>6, <3>1, GapIsElapsed DEF Stamped
  <2>2. gaps = steps
    BY <2>1
  <2> DEFINE f == [i \in 1..n - 1 |-> Gap(saves[i], saves[i + 1])]
  <2>3. n - 1 \in Nat \ {0} /\ f \in [1..n - 1 -> Int]
    BY <1>1, <1>6, <2>1
  <2>4. PICK m \in 1..n - 1 : \A j \in 1..n - 1 : f[j] <= f[m]
    <3> HIDE DEF f
    <3> QED
      BY <2>3, OneIsLargest
  <2>5. \E g \in gaps : \A other \in gaps : other <= g
    <3>1. f[m] \in gaps
      OBVIOUS
    <3>2. \A other \in gaps : other <= f[m]
      BY <2>4
    <3> QED
      BY <3>1, <3>2
  <2>6. gap = CHOOSE g \in gaps : \A other \in gaps : other <= g
    <3>1. ~(n < 2 \/ \E i \in DOMAIN saves : ~ParsesStamp(saves[i]))
      BY <1>1, <1>3, <1>6
    <3> HIDE DEF gaps, gap
    <3> QED
      BY <1>2, <3>1
  <2> HIDE DEF gaps, gap, steps
  <2>7. gap \in gaps /\ \A other \in gaps : other <= gap
    BY <2>5, <2>6
  <2> QED
    BY <1>4, <1>6, <2>2, <2>7 DEF gap, steps
<1> HIDE DEF gaps
<1> QED
  BY <1>1, <1>5, <1>6

(* A number is known by its quotient and its remainder, and a number below a *)
(* product has a quotient below the factor.                                  *)
LEMMA RemainderIs ==
  ASSUME NEW n \in Nat \ {0}, NEW x \in Nat
  PROVE  x % n = x - n * (x \div n)
BY Z3

LEMMA QuotientAndRemainder ==
  ASSUME NEW n \in Nat \ {0}, NEW x \in Nat, NEW y \in Nat,
         x \div n = y \div n, x % n = y % n
  PROVE  x = y
<1> DEFINE q == x \div n
           p == n * q
<1>1. q \in Nat /\ p \in Int
  OBVIOUS
<1>2. x % n = x - p /\ y % n = y - p
  BY RemainderIs
<1> HIDE DEF p
<1> QED
  BY <1>1, <1>2

LEMMA QuotientBound ==
  ASSUME NEW n \in Nat \ {0}, NEW k \in Nat \ {0}, NEW x \in Nat, x < n * k
  PROVE  x \div n \in Nat /\ x \div n < k
<1> DEFINE q == x \div n
<1>1. q \in Nat /\ n * q <= x
  OBVIOUS
<1> HIDE DEF q
<1>2. CASE q >= k
  <2>1. PICK d \in Nat : q = k + d
    <3>1. q - k \in Nat /\ q = k + (q - k)
      BY <1>1, <1>2
    <3> QED
      BY <3>1
  <2>2. n * q = n * k + n * d /\ n * d \in Nat /\ n * k \in Nat
    BY <2>1
  <2> QED
    BY <1>1, <2>2
<1> QED
  BY <1>1, <1>2 DEF q

LEMMA RemainderOfSmall ==
  ASSUME NEW n \in Nat \ {0}, NEW x \in Nat, x < n
  PROVE  x % n = x
OBVIOUS

(* What a case of a campaign is the key of.                                  *)
WorkKey(work) == <<work.kind, work.rate, work.load, work.pair>>

PairOf(ordinal) == (ordinal - 1) \div 2

(* Two cases have a key in common if they are the two of one pair of a       *)
(* condition, and only then.                                                 *)
LEMMA KeyIsPair ==
  ASSUME NEW measure \in DOMAIN Pairs,
         NEW i \in 1..CampaignCases(measure), NEW j \in 1..CampaignCases(measure)
  PROVE  WorkKey(WorkOf(i, measure)) = WorkKey(WorkOf(j, measure)) <=> PairOf(i) = PairOf(j)
<1> DEFINE pairs == Pairs[measure]
           l == Len(Loads)
           r == Len(Rates)
           k == Len(Kinds)
           condition(n) == n \div pairs
           first(n) == condition(n) \div l
           second(n) == first(n) \div r
           key(n) == <<Kinds[(second(n) % k) + 1], Rates[(first(n) % r) + 1],
                       Loads[(condition(n) % l) + 1], (n % pairs) + 1>>
<1>1. /\ l \in Nat \ {0} /\ r \in Nat \ {0} /\ k \in Nat \ {0}
      /\ DOMAIN Loads = 1..l /\ DOMAIN Rates = 1..r /\ DOMAIN Kinds = 1..k
  BY ConditionAssumption, EmptySeq
<1>2. pairs \in Nat \ {0}
  BY PlanAssumption
<1>3. \A o : WorkKey(WorkOf(o, measure)) = key(PairOf(o))
  BY DEF WorkKey, WorkOf, PairOf
<1>4. CampaignCases(measure) = 2 * pairs * l * r * k
  BY DEF CampaignCases
<1> DEFINE c == l * (r * k)
<1>5. r * k \in Nat \ {0} /\ c \in Nat \ {0} /\ pairs * c \in Nat \ {0}
      /\ CampaignCases(measure) = 2 * (pairs * c)
  <2> HIDE DEF pairs, l, r, k
  <2>1. r * k \in Nat \ {0}
    BY <1>1, ProductCounts
  <2>2. c \in Nat \ {0}
    BY <1>1, <2>1, ProductCounts
  <2>3. pairs * c \in Nat \ {0}
    BY <1>2, <2>2, ProductCounts
  <2>4. 2 * pairs * l * r * k = 2 * (pairs * (l * (r * k)))
    BY <1>1, <1>2
  <2> QED
    BY <1>4, <2>1, <2>2, <2>3, <2>4
<1> HIDE DEF pairs, l, r, k
<1>6. ASSUME NEW o \in 1..CampaignCases(measure)
      PROVE  /\ PairOf(o) \in Nat
             /\ condition(PairOf(o)) \in Nat
             /\ first(PairOf(o)) \in Nat
             /\ second(PairOf(o)) \in Nat /\ second(PairOf(o)) < k
  <2>1. CampaignCases(measure) \in Nat /\ o - 1 \in Nat /\ o - 1 < 2 * (pairs * c)
    BY <1>5, <1>6
  <2>2. PairOf(o) \in Nat /\ PairOf(o) < pairs * c
    BY <1>5, <2>1, QuotientBound DEF PairOf
  <2> HIDE DEF c
  <2>3. condition(PairOf(o)) \in Nat /\ condition(PairOf(o)) < c
    BY <1>2, <1>5, <2>2, QuotientBound
  <2> HIDE DEF condition
  <2>4. first(PairOf(o)) \in Nat /\ first(PairOf(o)) < r * k
    BY <1>1, <1>5, <2>3, QuotientBound DEF c
  <2> HIDE DEF first
  <2>5. second(PairOf(o)) \in Nat /\ second(PairOf(o)) < k
    BY <1>1, <2>4, QuotientBound
  <2> QED
    BY <2>2, <2>3, <2>4, <2>5
<1> DEFINE x == PairOf(i)
           y == PairOf(j)
<1>7. ASSUME key(x) = key(y) PROVE x = y
  <2>1. /\ Kinds[(second(x) % k) + 1] = Kinds[(second(y) % k) + 1]
        /\ Rates[(first(x) % r) + 1] = Rates[(first(y) % r) + 1]
        /\ Loads[(condition(x) % l) + 1] = Loads[(condition(y) % l) + 1]
        /\ (x % pairs) + 1 = (y % pairs) + 1
    BY <1>7
  <2>2. /\ x \in Nat /\ condition(x) \in Nat /\ first(x) \in Nat
        /\ second(x) \in Nat /\ second(x) < k
        /\ y \in Nat /\ condition(y) \in Nat /\ first(y) \in Nat
        /\ second(y) \in Nat /\ second(y) < k
    BY <1>6
  <2>3. second(x) % k = second(x) /\ second(y) % k = second(y)
    <3> HIDE DEF second
    <3> QED
      BY <1>1, <2>2, RemainderOfSmall
  <2>4. second(x) = second(y)
    <3> HIDE DEF second
    <3>1. second(x) + 1 \in DOMAIN Kinds /\ second(y) + 1 \in DOMAIN Kinds
      BY <1>1, <2>2, SMTT(30)
    <3>2. second(x) + 1 = second(y) + 1
      BY <2>1, <2>3, <3>1, ConditionAssumption DEF IsInjective
    <3> QED
      BY <2>2, <3>2
  <2>5. first(x) = first(y)
    <3> HIDE DEF first
    <3>1. (first(x) % r) + 1 \in DOMAIN Rates /\ (first(y) % r) + 1 \in DOMAIN Rates
          /\ first(x) % r \in Nat /\ first(y) % r \in Nat
      <4>1. \A a \in Nat, b \in Nat \ {0} : a % b \in Nat
        OBVIOUS
      <4> QED
        BY <1>1, <2>2, <4>1, RemainderIsIndex
    <3>2. (first(x) % r) + 1 = (first(y) % r) + 1
      BY <2>1, <3>1, ConditionAssumption DEF IsInjective
    <3>3. first(x) % r = first(y) % r
      BY <3>1, <3>2
    <3> QED
      BY <1>1, <2>2, <2>4, <3>3, QuotientAndRemainder
  <2>6. condition(x) = condition(y)
    <3> HIDE DEF condition
    <3>1. (condition(x) % l) + 1 \in DOMAIN Loads /\ (condition(y) % l) + 1 \in DOMAIN Loads
          /\ condition(x) % l \in Nat /\ condition(y) % l \in Nat
      <4>1. \A a \in Nat, b \in Nat \ {0} : a % b \in Nat
        OBVIOUS
      <4> QED
        BY <1>1, <2>2, <4>1, RemainderIsIndex
    <3>2. (condition(x) % l) + 1 = (condition(y) % l) + 1
      BY <2>1, <3>1, ConditionAssumption DEF IsInjective
    <3>3. condition(x) % l = condition(y) % l
      BY <3>1, <3>2
    <3> QED
      BY <1>1, <2>2, <2>5, <3>3, QuotientAndRemainder
  <2>7. x % pairs = y % pairs
    BY <1>2, <2>1, <2>2
  <2> QED
    BY <1>2, <2>2, <2>6, <2>7, QuotientAndRemainder
<1>8. WorkKey(WorkOf(i, measure)) = key(x) /\ WorkKey(WorkOf(j, measure)) = key(y)
  BY <1>3
<1>9. x = y => key(x) = key(y)
  OBVIOUS
<1> HIDE DEF key
<1> QED
  BY <1>7, <1>8, <1>9

(* In a pair that alternates, each wire has one capture, so that OnWire is   *)
(* that capture.                                                             *)
LEMMA PairHasBothWires ==
  ASSUME NEW runs, NEW group, PairAlternates(runs, group)
  PROVE  \E a, b : /\ group = {a, b}
                   /\ runs[a].sha256.wire = "current-ipc"
                   /\ runs[b].sha256.wire = "9p2000.L"
                   /\ OnWire(runs, group, "current-ipc") = runs[a].sha256
                   /\ OnWire(runs, group, "9p2000.L") = runs[b].sha256
<1>1. PICK i \in group :
        /\ group = {i, i + 1}
        /\ <<runs[i].sha256.wire, runs[i + 1].sha256.wire>> = WireOrder(runs[i].pair)
  BY DEF PairAlternates
<1>2. PICK a, b : /\ group = {a, b}
                  /\ runs[a].sha256.wire = "current-ipc"
                  /\ runs[b].sha256.wire = "9p2000.L"
  <2>1. \/ <<runs[i].sha256.wire, runs[i + 1].sha256.wire>> = <<"current-ipc", "9p2000.L">>
        \/ <<runs[i].sha256.wire, runs[i + 1].sha256.wire>> = <<"9p2000.L", "current-ipc">>
    BY <1>1 DEF WireOrder
  <2>2. CASE runs[i].sha256.wire = "current-ipc" /\ runs[i + 1].sha256.wire = "9p2000.L"
    BY <1>1, <2>2
  <2>3. CASE runs[i].sha256.wire = "9p2000.L" /\ runs[i + 1].sha256.wire = "current-ipc"
    <3>1. group = {i + 1, i}
      BY <1>1
    <3> QED
      BY <2>3, <3>1
  <2> QED
    BY <2>1, <2>2, <2>3
<1>3. \A k \in group : runs[k].sha256.wire = "current-ipc" => k = a
  BY <1>2
<1>4. \A k \in group : runs[k].sha256.wire = "9p2000.L" => k = b
  BY <1>2
<1>5. (CHOOSE k \in group : runs[k].sha256.wire = "current-ipc") = a
  BY <1>2, <1>3
<1>6. (CHOOSE k \in group : runs[k].sha256.wire = "9p2000.L") = b
  BY <1>2, <1>4
<1> QED
  BY <1>2, <1>5, <1>6 DEF OnWire

(* The entry of a case as it was planned, of a capture that can be read.     *)
AsPlanned(entry, work) ==
    /\ entry.ordinal = work.ordinal /\ entry.path = work.ordinal
    /\ entry.pair = work.pair /\ entry.load = work.load
    /\ CommandedWorkload(entry.sha256, work)
    /\ Readable(entry) /\ Answered(entry.sha256)

WholeCampaign(runs, measure) ==
    /\ DOMAIN runs = 1..CampaignCases(measure)
    /\ \A i \in DOMAIN runs : AsPlanned(runs[i], WorkOf(i, measure))

GroupOf(q) == {2 * q + 1, 2 * q + 2}

LEMMA PairIndices ==
  ASSUME NEW i \in Nat \ {0}, NEW q \in Nat
  PROVE  /\ PairOf(i) \in Nat
         /\ PairOf(i) = q <=> i \in GroupOf(q)
BY DEF PairOf, GroupOf

LEMMA CampaignCount ==
  ASSUME NEW measure \in DOMAIN Pairs
  PROVE  \E n \in Nat \ {0} : CampaignCases(measure) = 2 * n
<1> DEFINE l == Len(Loads)
           r == Len(Rates)
           k == Len(Kinds)
           pairs == Pairs[measure]
<1>1. l \in Nat \ {0} /\ r \in Nat \ {0} /\ k \in Nat \ {0} /\ pairs \in Nat \ {0}
  BY ConditionAssumption, PlanAssumption, EmptySeq
<1>2. CampaignCases(measure) = 2 * pairs * l * r * k
  BY DEF CampaignCases
<1> HIDE DEF l, r, k, pairs
<1>3. pairs * l \in Nat \ {0}
  BY <1>1, ProductCounts
<1>4. pairs * l * r \in Nat \ {0}
  BY <1>1, <1>3, ProductCounts
<1>5. pairs * l * r * k \in Nat \ {0}
  BY <1>1, <1>4, ProductCounts
<1>6. 2 * pairs * l * r * k = 2 * (pairs * l * r * k)
  BY <1>1
<1> QED
  BY <1>2, <1>5, <1>6

(* The key of an entry is that of its work.                                  *)
LEMMA PlannedKey ==
  ASSUME NEW entry, NEW work, AsPlanned(entry, work)
  PROVE  Key(entry) = WorkKey(work)
BY DEF AsPlanned, CommandedWorkload, Key, WorkKey

(* The groups of a whole campaign are its pairs.                             *)
LEMMA GroupsArePairs ==
  ASSUME NEW measure \in DOMAIN Pairs, NEW runs, WholeCampaign(runs, measure),
         NEW n \in Nat, CampaignCases(measure) = 2 * n
  PROVE  Groups(runs) = {GroupOf(q) : q \in 0..n - 1}
<1> DEFINE same(j) == {i \in DOMAIN runs : Key(runs[i]) = Key(runs[j])}
<1>1. DOMAIN runs = 1..2 * n
  BY DEF WholeCampaign
<1>2. \A j \in DOMAIN runs : Key(runs[j]) = WorkKey(WorkOf(j, measure))
  BY PlannedKey DEF WholeCampaign
<1>3. ASSUME NEW j \in DOMAIN runs
      PROVE  PairOf(j) \in 0..n - 1 /\ same(j) = GroupOf(PairOf(j))
  <2>1. j \in 1..2 * n
    BY <1>1
  <2>2. PairOf(j) \in 0..n - 1
    BY <2>1 DEF PairOf
  <2>3. \A i \in DOMAIN runs : Key(runs[i]) = Key(runs[j]) <=> i \in GroupOf(PairOf(j))
    <3> TAKE i \in DOMAIN runs
    <3>1. i \in 1..CampaignCases(measure) /\ j \in 1..CampaignCases(measure)
          /\ i \in Nat \ {0}
      BY <1>1
    <3>2. WorkKey(WorkOf(i, measure)) = WorkKey(WorkOf(j, measure)) <=> PairOf(i) = PairOf(j)
      BY <3>1, KeyIsPair
    <3>3. PairOf(i) = PairOf(j) <=> i \in GroupOf(PairOf(j))
      BY <2>2, <3>1, PairIndices
    <3> QED
      BY <1>2, <3>2, <3>3
  <2>4. GroupOf(PairOf(j)) \subseteq DOMAIN runs
    <3>1. \A q \in 0..n - 1 : {2 * q + 1, 2 * q + 2} \subseteq 1..2 * n
      OBVIOUS
    <3> QED
      BY <1>1, <2>2, <3>1 DEF GroupOf
  <2> QED
    BY <2>2, <2>3, <2>4
<1>4. ASSUME NEW q \in 0..n - 1
      PROVE  2 * q + 1 \in DOMAIN runs /\ PairOf(2 * q + 1) = q
  BY <1>1 DEF PairOf
<1>5. Groups(runs) = {same(j) : j \in DOMAIN runs}
  BY DEF Groups
<1> HIDE DEF same
<1> QED
  BY <1>3, <1>4, <1>5

LEMMA PairsCount ==
  ASSUME NEW n \in Nat
  PROVE  Cardinality({GroupOf(q) : q \in 0..n - 1}) = n
<1> DEFINE T == {GroupOf(q) : q \in 0..n - 1}
           f == [q \in 0..n - 1 |-> GroupOf(q)]
<1>1. \A p, q \in 0..n - 1 : GroupOf(p) = GroupOf(q) => p = q
  <2>1. \A p, q \in 0..n - 1 : 2 * p + 1 \in GroupOf(q) /\ 2 * q + 1 \in GroupOf(p) => p = q
    BY DEF GroupOf
  <2>2. \A p \in 0..n - 1 : 2 * p + 1 \in GroupOf(p)
    BY DEF GroupOf
  <2> QED
    BY <2>1, <2>2
<1>2. f \in Bijection(0..n - 1, T)
  <2>1. f \in [0..n - 1 -> T]
    OBVIOUS
  <2>2. \A p, q \in 0..n - 1 : f[p] = f[q] => p = q
    BY <1>1
  <2>3. \A t \in T : \E q \in 0..n - 1 : f[q] = t
    OBVIOUS
  <2> QED
    BY <2>1, <2>2, <2>3 DEF Bijection, Injection, IsInjective, Surjection
<1>3. ExistsBijection(0..n - 1, T)
  BY <1>2 DEF ExistsBijection
<1>4. IsFiniteSet(0..n - 1) /\ Cardinality(0..n - 1) = n
  BY FS_Interval
<1> HIDE DEF T
<1> QED
  BY <1>3, <1>4, FS_Bijection DEF T

(* The two captures of a pair compare.                                       *)
LEMMA AnsweredSamples ==
  ASSUME NEW measure \in DOMAIN Pairs, NEW i \in Nat \ {0}, NEW entry,
         AsPlanned(entry, WorkOf(i, measure))
  PROVE  /\ entry.sha256.samples # <<>>
         /\ entry.sha256.admitted = Updates[measure]
BY WorkIsWorkable DEF AsPlanned, Answered, CommandedWorkload, Workable

LEMMA PairsCompare ==
  ASSUME NEW measure \in DOMAIN Pairs, NEW runs, WholeCampaign(runs, measure),
         NEW n \in Nat, CampaignCases(measure) = 2 * n, NEW q \in 0..n - 1
  PROVE  PairCompares(runs, GroupOf(q))
<1> DEFINE i == 2 * q + 1
           j == 2 * q + 2
           group == GroupOf(q)
<1>1. /\ i \in DOMAIN runs /\ j \in DOMAIN runs /\ j = i + 1
      /\ i \in Nat \ {0} /\ j \in Nat \ {0}
      /\ (i - 1) \div 2 = q /\ (j - 1) \div 2 = q /\ (i - 1) % 2 = 0 /\ (j - 1) % 2 = 1
  BY DEF WholeCampaign
<1> DEFINE v == WorkOf(i, measure)
           w == WorkOf(j, measure)
<1>2. AsPlanned(runs[i], v) /\ AsPlanned(runs[j], w)
  BY <1>1 DEF WholeCampaign
<1>3. /\ v.pair = w.pair /\ v.kind = w.kind /\ v.rate = w.rate
      /\ v.wire = WireOrder(v.pair)[1] /\ w.wire = WireOrder(v.pair)[2]
      /\ v.updates = Updates[measure] /\ w.updates = Updates[measure]
  <2>1. 0 + 1 = 1 /\ 1 + 1 = 2
    OBVIOUS
  <2> HIDE DEF i, j
  <2> QED
    BY <1>1, <2>1 DEF WorkOf
<1> HIDE DEF v, w
<1>4. /\ runs[i].sha256.wire = v.wire /\ runs[j].sha256.wire = w.wire
      /\ runs[i].sha256.kind = runs[j].sha256.kind
      /\ runs[i].sha256.rate_hz = runs[j].sha256.rate_hz
      /\ runs[i].sha256.requested_updates = runs[j].sha256.requested_updates
      /\ runs[i].pair = v.pair
  BY <1>2, <1>3 DEF AsPlanned, CommandedWorkload
<1>5. runs[i].sha256.samples # <<>> /\ runs[j].sha256.samples # <<>>
  BY <1>1, <1>2, AnsweredSamples DEF v, w
<1>6. PairAlternates(runs, group)
  <2>1. group = {i, i + 1} /\ i \in group
    BY <1>1 DEF GroupOf
  <2>2. <<v.wire, w.wire>> = WireOrder(v.pair)
    BY <1>3 DEF WireOrder
  <2> HIDE DEF group, i, j
  <2> QED
    BY <1>1, <1>4, <2>1, <2>2 DEF PairAlternates
<1>7. PICK a, b : /\ group = {a, b}
                  /\ runs[a].sha256.wire = "current-ipc"
                  /\ runs[b].sha256.wire = "9p2000.L"
                  /\ OnWire(runs, group, "current-ipc") = runs[a].sha256
                  /\ OnWire(runs, group, "9p2000.L") = runs[b].sha256
  BY <1>6, PairHasBothWires
<1>8. a \in {i, j} /\ b \in {i, j}
  BY <1>7 DEF GroupOf
<1> HIDE DEF group, i, j
<1>9. Comparable(runs[a].sha256, runs[b].sha256)
  BY <1>4, <1>5, <1>7, <1>8 DEF Comparable
<1> QED
  BY <1>6, <1>7, <1>9 DEF PairCompares, group
(* A campaign with every entry as planned is judged.                         *)
LEMMA WholeIsJudged ==
  ASSUME NEW measure \in DOMAIN Pairs, NEW runs, WholeCampaign(runs, measure), IsSeq(runs),
         NEW cases, PinnedBytes(runs, cases)
  PROVE  Judgeable([mode |-> measure, runs |-> runs], cases)
<1> DEFINE manifest == [mode |-> measure, runs |-> runs]
<1>1. manifest.mode = measure /\ manifest.runs = runs
  OBVIOUS
<1> HIDE DEF manifest
<1>2. PICK n \in Nat \ {0} : CampaignCases(measure) = 2 * n
  BY CampaignCount
<1>3. /\ DOMAIN runs = 1..2 * n /\ Len(runs) = 2 * n
      /\ 2 * n \in Nat \ {0} /\ 2 * n <= MaxRuns /\ MaxRuns \in Nat
      /\ Pairs[measure] \in Nat /\ Pairs[measure] <= MaxPair /\ MaxPair \in Nat
  <2>1. DOMAIN runs = 1..2 * n /\ Len(runs) \in Nat /\ DOMAIN runs = 1..Len(runs)
    BY <1>2 DEF WholeCampaign, IsSeq
  <2>2. \A m \in Nat, k \in Nat \ {0} : 1..m = 1..2 * k => m = 2 * k
    <3> SUFFICES ASSUME NEW m \in Nat, NEW k \in Nat \ {0}, 1..m = 1..2 * k
                 PROVE  m = 2 * k
      OBVIOUS
    <3>1. 2 * k \in 1..m
      OBVIOUS
    <3>2. m \in 1..2 * k
      BY <3>1
    <3> QED
      BY <3>1, <3>2
  <2>3. Len(runs) = 2 * n
    BY <2>1, <2>2
  <2>4. CampaignCases(measure) <= MaxRuns /\ Pairs[measure] <= MaxPair
        /\ MaxRuns \in Nat /\ MaxPair \in Nat
    BY CampaignAssumption
  <2>5. 2 * n \in Nat \ {0} /\ Pairs[measure] \in Nat
    BY PlanAssumption
  <2> QED
    BY <1>2, <2>1, <2>3, <2>4, <2>5
<1>4. \A i \in DOMAIN runs : AsPlanned(runs[i], WorkOf(i, measure)) /\ i \in Nat \ {0}
  BY <1>3 DEF WholeCampaign
<1>5. Contiguous(runs)
  <2>1. Len(runs) \in 1..MaxRuns
    BY <1>3
  <2>2. ASSUME NEW i \in DOMAIN runs
        PROVE  runs[i].ordinal = i /\ runs[i].pair \in 1..MaxPair
    <3>1. AsPlanned(runs[i], WorkOf(i, measure)) /\ Workable(WorkOf(i, measure), measure)
      BY <1>4, WorkIsWorkable
    <3>2. WorkOf(i, measure).ordinal = i
      BY DEF WorkOf
    <3>3. runs[i].ordinal = i /\ runs[i].pair \in 1..Pairs[measure]
      BY <3>1, <3>2 DEF AsPlanned, Workable
    <3> QED
      BY <1>3, <3>3
  <2> QED
    BY <2>1, <2>2 DEF Contiguous
<1>6. \A i \in DOMAIN runs : Readable(runs[i])
  BY <1>4 DEF AsPlanned
<1>7. Groups(runs) = {GroupOf(q) : q \in 0..n - 1}
  BY <1>2, GroupsArePairs
<1>8. \A group \in Groups(runs) : PairCompares(runs, group)
  BY <1>2, <1>7, PairsCompare
<1>9. ASSUME measure = "acceptance"
      PROVE  /\ \A i \in DOMAIN runs : runs[i].sha256.admitted >= AdmittedFloor
             /\ Cardinality(Groups(runs)) = AcceptanceGroups
  <2>1. /\ CampaignCases(measure) = 2 * AcceptanceGroups /\ AcceptanceGroups \in Nat
        /\ Updates[measure] >= AdmittedFloor
    BY <1>9, CampaignAssumption
  <2>2. n = AcceptanceGroups
    BY <1>2, <2>1
  <2>3. Cardinality(Groups(runs)) = n
    BY <1>7, PairsCount
  <2>4. \A i \in DOMAIN runs : runs[i].sha256.admitted = Updates[measure]
    BY <1>4, AnsweredSamples
  <2> QED
    BY <2>1, <2>2, <2>3, <2>4
<1>10. Judgeable(manifest, cases)
  BY <1>1, <1>5, <1>6, <1>8, <1>9 DEF Judgeable
<1> QED
  BY <1>10 DEF manifest

=============================================================================
