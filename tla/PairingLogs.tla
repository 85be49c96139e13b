----------------------------- MODULE PairingLogs -----------------------------
(* What the pairing runner reads in the log that a phase leaves: the lines   *)
(* of a test listing, the executables that Cargo says it launched and the    *)
(* summaries of the test harness (runner/src/acceptance.rs and legacy.rs).   *)
(*                                                                           *)
(* A log is a record of what its lines say, in their order:                  *)
(*   tests    - the lines that end with ": test", as [module, name] with the *)
(*              path and its last component;                                 *)
(*   launches - the lines that begin with "Running", as [entry, place] with  *)
(*              the place of the executable: "target", "elsewhere" or "gone";*)
(*   results  - the "test result:" lines, as [verdict, passed, failed,       *)
(*              ignored] with the verdict "ok", "failed" or "garbled";       *)
(*   readable - the log is text and no longer than LOG_LIMIT;                *)
(*   saves    - the lines of Hagia's checkpoint saves.                       *)
EXTENDS Naturals, Sequences, FiniteSets

CONSTANTS
    Required,       \* REQUIRED: the names of the owner cases, in name order
    OwnerModules    \* the modules whose path begins with PREFIX

(* The empty file that a phase starts with, or the one it never wrote.       *)
NoLog == [tests |-> <<>>, launches |-> <<>>, results |-> <<>>,
          readable |-> TRUE, saves |-> <<>>]

-----------------------------------------------------------------------------
(* Test harness summaries.                                                   *)

(* A failed or unreadable summary refuses the whole log.                     *)
Summarised(log) ==
    \A i \in DOMAIN log.results : log.results[i].verdict = "ok"

Counts(result) == <<result.passed, result.failed, result.ignored>>

RequireExactlyOne(log) ==
    /\ Summarised(log)
    /\ Len(log.results) = 1
    /\ Counts(log.results[1]) = <<1, 0, 0>>

RequireNonempty(log) ==
    /\ Summarised(log)
    /\ \E i \in DOMAIN log.results : log.results[i].passed > 0
    /\ \A i \in DOMAIN log.results : log.results[i].failed = 0

-----------------------------------------------------------------------------
(* Listings.                                                                 *)

OwnerLines(log) ==
    {i \in DOMAIN log.tests : log.tests[i].module \in OwnerModules}

(* required_tests: no owner test is listed twice, and each required name is  *)
(* the last component of exactly one of them.                                *)
ListsRequired(log) ==
    /\ \A i, j \in OwnerLines(log) : log.tests[i] = log.tests[j] => i = j
    /\ \A r \in DOMAIN Required :
           Cardinality({i \in OwnerLines(log) : log.tests[i].name = Required[r]}) = 1

(* named_test: exactly one test of the listing has this last component.      *)
ListsNamed(log, suffix) ==
    Cardinality({i \in DOMAIN log.tests : log.tests[i].name = suffix}) = 1

(* listed_path: the listing launched exactly one executable, the expected    *)
(* one.                                                                      *)
LaunchesOnly(log, entry) ==
    /\ Len(log.launches) = 1
    /\ log.launches[1].entry = entry

(* listed_binary: that executable exists under the private target.           *)
ListsBinary(log, entry) ==
    /\ LaunchesOnly(log, entry)
    /\ log.launches[1].place = "target"
=============================================================================
