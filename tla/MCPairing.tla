------------------------------- MODULE MCPairing -------------------------------
(* A small pairing gate: two owner cases, one case in each legacy family, a  *)
(* campaign of one kind and one rate. The session and native families share  *)
(* their test executable, and two mount recipes share a parent.              *)
EXTENDS PairingProperties

MCCommit == {"pinned"}

MCTree ==
    [session |-> <<"mod a;">>, qid |-> <<"mod b;">>, cargo |-> <<"[dependencies]", "serde">>,
     lib |-> <<"pub mod runtime;">>]

MCCommitTree == [c \in MCCommit |-> MCTree]

MCFixtures == [drag |-> <<"fixture">>]

MCMounts ==
    <<[destination |-> "delegated", contents |-> <<"d">>, parent |-> "lib",
       anchor |-> "pub mod runtime;", lines |-> <<"mod delegated;">>],
      [destination |-> "targeted", contents |-> <<"t">>, parent |-> "lib",
       anchor |-> "pub mod runtime;", lines |-> <<"mod targeted;">>]>>

MCDependencies == <<[path |-> "cargo", context |-> "[dependencies]",
                     replacement |-> <<"[dependencies]", "sha2">>]>>

MCCompatibility ==
    [sophia_commit |-> "pinned", mount |-> MCTree.session, qid_mount |-> MCTree.qid,
     dependencies |-> <<MCTree.cargo>>, legacy_mount |-> [lib |-> MCTree.lib]]

-----------------------------------------------------------------------------

MCRequired == <<"corpus", "recovery">>
MCOwnerModules == {"owner"}

MCLegacyCases == [runtime |-> <<"pointer">>, native |-> <<"launch">>,
                  pregraphics |-> <<"activation">>]
MCBinaryOf == [session |-> "session-lib", native |-> "session-lib",
               runtime |-> "runtime-test", pregraphics |-> "session-bin"]

Test(module, name) == [module |-> module, name |-> name]
Launch(entry, place) == [entry |-> entry, place |-> place]
Result(verdict, passed, failed) ==
    [verdict |-> verdict, passed |-> passed, failed |-> failed, ignored |-> 0]

(* Every test of the small system, and the launch of one executable.         *)
Everything(entry) ==
    [NoLog EXCEPT
        !.tests = <<Test("owner", "corpus"), Test("owner", "recovery"),
                    Test("owner", "timing"), Test("other", "pointer"),
                    Test("other", "launch"), Test("other", "activation"),
                    Test("other", "ignored")>>,
        !.launches = <<Launch(entry, "target")>>]

SessionEntry == "unittests src/lib.rs"
RuntimeEntry == "tests/policy_transport.rs"

Listed == Everything(SessionEntry)

Faulty(log) ==
    {NoLog, [log EXCEPT !.tests = Tail(@)], [log EXCEPT !.tests = Append(@, Head(@))],
     [log EXCEPT !.launches = @ \o @], [log EXCEPT !.launches[1].place = "elsewhere"]}

MCPhaseLogs ==
    [status |-> {NoLog},
     nonempty |-> {[NoLog EXCEPT !.results = <<Result("ok", 0, 0), Result("ok", 3, 0)>>],
                   [NoLog EXCEPT !.results = <<Result("ok", 0, 0)>>]}]
    @@ ("required-list" :> {Listed} \cup Faulty(Listed))
    @@ ("family-list" :> {Listed, Everything(RuntimeEntry)})
    @@ ("ignored-list" :> {Listed, NoLog})
    @@ ("exactly-one" :> {[NoLog EXCEPT !.results = <<Result("ok", 1, 0)>>],
                          [NoLog EXCEPT !.results = <<Result("ok", 0, 0)>>],
                          [NoLog EXCEPT !.results = <<Result("ok", 1, 0), Result("ok", 1, 0)>>],
                          [NoLog EXCEPT !.readable = FALSE]})

-----------------------------------------------------------------------------

Line(key, value) == [key |-> key, value |-> value]
Some(key) == [key |-> key, avg10 |-> 1, total |-> 5]

MCProc ==
    [meminfo |-> [state |-> "read", lines |-> <<Line("MemFree", 7), Line("Dirty", 3),
                                                Line("Writeback", 0)>>],
     io |-> [state |-> "read", lines |-> <<Some("some"), Some("full")>>],
     cpu |-> [state |-> "read", lines |-> <<Some("some")>>],
     memory |-> [state |-> "unreadable", lines |-> <<>>]]

(* Three saves over the end of February in a leap year, one of them in the   *)
(* local time of another offset.                                             *)
Save(date, time, offset) == [date |-> date, time |-> time, offset |-> offset]

MCSaves == <<Save(<<2028, 2, 28>>, <<23, 30, 0>>, 0), Save(<<2028, 3, 1>>, <<0, 15, 9>>, 60),
             Save(<<2028, 3, 1>>, <<1, 0, 0>>, 0)>>

MCTornSaves == <<Head(MCSaves), Save(<<>>, <<0, 0, 0>>, 0)>>

Command(measure, timeout) ==
    [sha256 |-> "frozen", fresh |-> TRUE, timeout |-> timeout, measure |-> measure,
     proc |-> MCProc, saves |-> MCSaves]

MCCommands ==
    {Command("none", 1), Command("acceptance", 2),
     Command("acceptance", 1), Command("none", 0),
     [Command("none", 1) EXCEPT !.sha256 = "other"],
     [Command("none", 1) EXCEPT !.fresh = FALSE],
     [Command("smoke", 1) EXCEPT !.saves = MCTornSaves]}

MCKinds == <<"move">>
MCRates == <<60>>
MCLoads == <<"idle", "cpu">>
MCInterval == 60 :> 2
MCUpdates == [smoke |-> 2, acceptance |-> 2]
MCPairs == [smoke |-> 1, acceptance |-> 2]
MCMountText == <<"mod pairing;">>
MCQidText == <<"mod observation;">>
=============================================================================
