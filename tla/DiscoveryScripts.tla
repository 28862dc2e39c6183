---------------------------- MODULE DiscoveryScripts ----------------------------
(*****************************************************************************)
(* The methods of the DiscoveryCoordinator as scripts for module Discovery,  *)
(* and the discoveries they register.  run_noon_demonstration is             *)
(* process_discovery with a discovery of its own.                            *)
(*****************************************************************************)
EXTENDS GearAnalysis, SequencesExt

\* REQUIRED_GEARS, and the order of GearEngineRegistry.get_all_engines.
RequiredGears == <<"scraping", "mining", "security", "evidence">>

\* One block of instructions for each of the gears, in order.
ForEach(gears, Block(_)) == FlattenSeq([i \in 1 .. Len(gears) |-> Block(gears[i])])

Acknowledgment(g) ==
  << <<"receive", g>>, <<"acknowledge", g>>, <<"record acknowledgment", g>> >>

Announced(gears) ==
  << <<"register", "">>, <<"broadcast", "">> >> \o ForEach(gears, Acknowledgment)

Analyzed(g) == << <<"analyze", g>> >>
Reviewed(g, verdict) == << <<"submit", g>>, <<verdict, g>> >>
Passed(g) == Reviewed(g, "pass")
AnalyzedAndPassed(g) == Analyzed(g) \o Passed(g)
Shared(g) == << <<"share", g>> >>

Gate == << <<"gate", "">> >>
Status(s) == << <<"status", s>> >>
Freeze(type) == << <<"freeze", type>> >>

SynthesizedAndFiled ==
  << <<"start synthesis", "">>, <<"synthesize", "">>, <<"file", "synthesis">> >>

DecidedAndFiled ==
  << <<"start decision", "">>, <<"decide", "">>, <<"file", "decision">> >>

-----------------------------------------------------------------------------
ProcessDiscovery ==
  << <<"validate", "">> >>
  \o Announced(RequiredGears) \o Status("BROADCAST")
  \o ForEach(RequiredGears, Analyzed) \o Status("IN_REVIEW")
  \o ForEach(RequiredGears, Passed)
  \o ForEach(RequiredGears, Shared)
  \o Gate \o << <<"exit", "">> >>
  \o SynthesizedAndFiled \o Status("SYNTHESIZED")
  \o DecidedAndFiled \o Status("DECIDED")

\* Mining is late: the gate fails and the freeze holds until it has come.
FailureScenario1 ==
  LET onTime == <<"scraping", "security", "evidence">>
  IN Announced(RequiredGears)
       \o ForEach(onTime, Analyzed) \o ForEach(onTime, Passed)
       \o Gate \o Freeze("APPROVE_NEW_PHASE")
       \o AnalyzedAndPassed("mining") \o Gate

\* Security is first and tries to close the discovery on its own.
FailureScenario2 ==
  Announced(RequiredGears)
    \o AnalyzedAndPassed("security") \o Freeze("CLOSE_DISCOVERY")
    \o ForEach(<<"scraping", "mining", "evidence">>, AnalyzedAndPassed)
    \o Gate \o Freeze("APPROVE_NEW_PHASE")

\* The manager sends scraping back; a new version takes its place.
FailureScenario3 ==
  Announced(RequiredGears)
    \o Analyzed("scraping") \o Reviewed("scraping", "rework")
    \o ForEach(<<"mining", "security", "evidence">>, AnalyzedAndPassed)
    \o Gate
    \o << <<"update", "scraping">> >> \o Passed("scraping") \o Gate

\* Evidence contradicts mining; the decision does not look at the gate.
FailureScenario4 ==
  Announced(RequiredGears)
    \o ForEach(RequiredGears, AnalyzedAndPassed)
    \o << <<"contradict", "mining">> >>
    \o Gate \o SynthesizedAndFiled \o DecidedAndFiled

\* Scraping is silent and is asked once more.
FailureScenario5 ==
  Announced(<<"mining", "security", "evidence">>)
    \o << <<"check acknowledgments", "">>, <<"retry", "scraping">> >>
    \o Acknowledgment("scraping") \o << <<"check acknowledgments", "">> >>

\* Two gears of four, and a decision asked for too early.
FailureScenario6 ==
  Announced(RequiredGears)
    \o ForEach(<<"scraping", "mining">>, AnalyzedAndPassed)
    \o Freeze("APPROVE_NEW_PHASE")
    \o ForEach(<<"security", "evidence">>, AnalyzedAndPassed)
    \o Freeze("APPROVE_NEW_PHASE") \o Gate

ScriptOf ==
  [process_discovery |-> ProcessDiscovery,
   scenario_1 |-> FailureScenario1, scenario_2 |-> FailureScenario2,
   scenario_3 |-> FailureScenario3, scenario_4 |-> FailureScenario4,
   scenario_5 |-> FailureScenario5, scenario_6 |-> FailureScenario6]

-----------------------------------------------------------------------------
(* What the scenarios register, and what the noon demonstration passes on.   *)

Found(types, high, references, source) ==
  [types |-> types, high |-> high, references |-> references, title |-> {},
   source |-> source, complete |-> TRUE]

NoonDiscovery ==
  [Found({"API_DISCOVERY", "STRUCTURED_CATALOG"}, TRUE, 2, "scraping")
     EXCEPT !.title = {"catalog"}]

ApiDiscovery(high) == Found({"API_DISCOVERY"}, high, 1, "scraping")

ScenarioInput ==
  [scenario_1 |-> ApiDiscovery(FALSE),
   scenario_2 |-> Found({"API_DISCOVERY", "AUTHORIZATION_WEAKNESS"}, TRUE, 1, "security"),
   scenario_3 |-> Found({"ENDPOINT"}, FALSE, 1, "scraping"),
   scenario_4 |-> ApiDiscovery(TRUE),
   scenario_5 |-> ApiDiscovery(FALSE),
   scenario_6 |-> ApiDiscovery(TRUE)]

================================================================================
