------------------------------ MODULE MCDiscovery ------------------------------
(* Discoveries for process_discovery: the one of the noon demonstration, the *)
(* poorest it accepts (no evidence, of a type no engine knows), one in       *)
(* between, and one it refuses.                                              *)
EXTENDS Discovery, DiscoveryScripts, TLC

Poorest == Found({"OTHER"}, FALSE, 0, "mining")

Between == [Found({"ENDPOINT"}, TRUE, 1, "evidence") EXCEPT !.title = {"structured"}]

InputsOf ==
  [s \in DOMAIN ScriptOf |->
     IF s = "process_discovery"
       THEN {NoonDiscovery, Poorest, Between, [Poorest EXCEPT !.complete = FALSE]}
       ELSE {ScenarioInput[s]}]

================================================================================
