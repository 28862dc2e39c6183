--------------------------- MODULE MCFindingChain ---------------------------
(* Two hypotheses target one asset under two spellings: a plan from a scraped *)
(* finding and a caller's hypothesis with a mined second parent.  A third     *)
(* follows up the observation of the first.                                   *)
EXTENDS FindingChain

CONSTANTS f1, f2, plan1, joint, follow

GearOf3 == [f \in Findings |-> IF f = f1 THEN "scraping" ELSE "mining"]
ParentsOf == [h \in Hypotheses |->
  CASE h = plan1 -> <<f1>> [] h = joint -> <<f1, f2>> [] h = follow -> <<plan1>>]
SpelledAs == [h \in Hypotheses |->
  IF h = joint THEN "HTTPS://shop/" ELSE IF h = follow THEN "asset-related-to-plan1" ELSE "shop"]
NormalForm == [a \in {"HTTPS://shop/", "asset-related-to-plan1", "shop"} |->
  IF a = "HTTPS://shop/" THEN "shop" ELSE a]
Edges == {<<f1, f2>>}
FaultSets == {{}, {"scope", "budget"}, {"safety"}}
=============================================================================
