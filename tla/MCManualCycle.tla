--------------------------- MODULE MCManualCycle ---------------------------
(* Instances of ManualCycle: one domain of sports and one of capital.      *)
EXTENDS ManualCycle

MCWorlds == <<"WORLD__SPORT", "WORLD__CAPITAL">>
MCDomains == <<"SPORTS.TENNIS", "CAPITAL.STOCK">>
MCWorldOf == [d \in AllDomains |-> IF d = "SPORTS.TENNIS" THEN "WORLD__SPORT" ELSE "WORLD__CAPITAL"]
=============================================================================
