------------------------------ MODULE MCPsnReview ------------------------------
(* TLC instances of PsnReview: a set for two platforms that is bought or not, and a   *)
(* game for one that was played, then listed in full, or was a demo.                  *)
EXTENDS PsnReview

CONSTANTS cross, single, ps4, vita

Sets  == [g \in {cross, single} |-> IF g = cross THEN {ps4, vita} ELSE {ps4}]
Shown == [g \in {cross, single} |-> IF g = cross THEN {"set", "full"} ELSE {"demo", "played", "full"}]
Ticked == {{}, {vita}}
=============================================================================
