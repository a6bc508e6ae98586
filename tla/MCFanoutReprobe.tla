--------------------------- MODULE MCFanoutReprobe ---------------------------
(* Small instances of FanoutReprobe.                                         *)
EXTENDS FanoutReprobe

CONSTANTS a1, a2, a3, b1, A, B, p1, p2

OnPrompts == [k \in Keys |-> IF k = b1 THEN B ELSE A]
Order == [k \in Keys |-> CASE k = a1 -> 1 [] k = b1 -> 2 [] k = a2 -> 3 [] k = a3 -> 4]
IssuedBy == [k \in Keys |-> IF k = a2 THEN Surfaces ELSE {"gemini_api"}]
Prices == [s \in Surfaces |-> IF s = "openai_api" THEN 1 ELSE 2]
Found == [k \in Keys |-> "lost"]
FinalAndRoute == [p \in Passes |-> IF p = p1 THEN "finalize" ELSE "route"]
FinalAndJob == [p \in Passes |-> IF p = p1 THEN "finalize" ELSE "job"]
=============================================================================
