------------------------------ MODULE MCFrame ------------------------------
(* Small programs for Frame: main calls f and g, which call each other.    *)
EXTENDS FrameRefines

\* f has an odd frame and two parameters; g has no locals, is nested in the
\* caller and calls alloca.
MCFns == {"main", "f", "g"}
MCSize == [x \in MCFns |-> IF x = "f" THEN 1 ELSE 0]
MCLive == [x \in MCFns |-> IF x = "g" THEN {BC} ELSE {}]
MCNParams == [x \in MCFns |-> CASE x = "f" -> 2 [] x = "g" -> 1 [] OTHER -> 0]
MCSites == [x \in MCFns |-> CASE x = "main" -> {100} [] x = "f" -> {101}
                             [] OTHER -> {102}]
WithFp == [x \in MCFns |-> TRUE]
NestedLeaf == {"g"}
MCAlloca == {"g"}
SavedBC == {BC}
SavedDEBC == {DE, BC}
LiveDEBC == [x \in MCFns |-> IF x = "main" THEN {} ELSE {DE, BC}]
NestedLocals == {"f"}
FpButInF == [x \in MCFns |-> x # "f"]
=============================================================================
