--------------------------- MODULE MCBudgetChat ---------------------------
(* Three connections and two names, so that two peers may ask for one      *)
(* name, at once or one after the other; one peer also says a line.        *)
EXTENDS BudgetChat

CONSTANT s1

MCMaxLines == [s \in Sessions |-> IF s = s1 THEN 1 ELSE 0]
=============================================================================
