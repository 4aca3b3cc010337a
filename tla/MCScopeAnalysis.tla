-------------------------- MODULE MCScopeAnalysis --------------------------
(* Small programs for ScopeAnalysis: one name besides arguments.           *)
EXTENDS ScopeAnalysis

CONSTANT x

OneName  == {x}
SomeKinds == {"function", "arrow", "functionName", "class", "with",
              "fieldInitializer", "conditionalType", "functionType"}
=============================================================================
