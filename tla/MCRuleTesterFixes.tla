------------------------- MODULE MCRuleTesterFixes -------------------------
(* Short code of one letter for RuleTesterFixes.                           *)
EXTENDS RuleTesterFixes

CONSTANTS letter, mark

AnyInsertion == {<<>>, <<letter>>, <<mark>>}
=============================================================================
