---------------------------- MODULE MCRulesPage ----------------------------
(* Small instances of RulesPage for TLC.                                    *)
EXTENDS RulesPage, TLC

RulesInterchangeable == Permutations(Tabs) \cup Permutations(Ids)

=============================================================================
