--------------------------- MODULE MCTemplateStore --------------------------
(* TemplateStore with interchangeable clients and three templates: that of *)
(* the code, one without holes, and one with the hole a removed module     *)
(* leaves.                                                                 *)
EXTENDS TemplateStore, TLC

MCCompact == [t \in Templates |-> IF t = "a, hole" THEN "a" ELSE t]
Symmetry == Permutations(Clients)
=============================================================================
