--------------------------- MODULE MCDriverPanels ---------------------------
(* Two drivers, one of which may come with a module that is not where a    *)
(* new one is put.                                                         *)
EXTENDS DriverPanels, TLC

MCDefault == [f \in Fields |-> 0]
MCModules(n) == [i \in Index |-> IF i < n THEN [f \in Fields |-> 1] ELSE None]
MCTemplates ==
  {[c \in Channels |-> [templateName |-> name, colorOrder |-> "rgb",
                        modules |-> MCModules(n)]] :
     name \in Names, n \in 0..1}
Symmetry == Permutations(Drivers)
=============================================================================
