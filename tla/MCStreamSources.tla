-------------------------- MODULE MCStreamSources --------------------------
(* StreamSources with interchangeable streams.  What the toggles show      *)
(* matters, to the properties and to the steps, only in plain use; after   *)
(* that states are told apart without it.                                  *)
EXTENDS StreamSources, TLC

Symmetry == Permutations(Streams)
View == <<radioState, IF plain THEN checked ELSE {}, requests, streams, element,
          painter, plain>>
=============================================================================
