---------------------------- MODULE MCModuleScan ----------------------------
(* ModuleScan with every direction and every size up to 4 by 4, placed     *)
(* inside a 3 by 3 canvas, over its left and upper edges and over its      *)
(* right and lower ones.                                                   *)
EXTENDS ModuleScan

MCModules == [x : {-1, 0, 2}, y : {-1, 0, 1}, w : 0..4, h : 0..4,
              d : ModuleDirection]
=============================================================================
