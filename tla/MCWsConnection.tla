--------------------------- MODULE MCWsConnection ---------------------------
(* Small instances of WsConnection for TLC.  The names of sockets and of   *)
(* devices are interchangeable; symmetry is used by safety runs only.      *)
EXTENDS WsConnection, TLC

Symmetry == Permutations(Sockets) \cup Permutations(Devices)
=============================================================================
