----------------------------- MODULE MCWsServer -----------------------------
(* Instances of WsServer: two slots for two pages that send frames and one *)
(* text and may have two messages under way; one slot for two pages with   *)
(* templates of one and of three characters, one of them unprintable, and  *)
(* every message a browser sends by itself.                                *)
EXTENDS WsServer, TLC

CONSTANT Lit  \* the frames that are sent

MCMessage(op, size, body) == [op |-> op, size |-> size, body |-> body]
Bins(size) == {MCMessage("bin", size, f) : f \in Lit}
Texts(T) == {MCMessage("text", "short", t) : t \in T}

SharedMessages == Bins("short") \cup Texts({<<1, 2>>})
AllMessages == Bins("long") \cup Bins("huge") \cup Texts({<<1>>, <<2, 3, 2>>})
  \cup {MCMessage(op, "none", None) : op \in {"pong", "close"}}

Symmetry == Permutations(Conns)

(* Without the bytes of the EEPROM, which no step and no property of the   *)
(* run with two slots reads.                                               *)
SharedView == <<conn, backlog, slot, pc, at, readers, lights, saved>>
=============================================================================
