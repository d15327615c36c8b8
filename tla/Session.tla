------------------------------ MODULE Session ------------------------------
(***************************************************************************)
(* What the device promises its pages: a page that asks is greeted once,   *)
(* the messages of a greeted connection are applied one by one in the      *)
(* order they were sent, each at most once, to the template and the LEDs   *)
(* that all pages share, and whatever a connection had under way is lost   *)
(* when the connection ends.                                               *)
(***************************************************************************)
EXTENDS Integers, Sequences

CONSTANTS Conns, Messages, Dark, NoTemplate

VARIABLES
  phase,    \* of each connection: "none", "waiting" for the greeting,
            \* "talking", or "ending", when its page is no longer there
  pending,  \* its messages that were sent and not applied
  stored,   \* the last template that arrived
  leds      \* the last frame that arrived since the device was started

vars == <<phase, pending, stored, leds>>

Init == /\ phase = [c \in Conns |-> "none"]
        /\ pending = [c \in Conns |-> <<>>]
        /\ stored = NoTemplate
        /\ leds = Dark

Open(c) == /\ phase[c] = "none"
           /\ phase' = [phase EXCEPT ![c] = "waiting"]
           /\ UNCHANGED <<pending, stored, leds>>

Greet(c) == /\ phase[c] = "waiting"
            /\ phase' = [phase EXCEPT ![c] = "talking"]
            /\ UNCHANGED <<pending, stored, leds>>

Send(c, m) == /\ phase[c] = "talking"
              /\ pending' = [pending EXCEPT ![c] = Append(@, m)]
              /\ UNCHANGED <<phase, stored, leds>>

Ended(C) == /\ phase' = [c \in Conns |-> IF c \in C THEN "none" ELSE phase[c]]
            /\ pending' = [c \in Conns |-> IF c \in C THEN <<>> ELSE pending[c]]

Apply(m) == /\ stored' = IF m.op = "text" THEN m.body ELSE stored
            /\ leds' = IF m.op = "bin" THEN m.body ELSE leds

(* The page is gone; the device may still have some of its messages. *)
Withdraw(c) ==
  /\ phase[c] # "none"
  /\ phase' = [phase EXCEPT ![c] = "ending"]
  /\ \E n \in 0..Len(pending[c]) :
       pending' = [pending EXCEPT ![c] = SubSeq(@, 1, n)]
  /\ UNCHANGED <<stored, leds>>

(* The end of a connection may be noticed while its message is applied. *)
Handle(c) ==
  /\ phase[c] \in {"talking", "ending"}
  /\ pending[c] # <<>>
  /\ Apply(Head(pending[c]))
  /\ \/ UNCHANGED phase /\ pending' = [pending EXCEPT ![c] = Tail(@)]
     \/ Ended({c})

End(c) == phase[c] # "none" /\ Ended({c}) /\ UNCHANGED <<stored, leds>>

Restart == Ended(Conns) /\ leds' = Dark /\ UNCHANGED stored

Next == \/ \E c \in Conns : Open(c) \/ Greet(c) \/ Withdraw(c) \/ Handle(c) \/ End(c)
        \/ \E c \in Conns, m \in Messages : Send(c, m)
        \/ Restart

Spec == Init /\ [][Next]_vars
=============================================================================
