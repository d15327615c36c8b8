---------------------------- MODULE MCFrameCodec ----------------------------
(* FrameCodec with two LEDs per channel, base 2 and two-bit bytes, so that *)
(* a count of 8 no longer fits in a header.  Pixels of different channels  *)
(* and positions are told apart as far as two bits allow.  The second      *)
(* driver has fewer channels than the device and longer ones.              *)
EXTENDS FrameCodec

CONSTANT Counts   \* how many pixels a template may have

Value(c, i) == 1 + ((c + 2 * i) % 3)
Image(count, order) ==
  [c \in 0..MaxChannels - 1 |->
    [order |-> order[c],
     pixels |-> [i \in 1..count[c] |->
                   <<Value(c, i), Value(c + 1, i), Value(c, i + 1)>>]]]

Mixed == [c \in 0..MaxChannels - 1 |-> IF c = 0 THEN "grb" ELSE "rgb"]
Short == [c \in 0..MaxChannels - 1 |-> 1]
MCImages ==
  {Image(count, Mixed) : count \in [0..MaxChannels - 1 -> Counts]} \cup
  {Image(Short, order) : order \in [0..MaxChannels - 1 -> ColorOrder]}
MCGamma == [b \in Byte |-> IF b = 2 THEN 1 ELSE b]
MCDrivers == {[channels |-> 2, leds |-> 2], [channels |-> 1, leds |-> 4]}
=============================================================================
