----------------------------- MODULE FrameCodec -----------------------------
(***************************************************************************)
(* One LED frame from the page to the strips: pixelsToMsg of canvas.js     *)
(* packs the pixels of every channel of a driver into one byte array, and  *)
(* the WStype_BIN case of the firmware unpacks it into leds[][].           *)
(*                                                                         *)
(* The array has room for metadata.channels * metadata.leds pixels and a   *)
(* header of two bytes, in base 20, per channel.  Stores past its end are  *)
(* dropped (Uint8Array), a store keeps the low byte, and the template of a *)
(* channel may have more pixels than there is room for.  A driver may be   *)
(* the device itself, the fake node, or a node that recovered: the page    *)
(* keeps its first metadata, which the device need not share any more.     *)
(* leds[][] outlives the frame, so what a frame does not write is what an  *)
(* earlier one left.  The constructor of Driver sees to it that a template *)
(* has as many channels as the metadata.                                   *)
(***************************************************************************)
EXTENDS Integers, Sequences

CONSTANTS
  NUM_CHANNELS, NUM_LEDS,  \* of the firmware
  MaxChannels, \* of any driver's metadata
  Base,        \* 20: a header is <<count \div Base, count % Base>>
  ByteSize,    \* 256
  Gamma,       \* the table gamma8
  Drivers,     \* metadata of the drivers: [channels, leds]
  Images       \* for each channel its colour order and the <<r, g, b>> that
               \* the modules of its template pick from the canvas, in order

Byte == 0..ByteSize - 1
Chan == 0..NUM_CHANNELS - 1
Led == 0..NUM_LEDS - 1
Pixel == Byte \X Byte \X Byte
ColorOrder == {"rgb", "grb", "brg", "rbg"}
Channel == [order : ColorOrder, pixels : Seq(Pixel)]

ASSUME CodecAssumption ==
  /\ NUM_CHANNELS \in Nat \ {0} /\ NUM_LEDS \in Nat \ {0}
  /\ MaxChannels \in Nat
  /\ Base \in Nat \ {0} /\ ByteSize \in Nat /\ Base \leq ByteSize
  /\ Gamma \in [Byte -> Byte] /\ Gamma[0] = 0
  /\ Drivers \subseteq [channels : 1..MaxChannels, leds : Nat]
  /\ \A m \in Images : m \in [0..MaxChannels - 1 -> Channel]

VARIABLES
  stage,     \* "boot", then "encode", "decode" and "shown" in turn
  driver,    \* whose frame it is
  isLost,
  image,     \* what the canvas shows through the driver's template
  k,         \* the channel the encoder or the decoder is at
  bin,       \* the byte array
  binIdx,    \* the encoder's cursor
  startChannel,
  j,         \* the decoder's cursor
  leds,      \* the firmware's leds[][]
  starts     \* history: where the encoder put the header of each channel

vars == <<stage, driver, isLost, image, k, bin, binIdx, startChannel, j, leds,
          starts>>

Length == driver.channels * (3 * driver.leds + 2)
Count(c) == Len(image[c].pixels)
Black == <<0, 0, 0>>

TypeOK ==
  /\ stage \in {"boot", "encode", "decode", "shown"}
  /\ driver \in Drivers /\ isLost \in BOOLEAN /\ image \in Images
  /\ k \in Nat /\ binIdx \in Nat /\ startChannel \in Nat /\ j \in Nat
  /\ bin \in [0..Length - 1 -> Byte]
  /\ leds \in [Chan -> [Led -> Pixel]]
  /\ starts \in [0..MaxChannels -> Nat]

Init ==
  /\ stage = "boot"
  /\ driver \in Drivers /\ isLost = FALSE /\ image \in Images
  /\ k = 0 /\ binIdx = 0 /\ startChannel = 0 /\ j = 0
  /\ bin = [p \in 0..Length - 1 |-> 0]
  /\ leds = [c \in Chan |-> [i \in Led |-> Black]]
  /\ starts = [c \in 0..MaxChannels |-> 0]

-----------------------------------------------------------------------------
(* CanvasDrawer.paint: the next frame of some driver.                      *)
pixelsToMsg ==
  /\ stage \in {"boot", "shown"}
  /\ stage' = "encode"
  /\ driver' \in Drivers /\ isLost' \in BOOLEAN /\ image' \in Images
  /\ bin' = [p \in 0..Length' - 1 |-> 0]
  /\ k' = 0 /\ binIdx' = 0 /\ startChannel' = 0 /\ j' = 0
  /\ starts' = [c \in 0..MaxChannels |-> 0]
  /\ UNCHANGED leds

setMatrixColor_brgAsRbg(order, p) ==
  CASE order = "rgb" -> p
    [] order = "grb" -> <<p[2], p[1], p[3]>>
    [] order \in {"brg", "rbg"} -> <<p[1], p[3], p[2]>>

setMatrixColor(order, p) ==
  CASE order = "rgb" -> p
    [] order = "grb" -> <<p[2], p[1], p[3]>>
    [] order = "brg" -> <<p[3], p[1], p[2]>>
    [] order = "rbg" -> <<p[1], p[3], p[2]>>

Wire(c, i) == setMatrixColor(image[c].order, image[c].pixels[i + 1])

Header_wide(n) == <<n \div Base, n % Base>>
Header(n) == <<(n \div Base) % ByteSize, n % Base>>

(* One round of the loop over the channels: skip the header, store the     *)
(* pixels, then fill the header in.                                        *)
Stored(first, next) ==
  [p \in DOMAIN bin |->
     IF p = startChannel THEN Header(Count(k))[1]
     ELSE IF p = startChannel + 1 THEN Header(Count(k))[2]
     ELSE IF p \in first..next - 1
     THEN Wire(k, (p - first) \div 3)[1 + ((p - first) % 3)]
     ELSE bin[p]]

EncodeChannel_headerStays ==
  /\ stage = "encode" /\ ~isLost /\ k < driver.channels
  /\ LET first == binIdx + 2
         next == first + 3 * Count(k)
     IN  /\ bin' = Stored(first, next)
         /\ binIdx' = next /\ UNCHANGED startChannel
         /\ starts' = [starts EXCEPT ![k + 1] = next]
  /\ k' = k + 1
  /\ UNCHANGED <<stage, driver, isLost, image, j, leds>>

EncodeChannel ==
  /\ stage = "encode" /\ ~isLost /\ k < driver.channels
  /\ LET first == binIdx + 2
         next == first + 3 * Count(k)
     IN  /\ bin' = Stored(first, next)
         /\ binIdx' = next /\ startChannel' = next
         /\ starts' = [starts EXCEPT ![k + 1] = next]
  /\ k' = k + 1
  /\ UNCHANGED <<stage, driver, isLost, image, j, leds>>

sendWsMsg ==
  /\ stage = "encode" /\ (isLost \/ k = driver.channels)
  /\ stage' = "decode" /\ k' = 0 /\ j' = 0
  /\ UNCHANGED <<driver, isLost, image, bin, binIdx, startChannel, leds, starts>>

-----------------------------------------------------------------------------
(* The server library puts a zero byte behind every payload.               *)
payload(p) == IF p < Length THEN bin[p] ELSE 0

(* How many pixels the loop `i < dataSize && j + 3 <= length' takes, from  *)
(* position `first' on.                                                    *)
Taken_capped(dataSize, first) ==
  LET room == IF first \leq Length THEN (Length - first) \div 3 ELSE 0
  IN  CHOOSE n \in {dataSize, room, NUM_LEDS} :
        n \leq dataSize /\ n \leq room /\ n \leq NUM_LEDS

Taken(dataSize, first) ==
  IF first + 3 * dataSize \leq Length THEN dataSize
  ELSE IF first \leq Length THEN (Length - first) \div 3 ELSE 0

Triple(p) == <<Gamma[payload(p)], Gamma[payload(p + 1)], Gamma[payload(p + 2)]>>

Decoded(first, n) ==
  [i \in Led |-> IF i < n THEN Triple(first + 3 * i) ELSE Black]

DecodeChannel ==
  /\ stage = "decode" /\ k < NUM_CHANNELS /\ j < Length
  /\ LET dataSize == payload(j) * Base + payload(j + 1)
         first == j + 2
         n == Taken(dataSize, first)
     IN  /\ leds' = [leds EXCEPT ![k] = Decoded(first, n)]
         /\ j' = first + 3 * n
  /\ k' = k + 1
  /\ UNCHANGED <<stage, driver, isLost, image, bin, binIdx, startChannel, starts>>

show ==
  /\ stage = "decode" /\ ~(k < NUM_CHANNELS /\ j < Length)
  /\ stage' = "shown"
  /\ UNCHANGED <<driver, isLost, image, k, bin, binIdx, startChannel, j, leds,
                 starts>>

Next == pixelsToMsg \/ EncodeChannel \/ sendWsMsg \/ DecodeChannel \/ show

Spec == Init /\ [][Next]_vars

-----------------------------------------------------------------------------
(* What LED i of channel c should show: the name of a colour order spells  *)
(* which colour each of the three bytes of an LED is.                      *)
Layout == [rgb |-> <<1, 2, 3>>, grb |-> <<2, 1, 3>>,
           brg |-> <<3, 1, 2>>, rbg |-> <<1, 3, 2>>]
Ordered(order, p) ==
  <<p[Layout[order][1]], p[Layout[order][2]], p[Layout[order][3]]>>
Corrected(p) == <<Gamma[p[1]], Gamma[p[2]], Gamma[p[3]]>>
Expected(c, i) ==
  IF i < Count(c) THEN Corrected(Ordered(image[c].order, image[c].pixels[i + 1]))
  ELSE Black

(* The count of every channel survives its header.                         *)
HeadersFit == \A c \in 0..driver.channels - 1 : Count(c) < Base * ByteSize

Encoded(c) == c < driver.channels /\ starts[c + 1] \leq Length

(* Every channel whose pixels fit in the array, whatever the others are,   *)
(* shows exactly its part of the image: in order, gamma corrected, dark    *)
(* past the end, and nothing of an earlier frame.                          *)
LedsShowImage ==
  stage = "shown" /\ ~isLost /\ HeadersFit =>
    \A c \in Chan : Encoded(c) => \A i \in Led : leds[c][i] = Expected(c, i)

(* A channel that overflows the array is cut short, but pixels never move  *)
(* to another channel or another LED: each channel the array reaches shows *)
(* a prefix of its own image and is dark behind it, and the frame of a     *)
(* driver that is lost darkens the whole device.                           *)
NoBleed ==
  /\ stage = "shown" /\ ~isLost /\ HeadersFit =>
       \A c \in Chan :
         c < driver.channels /\ starts[c] < Length =>
           \E n \in 0..NUM_LEDS :
             \A i \in Led : leds[c][i] = IF i < n THEN Expected(c, i) ELSE Black
  /\ stage = "shown" /\ isLost /\ 2 * NUM_CHANNELS \leq Length =>
       \A c \in Chan, i \in Led : leds[c][i] = Black

(* A channel the driver does not have is darkened or keeps what it showed; *)
(* a frame of the fake node never puts its pixels there.                   *)
NoForeignPixels ==
  [][\A c \in Chan :
       HeadersFit /\ c \geq driver.channels =>
         \/ leds'[c] = leds[c]
         \/ \A i \in Led : leds'[c][i] = Black]_leds
=============================================================================
