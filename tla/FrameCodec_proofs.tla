------------------------- MODULE FrameCodec_proofs -------------------------
(***************************************************************************)
(* The device shows what the page packed, for every number of channels and *)
(* LEDs, every template and every base of the header.                      *)
(*                                                                         *)
(* The encoder's positions are recorded in `starts'.  While it runs, each  *)
(* channel it has packed is Well packed; while the decoder runs, its       *)
(* cursor j is where the encoder's was, as long as that fits in the array. *)
(***************************************************************************)
EXTENDS FrameCodec, TLAPS

Packed(c) == c < IF stage = "encode" THEN k ELSE driver.channels

Well(c) ==
  /\ starts[c + 1] = starts[c] + 2 + 3 * Count(c)
  /\ starts[c] < Length => bin[starts[c]] = Header(Count(c))[1]
  /\ starts[c] + 1 < Length => bin[starts[c] + 1] = Header(Count(c))[2]
  /\ \A i \in 0..Count(c) - 1, q \in 0..2 :
       LET p == starts[c] + 2 + 3 * i + q
       IN  p < Length => bin[p] = Wire(c, i)[q + 1]

EncoderInv ==
  stage # "boot" /\ ~isLost =>
    /\ stage = "encode" => k \leq driver.channels /\ binIdx = starts[k]
                           /\ startChannel = starts[k]
    /\ starts[0] = 0
    /\ \A c \in 0..MaxChannels : Packed(c) => Well(c)
    /\ \A c, d \in 0..MaxChannels :
         c \leq d /\ (d = 0 \/ Packed(d - 1)) => starts[c] \leq starts[d]

DecoderInv ==
  stage \in {"decode", "shown"} /\ ~isLost /\ HeadersFit =>
    /\ k \leq driver.channels /\ starts[k] \leq Length => j = starts[k]
    /\ \A c \in Chan : c < k /\ Encoded(c) =>
         \A i \in Led : leds[c][i] = Expected(c, i)
    /\ stage = "shown" => ~(k < NUM_CHANNELS /\ j < Length)

-----------------------------------------------------------------------------
(* Arithmetic of the header.                                               *)
LEMMA HeaderRange ==
  ASSUME NEW n \in Nat
  PROVE  Header(n)[1] \in Byte /\ Header(n)[2] \in Byte
<1>1. /\ n \div Base \in Nat /\ n % Base \in 0..Base - 1
  BY CodecAssumption
<1>2. (n \div Base) % ByteSize \in 0..ByteSize - 1
  BY <1>1, CodecAssumption
<1> QED BY <1>1, <1>2, CodecAssumption DEF Header, Byte

LEMMA HeaderCount ==
  ASSUME NEW n \in Nat, n < Base * ByteSize
  PROVE  Header(n)[1] * Base + Header(n)[2] = n
<1> DEFINE d == n \div Base
<1>1. d \in Nat /\ n % Base \in Nat /\ n = d * Base + (n % Base)
  BY CodecAssumption
<1>2. d < ByteSize
  <2>1. SUFFICES ASSUME d \geq ByteSize PROVE FALSE
    BY <1>1, CodecAssumption
  <2>2. d * Base \geq ByteSize * Base
    BY <2>1, <1>1, CodecAssumption
  <2> QED BY <2>2, <1>1, CodecAssumption
<1>3. d % ByteSize = d
  <2> HIDE DEF d
  <2> QED BY <1>1, <1>2, CodecAssumption
<1> QED BY <1>1, <1>3 DEF Header

LEMMA WireType ==
  ASSUME TypeOK, NEW c \in 0..MaxChannels - 1, NEW i \in 0..Count(c) - 1
  PROVE  Wire(c, i) \in Pixel
<1>1. image[c] \in Channel
  BY CodecAssumption DEF TypeOK
<1>2. image[c].order \in ColorOrder /\ image[c].pixels \in Seq(Pixel)
  BY <1>1 DEF Channel
<1>3. image[c].pixels[i + 1] \in Pixel
  BY <1>2 DEF Count
<1>4. ASSUME NEW p \in Pixel, NEW o \in ColorOrder
      PROVE  setMatrixColor(o, p) \in Pixel
  BY <1>4 DEF setMatrixColor, ColorOrder, Pixel
<1> QED BY <1>2, <1>3, <1>4 DEF Wire

(* The page's stores put the colours of a pixel in the order of the strip. *)
LEMMA WireIsOrdered ==
  ASSUME TypeOK, NEW c \in 0..MaxChannels - 1, NEW i \in 0..Count(c) - 1
  PROVE  Wire(c, i) = Ordered(image[c].order, image[c].pixels[i + 1])
<1>1. image[c] \in Channel
  BY CodecAssumption DEF TypeOK
<1>2. /\ image[c].order \in ColorOrder
      /\ image[c].pixels[i + 1] \in Pixel
  BY <1>1 DEF Channel, Count
<1>3. ASSUME NEW p \in Pixel, NEW o \in ColorOrder
      PROVE  setMatrixColor(o, p) = Ordered(o, p)
  <2>1. p = <<p[1], p[2], p[3]>>
    BY DEF Pixel
  <2>2. /\ Layout["rgb"] = <<1, 2, 3>> /\ Layout["grb"] = <<2, 1, 3>>
        /\ Layout["brg"] = <<3, 1, 2>> /\ Layout["rbg"] = <<1, 3, 2>>
    BY DEF Layout
  <2>3. /\ Ordered("rgb", p) = <<p[1], p[2], p[3]>>
        /\ Ordered("grb", p) = <<p[2], p[1], p[3]>>
        /\ Ordered("brg", p) = <<p[3], p[1], p[2]>>
        /\ Ordered("rbg", p) = <<p[1], p[3], p[2]>>
    BY <2>2 DEF Ordered
  <2> QED BY <2>1, <2>3 DEF setMatrixColor, ColorOrder
<1> QED BY <1>2, <1>3 DEF Wire

LEMMA CountType ==
  ASSUME TypeOK, NEW c \in 0..MaxChannels - 1 PROVE Count(c) \in Nat
BY CodecAssumption DEF TypeOK, Count, Channel

LEMMA LengthType ==
  ASSUME TypeOK PROVE /\ Length \in Nat
                      /\ driver.channels \in 1..MaxChannels
BY CodecAssumption DEF TypeOK, Length

(* The bytes one round of the encoder leaves, position by position.        *)
LEMMA StoredBytes ==
  ASSUME TypeOK, k < driver.channels, startChannel = binIdx,
         NEW first, first = binIdx + 2,
         NEW next, next = first + 3 * Count(k)
  PROVE  /\ Stored(first, next) \in [0..Length - 1 -> Byte]
         /\ \A p \in 0..Length - 1 :
              p < binIdx => Stored(first, next)[p] = bin[p]
         /\ binIdx < Length =>
              Stored(first, next)[binIdx] = Header(Count(k))[1]
         /\ binIdx + 1 < Length =>
              Stored(first, next)[binIdx + 1] = Header(Count(k))[2]
         /\ \A i \in 0..Count(k) - 1, q \in 0..2 :
              first + 3 * i + q < Length =>
                Stored(first, next)[first + 3 * i + q] = Wire(k, i)[q + 1]
<1>1. /\ k \in 0..MaxChannels - 1 /\ Count(k) \in Nat /\ Length \in Nat
      /\ binIdx \in Nat /\ DOMAIN bin = 0..Length - 1
  BY CountType, LengthType, CodecAssumption, SMTT(30) DEF TypeOK
<1>2. ASSUME NEW p \in 0..Length - 1 PROVE Stored(first, next)[p] \in Byte
  <2>1. CASE p = startChannel \/ p = startChannel + 1
    BY <2>1, <1>1, HeaderRange DEF Stored
  <2>2. CASE p \in first..next - 1 /\ p # startChannel /\ p # startChannel + 1
    <3>1. /\ (p - first) \div 3 \in 0..Count(k) - 1
          /\ (p - first) % 3 \in 0..2
      BY <2>2, <1>1
    <3>2. \A w \in Pixel, q \in 0..2 : w[1 + q] \in Byte
      BY DEF Pixel
    <3>3. Wire(k, (p - first) \div 3) \in Pixel
      BY <3>1, <1>1, WireType
    <3> QED BY <2>2, <3>1, <3>2, <3>3, <1>1 DEF Stored
  <2>3. CASE p \notin first..next - 1 /\ p # startChannel /\ p # startChannel + 1
    BY <2>3, <1>1 DEF Stored, TypeOK
  <2> QED BY <2>1, <2>2, <2>3
<1>3. ASSUME NEW i \in 0..Count(k) - 1, NEW q \in 0..2,
             first + 3 * i + q < Length
      PROVE  Stored(first, next)[first + 3 * i + q] = Wire(k, i)[q + 1]
  <2> DEFINE p == first + 3 * i + q
  <2>1. /\ p \in 0..Length - 1 /\ p \in first..next - 1
        /\ p # startChannel /\ p # startChannel + 1
    BY <1>1, <1>3
  <2>2. (p - first) \div 3 = i /\ (p - first) % 3 = q
    BY <1>1
  <2>3. Stored(first, next)[p] = Wire(k, (p - first) \div 3)[1 + ((p - first) % 3)]
    BY <2>1, <1>1 DEF Stored
  <2> QED BY <2>2, <2>3
<1>4. Stored(first, next) = [p \in 0..Length - 1 |-> Stored(first, next)[p]]
  BY <1>1 DEF Stored
<1>5. /\ \A p \in 0..Length - 1 : p < binIdx => Stored(first, next)[p] = bin[p]
      /\ binIdx < Length => Stored(first, next)[binIdx] = Header(Count(k))[1]
      /\ binIdx + 1 < Length =>
           Stored(first, next)[binIdx + 1] = Header(Count(k))[2]
  BY <1>1 DEF Stored
<1> QED BY <1>2, <1>3, <1>4, <1>5

-----------------------------------------------------------------------------
TypeInv ==
  /\ TypeOK
  /\ stage = "encode" => startChannel = binIdx

LEMMA PayloadType ==
  ASSUME TypeOK, NEW p \in Nat PROVE payload(p) \in Byte
<1>1. Length \in Nat /\ bin \in [0..Length - 1 -> Byte] /\ 0 \in Byte
  BY LengthType, CodecAssumption, SMTT(30) DEF TypeOK, Byte
<1> QED BY <1>1 DEF payload

LEMMA DecodeType ==
  ASSUME TypeOK, DecodeChannel
  PROVE  /\ leds' \in [Chan -> [Led -> Pixel]] /\ j' \in Nat
         /\ k \in Chan
<1> DEFINE dataSize == payload(j) * Base + payload(j + 1)
           first == j + 2
           n == Taken(dataSize, first)
<1>1. dataSize \in Nat /\ first \in Nat
  <2>1. j \in Nat /\ j + 1 \in Nat
    BY DEF TypeOK
  <2>2. payload(j) \in Byte /\ payload(j + 1) \in Byte
    BY <2>1, PayloadType
  <2>3. Base \in Nat /\ \A b \in Byte : b \in Nat
    BY CodecAssumption DEF Byte
  <2>4. \A a, b \in Nat : a * b \in Nat /\ a + b \in Nat
    OBVIOUS
  <2> QED BY <2>1, <2>2, <2>3, <2>4
<1>2. n \in Nat
  <2> HIDE DEF dataSize, first
  <2>1. Length \in Nat
    BY LengthType
  <2> QED BY <1>1, <2>1 DEF Taken
<1>3. k \in Chan /\ j' = first + 3 * n
      /\ leds' = [leds EXCEPT ![k] = Decoded(first, n)]
  <2>1. k \in Chan
    BY CodecAssumption DEF DecodeChannel, TypeOK, Chan
  <2>2. j' = first + 3 * n /\ leds' = [leds EXCEPT ![k] = Decoded(first, n)]
    BY Zenon DEF DecodeChannel
  <2> QED BY <2>1, <2>2
<1> HIDE DEF dataSize, first, n
<1>4. ASSUME NEW p \in Nat PROVE Triple(p) \in Pixel
  <2>1. payload(p) \in Byte /\ payload(p + 1) \in Byte /\ payload(p + 2) \in Byte
    BY PayloadType
  <2> QED BY <2>1, CodecAssumption DEF Triple, Pixel
<1>5. Black \in Pixel
  BY CodecAssumption DEF Black, Pixel, Byte
<1>6. Decoded(first, n) \in [Led -> Pixel]
  <2>1. \A i \in Led : first + 3 * i \in Nat
    BY <1>1 DEF Led
  <2> QED BY <2>1, <1>4, <1>5 DEF Decoded
<1> QED BY <1>1, <1>2, <1>3, <1>6 DEF TypeOK

LEMMA TypeNext == TypeInv /\ [Next]_vars => TypeInv'
<1> SUFFICES ASSUME TypeInv, [Next]_vars PROVE TypeInv'
  OBVIOUS
<1>0. TypeOK
  BY DEF TypeInv
<1>1. CASE pixelsToMsg
  <2>1. driver' \in Drivers /\ Length' \in Nat
    BY <1>1, CodecAssumption DEF pixelsToMsg, Length
  <2>2. bin' \in [0..Length' - 1 -> Byte]
    BY <1>1, CodecAssumption DEF pixelsToMsg, Byte
  <2>3. /\ stage' = "encode" /\ isLost' \in BOOLEAN /\ image' \in Images
        /\ k' = 0 /\ binIdx' = 0 /\ startChannel' = 0 /\ j' = 0
        /\ starts' \in [0..MaxChannels -> Nat] /\ leds' = leds
    BY <1>1 DEF pixelsToMsg
  <2>4. TypeOK'
    BY <1>0, <2>1, <2>2, <2>3 DEF TypeOK
  <2> QED BY <2>3, <2>4 DEF TypeInv
<1>2. CASE EncodeChannel
  <2> DEFINE first == binIdx + 2
             next == first + 3 * Count(k)
  <2>1. /\ bin' = Stored(first, next) /\ binIdx' = next /\ startChannel' = next
        /\ starts' = [starts EXCEPT ![k + 1] = next]
        /\ k < driver.channels /\ startChannel = binIdx /\ k' = k + 1
        /\ UNCHANGED <<stage, driver, isLost, image, j, leds>>
    BY <1>2 DEF EncodeChannel, TypeInv
  <2>2. k \in 0..MaxChannels - 1 /\ Count(k) \in Nat /\ binIdx \in Nat
    BY <1>0, <2>1, CountType, LengthType, CodecAssumption, SMTT(30) DEF TypeOK
  <2>3. bin' \in [0..Length - 1 -> Byte]
    BY <1>0, <2>1, StoredBytes
  <2>4. Length' = Length
    BY <2>1 DEF Length
  <2>5. next \in Nat
    BY <2>2
  <2> HIDE DEF next, first
  <2>6. starts' \in [0..MaxChannels -> Nat] /\ k' \in Nat
    <3>1. k + 1 \in 0..MaxChannels /\ k + 1 \in Nat
      BY <2>2, CodecAssumption
    <3>2. starts \in [0..MaxChannels -> Nat]
      BY <1>0 DEF TypeOK
    <3> QED BY <3>1, <3>2, <2>1, <2>5
  <2>7. TypeOK'
    BY <1>0, <2>1, <2>3, <2>4, <2>5, <2>6 DEF TypeOK
  <2> QED BY <2>1, <2>7 DEF TypeInv
<1>3. CASE DecodeChannel
  <2>1. /\ leds' \in [Chan -> [Led -> Pixel]] /\ j' \in Nat /\ k' = k + 1
        /\ stage = "decode"
        /\ UNCHANGED <<stage, driver, isLost, image, bin, binIdx, startChannel,
                       starts>>
    BY <1>0, <1>3, DecodeType DEF DecodeChannel
  <2>2. Length' = Length
    BY <2>1 DEF Length
  <2> QED BY <1>0, <2>1, <2>2 DEF TypeInv, TypeOK
<1>4. CASE sendWsMsg \/ show \/ UNCHANGED vars
  <2>1. Length' = Length
    BY <1>4 DEF sendWsMsg, show, vars, Length
  <2> QED BY <1>4, <2>1 DEF TypeInv, TypeOK, sendWsMsg, show, vars
<1> QED BY <1>1, <1>2, <1>3, <1>4 DEF Next

LEMMA TypeInit == Init => TypeInv
<1> SUFFICES ASSUME Init PROVE TypeInv
  OBVIOUS
<1>1. 0 \in Byte /\ Black \in Pixel /\ Length \in Nat
  BY CodecAssumption DEF Init, Byte, Black, Pixel, Length
<1> QED BY <1>1, CodecAssumption DEF Init, TypeInv, TypeOK

LEMMA TypeInvariant == Spec => []TypeInv
BY TypeInit, TypeNext, PTL DEF Spec

(* Cursors stay natural numbers, and every byte of the array and every LED *)
(* stays in range, whatever the templates are.                             *)
THEOREM TypeCorrect == Spec => []TypeOK
<1>1. TypeInv => TypeOK
  BY DEF TypeInv
<1> QED BY <1>1, TypeInvariant, PTL

-----------------------------------------------------------------------------
(* The encoder.                                                            *)
LEMMA EncoderNext ==
  ASSUME TypeInv, TypeInv', EncoderInv, [Next]_vars PROVE EncoderInv'
<1>0. TypeOK /\ TypeOK'
  BY DEF TypeInv
<1>1. CASE pixelsToMsg
  <2>1. /\ stage' = "encode" /\ k' = 0 /\ binIdx' = 0 /\ startChannel' = 0
        /\ starts' = [c \in 0..MaxChannels |-> 0] /\ driver' \in Drivers
    BY <1>1 DEF pixelsToMsg
  <2>2. driver'.channels \in 1..MaxChannels /\ MaxChannels \in Nat
    BY <2>1, CodecAssumption
  <2> QED BY <2>1, <2>2 DEF EncoderInv, Packed
<1>2. CASE EncodeChannel
  <2> DEFINE first == binIdx + 2
             next == first + 3 * Count(k)
  <2>1. /\ bin' = Stored(first, next) /\ binIdx' = next /\ startChannel' = next
        /\ starts' = [starts EXCEPT ![k + 1] = next]
        /\ stage = "encode" /\ ~isLost /\ k < driver.channels /\ k' = k + 1
        /\ UNCHANGED <<stage, driver, isLost, image, j, leds>>
    BY <1>2 DEF EncodeChannel
  <2>2. /\ k \in 0..MaxChannels - 1 /\ Count(k) \in Nat /\ binIdx \in Nat
        /\ driver.channels \in 1..MaxChannels /\ MaxChannels \in Nat
        /\ Length \in Nat /\ starts \in [0..MaxChannels -> Nat]
    <3>1. /\ k \in Nat /\ binIdx \in Nat /\ starts \in [0..MaxChannels -> Nat]
          /\ MaxChannels \in Nat
      BY <1>0, CodecAssumption DEF TypeOK
    <3>2. Length \in Nat /\ driver.channels \in 1..MaxChannels
      BY <1>0, LengthType
    <3>3. k \in 0..MaxChannels - 1
      BY <2>1, <3>1, <3>2
    <3> QED BY <1>0, <3>1, <3>2, <3>3, CountType
  <2>3. Length' = Length /\ \A c : Count(c)' = Count(c)
    BY <2>1 DEF Length, Count
  <2>4. \A c, i : Wire(c, i)' = Wire(c, i)
    BY <2>1 DEF Wire
  <2>5. /\ binIdx = starts[k] /\ startChannel = starts[k]
        /\ \A c \in 0..MaxChannels : c < k => Well(c)
        /\ \A c, d \in 0..MaxChannels :
             c \leq d /\ d \leq k => starts[c] \leq starts[d]
    BY <2>1, <2>2 DEF EncoderInv, Packed
  <2>6. /\ \A p \in 0..Length - 1 : p < binIdx => bin'[p] = bin[p]
        /\ binIdx < Length => bin'[binIdx] = Header(Count(k))[1]
        /\ binIdx + 1 < Length => bin'[binIdx + 1] = Header(Count(k))[2]
        /\ \A i \in 0..Count(k) - 1, q \in 0..2 :
             first + 3 * i + q < Length =>
               bin'[first + 3 * i + q] = Wire(k, i)[q + 1]
    BY <1>0, <2>1, <2>5, StoredBytes
  <2>7. /\ starts'[k + 1] = next
        /\ \A c \in 0..k : starts'[c] = starts[c]
    BY <2>1, <2>2, SMTT(30)
  <2>8. ASSUME NEW c \in 0..MaxChannels, c = k PROVE Well(c)'
    <3>1. starts'[c] = binIdx /\ starts'[c + 1] = binIdx + 2 + 3 * Count(c)
      BY <2>2, <2>5, <2>7, <2>8, SMTT(30)
    <3>2. \A i \in 0..Count(c) - 1, q \in 0..2 :
            LET p == starts'[c] + 2 + 3 * i + q
            IN  p < Length => bin'[p] = Wire(c, i)[q + 1]
      BY <2>2, <2>6, <2>8, <3>1
    <3>3. Header(Count(c))' = Header(Count(c))
      BY <2>3 DEF Header
    <3>4. /\ starts'[c] < Length => bin'[starts'[c]] = Header(Count(c))[1]
          /\ starts'[c] + 1 < Length => bin'[starts'[c] + 1] = Header(Count(c))[2]
      BY <2>6, <2>8, <3>1
    <3> QED BY <3>1, <3>2, <3>3, <3>4, <2>3, <2>4 DEF Well
  <2>9. ASSUME NEW c \in 0..MaxChannels, c < k PROVE Well(c)'
    <3>1. /\ starts[c] \in Nat /\ starts[c + 1] \in Nat /\ Count(c) \in Nat
          /\ starts[c + 1] \leq binIdx /\ Well(c)
          /\ starts'[c] = starts[c] /\ starts'[c + 1] = starts[c + 1]
      <4>1. c \in 0..MaxChannels - 1 /\ c + 1 \in 0..k /\ k \in 0..MaxChannels
            /\ c + 1 \in 0..MaxChannels /\ c \in 0..k
        BY <2>2, <2>9
      <4>2. Count(c) \in Nat
        BY <1>0, <4>1, CountType
      <4>3. starts[c + 1] \leq starts[k]
        BY <2>5, <4>1
      <4> QED BY <2>2, <2>5, <2>7, <2>9, <4>1, <4>2, <4>3
    <3>2. starts[c + 1] = starts[c] + 2 + 3 * Count(c)
      BY <3>1 DEF Well
    <3>3. \A p \in Nat : p < starts[c + 1] /\ p < Length => bin'[p] = bin[p]
      BY <2>2, <2>6, <3>1
    <3>4. \A i \in 0..Count(c) - 1, q \in 0..2 :
            LET p == starts[c] + 2 + 3 * i + q
            IN  p < Length => bin'[p] = Wire(c, i)[q + 1]
      <4> TAKE i \in 0..Count(c) - 1, q \in 0..2
      <4> DEFINE p == starts[c] + 2 + 3 * i + q
      <4>1. p \in Nat /\ p < starts[c + 1]
        BY <3>1, <3>2
      <4>2. p < Length => bin[p] = Wire(c, i)[q + 1]
        BY <3>1 DEF Well
      <4> QED BY <4>1, <4>2, <3>3
    <3>5. /\ starts[c] < Length => bin'[starts[c]] = Header(Count(c))[1]
          /\ starts[c] + 1 < Length => bin'[starts[c] + 1] = Header(Count(c))[2]
      BY <3>1, <3>2, <3>3 DEF Well
    <3> QED BY <3>1, <3>2, <3>4, <3>5, <2>3, <2>4 DEF Well, Header
  <2>10. ASSUME NEW c \in 0..MaxChannels, NEW d \in 0..MaxChannels,
                c \leq d, d \leq k + 1
         PROVE  starts'[c] \leq starts'[d]
    <3>1. CASE d \leq k
      <4>1. starts[c] \leq starts[d] /\ c \in 0..k /\ d \in 0..k
        BY <3>1, <2>2, <2>5, <2>10
      <4> QED BY <4>1, <2>7
    <3>2. CASE d = k + 1 /\ c \leq k
      <4>1. starts[c] \leq starts[k] /\ starts[c] \in Nat /\ c \in 0..k
        BY <3>2, <2>2, <2>5
      <4> QED BY <4>1, <3>2, <2>2, <2>5, <2>7, SMTT(30)
    <3>3. CASE c = k + 1 /\ d = k + 1
      BY <3>3, <2>2, <2>7
    <3> QED BY <3>1, <3>2, <3>3, <2>10, <2>2
  <2>11. k' \leq driver'.channels /\ binIdx' = starts'[k']
         /\ startChannel' = starts'[k']
    BY <2>1, <2>2, <2>7
  <2>12. \A c \in 0..MaxChannels : Packed(c)' => Well(c)'
    <3>1. \A c \in 0..MaxChannels : Packed(c)' => c < k \/ c = k
      BY <2>1, <2>2 DEF Packed
    <3> QED BY <3>1, <2>8, <2>9
  <2>13. \A c, d \in 0..MaxChannels :
           c \leq d /\ (d = 0 \/ Packed(d - 1)') => starts'[c] \leq starts'[d]
    <3>1. \A d \in 0..MaxChannels : (d = 0 \/ Packed(d - 1)') => d \leq k + 1
      BY <2>1, <2>2 DEF Packed
    <3> QED BY <3>1, <2>10
  <2>14. starts'[0] = 0
    BY <2>1, <2>2, <2>7 DEF EncoderInv
  <2> QED BY <2>11, <2>12, <2>13, <2>14 DEF EncoderInv
<1>3. CASE sendWsMsg
  <2>1. /\ stage = "encode" /\ (isLost \/ k = driver.channels)
        /\ stage' = "decode"
        /\ UNCHANGED <<driver, isLost, image, bin, starts>>
    BY <1>3 DEF sendWsMsg
  <2>2. ~isLost => \A c : Packed(c)' = Packed(c)
    BY <2>1 DEF Packed
  <2>3. \A c : Well(c)' = Well(c)
    BY <2>1 DEF Well, Wire, Count, Length
  <2> QED BY <2>1, <2>2, <2>3 DEF EncoderInv
<1>4. CASE DecodeChannel \/ show
  <2>1. /\ stage = "decode" /\ stage' \in {"decode", "shown"}
        /\ UNCHANGED <<driver, isLost, image, bin, starts>>
    BY <1>4 DEF DecodeChannel, show
  <2>2. \A c : Packed(c)' = Packed(c) /\ Well(c)' = Well(c)
    BY <2>1 DEF Packed, Well, Wire, Count, Length
  <2> QED BY <2>1, <2>2 DEF EncoderInv
<1>5. CASE UNCHANGED vars
  <2>1. \A c : Packed(c)' = Packed(c) /\ Well(c)' = Well(c)
    BY <1>5 DEF vars, Packed, Well, Wire, Count, Length
  <2> QED BY <1>5, <2>1 DEF vars, EncoderInv
<1> QED BY <1>1, <1>2, <1>3, <1>4, <1>5 DEF Next

-----------------------------------------------------------------------------
(* The decoder.  Three bytes of a packed channel are one pixel of it.      *)
LEMMA WellTriple ==
  ASSUME NEW c \in 0..MaxChannels, Well(c), starts[c] \in Nat, Length \in Nat,
         NEW i \in 0..Count(c) - 1, starts[c] + 2 + 3 * i + 2 < Length
  PROVE  Triple(starts[c] + 2 + 3 * i) = Corrected(Wire(c, i))
<1> DEFINE at == starts[c] + 2 + 3 * i
<1>1. ASSUME NEW q \in 0..2 PROVE payload(at + q) = Wire(c, i)[q + 1]
  <2>1. at + q < Length
    OBVIOUS
  <2>2. bin[at + q] = Wire(c, i)[q + 1]
    BY <2>1 DEF Well
  <2> QED BY <2>1, <2>2 DEF payload
<1>2. /\ at \in Int /\ at + 0 = at
      /\ 0 \in 0..2 /\ 1 \in 0..2 /\ 2 \in 0..2
      /\ 0 + 1 = 1 /\ 1 + 1 = 2 /\ 2 + 1 = 3
  OBVIOUS
<1> HIDE DEF at
<1>3. payload(at) = Wire(c, i)[1]
  BY <1>1, <1>2
<1>4. payload(at + 1) = Wire(c, i)[2]
  BY <1>1, <1>2
<1>5. payload(at + 2) = Wire(c, i)[3]
  BY <1>1, <1>2
<1>6. Triple(at) = Corrected(Wire(c, i))
  BY <1>3, <1>4, <1>5 DEF Triple, Corrected
<1> QED BY <1>6 DEF at

(* One round of the decoder on a channel that is whole in the array.       *)
LEMMA DecodeWhole ==
  ASSUME TypeOK, EncoderInv, DecodeChannel, ~isLost, HeadersFit,
         Encoded(k), j = starts[k]
  PROVE  /\ j' = starts[k + 1]
         /\ \A i \in Led : leds'[k][i] = Expected(k, i)
<1> DEFINE n == Count(k)
           first == j + 2
<1>1. /\ stage = "decode" /\ j < Length /\ k \in Chan /\ k < driver.channels
      /\ starts[k + 1] \leq Length
  BY CodecAssumption DEF DecodeChannel, TypeOK, Chan, Encoded
<1>2. /\ k \in 0..MaxChannels - 1 /\ k \in 0..driver.channels - 1
      /\ Length \in Nat /\ j \in Nat
  <2>1. driver.channels \in 1..MaxChannels /\ Length \in Nat
    BY LengthType
  <2>2. k \in Nat /\ j \in Nat /\ MaxChannels \in Nat
    BY CodecAssumption DEF TypeOK
  <2> QED BY <2>1, <2>2, <1>1
<1>3. n \in Nat /\ n < Base * ByteSize
  BY <1>2, CountType DEF HeadersFit
<1>4. Well(k)
  BY <1>1, <1>2, CodecAssumption DEF EncoderInv, Packed
<1>5. starts[k + 1] = first + 3 * n
  BY <1>4 DEF Well
<1>6. payload(j) * Base + payload(j + 1) = n
  <2>1. j + 1 < Length
    BY <1>1, <1>2, <1>3, <1>5
  <2>2. payload(j) = Header(n)[1] /\ payload(j + 1) = Header(n)[2]
    BY <1>1, <1>4, <2>1 DEF Well, payload
  <2> QED BY <2>2, <1>3, HeaderCount
<1>7. Taken(n, first) = n
  BY <1>1, <1>5 DEF Taken
<1>8. /\ leds' = [leds EXCEPT ![k] = Decoded(first, n)]
      /\ j' = first + 3 * n
  BY <1>6, <1>7 DEF DecodeChannel
<1>9. ASSUME NEW i \in Led, i < n
      PROVE  Triple(first + 3 * i) = Corrected(Wire(k, i))
  <2>1. i \in 0..Count(k) - 1
    BY <1>3, <1>9 DEF Led
  <2>2. k \in 0..MaxChannels
    BY <1>2, CodecAssumption
  <2>3. first + 3 * i + 2 < Length
    BY <1>1, <1>2, <1>3, <1>5, <2>1
  <2> QED BY <1>2, <1>4, <2>1, <2>2, <2>3, WellTriple DEF TypeOK
<1>10. ASSUME NEW i \in Led PROVE leds'[k][i] = Expected(k, i)
  <2>1. leds'[k][i] = IF i < n THEN Triple(first + 3 * i) ELSE Black
    BY <1>1, <1>8 DEF Decoded, TypeOK
  <2>2. i < n => Wire(k, i) = Ordered(image[k].order, image[k].pixels[i + 1])
    BY <1>2, <1>3, WireIsOrdered DEF Led
  <2> QED BY <2>1, <2>2, <1>9 DEF Expected
<1> QED BY <1>5, <1>8, <1>10

(* One round of it on a channel that the end of the array cuts: it takes   *)
(* the pixels that are whole, and leaves less than one behind.             *)
LEMMA DecodeCut ==
  ASSUME TypeOK, EncoderInv, DecodeChannel, ~isLost, HeadersFit,
         k < driver.channels, ~Encoded(k), j = starts[k]
  PROVE  /\ j' + 3 > Length
         /\ \E m \in 0..NUM_LEDS : \A i \in Led :
              leds'[k][i] = IF i < m THEN Expected(k, i) ELSE Black
<1> DEFINE first == j + 2
           room == (Length - first) \div 3
<1>1. /\ stage = "decode" /\ j < Length /\ k \in Chan
      /\ k \in 0..MaxChannels - 1 /\ k \in 0..driver.channels - 1
      /\ k \in 0..MaxChannels /\ Length \in Nat /\ j \in Nat /\ NUM_LEDS \in Nat
  <2>1. driver.channels \in 1..MaxChannels /\ Length \in Nat
    BY LengthType
  <2>2. k \in Nat /\ j \in Nat /\ MaxChannels \in Nat
    BY CodecAssumption DEF TypeOK
  <2>3. stage = "decode" /\ j < Length /\ k < NUM_CHANNELS
    BY DEF DecodeChannel
  <2> QED BY <2>1, <2>2, <2>3, CodecAssumption DEF Chan
<1>2. Count(k) \in Nat /\ Count(k) < Base * ByteSize
  BY <1>1, CountType DEF HeadersFit
<1>3. Well(k) /\ starts[k + 1] = first + 3 * Count(k) /\ first + 3 * Count(k) > Length
  <2>1. Well(k)
    BY <1>1 DEF EncoderInv, Packed
  <2>2. starts[k + 1] = first + 3 * Count(k)
    BY <2>1 DEF Well
  <2>3. ~(starts[k + 1] \leq Length)
    BY DEF Encoded
  <2> QED BY <1>1, <1>2, <2>1, <2>2, <2>3
<1>4. PICK n \in Nat : /\ j' = first + 3 * n /\ leds' = [leds EXCEPT ![k] = Decoded(first, n)]
                       /\ first \leq Length => n = room
                       /\ first > Length => n = 0
  <2> DEFINE dataSize == payload(j) * Base + payload(j + 1)
             n == Taken(dataSize, first)
  <2>1. j' = first + 3 * n /\ leds' = [leds EXCEPT ![k] = Decoded(first, n)]
    BY Zenon DEF DecodeChannel
  <2>2. dataSize \in Nat
    <3>1. payload(j) \in Byte /\ payload(j + 1) \in Byte
      BY <1>1, PayloadType
    <3>2. Base \in Nat /\ \A b \in Byte : b \in Nat
      BY CodecAssumption DEF Byte
    <3>3. \A a, b \in Nat : a * b \in Nat /\ a + b \in Nat
      OBVIOUS
    <3> QED BY <3>1, <3>2, <3>3
  <2>3. first \leq Length => dataSize = Count(k)
    <3>1. SUFFICES ASSUME first \leq Length PROVE dataSize = Count(k)
      OBVIOUS
    <3>2. j < Length /\ j + 1 < Length
      BY <1>1, <3>1
    <3>3. payload(j) = Header(Count(k))[1] /\ payload(j + 1) = Header(Count(k))[2]
      BY <1>3, <3>2 DEF Well, payload
    <3> QED BY <1>2, <3>3, HeaderCount
  <2> HIDE DEF dataSize
  <2>4. /\ first \leq Length => n = room
        /\ first > Length => n = 0
    BY <1>1, <1>2, <1>3, <2>2, <2>3 DEF Taken
  <2>5. n \in Nat
    BY <1>1, <2>4
  <2> QED BY <2>1, <2>4, <2>5
<1>5. j' + 3 > Length
  BY <1>1, <1>4
<1>6. ASSUME NEW i \in Led PROVE leds'[k][i] = IF i < n THEN Expected(k, i) ELSE Black
  <2>1. leds'[k][i] = IF i < n THEN Triple(first + 3 * i) ELSE Black
    BY <1>1, <1>4 DEF Decoded, TypeOK
  <2>2. CASE i < n
    <3>1. /\ first \leq Length /\ first + 3 * i + 2 < Length
          /\ i \in 0..Count(k) - 1 /\ i < Count(k)
      BY <1>1, <1>2, <1>3, <1>4, <2>2 DEF Led
    <3>2. Triple(first + 3 * i) = Corrected(Wire(k, i))
      BY <1>1, <1>3, <3>1, WellTriple DEF TypeOK
    <3>3. Wire(k, i) = Ordered(image[k].order, image[k].pixels[i + 1])
      BY <1>1, <3>1, WireIsOrdered
    <3> QED BY <2>1, <2>2, <3>1, <3>2, <3>3 DEF Expected
  <2> QED BY <2>1, <2>2
<1>7. \E m \in 0..NUM_LEDS : \A i \in Led :
        leds'[k][i] = IF i < m THEN Expected(k, i) ELSE Black
  <2>1. CASE n \leq NUM_LEDS
    BY <1>1, <1>4, <1>6, <2>1
  <2>2. CASE n > NUM_LEDS
    <3>1. \A i \in Led : i < n /\ i < NUM_LEDS
      BY <1>1, <1>4, <2>2 DEF Led
    <3> QED BY <1>1, <1>6, <3>1
  <2> QED BY <1>1, <1>4, <2>1, <2>2
<1> QED BY <1>5, <1>7

(* What the encoder recorded about channel c, for the decoder to rely on.  *)
LEMMA Recorded ==
  ASSUME TypeOK, EncoderInv, stage \in {"decode", "shown"}, ~isLost,
         NEW c \in Nat, c < driver.channels, NEW d \in Nat, d \leq c
  PROVE  /\ starts[d] \in Nat /\ starts[c] \in Nat /\ starts[c + 1] \in Nat
         /\ starts[d] \leq starts[c] /\ starts[c] < starts[c + 1]
<1>1. /\ driver.channels \in 1..MaxChannels /\ MaxChannels \in Nat
      /\ starts \in [0..MaxChannels -> Nat]
  BY LengthType, CodecAssumption DEF TypeOK
<1>2. /\ c \in 0..MaxChannels /\ c + 1 \in 0..MaxChannels
      /\ d \in 0..MaxChannels /\ c \in 0..MaxChannels - 1
  BY <1>1
<1>3. Well(c) /\ Count(c) \in Nat
  BY <1>1, <1>2, CountType DEF EncoderInv, Packed
<1>4. starts[d] \leq starts[c]
  <2>1. c = 0 \/ Packed(c - 1)
    BY <1>1 DEF Packed
  <2> QED BY <1>2, <2>1 DEF EncoderInv
<1>5. starts[c + 1] = starts[c] + 2 + 3 * Count(c)
  BY <1>3 DEF Well
<1> QED BY <1>1, <1>2, <1>3, <1>4, <1>5

LEMMA DecoderNext ==
  ASSUME TypeInv, EncoderInv, DecoderInv, [Next]_vars PROVE DecoderInv'
<1>0. TypeOK
  BY DEF TypeInv
<1>1. CASE pixelsToMsg \/ EncodeChannel
  BY <1>1 DEF pixelsToMsg, EncodeChannel, DecoderInv
<1>2. CASE sendWsMsg
  <2>1. /\ stage = "encode" /\ stage' = "decode" /\ k' = 0 /\ j' = 0
        /\ starts' = starts /\ isLost' = isLost
    BY <1>2 DEF sendWsMsg
  <2>2. ~isLost => starts[0] = 0
    BY <2>1 DEF EncoderInv
  <2> QED BY <2>1, <2>2 DEF DecoderInv, Chan
<1>3. CASE DecodeChannel
  <2>1. /\ stage = "decode" /\ stage' = "decode" /\ k' = k + 1 /\ k < NUM_CHANNELS
        /\ UNCHANGED <<driver, isLost, image, bin, starts>>
    BY <1>3 DEF DecodeChannel
  <2>2. /\ HeadersFit' = HeadersFit /\ Length' = Length
        /\ \A c : Encoded(c)' = Encoded(c)
        /\ \A c, i : Expected(c, i)' = Expected(c, i)
    BY <2>1 DEF HeadersFit, Length, Encoded, Expected, Count
  <2>3. SUFFICES ASSUME ~isLost, HeadersFit
                 PROVE  /\ k' \leq driver.channels /\ starts[k'] \leq Length
                             => j' = starts[k']
                        /\ \A c \in Chan : c < k' /\ Encoded(c) =>
                             \A i \in Led : leds'[c][i] = Expected(c, i)
    BY <2>1, <2>2 DEF DecoderInv
  <2>4. k \in Nat /\ Length \in Nat /\ driver.channels \in Nat
    BY <1>0, LengthType DEF TypeOK
  <2>5. ASSUME Encoded(k)
        PROVE  /\ j' = starts[k + 1]
               /\ \A i \in Led : leds'[k][i] = Expected(k, i)
    <3>1. k < driver.channels /\ starts[k + 1] \leq Length
      BY <2>5 DEF Encoded
    <3>2. starts[k] \leq Length
      BY <1>0, <2>1, <2>3, <2>4, <3>1, Recorded
    <3>3. j = starts[k]
      BY <2>1, <2>3, <2>4, <3>1, <3>2 DEF DecoderInv
    <3> QED BY <1>0, <1>3, <2>3, <2>5, <3>3, DecodeWhole
  <2>6. k' \leq driver.channels /\ starts[k'] \leq Length => j' = starts[k']
    BY <2>1, <2>4, <2>5 DEF Encoded
  <2>7. ASSUME NEW c \in Chan, c < k', Encoded(c), NEW i \in Led
        PROVE  leds'[c][i] = Expected(c, i)
    <3>1. CASE c = k
      BY <3>1, <2>5, <2>7
    <3>2. CASE c # k
      <4>1. c < k
        BY <3>2, <2>1, <2>4, <2>7 DEF Chan
      <4>2. leds[c][i] = Expected(c, i)
        BY <4>1, <2>1, <2>3, <2>7 DEF DecoderInv
      <4>3. leds'[c] = leds[c]
        BY <3>2, <1>0, <1>3, <2>7 DEF DecodeChannel, TypeOK
      <4> QED BY <4>2, <4>3
    <3> QED BY <3>1, <3>2
  <2> QED BY <2>6, <2>7
<1>4. CASE show \/ UNCHANGED vars
  <2>1. UNCHANGED <<driver, isLost, image, k, bin, j, leds, starts>>
    BY <1>4 DEF show, vars
  <2>2. /\ HeadersFit' = HeadersFit /\ Length' = Length
        /\ \A c : Encoded(c)' = Encoded(c)
        /\ \A c, i : Expected(c, i)' = Expected(c, i)
    BY <2>1 DEF HeadersFit, Length, Encoded, Expected, Count
  <2>3. CASE show
    <3>1. stage = "decode" /\ ~(k < NUM_CHANNELS /\ j < Length)
      BY <2>3 DEF show
    <3> QED BY <2>1, <2>2, <3>1 DEF DecoderInv
  <2>4. CASE UNCHANGED vars
    BY <2>1, <2>2, <2>4 DEF DecoderInv, vars
  <2> QED BY <1>4, <2>3, <2>4
<1> QED BY <1>1, <1>2, <1>3, <1>4 DEF Next

LEMMA CodecInvariant == Spec => [](TypeInv /\ EncoderInv /\ DecoderInv)
<1>1. Init => EncoderInv /\ DecoderInv
  BY DEF Init, EncoderInv, DecoderInv
<1>2. /\ TypeInv /\ TypeInv' /\ EncoderInv /\ DecoderInv /\ [Next]_vars
      => EncoderInv' /\ DecoderInv'
  BY EncoderNext, DecoderNext
<1> QED BY <1>1, <1>2, TypeInvariant, PTL DEF Spec

(* Whatever the templates, the metadata and the earlier frames, a channel  *)
(* whose pixels fit in the array shows exactly its part of the image.  A   *)
(* channel c the decoder had stopped before would start before the end of  *)
(* the array, and the decoder only stops at the end or past all channels.  *)
THEOREM DeviceShowsImage == Spec => []LedsShowImage
<1>1. ASSUME TypeInv, EncoderInv, DecoderInv PROVE LedsShowImage
  <2>1. SUFFICES ASSUME stage = "shown", ~isLost, HeadersFit,
                        NEW c \in Chan, Encoded(c)
                 PROVE  \A i \in Led : leds[c][i] = Expected(c, i)
    BY DEF LedsShowImage
  <2>2. TypeOK
    BY <1>1 DEF TypeInv
  <2>3. /\ k \in Nat /\ c \in Nat /\ c < NUM_CHANNELS /\ Length \in Nat
        /\ driver.channels \in Nat /\ NUM_CHANNELS \in Nat
    BY <2>2, LengthType, CodecAssumption DEF TypeOK, Chan
  <2>4. c < driver.channels /\ starts[c + 1] \leq Length
    BY <2>1 DEF Encoded
  <2>5. c < k
    <3>1. SUFFICES ASSUME k \leq c PROVE FALSE
      BY <2>3
    <3>2. /\ starts[k] \in Nat /\ starts[c] \in Nat /\ starts[c + 1] \in Nat
          /\ starts[k] \leq starts[c] /\ starts[c] < starts[c + 1]
      BY <1>1, <2>1, <2>2, <2>3, <2>4, <3>1, Recorded
    <3>3. j = starts[k]
      BY <1>1, <2>1, <2>3, <2>4, <3>1, <3>2 DEF DecoderInv
    <3>4. ~(k < NUM_CHANNELS /\ j < Length)
      BY <1>1, <2>1 DEF DecoderInv
    <3> QED BY <2>3, <2>4, <3>1, <3>2, <3>3, <3>4
  <2> QED BY <1>1, <2>1, <2>5 DEF DecoderInv
<1> QED BY <1>1, CodecInvariant, PTL

-----------------------------------------------------------------------------
(* Behind what was packed the array is zero; of a lost driver all of it.   *)
PackedEnd == IF stage = "encode" THEN binIdx ELSE starts[driver.channels]
TailInv ==
  stage # "boot" =>
    \A p \in 0..Length - 1 : isLost \/ p \geq PackedEnd => bin[p] = 0

LEMMA TailNext ==
  ASSUME TypeInv, EncoderInv, TailInv, [Next]_vars PROVE TailInv'
<1>0. TypeOK
  BY DEF TypeInv
<1>1. CASE pixelsToMsg
  <2>1. bin' = [p \in 0..Length' - 1 |-> 0]
    BY <1>1 DEF pixelsToMsg
  <2> QED BY <2>1 DEF TailInv
<1>2. CASE EncodeChannel
  <2> DEFINE first == binIdx + 2
             next == first + 3 * Count(k)
  <2>1. /\ bin' = Stored(first, next) /\ binIdx' = next
        /\ stage = "encode" /\ ~isLost /\ k < driver.channels
        /\ startChannel = binIdx
        /\ UNCHANGED <<stage, driver, isLost>>
    BY <1>2 DEF EncodeChannel, TypeInv
  <2>2. /\ Count(k) \in Nat /\ binIdx \in Nat /\ Length \in Nat
        /\ DOMAIN bin = 0..Length - 1 /\ Length' = Length
    <3>1. k \in 0..MaxChannels - 1
      BY <1>0, <2>1, LengthType, CodecAssumption, SMTT(30) DEF TypeOK
    <3> QED BY <1>0, <2>1, <3>1, CountType, LengthType DEF TypeOK, Length
  <2>3. ASSUME NEW p \in 0..Length - 1, p \geq next PROVE bin'[p] = 0
    <3>1. /\ p # startChannel /\ p # startChannel + 1 /\ p \notin first..next - 1
          /\ p \geq binIdx
      BY <2>1, <2>2, <2>3
    <3>2. bin'[p] = bin[p]
      BY <2>1, <2>2, <3>1 DEF Stored
    <3> QED BY <2>1, <3>1, <3>2 DEF TailInv, PackedEnd
  <2> QED BY <2>1, <2>2, <2>3 DEF TailInv, PackedEnd
<1>3. CASE sendWsMsg
  <2>1. /\ stage = "encode" /\ (isLost \/ k = driver.channels) /\ stage' = "decode"
        /\ UNCHANGED <<driver, isLost, bin, starts>>
    BY <1>3 DEF sendWsMsg
  <2>2. ~isLost => binIdx = starts[driver.channels]
    BY <2>1 DEF EncoderInv
  <2>3. Length' = Length
    BY <2>1 DEF Length
  <2> QED BY <2>1, <2>2, <2>3 DEF TailInv, PackedEnd
<1>4. CASE DecodeChannel \/ show
  <2>1. /\ stage = "decode" /\ stage' # "encode"
        /\ UNCHANGED <<driver, isLost, bin, starts>>
    BY <1>4 DEF DecodeChannel, show
  <2> QED BY <2>1 DEF TailInv, PackedEnd, Length
<1>5. CASE UNCHANGED vars
  BY <1>5 DEF vars, TailInv, PackedEnd, Length
<1> QED BY <1>1, <1>2, <1>3, <1>4, <1>5 DEF Next

(* Where the decoder is: at a channel that starts in the array, behind all *)
(* channels, or at the end with less than a pixel to come.                 *)
CutInv ==
  stage \in {"decode", "shown"} /\ ~isLost /\ HeadersFit =>
    /\ \/ k \leq driver.channels /\ starts[k] \leq Length
       \/ /\ k > driver.channels /\ starts[driver.channels] \leq Length
          /\ j \geq starts[driver.channels]
       \/ j + 3 > Length
    /\ \A c \in Chan : c < k /\ c < driver.channels /\ starts[c] < Length =>
         \E n \in 0..NUM_LEDS : \A i \in Led :
           leds[c][i] = IF i < n THEN Expected(c, i) ELSE Black

LEMMA DecodeMoves ==
  ASSUME TypeOK, DecodeChannel
  PROVE  /\ j' \geq j + 2 /\ j \in Nat /\ j' \in Nat
         /\ stage = "decode" /\ stage' = "decode" /\ k' = k + 1 /\ k \in Chan
         /\ \A c \in Chan \ {k} : leds'[c] = leds[c]
         /\ UNCHANGED <<driver, isLost, image, bin, starts>>
<1>1. /\ leds' \in [Chan -> [Led -> Pixel]] /\ j' \in Nat /\ k \in Chan /\ j \in Nat
  BY DecodeType DEF TypeOK
<1>2. PICK from, size : leds' = [leds EXCEPT ![k] = Decoded(from, size)]
  BY Zenon DEF DecodeChannel
<1>3. j' \geq j + 2
  <2> DEFINE dataSize == payload(j) * Base + payload(j + 1)
             n == Taken(dataSize, j + 2)
  <2>1. j' = (j + 2) + 3 * n
    BY Zenon DEF DecodeChannel
  <2>2. dataSize \in Nat
    <3>1. payload(j) \in Byte /\ payload(j + 1) \in Byte
      BY <1>1, PayloadType
    <3>2. Base \in Nat /\ \A b \in Byte : b \in Nat
      BY CodecAssumption DEF Byte
    <3>3. \A a, b \in Nat : a * b \in Nat /\ a + b \in Nat
      OBVIOUS
    <3> QED BY <3>1, <3>2, <3>3
  <2> HIDE DEF dataSize
  <2>3. n \in Nat
    BY <1>1, <2>2, LengthType DEF Taken
  <2> HIDE DEF n
  <2> QED BY <1>1, <2>1, <2>3
<1>4. \A c \in Chan \ {k} : leds'[c] = leds[c]
  BY <1>2 DEF TypeOK
<1> QED BY <1>1, <1>3, <1>4 DEF DecodeChannel

LEMMA CutNext ==
  ASSUME TypeInv, EncoderInv, DecoderInv, CutInv, [Next]_vars PROVE CutInv'
<1>0. TypeOK
  BY DEF TypeInv
<1>1. CASE pixelsToMsg \/ EncodeChannel
  BY <1>1 DEF pixelsToMsg, EncodeChannel, CutInv
<1>2. CASE sendWsMsg
  <2>1. /\ stage = "encode" /\ stage' = "decode" /\ k' = 0 /\ j' = 0
        /\ starts' = starts /\ isLost' = isLost /\ driver' = driver
    BY <1>2 DEF sendWsMsg
  <2>2. ~isLost => starts[0] = 0
    BY <2>1 DEF EncoderInv
  <2>3. 0 \leq driver'.channels /\ 0 \leq Length'
    BY <1>0, <2>1, LengthType DEF Length
  <2> QED BY <2>1, <2>2, <2>3 DEF CutInv, Chan
<1>3. CASE DecodeChannel
  <2>1. /\ j' \geq j + 2 /\ j \in Nat /\ j' \in Nat
        /\ stage = "decode" /\ stage' = "decode" /\ k' = k + 1 /\ k \in Chan
        /\ \A c \in Chan \ {k} : leds'[c] = leds[c]
        /\ UNCHANGED <<driver, isLost, image, bin, starts>>
    BY <1>0, <1>3, DecodeMoves
  <2>2. /\ HeadersFit' = HeadersFit /\ Length' = Length
        /\ \A c, i : Expected(c, i)' = Expected(c, i)
    BY <2>1 DEF HeadersFit, Length, Expected, Count
  <2>3. k \in Nat /\ Length \in Nat /\ driver.channels \in Nat /\ NUM_LEDS \in Nat
    BY <1>0, LengthType, CodecAssumption DEF TypeOK
  <2>4. SUFFICES ASSUME ~isLost, HeadersFit
                 PROVE  /\ \/ k' \leq driver.channels /\ starts[k'] \leq Length
                           \/ /\ k' > driver.channels
                              /\ starts[driver.channels] \leq Length
                              /\ j' \geq starts[driver.channels]
                           \/ j' + 3 > Length
                        /\ \A c \in Chan :
                             c < k' /\ c < driver.channels /\ starts[c] < Length =>
                             \E n \in 0..NUM_LEDS : \A i \in Led :
                               leds'[c][i] = IF i < n THEN Expected(c, i) ELSE Black
    BY <2>1, <2>2 DEF CutInv
  <2>5. ASSUME k < driver.channels, starts[k] < Length
        PROVE  /\ Encoded(k) \/ j' + 3 > Length
               /\ \E n \in 0..NUM_LEDS : \A i \in Led :
                    leds'[k][i] = IF i < n THEN Expected(k, i) ELSE Black
    <3>1. j = starts[k]
      <4>1. starts[k] \in Nat
        BY <1>0, <2>1, <2>3, <2>4, <2>5, Recorded
      <4> QED BY <2>1, <2>3, <2>4, <2>5, <4>1 DEF DecoderInv
    <3>2. CASE Encoded(k)
      <4>1. \A i \in Led : leds'[k][i] = Expected(k, i)
        BY <1>0, <1>3, <2>4, <3>1, <3>2, DecodeWhole
      <4>2. \A i \in Led : i < NUM_LEDS
        BY <2>3 DEF Led
      <4>3. \A i \in Led : leds'[k][i] = IF i < NUM_LEDS THEN Expected(k, i) ELSE Black
        BY <4>1, <4>2
      <4> QED BY <2>3, <3>2, <4>3
    <3>3. CASE ~Encoded(k)
      BY <1>0, <1>3, <2>4, <2>5, <3>1, <3>3, DecodeCut
    <3> QED BY <3>2, <3>3
  <2>6. \/ k' \leq driver.channels /\ starts[k'] \leq Length
        \/ /\ k' > driver.channels /\ starts[driver.channels] \leq Length
           /\ j' \geq starts[driver.channels]
        \/ j' + 3 > Length
    <3>0. /\ starts \in [0..MaxChannels -> Nat] /\ MaxChannels \in Nat
          /\ driver.channels \in 1..MaxChannels
      BY <1>0, LengthType, CodecAssumption DEF TypeOK
    <3>1. CASE k < driver.channels /\ starts[k] \leq Length
      <4>1. starts[k] \in Nat /\ k \leq driver.channels
        BY <2>3, <3>0, <3>1
      <4>2. j = starts[k]
        BY <2>1, <2>4, <3>1, <4>1 DEF DecoderInv
      <4>3. j < Length
        BY <1>3 DEF DecodeChannel
      <4>4. Encoded(k) \/ j' + 3 > Length
        BY <2>5, <3>1, <4>2, <4>3
      <4>5. Encoded(k) => k' \leq driver.channels /\ starts[k'] \leq Length
        BY <2>1, <2>3, <3>1 DEF Encoded
      <4> QED BY <4>4, <4>5
    <3>2. CASE k = driver.channels /\ starts[k] \leq Length
      <4>1. starts[k] \in Nat /\ k \leq driver.channels
        BY <2>3, <3>0, <3>2
      <4>2. j = starts[k]
        BY <2>1, <2>4, <3>2, <4>1 DEF DecoderInv
      <4>3. j' \geq starts[driver.channels] /\ k' > driver.channels
        BY <2>1, <2>3, <3>2, <4>1, <4>2
      <4> QED BY <3>2, <4>3
    <3>3. CASE /\ k > driver.channels /\ starts[driver.channels] \leq Length
               /\ j \geq starts[driver.channels]
      <4>1. starts[driver.channels] \in Nat
        BY <1>0, LengthType, CodecAssumption DEF TypeOK
      <4> QED BY <2>1, <2>3, <3>3, <4>1
    <3>4. CASE j + 3 > Length
      <4>1. j' \geq j + 2 /\ j \in Nat /\ j' \in Nat /\ Length \in Nat
        BY <2>1, <2>3
      <4>2. \A a, b, c \in Nat : a + 3 > c /\ b \geq a + 2 => b + 3 > c
        OBVIOUS
      <4>3. j' + 3 > Length
        BY <3>4, <4>1, <4>2
      <4> QED BY <4>3
    <3>5. \/ k \leq driver.channels /\ starts[k] \leq Length
          \/ /\ k > driver.channels /\ starts[driver.channels] \leq Length
             /\ j \geq starts[driver.channels]
          \/ j + 3 > Length
      BY <2>1, <2>4 DEF CutInv
    <3>6. k \leq driver.channels => k < driver.channels \/ k = driver.channels
      BY <2>3
    <3> QED BY <3>1, <3>2, <3>3, <3>4, <3>5, <3>6
  <2>7. ASSUME NEW c \in Chan, c < k', c < driver.channels, starts[c] < Length
        PROVE  \E n \in 0..NUM_LEDS : \A i \in Led :
                 leds'[c][i] = IF i < n THEN Expected(c, i) ELSE Black
    <3>1. CASE c = k
      BY <2>5, <2>7, <3>1
    <3>2. CASE c # k
      <4>1. c < k
        BY <2>1, <2>3, <2>7, <3>2 DEF Chan
      <4>2. leds'[c] = leds[c]
        BY <2>1, <3>2
      <4> QED BY <2>1, <2>4, <2>7, <4>1, <4>2 DEF CutInv
    <3> QED BY <3>1, <3>2
  <2> QED BY <2>6, <2>7
<1>4. CASE show \/ UNCHANGED vars
  <2>1. /\ UNCHANGED <<driver, isLost, image, k, bin, j, leds, starts>>
        /\ stage' \in {"decode", "shown"} => stage \in {"decode", "shown"}
    BY <1>4 DEF show, vars
  <2>2. /\ HeadersFit' = HeadersFit /\ Length' = Length
        /\ \A c, i : Expected(c, i)' = Expected(c, i)
    BY <2>1 DEF HeadersFit, Length, Expected, Count
  <2> QED BY <2>1, <2>2 DEF CutInv
<1> QED BY <1>1, <1>2, <1>3, <1>4 DEF Next

-----------------------------------------------------------------------------
(* A header that counts no pixel, or no room for one: nothing is taken.    *)
LEMMA TakenNone ==
  ASSUME TypeOK, NEW dataSize \in Nat, NEW first \in Nat,
         dataSize = 0 \/ first + 1 > Length
  PROVE  Taken(dataSize, first) = 0
<1>1. Length \in Nat
  BY LengthType
<1> DEFINE len == Length
<1>2. len \in Nat
  BY <1>1
<1>3. Taken(dataSize, first) =
        IF first + 3 * dataSize \leq len THEN dataSize
        ELSE IF first \leq len THEN (len - first) \div 3 ELSE 0
  BY DEF Taken
<1>4. dataSize = 0 \/ first + 1 > len
  OBVIOUS
<1> HIDE DEF len
<1>5. CASE dataSize = 0
  BY <1>2, <1>3, <1>5
<1>6. CASE dataSize # 0 /\ first + 1 > len
  <2>1. ~(first + 3 * dataSize \leq len)
    BY <1>2, <1>6
  <2>2. first \leq len => len - first = 0
    BY <1>2, <1>6
  <2>3. 0 \div 3 = 0
    OBVIOUS
  <2> QED BY <1>3, <2>1, <2>2, <2>3
<1> QED BY <1>4, <1>5, <1>6

LEMMA DecodeNone ==
  ASSUME TypeOK, DecodeChannel,
         (payload(j) = 0 /\ payload(j + 1) = 0) \/ j + 3 > Length
  PROVE  j' = j + 2 /\ \A i \in Led : leds'[k][i] = Black
<1> DEFINE dataSize == payload(j) * Base + payload(j + 1)
           n == Taken(dataSize, j + 2)
<1>1. /\ j' = (j + 2) + 3 * n /\ leds' = [leds EXCEPT ![k] = Decoded(j + 2, n)]
      /\ stage = "decode" /\ k < NUM_CHANNELS
  BY Zenon DEF DecodeChannel
<1>2. j \in Nat /\ Length \in Nat /\ k \in Chan
  BY LengthType, DecodeMoves
<1>3. dataSize \in Nat
  <2>1. payload(j) \in Byte /\ payload(j + 1) \in Byte
    BY <1>2, PayloadType
  <2>2. Base \in Nat /\ \A b \in Byte : b \in Nat
    BY CodecAssumption DEF Byte
  <2>3. \A a, b \in Nat : a * b \in Nat /\ a + b \in Nat
    OBVIOUS
  <2> QED BY <2>1, <2>2, <2>3
<1>4. dataSize = 0 \/ j + 3 > Length
  <2>1. CASE payload(j) = 0 /\ payload(j + 1) = 0
    <3>1. \A b \in Nat : 0 * b + 0 = 0
      OBVIOUS
    <3> QED BY <2>1, <3>1, CodecAssumption
  <2> QED BY <2>1
<1> HIDE DEF dataSize
<1>5. n = 0
  <2>1. \A a, b \in Nat : a + 3 > b => (a + 2) + 1 > b
    OBVIOUS
  <2>2. j + 2 \in Nat
    BY <1>2
  <2>3. dataSize = 0 \/ (j + 2) + 1 > Length
    BY <1>2, <1>4, <2>1
  <2> QED BY <1>3, <2>2, <2>3, TakenNone
<1> HIDE DEF n
<1>6. j' = j + 2
  BY <1>1, <1>2, <1>5
<1>7. leds'[k] = Decoded(j + 2, n)
  BY <1>1, <1>2 DEF TypeOK
<1>8. \A i \in Led : Decoded(j + 2, n)[i] = Black
  BY <1>5, CodecAssumption DEF Decoded, Led
<1> QED BY <1>6, <1>7, <1>8

LEMMA ZeroPayload ==
  ASSUME TypeOK, NEW p \in Nat, p < Length => bin[p] = 0
  PROVE  payload(p) = 0
BY DEF payload

(* The frame of a lost driver: only empty headers, two bytes each.         *)
LostInv ==
  stage \in {"decode", "shown"} /\ isLost =>
    /\ j = 2 * k
    /\ \A c \in Chan : c < k => \A i \in Led : leds[c][i] = Black
    /\ stage = "shown" => ~(k < NUM_CHANNELS /\ j < Length)

LEMMA LostNext ==
  ASSUME TypeInv, TailInv, LostInv, [Next]_vars PROVE LostInv'
<1>0. TypeOK
  BY DEF TypeInv
<1>1. CASE pixelsToMsg \/ EncodeChannel
  BY <1>1 DEF pixelsToMsg, EncodeChannel, LostInv
<1>2. CASE sendWsMsg
  BY <1>2, CodecAssumption DEF sendWsMsg, LostInv, Chan
<1>3. CASE DecodeChannel
  <2>1. /\ stage = "decode" /\ stage' = "decode" /\ k' = k + 1 /\ k \in Chan
        /\ \A c \in Chan \ {k} : leds'[c] = leds[c]
        /\ isLost' = isLost
    BY <1>0, <1>3, DecodeMoves
  <2>2. SUFFICES ASSUME isLost
                 PROVE  /\ j' = 2 * k'
                        /\ \A c \in Chan : c < k' =>
                             \A i \in Led : leds'[c][i] = Black
    BY <2>1 DEF LostInv
  <2>3. j \in Nat /\ k \in Nat /\ Length \in Nat
    BY <1>0, LengthType DEF TypeOK
  <2>4. payload(j) = 0 /\ payload(j + 1) = 0
    <3>1. \A p \in 0..Length - 1 : bin[p] = 0
      BY <2>1, <2>2 DEF TailInv
    <3>2. (j < Length => bin[j] = 0) /\ (j + 1 < Length => bin[j + 1] = 0)
      BY <2>3, <3>1
    <3> QED BY <1>0, <2>3, <3>2, ZeroPayload
  <2>5. j' = j + 2 /\ \A i \in Led : leds'[k][i] = Black
    BY <1>0, <1>3, <2>4, DecodeNone
  <2>6. j = 2 * k /\ \A c \in Chan : c < k => \A i \in Led : leds[c][i] = Black
    BY <2>1, <2>2 DEF LostInv
  <2>7. j' = 2 * k'
    BY <2>1, <2>3, <2>5, <2>6
  <2>8. ASSUME NEW c \in Chan, c < k' PROVE \A i \in Led : leds'[c][i] = Black
    <3>1. CASE c = k
      BY <2>5, <3>1
    <3>2. CASE c # k
      <4>1. c < k
        BY <2>1, <2>3, <2>8, <3>2 DEF Chan
      <4> QED BY <2>1, <2>6, <3>2, <4>1
    <3> QED BY <3>1, <3>2
  <2> QED BY <2>7, <2>8
<1>4. CASE show
  <2>1. Length' = Length
    BY <1>4 DEF show, Length
  <2> QED BY <1>4, <2>1 DEF show, LostInv
<1>5. CASE UNCHANGED vars
  <2>1. Length' = Length
    BY <1>5 DEF vars, Length
  <2> QED BY <1>5, <2>1 DEF vars, LostInv
<1> QED BY <1>1, <1>2, <1>3, <1>4, <1>5 DEF Next

LEMMA TailInvariant ==
  Spec => [](TypeInv /\ EncoderInv /\ DecoderInv /\ TailInv /\ CutInv /\ LostInv)
<1>1. Init => TailInv /\ CutInv /\ LostInv
  BY DEF Init, TailInv, CutInv, LostInv
<1>2. TypeInv /\ EncoderInv /\ DecoderInv /\ TailInv /\ CutInv /\ LostInv /\ [Next]_vars
      => TailInv' /\ CutInv' /\ LostInv'
  BY TailNext, CutNext, LostNext
<1> QED BY <1>1, <1>2, CodecInvariant, PTL DEF Spec

(* Pixels never move to another channel or another LED: a channel that     *)
(* overflows the array is cut short and dark behind the cut, and the frame *)
(* of a lost driver darkens the device.                                    *)
THEOREM PixelsStayPut == Spec => []NoBleed
<1>1. ASSUME TypeInv, EncoderInv, DecoderInv, CutInv, LostInv PROVE NoBleed
  <2>1. TypeOK
    BY <1>1 DEF TypeInv
  <2>2. /\ k \in Nat /\ Length \in Nat /\ j \in Nat
        /\ driver.channels \in Nat /\ NUM_CHANNELS \in Nat
        /\ \A c \in Chan : c \in Nat /\ c < NUM_CHANNELS
    BY <2>1, LengthType, CodecAssumption DEF TypeOK, Chan
  <2>3. ASSUME stage = "shown", ~isLost, HeadersFit,
               NEW c \in Chan, c < driver.channels, starts[c] < Length
        PROVE  \E n \in 0..NUM_LEDS : \A i \in Led :
                 leds[c][i] = IF i < n THEN Expected(c, i) ELSE Black
    <3>1. c < k
      <4>1. SUFFICES ASSUME k \leq c PROVE FALSE
        BY <2>2
      <4>2. /\ starts[k] \in Nat /\ starts[c] \in Nat
            /\ starts[k] \leq starts[c]
        BY <1>1, <2>1, <2>2, <2>3, <4>1, Recorded
      <4>3. k \leq driver.channels /\ starts[k] < Length /\ k < NUM_CHANNELS
        BY <2>2, <2>3, <4>1, <4>2
      <4>4. j = starts[k]
        BY <1>1, <2>2, <2>3, <4>2, <4>3 DEF DecoderInv
      <4>5. ~(k < NUM_CHANNELS /\ j < Length)
        BY <1>1, <2>3 DEF DecoderInv
      <4> QED BY <4>3, <4>4, <4>5
    <3> QED BY <1>1, <2>3, <3>1 DEF CutInv
  <2>4. ASSUME stage = "shown", isLost, 2 * NUM_CHANNELS \leq Length,
               NEW c \in Chan
        PROVE  \A i \in Led : leds[c][i] = Black
    <3>1. /\ j = 2 * k /\ ~(k < NUM_CHANNELS /\ j < Length)
          /\ c < k => \A i \in Led : leds[c][i] = Black
      BY <1>1, <2>4 DEF LostInv
    <3>2. k < NUM_CHANNELS => j < Length
      BY <2>2, <2>4, <3>1
    <3>3. c < k
      BY <2>2, <3>1, <3>2
    <3> QED BY <3>1, <3>3
  <2> QED BY <2>3, <2>4 DEF NoBleed
<1> QED BY <1>1, TailInvariant, PTL

Foreign ==
  \A c \in Chan :
    HeadersFit /\ c \geq driver.channels =>
      \/ leds'[c] = leds[c]
      \/ \A i \in Led : leds'[c][i] = Black

(* What a frame writes to a channel its driver does not have is darkness.  *)
THEOREM ForeignChannelsStayDark == Spec => NoForeignPixels
<1>1. ASSUME TypeInv, EncoderInv, DecoderInv, TailInv, CutInv, [Next]_vars
      PROVE  [Foreign]_leds
  <2>0. TypeOK
    BY <1>1 DEF TypeInv
  <2>1. CASE pixelsToMsg \/ EncodeChannel \/ sendWsMsg \/ show \/ UNCHANGED vars
    BY <2>1 DEF pixelsToMsg, EncodeChannel, sendWsMsg, show, vars
  <2>2. CASE DecodeChannel
    <3>1. /\ stage = "decode" /\ k \in Chan
          /\ \A c \in Chan \ {k} : leds'[c] = leds[c]
      BY <2>0, <2>2, DecodeMoves
    <3>2. /\ j \in Nat /\ k \in Nat /\ Length \in Nat /\ driver.channels \in Nat
          /\ starts[driver.channels] \in Nat
      BY <2>0, LengthType, CodecAssumption DEF TypeOK
    <3>3. ASSUME HeadersFit, k \geq driver.channels
          PROVE  \A i \in Led : leds'[k][i] = Black
      <4>1. CASE j + 3 > Length
        BY <2>0, <2>2, <4>1, DecodeNone
      <4>2. CASE isLost \/ j \geq starts[driver.channels]
        <5>1. \A p \in 0..Length - 1 :
                isLost \/ p \geq starts[driver.channels] => bin[p] = 0
          BY <1>1, <3>1 DEF TailInv, PackedEnd
        <5>2. /\ j < Length => bin[j] = 0
              /\ j + 1 < Length => bin[j + 1] = 0
          BY <3>2, <4>2, <5>1
        <5>3. payload(j) = 0 /\ payload(j + 1) = 0
          BY <2>0, <3>2, <5>2, ZeroPayload
        <5> QED BY <2>0, <2>2, <5>3, DecodeNone
      <4>3. CASE ~isLost /\ ~(j + 3 > Length) /\ ~(j \geq starts[driver.channels])
        <5>1. k \leq driver.channels /\ starts[k] \leq Length
          BY <1>1, <3>1, <3>3, <4>3 DEF CutInv
        <5>2. k = driver.channels
          BY <3>2, <3>3, <5>1
        <5>3. j = starts[k]
          BY <1>1, <3>1, <3>3, <4>3, <5>1 DEF DecoderInv
        <5> QED BY <3>2, <4>3, <5>2, <5>3
      <4> QED BY <4>1, <4>2, <4>3
    <3> QED BY <3>1, <3>3 DEF Foreign
  <2> QED BY <1>1, <2>1, <2>2 DEF Next
<1>2. TypeInv /\ EncoderInv /\ DecoderInv /\ TailInv /\ CutInv /\ [Next]_vars
      => [Foreign]_leds
  BY <1>1
<1>3. Spec => [][Foreign]_leds
  BY <1>2, TailInvariant, PTL DEF Spec
<1> QED BY <1>3 DEF NoForeignPixels, Foreign
=============================================================================
