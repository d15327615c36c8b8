---------------------------- MODULE EepromFormat ----------------------------
(***************************************************************************)
(* How LedX3.ino keeps a template in its EEPROM: two bytes of length in    *)
(* base 20, then the characters.  A shorter template leaves the end of a   *)
(* longer one behind.  An EEPROM is a function from addresses to bytes; a  *)
(* text is a sequence of bytes other than 0, as a C string is.             *)
(***************************************************************************)
EXTENDS Integers, Sequences

CONSTANTS
  EEPROM_SIZE,  \* 3072
  Base,         \* 20
  ByteSize,     \* 256
  Printable     \* the bytes from 32 to 126

Byte == 0..ByteSize - 1
Address == 0..EEPROM_SIZE - 1
Eeprom == [Address -> Byte]

(* BOUND: texts that fit behind their length, whose length fits its bytes  *)
(* and that are not empty.  Longer ones overrun the buffers of the         *)
(* firmware before they overrun the EEPROM.                                *)
Fits(t) == /\ 0 < Len(t) /\ Len(t) + 2 \leq EEPROM_SIZE
           /\ Len(t) \div Base < ByteSize
Text == {t \in Seq(Byte \ {0}) : Fits(t)}

ASSUME FormatAssumption ==
  /\ EEPROM_SIZE \in Nat /\ EEPROM_SIZE > 2
  /\ Base \in Nat \ {0} /\ ByteSize \in Nat /\ Base \leq ByteSize
  /\ Printable \subseteq 1..ByteSize - 2

(* A read past the end returns 0. *)
read(e, a) == IF a \in Address THEN e[a] ELSE 0

StoredLength(e) == read(e, 0) * Base + read(e, 1)

hasTemplate(e) ==
  /\ StoredLength(e) # 0
  /\ \A i \in 1..StoredLength(e) : read(e, 1 + i) \in Printable

readTemplate(e) == [i \in 1..StoredLength(e) |-> read(e, 1 + i)]

saveTemplate_keepsLength(e, t) ==
  [a \in Address |-> IF a - 1 \in 1..Len(t) THEN t[a - 1] ELSE e[a]]

saveTemplate(e, t) ==
  [a \in Address |-> IF a = 0 THEN (Len(t) \div Base) % ByteSize
                     ELSE IF a = 1 THEN Len(t) % Base
                     ELSE IF a - 1 \in 1..Len(t) THEN t[a - 1]
                     ELSE e[a]]
=============================================================================
