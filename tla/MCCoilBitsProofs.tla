-------------------------- MODULE MCCoilBitsProofs --------------------------
(***************************************************************************)
(* The coil image is the array of coils it stands for, at all the bit      *)
(* numbers of its byte and at the bit number of an address without a coil. *)
(*                                                                         *)
(* CoilBitsProofs has what the trusted application needs, which uses only  *)
(* the top bit.  Here the macros are shown not to spill at any of the      *)
(* eight masks, so that a second coil may be added.                        *)
(***************************************************************************)
EXTENDS MCCoilBits, CoilBitsProofs

Masks == {1, 2, 4, 8, 16, 32, 64, 128}
MaskOf(n) == ShiftOne(bitNumberAddressOffset(n))

(***************************************************************************)
(* Bit numbers                                                             *)
(***************************************************************************)
LEMMA OneByte == 0..ARRAY_SIZE-1 = {0} /\ CoilNumbers = 0..7
  BY DEF ARRAY_SIZE, CoilNumbers

\* C's division finds byte 0 and the offset from its most significant bit;
\* that of -1 truncates toward zero, to byte 0 and a bit above the others.
LEMMA Offsets ==
    ASSUME NEW n \in CoilNumbers \cup {NoCoil}
    PROVE  bitNumberAddressIndex(n) = 0 /\ bitNumberAddressOffset(n) = 7 - n
<1>1. n \in Int /\ -1 <= n /\ n <= 7
  BY OneByte DEF NoCoil
<1>2. Quotient(n, 8) = 0
  BY <1>1 DEF Quotient
<1>3. Remainder(n, 8) = n
  BY <1>1, <1>2 DEF Remainder
<1> QED
  BY <1>2, <1>3 DEF bitNumberAddressIndex, bitNumberAddressOffset

\* Each bit number has a mask of its own, and -1 one that no byte meets.
LEMMA MasksDiffer ==
    /\ \A n \in CoilNumbers : MaskOf(n) \in Masks
    /\ \A n, m \in CoilNumbers : n # m => MaskOf(n) # MaskOf(m)
    /\ MaskOf(NoCoil) = 256
<1>1. MaskOf(NoCoil) = 256
  BY Offsets DEF MaskOf, ShiftOne, NoCoil
<1>2. /\ MaskOf(0) = 128 /\ MaskOf(1) = 64 /\ MaskOf(2) = 32 /\ MaskOf(3) = 16
      /\ MaskOf(4) = 8 /\ MaskOf(5) = 4 /\ MaskOf(6) = 2 /\ MaskOf(7) = 1
  BY OneByte, Offsets DEF MaskOf, ShiftOne
<1>3. CoilNumbers = {0, 1, 2, 3, 4, 5, 6, 7}
  BY OneByte
<1> QED
  BY <1>1, <1>2, <1>3 DEF Masks

(***************************************************************************)
(* SET_BIT and CLEAR_BIT                                                   *)
(***************************************************************************)
\* A bit that is 0 is written by adding its mask, which carries nowhere.
LEMMA AddedBit ==
    ASSUME NEW b \in Byte, NEW mask \in Masks, BitOf(b, mask) = 0
    PROVE  /\ b + mask \in Byte /\ BitOf(b + mask, mask) = 1
           /\ \A other \in Masks \ {mask} : BitOf(b + mask, other) = BitOf(b, other)
<1>1. CASE mask = 1
  BY <1>1, SMTT(60) DEF Masks, Byte, BitOf
<1>2. CASE mask = 2
  <2>1. b + mask \in Byte /\ BitOf(b + mask, mask) = 1
    BY <1>2 DEF Byte, BitOf
  <2>2. BitOf(b + 2, 1) = BitOf(b, 1) /\ BitOf(b + 2, 4) = BitOf(b, 4)
    BY <1>2 DEF Byte, BitOf
  <2>3. BitOf(b + 2, 8) = BitOf(b, 8) /\ BitOf(b + 2, 16) = BitOf(b, 16)
    BY <1>2 DEF Byte, BitOf
  <2>4. BitOf(b + 2, 32) = BitOf(b, 32) /\ BitOf(b + 2, 64) = BitOf(b, 64)
    BY <1>2 DEF Byte, BitOf
  <2>5. BitOf(b + 2, 128) = BitOf(b, 128)
    BY <1>2 DEF Byte, BitOf
  <2> QED
    BY <1>2, <2>1, <2>2, <2>3, <2>4, <2>5, SMT DEF Masks
<1>3. CASE mask = 4
  BY <1>3, SMTT(60) DEF Masks, Byte, BitOf
<1>4. CASE mask = 8
  BY <1>4, SMTT(60) DEF Masks, Byte, BitOf
<1>5. CASE mask = 16
  BY <1>5, SMTT(60) DEF Masks, Byte, BitOf
<1>6. CASE mask = 32
  BY <1>6, SMTT(60) DEF Masks, Byte, BitOf
<1>7. CASE mask = 64
  BY <1>7, SMTT(60) DEF Masks, Byte, BitOf
<1>8. CASE mask = 128
  BY <1>8, SMTT(60) DEF Masks, Byte, BitOf
<1> QED
  BY <1>1, <1>2, <1>3, <1>4, <1>5, <1>6, <1>7, <1>8 DEF Masks

\* One that is 1 is cleared by taking its mask away.
LEMMA TakenBit ==
    ASSUME NEW b \in Byte, NEW mask \in Masks, BitOf(b, mask) = 1
    PROVE  /\ b - mask \in Byte /\ BitOf(b - mask, mask) = 0
           /\ \A other \in Masks \ {mask} : BitOf(b - mask, other) = BitOf(b, other)
<1>1. b - mask \in Byte /\ BitOf(b - mask, mask) = 0 /\ (b - mask) + mask = b
  <2>1. CASE mask = 1
    BY <2>1 DEF Byte, BitOf
  <2>2. CASE mask = 2
    BY <2>2 DEF Byte, BitOf
  <2>3. CASE mask = 4
    BY <2>3 DEF Byte, BitOf
  <2>4. CASE mask = 8
    BY <2>4 DEF Byte, BitOf
  <2>5. CASE mask = 16
    BY <2>5 DEF Byte, BitOf
  <2>6. CASE mask = 32
    BY <2>6 DEF Byte, BitOf
  <2>7. CASE mask = 64
    BY <2>7 DEF Byte, BitOf
  <2>8. CASE mask = 128
    BY <2>8 DEF Byte, BitOf
  <2> QED
    BY <2>1, <2>2, <2>3, <2>4, <2>5, <2>6, <2>7, <2>8 DEF Masks
<1> QED
  BY <1>1, AddedBit

LEMMA BitIsBinary ==
    ASSUME NEW b \in Byte, NEW mask \in Masks
    PROVE  BitOf(b, mask) \in {0, 1}
  BY DEF Masks, Byte, BitOf

\* Both write their own bit, stay in the byte, though they compute in int, and
\* leave each other bit as it was.
LEMMA BitMacros ==
    ASSUME NEW b \in Byte, NEW mask \in Masks
    PROVE  /\ SET_BIT(b, mask) \in Byte /\ BitOf(SET_BIT(b, mask), mask) = 1
           /\ CLEAR_BIT(b, mask) \in Byte /\ BitOf(CLEAR_BIT(b, mask), mask) = 0
           /\ \A other \in Masks \ {mask} :
                  /\ BitOf(SET_BIT(b, mask), other) = BitOf(b, other)
                  /\ BitOf(CLEAR_BIT(b, mask), other) = BitOf(b, other)
<1>1. b \in Int /\ mask \in Int
  BY DEF Byte, Masks
<1>2. CASE BitOf(b, mask) = 0
  <2>1. b + mask \in Byte
    BY <1>2, AddedBit
  <2>2. SET_BIT(b, mask) = b + mask /\ CLEAR_BIT(b, mask) = b
    BY <1>1, <1>2, <2>1, ByteRemainder DEF SET_BIT, CLEAR_BIT
  <2> QED
    BY <1>2, <2>2, AddedBit
<1>3. CASE BitOf(b, mask) = 1
  <2>1. b - mask \in Byte
    BY <1>3, TakenBit
  <2>2. SET_BIT(b, mask) = b /\ CLEAR_BIT(b, mask) = b - mask
    BY <1>1, <1>3, <2>1, ByteRemainder DEF SET_BIT, CLEAR_BIT
  <2> QED
    BY <1>3, <2>2, TakenBit
<1> QED
  BY <1>2, <1>3, BitIsBinary

\* The mask of -1 is cut off with the byte.
LEMMA NoBit ==
    ASSUME NEW b \in Byte
    PROVE  BitOf(b, 256) = 0 /\ SET_BIT(b, 256) = b /\ CLEAR_BIT(b, 256) = b
  BY DEF Byte, BitOf, SET_BIT, CLEAR_BIT

(***************************************************************************)
(* The image                                                               *)
(***************************************************************************)
LEMMA ImageByte ==
    /\ \A f \in CoilImage : f[0] \in Byte
    /\ \A n \in CoilNumbers \cup {NoCoil} : \A f :
           ta_getCoilValue(n, f) = BitOf(f[0], MaskOf(n))
  BY OneByte, Offsets DEF CoilImage, ta_getCoilValue, MaskOf

\* An update replaces byte 0.
LEMMA UpdatedByte ==
    ASSUME NEW f \in CoilImage, NEW n \in CoilNumbers \cup {NoCoil}, NEW v,
           NEW byte \in Byte,
           byte = IF v = 0 THEN CLEAR_BIT(f[0], MaskOf(n)) ELSE SET_BIT(f[0], MaskOf(n))
    PROVE  ta_updateCoilData(n, v, f) \in CoilImage /\ ta_updateCoilData(n, v, f)[0] = byte
<1>1. ta_updateCoilData(n, v, f) = [f EXCEPT ![0] = byte]
  BY Offsets DEF ta_updateCoilData, MaskOf
<1> QED
  BY <1>1, OneByte DEF CoilImage

LEMMA UpdateStep ==
    ASSUME ImageIsCoils, NEW n \in CoilNumbers \cup {NoCoil}, NEW v \in CoilValues,
           Update(n, v)
    PROVE  ImageIsCoils'
<1> DEFINE byte == IF v = 0 THEN CLEAR_BIT(image[0], MaskOf(n))
                   ELSE SET_BIT(image[0], MaskOf(n))
           written == IF v = 0 THEN 0 ELSE 1
<1>1. /\ image \in CoilImage /\ image[0] \in Byte
      /\ \A m \in CoilNumbers : BitOf(image[0], MaskOf(m)) = coils[m]
  BY ImageByte DEF ImageIsCoils
<1>2. /\ byte \in Byte
      /\ \A m \in CoilNumbers :
             BitOf(byte, MaskOf(m)) = IF m # n THEN BitOf(image[0], MaskOf(m)) ELSE written
  <2>1. CASE n = NoCoil
    <3>1. byte = image[0] /\ n \notin CoilNumbers
      BY <1>1, <2>1, MasksDiffer, NoBit, OneByte DEF NoCoil
    <3> QED
      BY <1>1, <3>1
  <2>2. CASE n \in CoilNumbers
    <3>1. byte \in Byte /\ BitOf(byte, MaskOf(n)) = written
      BY <1>1, <2>2, MasksDiffer, BitMacros
    <3>2. ASSUME NEW m \in CoilNumbers, m # n
          PROVE  BitOf(byte, MaskOf(m)) = BitOf(image[0], MaskOf(m))
      BY <1>1, <2>2, <3>2, MasksDiffer, BitMacros
    <3> HIDE DEF byte, written
    <3> QED
      BY <3>1, <3>2
  <2> QED
    BY <2>1, <2>2
<1>3. image' \in CoilImage /\ image'[0] = byte
  <2>1. image' = ta_updateCoilData(n, v, image)
    BY DEF Update
  <2> HIDE DEF byte
  <2> QED
    BY <1>1, <1>2, <2>1, UpdatedByte DEF byte
<1>4. \A m \in CoilNumbers : coils'[m] = IF m # n THEN coils[m] ELSE written
  BY DEF Update
<1>5. ta_getCoilValue(NoCoil, image') = 0
  BY <1>2, <1>3, ImageByte, MasksDiffer, NoBit
<1> HIDE DEF byte, written
<1>6. \A m \in CoilNumbers : ta_getCoilValue(m, image') = coils'[m]
  BY <1>1, <1>2, <1>3, <1>4, ImageByte
<1> QED
  BY <1>3, <1>5, <1>6 DEF ImageIsCoils

\* ta_updateCoilData and ta_getCoilValue, after any sequence of updates of any
\* coil of the image: each bit reads what was last written to it, no update
\* spills, and an address without a coil reads 0 and writes nothing.
THEOREM ImageKeepsCoils == Spec => []ImageIsCoils
<1>1. Init => ImageIsCoils
  <2> SUFFICES ASSUME Init PROVE ImageIsCoils
    OBVIOUS
  <2>1. image \in CoilImage /\ image[0] = 0
    BY OneByte DEF Init, coilData, CoilImage, Byte
  <2>2. \A mask \in Masks \cup {256} : BitOf(0, mask) = 0
    BY DEF Masks, BitOf
  <2>3. \A n \in CoilNumbers : coils[n] = 0
    BY DEF Init
  <2> QED
    BY <2>1, <2>2, <2>3, ImageByte, MasksDiffer DEF ImageIsCoils
<1>2. ImageIsCoils /\ [Next]_<<image, coils>> => ImageIsCoils'
  <2>1. ImageIsCoils /\ UNCHANGED <<image, coils>> => ImageIsCoils'
    BY DEF ImageIsCoils, ta_getCoilValue
  <2> QED
    BY <2>1, UpdateStep DEF Next
<1> QED
  BY <1>1, <1>2, PTL DEF Spec

=============================================================================
