--------------------------- MODULE CoilBitsProofs ---------------------------
(***************************************************************************)
(* What the operators of CoilBits do at the bit numbers that occur: 0, the *)
(* inverter status, and -1, an address without a coil.                     *)
(***************************************************************************)
EXTENDS CoilBits, TLAPS

\* ta_getBitNumberForCoil leaves two bit numbers, both in byte 0; their masks
\* are the top bit of the byte and a bit outside it.
LEMMA BitPlaces ==
    ASSUME NEW a \in Nat
    PROVE  LET n == ta_getBitNumberForCoil(a)
               mask == ShiftOne(bitNumberAddressOffset(n))
           IN  /\ bitNumberAddressIndex(n) = 0
               /\ (n = 0 /\ mask = 128) \/ (n = -1 /\ mask = 256)
<1> DEFINE n == ta_getBitNumberForCoil(a)
<1>1. n = 0 \/ n = -1
  BY DEF ta_getBitNumberForCoil, BIT_ADDRESS_INVERTER_STATUS
<1>2. CASE n = 0
  <2>1. Quotient(0, 8) = 0
    BY DEF Quotient
  <2>2. Remainder(0, 8) = 0
    BY <2>1 DEF Remainder
  <2>3. ShiftOne(7) = 128
    BY DEF ShiftOne
  <2> QED
    BY <1>2, <2>1, <2>2, <2>3
    DEF bitNumberAddressIndex, bitNumberAddressOffset
<1>3. CASE n = -1
  <2>1. Quotient(-1, 8) = 0
    BY DEF Quotient
  <2>2. Remainder(-1, 8) = -1
    BY <2>1 DEF Remainder
  <2>3. ShiftOne(8) = 256
    BY DEF ShiftOne
  <2> QED
    BY <1>3, <2>1, <2>2, <2>3
    DEF bitNumberAddressIndex, bitNumberAddressOffset
<1> QED
  BY <1>1, <1>2, <1>3

\* The byte operators stay in a byte at these masks.
LEMMA ByteOperators ==
    ASSUME NEW b \in Byte, NEW mask \in {128, 256}
    PROVE  /\ BitOf(b, mask) \in {0, 1}
           /\ SET_BIT(b, mask) \in Byte
           /\ CLEAR_BIT(b, mask) \in Byte
BY DEF Byte, BitOf, SET_BIT, CLEAR_BIT

\* An address without a coil reads 0, and the status address reads whether
\* the image has its top bit set.
LEMMA CoilValueOf ==
    ASSUME NEW a \in Nat, NEW image \in CoilImage
    PROVE  LET v == ta_getCoilValue(ta_getBitNumberForCoil(a), image)
           IN  /\ v \in {0, 1}
               /\ v = 1 <=> /\ a = COIL_ADDRESS_INVERTER_STATUS
                            /\ image[0] >= 128
<1>1. image[0] \in Byte
  BY DEF CoilImage, ARRAY_SIZE
<1>2. BitOf(image[0], 256) = 0
  BY <1>1 DEF BitOf, Byte
<1>3. /\ BitOf(image[0], 128) \in {0, 1}
      /\ BitOf(image[0], 128) = 1 <=> image[0] >= 128
  BY <1>1 DEF BitOf, Byte
<1>4. ta_getBitNumberForCoil(a) = 0 <=> a = COIL_ADDRESS_INVERTER_STATUS
  BY DEF ta_getBitNumberForCoil, BIT_ADDRESS_INVERTER_STATUS
<1> QED
  BY BitPlaces, <1>2, <1>3, <1>4 DEF ta_getCoilValue

\* ta_updateCoilData: the image stays an image, an address without a coil
\* leaves it as it was, and the status address sets or clears its top bit and
\* keeps the seven others.
LEMMA UpdatedImage ==
    ASSUME NEW a \in Nat, NEW v \in Byte, NEW image \in CoilImage
    PROVE  LET after == ta_updateCoilData(ta_getBitNumberForCoil(a), v, image)
           IN  /\ after \in CoilImage
               /\ a # COIL_ADDRESS_INVERTER_STATUS => after = image
               /\ a = COIL_ADDRESS_INVERTER_STATUS =>
                     /\ after[0] >= 128 <=> v # 0
                     /\ after[0] % 128 = image[0] % 128
<1> DEFINE n == ta_getBitNumberForCoil(a)
           mask == ShiftOne(bitNumberAddressOffset(n))
           byte == IF v = 0 THEN CLEAR_BIT(image[0], mask)
                   ELSE SET_BIT(image[0], mask)
           after == ta_updateCoilData(n, v, image)
<1>1. image[0] \in Byte
  BY DEF CoilImage, ARRAY_SIZE
<1>2. bitNumberAddressIndex(n) = 0
  BY BitPlaces
<1>3. after = [image EXCEPT ![0] = byte]
  BY <1>2 DEF ta_updateCoilData
<1>4. 0 \in 0..ARRAY_SIZE-1 /\ \A i \in 0..ARRAY_SIZE-1 : i = 0
  BY DEF ARRAY_SIZE
<1>5. ta_getBitNumberForCoil(a) = 0 <=> a = COIL_ADDRESS_INVERTER_STATUS
  BY DEF ta_getBitNumberForCoil, BIT_ADDRESS_INVERTER_STATUS
<1>6. CASE a = COIL_ADDRESS_INVERTER_STATUS
  <2>1. mask = 128
    BY <1>5, <1>6, BitPlaces
  <2>2. byte \in Byte
    BY <1>1, <2>1, ByteOperators
  <2>3. /\ byte >= 128 <=> v # 0
        /\ byte % 128 = image[0] % 128
    BY <1>1, <2>1 DEF Byte, BitOf, SET_BIT, CLEAR_BIT
  <2> HIDE DEF byte, after
  <2>4. after \in CoilImage /\ after[0] = byte
    BY <1>3, <1>4, <2>2 DEF CoilImage
  <2> QED
    BY <1>6, <2>3, <2>4 DEF after
<1>7. CASE a # COIL_ADDRESS_INVERTER_STATUS
  <2>1. mask = 256
    BY <1>5, <1>7, BitPlaces
  <2>2. byte = image[0]
    BY <1>1, <2>1 DEF Byte, BitOf, SET_BIT, CLEAR_BIT
  <2> HIDE DEF byte, after
  <2>3. after = image
    BY <1>3, <2>2, <1>4 DEF CoilImage
  <2> QED
    BY <1>7, <2>3 DEF after
<1> QED
  BY <1>6, <1>7

\* The three signed bytes are bytes, the first of them the coil value.
LEMMA SignedDataBytes ==
    ASSUME NEW v \in Byte, NEW t \in Nat
    PROVE  SignedData(v, t) \in SignedBytes /\ SignedData(v, t)[1] = v
BY DEF SignedData, SignedBytes, Byte

LEMMA ByteRemainder ==
    ASSUME NEW b \in Byte
    PROVE  b % 256 = b
BY DEF Byte

\* A transaction id is its high byte and its low byte.
LEMMA TwoBytes ==
    ASSUME NEW t \in UInt16
    PROVE  /\ t \div 256 \in Byte
           /\ t = 256 * (t \div 256) + (t % 256)
<1>1. t \in Nat /\ t <= 65535
  BY SMTT(60) DEF UInt16
<1>2. t \div 256 \in Nat
  BY <1>1, SMT
<1>3. t \div 256 <= 255
  BY <1>1, SMT
<1>4. t = 256 * (t \div 256) + (t % 256)
  BY <1>1, SMT
<1> QED
  BY <1>2, <1>3, <1>4 DEF Byte

\* Two requests share their signed bytes only if they share value and id,
\* because the frames carry no more than 16 bits of the id.
LEMMA SignedDataInjective ==
    ASSUME NEW v \in Byte, NEW w \in Byte,
           NEW t \in UInt16, NEW u \in UInt16,
           SignedData(v, t) = SignedData(w, u)
    PROVE  v = w /\ t = u
<1>1. /\ v % 256 = w % 256
      /\ (t \div 256) % 256 = (u \div 256) % 256
      /\ t % 256 = u % 256
  BY DEF SignedData
<1>2. v = w
  BY <1>1, ByteRemainder
<1>3. t \div 256 = u \div 256
  BY <1>1, TwoBytes, ByteRemainder
<1> QED
  BY <1>1, <1>2, <1>3, TwoBytes

=============================================================================
