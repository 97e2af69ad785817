------------------------------ MODULE CoilBits ------------------------------
(***************************************************************************)
(* The coil image kept by the trusted application, and the arithmetic that *)
(* reads and writes one coil in it: address to bit number, bit number to   *)
(* byte and mask, and the three bytes that a signature covers.             *)
(*                                                                         *)
(* Bit number 0 is the most significant bit of byte 0.  Every quantity     *)
(* keeps its C width: image bytes and signed bytes are uint8_t, and / and  *)
(* % truncate toward zero.                                                 *)
(***************************************************************************)
EXTENDS Integers

Byte == 0..255

ARRAY_SIZE == 1                      \* sizeof coilData, in bytes
CoilImage  == [0..ARRAY_SIZE-1 -> Byte]
coilData   == [i \in 0..ARRAY_SIZE-1 |-> 0]   \* the image ta_seedCoil stores

COIL_ADDRESS_INVERTER_STATUS == 19   \* 0x13
BIT_ADDRESS_INVERTER_STATUS  == 0

\* Mutant of ta_getBitNumberForCoil: the default case returns 0.
bitNumberDefaultsToZero(coilAddress) == BIT_ADDRESS_INVERTER_STATUS

\* The bit of a coil address; every address but one has none (-1).
ta_getBitNumberForCoil(coilAddress) ==
    IF coilAddress = COIL_ADDRESS_INVERTER_STATUS
    THEN BIT_ADDRESS_INVERTER_STATUS
    ELSE -1

\* C's integer quotient and remainder by a positive b.
Quotient(a, b)  == IF a >= 0 THEN a \div b ELSE -((-a) \div b)

\* Mutant of Remainder: it takes the sign of b.
FlooredRemainder(a, b) == a % b

Remainder(a, b) == a - b * Quotient(a, b)

bitNumberAddressIndex(bitNumber)  == Quotient(bitNumber, 8)
bitNumberAddressOffset(bitNumber) == 7 - Remainder(bitNumber, 8)

\* 1 << bitIndex, for the offsets 0..8 that occur: bit number -1 has offset
\* 8, a mask outside the byte.
ShiftOne(bitIndex) == <<1, 2, 4, 8, 16, 32, 64, 128, 256>>[bitIndex + 1]

BitOf(byte, mask) == (byte \div mask) % 2

\* Mutant of SET_BIT: the result is not cut to a byte.
SetBitWide(byte, mask) == byte + (1 - BitOf(byte, mask)) * mask

SET_BIT(byte, mask) == (byte + (1 - BitOf(byte, mask)) * mask) % 256

\* Mutant of CLEAR_BIT: the mask is not inverted.
ClearOthers(byte, mask) == BitOf(byte, mask) * mask

CLEAR_BIT(byte, mask) == (byte - BitOf(byte, mask) * mask) % 256

ta_getCoilValue(bitNumber, image) ==
    BitOf(image[bitNumberAddressIndex(bitNumber)],
          ShiftOne(bitNumberAddressOffset(bitNumber)))

ta_updateCoilData(bitNumber, coilValue, image) ==
    LET mask == ShiftOne(bitNumberAddressOffset(bitNumber))
    IN  [image EXCEPT ![bitNumberAddressIndex(bitNumber)] =
            IF coilValue = 0 THEN CLEAR_BIT(@, mask) ELSE SET_BIT(@, mask)]

(***************************************************************************)
(* The bytes that are signed: the coil value and the two low bytes of the  *)
(* transaction id.  The coil address is not among them.                    *)
(***************************************************************************)
SignedBytes == Byte \X Byte \X Byte

\* transactionIdHigh << 8 | transactionIdLow, the two bytes of a frame.
UInt16 == 0..65535

\* Mutant of SignedData: the high byte of the transaction id is lost.
SignedLowByte(coilValue, transactionId) ==
    << coilValue % 256, 0, transactionId % 256 >>

SignedData(coilValue, transactionId) ==
    << coilValue % 256, (transactionId \div 256) % 256, transactionId % 256 >>

=============================================================================
