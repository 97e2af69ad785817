----------------------------- MODULE MCCoilBits -----------------------------
(***************************************************************************)
(* The coil image under sequences of ta_updateCoilData from the seeded     *)
(* image, beside the array of eight coils that it stands for.              *)
(***************************************************************************)
EXTENDS CoilBits

VARIABLES image, coils

CoilNumbers == 0..8 * ARRAY_SIZE - 1
NoCoil == -1
\* What a caller passes as coilValue: 0, the agent's 1, Modbus's 0xFF.
CoilValues == {0, 1, 255}

Init ==
    /\ image = coilData
    /\ coils = [n \in CoilNumbers |-> 0]

Update(n, v) ==
    /\ image' = ta_updateCoilData(n, v, image)
    /\ coils' = [m \in CoilNumbers |->
                    IF m # n THEN coils[m] ELSE IF v = 0 THEN 0 ELSE 1]

Next == \E n \in CoilNumbers \cup {NoCoil}, v \in CoilValues : Update(n, v)

Spec == Init /\ [][Next]_<<image, coils>>

\* After any sequence of updates each bit reads what was last written to it:
\* no update spills into another bit, out of the byte, or out of the array.
\* The bit number -1 of an address without a coil reads 0 and writes nothing.
ImageIsCoils ==
    /\ image \in CoilImage
    /\ \A n \in CoilNumbers : ta_getCoilValue(n, image) = coils[n]
    /\ ta_getCoilValue(NoCoil, image) = 0

=============================================================================
