----------------------------- MODULE BitFields -----------------------------
(***************************************************************************)
(* The bit-field helpers of OpenTitan's sw/device/lib/base/bitfield.h, as  *)
(* the pad frame uses them.  A number is the set of the positions of its 1 *)
(* bits: union is |, intersection is &, and a shift moves every position.  *)
(***************************************************************************)
EXTENDS Integers

Uint8  == SUBSET (0..7)
Uint32 == SUBSET (0..31)

Shift(bits, n) == {b + n : b \in bits}

bitfield_field32_write(reg, field, value) ==
    (reg \ Shift(field.mask, field.index)) \cup Shift(value \cap field.mask, field.index)

bitfield_field32_read(reg, field) == {b \in field.mask : b + field.index \in reg}

\* The value is converted to bool: any bit that is set counts.
bitfield_bit32_write(reg, bit, value) ==
    IF value = {} THEN reg \ {bit} ELSE reg \cup {bit}

bitfield_bit32_read(reg, bit) == IF bit \in reg THEN {0} ELSE {}
=============================================================================
