----------------------------- MODULE FllParams -----------------------------
(***************************************************************************)
(* The arithmetic of the frequency-locked loops: calculate_fll_params of   *)
(* the FLL runtime and the packing of the FLL driver.  A frequency is a    *)
(* number of units, a register a set of bits (see BitFields).              *)
(***************************************************************************)
EXTENDS BitFields

CONSTANTS
    WordSize,   \* 2^32 Hz, where uint32_t frequencies wrap around
    FMAX,       \* the ceiling of the oscillator
    Rtc         \* the reference frequency

ASSUME FllAssumption == WordSize \in Nat \ {0} /\ FMAX \in Nat /\ Rtc \in Nat \ {0}

\* 3.3 GHz and 32768 Hz: multipliers of 16 bits reach half of the ceiling, and
\* the arithmetic below it does not wrap around.
ASSUME FllRange ==
    /\ 6 * Rtc <= FMAX /\ FMAX < 2 * 65535 * Rtc
    /\ FMAX + Rtc <= WordSize

Pow2[n \in 0..30] == IF n = 0 THEN 1 ELSE 2 * Pow2[n - 1]

\* The bits of a number, and the number of a set of bits below 16.
Bits(n) == {b \in 0..29 : (n \div Pow2[b]) % 2 = 1}
Number(bits) ==
    LET value[n \in 0..16] ==
            IF n = 0 THEN 0
            ELSE value[n - 1] + (IF n - 1 \in bits THEN Pow2[n - 1] ELSE 0)
    IN value[16]

NoParams == [mult |-> 0, div |-> 0]     \* the return value -1

\* The largest e with 2^e < limit: 31 - __builtin_clz(limit - 1).
DoutExponent(limit) == CHOOSE e \in 0..30 : (limit - 1) \div Pow2[e] = 1

\* A plausible bug: the multiplier is rounded down.
BugMultiplier(num) == num \div Rtc

Multiplier(num) == ((num + (Rtc \div 2)) % WordSize) \div Rtc

calculate_fll_params(target) ==
    LET denom == (2 * target) % WordSize
        limit == FMAX \div denom
        e     == DoutExponent(limit)
        m     == Multiplier((target * Pow2[e]) % WordSize)
    IN IF target = 0 \/ denom = 0 \/ limit <= 1
       THEN NoParams
       ELSE [mult |-> IF m = 0 THEN 1 ELSE m, div |-> e + 1]

\* Bits 31..16 of CFG1 become 0xC958.
initFll(cfg1) == Shift(Bits(51544), 16) \cup (cfg1 \cap 0..15)

\* The mask 0xC3FF0000 keeps bits 31, 30 and 25..16.
setFllFreq(cfg1, mult, div) ==
    (cfg1 \cap ({30, 31} \cup 16..25)) \cup Bits(mult) \cup (Shift(Bits(div), 26) \cap 0..31)

-----------------------------------------------------------------------------
(* The loop itself: 16 bits of multiplier, 4 bits of divider.              *)
FllMult(cfg1) == Number(cfg1 \cap 0..15)
FllDiv(cfg1) == Number({b \in 0..3 : b + 26 \in cfg1})
FllDout(cfg1) == Pow2[FllDiv(cfg1) - 1]
FllFreq(cfg1) == (FllMult(cfg1) * Rtc) \div FllDout(cfg1)
=============================================================================
