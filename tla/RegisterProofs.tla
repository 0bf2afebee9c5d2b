--------------------------- MODULE RegisterProofs ---------------------------
(***************************************************************************)
(* Proofs about the two drivers that keep a configuration in registers:    *)
(* Padframe, for all arguments, all initial contents of the registers and  *)
(* any number of calls, and Hyperbus, for any number of chips, any size of *)
(* the address space, all arguments and any number of calls.               *)
(***************************************************************************)
EXTENDS Padframe, Hyperbus, TLAPS

\* The place of x in Signals, and the bits of its register that it takes.
PlaceOf(x) == Layout(x[1], x[2])
BitsOf(x) == Shift(PlaceOf(x).mask, PlaceOf(x).index)

\* The number of a pad of the GPIO frame.
Number ==
    [gpio_0 |-> 0, gpio_1 |-> 1, gpio_2 |-> 2, gpio_3 |-> 3, gpio_4 |-> 4,
     gpio_5 |-> 5, gpio_6 |-> 6, gpio_7 |-> 7, gpio_8 |-> 8, gpio_9 |-> 9,
     gpio_10 |-> 10, gpio_11 |-> 11, gpio_12 |-> 12, gpio_13 |-> 13,
     gpio_14 |-> 14, gpio_15 |-> 15]

\* Where the fields are: a pad of the GPIO frame, the pads of the HyperBus.
Index == [chip2pad |-> 0, drv |-> 1, pde |-> 3, pue |-> 4, rxe |-> 5,
          slw |-> 6, smt |-> 7, trie |-> 8, mux |-> 0]
Width(s) == IF s = "mux" THEN 4 ELSE IF s = "drv" THEN 2 ELSE 1
RegisterOf(p, s) ==
    PADFRAME_GPIO_BASE + (IF s = "mux" THEN 8 ELSE 4) + 8 * Number[p]
Order == [cs0 |-> 0, cs1 |-> 1, clk |-> 2, clkn |-> 3, rst |-> 4, rwds |-> 5,
          dq0 |-> 6, dq1 |-> 7, dq2 |-> 8, dq3 |-> 9, dq4 |-> 10, dq5 |-> 11,
          dq6 |-> 12, dq7 |-> 13, reserved |-> 14]

-----------------------------------------------------------------------------
(* The layout.                                                             *)

\* Pad n of the GPIO frame has its registers at 4 + 8n and 8 + 8n.
LEMMA GpioRow ==
    ASSUME NEW p \in GpioPads
    PROVE  /\ Number[p] \in 0..15
           /\ GPIO[p] = PadRegs(4 + 8 * Number[p], 8 + 8 * Number[p])
<1>0. CASE p = "gpio_0"
  BY <1>0 DEF Number, GPIO, GPIO_0
<1>1. CASE p = "gpio_1"
  BY <1>1 DEF Number, GPIO, GPIO_1
<1>2. CASE p = "gpio_2"
  BY <1>2 DEF Number, GPIO, GPIO_2
<1>3. CASE p = "gpio_3"
  BY <1>3 DEF Number, GPIO, GPIO_3
<1>4. CASE p = "gpio_4"
  BY <1>4 DEF Number, GPIO, GPIO_4
<1>5. CASE p = "gpio_5"
  BY <1>5 DEF Number, GPIO, GPIO_5
<1>6. CASE p = "gpio_6"
  BY <1>6 DEF Number, GPIO, GPIO_6
<1>7. CASE p = "gpio_7"
  BY <1>7 DEF Number, GPIO, GPIO_7
<1>8. CASE p = "gpio_8"
  BY <1>8 DEF Number, GPIO, GPIO_8
<1>9. CASE p = "gpio_9"
  BY <1>9 DEF Number, GPIO, GPIO_9
<1>10. CASE p = "gpio_10"
  BY <1>10 DEF Number, GPIO, GPIO_10
<1>11. CASE p = "gpio_11"
  BY <1>11 DEF Number, GPIO, GPIO_11
<1>12. CASE p = "gpio_12"
  BY <1>12 DEF Number, GPIO, GPIO_12
<1>13. CASE p = "gpio_13"
  BY <1>13 DEF Number, GPIO, GPIO_13
<1>14. CASE p = "gpio_14"
  BY <1>14 DEF Number, GPIO, GPIO_14
<1>15. CASE p = "gpio_15"
  BY <1>15 DEF Number, GPIO, GPIO_15
<1> QED
  BY <1>0, <1>1, <1>2, <1>3, <1>4, <1>5, <1>6, <1>7, <1>8, <1>9, <1>10, <1>11, <1>12, <1>13, <1>14, <1>15 DEF GpioPads

\* Two pads of the GPIO frame have different numbers.
LEMMA NumberInjective ==
    ASSUME NEW p \in GpioPads, NEW q \in GpioPads, Number[p] = Number[q]
    PROVE  p = q
BY DEF GpioPads, Number

\* A field of some bits from a position on takes an interval of bits.
LEMMA PlaceBits ==
    ASSUME NEW x, NEW r, NEW i \in Nat, NEW w \in Nat, PlaceOf(x) = Place(r, i, w)
    PROVE  /\ PlaceOf(x).reg = r
           /\ PlaceOf(x).index = i
           /\ PlaceOf(x).mask = 0 .. w - 1
           /\ BitsOf(x) = i .. i + w - 1
<1>1. PlaceOf(x).reg = r /\ PlaceOf(x).index = i /\ PlaceOf(x).mask = 0 .. w - 1
  BY DEF Place
<1>2. Shift(0 .. w - 1, i) = i .. i + w - 1
  <2>1. ASSUME NEW b \in i .. i + w - 1 PROVE b \in Shift(0 .. w - 1, i)
    <3>1. b - i \in 0 .. w - 1 /\ b = (b - i) + i
      OBVIOUS
    <3> QED
      BY <3>1 DEF Shift
  <2>2. ASSUME NEW b \in Shift(0 .. w - 1, i) PROVE b \in i .. i + w - 1
    BY DEF Shift
  <2> QED
    BY <2>1, <2>2
<1> QED
  BY <1>1, <1>2 DEF BitsOf

\* The place of a signal of the GPIO frame.
LEMMA GpioPlace ==
    ASSUME NEW p \in GpioPads, NEW s \in GpioSignals
    PROVE  PlaceOf(<<p, s>>) = Place(RegisterOf(p, s), Index[s], Width(s))
<1>1. GPIO[p] = PadRegs(4 + 8 * Number[p], 8 + 8 * Number[p]) /\ Number[p] \in 0..15
  BY GpioRow
<1>2. PlaceOf(<<p, s>>) = PadRegs(4 + 8 * Number[p], 8 + 8 * Number[p])[s]
  BY <1>1 DEF PlaceOf, Layout
<1>3. CASE s = "chip2pad"
  BY <1>1, <1>2, <1>3 DEF PadRegs, RegisterOf, Index, Width, PADFRAME_GPIO_BASE
<1>4. CASE s = "drv"
  BY <1>1, <1>2, <1>4 DEF PadRegs, RegisterOf, Index, Width, PADFRAME_GPIO_BASE
<1>5. CASE s = "pde"
  BY <1>1, <1>2, <1>5 DEF PadRegs, RegisterOf, Index, Width, PADFRAME_GPIO_BASE
<1>6. CASE s = "pue"
  BY <1>1, <1>2, <1>6 DEF PadRegs, RegisterOf, Index, Width, PADFRAME_GPIO_BASE
<1>7. CASE s = "rxe"
  BY <1>1, <1>2, <1>7 DEF PadRegs, RegisterOf, Index, Width, PADFRAME_GPIO_BASE
<1>8. CASE s = "slw"
  BY <1>1, <1>2, <1>8 DEF PadRegs, RegisterOf, Index, Width, PADFRAME_GPIO_BASE
<1>9. CASE s = "smt"
  BY <1>1, <1>2, <1>9 DEF PadRegs, RegisterOf, Index, Width, PADFRAME_GPIO_BASE
<1>10. CASE s = "trie"
  BY <1>1, <1>2, <1>10 DEF PadRegs, RegisterOf, Index, Width, PADFRAME_GPIO_BASE
<1>11. CASE s = "mux"
  BY <1>1, <1>2, <1>11 DEF PadRegs, RegisterOf, Index, Width, PADFRAME_GPIO_BASE
<1> QED
  BY <1>3, <1>4, <1>5, <1>6, <1>7, <1>8, <1>9, <1>10, <1>11 DEF GpioSignals, Switches

\* The place of a pad of the HyperBus.
LEMMA HyperbusPlace ==
    ASSUME NEW p \in HyperbusPads
    PROVE  /\ PlaceOf(<<p, "drv">>) =
                  Place(PADFRAME_HYPERBUS_BASE, 2 * Order[p], IF Order[p] = 14 THEN 4 ELSE 2)
           /\ Order[p] \in 0..14
<1>0. p \notin GpioPads
  BY DEF HyperbusPads, ControlPads, DataPads, GpioPads
<1>1. CASE p = "cs0"
  BY <1>0, <1>1 DEF PlaceOf, Layout, DRV_STRENGTH, DrvStrength, Order
<1>2. CASE p = "cs1"
  BY <1>0, <1>2 DEF PlaceOf, Layout, DRV_STRENGTH, DrvStrength, Order
<1>3. CASE p = "clk"
  BY <1>0, <1>3 DEF PlaceOf, Layout, DRV_STRENGTH, DrvStrength, Order
<1>4. CASE p = "clkn"
  BY <1>0, <1>4 DEF PlaceOf, Layout, DRV_STRENGTH, DrvStrength, Order
<1>5. CASE p = "rst"
  BY <1>0, <1>5 DEF PlaceOf, Layout, DRV_STRENGTH, DrvStrength, Order
<1>6. CASE p = "rwds"
  BY <1>0, <1>6 DEF PlaceOf, Layout, DRV_STRENGTH, DrvStrength, Order
<1>7. CASE p = "dq0"
  BY <1>0, <1>7 DEF PlaceOf, Layout, DRV_STRENGTH, DrvStrength, Order
<1>8. CASE p = "dq1"
  BY <1>0, <1>8 DEF PlaceOf, Layout, DRV_STRENGTH, DrvStrength, Order
<1>9. CASE p = "dq2"
  BY <1>0, <1>9 DEF PlaceOf, Layout, DRV_STRENGTH, DrvStrength, Order
<1>10. CASE p = "dq3"
  BY <1>0, <1>10 DEF PlaceOf, Layout, DRV_STRENGTH, DrvStrength, Order
<1>11. CASE p = "dq4"
  BY <1>0, <1>11 DEF PlaceOf, Layout, DRV_STRENGTH, DrvStrength, Order
<1>12. CASE p = "dq5"
  BY <1>0, <1>12 DEF PlaceOf, Layout, DRV_STRENGTH, DrvStrength, Order
<1>13. CASE p = "dq6"
  BY <1>0, <1>13 DEF PlaceOf, Layout, DRV_STRENGTH, DrvStrength, Order
<1>14. CASE p = "dq7"
  BY <1>0, <1>14 DEF PlaceOf, Layout, DRV_STRENGTH, DrvStrength, Order
<1>15. CASE p = "reserved"
  BY <1>0, <1>15 DEF PlaceOf, Layout, DRV_STRENGTH, DrvStrength, Order
<1> QED
  BY <1>1, <1>2, <1>3, <1>4, <1>5, <1>6, <1>7, <1>8, <1>9, <1>10, <1>11, <1>12, <1>13, <1>14, <1>15 DEF HyperbusPads, ControlPads, DataPads

\* Two pads of the HyperBus have different places.
LEMMA OrderInjective ==
    ASSUME NEW p \in HyperbusPads, NEW q \in HyperbusPads, Order[p] = Order[q]
    PROVE  p = q
BY DEF HyperbusPads, ControlPads, DataPads, Order

\* Intervals of bits: within a word, and apart from each other.
LEMMA Intervals ==
    ASSUME NEW i \in Nat, NEW w \in 1..4, NEW j \in Nat, NEW u \in 1..4
    PROVE  /\ i + w <= 32 => i .. i + w - 1 \subseteq 0..31
           /\ 0 .. w - 1 \subseteq 0..3
           /\ i + w <= j => (i .. i + w - 1) \cap (j .. j + u - 1) = {}
           /\ j + u <= i => (i .. i + w - 1) \cap (j .. j + u - 1) = {}
OBVIOUS

\* The same for the pads of the HyperBus.
LEMMA HyperbusIntervals ==
    ASSUME NEW a \in 0..14, NEW b \in 0..14, a # b
    PROVE  LET w(c) == IF c = 14 THEN 4 ELSE 2
           IN (2 * a .. 2 * a + w(a) - 1) \cap (2 * b .. 2 * b + w(b) - 1) = {}
<1>1. CASE a < b
  BY <1>1
<1>2. CASE b < a
  BY <1>2
<1> QED
  BY <1>1, <1>2

\* What takes a signal of the GPIO frame.
LEMMA GpioBits ==
    ASSUME NEW x \in GpioPads \X GpioSignals
    PROVE  /\ x = <<x[1], x[2]>> /\ x[1] \in GpioPads /\ x[2] \in GpioSignals
           /\ PlaceOf(x).reg = RegisterOf(x[1], x[2])
           /\ PlaceOf(x).index = Index[x[2]]
           /\ PlaceOf(x).mask = 0 .. Width(x[2]) - 1
           /\ BitsOf(x) = Index[x[2]] .. Index[x[2]] + Width(x[2]) - 1
           /\ Index[x[2]] \in 0..8 /\ Width(x[2]) \in 1..4
<1>1. x = <<x[1], x[2]>> /\ x[1] \in GpioPads /\ x[2] \in GpioSignals
  OBVIOUS
<1>2. PlaceOf(x) = Place(RegisterOf(x[1], x[2]), Index[x[2]], Width(x[2]))
  BY <1>1, GpioPlace
<1>3. Index[x[2]] \in 0..8 /\ Width(x[2]) \in 1..4
  BY <1>1 DEF GpioSignals, Switches, Index, Width
<1> QED
  BY <1>1, <1>2, <1>3, PlaceBits

\* What takes a pad of the HyperBus.
LEMMA HyperbusBits ==
    ASSUME NEW x \in HyperbusPads \X {"drv"}
    PROVE  LET i == 2 * Order[x[1]]
               w == IF Order[x[1]] = 14 THEN 4 ELSE 2
           IN /\ x = <<x[1], "drv">> /\ x[1] \in HyperbusPads
              /\ Order[x[1]] \in 0..14
              /\ PlaceOf(x).reg = PADFRAME_HYPERBUS_BASE
              /\ PlaceOf(x).index = i
              /\ PlaceOf(x).mask = 0 .. w - 1
              /\ BitsOf(x) = i .. i + w - 1
<1>1. x = <<x[1], "drv">> /\ x[1] \in HyperbusPads
  OBVIOUS
<1> DEFINE i == 2 * Order[x[1]]
           w == IF Order[x[1]] = 14 THEN 4 ELSE 2
<1>2. PlaceOf(x) = Place(PADFRAME_HYPERBUS_BASE, i, w) /\ Order[x[1]] \in 0..14
  BY <1>1, HyperbusPlace
<1>3. i \in Nat /\ w \in Nat
  BY <1>2
<1> HIDE DEF i, w
<1> QED
  BY <1>1, <1>2, <1>3, PlaceBits DEF i, w

\* Every signal lies within one register.
LEMMA PlaceType ==
    ASSUME NEW x \in Signals
    PROVE  /\ PlaceOf(x).reg \in Registers
           /\ PlaceOf(x).index \in 0..28
           /\ PlaceOf(x).mask \subseteq 0..3
           /\ BitsOf(x) \subseteq 0..31
<1>1. PlaceOf(x).reg \in Registers
  BY DEF PlaceOf, Registers
<1>2. CASE x \in GpioPads \X GpioSignals
  <2> DEFINE i == Index[x[2]]
             w == Width(x[2])
  <2>1. /\ PlaceOf(x).index = i /\ PlaceOf(x).mask = 0 .. w - 1
        /\ BitsOf(x) = i .. i + w - 1
        /\ i \in 0..8 /\ w \in 1..4
    BY <1>2, GpioBits
  <2> HIDE DEF i, w
  <2>2. i \in Nat /\ i + w <= 32 /\ i \in 0..28
    BY <2>1
  <2> QED
    BY <1>1, <2>1, <2>2, Intervals
<1>3. CASE x \in HyperbusPads \X {"drv"}
  <2> DEFINE i == 2 * Order[x[1]]
             w == IF Order[x[1]] = 14 THEN 4 ELSE 2
  <2>1. /\ PlaceOf(x).index = i /\ PlaceOf(x).mask = 0 .. w - 1
        /\ BitsOf(x) = i .. i + w - 1
        /\ Order[x[1]] \in 0..14
    BY <1>3, HyperbusBits
  <2>2. i \in Nat /\ w \in 1..4 /\ i + w <= 32 /\ i \in 0..28
    <3> DEFINE n == Order[x[1]]
    <3> HIDE DEF n
    <3>1. n \in 0..14
      BY <2>1 DEF n
    <3>2. 2 * n \in 0..28 /\ 2 * n + (IF n = 14 THEN 4 ELSE 2) <= 32
      BY <3>1
    <3> QED
      BY <3>2 DEF n
  <2> HIDE DEF i, w
  <2> QED
    BY <1>1, <2>1, <2>2, Intervals
<1> QED
  BY <1>2, <1>3 DEF Signals

\* The registers of the two frames are different ones.
LEMMA FramesApart ==
    ASSUME NEW x \in GpioPads \X GpioSignals, NEW y \in HyperbusPads \X {"drv"}
    PROVE  PlaceOf(x).reg # PlaceOf(y).reg
<1>1. Number[x[1]] \in 0..15
  BY GpioBits, GpioRow
<1>2. RegisterOf(x[1], x[2]) # PADFRAME_HYPERBUS_BASE
  BY <1>1, SMT DEF RegisterOf, PADFRAME_GPIO_BASE, PADFRAME_HYPERBUS_BASE
<1> QED
  BY <1>2, GpioBits, HyperbusBits

\* No two signals share a bit.
LEMMA SignalsDisjoint ==
    ASSUME NEW x \in Signals, NEW y \in Signals, x # y,
           PlaceOf(x).reg = PlaceOf(y).reg
    PROVE  BitsOf(x) \cap BitsOf(y) = {}
<1>1. CASE x \in GpioPads \X GpioSignals /\ y \in GpioPads \X GpioSignals
  <2>1. RegisterOf(x[1], x[2]) = RegisterOf(y[1], y[2])
    BY <1>1, GpioBits
  <2>2. Number[x[1]] \in 0..15 /\ Number[y[1]] \in 0..15
    BY <1>1, GpioBits, GpioRow
  <2>3. Number[x[1]] = Number[y[1]] /\ (x[2] = "mux" <=> y[2] = "mux")
    BY <2>1, <2>2, SMT DEF RegisterOf, PADFRAME_GPIO_BASE
  <2>4. x[1] = y[1]
    BY <1>1, <2>3, GpioBits, NumberInjective
  <2>5. x[2] # y[2] /\ x[2] \in GpioSignals /\ y[2] \in GpioSignals
    BY <1>1, <2>4, GpioBits
  <2>6. \/ Index[x[2]] + Width(x[2]) <= Index[y[2]]
        \/ Index[y[2]] + Width(y[2]) <= Index[x[2]]
    BY <2>3, <2>5 DEF GpioSignals, Switches, Index, Width
  <2> QED
    <3> DEFINE i == Index[x[2]]
               w == Width(x[2])
               j == Index[y[2]]
               u == Width(y[2])
    <3>1. /\ BitsOf(x) = i .. i + w - 1 /\ i \in 0..8 /\ w \in 1..4
          /\ BitsOf(y) = j .. j + u - 1 /\ j \in 0..8 /\ u \in 1..4
          /\ i + w <= j \/ j + u <= i
      BY <1>1, <2>6, GpioBits
    <3> HIDE DEF i, w, j, u
    <3> QED
      BY <3>1, Intervals
<1>2. CASE x \in HyperbusPads \X {"drv"} /\ y \in HyperbusPads \X {"drv"}
  <2>1. Order[x[1]] # Order[y[1]]
    BY <1>2, OrderInjective, HyperbusBits
  <2> QED
    <3> DEFINE a == Order[x[1]]
               b == Order[y[1]]
    <3>1. /\ a \in 0..14 /\ BitsOf(x) = 2 * a .. 2 * a + (IF a = 14 THEN 4 ELSE 2) - 1
          /\ b \in 0..14 /\ BitsOf(y) = 2 * b .. 2 * b + (IF b = 14 THEN 4 ELSE 2) - 1
          /\ a # b
      BY <1>2, <2>1, HyperbusBits
    <3> HIDE DEF a, b
    <3> QED
      BY <3>1, HyperbusIntervals
<1>3. CASE x \in GpioPads \X GpioSignals /\ y \in HyperbusPads \X {"drv"}
  BY <1>3, FramesApart
<1>4. CASE x \in HyperbusPads \X {"drv"} /\ y \in GpioPads \X GpioSignals
  BY <1>4, FramesApart
<1> QED
  BY <1>1, <1>2, <1>3, <1>4 DEF Signals

-----------------------------------------------------------------------------
(* The bit fields.                                                         *)

\* A field reads what was written to it, and fields apart from it the same
\* as before.
LEMMA FieldWrite ==
    ASSUME NEW w \in Uint32, NEW v, NEW x \in Signals, NEW y \in Signals,
           x # y => BitsOf(x) \cap BitsOf(y) = {}
    PROVE  LET u == bitfield_field32_write(w, PlaceOf(x), v)
           IN /\ u \in Uint32
              /\ bitfield_field32_read(u, PlaceOf(x)) = v \cap PlaceOf(x).mask
              /\ x # y => bitfield_field32_read(u, PlaceOf(y)) =
                            bitfield_field32_read(w, PlaceOf(y))
<1> DEFINE u == bitfield_field32_write(w, PlaceOf(x), v)
<1>1. u \in Uint32
  BY PlaceType DEF Uint32, bitfield_field32_write, BitsOf, Shift
<1>2. bitfield_field32_read(u, PlaceOf(x)) = v \cap PlaceOf(x).mask
  BY PlaceType DEF bitfield_field32_write, bitfield_field32_read, Shift
<1>3. ASSUME x # y
      PROVE  bitfield_field32_read(u, PlaceOf(y)) = bitfield_field32_read(w, PlaceOf(y))
  BY <1>3, PlaceType DEF bitfield_field32_write, bitfield_field32_read, BitsOf, Shift
<1> QED
  BY <1>1, <1>2, <1>3

\* A signal of one bit is a field whose mask is 1.
LEMMA SwitchIsField ==
    ASSUME NEW p \in GpioPads, NEW s \in Switches, NEW w \in Uint32, NEW v
    PROVE  LET place == PlaceOf(<<p, s>>)
           IN /\ <<p, s>> \in Signals
              /\ place.mask = {0}
              /\ bitfield_bit32_write(w, place.index, v) =
                    bitfield_field32_write(w, place, IF v = {} THEN {} ELSE {0})
              /\ bitfield_bit32_read(w, place.index) = bitfield_field32_read(w, place)
<1> DEFINE place == PlaceOf(<<p, s>>)
<1>1. <<p, s>> \in GpioPads \X GpioSignals /\ <<p, s>> \in Signals
  BY DEF Signals, GpioSignals
<1>2. Width(s) = 1
  BY DEF Width, Switches
<1>3. place.mask = 0..0 /\ place.index \in 0..28
  BY <1>1, <1>2, GpioBits, PlaceType
<1> HIDE DEF place
<1>4. place.mask = {0}
  BY <1>3
<1>5. bitfield_bit32_write(w, place.index, v) =
          bitfield_field32_write(w, place, IF v = {} THEN {} ELSE {0})
  BY <1>3, <1>4 DEF bitfield_bit32_write, bitfield_field32_write, Shift
<1>6. bitfield_bit32_read(w, place.index) = bitfield_field32_read(w, place)
  BY <1>3, <1>4 DEF bitfield_bit32_read, bitfield_field32_read
<1> QED
  BY <1>1, <1>4, <1>5, <1>6 DEF place

-----------------------------------------------------------------------------
(* The calls.                                                              *)

\* A write to the register of a signal that leaves the other signals of the
\* register alone programs that signal only.
LEMMA WriteStep ==
    ASSUME regs \in [Registers -> Uint32], NEW x \in Signals, NEW stored,
           \A r \in Registers : r # PlaceOf(x).reg => regs'[r] = regs[r],
           bitfield_field32_read(regs'[PlaceOf(x).reg], PlaceOf(x)) = stored,
           \A y \in Signals :
               y # x /\ PlaceOf(y).reg = PlaceOf(x).reg =>
                   bitfield_field32_read(regs'[PlaceOf(y).reg], PlaceOf(y)) =
                   bitfield_field32_read(regs[PlaceOf(y).reg], PlaceOf(y))
    PROVE  Programmed' = [Programmed EXCEPT ![x] = stored]
<1>1. ASSUME NEW y \in Signals
      PROVE  bitfield_field32_read(regs'[PlaceOf(y).reg], PlaceOf(y)) =
                 IF y = x THEN stored
                 ELSE bitfield_field32_read(regs[PlaceOf(y).reg], PlaceOf(y))
  <2>1. PlaceOf(y).reg \in Registers
    BY PlaceType
  <2>2. CASE PlaceOf(y).reg = PlaceOf(x).reg
    BY <2>2
  <2>3. CASE PlaceOf(y).reg # PlaceOf(x).reg
    BY <2>1, <2>3
  <2> QED
    BY <2>2, <2>3
<1> QED
  BY <1>1 DEF Programmed, PlaceOf

\* A read-modify-write of the field of a signal.
LEMMA FieldStep ==
    ASSUME regs \in [Registers -> Uint32], NEW x \in Signals, NEW u,
           regs' = [regs EXCEPT ![PlaceOf(x).reg] =
                       bitfield_field32_write(regs[PlaceOf(x).reg], PlaceOf(x), u)]
    PROVE  /\ Programmed' = [Programmed EXCEPT ![x] = u \cap PlaceOf(x).mask]
           /\ regs' \in [Registers -> Uint32]
<1> DEFINE r == PlaceOf(x).reg
<1>1. r \in Registers /\ regs[r] \in Uint32
  BY PlaceType
<1>2. /\ regs'[r] = bitfield_field32_write(regs[r], PlaceOf(x), u)
      /\ \A q \in Registers : q # r => regs'[q] = regs[q]
  BY <1>1
<1>3. ASSUME NEW y \in Signals, PlaceOf(y).reg = r
      PROVE  /\ regs'[r] \in Uint32
             /\ bitfield_field32_read(regs'[r], PlaceOf(x)) = u \cap PlaceOf(x).mask
             /\ y # x => bitfield_field32_read(regs'[r], PlaceOf(y)) =
                           bitfield_field32_read(regs[r], PlaceOf(y))
  <2>1. x # y => BitsOf(x) \cap BitsOf(y) = {}
    BY <1>3, SignalsDisjoint
  <2> QED
    BY <1>1, <1>2, <2>1, FieldWrite
<1>4. regs'[r] \in Uint32
  BY <1>3
<1>5. regs' \in [Registers -> Uint32]
  BY <1>1, <1>2, <1>4
<1> QED
  BY <1>2, <1>3, <1>5, WriteStep

\* A write of the MUX_SEL register, which holds nothing but the selection.
LEMMA MuxStep ==
    ASSUME regs \in [Registers -> Uint32], NEW x \in Signals, x[2] = "mux",
           NEW v \in SUBSET (0..3),
           regs' = [regs EXCEPT ![PlaceOf(x).reg] = v \cap 0..3]
    PROVE  /\ Programmed' = [Programmed EXCEPT ![x] = v]
           /\ regs' \in [Registers -> Uint32]
<1>1. x \in GpioPads \X GpioSignals
  BY DEF Signals
<1>2. PlaceOf(x).mask = 0..3 /\ PlaceOf(x).index = 0 /\ BitsOf(x) = 0..3
  BY <1>1, GpioBits DEF Width, Index
<1>3. bitfield_field32_read(v, PlaceOf(x)) = v
  <2>1. bitfield_field32_read(v, PlaceOf(x)) = {b \in 0..3 : b + 0 \in v}
    BY <1>2 DEF bitfield_field32_read
  <2>2. ASSUME NEW b \in 0..3 PROVE b + 0 = b
    OBVIOUS
  <2>3. {b \in 0..3 : b + 0 \in v} = {b \in 0..3 : b \in v}
    BY <2>2
  <2>4. {b \in 0..3 : b \in v} = v
    OBVIOUS
  <2> QED
    BY <2>1, <2>3, <2>4
<1>4. ASSUME NEW y \in Signals, PlaceOf(y).reg = PlaceOf(x).reg
      PROVE  y = x
  <2>1. y \in GpioPads \X GpioSignals
    BY <1>1, <1>4, FramesApart DEF Signals
  <2>2. Number[x[1]] \in 0..15 /\ Number[y[1]] \in 0..15
    BY <1>1, <2>1, GpioBits, GpioRow
  <2>3. RegisterOf(x[1], x[2]) = RegisterOf(y[1], y[2])
    BY <1>1, <1>4, <2>1, GpioBits
  <2>4. Number[x[1]] = Number[y[1]] /\ y[2] = "mux"
    BY <2>2, <2>3, SMT DEF RegisterOf, PADFRAME_GPIO_BASE
  <2> QED
    BY <1>1, <2>1, <2>4, GpioBits, NumberInjective
<1>5. v \in Uint32 /\ v \cap 0..3 = v
  <2>1. \A b \in v : b \in 0..3 /\ b \in 0..31
    OBVIOUS
  <2> QED
    BY <2>1 DEF Uint32
<1>6. /\ regs'[PlaceOf(x).reg] = v
      /\ \A r \in Registers : r # PlaceOf(x).reg => regs'[r] = regs[r]
      /\ regs' \in [Registers -> Uint32]
  <2> DEFINE reg == PlaceOf(x).reg
  <2>1. reg \in Registers
    BY PlaceType
  <2> HIDE DEF reg
  <2>2. regs' = [regs EXCEPT ![reg] = v]
    BY <1>5, Zenon DEF reg
  <2>3. /\ regs'[reg] = v
        /\ \A r \in Registers : r # reg => regs'[r] = regs[r]
        /\ regs' \in [Registers -> Uint32]
    BY <1>5, <2>1, <2>2
  <2> QED
    BY <2>3, Zenon DEF reg
<1>7. bitfield_field32_read(regs'[PlaceOf(x).reg], PlaceOf(x)) = v
  BY <1>3, <1>6
<1>8. \A y \in Signals : ~(y # x /\ PlaceOf(y).reg = PlaceOf(x).reg)
  BY <1>4, Zenon
<1> QED
  BY <1>6, <1>7, <1>8, WriteStep

\* The value of one signal.
LEMMA ProgrammedValue ==
    ASSUME NEW x \in Signals
    PROVE  Programmed[x] = bitfield_field32_read(regs[PlaceOf(x).reg], PlaceOf(x))
BY DEF Programmed, PlaceOf

\* The value of a signal has at most four bits.
LEMMA ProgrammedType == Programmed \in [Signals -> SUBSET (0..3)]
<1>1. ASSUME NEW x \in Signals PROVE Programmed[x] \in SUBSET (0..3)
  <2>1. PlaceOf(x).mask \subseteq 0..3
    BY PlaceType
  <2> QED
    BY <2>1, ProgrammedValue DEF bitfield_field32_read
<1>2. Programmed = [x \in Signals |-> Programmed[x]]
  BY DEF Programmed
<1> QED
  BY <1>1, <1>2

\* A signal of one bit: both calls do what PadSignals says.
LEMMA SwitchStep ==
    ASSUME TypeOK, NEW p \in GpioPads, NEW s \in Switches,
           Switch(p, s, PlaceOf(<<p, s>>))
    PROVE  /\ \/ \E v \in Values : PadSignals!Set(p, s, v, IF v = {} THEN {} ELSE {0})
              \/ PadSignals!Get(p, s)
           /\ TypeOK'
<1> DEFINE x == <<p, s>>
           place == PlaceOf(x)
<1>1. x \in Signals /\ place.reg \in Registers /\ regs[place.reg] \in Uint32
  BY SwitchIsField, PlaceType DEF TypeOK, Signals, GpioSignals
<1>2. place.mask = {0}
  BY <1>1, SwitchIsField
<1>3. ASSUME NEW v \in Values,
             Set(p, s, v, place.reg, bitfield_bit32_write(regs[place.reg], place.index, v))
      PROVE  PadSignals!Set(p, s, v, IF v = {} THEN {} ELSE {0}) /\ TypeOK'
  <2> DEFINE stored == IF v = {} THEN {} ELSE {0}
  <2>1. regs' = [regs EXCEPT ![place.reg] =
                     bitfield_field32_write(regs[place.reg], place, stored)]
    BY <1>1, <1>3, SwitchIsField DEF Set
  <2>2. stored \cap place.mask = stored
    BY <1>2
  <2>3. /\ Programmed' = [Programmed EXCEPT ![x] = stored \cap place.mask]
        /\ regs' \in [Registers -> Uint32]
    BY <1>1, <2>1, FieldStep DEF TypeOK
  <2>4. Programmed' = [Programmed EXCEPT ![x] = stored]
    BY <2>2, <2>3
  <2> HIDE DEF stored
  <2>5. PadSignals!Set(p, s, v, stored)
    BY <1>3, <2>4 DEF Set, Call, PadSignals!Set, SetCall, PadSignals!SetCall
  <2>6. TypeOK'
    BY <1>3, <2>3, PadframeAssumption DEF Set, Call, TypeOK
  <2> QED
    BY <2>5, <2>6 DEF stored
<1>4. ASSUME Get(p, s, bitfield_bit32_read(regs[place.reg], place.index))
      PROVE  PadSignals!Get(p, s) /\ TypeOK'
  <2>1. returned' = Programmed[x]
    BY <1>1, <1>4, SwitchIsField, ProgrammedValue DEF Get
  <2>2. Programmed' = Programmed
    BY <1>4 DEF Get, Programmed
  <2>3. returned' \in SUBSET (0..3)
    BY <1>1, <2>1, ProgrammedType
  <2> QED
    BY <1>4, <2>1, <2>2, <2>3, PadframeAssumption
    DEF Get, Call, TypeOK, PadSignals!Get, GetCall, PadSignals!GetCall
<1> QED
  BY <1>3, <1>4 DEF Switch

\* A signal of several bits.
LEMMA FieldCallStep ==
    ASSUME TypeOK, NEW p, NEW s, <<p, s>> \in Signals,
           Field(p, s, PlaceOf(<<p, s>>))
    PROVE  /\ \/ \E v \in Values : PadSignals!Set(p, s, v, v \cap PlaceOf(<<p, s>>).mask)
              \/ PadSignals!Get(p, s)
           /\ TypeOK'
<1> DEFINE x == <<p, s>>
           place == PlaceOf(x)
<1>1. ASSUME NEW v \in Values,
             Set(p, s, v, place.reg, bitfield_field32_write(regs[place.reg], place, v))
      PROVE  PadSignals!Set(p, s, v, v \cap place.mask) /\ TypeOK'
  <2>1. /\ Programmed' = [Programmed EXCEPT ![x] = v \cap place.mask]
        /\ regs' \in [Registers -> Uint32]
    BY <1>1, FieldStep DEF TypeOK, Set
  <2> QED
    BY <1>1, <2>1, PadframeAssumption
    DEF Set, Call, TypeOK, PadSignals!Set, SetCall, PadSignals!SetCall
<1>2. ASSUME Get(p, s, bitfield_field32_read(regs[place.reg], place))
      PROVE  PadSignals!Get(p, s) /\ TypeOK'
  <2>1. returned' = Programmed[x]
    BY <1>2, ProgrammedValue DEF Get
  <2>2. Programmed' = Programmed
    BY <1>2 DEF Get, Programmed
  <2>3. returned' \in SUBSET (0..3)
    BY <2>1, ProgrammedType
  <2> QED
    BY <1>2, <2>1, <2>2, <2>3, PadframeAssumption
    DEF Get, Call, TypeOK, PadSignals!Get, GetCall, PadSignals!GetCall
<1> QED
  BY <1>1, <1>2 DEF Field

\* The selection of a pad.
LEMMA MuxCallStep ==
    ASSUME TypeOK, NEW p \in GpioPads, Mux(p, PlaceOf(<<p, "mux">>))
    PROVE  /\ \/ \E v \in Muxes : PadSignals!Set(p, "mux", v, v)
              \/ PadSignals!Get(p, "mux")
           /\ TypeOK'
<1> DEFINE x == <<p, "mux">>
           place == PlaceOf(x)
<1>1. x \in Signals /\ x \in GpioPads \X GpioSignals /\ x[2] = "mux"
  BY DEF Signals, GpioSignals
<1>2. ASSUME NEW v \in Muxes, Set(p, "mux", v, place.reg, v \cap 0..3)
      PROVE  PadSignals!Set(p, "mux", v, v) /\ TypeOK'
  <2>1. v \in SUBSET (0..3)
    BY PadframeAssumption
  <2>2. /\ Programmed' = [Programmed EXCEPT ![x] = v]
        /\ regs' \in [Registers -> Uint32]
    BY <1>1, <1>2, <2>1, MuxStep DEF TypeOK, Set
  <2> QED
    BY <1>2, <2>2, PadframeAssumption
    DEF Set, Call, TypeOK, PadSignals!Set, SetCall, PadSignals!SetCall
<1>3. ASSUME Get(p, "mux", regs[place.reg] \cap 0..3)
      PROVE  PadSignals!Get(p, "mux") /\ TypeOK'
  <2>1. place.mask = 0..3 /\ place.index = 0
    BY <1>1, GpioBits DEF Width, Index
  <2>2. \A b \in 0..3 : b + 0 = b
    OBVIOUS
  <2>3. Programmed[x] = {b \in 0..3 : b + 0 \in regs[place.reg]}
    BY <1>1, <2>1, ProgrammedValue DEF bitfield_field32_read
  <2>4. Programmed[x] = regs[place.reg] \cap 0..3
    BY <2>2, <2>3
  <2>5. Programmed' = Programmed
    BY <1>3 DEF Get, Programmed
  <2>6. returned' \in SUBSET (0..3)
    BY <1>3 DEF Get
  <2> QED
    BY <1>3, <2>4, <2>5, <2>6, PadframeAssumption
    DEF Get, Call, TypeOK, PadSignals!Get, GetCall, PadSignals!GetCall
<1> QED
  BY <1>2, <1>3 DEF Mux

\* All the calls for a pad of the GPIO frame.
LEMMA GpioStep ==
    ASSUME TypeOK, NEW p \in GpioPads, GpioPad(p, GPIO[p])
    PROVE  PadSignals!GpioPad(p) /\ TypeOK'
<1>1. \A s \in GpioSignals : GPIO[p][s] = PlaceOf(<<p, s>>)
  BY DEF PlaceOf, Layout
<1>2. ASSUME NEW s \in Switches, Switch(p, s, GPIO[p][s])
      PROVE  PadSignals!GpioPad(p) /\ TypeOK'
  <2>1. s \in GpioSignals
    BY DEF GpioSignals
  <2>2. Switch(p, s, PlaceOf(<<p, s>>))
    BY <1>1, <1>2, <2>1
  <2> QED
    BY <2>1, <2>2, SwitchStep
    DEF PadSignals!GpioPad, PadSignals!GpioSignals, PadSignals!Switches, GpioSignals, Switches
<1>3. ASSUME Field(p, "drv", GPIO[p].drv)
      PROVE  PadSignals!GpioPad(p) /\ TypeOK'
  <2>1. "drv" \in GpioSignals /\ <<p, "drv">> \in Signals /\ <<p, "drv">> \in GpioPads \X GpioSignals
    BY DEF GpioSignals, Signals
  <2>2. Field(p, "drv", PlaceOf(<<p, "drv">>))
    BY <1>1, <1>3, <2>1
  <2>3. PlaceOf(<<p, "drv">>).mask = 0..1
    BY <2>1, GpioBits DEF Width
  <2> QED
    BY <2>1, <2>2, <2>3, FieldCallStep
    DEF PadSignals!GpioPad, PadSignals!GpioSignals, PadSignals!Switches, GpioSignals, Switches
<1>4. ASSUME Mux(p, GPIO[p].mux)
      PROVE  PadSignals!GpioPad(p) /\ TypeOK'
  <2>1. Mux(p, PlaceOf(<<p, "mux">>))
    BY <1>1, <1>4 DEF GpioSignals
  <2> QED
    BY <2>1, MuxCallStep
    DEF PadSignals!GpioPad, PadSignals!GpioSignals, PadSignals!Switches, GpioSignals, Switches
<1> QED
  BY <1>2, <1>3, <1>4 DEF GpioPad

\* All the calls for a pad of the HyperBus.
LEMMA HyperbusStep ==
    ASSUME TypeOK, NEW p \in HyperbusPads, HyperbusPad(p)
    PROVE  /\ PadSignals!HyperbusPad(p, IF p = "reserved" THEN 0..3 ELSE 0..1)
           /\ TypeOK'
<1>1. <<p, "drv">> \in Signals /\ <<p, "drv">> \in HyperbusPads \X {"drv"}
  BY DEF Signals
<1>2. DRV_STRENGTH[p].drv = PlaceOf(<<p, "drv">>)
  BY DEF PlaceOf, Layout, HyperbusPads, ControlPads, DataPads, GpioPads
<1>3. Order[p] = 14 <=> p = "reserved"
  BY DEF Order, HyperbusPads, ControlPads, DataPads
<1>4. PlaceOf(<<p, "drv">>).mask = IF p = "reserved" THEN 0..3 ELSE 0..1
  <2>1. PlaceOf(<<p, "drv">>) =
            Place(PADFRAME_HYPERBUS_BASE, 2 * Order[p], IF Order[p] = 14 THEN 4 ELSE 2)
    BY HyperbusPlace
  <2>2. PlaceOf(<<p, "drv">>).mask = 0 .. (IF Order[p] = 14 THEN 4 ELSE 2) - 1
    BY <2>1 DEF Place
  <2>3. CASE p = "reserved"
    BY <1>3, <2>2, <2>3
  <2>4. CASE p # "reserved"
    BY <1>3, <2>2, <2>4
  <2> QED
    BY <2>3, <2>4
<1>5. Field(p, "drv", PlaceOf(<<p, "drv">>))
  BY <1>2 DEF HyperbusPad
<1> QED
  BY <1>1, <1>4, <1>5, FieldCallStep DEF PadSignals!HyperbusPad

\* A step of the code is a step of the abstract specification.
LEMMA StepRefines ==
    ASSUME TypeOK, Next
    PROVE  PadSignals!Next /\ TypeOK'
<1>0. CASE padframe_aon_gpio_0
  <2>1. "gpio_0" \in GpioPads /\ GPIO["gpio_0"] = GPIO_0
    BY DEF GpioPads, GPIO
  <2> QED
    BY <1>0, <2>1, GpioStep DEF padframe_aon_gpio_0, PadSignals!padframe_aon_gpio_0, PadSignals!Next
<1>1. CASE padframe_aon_gpio_1
  <2>1. "gpio_1" \in GpioPads /\ GPIO["gpio_1"] = GPIO_1
    BY DEF GpioPads, GPIO
  <2> QED
    BY <1>1, <2>1, GpioStep DEF padframe_aon_gpio_1, PadSignals!padframe_aon_gpio_1, PadSignals!Next
<1>2. CASE padframe_aon_gpio_2
  <2>1. "gpio_2" \in GpioPads /\ GPIO["gpio_2"] = GPIO_2
    BY DEF GpioPads, GPIO
  <2> QED
    BY <1>2, <2>1, GpioStep DEF padframe_aon_gpio_2, PadSignals!padframe_aon_gpio_2, PadSignals!Next
<1>3. CASE padframe_aon_gpio_3
  <2>1. "gpio_3" \in GpioPads /\ GPIO["gpio_3"] = GPIO_3
    BY DEF GpioPads, GPIO
  <2> QED
    BY <1>3, <2>1, GpioStep DEF padframe_aon_gpio_3, PadSignals!padframe_aon_gpio_3, PadSignals!Next
<1>4. CASE padframe_aon_gpio_4
  <2>1. "gpio_4" \in GpioPads /\ GPIO["gpio_4"] = GPIO_4
    BY DEF GpioPads, GPIO
  <2> QED
    BY <1>4, <2>1, GpioStep DEF padframe_aon_gpio_4, PadSignals!padframe_aon_gpio_4, PadSignals!Next
<1>5. CASE padframe_aon_gpio_5
  <2>1. "gpio_5" \in GpioPads /\ GPIO["gpio_5"] = GPIO_5
    BY DEF GpioPads, GPIO
  <2> QED
    BY <1>5, <2>1, GpioStep DEF padframe_aon_gpio_5, PadSignals!padframe_aon_gpio_5, PadSignals!Next
<1>6. CASE padframe_aon_gpio_6
  <2>1. "gpio_6" \in GpioPads /\ GPIO["gpio_6"] = GPIO_6
    BY DEF GpioPads, GPIO
  <2> QED
    BY <1>6, <2>1, GpioStep DEF padframe_aon_gpio_6, PadSignals!padframe_aon_gpio_6, PadSignals!Next
<1>7. CASE padframe_aon_gpio_7
  <2>1. "gpio_7" \in GpioPads /\ GPIO["gpio_7"] = GPIO_7
    BY DEF GpioPads, GPIO
  <2> QED
    BY <1>7, <2>1, GpioStep DEF padframe_aon_gpio_7, PadSignals!padframe_aon_gpio_7, PadSignals!Next
<1>8. CASE padframe_aon_gpio_8
  <2>1. "gpio_8" \in GpioPads /\ GPIO["gpio_8"] = GPIO_8
    BY DEF GpioPads, GPIO
  <2> QED
    BY <1>8, <2>1, GpioStep DEF padframe_aon_gpio_8, PadSignals!padframe_aon_gpio_8, PadSignals!Next
<1>9. CASE padframe_aon_gpio_9
  <2>1. "gpio_9" \in GpioPads /\ GPIO["gpio_9"] = GPIO_9
    BY DEF GpioPads, GPIO
  <2> QED
    BY <1>9, <2>1, GpioStep DEF padframe_aon_gpio_9, PadSignals!padframe_aon_gpio_9, PadSignals!Next
<1>10. CASE padframe_aon_gpio_10
  <2>1. "gpio_10" \in GpioPads /\ GPIO["gpio_10"] = GPIO_10
    BY DEF GpioPads, GPIO
  <2> QED
    BY <1>10, <2>1, GpioStep DEF padframe_aon_gpio_10, PadSignals!padframe_aon_gpio_10, PadSignals!Next
<1>11. CASE padframe_aon_gpio_11
  <2>1. "gpio_11" \in GpioPads /\ GPIO["gpio_11"] = GPIO_11
    BY DEF GpioPads, GPIO
  <2> QED
    BY <1>11, <2>1, GpioStep DEF padframe_aon_gpio_11, PadSignals!padframe_aon_gpio_11, PadSignals!Next
<1>12. CASE padframe_aon_gpio_12
  <2>1. "gpio_12" \in GpioPads /\ GPIO["gpio_12"] = GPIO_12
    BY DEF GpioPads, GPIO
  <2> QED
    BY <1>12, <2>1, GpioStep DEF padframe_aon_gpio_12, PadSignals!padframe_aon_gpio_12, PadSignals!Next
<1>13. CASE padframe_aon_gpio_13
  <2>1. "gpio_13" \in GpioPads /\ GPIO["gpio_13"] = GPIO_13
    BY DEF GpioPads, GPIO
  <2> QED
    BY <1>13, <2>1, GpioStep DEF padframe_aon_gpio_13, PadSignals!padframe_aon_gpio_13, PadSignals!Next
<1>14. CASE padframe_aon_gpio_14
  <2>1. "gpio_14" \in GpioPads /\ GPIO["gpio_14"] = GPIO_14
    BY DEF GpioPads, GPIO
  <2> QED
    BY <1>14, <2>1, GpioStep DEF padframe_aon_gpio_14, PadSignals!padframe_aon_gpio_14, PadSignals!Next
<1>15. CASE padframe_aon_gpio_15
  <2>1. "gpio_15" \in GpioPads /\ GPIO["gpio_15"] = GPIO_15
    BY DEF GpioPads, GPIO
  <2> QED
    BY <1>15, <2>1, GpioStep DEF padframe_aon_gpio_15, PadSignals!padframe_aon_gpio_15, PadSignals!Next
<1>16. CASE padframe_hyperbus_control
  <2>1. PICK p \in ControlPads : HyperbusPad(p)
    BY <1>16 DEF padframe_hyperbus_control
  <2>2. p \in HyperbusPads /\ p # "reserved"
    BY DEF HyperbusPads, ControlPads
  <2>3. PadSignals!HyperbusPad(p, 0..1) /\ TypeOK'
    BY <2>1, <2>2, HyperbusStep
  <2> QED
    BY <2>3 DEF PadSignals!padframe_hyperbus_control, PadSignals!ControlPads, ControlPads, PadSignals!Next
<1>17. CASE padframe_hyperbus_data
  <2>1. PICK p \in DataPads \cup {"reserved"} : HyperbusPad(p)
    BY <1>17 DEF padframe_hyperbus_data
  <2>2. p \in HyperbusPads
    BY DEF HyperbusPads
  <2>3. PadSignals!HyperbusPad(p, IF p = "reserved" THEN 0..3 ELSE 0..1) /\ TypeOK'
    BY <2>1, <2>2, HyperbusStep
  <2>4. CASE p = "reserved"
    BY <2>3, <2>4 DEF PadSignals!padframe_hyperbus_data, PadSignals!Next
  <2>5. CASE p # "reserved"
    BY <2>3, <2>5 DEF PadSignals!padframe_hyperbus_data, PadSignals!DataPads, DataPads, PadSignals!Next
  <2> QED
    BY <2>4, <2>5
<1> QED
  BY <1>0, <1>1, <1>2, <1>3, <1>4, <1>5, <1>6, <1>7, <1>8, <1>9, <1>10, <1>11,
     <1>12, <1>13, <1>14, <1>15, <1>16, <1>17 DEF Next

\* The registers start as words.
LEMMA InitType ==
    ASSUME Init
    PROVE  TypeOK
BY PadframeAssumption DEF Init, TypeOK

\* A step that changes nothing.
LEMMA Stutter ==
    ASSUME TypeOK, UNCHANGED vars
    PROVE  TypeOK' /\ UNCHANGED <<Programmed, call, returned>>
BY DEF vars, TypeOK, Programmed

-----------------------------------------------------------------------------
(* The registers of padframe_gpio.c and padframe_hyperbus.c stay words of  *)
(* 32 bits whatever is written, and a get call returns at most 4 bits.     *)
THEOREM RegistersStayWords == Spec => []TypeOK
<1>1. Init => TypeOK
  BY InitType
<1>2. TypeOK /\ [Next]_vars => TypeOK'
  BY StepRefines, Stutter
<1> QED
  BY <1>1, <1>2, PTL DEF Spec

(* The set and get functions of padframe_gpio.c and padframe_hyperbus.c,   *)
(* with the layout of the register headers, implement PadSignals: no call  *)
(* for one signal of one pad ever disturbs or returns another signal.      *)
THEOREM SignalsIndependent == Spec => ImplementsPadSignals
<1>1. Init => PadSignals!Init
  BY ProgrammedType
  DEF Init, PadSignals!Init, NoCall, PadSignals!NoCall, Signals, PadSignals!Signals,
      GpioPads, PadSignals!GpioPads, HyperbusPads, PadSignals!HyperbusPads,
      ControlPads, PadSignals!ControlPads, DataPads, PadSignals!DataPads,
      GpioSignals, PadSignals!GpioSignals, Switches, PadSignals!Switches
<1>2. TypeOK /\ [Next]_vars => [PadSignals!Next]_<<Programmed, call, returned>>
  BY StepRefines, Stutter
<1> QED
  BY <1>1, <1>2, RegistersStayWords, PTL
  DEF Spec, ImplementsPadSignals, PadSignals!Spec, PadSignals!vars

-----------------------------------------------------------------------------
(* The HyperBus controller: its register map.                              *)

\* The registers of the windows follow those of the fields.
LEMMA OffsetsApart ==
    /\ \A f, g \in Fields : FieldOffset[f] = FieldOffset[g] => f = g
    /\ \A f \in Fields : FieldOffset[f] \in 0..40
<1>1. \A f \in Fields :
         FieldOffset[f] = IF f = "t_latency_access" THEN 0
                          ELSE IF f = "en_latency_additional" THEN 4
                          ELSE IF f = "t_burst_max" THEN 8
                          ELSE IF f = "t_read_write_recovery" THEN 12
                          ELSE IF f = "t_rx_clk_delay" THEN 16
                          ELSE IF f = "t_tx_clk_delay" THEN 20
                          ELSE IF f = "address_mask_msb" THEN 24
                          ELSE IF f = "address_space" THEN 28
                          ELSE IF f = "phys_in_use" THEN 32
                          ELSE IF f = "which_phy" THEN 36 ELSE 40
  BY DEF Fields, FieldOffset
<1>2. \A f \in Fields : FieldOffset[f] \in 0..40
  BY <1>1
<1>3. \A f, g \in Fields : FieldOffset[f] = FieldOffset[g] => f = g
  BY <1>1 DEF Fields
<1> QED BY <1>2, <1>3

LEMMA WindowsApart ==
    /\ \A i, j \in Chips : /\ ChipStart(i) # ChipEnd(j)
                           /\ ChipStart(i) = ChipStart(j) => i = j
                           /\ ChipEnd(i) = ChipEnd(j) => i = j
    /\ \A i \in Chips : /\ ChipStart(i) \in Nat /\ ChipEnd(i) \in Nat
                        /\ ChipStart(i) > 40 /\ ChipEnd(i) > 40
<1>1. \A i \in Chips : i \in Nat
  BY DEF Chips
<1>2. \A i, j \in Nat : /\ 11 * 4 + i * 8 # 11 * 4 + j * 8 + 4
                        /\ 11 * 4 + i * 8 = 11 * 4 + j * 8 => i = j
                        /\ 11 * 4 + i * 8 + 4 = 11 * 4 + j * 8 + 4 => i = j
                        /\ 11 * 4 + i * 8 > 40 /\ 11 * 4 + i * 8 + 4 > 40
  OBVIOUS
<1> QED BY <1>1, <1>2 DEF ChipStart, ChipEnd

LEMMA OffsetFacts ==
    /\ \A f \in Fields : FieldOffset[f] \in Offsets
    /\ \A i \in Chips : ChipStart(i) \in Offsets /\ ChipEnd(i) \in Offsets
    /\ \A f \in Fields, i \in Chips :
          FieldOffset[f] # ChipStart(i) /\ FieldOffset[f] # ChipEnd(i)
<1>1. \A f \in Fields, i \in Chips :
         FieldOffset[f] # ChipStart(i) /\ FieldOffset[f] # ChipEnd(i)
  BY OffsetsApart, WindowsApart
<1> QED BY <1>1 DEF Offsets

\* What a register keeps, and what hyperram_cfg_write stores in it.
LEMMA KeptField ==
    ASSUME NEW f \in Fields, NEW word
    PROVE  Kept(FieldOffset[f], word) = word % FieldSize[f]
<1>1. (CHOOSE g \in Fields : FieldOffset[g] = FieldOffset[f]) = f
  BY OffsetsApart
<1> QED BY <1>1 DEF Kept

LEMMA KeptWindow ==
    ASSUME NEW i \in Chips, NEW word
    PROVE  Kept(ChipStart(i), word) = word /\ Kept(ChipEnd(i), word) = word
BY OffsetFacts DEF Kept

LEMMA Words ==
    ASSUME NEW c
    PROVE  /\ \A f \in Fields : Word(c, FieldOffset[f]) = c.field[f]
           /\ \A i \in Chips :
                 /\ Word(c, ChipStart(i)) = c.chip_base[i]
                 /\ Word(c, ChipEnd(i)) = (c.chip_base[i] + c.chip_space[i]) % AddrSpace
<1>1. ASSUME NEW f \in Fields PROVE Word(c, FieldOffset[f]) = c.field[f]
  <2>1. (CHOOSE g \in Fields : FieldOffset[g] = FieldOffset[f]) = f
    BY OffsetsApart
  <2> QED BY <2>1 DEF Word
<1>2. ASSUME NEW i \in Chips
      PROVE  /\ Word(c, ChipStart(i)) = c.chip_base[i]
             /\ Word(c, ChipEnd(i)) = (c.chip_base[i] + c.chip_space[i]) % AddrSpace
  <2>1. /\ (CHOOSE j \in Chips : ChipStart(i) \in {ChipStart(j), ChipEnd(j)}) = i
        /\ (CHOOSE j \in Chips : ChipEnd(i) \in {ChipStart(j), ChipEnd(j)}) = i
    BY WindowsApart
  <2>2. /\ ~(\E f \in Fields : FieldOffset[f] = ChipStart(i))
        /\ ~(\E f \in Fields : FieldOffset[f] = ChipEnd(i))
    BY OffsetFacts
  <2>3. ChipEnd(i) # ChipStart(i)
    BY WindowsApart
  <2> QED BY <2>1, <2>2, <2>3 DEF Word
<1> QED BY <1>1, <1>2

-----------------------------------------------------------------------------
(* Addresses wrap around.                                                  *)

\* A number and its remainder are a multiple of the address space apart.
LEMMA Remainder ==
    ASSUME NEW x \in Int, NEW a \in Addrs, NEW k \in Int,
           x = a + k * AddrSpace
    PROVE  x % AddrSpace = a
<1> DEFINE A == AddrSpace
<1>1. A \in Nat /\ A # 0 /\ a \in Int /\ 0 <= a /\ a < A
  BY HyperbusAssumption DEF Addrs
<1> HIDE DEF A
<1> QED BY <1>1 DEF A

LEMMA WrapAround ==
    ASSUME NEW a \in Addrs, NEW b \in Addrs
    PROVE  /\ (a + b) % AddrSpace \in Addrs /\ (a - b) % AddrSpace \in Addrs
           /\ (b + ((a - b) % AddrSpace)) % AddrSpace = a
           /\ (((b + a) % AddrSpace) - b) % AddrSpace = a
<1>1. AddrSpace \in Nat /\ AddrSpace # 0 /\ a \in Nat /\ b \in Nat /\ a < AddrSpace /\ b < AddrSpace
  BY HyperbusAssumption DEF Addrs
<1>2. (a - b) % AddrSpace = IF b <= a THEN a - b ELSE a - b + AddrSpace
  <2>1. (IF b <= a THEN a - b ELSE a - b + AddrSpace) \in Addrs
    BY <1>1 DEF Addrs
  <2>2. b <= a => a - b = (a - b) + 0 * AddrSpace
    BY <1>1
  <2>3. ~(b <= a) => a - b = (a - b + AddrSpace) + (-1) * AddrSpace
    BY <1>1
  <2>4. a - b \in Int /\ 0 \in Int /\ -1 \in Int
    BY <1>1
  <2> QED BY <2>1, <2>2, <2>3, <2>4, Remainder
<1>3. (b + a) % AddrSpace = IF a + b < AddrSpace THEN a + b ELSE a + b - AddrSpace
  <2>1. (IF a + b < AddrSpace THEN a + b ELSE a + b - AddrSpace) \in Addrs
    BY <1>1 DEF Addrs
  <2>2. a + b < AddrSpace => b + a = (a + b) + 0 * AddrSpace
    BY <1>1
  <2>3. ~(a + b < AddrSpace) => b + a = (a + b - AddrSpace) + 1 * AddrSpace
    BY <1>1
  <2>4. b + a \in Int /\ 0 \in Int /\ 1 \in Int
    BY <1>1
  <2> QED BY <2>1, <2>2, <2>3, <2>4, Remainder
<1>4. (b + ((a - b) % AddrSpace)) % AddrSpace = a
  <2> DEFINE d == (a - b) % AddrSpace
  <2>1. d \in Int /\ (b <= a => d = a - b) /\ (~(b <= a) => d = a - b + AddrSpace)
    BY <1>1, <1>2
  <2> HIDE DEF d
  <2>2. b + d = a + 0 * AddrSpace \/ b + d = a + 1 * AddrSpace
    BY <1>1, <2>1
  <2>3. b + d \in Int /\ 0 \in Int /\ 1 \in Int
    BY <1>1, <2>1
  <2>4. (b + d) % AddrSpace = a
    BY <2>2, <2>3, Remainder
  <2> QED BY <2>4 DEF d
<1>5. (((b + a) % AddrSpace) - b) % AddrSpace = a
  <2> DEFINE d == (b + a) % AddrSpace
  <2>1. d \in Int /\ (a + b < AddrSpace => d = a + b) /\ (~(a + b < AddrSpace) => d = a + b - AddrSpace)
    BY <1>1, <1>3
  <2> HIDE DEF d
  <2>2. d - b = a + 0 * AddrSpace \/ d - b = a + (-1) * AddrSpace
    BY <1>1, <2>1
  <2>3. d - b \in Int /\ 0 \in Int /\ -1 \in Int
    BY <1>1, <2>1
  <2>4. (d - b) % AddrSpace = a
    BY <2>2, <2>3, Remainder
  <2> QED BY <2>4 DEF d
<1>6. (a + b) % AddrSpace \in Addrs /\ (a - b) % AddrSpace \in Addrs
  <2>1. a + b = b + a
    BY <1>1
  <2> QED BY <1>1, <1>2, <1>3, <2>1 DEF Addrs
<1> QED BY <1>4, <1>5, <1>6

-----------------------------------------------------------------------------
(* The invariant: configurations have their types, and the registers are   *)
(* those of want.                                                          *)

Config ==
    [field : [Fields -> Int], chip_base : [Chips -> Addrs], chip_space : [Chips -> Addrs]]

HyperbusInv ==
    /\ words = [o \in Offsets |-> words[o]]
    /\ \A f \in Fields : words[FieldOffset[f]] \in Int
    /\ \A i \in Chips : words[ChipStart(i)] \in Addrs /\ words[ChipEnd(i)] \in Addrs
    /\ cfg \in Config
    /\ ReadsBack

\* HyperbusInv but for cfg and answer, after a step that changes registers.
Mirrors(r, w) ==
    /\ r = [o \in Offsets |-> r[o]]
    /\ \A f \in Fields : r[FieldOffset[f]] \in Int /\ r[FieldOffset[f]] = w.field[f]
    /\ \A i \in Chips : /\ r[ChipStart(i)] \in Addrs /\ r[ChipEnd(i)] \in Addrs
                        /\ w.chip_base[i] = r[ChipStart(i)]
                        /\ w.chip_space[i] = (r[ChipEnd(i)] - r[ChipStart(i)]) % AddrSpace
    /\ w = [field |-> [f \in Fields |-> w.field[f]],
            chip_base |-> [i \in Chips |-> w.chip_base[i]],
            chip_space |-> [i \in Chips |-> w.chip_space[i]]]

LEMMA MirrorsReads ==
    ASSUME NEW r, NEW w, Mirrors(r, w)
    PROVE  hyperram_cfg_read(r) = w
<1>1. /\ w = [field |-> [f \in Fields |-> w.field[f]],
              chip_base |-> [i \in Chips |-> w.chip_base[i]],
              chip_space |-> [i \in Chips |-> w.chip_space[i]]]
  BY DEF Mirrors
<1>2. [f \in Fields |-> r[FieldOffset[f]]] = [f \in Fields |-> w.field[f]]
  BY DEF Mirrors
<1>3. [i \in Chips |-> r[ChipStart(i)]] = [i \in Chips |-> w.chip_base[i]]
  BY DEF Mirrors
<1>4. [i \in Chips |-> (r[ChipEnd(i)] - r[ChipStart(i)]) % AddrSpace]
         = [i \in Chips |-> w.chip_space[i]]
  BY DEF Mirrors
<1> QED BY <1>1, <1>2, <1>3, <1>4, Zenon DEF hyperram_cfg_read

LEMMA InvMirrors ==
    ASSUME HyperbusInv
    PROVE  Mirrors(words, want)
<1>1. want = hyperram_cfg_read(words)
  BY DEF HyperbusInv, ReadsBack
<1> DEFINE F == [f \in Fields |-> words[FieldOffset[f]]]
           B == [i \in Chips |-> words[ChipStart(i)]]
           S == [i \in Chips |-> (words[ChipEnd(i)] - words[ChipStart(i)]) % AddrSpace]
<1>2. want = [field |-> F, chip_base |-> B, chip_space |-> S]
  BY <1>1 DEF hyperram_cfg_read
<1>3. F = [f \in Fields |-> F[f]] /\ B = [i \in Chips |-> B[i]] /\ S = [i \in Chips |-> S[i]]
  OBVIOUS
<1>4. /\ \A f \in Fields : F[f] = words[FieldOffset[f]]
      /\ \A i \in Chips : B[i] = words[ChipStart(i)]
      /\ \A i \in Chips : S[i] = (words[ChipEnd(i)] - words[ChipStart(i)]) % AddrSpace
  OBVIOUS
<1> HIDE DEF F, B, S
<1>5. want.field = F /\ want.chip_base = B /\ want.chip_space = S
  BY <1>2
<1> QED BY <1>2, <1>3, <1>4, <1>5 DEF Mirrors, HyperbusInv

LEMMA ReadType ==
    ASSUME HyperbusInv
    PROVE  hyperram_cfg_read(words) \in Config
<1>1. \A i \in Chips : (words[ChipEnd(i)] - words[ChipStart(i)]) % AddrSpace \in Addrs
  BY WrapAround DEF HyperbusInv
<1> QED BY <1>1 DEF hyperram_cfg_read, Config, HyperbusInv

LEMMA StoreKeeps ==
    ASSUME HyperbusInv, cfg' = cfg, answer' = answer, Mirrors(words', want')
    PROVE  HyperbusInv'
<1>1. hyperram_cfg_read(words') = want'
  BY MirrorsReads
<1>2. ReadsBack'
  BY <1>1 DEF HyperbusInv, ReadsBack, hyperram_cfg_read, Chips, ChipStart, ChipEnd
<1>3. cfg' \in Config
  BY DEF HyperbusInv
<1> QED BY <1>2, <1>3 DEF HyperbusInv, Mirrors, Config

LEMMA SizeType == \A f \in Fields : FieldSize[f] \in Nat /\ FieldSize[f] # 0
BY DEF Fields, FieldSize

\* The parts of a configuration that mirrors registers.
LEMMA Parts ==
    ASSUME NEW r, NEW w, Mirrors(r, w)
    PROVE  /\ w = [field |-> w.field, chip_base |-> w.chip_base, chip_space |-> w.chip_space]
           /\ w.field = [f \in Fields |-> w.field[f]]
           /\ w.chip_base = [i \in Chips |-> w.chip_base[i]]
           /\ w.chip_space = [i \in Chips |-> w.chip_space[i]]
<1> DEFINE F == [f \in Fields |-> w.field[f]]
           B == [i \in Chips |-> w.chip_base[i]]
           S == [i \in Chips |-> w.chip_space[i]]
<1>1. w = [field |-> F, chip_base |-> B, chip_space |-> S]
  BY DEF Mirrors
<1> HIDE DEF F, B, S
<1>2. w.field = F /\ w.chip_base = B /\ w.chip_space = S
  BY <1>1
<1> QED BY <1>1, <1>2 DEF F, B, S

\* A configuration with a field changed.
LEMMA ExceptField ==
    ASSUME NEW w, w = [field |-> w.field, chip_base |-> w.chip_base, chip_space |-> w.chip_space],
           NEW x, NEW u
    PROVE  [w EXCEPT !.field[x] = u] =
              [field |-> [w.field EXCEPT ![x] = u], chip_base |-> w.chip_base, chip_space |-> w.chip_space]
<1> DEFINE f == [w.field EXCEPT ![x] = u]
<1>1. [w EXCEPT !.field = f] = [field |-> f, chip_base |-> w.chip_base, chip_space |-> w.chip_space]
  <2> HIDE DEF f
  <2> QED OBVIOUS
<1>2. [w EXCEPT !.field[x] = u] = [w EXCEPT !.field = f]
  BY Zenon
<1> QED BY <1>1, <1>2

LEMMA FieldMirrors ==
    ASSUME NEW r, NEW w, Mirrors(r, w), NEW f \in Fields, NEW v \in Int
    PROVE  Mirrors([r EXCEPT ![FieldOffset[f]] = v], [w EXCEPT !.field[f] = v])
<1> DEFINE r2 == [r EXCEPT ![FieldOffset[f]] = v]
           w2 == [w EXCEPT !.field[f] = v]
           F == [w.field EXCEPT ![f] = v]
<1>1. w2 = [field |-> F, chip_base |-> w.chip_base, chip_space |-> w.chip_space]
  <2>1. w = [field |-> w.field, chip_base |-> w.chip_base, chip_space |-> w.chip_space]
    BY Parts
  <2> QED BY <2>1, ExceptField, Zenon
<1>2. r2 = [o \in Offsets |-> r2[o]]
  BY DEF Mirrors
<1>3. \A o \in Offsets : r2[o] = IF o = FieldOffset[f] THEN v ELSE r[o]
  BY DEF Mirrors
<1>4. w.field = [g \in Fields |-> w.field[g]] /\ w.chip_base = [i \in Chips |-> w.chip_base[i]]
      /\ w.chip_space = [i \in Chips |-> w.chip_space[i]]
  BY Parts
<1>5. F = [g \in Fields |-> F[g]] /\ \A g \in Fields : F[g] = IF g = f THEN v ELSE w.field[g]
  BY <1>4
<1> HIDE DEF r2, w2, F
<1>6. w2.field = F /\ w2.chip_base = w.chip_base /\ w2.chip_space = w.chip_space
  BY <1>1
<1>7. \A g \in Fields : r2[FieldOffset[g]] \in Int /\ r2[FieldOffset[g]] = w2.field[g]
  BY <1>3, <1>5, <1>6, OffsetFacts, OffsetsApart DEF Mirrors
<1>8. \A i \in Chips : r2[ChipStart(i)] = r[ChipStart(i)] /\ r2[ChipEnd(i)] = r[ChipEnd(i)]
  BY <1>3, OffsetFacts
<1>9. w2 = [field |-> [g \in Fields |-> w2.field[g]],
            chip_base |-> [i \in Chips |-> w2.chip_base[i]],
            chip_space |-> [i \in Chips |-> w2.chip_space[i]]]
  BY <1>1, <1>4, <1>5, <1>6
<1>10. Mirrors(r2, w2)
  BY <1>2, <1>6, <1>7, <1>8, <1>9 DEF Mirrors
<1> QED BY <1>10 DEF r2, w2

LEMMA WindowMirrors ==
    ASSUME NEW r, NEW w, Mirrors(r, w), NEW i \in Chips,
           NEW start \in Addrs, NEW end \in Addrs, NEW r2,
           r2 = [o \in Offsets |-> r2[o]],
           \A o \in Offsets : r2[o] = IF o = ChipStart(i) THEN start
                                      ELSE IF o = ChipEnd(i) THEN end ELSE r[o]
    PROVE  Mirrors(r2, [w EXCEPT !.chip_base[i] = start,
                                 !.chip_space[i] = (end - start) % AddrSpace])
<1> DEFINE d == (end - start) % AddrSpace
           w2 == [w EXCEPT !.chip_base[i] = start, !.chip_space[i] = d]
           B == [w.chip_base EXCEPT ![i] = start]
           S == [w.chip_space EXCEPT ![i] = d]
<1> HIDE DEF d
<1>1. w2 = [field |-> w.field, chip_base |-> B, chip_space |-> S]
  <2>1. w = [field |-> w.field, chip_base |-> w.chip_base, chip_space |-> w.chip_space]
    BY Parts
  <2> DEFINE y == [w EXCEPT !.chip_base = B]
  <2>2. y = [field |-> w.field, chip_base |-> B, chip_space |-> w.chip_space]
    <3> HIDE DEF B
    <3> QED BY <2>1
  <2>3. /\ y.chip_space = w.chip_space
        /\ [y EXCEPT !.chip_space = S] = [field |-> w.field, chip_base |-> B, chip_space |-> S]
    <3> HIDE DEF B, S, y
    <3> QED BY <2>2
  <2>4. w2 = [y EXCEPT !.chip_space = S]
    BY <2>3, Zenon
  <2> QED BY <2>3, <2>4
<1>4. w.field = [g \in Fields |-> w.field[g]] /\ w.chip_base = [j \in Chips |-> w.chip_base[j]]
      /\ w.chip_space = [j \in Chips |-> w.chip_space[j]]
  BY Parts
<1>5. /\ B = [j \in Chips |-> B[j]] /\ S = [j \in Chips |-> S[j]]
      /\ \A j \in Chips : B[j] = (IF j = i THEN start ELSE w.chip_base[j])
                          /\ S[j] = (IF j = i THEN d ELSE w.chip_space[j])
  BY <1>4
<1> HIDE DEF w2, B, S
<1>6. w2.field = w.field /\ w2.chip_base = B /\ w2.chip_space = S
  BY <1>1
<1>7. \A g \in Fields : r2[FieldOffset[g]] = r[FieldOffset[g]]
  BY OffsetFacts
<1>8. \A j \in Chips : /\ r2[ChipStart(j)] = IF j = i THEN start ELSE r[ChipStart(j)]
                       /\ r2[ChipEnd(j)] = IF j = i THEN end ELSE r[ChipEnd(j)]
  BY OffsetFacts, WindowsApart
<1>9. w2 = [field |-> [g \in Fields |-> w2.field[g]],
            chip_base |-> [j \in Chips |-> w2.chip_base[j]],
            chip_space |-> [j \in Chips |-> w2.chip_space[j]]]
  BY <1>1, <1>4, <1>5, <1>6
<1>10. ASSUME NEW j \in Chips
       PROVE  /\ r2[ChipStart(j)] \in Addrs /\ r2[ChipEnd(j)] \in Addrs
              /\ w2.chip_base[j] = r2[ChipStart(j)]
              /\ w2.chip_space[j] = (r2[ChipEnd(j)] - r2[ChipStart(j)]) % AddrSpace
  <2>1. CASE j = i
    BY <1>5, <1>6, <1>8, <2>1 DEF d
  <2>2. CASE j # i
    BY <1>5, <1>6, <1>8, <2>2 DEF Mirrors
  <2> QED BY <2>1, <2>2
<1>11. Mirrors(r2, w2)
  BY <1>6, <1>7, <1>9, <1>10 DEF Mirrors
<1> QED BY <1>11 DEF w2, d

-----------------------------------------------------------------------------
(* The HyperBus controller: the calls.                                     *)

LEMMA HeldInit == BusInit => HyperbusInv
<1> SUFFICES ASSUME BusInit PROVE HyperbusInv
  OBVIOUS
<1>1. \A o \in Offsets : words[o] = 0
  BY DEF BusInit
<1>2. 0 \in Addrs /\ words = [o \in Offsets |-> words[o]]
  BY HyperbusAssumption DEF BusInit, Addrs
<1>3. /\ \A f \in Fields : words[FieldOffset[f]] \in Int
      /\ \A i \in Chips : words[ChipStart(i)] \in Addrs /\ words[ChipEnd(i)] \in Addrs
  BY <1>1, <1>2, OffsetFacts
<1>4. ReadsBack /\ cfg = hyperram_cfg_read(words)
  BY DEF BusInit, ReadsBack, NoAnswer
<1>5. hyperram_cfg_read(words) \in Config
  <2>1. \A i \in Chips : (words[ChipEnd(i)] - words[ChipStart(i)]) % AddrSpace \in Addrs
    BY <1>3, WrapAround
  <2> QED BY <1>3, <2>1 DEF hyperram_cfg_read, Config
<1> QED BY <1>2, <1>3, <1>4, <1>5 DEF HyperbusInv

LEMMA SetStep ==
    ASSUME HyperbusInv, NEW f \in Fields, NEW v \in Int, SetField(f, v)
    PROVE  HyperbusInv'
<1> DEFINE u == v % FieldSize[f]
<1>1. u \in Int
  BY SizeType
<1>2. Kept(FieldOffset[f], v) = u
  BY KeptField
<1> HIDE DEF u
<1>3. words' = [words EXCEPT ![FieldOffset[f]] = u]
  BY <1>2 DEF SetField, Write
<1>4. want' = [want EXCEPT !.field[f] = u] /\ cfg' = cfg /\ answer' = answer
  BY DEF SetField, u
<1>5. Mirrors(words, want)
  BY InvMirrors
<1>6. Mirrors(words', want')
  BY <1>1, <1>3, <1>4, <1>5, FieldMirrors
<1> QED BY <1>4, <1>6, StoreKeeps

\* The ends of a window that the registers hold are those that are wanted.
LEMMA WindowEnds ==
    ASSUME HyperbusInv, NEW i \in Chips
    PROVE  /\ want.chip_base[i] = words[ChipStart(i)] /\ WindowEnd(i) = words[ChipEnd(i)]
           /\ words[ChipStart(i)] \in Addrs /\ words[ChipEnd(i)] \in Addrs
<1>1. /\ want.chip_base[i] = words[ChipStart(i)]
      /\ want.chip_space[i] = (words[ChipEnd(i)] - words[ChipStart(i)]) % AddrSpace
      /\ words[ChipStart(i)] \in Addrs /\ words[ChipEnd(i)] \in Addrs
  BY InvMirrors DEF Mirrors
<1> DEFINE a == words[ChipEnd(i)]
           b == words[ChipStart(i)]
<1>2. WindowEnd(i) = (b + ((a - b) % AddrSpace)) % AddrSpace
  BY <1>1 DEF WindowEnd
<1> QED BY <1>1, <1>2, WrapAround

LEMMA WindowStep ==
    ASSUME HyperbusInv, NEW i \in Chips, NEW a \in Addrs, NEW b \in Addrs,
           \/ hyperbus_set_chip_start(i, a)
           \/ hyperbus_set_chip_end(i, b)
           \/ hyperbus_set_chip_range(i, a, b)
    PROVE  HyperbusInv'
<1>1. Mirrors(words, want) /\ words = [o \in Offsets |-> words[o]]
  BY InvMirrors DEF Mirrors
<1>2. ChipStart(i) \in Offsets /\ ChipEnd(i) \in Offsets /\ ChipStart(i) # ChipEnd(i)
  BY OffsetFacts, WindowsApart
<1>3. ASSUME NEW start \in Addrs, NEW end \in Addrs, SetWindow(i, start, end),
             words' = [o \in Offsets |-> words'[o]], UNCHANGED <<cfg, answer>>,
             \A o \in Offsets : words'[o] = IF o = ChipStart(i) THEN start
                                            ELSE IF o = ChipEnd(i) THEN end ELSE words[o]
      PROVE  HyperbusInv'
  <2>1. Mirrors(words', want')
    BY <1>1, <1>3, WindowMirrors DEF SetWindow
  <2> QED BY <1>3, <2>1, StoreKeeps
<1>4. CASE hyperbus_set_chip_start(i, a)
  <2>1. words' = [words EXCEPT ![ChipStart(i)] = a]
    BY <1>4, KeptWindow DEF hyperbus_set_chip_start, Write
  <2>2. /\ SetWindow(i, a, words[ChipEnd(i)]) /\ UNCHANGED <<cfg, answer>>
        /\ words[ChipEnd(i)] \in Addrs
    BY <1>4, WindowEnds DEF hyperbus_set_chip_start
  <2>3. words' = [o \in Offsets |-> words'[o]]
    BY <1>1, <2>1
  <2>4. \A o \in Offsets : words'[o] = IF o = ChipStart(i) THEN a
                                       ELSE IF o = ChipEnd(i) THEN words[ChipEnd(i)] ELSE words[o]
    BY <1>1, <1>2, <2>1
  <2> QED BY <1>3, <2>2, <2>3, <2>4
<1>5. CASE hyperbus_set_chip_end(i, b)
  <2>1. words' = [words EXCEPT ![ChipEnd(i)] = b]
    BY <1>5, KeptWindow DEF hyperbus_set_chip_end, Write
  <2>2. /\ SetWindow(i, words[ChipStart(i)], b) /\ UNCHANGED <<cfg, answer>>
        /\ words[ChipStart(i)] \in Addrs
    BY <1>5, WindowEnds DEF hyperbus_set_chip_end
  <2>3. words' = [o \in Offsets |-> words'[o]]
    BY <1>1, <2>1
  <2>4. \A o \in Offsets : words'[o] = IF o = ChipStart(i) THEN words[ChipStart(i)]
                                       ELSE IF o = ChipEnd(i) THEN b ELSE words[o]
    BY <1>1, <1>2, <2>1
  <2> QED BY <1>3, <2>2, <2>3, <2>4
<1>6. CASE hyperbus_set_chip_range(i, a, b)
  <2> DEFINE r == [words EXCEPT ![ChipStart(i)] = a]
  <2>1. words' = [r EXCEPT ![ChipEnd(i)] = b]
    BY <1>6, KeptWindow DEF hyperbus_set_chip_range, Write
  <2>2. SetWindow(i, a, b) /\ UNCHANGED <<cfg, answer>>
    BY <1>6 DEF hyperbus_set_chip_range
  <2>3. /\ r = [o \in Offsets |-> r[o]]
        /\ \A o \in Offsets : r[o] = IF o = ChipStart(i) THEN a ELSE words[o]
    BY <1>1
  <2> HIDE DEF r
  <2>4. words' = [o \in Offsets |-> words'[o]]
    BY <2>1, <2>3
  <2>5. \A o \in Offsets : words'[o] = IF o = ChipStart(i) THEN a
                                       ELSE IF o = ChipEnd(i) THEN b ELSE words[o]
    BY <1>2, <2>1, <2>3
  <2> QED BY <1>3, <2>2, <2>4, <2>5
<1> QED BY <1>4, <1>5, <1>6

LEMMA WriteConfigStep ==
    ASSUME HyperbusInv, hyperram_cfg_write
    PROVE  HyperbusInv'
<1>1. /\ words' = [o \in Offsets |-> Kept(o, Word(cfg, o))]
      /\ want' = Applied(cfg) /\ UNCHANGED <<cfg, answer>>
  BY DEF hyperram_cfg_write
<1>2. cfg = [field |-> cfg.field, chip_base |-> cfg.chip_base, chip_space |-> cfg.chip_space]
      /\ cfg.field \in [Fields -> Int]
      /\ cfg.chip_base \in [Chips -> Addrs] /\ cfg.chip_space \in [Chips -> Addrs]
  BY DEF HyperbusInv, Config
<1> DEFINE F == [f \in Fields |-> cfg.field[f] % FieldSize[f]]
<1>3. want' = [field |-> F, chip_base |-> cfg.chip_base, chip_space |-> cfg.chip_space]
  <2>1. want' = [cfg EXCEPT !.field = F]
    BY <1>1 DEF Applied
  <2> HIDE DEF F
  <2> QED BY <1>2, <2>1
<1>4. ASSUME NEW f \in Fields
      PROVE  words'[FieldOffset[f]] = F[f] /\ F[f] \in Int
  <2>1. Word(cfg, FieldOffset[f]) = cfg.field[f]
    BY Words
  <2>2. words'[FieldOffset[f]] = cfg.field[f] % FieldSize[f]
    BY <1>1, <2>1, OffsetFacts, KeptField
  <2>3. cfg.field[f] % FieldSize[f] \in Int
    BY <1>2, SizeType
  <2> QED BY <2>2, <2>3
<1>5. F = [f \in Fields |-> F[f]]
  OBVIOUS
<1> HIDE DEF F
<1>6. ASSUME NEW i \in Chips
      PROVE  /\ words'[ChipStart(i)] \in Addrs /\ words'[ChipEnd(i)] \in Addrs
             /\ cfg.chip_base[i] = words'[ChipStart(i)]
             /\ cfg.chip_space[i] = (words'[ChipEnd(i)] - words'[ChipStart(i)]) % AddrSpace
  <2> DEFINE b == cfg.chip_base[i]
             s == cfg.chip_space[i]
  <2>1. b \in Addrs /\ s \in Addrs
    BY <1>2
  <2>2. words'[ChipStart(i)] = b
    BY <1>1, Words, OffsetFacts, KeptWindow
  <2>3. words'[ChipEnd(i)] = (b + s) % AddrSpace
    BY <1>1, Words, OffsetFacts, KeptWindow
  <2> HIDE DEF b, s
  <2>4. (b + s) % AddrSpace \in Addrs /\ (((b + s) % AddrSpace) - b) % AddrSpace = s
    BY <2>1, WrapAround
  <2>5. s = (words'[ChipEnd(i)] - words'[ChipStart(i)]) % AddrSpace
    BY <2>2, <2>3, <2>4
  <2> QED BY <2>1, <2>2, <2>3, <2>4, <2>5 DEF b, s
<1>7. want'.field = F /\ want'.chip_base = cfg.chip_base /\ want'.chip_space = cfg.chip_space
  BY <1>3
<1>8. want' = [field |-> [f \in Fields |-> want'.field[f]],
               chip_base |-> [i \in Chips |-> want'.chip_base[i]],
               chip_space |-> [i \in Chips |-> want'.chip_space[i]]]
  BY <1>2, <1>3, <1>5, <1>7
<1>9. words' = [o \in Offsets |-> words'[o]]
  BY <1>1
<1>10. Mirrors(words', want')
  BY <1>4, <1>6, <1>7, <1>8, <1>9 DEF Mirrors
<1> QED BY <1>1, <1>10, StoreKeeps

\* The configuration changes, the peripheral does not.
LEMMA ConfigStep ==
    ASSUME HyperbusInv, words' = words, want' = want, answer' = answer, cfg' \in Config
    PROVE  HyperbusInv'
<1>1. ReadsBack'
  BY DEF HyperbusInv, ReadsBack, hyperram_cfg_read, Chips, ChipStart, ChipEnd
<1> QED BY <1>1 DEF HyperbusInv, Config, Addrs, Chips, ChipStart, ChipEnd

LEMMA DefaultType ==
    ASSUME NEW base \in Addrs, NEW len \in Addrs
    PROVE  hyperram_cfg_default(base, len) \in Config
<1> DEFINE F == [t_latency_access |-> 6, en_latency_additional |-> 0,
                 t_burst_max |-> 350, t_read_write_recovery |-> 6,
                 t_rx_clk_delay |-> 8, t_tx_clk_delay |-> 8,
                 address_mask_msb |-> 25, address_space |-> 0, phys_in_use |-> 0,
                 which_phy |-> 0, t_csh_cycles |-> 1]
           B == [i \in Chips |-> (base + i * len) % AddrSpace]
           S == [i \in Chips |-> len]
<1>1. hyperram_cfg_default(base, len) = [field |-> F, chip_base |-> B, chip_space |-> S]
  BY DEF hyperram_cfg_default
<1>2. F \in [Fields -> Int]
  BY DEF Fields
<1>3. B \in [Chips -> Addrs]
  <2>1. ASSUME NEW i \in Chips PROVE (base + i * len) % AddrSpace \in Addrs
    <3>1. i \in Nat /\ len \in Nat /\ base \in Nat /\ AddrSpace \in Nat /\ AddrSpace # 0
      BY HyperbusAssumption DEF Chips, Addrs
    <3> DEFINE x == base + i * len
    <3>2. x \in Int
      BY <3>1
    <3> HIDE DEF x
    <3>3. x % AddrSpace \in 0 .. AddrSpace - 1
      BY <3>1, <3>2
    <3> QED BY <3>3 DEF x, Addrs
  <2> QED BY <2>1
<1>4. S \in [Chips -> Addrs]
  OBVIOUS
<1> HIDE DEF F, B, S
<1> QED BY <1>1, <1>2, <1>3, <1>4 DEF Config

LEMMA ModifyType ==
    ASSUME NEW c \in Config, NEW f \in Fields, NEW v \in Int
    PROVE  [c EXCEPT !.field[f] = v] \in Config
<1> DEFINE F == [c.field EXCEPT ![f] = v]
<1>1. /\ c = [field |-> c.field, chip_base |-> c.chip_base, chip_space |-> c.chip_space]
      /\ c.field \in [Fields -> Int]
      /\ c.chip_base \in [Chips -> Addrs] /\ c.chip_space \in [Chips -> Addrs]
  BY DEF Config
<1>2. [c EXCEPT !.field[f] = v] = [field |-> F, chip_base |-> c.chip_base, chip_space |-> c.chip_space]
  BY <1>1, ExceptField, Zenon
<1>3. F \in [Fields -> Int]
  BY <1>1
<1> HIDE DEF F
<1> QED BY <1>1, <1>2, <1>3 DEF Config

LEMMA GetStep ==
    ASSUME HyperbusInv, NEW o, NEW due, GetWord(o, due), words[o] = due
    PROVE  HyperbusInv'
<1>1. words' = words /\ cfg' = cfg /\ want' = want /\ answer' = [got |-> words[o], due |-> due]
  BY DEF GetWord
<1>2. answer'.got = answer'.due
  BY <1>1
<1>3. ReadsBack'
  BY <1>1, <1>2 DEF HyperbusInv, ReadsBack, hyperram_cfg_read, Chips, ChipStart, ChipEnd
<1> QED BY <1>1, <1>3 DEF HyperbusInv, Config, Addrs, Chips, ChipStart, ChipEnd

LEMMA HeldNext == HyperbusInv /\ [BusNext]_busVars => HyperbusInv'
<1> SUFFICES ASSUME HyperbusInv, [BusNext]_busVars PROVE HyperbusInv'
  OBVIOUS
<1>0. Timings \subseteq Nat /\ cfg \in Config
  BY HyperbusAssumption DEF HyperbusInv
<1>1. ASSUME NEW base \in Addrs, NEW len \in Addrs, Default(base, len) PROVE HyperbusInv'
  BY <1>1, DefaultType, ConfigStep DEF Default
<1>2. ASSUME NEW f \in Fields, NEW v \in Timings, Modify(f, v) PROVE HyperbusInv'
  <2>1. v \in Int
    BY <1>0
  <2>2. cfg' = [cfg EXCEPT !.field[f] = v] /\ words' = words /\ want' = want /\ answer' = answer
    BY <1>2 DEF Modify
  <2>3. cfg' \in Config
    BY <1>0, <2>1, <2>2, ModifyType
  <2> QED BY <2>2, <2>3, ConfigStep
<1>3. CASE hyperram_cfg_write
  BY <1>3, WriteConfigStep
<1>4. CASE Read
  BY <1>4, ReadType, ConfigStep DEF Read
<1>5. CASE Null
  BY <1>0, <1>5, ConfigStep DEF Null
<1>6. CASE UNCHANGED busVars
  BY <1>0, <1>6, ConfigStep DEF busVars
<1>7. ASSUME NEW f \in Fields, NEW v \in Timings, SetField(f, v) PROVE HyperbusInv'
  <2>1. v \in Int
    BY <1>0
  <2> QED BY <1>7, <2>1, SetStep
<1>8. ASSUME NEW f \in Fields, GetWord(FieldOffset[f], want.field[f]) PROVE HyperbusInv'
  <2>1. words[FieldOffset[f]] = want.field[f]
    BY InvMirrors DEF Mirrors
  <2> QED BY <1>8, <2>1, GetStep
<1>9. CASE SetTimings
  BY <1>7, <1>9
     DEF SetTimings, Fields, hyperbus_set_t_latency_access, hyperbus_set_en_latency_additional,
         hyperbus_set_t_burst_max, hyperbus_set_t_read_write_recovery,
         hyperbus_set_t_rx_clk_delay, hyperbus_set_t_tx_clk_delay
<1>10. CASE SetModes
  BY <1>7, <1>10
     DEF SetModes, Fields, hyperbus_set_address_mask_msb, hyperbus_set_address_space,
         hyperbus_set_phys_in_use, hyperbus_set_which_phy, hyperbus_set_t_csh_cycles
<1>11. CASE GetFields
  BY <1>8, <1>11
     DEF GetFields, Fields, hyperbus_get_t_latency_access, hyperbus_get_en_latency_additional,
         hyperbus_get_t_burst_max, hyperbus_get_t_read_write_recovery,
         hyperbus_get_t_rx_clk_delay, hyperbus_get_t_tx_clk_delay,
         hyperbus_get_address_mask_msb, hyperbus_get_address_space,
         hyperbus_get_phys_in_use, hyperbus_get_which_phy, hyperbus_get_t_csh_cycles
<1>12. CASE Windows
  <2>1. PICK i \in Chips :
           \/ hyperbus_get_chip_start(i)
           \/ hyperbus_get_chip_end(i)
           \/ \E a \in Addrs : hyperbus_set_chip_start(i, a) \/ hyperbus_set_chip_end(i, a)
           \/ \E a, b \in Addrs : hyperbus_set_chip_range(i, a, b)
    BY <1>12 DEF Windows
  <2>2. CASE hyperbus_get_chip_start(i)
    BY <2>2, WindowEnds, GetStep DEF hyperbus_get_chip_start
  <2>3. CASE hyperbus_get_chip_end(i)
    BY <2>3, WindowEnds, GetStep DEF hyperbus_get_chip_end
  <2>4. CASE \E a \in Addrs : hyperbus_set_chip_start(i, a) \/ hyperbus_set_chip_end(i, a)
    BY <2>4, WindowStep
  <2>5. CASE \E a, b \in Addrs : hyperbus_set_chip_range(i, a, b)
    BY <2>5, WindowStep
  <2> QED BY <2>1, <2>2, <2>3, <2>4, <2>5
<1> QED BY <1>1, <1>2, <1>3, <1>4, <1>5, <1>6, <1>9, <1>10, <1>11, <1>12 DEF BusNext

-----------------------------------------------------------------------------
(* The windows of hyperram_cfg_default.                                    *)

\* Windows side by side that do not reach the end of the address space.
LEMMA DefaultWindows ==
    ASSUME HyperbusInv, NEW base \in Addrs, NEW len \in Addrs,
           base + NumChips * len < AddrSpace,
           want.chip_base = hyperram_cfg_default(base, len).chip_base,
           want.chip_space = hyperram_cfg_default(base, len).chip_space,
           NEW i \in Chips
    PROVE  /\ words[ChipStart(i)] = base + i * len
           /\ words[ChipEnd(i)] = base + i * len + len
<1>1. /\ i \in Nat /\ len \in Nat /\ base \in Nat /\ NumChips \in Nat /\ AddrSpace \in Nat
      /\ AddrSpace # 0 /\ i + 1 <= NumChips
  BY HyperbusAssumption DEF Chips, Addrs
<1> DEFINE off == i * len
<1>2. off \in Nat /\ off + len <= NumChips * len
  BY <1>1
<1>3. want.chip_base[i] = (base + off) % AddrSpace /\ want.chip_space[i] = len
  BY DEF hyperram_cfg_default
<1> DEFINE n == NumChips * len
<1>4. n \in Int /\ off + len <= n /\ base + n < AddrSpace
  BY <1>1, <1>2
<1> HIDE DEF off, n
<1>5. base + off \in Addrs /\ base + off + len \in Addrs
  BY <1>1, <1>2, <1>4 DEF Addrs
<1>6. (base + off) % AddrSpace = base + off
  <2>1. base + off = (base + off) + 0 * AddrSpace /\ base + off \in Int /\ 0 \in Int
    BY <1>1, <1>2
  <2> QED BY <1>5, <2>1, Remainder
<1>7. (base + off + len) % AddrSpace = base + off + len
  <2>1. base + off + len = (base + off + len) + 0 * AddrSpace /\ base + off + len \in Int /\ 0 \in Int
    BY <1>1, <1>2
  <2> QED BY <1>5, <2>1, Remainder
<1>8. words[ChipStart(i)] = base + off
  BY <1>3, <1>6, WindowEnds
<1>9. WindowEnd(i) = (base + off + len) % AddrSpace
  BY <1>3, <1>6 DEF WindowEnd
<1>10. words[ChipEnd(i)] = base + off + len
  BY <1>7, <1>9, WindowEnds
<1> QED BY <1>8, <1>10 DEF off

LEMMA OneWindow ==
    ASSUME NEW d \in Nat, NEW len \in Nat, len # 0, NEW i \in Nat
    PROVE  (i * len <= d /\ d < i * len + len) <=> i = d \div len
<1> DEFINE q == d \div len
           r == d % len
<1>1. q \in Nat /\ r \in Nat /\ r < len /\ r = d - q * len
  OBVIOUS
<1> HIDE DEF q, r
<1>2. i = q => i * len <= d /\ d < i * len + len
  BY <1>1
<1>3. ASSUME i * len <= d, d < i * len + len PROVE i = q
  <2>1. CASE i < q
    <3>1. q * len >= i * len + len
      BY <1>1, <2>1
    <3> QED BY <1>1, <1>3, <3>1
  <2>2. CASE i > q
    <3>1. i * len >= q * len + len
      BY <1>1, <2>2
    <3> QED BY <1>1, <1>3, <3>1
  <2> QED BY <1>1, <2>1, <2>2
<1>4. (i * len <= d /\ d < i * len + len) <=> i = q
  BY <1>2, <1>3
<1> QED BY <1>4 DEF q

LEMMA InvSelects ==
    ASSUME HyperbusInv
    PROVE  SelectsOneChip
<1> DEFINE Fitting(b, l) ==
               /\ b + NumChips * l < AddrSpace
               /\ want.chip_base = hyperram_cfg_default(b, l).chip_base
               /\ want.chip_space = hyperram_cfg_default(b, l).chip_space
           Chosen(b, l, x) == Selected(x) = {(x - b) \div l}
<1> SUFFICES \A b, l \in Addrs :
                 Fitting(b, l) => \A x \in b .. b + NumChips * l - 1 : Chosen(b, l, x)
  BY DEF SelectsOneChip
<1> SUFFICES ASSUME NEW base \in Addrs, NEW len \in Addrs, Fitting(base, len),
                    NEW a \in base .. base + NumChips * len - 1
             PROVE  Chosen(base, len, a)
  <2> HIDE DEF Fitting, Chosen
  <2> QED OBVIOUS
<1>1. len \in Nat /\ base \in Nat /\ NumChips \in Nat
  BY HyperbusAssumption DEF Addrs
<1> DEFINE d == a - base
           n == NumChips * len
<1>2. n \in Nat
  BY <1>1
<1>3. a \in base .. base + n - 1
  OBVIOUS
<1>4. len # 0
  <2>1. len = 0 => n = 0
    BY <1>1
  <2> HIDE DEF n
  <2> QED BY <1>1, <1>2, <1>3, <2>1
<1>5. d \in Nat /\ d < n
  <2> HIDE DEF n
  <2> QED BY <1>1, <1>2, <1>3
<1>6. ASSUME NEW i \in Chips
      PROVE  (words[ChipStart(i)] <= a /\ a < words[ChipEnd(i)]) <=> i = d \div len
  <2>1. words[ChipStart(i)] = base + i * len /\ words[ChipEnd(i)] = base + i * len + len
    BY DefaultWindows
  <2>2. i \in Nat
    BY DEF Chips
  <2> DEFINE off == i * len
  <2>3. off \in Nat
    BY <1>1, <2>2
  <2>4. (off <= d /\ d < off + len) <=> i = d \div len
    BY <1>1, <1>4, <1>5, <2>2, OneWindow
  <2>5. (base + off <= a /\ a < base + off + len) <=> (off <= d /\ d < off + len)
    <3> HIDE DEF off, n
    <3> QED BY <1>1, <1>2, <1>3, <2>3
  <2> QED BY <2>1, <2>4, <2>5
<1>7. d \div len \in Chips
  <2> DEFINE q == d \div len
             r == d % len
  <2>1. q \in Nat /\ r \in Nat /\ r = d - q * len
    BY <1>1, <1>4, <1>5
  <2> HIDE DEF q, r, d
  <2>2. q < NumChips
    <3>1. q >= NumChips => q * len >= NumChips * len
      BY <1>1, <2>1
    <3> QED BY <1>1, <1>2, <1>5, <2>1, <3>1
  <2> QED BY <1>1, <2>1, <2>2 DEF q, Chips
<1> QED BY <1>6, <1>7 DEF Selected

(* Whatever calls of the HyperBus driver are made, in any order and with   *)
(* any arguments, the registers hold the configuration that they asked     *)
(* for, and every get function answers from it.                            *)
THEOREM ConfigurationHeld == BusSpec => []ReadsBack
<1>1. BusInit => HyperbusInv
  BY HeldInit
<1>2. HyperbusInv /\ [BusNext]_busVars => HyperbusInv'
  BY HeldNext
<1>3. HyperbusInv => ReadsBack
  BY DEF HyperbusInv
<1> QED BY <1>1, <1>2, <1>3, PTL DEF BusSpec

(* Windows from hyperram_cfg_default that end inside the address space     *)
(* select one chip for every address from the first base to the last end,  *)
(* for any number of chips and any base and size.                          *)
THEOREM WindowsSelect == BusSpec => []SelectsOneChip
<1>1. BusInit => HyperbusInv
  BY HeldInit
<1>2. HyperbusInv /\ [BusNext]_busVars => HyperbusInv'
  BY HeldNext
<1>3. HyperbusInv => SelectsOneChip
  BY InvSelects
<1> QED BY <1>1, <1>2, <1>3, PTL DEF BusSpec
=============================================================================
