------------------------------ MODULE Padframe ------------------------------
(***************************************************************************)
(* The pad frame of chimera-convolve: padframe_gpio.c has a set and a get  *)
(* function for each signal of 16 pads, padframe_hyperbus.c for the pads   *)
(* of the HyperBus.  The signals are packed into the registers that        *)
(* padframe_gpio_regs.h and padframe_hyperbus_regs.h describe: a set call  *)
(* reads a register, replaces the bits of its signal and writes it back.   *)
(*                                                                         *)
(* One action is one call: the host has one hart, and its trap vector      *)
(* touches none of these registers.                                        *)
(***************************************************************************)
EXTENDS Pads, BitFields

CONSTANTS
    Values,     \* the uint8_t arguments that are passed
    Muxes,      \* the enumerators of padframe_aon_gpio_<n>_mux_sel_t
    InitWords,  \* what the registers hold before the first call
    MaxCalls    \* bound on the number of calls

ASSUME PadframeAssumption ==
    /\ Values \subseteq Uint8
    /\ Muxes \subseteq SUBSET (0..3)
    /\ InitWords \subseteq Uint32
    /\ MaxCalls \in Nat

VARIABLES
    regs,       \* the registers
    call,       \* the last call
    returned,   \* what the last get call returned
    calls       \* how many calls were made

vars == <<regs, call, returned, calls>>

-----------------------------------------------------------------------------
(* The layout.                                                             *)

\* A plausible bug: a mask of one bit too many.
BugPlace(reg, index, width) == [reg |-> reg, index |-> index, mask |-> 0..width]

Place(reg, index, width) == [reg |-> reg, index |-> index, mask |-> 0 .. width - 1]

PADFRAME_GPIO_BASE == 805314560        \* 0x30002000
PADFRAME_HYPERBUS_BASE == 805318656    \* 0x30003000

\* The CFG and MUX_SEL registers of a pad, at the offsets cfg and mux.
PadRegs(cfg, mux) ==
    LET CFG(index, width) == Place(PADFRAME_GPIO_BASE + cfg, index, width)
    IN [chip2pad |-> CFG(0, 1),
        drv  |-> CFG(1, 2),
        pde  |-> CFG(3, 1),
        pue  |-> CFG(4, 1),
        rxe  |-> CFG(5, 1),
        slw  |-> CFG(6, 1),
        smt  |-> CFG(7, 1),
        trie |-> CFG(8, 1),
        mux  |-> Place(PADFRAME_GPIO_BASE + mux, 0, 4)]

GPIO_0 == PadRegs(4, 8)
GPIO_1 == PadRegs(12, 16)
GPIO_2 == PadRegs(20, 24)
GPIO_3 == PadRegs(28, 32)
GPIO_4 == PadRegs(36, 40)
GPIO_5 == PadRegs(44, 48)
GPIO_6 == PadRegs(52, 56)
GPIO_7 == PadRegs(60, 64)
GPIO_8 == PadRegs(68, 72)
BugGPIO_9 == PadRegs(68, 72)    \* a plausible bug: the offsets of pad 8
GPIO_9 == PadRegs(76, 80)
GPIO_10 == PadRegs(84, 88)
GPIO_11 == PadRegs(92, 96)
GPIO_12 == PadRegs(100, 104)
GPIO_13 == PadRegs(108, 112)
GPIO_14 == PadRegs(116, 120)
GPIO_15 == PadRegs(124, 128)

\* padframe_hyperbus_drv_strength_addr: all the pads share one register.
DrvStrength(index, width) == [drv |-> Place(PADFRAME_HYPERBUS_BASE, index, width)]

DRV_STRENGTH ==
    [cs0 |-> DrvStrength(0, 2),   cs1 |-> DrvStrength(2, 2),
     clk |-> DrvStrength(4, 2),   clkn |-> DrvStrength(6, 2),
     rst |-> DrvStrength(8, 2),   rwds |-> DrvStrength(10, 2),
     dq0 |-> DrvStrength(12, 2),  dq1 |-> DrvStrength(14, 2),
     dq2 |-> DrvStrength(16, 2),  dq3 |-> DrvStrength(18, 2),
     dq4 |-> DrvStrength(20, 2),  dq5 |-> DrvStrength(22, 2),
     dq6 |-> DrvStrength(24, 2),  dq7 |-> DrvStrength(26, 2),
     reserved |-> DrvStrength(28, 4)]

GPIO ==
    [gpio_0 |-> GPIO_0,    gpio_1 |-> GPIO_1,    gpio_2 |-> GPIO_2,
     gpio_3 |-> GPIO_3,    gpio_4 |-> GPIO_4,    gpio_5 |-> GPIO_5,
     gpio_6 |-> GPIO_6,    gpio_7 |-> GPIO_7,    gpio_8 |-> GPIO_8,
     gpio_9 |-> GPIO_9,    gpio_10 |-> GPIO_10,  gpio_11 |-> GPIO_11,
     gpio_12 |-> GPIO_12,  gpio_13 |-> GPIO_13,  gpio_14 |-> GPIO_14,
     gpio_15 |-> GPIO_15]

Layout(p, s) == IF p \in GpioPads THEN GPIO[p][s] ELSE DRV_STRENGTH[p][s]

Registers == {Layout(x[1], x[2]).reg : x \in Signals}

Init ==
    /\ \E w \in InitWords : regs = [r \in Registers |-> w]
    /\ call = NoCall
    /\ returned = {}
    /\ calls = 0

-----------------------------------------------------------------------------
(* The functions.                                                          *)
Call(c) ==
    /\ calls < MaxCalls
    /\ calls' = calls + 1
    /\ call' = c

Set(p, s, v, reg, word) ==
    /\ Call(SetCall(p, s, v))
    /\ regs' = [regs EXCEPT ![reg] = word]
    /\ UNCHANGED returned

Get(p, s, value) ==
    /\ Call(GetCall(p, s))
    /\ returned' = value
    /\ UNCHANGED regs

\* padframe_aon_gpio_<n>_cfg_<s>_set and _get, for a signal of one bit.
Switch(p, s, place) ==
    \/ \E v \in Values :
          Set(p, s, v, place.reg, bitfield_bit32_write(regs[place.reg], place.index, v))
    \/ Get(p, s, bitfield_bit32_read(regs[place.reg], place.index))

\* The same for a signal of several bits.
Field(p, s, place) ==
    \/ \E v \in Values :
          Set(p, s, v, place.reg, bitfield_field32_write(regs[place.reg], place, v))
    \/ Get(p, s, bitfield_field32_read(regs[place.reg], place))

\* padframe_aon_gpio_<n>_mux_set writes the whole register.
Mux(p, place) ==
    \/ \E v \in Muxes : Set(p, "mux", v, place.reg, v \cap 0..3)
    \/ Get(p, "mux", regs[place.reg] \cap 0..3)

GpioPad(p, row) ==
    \/ \E s \in Switches : Switch(p, s, row[s])
    \/ Field(p, "drv", row.drv)
    \/ Mux(p, row.mux)

HyperbusPad(p) == Field(p, "drv", DRV_STRENGTH[p].drv)

padframe_aon_gpio_0 == GpioPad("gpio_0", GPIO_0)
padframe_aon_gpio_1 == GpioPad("gpio_1", GPIO_1)
padframe_aon_gpio_2 == GpioPad("gpio_2", GPIO_2)
padframe_aon_gpio_3 == GpioPad("gpio_3", GPIO_3)
padframe_aon_gpio_4 == GpioPad("gpio_4", GPIO_4)
padframe_aon_gpio_5 == GpioPad("gpio_5", GPIO_5)
padframe_aon_gpio_6 == GpioPad("gpio_6", GPIO_6)
padframe_aon_gpio_7 == GpioPad("gpio_7", GPIO_7)
padframe_aon_gpio_8 == GpioPad("gpio_8", GPIO_8)
padframe_aon_gpio_9 == GpioPad("gpio_9", GPIO_9)
padframe_aon_gpio_10 == GpioPad("gpio_10", GPIO_10)
padframe_aon_gpio_11 == GpioPad("gpio_11", GPIO_11)
padframe_aon_gpio_12 == GpioPad("gpio_12", GPIO_12)
padframe_aon_gpio_13 == GpioPad("gpio_13", GPIO_13)
padframe_aon_gpio_14 == GpioPad("gpio_14", GPIO_14)
padframe_aon_gpio_15 == GpioPad("gpio_15", GPIO_15)
padframe_hyperbus_control == \E p \in ControlPads : HyperbusPad(p)
padframe_hyperbus_data == \E p \in DataPads \cup {"reserved"} : HyperbusPad(p)

Next ==
    \/ padframe_aon_gpio_0 \/ padframe_aon_gpio_1
    \/ padframe_aon_gpio_2 \/ padframe_aon_gpio_3
    \/ padframe_aon_gpio_4 \/ padframe_aon_gpio_5
    \/ padframe_aon_gpio_6 \/ padframe_aon_gpio_7
    \/ padframe_aon_gpio_8 \/ padframe_aon_gpio_9
    \/ padframe_aon_gpio_10 \/ padframe_aon_gpio_11
    \/ padframe_aon_gpio_12 \/ padframe_aon_gpio_13
    \/ padframe_aon_gpio_14 \/ padframe_aon_gpio_15
    \/ padframe_hyperbus_control \/ padframe_hyperbus_data

Spec == Init /\ [][Next]_vars

-----------------------------------------------------------------------------
TypeOK ==
    /\ regs \in [Registers -> Uint32]
    /\ returned \in SUBSET (0..3)
    /\ calls \in 0..MaxCalls

\* The value of a signal: the bits of its register at its place.
Programmed ==
    [x \in Signals |->
        LET place == Layout(x[1], x[2]) IN bitfield_field32_read(regs[place.reg], place)]

PadSignals == INSTANCE PadSignals WITH signal <- Programmed

(* The packed registers of padframe_gpio.c and padframe_hyperbus.c behave  *)
(* like independent signals: a set call programs the signal that its name  *)
(* says, with the value masked or converted to bool, and disturbs no other *)
(* signal of any pad; a get call returns the value of its own signal.      *)
ImplementsPadSignals == PadSignals!Spec
=============================================================================
