----------------------------- MODULE PadSignals -----------------------------
(***************************************************************************)
(* What padframe_gpio.h and padframe_hyperbus.h promise: every pad has     *)
(* signals of its own, a set call programs one of them and nothing else,   *)
(* and a get call returns what is programmed.                              *)
(***************************************************************************)
EXTENDS Pads

CONSTANTS
    Values,     \* the uint8_t arguments, as sets of bits
    Muxes       \* the enumerators of padframe_aon_gpio_<n>_mux_sel_t

VARIABLES
    signal,     \* what is programmed, per pad and signal
    call,       \* the last call
    returned    \* what the last get call returned

vars == <<signal, call, returned>>

Init ==
    /\ signal \in [Signals -> SUBSET (0..3)]
    /\ call = NoCall
    /\ returned = {}

\* A call with v as its argument programs stored.
Set(p, s, v, stored) ==
    /\ call' = SetCall(p, s, v)
    /\ signal' = [signal EXCEPT ![<<p, s>>] = stored]
    /\ UNCHANGED returned

Get(p, s) ==
    /\ call' = GetCall(p, s)
    /\ returned' = signal[<<p, s>>]
    /\ UNCHANGED signal

GpioPad(p) ==
    \/ \E s \in Switches, v \in Values : Set(p, s, v, IF v = {} THEN {} ELSE {0})
    \/ \E v \in Values : Set(p, "drv", v, v \cap 0..1)
    \/ \E v \in Muxes : Set(p, "mux", v, v)
    \/ \E s \in GpioSignals : Get(p, s)

HyperbusPad(p, mask) ==
    \/ \E v \in Values : Set(p, "drv", v, v \cap mask)
    \/ Get(p, "drv")

-----------------------------------------------------------------------------
padframe_aon_gpio_0 == GpioPad("gpio_0")
padframe_aon_gpio_1 == GpioPad("gpio_1")
padframe_aon_gpio_2 == GpioPad("gpio_2")
padframe_aon_gpio_3 == GpioPad("gpio_3")
padframe_aon_gpio_4 == GpioPad("gpio_4")
padframe_aon_gpio_5 == GpioPad("gpio_5")
padframe_aon_gpio_6 == GpioPad("gpio_6")
padframe_aon_gpio_7 == GpioPad("gpio_7")
padframe_aon_gpio_8 == GpioPad("gpio_8")
padframe_aon_gpio_9 == GpioPad("gpio_9")
padframe_aon_gpio_10 == GpioPad("gpio_10")
padframe_aon_gpio_11 == GpioPad("gpio_11")
padframe_aon_gpio_12 == GpioPad("gpio_12")
padframe_aon_gpio_13 == GpioPad("gpio_13")
padframe_aon_gpio_14 == GpioPad("gpio_14")
padframe_aon_gpio_15 == GpioPad("gpio_15")
padframe_hyperbus_control == \E p \in ControlPads : HyperbusPad(p, 0..1)
padframe_hyperbus_data ==
    (\E p \in DataPads : HyperbusPad(p, 0..1)) \/ HyperbusPad("reserved", 0..3)

Next ==
    \/ padframe_aon_gpio_0 \/ padframe_aon_gpio_1
    \/ padframe_aon_gpio_2 \/ padframe_aon_gpio_3
    \/ padframe_aon_gpio_4 \/ padframe_aon_gpio_5
    \/ padframe_aon_gpio_6 \/ padframe_aon_gpio_7
    \/ padframe_aon_gpio_8 \/ padframe_aon_gpio_9
    \/ padframe_aon_gpio_10 \/ padframe_aon_gpio_11
    \/ padframe_aon_gpio_12 \/ padframe_aon_gpio_13
    \/ padframe_aon_gpio_14 \/ padframe_aon_gpio_15
    \/ padframe_hyperbus_control \/ padframe_hyperbus_data

Spec == Init /\ [][Next]_vars
=============================================================================
