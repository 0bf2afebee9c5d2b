-------------------------------- MODULE Pads --------------------------------
(***************************************************************************)
(* The names of the pads, of their signals, and of the calls of the API.   *)
(***************************************************************************)
EXTENDS Integers

GpioPads == {"gpio_0", "gpio_1", "gpio_2", "gpio_3", "gpio_4", "gpio_5",
             "gpio_6", "gpio_7", "gpio_8", "gpio_9", "gpio_10", "gpio_11",
             "gpio_12", "gpio_13", "gpio_14", "gpio_15"}
ControlPads == {"cs0", "cs1", "clk", "clkn", "rst", "rwds"}
DataPads == {"dq0", "dq1", "dq2", "dq3", "dq4", "dq5", "dq6", "dq7"}
HyperbusPads == ControlPads \cup DataPads \cup {"reserved"}

\* The signals of one bit; a pad of the GPIO frame also has drv and mux.
Switches == {"chip2pad", "pde", "pue", "rxe", "slw", "smt", "trie"}
GpioSignals == Switches \cup {"drv", "mux"}
Signals == (GpioPads \X GpioSignals) \cup (HyperbusPads \X {"drv"})

NoCall == [fn |-> "none"]
SetCall(p, s, v) == [fn |-> "set", pad |-> p, signal |-> s, value |-> v]
GetCall(p, s) == [fn |-> "get", pad |-> p, signal |-> s]
=============================================================================
