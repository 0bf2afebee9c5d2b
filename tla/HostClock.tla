------------------------------ MODULE HostClock ------------------------------
(***************************************************************************)
(* The host's clock and its UART: configure_fll and restore_default_freq   *)
(* of the FLL runtime, the UART driver, and the character functions that   *)
(* the C library calls, in the ASIC build for chimera-convolve.            *)
(*                                                                         *)
(* Two actors beside the host's program: the UART, which takes characters  *)
(* from its FIFO and shifts them out at the rate that the clock and the    *)
(* divisor give, and the terminal, which types.                            *)
(***************************************************************************)
EXTENDS FllParams, Sequences

CONSTANTS
    RefFreq,    \* the clock while the FLLs are bypassed
    Baud16,     \* baud_rate << 4
    Targets,    \* the arguments of configure_fll
    ResetFll,   \* CFG1 of both FLLs after reset
    RxDepth,    \* the depth of the receive FIFO
    MaxCalls,   \* bound on the calls of the FLL runtime
    MaxChars    \* bound on the characters printed, and on those typed

ASSUME HostClockAssumption ==
    /\ RefFreq \in Nat /\ Baud16 \in Nat \ {0}
    /\ Targets \subseteq Nat
    /\ ResetFll \in Uint32
    /\ RxDepth \in Nat /\ MaxCalls \in Nat /\ MaxChars \in Nat

\* Targets that the divider can reach: test.c lets 10 to 1000 MHz through.
\* The divider of an FLL is not 0 after reset.
ASSUME TargetRange ==
    /\ \A t \in Targets : t = 0 \/ (2 * t < WordSize /\ FMAX \div (2 * t) <= 32768)
    /\ FllDiv(ResetFll) # 0

VARIABLES
    pc,         \* what the host executes
    job,        \* the target and the parameters of configure_fll
    bypass,     \* GPIO 2: the clock is the reference, not the FLL
    fll,        \* CFG1 of the two FLLs
    locked,     \* the FLLs that have locked to their CFG1
    uart,       \* the UART's registers
    cfg,        \* the clk_freq_hz that default_uart_inst.cfg points to
    line,       \* the characters that left the UART, and whether intact
    printed,    \* how many characters the program printed
    typed,      \* how many characters were typed
    calls,      \* how many calls of the FLL runtime were made
    stuck       \* the bypass could not be disabled

vars == <<pc, job, bypass, fll, locked, uart, cfg, line, printed, typed, calls, stuck>>

Flls == {0, 1}      \* getFllPtr: the one of the SoC, the one of the clusters
NoJob == [target |-> 0, mult |-> 0, div |-> 0]

\* The clock, and the divisor that uart_apb_open writes, in two bytes.
Freq == IF bypass THEN RefFreq ELSE FllFreq(fll[0])
Divisor(clk) == (clk \div Baud16) % 65536
Divisors == 0 .. Pow2[16] - 1

\* The line status register: tx_ready, tx_empty and rx_ready.
BugTxReady == uart.rbr > 0      \* a plausible bug: the wrong bit
tx_ready == uart.thr = 0
tx_empty == uart.thr = 0 /\ uart.shift = "empty"
rx_ready == uart.rbr > 0

Init ==
    /\ pc = "reset" /\ job = NoJob
    /\ bypass \in BOOLEAN /\ fll = [i \in Flls |-> ResetFll] /\ locked = Flls
    /\ uart = [divisor |-> 0, dlab |-> FALSE, thr |-> 0, shift |-> "empty", rbr |-> 0]
    /\ cfg = 0
    /\ line = <<>> /\ printed = 0 /\ typed = 0 /\ calls = 0 /\ stuck = FALSE

Goto(from, to) == pc = from /\ pc' = to

-----------------------------------------------------------------------------
(* The UART and the terminal.                                              *)

\* The transmitter takes a character from the FIFO.  It is intact when the
\* divisor fits the clock, now and until it has left.
Load ==
    /\ uart.thr > 0 /\ uart.shift = "empty"
    /\ uart' = [uart EXCEPT !.thr = @ - 1,
                   !.shift = IF uart.divisor = Divisor(Freq) THEN "intact" ELSE "garbled"]
    /\ UNCHANGED <<pc, job, bypass, fll, locked, cfg, line, printed, typed, calls, stuck>>

Transmit ==
    /\ uart.shift # "empty"
    /\ line' = Append(line, uart.shift)
    /\ uart' = [uart EXCEPT !.shift = "empty"]
    /\ UNCHANGED <<pc, job, bypass, fll, locked, cfg, printed, typed, calls, stuck>>

Type ==
    /\ pc # "reset" /\ typed < MaxChars
    /\ typed' = typed + 1
    /\ uart' = [uart EXCEPT !.rbr = IF @ < RxDepth THEN @ + 1 ELSE @]
    /\ UNCHANGED <<pc, job, bypass, fll, locked, cfg, line, printed, calls, stuck>>

\* What a character that is being shifted out becomes when the rate changes.
Disturbed(shift) == IF shift = "empty" THEN "empty" ELSE "garbled"

-----------------------------------------------------------------------------
(* The UART driver and the character functions.                            *)

\* uart_apb_open with c as the configuration: both FIFOs are cleared.
Open(c) ==
    /\ cfg' = c
    /\ uart' = [divisor |-> Divisor(c), dlab |-> FALSE,
                thr |-> 0, shift |-> Disturbed(uart.shift), rbr |-> 0]

\* The configuration is a static variable.
uart_init ==
    /\ Goto("reset", "main")
    /\ Open(Freq)
    /\ UNCHANGED <<job, bypass, fll, locked, line, printed, typed, calls, stuck>>

uart_deinit ==
    /\ Goto("main", "halt")
    /\ uart' = [uart EXCEPT !.dlab = FALSE, !.thr = 0]
    /\ UNCHANGED <<job, bypass, fll, locked, cfg, line, printed, typed, calls, stuck>>

\* The program prints a character.
uart_putc ==
    /\ Goto("main", "write")
    /\ printed < MaxChars /\ printed' = printed + 1
    /\ UNCHANGED <<job, bypass, fll, locked, uart, cfg, line, typed, calls, stuck>>

\* The store to THR, which is the divisor latch while DLAB is set.
Write ==
    /\ Goto("write", "drain")
    /\ tx_ready
    /\ uart' = IF uart.dlab THEN [uart EXCEPT !.divisor = 0] ELSE [uart EXCEPT !.thr = @ + 1]
    /\ UNCHANGED <<job, bypass, fll, locked, cfg, line, printed, typed, calls, stuck>>

Drain ==
    /\ Goto("drain", "flush")
    /\ tx_ready
    /\ UNCHANGED <<job, bypass, fll, locked, uart, cfg, line, printed, typed, calls, stuck>>

Flush ==
    /\ Goto("flush", "main")
    /\ tx_empty
    /\ UNCHANGED <<job, bypass, fll, locked, uart, cfg, line, printed, typed, calls, stuck>>

\* uart_flush, from fflush.
uart_flush ==
    /\ Goto("main", "flush")
    /\ UNCHANGED <<job, bypass, fll, locked, uart, cfg, line, printed, typed, calls, stuck>>

uart_getc ==
    /\ Goto("main", "read")
    /\ UNCHANGED <<job, bypass, fll, locked, uart, cfg, line, printed, typed, calls, stuck>>

\* A plausible bug: the receiver is not polled.
BugRead ==
    /\ Goto("read", "main")
    /\ uart' = [uart EXCEPT !.rbr = @ - 1]
    /\ UNCHANGED <<job, bypass, fll, locked, cfg, line, printed, typed, calls, stuck>>

Read ==
    /\ Goto("read", "main")
    /\ rx_ready
    /\ uart' = [uart EXCEPT !.rbr = @ - 1]
    /\ UNCHANGED <<job, bypass, fll, locked, cfg, line, printed, typed, calls, stuck>>

-----------------------------------------------------------------------------
(* The FLL runtime.                                                        *)

\* The error messages, after which the function returns 0.
PrintError == pc' = "write" /\ printed' = printed + 1

\* dif_gpio_write of pin 2: the clock changes under a character on its way.
SetBypass(on) ==
    /\ bypass' = on
    /\ uart' = [uart EXCEPT !.shift = IF bypass = on THEN @ ELSE Disturbed(@)]

\* configure_fll up to the first write.
configure_fll(target) ==
    /\ pc = "main" /\ calls < MaxCalls /\ calls' = calls + 1
    /\ LET params == calculate_fll_params(target)
       IN IF params = NoParams
          THEN PrintError /\ UNCHANGED job
          ELSE pc' = "bypass" /\ UNCHANGED printed
               /\ job' = [target |-> target, mult |-> params.mult, div |-> params.div]
    /\ UNCHANGED <<bypass, fll, locked, uart, cfg, line, typed, stuck>>

\* A plausible bug: the FLLs are programmed under the running clock.
BugEnableBypass ==
    /\ Goto("bypass", "fll0")
    /\ UNCHANGED <<job, bypass, fll, locked, uart, cfg, line, printed, typed, calls, stuck>>

EnableBypass ==
    /\ \/ Goto("bypass", "fll0") /\ SetBypass(TRUE) /\ UNCHANGED printed
       \/ pc = "bypass" /\ PrintError /\ UNCHANGED <<bypass, uart>>
    /\ UNCHANGED <<job, fll, locked, cfg, line, typed, calls, stuck>>

\* initFll and setFllFreq of one FLL.
ProgramFll(i, from, to) ==
    /\ Goto(from, to)
    /\ fll' = [fll EXCEPT ![i] = setFllFreq(initFll(@), job.mult, job.div)]
    /\ locked' = locked \ {i}
    /\ UNCHANGED <<job, bypass, uart, cfg, line, printed, typed, calls, stuck>>

\* The loop of 1000 iterations, long enough for the FLLs to lock.
Delay ==
    /\ Goto("delay", "unbypass")
    /\ locked' = Flls
    /\ UNCHANGED <<job, bypass, fll, uart, cfg, line, printed, typed, calls, stuck>>

DisableBypass ==
    /\ \/ Goto("unbypass", "reopen") /\ SetBypass(FALSE) /\ UNCHANGED <<printed, stuck>>
       \/ pc = "unbypass" /\ PrintError /\ stuck' = TRUE /\ UNCHANGED <<bypass, uart>>
    /\ UNCHANGED <<job, fll, locked, cfg, line, typed, calls>>

\* A plausible bug: the configuration of the last call is used again.
BugReopen ==
    /\ Goto("reopen", "return")
    /\ Open(cfg)
    /\ UNCHANGED <<job, bypass, fll, locked, line, printed, typed, calls, stuck>>

\* clint_get_core_freq measures the clock; the configuration is a local variable.
Reopen ==
    /\ Goto("reopen", "return")
    /\ Open(Freq)
    /\ UNCHANGED <<job, bypass, fll, locked, line, printed, typed, calls, stuck>>

\* The variable is gone: cfg points to whatever the stack holds next.
Return ==
    /\ Goto("return", "main")
    /\ cfg' \in {cfg, 0}
    /\ UNCHANGED <<job, bypass, fll, locked, uart, line, printed, typed, calls, stuck>>

restore_default_freq ==
    /\ pc = "main" /\ calls < MaxCalls /\ calls' = calls + 1
    /\ \/ pc' = "reopen" /\ SetBypass(TRUE) /\ UNCHANGED printed
       \/ PrintError /\ UNCHANGED <<bypass, uart>>
    /\ UNCHANGED <<job, fll, locked, cfg, line, typed, stuck>>

-----------------------------------------------------------------------------
Hardware == Load \/ Transmit

Driver ==
    \/ uart_init \/ Write \/ Drain \/ Flush \/ Read
    \/ EnableBypass
    \/ ProgramFll(0, "fll0", "fll1") \/ ProgramFll(1, "fll1", "delay")
    \/ Delay \/ DisableBypass \/ Reopen \/ Return

Program ==
    \/ uart_putc \/ uart_flush \/ uart_getc \/ uart_deinit
    \/ \E t \in Targets : configure_fll(t)
    \/ restore_default_freq

Next == Hardware \/ Type \/ Driver \/ Program

Spec == Init /\ [][Next]_vars /\ WF_vars(Hardware) /\ WF_vars(Driver)

-----------------------------------------------------------------------------
TypeOK ==
    /\ pc \in {"reset", "main", "write", "drain", "flush", "read", "bypass", "fll0",
               "fll1", "delay", "unbypass", "reopen", "return", "halt"}
    /\ job \in [target : Nat, mult : Nat, div : Nat]
    /\ bypass \in BOOLEAN /\ fll \in [Flls -> Uint32] /\ locked \subseteq Flls
    /\ uart \in [divisor : Divisors, dlab : BOOLEAN, thr : 0..1,
                 shift : {"empty", "intact", "garbled"}, rbr : 0..RxDepth]
    /\ cfg \in Nat
    /\ line \in Seq({"intact", "garbled"})
    /\ printed \in Nat /\ typed \in 0..MaxChars /\ calls \in 0..MaxCalls
    /\ stuck \in BOOLEAN

(* Whatever frequencies the FLL runtime switches between, and whichever of *)
(* its GPIO writes fails, every character that was printed leaves the      *)
(* UART, once and at the right rate: none is on its way when the clock or  *)
(* the divisor changes or uart_apb_open resets the FIFO, the divisor fits  *)
(* the clock when one is printed, and no call opens the UART with a        *)
(* configuration that an earlier one left.  A failure to leave the bypass  *)
(* is the exception: the message that reports it goes out with the divisor *)
(* of the old clock.                                                       *)
CharactersDelivered ==
    /\ ~stuck => \A n \in DOMAIN line : line[n] = "intact"
    /\ pc \notin {"reset", "write", "drain", "flush"} => Len(line) = printed
    /\ Len(line) <= printed

(* The system never runs from an FLL that has not locked to the contents   *)
(* of its register, and the FLLs of the SoC and the clusters then agree.   *)
RunsFromLockedFll == ~bypass => locked = Flls /\ fll[0] = fll[1]

(* When configure_fll has switched to the FLL, the frequency is the target *)
(* to within half a step of the multiplier, and the oscillator runs below  *)
(* half of its ceiling.                                                    *)
ReachesTarget ==
    pc = "reopen" /\ ~bypass =>
        LET dout  == FllDout(fll[0])
            error == FllMult(fll[0]) * Rtc - job.target * dout
        IN 2 * error <= Rtc /\ -2 * error <= Rtc /\ 2 * job.target * dout < FMAX

(* A character that is printed leaves and the call returns, and so does a  *)
(* call of the FLL runtime: the polling loops of the driver end.           *)
CallsReturn == pc \in {"write", "bypass", "reopen"} ~> pc = "main"
=============================================================================
