--------------------------- MODULE HostClockProofs ---------------------------
(***************************************************************************)
(* Proofs about HostClock: characters and clock, for every frequency, baud *)
(* rate, set of targets and number of calls.  The arithmetic of            *)
(* calculate_fll_params rests on FllRange and TargetRange.                 *)
(***************************************************************************)
EXTENDS HostClock, TLAPS

\* The characters in the UART, and the one that the host has still to write.
InUart == uart.thr + (IF uart.shift = "empty" THEN 0 ELSE 1)
ToWrite == IF pc = "write" THEN 1 ELSE 0

Registers == {"divisor", "dlab", "thr", "shift", "rbr"}

Shape ==
    /\ uart = [f \in Registers |-> uart[f]] /\ uart.dlab = FALSE
    /\ uart.thr \in Nat
    /\ uart.shift \in {"empty", "intact", "garbled"}
    /\ line \in Seq({"intact", "garbled"})
    /\ printed \in Nat

\* Every printed character is somewhere, and in the UART only while the
\* host waits for it.
Counted ==
    /\ Len(line) + InUart + ToWrite = printed
    /\ pc \notin {"drain", "flush"} => InUart = 0

\* While the clock is being changed, the divisor need not fit it.
Switching == pc \in {"reset", "fll0", "fll1", "delay", "unbypass", "reopen"}

Timed ==
    ~stuck => /\ \A n \in DOMAIN line : line[n] = "intact"
              /\ uart.shift # "garbled"
              /\ Switching \/ uart.divisor = Divisor(Freq)

CharInv == Shape /\ Counted /\ Timed

\* What CFG1 of an FLL is after initFll and setFllFreq, whatever it was.
Cfg1(mult, div) == setFllFreq(initFll({}), mult, div)

ClockInv ==
    /\ fll = [i \in Flls |-> fll[i]]
    /\ pc = "fll1" => fll[0] = Cfg1(job.mult, job.div)
    /\ pc # "fll1" => fll[0] = fll[1]
    /\ pc \notin {"fll1", "delay"} => locked = Flls
    /\ pc \in {"fll0", "fll1", "delay", "unbypass"} => bypass

-----------------------------------------------------------------------------
(* The characters.                                                         *)

LEMMA CharInit == Init => CharInv
BY DEF Init, CharInv, Shape, Counted, InUart, ToWrite, Timed, Switching, Registers

LEMMA CharHardware == CharInv /\ Hardware => CharInv'
<1> SUFFICES ASSUME CharInv, Hardware PROVE CharInv'
  OBVIOUS
<1> USE DEF CharInv, Shape, Counted, InUart, ToWrite, Timed, Switching, Registers
<1>1. CASE Load
  <2>0. uart.thr > 0 /\ pc \in {"drain", "flush"}
    BY <1>1 DEF Load
  <2>1. /\ uart'.thr = uart.thr - 1
        /\ uart.shift = "empty" /\ uart'.shift \in {"intact", "garbled"}
        /\ uart'.divisor = uart.divisor /\ uart'.dlab = FALSE
        /\ uart' = [f \in Registers |-> uart'[f]]
    BY <1>1 DEF Load
  <2>2. ~stuck => uart'.shift # "garbled"
    BY <1>1, <2>0, <2>1 DEF Load
  <2>3. Shape' /\ Counted'
    BY <1>1, <2>0, <2>1 DEF Load
  <2>4. Timed'
    BY <1>1, <2>1, <2>2 DEF Load, Freq
  <2> QED
    BY <2>3, <2>4
<1>2. CASE Transmit
  <2>1. /\ uart.shift \in {"intact", "garbled"}
        /\ line' = Append(line, uart.shift)
        /\ Len(line') = Len(line) + 1
        /\ line' \in Seq({"intact", "garbled"})
    BY <1>2 DEF Transmit
  <2>2. /\ uart'.thr = uart.thr /\ uart'.shift = "empty"
        /\ uart'.dlab = FALSE /\ uart' = [f \in Registers |-> uart'[f]]
    BY <1>2 DEF Transmit
  <2>3. Shape'
    BY <1>2, <2>1, <2>2 DEF Transmit
  <2>4. Counted'
    <3>1. Len(line) \in Nat /\ InUart = uart.thr + 1 /\ InUart' = uart.thr
      BY <2>1, <2>2
    <3>2. pc' = pc /\ printed' = printed
      BY <1>2 DEF Transmit
    <3>3. pc \in {"drain", "flush"}
      BY <3>1
    <3>4. ToWrite = 0 /\ ToWrite' = 0
      BY <3>2, <3>3
    <3>5. Len(line) + (uart.thr + 1) = printed
      BY <3>1, <3>4
    <3>6. Len(line') + uart.thr = printed'
      BY <2>1, <3>1, <3>2, <3>5
    <3> QED
      BY <2>1, <3>1, <3>2, <3>3, <3>4, <3>6
  <2>5. ASSUME ~stuck, NEW n \in DOMAIN line' PROVE line'[n] = "intact"
    BY <1>2, <2>1, <2>5 DEF Transmit
  <2>6. Timed'
    BY <1>2, <2>5 DEF Transmit, Freq
  <2> QED
    BY <2>3, <2>4, <2>6
<1> QED
  BY <1>1, <1>2 DEF Hardware

LEMMA CharType == CharInv /\ Type => CharInv'
BY DEF CharInv, Shape, Counted, InUart, ToWrite, Timed, Switching, Registers, Type, Freq

LEMMA CharDriver == CharInv /\ Driver => CharInv'
<1> SUFFICES ASSUME CharInv, Driver PROVE CharInv'
  OBVIOUS
<1> USE DEF CharInv, Shape, Counted, InUart, ToWrite, Timed, Switching, Registers, Goto
<1>1. CASE uart_init
  BY <1>1 DEF uart_init, Open, Disturbed, Freq
<1>2. CASE Write
  BY <1>2 DEF Write, tx_ready, Freq
<1>3. CASE Drain
  BY <1>3 DEF Drain, Freq
<1>4. CASE Flush
  BY <1>4 DEF Flush, tx_empty, Freq
<1>5. CASE Read
  BY <1>5 DEF Read, Freq
<1>6. CASE EnableBypass
  BY <1>6 DEF EnableBypass, SetBypass, PrintError, Disturbed, Freq
<1>7. CASE ProgramFll(0, "fll0", "fll1") \/ ProgramFll(1, "fll1", "delay")
  BY <1>7 DEF ProgramFll
<1>8. CASE Delay
  BY <1>8 DEF Delay
<1>9. CASE DisableBypass
  BY <1>9 DEF DisableBypass, SetBypass, PrintError, Disturbed
<1>10. CASE Reopen
  BY <1>10 DEF Reopen, Open, Disturbed, Freq
<1>11. CASE Return
  BY <1>11 DEF Return, Freq
<1> QED
  BY <1>1, <1>2, <1>3, <1>4, <1>5, <1>6, <1>7, <1>8, <1>9, <1>10, <1>11 DEF Driver

LEMMA CharProgram == CharInv /\ Program => CharInv'
<1> SUFFICES ASSUME CharInv, Program PROVE CharInv'
  OBVIOUS
<1> USE DEF CharInv, Shape, Counted, InUart, ToWrite, Timed, Switching, Registers, Goto
<1>1. CASE uart_putc
  BY <1>1 DEF uart_putc, Freq
<1>2. CASE uart_flush
  BY <1>2 DEF uart_flush, Freq
<1>3. CASE uart_getc
  BY <1>3 DEF uart_getc, Freq
<1>4. CASE uart_deinit
  <2>0. uart.thr = 0
    BY <1>4 DEF uart_deinit
  <2>1. /\ uart'.thr = 0 /\ uart'.shift = uart.shift
        /\ uart'.divisor = uart.divisor /\ uart'.dlab = FALSE
        /\ uart' = [f \in Registers |-> uart'[f]]
    BY <1>4 DEF uart_deinit
  <2>2. Shape' /\ Counted'
    BY <1>4, <2>0, <2>1 DEF uart_deinit
  <2>3. Timed'
    BY <1>4, <2>1 DEF uart_deinit, Freq
  <2> QED
    BY <2>2, <2>3
<1>5. CASE \E t \in Targets : configure_fll(t)
  <2>1. PICK t \in Targets : configure_fll(t)
    BY <1>5
  <2> QED
    BY <2>1 DEF configure_fll, PrintError, Freq
<1>6. CASE restore_default_freq
  BY <1>6 DEF restore_default_freq, SetBypass, PrintError, Disturbed, Freq
<1> QED
  BY <1>1, <1>2, <1>3, <1>4, <1>5, <1>6 DEF Program

LEMMA CharStutter == CharInv /\ UNCHANGED vars => CharInv'
BY DEF CharInv, Shape, Counted, InUart, ToWrite, Timed, Switching, Registers, vars, Freq

(* No character is lost, sent twice, or sent at a wrong rate (see          *)
(* CharactersDelivered for the one exception), whatever the program does   *)
(* with the UART and the clock, and whichever GPIO writes fail.            *)
THEOREM CharactersSafe == Spec => []CharactersDelivered
<1>1. Init => CharInv
  BY CharInit
<1>2. CharInv /\ [Next]_vars => CharInv'
  BY CharHardware, CharType, CharDriver, CharProgram, CharStutter DEF Next
<1>3. CharInv => CharactersDelivered
  BY DEF CharInv, Shape, Counted, InUart, ToWrite, Timed, CharactersDelivered
<1> QED
  BY <1>1, <1>2, <1>3, PTL DEF Spec

-----------------------------------------------------------------------------
(* The clock.                                                              *)

(* initFll and setFllFreq leave nothing of what the register held before:  *)
(* the bits that setFllFreq keeps are bits that initFll has written.       *)
LEMMA Reprogrammed ==
    ASSUME NEW cfg1, NEW mult, NEW div
    PROVE  setFllFreq(initFll(cfg1), mult, div) = Cfg1(mult, div)
BY DEF setFllFreq, initFll, Cfg1

LEMMA ClockStep == ClockInv /\ [Next]_vars => ClockInv'
<1> SUFFICES ASSUME ClockInv, [Next]_vars PROVE ClockInv'
  OBVIOUS
<1> USE DEF ClockInv
<1>1. CASE ProgramFll(0, "fll0", "fll1")
  <2>1. fll'[0] = Cfg1(job.mult, job.div)
    BY <1>1, Reprogrammed DEF ProgramFll, Flls
  <2> QED
    BY <1>1, <2>1 DEF ProgramFll, Goto, Flls
<1>2. CASE ProgramFll(1, "fll1", "delay")
  <2>1. fll'[1] = Cfg1(job.mult, job.div)
    BY <1>2, Reprogrammed DEF ProgramFll, Flls
  <2>2. fll'[0] = fll[0]
    BY <1>2 DEF ProgramFll, Flls
  <2> QED
    BY <1>2, <2>1, <2>2 DEF ProgramFll, Goto, Flls
<1>3. CASE EnableBypass \/ DisableBypass \/ restore_default_freq
  BY <1>3 DEF EnableBypass, DisableBypass, restore_default_freq, SetBypass, PrintError, Goto
<1>4. CASE Delay
  BY <1>4 DEF Delay, Goto
<1>5. CASE \E t \in Targets : configure_fll(t)
  <2>1. PICK t \in Targets : configure_fll(t)
    BY <1>5
  <2> QED
    BY <2>1 DEF configure_fll, PrintError
<1>6. CASE Hardware \/ Type \/ UNCHANGED vars
  BY <1>6 DEF Hardware, Load, Transmit, Type, vars
<1>7. CASE uart_init \/ Write \/ Drain \/ Flush \/ Read \/ Reopen \/ Return
  BY <1>7 DEF uart_init, Write, Drain, Flush, Read, Reopen, Return, Goto
<1>8. CASE uart_putc \/ uart_flush \/ uart_getc \/ uart_deinit
  BY <1>8 DEF uart_putc, uart_flush, uart_getc, uart_deinit, Goto
<1> QED
  BY <1>1, <1>2, <1>3, <1>4, <1>5, <1>6, <1>7, <1>8 DEF Next, Driver, Program

(* The system never runs from an FLL that has not locked to its register,  *)
(* whichever GPIO writes fail and however often the frequency changes.     *)
THEOREM ClockSafe == Spec => []RunsFromLockedFll
<1>1. Init => ClockInv
  BY DEF Init, ClockInv, Flls
<1>2. ClockInv => RunsFromLockedFll
  BY DEF ClockInv, RunsFromLockedFll
<1> QED
  BY <1>1, <1>2, ClockStep, PTL DEF Spec

-----------------------------------------------------------------------------
(* Powers of two, and numbers as sets of bits.                             *)

\* The recursive definition of Pow2 has a solution, so that Pow2 is one.
LEMMA Doubles ==
    /\ Pow2[0] = 1
    /\ \A n \in 1..30 : Pow2[n] = 2 * Pow2[n - 1]
<1> DEFINE Step(f) == [n \in 0..30 |-> IF n = 0 THEN 1 ELSE 2 * f[n - 1]]
           powers == <<1, 2, 4, 8, 16, 32, 64, 128, 256, 512, 1024, 2048, 4096, 8192, 16384,
                       32768, 65536, 131072, 262144, 524288, 1048576, 2097152, 4194304,
                       8388608, 16777216, 33554432, 67108864, 134217728, 268435456,
                       536870912, 1073741824>>
           table == [n \in 0..30 |-> powers[n + 1]]
<1>1. table = Step(table)
  <2>1. \A n \in 0..30 : powers[n + 1] = IF n = 0 THEN 1 ELSE 2 * powers[n]
    OBVIOUS
  <2> HIDE DEF powers
  <2>2. \A n \in 0..30 : table[n] = IF n = 0 THEN 1 ELSE 2 * table[n - 1]
    BY <2>1
  <2> QED BY <2>2
<1>2. Pow2 = CHOOSE f : f = Step(f)
  BY DEF Pow2
<1> HIDE DEF Step, table
<1>3. Pow2 = Step(Pow2)
  BY <1>1, <1>2
<1> QED BY <1>3 DEF Step

LEMMA Powers ==
    /\ Pow2[0] = 1 /\ Pow2[1] = 2 /\ Pow2[2] = 4 /\ Pow2[3] = 8 /\ Pow2[4] = 16
    /\ Pow2[5] = 32 /\ Pow2[6] = 64 /\ Pow2[7] = 128 /\ Pow2[8] = 256
    /\ Pow2[9] = 512 /\ Pow2[10] = 1024 /\ Pow2[11] = 2048 /\ Pow2[12] = 4096
    /\ Pow2[13] = 8192 /\ Pow2[14] = 16384 /\ Pow2[15] = 32768 /\ Pow2[16] = 65536
    /\ \A n \in 0..30 : Pow2[n] \in Nat /\ Pow2[n] # 0
    /\ \A n \in 4..30 : Pow2[n] >= 16
    /\ \A n \in 15..30 : Pow2[n] >= 32768
    /\ \A n \in 16..30 : Pow2[n] >= 65536
<1>1. Pow2[0] = 1 /\ Pow2[1] = 2 /\ Pow2[2] = 4 /\ Pow2[3] = 8 /\ Pow2[4] = 16
  BY Doubles
<1>2. Pow2[5] = 32 /\ Pow2[6] = 64 /\ Pow2[7] = 128 /\ Pow2[8] = 256
  BY <1>1, Doubles
<1>3. Pow2[9] = 512 /\ Pow2[10] = 1024 /\ Pow2[11] = 2048 /\ Pow2[12] = 4096
  BY <1>2, Doubles
<1>4. Pow2[13] = 8192 /\ Pow2[14] = 16384 /\ Pow2[15] = 32768 /\ Pow2[16] = 65536
  BY <1>3, Doubles
<1>5. Pow2[17] = 131072 /\ Pow2[18] = 262144 /\ Pow2[19] = 524288 /\ Pow2[20] = 1048576
  BY <1>4, Doubles
<1>6. Pow2[21] = 2097152 /\ Pow2[22] = 4194304 /\ Pow2[23] = 8388608 /\ Pow2[24] = 16777216
  BY <1>5, Doubles
<1>7. Pow2[25] = 33554432 /\ Pow2[26] = 67108864 /\ Pow2[27] = 134217728 /\ Pow2[28] = 268435456
  BY <1>6, Doubles
<1>8. Pow2[29] = 536870912 /\ Pow2[30] = 1073741824
  BY <1>7, Doubles
<1>9. \A n \in 0..30 : Pow2[n] \in Nat /\ Pow2[n] # 0
  BY <1>1, <1>2, <1>3, <1>4, <1>5, <1>6, <1>7, <1>8
<1>10. \A n \in 15..30 : Pow2[n] >= 32768 /\ (n # 15 => Pow2[n] >= 65536)
  BY <1>4, <1>5, <1>6, <1>7, <1>8
<1>11. \A n \in 4..30 : Pow2[n] >= 16
  BY <1>1, <1>2, <1>3, <1>4, <1>9, <1>10
<1> QED BY <1>1, <1>2, <1>3, <1>4, <1>9, <1>10, <1>11

\* What a bit adds to the number.
Weight(bits, b) == IF b \in bits THEN Pow2[b] ELSE 0

\* Number(bits) is the last of the sums of the lowest bits.
Sums(bits, value) ==
    /\ value[0] = 0
    /\ \A n \in 1..16 : value[n] = value[n - 1] + Weight(bits, n - 1)

LEMMA NumberSums ==
    ASSUME NEW bits
    PROVE  \E value : Sums(bits, value) /\ Number(bits) = value[16]
<1> DEFINE w(b) == Weight(bits, b)
           s1 == 0 + w(0)
           s2 == s1 + w(1)
           s3 == s2 + w(2)
           s4 == s3 + w(3)
           s5 == s4 + w(4)
           s6 == s5 + w(5)
           s7 == s6 + w(6)
           s8 == s7 + w(7)
           s9 == s8 + w(8)
           s10 == s9 + w(9)
           s11 == s10 + w(10)
           s12 == s11 + w(11)
           s13 == s12 + w(12)
           s14 == s13 + w(13)
           s15 == s14 + w(14)
           s16 == s15 + w(15)
           sums == <<0, s1, s2, s3, s4, s5, s6, s7, s8, s9, s10, s11, s12, s13, s14, s15, s16>>
           table == [n \in 0..16 |-> sums[n + 1]]
           Step(f) == [n \in 0..16 |-> IF n = 0 THEN 0 ELSE f[n - 1] + w(n - 1)]
           Exact(f) == [n \in 0..16 |-> IF n = 0 THEN 0
                              ELSE f[n - 1] + (IF n - 1 \in bits THEN Pow2[n - 1] ELSE 0)]
           value == CHOOSE f : f = Exact(f)
<1>1. Number(bits) = value[16]
  BY DEF Number
<1>2. \A f : Exact(f) = Step(f)
  BY DEF Weight
<1> HIDE DEF w
<1>3. \A n \in 1..16 : sums[n + 1] = sums[n] + w(n - 1)
  <2>1. /\ s1 = 0 + w(0) /\ s2 = s1 + w(1) /\ s3 = s2 + w(2) /\ s4 = s3 + w(3)
        /\ s5 = s4 + w(4) /\ s6 = s5 + w(5) /\ s7 = s6 + w(6) /\ s8 = s7 + w(7)
        /\ s9 = s8 + w(8) /\ s10 = s9 + w(9) /\ s11 = s10 + w(10) /\ s12 = s11 + w(11)
        /\ s13 = s12 + w(12) /\ s14 = s13 + w(13) /\ s15 = s14 + w(14) /\ s16 = s15 + w(15)
    OBVIOUS
  <2> HIDE DEF s1, s2, s3, s4, s5, s6, s7, s8, s9, s10, s11, s12, s13, s14, s15, s16
  <2> QED BY <2>1
<1>4. sums[1] = 0
  <2> HIDE DEF s1, s2, s3, s4, s5, s6, s7, s8, s9, s10, s11, s12, s13, s14, s15, s16
  <2> QED OBVIOUS
<1> HIDE DEF sums
<1>5. table = Step(table)
  <2>1. \A n \in 0..16 : table[n] = sums[n + 1]
    OBVIOUS
  <2>2. \A n \in 0..16 : table[n] = IF n = 0 THEN 0 ELSE table[n - 1] + w(n - 1)
    BY <1>3, <1>4, <2>1
  <2> QED BY <2>2
<1> HIDE DEF table, Step, Exact
<1>6. value = Step(value)
  BY <1>2, <1>5
<1> HIDE DEF value
<1>7. Sums(bits, value)
  BY <1>6 DEF Sums, Step, w
<1> QED BY <1>1, <1>7

LEMMA NumberType == \A bits : Number(bits) \in Nat
<1> SUFFICES ASSUME NEW bits PROVE Number(bits) \in Nat
  OBVIOUS
<1>1. PICK value : Sums(bits, value) /\ Number(bits) = value[16]
  BY NumberSums
<1>2. \A n \in 0..15 : Weight(bits, n) \in Nat
  BY Powers DEF Weight
<1>3. \A n \in 0..15 : value[n] \in Nat => value[n + 1] \in Nat
  <2> SUFFICES ASSUME NEW n \in 0..15, value[n] \in Nat PROVE value[n + 1] \in Nat
    OBVIOUS
  <2>1. n + 1 \in 1..16 /\ n + 1 - 1 = n
    OBVIOUS
  <2>2. value[n + 1] = value[n] + Weight(bits, n)
    BY <1>1, <2>1 DEF Sums
  <2> QED BY <1>2, <2>2
<1>4. value[0] \in Nat
  BY <1>1 DEF Sums
<1>5. value[1] \in Nat /\ value[2] \in Nat /\ value[3] \in Nat /\ value[4] \in Nat
  BY <1>3, <1>4
<1>6. value[5] \in Nat /\ value[6] \in Nat /\ value[7] \in Nat /\ value[8] \in Nat
  BY <1>3, <1>5
<1>7. value[9] \in Nat /\ value[10] \in Nat /\ value[11] \in Nat /\ value[12] \in Nat
  BY <1>3, <1>6
<1>8. value[13] \in Nat /\ value[14] \in Nat /\ value[15] \in Nat /\ value[16] \in Nat
  BY <1>3, <1>7
<1> QED BY <1>1, <1>8

\* A number has one quotient and one remainder.
LEMMA Quotient ==
    ASSUME NEW n \in Int, NEW B \in Nat, B # 0, NEW k \in Int, NEW r \in 0 .. B - 1,
           n = k * B + r
    PROVE  n \div B = k /\ n % B = r
OBVIOUS

\* The part of a number below a power of two, and the bit next to that part.
Low(n, P) == n % P
NextBit(n, P) == (n \div P) % 2 = 1

LEMMA OneBitMore ==
    ASSUME NEW n \in Nat, NEW P \in Nat, P # 0, NEW Q, Q = 2 * P
    PROVE  Low(n, Q) = Low(n, P) + (IF NextBit(n, P) THEN P ELSE 0)
<1> DEFINE q == n \div P
           r == n % P
           h == q \div 2
           b == q % 2
<1>1. q \in Nat /\ r \in 0 .. P - 1 /\ r = n - q * P
  OBVIOUS
<1> HIDE DEF q, r
<1>2. h \in Nat /\ b \in {0, 1} /\ q = 2 * h + b
  BY <1>1
<1> HIDE DEF h, b
<1> DEFINE x == r + (IF b = 1 THEN P ELSE 0)
<1>3. x \in 0 .. 2 * P - 1
  BY <1>1, <1>2
<1>4. n = h * (2 * P) + x
  <2>1. CASE b = 0
    <3>1. q * P = h * (2 * P)
      BY <1>1, <1>2, <2>1
    <3>2. h * (2 * P) \in Int /\ q * P \in Int
      BY <1>1, <1>2
    <3> QED BY <1>1, <2>1, <3>1, <3>2
  <2>2. CASE b = 1
    <3>1. q * P = h * (2 * P) + P
      BY <1>1, <1>2, <2>2
    <3>2. h * (2 * P) \in Int /\ q * P \in Int
      BY <1>1, <1>2
    <3> QED BY <1>1, <2>2, <3>1, <3>2
  <2> QED BY <1>2, <2>1, <2>2
<1> HIDE DEF x
<1>5. n % (2 * P) = x
  <2> DEFINE B == 2 * P
  <2>1. B \in Nat /\ B # 0
    OBVIOUS
  <2>2. x \in 0 .. B - 1 /\ n = h * B + x
    BY <1>3, <1>4
  <2> HIDE DEF B
  <2>3. n % B = x
    BY <1>2, <2>1, <2>2, Quotient
  <2> QED BY <2>3 DEF B
<1>6. Low(n, Q) = x /\ Low(n, P) = r /\ (NextBit(n, P) <=> b = 1)
  <2>1. NextBit(n, P) <=> b = 1
    BY DEF NextBit, b, q
  <2>2. Low(n, P) = r
    BY DEF Low, r
  <2>3. Low(n, Q) = x
    BY <1>5 DEF Low
  <2> QED BY <2>1, <2>2, <2>3
<1> QED BY <1>6 DEF x

\* A number is that of its bits.
LEMMA NumberOfBits ==
    ASSUME NEW n \in Nat, n < 65536, NEW bits, \A b \in 0..15 : b \in bits <=> b \in Bits(n)
    PROVE  Number(bits) = n
<1>1. PICK value : Sums(bits, value) /\ Number(bits) = value[16]
  BY NumberSums
<1> DEFINE rem == [b \in 0..16 |-> Low(n, Pow2[b])]
<1>2. ASSUME NEW b \in 0..15
      PROVE  rem[b + 1] = rem[b] + Weight(bits, b)
  <2> DEFINE P == Pow2[b]
             Q == Pow2[b + 1]
  <2>1. b + 1 \in 1..30 /\ b + 1 - 1 = b /\ b \in 0..30
    OBVIOUS
  <2>2. P \in Nat /\ P # 0 /\ Q = 2 * P
    BY <2>1, Powers, Doubles
  <2>3. b \in bits <=> NextBit(n, P)
    BY DEF Bits, NextBit
  <2>4. Weight(bits, b) = IF b \in bits THEN P ELSE 0
    BY DEF Weight
  <2>5. rem[b] = Low(n, P) /\ rem[b + 1] = Low(n, Q)
    OBVIOUS
  <2> HIDE DEF P, Q, rem
  <2>6. Low(n, Q) = Low(n, P) + (IF NextBit(n, P) THEN P ELSE 0)
    BY <2>2, OneBitMore
  <2> QED BY <2>3, <2>4, <2>5, <2>6
<1>3. rem[0] = 0 /\ rem[16] = n
  <2>1. Low(n, 1) = 0 /\ Low(n, 65536) = n
    BY DEF Low
  <2> QED BY <2>1, Powers
<1> HIDE DEF rem
<1>4. value[0] = rem[0]
  BY <1>1, <1>3 DEF Sums
<1>5. ASSUME NEW b \in 0..15, value[b] = rem[b] PROVE value[b + 1] = rem[b + 1]
  <2>1. b + 1 \in 1..16 /\ b + 1 - 1 = b
    OBVIOUS
  <2>2. value[b + 1] = value[b] + Weight(bits, b)
    BY <1>1, <2>1 DEF Sums
  <2> QED BY <1>2, <1>5, <2>2
<1>6. value[1] = rem[1] /\ value[2] = rem[2] /\ value[3] = rem[3] /\ value[4] = rem[4]
  BY <1>4, <1>5
<1>7. value[5] = rem[5] /\ value[6] = rem[6] /\ value[7] = rem[7] /\ value[8] = rem[8]
  BY <1>5, <1>6
<1>8. value[9] = rem[9] /\ value[10] = rem[10] /\ value[11] = rem[11] /\ value[12] = rem[12]
  BY <1>5, <1>7
<1>9. value[13] = rem[13] /\ value[14] = rem[14] /\ value[15] = rem[15] /\ value[16] = rem[16]
  BY <1>5, <1>8
<1> QED BY <1>1, <1>3, <1>9

-----------------------------------------------------------------------------
(* calculate_fll_params.                                                   *)

\* What mult and div are to be for a target: they fit their fields of CFG1,
\* the oscillator stays below half of its ceiling, and the error is at most
\* half a step of the multiplier.
Fits(t, mult, div) ==
    /\ t \in Nat /\ mult \in Nat \ {0} /\ mult < 65536 /\ div \in 1..15
    /\ 2 * (t * Pow2[div - 1]) < FMAX
    /\ 2 * (mult * Rtc - t * Pow2[div - 1]) <= Rtc
    /\ 2 * (t * Pow2[div - 1] - mult * Rtc) <= Rtc

\* The bounds of a quotient.
LEMMA QuotientBounds ==
    ASSUME NEW n \in Nat, NEW B \in Nat, B # 0, NEW q, q = n \div B
    PROVE  q \in Nat /\ q * B <= n /\ n < q * B + B
<1> DEFINE r == n % B
<1>1. q \in Nat /\ r \in 0 .. B - 1 /\ r = n - q * B
  OBVIOUS
<1> HIDE DEF r
<1> QED BY <1>1

\* The exponent that 31 - __builtin_clz(limit - 1) gives.
LEMMA Exponent ==
    ASSUME NEW limit \in Nat, limit > 1, limit <= 32768, NEW e, e = DoutExponent(limit)
    PROVE  e \in 0..14 /\ Pow2[e] < limit /\ limit <= 2 * Pow2[e]
<1> DEFINE x == limit - 1
<1>1. x \in Nat /\ x >= 1 /\ x < 32768
  OBVIOUS
<1>2. ASSUME NEW P \in Nat, P # 0 PROVE x \div P = 1 <=> P <= x /\ x < 2 * P
  <2> DEFINE q == x \div P
  <2>1. q \in Nat /\ q * P <= x /\ x < q * P + P
    <3> DEFINE r == x % P
    <3> HIDE DEF x
    <3>1. q \in Nat /\ r \in 0 .. P - 1 /\ r = x - q * P
      BY <1>1, <1>2
    <3> HIDE DEF q, r
    <3> QED BY <1>1, <1>2, <3>1
  <2> HIDE DEF q, x
  <2>2. q = 1 => P <= x /\ x < 2 * P
    BY <1>1, <1>2, <2>1
  <2>3. ASSUME P <= x, x < 2 * P PROVE q = 1
    <3>1. q = 0 => q * P = 0
      BY <1>2
    <3>2. q >= 2 => q * P >= 2 * P
      BY <1>2, <2>1
    <3>3. q * P \in Int
      BY <1>2, <2>1
    <3> QED BY <1>1, <1>2, <2>1, <2>3, <3>1, <3>2, <3>3
  <2> QED BY <2>2, <2>3 DEF q
<1>3. \E i \in 0..30 : Pow2[i] <= x /\ x < 2 * Pow2[i]
  <2> HIDE DEF x
  <2> QED BY <1>1, Powers
<1>4. PICK i \in 0..30 : Pow2[i] <= x /\ x < 2 * Pow2[i]
  BY <1>3
<1>5. Pow2[i] \in Nat /\ Pow2[i] # 0
  BY Powers
<1>6. x \div Pow2[i] = 1
  BY <1>2, <1>4, <1>5
<1>7. e \in 0..30 /\ x \div Pow2[e] = 1
  BY <1>6 DEF DoutExponent
<1>8. Pow2[e] \in Nat /\ Pow2[e] # 0
  BY <1>7, Powers
<1>9. Pow2[e] <= x /\ x < 2 * Pow2[e]
  BY <1>2, <1>7, <1>8
<1>10. e \in 0..14
  <2>1. e \in 15..30 => Pow2[e] >= 32768
    BY Powers
  <2> HIDE DEF x
  <2> QED BY <1>1, <1>7, <1>8, <1>9, <2>1
<1> QED BY <1>8, <1>9, <1>10

\* Rounding to the nearest multiplier.
LEMMA Rounded ==
    ASSUME NEW num \in Nat, 2 * num < FMAX, FMAX < 6 * num, NEW m, m = Multiplier(num)
    PROVE  /\ m \in Nat \ {0} /\ m < 65536
           /\ 2 * (m * Rtc - num) <= Rtc /\ 2 * (num - m * Rtc) <= Rtc
<1>1. /\ Rtc \in Nat /\ Rtc # 0 /\ FMAX \in Nat /\ WordSize \in Nat /\ WordSize # 0
      /\ 6 * Rtc <= FMAX /\ FMAX < 131070 * Rtc /\ FMAX + Rtc <= WordSize
  BY FllAssumption, FllRange
<1> DEFINE half == Rtc \div 2
           n == num + half
<1>2. half \in Nat /\ 2 * half <= Rtc /\ Rtc <= 2 * half + 1
  BY <1>1
<1>3. m = (n % WordSize) \div Rtc
  BY DEF Multiplier
<1> HIDE DEF half
<1>4. n \in Nat /\ n < WordSize
  BY <1>1, <1>2
<1>5. n % WordSize = n
  <2> HIDE DEF n
  <2>1. n = 0 * WordSize + n /\ n \in 0 .. WordSize - 1
    BY <1>1, <1>4
  <2> QED BY <1>1, <1>4, <2>1, Quotient
<1>6. m \in Nat /\ m * Rtc <= n /\ n < m * Rtc + Rtc
  <2>1. m = n \div Rtc
    BY <1>3, <1>5
  <2> HIDE DEF n
  <2> QED BY <1>1, <1>4, <2>1, QuotientBounds
<1> DEFINE f == m * Rtc
<1>7. f \in Nat /\ (m = 0 => f = 0) /\ (m >= 65536 => f >= 65536 * Rtc)
  BY <1>1, <1>6
<1>8. f <= n /\ n < f + Rtc
  BY <1>6
<1> HIDE DEF f
<1>9. 2 * (f - num) <= Rtc /\ 2 * (num - f) <= Rtc
  BY <1>1, <1>2, <1>7, <1>8
<1>10. f # 0 /\ f < 65536 * Rtc
  BY <1>1, <1>2, <1>7, <1>8
<1>11. m # 0 /\ m < 65536
  BY <1>1, <1>6, <1>7, <1>10
<1>12. 2 * (m * Rtc - num) <= Rtc /\ 2 * (num - m * Rtc) <= Rtc
  BY <1>9 DEF f
<1> QED BY <1>6, <1>11, <1>12

LEMMA ParamsFit ==
    ASSUME NEW t \in Targets, NEW params, params = calculate_fll_params(t), params # NoParams
    PROVE  /\ Fits(t, params.mult, params.div)
           /\ params = [mult |-> params.mult, div |-> params.div]
<1> DEFINE D == 2 * t
           denom == D % WordSize
           limit == FMAX \div denom
           e == DoutExponent(limit)
           P == Pow2[e]
           num == t * P
           m == Multiplier(num % WordSize)
<1>1. /\ Rtc \in Nat /\ Rtc # 0 /\ FMAX \in Nat /\ WordSize \in Nat /\ WordSize # 0
      /\ FMAX + Rtc <= WordSize /\ t \in Nat
  BY FllAssumption, FllRange, HostClockAssumption
<1>2. /\ ~(t = 0 \/ denom = 0 \/ limit <= 1)
      /\ params = [mult |-> IF m = 0 THEN 1 ELSE m, div |-> e + 1]
  <2>1. params = IF t = 0 \/ denom = 0 \/ limit <= 1 THEN NoParams
                 ELSE [mult |-> IF m = 0 THEN 1 ELSE m, div |-> e + 1]
    BY DEF calculate_fll_params
  <2> HIDE DEF denom, limit, e, m
  <2> QED BY <2>1
<1>3. D \in Nat /\ D # 0 /\ D < WordSize /\ FMAX \div D <= 32768 /\ D = t + t
  BY <1>1, <1>2, TargetRange
<1> HIDE DEF m, P, e
<1>4. denom = D
  <2> HIDE DEF D
  <2>1. D = 0 * WordSize + D /\ D \in 0 .. WordSize - 1
    BY <1>1, <1>3
  <2> QED BY <1>1, <1>3, <2>1, Quotient
<1> HIDE DEF D
<1>5. limit = FMAX \div D /\ limit <= 32768
  BY <1>3, <1>4
<1> HIDE DEF denom, limit
<1>6. limit \in Nat /\ limit > 1 /\ limit * D <= FMAX /\ FMAX < limit * D + D
  <2>1. limit \in Nat /\ limit * D <= FMAX /\ FMAX < limit * D + D
    <3> DEFINE q == FMAX \div D
               r == FMAX % D
    <3>0. D \in Nat /\ D # 0 /\ FMAX \in Nat
      BY <1>1, <1>3
    <3>1. q \in Nat /\ r \in 0 .. D - 1 /\ r = FMAX - q * D
      BY <3>0
    <3>2. limit = q
      BY <1>5
    <3> HIDE DEF q, r
    <3> QED BY <3>0, <3>1, <3>2
  <2> QED BY <1>2, <2>1
<1>7. e \in 0..14 /\ P \in Nat /\ P # 0 /\ P < limit /\ limit <= 2 * P
  BY <1>5, <1>6, Exponent, Powers DEF e, P
<1>8. num \in Nat /\ num + num = P * D
  BY <1>1, <1>3, <1>7
<1>9. 2 * num < FMAX
  <2>1. P * D + D <= limit * D
    BY <1>3, <1>6, <1>7
  <2>2. P * D \in Nat /\ limit * D \in Nat
    BY <1>3, <1>6, <1>7
  <2> HIDE DEF num
  <2> QED BY <1>1, <1>3, <1>6, <1>8, <2>1, <2>2
<1>10. FMAX < 6 * num
  <2>1. limit * D <= (2 * P) * D
    BY <1>3, <1>6, <1>7
  <2>2. (2 * P) * D = 2 * (P * D) /\ D <= P * D
    BY <1>3, <1>7
  <2>3. P * D \in Nat /\ limit * D \in Nat
    BY <1>3, <1>6, <1>7
  <2> HIDE DEF num
  <2> QED BY <1>1, <1>3, <1>6, <1>8, <2>1, <2>2, <2>3
<1> HIDE DEF num
<1>11. num % WordSize = num
  <2>1. num = 0 * WordSize + num /\ num \in 0 .. WordSize - 1
    BY <1>1, <1>8, <1>9
  <2> QED BY <1>1, <1>8, <2>1, Quotient
<1>12. m = Multiplier(num)
  BY <1>11 DEF m
<1>13. /\ m \in Nat \ {0} /\ m < 65536
       /\ 2 * (m * Rtc - num) <= Rtc /\ 2 * (num - m * Rtc) <= Rtc
  BY <1>8, <1>9, <1>10, <1>12, Rounded
<1>14. params.mult = m /\ params.div = e + 1 /\ params = [mult |-> params.mult, div |-> params.div]
  BY <1>2, <1>13
<1>15. e + 1 \in 1..15 /\ (e + 1) - 1 = e
  BY <1>7
<1>16. Pow2[params.div - 1] = P
  BY <1>14, <1>15 DEF P
<1> QED BY <1>1, <1>9, <1>13, <1>14, <1>15, <1>16 DEF Fits, num

-----------------------------------------------------------------------------
(* CFG1.                                                                   *)

\* A number below a power of two does not have that bit.
LEMMA NoHighBit ==
    ASSUME NEW n \in Nat, NEW b \in 0..29, n < Pow2[b]
    PROVE  b \notin Bits(n)
<1> DEFINE P == Pow2[b]
<1>1. P \in Nat /\ P # 0 /\ n < P
  BY Powers
<1> HIDE DEF P
<1>2. n \div P = 0
  <2>1. n = 0 * P + n /\ n \in 0 .. P - 1
    BY <1>1
  <2> QED BY <1>1, <2>1, Quotient
<1> QED BY <1>2 DEF Bits, P

\* setFllFreq and the FLL agree on the fields: neither parameter is cut.
LEMMA Packed ==
    ASSUME NEW mult \in Nat, mult < 65536, NEW div \in 1..15
    PROVE  /\ Cfg1(mult, div) \in Uint32
           /\ FllMult(Cfg1(mult, div)) = mult
           /\ FllDiv(Cfg1(mult, div)) = div
<1> DEFINE c == Cfg1(mult, div)
           hi == initFll({}) \cap ({30, 31} \cup 16..25)
           lo == Shift(Bits(div), 26) \cap 0..31
<1>1. c = hi \cup Bits(mult) \cup lo
  BY DEF Cfg1, setFllFreq
<1>2. \A b \in hi : b \in 16..25 \cup 30..31
  OBVIOUS
<1>3. Bits(mult) \subseteq 0..15 /\ \A b \in Bits(mult) : b \in 0..15
  <2> SUFFICES ASSUME NEW b \in Bits(mult) PROVE b \in 0..15
    OBVIOUS
  <2>1. b \in 0..29
    BY DEF Bits
  <2>2. b \in 16..29 => mult < Pow2[b]
    BY Powers
  <2>3. ~(mult < Pow2[b])
    BY <2>1, NoHighBit
  <2> QED BY <2>1, <2>2, <2>3
<1>4. \A b \in Bits(div) : b \in 0..3
  <2> SUFFICES ASSUME NEW b \in Bits(div) PROVE b \in 0..3
    OBVIOUS
  <2>1. b \in 0..29 /\ div \in Nat
    BY DEF Bits
  <2>2. b \in 4..29 => div < Pow2[b]
    BY Powers
  <2>3. ~(div < Pow2[b])
    BY <2>1, NoHighBit
  <2> QED BY <2>1, <2>2, <2>3
<1>5. \A x : x \in lo <=> \E b \in Bits(div) : x = b + 26
  BY <1>4 DEF Shift
<1> HIDE DEF hi, lo, c
<1>6. c \in Uint32
  <2>1. \A b \in lo : b \in 0..31
    BY <1>4, <1>5
  <2>2. \A b \in c : b \in 0..31
    BY <1>1, <1>2, <1>3, <2>1
  <2> QED BY <2>2 DEF Uint32
<1>7. FllMult(c) = mult
  <2>1. \A b \in 0..15 : b \in c \cap 0..15 <=> b \in Bits(mult)
    <3>1. \A b \in 0..15 : b \notin hi /\ b \notin lo
      BY <1>2, <1>4, <1>5
    <3> QED BY <1>1, <3>1
  <2> QED BY <2>1, NumberOfBits DEF FllMult
<1>8. FllDiv(c) = div
  <2> DEFINE field == {b \in 0..3 : b + 26 \in c}
  <2>1. \A b \in 0..3 : b + 26 \in c <=> b \in Bits(div)
    <3>1. \A b \in 0..3 : b + 26 \notin hi /\ b + 26 \notin Bits(mult)
      BY <1>2, <1>3
    <3>2. \A b \in 0..3 : b + 26 \in lo <=> b \in Bits(div)
      BY <1>4, <1>5
    <3> QED BY <1>1, <3>1, <3>2
  <2>2. \A b \in 0..15 : b \in field <=> b \in Bits(div)
    BY <1>4, <2>1
  <2>3. div \in Nat /\ div < 65536
    OBVIOUS
  <2> HIDE DEF field
  <2>4. Number(field) = div
    BY <2>2, <2>3, NumberOfBits
  <2> QED BY <2>4 DEF FllDiv, field
<1> QED BY <1>6, <1>7, <1>8 DEF c

-----------------------------------------------------------------------------
(* The clock that was asked for.                                           *)

\* The host carries out a call of configure_fll whose parameters exist.
FromTarget ==
    \/ pc \in {"bypass", "fll0", "fll1", "delay", "unbypass"}
    \/ pc = "reopen" /\ ~bypass

TargetInv ==
    /\ fll \in [Flls -> Uint32] /\ \A i \in Flls : FllDiv(fll[i]) \in 1..15
    /\ FromTarget => Fits(job.target, job.mult, job.div)
    /\ FromTarget /\ pc \notin {"bypass", "fll0"} => fll[0] = Cfg1(job.mult, job.div)

\* Four bits are a number up to 15.
LEMMA FourBits ==
    ASSUME NEW c
    PROVE  FllDiv(c) \in 0..15
<1> DEFINE field == {b \in 0..3 : b + 26 \in c}
<1>1. PICK value : Sums(field, value) /\ Number(field) = value[16]
  BY NumberSums
<1>2. \A n \in 0..15 : value[n + 1] = value[n] + Weight(field, n)
  <2> SUFFICES ASSUME NEW n \in 0..15 PROVE value[n + 1] = value[n] + Weight(field, n)
    OBVIOUS
  <2>1. n + 1 \in 1..16 /\ n + 1 - 1 = n
    OBVIOUS
  <2> HIDE DEF field
  <2> QED BY <1>1, <2>1 DEF Sums
<1>3. \A n \in 4..15 : Weight(field, n) = 0
  BY DEF Weight
<1>4. /\ Weight(field, 0) \in {0, 1} /\ Weight(field, 1) \in {0, 2}
      /\ Weight(field, 2) \in {0, 4} /\ Weight(field, 3) \in {0, 8}
  <2> HIDE DEF field
  <2> QED BY Powers DEF Weight
<1>5. FllDiv(c) = value[16]
  BY <1>1 DEF FllDiv
<1>6. value[0] = 0
  BY <1>1 DEF Sums
<1> HIDE DEF field
<1>7. value[1] \in 0..1 /\ value[2] \in 0..3 /\ value[3] \in 0..7 /\ value[4] \in 0..15
  <2>1. value[1] \in 0..1
    BY <1>2, <1>4, <1>6
  <2>2. value[2] \in 0..3
    BY <1>2, <1>4, <2>1
  <2>3. value[3] \in 0..7
    BY <1>2, <1>4, <2>2
  <2>4. value[4] \in 0..15
    BY <1>2, <1>4, <2>3
  <2> QED BY <2>1, <2>2, <2>3, <2>4
<1>8. \A n \in 4..15 : value[n] \in 0..15 => value[n + 1] \in 0..15
  BY <1>2, <1>3
<1>9. value[5] \in 0..15 /\ value[6] \in 0..15 /\ value[7] \in 0..15 /\ value[8] \in 0..15
  BY <1>7, <1>8
<1>10. value[9] \in 0..15 /\ value[10] \in 0..15 /\ value[11] \in 0..15 /\ value[12] \in 0..15
  BY <1>8, <1>9
<1>11. value[13] \in 0..15 /\ value[14] \in 0..15 /\ value[15] \in 0..15 /\ value[16] \in 0..15
  BY <1>8, <1>10
<1> QED BY <1>5, <1>11

LEMMA TargetInit == Init => TargetInv
<1> SUFFICES ASSUME Init PROVE TargetInv
  OBVIOUS
<1>1. FllDiv(ResetFll) \in 1..15 /\ ResetFll \in Uint32
  BY FourBits, TargetRange, HostClockAssumption
<1> QED BY <1>1 DEF Init, TargetInv, FromTarget

LEMMA TargetStep == TargetInv /\ [Next]_vars => TargetInv'
<1> SUFFICES ASSUME TargetInv, [Next]_vars PROVE TargetInv'
  OBVIOUS
<1> USE DEF TargetInv
<1>1. ASSUME NEW i \in Flls, NEW from, NEW to, ProgramFll(i, from, to),
             from \in {"fll0", "fll1"}, to \in {"fll1", "delay"},
             from = "fll0" => i = 0
      PROVE  TargetInv'
  <2>1. /\ fll' = [fll EXCEPT ![i] = Cfg1(job.mult, job.div)]
        /\ job' = job /\ bypass' = bypass /\ pc = from /\ pc' = to
    <3>1. setFllFreq(initFll(fll[i]), job.mult, job.div) = Cfg1(job.mult, job.div)
      BY Reprogrammed
    <3>2. fll' = [fll EXCEPT ![i] = setFllFreq(initFll(fll[i]), job.mult, job.div)]
      BY <1>1, Zenon DEF ProgramFll
    <3>3. job' = job /\ bypass' = bypass /\ pc = from /\ pc' = to
      BY <1>1 DEF ProgramFll, Goto
    <3> QED BY <3>1, <3>2, <3>3
  <2>2. Fits(job.target, job.mult, job.div)
    BY <1>1, <2>1 DEF FromTarget
  <2> DEFINE c == Cfg1(job.mult, job.div)
  <2>3. c \in Uint32 /\ FllDiv(c) \in 1..15
    BY <2>2, Packed DEF Fits
  <2>4. from = "fll1" => fll[0] = c
    BY <1>1, <2>1 DEF FromTarget
  <2> HIDE DEF c
  <2>5. fll' = [fll EXCEPT ![i] = c]
    BY <2>1 DEF c
  <2>6. fll' \in [Flls -> Uint32] /\ \A j \in Flls : FllDiv(fll'[j]) \in 1..15
    BY <2>3, <2>5
  <2>7. fll'[0] = c
    BY <1>1, <2>4, <2>5 DEF Flls
  <2>8. fll'[0] = Cfg1(job'.mult, job'.div) /\ Fits(job'.target, job'.mult, job'.div)
    BY <2>1, <2>2, <2>7 DEF c
  <2> QED BY <2>6, <2>8
<1>2. CASE \E t \in Targets : configure_fll(t)
  <2>1. PICK t \in Targets : configure_fll(t)
    BY <1>2
  <2> DEFINE params == calculate_fll_params(t)
  <2>2. /\ fll' = fll /\ bypass' = bypass
        /\ \/ params = NoParams /\ pc' = "write"
           \/ /\ params # NoParams /\ pc' = "bypass"
              /\ job' = [target |-> t, mult |-> params.mult, div |-> params.div]
    BY <2>1 DEF configure_fll, PrintError
  <2>3. params # NoParams => Fits(t, params.mult, params.div)
    BY ParamsFit
  <2> HIDE DEF params
  <2>4. CASE params = NoParams
    BY <2>2, <2>4 DEF FromTarget
  <2>5. CASE params # NoParams
    <3>1. job'.target = t /\ job'.mult = params.mult /\ job'.div = params.div
      BY <2>2, <2>5
    <3>2. Fits(job'.target, job'.mult, job'.div)
      BY <2>3, <2>5, <3>1
    <3> QED BY <2>2, <2>5, <3>2 DEF FromTarget
  <2> QED BY <2>4, <2>5
<1>3. CASE EnableBypass \/ DisableBypass \/ restore_default_freq
  BY <1>3 DEF EnableBypass, DisableBypass, restore_default_freq, SetBypass, PrintError, Goto, FromTarget
<1>4. CASE Delay
  BY <1>4 DEF Delay, Goto, FromTarget
<1>6. CASE Hardware \/ Type \/ UNCHANGED vars
  BY <1>6 DEF Hardware, Load, Transmit, Type, vars, FromTarget
<1>7. CASE uart_init \/ Write \/ Drain \/ Flush \/ Read \/ Reopen \/ Return
  BY <1>7 DEF uart_init, Write, Drain, Flush, Read, Reopen, Return, Goto, FromTarget
<1>8. CASE uart_putc \/ uart_flush \/ uart_getc \/ uart_deinit
  BY <1>8 DEF uart_putc, uart_flush, uart_getc, uart_deinit, Goto, FromTarget
<1> QED
  BY <1>1, <1>2, <1>3, <1>4, <1>6, <1>7, <1>8 DEF Next, Driver, Program, Flls

(* Whenever configure_fll has switched to the FLL, the clock is within     *)
(* half a step of the multiplier of the frequency that was asked for, and  *)
(* the oscillator below half of its ceiling: for every target that the     *)
(* divider can reach (TargetRange) and every ceiling and reference that    *)
(* fit the registers (FllRange).                                           *)
THEOREM TargetReached == Spec => []ReachesTarget
<1>1. Init => TargetInv
  BY TargetInit
<1>2. TargetInv /\ [Next]_vars => TargetInv'
  BY TargetStep
<1>3. TargetInv => ReachesTarget
  <2> SUFFICES ASSUME TargetInv, pc = "reopen", ~bypass
               PROVE  LET dout  == FllDout(fll[0])
                          error == FllMult(fll[0]) * Rtc - job.target * dout
                      IN 2 * error <= Rtc /\ -2 * error <= Rtc /\ 2 * job.target * dout < FMAX
    BY DEF ReachesTarget
  <2> DEFINE t == job.target
             mult == job.mult
             div == job.div
             dout == Pow2[div - 1]
  <2>1. Fits(t, mult, div) /\ fll[0] = Cfg1(mult, div)
    BY DEF TargetInv, FromTarget
  <2> HIDE DEF t, mult, div
  <2>2. FllMult(fll[0]) = mult /\ FllDiv(fll[0]) = div
    BY <2>1, Packed DEF Fits
  <2>3. FllDout(fll[0]) = dout
    BY <2>2 DEF FllDout
  <2>4. t \in Nat /\ mult \in Nat /\ dout \in Nat /\ Rtc \in Nat /\ FMAX \in Nat
    <3>1. div - 1 \in 0..30
      BY <2>1 DEF Fits
    <3> QED BY <2>1, <3>1, Powers, FllAssumption DEF Fits
  <2>5. /\ 2 * (t * dout) < FMAX
        /\ 2 * (mult * Rtc - t * dout) <= Rtc
        /\ 2 * (t * dout - mult * Rtc) <= Rtc
    BY <2>1 DEF Fits
  <2> HIDE DEF dout
  <2> DEFINE num == t * dout
             f == mult * Rtc
  <2>6. num \in Nat /\ f \in Nat /\ 2 * t * dout = 2 * num
    BY <2>4
  <2>7. 2 * (f - num) <= Rtc /\ -2 * (f - num) <= Rtc /\ 2 * num < FMAX
    <3>1. 2 * num < FMAX /\ 2 * (f - num) <= Rtc /\ 2 * (num - f) <= Rtc
      BY <2>5
    <3> HIDE DEF num, f
    <3> QED BY <2>4, <2>6, <3>1
  <2>8. 2 * (mult * Rtc - t * dout) <= Rtc /\ -2 * (mult * Rtc - t * dout) <= Rtc /\ 2 * t * dout < FMAX
    BY <2>6, <2>7
  <2> QED BY <2>2, <2>3, <2>8 DEF t
<1> QED BY <1>1, <1>2, <1>3, PTL DEF Spec

\* The clock is a number: FLLs divide by a power of two.
LEMMA FreqType ==
    ASSUME TargetInv
    PROVE  Freq \in Nat
<1> DEFINE c == fll[0]
           dout == Pow2[FllDiv(c) - 1]
<1>1. FllDiv(c) \in 1..15
  BY DEF TargetInv, Flls
<1>2. dout \in Nat /\ dout # 0
  <2>1. FllDiv(c) - 1 \in 0..30
    BY <1>1
  <2> QED BY <2>1, Powers
<1>3. FllMult(c) \in Nat
  BY NumberType DEF FllMult
<1>4. Rtc \in Nat /\ RefFreq \in Nat
  BY FllAssumption, HostClockAssumption
<1> DEFINE m == FllMult(c)
<1>5. m * Rtc \in Nat
  BY <1>3, <1>4
<1> HIDE DEF m, dout
<1> DEFINE n == m * Rtc
<1>6. n \div dout \in Nat
  <2> HIDE DEF n
  <2> QED BY <1>2, <1>5 DEF n
<1>7. FllFreq(c) = n \div dout
  BY DEF FllFreq, FllDout, m, dout
<1> QED BY <1>4, <1>6, <1>7 DEF Freq

\* The UART's registers, as in TypeOK.
UartType ==
    uart \in [divisor : Divisors, dlab : BOOLEAN, thr : 0..1,
              shift : {"empty", "intact", "garbled"}, rbr : 0..RxDepth]

RestType ==
    /\ pc \in {"reset", "main", "write", "drain", "flush", "read", "bypass", "fll0",
               "fll1", "delay", "unbypass", "reopen", "return", "halt"}
    /\ job \in [target : Nat, mult : Nat, div : Nat]
    /\ bypass \in BOOLEAN /\ locked \subseteq Flls
    /\ cfg \in Nat
    /\ line \in Seq({"intact", "garbled"})
    /\ printed \in Nat /\ typed \in 0..MaxChars /\ calls \in 0..MaxCalls
    /\ stuck \in BOOLEAN

LEMMA DivisorType ==
    ASSUME NEW clk \in Nat
    PROVE  Divisor(clk) \in Divisors
<1> DEFINE q == clk \div Baud16
<1>1. q \in Nat
  BY HostClockAssumption
<1> HIDE DEF q
<1>2. q % 65536 \in Nat /\ q % 65536 <= 65535
  BY <1>1
<1> DEFINE d == q % 65536
           N == Pow2[16]
<1>3. d \in Nat /\ N \in Nat /\ d < N
  BY <1>2, Powers
<1> HIDE DEF d, N
<1>4. d \in 0 .. N - 1
  BY <1>3
<1> QED BY <1>4 DEF Divisor, Divisors, q, d, N

LEMMA NoDivisor == 0 \in Divisors
<1> DEFINE N == Pow2[16]
<1>1. N \in Nat /\ 0 < N
  BY Powers
<1> HIDE DEF N
<1>2. 0 \in 0 .. N - 1
  BY <1>1
<1> QED BY <1>2 DEF Divisors, N

LEMMA UartStep == UartType /\ TargetInv /\ [Next]_vars => UartType'
<1> SUFFICES ASSUME UartType, TargetInv, [Next]_vars PROVE UartType'
  OBVIOUS
<1> USE DEF UartType
<1>0. Freq \in Nat /\ 0 \in Divisors /\ RxDepth \in Nat
  BY NoDivisor, FreqType, HostClockAssumption
<1>1. CASE Load
  <2> DEFINE s == IF uart.divisor = Divisor(Freq) THEN "intact" ELSE "garbled"
  <2>1. s \in {"empty", "intact", "garbled"}
    OBVIOUS
  <2> HIDE DEF s
  <2>2. uart' = [uart EXCEPT !.thr = uart.thr - 1, !.shift = s] /\ uart.thr > 0
    BY <1>1 DEF Load, s
  <2>3. uart.thr - 1 \in 0..1
    BY <2>2
  <2> DEFINE n == uart.thr - 1
  <2>4. uart' = [uart EXCEPT !.thr = n, !.shift = s] /\ n \in 0..1
    BY <2>2, <2>3
  <2> HIDE DEF n
  <2> QED BY <2>1, <2>4
<1>2. CASE Transmit
  BY <1>2 DEF Transmit
<1>3. CASE Type
  BY <1>0, <1>3 DEF Type
<1>4. CASE uart_init \/ Reopen
  <2>1. uart' = [divisor |-> Divisor(Freq), dlab |-> FALSE,
                 thr |-> 0, shift |-> Disturbed(uart.shift), rbr |-> 0]
    BY <1>4 DEF uart_init, Reopen, Open
  <2>2. Divisor(Freq) \in Divisors
    BY <1>0, DivisorType
  <2> QED BY <1>0, <2>1, <2>2 DEF Disturbed
<1>5. CASE Write
  BY <1>0, <1>5 DEF Write, tx_ready
<1>6. CASE Read
  BY <1>0, <1>6 DEF Read, rx_ready
<1>7. CASE uart_deinit
  <2> DEFINE off == FALSE
  <2>1. off \in BOOLEAN
    BY Zenon
  <2>2. uart' = [uart EXCEPT !.dlab = off, !.thr = 0]
    BY <1>7 DEF uart_deinit
  <2> HIDE DEF off
  <2>3. uart' = [divisor |-> uart.divisor, dlab |-> off, thr |-> 0,
                 shift |-> uart.shift, rbr |-> uart.rbr]
    BY <2>2
  <2>4. /\ uart.divisor \in Divisors /\ 0 \in 0..1 /\ uart.rbr \in 0..RxDepth
        /\ uart.shift \in {"empty", "intact", "garbled"}
    OBVIOUS
  <2> QED BY <2>1, <2>3, <2>4
<1>8. CASE EnableBypass \/ DisableBypass \/ restore_default_freq
  BY <1>8 DEF EnableBypass, DisableBypass, restore_default_freq, SetBypass, Disturbed
<1>9. CASE \/ Drain \/ Flush \/ Delay \/ Return
           \/ ProgramFll(0, "fll0", "fll1") \/ ProgramFll(1, "fll1", "delay")
           \/ uart_putc \/ uart_flush \/ uart_getc
           \/ \E t \in Targets : configure_fll(t)
           \/ UNCHANGED vars
  <2>1. uart' = uart
    BY <1>9 DEF Drain, Flush, Delay, Return, ProgramFll, uart_putc, uart_flush, uart_getc,
                configure_fll, vars
  <2> QED BY <2>1
<1> QED BY <1>1, <1>2, <1>3, <1>4, <1>5, <1>6, <1>7, <1>8, <1>9
           DEF Next, Hardware, Driver, Program

LEMMA FitsType ==
    ASSUME NEW t, NEW mult, NEW div, Fits(t, mult, div)
    PROVE  t \in Nat /\ mult \in Nat /\ div \in Nat
BY DEF Fits

LEMMA RestStep == RestType /\ UartType /\ TargetInv /\ [Next]_vars => RestType'
<1> SUFFICES ASSUME RestType, UartType, TargetInv, [Next]_vars PROVE RestType'
  OBVIOUS
<1>0. Freq \in Nat
  BY FreqType
<1> USE DEF RestType
<1>1. CASE Load
  BY <1>1 DEF Load
<1>2. CASE Transmit
  <2>1. uart.shift \in {"intact", "garbled"}
    BY <1>2 DEF Transmit, UartType
  <2> QED BY <1>2, <2>1 DEF Transmit
<1>3. CASE Type
  BY <1>3, HostClockAssumption DEF Type
<1>4. CASE uart_init \/ Reopen
  BY <1>0, <1>4 DEF uart_init, Reopen, Open, Goto
<1>5. CASE Write \/ Drain \/ Flush \/ Read
  BY <1>5 DEF Write, Drain, Flush, Read, Goto
<1>6. CASE EnableBypass \/ DisableBypass \/ restore_default_freq
  <2>1. bypass' \in BOOLEAN /\ stuck' \in BOOLEAN
    BY <1>6, Zenon DEF EnableBypass, DisableBypass, restore_default_freq, SetBypass
  <2>2. /\ UNCHANGED <<job, locked, cfg, line, typed>>
        /\ calls' \in {calls, calls + 1} /\ (calls' # calls => calls < MaxCalls)
        /\ pc' \in {"fll0", "reopen", "write"} /\ printed' \in {printed, printed + 1}
    BY <1>6 DEF EnableBypass, DisableBypass, restore_default_freq, PrintError, Goto
  <2>3. calls' \in 0..MaxCalls
    BY <2>2, HostClockAssumption
  <2> QED BY <2>1, <2>2, <2>3
<1>7. CASE Delay
  BY <1>7 DEF Delay, Goto
<1>8. CASE Return
  BY <1>8 DEF Return, Goto
<1>9. CASE ProgramFll(0, "fll0", "fll1") \/ ProgramFll(1, "fll1", "delay")
  BY <1>9 DEF ProgramFll, Goto
<1>10. CASE uart_putc
  BY <1>10 DEF uart_putc, Goto
<1>11. CASE uart_flush \/ uart_getc \/ uart_deinit
  BY <1>11 DEF uart_flush, uart_getc, uart_deinit, Goto
<1>12. CASE \E t \in Targets : configure_fll(t)
  <2>1. PICK t \in Targets : configure_fll(t)
    BY <1>12
  <2> DEFINE params == calculate_fll_params(t)
  <2>2. /\ UNCHANGED <<bypass, locked, cfg, line, typed, stuck>>
        /\ calls < MaxCalls /\ calls' = calls + 1
        /\ \/ params = NoParams /\ pc' = "write" /\ printed' = printed + 1 /\ job' = job
           \/ /\ params # NoParams /\ pc' = "bypass" /\ printed' = printed
              /\ job' = [target |-> t, mult |-> params.mult, div |-> params.div]
    BY <2>1 DEF configure_fll, PrintError
  <2>3. params # NoParams => Fits(t, params.mult, params.div)
    BY ParamsFit
  <2> HIDE DEF params
  <2>4. job' \in [target : Nat, mult : Nat, div : Nat]
    <3>1. CASE params = NoParams
      BY <2>2, <3>1
    <3>2. CASE params # NoParams
      <4>1. t \in Nat /\ params.mult \in Nat /\ params.div \in Nat
        BY <2>3, <3>2, FitsType
      <4> QED BY <2>2, <3>2, <4>1
    <3> QED BY <3>1, <3>2
  <2>5. calls' \in 0..MaxCalls
    BY <2>2, HostClockAssumption
  <2> QED BY <2>2, <2>4, <2>5
<1>13. CASE UNCHANGED vars
  BY <1>13 DEF vars
<1> QED BY <1>1, <1>2, <1>3, <1>4, <1>5, <1>6, <1>7, <1>8, <1>9, <1>10, <1>11, <1>12, <1>13
           DEF Next, Hardware, Driver, Program

(* Every variable keeps its type: in particular the divisor fits its two   *)
(* bytes, a FIFO holds neither fewer than no characters nor more than its  *)
(* depth, and CFG1 stays a word.                                           *)
THEOREM ClockTypes == Spec => []TypeOK
<1> DEFINE Inv == RestType /\ UartType /\ TargetInv
<1>1. Init => Inv
  <2> SUFFICES ASSUME Init PROVE RestType /\ UartType
    BY TargetInit
  <2>1. RestType
    <3>1. bypass \in BOOLEAN /\ stuck \in BOOLEAN /\ locked \subseteq Flls
      BY Zenon DEF Init
    <3>2. job \in [target : Nat, mult : Nat, div : Nat]
      BY DEF Init, NoJob
    <3>3. pc = "reset" /\ cfg = 0 /\ line = <<>> /\ printed = 0 /\ typed = 0 /\ calls = 0
      BY DEF Init
    <3> QED BY <3>1, <3>2, <3>3, HostClockAssumption DEF RestType
  <2>2. UartType
    <3>1. 0 \in Divisors /\ RxDepth \in Nat
      BY NoDivisor, HostClockAssumption
    <3>2. uart = [divisor |-> 0, dlab |-> FALSE, thr |-> 0, shift |-> "empty", rbr |-> 0]
      BY DEF Init
    <3> QED BY <3>1, <3>2 DEF UartType
  <2> QED BY <2>1, <2>2
<1>2. Inv /\ [Next]_vars => Inv'
  BY RestStep, UartStep, TargetStep
<1>3. Inv => TypeOK
  BY DEF TypeOK, RestType, UartType, TargetInv
<1> QED BY <1>1, <1>2, <1>3, PTL DEF Spec
=============================================================================
