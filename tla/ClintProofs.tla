----------------------------- MODULE ClintProofs -----------------------------
(***************************************************************************)
(* Proofs about Clint: reads and waits are right for every width of the    *)
(* counter's words, every sequence of calls and every moment at which the  *)
(* counter moves or an interrupt comes.                                    *)
(***************************************************************************)
EXTENDS Clint, TLAPS

\* Where the program is between the call of clint_get_mtime and its return.
Reading == {"high", "low", "check"}

\* The program's place fits the call it is in.
PlaceInv ==
    /\ pc = "app" \/ call.n \in Ticks
    /\ pc \in Conts => cont = pc
    /\ pc \in {"cmphigh", "cmplow", "mtie", "mie", "wfi", "waiting"} => cont = "test"
    /\ pc # "app" =>
          /\ cont \in {"begin", "test", "spin"} <=> call.op \in {"sleep", "spin"}
          /\ cont \in {"edge0", "edge", "measure"} <=> call.op = "freq"
          /\ cont = "begin" => mtime <= MaxTime
          /\ began <= since

\* What the words that were read so far say about the counter.
ReadInv ==
    /\ pc = "low" => now.high <= mtime \div Base
    /\ pc = "check" => \E m \in since..mtime :
                          m % Base = now.low /\ now.high <= m \div Base

\* The time that a call waits for, and the comparator it relies on.
TargetInv ==
    /\ pc # "app" /\ cont \in {"test", "spin"} => Value(target) >= began + call.n
    /\ pc # "app" /\ cont = "measure" => target = LaterNoCarry(start, call.n)
    /\ pc = "cmplow" => cmp.high = target.high
    /\ pc \in {"mtie", "mie", "wfi", "waiting"} => cmp = target

IInv ==
    /\ TypeOK
    /\ PlaceInv
    /\ ReadInv
    /\ MtimeAtomic
    /\ TargetInv
    /\ WaitsLongEnough

-----------------------------------------------------------------------------
(* Times in two words.                                                     *)

LEMMA Multiples ==
    ASSUME NEW b \in Nat, NEW m \in Nat, NEW n \in Nat
    PROVE  /\ m * b \in Nat
           /\ (m + 1) * b = m * b + b
           /\ m <= n => m * b <= n * b
OBVIOUS

LEMMA Words ==
    ASSUME NEW t \in Nat
    PROVE  /\ t \div Base \in Nat
           /\ t % Base \in 0 .. Base - 1
           /\ t % Base = t - (t \div Base) * Base
BY ClintAssumption

LEMMA SmallWord ==
    ASSUME NEW t \in 0 .. Base - 1
    PROVE  t % Base = t
<1>1. t = 0 * Base + t
  BY ClintAssumption
<1> QED
  BY <1>1, ClintAssumption

LEMMA WordsMonotone ==
    ASSUME NEW s \in Nat, NEW t \in Nat, s <= t
    PROVE  s \div Base <= t \div Base
<1>1. /\ s % Base = s - (s \div Base) * Base
      /\ t % Base = t - (t \div Base) * Base
      /\ s \div Base \in Nat /\ t \div Base \in Nat
      /\ s % Base \in 0 .. Base - 1 /\ t % Base \in 0 .. Base - 1
  BY Words
<1>2. SUFFICES ASSUME (t \div Base) + 1 <= s \div Base PROVE FALSE
  BY <1>1
<1>3. ((t \div Base) + 1) * Base <= (s \div Base) * Base
  BY <1>1, <1>2, Multiples, ClintAssumption
<1>4. ((t \div Base) + 1) * Base = (t \div Base) * Base + Base
  BY <1>1, Multiples, ClintAssumption
<1>5. /\ (t \div Base) * Base \in Nat /\ (s \div Base) * Base \in Nat
  BY <1>1, Multiples, ClintAssumption
<1> QED
  BY <1>1, <1>3, <1>4, <1>5, ClintAssumption

LEMMA TimeType ==
    ASSUME NEW t \in 0 .. Base * Base - 1
    PROVE  Time(t) \in Times /\ Value(Time(t)) = t
<1>1. /\ t \in Nat
      /\ t \div Base \in Nat /\ t % Base \in 0 .. Base - 1
      /\ t % Base = t - (t \div Base) * Base
      /\ t < Base * Base
  <2>1. Base \in Nat \ {0} /\ Base * Base \in Nat
    BY Words, ClintAssumption
  <2>2. t \in Nat /\ t < Base * Base
    BY <2>1
  <2>3. \A n \in Nat, b \in Nat \ {0} :
           n \div b \in Nat /\ n % b \in 0 .. b - 1 /\ n % b = n - (n \div b) * b
    OBVIOUS
  <2> QED
    BY <2>1, <2>2, <2>3
<1>2. t \div Base < Base
  <2>1. SUFFICES ASSUME Base <= t \div Base PROVE FALSE
    BY <1>1, ClintAssumption
  <2>2. Base * Base <= (t \div Base) * Base
    BY <2>1, <1>1, Multiples, ClintAssumption
  <2>3. Base * Base \in Nat /\ (t \div Base) * Base \in Nat
    BY <1>1, Multiples, ClintAssumption
  <2> QED
    BY <1>1, <2>2, <2>3, ClintAssumption
<1> QED
  BY <1>1, <1>2, ClintAssumption DEF Time, Times, Value

LEMMA ValueType ==
    ASSUME NEW a \in Times
    PROVE  /\ a.high \in 0 .. Base - 1 /\ a.low \in 0 .. Base - 1
           /\ a.high * Base \in Nat
           /\ Value(a) \in Nat
<1>1. a.high \in 0 .. Base - 1 /\ a.low \in 0 .. Base - 1
  BY DEF Times
<1>2. a.high * Base \in Nat
  BY <1>1, Multiples, ClintAssumption
<1> QED
  BY <1>1, <1>2 DEF Value

(* clint_mtime_less_than compares the 64-bit values.                       *)
LEMMA LessThanByValue ==
    ASSUME NEW a \in Times, NEW b \in Times
    PROVE  LessThan(a, b) <=> Value(a) < Value(b)
<1>1. /\ a.high \in Nat /\ a.low \in 0 .. Base - 1 /\ a.high * Base \in Nat
      /\ b.high \in Nat /\ b.low \in 0 .. Base - 1 /\ b.high * Base \in Nat
  BY ValueType, ClintAssumption
<1>2. CASE a.high < b.high
  <2>1. a.high * Base + Base <= b.high * Base
    BY <1>1, <1>2, Multiples, ClintAssumption
  <2> QED
    BY <1>1, <1>2, <2>1, ClintAssumption DEF LessThan, Value
<1>3. CASE b.high < a.high
  <2>1. b.high * Base + Base <= a.high * Base
    BY <1>1, <1>3, Multiples, ClintAssumption
  <2> QED
    BY <1>1, <1>3, <2>1, ClintAssumption DEF LessThan, Value
<1>4. CASE a.high = b.high
  BY <1>1, <1>4 DEF LessThan, Value
<1> QED
  BY <1>1, <1>2, <1>3, <1>4

LEMMA NoCarryType ==
    ASSUME NEW t \in Times, NEW n \in Nat
    PROVE  /\ LaterNoCarry(t, n) \in Times
           /\ t.low + n < Base => Value(LaterNoCarry(t, n)) = Value(t) + n
<1>1. t.high \in 0 .. Base - 1 /\ t.low \in 0 .. Base - 1 /\ t.high * Base \in Nat
  BY ValueType
<1>2. (t.low + n) % Base \in 0 .. Base - 1
  <2>1. t.low + n \in Nat
    BY <1>1, ClintAssumption
  <2> QED
    BY <2>1, Words
<1>3. ASSUME t.low + n < Base PROVE (t.low + n) % Base = t.low + n
  <2>1. t.low + n \in 0 .. Base - 1
    BY <1>1, <1>3, ClintAssumption
  <2> QED
    BY <2>1, SmallWord
<1>4. LaterNoCarry(t, n) = [high |-> t.high, low |-> (t.low + n) % Base]
  BY DEF LaterNoCarry, Times
<1> QED
  BY <1>1, <1>2, <1>3, <1>4 DEF Times, Value

(* The carry of clint_sleep_ticks and clint_spin_ticks: the low word has   *)
(* wrapped around when it is less than before.                             *)
LEMMA LaterValue ==
    ASSUME NEW t \in Times, NEW n \in 1 .. Base - 1, Value(t) + n < Base * Base
    PROVE  Later(t, n) \in Times /\ Value(Later(t, n)) = Value(t) + n
<1>1. /\ t.high \in 0 .. Base - 1 /\ t.low \in 0 .. Base - 1
      /\ t.high * Base \in Nat /\ n \in Nat
  BY ValueType, ClintAssumption
<1> DEFINE low == (t.low + n) % Base
<1>2. CASE t.low + n < Base
  <2>1. low = t.low + n
    BY <1>1, <1>2, ClintAssumption
  <2>2. Later(t, n) = [high |-> t.high, low |-> low]
    BY <1>1, <2>1, ClintAssumption DEF Later
  <2>3. low \in 0 .. Base - 1
    <3>1. t.low \in Nat /\ n \in Nat /\ Base \in Nat
      BY <1>1, ClintAssumption
    <3> HIDE DEF low
    <3> QED
      BY <1>2, <2>1, <3>1
  <2>4. Later(t, n) \in Times
    BY <1>1, <2>2, <2>3 DEF Times
  <2>5. Value(Later(t, n)) = t.high * Base + low /\ Value(t) = t.high * Base + t.low
    BY <2>2 DEF Value
  <2> HIDE DEF low
  <2> QED
    BY <1>1, <2>1, <2>4, <2>5
<1>3. CASE t.low + n >= Base
  <2>0. \A x \in Nat, b \in Nat \ {0} : b <= x /\ x < 2 * b => x % b = x - b
    OBVIOUS
  <2>1. low = t.low + n - Base /\ low < t.low /\ low \in 0 .. Base - 1
    <3>1. t.low \in Nat /\ t.low < Base /\ n < Base /\ Base \in Nat \ {0}
      BY <1>1, ClintAssumption
    <3>2. t.low + n \in Nat /\ t.low + n < 2 * Base /\ Base <= t.low + n
      BY <1>1, <1>3, <3>1
    <3>3. low = t.low + n - Base
      BY <2>0, <3>1, <3>2
    <3> HIDE DEF low
    <3> QED
      BY <1>1, <3>1, <3>2, <3>3
  <2>2. t.high + 1 < Base
    <3>1. SUFFICES ASSUME Base <= t.high + 1 PROVE FALSE
      BY <1>1, ClintAssumption
    <3>2. Base * Base <= (t.high + 1) * Base
      BY <1>1, <3>1, Multiples, ClintAssumption
    <3>3. (t.high + 1) * Base = t.high * Base + Base /\ Base * Base \in Nat
      BY <1>1, Multiples, ClintAssumption
    <3> QED
      BY <1>1, <1>3, <3>2, <3>3, ClintAssumption DEF Value
  <2>3. (t.high + 1) % Base = t.high + 1
    BY <1>1, <2>2, SmallWord, ClintAssumption
  <2>4. Later(t, n) = [high |-> t.high + 1, low |-> low]
    BY <2>1, <2>3 DEF Later
  <2>5. (t.high + 1) * Base = t.high * Base + Base
    BY <1>1, Multiples, ClintAssumption
  <2> QED
    BY <1>1, <1>3, <2>1, <2>2, <2>4, <2>5, ClintAssumption DEF Times, Value
<1> QED
  BY <1>1, <1>2, <1>3, ClintAssumption

-----------------------------------------------------------------------------
(* Types.                                                                  *)

LEMMA InitTypes == Init => TypeOK
<1> SUFFICES ASSUME Init PROVE TypeOK
  OBVIOUS
<1>1. MaxTime < Base * Base /\ Base * Base \in Nat /\ MaxTime \in Nat
  BY Multiples, ClintAssumption
<1>2. Time(0) \in Times /\ Time(MaxTime) \in Times
  BY <1>1, TimeType
<1>3. mtime \in 0 .. Base * Base - 1
  BY <1>1, ClintAssumption DEF Init
<1>4. call \in [op : Ops \cup {"none"}, n : Ticks \cup {0}]
  BY DEF Init
<1>5. /\ began \in 0..MaxTime /\ since \in 0..mtime
  BY <1>1, <1>3, ClintAssumption DEF Init
<1> QED
  BY <1>2, <1>3, <1>4, <1>5 DEF Init, TypeOK, PCs, Conts

LEMMA CallType ==
    TypeOK => call.n \in 0 .. Base - 1 /\ call.n \in Nat
<1>1. TypeOK => call.n \in Ticks \cup {0}
  BY DEF TypeOK
<1>2. Ticks \cup {0} \subseteq 0 .. Base - 1
  BY ClintAssumption
<1> QED
  BY <1>1, <1>2

LEMMA TypeStep == TypeOK /\ PlaceInv /\ MtimeAtomic /\ [Next]_vars => TypeOK'
<1> SUFFICES ASSUME TypeOK, PlaceInv, MtimeAtomic, [Next]_vars PROVE TypeOK'
  OBVIOUS
<1>0. Base * Base \in Nat /\ Base \in Nat \ {0}
  BY Multiples, ClintAssumption
<1> USE DEF TypeOK, timeVars, irqVars, progVars
<1>1. CASE Tick
  <2>1. call.n \in 0 .. Base - 1
    BY CallType
  <2>2. Horizon <= MaxTime + 2 + call.n
    BY <2>1, ClintAssumption DEF Horizon
  <2>3. Horizon \in Nat
    BY <2>1, ClintAssumption DEF Horizon
  <2>4. mtime' \in 0 .. Base * Base - 1 /\ since' \in 0..mtime'
    BY <1>0, <1>1, <2>1, <2>2, <2>3, ClintAssumption DEF Tick
  <2> QED
    BY <1>1, <2>4 DEF Tick
<1>2. CASE RingHost \/ TakeTrap \/ SetMie
  BY <1>2 DEF RingHost, TakeTrap, SetMie, PCs
<1>3. CASE \E op \in Ops, n \in Ticks : Call(op, n)
  <2>1. PICK op \in Ops, n \in Ticks : Call(op, n)
    BY <1>3
  <2>2. call' \in [op : Ops \cup {"none"}, n : Ticks \cup {0}]
    BY <2>1 DEF Call
  <2>3. began' \in 0..MaxTime /\ since' \in 0..mtime' /\ mtime' = mtime
    BY <1>0, <2>1, ClintAssumption DEF Call, GetMtime
  <2> QED
    BY <2>1, <2>2, <2>3 DEF Call, GetMtime, Goto, PCs, Conts
<1>4. CASE ReadHigh \/ ReadLow
  <2>1. Time(mtime).high \in 0 .. Base - 1 /\ Time(mtime).low \in 0 .. Base - 1
    BY TimeType DEF Times
  <2>2. now' \in Times
    BY <1>4, <2>1 DEF ReadHigh, ReadLow, Times
  <2> QED
    BY <1>4, <2>2 DEF ReadHigh, ReadLow, Goto, PCs
<1>5. CASE CheckHigh
  BY <1>5 DEF CheckHigh, Goto, PCs, Conts
<1>6. CASE ComputeTarget
  <2>1. pc = "begin" /\ target' = Later(now, call.n)
    BY <1>6 DEF ComputeTarget, GetMtime, Goto
  <2>2. /\ call.n \in Ticks /\ mtime <= MaxTime /\ Value(now) <= mtime
        /\ Value(now) \in Nat
    BY <2>1, ValueType DEF PlaceInv, MtimeAtomic, Conts
  <2>3. call.n \in 1 .. Base - 1
    BY <2>2, ClintAssumption
  <2>4. Value(now) + call.n < Base * Base
    BY <1>0, <2>2, <2>3, ClintAssumption
  <2>5. target' \in Times
    BY <2>1, <2>3, <2>4, LaterValue
  <2> QED
    BY <1>6, <2>5 DEF ComputeTarget, GetMtime, Goto, PCs, Conts
<1>7. CASE SpinUntil \/ Measure
  BY <1>7 DEF SpinUntil, Measure, GetMtime, Goto, PCs, Conts
<1>8. CASE TestPast \/ Wfi \/ Wake
  BY <1>8 DEF TestPast, Wfi, Wake, Goto, PCs
<1>9. CASE WriteCmpHigh \/ WriteCmpLow
  BY <1>9 DEF WriteCmpHigh, WriteCmpLow, Goto, PCs, Times
<1>10. CASE EnableTimer \/ EnableInterrupts
  BY <1>10 DEF EnableTimer, EnableInterrupts, Goto, PCs
<1>11. CASE FirstEdge
  BY <1>11 DEF FirstEdge, GetMtime, Goto, PCs, Conts
<1>12. CASE NextEdge
  <2>1. call.n \in Nat
    BY CallType
  <2>2. target' \in Times
    BY <1>12, <2>1, NoCarryType DEF NextEdge
  <2> QED
    BY <1>12, <2>2 DEF NextEdge, GetMtime, Goto, PCs, Conts
<1>13. CASE UNCHANGED vars
  BY <1>13 DEF vars
<1> QED
  BY <1>1, <1>2, <1>3, <1>4, <1>5, <1>6, <1>7, <1>8, <1>9, <1>10, <1>11, <1>12, <1>13
     DEF Next, DriverStep

-----------------------------------------------------------------------------
(* Where the program is.                                                   *)

LEMMA PlaceStep == TypeOK /\ PlaceInv /\ [Next]_vars => PlaceInv'
<1> SUFFICES ASSUME TypeOK, PlaceInv, [Next]_vars PROVE PlaceInv'
  OBVIOUS
<1> USE DEF PlaceInv, timeVars, irqVars, progVars, Goto, GetMtime, Conts, PCs
<1>1. CASE Tick
  BY <1>1, ClintAssumption DEF Tick, Horizon, TypeOK
<1>2. CASE RingHost \/ TakeTrap \/ SetMie
  BY <1>2 DEF RingHost, TakeTrap, SetMie
<1>3. CASE \E op \in Ops, n \in Ticks : Call(op, n)
  <2>1. PICK op \in Ops, n \in Ticks : Call(op, n)
    BY <1>3
  <2> QED
    BY <2>1, ClintAssumption DEF Call, TypeOK
<1>4. CASE ReadHigh \/ ReadLow \/ CheckHigh
  BY <1>4 DEF ReadHigh, ReadLow, CheckHigh, TypeOK
<1>5. CASE ComputeTarget
  BY <1>5 DEF ComputeTarget, TypeOK
<1>6. CASE SpinUntil \/ Measure
  BY <1>6 DEF SpinUntil, Measure, TypeOK
<1>7. CASE TestPast \/ Wfi \/ Wake
  BY <1>7 DEF TestPast, Wfi, Wake
<1>8. CASE WriteCmpHigh \/ WriteCmpLow \/ EnableTimer \/ EnableInterrupts
  BY <1>8 DEF WriteCmpHigh, WriteCmpLow, EnableTimer, EnableInterrupts
<1>9. CASE FirstEdge \/ NextEdge
  BY <1>9 DEF FirstEdge, NextEdge, TypeOK
<1>10. CASE UNCHANGED vars
  BY <1>10 DEF vars
<1> QED
  BY <1>1, <1>2, <1>3, <1>4, <1>5, <1>6, <1>7, <1>8, <1>9, <1>10 DEF Next, DriverStep

-----------------------------------------------------------------------------
(* What is read.                                                           *)

(* The high word before, the low word, and the same high word after: the   *)
(* counter had this value when the low word was read.                      *)
LEMMA Assembled ==
    ASSUME NEW w \in Times, NEW m \in Nat, NEW t \in Nat, m <= t,
           m % Base = w.low, w.high <= m \div Base, w.high = t \div Base
    PROVE  Value(w) = m
<1>1. m \div Base <= t \div Base /\ m \div Base \in Nat /\ w.high \in Nat
  BY WordsMonotone, Words, ValueType
<1>2. m \div Base = w.high
  BY <1>1
<1>3. w.low = m - w.high * Base
  BY <1>2, Words
<1> QED
  BY <1>3, ValueType DEF Value

LEMMA ReadStep ==
    TypeOK /\ TypeOK' /\ PlaceInv /\ ReadInv /\ MtimeAtomic /\ [Next]_vars
        => ReadInv' /\ MtimeAtomic'
<1> SUFFICES ASSUME TypeOK, TypeOK', PlaceInv, ReadInv, MtimeAtomic, [Next]_vars
             PROVE  ReadInv' /\ MtimeAtomic'
  OBVIOUS
<1>0. mtime \in Nat /\ since \in Nat /\ since <= mtime /\ Value(now) \in Nat
  BY ValueType, ClintAssumption DEF TypeOK
<1>1. CASE Tick
  <2>1. /\ mtime' = mtime + 1 /\ since' = since /\ now' = now /\ pc' = pc
        /\ Value(now)' = Value(now)
    BY <1>1 DEF Tick, progVars, Value
  <2>2. pc = "low" => now.high <= mtime' \div Base
    <3>1. mtime \div Base <= mtime' \div Base
      BY <1>0, <2>1, WordsMonotone
    <3>2. mtime \div Base \in Nat /\ mtime' \div Base \in Nat /\ now.high \in Nat
      BY <1>0, <2>1, Words, ValueType DEF TypeOK
    <3> QED
      BY <3>1, <3>2 DEF ReadInv
  <2>3. since..mtime \subseteq since..mtime'
    BY <1>0, <2>1
  <2>4. ReadInv'
    BY <2>1, <2>2, <2>3 DEF ReadInv
  <2>5. MtimeAtomic'
    BY <1>0, <2>1 DEF MtimeAtomic
  <2> QED
    BY <2>4, <2>5
<1>2. CASE ReadHigh
  <2>1. /\ pc' = "low" /\ mtime' = mtime
        /\ now'.high = mtime \div Base
    BY <1>2 DEF ReadHigh, Goto, timeVars, Time, TypeOK, Times
  <2>2. mtime \div Base \in Nat
    BY <1>0, Words
  <2> QED
    BY <2>1, <2>2 DEF ReadInv, MtimeAtomic, Conts
<1>3. CASE ReadLow
  <2>1. /\ pc' = "check" /\ pc = "low" /\ mtime' = mtime /\ since' = since
        /\ now'.low = mtime % Base /\ now'.high = now.high
    BY <1>3 DEF ReadLow, Goto, timeVars, Time, TypeOK, Times
  <2>2. mtime \in since' .. mtime'
    BY <1>0, <2>1
  <2> QED
    BY <2>1, <2>2 DEF ReadInv, MtimeAtomic, Conts
<1>4. CASE CheckHigh
  <2>1. /\ pc = "check" /\ pc' = (IF now.high = mtime \div Base THEN cont ELSE "high")
        /\ mtime' = mtime /\ since' = since /\ now' = now
    BY <1>4 DEF CheckHigh, Goto, timeVars, Time
  <2>2. PICK m \in since..mtime : m % Base = now.low /\ now.high <= m \div Base
    BY <2>1 DEF ReadInv
  <2>3. now.high = mtime \div Base => Value(now) = m
    BY <1>0, <2>2, Assembled DEF TypeOK
  <2>4. MtimeAtomic'
    BY <1>0, <2>1, <2>2, <2>3 DEF MtimeAtomic, Conts, Value
  <2> QED
    BY <2>1, <2>4 DEF ReadInv, TypeOK, Conts
<1>5. CASE \E op \in Ops, n \in Ticks : Call(op, n)
  BY <1>5 DEF Call, GetMtime, Goto, ReadInv, MtimeAtomic, Conts
<1>6. CASE ComputeTarget \/ FirstEdge \/ NextEdge
  BY <1>6 DEF ComputeTarget, FirstEdge, NextEdge, GetMtime, Goto, ReadInv, MtimeAtomic, Conts
<1>7. CASE SpinUntil \/ Measure
  BY <1>7 DEF SpinUntil, Measure, GetMtime, Goto, ReadInv, MtimeAtomic, Conts
<1>8. CASE RingHost \/ TakeTrap \/ SetMie \/ UNCHANGED vars
  <2>1. /\ pc' = pc \/ pc' = "app"
        /\ mtime' = mtime /\ since' = since /\ now' = now
    BY <1>8 DEF RingHost, TakeTrap, SetMie, vars, timeVars, progVars
  <2> QED
    BY <2>1 DEF ReadInv, MtimeAtomic, Value, Conts
<1>9. CASE TestPast \/ Wfi \/ Wake
  BY <1>9 DEF TestPast, Wfi, Wake, Goto, ReadInv, MtimeAtomic, Conts
<1>10. CASE WriteCmpHigh \/ WriteCmpLow \/ EnableTimer \/ EnableInterrupts
  BY <1>10 DEF WriteCmpHigh, WriteCmpLow, EnableTimer, EnableInterrupts, Goto, ReadInv,
               MtimeAtomic, Conts
<1> QED
  BY <1>1, <1>2, <1>3, <1>4, <1>5, <1>6, <1>7, <1>8, <1>9, <1>10 DEF Next, DriverStep

-----------------------------------------------------------------------------
(* What is waited for.                                                     *)

LEMMA TargetStep ==
    TypeOK /\ PlaceInv /\ MtimeAtomic /\ TargetInv /\ [Next]_vars => TargetInv'
<1> SUFFICES ASSUME TypeOK, PlaceInv, MtimeAtomic, TargetInv, [Next]_vars PROVE TargetInv'
  OBVIOUS
<1> USE DEF TargetInv, Goto, timeVars, progVars
<1>1. CASE Tick \/ RingHost \/ TakeTrap \/ SetMie \/ UNCHANGED vars
  <2>1. /\ pc' = pc \/ pc' = "app"
        /\ <<cont, target, start, call, began, cmp>>' = <<cont, target, start, call, began, cmp>>
    BY <1>1 DEF Tick, RingHost, TakeTrap, SetMie, vars, irqVars
  <2> QED
    BY <2>1 DEF Value
<1>2. CASE \E op \in Ops, n \in Ticks : Call(op, n)
  BY <1>2 DEF Call, GetMtime
<1>3. CASE ReadHigh \/ ReadLow \/ CheckHigh
  <2>1. /\ pc' \in Reading \cup {cont} /\ pc \in Reading
        /\ <<cont, target, start, call, began, cmp>>' = <<cont, target, start, call, began, cmp>>
    BY <1>3 DEF ReadHigh, ReadLow, CheckHigh, irqVars, Reading
  <2> QED
    BY <2>1 DEF Value, Reading, TypeOK, Conts
<1>4. CASE ComputeTarget
  <2>1. /\ pc = "begin" /\ pc' = "high" /\ target' = Later(now, call.n)
        /\ cont' \in {"test", "spin"} /\ began' = began /\ call' = call
    BY <1>4 DEF ComputeTarget, GetMtime
  <2>2. /\ call.n \in Ticks /\ mtime <= MaxTime /\ Value(now) <= mtime
        /\ began <= since /\ since <= Value(now) /\ Value(now) \in Nat
    BY <2>1, ValueType DEF PlaceInv, MtimeAtomic, Conts, TypeOK
  <2>3. call.n \in 1 .. Base - 1 /\ Base * Base \in Nat
    BY <2>2, Multiples, ClintAssumption
  <2>4. Value(now) + call.n < Base * Base
    BY <2>2, <2>3, ClintAssumption DEF TypeOK
  <2>5. Value(target') = Value(now) + call.n
    BY <2>1, <2>3, <2>4, LaterValue DEF TypeOK
  <2>6. Value(target)' >= (began + call.n)'
    BY <2>1, <2>2, <2>3, <2>5 DEF Value, TypeOK
  <2> QED
    BY <2>1, <2>6
<1>5. CASE SpinUntil \/ Measure
  <2>1. /\ \/ pc' = "app"
           \/ pc' = "high" /\ cont' = pc /\ pc \in Conts
        /\ <<target, start, call, began, cmp>>' = <<target, start, call, began, cmp>>
    BY <1>5 DEF SpinUntil, Measure, GetMtime, irqVars, Conts
  <2> QED
    BY <2>1 DEF Value, PlaceInv, Conts
<1>6. CASE TestPast \/ Wfi \/ Wake
  <2>1. <<cont, target, start, call, began, cmp>>' = <<cont, target, start, call, began, cmp>>
    BY <1>6 DEF TestPast, Wfi, Wake, irqVars
  <2> QED
    BY <1>6, <2>1 DEF TestPast, Wfi, Wake, Value, Conts
<1>7. CASE WriteCmpHigh \/ WriteCmpLow
  <2>1. <<cont, target, start, call, began>>' = <<cont, target, start, call, began>>
    BY <1>7 DEF WriteCmpHigh, WriteCmpLow
  <2>2. WriteCmpLow => cmp' = target
    <3>1. WriteCmpLow => cmp'.high = target.high /\ cmp'.low = target.low /\ cmp' \in Times
      BY DEF WriteCmpLow, TypeOK, Times
    <3> QED
      BY <3>1 DEF TypeOK, Times
  <2>3. WriteCmpHigh => cmp'.high = target.high
    BY DEF WriteCmpHigh, TypeOK, Times
  <2> QED
    BY <1>7, <2>1, <2>2, <2>3 DEF WriteCmpHigh, WriteCmpLow, Value, Conts
<1>8. CASE EnableTimer \/ EnableInterrupts
  <2>1. <<cont, target, start, call, began, cmp>>' = <<cont, target, start, call, began, cmp>>
    BY <1>8 DEF EnableTimer, EnableInterrupts
  <2> QED
    BY <1>8, <2>1 DEF EnableTimer, EnableInterrupts, Value
<1>9. CASE FirstEdge \/ NextEdge
  BY <1>9 DEF FirstEdge, NextEdge, GetMtime
<1> QED
  BY <1>1, <1>2, <1>3, <1>4, <1>5, <1>6, <1>7, <1>8, <1>9 DEF Next, DriverStep

LEMMA WaitStep == IInv /\ [Next]_vars => WaitsLongEnough'
<1> SUFFICES ASSUME IInv, [Next]_vars, pc' = "app" PROVE WaitsLongEnough'
  BY DEF WaitsLongEnough
<1>0. /\ TypeOK /\ mtime \in Nat /\ began \in Nat /\ call.n \in Nat
      /\ Value(now) \in Nat /\ Value(target) \in Nat /\ Value(start) \in Nat
  BY CallType, ValueType, ClintAssumption DEF IInv, TypeOK
<1>1. CASE pc = "app"
  <2>1. /\ call' = call /\ began' = began /\ start' = start /\ now' = now
        /\ mtime' = mtime \/ mtime' = mtime + 1
    BY <1>1 DEF Next, DriverStep, Tick, RingHost, TakeTrap, SetMie, Call, GetMtime, Goto,
         ReadHigh, ReadLow, CheckHigh, ComputeTarget, SpinUntil, TestPast, WriteCmpHigh,
         WriteCmpLow, EnableTimer, EnableInterrupts, Wfi, Wake, FirstEdge, NextEdge,
         Measure, vars, timeVars, progVars
  <2> QED
    BY <1>0, <1>1, <2>1 DEF IInv, WaitsLongEnough, Value
<1>2. CASE pc # "app"
  <2>1. \/ pc = "waiting" /\ Mtip
        \/ pc = "test" /\ LessThan(target, now)
        \/ pc = "spin" /\ ~LessThan(now, target)
        \/ pc = "measure" /\ ~LessThan(now, target)
    BY <1>0, <1>2 DEF Next, DriverStep, Tick, RingHost, TakeTrap, SetMie, Call, GetMtime, Goto,
         ReadHigh, ReadLow, CheckHigh, ComputeTarget, SpinUntil, TestPast, WriteCmpHigh,
         WriteCmpLow, EnableTimer, EnableInterrupts, Wfi, Wake, FirstEdge, NextEdge,
         Measure, vars, timeVars, progVars, TypeOK, Conts
  <2>2. <<call, began, start, now, mtime>>' = <<call, began, start, now, mtime>>
    BY <1>0, <1>2 DEF Next, DriverStep, Tick, RingHost, TakeTrap, SetMie, Call, GetMtime, Goto,
         ReadHigh, ReadLow, CheckHigh, ComputeTarget, SpinUntil, TestPast, WriteCmpHigh,
         WriteCmpLow, EnableTimer, EnableInterrupts, Wfi, Wake, FirstEdge, NextEdge,
         Measure, vars, timeVars, progVars, TypeOK, Conts
  <2>3. /\ LessThan(target, now) => Value(target) <= Value(now)
        /\ ~LessThan(now, target) => Value(target) <= Value(now)
    BY <1>0, LessThanByValue DEF TypeOK
  <2>4. call.op \in {"sleep", "spin"} => mtime >= began + call.n
    BY <1>0, <1>2, <2>1, <2>3 DEF IInv, PlaceInv, TargetInv, MtimeAtomic, Mtip, Conts
  <2>5. call.op = "freq" /\ start.low + call.n < Base => Value(now) >= Value(start) + call.n
    BY <1>0, <1>2, <2>1, <2>3, NoCarryType DEF IInv, PlaceInv, TargetInv, TypeOK, Conts
  <2> QED
    BY <2>2, <2>4, <2>5 DEF WaitsLongEnough, Value
<1> QED
  BY <1>1, <1>2

-----------------------------------------------------------------------------

(* What is known between any two steps of the driver, the counter and the  *)
(* interrupts, for every width of the words and every number of ticks.     *)
THEOREM ClintInvariance == Spec => []IInv
<1>1. Init => IInv
  <2> SUFFICES ASSUME Init PROVE IInv
    OBVIOUS
  <2>1. TypeOK
    BY InitTypes
  <2> QED
    BY <2>1 DEF Init, IInv, PlaceInv, ReadInv, MtimeAtomic, TargetInv, WaitsLongEnough, Conts
<1>2. IInv /\ [Next]_vars => IInv'
  BY TypeStep, PlaceStep, ReadStep, TargetStep, WaitStep DEF IInv
<1> QED
  BY <1>1, <1>2, PTL DEF Spec

(* The types, a time that the counter really had from clint_get_mtime, and *)
(* no wait of clint_sleep_ticks, clint_spin_ticks or clint_get_core_freq   *)
(* that ends early.                                                        *)
THEOREM ClintSafety == Spec => [](TypeOK /\ MtimeAtomic /\ WaitsLongEnough)
<1>1. IInv => TypeOK /\ MtimeAtomic /\ WaitsLongEnough
  BY DEF IInv
<1> QED
  BY <1>1, ClintInvariance, PTL
=============================================================================
