------------------------------- MODULE Clint -------------------------------
(***************************************************************************)
(* Time and sleep on the host: the CLINT driver (host/drivers/clint32) and *)
(* the trap vector that ends a sleep (host/runtime/src/clint.c).  The      *)
(* CLINT's 64-bit counter goes on while the driver reads it word by word,  *)
(* and the timer interrupt can come between any two instructions.          *)
(*                                                                         *)
(* One action is one access to a register of the CLINT or of the hart.     *)
(***************************************************************************)
EXTENDS Integers

CONSTANTS
    Base,       \* 2^32: what a register of the CLINT holds is below it
    MaxTime,    \* bound: no call starts after this time
    InitTimes,  \* where the counter starts
    Ticks,      \* the numbers of ticks the application passes
    Ops         \* the calls it makes: "sleep", "spin", "freq"

ASSUME ClintAssumption ==
    /\ Base \in Nat \ {0}
    /\ MaxTime \in Nat /\ MaxTime + Base + 2 < Base * Base
    /\ InitTimes \subseteq 0..MaxTime
    /\ Ticks \subseteq 1 .. Base - 1
    /\ Ops \subseteq {"sleep", "spin", "freq"}

VARIABLES
    mtime,      \* the counter
    cmp,        \* mtimecmp, as two words
    msip,       \* the host's software interrupt bit, set by the clusters
    mtie,       \* mie.MTIE
    mie,        \* mstatus.MIE
    pc,         \* where the program is
    cont,       \* where it goes on after clint_get_mtime
    now,        \* the time clint_get_mtime reads, as two words
    call,       \* the call the application is in, and its argument
    target,     \* tgt_mtime
    start,      \* start, in clint_get_core_freq
    began,      \* the counter when the application made the call
    since       \* the counter when clint_get_mtime was called

timeVars == <<mtime, began, since>>
irqVars  == <<cmp, msip, mtie, mie>>
progVars == <<pc, cont, now, call, target, start>>
vars == <<timeVars, irqVars, progVars>>

Time(t) == [high |-> t \div Base, low |-> t % Base]
Value(w) == w.high * Base + w.low
Times == [high : 0..Base-1, low : 0..Base-1]

PCs == {"app", "high", "low", "check", "begin", "test",
        "spin", "cmphigh", "cmplow", "mtie", "mie", "wfi", "waiting",
        "edge0", "edge", "measure"}
Conts == {"begin", "test", "spin", "edge0", "edge", "measure"}

\* mip.MTIP
Mtip == mtime >= Value(cmp)

\* clint_mtime_less_than
LessThan(a, b) == a.high < b.high \/ (a.high = b.high /\ a.low < b.low)

\* {start.low + num_ticks, start.high}, as in clint_get_core_freq.
LaterNoCarry(t, n) == [t EXCEPT !.low = (@ + n) % Base]

\* Plausible bugs of Later: no carry; a sum that does not wrap around.
BugNoCarry(t, n) == LaterNoCarry(t, n)
BugNoWrap(t, n) == [t EXCEPT !.low = @ + n]

\* The same with a carry into the high word, as in the other functions.
Later(t, n) ==
    LET low == (t.low + n) % Base
    IN [high |-> IF low < t.low THEN (t.high + 1) % Base ELSE t.high, low |-> low]

Init ==
    /\ mtime \in InitTimes
    /\ cmp \in {Time(0), Time(MaxTime)}
    /\ msip = FALSE
    /\ mtie = FALSE
    /\ mie = FALSE
    /\ pc = "app"
    /\ cont = "begin"
    /\ now = Time(0)
    /\ call = [op |-> "none", n |-> 0]
    /\ target = Time(0)
    /\ start = Time(0)
    /\ began = 0
    /\ since = 0

Goto(from, to) == pc = from /\ pc' = to

\* A call of clint_get_mtime, after which the program goes on at c.
GetMtime(from, c) ==
    /\ Goto(from, "high")
    /\ cont' = c
    /\ since' = mtime

-----------------------------------------------------------------------------
(* Plausible bugs of the actions below.                                    *)

\* The high word is not read again.
BugNoRecheck ==
    /\ Goto("check", cont)
    /\ UNCHANGED <<timeVars, irqVars, cont, now, call, target, start>>

\* The words of mtimecmp are swapped.
BugCmpLow ==
    /\ Goto("cmplow", "mtie")
    /\ cmp' = [high |-> target.low, low |-> target.high]
    /\ UNCHANGED <<timeVars, msip, mtie, mie, cont, now, call, target, start>>

-----------------------------------------------------------------------------
(* The hardware: the counter, and a cluster that rings (putc.c).  The      *)
(* counter goes on for as long as the call in progress can wait for it.    *)
Horizon ==
    IF pc = "app" \/ cont \in {"begin", "edge0"} THEN MaxTime
    ELSE IF cont = "edge" THEN MaxTime + 1
    ELSE MaxTime + 2 + call.n

Tick ==
    /\ mtime < Horizon
    /\ mtime' = mtime + 1
    /\ UNCHANGED <<began, since, irqVars, progVars>>

RingHost ==
    /\ ~msip
    /\ msip' = TRUE
    /\ UNCHANGED <<timeVars, cmp, mtie, mie, progVars>>

(* default_trap_vector: a software interrupt is cleared, else the timer    *)
(* interrupt is disabled.  Only the timer's can bring the hart here: the   *)
(* software interrupt is not enabled.  A hart that waits goes on.          *)
TakeTrap ==
    /\ mie /\ mtie /\ Mtip
    /\ \/ msip /\ msip' = FALSE /\ UNCHANGED mtie
       \/ ~msip /\ mtie' = FALSE /\ UNCHANGED msip
    /\ pc' = IF pc = "waiting" THEN "app" ELSE pc
    /\ UNCHANGED <<timeVars, cmp, mie, cont, now, call, target, start>>

-----------------------------------------------------------------------------
\* clint_get_mtime: high, low, high again, until both agree.
ReadHigh ==
    /\ Goto("high", "low")
    /\ now' = [now EXCEPT !.high = Time(mtime).high]
    /\ UNCHANGED <<timeVars, irqVars, cont, call, target, start>>

ReadLow ==
    /\ Goto("low", "check")
    /\ now' = [now EXCEPT !.low = Time(mtime).low]
    /\ UNCHANGED <<timeVars, irqVars, cont, call, target, start>>

CheckHigh ==
    /\ Goto("check", IF now.high = Time(mtime).high THEN cont ELSE "high")
    /\ UNCHANGED <<timeVars, irqVars, cont, now, call, target, start>>

-----------------------------------------------------------------------------
\* The application: a call, or set_mie around an offload.
Call(op, n) ==
    /\ mtime < MaxTime
    /\ GetMtime("app", IF op = "freq" THEN "edge0" ELSE "begin")
    /\ call' = [op |-> op, n |-> n]
    /\ began' = mtime
    /\ UNCHANGED <<mtime, irqVars, now, target, start>>

SetMie ==
    /\ pc = "app"
    /\ mie' = ~mie
    /\ UNCHANGED <<timeVars, cmp, msip, mtie, progVars>>

\* clint_sleep_ticks and clint_spin_ticks: the target time.
ComputeTarget ==
    /\ GetMtime("begin", IF call.op = "sleep" THEN "test" ELSE "spin")
    /\ target' = Later(now, call.n)
    /\ UNCHANGED <<mtime, began, irqVars, now, call, start>>

\* clint_spin_until
SpinUntil ==
    /\ \/ /\ LessThan(now, target)
          /\ GetMtime("spin", "spin")
       \/ /\ ~LessThan(now, target)
          /\ Goto("spin", "app")
          /\ UNCHANGED <<cont, since>>
    /\ UNCHANGED <<mtime, began, irqVars, now, call, target, start>>

\* clint_sleep_until: return if the time has passed.
TestPast ==
    /\ Goto("test", IF LessThan(target, now) THEN "app" ELSE "cmphigh")
    /\ UNCHANGED <<timeVars, irqVars, cont, now, call, target, start>>

\* clint_set_mtimecmpx
WriteCmpHigh ==
    /\ Goto("cmphigh", "cmplow")
    /\ cmp' = [cmp EXCEPT !.high = target.high]
    /\ UNCHANGED <<timeVars, msip, mtie, mie, cont, now, call, target, start>>

WriteCmpLow ==
    /\ Goto("cmplow", "mtie")
    /\ cmp' = [cmp EXCEPT !.low = target.low]
    /\ UNCHANGED <<timeVars, msip, mtie, mie, cont, now, call, target, start>>

EnableTimer ==
    /\ Goto("mtie", "mie")
    /\ mtie' = TRUE
    /\ UNCHANGED <<timeVars, cmp, msip, mie, cont, now, call, target, start>>

EnableInterrupts ==
    /\ Goto("mie", "wfi")
    /\ mie' = TRUE
    /\ UNCHANGED <<timeVars, cmp, msip, mtie, cont, now, call, target, start>>

\* wfi waits until an interrupt is pending that is enabled in mie.
Wfi ==
    /\ Goto("wfi", "waiting")
    /\ UNCHANGED <<timeVars, irqVars, cont, now, call, target, start>>

Wake ==
    /\ mtie /\ Mtip
    /\ Goto("waiting", "app")
    /\ UNCHANGED <<timeVars, irqVars, cont, now, call, target, start>>

(* clint_get_core_freq: wait for the counter to move, then for call.n more *)
(* ticks.  (The cycle counter is left out.)                                *)
FirstEdge ==
    /\ GetMtime("edge0", "edge")
    /\ start' = now
    /\ UNCHANGED <<mtime, began, irqVars, now, call, target>>

NextEdge ==
    /\ GetMtime("edge", IF now = start THEN "edge" ELSE "measure")
    /\ start' = now
    /\ target' = LaterNoCarry(now, call.n)
    /\ UNCHANGED <<mtime, began, irqVars, now, call>>

Measure ==
    /\ \/ /\ LessThan(now, target)
          /\ GetMtime("measure", "measure")
       \/ /\ ~LessThan(now, target)
          /\ Goto("measure", "app")
          /\ UNCHANGED <<cont, since>>
    /\ UNCHANGED <<mtime, began, irqVars, now, call, target, start>>

DriverStep ==
    \/ ReadHigh \/ ReadLow \/ CheckHigh
    \/ ComputeTarget \/ SpinUntil
    \/ TestPast \/ WriteCmpHigh \/ WriteCmpLow \/ EnableTimer \/ EnableInterrupts
    \/ Wfi \/ Wake
    \/ FirstEdge \/ NextEdge \/ Measure

Next ==
    \/ Tick
    \/ RingHost
    \/ TakeTrap
    \/ \E op \in Ops, n \in Ticks : Call(op, n)
    \/ SetMie
    \/ DriverStep

(* Time goes on, the hart executes, and an enabled interrupt is taken.     *)
Fairness == WF_vars(Tick) /\ WF_vars(DriverStep) /\ WF_vars(TakeTrap)

Spec == Init /\ [][Next]_vars
FairSpec == Spec /\ Fairness

-----------------------------------------------------------------------------
TypeOK ==
    /\ mtime \in 0 .. Base * Base - 1 /\ began \in 0..MaxTime /\ since \in 0..mtime
    /\ cmp \in Times /\ now \in Times /\ target \in Times /\ start \in Times
    /\ msip \in BOOLEAN /\ mtie \in BOOLEAN /\ mie \in BOOLEAN
    /\ pc \in PCs /\ cont \in Conts
    /\ call \in [op : Ops \cup {"none"}, n : Ticks \cup {0}]

(* clint_get_mtime gives a value that the counter had at some moment       *)
(* between the call and the return, although it is read in pieces.         *)
MtimeAtomic ==
    pc \in Conts => since <= Value(now) /\ Value(now) <= mtime

(* clint_sleep_ticks and clint_spin_ticks return after the number of ticks *)
(* they were asked to wait for, or later, and clint_get_core_freq measures *)
(* over the number of ticks that its relative error is stated for, if the  *)
(* low word does not wrap around meanwhile: its end time has no carry.     *)
WaitsLongEnough ==
    /\ pc = "app" /\ call.op \in {"sleep", "spin"} => mtime >= began + call.n
    /\ pc = "app" /\ call.op = "freq" /\ start.low + call.n < Base =>
          Value(now) >= Value(start) + call.n

(* Waits end: clint_spin_ticks, the loops of clint_get_core_freq, and a    *)
(* sleep whose timer interrupt is still to come when wfi waits.            *)
WaitsEnd ==
    /\ call.op \in {"spin", "freq"} ~> pc = "app"
    /\ pc = "waiting" /\ mtie ~> pc = "app"

(* clint_sleep_until puts the core to sleep until the time is reached, and *)
(* no longer: the trap vector disables mtie so that it can return.         *)
SleepEnds == pc = "waiting" ~> pc = "app"
=============================================================================
