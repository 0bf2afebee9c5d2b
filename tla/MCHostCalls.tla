---------------------------- MODULE MCHostCalls ----------------------------
(***************************************************************************)
(* The code that an application calls on the host and that keeps state of  *)
(* its own: the timer of the CLINT, the memory island's allocator and the  *)
(* HyperBus driver.  One hart calls them and they share no variable, so    *)
(* that calls of different ones commute: it is enough to look at sequences *)
(* of calls of one of them, whichever the application uses.                *)
(***************************************************************************)
EXTENDS Clint, Alloc, Hyperbus

VARIABLE uses   \* what the application uses

callVars == <<uses, vars, allocVars, busVars>>

CallsInit ==
    /\ uses \in {"clint", "alloc", "hyperbus"}
    /\ Init /\ AllocInit /\ BusInit
    /\ uses # "clint" => cmp = Time(0)     \* one of its values will do

\* A step of the hart or of the timer, with an application that uses it.
Timed(step) ==
    /\ uses = "clint"
    /\ step
    /\ UNCHANGED <<uses, allocVars, busVars>>

CallsNext ==
    \/ Timed(Next)
    \/ uses = "alloc" /\ AllocNext /\ UNCHANGED <<uses, vars, busVars>>
    \/ uses = "hyperbus" /\ BusNext /\ UNCHANGED <<uses, vars, allocVars>>

\* As in Clint.
CallsFairness ==
    /\ WF_callVars(Timed(Tick))
    /\ WF_callVars(Timed(DriverStep))
    /\ WF_callVars(Timed(TakeTrap))

CallsSpec == CallsInit /\ [][CallsNext]_callVars /\ CallsFairness
=============================================================================
