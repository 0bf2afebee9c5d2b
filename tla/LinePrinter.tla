---------------------------- MODULE LinePrinter ----------------------------
(***************************************************************************)
(* What the device's printf promises: every core composes a text, behind   *)
(* whatever its buffer held at the start; a text that is complete (its     *)
(* last character is a newline or fills the buffer) appears on the console *)
(* in one piece, once, before the core can print again.                    *)
(***************************************************************************)
EXTENDS Integers, Sequences

CONSTANTS Cores, Chars, NL, BufLen

VARIABLES
    pending,    \* the text of each core that is not on the console yet
    complete,   \* the cores whose pending text is complete
    console     \* the texts printed, with the core that printed each

Init ==
    /\ pending \in [Cores -> Seq(Chars)]
    /\ \A c \in Cores : Len(pending[c]) < BufLen
    /\ complete = {}
    /\ console = <<>>

Put(c, ch) ==
    /\ c \notin complete
    /\ pending' = [pending EXCEPT ![c] = Append(@, ch)]
    /\ complete' = IF Len(pending[c]) + 1 = BufLen \/ ch = NL
                   THEN complete \cup {c} ELSE complete
    /\ UNCHANGED console

Emit(c) ==
    /\ c \in complete
    /\ console' = Append(console, [core |-> c, text |-> pending[c]])
    /\ pending' = [pending EXCEPT ![c] = <<>>]
    /\ complete' = complete \ {c}

Next ==
    \E c \in Cores : Emit(c) \/ \E ch \in Chars : Put(c, ch)

Spec == Init /\ [][Next]_<<pending, complete, console>>
=============================================================================
