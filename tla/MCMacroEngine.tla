-------------------------- MODULE MCMacroEngine --------------------------
(* MacroEngine for TLC: an outer macro in every mode around an inner one    *)
(* that taps a key and calls itself until it is too deep.                   *)
EXTENDS MacroEngine
Key(type, key) == [type |-> type, key |-> key]
Call(id) == [type |-> "macro", id |-> id]
Inner == [mode |-> "ONCE_NO_STACK", stackMax |-> 1, repeat |-> 1, events |-> <<Key("tap", "b"), Call("inner")>>]
Outer(mode) == [mode |-> mode, stackMax |-> 2, repeat |-> 2,
                events |-> <<Key("press", "a"), Call("inner"), Key("release", "a")>>]
Nested(mode) == [m \in {"outer", "inner"} |-> IF m = "inner" THEN Inner ELSE Outer(mode)]
InnerOnly == [m \in {"inner"} |-> Inner]
AllModes == {Nested(mode) : mode \in Once \cup Hold \cup Toggle \cup {"BURST_N"}} \cup {InnerOnly}
\* What NoKeyLeftDown assumes of the macros is so of these.
ASSUME ReleasesAssumption == ReleasesWhatItPresses
\* Any mode may be saved, over no outer macro or over one that repeats while held.
SaveInit == Init /\ stored \in {InnerOnly, Nested("HOLD_REPEAT_CANCEL")}
===========================================================================
