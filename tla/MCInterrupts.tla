---------------------------- MODULE MCInterrupts ----------------------------
EXTENDS Interrupts

Down(k) == [key |-> k, up |-> FALSE]
Up(k) == [key |-> k, up |-> TRUE]

MCScanCodes == {Down(k) : k \in {"letter", "j", "home", "enter", "backspace", "none",
                                 "shift", "ctrl", "alt", "caps", "num", "scroll"}}
               \cup {Up(k) : k \in {"letter", "caps", "shift", "ctrl", "alt"}}
=============================================================================
