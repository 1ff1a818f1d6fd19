------------------------------ MODULE Keyboard ------------------------------
(***************************************************************************)
(* keyboard_isr of keyboard.c: what one byte from port 0x60 does to the    *)
(* modifier state and which character it prints.                           *)
(*                                                                         *)
(* A scan code is a record of a key and whether it is released.  Keys that *)
(* the code treats alike are one key here: "letter" is a letter that no    *)
(* control table entry turns into a newline or a backspace, "j" one that   *)
(* becomes a newline with CTRL, "home" a key whose entries are 0, "none"   *)
(* the bytes 0, 0xff, 0xe0 and 0xe1.  (0xe0 sets prefix, which nothing     *)
(* reads.)  key.status is the set of its MK_ bits.                         *)
(***************************************************************************)
EXTENDS Console

\* Keys that set a bit while they are down, and keys that toggle one.
Holding == [shift |-> "MK_SHIFT", ctrl |-> "MK_CTRL", alt |-> "MK_ALT"]
Toggling == [caps |-> "MK_CAPSLOCK", scroll |-> "MK_SCROLLLOCK", num |-> "MK_NUMLOCK"]

Keys == {"letter", "j", "home", "enter", "backspace", "none"}
        \cup DOMAIN Holding \cup DOMAIN Toggling

ErrorCode == "0xff"

\* The rows of scan_to_ascii; the alternatives in the order of the code.
table(status) ==
    CASE {"MK_CAPSLOCK", "MK_SHIFT"} \subseteq status -> "TABLE_CAPS_N_SHIFT"
      [] status = {} -> "TABLE_NORMAL"
      [] "MK_CAPSLOCK" \in status /\ "MK_SHIFT" \notin status -> "TABLE_CAPSLOCK"
      [] "MK_SHIFT" \in status /\ "MK_CAPSLOCK" \notin status -> "TABLE_SHIFT"
      [] "MK_CTRL" \in status /\ status \cap {"MK_CAPSLOCK", "MK_SHIFT"} = {} -> "TABLE_CTRL"
      [] OTHER -> "none"

\* scan_to_ascii for the keys above
scan_to_ascii(t, k) ==
    CASE t = "none" -> ErrorCode
      [] t # "none" /\ k = "home" -> NUL
      [] t \in {"TABLE_NORMAL", "TABLE_CAPS_N_SHIFT"} /\ k # "home" -> "lower"
      [] t \in {"TABLE_CAPSLOCK", "TABLE_SHIFT"} /\ k # "home" -> "upper"
      [] t = "TABLE_CTRL" /\ k = "j" -> NL
      [] t = "TABLE_CTRL" /\ k = "letter" -> "control"

\* Mutant: the release of a key that sets a bit is taken for a press.
NewStatus_Sticky(status, sc) ==
    IF sc.key \in DOMAIN Holding THEN status \cup {Holding[sc.key]}
    ELSE IF sc.key \in DOMAIN Toggling /\ ~sc.up
    THEN (status \cup {Toggling[sc.key]}) \ (status \cap {Toggling[sc.key]})
    ELSE status

\* key.status after the byte
NewStatus(status, sc) ==
    IF sc.key \in DOMAIN Holding
    THEN IF sc.up THEN status \ {Holding[sc.key]} ELSE status \cup {Holding[sc.key]}
    ELSE IF sc.key \in DOMAIN Toggling /\ ~sc.up
    THEN (status \cup {Toggling[sc.key]}) \ (status \cap {Toggling[sc.key]})
    ELSE status

\* What the byte prints; NUL is nothing.
Printed(status, sc) ==
    IF sc.up \/ sc.key = "none" \/ sc.key \in DOMAIN Holding \cup DOMAIN Toggling THEN NUL
    ELSE IF sc.key = "enter" THEN NL
    ELSE IF sc.key = "backspace" THEN BS
    ELSE scan_to_ascii(table(status), sc.key)

=============================================================================
