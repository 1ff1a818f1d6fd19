------------------------------ MODULE PrintSmp ------------------------------
(***************************************************************************)
(* caos_printf on two processors.  While the BSP goes on booting, the AP   *)
(* prints its one message (start_kernel); both use the static buffer sz    *)
(* and the one screen_info, and no lock.                                   *)
(*                                                                         *)
(* One step is one access to sz or to screen_info.cursor_offset.  A value  *)
(* of cursor_offset that the code has in a register may be used again or   *)
(* loaded again, as the compiler likes: Load leaves both open.  Nothing    *)
(* reads the video memory back, so only the offset of a write matters, and *)
(* every write goes to the offset that cursor_offset held.                 *)
(*                                                                         *)
(* A message is what caos_vsprintf makes of its format (module Format).    *)
(***************************************************************************)
EXTENDS Console, Sequences, FiniteSets

CONSTANTS Cpu,        \* the processors
          Texts,      \* the messages of each of them
          Calls,      \* bound: how many messages each of them prints
          BufSize     \* sizeof(sz)

\* The longest text is shorter than the screen without a row (128 bytes and 24
\* rows of 80 in the code).
ASSUME TextsAssumption ==
    /\ IsFiniteSet(Cpu) /\ BufSize \in Nat \ {0} /\ BufSize <= Size - SCREEN_COL
    /\ \A p \in Cpu : Texts[p] \subseteq Seq({NL, BS} \cup STRING)
    /\ \A p \in Cpu : \A m \in Texts[p] : Len(m) < BufSize

VARIABLES sz,       \* the buffer
          cursor,   \* screen_info.cursor_offset
          pc, msg,  \* where a processor is, and in which message
          i,        \* index into sz, of the store or of the load to come
          reg,      \* the copy of cursor_offset in a register
          calls,    \* messages begun
          alone,    \* history: nobody else has printed since this call began
          from      \* history: the cursor when such a call began

vars == <<sz, cursor, pc, msg, i, reg, calls, alone, from>>

Index == 0 .. BufSize - 1

\* The AP is woken when the boot messages have filled the screen; the longest
\* one they can be is still in the buffer.
Init == /\ sz = [k \in Index |-> IF k < BufSize - 1 THEN "o" ELSE NUL]
        /\ cursor \in Size - SCREEN_COL .. Size - 1
        /\ pc = [p \in Cpu |-> "idle"]
        /\ msg = [p \in Cpu |-> <<>>]
        /\ i = [p \in Cpu |-> 0]
        /\ reg = [p \in Cpu |-> 0]
        /\ calls = [p \in Cpu |-> 0]
        /\ alone = [p \in Cpu |-> TRUE]
        /\ from = 0

Goto(p, at, to) == pc[p] = at /\ pc' = [pc EXCEPT ![p] = to]

-----------------------------------------------------------------------------
(* caos_printf and caos_vsprintf *)

Call(p, m) == /\ calls[p] < Calls[p]
              /\ Goto(p, "idle", "format")
              /\ msg' = [msg EXCEPT ![p] = m]
              /\ calls' = [calls EXCEPT ![p] = @ + 1]
              /\ alone' = [q \in Cpu |-> q = p /\ \A o \in Cpu \ {p} : pc[o] = "idle"]
              /\ from' = IF alone'[p] THEN cursor ELSE 0
              /\ UNCHANGED <<sz, cursor, i, reg>>

\* *A_szString++ = ...
StoreChar(p) == /\ Goto(p, "format", "format")
                /\ i[p] < Len(msg[p])
                /\ sz' = [sz EXCEPT ![i[p]] = msg[p][i[p] + 1]]
                /\ i' = [i EXCEPT ![p] = @ + 1]
                /\ UNCHANGED <<cursor, msg, reg, calls, alone, from>>

\* Mutant: the string is not terminated.
StoreEnd_None(p) == /\ Goto(p, "format", "loop")
                    /\ i[p] = Len(msg[p])
                    /\ i' = [i EXCEPT ![p] = 0]
                    /\ UNCHANGED <<sz, cursor, msg, reg, calls, alone, from>>

\* *A_szString = '\0'
StoreEnd(p) == /\ Goto(p, "format", "loop")
               /\ i[p] = Len(msg[p])
               /\ sz' = [sz EXCEPT ![i[p]] = NUL]
               /\ i' = [i EXCEPT ![p] = 0]
               /\ UNCHANGED <<cursor, msg, reg, calls, alone, from>>

Branch(c) == CASE c = NL -> "newline"
               [] c = BS -> "delete"
               [] OTHER -> "put"

\* Mutants: the index moves twice for a character; not at all for a newline.
NextChar_Twice(p) == /\ sz[i[p]] # NUL
                     /\ Goto(p, "loop", Branch(sz[i[p]]))
                     /\ i' = [i EXCEPT ![p] = @ + 2]
                     /\ UNCHANGED <<sz, cursor, msg, reg, calls, alone, from>>

NextChar_Stay(p) == /\ sz[i[p]] # NUL
                    /\ Goto(p, "loop", Branch(sz[i[p]]))
                    /\ i' = [i EXCEPT ![p] = IF sz[@] = NL THEN @ ELSE @ + 1]
                    /\ UNCHANGED <<sz, cursor, msg, reg, calls, alone, from>>

\* while (sz[i] != '\0'), with the character that it has just loaded
NextChar(p) == /\ sz[i[p]] # NUL
               /\ Goto(p, "loop", Branch(sz[i[p]]))
               /\ i' = [i EXCEPT ![p] = @ + 1]
               /\ UNCHANGED <<sz, cursor, msg, reg, calls, alone, from>>

Return(p) == /\ sz[i[p]] = NUL
             /\ Goto(p, "loop", "idle")
             /\ i' = [i EXCEPT ![p] = 0]
             /\ reg' = [reg EXCEPT ![p] = 0]
             /\ msg' = [msg EXCEPT ![p] = <<>>]
             /\ from' = 0
             /\ UNCHANGED <<sz, cursor, calls, alone>>

-----------------------------------------------------------------------------
(* caos_putchar, caos_delchar, the newline and set_cursor *)

\* cursor_offset is used: from the register or from memory.
Load(p) == \E v \in {reg[p], cursor} : reg' = [reg EXCEPT ![p] = v]

Store(p, v) == /\ cursor' = v
               /\ reg' = [reg EXCEPT ![p] = v]

rest == <<sz, msg, i, calls, alone, from>>

\* video_mem[cursor_offset] = ...
PutVideo(p) == /\ Goto(p, "put", "put.count")
               /\ reg' = [reg EXCEPT ![p] = cursor]
               /\ UNCHANGED <<cursor, rest>>

\* cursor_offset++
PutCount(p) == /\ Goto(p, "put.count", "put.store")
               /\ Load(p)
               /\ UNCHANGED <<cursor, rest>>

PutStore(p) == /\ Goto(p, "put.store", "set")
               /\ Store(p, reg[p] + 1)
               /\ UNCHANGED rest

\* cursor_offset--
DelCount(p) == /\ Goto(p, "delete", "delete.store")
               /\ reg' = [reg EXCEPT ![p] = cursor]
               /\ UNCHANGED <<cursor, rest>>

DelStore(p) == /\ Goto(p, "delete.store", "set")
               /\ Store(p, reg[p] - 1)
               /\ UNCHANGED rest

\* set_cursor((cursor_offset/SCREEN_COL + 1)*SCREEN_COL)
Newline(p) == /\ Goto(p, "newline", "set.store")
              /\ reg' = [reg EXCEPT ![p] = (cursor \div SCREEN_COL + 1) * SCREEN_COL]
              /\ UNCHANGED <<cursor, rest>>

\* set_cursor(cursor_offset)
SetArgument(p) == /\ Goto(p, "set", "set.store")
                  /\ Load(p)
                  /\ UNCHANGED <<cursor, rest>>

SetStore(p) == /\ Goto(p, "set.store", "set.check")
               /\ Store(p, reg[p])
               /\ UNCHANGED rest

\* (cursor_offset/SCREEN_COL) >= SCREEN_ROW
OffScreen(v) == v < 0 \/ v \div SCREEN_COL >= SCREEN_ROW

SetCheck(p) == /\ \E v \in {reg[p], cursor} :
                    /\ Goto(p, "set.check", IF OffScreen(v) THEN "set.scroll" ELSE "loop")
                    /\ reg' = [reg EXCEPT ![p] = v]
               /\ UNCHANGED <<cursor, rest>>

\* scroll_screen(1), and the load of cursor_offset -= SCREEN_COL
SetScroll(p) == /\ Goto(p, "set.scroll", "set.back")
                /\ Load(p)
                /\ UNCHANGED <<cursor, rest>>

SetBack(p) == /\ Goto(p, "set.back", "loop")
              /\ Store(p, reg[p] - SCREEN_COL)
              /\ UNCHANGED rest

-----------------------------------------------------------------------------
Step(p) == \/ StoreChar(p) \/ StoreEnd(p) \/ NextChar(p) \/ Return(p)
           \/ PutVideo(p) \/ PutCount(p) \/ PutStore(p)
           \/ DelCount(p) \/ DelStore(p) \/ Newline(p)
           \/ SetArgument(p) \/ SetStore(p) \/ SetCheck(p) \/ SetScroll(p) \/ SetBack(p)

\* Both have said all they had to say.
Quiet == /\ \A p \in Cpu : pc[p] = "idle" /\ calls[p] = Calls[p]
         /\ UNCHANGED vars

Next == \/ \E p \in Cpu : Step(p) \/ \E m \in Texts[p] : Call(p, m)
        \/ Quiet

\* A processor that is in caos_printf goes on.
Fairness == \A p \in Cpu : WF_vars(Step(p))

Spec == Init /\ [][Next]_vars /\ Fairness

-----------------------------------------------------------------------------
\* However two calls overwrite each other's text, none of them runs out of the
\* buffer: every text is shorter than sz, so its last byte is the one that
\* nobody ever overwrites (caos_printf, caos_vsprintf).
TextEnds == \A p \in Cpu : i[p] \in Index

Visible(p) == Cardinality({k \in 1 .. i[p] : msg[p][k] \notin {NL, BS}})

\* A call that nobody disturbs finds its own text and the end of it in sz, not
\* what an earlier, longer text left there.  The cursor is on the screen after
\* every character; or it was behind the screen when the call began, left there
\* by calls that disturbed each other, and every character since has brought it
\* back by a row (set_cursor).  A text that could go back over the top left
\* corner is left out: nothing keeps caos_delchar from that.
Undisturbed == \A p \in Cpu : alone[p] /\ pc[p] = "loop" =>
    /\ \A k \in 1 .. Len(msg[p]) : sz[k - 1] = msg[p][k]
    /\ sz[Len(msg[p])] = NUL
    /\ from >= Len(msg[p]) =>
           \/ cursor \in Cells
           \/ from >= Size /\ cursor <= from - Visible(p) * (SCREEN_COL - 1)

\* Every caos_printf returns.
PrintsEnd == \A p \in Cpu : pc[p] # "idle" ~> pc[p] = "idle"
=============================================================================
