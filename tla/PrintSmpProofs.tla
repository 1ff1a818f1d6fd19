--------------------------- MODULE PrintSmpProofs ---------------------------
(***************************************************************************)
(* Proofs about module PrintSmp, for any number of processors, any texts   *)
(* and any size of buffer and screen: no call runs out of sz, and a call   *)
(* that nobody disturbs prints its own text and keeps the cursor.          *)
(***************************************************************************)
EXTENDS PrintSmp, FiniteSetTheorems, TLAPS

Chars == {NL, BS} \cup STRING

Points == {"idle", "format", "loop", "put", "put.count", "put.store", "delete", "delete.store",
           "newline", "set", "set.store", "set.check", "set.scroll", "set.back"}

TypeInv == /\ sz \in [Index -> Chars \cup {NUL, "o"}] /\ cursor \in Int /\ from \in Int
           /\ pc \in [Cpu -> Points] /\ msg \in [Cpu -> Seq(Chars)]
           /\ i \in [Cpu -> Index] /\ reg \in [Cpu -> Int] /\ alone \in [Cpu -> BOOLEAN]

\* The last byte of sz stays the end of a string, and a text that is being
\* stored has not got there.
BufferInv == /\ TypeInv
             /\ sz[BufSize - 1] = NUL
             /\ \A p \in Cpu : /\ Len(msg[p]) < BufSize
                               /\ pc[p] = "format" => i[p] <= Len(msg[p])
                               /\ pc[p] = "idle" => i[p] = 0

\* Sizes.
LEMMA Sizes == /\ BufSize \in Nat \ {0} /\ SCREEN_COL \in Nat \ {0} /\ SCREEN_ROW \in Nat \ {0, 1}
               /\ Size \in Nat /\ BufSize <= Size - SCREEN_COL
               /\ 0 \in Index /\ BufSize - 1 \in Index
               /\ \A k \in Index : k \in Nat /\ (k # BufSize - 1 => k + 1 \in Index)
               /\ \A k \in Nat : k < BufSize => k \in Index
<1>1. SCREEN_COL \in Nat \ {0} /\ SCREEN_ROW \in Nat \ {0, 1}
  BY ScreenAssumption
<1>2. Size \in Nat
  BY <1>1 DEF Size
<1> QED
  BY <1>1, <1>2, TextsAssumption DEF Index

\* A character is stored in front of the last byte.
LEMMA StoreCharStep ==
    ASSUME BufferInv, NEW p \in Cpu, StoreChar(p)
    PROVE  BufferInv'
<1>1. /\ i[p] \in Nat /\ Len(msg[p]) \in Nat /\ i[p] < Len(msg[p]) /\ Len(msg[p]) < BufSize
      /\ msg[p] \in Seq(Chars)
  <2>1. msg[p] \in Seq(Chars) /\ i[p] \in Index /\ i[p] < Len(msg[p]) /\ Len(msg[p]) < BufSize
    BY DEF StoreChar, BufferInv, TypeInv
  <2> QED
    BY <2>1, Sizes
<1>2. i[p] + 1 \in Index /\ i[p] # BufSize - 1 /\ i[p] + 1 <= Len(msg[p])
  BY <1>1, Sizes
<1>3. msg[p][i[p] + 1] \in Chars
  BY <1>1
<1>4. sz' \in [Index -> Chars \cup {NUL, "o"}] /\ sz'[BufSize - 1] = NUL
  BY <1>2, <1>3, Sizes DEF StoreChar, BufferInv, TypeInv
<1>5. pc' = pc /\ i' = [i EXCEPT ![p] = i[p] + 1]
  BY DEF StoreChar, Goto, BufferInv, TypeInv
<1> QED
  BY <1>2, <1>4, <1>5 DEF StoreChar, Goto, BufferInv, TypeInv

\* The other steps of caos_printf.
LEMMA PrintStep ==
    ASSUME BufferInv, NEW p \in Cpu, Step(p)
    PROVE  BufferInv'
<1> USE Sizes DEF BufferInv, TypeInv, Points, Goto
<1>1. CASE StoreChar(p)
  BY <1>1, StoreCharStep
<1>2. CASE StoreEnd(p)
  <2>1. sz' \in [Index -> Chars \cup {NUL, "o"}] /\ sz'[BufSize - 1] = NUL
    BY <1>2 DEF StoreEnd
  <2> QED
    BY <1>2, <2>1 DEF StoreEnd
<1>3. CASE NextChar(p)
  <2>1. i[p] \in Index /\ i[p] # BufSize - 1
    BY <1>3 DEF NextChar
  <2>a. i[p] + 1 \in Index
    BY <2>1
  <2>2. Branch(sz[i[p]]) \in {"put", "delete", "newline"}
    BY DEF Branch
  <2> QED
    BY <1>3, <2>a, <2>2 DEF NextChar
<1>4. CASE Return(p)
  <2>1. msg' = [msg EXCEPT ![p] = <<>>] /\ <<>> \in Seq(Chars) /\ Len(<<>>) = 0
    BY <1>4 DEF Return
  <2> QED
    BY <1>4, <2>1 DEF Return
<1> DEFINE Moved == /\ UNCHANGED <<sz, msg, i, alone, from>> /\ cursor' \in Int
                    /\ \E v \in Int : reg' = [reg EXCEPT ![p] = v]
                    /\ \E to \in Points \ {"idle", "format"} : pc' = [pc EXCEPT ![p] = to]
<1>5. ASSUME Moved PROVE BufferInv'
  <2>1. PICK v \in Int : reg' = [reg EXCEPT ![p] = v]
    BY <1>5
  <2>2. PICK to \in Points \ {"idle", "format"} : pc' = [pc EXCEPT ![p] = to]
    BY <1>5
  <2>3. reg' \in [Cpu -> Int] /\ pc' \in [Cpu -> Points]
    BY <2>1, <2>2
  <2>4. \A q \in Cpu : pc'[q] \in {"idle", "format"} => pc'[q] = pc[q]
    BY <2>2
  <2> QED
    BY <1>5, <2>3, <2>4
<1>6. /\ cursor \in Int /\ reg[p] \in Int /\ (cursor \div SCREEN_COL + 1) * SCREEN_COL \in Int
      /\ reg[p] + 1 \in Int /\ reg[p] - 1 \in Int /\ reg[p] - SCREEN_COL \in Int
  OBVIOUS
<1> USE DEF rest, Load, Store
<1>7. PutVideo(p) => Moved
  BY <1>6 DEF PutVideo
<1>8. PutCount(p) => Moved
  BY <1>6 DEF PutCount
<1>9. PutStore(p) => Moved
  BY <1>6 DEF PutStore
<1>10. DelCount(p) => Moved
  BY <1>6 DEF DelCount
<1>11. DelStore(p) => Moved
  BY <1>6 DEF DelStore
<1>12. Newline(p) => Moved
  BY <1>6 DEF Newline
<1>13. SetArgument(p) => Moved
  BY <1>6 DEF SetArgument
<1>14. SetStore(p) => Moved
  BY <1>6 DEF SetStore
<1>15. SetCheck(p) => Moved
  BY <1>6 DEF SetCheck
<1>16. SetScroll(p) => Moved
  BY <1>6 DEF SetScroll
<1>17. SetBack(p) => Moved
  BY <1>6 DEF SetBack
<1> HIDE DEF Moved
<1> QED
  BY <1>1, <1>2, <1>3, <1>4, <1>5, <1>7, <1>8, <1>9, <1>10, <1>11, <1>12, <1>13, <1>14, <1>15,
     <1>16, <1>17 DEF Step

\* A call begins with a text that fits.
LEMMA CallStep ==
    ASSUME BufferInv, NEW p \in Cpu, NEW m \in Texts[p], Call(p, m)
    PROVE  BufferInv'
<1>1. m \in Seq(Chars) /\ Len(m) \in Nat /\ Len(m) < BufSize
  BY TextsAssumption DEF Chars
<1>2. alone' \in [Cpu -> BOOLEAN] /\ from' \in Int
  BY DEF Call, BufferInv, TypeInv
<1> QED
  BY <1>1, <1>2 DEF Call, Goto, BufferInv, TypeInv, Points

\* The inductive invariant of the buffer.
THEOREM PrintBuffer == Spec => []BufferInv
<1>1. Init => BufferInv
  <2> SUFFICES ASSUME Init PROVE BufferInv
    OBVIOUS
  <2>1. /\ sz \in [Index -> Chars \cup {NUL, "o"}] /\ sz[BufSize - 1] = NUL
        /\ cursor \in Int /\ from \in Int
    BY Sizes DEF Init
  <2>2. <<>> \in Seq(Chars) /\ Len(<<>>) = 0
    OBVIOUS
  <2> QED
    BY <2>1, <2>2, Sizes DEF Init, BufferInv, TypeInv, Points
<1>2. BufferInv /\ [Next]_vars => BufferInv'
  <2>1. ASSUME BufferInv, UNCHANGED vars PROVE BufferInv'
    BY <2>1 DEF BufferInv, TypeInv, vars
  <2> QED
    BY <2>1, PrintStep, CallStep DEF Next, Quiet
<1> QED
  BY <1>1, <1>2, PTL DEF Spec

\* However the calls of any number of processors overwrite each other's text,
\* none of them reads or writes sz out of its bounds (caos_printf).
THEOREM PrintTextEnds == Spec => []TextEnds
<1>1. BufferInv => TextEnds
  BY DEF BufferInv, TypeInv, TextEnds
<1> QED
  BY <1>1, PrintBuffer, PTL

-----------------------------------------------------------------------------
(* Where a cursor c can be.  start is where it was when the call began, v the *)
(* number of characters it has put on the screen, and l the length of the     *)
(* text that is left.                                                         *)

\* After a character, and after the store of a new cursor in front of the test
\* of set_cursor.
Settled(c, start, v, l) == /\ c >= l
                           /\ \/ c \in Cells
                              \/ start >= Size /\ c <= start - v * (SCREEN_COL - 1)
Moving(c, start, v, l) == /\ c >= l
                          /\ \/ c <= Size
                             \/ start >= Size /\ c <= start - v * (SCREEN_COL - 1) + SCREEN_COL

\* Multiplication by a constant, for the solver.
LEMMA Multiples ==
    ASSUME NEW c \in Nat, NEW n \in Int, NEW m \in Int
    PROVE  /\ (n - 1) * c = n * c - c /\ c * (n + 1) = c * n + c /\ n * c \in Int
           /\ c * n = n * c /\ (n <= m => c * n <= c * m)
  OBVIOUS

\* A quotient is the row, and what is left is less than a row.
LEMMA Rows ==
    ASSUME NEW x \in Int, NEW q \in Int, q = x \div SCREEN_COL
    PROVE  SCREEN_COL * q <= x /\ x < SCREEN_COL * q + SCREEN_COL
<1>1. SCREEN_COL \in Nat \ {0}
  BY Sizes
<1>2. PICK c : c = SCREEN_COL
  OBVIOUS
<1>3. c * q <= x
  BY <1>1, <1>2, SMTT(30)
<1>4. x < c * q + c
  BY <1>1, <1>2, SMTT(30)
<1> QED
  BY <1>2, <1>3, <1>4

\* set_cursor scrolls exactly for offsets that are not on the screen.
LEMMA OffScreenIs ==
    ASSUME NEW x \in Int
    PROVE  OffScreen(x) <=> x \notin Cells
<1>1. SCREEN_COL \in Nat \ {0} /\ SCREEN_ROW \in Nat /\ Size \in Nat
  BY Sizes
<1>2. PICK q \in Int : q = x \div SCREEN_COL
  BY <1>1
<1>3. SCREEN_COL * q <= x /\ x < SCREEN_COL * q + SCREEN_COL
  BY <1>2, Rows
<1>4. Size = SCREEN_COL * SCREEN_ROW
  BY <1>1 DEF Size
<1>5. q >= SCREEN_ROW => Size <= x
  BY <1>1, <1>3, <1>4, Multiples
<1>6. q < SCREEN_ROW => x < Size
  <2>1. q + 1 <= SCREEN_ROW => SCREEN_COL * (q + 1) <= Size
    BY <1>1, <1>4, Multiples
  <2>2. SCREEN_COL * (q + 1) = SCREEN_COL * q + SCREEN_COL
    BY <1>1, Multiples
  <2>3. SCREEN_COL * q \in Int
    BY <1>1
  <2> QED
    BY <1>1, <1>3, <2>1, <2>2, <2>3
<1>7. OffScreen(x) <=> x < 0 \/ q >= SCREEN_ROW
  BY <1>2 DEF OffScreen
<1>8. x \in Cells <=> 0 <= x /\ x < Size
  BY <1>1 DEF Cells
<1> QED
  BY <1>1, <1>5, <1>6, <1>7, <1>8

\* The three ways a character moves the cursor.
LEMMA Moves ==
    ASSUME NEW c \in Int, NEW start \in Int, NEW v \in Int, NEW l \in Nat
    PROVE  /\ Settled(c, start, v - 1, l + 1) => Moving(c + 1, start, v, l)
           /\ Settled(c, start, v, l + 1) => Moving(c - 1, start, v, l)
           /\ Settled(c, start, v, l + 1) =>
                 Moving((c \div SCREEN_COL + 1) * SCREEN_COL, start, v, l)
<1>1. SCREEN_COL \in Nat \ {0} /\ Size \in Nat /\ SCREEN_COL - 1 \in Nat /\ SCREEN_ROW \in Nat
  BY Sizes
<1>2. PICK w \in Int : w = v * (SCREEN_COL - 1)
  BY <1>1
<1>3. (v - 1) * (SCREEN_COL - 1) = w - (SCREEN_COL - 1)
  BY <1>1, <1>2, Multiples
<1>4. c \in Cells => c < Size
  BY <1>1 DEF Cells
<1>5. ASSUME Settled(c, start, v - 1, l + 1) PROVE Moving(c + 1, start, v, l)
  BY <1>1, <1>2, <1>3, <1>4, <1>5 DEF Settled, Moving
<1>6. ASSUME Settled(c, start, v, l + 1) PROVE Moving(c - 1, start, v, l)
  BY <1>1, <1>2, <1>4, <1>6 DEF Settled, Moving
<1>7. ASSUME Settled(c, start, v, l + 1)
      PROVE  Moving((c \div SCREEN_COL + 1) * SCREEN_COL, start, v, l)
  <2>1. PICK q \in Int : q = c \div SCREEN_COL
    BY <1>1
  <2>2. PICK a \in Int : a = SCREEN_COL * q
    BY <1>1
  <2>3. a <= c /\ c < a + SCREEN_COL
    BY <2>1, <2>2, Rows
  <2>4. (q + 1) * SCREEN_COL = a + SCREEN_COL
    BY <1>1, <2>2, Multiples
  <2>5. c \in Cells => a + SCREEN_COL <= Size
    <3>1. Size = SCREEN_COL * SCREEN_ROW
      BY <1>1 DEF Size
    <3>2. q < SCREEN_ROW \/ Size <= a
      BY <1>1, <2>2, <3>1, Multiples
    <3>3. q < SCREEN_ROW => SCREEN_COL * (q + 1) <= Size
      BY <1>1, <3>1, Multiples
    <3>4. SCREEN_COL * (q + 1) = a + SCREEN_COL
      BY <1>1, <2>2, Multiples
    <3> QED
      BY <1>1, <1>4, <2>3, <3>2, <3>3, <3>4
  <2>6. Moving(a + SCREEN_COL, start, v, l)
    BY <1>1, <1>2, <1>7, <2>3, <2>5 DEF Settled, Moving
  <2> QED
    BY <2>1, <2>4, <2>6
<1> QED
  BY <1>5, <1>6, <1>7

\* The test of set_cursor, and the row it takes back.
LEMMA Settles ==
    ASSUME NEW c \in Int, NEW start \in Int, NEW v \in Int, NEW l \in Nat,
           l <= Size - SCREEN_COL, Moving(c, start, v, l)
    PROVE  /\ ~OffScreen(c) => Settled(c, start, v, l)
           /\ OffScreen(c) => Settled(c - SCREEN_COL, start, v, l)
<1>1. SCREEN_COL \in Nat \ {0} /\ Size \in Nat /\ SCREEN_COL - 1 \in Nat
  BY Sizes
<1>2. PICK w \in Int : w = v * (SCREEN_COL - 1)
  BY <1>1
<1>3. \A x \in Int : x \in Cells <=> 0 <= x /\ x < Size
  BY <1>1 DEF Cells
<1>4. OffScreen(c) <=> c \notin Cells
  BY OffScreenIs
<1>5. CASE c \in Cells
  BY <1>4, <1>5 DEF Settled, Moving
<1>6. CASE c \notin Cells
  <2>1. c >= Size
    BY <1>1, <1>3, <1>6 DEF Moving
  <2>2. c <= Size => c - SCREEN_COL \in Cells
    BY <1>1, <1>3, <2>1
  <2> QED
    BY <1>1, <1>2, <1>4, <1>6, <2>1, <2>2 DEF Settled, Moving
<1> QED
  BY <1>5, <1>6

-----------------------------------------------------------------------------
(* A call that nobody disturbs *)

Others(p) == \A q \in Cpu \ {p} : pc[q] = "idle"

\* What has been stored of the text is there.
OwnText(p) ==
    /\ \A k \in 1 .. Len(msg[p]) : (pc[p] = "format" => k <= i[p]) => sz[k - 1] = msg[p][k]
    /\ pc[p] # "format" => sz[Len(msg[p])] = NUL /\ i[p] <= Len(msg[p])

\* Where the cursor is at each step: the register is a fresh copy of it.
CursorAt(p) ==
    LET v == Visible(p)
        l == Len(msg[p]) - i[p]
    IN  /\ pc[p] = "format" => cursor = from
        /\ pc[p] = "loop" => Settled(cursor, from, v, l)
        /\ pc[p] \in {"put", "put.count", "put.store"} => Settled(cursor, from, v - 1, l + 1)
        /\ pc[p] \in {"delete", "delete.store", "newline"} => Settled(cursor, from, v, l + 1)
        /\ pc[p] \in {"put.count", "put.store", "delete.store", "set", "set.check", "set.scroll",
                      "set.back"} => reg[p] = cursor
        /\ pc[p] \in {"set", "set.store", "set.check", "set.scroll", "set.back"} =>
              Moving(reg[p], from, v, l)
        /\ pc[p] \in {"set.scroll", "set.back"} => OffScreen(reg[p])

AloneInv == \A p \in Cpu : alone[p] /\ pc[p] # "idle" =>
               Others(p) /\ OwnText(p) /\ (from >= Len(msg[p]) => CursorAt(p))

\* Only the processor that takes a step can be the one that nobody disturbs.
LEMMA OnlyOne ==
    ASSUME BufferInv, AloneInv, NEW p \in Cpu, pc[p] # "idle",
           NEW to, pc' = [pc EXCEPT ![p] = to], alone' = alone,
           to # "idle" /\ alone[p] => OwnText(p)' /\ (from' >= Len(msg'[p]) => CursorAt(p)')
    PROVE  AloneInv'
<1>1. \A q \in Cpu \ {p} : pc'[q] = pc[q]
  BY DEF BufferInv, TypeInv
<1>2. pc'[p] = to
  BY DEF BufferInv, TypeInv
<1>3. ASSUME NEW q \in Cpu \ {p} PROVE ~(alone'[q] /\ pc'[q] # "idle")
  BY <1>1 DEF AloneInv, Others
<1>4. ASSUME alone'[p] PROVE Others(p)'
  BY <1>1, <1>4 DEF AloneInv, Others
<1>5. ASSUME alone'[p], pc'[p] # "idle"
      PROVE  (Others(p) /\ OwnText(p) /\ (from >= Len(msg[p]) => CursorAt(p)))'
  BY <1>2, <1>4, <1>5
<1> QED
  BY <1>3, <1>5 DEF AloneInv

\* The numbers in CursorAt.
LEMMA Numbers ==
    ASSUME BufferInv, NEW p \in Cpu
    PROVE  /\ Visible(p) \in Nat /\ cursor \in Int /\ reg[p] \in Int /\ from \in Int
           /\ i[p] \in Nat /\ Len(msg[p]) \in Nat /\ Len(msg[p]) < Size - SCREEN_COL
<1>1. cursor \in Int /\ reg[p] \in Int /\ from \in Int /\ i[p] \in Index /\ msg[p] \in Seq(Chars)
  BY DEF BufferInv, TypeInv
<1>2. Len(msg[p]) \in Nat /\ Len(msg[p]) < BufSize
  BY <1>1 DEF BufferInv
<1>3. IsFiniteSet(1 .. i[p])
  <2>1. i[p] \in Int
    BY <1>1, Sizes
  <2> QED
    BY <2>1, FS_Interval
<1>4. IsFiniteSet({k \in 1 .. i[p] : msg[p][k] \notin {NL, BS}})
  BY <1>3, FS_Subset
<1>5. Visible(p) \in Nat
  BY <1>4, FS_CardinalityType DEF Visible
<1> QED
  BY <1>1, <1>2, <1>5, Sizes

\* The text is stored.
LEMMA AloneFormat ==
    ASSUME BufferInv, AloneInv, NEW p \in Cpu, StoreChar(p) \/ StoreEnd(p)
    PROVE  AloneInv'
<1>0. /\ pc[p] = "format" /\ alone' = alone /\ from' = from /\ msg' = msg /\ cursor' = cursor
      /\ msg[p] \in Seq(Chars) /\ Len(msg[p]) \in Nat /\ i[p] \in Nat /\ Len(msg[p]) < BufSize
  BY Numbers DEF StoreChar, StoreEnd, Goto, BufferInv, TypeInv
<1>a. sz \in [Index -> Chars \cup {NUL, "o"}] /\ i \in [Cpu -> Index]
  BY DEF BufferInv, TypeInv
<1>1. CASE StoreChar(p)
  <2>1. /\ pc' = [pc EXCEPT ![p] = "format"] /\ i[p] < Len(msg[p]) /\ i[p] \in Index
        /\ sz' = [sz EXCEPT ![i[p]] = msg[p][i[p] + 1]] /\ i'[p] = i[p] + 1
    BY <1>1, <1>a DEF StoreChar, Goto
  <2>2. pc'[p] = "format"
    BY <2>1 DEF BufferInv, TypeInv
  <2>3. ASSUME alone[p] PROVE OwnText(p)'
    <3>1. ASSUME NEW k \in 1 .. Len(msg[p]), k <= i[p] + 1 PROVE sz'[k - 1] = msg[p][k]
      <4>1. CASE k = i[p] + 1
        BY <1>0, <1>a, <2>1, <4>1
      <4>2. CASE k # i[p] + 1
        <5>1. k <= i[p] /\ k - 1 # i[p] /\ k - 1 \in Index
          BY <1>0, <3>1, <4>2, Sizes
        <5>2. sz[k - 1] = msg[p][k]
          BY <1>0, <2>3, <5>1 DEF AloneInv, OwnText
        <5> QED
          BY <1>a, <2>1, <5>1, <5>2
      <4> QED
        BY <4>1, <4>2
    <3> QED
      BY <1>0, <2>1, <2>2, <3>1 DEF OwnText
  <2>4. ASSUME alone[p], from' >= Len(msg'[p]) PROVE CursorAt(p)'
    <3>1. cursor' = from'
      BY <1>0, <2>4 DEF AloneInv, CursorAt
    <3> QED
      BY <2>2, <3>1 DEF CursorAt
  <2> QED
    BY <1>0, <2>1, <2>3, <2>4, OnlyOne
<1>2. CASE StoreEnd(p)
  <2>1. /\ pc' = [pc EXCEPT ![p] = "loop"] /\ i[p] = Len(msg[p]) /\ i[p] \in Index
        /\ sz' = [sz EXCEPT ![i[p]] = NUL] /\ i'[p] = 0
    BY <1>2, <1>a DEF StoreEnd, Goto
  <2>2. pc'[p] = "loop"
    BY <2>1 DEF BufferInv, TypeInv
  <2>3. ASSUME alone[p] PROVE OwnText(p)'
    <3>1. ASSUME NEW k \in 1 .. Len(msg[p]) PROVE sz'[k - 1] = msg[p][k]
      <4>1. k <= i[p] /\ k - 1 # i[p] /\ k - 1 \in Index
        BY <1>0, <2>1, Sizes
      <4>2. sz[k - 1] = msg[p][k]
        BY <1>0, <2>3, <4>1 DEF AloneInv, OwnText
      <4> QED
        BY <1>a, <2>1, <4>1, <4>2
    <3>2. sz'[Len(msg[p])] = NUL
      BY <1>a, <2>1
    <3> QED
      BY <1>0, <2>1, <2>2, <3>1, <3>2 DEF OwnText
  <2>4. ASSUME alone[p], from' >= Len(msg'[p]) PROVE CursorAt(p)'
    <3>1. cursor' = from' /\ cursor' \in Int /\ from' >= Len(msg[p])
      BY <1>0, <2>4, Numbers DEF AloneInv, CursorAt
    <3>2. {k \in 1 .. i'[p] : msg'[p][k] \notin {NL, BS}} = {}
      BY <2>1
    <3>3. Visible(p)' = 0
      BY <3>2, FS_EmptySet DEF Visible
    <3>4. Settled(cursor', from', 0, Len(msg[p]) - 0)
      <4>1. 0 * (SCREEN_COL - 1) = 0
        BY Sizes
      <4> QED
        BY <1>0, <3>1, <4>1, Sizes DEF Settled, Cells
    <3> QED
      BY <1>0, <2>1, <2>2, <3>3, <3>4 DEF CursorAt
  <2> QED
    BY <1>0, <2>1, <2>3, <2>4, OnlyOne
<1> QED
  BY <1>1, <1>2

\* The next character of the text decides how the cursor will move.
LEMMA AloneNext ==
    ASSUME BufferInv, AloneInv, NEW p \in Cpu, NextChar(p)
    PROVE  AloneInv'
<1>1. /\ pc[p] = "loop" /\ sz[i[p]] # NUL /\ pc' = [pc EXCEPT ![p] = Branch(sz[i[p]])]
      /\ i'[p] = i[p] + 1 /\ UNCHANGED <<sz, cursor, msg, reg, alone, from>>
  BY DEF NextChar, Goto, BufferInv, TypeInv
<1>2. /\ Branch(sz[i[p]]) \in {"put", "delete", "newline"}
      /\ Branch(sz[i[p]]) = "put" <=> sz[i[p]] \notin {NL, BS}
  BY DEF Branch
<1>3. pc'[p] = Branch(sz[i[p]])
  BY <1>1 DEF BufferInv, TypeInv
<1>4. /\ i[p] \in Nat /\ Len(msg[p]) \in Nat /\ Visible(p) \in Nat
      /\ cursor \in Int /\ from \in Int
  BY Numbers
<1>5. ASSUME alone[p] PROVE OwnText(p)' /\ i[p] < Len(msg[p]) /\ msg[p][i[p] + 1] = sz[i[p]]
  <2>1. OwnText(p)
    BY <1>1, <1>5 DEF AloneInv
  <2>2. /\ i[p] <= Len(msg[p]) /\ sz[Len(msg[p])] = NUL
        /\ \A k \in 1 .. Len(msg[p]) : sz[k - 1] = msg[p][k]
    BY <1>1, <2>1 DEF OwnText
  <2>3. i[p] < Len(msg[p])
    BY <1>1, <1>4, <2>2
  <2>4. i[p] + 1 \in 1 .. Len(msg[p]) /\ (i[p] + 1) - 1 = i[p]
    BY <1>4, <2>3
  <2>5. sz[i[p]] = msg[p][i[p] + 1]
    BY <2>2, <2>4
  <2>6. i'[p] <= Len(msg[p])
    BY <1>1, <1>4, <2>3
  <2> QED
    BY <1>1, <1>2, <1>3, <2>2, <2>3, <2>5, <2>6 DEF OwnText
<1>6. ASSUME alone[p], from' >= Len(msg'[p]) PROVE CursorAt(p)'
  <2> DEFINE P == {k \in 1 .. i[p] : msg[p][k] \notin {NL, BS}}
             R == {k \in 1 .. i[p] + 1 : msg[p][k] \notin {NL, BS}}
             l == Len(msg[p]) - i[p]
  <2>1. Settled(cursor, from, Visible(p), l)
    BY <1>1, <1>6 DEF AloneInv, CursorAt
  <2>2. IsFiniteSet(P) /\ i[p] + 1 \notin P
    <3>0. i[p] \in Int
      BY <1>4
    <3>1. IsFiniteSet(1 .. i[p])
      BY <3>0, FS_Interval
    <3>2. i[p] + 1 \notin 1 .. i[p]
      BY <1>4
    <3> QED
      BY <3>1, <3>2, FS_Subset
  <2>3. R = IF msg[p][i[p] + 1] \notin {NL, BS} THEN P \cup {i[p] + 1} ELSE P
    <3>1. \A k : k \in 1 .. i[p] + 1 <=> k \in 1 .. i[p] \/ k = i[p] + 1
      BY <1>4
    <3>2. CASE msg[p][i[p] + 1] \notin {NL, BS}
      <4>1. \A k : k \in R <=> k \in P \/ k = i[p] + 1
        BY <3>1, <3>2
      <4> QED
        BY <3>2, <4>1
    <3>3. CASE msg[p][i[p] + 1] \in {NL, BS}
      <4>1. \A k : k \in R <=> k \in P
        BY <3>1, <3>3
      <4> QED
        BY <3>3, <4>1
    <3> QED
      BY <3>2, <3>3
  <2>4. Visible(p) = Cardinality(P) /\ Visible(p)' = Cardinality(R)
    BY <1>1 DEF Visible
  <2>5. Visible(p)' = IF Branch(sz[i[p]]) = "put" THEN Visible(p) + 1 ELSE Visible(p)
    BY <1>2, <1>5, <1>6, <2>2, <2>3, <2>4, FS_AddElement
  <2>6. Len(msg'[p]) - i'[p] + 1 = l
    BY <1>1, <1>4
  <2>7. (Visible(p) + 1) - 1 = Visible(p)
    BY <1>4
  <2> HIDE DEF l
  <2> QED
    BY <1>1, <1>2, <1>3, <2>1, <2>5, <2>6, <2>7 DEF CursorAt
<1> QED
  BY <1>1, <1>5, <1>6, OnlyOne

\* The steps from a character to the next one: the text stays, and the cursor
\* is where CursorAt says.
LEMMA AloneCursor ==
    ASSUME BufferInv, AloneInv, NEW p \in Cpu, NEW to, pc' = [pc EXCEPT ![p] = to],
           pc[p] \notin {"idle", "format"}, to \notin {"idle", "format"},
           UNCHANGED <<sz, msg, i, alone, from>>,
           OwnText(p) /\ CursorAt(p) => CursorAt(p)'
    PROVE  AloneInv'
<1>1. pc'[p] = to
  BY DEF BufferInv, TypeInv
<1>2. ASSUME alone[p] PROVE OwnText(p)'
  <2>1. OwnText(p)
    BY <1>2 DEF AloneInv
  <2> QED
    BY <1>1, <2>1 DEF OwnText
<1>3. ASSUME alone[p], from' >= Len(msg'[p]) PROVE CursorAt(p)'
  BY <1>3 DEF AloneInv
<1> QED
  BY <1>2, <1>3, OnlyOne

\* All steps of one processor.
LEMMA AloneStep ==
    ASSUME BufferInv, AloneInv, NEW p \in Cpu, Step(p)
    PROVE  AloneInv'
<1> DEFINE v == Visible(p)
           l == Len(msg[p]) - i[p]
<1>1. /\ v \in Int /\ cursor \in Int /\ reg[p] \in Int /\ from \in Int /\ l \in Int
      /\ l <= Size - SCREEN_COL /\ i[p] \in Nat /\ Len(msg[p]) \in Nat
  BY Numbers, Sizes
<1>2. ASSUME NEW to, pc' = [pc EXCEPT ![p] = to] PROVE pc'[p] = to
  BY <1>2 DEF BufferInv, TypeInv
<1>3. ASSUME NEW x, reg' = [reg EXCEPT ![p] = x] PROVE reg'[p] = x
  BY <1>3 DEF BufferInv, TypeInv
<1>4. ASSUME UNCHANGED <<msg, i>> PROVE Visible(p)' = v /\ Len(msg'[p]) - i'[p] = l
  BY <1>4 DEF Visible
<1>5. CASE StoreChar(p) \/ StoreEnd(p)
  BY <1>5, AloneFormat
<1>6. CASE NextChar(p)
  BY <1>6, AloneNext
<1>7. CASE Return(p)
  <2>1. pc' = [pc EXCEPT ![p] = "idle"] /\ pc[p] # "idle" /\ alone' = alone
    BY <1>7 DEF Return, Goto
  <2> QED
    BY <2>1, OnlyOne
<1> HIDE DEF v, l
<1> USE DEF rest, Goto
<1>8. CASE PutVideo(p)
  <2>1. /\ pc[p] = "put" /\ pc' = [pc EXCEPT ![p] = "put.count"] /\ pc'[p] = "put.count"
        /\ reg'[p] = cursor
        /\ UNCHANGED <<sz, msg, i, alone, from, cursor>>
    BY <1>2, <1>3, <1>8 DEF PutVideo
  <2>2. OwnText(p) /\ CursorAt(p) => CursorAt(p)'
    BY <1>4, <2>1 DEF CursorAt, v, l
  <2> QED
    BY <2>1, <2>2, AloneCursor
<1>9. CASE PutCount(p)
  <2>1. /\ pc[p] = "put.count" /\ pc' = [pc EXCEPT ![p] = "put.store"] /\ pc'[p] = "put.store"
        /\ reg'[p] \in {reg[p], cursor}
        /\ UNCHANGED <<sz, msg, i, alone, from, cursor>>
    BY <1>2, <1>3, <1>9 DEF PutCount, Load
  <2>2. OwnText(p) /\ CursorAt(p) => CursorAt(p)'
    BY <1>4, <2>1 DEF CursorAt, v, l
  <2> QED
    BY <2>1, <2>2, AloneCursor
<1>10. CASE PutStore(p)
  <2>1. /\ pc[p] = "put.store" /\ pc' = [pc EXCEPT ![p] = "set"] /\ pc'[p] = "set"
        /\ reg'[p] = reg[p] + 1 /\ cursor' = reg[p] + 1
        /\ UNCHANGED <<sz, msg, i, alone, from>>
    BY <1>2, <1>3, <1>10 DEF PutStore, Store
  <2>2. ASSUME OwnText(p), CursorAt(p) PROVE CursorAt(p)'
    <3>1. l \in Nat
      BY <1>1, <2>1, <2>2 DEF OwnText, l
    <3>2. Moving(reg[p] + 1, from, v, l)
      BY <1>1, <2>1, <2>2, <3>1, Moves DEF CursorAt, v, l
    <3> QED
      BY <1>4, <2>1, <2>2, <3>2 DEF CursorAt, v, l
  <2> QED
    BY <2>1, <2>2, AloneCursor
<1>11. CASE DelCount(p)
  <2>1. /\ pc[p] = "delete" /\ pc' = [pc EXCEPT ![p] = "delete.store"] /\ pc'[p] = "delete.store"
        /\ reg'[p] = cursor
        /\ UNCHANGED <<sz, msg, i, alone, from, cursor>>
    BY <1>2, <1>3, <1>11 DEF DelCount
  <2>2. OwnText(p) /\ CursorAt(p) => CursorAt(p)'
    BY <1>4, <2>1 DEF CursorAt, v, l
  <2> QED
    BY <2>1, <2>2, AloneCursor
<1>12. CASE DelStore(p)
  <2>1. /\ pc[p] = "delete.store" /\ pc' = [pc EXCEPT ![p] = "set"] /\ pc'[p] = "set"
        /\ reg'[p] = reg[p] - 1 /\ cursor' = reg[p] - 1
        /\ UNCHANGED <<sz, msg, i, alone, from>>
    BY <1>2, <1>3, <1>12 DEF DelStore, Store
  <2>2. ASSUME OwnText(p), CursorAt(p) PROVE CursorAt(p)'
    <3>1. l \in Nat
      BY <1>1, <2>1, <2>2 DEF OwnText, l
    <3>2. Moving(reg[p] - 1, from, v, l)
      BY <1>1, <2>1, <2>2, <3>1, Moves DEF CursorAt, v, l
    <3> QED
      BY <1>4, <2>1, <2>2, <3>2 DEF CursorAt, v, l
  <2> QED
    BY <2>1, <2>2, AloneCursor
<1>13. CASE Newline(p)
  <2>1. /\ pc[p] = "newline" /\ pc' = [pc EXCEPT ![p] = "set.store"] /\ pc'[p] = "set.store"
        /\ reg'[p] = (cursor \div SCREEN_COL + 1) * SCREEN_COL
        /\ UNCHANGED <<sz, msg, i, alone, from, cursor>>
    BY <1>2, <1>3, <1>13 DEF Newline
  <2>2. ASSUME OwnText(p), CursorAt(p) PROVE CursorAt(p)'
    <3>1. l \in Nat
      BY <1>1, <2>1, <2>2 DEF OwnText, l
    <3>2. Moving((cursor \div SCREEN_COL + 1) * SCREEN_COL, from, v, l)
      BY <1>1, <2>1, <2>2, <3>1, Moves DEF CursorAt, v, l
    <3> QED
      BY <1>4, <2>1, <2>2, <3>2 DEF CursorAt, v, l
  <2> QED
    BY <2>1, <2>2, AloneCursor
<1>14. CASE SetArgument(p)
  <2>1. /\ pc[p] = "set" /\ pc' = [pc EXCEPT ![p] = "set.store"] /\ pc'[p] = "set.store"
        /\ reg'[p] \in {reg[p], cursor}
        /\ UNCHANGED <<sz, msg, i, alone, from, cursor>>
    BY <1>2, <1>3, <1>14 DEF SetArgument, Load
  <2>2. OwnText(p) /\ CursorAt(p) => CursorAt(p)'
    BY <1>4, <2>1 DEF CursorAt, v, l
  <2> QED
    BY <2>1, <2>2, AloneCursor
<1>15. CASE SetStore(p)
  <2>1. /\ pc[p] = "set.store" /\ pc' = [pc EXCEPT ![p] = "set.check"] /\ pc'[p] = "set.check"
        /\ reg'[p] = reg[p] /\ cursor' = reg[p]
        /\ UNCHANGED <<sz, msg, i, alone, from>>
    BY <1>2, <1>3, <1>15 DEF SetStore, Store
  <2>2. OwnText(p) /\ CursorAt(p) => CursorAt(p)'
    BY <1>4, <2>1 DEF CursorAt, v, l
  <2> QED
    BY <2>1, <2>2, AloneCursor
<1>16. CASE SetCheck(p)
  <2>1. PICK x \in {reg[p], cursor} :
           /\ pc[p] = "set.check"
           /\ pc' = [pc EXCEPT ![p] = IF OffScreen(x) THEN "set.scroll" ELSE "loop"]
           /\ reg' = [reg EXCEPT ![p] = x]
    BY <1>16 DEF SetCheck
  <2>2. /\ pc'[p] = IF OffScreen(x) THEN "set.scroll" ELSE "loop"
        /\ reg'[p] = x /\ UNCHANGED <<sz, msg, i, alone, from, cursor>>
    BY <1>2, <1>3, <1>16, <2>1 DEF SetCheck
  <2>3. ASSUME OwnText(p), CursorAt(p) PROVE CursorAt(p)'
    <3>1. l \in Nat
      BY <1>1, <2>1, <2>3 DEF OwnText, l
    <3>2. x = cursor /\ reg[p] = cursor /\ Moving(cursor, from, v, l)
      BY <2>1, <2>3 DEF CursorAt, v, l
    <3>3. ~OffScreen(cursor) => Settled(cursor, from, v, l)
      BY <1>1, <3>1, <3>2, Settles
    <3>4. CASE OffScreen(cursor)
      BY <1>4, <2>2, <3>2, <3>4 DEF CursorAt
    <3>5. CASE ~OffScreen(cursor)
      BY <1>4, <2>2, <3>2, <3>3, <3>5 DEF CursorAt
    <3> QED
      BY <3>4, <3>5
  <2>4. (IF OffScreen(x) THEN "set.scroll" ELSE "loop") \notin {"idle", "format"}
    OBVIOUS
  <2> QED
    BY <2>1, <2>2, <2>3, <2>4, AloneCursor
<1>17. CASE SetScroll(p)
  <2>1. /\ pc[p] = "set.scroll" /\ pc' = [pc EXCEPT ![p] = "set.back"] /\ pc'[p] = "set.back"
        /\ reg'[p] \in {reg[p], cursor}
        /\ UNCHANGED <<sz, msg, i, alone, from, cursor>>
    BY <1>2, <1>3, <1>17 DEF SetScroll, Load
  <2>2. OwnText(p) /\ CursorAt(p) => CursorAt(p)'
    BY <1>4, <2>1 DEF CursorAt, v, l
  <2> QED
    BY <2>1, <2>2, AloneCursor
<1>18. CASE SetBack(p)
  <2>1. /\ pc[p] = "set.back" /\ pc' = [pc EXCEPT ![p] = "loop"] /\ pc'[p] = "loop"
        /\ reg'[p] = reg[p] - SCREEN_COL /\ cursor' = reg[p] - SCREEN_COL
        /\ UNCHANGED <<sz, msg, i, alone, from>>
    BY <1>2, <1>3, <1>18 DEF SetBack, Store
  <2>2. ASSUME OwnText(p), CursorAt(p) PROVE CursorAt(p)'
    <3>1. l \in Nat
      BY <1>1, <2>1, <2>2 DEF OwnText, l
    <3>2. Settled(reg[p] - SCREEN_COL, from, v, l)
      BY <1>1, <2>1, <2>2, <3>1, Settles DEF CursorAt, v, l
    <3> QED
      BY <1>4, <2>1, <2>2, <3>2 DEF CursorAt, v, l
  <2> QED
    BY <2>1, <2>2, AloneCursor
<1> QED
  BY <1>5, <1>6, <1>7, <1>8, <1>9, <1>10, <1>11, <1>12, <1>13, <1>14, <1>15, <1>16, <1>17, <1>18 DEF Step

\* Another call begins.
LEMMA AloneCall ==
    ASSUME BufferInv, AloneInv, NEW p \in Cpu, NEW m \in Texts[p], Call(p, m)
    PROVE  AloneInv'
<1>1. /\ pc' = [pc EXCEPT ![p] = "format"] /\ pc[p] = "idle" /\ msg' = [msg EXCEPT ![p] = m]
      /\ alone' = [q \in Cpu |-> q = p /\ \A o \in Cpu \ {p} : pc[o] = "idle"]
      /\ from' = IF alone'[p] THEN cursor ELSE 0
      /\ UNCHANGED <<sz, cursor, i, reg>>
  BY DEF Call, Goto
<1>2. /\ pc'[p] = "format" /\ msg'[p] = m /\ i'[p] = 0 /\ Len(m) \in Nat
      /\ \A q \in Cpu \ {p} : pc'[q] = pc[q]
  <2>1. m \in Seq(Chars)
    BY TextsAssumption DEF Chars
  <2> QED
    BY <1>1, <2>1 DEF BufferInv, TypeInv
<1>3. ASSUME NEW q \in Cpu \ {p} PROVE ~alone'[q]
  BY <1>1
<1>4. ASSUME alone'[p] PROVE Others(p)' /\ OwnText(p)' /\ CursorAt(p)'
  <2>1. Others(p)'
    BY <1>1, <1>2, <1>4 DEF Others
  <2>2. OwnText(p)'
    BY <1>2 DEF OwnText
  <2>3. CursorAt(p)'
    BY <1>1, <1>2, <1>4 DEF CursorAt
  <2> QED
    BY <2>1, <2>2, <2>3
<1> QED
  BY <1>3, <1>4 DEF AloneInv

\* A call that no other processor disturbs finds its own text in sz and brings
\* the cursor back to the screen, whatever texts and cursor earlier calls of any
\* number of processors left behind (caos_printf, set_cursor).
THEOREM PrintUndisturbed == Spec => []Undisturbed
<1>1. Init => AloneInv
  BY DEF Init, AloneInv
<1>2. BufferInv /\ AloneInv /\ [Next]_vars => AloneInv'
  <2>1. ASSUME AloneInv, UNCHANGED vars PROVE AloneInv'
    BY <2>1, ZenonT(30) DEF AloneInv, Others, OwnText, CursorAt, Visible, vars
  <2> QED
    BY <2>1, AloneStep, AloneCall DEF Next, Quiet
<1>3. BufferInv /\ AloneInv => Undisturbed
  <2> SUFFICES ASSUME BufferInv, AloneInv, NEW p \in Cpu, alone[p], pc[p] = "loop"
               PROVE  /\ \A k \in 1 .. Len(msg[p]) : sz[k - 1] = msg[p][k]
                      /\ sz[Len(msg[p])] = NUL
                      /\ from >= Len(msg[p]) =>
                            \/ cursor \in Cells
                            \/ from >= Size /\ cursor <= from - Visible(p) * (SCREEN_COL - 1)
    BY DEF Undisturbed
  <2> QED
    BY DEF AloneInv, OwnText, CursorAt, Settled
<1> QED
  BY <1>1, <1>2, <1>3, PrintBuffer, PTL DEF Spec
=============================================================================
