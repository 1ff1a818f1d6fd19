----------------------------- MODULE PageWalk -------------------------------
(***************************************************************************)
(* x86-64 page tables as the loops that write them (set_pgd, set_pud,      *)
(* set_pmd and set_pte of pgtable.h, and set_PDE and set_PTE of setup.asm) *)
(* and the walk the processor does through them.                           *)
(*                                                                         *)
(* The entry with index i of the table in page frame f has the number      *)
(* 512 * f + i.  A loop writes n entries from number at on: the first one  *)
(* names frame to, each later one stride frames more.  A later loop of the *)
(* sequence overwrites what an earlier one left.                           *)
(***************************************************************************)
EXTENDS Integers, Sequences

NotPresent == -1

Entry(frame, index) == 512 * frame + index

Loop(at, n, to, stride) == [at |-> at, n |-> n, to |-> to, stride |-> stride]

\* set_pgd(..., __pgd(0)) in a loop
ZeroLoop(at, n) == Loop(at, n, NotPresent, 0)

Hits(loops, e) ==
    { k \in DOMAIN loops : loops[k].at <= e /\ e < loops[k].at + loops[k].n }

\* The frame entry number e names.  Memory no loop has written is zero:
\* setup.asm clears it before it builds tables there.
EntryAt(loops, e) ==
    LET hits == Hits(loops, e)
        w    == loops[CHOOSE k \in hits : \A j \in hits : j <= k]
    IN  IF hits = {} THEN NotPresent ELSE w.to + (e - w.at) * w.stride

\* One level of the walk: the frame named by entry index of table f.
Level(loops, f, index) == IF f = NotPresent THEN NotPresent ELSE EntryAt(loops, Entry(f, index))

\* The fields of a linear page number below a PGD entry.
pud_index(page) == (page \div 2^18) % 512
pmd_index(page) == (page \div 2^9) % 512
pte_index(page) == page % 512

\* The page frame that linear page number page under PGD entry top maps to.
Walk(loops, cr3, top, page) ==
    LET pud == Level(loops, cr3, top)
        pmd == Level(loops, pud, pud_index(page))
        pte == Level(loops, pmd, pmd_index(page))
    IN  Level(loops, pte, pte_index(page))

\* The first and the last page of each of n tables of PTEs.
TableEdges(n) == { 512 * k : k \in 0 .. n - 1 } \cup { 512 * k + 511 : k \in 0 .. n - 1 }
=============================================================================
