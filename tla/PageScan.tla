------------------------------ MODULE PageScan ------------------------------
(***************************************************************************)
(* The page allocator with the search loop of __alloc_pages step by step,  *)
(* one step per descriptor the loop looks at.  PageAlloc takes a call for  *)
(* one step that finds the first free run of the wanted length; here the   *)
(* loop has to find it, on every map that calls of alloc_pages and         *)
(* __free_pages leave behind.  It skips ahead (first += last) over a run   *)
(* that is too short, and it has no bound on first+last.                   *)
(***************************************************************************)
EXTENDS PageAlloc

VARIABLES order,        \* the order the caller asked for
          first, last,  \* the loop variables
          pc            \* "idle", or the loop it is in: "outer", "inner"

scan_vars == <<count, private, free_pages, order, first, last, pc>>

ScanInit == /\ Init
            /\ order = 0
            /\ first = 0
            /\ last = 0
            /\ pc = "idle"

\* Mutant: as many free pages as asked for are enough.
EnterScan_Equal(o) == /\ pc = "idle"
                      /\ free_pages >= PageCount[o]
                      /\ order' = o
                      /\ first' = 0
                      /\ pc' = "outer"
                      /\ last' = 0
                      /\ UNCHANGED vars

\* The call: one zone, and it must have more free pages than asked for.  A call
\* that finds fewer returns NULL and changes nothing.
EnterScan(o) == /\ pc = "idle"
                /\ free_pages > PageCount[o]
                /\ order' = o
                /\ first' = 0
                /\ pc' = "outer"
                /\ last' = 0
                /\ UNCHANGED vars

\* if (map[first].count != 0) continue;
SkipBusy == /\ pc = "outer" /\ first < Pages
            /\ count[first] # 0
            /\ first' = first + 1
            /\ UNCHANGED <<vars, order, last, pc>>

\* Mutant: the outer loop runs once too often.
StartRun_Inclusive == /\ pc = "outer" /\ first <= Pages
                      /\ count[first] = 0
                      /\ last' = 0
                      /\ pc' = "inner"
                      /\ UNCHANGED <<vars, order, first>>

\* A free page: look at the pages behind it.
StartRun == /\ pc = "outer" /\ first < Pages
            /\ count[first] = 0
            /\ last' = 0
            /\ pc' = "inner"
            /\ UNCHANGED <<vars, order, first>>

\* Mutant: the inner loop looks at the first page again and again.
Extend_First == /\ pc = "inner" /\ last < PageCount[order]
                /\ count[first] = 0
                /\ last' = last + 1
                /\ UNCHANGED <<vars, order, first, pc>>

\* The page behind the run is free too.
Extend == /\ pc = "inner" /\ last < PageCount[order]
          /\ count[first + last] = 0
          /\ last' = last + 1
          /\ UNCHANGED <<vars, order, first, pc>>

\* Mutant: the skip forgets that the loop head adds one more.
BreakRun_Far == /\ pc = "inner" /\ last < PageCount[order]
                /\ count[first + last] > 0
                /\ first' = first + last + 2
                /\ pc' = "outer"
                /\ UNCHANGED <<vars, order, last>>

\* Mutant: the outer loop goes on from the page it started at.
BreakRun_Stay == /\ pc = "inner" /\ last < PageCount[order]
                 /\ count[first + last] > 0
                 /\ pc' = "outer"
                 /\ UNCHANGED <<vars, order, first, last>>

\* first += last; break; and the first++ of the outer loop.
BreakRun == /\ pc = "inner" /\ last < PageCount[order]
            /\ count[first + last] > 0
            /\ first' = first + last + 1
            /\ pc' = "outer"
            /\ UNCHANGED <<vars, order, last>>

\* Mutant: the last page of the block is not marked.
TakeRun_OffByOne == /\ pc = "inner" /\ last = PageCount[order]
                    /\ count' = [d \in Descr |->
                          IF d \in Block(first, order) /\ d < first + last - 1
                          THEN 1 ELSE count[d]]
                    /\ private' = [private EXCEPT ![first] = order]
                    /\ free_pages' = free_pages - PageCount[order]
                    /\ pc' = "idle"
                    /\ UNCHANGED <<order, first, last>>

\* Mutant: the zone's counter loses the order, not the pages of the order.
TakeRun_CountsOrder == /\ pc = "inner" /\ last = PageCount[order]
                       /\ MarkBlock(first, order)
                       /\ free_pages' = free_pages - (order + 1)
                       /\ pc' = "idle"
                       /\ UNCHANGED <<order, first, last>>

\* if (last == count): the run is marked and returned.
TakeRun == /\ pc = "inner" /\ last = PageCount[order]
           /\ MarkBlock(first, order)
           /\ free_pages' = free_pages - PageCount[order]
           /\ pc' = "idle"
           /\ UNCHANGED <<order, first, last>>

\* The outer loop is done; there is no other zone, and alloc_pages returns NULL.
GiveUp == /\ pc = "outer" /\ first >= Pages
          /\ pc' = "idle"
          /\ UNCHANGED <<vars, order, first, last>>

Scan == SkipBusy \/ StartRun \/ Extend \/ BreakRun \/ TakeRun \/ GiveUp

\* Callers run one at a time: a block is given back between two searches.
Free(page, o) == /\ pc = "idle"
                 /\ __free_pages(page, o)
                 /\ UNCHANGED <<order, first, last, pc>>

ScanNext == \/ \E o \in Orders : EnterScan(o)
            \/ Scan
            \/ \E page \in Zone, o \in Orders : Free(page, o)

ScanSpec == ScanInit /\ [][ScanNext]_scan_vars
ScanFairSpec == ScanSpec /\ WF_scan_vars(Scan)

-----------------------------------------------------------------------------
ScanTypeOK == /\ TypeOK
              /\ order \in Orders
              /\ first \in Nat
              /\ last \in 0 .. PageCount[order]
              /\ pc \in {"idle", "outer", "inner"}

\* The inner loop reads no descriptor outside mem_map's last page.
ReadsInMap == pc = "inner" /\ last < PageCount[order] => first + last \in Descr

\* The loop takes the first run that fits and gives up only if none does: the
\* skip over a run that is too short loses no candidate.
FirstFit ==
    /\ pc = "inner" /\ last = PageCount[order] =>
          first \in Fit(order) /\ \A f \in Fit(order) : first <= f
    /\ pc = "outer" /\ first >= Pages => Fit(order) = {}

\* Every search ends, with a run or with NULL.
ScanEnds == pc # "idle" ~> pc = "idle"

\* What its callers see is the one-step allocator of PageAlloc: the search loop
\* grants only what the first fit would, and a search that fails leaves no trace.
AtomicSpec == Spec
=============================================================================
