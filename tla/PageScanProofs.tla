--------------------------- MODULE PageScanProofs ---------------------------
(***************************************************************************)
(* The search loop of __alloc_pages finds the first fitting run, for every *)
(* zone, every order and every history of calls, and the allocator with    *)
(* the loop implements the one-step allocator of PageAlloc.  The inductive *)
(* invariant adds to that of PageAllocProofs what the loop knows at any    *)
(* time: no run starts below first, and the pages from first up to         *)
(* first+last are free.                                                    *)
(***************************************************************************)
EXTENDS PageScan, PageAllocProofs

\* What the loop has found out so far.
Progress ==
    /\ pc # "idle" => /\ free_pages > PageCount[order]
                      /\ \A f \in Zone : f < first => f \notin Fit(order)
    /\ pc = "inner" => /\ first < Pages
                       /\ \A d \in first .. first + last - 1 : count[d] = 0

ScanIInv == IInv /\ ScanTypeOK /\ Progress

\* A search that found its run does what PageAlloc's alloc_pages does.
LEMMA TakeRunAllocates ==
    ASSUME ScanIInv, TakeRun
    PROVE  alloc_pages(order)
  <1>1. /\ order \in Orders /\ first \in Zone
        /\ PageCount[order] \in Nat \ {0}
    BY PageCountType, PagesAssumption DEF ScanIInv, ScanTypeOK, Progress, TakeRun, Zone
  <1>2. first \in Fit(order)
    BY <1>1 DEF ScanIInv, Progress, TakeRun, Fit, Block
  <1>3. \A f \in Fit(order) : first <= f
    BY <1>1, PagesAssumption DEF ScanIInv, Progress, TakeRun, Fit, Zone
  <1> QED
    BY <1>2, <1>3 DEF alloc_pages, TakeRun, ScanIInv, Progress

\* The steps that only search leave mem_map and the zone alone.
LEMMA SearchSteps ==
    ASSUME ScanIInv,
           SkipBusy \/ StartRun \/ Extend \/ BreakRun \/ GiveUp
                    \/ \E o \in Orders : EnterScan(o)
    PROVE  UNCHANGED vars
  BY DEF SkipBusy, StartRun, Extend, BreakRun, GiveUp, EnterScan, vars

LEMMA ScanInitIInv == ScanInit => ScanIInv
  <1> SUFFICES ASSUME ScanInit PROVE ScanIInv
    OBVIOUS
  <1>1. IInv
    BY InitIInv DEF ScanInit
  <1>2. 0 \in Orders /\ PageCount[0] \in Nat
    BY OrderAssumption, PageCountType DEF Orders
  <1> QED
    BY <1>1, <1>2 DEF ScanInit, ScanIInv, IInv, ScanTypeOK, Progress

LEMMA ScanNextIInv ==
    ASSUME ScanIInv, [ScanNext]_scan_vars
    PROVE  ScanIInv'
  <1>0. /\ order \in Orders /\ first \in Nat /\ last \in Nat /\ last <= PageCount[order]
        /\ Pages \in Nat \ {0} /\ PageCount[order] \in Nat \ {0}
        /\ count \in [Descr -> {0, 1}]
    BY PageCountType, PagesAssumption DEF ScanIInv, ScanTypeOK, TypeOK
  <1>1. ASSUME UNCHANGED vars PROVE IInv'
    BY <1>1 DEF ScanIInv, IInv, vars, TypeOK, PrivateFresh, BlocksDisjoint, ReservedKept,
                NoLeak, FreeAccounting, Heads, BlockOf, Block, Busy
  <1>2. ASSUME NEW o \in Orders, EnterScan(o) PROVE ScanIInv'
    <2>1. UNCHANGED vars /\ IInv'
      BY <1>1, <1>2 DEF EnterScan
    <2>2. PageCount[o] \in Nat
      BY PageCountType
    <2> QED
      BY <2>1, <2>2, <1>2, PagesAssumption
      DEF EnterScan, ScanIInv, IInv, ScanTypeOK, Progress, vars, Zone
  <1>3. CASE SkipBusy
    <2>1. UNCHANGED vars /\ IInv'
      BY <1>1, <1>3 DEF SkipBusy
    <2>2. first \notin Fit(order)
      BY <1>0, <1>3, BlockFacts DEF SkipBusy, Fit
    <2>3. \A f \in Zone : f < first' => f \notin Fit(order)
      BY <1>0, <1>3, <2>2 DEF SkipBusy, ScanIInv, Progress, Zone
    <2> QED
      BY <2>1, <2>3, <1>0, <1>3 DEF SkipBusy, ScanIInv, IInv, ScanTypeOK, Progress, vars, Fit
  <1>4. CASE StartRun
    <2>1. UNCHANGED vars /\ IInv'
      BY <1>1, <1>4 DEF StartRun
    <2> QED
      BY <2>1, <1>0, <1>4 DEF StartRun, ScanIInv, IInv, ScanTypeOK, Progress, vars, Fit
  <1>5. CASE Extend
    <2>1. UNCHANGED vars /\ IInv'
      BY <1>1, <1>5 DEF Extend
    <2> QED
      BY <2>1, <1>0, <1>5 DEF Extend, ScanIInv, IInv, ScanTypeOK, Progress, vars, Fit
  <1>6. CASE BreakRun
    <2>1. UNCHANGED vars /\ IInv'
      BY <1>1, <1>6 DEF BreakRun
    <2>2. ASSUME NEW f \in Zone, first <= f, f <= first + last PROVE f \notin Fit(order)
      <3>1. first + last \in Block(f, order)
        BY <1>0, <1>6, <2>2 DEF BreakRun, Block, Zone
      <3> QED
        BY <3>1, <1>6 DEF BreakRun, Fit
    <2>3. \A f \in Zone : f < first' => f \notin Fit(order)
      BY <1>0, <1>6, <2>2 DEF BreakRun, ScanIInv, Progress, Zone
    <2> QED
      BY <2>1, <2>3, <1>0, <1>6 DEF BreakRun, ScanIInv, IInv, ScanTypeOK, Progress, vars, Fit
  <1>7. CASE TakeRun
    <2>1. IInv'
      BY <1>0, <1>7, TakeRunAllocates, AllocIInv DEF ScanIInv
    <2> QED
      BY <2>1, <1>0, <1>7 DEF TakeRun, ScanIInv, IInv, ScanTypeOK, Progress
  <1>8. CASE GiveUp
    <2>1. UNCHANGED vars /\ IInv'
      BY <1>1, <1>8 DEF GiveUp
    <2> QED
      BY <2>1, <1>0, <1>8 DEF GiveUp, ScanIInv, IInv, ScanTypeOK, Progress
  <1>9. ASSUME NEW page \in Zone, NEW o \in Orders, Free(page, o) PROVE ScanIInv'
    <2>1. IInv'
      BY <1>9, FreeIInv DEF Free, ScanIInv
    <2> QED
      BY <2>1, <1>0, <1>9 DEF Free, ScanIInv, IInv, ScanTypeOK, Progress
  <1>10. CASE UNCHANGED scan_vars
    <2>1. UNCHANGED vars /\ IInv'
      BY <1>1, <1>10 DEF scan_vars, vars
    <2> QED
      BY <2>1, <1>10 DEF scan_vars, vars, ScanIInv, IInv, ScanTypeOK, Progress, Fit
  <1> QED
    BY <1>2, <1>3, <1>4, <1>5, <1>6, <1>7, <1>8, <1>9, <1>10 DEF ScanNext, Scan

-----------------------------------------------------------------------------
\* The loop of page_alloc.c:80-124 computes first fit: what it takes is free
\* and the lowest such run, and NULL means that no run starts in the zone.
THEOREM ScanIsFirstFit == ScanSpec => []FirstFit
<1>1. ScanIInv => FirstFit
  <2> SUFFICES ASSUME ScanIInv PROVE FirstFit
    OBVIOUS
  <2>0. /\ order \in Orders /\ first \in Nat
        /\ Pages \in Nat \ {0} /\ PageCount[order] \in Nat \ {0}
    BY PageCountType, PagesAssumption DEF ScanIInv, ScanTypeOK
  <2>1. CASE pc = "inner" /\ last = PageCount[order]
    <3>1. first \in Fit(order)
      BY <2>0, <2>1 DEF ScanIInv, Progress, Fit, Block, Zone
    <3>2. \A f \in Fit(order) : first <= f
      BY <2>0, <2>1 DEF ScanIInv, Progress, Fit, Zone
    <3> QED
      BY <2>1, <3>1, <3>2 DEF FirstFit
  <2>2. CASE pc = "outer" /\ first >= Pages
    BY <2>0, <2>2 DEF ScanIInv, Progress, Fit, FirstFit, Zone
  <2> QED
    BY <2>1, <2>2 DEF FirstFit
<1> QED
  BY <1>1, ScanInitIInv, ScanNextIInv, PTL DEF ScanSpec

\* With 2^MAX_PAGE_ORDER - 1 descriptors behind the zone the unbounded inner
\* loop (page_alloc.c:90) reads only memory that belongs to mem_map.
THEOREM ScanReadsInMap == ScanSpec => []ReadsInMap
<1>1. ScanIInv => ReadsInMap
  <2> SUFFICES ASSUME ScanIInv, pc = "inner", last < PageCount[order]
               PROVE  first + last \in Descr
    BY DEF ReadsInMap
  <2>1. /\ order \in Orders /\ first \in Zone /\ last \in Nat
        /\ PageCount[order] \in Nat \ {0}
    BY PageCountType, PagesAssumption DEF ScanIInv, ScanTypeOK, Progress, Zone
  <2>2. first + last \in Block(first, order)
    BY <2>1, PagesAssumption DEF Block, Zone
  <2> QED
    BY <2>1, <2>2, BlockFacts
<1> QED
  BY <1>1, ScanInitIInv, ScanNextIInv, PTL DEF ScanSpec

\* page_alloc.c with its search loop implements the one-step allocator: the
\* step that takes a run is alloc_pages, a free is __free_pages, and whatever
\* else the loop does leaves mem_map and the zone alone.  With this the theorems
\* of PageAllocProofs hold for the allocator with the loop.
THEOREM ScanImplementsAllocator == ScanSpec => AtomicSpec
<1>1. ScanInit => Init
  BY DEF ScanInit
<1>2. ScanIInv /\ [ScanNext]_scan_vars => [Next]_vars
  <2> SUFFICES ASSUME ScanIInv, [ScanNext]_scan_vars PROVE Next \/ UNCHANGED vars
    OBVIOUS
  <2>1. CASE TakeRun
    BY <2>1, TakeRunAllocates DEF Next, ScanIInv, ScanTypeOK
  <2>2. ASSUME NEW page \in Zone, NEW o \in Orders, Free(page, o) PROVE Next
    BY <2>2 DEF Free, Next
  <2>3. CASE UNCHANGED scan_vars
    BY <2>3 DEF scan_vars, vars
  <2> QED
    BY <2>1, <2>2, <2>3, SearchSteps DEF ScanNext, Scan
<1> QED
  BY <1>1, <1>2, ScanInitIInv, ScanNextIInv, PTL DEF ScanSpec, AtomicSpec, Spec
=============================================================================
