----------------------------- MODULE SlabProofs -----------------------------
(***************************************************************************)
(* The object allocator for every cache table and every zone: the free     *)
(* lists are exact, slabs, lists and pages agree, and an object that is    *)
(* out has the size its caller asked for.                                  *)
(*                                                                         *)
(* The page allocator is taken by what PageAllocProofs proves about it:    *)
(* its invariant PP!IInv, and the effect of alloc_pages and __free_pages   *)
(* on the blocks that are out.                                             *)
(***************************************************************************)
EXTENDS Slab, WellFoundedInduction, FiniteSetTheorems, TLAPS

PP == INSTANCE PageAllocProofs

\* The least element of a set of naturals.
LEMMA MinIs == ASSUME NEW S \in SUBSET Nat, S # {} PROVE Min(S) \in S /\ \A y \in S : Min(S) <= y
<1>1. PICK x \in S : \A y \in S : ~(<<y, x>> \in OpToRel(<, Nat))
  BY NatLessThanWellFounded, WFMin
<1>2. \A y \in S : x <= y
  <2>1. ASSUME NEW y \in S, y < x PROVE FALSE
    <3>1. <<y, x>> \in OpToRel(<, Nat)
      BY <2>1 DEF OpToRel
    <3> QED
      BY <1>1, <3>1
  <2> QED
    BY <2>1
<1> QED
  BY <1>2 DEF Min

-----------------------------------------------------------------------------
(* The pages                                                                  *)

\* Both instances of the page allocator are the same.
LEMMA SamePages ==
    /\ PP!Zone = PA!Zone /\ PP!Descr = PA!Descr /\ PP!Orders = PA!Orders
    /\ PP!PageCount = PA!PageCount /\ PP!NoOrder = PA!NoOrder
    /\ PP!Heads = PA!Heads /\ PP!Heads' = PA!Heads'
    /\ \A p, o : PP!Block(p, o) = PA!Block(p, o)
    /\ \A p : PP!BlockOf(p) = PA!BlockOf(p)
    /\ \A o : PP!Fit(o) = PA!Fit(o)
  BY DEF PP!Zone, PA!Zone, PP!Descr, PA!Descr, PP!Orders, PA!Orders, PP!PageCount, PA!PageCount,
         PP!NoOrder, PA!NoOrder, PP!Heads, PA!Heads, PP!Block, PA!Block, PP!BlockOf, PA!BlockOf,
         PP!Fit, PA!Fit

\* The standard operators that the two instances bring along.
LEMMA SameCardinality == ASSUME NEW S PROVE PP!Cardinality(S) = PA!Cardinality(S)
  BY DEF PP!Cardinality, PA!Cardinality

\* And so are their steps.
LEMMA SameSteps ==
    /\ PA!Init => PP!Init
    /\ \A o : PA!alloc_pages(o) => PP!alloc_pages(o)
    /\ \A p, o : PA!__free_pages(p, o) => PP!__free_pages(p, o)
<1>1. PA!Init => PP!Init
  <2>1. PP!Cardinality(PA!Zone \ Reserved) = PA!Cardinality(PA!Zone \ Reserved)
    BY SameCardinality
  <2> QED
    BY <2>1, SamePages DEF PP!Init, PA!Init
<1>2. ASSUME NEW o PROVE PA!alloc_pages(o) = PP!alloc_pages(o)
  BY DEF PP!alloc_pages, PA!alloc_pages, PP!PageCount, PA!PageCount, PP!Descr, PA!Descr,
              PP!Fit, PA!Fit, PP!Zone, PA!Zone, PP!Block, PA!Block, PP!MarkBlock, PA!MarkBlock
<1>3. ASSUME NEW p, NEW o, PA!__free_pages(p, o) PROVE PP!__free_pages(p, o)
  <2>1. /\ count[p] > 0 /\ private[p] = o
        /\ count' = [d \in PP!Descr |-> IF d \in PP!Block(p, o) THEN PP!Dec(count[d]) ELSE count[d]]
    BY <1>3 DEF PA!__free_pages, PP!PageCount, PA!PageCount, PP!Descr, PA!Descr,
                PP!Block, PA!Block, PP!Dec, PA!Dec, PP!CountMax, PA!CountMax
  <2>2. free_pages' = free_pages + PP!Cardinality({ d \in PP!Block(p, o) : count'[d] = 0 })
    <3>1. PP!Block(p, o) = PA!Block(p, o)
      BY SamePages
    <3> QED
      BY <1>3, <3>1, SameCardinality DEF PA!__free_pages
  <2>3. private' = [private EXCEPT ![p] = IF count'[p] = 0 THEN PP!NoOrder ELSE @]
    BY <1>3 DEF PA!__free_pages, PP!NoOrder, PA!NoOrder
  <2> QED
    BY <2>1, <2>2, <2>3 DEF PP!__free_pages
<1> QED
  BY <1>1, <1>2, <1>3

\* The zone meets what PageAlloc assumes of it.
LEMMA ZoneIs ==
    /\ PP!PagesAssumption /\ PP!OrderAssumption /\ PP!SlackAssumption /\ PP!ReservedAssumption
  BY ZoneAssumption, SamePages
     DEF PP!PagesAssumption, PP!OrderAssumption, PP!SlackAssumption, PP!ReservedAssumption

\* A block that is out lies among the descriptors, has its first page and its
\* order, and shares no page with another one.
LEMMA PagesOut ==
    ASSUME PP!IInv
    PROVE  /\ PA!Heads \subseteq PA!Zone /\ PA!Zone \subseteq PA!Descr
           /\ \A p \in PA!Heads : /\ p \in PA!BlockOf(p) /\ PA!BlockOf(p) \subseteq PA!Descr
                                  /\ private[p] \in PA!Orders
           /\ \A p, q \in PA!Heads : p # q => PA!BlockOf(p) \cap PA!BlockOf(q) = {}
<1>1. PA!Heads \subseteq PA!Zone /\ PA!Zone \subseteq PA!Descr
  BY ZoneIs, PP!DescrFacts, SamePages DEF PA!Heads
<1>2. ASSUME NEW p \in PA!Heads
      PROVE p \in PA!BlockOf(p) /\ PA!BlockOf(p) \subseteq PA!Descr /\ private[p] \in PA!Orders
  <2>1. private[p] \in PP!Orders /\ p \in PP!Zone
    BY <1>1, SamePages DEF PA!Heads, PP!IInv, PP!TypeOK
  <2>2. PP!Block(p, private[p]) \subseteq PP!Descr /\ p \in PP!Block(p, private[p])
    BY <2>1, ZoneIs, PP!BlockFacts
  <2> QED
    BY <2>1, <2>2, SamePages DEF PA!BlockOf
<1>3. \A p, q \in PA!Heads : p # q => PA!BlockOf(p) \cap PA!BlockOf(q) = {}
  BY SamePages DEF PP!IInv, PP!BlocksDisjoint
<1> QED
  BY <1>1, <1>2, <1>3

\* alloc_pages adds the block at FirstPage.
LEMMA PagesTaken ==
    ASSUME PP!IInv, NEW o \in PA!Orders, PA!alloc_pages(o)
    PROVE  /\ PP!IInv'
           /\ FirstPage(o) \in PA!Zone /\ FirstPage(o) \notin PA!Heads
           /\ PA!Heads' = PA!Heads \cup {FirstPage(o)}
           /\ \A p \in PA!Heads : private'[p] = private[p]
           /\ private'[FirstPage(o)] = o
<1>1. PP!alloc_pages(o) /\ o \in PP!Orders
  BY SamePages, SameSteps
<1>2. PP!IInv'
  BY <1>1, ZoneIs, PP!AllocIInv
<1>3. PICK f \in PP!Zone :
          /\ f \notin PP!Heads /\ PP!Heads' = PP!Heads \cup {f}
          /\ \A d \in PP!Block(f, o) : count[d] = 0
          /\ private' = [private EXCEPT ![f] = o]
          /\ \A p \in PP!Heads : private'[p] = private[p]
          /\ private'[f] = o
  BY <1>1, ZoneIs, PP!AllocEffect
<1>4. PICK first \in PA!Fit(o) : /\ \A g \in PA!Fit(o) : first <= g
                                 /\ private' = [private EXCEPT ![first] = o]
  BY DEF PA!alloc_pages, PA!MarkBlock
<1>5. first \in PA!Zone /\ first \in Nat
  BY <1>4 DEF PA!Fit, PA!Zone
<1>6. FirstPage(o) = first
  <2>1. ASSUME NEW x \in PA!Fit(o), \A y \in PA!Fit(o) : x <= y PROVE x = first
    <3>1. x \in Nat /\ x <= first /\ first <= x
      BY <1>4, <2>1 DEF PA!Fit, PA!Zone
    <3> QED
      BY <1>5, <3>1
  <2>2. \E x \in PA!Fit(o) : \A y \in PA!Fit(o) : x <= y
    BY <1>4
  <2> QED
    BY <2>1, <2>2 DEF FirstPage, Min
<1>7. first = f
  <2>1. private \in [PP!Zone -> PP!Orders \cup {PP!NoOrder}]
    BY DEF PP!IInv, PP!TypeOK
  <2>2. first \in PP!Zone
    BY <1>5, SamePages
  <2>3. count[first] = 0
    <3>1. first \in PA!Block(first, o)
      <4>1. first \in PP!Block(first, o)
        BY <1>1, <2>2, ZoneIs, PP!BlockFacts
      <4> QED
        BY <4>1, SamePages
    <3> QED
      BY <3>1, <1>4 DEF PA!Fit
  <2>4. private[first] = PP!NoOrder
    <3>1. ~(count[first] > 0)
      BY <2>3
    <3> QED
      BY <2>2, <3>1 DEF PP!IInv, PP!PrivateFresh
  <2>5. private'[first] = o
    BY <1>4, <2>1, <2>2
  <2>6. o # PP!NoOrder
    BY ZoneAssumption DEF PA!Orders, PP!NoOrder
  <2>7. CASE first # f
    <3>1. private'[first] = private[first]
      BY <1>3, <2>1, <2>2, <2>7
    <3> QED
      BY <2>4, <2>5, <2>6, <3>1
  <2> QED
    BY <2>7
<1> QED
  BY <1>2, <1>3, <1>5, <1>6, <1>7, SamePages

\* __free_pages of the head of a block takes that block back.
LEMMA PagesGiven ==
    ASSUME PP!IInv, NEW p \in PA!Zone, NEW o \in PA!Orders, PA!__free_pages(p, o)
    PROVE  /\ PP!IInv'
           /\ p \in PA!Heads /\ private[p] = o
           /\ PA!Heads' = PA!Heads \ {p}
           /\ \A q \in PA!Heads' : private'[q] = private[q]
<1>1. PP!__free_pages(p, o) /\ o \in PP!Orders /\ p \in PP!Zone
  BY SamePages, SameSteps
<1>2. PP!IInv'
  BY <1>1, ZoneIs, PP!FreeIInv
<1>3. /\ p \in PP!Heads /\ private[p] = o
      /\ PP!Heads' = PP!Heads \ {p}
      /\ \A q \in PP!Heads' : private'[q] = private[q]
  BY <1>1, ZoneIs, PP!FreeEffect
<1> QED
  BY <1>2, <1>3, SamePages

\* Steps that leave the page allocator alone.
LEMMA PagesSame ==
    ASSUME PP!IInv, UNCHANGED pageVars
    PROVE  /\ PP!IInv' /\ PA!Heads' = PA!Heads
           /\ \A p : private'[p] = private[p] /\ PA!BlockOf(p)' = PA!BlockOf(p)
<1>1. count' = count /\ private' = private /\ free_pages' = free_pages
  BY DEF pageVars
<1>2. PP!IInv'
  BY <1>1 DEF PP!IInv, PP!TypeOK, PP!PrivateFresh, PP!BlocksDisjoint, PP!ReservedKept,
              PP!NoLeak, PP!FreeAccounting, PP!Heads, PP!BlockOf, PP!Block, PP!Busy
<1> QED
  BY <1>1, <1>2 DEF PA!Heads, PA!BlockOf

-----------------------------------------------------------------------------
(* The free list of a slab                                                    *)

\* An entry of a sequence.
LEMMA Element == ASSUME NEW S, NEW q \in Seq(S), NEW k \in 1 .. Len(q) PROVE q[k] \in S
  OBVIOUS

\* What kmem_cache_create has left in the table.
LEMMA CacheFacts ==
    ASSUME NEW c \in Caches
    PROVE  /\ c \in Nat /\ Num[c] \in 1 .. BUFCTL_END /\ Num[c] \in Int
           /\ GfpOrder[c] \in PA!Orders /\ ObjSize[c] \in Nat
<1>1. /\ ObjSize \in Seq(Nat) /\ Num \in Seq(1 .. BUFCTL_END) /\ GfpOrder \in Seq(0 .. MAX_PAGE_ORDER)
      /\ Len(ObjSize) = Len(Num) /\ Len(ObjSize) = Len(GfpOrder)
  BY CacheAssumption
<1>2. PICK n \in Nat : n = Len(ObjSize)
  BY <1>1
<1>3. c \in 1 .. n
  BY <1>1, <1>2 DEF Caches
<1>4. Num[c] \in 1 .. BUFCTL_END /\ GfpOrder[c] \in 0 .. MAX_PAGE_ORDER /\ ObjSize[c] \in Nat
  <2>1. c \in 1 .. Len(Num) /\ c \in 1 .. Len(GfpOrder) /\ c \in 1 .. Len(ObjSize)
    BY <1>1, <1>2, <1>3
  <2>2. Num[c] \in 1 .. BUFCTL_END
    <3>1. PICK T : T = 1 .. BUFCTL_END
      OBVIOUS
    <3>2. Num \in Seq(T)
      BY <1>1, <3>1
    <3>3. Num[c] \in T
      BY <2>1, <3>2, Element
    <3> QED
      BY <3>1, <3>3
  <2>3. GfpOrder[c] \in 0 .. MAX_PAGE_ORDER
    BY <1>1, <2>1, Element
  <2>4. ObjSize[c] \in Nat
    BY <1>1, <2>1, Element
  <2> QED
    BY <2>2, <2>3, <2>4
<1> QED
  BY <1>3, <1>4 DEF PA!Orders

\* A slab descriptor of cache c.
Link(c) == Object(c) \cup {BUFCTL_END}
Desc(c) == [cache : {c}, inuse : Int, free : Link(c), bufctl : [Object(c) -> Link(c)]]

\* list goes through the n objects of the set free, each once, along the links
\* of bufctl, from head to the end.
Chain(bufctl, head, free, n, list) ==
    /\ list[0] = head /\ list[n] = BUFCTL_END
    /\ \A k \in 0 .. n - 1 : list[k] \in free /\ bufctl[list[k]] = list[k + 1]
    /\ \A x \in free : \E k \in 0 .. n - 1 : list[k] = x
    /\ \A j, k \in 0 .. n - 1 : list[j] = list[k] => j = k

\* The free objects are those that are not held, and inuse counts the held ones.
Chained(s, held) ==
    /\ held \subseteq Object(s.cache)
    /\ s.inuse = Cardinality(held) /\ s.inuse <= Num[s.cache]
    /\ \E list : Chain(s.bufctl, s.free, Object(s.cache) \ held, Num[s.cache] - s.inuse, list)

\* The index that ends a list is no object.
LEMMA EndIsNoObject == ASSUME NEW c \in Caches PROVE BUFCTL_END \notin Object(c)
<1>1. PICK e \in Int : e = BUFCTL_END
  BY DEF BUFCTL_END
<1>2. PICK n \in Int : n = Num[c] /\ n <= e
  <2>1. Num[c] \in Int /\ Num[c] \in 1 .. e
    BY <1>1, CacheFacts
  <2> QED
    BY <2>1
<1>3. ~(e <= n - 1)
  BY <1>2
<1> QED
  BY <1>1, <1>2, <1>3 DEF Object

\* The head of a list is taken.
LEMMA ChainTake ==
    ASSUME NEW bufctl, NEW head, NEW free, NEW n \in Int, n > 0, NEW list,
           Chain(bufctl, head, free, n, list)
    PROVE  head \in free /\ \E l : Chain(bufctl, bufctl[head], free \ {head}, n - 1, l)
<1>1. 0 \in 0 .. n - 1
  OBVIOUS
<1>2. head \in free /\ bufctl[head] = list[1]
  BY <1>1 DEF Chain
<1> DEFINE l == [k \in 0 .. n - 1 |-> list[k + 1]]
<1>3. l[0] = bufctl[head] /\ l[n - 1] = BUFCTL_END
  BY <1>2 DEF Chain
<1>4. ASSUME NEW k \in 0 .. n - 1 - 1
      PROVE  l[k] \in free \ {head} /\ bufctl[l[k]] = l[k + 1]
  <2>1. k + 1 \in 0 .. n - 1 /\ k \in 0 .. n - 1 /\ l[k] = list[k + 1] /\ l[k + 1] = list[k + 1 + 1]
    OBVIOUS
  <2>2. list[k + 1] # list[0]
    BY <1>1, <2>1 DEF Chain
  <2> QED
    BY <2>1, <2>2 DEF Chain
<1>5. ASSUME NEW x \in free \ {head} PROVE \E k \in 0 .. n - 1 - 1 : l[k] = x
  <2>1. PICK k \in 0 .. n - 1 : list[k] = x
    BY DEF Chain
  <2>2. k # 0
    BY <2>1 DEF Chain
  <2>3. k - 1 \in 0 .. n - 1 - 1 /\ l[k - 1] = list[k]
    BY <2>2
  <2> QED
    BY <2>1, <2>3
<1>6. ASSUME NEW j \in 0 .. n - 1 - 1, NEW k \in 0 .. n - 1 - 1, l[j] = l[k] PROVE j = k
  <2>1. j + 1 \in 0 .. n - 1 /\ k + 1 \in 0 .. n - 1 /\ list[j + 1] = list[k + 1]
    BY <1>6
  <2>2. j + 1 = k + 1
    BY <2>1 DEF Chain
  <2> QED
    BY <2>2
<1> HIDE DEF l
<1>7. Chain(bufctl, bufctl[head], free \ {head}, n - 1, l)
  BY <1>3, <1>4, <1>5, <1>6 DEF Chain
<1> QED
  BY <1>2, <1>7

\* An object is put in front of a list.
LEMMA ChainPut ==
    ASSUME NEW bufctl, NEW head, NEW free, NEW n \in Int, n >= 0, NEW list,
           Chain(bufctl, head, free, n, list), NEW i, i \notin free, i \in DOMAIN bufctl
    PROVE  \E l : Chain([bufctl EXCEPT ![i] = head], i, free \cup {i}, n + 1, l)
<1> DEFINE l == [k \in 0 .. n + 1 |-> IF k = 0 THEN i ELSE list[k - 1]]
           new == [bufctl EXCEPT ![i] = head]
<1>1. l[0] = i /\ l[n + 1] = BUFCTL_END
  BY DEF Chain
<1>2. ASSUME NEW k \in 0 .. n + 1 - 1
      PROVE  l[k] \in free \cup {i} /\ new[l[k]] = l[k + 1]
  <2>1. CASE k = 0
    <3>1. l[k] = i /\ l[k + 1] = list[0]
      BY <2>1
    <3> QED
      BY <3>1 DEF Chain
  <2>2. CASE k # 0
    <3>1. k - 1 \in 0 .. n - 1 /\ l[k] = list[k - 1] /\ l[k + 1] = list[k]
      BY <2>2
    <3>2. list[k - 1] \in free /\ bufctl[list[k - 1]] = list[k]
      BY <3>1 DEF Chain
    <3>3. list[k - 1] # i
      BY <3>2
    <3>4. new[list[k - 1]] = bufctl[list[k - 1]]
      BY <3>3
    <3> QED
      BY <3>1, <3>2, <3>4
  <2> QED
    BY <2>1, <2>2
<1>3. ASSUME NEW x \in free \cup {i} PROVE \E k \in 0 .. n + 1 - 1 : l[k] = x
  <2>1. CASE x = i
    <3>1. 0 \in 0 .. n + 1 - 1
      OBVIOUS
    <3> QED
      BY <1>1, <2>1, <3>1
  <2>2. CASE x # i
    <3>1. PICK k \in 0 .. n - 1 : list[k] = x
      BY <2>2 DEF Chain
    <3>2. k + 1 \in 0 .. n + 1 - 1 /\ l[k + 1] = list[k]
      OBVIOUS
    <3> QED
      BY <3>1, <3>2
  <2> QED
    BY <2>1, <2>2
<1>4. ASSUME NEW j \in 0 .. n + 1 - 1, NEW k \in 0 .. n + 1 - 1, l[j] = l[k] PROVE j = k
  <2>1. ASSUME NEW m \in 0 .. n + 1 - 1, m # 0 PROVE m - 1 \in 0 .. n - 1 /\ l[m] = list[m - 1] /\ l[m] # i
    <3>1. m - 1 \in 0 .. n - 1 /\ l[m] = list[m - 1]
      BY <2>1
    <3> QED
      BY <3>1 DEF Chain
  <2>2. CASE j = 0 \/ k = 0
    BY <1>1, <1>4, <2>1, <2>2
  <2>3. CASE j # 0 /\ k # 0
    <3>1. j - 1 \in 0 .. n - 1 /\ k - 1 \in 0 .. n - 1 /\ list[j - 1] = list[k - 1]
      BY <1>4, <2>1, <2>3
    <3>2. j - 1 = k - 1
      BY <3>1 DEF Chain
    <3> QED
      BY <3>2
  <2> QED
    BY <2>2, <2>3
<1> HIDE DEF l, new
<1>5. Chain(new, i, free \cup {i}, n + 1, l)
  BY <1>1, <1>2, <1>3, <1>4 DEF Chain
<1> QED
  BY <1>5 DEF new

\* The held objects of a slab are finitely many.
LEMMA HeldFinite ==
    ASSUME NEW c \in Caches, NEW held \in SUBSET Object(c)
    PROVE  IsFiniteSet(held) /\ Cardinality(held) \in Nat
<1>1. 0 \in Int /\ Num[c] - 1 \in Int
  BY CacheFacts
<1>2. IsFiniteSet(Object(c))
  BY <1>1, FS_Interval DEF Object
<1>3. IsFiniteSet(held)
  BY <1>2, FS_Subset
<1> QED
  BY <1>3, FS_CardinalityType

\* The fields of a descriptor, and that each can be changed.
LEMMA Fields ==
    ASSUME NEW c, NEW s \in Desc(c)
    PROVE  /\ s.cache = c /\ s.inuse \in Int /\ s.free \in Link(c)
           /\ s.bufctl \in [Object(c) -> Link(c)]
           /\ \A u \in Int : [s EXCEPT !.inuse = u] \in Desc(c)
           /\ \A f \in Link(c) : [s EXCEPT !.free = f] \in Desc(c)
           /\ \A b \in [Object(c) -> Link(c)] : [s EXCEPT !.bufctl = b] \in Desc(c)
  BY DEF Desc

\* The fields after Take.
LEMMA FieldsTake ==
    ASSUME NEW c, NEW s \in Desc(c)
    PROVE  /\ Take(s).cache = c /\ Take(s).inuse = s.inuse + 1
           /\ Take(s).free = s.bufctl[s.free] /\ Take(s).bufctl = s.bufctl
           /\ s.free \in Object(c) => Take(s) \in Desc(c)
<1>1. /\ Take(s).cache = c /\ Take(s).inuse = s.inuse + 1
      /\ Take(s).free = s.bufctl[s.free] /\ Take(s).bufctl = s.bufctl
  BY DEF Take, Desc
<1>2. ASSUME s.free \in Object(c) PROVE Take(s) \in Desc(c)
  <2>1. PICK u \in Int : u = s.inuse + 1
    BY Fields
  <2>2. PICK f \in Link(c) : f = s.bufctl[s.free]
    BY <1>2, Fields
  <2>3. [s EXCEPT !.inuse = u] \in Desc(c)
    BY Fields
  <2>4. [[s EXCEPT !.inuse = u] EXCEPT !.free = f] \in Desc(c)
    BY <2>3, Fields
  <2>5. Take(s) = [[s EXCEPT !.inuse = u] EXCEPT !.free = f]
    BY <2>1, <2>2 DEF Take
  <2> QED
    BY <2>4, <2>5
<1> QED
  BY <1>1, <1>2

\* The fields after Put.
LEMMA FieldsPut ==
    ASSUME NEW c, NEW s \in Desc(c), NEW i \in Object(c)
    PROVE  /\ Put(s, i).cache = c /\ Put(s, i).inuse = s.inuse - 1
           /\ Put(s, i).free = i /\ Put(s, i).bufctl = [s.bufctl EXCEPT ![i] = s.free]
           /\ Put(s, i) \in Desc(c)
<1>1. /\ Put(s, i).cache = c /\ Put(s, i).inuse = s.inuse - 1
      /\ Put(s, i).free = i /\ Put(s, i).bufctl = [s.bufctl EXCEPT ![i] = s.free]
  BY DEF Put, Desc
<1>2. PICK u \in Int : u = s.inuse - 1
  BY Fields
<1>3. PICK b \in [Object(c) -> Link(c)] : b = [s.bufctl EXCEPT ![i] = s.free]
  BY Fields
<1>4. i \in Link(c)
  BY DEF Link
<1>5. [s EXCEPT !.bufctl = b] \in Desc(c)
  BY Fields
<1>6. [[s EXCEPT !.bufctl = b] EXCEPT !.free = i] \in Desc(c)
  BY <1>4, <1>5, Fields
<1>7. [[[s EXCEPT !.bufctl = b] EXCEPT !.free = i] EXCEPT !.inuse = u] \in Desc(c)
  BY <1>6, Fields
<1>8. Put(s, i) = [[[s EXCEPT !.bufctl = b] EXCEPT !.free = i] EXCEPT !.inuse = u]
  BY <1>2, <1>3 DEF Put, Desc
<1> QED
  BY <1>1, <1>7, <1>8

\* kmalloc takes a free object, and the list has the others.
LEMMA SlabTake ==
    ASSUME NEW c \in Caches, NEW s \in Desc(c), NEW held, Chained(s, held), s.inuse < Num[c]
    PROVE  /\ s.free \in Object(c) \ held /\ Take(s) \in Desc(c)
           /\ Chained(Take(s), held \cup {s.free})
<1>1. /\ s.cache = c /\ s.inuse \in Int /\ s.bufctl \in [Object(c) -> Link(c)]
      /\ Take(s).cache = c /\ Take(s).inuse = s.inuse + 1
      /\ Take(s).free = s.bufctl[s.free] /\ Take(s).bufctl = s.bufctl
      /\ s.free \in Object(c) => Take(s) \in Desc(c)
  BY Fields, FieldsTake
<1>2. /\ held \in SUBSET Object(c) /\ s.inuse = Cardinality(held) /\ s.inuse <= Num[c]
      /\ \E list : Chain(s.bufctl, s.free, Object(c) \ held, Num[c] - s.inuse, list)
  BY <1>1 DEF Chained
<1>3. Num[c] \in Int
  BY CacheFacts
<1>4. PICK n \in Int : n = Num[c] - s.inuse /\ n > 0
  BY <1>1, <1>3
<1>5. PICK list : Chain(s.bufctl, s.free, Object(c) \ held, n, list)
  BY <1>2, <1>4
<1>6. /\ s.free \in Object(c) \ held
      /\ \E l : Chain(s.bufctl, s.bufctl[s.free], (Object(c) \ held) \ {s.free}, n - 1, l)
  BY <1>4, <1>5, ChainTake
<1>7. (Object(c) \ held) \ {s.free} = Object(c) \ (held \cup {s.free})
  OBVIOUS
<1>8. n - 1 = Num[c] - (s.inuse + 1)
  BY <1>1, <1>3, <1>4
<1>9. Cardinality(held \cup {s.free}) = s.inuse + 1
  BY <1>2, <1>6, HeldFinite, FS_AddElement
<1>10. Chained(Take(s), held \cup {s.free})
  <2>1. held \cup {s.free} \subseteq Object(c)
    BY <1>2, <1>6
  <2>2. s.inuse + 1 <= Num[c]
    BY <1>1, <1>3
  <2>3. \E l : Chain(s.bufctl, s.bufctl[s.free], Object(c) \ (held \cup {s.free}),
                     Num[c] - (s.inuse + 1), l)
    BY <1>6, <1>7, <1>8
  <2> QED
    BY <1>1, <1>9, <2>1, <2>2, <2>3 DEF Chained
<1> QED
  BY <1>1, <1>6, <1>10

\* kfree puts a held object in front of the others.
LEMMA SlabPut ==
    ASSUME NEW c \in Caches, NEW s \in Desc(c), NEW held, Chained(s, held), NEW i \in held
    PROVE  Put(s, i) \in Desc(c) /\ Chained(Put(s, i), held \ {i})
<1>1. /\ s.cache = c /\ s.inuse \in Int /\ s.bufctl \in [Object(c) -> Link(c)]
  BY Fields
<1>2. /\ held \in SUBSET Object(c) /\ s.inuse = Cardinality(held) /\ s.inuse <= Num[c]
      /\ \E list : Chain(s.bufctl, s.free, Object(c) \ held, Num[c] - s.inuse, list)
  BY <1>1 DEF Chained
<1>3. i \in Object(c)
  BY <1>2
<1>4. /\ Put(s, i).cache = c /\ Put(s, i).inuse = s.inuse - 1 /\ Put(s, i).free = i
      /\ Put(s, i).bufctl = [s.bufctl EXCEPT ![i] = s.free] /\ Put(s, i) \in Desc(c)
  BY <1>3, FieldsPut
<1>5. Num[c] \in Int
  BY CacheFacts
<1>6. PICK n \in Int : n = Num[c] - s.inuse /\ n >= 0
  BY <1>1, <1>2, <1>5
<1>7. PICK list : Chain(s.bufctl, s.free, Object(c) \ held, n, list)
  BY <1>2, <1>6
<1>8. \E l : Chain([s.bufctl EXCEPT ![i] = s.free], i, (Object(c) \ held) \cup {i}, n + 1, l)
  <2>1. i \notin Object(c) \ held /\ i \in DOMAIN s.bufctl
    BY <1>1, <1>3
  <2> QED
    BY <1>6, <1>7, <2>1, ChainPut
<1>9. (Object(c) \ held) \cup {i} = Object(c) \ (held \ {i})
  BY <1>3
<1>10. n + 1 = Num[c] - (s.inuse - 1)
  BY <1>1, <1>5, <1>6
<1>11. Cardinality(held \ {i}) = s.inuse - 1
  BY <1>2, HeldFinite, FS_RemoveElement
<1>12. Chained(Put(s, i), held \ {i})
  <2>1. held \ {i} \subseteq Object(c)
    BY <1>2
  <2>2. s.inuse - 1 <= Num[c]
    BY <1>1, <1>2, <1>5
  <2>3. \E l : Chain([s.bufctl EXCEPT ![i] = s.free], i, Object(c) \ (held \ {i}),
                     Num[c] - (s.inuse - 1), l)
    BY <1>8, <1>9, <1>10
  <2> QED
    BY <1>4, <1>11, <2>1, <2>2, <2>3 DEF Chained
<1> QED
  BY <1>4, <1>12

\* A new slab has all its objects on the list.
LEMMA SlabNew ==
    ASSUME NEW c \in Caches
    PROVE  /\ NewSlab(c) \in Desc(c) /\ Chained(NewSlab(c), {})
           /\ NewSlab(c).free = 0 /\ NewSlab(c).inuse = 0
<1>1. PICK n \in Int : n = Num[c] /\ n >= 1
  <2>1. Num[c] \in Int /\ Num[c] \in 1 .. BUFCTL_END
    BY CacheFacts
  <2> QED
    BY <2>1
<1> DEFINE b == [i \in 0 .. n - 1 |-> IF i = n - 1 THEN BUFCTL_END ELSE i + 1]
<1>2. NewSlab(c) = [cache |-> c, inuse |-> 0, free |-> 0, bufctl |-> b]
  BY <1>1 DEF NewSlab
<1>3. b \in [Object(c) -> Link(c)] /\ 0 \in Link(c)
  BY <1>1 DEF Object, Link
<1>4. NewSlab(c) \in Desc(c)
  BY <1>2, <1>3 DEF Desc
<1> DEFINE l == [k \in 0 .. n |-> IF k = n THEN BUFCTL_END ELSE k]
<1>5. Chain(b, 0, Object(c) \ {}, n - 0, l)
  <2>1. n - 0 = n /\ Object(c) \ {} = 0 .. n - 1
    BY <1>1 DEF Object
  <2>2. l[0] = 0 /\ l[n] = BUFCTL_END
    BY <1>1
  <2>3. ASSUME NEW k \in 0 .. n - 1 PROVE l[k] = k /\ b[l[k]] = l[k + 1]
    BY <1>1
  <2> HIDE DEF l, b
  <2>4. Chain(b, 0, 0 .. n - 1, n, l)
    BY <2>2, <2>3 DEF Chain
  <2> QED
    BY <2>1, <2>4
<1>6. Cardinality({}) = 0
  BY FS_EmptySet
<1>7. Chained(NewSlab(c), {})
  <2>1. \E list : Chain(b, 0, Object(c) \ {}, n - 0, list)
    BY <1>5
  <2> HIDE DEF b, l
  <2> QED
    BY <1>1, <1>2, <1>6, <2>1 DEF Chained
<1> QED
  BY <1>2, <1>4, <1>7

\* One turn of following the list: the function that FreeList is the fixed
\* point of.
Follow(s, f) ==
    [k \in 0 .. Num[s.cache] |->
        IF k = 0 THEN s.free
        ELSE IF f[k - 1] = BUFCTL_END THEN BUFCTL_END ELSE s.bufctl[f[k - 1]]]

\* Following the links from the head, one gets the free objects and then the
\* end: FreeList has only one fixed point, and the chain is one.
LEMMA ListRuns ==
    ASSUME NEW c \in Caches, NEW s \in Desc(c), NEW held, Chained(s, held)
    PROVE  /\ { FreeList(s)[k] : k \in 0 .. Num[c] - s.inuse - 1 } = Object(c) \ held
           /\ FreeList(s)[Num[c] - s.inuse] = BUFCTL_END
<1>1. s.cache = c /\ s.inuse \in Int /\ s.bufctl \in [Object(c) -> Link(c)]
  BY Fields
<1>2. /\ held \in SUBSET Object(c) /\ s.inuse = Cardinality(held) /\ s.inuse <= Num[c]
      /\ \E list : Chain(s.bufctl, s.free, Object(c) \ held, Num[c] - s.inuse, list)
  BY <1>1 DEF Chained
<1>3. PICK N \in Int : N = Num[c] /\ N >= 1
  <2>1. Num[c] \in Int /\ Num[c] \in 1 .. BUFCTL_END
    BY CacheFacts
  <2> QED
    BY <2>1
<1>4. PICK n \in Int : n = Num[c] - s.inuse /\ n >= 0 /\ n <= N
  <2>1. s.inuse \in Nat
    BY <1>2, HeldFinite
  <2> QED
    BY <1>1, <1>2, <1>3, <2>1
<1>5. PICK list : Chain(s.bufctl, s.free, Object(c) \ held, n, list)
  BY <1>2, <1>4
<1> DEFINE g == [k \in 0 .. N |-> IF k <= n THEN list[k] ELSE BUFCTL_END]
<1>6. g = Follow(s, g)
  <2>1. ASSUME NEW k \in 0 .. N
        PROVE  g[k] = IF k = 0 THEN s.free
                      ELSE IF g[k - 1] = BUFCTL_END THEN BUFCTL_END ELSE s.bufctl[g[k - 1]]
    <3>1. CASE k = 0
      BY <1>3, <1>4, <1>5, <3>1 DEF Chain
    <3>2. CASE k # 0 /\ k <= n
      <4>1. k - 1 \in 0 .. n - 1 /\ k - 1 \in 0 .. N /\ k - 1 + 1 = k
        BY <1>4, <3>2
      <4>2. g[k] = list[k] /\ g[k - 1] = list[k - 1]
        BY <1>4, <3>2, <4>1
      <4>3. list[k - 1] \in Object(c) /\ s.bufctl[list[k - 1]] = list[k]
        BY <1>5, <4>1 DEF Chain
      <4> QED
        BY <3>2, <4>2, <4>3, EndIsNoObject
    <3>3. CASE k = n + 1
      <4>1. k - 1 = n /\ n \in 0 .. N
        BY <1>4, <3>3
      <4>2. g[k] = BUFCTL_END /\ g[n] = BUFCTL_END
        BY <1>4, <1>5, <3>3, <4>1 DEF Chain
      <4> QED
        BY <1>4, <3>3, <4>1, <4>2
    <3>4. CASE k > n + 1
      <4>1. k - 1 \in 0 .. N /\ ~(k - 1 <= n) /\ ~(k <= n) /\ k # 0
        BY <1>4, <3>4
      <4> QED
        BY <4>1
    <3> QED
      BY <1>4, <3>1, <3>2, <3>3, <3>4
  <2> QED
    BY <1>1, <1>3, <2>1 DEF Follow
<1>7. FreeList(s) = CHOOSE f : f = Follow(s, f)
  BY DEF FreeList, Follow
<1>8. PICK at : at = FreeList(s) /\ at = Follow(s, at)
  <2> HIDE DEF g
  <2> QED
    BY <1>6, <1>7
<1>9. \A k \in 0 .. N : at[k] = g[k]
  <2> DEFINE T == { k \in 0 .. N : at[k] # g[k] }
  <2>1. ASSUME NEW m \in T, \A k \in T : m <= k PROVE FALSE
    <3>1. at[m] = IF m = 0 THEN s.free
                  ELSE IF at[m - 1] = BUFCTL_END THEN BUFCTL_END ELSE s.bufctl[at[m - 1]]
      BY <1>1, <1>3, <1>8 DEF Follow
    <3> HIDE DEF g
    <3>2. g[m] = IF m = 0 THEN s.free
                 ELSE IF g[m - 1] = BUFCTL_END THEN BUFCTL_END ELSE s.bufctl[g[m - 1]]
      BY <1>1, <1>3, <1>6 DEF Follow
    <3>3. CASE m = 0
      BY <3>1, <3>2, <3>3
    <3>4. CASE m # 0
      <4>1. m - 1 \in 0 .. N /\ ~(m <= m - 1)
        BY <3>4
      <4>2. m - 1 \notin T
        BY <2>1, <4>1
      <4>3. at[m - 1] = g[m - 1]
        BY <4>1, <4>2
      <4> QED
        BY <3>1, <3>2, <3>4, <4>3
    <3> QED
      BY <3>3, <3>4
  <2>2. T \in SUBSET Nat
    BY <1>3
  <2>3. CASE T # {}
    <3> HIDE DEF T
    <3>1. Min(T) \in T /\ \A k \in T : Min(T) <= k
      BY <2>2, <2>3, MinIs
    <3> QED
      BY <2>1, <3>1
  <2>4. CASE T = {}
    BY <2>4
  <2> QED
    BY <2>3, <2>4
<1>10. at[n] = BUFCTL_END
  <2>1. n \in 0 .. N
    BY <1>4
  <2> QED
    BY <1>5, <1>9, <2>1 DEF Chain
<1>11. ASSUME NEW k \in 0 .. n - 1 PROVE at[k] = list[k]
  <2>1. k \in 0 .. N /\ k <= n
    BY <1>4
  <2> QED
    BY <1>9, <2>1
<1>12. { at[k] : k \in 0 .. n - 1 } = Object(c) \ held
  <2> HIDE DEF g
  <2>1. \A k \in 0 .. n - 1 : at[k] \in Object(c) \ held
    BY <1>5, <1>11 DEF Chain
  <2>2. ASSUME NEW x \in Object(c) \ held PROVE \E k \in 0 .. n - 1 : at[k] = x
    BY <1>5, <1>11 DEF Chain
  <2> QED
    BY <2>1, <2>2
<1> QED
  BY <1>4, <1>8, <1>10, <1>12

-----------------------------------------------------------------------------
(* Slabs, lists and objects                                                   *)

TypeInv ==
    /\ page_slab \in [PA!Descr -> PA!Zone \cup {NULL}]
    /\ slab = [pg \in DOMAIN slab |-> slab[pg]]
    /\ \A pg \in DOMAIN slab : slab[pg].cache \in Caches /\ slab[pg] \in Desc(slab[pg].cache)
    /\ slabs \in [Caches -> Seq(PA!Zone)]
    /\ \A o \in live : o.slab \in DOMAIN slab

\* A slab is a block of its cache's order, and the pages of that block, and only
\* they, lead to it.
PageInv ==
    /\ \A pg \in DOMAIN slab : pg \in PA!Heads /\ private[pg] = GfpOrder[slab[pg].cache]
    /\ \A d \in PA!Descr, pg \in PA!Zone :
          page_slab[d] = pg <=> pg \in DOMAIN slab /\ d \in PA!BlockOf(pg)

\* Each cache lists its slabs, once.
Lists(list, pages) ==
    /\ IsInjective(list)
    /\ \A pg : pg \in pages <=> \E k \in DOMAIN list : list[k] = pg
SlabsOf(c) == { pg \in DOMAIN slab : slab[pg].cache = c }
ListInv == \A c \in Caches : Lists(slabs[c], SlabsOf(c))

\* kmem_cache_init fills the table in the order of the sizes.  A cache that is
\* created later comes last, whatever its size.
OrderedTable == \A c, d \in Caches : c <= d => ObjSize[c] <= ObjSize[d]

\* The objects that are out are big enough, and the others are on the list.
LiveInv ==
    /\ OrderedTable => \A o \in live : o.size <= ObjSize[slab[o.slab].cache]
    /\ \A pg \in DOMAIN slab : Chained(slab[pg], HeldIn(pg))

SlabInv == PP!IInv /\ TypeInv /\ PageInv /\ ListInv /\ LiveInv

\* The first slab of a list with a property.
LEMMA FirstOf ==
    ASSUME TypeInv, ListInv, NEW c \in Caches, NEW K \in SUBSET DOMAIN slabs[c], K # {}
    PROVE  /\ Min(K) \in K /\ slabs[c][Min(K)] \in DOMAIN slab
           /\ slab[slabs[c][Min(K)]].cache = c
<1>1. slabs[c] \in Seq(PA!Zone)
  BY DEF TypeInv
<1>2. K \in SUBSET Nat
  BY <1>1
<1>3. Min(K) \in K
  BY <1>2, MinIs
<1>4. slabs[c][Min(K)] \in SlabsOf(c)
  BY <1>3 DEF ListInv, Lists
<1> QED
  BY <1>3, <1>4 DEF SlabsOf

\* The cache kmalloc serves a request from has objects of that size.
LEMMA ServedBy ==
    ASSUME NEW n \in Requests, BigEnough(n) # {}, Serving(n) # {}
    PROVE  /\ Min(Serving(n)) \in Caches /\ Min(Serving(n)) \in Serving(n)
           /\ OrderedTable => n <= ObjSize[Min(Serving(n))]
<1>1. Caches \subseteq Nat
  BY CacheFacts
<1>2. BigEnough(n) \in SUBSET Nat /\ Serving(n) \in SUBSET Nat
  BY <1>1 DEF BigEnough, Serving
<1>3. Min(BigEnough(n)) \in BigEnough(n) /\ Min(Serving(n)) \in Serving(n)
  BY <1>2, MinIs
<1>4. PICK b, c : b = Min(BigEnough(n)) /\ c = Min(Serving(n))
  OBVIOUS
<1>5. /\ b \in Caches /\ c \in Caches /\ b <= c /\ n <= ObjSize[b]
  <2>1. c >= b /\ c \in Caches
    BY <1>3, <1>4 DEF Serving
  <2>2. b \in Caches /\ n <= ObjSize[b]
    BY <1>3, <1>4 DEF BigEnough
  <2>3. b \in Nat /\ c \in Nat
    BY <1>1, <2>1, <2>2
  <2> QED
    BY <2>1, <2>2, <2>3
<1>6. OrderedTable => ObjSize[b] <= ObjSize[c]
  BY <1>5 DEF OrderedTable
<1>7. n \in Nat
  BY CacheAssumption
<1>8. ObjSize[b] \in Nat /\ ObjSize[c] \in Nat
  BY <1>5, CacheFacts
<1>9. OrderedTable => n <= ObjSize[c]
  BY <1>5, <1>6, <1>7, <1>8
<1> QED
  BY <1>3, <1>4, <1>5, <1>9

\* The initial state.
LEMMA InitSlab == Init => SlabInv
<1> SUFFICES ASSUME Init PROVE SlabInv
  OBVIOUS
<1>1. PP!IInv
  <2>1. PP!Init
    BY SameSteps DEF Init
  <2> QED
    BY <2>1, ZoneIs, PP!InitIInv
<1>2. DOMAIN slab = {} /\ slab = [pg \in {} |-> slab[pg]]
  BY DEF Init
<1>3. TypeInv
  <2>1. page_slab \in [PA!Descr -> PA!Zone \cup {NULL}]
    BY DEF Init
  <2>2. slabs \in [Caches -> Seq(PA!Zone)]
    BY DEF Init
  <2> QED
    BY <1>2, <2>1, <2>2 DEF TypeInv, Init
<1>4. PageInv
  <2>1. NULL \notin PA!Zone
    BY DEF NULL, PA!Zone
  <2> QED
    BY <1>2, <2>1 DEF PageInv, Init
<1>5. ListInv
  <2>1. \A c \in Caches : slabs[c] = << >> /\ DOMAIN slabs[c] = {}
    BY DEF Init
  <2> QED
    BY <1>2, <2>1 DEF ListInv, Lists, SlabsOf, IsInjective
<1>6. LiveInv
  BY <1>2 DEF LiveInv, Init
<1> QED
  BY <1>1, <1>3, <1>4, <1>5, <1>6 DEF SlabInv

\* A step that only changes the descriptor of one slab, and the objects held in
\* it.
LEMMA OneSlab ==
    ASSUME SlabInv, UNCHANGED <<pageVars, page_slab, slabs>>,
           NEW pg \in DOMAIN slab, NEW new, slab' = [slab EXCEPT ![pg] = new],
           NEW c \in Caches, c = slab[pg].cache, new \in Desc(c), Chained(new, HeldIn(pg)'),
           \A p \in DOMAIN slab : p # pg => HeldIn(p)' = HeldIn(p),
           \A o \in live' : o \in live \/ (o.slab = pg /\ (OrderedTable => o.size <= ObjSize[c]))
    PROVE  SlabInv'
<1>1. /\ PP!IInv' /\ PA!Heads' = PA!Heads
      /\ \A p : private'[p] = private[p] /\ PA!BlockOf(p)' = PA!BlockOf(p)
  BY PagesSame DEF SlabInv
<1>2. /\ DOMAIN slab' = DOMAIN slab /\ slab'[pg] = new
      /\ \A p \in DOMAIN slab : p # pg => slab'[p] = slab[p]
  BY DEF SlabInv, TypeInv
<1>3. new.cache = c
  BY Fields
<1>4. \A p \in DOMAIN slab : slab'[p].cache = slab[p].cache
  BY <1>2, <1>3
<1>5. TypeInv'
  <2>1. slab' = [p \in DOMAIN slab' |-> slab'[p]]
    BY <1>2
  <2>2. ASSUME NEW p \in DOMAIN slab
        PROVE  slab'[p].cache \in Caches /\ slab'[p] \in Desc(slab'[p].cache)
    <3>1. CASE p = pg
      BY <1>2, <1>3, <3>1
    <3>2. CASE p # pg
      BY <1>2, <3>2 DEF SlabInv, TypeInv
    <3> QED
      BY <3>1, <3>2
  <2>3. \A o \in live' : o.slab \in DOMAIN slab
    BY DEF SlabInv, TypeInv
  <2> QED
    BY <1>2, <2>1, <2>2, <2>3 DEF SlabInv, TypeInv
<1>6. PageInv'
  BY <1>1, <1>2, <1>4 DEF SlabInv, PageInv
<1>7. ListInv'
  <2>1. \A d \in Caches : SlabsOf(d)' = SlabsOf(d)
    BY <1>2, <1>4 DEF SlabsOf
  <2> QED
    BY <2>1 DEF SlabInv, ListInv, Lists
<1>8. LiveInv'
  <2>1. ASSUME OrderedTable, NEW o \in live' PROVE o.size <= ObjSize[slab'[o.slab].cache]
    BY <1>4, <2>1 DEF SlabInv, LiveInv, TypeInv
  <2>2. ASSUME NEW p \in DOMAIN slab PROVE Chained(slab'[p], HeldIn(p)')
    BY <1>2 DEF SlabInv, LiveInv
  <2> QED
    BY <1>2, <2>1, <2>2 DEF LiveInv
<1> QED
  BY <1>1, <1>5, <1>6, <1>7, <1>8 DEF SlabInv

\* kmalloc takes an object of a slab on the list.
LEMMA FromSlab ==
    ASSUME SlabInv, NEW n \in Requests, KmallocFromSlab(n)
    PROVE  SlabInv'
<1>1. PICK c \in Caches : c = Min(Serving(n)) /\ (OrderedTable => n <= ObjSize[c])
  BY ServedBy DEF KmallocFromSlab
<1>2. PICK pg : pg = slabs[c][Min(Usable(c))]
  OBVIOUS
<1>3. /\ Usable(c) # {} /\ slab' = [slab EXCEPT ![pg] = Take(slab[pg])]
      /\ live' = live \cup {[slab |-> pg, index |-> slab[pg].free, size |-> n]}
      /\ UNCHANGED <<pageVars, page_slab, slabs>>
  BY SMTT(30), <1>1, <1>2 DEF KmallocFromSlab
<1>4. /\ pg \in DOMAIN slab /\ slab[pg].cache = c /\ slab[pg].inuse < Num[c]
  <2>1. Usable(c) \in SUBSET DOMAIN slabs[c]
    BY DEF Usable
  <2>2. /\ Min(Usable(c)) \in Usable(c) /\ pg \in DOMAIN slab /\ slab[pg].cache = c
    BY <1>2, <1>3, <2>1, FirstOf DEF SlabInv
  <2> QED
    BY <1>2, <2>2 DEF Usable
<1>5. slab[pg] \in Desc(c) /\ Chained(slab[pg], HeldIn(pg))
  BY <1>4 DEF SlabInv, TypeInv, LiveInv
<1>6. /\ slab[pg].free \in Object(c) \ HeldIn(pg) /\ Take(slab[pg]) \in Desc(c)
      /\ Chained(Take(slab[pg]), HeldIn(pg) \cup {slab[pg].free})
  BY <1>4, <1>5, SlabTake
<1>7. HeldIn(pg)' = HeldIn(pg) \cup {slab[pg].free}
  <2>1. PICK f : f = slab[pg].free
    OBVIOUS
  <2>2. PICK new : new = [slab |-> pg, index |-> f, size |-> n]
    OBVIOUS
  <2>3. new.slab = pg /\ new.index = f /\ live' = live \cup {new}
    BY <1>3, <2>1, <2>2
  <2>4. \A x : x \in HeldIn(pg)' <=> x \in HeldIn(pg) \/ x = f
    BY <2>3 DEF HeldIn
  <2> QED
    BY <2>1, <2>4
<1>8. \A p : p # pg => HeldIn(p)' = HeldIn(p)
  BY <1>3 DEF HeldIn
<1>9. \A o \in live' : o \in live \/ (o.slab = pg /\ (OrderedTable => o.size <= ObjSize[c]))
  BY <1>1, <1>3
<1> QED
  BY ZenonT(30), <1>3, <1>4, <1>6, <1>7, <1>8, <1>9, OneSlab

\* kfree puts an object back.
LEMMA ToSlab ==
    ASSUME SlabInv, NEW pg \in DOMAIN slab, NEW i, Held(pg, i), caos_kfree(pg, i)
    PROVE  SlabInv'
<1>1. PICK c \in Caches : c = slab[pg].cache
  BY DEF SlabInv, TypeInv
<1>2. /\ slab' = [slab EXCEPT ![pg] = Put(slab[pg], i)]
      /\ live' = { o \in live : o.slab # pg \/ o.index # i }
      /\ UNCHANGED <<pageVars, page_slab, slabs>>
  BY DEF caos_kfree
<1>3. i \in HeldIn(pg)
  BY DEF Held, HeldIn
<1>4. slab[pg] \in Desc(c) /\ Chained(slab[pg], HeldIn(pg))
  BY <1>1 DEF SlabInv, TypeInv, LiveInv
<1>5. Put(slab[pg], i) \in Desc(c) /\ Chained(Put(slab[pg], i), HeldIn(pg) \ {i})
  BY <1>3, <1>4, SlabPut
<1>6. HeldIn(pg)' = HeldIn(pg) \ {i}
  BY <1>2 DEF HeldIn
<1>7. \A p : p # pg => HeldIn(p)' = HeldIn(p)
  BY <1>2 DEF HeldIn
<1>8. \A o \in live' : o \in live
  BY <1>2
<1> QED
  BY <1>1, <1>2, <1>5, <1>6, <1>7, <1>8, OneSlab

\* A sequence with an entry in front.
LEMMA ListsGrow ==
    ASSUME NEW S, NEW list \in Seq(S), NEW pages, Lists(list, pages), NEW pg \in S, pg \notin pages
    PROVE  <<pg>> \o list \in Seq(S) /\ Lists(<<pg>> \o list, pages \cup {pg})
<1>1. PICK n \in Nat : n = Len(list)
  OBVIOUS
<1>2. PICK q : q = <<pg>> \o list
  OBVIOUS
<1>3. /\ q \in Seq(S) /\ DOMAIN q = 1 .. n + 1 /\ q[1] = pg /\ DOMAIN list = 1 .. n
      /\ \A k \in 2 .. n + 1 : q[k] = list[k - 1]
  BY <1>1, <1>2
<1>4. \A k \in 2 .. n + 1 : k - 1 \in DOMAIN list
  BY <1>3
<1>5. \A k \in DOMAIN list : list[k] \in pages /\ list[k] # pg
  BY DEF Lists
<1>6. IsInjective(q)
  <2>1. ASSUME NEW j \in DOMAIN q, NEW k \in DOMAIN q, q[j] = q[k] PROVE j = k
    <3>1. CASE j = 1 \/ k = 1
      BY SMTT(20), <1>3, <1>4, <1>5, <2>1, <3>1
    <3>2. CASE j # 1 /\ k # 1
      <4>1. j \in 2 .. n + 1 /\ k \in 2 .. n + 1
        BY <1>3, <3>2
      <4>2. list[j - 1] = list[k - 1] /\ j - 1 \in DOMAIN list /\ k - 1 \in DOMAIN list
        BY <1>3, <1>4, <2>1, <4>1
      <4>3. j - 1 = k - 1
        BY <4>2 DEF Lists, IsInjective
      <4> QED
        BY <4>1, <4>3
    <3> QED
      BY <3>1, <3>2
  <2> QED
    BY <2>1 DEF IsInjective
<1>7. ASSUME NEW p PROVE p \in pages \cup {pg} <=> \E k \in DOMAIN q : q[k] = p
  <2>1. ASSUME p \in pages PROVE \E k \in DOMAIN q : q[k] = p
    <3>1. PICK k \in DOMAIN list : list[k] = p
      BY <2>1 DEF Lists
    <3>2. k + 1 \in DOMAIN q /\ q[k + 1] = p
      BY <1>3, <3>1
    <3> QED
      BY <3>2
  <2>2. 1 \in DOMAIN q
    BY <1>3
  <2>3. ASSUME NEW k \in DOMAIN q, q[k] = p PROVE p \in pages \cup {pg}
    <3>1. CASE k = 1
      BY <1>3, <2>3, <3>1
    <3>2. CASE k # 1
      <4>1. k \in 2 .. n + 1
        BY <1>3, <3>2
      <4> QED
        BY <1>3, <1>4, <1>5, <2>3, <4>1
    <3> QED
      BY <3>1, <3>2
  <2> QED
    BY <1>3, <2>1, <2>2, <2>3
<1> QED
  BY <1>2, <1>3, <1>6, <1>7 DEF Lists

\* A sequence without one of its entries.
LEMMA ListsShrink ==
    ASSUME NEW S, NEW list \in Seq(S), NEW pages, Lists(list, pages), NEW k \in DOMAIN list
    PROVE  RemoveAt(list, k) \in Seq(S) /\ Lists(RemoveAt(list, k), pages \ {list[k]})
<1>1. PICK n \in Nat : n = Len(list) /\ DOMAIN list = 1 .. n
  OBVIOUS
<1>2. k \in Int /\ k >= 1 /\ k <= n
  BY <1>1
<1>3. PICK q : q = RemoveAt(list, k)
  OBVIOUS
<1>4. /\ q \in Seq(S) /\ DOMAIN q = 1 .. n - 1
      /\ \A j \in 1 .. n - 1 : q[j] = IF j < k THEN list[j] ELSE list[j + 1]
  <2>1. PICK a, b : a = SubSeq(list, 1, k - 1) /\ b = SubSeq(list, k + 1, n)
    OBVIOUS
  <2>2. /\ a \in Seq(S) /\ Len(a) = k - 1
        /\ \A j \in 1 .. k - 1 : a[j] = list[j]
    BY <1>1, <1>2, <2>1
  <2>3. /\ b \in Seq(S) /\ Len(b) = n - k
        /\ \A j \in 1 .. n - k : b[j] = list[k + j]
    BY <1>1, <1>2, <2>1
  <2>4. q = a \o b
    BY <1>1, <1>3, <2>1 DEF RemoveAt
  <2>5. /\ q \in Seq(S) /\ Len(q) = (k - 1) + (n - k)
        /\ \A j \in 1 .. (k - 1) + (n - k) : q[j] = IF j <= k - 1 THEN a[j] ELSE b[j - (k - 1)]
    BY SMTT(20), <2>2, <2>3, <2>4
  <2>6. DOMAIN q = 1 .. n - 1
    BY <1>2, <2>5
  <2>7. ASSUME NEW j \in 1 .. n - 1 PROVE q[j] = IF j < k THEN list[j] ELSE list[j + 1]
    <3>1. CASE j < k
      BY <1>2, <2>2, <2>5, <3>1
    <3>2. CASE ~(j < k)
      <4>1. j - (k - 1) \in 1 .. n - k /\ k + (j - (k - 1)) = j + 1
        BY <1>2, <3>2
      <4>2. q[j] = b[j - (k - 1)]
        BY <1>2, <2>5, <3>2
      <4>3. b[j - (k - 1)] = list[j + 1]
        BY <2>3, <4>1
      <4> QED
        BY <3>2, <4>2, <4>3
    <3> QED
      BY <3>1, <3>2
  <2> QED
    BY <2>5, <2>6, <2>7
<1> DEFINE h(j) == IF j < k THEN j ELSE j + 1
<1>5. ASSUME NEW j \in 1 .. n - 1 PROVE h(j) \in DOMAIN list /\ h(j) # k /\ q[j] = list[h(j)]
  BY <1>1, <1>2, <1>4
<1>6. IsInjective(q)
  <2>1. ASSUME NEW i \in DOMAIN q, NEW j \in DOMAIN q, q[i] = q[j] PROVE i = j
    <3>1. i \in 1 .. n - 1 /\ j \in 1 .. n - 1
      BY <1>4
    <3>2. h(i) = h(j)
      <4> HIDE DEF h
      <4> QED
        BY <1>5, <2>1, <3>1 DEF Lists, IsInjective
    <3> QED
      BY <1>2, <3>1, <3>2
  <2> QED
    BY <2>1 DEF IsInjective
<1>7. ASSUME NEW p PROVE p \in pages \ {list[k]} <=> \E j \in DOMAIN q : q[j] = p
  <2>1. ASSUME p \in pages, p # list[k] PROVE \E j \in DOMAIN q : q[j] = p
    <3>1. PICK j \in DOMAIN list : list[j] = p
      BY <2>1 DEF Lists
    <3>2. j # k
      BY <2>1, <3>1
    <3>3. CASE j < k
      <4>1. j \in 1 .. n - 1 /\ h(j) = j
        BY <1>1, <1>2, <3>3
      <4> QED
        BY <1>4, <1>5, <3>1, <4>1
    <3>4. CASE j > k
      <4>1. j - 1 \in 1 .. n - 1 /\ h(j - 1) = j
        BY <1>1, <1>2, <3>4
      <4> QED
        BY <1>4, <1>5, <3>1, <4>1
    <3> QED
      BY <1>1, <1>2, <3>2, <3>3, <3>4
  <2>2. ASSUME NEW j \in DOMAIN q, q[j] = p PROVE p \in pages \ {list[k]}
    <3> HIDE DEF h
    <3>1. h(j) \in DOMAIN list /\ h(j) # k /\ p = list[h(j)]
      BY <1>4, <1>5, <2>2
    <3> QED
      BY <3>1 DEF Lists, IsInjective
  <2> QED
    BY <2>1, <2>2
<1> QED
  BY <1>3, <1>4, <1>6, <1>7 DEF Lists

\* A step of somebody else: the slabs keep their blocks.
LEMMA Elsewhere ==
    ASSUME SlabInv, PP!IInv', UNCHANGED <<page_slab, slab, slabs, live>>,
           \A pg \in DOMAIN slab : pg \in PA!Heads' /\ private'[pg] = private[pg]
    PROVE  SlabInv'
<1>1. TypeInv' /\ ListInv' /\ LiveInv'
  BY DEF SlabInv, TypeInv, ListInv, LiveInv, SlabsOf, HeldIn
<1>2. \A pg \in DOMAIN slab : PA!BlockOf(pg)' = PA!BlockOf(pg)
  BY DEF PA!BlockOf
<1>3. PageInv'
  BY <1>2 DEF SlabInv, PageInv
<1> QED
  BY <1>1, <1>3 DEF SlabInv

\* Pages that percpu.c takes are not those of a slab.
LEMMA OtherTakes == ASSUME SlabInv, OtherAlloc PROVE SlabInv'
<1>1. 0 \in PA!Orders /\ PA!alloc_pages(0) /\ PP!IInv
  BY ZoneAssumption DEF PA!Orders, OtherAlloc, SlabInv
<1>2. /\ PP!IInv' /\ PA!Heads' = PA!Heads \cup {FirstPage(0)}
      /\ \A p \in PA!Heads : private'[p] = private[p]
  BY <1>1, PagesTaken
<1>3. \A pg \in DOMAIN slab : pg \in PA!Heads' /\ private'[pg] = private[pg]
  BY <1>2 DEF SlabInv, PageInv
<1> QED
  BY <1>2, <1>3, Elsewhere DEF OtherAlloc

\* Pages that it gives back are not either.
LEMMA OtherGives == ASSUME SlabInv, NEW pg \in PA!Zone, OtherFree(pg) PROVE SlabInv'
<1>1. 0 \in PA!Orders /\ PA!__free_pages(pg, 0) /\ PP!IInv
  BY ZoneAssumption DEF PA!Orders, OtherFree, SlabInv
<1>2. /\ PP!IInv' /\ PA!Heads' = PA!Heads \ {pg}
      /\ \A q \in PA!Heads' : private'[q] = private[q]
  BY <1>1, PagesGiven
<1>3. \A q \in DOMAIN slab : q \in PA!Heads' /\ private'[q] = private[q]
  BY <1>2 DEF SlabInv, PageInv, OtherFree
<1> QED
  BY <1>2, <1>3, Elsewhere DEF OtherFree

\* Steps that change nothing but fault.
LEMMA NoChange == ASSUME SlabInv, UNCHANGED <<pageVars, page_slab, slab, slabs, live>> PROVE SlabInv'
<1>1. PP!IInv' /\ PA!Heads' = PA!Heads /\ \A p : private'[p] = private[p]
  BY PagesSame DEF SlabInv
<1>2. \A pg \in DOMAIN slab : pg \in PA!Heads' /\ private'[pg] = private[pg]
  BY <1>1 DEF SlabInv, PageInv
<1> QED
  BY <1>1, <1>2, Elsewhere

\* kmalloc adds a slab, whose block is new, and takes its first object.
LEMMA NewFromGrow ==
    ASSUME SlabInv, NEW n \in Requests, KmallocGrow(n)
    PROVE  SlabInv'
<1>1. PICK c \in Caches : c = Min(Serving(n)) /\ (OrderedTable => n <= ObjSize[c])
  BY ServedBy DEF KmallocGrow
<1>2. PICK o \in PA!Orders : o = GfpOrder[c]
  BY CacheFacts
<1>3. PICK pg : pg = FirstPage(o)
  OBVIOUS
<1>4. PICK new : new = Take(NewSlab(c))
  OBVIOUS
<1>5. PICK obj : obj = [slab |-> pg, index |-> 0, size |-> n]
  OBVIOUS
<1>6. /\ PA!alloc_pages(o)
      /\ page_slab' = [d \in PA!Descr |-> IF d \in PA!Block(pg, o) THEN pg ELSE page_slab[d]]
      /\ slab' = [p \in DOMAIN slab \cup {pg} |-> IF p = pg THEN new ELSE slab[p]]
      /\ slabs' = [slabs EXCEPT ![c] = <<pg>> \o slabs[c]]
      /\ live' = live \cup {obj}
  BY <1>1, <1>2, <1>3, <1>4, <1>5 DEF KmallocGrow, kmem_getpages
<1>7. /\ PP!IInv' /\ pg \in PA!Zone /\ pg \notin PA!Heads
      /\ PA!Heads' = PA!Heads \cup {pg}
      /\ \A p \in PA!Heads : private'[p] = private[p]
      /\ private'[pg] = o
  BY <1>3, <1>6, PagesTaken DEF SlabInv
<1>8. pg \notin DOMAIN slab
  BY <1>7 DEF SlabInv, PageInv
<1>9. /\ DOMAIN slab' = DOMAIN slab \cup {pg} /\ slab'[pg] = new
      /\ \A p \in DOMAIN slab : slab'[p] = slab[p]
      /\ slab' = [p \in DOMAIN slab' |-> slab'[p]]
  BY <1>6, <1>8
<1>10. /\ new \in Desc(c) /\ new.cache = c /\ Chained(new, {0})
  <2>1. /\ NewSlab(c) \in Desc(c) /\ Chained(NewSlab(c), {})
        /\ NewSlab(c).free = 0 /\ NewSlab(c).inuse = 0 /\ NewSlab(c).inuse < Num[c]
    <3>1. Num[c] \in 1 .. BUFCTL_END
      BY CacheFacts
    <3> QED
      BY <3>1, SlabNew
  <2>2. new \in Desc(c) /\ Chained(new, {} \cup {0})
    BY <1>4, <2>1, SlabTake
  <2>3. {} \cup {0} = {0}
    OBVIOUS
  <2> QED
    BY <2>2, <2>3, Fields
<1>11. obj.slab = pg /\ obj.index = 0 /\ obj.size = n
  BY <1>5
<1>12. TypeInv'
  <2>1. page_slab' \in [PA!Descr -> PA!Zone \cup {NULL}]
    BY <1>6, <1>7 DEF SlabInv, TypeInv
  <2>2. \A p \in DOMAIN slab' : slab'[p].cache \in Caches /\ slab'[p] \in Desc(slab'[p].cache)
    BY <1>9, <1>10 DEF SlabInv, TypeInv
  <2>3. slabs' \in [Caches -> Seq(PA!Zone)]
    <3>1. slabs[c] \in Seq(PA!Zone)
      BY DEF SlabInv, TypeInv
    <3>2. <<pg>> \o slabs[c] \in Seq(PA!Zone)
      BY <1>7, <3>1
    <3> QED
      BY <1>6, <3>2 DEF SlabInv, TypeInv
  <2>4. \A x \in live' : x.slab \in DOMAIN slab'
    BY <1>6, <1>9, <1>11 DEF SlabInv, TypeInv
  <2> QED
    BY <1>9, <2>1, <2>2, <2>3, <2>4 DEF TypeInv
<1>13. PageInv'
  <2>1. \A p \in DOMAIN slab : p \in PA!Heads /\ private[p] = GfpOrder[slab[p].cache]
    BY DEF SlabInv, PageInv
  <2>2. \A p \in DOMAIN slab' : p \in PA!Heads' /\ private'[p] = GfpOrder[slab'[p].cache]
    BY <1>2, <1>7, <1>9, <1>10, <2>1
  <2>3. PA!BlockOf(pg)' = PA!Block(pg, o)
    BY <1>7 DEF PA!BlockOf
  <2>4. \A p \in DOMAIN slab : PA!BlockOf(p)' = PA!BlockOf(p)
    BY <1>7, <2>1 DEF PA!BlockOf
  <2>5. \A p \in DOMAIN slab : PA!BlockOf(p) \cap PA!Block(pg, o) = {}
    <3>1. \A p, q \in PP!Heads' : p # q => PP!BlockOf(p)' \cap PP!BlockOf(q)' = {}
      BY <1>7 DEF PP!IInv, PP!BlocksDisjoint
    <3>2. \A p : PP!BlockOf(p)' = PA!BlockOf(p)'
      BY DEF PP!BlockOf, PA!BlockOf, PP!Block, PA!Block, PP!PageCount, PA!PageCount
    <3> QED
      BY <1>7, <1>8, <2>1, <2>3, <2>4, <3>1, <3>2, SamePages
  <2>6. ASSUME NEW d \in PA!Descr, NEW p \in PA!Zone
        PROVE  page_slab'[d] = p <=> p \in DOMAIN slab' /\ d \in PA!BlockOf(p)'
    <3>1. page_slab[d] = p <=> p \in DOMAIN slab /\ d \in PA!BlockOf(p)
      BY DEF SlabInv, PageInv
    <3>2. page_slab'[d] = IF d \in PA!Block(pg, o) THEN pg ELSE page_slab[d]
      BY <1>6
    <3>3. CASE p = pg
      BY <1>8, <1>9, <2>3, <3>1, <3>2, <3>3
    <3>4. CASE p # pg
      BY <1>9, <2>4, <2>5, <3>1, <3>2, <3>4
    <3> QED
      BY <3>3, <3>4
  <2> QED
    BY <2>2, <2>6 DEF PageInv
<1>14. ListInv'
  <2>1. ASSUME NEW d \in Caches PROVE Lists(slabs'[d], SlabsOf(d)')
    <3>1. Lists(slabs[d], SlabsOf(d)) /\ slabs[d] \in Seq(PA!Zone) /\ slabs \in [Caches -> Seq(PA!Zone)]
      BY DEF SlabInv, TypeInv, ListInv
    <3>2. CASE d = c
      <4>1. SlabsOf(c)' = SlabsOf(c) \cup {pg}
        BY <1>9, <1>10 DEF SlabsOf
      <4>2. pg \notin SlabsOf(c)
        BY <1>8 DEF SlabsOf
      <4>3. Lists(<<pg>> \o slabs[c], SlabsOf(c) \cup {pg})
        BY <1>7, <3>1, <3>2, <4>2, ListsGrow
      <4> QED
        BY <1>6, <3>1, <3>2, <4>1, <4>3
    <3>3. CASE d # c
      <4>1. SlabsOf(d)' = SlabsOf(d)
        BY <1>9, <1>10, <3>3 DEF SlabsOf
      <4> QED
        BY <1>6, <3>1, <3>3, <4>1
    <3> QED
      BY <3>2, <3>3
  <2> QED
    BY <2>1 DEF ListInv
<1>15. LiveInv'
  <2>1. \A x \in live : x.slab \in DOMAIN slab /\ x.slab # pg
    BY <1>8 DEF SlabInv, TypeInv
  <2>2. OrderedTable => \A x \in live' : x.size <= ObjSize[slab'[x.slab].cache]
    BY <1>1, <1>6, <1>9, <1>10, <1>11, <2>1 DEF SlabInv, LiveInv
  <2>3. HeldIn(pg)' = {0}
    <3>1. \A x : x \in HeldIn(pg)' <=> x = 0
      BY <1>6, <1>11, <2>1 DEF HeldIn
    <3> QED
      BY <3>1
  <2>4. ASSUME NEW p \in DOMAIN slab PROVE HeldIn(p)' = HeldIn(p)
    <3>1. p # pg
      BY <1>8
    <3>2. \A x : x \in HeldIn(p)' <=> x \in HeldIn(p)
      BY <1>6, <1>11, <3>1 DEF HeldIn
    <3> QED
      BY <3>2
  <2>5. ASSUME NEW p \in DOMAIN slab' PROVE Chained(slab'[p], HeldIn(p)')
    <3>1. CASE p = pg
      BY <1>9, <1>10, <2>3, <3>1
    <3>2. CASE p # pg
      <4>1. p \in DOMAIN slab
        BY <1>9, <3>2
      <4> QED
        BY <1>9, <2>4, <4>1 DEF SlabInv, LiveInv
    <3> QED
      BY <3>1, <3>2
  <2> QED
    BY <2>2, <2>5 DEF LiveInv
<1> QED
  BY <1>7, <1>12, <1>13, <1>14, <1>15 DEF SlabInv

\* kmem_cache_shrink takes a slab without objects off its list and gives its
\* block back.
LEMMA Shrink ==
    ASSUME SlabInv, NEW c \in Caches, kmem_cache_shrink(c)
    PROVE  SlabInv'
<1>1. PICK k : k = Min(Empty(c))
  OBVIOUS
<1>2. PICK pg : pg = slabs[c][k]
  OBVIOUS
<1>3. PICK o \in PA!Orders : o = GfpOrder[c]
  BY CacheFacts
<1>4. /\ Empty(c) # {} /\ PA!__free_pages(pg, o)
      /\ page_slab' = [d \in PA!Descr |-> IF d \in PA!Block(pg, o) THEN NULL ELSE page_slab[d]]
      /\ slab' = [p \in DOMAIN slab \ {pg} |-> slab[p]]
      /\ slabs' = [slabs EXCEPT ![c] = RemoveAt(slabs[c], k)]
      /\ live' = live
  BY <1>1, <1>2, <1>3 DEF kmem_cache_shrink, kmem_freepages
<1>5. /\ k \in DOMAIN slabs[c] /\ pg \in DOMAIN slab /\ slab[pg].cache = c /\ slab[pg].inuse = 0
  <2>1. Empty(c) \in SUBSET DOMAIN slabs[c]
    BY DEF Empty
  <2>2. Min(Empty(c)) \in Empty(c) /\ pg \in DOMAIN slab /\ slab[pg].cache = c
    BY <1>1, <1>2, <1>4, <2>1, FirstOf DEF SlabInv
  <2> QED
    BY <1>1, <1>2, <2>2 DEF Empty
<1>6. pg \in PA!Heads /\ pg \in PA!Zone
  BY <1>5, PagesOut DEF SlabInv, PageInv
<1>7. /\ PP!IInv' /\ private[pg] = o /\ PA!Heads' = PA!Heads \ {pg}
      /\ \A q \in PA!Heads' : private'[q] = private[q]
  BY <1>4, <1>6, PagesGiven DEF SlabInv
<1>8. /\ DOMAIN slab' = DOMAIN slab \ {pg}
      /\ \A p \in DOMAIN slab' : slab'[p] = slab[p]
      /\ slab' = [p \in DOMAIN slab' |-> slab'[p]]
  BY <1>4
<1>9. \A x \in live : x.slab # pg
  <2>1. HeldIn(pg) \in SUBSET Object(c) /\ Cardinality(HeldIn(pg)) = 0
    BY <1>5 DEF SlabInv, LiveInv, Chained
  <2>2. HeldIn(pg) = {}
    BY <2>1, HeldFinite, FS_EmptySet
  <2> QED
    BY <2>2 DEF HeldIn
<1>10. TypeInv'
  <2>1. page_slab' \in [PA!Descr -> PA!Zone \cup {NULL}]
    BY <1>4 DEF SlabInv, TypeInv
  <2>2. \A p \in DOMAIN slab' : slab'[p].cache \in Caches /\ slab'[p] \in Desc(slab'[p].cache)
    BY <1>8 DEF SlabInv, TypeInv
  <2>3. slabs' \in [Caches -> Seq(PA!Zone)]
    <3>1. slabs[c] \in Seq(PA!Zone) /\ Lists(slabs[c], SlabsOf(c))
      BY DEF SlabInv, TypeInv, ListInv
    <3>2. RemoveAt(slabs[c], k) \in Seq(PA!Zone)
      BY <1>5, <3>1, ListsShrink
    <3> QED
      BY <1>4, <3>2 DEF SlabInv, TypeInv
  <2>4. \A x \in live' : x.slab \in DOMAIN slab'
    BY <1>4, <1>8, <1>9 DEF SlabInv, TypeInv
  <2> QED
    BY <1>8, <2>1, <2>2, <2>3, <2>4 DEF TypeInv
<1>11. PageInv'
  <2>1. \A p \in DOMAIN slab : p \in PA!Heads /\ private[p] = GfpOrder[slab[p].cache]
    BY DEF SlabInv, PageInv
  <2>2. \A p \in DOMAIN slab' : p \in PA!Heads' /\ private'[p] = GfpOrder[slab'[p].cache]
    BY <1>7, <1>8, <2>1
  <2>3. PA!BlockOf(pg) = PA!Block(pg, o)
    BY <1>7 DEF PA!BlockOf
  <2>4. \A p \in DOMAIN slab' : PA!BlockOf(p)' = PA!BlockOf(p)
    BY <1>7, <2>2 DEF PA!BlockOf
  <2>5. \A p \in DOMAIN slab' : PA!BlockOf(p) \cap PA!Block(pg, o) = {}
    BY <1>6, <1>8, <2>1, <2>3, PagesOut DEF SlabInv
  <2>6. NULL \notin PA!Zone
    BY DEF NULL, PA!Zone
  <2>7. ASSUME NEW d \in PA!Descr, NEW p \in PA!Zone
        PROVE  page_slab'[d] = p <=> p \in DOMAIN slab' /\ d \in PA!BlockOf(p)'
    <3>1. page_slab[d] = p <=> p \in DOMAIN slab /\ d \in PA!BlockOf(p)
      BY DEF SlabInv, PageInv
    <3>2. page_slab'[d] = IF d \in PA!Block(pg, o) THEN NULL ELSE page_slab[d]
      BY <1>4
    <3>3. CASE p = pg
      BY <1>5, <1>8, <2>3, <2>6, <3>1, <3>2, <3>3
    <3>4. CASE p # pg
      BY <1>8, <2>4, <2>5, <2>6, <3>1, <3>2, <3>4
    <3> QED
      BY <3>3, <3>4
  <2> QED
    BY <2>2, <2>7 DEF PageInv
<1>12. ListInv'
  <2>1. ASSUME NEW d \in Caches PROVE Lists(slabs'[d], SlabsOf(d)')
    <3>1. Lists(slabs[d], SlabsOf(d)) /\ slabs[d] \in Seq(PA!Zone) /\ slabs \in [Caches -> Seq(PA!Zone)]
      BY DEF SlabInv, TypeInv, ListInv
    <3>2. CASE d = c
      <4>1. SlabsOf(c)' = SlabsOf(c) \ {pg}
        BY <1>8 DEF SlabsOf
      <4>2. Lists(RemoveAt(slabs[c], k), SlabsOf(c) \ {pg})
        BY <1>2, <1>5, <3>1, <3>2, ListsShrink
      <4> QED
        BY <1>4, <3>1, <3>2, <4>1, <4>2
    <3>3. CASE d # c
      <4>1. SlabsOf(d)' = SlabsOf(d)
        BY <1>5, <1>8, <3>3 DEF SlabsOf
      <4> QED
        BY <1>4, <3>1, <3>3, <4>1
    <3> QED
      BY <3>2, <3>3
  <2> QED
    BY <2>1 DEF ListInv
<1>13. LiveInv'
  <2>1. OrderedTable => \A x \in live' : x.size <= ObjSize[slab'[x.slab].cache]
    BY <1>4, <1>8, <1>10 DEF SlabInv, LiveInv, TypeInv
  <2>2. \A p : HeldIn(p)' = HeldIn(p)
    BY <1>4 DEF HeldIn
  <2>3. \A p \in DOMAIN slab' : Chained(slab'[p], HeldIn(p)')
    BY <1>8, <2>2 DEF SlabInv, LiveInv
  <2> QED
    BY <2>1, <2>3 DEF LiveInv
<1> QED
  BY <1>7, <1>10, <1>11, <1>12, <1>13 DEF SlabInv

-----------------------------------------------------------------------------
(* The theorems                                                               *)

\* The descriptors, the lists of the caches, mem_map[].slab and the objects
\* that are out agree after every kmalloc, kfree and kmem_cache_shrink, between
\* any steps of the other users of the page allocator.
THEOREM SlabInvariant == Spec => []SlabInv
<1>1. ASSUME SlabInv, [Next]_vars PROVE SlabInv'
  <2>1. ASSUME NEW n \in Requests, KmallocFromSlab(n) PROVE SlabInv'
    BY <1>1, <2>1, FromSlab
  <2>2. ASSUME NEW n \in Requests, KmallocGrow(n) PROVE SlabInv'
    BY <1>1, <2>2, NewFromGrow
  <2>3. ASSUME NEW n \in Requests, KmallocExhausted(n) PROVE SlabInv'
    BY <1>1, <2>3, NoChange DEF KmallocExhausted
  <2>4. ASSUME NEW pg \in DOMAIN slab, NEW i, Held(pg, i), caos_kfree(pg, i) PROVE SlabInv'
    BY <1>1, <2>4, ToSlab
  <2>5. ASSUME NEW c \in Caches, kmem_cache_shrink(c) PROVE SlabInv'
    BY <1>1, <2>5, Shrink
  <2>6. CASE OtherAlloc
    BY <1>1, <2>6, OtherTakes
  <2>7. ASSUME NEW pg \in PA!Zone, OtherFree(pg) PROVE SlabInv'
    BY <1>1, <2>7, OtherGives
  <2>8. CASE Halted
    BY <1>1, <2>8, NoChange DEF Halted, vars, pageVars
  <2>9. CASE UNCHANGED vars
    BY <1>1, <2>9, NoChange DEF vars, pageVars
  <2> QED
    BY <1>1, <2>1, <2>2, <2>3, <2>4, <2>5, <2>6, <2>7, <2>8, <2>9 DEF Next
<1> QED
  BY <1>1, InitSlab, PTL DEF Spec

\* The bufctl list of every slab holds exactly the objects that no caller has,
\* once each, whatever order kmalloc and kfree take and return them in.
THEOREM SlabFreeLists == Spec => []FreeListExact
<1>1. ASSUME SlabInv PROVE FreeListExact
  <2>1. ASSUME NEW pg \in DOMAIN slab
        PROVE  /\ { FreeList(slab[pg])[k] : k \in 0 .. Num[slab[pg].cache] - slab[pg].inuse - 1 }
                    = Object(slab[pg].cache) \ HeldIn(pg)
               /\ FreeList(slab[pg])[Num[slab[pg].cache] - slab[pg].inuse] = BUFCTL_END
               /\ slab[pg].inuse = Cardinality(HeldIn(pg))
    <3>1. PICK c \in Caches : c = slab[pg].cache
      BY <1>1 DEF SlabInv, TypeInv
    <3>2. PICK s : s = slab[pg]
      OBVIOUS
    <3>3. s \in Desc(c) /\ Chained(s, HeldIn(pg))
      BY <1>1, <3>1, <3>2 DEF SlabInv, TypeInv, LiveInv
    <3>4. s.inuse = Cardinality(HeldIn(pg))
      BY <3>3 DEF Chained
    <3>5. /\ { FreeList(s)[k] : k \in 0 .. Num[c] - s.inuse - 1 } = Object(c) \ HeldIn(pg)
          /\ FreeList(s)[Num[c] - s.inuse] = BUFCTL_END
      BY <3>3, ListRuns
    <3> QED
      BY <3>1, <3>2, <3>4, <3>5
  <2> QED
    BY <2>1 DEF FreeListExact
<1> QED
  BY <1>1, SlabInvariant, PTL

\* Every object that is out lives in a slab that has its pages, whose pages lead
\* kfree to it; every slab is on the list of its cache, once, and no page is
\* left pointing at a slab that kmem_cache_shrink has destroyed.
THEOREM SlabsAgree == Spec => []SlabsKept
<1>1. ASSUME SlabInv PROVE SlabsKept
  <2>1. \A pg \in DOMAIN slab : pg \in PA!Heads /\ pg \in PA!Zone /\ PA!BlockOf(pg) \subseteq PA!Descr
    BY <1>1, PagesOut DEF SlabInv, PageInv
  <2>2. LiveObjectsBacked
    <3>1. ASSUME NEW o \in live
          PROVE  /\ o.slab \in DOMAIN slab /\ o.slab \in PA!Heads
                 /\ \A d \in PA!BlockOf(o.slab) : page_slab[d] = o.slab
      <4>1. PICK pg \in DOMAIN slab : pg = o.slab
        BY <1>1 DEF SlabInv, TypeInv
      <4>2. \A d \in PA!BlockOf(pg) : d \in PA!Descr /\ page_slab[d] = pg
        BY <1>1, <2>1 DEF SlabInv, PageInv
      <4> QED
        BY <2>1, <4>1, <4>2
    <3> QED
      BY <3>1 DEF LiveObjectsBacked
  <2>3. SlabsListed
    <3>1. \A c \in Caches : IsInjective(slabs[c])
      BY <1>1 DEF SlabInv, ListInv, Lists
    <3>2. \A c \in Caches : \A k \in DOMAIN slabs[c] : slabs[c][k] \in SlabsOf(c)
      BY <1>1 DEF SlabInv, ListInv, Lists
    <3>3. \A c \in Caches : \A k \in DOMAIN slabs[c] : slab[slabs[c][k]].cache = c
      BY <3>2 DEF SlabsOf
    <3>4. DOMAIN slab = UNION { Range(slabs[c]) : c \in Caches }
      <4>1. ASSUME NEW pg \in DOMAIN slab PROVE \E c \in Caches : pg \in Range(slabs[c])
        <5>1. PICK c \in Caches : pg \in SlabsOf(c)
          BY <1>1 DEF SlabInv, TypeInv, SlabsOf
        <5>2. \E k \in DOMAIN slabs[c] : slabs[c][k] = pg
          BY <1>1, <5>1 DEF SlabInv, ListInv, Lists
        <5> QED
          BY <5>2 DEF Range
      <4>2. ASSUME NEW c \in Caches, NEW pg \in Range(slabs[c]) PROVE pg \in DOMAIN slab
        BY <3>2 DEF Range, SlabsOf
      <4> QED
        BY <4>1, <4>2
    <3>5. ASSUME NEW d \in PA!Descr
          PROVE  page_slab[d] # NULL <=> \E pg \in DOMAIN slab : d \in PA!BlockOf(pg)
      <4>1. page_slab[d] \in PA!Zone \cup {NULL} /\ NULL \notin PA!Zone
        BY <1>1 DEF SlabInv, TypeInv, NULL, PA!Zone
      <4>2. \A pg \in PA!Zone : page_slab[d] = pg <=> pg \in DOMAIN slab /\ d \in PA!BlockOf(pg)
        BY <1>1 DEF SlabInv, PageInv
      <4> QED
        BY <2>1, <4>1, <4>2
    <3> QED
      BY <3>1, <3>3, <3>4, <3>5 DEF SlabsListed
  <2> QED
    BY <2>2, <2>3 DEF SlabsKept
<1> QED
  BY <1>1, SlabInvariant, PTL

\* With the table of kmem_cache_init an object that is out has the size its
\* caller asked for, also when kmalloc had to move on to a bigger cache.
THEOREM SlabObjects == ASSUME OrderedTable PROVE Spec => []ObjectBigEnough
<1>1. SlabInv => ObjectBigEnough
  BY DEF SlabInv, LiveInv, ObjectBigEnough
<1> QED
  BY <1>1, SlabInvariant, PTL
=============================================================================
