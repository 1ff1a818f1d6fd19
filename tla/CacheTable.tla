----------------------------- MODULE CacheTable -----------------------------
(***************************************************************************)
(* The cache table of src/slab.c: kmem_cache_init and kmem_cache_create,   *)
(* with the arithmetic that lays out a slab in its pages,                  *)
(*                                                                         *)
(*     0 .. sizeof(slab)            struct slab                            *)
(*     sizeof(slab) .. colour_off   the kmem_bufctl_t array                *)
(*     colour_off .. end of pages   the objects                            *)
(***************************************************************************)
EXTENDS Integers, Sequences

CONSTANTS Names,            \* names of the caches created after boot
          Sizes, Aligns,    \* the sizes and alignments they are created with
          cache_cache_max,  \* entries of the table
          DefaultNames      \* cache_names[]

PAGE_SIZE == 4096
SIZEOF_SLAB == 64
SIZEOF_BUFCTL == 2
SLAB_DEFAULT_NUM == 10
BYTES_PER_LONG == 8
KMALLOC_SMALL_SIZE == 16
KMALLOC_MAX_SIZE == 2048
X86_64_CACHE_ALIGN == 16

VARIABLES cache_cache    \* the entries in use, in the order of the table

-----------------------------------------------------------------------------
\* Round x up to a multiple of m, a power of two.
Up(x, m) == ((x + m - 1) \div m) * m

\* fls64: the position of the highest bit set, from 1.
fls64(x) == IF x = 0 THEN 0 ELSE CHOOSE b \in 1 .. 31 : 2^(b - 1) <= x /\ x < 2^b

\* The order of a slab: enough pages for SLAB_DEFAULT_NUM objects.
page_order(size) ==
    LET need == (SIZEOF_SLAB + size * SLAB_DEFAULT_NUM + SIZEOF_BUFCTL * SLAB_DEFAULT_NUM)
                    \div PAGE_SIZE
    IN  IF need = 0 THEN 1 ELSE fls64(need)

Bytes(order) == 2^order * PAGE_SIZE

\* Objects of a slab if there were no bufctl array.
RoughNum(size) == (Bytes(page_order(size)) - SIZEOF_SLAB) \div size

\* Mutant: the partly used object is not given up for the bufctl array.
obj_num_NoExtra(size) == RoughNum(size) - (RoughNum(size) * SIZEOF_BUFCTL) \div size

\* Objects of a slab with room for the array.
obj_num(size) == RoughNum(size) - ((RoughNum(size) * SIZEOF_BUFCTL) \div size + 1)

\* Where the objects start.
colour_off(size, align) == Up(SIZEOF_SLAB + RoughNum(size) * SIZEOF_BUFCTL, align)

\* The entry kmem_cache_create fills in.
NewCache(name, size, align) ==
    LET osize == Up(size, BYTES_PER_LONG)
        oalign == Up(align, BYTES_PER_LONG)
    IN  [name |-> name, objsize |-> osize, align |-> oalign,
         gfporder |-> page_order(osize), num |-> obj_num(osize),
         colour_off |-> colour_off(osize, oalign)]

Init == cache_cache = << >>

\* Eight caches of doubling size (the table is large enough).
kmem_cache_init ==
    /\ cache_cache = << >>
    /\ cache_cache' = [k \in 1 .. Len(DefaultNames) |->
           NewCache(DefaultNames[k], KMALLOC_SMALL_SIZE * 2^(k - 1), X86_64_CACHE_ALIGN)]

Duplicate(name) == \E k \in DOMAIN cache_cache : cache_cache[k].name = name

\* kmem_cache_create past its three checks, which leave the table alone.
kmem_cache_create(name, size, align) ==
    /\ cache_cache # << >>
    /\ size >= BYTES_PER_LONG /\ size <= KMALLOC_MAX_SIZE
    /\ ~Duplicate(name)
    /\ Len(cache_cache) < cache_cache_max
    /\ cache_cache' = Append(cache_cache, NewCache(name, size, align))

\* A call that fails a check: NULL.
CreateFails(name, size) ==
    /\ cache_cache # << >>
    /\ \/ size < BYTES_PER_LONG \/ size > KMALLOC_MAX_SIZE
       \/ Duplicate(name)
       \/ Len(cache_cache) >= cache_cache_max
    /\ UNCHANGED cache_cache

CacheNext == \/ kmem_cache_init
             \/ \E name \in Names, size \in Sizes :
                    \/ CreateFails(name, size)
                    \/ \E align \in Aligns : kmem_cache_create(name, size, align)

-----------------------------------------------------------------------------
\* A slab fits its pages: the bufctl array ends before the first object, the
\* last object ends with the pages, the objects are aligned, there is at least
\* one, none has the index that ends the free list, and alloc_pages accepts the
\* order.
LayoutFits ==
    \A k \in DOMAIN cache_cache :
        LET c == cache_cache[k] IN
            /\ SIZEOF_SLAB + c.num * SIZEOF_BUFCTL <= c.colour_off
            /\ c.colour_off + c.num * c.objsize <= Bytes(c.gfporder)
            /\ c.colour_off % c.align = 0
            /\ c.num >= 1 /\ c.num < 65535
            /\ c.gfporder <= 5
=============================================================================
