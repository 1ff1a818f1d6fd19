------------------------------- MODULE MCBoot -------------------------------
(* Builds for Boot, and sizes around every limit of the slab layout.          *)
EXTENDS Boot

\* Kernels of one sector, of a whole track, across several tracks and of the
\* most the loader can take; memory sizes from the smallest to the largest the
\* Makefile names, all of them around the largest that boots, and some odd ones.
MCBuilds == { [sects |-> k, mem |-> 16] : k \in {1, 9, 64, 108, 109} }
            \cup { [sects |-> 2, mem |-> 2 * k] : k \in 8 .. 160 }
            \cup { [sects |-> 2, mem |-> m] : m \in {17, 19, 127, 129} \cup 290 .. 310
                                                    \cup 510 .. 512 }

MCDefaultNames == <<"16", "32", "64", "128", "256", "512", "1024", "2048">>

\* Every multiple of eight up to 256, one byte less, and a spread of the rest.
MCSizes == { 8 * k : k \in 0 .. 32 } \cup { 8 * k - 1 : k \in 1 .. 32 }
           \cup { 401, 402, 408, 800, 811, 812, 816, 1000, 1631, 1640, 1641, 2040, 2047, 2048, 2049 }
=============================================================================
