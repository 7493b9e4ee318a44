--------------------------- MODULE MCPoolLayout ---------------------------
(* PoolLayout on the tables of shm.c and on smaller ones, some of which do   *)
(* not fit.  Addresses are taken from MPI_SYSTEM_START_ADDRESS.              *)
EXTENDS PoolLayout, TLC

MCBlockBytes == [p \in Pool |-> 2^(10 + p)]

MCRegions ==
    {[start |-> 1048576 + o, length |-> n] :
        o \in {0, 16, 1008}, n \in {4096, 65536, 107520, 33554432, 100663296}}

\* POOL_1K_NUMBER .. POOL_16M_NUMBER
Shipped == <<4096, 4096, 2048, 2048, 64, 32, 16, 8, 8, 4, 4, 4, 4, 2, 0>>

\* Tables that fit or nearly do, and tables whose sums wrap at Word = 2^27:
\* 1398102 infos, and 16 blocks of 8 MiB.  8 of those make a negative size.
MCTables ==
    {[p \in Pool |-> Shipped[p + 1]]}
    \cup {[p \in Pool |-> IF p \in {a, b} THEN n ELSE 0] :
              a \in {0, 4}, b \in {1, 5}, n \in {0, 1, 31}}
    \cup {[p \in Pool |-> IF p = 13 THEN n ELSE IF p = 1 THEN 1 ELSE 0] : n \in {8, 15, 16}}
    \cup {[p \in Pool |-> IF p = 0 THEN 1398102 ELSE 0]}
=============================================================================
