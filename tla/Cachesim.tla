------------------------------ MODULE Cachesim ------------------------------
(***************************************************************************)
(* The instruction cache simulator, npc/simtools/cachesim/cachesim.cpp,    *)
(* reading the binary trace NEMU wrote (module Itrace).  Addresses are 32  *)
(* bits in the code, PcSpace here; the sizes are powers of two.            *)
(***************************************************************************)
EXTENDS Itrace, FiniteSets, SequencesExt

CONSTANTS size, ways, block_size

ASSUME CacheAssumption == /\ {size, ways, block_size} \subseteq Nat \ {0}
                          /\ size % (ways * block_size) = 0

VARIABLES lines,                        \* lines[set][way]
          total_access, hit_count, timer,
          node, i                       \* the loop of main: nodes read, next instruction

simVars == <<lines, total_access, hit_count, timer, node, i>>
allVars == <<vars, simVars>>

num_sets == size \div (ways * block_size)
Way == 0 .. ways - 1

init_cache == /\ lines = [s \in 0 .. num_sets - 1 |->
                            [w \in Way |-> [valid |-> FALSE, tag |-> 0, last_use_time |-> 0]]]
              /\ total_access = 0 /\ hit_count = 0 /\ timer = 0

SimInit == Init /\ init_cache /\ node = 1 /\ i = 0

index(addr) == (addr \div block_size) % num_sets
tag(addr)   == addr \div (block_size * num_sets)

(* The way that matches, if any, else the first one least recently used.   *)
HitWays(set, t) == {w \in Way : set[w].valid /\ set[w].tag = t}
lru_way(set) == CHOOSE w \in Way :
                    \A v \in Way : \/ set[w].last_use_time < set[v].last_use_time
                                   \/ /\ set[w].last_use_time = set[v].last_use_time
                                      /\ w <= v

(* A hit does not renew the line: replacement in order of arrival.         *)
access_cache_Fifo(addr) ==
    LET s == index(addr)
        h == HitWays(lines[s], tag(addr))
        v == lru_way(lines[s])
    IN  /\ total_access' = total_access + 1
        /\ timer' = timer + 1
        /\ hit_count' = IF h = {} THEN hit_count ELSE hit_count + 1
        /\ lines' = IF h # {} THEN lines
                    ELSE [lines EXCEPT ![s][v] =
                            [valid |-> TRUE, tag |-> tag(addr), last_use_time |-> timer']]

access_cache(addr) ==
    LET s == index(addr)
        h == HitWays(lines[s], tag(addr))
        v == IF h # {} THEN CHOOSE w \in h : TRUE ELSE lru_way(lines[s])
    IN  /\ total_access' = total_access + 1
        /\ timer' = timer + 1
        /\ hit_count' = IF h = {} THEN hit_count ELSE hit_count + 1
        /\ lines' = [lines EXCEPT ![s][v] =
                        [valid |-> TRUE, tag |-> tag(addr), last_use_time |-> timer']]

(* One turn of the loops of main: the next instruction of a node, or the   *)
(* next node.  The trace is complete before the simulator opens it.        *)
AccessNode ==
    /\ ~open /\ node <= Len(file) /\ i < file[node].count
    /\ access_cache((file[node].start_pc + i * 4) % PcSpace)
    /\ i' = i + 1
    /\ UNCHANGED <<vars, node>>
NextNode ==
    /\ ~open /\ node <= Len(file) /\ i = file[node].count
    /\ node' = node + 1 /\ i' = 0
    /\ UNCHANGED <<vars, lines, total_access, hit_count, timer>>

SimNext == \/ exec_once /\ UNCHANGED simVars
           \/ finalize_itrace_bin /\ UNCHANGED simVars
           \/ AccessNode
           \/ NextNode
SimSpec == SimInit /\ [][SimNext]_allVars
-----------------------------------------------------------------------------
(* What the loop of main makes of one node, with 32-bit addresses.         *)
Expand(nd) == [k \in 1 .. nd.count |-> (nd.start_pc + 4 * (k - 1)) % PcSpace]

(* The nodes on disk and the node still being counted stand for exactly    *)
(* the instructions executed, in order; after finalize_itrace_bin the file *)
(* alone does.  No jump, not even one to the next address or around the    *)
(* end of the address space, is lost or invented.                          *)
TraceIsExecution ==
    executed = FlattenSeq([k \in DOMAIN file |-> Expand(file[k])])
                  \o (IF open THEN Expand(cur_node) ELSE <<>>)

block(addr) == addr \div block_size
SameSet(a, b) == block(a) % num_sets = block(b) % num_sets

(* The k-th access hits a cache of `ways` lines per set with least         *)
(* recently used replacement: its block was used before, and since then    *)
(* fewer than `ways` other blocks of its set were.                         *)
LruHit(k) ==
    \E j \in 1 .. k - 1 :
        /\ block(executed[j]) = block(executed[k])
        /\ Cardinality({block(executed[n]) : n \in {x \in j + 1 .. k - 1 :
                           SameSet(executed[x], executed[k])}} \ {block(executed[k])}) < ways

(* From the running program to the printed miss rate: the simulator counts *)
(* one access for each executed instruction, and as hits exactly those     *)
(* that hit in a least-recently-used cache of that geometry.               *)
HitsAreLruHits ==
    /\ hit_count = Cardinality({k \in 1 .. total_access : LruHit(k)})
    /\ ~open /\ node > Len(file) => total_access = Len(executed)

(* The binary trace of NEMU is the program executed, no jump lost, and the *)
(* cache simulator counts on it the hits of an LRU cache on the program.   *)
TraceReplayed == TypeOK /\ TraceIsExecution /\ HitsAreLruHits
=============================================================================
