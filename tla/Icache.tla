------------------------------- MODULE Icache -------------------------------
(***************************************************************************)
(* The instruction cache, npc/vsrc/frontend/ysyx_25040131_icache.sv:       *)
(* two ways, SETS sets, LINE words per line, LRU replacement, burst        *)
(* refill.  IcacheClock is one clock edge with reset low.                  *)
(* miss_index_reg and miss_tag_reg are slices of miss_addr_reg, loaded     *)
(* with it, and are state functions here.                                  *)
(***************************************************************************)
EXTENDS Isa

CONSTANTS
    SETS,       \* NUM_SETS, 16 at the top level
    LINE,       \* WORDS_PER_LINE, 2 at the top level
    Cacheable   \* addresses in YSYX_ICACHE_BURST_ADDR_LO .. HI

ASSUME GeometryAssumption == /\ SETS \in Nat \ {0}
                             /\ LINE \in Nat \ {0}
                             /\ Cacheable \subseteq Word

VARIABLES
    ic_state,           \* IDLE, LOOKUP, MISS_AR or MISS_R
    req_addr_reg,       \* address of the request being looked up
    miss_addr_reg,      \* address of the last miss
    miss_way_reg,       \* way that miss fills
    refill_cnt,         \* word of the line the next beat fills
    refill_complete,    \* one cycle after the last beat of a refill
    tag_array, data_array, valid_array,     \* [way][set]
    lru_bit                                 \* [set]: the way to evict

icacheVars == <<ic_state, req_addr_reg, miss_addr_reg, miss_way_reg, refill_cnt,
                refill_complete, tag_array, data_array, valid_array, lru_bit>>

Way  == 0 .. 1
Set  == 0 .. SETS - 1
Beat == 0 .. LINE - 1

(* Address fields. *)
Tag(a)      == a \div (LINE * SETS)
Index(a)    == (a \div LINE) % SETS
WordIdx(a)  == a % LINE
LineBase(a) == a - WordIdx(a)

IcacheTypeOK ==
    /\ ic_state \in {"IDLE", "LOOKUP", "MISS_AR", "MISS_R"}
    /\ req_addr_reg \in Word
    /\ miss_addr_reg \in Word
    /\ miss_way_reg \in Way
    /\ refill_cnt \in Beat
    /\ refill_complete \in BOOLEAN
    /\ tag_array \in [Way -> [Set -> Nat]]
    /\ data_array \in [Way -> [Set -> [Beat -> Word]]]
    /\ valid_array \in [Way -> [Set -> BOOLEAN]]
    /\ lru_bit \in [Set -> Way]

Hit(way)     == /\ valid_array[way][Index(req_addr_reg)]
                /\ tag_array[way][Index(req_addr_reg)] = Tag(req_addr_reg)
cache_hit    == Hit(0) \/ Hit(1)
hit_way      == IF Hit(1) THEN 1 ELSE 0
cache_data   == data_array[hit_way][Index(req_addr_reg)][WordIdx(req_addr_reg)]
is_cacheable == miss_addr_reg \in Cacheable

(* Output wires to the IFU; bus_rvalid, bus_rdata come from the bus. *)
ifu_arready == ic_state = "IDLE" /\ ~refill_complete
ifu_rvalid(bus_rvalid) ==
    \/ ic_state = "LOOKUP" /\ cache_hit
    \/ ~is_cacheable /\ ic_state = "MISS_R" /\ bus_rvalid
    \/ is_cacheable /\ refill_complete
ifu_rdata(bus_rdata) ==
    IF (ic_state = "LOOKUP" /\ cache_hit) \/ (is_cacheable /\ refill_complete)
    THEN cache_data ELSE bus_rdata

(* Mutant: the burst starts at the missing word, not at its line. *)
icache_araddr_Unaligned == miss_addr_reg

(* Output wires to the bus. *)
icache_arvalid == ic_state = "MISS_AR"
icache_rready  == ic_state = "MISS_R"
icache_araddr  == IF is_cacheable THEN LineBase(miss_addr_reg) ELSE miss_addr_reg
icache_arlen   == IF is_cacheable THEN LINE - 1 ELSE 0

(* The data and tag arrays have no reset; any content is possible, and 0    *)
(* stands for it: no output depends on a word before a refill wrote it,     *)
(* except where a run shows that it does.                                   *)
IcacheInit ==
    /\ ic_state = "IDLE"
    /\ req_addr_reg = 0 /\ miss_addr_reg = 0 /\ miss_way_reg = 0
    /\ refill_cnt = 0 /\ refill_complete = FALSE
    /\ tag_array = [w \in Way |-> [s \in Set |-> 0]]
    /\ data_array = [w \in Way |-> [s \in Set |-> [b \in Beat |-> 0]]]
    /\ valid_array = [w \in Way |-> [s \in Set |-> FALSE]]
    /\ lru_bit = [s \in Set |-> 0]

(* State register, with the next-state logic. *)
IcacheState(flush, arvalid, rready, bus_arready, lastBeat) ==
    ic_state' =
        CASE flush                                               -> "IDLE"
          [] ~flush /\ ic_state = "IDLE"    /\ arvalid              -> "LOOKUP"
          [] ~flush /\ ic_state = "LOOKUP"  /\ cache_hit /\ rready  -> "IDLE"
          [] ~flush /\ ic_state = "LOOKUP"  /\ ~cache_hit           -> "MISS_AR"
          [] ~flush /\ ic_state = "MISS_AR" /\ bus_arready          -> "MISS_R"
          [] ~flush /\ ic_state = "MISS_R"  /\ lastBeat             -> "IDLE"
          [] OTHER                                               -> ic_state

(* Request and miss registers; they ignore flush. *)
IcacheRegs(araddr, arvalid, beat, last) ==
    /\ req_addr_reg' = IF ic_state = "IDLE" /\ arvalid THEN araddr ELSE req_addr_reg
    /\ IF ic_state = "LOOKUP" /\ ~cache_hit
       THEN /\ miss_addr_reg' = req_addr_reg
            /\ miss_way_reg' = lru_bit[Index(req_addr_reg)]
            /\ refill_cnt' = 0
       ELSE /\ UNCHANGED <<miss_addr_reg, miss_way_reg>>
            /\ refill_cnt' = IF beat /\ is_cacheable
                             THEN IF last THEN 0 ELSE (refill_cnt + 1) % LINE
                             ELSE refill_cnt
    /\ refill_complete' = (beat /\ last /\ is_cacheable)

(* The same branch calls npc_difftest_skip_ref, at every edge at which      *)
(* fence.i is in the IF/ID register: Npc's skip_ref reads this wire.        *)
icache_skip_ref(is_fence_i) == is_fence_i

(* fence.i: every line becomes invalid; a beat of this cycle is not stored. *)
IcacheInvalidate ==
    /\ valid_array' = [w \in Way |-> [s \in Set |-> FALSE]]
    /\ lru_bit' = [s \in Set |-> 0]
    /\ UNCHANGED <<tag_array, data_array>>

(* Fill of the missing line, beat by beat; tag, valid bit and LRU change    *)
(* with the last beat.  A hit only moves the LRU bit.                       *)
IcacheFill(rready, beat, last, rdata) ==
    LET fill == beat /\ is_cacheable
        done == fill /\ last
        set  == Index(miss_addr_reg)
        w    == miss_way_reg
    IN  /\ data_array' = IF fill
                         THEN [data_array EXCEPT ![w][set][refill_cnt] = rdata]
                         ELSE data_array
        /\ tag_array' = IF done THEN [tag_array EXCEPT ![w][set] = Tag(miss_addr_reg)]
                                ELSE tag_array
        /\ valid_array' = IF done THEN [valid_array EXCEPT ![w][set] = TRUE]
                                  ELSE valid_array
        /\ lru_bit' = CASE done -> [lru_bit EXCEPT ![set] = 1 - w]
                        [] ic_state = "LOOKUP" /\ cache_hit /\ rready
                             -> [lru_bit EXCEPT ![Index(req_addr_reg)] = 1 - hit_way]
                        [] OTHER -> lru_bit

IcacheClock(araddr, arvalid, rready, flush, is_fence_i, bus_arready, bus_rvalid, bus_rlast, bus_rdata) ==
    LET beat == icache_rready /\ bus_rvalid
    IN  /\ IcacheState(flush, arvalid, rready, bus_arready, beat /\ bus_rlast)
        /\ IcacheRegs(araddr, arvalid, beat, bus_rlast)
        /\ IF is_fence_i THEN IcacheInvalidate
                         ELSE IcacheFill(rready, beat, bus_rlast, bus_rdata)
=============================================================================
