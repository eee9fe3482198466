------------------------------- MODULE Itrace -------------------------------
(***************************************************************************)
(* NEMU's two records of the executed instructions: the ring buffer shown  *)
(* when a program aborts (nemu/src/utils/trace.c) and the run-length       *)
(* encoded binary trace written for the cache simulator (utils/log.c).     *)
(* `executed` is a history variable: the pc of every instruction so far.   *)
(***************************************************************************)
EXTENDS Integers, Sequences

CONSTANTS ITRACE_BUF_SIZE,      \* 50 in the code
          PcSpace,              \* bytes of address space, 2^32 in the code
          Targets,              \* addresses jumps may go to
          MaxInst               \* bound on the instructions executed

ASSUME ItraceAssumption == /\ ITRACE_BUF_SIZE \in Nat \ {0}
                           /\ PcSpace \in Nat \ {0} /\ PcSpace % 4 = 0
                           /\ Targets \subseteq 0 .. PcSpace - 1
                           /\ MaxInst \in Nat

VARIABLES executed,
          entries, ring_head, count,         \* itrace_buf
          file, open,                   \* itrace_bin_fp: nodes written, not yet closed
          cur_node, last_pc

ringVars == <<entries, ring_head, count>>
binVars  == <<file, open, cur_node, last_pc>>
vars     == <<executed, ringVars, binVars>>

Pc     == 0 .. PcSpace - 1
Index  == 0 .. ITRACE_BUF_SIZE - 1
Node   == [start_pc : Pc, count : 0 .. MaxInst]

Init == /\ executed = <<>>
        /\ entries = [i \in Index |-> 0] /\ ring_head = 0 /\ count = 0
        /\ file = <<>> /\ open = TRUE
        /\ cur_node = [start_pc |-> 0, count |-> 0] /\ last_pc = 0

(* Once the buffer is full the newest entry is overwritten over and over.  *)
itrace_record_NoWrap(pc) ==
    /\ entries' = [entries EXCEPT ![ring_head] = pc]
    /\ ring_head' = IF ring_head = ITRACE_BUF_SIZE - 1 THEN ring_head ELSE ring_head + 1
    /\ count' = IF count < ITRACE_BUF_SIZE THEN count + 1 ELSE count

itrace_record(pc) ==
    /\ entries' = [entries EXCEPT ![ring_head] = pc]
    /\ ring_head' = (ring_head + 1) % ITRACE_BUF_SIZE
    /\ count' = IF count < ITRACE_BUF_SIZE THEN count + 1 ELSE count

(* itrace_display_history and itrace_write_into_log: newest first.         *)
itrace_display_history(num) ==
    [i \in 1 .. (IF num > count THEN count ELSE num) |->
        entries[(ring_head - i + ITRACE_BUF_SIZE) % ITRACE_BUF_SIZE]]

itrace_bin_record(pc) ==
    /\ IF cur_node.count = 0 \/ pc # (last_pc + 4) % PcSpace
       THEN /\ file' = IF cur_node.count > 0 THEN Append(file, cur_node) ELSE file
            /\ cur_node' = [start_pc |-> pc, count |-> 1]
       ELSE /\ cur_node' = [cur_node EXCEPT !.count = @ + 1]
            /\ UNCHANGED file
    /\ last_pc' = pc
    /\ UNCHANGED open

(* exec_once: the binary trace first, the ring after the instruction.      *)
exec_once ==
    /\ open /\ Len(executed) < MaxInst
    /\ \E pc \in Targets \cup {(last_pc + 4) % PcSpace} :
          /\ executed' = Append(executed, pc)
          /\ itrace_bin_record(pc)
          /\ itrace_record(pc)

finalize_itrace_bin ==
    /\ open
    /\ file' = IF cur_node.count > 0 THEN Append(file, cur_node) ELSE file
    /\ open' = FALSE
    /\ UNCHANGED <<executed, ringVars, cur_node, last_pc>>

Next == exec_once \/ finalize_itrace_bin
Spec == Init /\ [][Next]_vars
-----------------------------------------------------------------------------
TypeOK == /\ executed \in Seq(Pc)
          /\ entries \in [Index -> Pc] /\ ring_head \in Index /\ count \in 0 .. ITRACE_BUF_SIZE
          /\ file \in Seq(Node) /\ open \in BOOLEAN
          /\ cur_node \in Node /\ last_pc \in Pc

(* However the ring has wrapped, asking for num instructions shows the     *)
(* last num executed, newest first, or all there are when the ring holds   *)
(* fewer; never a stale entry of an earlier lap.                           *)
RingShowsNewest ==
    \A num \in 1 .. ITRACE_BUF_SIZE + 1 :
        LET shown == itrace_display_history(num)
            n     == Len(executed)
        IN  /\ \A k \in 1 .. num : k <= n /\ k <= ITRACE_BUF_SIZE => k \in DOMAIN shown
            /\ \A k \in DOMAIN shown : k <= n /\ shown[k] = executed[n + 1 - k]
=============================================================================
