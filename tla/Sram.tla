-------------------------------- MODULE Sram --------------------------------
(***************************************************************************)
(* The memory slave, npc/vsrc/npc_soc/ysyx_25040131_sram.sv: a read        *)
(* machine with bursts and a write machine, independent of each other, in  *)
(* front of the memory the simulator provides through the DPI calls        *)
(* npc_read and npc_write.                                                 *)
(*                                                                         *)
(* YSYX_SRAM_DELAY and its counters become a choice: a delay state is left *)
(* in any cycle.  That covers every value of the macro, and the memories   *)
(* behind the SoC's interconnect, whose latency is not fixed.              *)
(***************************************************************************)
EXTENDS Isa

VARIABLES
    mem,                \* the memory behind npc_read / npc_write
    sram_read,          \* AR, D, R
    read_base_addr, burst_len, beat_cnt, rdata_reg,
    sram_write,         \* AW, W, B
    aw_received, w_received, write_addr_reg, write_data_reg

sramReadVars  == <<sram_read, read_base_addr, burst_len, beat_cnt, rdata_reg>>
sramWriteVars == <<sram_write, aw_received, w_received, write_addr_reg,
                   write_data_reg, mem>>
sramVars      == <<sramReadVars, sramWriteVars>>

SramTypeOK ==
    /\ mem \in [Word -> Word]
    /\ sram_read \in {"AR", "D", "R"}
    /\ read_base_addr \in Word /\ burst_len \in Nat /\ beat_cnt \in Nat
    /\ rdata_reg \in Word
    /\ sram_write \in {"AW", "W", "B"}
    /\ aw_received \in BOOLEAN /\ w_received \in BOOLEAN
    /\ write_addr_reg \in Word /\ write_data_reg \in Word

sram_arready == sram_read = "AR"
sram_rvalid  == sram_read = "R"
sram_rlast   == sram_read = "R" /\ beat_cnt = burst_len
sram_awready == sram_write = "AW" /\ ~aw_received
sram_wready  == sram_write = "AW" /\ ~w_received
sram_bvalid  == sram_write = "B"

SramInit(image) ==
    /\ mem = image
    /\ sram_read = "AR" /\ read_base_addr = 0 /\ burst_len = 0 /\ beat_cnt = 0
    /\ rdata_reg = 0
    /\ sram_write = "AW" /\ aw_received = FALSE /\ w_received = FALSE
    /\ write_addr_reg = 0 /\ write_data_reg = 0

SramReadAddr(arvalid, araddr, arlen) ==
    /\ sram_read = "AR"
    /\ IF arvalid
       THEN /\ read_base_addr' = araddr /\ burst_len' = arlen
            /\ beat_cnt' = 0 /\ sram_read' = "D"
       ELSE UNCHANGED <<read_base_addr, burst_len, beat_cnt, sram_read>>
    /\ UNCHANGED rdata_reg

(* The word is read when the delay ends.  If the write machine calls         *)
(* npc_write at the same edge, the order of the two calls is not defined and *)
(* the read may see the memory before or after the write.                    *)
SramReadDelay ==
    /\ sram_read = "D"
    /\ \/ UNCHANGED sramReadVars
       \/ /\ LET a == Plus(read_base_addr, beat_cnt)
             IN  rdata_reg' \in {mem[a], mem'[a]}
          /\ sram_read' = "R"
          /\ UNCHANGED <<read_base_addr, burst_len, beat_cnt>>

SramReadBeat(rready) ==
    /\ sram_read = "R"
    /\ IF rready
       THEN IF beat_cnt = burst_len
            THEN sram_read' = "AR" /\ beat_cnt' = 0
            ELSE sram_read' = "D" /\ beat_cnt' = beat_cnt + 1
       ELSE UNCHANGED <<sram_read, beat_cnt>>
    /\ UNCHANGED <<read_base_addr, burst_len, rdata_reg>>

SramReadClock(arvalid, araddr, arlen, rready) ==
    \/ SramReadAddr(arvalid, araddr, arlen)
    \/ SramReadDelay
    \/ SramReadBeat(rready)

SramWriteAccept(awvalid, awaddr, wvalid, wdata) ==
    LET aw   == awvalid /\ ~aw_received
        w    == wvalid /\ ~w_received
        both == aw_received /\ w_received
    IN  /\ sram_write = "AW"
        /\ write_addr_reg' = IF aw THEN awaddr ELSE write_addr_reg
        /\ write_data_reg' = IF w THEN wdata ELSE write_data_reg
        /\ aw_received' = (~both /\ (aw_received \/ aw))
        /\ w_received' = (~both /\ (w_received \/ w))
        /\ sram_write' = IF both THEN "W" ELSE "AW"
        /\ UNCHANGED mem

SramWriteDelay ==
    /\ sram_write = "W"
    /\ \/ UNCHANGED sramWriteVars
       \/ /\ mem' = [mem EXCEPT ![write_addr_reg] = write_data_reg]
          /\ sram_write' = "B"
          /\ UNCHANGED <<aw_received, w_received, write_addr_reg, write_data_reg>>

SramWriteResp(bready) ==
    /\ sram_write = "B"
    /\ sram_write' = IF bready THEN "AW" ELSE "B"
    /\ aw_received' = (~bready /\ aw_received)
    /\ w_received' = (~bready /\ w_received)
    /\ UNCHANGED <<write_addr_reg, write_data_reg, mem>>

SramWriteClock(awvalid, awaddr, wvalid, wdata, bready) ==
    \/ SramWriteAccept(awvalid, awaddr, wvalid, wdata)
    \/ SramWriteDelay
    \/ SramWriteResp(bready)
=============================================================================
