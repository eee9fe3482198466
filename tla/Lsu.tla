-------------------------------- MODULE Lsu --------------------------------
(***************************************************************************)
(* The load/store unit, npc/vsrc/backend/ysyx_25040131_lsu.sv: a load      *)
(* machine and a store machine driven by the EX/MEM register, with no      *)
(* flush input.  LsuClock is one clock edge with reset low.                *)
(*                                                                         *)
(* lsu_arvalid, lsu_rready and lsu_bready change only with the state       *)
(* registers and are state functions here.  Loads and stores are of whole  *)
(* words.  access_fault and exc_valid are left out: the response code is   *)
(* always OKAY, and the assignments that would raise exc_valid are         *)
(* commented out in the source.                                            *)
(***************************************************************************)
EXTENDS Isa

VARIABLES
    lsu_load,       \* LOAD_IDLE, LOAD_ADDR, LOAD_DATA, LOAD_DONE
    lsu_store,      \* STORE_IDLE, STORE_SYNC, STORE_RESP, STORE_DONE
    lsu_araddr, lsu_awaddr, lsu_wdata,
    read_data,      \* the word loaded last
    lsu_awvalid, lsu_wvalid,
    aw_done, w_done

lsuVars == <<lsu_load, lsu_store, lsu_araddr, lsu_awaddr, lsu_wdata, read_data,
             lsu_awvalid, lsu_wvalid, aw_done, w_done>>

LsuTypeOK ==
    /\ lsu_load \in {"LOAD_IDLE", "LOAD_ADDR", "LOAD_DATA", "LOAD_DONE"}
    /\ lsu_store \in {"STORE_IDLE", "STORE_SYNC", "STORE_RESP", "STORE_DONE"}
    /\ lsu_araddr \in Word /\ lsu_awaddr \in Word
    /\ lsu_wdata \in Word /\ read_data \in Word
    /\ lsu_awvalid \in BOOLEAN /\ lsu_wvalid \in BOOLEAN
    /\ aw_done \in BOOLEAN /\ w_done \in BOOLEAN

lsu_arvalid == lsu_load = "LOAD_ADDR"
lsu_rready  == lsu_load = "LOAD_DATA"
lsu_bready  == lsu_store = "STORE_RESP"

LsuInit ==
    /\ lsu_load = "LOAD_IDLE" /\ lsu_store = "STORE_IDLE"
    /\ lsu_araddr = 0 /\ lsu_awaddr = 0 /\ lsu_wdata = 0 /\ read_data = 0
    /\ lsu_awvalid = FALSE /\ lsu_wvalid = FALSE
    /\ aw_done = FALSE /\ w_done = FALSE

(* out_valid: at once for an instruction that does not access memory, else  *)
(* when its machine is done.                                                *)
mem_valid(prev_valid, next_ready, isLoad, isStore) ==
    \/ /\ lsu_load = "LOAD_IDLE" /\ lsu_store = "STORE_IDLE"
       /\ prev_valid /\ next_ready /\ ~isLoad /\ ~isStore
    \/ lsu_load = "LOAD_DONE"
    \/ lsu_store = "STORE_DONE"

LsuLoadClock(start, addr, arready, rvalid, rdata, leave) ==
    /\ lsu_load' = CASE lsu_load = "LOAD_IDLE" /\ start   -> "LOAD_ADDR"
                     [] lsu_load = "LOAD_ADDR" /\ arready -> "LOAD_DATA"
                     [] lsu_load = "LOAD_DATA" /\ rvalid  -> "LOAD_DONE"
                     [] lsu_load = "LOAD_DONE" /\ leave   -> "LOAD_IDLE"
                     [] OTHER                             -> lsu_load
    /\ lsu_araddr' = CASE lsu_load = "LOAD_IDLE" /\ start   -> addr
                       [] lsu_load = "LOAD_ADDR" /\ arready -> 0
                       [] OTHER                             -> lsu_araddr
    /\ read_data' = IF lsu_load = "LOAD_DATA" /\ rvalid THEN rdata ELSE read_data

(* STORE_SYNC: address and data are offered together; a channel accepted in *)
(* this very cycle counts without passing through aw_done / w_done.         *)
LsuStoreSync(awready, wready) ==
    LET both == (aw_done \/ awready) /\ (w_done \/ wready)
    IN  /\ lsu_store = "STORE_SYNC"
        /\ lsu_awvalid' = (lsu_awvalid /\ ~awready)
        /\ lsu_wvalid' = (lsu_wvalid /\ ~wready)
        /\ aw_done' = (~both /\ (aw_done \/ (lsu_awvalid /\ awready)))
        /\ w_done' = (~both /\ (w_done \/ (lsu_wvalid /\ wready)))
        /\ lsu_store' = IF both THEN "STORE_RESP" ELSE "STORE_SYNC"
        /\ UNCHANGED <<lsu_awaddr, lsu_wdata>>

LsuStoreStart(start, addr, data) ==
    /\ lsu_store = "STORE_IDLE"
    /\ IF start
       THEN /\ lsu_store' = "STORE_SYNC"
            /\ lsu_awaddr' = addr /\ lsu_wdata' = data
            /\ lsu_awvalid' = TRUE /\ lsu_wvalid' = TRUE
       ELSE UNCHANGED <<lsu_store, lsu_awaddr, lsu_wdata, lsu_awvalid, lsu_wvalid>>
    /\ UNCHANGED <<aw_done, w_done>>

(* Mutant: the store machine skips STORE_DONE. *)
LsuStoreFinish_NoDone(bvalid, leave) ==
    /\ lsu_store \in {"STORE_RESP", "STORE_DONE"}
    /\ lsu_store' = IF bvalid THEN "STORE_IDLE" ELSE lsu_store
    /\ UNCHANGED <<lsu_awaddr, lsu_wdata, lsu_awvalid, lsu_wvalid, aw_done, w_done>>

LsuStoreFinish(bvalid, leave) ==
    /\ lsu_store \in {"STORE_RESP", "STORE_DONE"}
    /\ lsu_store' = CASE lsu_store = "STORE_RESP" /\ bvalid -> "STORE_DONE"
                      [] lsu_store = "STORE_DONE" /\ leave  -> "STORE_IDLE"
                      [] OTHER                              -> lsu_store
    /\ UNCHANGED <<lsu_awaddr, lsu_wdata, lsu_awvalid, lsu_wvalid, aw_done, w_done>>

LsuClock(prev_valid, next_ready, isLoad, isStore, addr, data, arready, rvalid, rdata, awready, wready, bvalid) ==
    LET leave == mem_valid(prev_valid, next_ready, isLoad, isStore) /\ next_ready
        start == prev_valid /\ next_ready
    IN  /\ LsuLoadClock(start /\ isLoad, addr, arready, rvalid, rdata, leave)
        /\ \/ LsuStoreStart(start /\ isStore, addr, data)
           \/ LsuStoreSync(awready, wready)
           \/ LsuStoreFinish(bvalid, leave)
=============================================================================
