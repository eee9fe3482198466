-------------------------------- MODULE Bus --------------------------------
(***************************************************************************)
(* The bus arbiter, npc/vsrc/bus/ysyx_25040131_bus.sv: one read machine    *)
(* shared by the instruction cache (the "IFU" port) and the LSU, and one   *)
(* write machine for the LSU.  BusReadClock and BusWriteClock are the two  *)
(* always blocks; a clock edge takes a step of both.                       *)
(*                                                                         *)
(* io_master_arvalid, io_master_rready, io_master_bready and lsu_rvalid    *)
(* change only with the state registers and are state functions here.      *)
(* Byte strobes, transaction ids and the response codes are left out: the  *)
(* ids are constant, and every slave that answers at all answers OKAY.     *)
(***************************************************************************)
EXTENDS Isa

CONSTANTS
    Clint,          \* addresses of the RTC registers, served by the CLINT
    PowerUpBvalid   \* values lsu_bvalid_reg may hold when reset ends

ASSUME ClintAssumption == Clint \subseteq Word
ASSUME PowerUpAssumption == PowerUpBvalid \in SUBSET BOOLEAN /\ PowerUpBvalid # {}

VARIABLES
    state_load,     \* read machine
    araddr_reg, arlen_reg,
    lsu_rdata_reg,
    state_store,    \* write machine
    awaddr_reg, wdata_reg, awvalid_reg, wvalid_reg,
    lsu_aw_done, lsu_w_done,        \* accepted from the LSU
    slave_aw_done, slave_w_done,    \* accepted by the slave
    lsu_bvalid_reg

busReadVars  == <<state_load, araddr_reg, arlen_reg, lsu_rdata_reg>>
busWriteVars == <<state_store, awaddr_reg, wdata_reg, awvalid_reg, wvalid_reg,
                  lsu_aw_done, lsu_w_done, slave_aw_done, slave_w_done,
                  lsu_bvalid_reg>>

BusTypeOK ==
    /\ state_load \in {"BUS_IDLE", "IFU_REQ_AR", "IFU_WAIT_R",
                       "LSU_REQ_AR", "LSU_WAIT_R", "LSU_DONE"}
    /\ araddr_reg \in Word /\ arlen_reg \in Nat /\ lsu_rdata_reg \in Word
    /\ state_store \in {"WRITE_IDLE", "SYNC", "WRITE_B", "WRITE_DONE"}
    /\ awaddr_reg \in Word /\ wdata_reg \in Word
    /\ awvalid_reg \in BOOLEAN /\ wvalid_reg \in BOOLEAN
    /\ lsu_aw_done \in BOOLEAN /\ lsu_w_done \in BOOLEAN
    /\ slave_aw_done \in BOOLEAN /\ slave_w_done \in BOOLEAN
    /\ lsu_bvalid_reg \in BOOLEAN

bus_read_idle  == state_load = "BUS_IDLE"
bus_write_idle == state_store = "WRITE_IDLE"

(* Mutants: a request is taken as accepted while another read is running. *)
lsu_arready_Busy           == bus_write_idle
icache_arready_Busy(lsuAr) == bus_write_idle /\ ~lsuAr

(* Ready wires: an LSU read goes before an instruction read, and a write    *)
(* before neither.                                                          *)
lsu_arready               == bus_read_idle /\ bus_write_idle
icache_arready(lsuAr)     == bus_read_idle /\ bus_write_idle /\ ~lsuAr
lsu_wready(lsuAr, ifuAr)  == /\ bus_write_idle /\ bus_read_idle
                             /\ ~(lsuAr \/ ifuAr)

m_arvalid  == state_load \in {"IFU_REQ_AR", "LSU_REQ_AR"}
m_rready   == state_load \in {"IFU_WAIT_R", "LSU_WAIT_R"}
m_bready   == state_store = "WRITE_B"
lsu_rvalid == state_load = "LSU_DONE"

(* ifu_rvalid_reg is never set, so the port is valid only in IFU_WAIT_R. *)
icache_rvalid(m_rvalid) == state_load = "IFU_WAIT_R" /\ m_rvalid

(* lsu_bvalid_reg is missing from the reset list of the write machine. *)
BusInit ==
    /\ state_load = "BUS_IDLE"
    /\ araddr_reg = 0 /\ arlen_reg = 0 /\ lsu_rdata_reg = 0
    /\ state_store = "WRITE_IDLE"
    /\ awaddr_reg = 0 /\ wdata_reg = 0
    /\ awvalid_reg = FALSE /\ wvalid_reg = FALSE
    /\ lsu_aw_done = FALSE /\ lsu_w_done = FALSE
    /\ slave_aw_done = FALSE /\ slave_w_done = FALSE
    /\ lsu_bvalid_reg \in PowerUpBvalid

-----------------------------------------------------------------------------
(* Read machine. *)

(* BUS_IDLE: the LSU first, then the cache. *)
BusAcceptLsuRead(lsuAr, lsuAddr, clint_rdata) ==
    /\ bus_read_idle /\ bus_write_idle /\ lsuAr
    /\ IF lsuAddr \in Clint
       THEN /\ lsu_rdata_reg' = clint_rdata
            /\ state_load' = "LSU_DONE"
            /\ UNCHANGED <<araddr_reg, arlen_reg>>
       ELSE /\ araddr_reg' = lsuAddr
            /\ arlen_reg' = 0
            /\ state_load' = "LSU_REQ_AR"
            /\ UNCHANGED lsu_rdata_reg

BusAcceptIfuRead(lsuAr, ifuAr, ifuAddr, ifuLen) ==
    /\ bus_read_idle /\ bus_write_idle /\ ~lsuAr /\ ifuAr
    /\ araddr_reg' = ifuAddr
    /\ arlen_reg' = ifuLen
    /\ state_load' = "IFU_REQ_AR"
    /\ UNCHANGED lsu_rdata_reg

BusReadStaysIdle(lsuAr, ifuAr) ==
    /\ bus_read_idle
    /\ ~(bus_write_idle /\ (lsuAr \/ ifuAr))
    /\ UNCHANGED busReadVars

BusReqAr(m_arready) ==
    /\ m_arvalid
    /\ state_load' = CASE m_arready /\ state_load = "IFU_REQ_AR" -> "IFU_WAIT_R"
                       [] m_arready /\ state_load = "LSU_REQ_AR" -> "LSU_WAIT_R"
                       [] OTHER                                  -> state_load
    /\ UNCHANGED <<araddr_reg, arlen_reg, lsu_rdata_reg>>

(* The beats of an instruction read pass straight through to the cache; the *)
(* bus accepts them whether the cache still wants them or not.              *)
BusIfuWaitR(m_rvalid, m_rlast) ==
    /\ state_load = "IFU_WAIT_R"
    /\ state_load' = IF m_rvalid /\ m_rlast THEN "BUS_IDLE" ELSE "IFU_WAIT_R"
    /\ UNCHANGED <<araddr_reg, arlen_reg, lsu_rdata_reg>>

BusLsuWaitR(m_rvalid, m_rdata) ==
    /\ state_load = "LSU_WAIT_R"
    /\ state_load' = IF m_rvalid THEN "LSU_DONE" ELSE "LSU_WAIT_R"
    /\ lsu_rdata_reg' = IF m_rvalid THEN m_rdata ELSE lsu_rdata_reg
    /\ UNCHANGED <<araddr_reg, arlen_reg>>

BusLsuDone(lsuRready) ==
    /\ state_load = "LSU_DONE"
    /\ state_load' = IF lsuRready THEN "BUS_IDLE" ELSE "LSU_DONE"
    /\ UNCHANGED <<araddr_reg, arlen_reg, lsu_rdata_reg>>

BusReadClock(lsuAr, lsuAddr, lsuRready, ifuAr, ifuAddr, ifuLen, m_arready, m_rvalid, m_rlast, m_rdata, clint_rdata) ==
    \/ BusAcceptLsuRead(lsuAr, lsuAddr, clint_rdata)
    \/ BusAcceptIfuRead(lsuAr, ifuAr, ifuAddr, ifuLen)
    \/ BusReadStaysIdle(lsuAr, ifuAr)
    \/ BusReqAr(m_arready)
    \/ BusIfuWaitR(m_rvalid, m_rlast)
    \/ BusLsuWaitR(m_rvalid, m_rdata)
    \/ BusLsuDone(lsuRready)

-----------------------------------------------------------------------------
(* Write machine. *)

(* WRITE_IDLE: address and data are accepted, together or one by one; the   *)
(* state moves on one cycle after both are in.                              *)
BusWriteAccept(ready, lsuAw, lsuAwaddr, lsuW, lsuWdata) ==
    LET both == lsu_aw_done /\ lsu_w_done
    IN  /\ bus_write_idle
        /\ awaddr_reg' = IF lsuAw /\ ready THEN lsuAwaddr ELSE awaddr_reg
        /\ wdata_reg' = IF lsuW /\ ready THEN lsuWdata ELSE wdata_reg
        /\ lsu_aw_done' = (~both /\ (lsu_aw_done \/ (lsuAw /\ ready)))
        /\ lsu_w_done' = (~both /\ (lsu_w_done \/ (lsuW /\ ready)))
        /\ awvalid_reg' = (awvalid_reg \/ both)
        /\ wvalid_reg' = (wvalid_reg \/ both)
        /\ state_store' = IF both THEN "SYNC" ELSE "WRITE_IDLE"
        /\ UNCHANGED <<slave_aw_done, slave_w_done, lsu_bvalid_reg>>

BusSync(m_awready, m_wready) ==
    LET both == slave_aw_done /\ slave_w_done
        aw   == awvalid_reg /\ m_awready
        w    == wvalid_reg /\ m_wready
    IN  /\ state_store = "SYNC"
        /\ awvalid_reg' = (awvalid_reg /\ ~aw)
        /\ wvalid_reg' = (wvalid_reg /\ ~w)
        /\ slave_aw_done' = (~both /\ (slave_aw_done \/ aw))
        /\ slave_w_done' = (~both /\ (slave_w_done \/ w))
        /\ state_store' = IF both THEN "WRITE_B" ELSE "SYNC"
        /\ UNCHANGED <<awaddr_reg, wdata_reg, lsu_aw_done, lsu_w_done, lsu_bvalid_reg>>

BusWriteB(m_bvalid) ==
    /\ state_store = "WRITE_B"
    /\ state_store' = IF m_bvalid THEN "WRITE_DONE" ELSE "WRITE_B"
    /\ lsu_bvalid_reg' = (lsu_bvalid_reg \/ m_bvalid)
    /\ UNCHANGED <<awaddr_reg, wdata_reg, awvalid_reg, wvalid_reg,
                   lsu_aw_done, lsu_w_done, slave_aw_done, slave_w_done>>

BusWriteDone(lsuBready) ==
    /\ state_store = "WRITE_DONE"
    /\ state_store' = IF lsu_bvalid_reg /\ lsuBready THEN "WRITE_IDLE" ELSE "WRITE_DONE"
    /\ lsu_bvalid_reg' = (lsu_bvalid_reg /\ ~lsuBready)
    /\ UNCHANGED <<awaddr_reg, wdata_reg, awvalid_reg, wvalid_reg,
                   lsu_aw_done, lsu_w_done, slave_aw_done, slave_w_done>>

BusWriteClock(ready, lsuAw, lsuAwaddr, lsuW, lsuWdata, lsuBready, m_awready, m_wready, m_bvalid) ==
    \/ BusWriteAccept(ready, lsuAw, lsuAwaddr, lsuW, lsuWdata)
    \/ BusSync(m_awready, m_wready)
    \/ BusWriteB(m_bvalid)
    \/ BusWriteDone(lsuBready)
=============================================================================
