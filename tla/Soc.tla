-------------------------------- MODULE Soc --------------------------------
(***************************************************************************)
(* What the core's bus talks to: the crossbar of                           *)
(* npc_soc/ysyx_25040131_xbar.sv with its two slaves, the SRAM and the     *)
(* UART of npc_soc/ysyx_25040131_uart.sv.  The crossbar has no state that  *)
(* its routing depends on; it decodes the address the master shows now.    *)
(***************************************************************************)
EXTENDS Sram, Sequences

CONSTANTS
    SramAddr,   \* addresses decoded as SRAM
    UartAddr    \* addresses decoded as UART

ASSUME MapAssumption == /\ SramAddr \subseteq Word /\ UartAddr \subseteq Word
                        /\ SramAddr \cap UartAddr = {}

VARIABLES
    uart_read,      \* AR_IDLE, AR_READY, R_VALID
    uart_write,     \* AW_IDLE, AW_READY, W_READY, B_VALID
    uart_wready,    \* s_axi_wready
    uart_out        \* the characters $write has printed

uartVars == <<uart_read, uart_write, uart_wready, uart_out>>

SocTypeOK == /\ SramTypeOK
             /\ uart_read \in {"AR_IDLE", "AR_READY", "R_VALID"}
             /\ uart_write \in {"AW_IDLE", "AW_READY", "W_READY", "B_VALID"}
             /\ uart_wready \in BOOLEAN
             /\ uart_out \in Seq(Word)

SocInit(image) == /\ SramInit(image)
                  /\ uart_read = "AR_IDLE" /\ uart_write = "AW_IDLE"
                  /\ uart_wready = FALSE /\ uart_out = <<>>

(* Crossbar: an address no slave owns is never ready and never valid. *)
m_arready(araddr) == \/ araddr \in SramAddr /\ sram_arready
                     \/ araddr \in UartAddr /\ uart_read = "AR_READY"
m_rvalid(araddr)  == \/ araddr \in SramAddr /\ sram_rvalid
                     \/ araddr \in UartAddr /\ uart_read = "R_VALID"
m_rlast(araddr)   == IF araddr \in SramAddr THEN sram_rlast ELSE m_rvalid(araddr)
m_rdata(araddr)   == IF araddr \in SramAddr THEN rdata_reg ELSE 0
m_awready(awaddr) == \/ awaddr \in SramAddr /\ sram_awready
                     \/ awaddr \in UartAddr /\ uart_write = "AW_READY"
m_wready(awaddr)  == \/ awaddr \in SramAddr /\ sram_wready
                     \/ awaddr \in UartAddr /\ uart_wready
m_bvalid(awaddr)  == \/ awaddr \in SramAddr /\ sram_bvalid
                     \/ awaddr \in UartAddr /\ uart_write = "B_VALID"

(* UART: one transaction at a time; reads give 0, a write prints. *)
UartReadClock(arvalid, rready) ==
    uart_read' = CASE uart_read = "AR_IDLE"  /\ arvalid -> "AR_READY"
                   [] uart_read = "AR_READY" /\ arvalid -> "R_VALID"
                   [] uart_read = "R_VALID"  /\ rready  -> "AR_IDLE"
                   [] OTHER                             -> uart_read

UartWriteClock(awvalid, wvalid, wdata, bready) ==
    LET print == uart_write = "W_READY" /\ wvalid /\ uart_wready
    IN  /\ uart_write' = CASE uart_write = "AW_IDLE"  /\ awvalid -> "AW_READY"
                           [] uart_write = "AW_READY" /\ awvalid -> "W_READY"
                           [] print                              -> "B_VALID"
                           [] uart_write = "B_VALID"  /\ bready  -> "AW_IDLE"
                           [] OTHER                              -> uart_write
        /\ uart_wready' = IF uart_write = "W_READY" /\ wvalid
                          THEN ~uart_wready ELSE uart_wready
        /\ uart_out' = IF print THEN Append(uart_out, wdata) ELSE uart_out

SocReadClock(arvalid, araddr, arlen, rready) ==
    /\ SramReadClock(arvalid /\ araddr \in SramAddr, araddr, arlen,
                     rready /\ araddr \in SramAddr)
    /\ UartReadClock(arvalid /\ araddr \in UartAddr, rready /\ araddr \in UartAddr)

SocWriteClock(awvalid, awaddr, wvalid, wdata, bready) ==
    /\ SramWriteClock(awvalid /\ awaddr \in SramAddr, awaddr,
                      wvalid /\ awaddr \in SramAddr, wdata,
                      bready /\ awaddr \in SramAddr)
    /\ UartWriteClock(awvalid /\ awaddr \in UartAddr, wvalid /\ awaddr \in UartAddr,
                      wdata, bready /\ awaddr \in UartAddr)
=============================================================================
