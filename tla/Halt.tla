-------------------------------- MODULE Halt --------------------------------
(***************************************************************************)
(* What a program run on npc comes to: its end, its exit status, and what  *)
(* it prints.  The decoder (npc/vsrc/frontend/ysyx_25040131_id.sv) calls   *)
(* npc_exu_ebreak (nemu/src/npc/npc.c) when the word of ebreak shows in    *)
(* the IF/ID register: the state becomes NEMU_END, halt_ret is what        *)
(* register a0 holds in that cycle, and execute stops clocking the core.   *)
(***************************************************************************)
EXTENDS Npc

CONSTANTS EBREAK,       \* the instruction word of ebreak, 0x00100073
          A0            \* register a0, x10 in the code

ASSUME HaltAssumption == EBREAK \in Word \ {0} /\ A0 \in Reg

VARIABLES ended, halt_ret,
          sent,         \* history: the words that committed stores sent to the UART
          fenced        \* history: fence.i was in IF/ID at an edge since the last commit

haltVars == <<vars, ended, halt_ret, sent, fenced>>

HaltInit == Init /\ ended = FALSE /\ halt_ret = 0 /\ sent = <<>> /\ fenced = FALSE

(* Mutant: ebreak ends the simulation while it is being fetched. *)
id_ebreak_Early == inst_reg' = EBREAK

(* The combinational block of the decoder, after the clock edge. *)
id_ebreak == if_id_out'.inst = EBREAK

npc_exu_ebreak == ended' = TRUE /\ halt_ret' = regs'[A0]

(* The words sent, with that of a store to the UART that is in WB. *)
Sent == IF mem_wb_valid /\ Ins(ref).op = "sw" /\ Address(ref) \in UartAddr
        THEN Append(sent, ref.regs[Ins(ref).rs2]) ELSE sent

(* With this edge: fence.i asks for a skip at every edge it is in IF/ID. *)
Fenced == fenced \/ is_fence_i

Clock == /\ ~ended /\ Next
         /\ sent' = Sent
         /\ fenced' = (Fenced /\ ~mem_wb_valid)
         /\ IF id_ebreak THEN npc_exu_ebreak ELSE UNCHANGED <<ended, halt_ret>>

(* execute does not clock the core again. *)
Ended == ended /\ UNCHANGED haltVars

HaltNext == Clock \/ Ended

HaltSpec == HaltInit /\ [][HaltNext]_haltVars
-----------------------------------------------------------------------------
(* The machines that the reference may be after k more instructions: what   *)
(* devices will answer is open, but for a load in WB, which has its word.   *)
(* At most three older ones are in the pipeline with one in decode.         *)
Then(S, answers) == { Step(s, v) : s \in S, v \in answers }
Ahead(k) ==
    LET one == Then({ref}, IF mem_wb_valid THEN {mem_wb_out.mem_rdata} ELSE Word)
        two == Then(one, Word)
    IN  CASE k = 0 -> {ref} [] k = 1 -> one [] k = 2 -> two [] OTHER -> Then(two, Word)

(* The program ends where and as it ends on NEMU (NEMUTRAP(s->pc, R(10))):  *)
(* at the first ebreak that it comes to, never at one that was fetched      *)
(* behind a trap or on a mispredicted path, and with the exit status in a0  *)
(* as the program left it, which no older instruction has still to write.   *)
AtEbreak(s) == s.mem[s.pc] = EBREAK
EndsAsReference ==
    ended => \E k \in 0 .. 3 :
        /\ \A j \in 0 .. k - 1 : \A s \in Ahead(j) : ~AtEbreak(s)
        /\ \A s \in Ahead(k) : AtEbreak(s) /\ s.pc = if_id_out.pc /\ s.regs[A0] = halt_ret

(* The request to skip a comparison is one flag: an access raises it when   *)
(* it appears on the bus, fence.i while it is in IF/ID, and the next commit *)
(* takes it.  That commit is always the access itself, never one before or  *)
(* behind it, or the one that fence.i hides: the older instruction that     *)
(* commits while fence.i is in decode, fence.i itself, and the instruction  *)
(* behind it, for until its word arrives IF/ID still shows fence.i.  Every  *)
(* other commit is compared.                                                *)
SkipsItsOwnAccess == mem_wb_valid => (skip_ref <=> Device(ref) \/ Fenced)

(* Between stores the UART has printed the words of the committed stores to *)
(* it, each once and in the order of the program: the handshakes of LSU,    *)
(* bus, crossbar and UART lose, repeat and reorder nothing.                 *)
UartPrintsEachStoreOnce == lsu_store = "STORE_IDLE" => uart_out = Sent
=============================================================================
