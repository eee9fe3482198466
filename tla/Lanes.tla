------------------------------- MODULE Lanes -------------------------------
(***************************************************************************)
(* Byte lanes.  A load or store of one, two or four bytes goes through     *)
(* gen_wstrb, gen_wdata_aligned and sign_extend of the LSU                 *)
(* (npc/vsrc/backend/ysyx_25040131_lsu.sv) and npc_read, npc_write of the  *)
(* simulated SRAM (nemu/src/npc/npc.c); the reference executes Mr and Mw   *)
(* of NEMU on a memory of its own.  Npc models the timing of an access and *)
(* treats all of them as words, here an access is one step.                *)
(*                                                                         *)
(* A word is four bytes, byte 0 the lowest; a byte is 0 .. BYTE_MAX and    *)
(* its upper half has the sign bit set.                                    *)
(***************************************************************************)
EXTENDS Naturals, FiniteSets

CONSTANTS BYTE_MAX,     \* 255 in the code
          BYTES,        \* size of the memory, in whole words
          Misaligned    \* half-word accesses that may be at odd addresses:
                        \* "load", "store".  A word "must be 4-byte aligned".

VARIABLES mem, ref_mem,         \* the memories of the core and the reference
          loaded,               \* what a load just gave each of them
          st                    \* npc_difftest_commit_store of the last commit

laneVars == <<mem, ref_mem, loaded, st>>

Byte == 0 .. BYTE_MAX
Lane == 0 .. 3
Word == [Lane -> Byte]
Addr == 0 .. BYTES - 1
ZERO == [l \in Lane |-> 0]
NO_LOAD  == [read_data |-> ZERO, ref |-> ZERO]
NO_STORE == [waddr |-> 0, wdata |-> ZERO, wstrb |-> {}]

(* The strobes, as the set of lanes.  Bit 0 of the address of a half word   *)
(* and the low two bits of the address of a word are not looked at.         *)
Base(n, addr)      == (addr % 4) - (addr % n)
gen_wstrb(n, addr) == Base(n, addr) .. Base(n, addr) + n - 1

gen_wdata_aligned(n, addr, data) ==
    [l \in Lane |-> IF l \in gen_wstrb(n, addr) THEN data[l - Base(n, addr)] ELSE 0]

(* The n bytes of w from byte `first`, extended to a word. *)
Extend(w, first, n, signed) ==
    [l \in Lane |->
        IF l < n THEN w[first + l]
        ELSE IF signed /\ 2 * w[first + n - 1] > BYTE_MAX THEN BYTE_MAX ELSE 0]

(* A word is taken as it is; a half word at offset 3 is the upper half. *)
sign_extend(raw, n, signed, addr) ==
    LET off == addr % 4
    IN  Extend(raw, CASE n = 4             -> 0
                      [] n = 2 /\ off = 3  -> 2
                      [] OTHER             -> off, n, signed)

-----------------------------------------------------------------------------
(* host_write of len bytes, and the word at a word boundary. *)
host_write(memory, addr, len, data) ==
    [a \in Addr |-> IF a \in addr .. addr + len - 1 THEN data[a - addr] ELSE memory[a]]
npc_read(raddr) == [l \in Lane |-> mem[(raddr - (raddr % 4)) + l]]

(* Mutant: the data is not shifted back. *)
npc_write_NoShift(waddr, wdata, wmask) == host_write(mem, waddr, Cardinality(wmask), wdata)

(* The length is the number of strobes; the data is shifted back by the     *)
(* byte offset of the address.                                              *)
npc_write(waddr, wdata, wmask) ==
    LET offset == waddr % 4
        actual_data == [l \in Lane |-> IF l + offset < 4 THEN wdata[l + offset] ELSE 0]
    IN  host_write(mem, waddr, Cardinality(wmask), actual_data)

(* checkmems: the lanes the core wrote, against the reference's memory. *)
checkmems(waddr, wdata, wstrb) ==
    \A l \in wstrb : wdata[l] = ref_mem[(waddr - (waddr % 4)) + l]

(* Mr of the reference. *)
Mr(addr, n, signed) ==
    Extend([i \in 0 .. n - 1 |-> ref_mem[addr + i]], 0, n, signed)

LanesInit == /\ mem = [a \in Addr |-> 0] /\ ref_mem = mem
             /\ loaded = NO_LOAD /\ st = NO_STORE

Accesses(kind) == { a \in Addr \X {1, 2, 4} :
                      /\ a[1] + a[2] <= BYTES
                      /\ a[1] % a[2] = 0 \/ (a[2] = 2 /\ kind \in Misaligned) }

Store(addr, n, data) ==
    LET wdata == gen_wdata_aligned(n, addr, data)
        wstrb == gen_wstrb(n, addr)
    IN  /\ mem' = npc_write(addr, wdata, wstrb)
        /\ ref_mem' = host_write(ref_mem, addr, n, data)
        /\ st' = [waddr |-> addr, wdata |-> wdata, wstrb |-> wstrb]
        /\ loaded' = NO_LOAD

Load(addr, n, signed) ==
    /\ loaded' = [read_data |-> sign_extend(npc_read(addr), n, signed, addr),
                  ref |-> Mr(addr, n, signed)]
    /\ st' = NO_STORE
    /\ UNCHANGED <<mem, ref_mem>>

LanesNext == \/ \E a \in Accesses("store"), data \in Word : Store(a[1], a[2], data)
             \/ \E a \in Accesses("load"), signed \in BOOLEAN : Load(a[1], a[2], signed)
LanesSpec == LanesInit /\ [][LanesNext]_laneVars
-----------------------------------------------------------------------------
(* Whatever was stored at whatever offset, the core's memory is the         *)
(* reference's: no byte beside the stored ones changes.                     *)
StoresMatch == mem = ref_mem

(* A load gives the core the value it gives the reference: the bytes at the *)
(* address, extended with the right sign.                                   *)
LoadsMatch == loaded.read_data = loaded.ref

(* The differential test accepts every correct store: checkmems raises no   *)
(* false alarm about lanes the store did not write.                         *)
StoresPassCheck == checkmems(st.waddr, st.wdata, st.wstrb)

(* Together: an access does to the core what it does to the reference.     *)
AccessesMatch == StoresMatch /\ LoadsMatch /\ StoresPassCheck
=============================================================================
