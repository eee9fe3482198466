-------------------------------- MODULE Btb --------------------------------
(***************************************************************************)
(* The branch target buffer, npc/vsrc/frontend/ysyx_25040131_btb.sv: a     *)
(* direct-mapped table with 2-bit saturating counters, read with the       *)
(* fetch pc and written when a branch leaves EX.  tag_arr and tgt_arr have *)
(* no reset; an entry is used only after valid_arr is set with them.       *)
(***************************************************************************)
EXTENDS Isa

CONSTANT BTB_ENTRIES    \* ENTRIES, 64 in the code

ASSUME BtbAssumption == BTB_ENTRIES \in Nat \ {0}

VARIABLE btb    \* entry -> valid_arr, tag_arr, tgt_arr, cnt_arr

BtbIdx   == 0 .. BTB_ENTRIES - 1
BtbEntry == [valid : BOOLEAN, tag : Nat, tgt : Word, cnt : 0 .. 3]
BtbTypeOK == btb \in [BtbIdx -> BtbEntry]

Idx(pc)    == pc % BTB_ENTRIES
BtbTag(pc) == pc \div BTB_ENTRIES

BtbInit == btb = [e \in BtbIdx |-> [valid |-> FALSE, tag |-> 0, tgt |-> 0, cnt |-> 1]]

TagMatch(pc)   == btb[Idx(pc)].valid /\ btb[Idx(pc)].tag = BtbTag(pc)
btb_hit(pc)    == TagMatch(pc) /\ btb[Idx(pc)].cnt >= 2
btb_target(pc) == btb[Idx(pc)].tgt

(* Mutant: the counter does not saturate at 3. *)
Saturate_NoTop(cnt, taken) == IF taken THEN cnt + 1
                                       ELSE (IF cnt = 0 THEN 0 ELSE cnt - 1)
Saturate(cnt, taken) == IF taken THEN (IF cnt = 3 THEN 3 ELSE cnt + 1)
                                 ELSE (IF cnt = 0 THEN 0 ELSE cnt - 1)

(* A known branch trains its counter; only a taken one is installed. *)
BtbUpdate(pc, target, taken) ==
    btb' = CASE TagMatch(pc) ->
                  [btb EXCEPT ![Idx(pc)].cnt = Saturate(@, taken),
                              ![Idx(pc)].tgt = IF taken THEN target ELSE @]
             [] ~TagMatch(pc) /\ taken ->
                  [btb EXCEPT ![Idx(pc)] = [valid |-> TRUE, tag |-> BtbTag(pc),
                                            tgt |-> target, cnt |-> 2]]
             [] OTHER -> btb

BtbClock(ex_update_en, pc, target, taken) ==
    IF ex_update_en THEN BtbUpdate(pc, target, taken) ELSE UNCHANGED btb
=============================================================================
