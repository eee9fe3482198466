-------------------------------- MODULE Ps2 --------------------------------
(***************************************************************************)
(* The keyboard of AM on ysyxSoC (abstract-machine/am/src/riscv/ysyxsoc/   *)
(* input.c).  A PS/2 keyboard sends a key as one to three bytes: E0 before *)
(* the code of an extended key, F0 before the code of a key that is        *)
(* released.  They arrive one by one in the controller's queue, which      *)
(* inb(PS2) reads; an empty queue reads as 0.  The program polls at any    *)
(* time, between two bytes of a key too.  Keyboard and controller are      *)
(* external, as the code uses them.                                        *)
(***************************************************************************)
EXTENDS Naturals, Sequences

CONSTANTS KeyCodes,     \* codes of keys, the same ones with and without E0
          MaxTyped      \* bound on the number of keys pressed and released

VARIABLES wire,         \* bytes on their way
          queue,        \* bytes that inb(PS2) will return
          typed, got,   \* history: keys sent and keys reported, oldest first
          lost          \* history: <<i, prefix>> of the i-th key, read before its code

ps2Vars == <<wire, queue, typed, got, lost>>

NONE  == "none"         \* the byte 0, and AM_KEY_NONE
Prefix == {"E0", "F0"}
KeyEvent == [ext : BOOLEAN, code : KeyCodes, keydown : BOOLEAN]

ScanInit == wire = <<>> /\ queue = <<>> /\ typed = <<>> /\ got = <<>> /\ lost = {}

Bytes(ev) == (IF ev.ext THEN <<"E0">> ELSE <<>>) \o
             (IF ev.keydown THEN <<>> ELSE <<"F0">>) \o <<ev.code>>
Type(ev) == /\ wire = <<>> /\ Len(typed) < MaxTyped
            /\ typed' = Append(typed, ev)
            /\ wire' = Bytes(ev)
            /\ UNCHANGED <<queue, got, lost>>
Arrive == /\ wire # <<>>
          /\ queue' = Append(queue, Head(wire)) /\ wire' = Tail(wire)
          /\ UNCHANGED <<typed, got, lost>>

(* Mutant: only one prefix is followed. *)
Prefixes_One(q) == IF q # <<>> /\ q[1] \in Prefix THEN 1 ELSE 0

(* getScan calls itself for every prefix: their number, and what the call   *)
(* returns, the flags of the prefixes and the first byte that is not one.   *)
Prefixes(q) == CHOOSE k \in 0 .. Len(q) : /\ \A i \in 1 .. k : q[i] \in Prefix
                                          /\ k = Len(q) \/ q[k + 1] \notin Prefix
getScan(q) ==
    LET k == Prefixes(q)
    IN  [ext     |-> \E i \in 1 .. k : q[i] = "E0",
         release |-> \E i \in 1 .. k : q[i] = "F0",
         code    |-> IF k < Len(q) THEN q[k + 1] ELSE NONE,
         rest    |-> SubSeq(q, k + 2, Len(q))]

(* keydown is only assigned for a release; io_read passes a variable        *)
(* without a value.                                                         *)
keydown(scan, uninitialized) == IF scan.release THEN FALSE ELSE uninitialized

(* One poll; a program ignores AM_KEY_NONE.  The prefixes that it has read  *)
(* in front of nothing are forgotten: the next poll starts with getScan(0). *)
__am_input_keybrd_ps2(uninitialized) ==
    LET scan == getScan(queue)
    IN  /\ queue' = scan.rest
        /\ got' = IF scan.code = NONE THEN got
                  ELSE Append(got, [ext |-> scan.ext, code |-> scan.code,
                                    keydown |-> keydown(scan, uninitialized)])
        /\ lost' = IF scan.code # NONE THEN lost
                   ELSE lost \cup { <<Len(got) + 1, queue[j]>> : j \in 1 .. Len(queue) }
        /\ UNCHANGED <<wire, typed>>

ScanNext == \/ \E ev \in KeyEvent : Type(ev)
            \/ Arrive
            \/ \E uninitialized \in BOOLEAN : __am_input_keybrd_ps2(uninitialized)
ScanSpec == ScanInit /\ [][ScanNext]_ps2Vars
-----------------------------------------------------------------------------
(* The codes that a program sees are the codes that were typed, in their    *)
(* order: none is lost, repeated or taken for another, nor is a prefix.     *)
InOrder ==
    /\ Len(got) <= Len(typed)
    /\ \A i \in 1 .. Len(got) : got[i].code = typed[i].code

(* Each prefix says what it says of its own key and of no other.  A poll    *)
(* that comes between a prefix and its code takes the flag from this key,   *)
(* which then shows as the key without E0, or with the keydown that the     *)
(* variable of io_read happens to hold.                                     *)
FlagsSeen ==
    \A i \in 1 .. Len(got) :
        /\ got[i].ext <=> typed[i].ext /\ <<i, "E0">> \notin lost
        /\ ~typed[i].keydown /\ <<i, "F0">> \notin lost => ~got[i].keydown

(* Both: what the driver promises a program that polls at any time.        *)
KeysInOrder == InOrder /\ FlagsSeen

(* What a program would like: a key that was released is never reported as *)
(* pressed, one that was pressed is, and E0 always tells.  The driver       *)
(* promises none of them.                                                   *)
ReleasesSeen == \A i \in 1 .. Len(got) : ~typed[i].keydown => ~got[i].keydown
PressesSeen  == \A i \in 1 .. Len(got) : typed[i].keydown => got[i].keydown
ExtSeen      == \A i \in 1 .. Len(got) : got[i].ext = typed[i].ext
=============================================================================
