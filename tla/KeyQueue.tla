------------------------------ MODULE KeyQueue ------------------------------
(***************************************************************************)
(* The keyboard of NEMU, nemu/src/device/keyboard.c, with the driver of    *)
(* the AbstractMachine, am/src/platform/nemu/ioe/input.c: a ring of        *)
(* KEY_QUEUE_LEN codes from key_f to key_r, filled by send_key and emptied *)
(* by the guest's reads of the data port.  Keys are numbered from 1; a     *)
(* pressed key has KEYDOWN_MASK, which no key number reaches, added.       *)
(***************************************************************************)
EXTENDS Integers, Sequences

CONSTANTS KEY_QUEUE_LEN,        \* 1024 in the code
          KEYDOWN_MASK,         \* 0x8000 in the code
          Keys                  \* keys of the host that keymap maps

ASSUME KeyAssumption == /\ KEY_QUEUE_LEN \in Nat /\ KEY_QUEUE_LEN > 1
                        /\ KEYDOWN_MASK \in Nat \ {0}
                        /\ Keys \subseteq 1 .. KEYDOWN_MASK - 1

VARIABLES key_queue, key_f, key_r,
          kbd,                  \* the event the guest got last
          failed                \* the overflow assertion has ended NEMU

keyVars == <<key_queue, key_f, key_r, kbd, failed>>

NEMU_KEY_NONE == 0
Slot  == 0 .. KEY_QUEUE_LEN - 1
Code  == 0 .. 2 * KEYDOWN_MASK - 1
Event == [keydown : BOOLEAN, keycode : Keys]
none  == [keydown |-> FALSE, keycode |-> NEMU_KEY_NONE]

am_scancode(e) == e.keycode + (IF e.keydown THEN KEYDOWN_MASK ELSE 0)

(* __am_input_keybrd: the mask bit out, the rest is the key.               *)
__am_input_keybrd(code) ==
    [keydown |-> code >= KEYDOWN_MASK,
     keycode |-> IF code >= KEYDOWN_MASK THEN code - KEYDOWN_MASK ELSE code]

KeyInit == /\ key_queue = [s \in Slot |-> 0] /\ key_f = 0 /\ key_r = 0
        /\ kbd = none /\ failed = FALSE

(* No assertion: one event more than fits is taken for an empty queue.     *)
key_enqueue_Unchecked(e) ==
    /\ key_queue' = [key_queue EXCEPT ![key_r] = am_scancode(e)]
    /\ key_r' = (key_r + 1) % KEY_QUEUE_LEN
    /\ UNCHANGED failed

key_enqueue(e) ==
    /\ key_queue' = [key_queue EXCEPT ![key_r] = am_scancode(e)]
    /\ key_r' = (key_r + 1) % KEY_QUEUE_LEN
    /\ failed' = (key_r' = key_f)

key_dequeue == IF key_f # key_r THEN key_queue[key_f] ELSE NEMU_KEY_NONE

(* send_key for a mapped key while the guest runs.                         *)
send_key(e) == /\ ~failed
               /\ key_enqueue(e)
               /\ UNCHANGED <<key_f, kbd>>

(* The guest reads the data port: i8042_data_io_handler, then the driver.  *)
ReadKey == /\ ~failed
           /\ kbd' = __am_input_keybrd(key_dequeue)
           /\ key_f' = IF key_f # key_r THEN (key_f + 1) % KEY_QUEUE_LEN ELSE key_f
           /\ UNCHANGED <<key_queue, key_r, failed>>

KeyNext == (\E e \in Event : send_key(e)) \/ ReadKey
KeySpec == KeyInit /\ [][KeyNext]_keyVars
-----------------------------------------------------------------------------
(* The codes from key_f up to key_r, around the end of the array; after    *)
(* the assertion, which compares once the code is stored, those before it. *)
Count == IF failed THEN KEY_QUEUE_LEN - 1
         ELSE IF key_f <= key_r THEN key_r - key_f ELSE key_r - key_f + KEY_QUEUE_LEN
waiting == [k \in 1 .. Count |-> __am_input_keybrd(key_queue[(key_f + k - 1) % KEY_QUEUE_LEN])]

(* The ring is a first-in first-out queue of KEY_QUEUE_LEN - 1 events: no  *)
(* event is lost, repeated or reordered when the indices wrap, the flag    *)
(* and the key come out as they went in, and the queue fails exactly when  *)
(* one event too many waits.                                               *)
Fifo == INSTANCE KeyFifo WITH Capacity <- KEY_QUEUE_LEN - 1, got <- kbd
IsFifo == Fifo!Spec
=============================================================================
