--------------------------- MODULE Runtime_proofs ----------------------------
(***************************************************************************)
(* The devices of NEMU.  The ring of keyboard.c is a first-in first-out    *)
(* queue, for every length of the ring and every set of keys: its          *)
(* invariant is the type of the ring, and the argument is where the slots  *)
(* between key_f and key_r lie when the indices wrap.  In the loop of      *)
(* NEMU, behind SDL's queue of events, every key pressed still reaches the *)
(* guest in order; and the window shows what the guest has asked to show.  *)
(* The context switches of yield-os, for every size of the stacks: a trap  *)
(* pushes a frame on the stack of its own thread, and nobody else touches  *)
(* it until the thread comes back.  The time of the rtc that a program     *)
(* reads in two words, for every size of a word.  The PS/2 driver, for     *)
(* every set of keys: what the bytes under way spell, without the prefixes *)
(* that a poll has read too early.                                         *)
(***************************************************************************)
EXTENDS Device, Cte, Timer, Ps2, TLAPS, SequenceTheorems

Ring == /\ key_queue \in [Slot -> Code]
        /\ key_f \in Slot /\ key_r \in Slot
        /\ failed \in BOOLEAN

AnyEvent == [keydown : BOOLEAN, keycode : Int]

(* The k-th slot from f, without the modulus.                              *)
At(f, k) == IF f + k - 1 < KEY_QUEUE_LEN THEN f + k - 1 ELSE f + k - 1 - KEY_QUEUE_LEN

LEMMA Wrap ==
    \A a \in 0 .. 2 * KEY_QUEUE_LEN - 1 :
        a % KEY_QUEUE_LEN = IF a < KEY_QUEUE_LEN THEN a ELSE a - KEY_QUEUE_LEN
  BY KeyAssumption, Z3

LEMMA SlotAt ==
    ASSUME NEW f \in Slot, NEW k \in 1 .. KEY_QUEUE_LEN
    PROVE  (f + k - 1) % KEY_QUEUE_LEN = At(f, k) /\ At(f, k) \in Slot
<1>1. f + k - 1 \in 0 .. 2 * KEY_QUEUE_LEN - 1
  BY KeyAssumption DEF Slot
<1>2. (f + k - 1) % KEY_QUEUE_LEN = At(f, k)
  BY <1>1, Wrap, KeyAssumption DEF At, Slot
<1>3. At(f, k) \in Slot
  BY KeyAssumption DEF At, Slot
<1> QED BY <1>2, <1>3

LEMMA Advance ==
    ASSUME NEW f \in Slot
    PROVE  /\ (f + 1) % KEY_QUEUE_LEN = IF f = KEY_QUEUE_LEN - 1 THEN 0 ELSE f + 1
           /\ (f + 1) % KEY_QUEUE_LEN \in Slot
<1>1. f + 1 \in 0 .. 2 * KEY_QUEUE_LEN - 1
  BY KeyAssumption DEF Slot
<1>2. (f + 1) % KEY_QUEUE_LEN = IF f + 1 < KEY_QUEUE_LEN THEN f + 1 ELSE f + 1 - KEY_QUEUE_LEN
  BY <1>1, Wrap, KeyAssumption DEF Slot
<1> QED BY <1>2, KeyAssumption DEF Slot

(* The driver recovers the event send_key encoded.                         *)
LEMMA Decoded ==
    ASSUME NEW e \in Event
    PROVE  __am_input_keybrd(am_scancode(e)) = e /\ am_scancode(e) \in Code
<1>1. e.keycode \in 1 .. KEYDOWN_MASK - 1 /\ e.keydown \in BOOLEAN
  BY KeyAssumption DEF Event
<1>2. e = [keydown |-> e.keydown, keycode |-> e.keycode]
  BY DEF Event
<1>3. CASE e.keydown
  <2>1. am_scancode(e) = e.keycode + KEYDOWN_MASK
    BY <1>3 DEF am_scancode
  <2>2. am_scancode(e) >= KEYDOWN_MASK /\ am_scancode(e) - KEYDOWN_MASK = e.keycode
    BY <1>1, <2>1, KeyAssumption
  <2>3. am_scancode(e) \in Code
    BY <1>1, <2>1, KeyAssumption DEF Code
  <2>4. __am_input_keybrd(am_scancode(e)) = [keydown |-> TRUE, keycode |-> e.keycode]
    BY <2>2 DEF __am_input_keybrd
  <2> QED BY <1>2, <1>3, <2>3, <2>4
<1>4. CASE ~e.keydown
  <2>1. am_scancode(e) = e.keycode
    BY <1>1, <1>4 DEF am_scancode
  <2>2. (am_scancode(e) >= KEYDOWN_MASK) = FALSE
    BY <1>1, <2>1, KeyAssumption
  <2>3. am_scancode(e) \in Code
    BY <1>1, <2>1, KeyAssumption DEF Code
  <2>4. __am_input_keybrd(am_scancode(e)) = [keydown |-> FALSE, keycode |-> e.keycode]
    BY <2>1, <2>2, Zenon DEF __am_input_keybrd
  <2>5. e.keydown = FALSE
    BY <1>1, <1>4
  <2> QED BY <1>2, <2>5, <2>3, <2>4
<1> QED BY <1>3, <1>4

LEMMA DecodedType ==
    ASSUME NEW c \in Code PROVE __am_input_keybrd(c) \in AnyEvent
<1>1. (IF c >= KEYDOWN_MASK THEN c - KEYDOWN_MASK ELSE c) \in Int
  BY KeyAssumption DEF Code
<1>2. (c >= KEYDOWN_MASK) \in BOOLEAN
  OBVIOUS
<1> QED BY <1>1, <1>2 DEF __am_input_keybrd, AnyEvent

(* The waiting events as a sequence: its length, and what each element is. *)
WaitingFacts ==
    /\ Count \in 0 .. KEY_QUEUE_LEN - 1
    /\ waiting \in Seq(AnyEvent)
    /\ Len(waiting) = Count
    /\ \A k \in 1 .. Count : waiting[k] = __am_input_keybrd(key_queue[At(key_f, k)])

LEMMA Waiting == Ring => WaitingFacts
<1> SUFFICES ASSUME Ring PROVE WaitingFacts
  OBVIOUS
<1>1. Count \in 0 .. KEY_QUEUE_LEN - 1
  BY KeyAssumption DEF Ring, Count, Slot
<1>2. \A k \in 1 .. Count :
          /\ waiting[k] = __am_input_keybrd(key_queue[At(key_f, k)])
          /\ waiting[k] \in AnyEvent
  <2> SUFFICES ASSUME NEW k \in 1 .. Count
               PROVE  /\ waiting[k] = __am_input_keybrd(key_queue[At(key_f, k)])
                      /\ waiting[k] \in AnyEvent
    OBVIOUS
  <2>1. k \in 1 .. KEY_QUEUE_LEN
    BY <1>1, KeyAssumption
  <2>2. (key_f + k - 1) % KEY_QUEUE_LEN = At(key_f, k) /\ At(key_f, k) \in Slot
    BY <2>1, SlotAt DEF Ring
  <2>3. key_queue[At(key_f, k)] \in Code
    BY <2>2 DEF Ring
  <2> QED BY <2>2, <2>3, DecodedType DEF waiting
<1>3. waiting = [k \in 1 .. Count |-> waiting[k]]
  BY DEF waiting
<1>4. Count \in Nat
  BY <1>1, KeyAssumption
<1> HIDE DEF Count, waiting
<1>5. waiting \in [1 .. Count -> AnyEvent]
  BY <1>2, <1>3
<1> QED BY <1>1, <1>2, <1>4, <1>5 DEF WaitingFacts

LEMMA WaitingNext == Ring' => WaitingFacts'
  BY Waiting, PTL

LEMMA RingInit == KeyInit => Ring
<1>1. 0 \in Code /\ 0 \in Slot
  BY KeyAssumption DEF Code, Slot
<1> QED BY <1>1 DEF KeyInit, Ring

LEMMA RingStep == Ring /\ [KeyNext]_keyVars => Ring'
<1> SUFFICES ASSUME Ring, [KeyNext]_keyVars PROVE Ring'
  OBVIOUS
<1>1. ASSUME NEW e \in Event, send_key(e) PROVE Ring'
  <2>1. am_scancode(e) \in Code /\ key_r' \in Slot
    BY <1>1, Decoded, Advance DEF send_key, key_enqueue, Ring
  <2>2. failed' \in BOOLEAN
    BY <1>1 DEF send_key, key_enqueue
  <2> QED BY <1>1, <2>1, <2>2 DEF send_key, key_enqueue, Ring
<1>2. CASE ReadKey
  BY <1>2, Advance DEF ReadKey, Ring
<1>3. CASE UNCHANGED keyVars
  BY <1>3 DEF keyVars, Ring
<1> QED BY <1>1, <1>2, <1>3 DEF KeyNext

LEMMA FifoInit == KeyInit => Fifo!Init
<1> SUFFICES ASSUME KeyInit PROVE Fifo!Init
  OBVIOUS
<1>1. Ring
  BY RingInit
<1>2. Count = 0
  BY KeyAssumption DEF KeyInit, Count
<1>3. waiting = <<>>
  BY <1>1, <1>2, Waiting DEF WaitingFacts
<1> QED BY <1>3 DEF KeyInit, Fifo!Init

(* An event more: the ring stores it behind the others, or fails when full.*)
LEMMA FifoPress ==
    ASSUME Ring, Ring', NEW e \in Event, send_key(e)
    PROVE  Fifo!Press(e)
<1>1. /\ ~failed /\ kbd' = kbd /\ key_f' = key_f
      /\ key_queue' = [key_queue EXCEPT ![key_r] = am_scancode(e)]
      /\ key_r' = (key_r + 1) % KEY_QUEUE_LEN
      /\ failed' = (key_r' = key_f)
  BY DEF send_key, key_enqueue
<1>2. key_r' = IF key_r = KEY_QUEUE_LEN - 1 THEN 0 ELSE key_r + 1
  BY <1>1, Advance DEF Ring
<1>3. /\ Count' \in 0 .. KEY_QUEUE_LEN - 1
      /\ waiting' \in Seq(AnyEvent)
      /\ Len(waiting') = Count'
      /\ \A k \in 1 .. Count' : waiting'[k] = __am_input_keybrd(key_queue'[At(key_f, k)])
  BY <1>1, WaitingNext DEF WaitingFacts, At
<1>4. /\ Count \in 0 .. KEY_QUEUE_LEN - 1
      /\ waiting \in Seq(AnyEvent)
      /\ Len(waiting) = Count
      /\ \A k \in 1 .. Count : waiting[k] = __am_input_keybrd(key_queue[At(key_f, k)])
  BY Waiting DEF WaitingFacts
<1>5. /\ failed' <=> Count = KEY_QUEUE_LEN - 1
      /\ Count' = IF failed' THEN Count ELSE Count + 1
  <2>1. CASE key_r' = key_f
    <3>1. failed' = TRUE
      BY <1>1, <2>1
    <3>2. Count = KEY_QUEUE_LEN - 1
      BY <1>1, <1>2, <2>1, KeyAssumption DEF Ring, Count, Slot
    <3>3. Count' = KEY_QUEUE_LEN - 1
      BY <3>1 DEF Count
    <3> QED BY <3>1, <3>2, <3>3
  <2>2. CASE key_r' # key_f
    BY <1>1, <1>2, <2>2, KeyAssumption DEF Ring, Count, Slot
  <2> QED BY <2>1, <2>2
<1>6. \A k \in 1 .. Count : At(key_f, k) \in Slot /\ At(key_f, k) # key_r
  BY <1>1, KeyAssumption DEF Ring, Count, Slot, At
<1>7. Count < KEY_QUEUE_LEN - 1 => At(key_f, Count + 1) = key_r
  BY <1>1, KeyAssumption DEF Ring, Count, Slot, At
<1>8. \A k \in 1 .. Count : waiting'[k] = waiting[k]
  <2> SUFFICES ASSUME NEW k \in 1 .. Count PROVE waiting'[k] = waiting[k]
    OBVIOUS
  <2>1. k \in 1 .. Count'
    BY <1>3, <1>4, <1>5
  <2>2. key_queue'[At(key_f, k)] = key_queue[At(key_f, k)]
    BY <1>1, <1>6 DEF Ring
  <2> QED BY <1>3, <1>4, <2>1, <2>2
<1> HIDE DEF Count, waiting
<1>9. CASE failed'
  <2>1. waiting' = waiting
    BY <1>3, <1>4, <1>5, <1>8, <1>9
  <2> QED BY <1>1, <1>4, <1>5, <1>9, <2>1 DEF Fifo!Press, Ring
<1>10. CASE ~failed'
  <2>1. waiting'[Count + 1] = e
    <3>1. key_queue'[At(key_f, Count + 1)] = am_scancode(e)
      <4>1. Count < KEY_QUEUE_LEN - 1
        BY <1>4, <1>5, <1>10, KeyAssumption
      <4>2. At(key_f, Count + 1) = key_r
        BY <1>7, <4>1
      <4> QED BY <1>1, <4>2 DEF Ring
    <3>2. Count + 1 \in 1 .. Count'
      BY <1>3, <1>4, <1>5, <1>10
    <3> QED BY <1>3, <3>1, <3>2, Decoded
  <2>2. waiting' = Append(waiting, e)
    BY <1>3, <1>4, <1>5, <1>8, <1>10, <2>1
  <2>3. failed' = failed
    BY <1>1, <1>10 DEF Ring
  <2>4. Len(waiting) < KEY_QUEUE_LEN - 1
    BY <1>4, <1>5, <1>10, KeyAssumption
  <2> QED BY <1>1, <2>2, <2>3, <2>4 DEF Fifo!Press
<1> QED BY <1>9, <1>10

(* A read: the oldest event leaves, or there is none.                      *)
LEMMA FifoRead ==
    ASSUME Ring, Ring', ReadKey
    PROVE  Fifo!Read
<1>1. /\ ~failed /\ failed' = failed
      /\ kbd' = __am_input_keybrd(key_dequeue)
      /\ key_f' = IF key_f # key_r THEN (key_f + 1) % KEY_QUEUE_LEN ELSE key_f
      /\ key_queue' = key_queue /\ key_r' = key_r
  BY DEF ReadKey
<1>2. (key_f + 1) % KEY_QUEUE_LEN = IF key_f = KEY_QUEUE_LEN - 1 THEN 0 ELSE key_f + 1
  BY Advance DEF Ring
<1>3. /\ Count' \in 0 .. KEY_QUEUE_LEN - 1
      /\ waiting' \in Seq(AnyEvent)
      /\ Len(waiting') = Count'
      /\ \A k \in 1 .. Count' : waiting'[k] = __am_input_keybrd(key_queue[At(key_f', k)])
  BY <1>1, WaitingNext DEF WaitingFacts, At
<1>4. /\ Count \in 0 .. KEY_QUEUE_LEN - 1
      /\ waiting \in Seq(AnyEvent)
      /\ Len(waiting) = Count
      /\ \A k \in 1 .. Count : waiting[k] = __am_input_keybrd(key_queue[At(key_f, k)])
  BY Waiting DEF WaitingFacts
<1>5. CASE key_f = key_r
  <2>1. Count = 0
    BY <1>1, <1>5, KeyAssumption DEF Ring, Count, Slot
  <2>2. waiting = <<>>
    BY <1>4, <2>1
  <2>3. waiting' = waiting
    BY <1>1, <1>5 DEF waiting, Count
  <2>4. kbd' = none
    <3>1. key_dequeue = 0
      BY <1>5 DEF key_dequeue, NEMU_KEY_NONE
    <3>2. (0 >= KEYDOWN_MASK) = FALSE
      BY KeyAssumption
    <3> QED BY <1>1, <3>1, <3>2, Zenon DEF __am_input_keybrd, none, NEMU_KEY_NONE
  <2> QED BY <1>1, <2>2, <2>3, <2>4 DEF Fifo!Read
<1>6. CASE key_f # key_r
  <2>1. Count \in 1 .. KEY_QUEUE_LEN - 1 /\ Count' = Count - 1
    BY <1>1, <1>2, <1>6, KeyAssumption DEF Ring, Count, Slot
  <2>2. \A k \in 1 .. Count - 1 : At(key_f', k) = At(key_f, k + 1)
    BY <1>1, <1>2, <1>6, <2>1, KeyAssumption DEF Ring, Slot, At
  <2>3. At(key_f, 1) = key_f
    BY KeyAssumption DEF Ring, Slot, At
  <2>4. kbd' = waiting[1]
    BY <1>1, <1>4, <1>6, <2>1, <2>3 DEF key_dequeue
  <2> HIDE DEF Count, waiting
  <2>5. waiting # <<>> /\ kbd' = Head(waiting)
    BY <1>4, <2>1, <2>4
  <2>6. \A k \in 1 .. Count - 1 : waiting'[k] = waiting[k + 1]
    <3> SUFFICES ASSUME NEW k \in 1 .. Count - 1 PROVE waiting'[k] = waiting[k + 1]
      OBVIOUS
    <3>1. k \in 1 .. Count' /\ k + 1 \in 1 .. Count
      BY <1>4, <2>1
    <3> QED BY <1>3, <1>4, <2>2, <3>1
  <2>7. waiting' = Tail(waiting)
    BY <1>3, <1>4, <2>1, <2>5, <2>6
  <2> QED BY <1>1, <2>5, <2>7 DEF Fifo!Read
<1> QED BY <1>5, <1>6

(* The keyboard keeps KeyFifo's promise: events come out in the order they *)
(* went in, decoded as they were, and it fails only when its ring is full. *)
THEOREM QueueIsFifo == KeySpec => IsFifo
<1>1. Ring /\ Ring' /\ [KeyNext]_keyVars => [Fifo!Next]_(Fifo!vars)
  <2> SUFFICES ASSUME Ring, Ring', [KeyNext]_keyVars PROVE [Fifo!Next]_(Fifo!vars)
    OBVIOUS
  <2>1. ASSUME NEW e \in Event, send_key(e) PROVE Fifo!Next
    BY <2>1, FifoPress DEF Fifo!Next
  <2>2. CASE ReadKey
    BY <2>2, FifoRead DEF Fifo!Next
  <2>3. CASE UNCHANGED keyVars
    BY <2>3 DEF keyVars, Fifo!vars, waiting, Count
  <2> QED BY <2>1, <2>2, <2>3 DEF KeyNext
<1>2. KeySpec => []Ring
  BY RingInit, RingStep, PTL DEF KeySpec
<1> QED BY <1>1, <1>2, FifoInit, PTL DEF KeySpec, IsFifo, Fifo!Spec

-----------------------------------------------------------------------------
(* SDL's queue: events of the keyboard and at most one of the window.      *)

SdlEvent == Event \cup {Quit}

OneQuit(s) == \A j, k \in DOMAIN s : s[j] = Quit /\ s[k] = Quit => j = k

LEMMA QuitIsNoKey == Quit \notin Event /\ none \notin Event
  BY KeyAssumption DEF Quit, none, Event, NEMU_KEY_NONE

(* What SdlKeys leaves out is SDL_QUIT; the rest keeps its order.          *)
LEMMA SdlKeysAll ==
    ASSUME NEW s \in Seq(SdlEvent), \A k \in 1 .. Len(s) : s[k] # Quit
    PROVE  SdlKeys(s) = s /\ s \in Seq(Event) /\ OneQuit(s)
<1>1. \A k \in 1 .. Len(s) : s[k] \in Event
  BY DEF SdlEvent
<1>2. \A k \in DOMAIN s : s[k] # Quit
  OBVIOUS
<1> QED BY <1>1, <1>2 DEF SdlKeys, OneQuit

LEMMA SdlKeysBut ==
    ASSUME NEW s \in Seq(SdlEvent), OneQuit(s), NEW q \in 1 .. Len(s), s[q] = Quit
    PROVE  /\ SdlKeys(s) \in Seq(Event) /\ Len(SdlKeys(s)) = Len(s) - 1
           /\ \A k \in 1 .. Len(s) - 1 : SdlKeys(s)[k] = IF k < q THEN s[k] ELSE s[k + 1]
<1> DEFINE keys == [k \in 1 .. Len(s) - 1 |-> IF \E j \in 1 .. k : s[j] = Quit THEN s[k + 1] ELSE s[k]]
<1>1. SdlKeys(s) = keys
  BY DEF SdlKeys
<1>2. \A k \in 1 .. Len(s) : k # q => s[k] \in Event
  BY DEF SdlEvent, OneQuit
<1>3. ASSUME NEW k \in 1 .. Len(s) - 1
      PROVE  keys[k] = (IF k < q THEN s[k] ELSE s[k + 1]) /\ keys[k] \in Event
  <2>1. CASE k < q
    <3>1. ~ \E j \in 1 .. k : s[j] = Quit
      BY <2>1 DEF OneQuit
    <3> QED BY <1>2, <2>1, <3>1
  <2>2. CASE k >= q
    <3>1. \E j \in 1 .. k : s[j] = Quit
      BY <2>2
    <3> QED BY <1>2, <2>2, <3>1
  <2> QED BY <2>1, <2>2
<1>4. Len(s) - 1 \in Nat /\ keys \in [1 .. Len(s) - 1 -> Event]
  BY <1>3
<1> HIDE DEF keys
<1>5. keys \in Seq(Event) /\ Len(keys) = Len(s) - 1
  BY <1>4
<1> QED BY <1>1, <1>3, <1>5

LEMMA SdlKeysType ==
    ASSUME NEW s \in Seq(SdlEvent), OneQuit(s)
    PROVE  SdlKeys(s) \in Seq(Event)
<1>1. CASE \A k \in 1 .. Len(s) : s[k] # Quit
  BY <1>1, SdlKeysAll
<1>2. CASE \E k \in 1 .. Len(s) : s[k] = Quit
  BY <1>2, SdlKeysBut
<1> QED BY <1>1, <1>2

LEMMA SameSeq ==
    ASSUME NEW S, NEW a \in Seq(S), NEW b \in Seq(S), Len(a) = Len(b),
           \A k \in 1 .. Len(a) : a[k] = b[k]
    PROVE  a = b
  OBVIOUS

LEMMA SdlKeysAppend ==
    ASSUME NEW s \in Seq(SdlEvent), OneQuit(s), NEW e \in Event
    PROVE  /\ Append(s, e) \in Seq(SdlEvent) /\ OneQuit(Append(s, e))
           /\ SdlKeys(Append(s, e)) = Append(SdlKeys(s), e)
<1> DEFINE t == Append(s, e)
<1>1. t \in Seq(SdlEvent) /\ Len(t) = Len(s) + 1 /\ t[Len(s) + 1] = e
      /\ \A k \in 1 .. Len(s) : t[k] = s[k]
  BY DEF SdlEvent
<1>2. e # Quit
  BY QuitIsNoKey
<1> HIDE DEF t
<1>3. OneQuit(t)
  BY <1>1, <1>2 DEF OneQuit
<1>4. SdlKeys(t) = Append(SdlKeys(s), e)
  <2>1. CASE \A k \in 1 .. Len(s) : s[k] # Quit
    <3>1. \A k \in 1 .. Len(t) : t[k] # Quit
      BY <1>1, <1>2, <2>1
    <3> QED BY <1>1, <2>1, <3>1, SdlKeysAll DEF t
  <2>2. CASE \E k \in 1 .. Len(s) : s[k] = Quit
    <3>1. PICK q \in 1 .. Len(s) : s[q] = Quit
      BY <2>2
    <3>2. q \in 1 .. Len(t) /\ t[q] = Quit
      BY <1>1, <3>1
    <3> DEFINE a == SdlKeys(s)
               b == SdlKeys(t)
               c == Append(a, e)
    <3>3. /\ a \in Seq(Event) /\ Len(a) = Len(s) - 1
          /\ \A k \in 1 .. Len(s) - 1 : a[k] = IF k < q THEN s[k] ELSE s[k + 1]
      BY <3>1, SdlKeysBut
    <3>4. /\ b \in Seq(Event) /\ Len(b) = Len(t) - 1
          /\ \A k \in 1 .. Len(t) - 1 : b[k] = IF k < q THEN t[k] ELSE t[k + 1]
      BY <1>1, <1>3, <3>2, SdlKeysBut
    <3> HIDE DEF a, b
    <3>5. c \in Seq(Event) /\ Len(c) = Len(s) /\ c[Len(s)] = e
          /\ \A k \in 1 .. Len(s) - 1 : c[k] = a[k]
      BY <3>3
    <3> HIDE DEF c
    <3>6. ASSUME NEW k \in 1 .. Len(s) PROVE b[k] = c[k]
      <4>1. b[k] = IF k < q THEN s[k] ELSE t[k + 1]
        BY <1>1, <3>4
      <4>2. CASE k = Len(s)
        BY <1>1, <3>5, <4>1, <4>2
      <4>3. CASE k # Len(s)
        <5>1. k \in 1 .. Len(s) - 1 /\ k + 1 \in 1 .. Len(s)
          BY <4>3
        <5> QED BY <1>1, <3>3, <3>5, <4>1, <5>1
      <4> QED BY <4>2, <4>3
    <3>7. b = c
      BY <1>1, <3>4, <3>5, <3>6, SameSeq
    <3> QED BY <3>7 DEF a, b, c
  <2> QED BY <2>1, <2>2
<1> QED BY <1>1, <1>3, <1>4 DEF t

LEMMA SdlKeysQuit ==
    ASSUME NEW s \in Seq(SdlEvent), \A k \in 1 .. Len(s) : s[k] # Quit
    PROVE  /\ Append(s, Quit) \in Seq(SdlEvent) /\ OneQuit(Append(s, Quit))
           /\ SdlKeys(Append(s, Quit)) = SdlKeys(s)
<1> DEFINE t == Append(s, Quit)
<1>1. t \in Seq(SdlEvent) /\ Len(t) = Len(s) + 1 /\ t[Len(s) + 1] = Quit
      /\ \A k \in 1 .. Len(s) : t[k] = s[k]
  BY DEF SdlEvent
<1> HIDE DEF t
<1>2. OneQuit(t)
  BY <1>1 DEF OneQuit
<1>3. SdlKeys(s) = s /\ s \in Seq(Event)
  BY SdlKeysAll
<1>4. /\ SdlKeys(t) \in Seq(Event) /\ Len(SdlKeys(t)) = Len(s)
      /\ \A k \in 1 .. Len(s) : SdlKeys(t)[k] = IF k < Len(s) + 1 THEN t[k] ELSE t[k + 1]
  <2>1. Len(s) + 1 \in 1 .. Len(t)
    BY <1>1
  <2>2. /\ SdlKeys(t) \in Seq(Event) /\ Len(SdlKeys(t)) = Len(t) - 1
        /\ \A k \in 1 .. Len(t) - 1 : SdlKeys(t)[k] = IF k < Len(s) + 1 THEN t[k] ELSE t[k + 1]
    BY <1>1, <1>2, <2>1, SdlKeysBut
  <2> QED BY <1>1, <2>2
<1>5. \A k \in 1 .. Len(s) : SdlKeys(t)[k] = s[k]
  BY <1>1, <1>4
<1>6. SdlKeys(t) = s
  BY <1>3, <1>4, <1>5, SameSeq
<1> QED BY <1>1, <1>2, <1>3, <1>6 DEF t

LEMMA SdlKeysHead ==
    ASSUME NEW s \in Seq(SdlEvent), OneQuit(s), s # <<>>
    PROVE  /\ Tail(s) \in Seq(SdlEvent) /\ OneQuit(Tail(s)) /\ Head(s) \in SdlEvent
           /\ Head(s) # Quit => SdlKeys(s) # <<>> /\ Head(SdlKeys(s)) = Head(s)
                                /\ Tail(SdlKeys(s)) = SdlKeys(Tail(s))
<1> DEFINE t == Tail(s)
<1>1. /\ t \in Seq(SdlEvent) /\ Len(t) = Len(s) - 1 /\ Len(s) \in Nat /\ Len(s) >= 1
      /\ \A k \in 1 .. Len(t) : t[k] = s[k + 1]
      /\ Head(s) = s[1] /\ s[1] \in SdlEvent
  OBVIOUS
<1> HIDE DEF t
<1>2. OneQuit(t)
  <2> SUFFICES ASSUME NEW j \in 1 .. Len(t), NEW k \in 1 .. Len(t), t[j] = Quit, t[k] = Quit
               PROVE  j = k
    BY <1>1 DEF OneQuit
  <2>1. s[j + 1] = Quit /\ s[k + 1] = Quit /\ j + 1 \in 1 .. Len(s) /\ k + 1 \in 1 .. Len(s)
    BY <1>1
  <2> QED BY <2>1 DEF OneQuit
<1>3. ASSUME s[1] # Quit
      PROVE  SdlKeys(s) # <<>> /\ Head(SdlKeys(s)) = s[1] /\ Tail(SdlKeys(s)) = SdlKeys(t)
  <2>1. CASE \A k \in 1 .. Len(s) : s[k] # Quit
    <3>1. \A k \in 1 .. Len(t) : t[k] # Quit
      BY <1>1, <2>1
    <3> QED BY <1>1, <2>1, <3>1, SdlKeysAll DEF t
  <2>2. CASE \E k \in 1 .. Len(s) : s[k] = Quit
    <3>1. PICK q \in 1 .. Len(s) : s[q] = Quit /\ q > 1
      BY <1>3, <2>2
    <3>2. t[q - 1] = Quit /\ q - 1 \in 1 .. Len(t)
      BY <1>1, <3>1
    <3> DEFINE a == SdlKeys(s)
               b == SdlKeys(t)
               c == Tail(a)
    <3>3. /\ a \in Seq(Event) /\ Len(a) = Len(s) - 1
          /\ \A k \in 1 .. Len(s) - 1 : a[k] = IF k < q THEN s[k] ELSE s[k + 1]
      BY <3>1, SdlKeysBut
    <3>4. /\ b \in Seq(Event) /\ Len(b) = Len(t) - 1
          /\ \A k \in 1 .. Len(t) - 1 : b[k] = IF k < q - 1 THEN t[k] ELSE t[k + 1]
      BY <1>1, <1>2, <3>2, SdlKeysBut
    <3> HIDE DEF a, b
    <3>5. /\ a # <<>> /\ Head(a) = a[1] /\ c \in Seq(Event) /\ Len(c) = Len(a) - 1
          /\ \A k \in 1 .. Len(c) : c[k] = a[k + 1]
      BY <3>1, <3>3
    <3> HIDE DEF c
    <3>6. a[1] = s[1]
      BY <1>1, <3>1, <3>3
    <3>7. ASSUME NEW k \in 1 .. Len(b) PROVE b[k] = c[k]
      <4>1. k + 1 \in 1 .. Len(s) - 1 /\ k \in 1 .. Len(t) - 1 /\ k + 1 \in 1 .. Len(t) /\ k \in 1 .. Len(c)
        BY <1>1, <3>3, <3>4, <3>5
      <4>2. c[k] = IF k + 1 < q THEN s[k + 1] ELSE s[(k + 1) + 1]
        BY <3>3, <3>5, <4>1
      <4>3. t[k] = s[k + 1] /\ t[k + 1] = s[(k + 1) + 1]
        BY <1>1, <4>1
      <4> QED BY <3>4, <4>1, <4>2, <4>3
    <3>8. b = c
      <4>1. Len(b) = Len(c)
        BY <1>1, <3>3, <3>4, <3>5
      <4> QED BY <3>4, <3>5, <3>7, <4>1, SameSeq
    <3> QED BY <3>5, <3>6, <3>8 DEF a, b, c
  <2> QED BY <2>1, <2>2
<1> QED BY <1>1, <1>2, <1>3 DEF t

LEMMA HeadMoves ==
    ASSUME NEW S, NEW a \in Seq(S), NEW b \in Seq(S), b # <<>>
    PROVE  Append(a, Head(b)) \o Tail(b) = a \o b
<1>1. /\ Head(b) \in S /\ Tail(b) \in Seq(S) /\ Len(b) \in Nat /\ Len(b) >= 1 /\ Len(Tail(b)) = Len(b) - 1
      /\ Head(b) = b[1] /\ \A k \in 1 .. Len(b) - 1 : Tail(b)[k] = b[k + 1]
  OBVIOUS
<1> DEFINE h == Head(b)
           t == Tail(b)
<1>2. /\ a \o b \in Seq(S) /\ Len(a \o b) = Len(a) + Len(b) /\ Len(a) \in Nat
      /\ \A k \in 1 .. Len(a) + Len(b) : (a \o b)[k] = IF k <= Len(a) THEN a[k] ELSE b[k - Len(a)]
  BY ConcatProperties
<1> HIDE DEF h, t
<1>3. /\ Append(a, h) \in Seq(S) /\ Len(Append(a, h)) = Len(a) + 1
      /\ Append(a, h)[Len(a) + 1] = h /\ \A k \in 1 .. Len(a) : Append(a, h)[k] = a[k]
  BY <1>1 DEF h
<1> DEFINE c == Append(a, h)
<1> HIDE DEF c
<1>4. /\ c \o t \in Seq(S) /\ Len(c \o t) = Len(a) + Len(b)
      /\ \A k \in 1 .. Len(a) + Len(b) : (c \o t)[k] = IF k <= Len(a) + 1 THEN c[k] ELSE t[k - (Len(a) + 1)]
  <2>1. c \in Seq(S) /\ t \in Seq(S) /\ Len(c) = Len(a) + 1 /\ Len(t) = Len(b) - 1
    BY <1>1, <1>3 DEF c, t
  <2>2. /\ c \o t \in Seq(S) /\ Len(c \o t) = Len(c) + Len(t)
        /\ \A k \in 1 .. Len(c) + Len(t) : (c \o t)[k] = IF k <= Len(c) THEN c[k] ELSE t[k - Len(c)]
    BY <2>1, ConcatProperties
  <2>3. Len(c) + Len(t) = Len(a) + Len(b)
    BY <1>1, <1>2, <2>1
  <2> QED BY <2>1, <2>2, <2>3
<1>5. ASSUME NEW k \in 1 .. Len(a) + Len(b) PROVE (c \o t)[k] = (a \o b)[k]
  <2>1. CASE k <= Len(a)
    BY <1>2, <1>3, <1>4, <2>1 DEF c
  <2>2. CASE k = Len(a) + 1
    <3>1. (c \o t)[k] = c[k] /\ c[k] = h /\ h = b[1]
      BY <1>1, <1>2, <1>3, <1>4, <2>2 DEF c, h
    <3>2. (a \o b)[k] = b[k - Len(a)] /\ k - Len(a) = 1
      BY <1>2, <2>2
    <3> QED BY <3>1, <3>2
  <2>3. CASE k > Len(a) + 1
    <3> DEFINE i == k - (Len(a) + 1)
    <3>1. i \in 1 .. Len(b) - 1 /\ i + 1 = k - Len(a)
      BY <1>1, <1>2, <2>3
    <3>2. (c \o t)[k] = t[i]
      BY <1>2, <1>4, <2>3
    <3>3. (a \o b)[k] = b[k - Len(a)]
      BY <1>2, <2>3
    <3>4. t[i] = b[i + 1]
      BY <1>1, <3>1 DEF t
    <3> QED BY <3>1, <3>2, <3>3, <3>4
  <2>4. k <= Len(a) \/ k = Len(a) + 1 \/ k > Len(a) + 1
    BY <1>2
  <2> QED BY <2>1, <2>2, <2>3, <2>4
<1>6. c \o t = a \o b
  <2> DEFINE x == c \o t
             y == a \o b
  <2>1. x \in Seq(S) /\ y \in Seq(S) /\ Len(x) = Len(y) /\ \A k \in 1 .. Len(x) : x[k] = y[k]
    BY <1>2, <1>4, <1>5
  <2> HIDE DEF x, y
  <2>2. x = y
    BY <2>1, SameSeq
  <2> QED BY <2>2 DEF x, y
<1> QED BY <1>6 DEF c, h, t

LEMMA AppendLast ==
    ASSUME NEW S, NEW a \in Seq(S), NEW b \in Seq(S), NEW e \in S
    PROVE  a \o Append(b, e) = Append(a \o b, e)
<1>1. Append(b, e) = b \o <<e>> /\ Append(a \o b, e) = (a \o b) \o <<e>>
  BY AppendIsConcat, ConcatProperties
<1>2. <<e>> \in Seq(S)
  OBVIOUS
<1>3. a \o (b \o <<e>>) = (a \o b) \o <<e>>
  BY <1>2, ConcatAssociative
<1> QED BY <1>1, <1>3

-----------------------------------------------------------------------------
(* The loop of NEMU.                                                       *)

Keyboard == /\ Ring
            /\ sdl \in Seq(SdlEvent) /\ OneQuit(sdl)
            /\ pressed \in Seq(Event) /\ received \in Seq(Event)
            /\ ~failed => waiting \in Seq(Event)
            /\ KeysReachGuest

LEMMA KeyboardInit == DevInit => Keyboard
<1> SUFFICES ASSUME DevInit PROVE Keyboard
  OBVIOUS
<1>1. Ring /\ waiting = <<>>
  BY RingInit, FifoInit DEF DevInit, Fifo!Init
<1>2. sdl = <<>> /\ pressed = <<>> /\ received = <<>>
  BY DEF DevInit
<1>3. sdl \in Seq(SdlEvent) /\ \A k \in 1 .. Len(sdl) : sdl[k] # Quit
  BY <1>2
<1>4. SdlKeys(sdl) = <<>> /\ OneQuit(sdl)
  BY <1>2, <1>3, SdlKeysAll
<1> HIDE DEF waiting
<1>5. <<>> \o <<>> \o <<>> = <<>>
  OBVIOUS
<1> QED BY <1>1, <1>2, <1>3, <1>4, <1>5 DEF Keyboard, KeysReachGuest

(* What a step that leaves the queues alone keeps.                         *)
LEMMA KeyboardFrame ==
    ASSUME Keyboard, UNCHANGED <<keyVars, sdl, pressed, received>>, run_state' = run_state
    PROVE  Keyboard'
<1>1. waiting' = waiting /\ Ring'
  BY DEF Keyboard, Ring, waiting, Count, keyVars
<1>2. failed' = failed
  BY DEF keyVars
<1> HIDE DEF waiting
<1> QED BY <1>1, <1>2 DEF Keyboard, KeysReachGuest

LEMMA KeyboardGuest ==
    ASSUME Keyboard, GuestKey
    PROVE  Keyboard'
<1>1. /\ ReadKey /\ ~failed /\ failed' = failed
      /\ received' = IF kbd' = none THEN received ELSE Append(received, kbd')
      /\ run_state' = run_state /\ sdl' = sdl /\ pressed' = pressed
  BY DEF GuestKey, AfterInst, ReadKey
<1>2. Ring /\ Ring'
  BY <1>1, RingStep DEF Keyboard, KeyNext
<1>3. /\ kbd' = IF waiting = <<>> THEN none ELSE Head(waiting)
      /\ waiting' = IF waiting = <<>> THEN waiting ELSE Tail(waiting)
  BY <1>1, <1>2, FifoRead DEF Fifo!Read
<1>4. waiting \in Seq(Event) /\ received \in Seq(Event)
  BY <1>1 DEF Keyboard
<1> HIDE DEF waiting
<1>5. /\ waiting' \in Seq(Event) /\ received' \in Seq(Event)
      /\ received' \o waiting' = received \o waiting
  <2>1. CASE waiting = <<>>
    BY <1>1, <1>3, <1>4, <2>1
  <2>2. CASE waiting # <<>>
    <3>1. kbd' = Head(waiting) /\ waiting' = Tail(waiting) /\ Head(waiting) \in Event
          /\ Tail(waiting) \in Seq(Event)
      BY <1>3, <1>4, <2>2
    <3>2. received' = Append(received, Head(waiting))
      BY <1>1, <3>1, QuitIsNoKey
    <3> QED BY <1>4, <2>2, <3>1, <3>2, HeadMoves
  <2> QED BY <2>1, <2>2
<1> QED BY <1>1, <1>2, <1>5 DEF Keyboard, KeysReachGuest

LEMMA KeyboardHost ==
    ASSUME Keyboard, NEW e \in Event, HostKey(e)
    PROVE  Keyboard'
<1>1. /\ sdl' = Append(sdl, e) /\ pressed' = Append(pressed, e) /\ received' = received
      /\ run_state' = run_state /\ UNCHANGED keyVars
  BY DEF HostKey
<1>2. waiting' = waiting /\ Ring' /\ failed' = failed
  BY <1>1 DEF Keyboard, Ring, waiting, Count, keyVars
<1> HIDE DEF waiting
<1>3. sdl' \in Seq(SdlEvent) /\ OneQuit(sdl') /\ SdlKeys(sdl') = Append(SdlKeys(sdl), e)
  BY <1>1, SdlKeysAppend DEF Keyboard
<1>4. pressed' \in Seq(Event) /\ received' \in Seq(Event)
  BY <1>1 DEF Keyboard
<1>5. ASSUME run_state' = "RUNNING", ~failed'
      PROVE  pressed' = received' \o waiting' \o SdlKeys(sdl')
  <2>1. /\ received \in Seq(Event) /\ waiting \in Seq(Event) /\ SdlKeys(sdl) \in Seq(Event)
        /\ pressed = received \o waiting \o SdlKeys(sdl)
    BY <1>1, <1>2, <1>5, SdlKeysType DEF Keyboard, KeysReachGuest
  <2>2. received \o waiting \in Seq(Event)
    BY <2>1
  <2>3. (received \o waiting) \o Append(SdlKeys(sdl), e) = Append((received \o waiting) \o SdlKeys(sdl), e)
    BY <2>1, <2>2, AppendLast
  <2> QED BY <1>1, <1>2, <1>3, <2>1, <2>3
<1>6. ~failed' => waiting' \in Seq(Event)
  BY <1>2 DEF Keyboard
<1> QED BY <1>2, <1>3, <1>4, <1>5, <1>6 DEF Keyboard, KeysReachGuest

LEMMA KeyboardQuit ==
    ASSUME Keyboard, HostQuit
    PROVE  Keyboard'
<1>1. /\ sdl' = Append(sdl, Quit) /\ pressed' = pressed /\ received' = received
      /\ run_state' = run_state /\ UNCHANGED keyVars /\ \A k \in DOMAIN sdl : sdl[k] # Quit
  BY DEF HostQuit
<1>2. waiting' = waiting /\ Ring' /\ failed' = failed
  BY <1>1 DEF Keyboard, Ring, waiting, Count, keyVars
<1> HIDE DEF waiting
<1>3. sdl \in Seq(SdlEvent) /\ \A k \in 1 .. Len(sdl) : sdl[k] # Quit
  BY <1>1 DEF Keyboard
<1>4. sdl' \in Seq(SdlEvent) /\ OneQuit(sdl') /\ SdlKeys(sdl') = SdlKeys(sdl)
  BY <1>1, <1>3, SdlKeysQuit
<1> QED BY <1>1, <1>2, <1>4 DEF Keyboard, KeysReachGuest

LEMMA KeyboardPoll ==
    ASSUME Keyboard, SDL_PollEvent
    PROVE  Keyboard'
<1>1. ~failed /\ pressed' = pressed /\ received' = received
  BY DEF SDL_PollEvent
<1>2. CASE sdl = <<>>
  <2>1. UNCHANGED <<keyVars, sdl, pressed, received>> /\ run_state' = run_state
    BY <1>2 DEF SDL_PollEvent
  <2> QED BY <2>1, KeyboardFrame
<1>3. CASE sdl # <<>>
  <2> DEFINE e == Head(sdl)
  <2>1. /\ sdl' = Tail(sdl)
        /\ IF e = Quit THEN run_state' = "QUIT" /\ UNCHANGED keyVars
           ELSE /\ UNCHANGED run_state
                /\ IF run_state = "RUNNING" THEN send_key(e) ELSE UNCHANGED keyVars
    BY <1>3 DEF SDL_PollEvent
  <2>2. /\ Tail(sdl) \in Seq(SdlEvent) /\ OneQuit(Tail(sdl)) /\ e \in SdlEvent
        /\ e # Quit => SdlKeys(sdl) # <<>> /\ Head(SdlKeys(sdl)) = e
                       /\ Tail(SdlKeys(sdl)) = SdlKeys(Tail(sdl))
    BY <1>3, SdlKeysHead DEF Keyboard
  <2>3. Ring /\ waiting \in Seq(Event)
    BY <1>1 DEF Keyboard
  <2> HIDE DEF e
  <2>4. CASE UNCHANGED keyVars /\ run_state' # "RUNNING"
    <3>1. waiting' = waiting /\ Ring' /\ failed' = failed
      BY <2>3, <2>4 DEF Ring, waiting, Count, keyVars
    <3> HIDE DEF waiting
    <3> QED BY <1>1, <2>1, <2>2, <2>3, <2>4, <3>1 DEF Keyboard, KeysReachGuest
  <2>5. CASE e # Quit /\ run_state = "RUNNING" /\ run_state' = run_state /\ send_key(e)
    <3>1. e \in Event
      BY <2>2, <2>5 DEF SdlEvent
    <3>2. Ring'
      BY <2>3, <2>5, <3>1, RingStep DEF KeyNext
    <3>3. Fifo!Press(e)
      BY <2>3, <2>5, <3>1, <3>2, FifoPress
    <3> HIDE DEF waiting
    <3>4. ASSUME ~failed'
          PROVE  waiting' = Append(waiting, e)
      BY <3>3, <3>4 DEF Fifo!Press
    <3>5. ASSUME ~failed'
          PROVE  pressed' = received' \o waiting' \o SdlKeys(sdl')
      <4> DEFINE k == SdlKeys(sdl)
      <4>1. /\ pressed = received \o waiting \o k
            /\ received \in Seq(Event) /\ waiting \in Seq(Event) /\ k \in Seq(Event)
        BY <1>1, <2>3, <2>5, SdlKeysType DEF Keyboard, KeysReachGuest
      <4>2. k # <<>> /\ Head(k) = e /\ Tail(k) = SdlKeys(sdl')
        BY <2>1, <2>2, <2>5
      <4> HIDE DEF k
      <4>3. received \o waiting \in Seq(Event)
        BY <4>1
      <4>4. received \o Append(waiting, e) = Append(received \o waiting, e)
        BY <3>1, <4>1, AppendLast
      <4>5. Append(received \o waiting, Head(k)) \o Tail(k) = (received \o waiting) \o k
        BY <4>1, <4>2, <4>3, HeadMoves
      <4> QED BY <1>1, <3>4, <3>5, <4>1, <4>2, <4>4, <4>5
    <3>6. ~failed' => waiting' \in Seq(Event)
      BY <2>3, <3>1, <3>4
    <3> QED BY <1>1, <2>1, <2>2, <3>2, <3>5, <3>6 DEF Keyboard, KeysReachGuest
  <2> QED BY <2>1, <2>4, <2>5
<1> QED BY <1>2, <1>3

(* A command at the prompt takes the events out of SDL's queue, and the    *)
(* keys among them out of those that the guest is owed.                    *)
LEMMA KeyboardClear ==
    ASSUME Keyboard, sdl_clear_event_queue
    PROVE  Keyboard'
<1> DEFINE k    == SdlKeys(sdl)
           owed == received \o waiting
<1>1. /\ sdl' = <<>> /\ pressed' = SubSeq(pressed, 1, Len(pressed) - Len(k))
      /\ run_state = "RUNNING" /\ ~failed /\ UNCHANGED keyVars /\ received' = received
      /\ run_state' = run_state
  BY DEF sdl_clear_event_queue
<1>2. waiting' = waiting /\ Ring' /\ failed' = failed
  BY <1>1 DEF Keyboard, Ring, waiting, Count, keyVars
<1> HIDE DEF waiting
<1>3. sdl' \in Seq(SdlEvent) /\ \A j \in 1 .. Len(sdl') : sdl'[j] # Quit
  BY <1>1
<1>4. SdlKeys(sdl') = <<>> /\ OneQuit(sdl')
  BY <1>1, <1>3, SdlKeysAll DEF OneQuit
<1>5. received \in Seq(Event) /\ waiting \in Seq(Event) /\ k \in Seq(Event) /\ pressed = owed \o k
  BY <1>1, SdlKeysType DEF Keyboard, KeysReachGuest
<1> HIDE DEF k
<1>6. owed \in Seq(Event)
  BY <1>5
<1> HIDE DEF owed
<1>7. Len(pressed) - Len(k) = Len(owed) /\ Len(owed) \in Nat
  BY <1>5, <1>6, ConcatProperties
<1>8. SubSeq(owed \o k, 1, Len(owed)) = owed
  <2>1. CASE Len(owed) = 0
    BY <1>5, <1>6, <2>1, SubSeqEmpty, EmptySeq
  <2>2. CASE Len(owed) # 0
    <3>1. 1 \in 1 .. Len(owed) /\ Len(owed) \in 1 .. Len(owed)
      BY <1>7, <2>2
    <3>2. SubSeq(owed \o k, 1, Len(owed)) = SubSeq(owed, 1, Len(owed))
      BY <1>5, <1>6, <3>1, SubSeqOfConcat1
    <3> QED BY <1>6, <3>2, SubSeqFull
  <2> QED BY <2>1, <2>2
<1>9. pressed' = owed
  BY <1>1, <1>5, <1>7, <1>8
<1>10. pressed' = received' \o waiting' \o SdlKeys(sdl') /\ pressed' \in Seq(Event)
  <2>1. owed \o <<>> = owed
    BY <1>6, ConcatEmptySeq
  <2> QED BY <1>1, <1>2, <1>4, <1>6, <1>9, <2>1 DEF owed
<1> QED BY <1>1, <1>2, <1>3, <1>4, <1>5, <1>10 DEF Keyboard, KeysReachGuest

LEMMA KeyboardStep == Keyboard /\ [DevNext]_devVars => Keyboard'
<1> SUFFICES ASSUME Keyboard, [DevNext]_devVars PROVE Keyboard'
  OBVIOUS
<1>1. CASE GuestKey
  BY <1>1, KeyboardGuest
<1>2. ASSUME NEW f \in Frames, GuestDraw(f) PROVE Keyboard'
  BY <1>2, KeyboardFrame DEF GuestDraw
<1>3. CASE GuestSync
  BY <1>3, KeyboardFrame DEF GuestSync
<1>4. CASE device_update
  BY <1>4, KeyboardFrame DEF device_update
<1>5. CASE SDL_PollEvent
  BY <1>5, KeyboardPoll
<1>6. CASE Tick
  BY <1>6, KeyboardFrame DEF Tick
<1>7. ASSUME NEW e \in Event, HostKey(e) PROVE Keyboard'
  BY <1>7, KeyboardHost
<1>8. CASE HostQuit
  BY <1>8, KeyboardQuit
<1>9. CASE sdl_clear_event_queue
  BY <1>9, KeyboardClear
<1>10. CASE UNCHANGED devVars
  BY <1>10, KeyboardFrame DEF devVars, loopVars
<1> QED BY <1>1, <1>2, <1>3, <1>4, <1>5, <1>6, <1>7, <1>8, <1>9, <1>10 DEF DevNext, Loop, Guest

(* Every key pressed reaches the guest, in order and once, through SDL's   *)
(* queue and the ring of keyboard.c, for every length of the ring, every   *)
(* set of keys, every period of device_update and every number of keys.    *)
THEOREM KeysAlwaysReachGuest == DevSpec => []KeysReachGuest
<1>1. Keyboard => KeysReachGuest
  BY DEF Keyboard
<1> QED BY <1>1, KeyboardInit, KeyboardStep, PTL DEF DevSpec

(* Before the guest writes the sync register nothing is owed to the        *)
(* window; from then on what the buffer holds may be shown.                *)
Window == /\ sync \in {0, 1}
          /\ WindowShowsSynced
          /\ sync # 0 => vmem \in showable

(* The window shows a frame the guest has asked for, whatever the frames,  *)
(* the period of device_update and the moments at which it comes.          *)
THEOREM WindowAlwaysSynced == DevSpec => []WindowShowsSynced
<1>1. DevInit => Window
  BY DEF DevInit, Window, WindowShowsSynced
<1>2. Window /\ [DevNext]_devVars => Window'
  <2> SUFFICES ASSUME Window, [DevNext]_devVars PROVE Window'
    OBVIOUS
  <2> USE DEF Window, WindowShowsSynced
  <2>1. CASE UNCHANGED vgaVars
    BY <2>1 DEF vgaVars
  <2>2. ASSUME NEW f \in Frames, GuestDraw(f) PROVE Window'
    BY <2>2 DEF GuestDraw
  <2>3. CASE GuestSync
    BY <2>3 DEF GuestSync
  <2>4. CASE device_update
    BY <2>4 DEF device_update, vga_update_screen, vgaVars
  <2> QED BY <2>1, <2>2, <2>3, <2>4
          DEF DevNext, Loop, Guest, GuestKey, SDL_PollEvent, Tick, HostKey, HostQuit,
              sdl_clear_event_queue, devVars
<1>3. Window => WindowShowsSynced
  BY DEF Window
<1> QED BY <1>1, <1>2, <1>3, PTL DEF DevSpec

-----------------------------------------------------------------------------
(* yield-os.  Room for the registers, and for what f keeps on its stack.   *)
StackFits == NR_REGS \in Nat /\ NR_REGS > GPR1 /\ STACK_SIZE \in Nat /\ STACK_SIZE >= NR_REGS + 7

(* The words of a PCB, with the boot stack for the boot thread.            *)
Words(p) == IF p = boot THEN {Base(boot)} \cup 3 * STACK_SIZE .. 4 * STACK_SIZE - 1
                      ELSE Base(p) .. Base(p + 1) - 1

Saved == Reg \ {r_sp}

(* Where the context of a suspended thread can be.                         *)
Frame(p) == IF p = boot THEN {4 * STACK_SIZE - CONTEXT_SIZE}
            ELSE {Base(p + 1) - 1 - CONTEXT_SIZE, Base(p + 1) - 2 - CONTEXT_SIZE}

(* In memory m, thread p will be resumed from what it left behind.         *)
Resumes(p, m, l) ==
    /\ l = <<m[m[Base(p)] + OFFSET_EPC], [r \in Saved |-> m[m[Base(p)] + r]]>>
    /\ m[Base(p)] \in Frame(p)
    /\ p # boot =>
          m[m[Base(p)] + OFFSET_EPC] =
            IF m[Base(p)] = Base(p + 1) - 1 - CONTEXT_SIZE THEN f_entry ELSE f_loop

(* The thread that runs.                                                   *)
Running ==
    /\ current \in PCB
    /\ current = boot => pc = main_ecall /\ sp = 4 * STACK_SIZE
    /\ current # boot => \/ pc = f_entry /\ sp = Base(current + 1) - 1
                         \/ pc \in {f_putch, f_ecall, f_loop} /\ sp = Base(current + 1) - 2

Switching == /\ mem \in [Addr -> Int] /\ reg \in [Reg -> Int]
             /\ left = [p \in PCB |-> left[p]]
             /\ Running
             /\ \A p \in PCB \ {current} : Resumes(p, mem, left[p])

LEMMA Places ==
    ASSUME StackFits
    PROVE  /\ STACK_SIZE \in Nat /\ NR_REGS \in Nat /\ NR_REGS > 3 /\ STACK_SIZE >= NR_REGS + 7
           /\ Base(0) = 0 /\ Base(1) = STACK_SIZE
           /\ Base(2) = 2 * STACK_SIZE
           /\ PCB = {0, 1, 2} /\ boot = 2
           /\ CONTEXT_SIZE = NR_REGS + 4 /\ OFFSET_EPC = NR_REGS + 2
           /\ Saved = Reg \ {2} /\ Reg = 1 .. NR_REGS - 1
           /\ Addr = 0 .. 4 * STACK_SIZE - 1
           /\ Words(0) = 0 .. STACK_SIZE - 1 /\ Words(1) = STACK_SIZE .. 2 * STACK_SIZE - 1
           /\ Words(2) = {2 * STACK_SIZE} \cup 3 * STACK_SIZE .. 4 * STACK_SIZE - 1
           /\ Base(0 + 1) = STACK_SIZE /\ Base(1 + 1) = 2 * STACK_SIZE
<1>1. Base(0) = 0 /\ Base(1) = STACK_SIZE /\ Base(2) = 2 * STACK_SIZE /\ boot = 2
      /\ Base(0 + 1) = STACK_SIZE /\ Base(1 + 1) = 2 * STACK_SIZE
  BY DEF StackFits, Base, boot
<1>2. /\ Words(0) = 0 .. STACK_SIZE - 1 /\ Words(1) = STACK_SIZE .. 2 * STACK_SIZE - 1
      /\ Words(2) = {2 * STACK_SIZE} \cup 3 * STACK_SIZE .. 4 * STACK_SIZE - 1
  BY <1>1 DEF Words
<1> QED BY <1>1, <1>2 DEF StackFits, GPR1, PCB, boot, CONTEXT_SIZE, OFFSET_EPC, Saved, Reg, r_sp, Addr

LEMMA OwnWords ==
    ASSUME StackFits, NEW p \in PCB
    PROVE  /\ Words(p) \subseteq Addr /\ Base(p) \in Words(p)
           /\ \A q \in PCB : q # p => Words(p) \cap Words(q) = {}
<1>1. Words(0) \cap Words(1) = {} /\ Words(0) \cap Words(2) = {} /\ Words(1) \cap Words(2) = {}
  <2>1. STACK_SIZE \in Nat /\ STACK_SIZE >= 7
    BY Places
  <2> DEFINE a == 0 .. STACK_SIZE - 1
             b == STACK_SIZE .. 2 * STACK_SIZE - 1
             c == {2 * STACK_SIZE} \cup 3 * STACK_SIZE .. 4 * STACK_SIZE - 1
  <2>2. a \cap b = {} /\ a \cap c = {} /\ b \cap c = {}
    BY <2>1
  <2> HIDE DEF a, b, c
  <2>3. Words(0) = a /\ Words(1) = b /\ Words(2) = c
    BY Places DEF a, b, c
  <2> QED BY <2>2, <2>3
<1>2. Words(0) \subseteq Addr /\ Words(1) \subseteq Addr /\ Words(2) \subseteq Addr
  BY Places
<1>3. Base(0) \in Words(0) /\ Base(1) \in Words(1) /\ Base(2) \in Words(2)
  <2> DEFINE S == STACK_SIZE
  <2>1. S \in Nat /\ S >= 7 /\ Base(0) = 0 /\ Base(1) = S /\ Base(2) = 2 * S
    BY Places
  <2>2. Words(0) = 0 .. S - 1 /\ Words(1) = S .. 2 * S - 1 /\ Words(2) = {2 * S} \cup 3 * S .. 4 * S - 1
    BY Places
  <2> HIDE DEF S
  <2>3. 0 \in 0 .. S - 1 /\ S \in S .. 2 * S - 1
    BY <2>1
  <2> QED BY <2>1, <2>2, <2>3
<1>4. p = 0 \/ p = 1 \/ p = 2
  BY Places
<1>5. \A q \in PCB : q = 0 \/ q = 1 \/ q = 2
  BY Places
<1> QED BY <1>1, <1>2, <1>3, <1>4, <1>5, Zenon

(* The frame a thread has pushed, or kcontext has made, is in its words.    *)
LEMMA FrameWords ==
    ASSUME StackFits, NEW p \in PCB, NEW c \in Frame(p)
    PROVE  /\ c \in Int
           /\ \A i \in 0 .. CONTEXT_SIZE - 1 : c + i \in Words(p) /\ c + i # Base(p)
           /\ OFFSET_EPC \in 0 .. CONTEXT_SIZE - 1 /\ Reg \subseteq 0 .. CONTEXT_SIZE - 1
           /\ OFFSET_EPC \notin Reg
<1>1. /\ STACK_SIZE \in Nat /\ NR_REGS \in Nat /\ NR_REGS > 3 /\ STACK_SIZE >= NR_REGS + 7
      /\ CONTEXT_SIZE = NR_REGS + 4 /\ OFFSET_EPC = NR_REGS + 2 /\ Reg = 1 .. NR_REGS - 1
  BY Places
<1>2. /\ OFFSET_EPC \in 0 .. CONTEXT_SIZE - 1 /\ Reg \subseteq 0 .. CONTEXT_SIZE - 1
      /\ OFFSET_EPC \notin Reg
  BY <1>1
<1>3. ASSUME NEW S \in Nat, NEW N \in Nat, S >= N + 7, NEW d \in {S - 1 - (N + 4), S - 2 - (N + 4)}
      PROVE  /\ d \in Int /\ \A i \in 0 .. N + 3 : d + i \in 1 .. S - 1
             /\ \A i \in 0 .. N + 3 : (S + d) + i \in S + 1 .. 2 * S - 1
  BY <1>3
<1>4. CASE p = 0
  <2>1. c \in {STACK_SIZE - 1 - (NR_REGS + 4), STACK_SIZE - 2 - (NR_REGS + 4)}
    BY <1>4, Places DEF Frame
  <2>2. c \in Int /\ \A i \in 0 .. CONTEXT_SIZE - 1 : c + i \in 1 .. STACK_SIZE - 1
    BY <1>1, <1>3, <2>1
  <2>3. Words(p) = 0 .. STACK_SIZE - 1 /\ Base(p) = 0
    BY <1>4, Places
  <2> QED BY <1>1, <1>2, <2>2, <2>3
<1>5. CASE p = 1
  <2>1. c - STACK_SIZE \in {STACK_SIZE - 1 - (NR_REGS + 4), STACK_SIZE - 2 - (NR_REGS + 4)} /\ c \in Int
    <3>1. c = 2 * STACK_SIZE - 1 - (NR_REGS + 4) \/ c = 2 * STACK_SIZE - 2 - (NR_REGS + 4)
      BY <1>5, Places DEF Frame
    <3> QED BY <1>1, <3>1
  <2>2. \A i \in 0 .. CONTEXT_SIZE - 1 : c + i \in STACK_SIZE + 1 .. 2 * STACK_SIZE - 1
    <3> TAKE i \in 0 .. CONTEXT_SIZE - 1
    <3>1. (STACK_SIZE + (c - STACK_SIZE)) + i \in STACK_SIZE + 1 .. 2 * STACK_SIZE - 1
      BY <1>1, <1>3, <2>1
    <3>2. (STACK_SIZE + (c - STACK_SIZE)) + i = c + i
      BY <1>1, <2>1
    <3> QED BY <3>1, <3>2
  <2>3. Words(p) = STACK_SIZE .. 2 * STACK_SIZE - 1 /\ Base(p) = STACK_SIZE
    BY <1>5, Places
  <2> QED BY <1>1, <1>2, <2>1, <2>2, <2>3
<1>6. CASE p = 2
  <2>1. c = 4 * STACK_SIZE - (NR_REGS + 4)
    BY <1>6, Places DEF Frame
  <2>2. c \in Int /\ \A i \in 0 .. CONTEXT_SIZE - 1 : c + i \in 3 * STACK_SIZE .. 4 * STACK_SIZE - 1
    BY <1>1, <2>1
  <2>3. /\ Base(p) = 2 * STACK_SIZE
        /\ \A a \in 3 * STACK_SIZE .. 4 * STACK_SIZE - 1 : a \in Words(p) /\ a # 2 * STACK_SIZE
    <3>1. Words(p) = {2 * STACK_SIZE} \cup 3 * STACK_SIZE .. 4 * STACK_SIZE - 1 /\ Base(p) = 2 * STACK_SIZE
      BY <1>6, Places
    <3>2. \A a \in 3 * STACK_SIZE .. 4 * STACK_SIZE - 1 : a # 2 * STACK_SIZE
      BY <1>1
    <3> QED BY <3>1, <3>2
  <2> QED BY <1>2, <2>2, <2>3
<1>7. p = 0 \/ p = 1 \/ p = 2
  BY Places
<1> QED BY <1>4, <1>5, <1>6, <1>7

(* Nothing outside its own words can change what a thread is resumed from. *)
LEMMA ResumesFrame ==
    ASSUME StackFits, NEW p \in PCB, NEW m, NEW n, NEW l, Resumes(p, m, l),
           \A a \in Words(p) : n[a] = m[a]
    PROVE  Resumes(p, n, l)
<1> DEFINE c == m[Base(p)]
<1>1. n[Base(p)] = c
  BY OwnWords
<1>2. c \in Frame(p)
  BY DEF Resumes
<1> HIDE DEF c
<1>3. \A i \in 0 .. CONTEXT_SIZE - 1 : n[c + i] = m[c + i]
  BY <1>2, FrameWords
<1>4. n[c + OFFSET_EPC] = m[c + OFFSET_EPC]
  BY <1>2, <1>3, FrameWords
<1>5. [r \in Saved |-> n[c + r]] = [r \in Saved |-> m[c + r]]
  <2>1. \A r \in Saved : n[c + r] = m[c + r]
    BY <1>2, <1>3, FrameWords DEF Saved
  <2> QED BY <2>1
<1> QED BY <1>1, <1>4, <1>5 DEF Resumes, c

LEMMA OthersKeep ==
    ASSUME StackFits, Switching, NEW n, \A a \in Addr \ Words(current) : n[a] = mem[a]
    PROVE  \A p \in PCB \ {current} : Resumes(p, n, left[p])
<1> TAKE p \in PCB \ {current}
<1>1. \A a \in Words(p) : n[a] = mem[a]
  BY OwnWords DEF Switching, Running
<1>2. Resumes(p, mem, left[p])
  BY DEF Switching
<1> QED BY <1>1, <1>2, ResumesFrame

(* f stores its argument in a word of its own.                             *)
LEMMA EntryKeeps ==
    ASSUME StackFits, Switching, f_Entry
    PROVE  Switching'
<1>1. /\ pc = f_entry /\ sp' = sp - 1 /\ mem' = [mem EXCEPT ![sp - 1] = reg[A0]]
      /\ pc' = f_putch /\ reg' = reg /\ current' = current /\ left' = left
  BY DEF f_Entry
<1>2. current \in PCB /\ current # boot /\ sp = Base(current + 1) - 1
  BY <1>1 DEF Switching, Running, f_entry, f_putch, f_ecall, f_loop, main_ecall
<1>3. sp - 1 \in Words(current) /\ sp - 1 = Base(current + 1) - 2
  <2>1. CASE current = 0
    BY <1>2, <2>1, Places
  <2>2. CASE current = 1
    BY <1>2, <2>2, Places
  <2> QED BY <1>2, <2>1, <2>2, Places
<1>4. \A a \in Addr \ Words(current) : mem'[a] = mem[a]
  BY <1>1, <1>2, <1>3, OwnWords DEF Switching
<1>5. \A p \in PCB \ {current} : Resumes(p, mem', left[p])
  BY <1>4, OthersKeep
<1>6. mem' \in [Addr -> Int]
  <2>1. A0 \in Reg
    BY Places DEF A0
  <2> QED BY <1>1, <2>1 DEF Switching
<1>7. Running'
  BY <1>1, <1>2, <1>3 DEF Running
<1> QED BY <1>1, <1>5, <1>6, <1>7 DEF Switching

(* What __am_asm_trap and the handler leave in memory.                     *)
Trapped == __am_irq_handle(sp - CONTEXT_SIZE, Push(sp - CONTEXT_SIZE, mem))

LEMMA TrapPushes ==
    ASSUME StackFits, Switching, pc \in {main_ecall, f_ecall}
    PROVE  /\ sp - CONTEXT_SIZE \in Frame(current)
           /\ Trapped \in [Addr -> Int]
           /\ \A a \in Addr \ Words(current) : Trapped[a] = mem[a]
           /\ Resumes(current, Trapped, <<pc + 4, [r \in Saved |-> reg[r]]>>)
<1> DEFINE c == sp - CONTEXT_SIZE
           b == Base(current)
           pushed == Push(c, mem)
<1>1. current \in PCB /\ pc \in Int
  BY DEF Switching, Running, main_ecall, f_ecall
<1>2. c \in Frame(current) /\ (current # boot => c = Base(current + 1) - 2 - CONTEXT_SIZE /\ pc = f_ecall)
  <2>1. CASE current = boot
    BY <2>1 DEF Switching, Running, Frame
  <2>2. CASE current # boot
    BY <2>2 DEF Switching, Running, Frame, f_entry, f_putch, f_ecall, f_loop, main_ecall
  <2> QED BY <2>1, <2>2
<1> HIDE DEF c
<1>3. /\ c \in Int /\ OFFSET_EPC \in 0 .. CONTEXT_SIZE - 1 /\ OFFSET_EPC \notin Reg
      /\ \A i \in 0 .. CONTEXT_SIZE - 1 : c + i \in Words(current) /\ c + i # b
      /\ Saved \subseteq Reg /\ Saved \subseteq 0 .. CONTEXT_SIZE - 1
      /\ OFFSET_EPC \in Int /\ Saved \subseteq Int
  <2>1. Reg \subseteq 0 .. CONTEXT_SIZE - 1 /\ Saved \subseteq Reg
    BY <1>1, <1>2, FrameWords DEF Saved
  <2>2. OFFSET_EPC \in Int /\ Saved \subseteq Int
    BY Places
  <2> QED BY <1>1, <1>2, <2>1, <2>2, FrameWords
<1>4. b \in Words(current) /\ Words(current) \subseteq Addr /\ Addr \subseteq Int
  BY <1>1, OwnWords, Places
<1> HIDE DEF b
<1>5. pushed = [a \in Addr |-> IF a - c \in Saved THEN reg[a - c]
                                 ELSE IF a - c = OFFSET_EPC THEN pc ELSE mem[a]]
  BY DEF Push, Saved
<1> HIDE DEF pushed
<1>6. Trapped = [pushed EXCEPT ![c + OFFSET_EPC] = @ + 4, ![b] = c]
  BY DEF Trapped, __am_irq_handle, pushed, c, b
<1>7. pushed \in [Addr -> Int]
  BY <1>1, <1>3, <1>5 DEF Switching
<1>8. /\ Trapped \in [Addr -> Int] /\ Trapped[b] = c
      /\ Trapped[c + OFFSET_EPC] = pushed[c + OFFSET_EPC] + 4
      /\ \A a \in Addr : a # b /\ a # c + OFFSET_EPC => Trapped[a] = pushed[a]
  BY <1>3, <1>4, <1>6, <1>7
<1>9. pushed[c + OFFSET_EPC] = pc
  <2>1. c + OFFSET_EPC \in Addr /\ (c + OFFSET_EPC) - c = OFFSET_EPC /\ OFFSET_EPC \notin Saved
    BY <1>3, <1>4
  <2> QED BY <1>5, <2>1
<1>10. ASSUME NEW r \in Saved PROVE Trapped[c + r] = reg[r]
  <2>1. c + r \in Addr /\ (c + r) - c = r /\ c + r # b /\ c + r # c + OFFSET_EPC
    BY <1>3, <1>4
  <2> QED BY <1>5, <1>8, <2>1
<1>11. ASSUME NEW a \in Addr \ Words(current) PROVE Trapped[a] = mem[a]
  <2>1. a - c \notin Saved /\ a - c # OFFSET_EPC /\ a # b /\ a # c + OFFSET_EPC
    <3>1. \A i \in 0 .. CONTEXT_SIZE - 1 : a # c + i
      BY <1>3
    <3>2. a - c \notin 0 .. CONTEXT_SIZE - 1
      <4>1. a = c + (a - c)
        BY <1>3, <1>4
      <4> QED BY <3>1, <4>1
    <3> QED BY <1>3, <1>4, <3>1, <3>2
  <2> QED BY <1>5, <1>8, <2>1
<1>12. [r \in Saved |-> Trapped[c + r]] = [r \in Saved |-> reg[r]]
  BY <1>10
<1>13. Resumes(current, Trapped, <<pc + 4, [r \in Saved |-> reg[r]]>>)
  <2>1. current # boot => pc + 4 = f_loop /\ c # Base(current + 1) - 1 - CONTEXT_SIZE
    <3>1. ASSUME current # boot
          PROVE  Base(current + 1) - 2 - CONTEXT_SIZE # Base(current + 1) - 1 - CONTEXT_SIZE
      <4>1. Base(current + 1) \in Int /\ CONTEXT_SIZE \in Int
        BY <1>1, <3>1, Places
      <4> QED BY <4>1
    <3> QED BY <1>2, <3>1 DEF f_ecall, f_loop
  <2> QED BY <1>2, <1>8, <1>9, <1>12, <2>1 DEF Resumes, b
<1> QED BY <1>2, <1>8, <1>11, <1>13 DEF c

LEMMA TrapKeeps ==
    ASSUME StackFits, Switching, Trap
    PROVE  Switching'
<1> DEFINE m == Trapped
           to == schedule(current)
           n == m[Base(to)]
<1>1. /\ pc \in {main_ecall, f_ecall} /\ mem' = m /\ current' = to
      /\ reg' = [r \in Reg |-> IF r = r_sp THEN reg[r] ELSE m[n + r]]
      /\ sp' = n + CONTEXT_SIZE /\ pc' = m[n + OFFSET_EPC]
      /\ left' = [left EXCEPT ![current] = <<pc + 4, [r \in Saved |-> reg[r]]>>]
  BY DEF Trap, Trapped, Saved
<1>2. /\ m \in [Addr -> Int]
      /\ \A a \in Addr \ Words(current) : m[a] = mem[a]
      /\ Resumes(current, m, <<pc + 4, [r \in Saved |-> reg[r]]>>)
  BY <1>1, TrapPushes
<1> HIDE DEF m
<1>3. \A p \in PCB \ {current} : Resumes(p, m, left[p])
  BY <1>2, OthersKeep
<1>4. current \in PCB /\ to \in PCB /\ to # current /\ to # boot
  BY Places DEF Switching, Running, schedule
<1> HIDE DEF to
<1>5. left' = [p \in PCB |-> left'[p]] /\ left'[current] = <<pc + 4, [r \in Saved |-> reg[r]]>>
      /\ \A p \in PCB \ {current} : left'[p] = left[p]
  <2> DEFINE l == <<pc + 4, [r \in Saved |-> reg[r]]>>
  <2>1. left' = [left EXCEPT ![current] = l] /\ left = [p \in PCB |-> left[p]]
    BY <1>1 DEF Switching
  <2> HIDE DEF l
  <2>2. left' = [p \in PCB |-> left'[p]] /\ left'[current] = l
        /\ \A p \in PCB \ {current} : left'[p] = left[p]
    BY <1>4, <2>1
  <2> QED BY <2>2 DEF l
<1>6. \A p \in PCB : Resumes(p, mem', left'[p])
  BY <1>1, <1>2, <1>3, <1>5
<1>7. /\ n \in Frame(to)
      /\ m[n + OFFSET_EPC] = IF n = Base(to + 1) - 1 - CONTEXT_SIZE THEN f_entry ELSE f_loop
  BY <1>3, <1>4 DEF Resumes
<1> HIDE DEF n
<1>8. reg' \in [Reg -> Int]
  <2>1. \A r \in Reg : n + r \in Addr
    BY <1>4, <1>7, FrameWords, OwnWords
  <2> QED BY <1>1, <1>2, <2>1 DEF Switching
<1>9. Running'
  <2>1. /\ n = Base(to + 1) - 1 - CONTEXT_SIZE => sp' = Base(to + 1) - 1
        /\ n = Base(to + 1) - 2 - CONTEXT_SIZE => sp' = Base(to + 1) - 2
        /\ Base(to + 1) - 1 - CONTEXT_SIZE # Base(to + 1) - 2 - CONTEXT_SIZE
    <3>1. Base(to + 1) \in Int /\ CONTEXT_SIZE \in Int
      BY <1>4, Places
    <3> QED BY <1>1, <3>1
  <2>2. n = Base(to + 1) - 1 - CONTEXT_SIZE \/ n = Base(to + 1) - 2 - CONTEXT_SIZE
    BY <1>4, <1>7 DEF Frame
  <2> QED BY <1>1, <1>4, <1>7, <2>1, <2>2 DEF Running
<1> QED BY <1>1, <1>2, <1>5, <1>6, <1>8, <1>9 DEF Switching

(* The context kcontext makes, at the high end of the words of p.          *)
LEMMA KcontextMakes ==
    ASSUME StackFits, NEW p \in {0, 1}, NEW arg \in Int, NEW m \in [Addr -> Int],
           \A r \in Saved \ {A0} : m[Base(p + 1) - 1 - CONTEXT_SIZE + r] = 0
    PROVE  /\ kcontext(p, arg, m) \in [Addr -> Int]
           /\ \A a \in Addr \ Words(p) : kcontext(p, arg, m)[a] = m[a]
           /\ Resumes(p, kcontext(p, arg, m), <<f_entry, [r \in Saved |-> IF r = A0 THEN arg ELSE 0]>>)
<1> DEFINE c == Base(p + 1) - 1 - CONTEXT_SIZE
           k == kcontext(p, arg, m)
           b == Base(p)
<1>1. p \in PCB /\ p # boot /\ A0 \in Saved /\ Saved \subseteq Reg
  <2>1. PCB = {0, 1, 2} /\ boot = 2
    BY Places
  <2>2. A0 \in Saved /\ Saved \subseteq Reg
    BY Places DEF A0, Saved, Reg, r_sp
  <2> QED BY <2>1, <2>2
<1>2. NR_REGS \in Nat /\ CONTEXT_SIZE = NR_REGS + 4 /\ sizeof_Context = NR_REGS + 5 /\ Base(p + 1) \in Int
      /\ Saved \subseteq Int /\ OFFSET_EPC = NR_REGS + 2 /\ A0 = 1
  BY Places DEF sizeof_Context, A0
<1>3. c = Base(p + 1) - sizeof_Context
  BY <1>2
<1>4. c \in Frame(p)
  BY <1>1 DEF Frame
<1>5. c + NR_REGS + 4 = Base(p + 1) - 1
  BY <1>2
<1>6. Base(p + 1) - 1 \in Words(p) /\ Base(p + 1) - 1 # b
  <2>1. CASE p = 0
    <3>1. Base(p + 1) = STACK_SIZE /\ b = 0 /\ Words(p) = 0 .. STACK_SIZE - 1 /\ STACK_SIZE \in Nat /\ STACK_SIZE > 7
      BY <2>1, Places
    <3> QED BY <3>1
  <2>2. CASE p = 1
    <3>1. Base(p + 1) = 2 * STACK_SIZE /\ b = STACK_SIZE /\ Words(p) = STACK_SIZE .. 2 * STACK_SIZE - 1
          /\ STACK_SIZE \in Nat /\ STACK_SIZE > 7
      BY <2>2, Places
    <3> QED BY <3>1
  <2> QED BY <2>1, <2>2
<1>7. /\ c \in Int /\ \A i \in 0 .. CONTEXT_SIZE - 1 : c + i \in Words(p) /\ c + i # b
      /\ OFFSET_EPC \in 0 .. CONTEXT_SIZE - 1 /\ Saved \subseteq 0 .. CONTEXT_SIZE - 1
      /\ OFFSET_EPC \notin Saved
  BY <1>1, <1>4, FrameWords
<1>8. b \in Words(p) /\ Words(p) \subseteq Addr /\ Addr \subseteq Int
  BY <1>1, OwnWords, Places
<1>9. k = [m EXCEPT ![c + OFFSET_EPC] = f_entry, ![c + A0] = arg, ![c + NR_REGS + 4] = 3, ![b] = c]
  BY <1>3 DEF kcontext
<1>10. \A i \in 0 .. CONTEXT_SIZE - 1 : c + i # c + NR_REGS + 4
  BY <1>2, <1>7
<1> HIDE DEF c, k, b
<1>11. c + OFFSET_EPC \in Words(p) /\ c + A0 \in Words(p) /\ c + NR_REGS + 4 \in Words(p)
       /\ c + OFFSET_EPC # b /\ c + A0 # b /\ c + NR_REGS + 4 # b
       /\ c + OFFSET_EPC # c + A0 /\ c + OFFSET_EPC # c + NR_REGS + 4 /\ c + A0 # c + NR_REGS + 4
  <2>1. c + NR_REGS + 4 \in Words(p) /\ c + NR_REGS + 4 # b
    BY <1>5, <1>6 DEF c, b
  <2>2. c + OFFSET_EPC # c + A0
    BY <1>1, <1>2, <1>7
  <2> QED BY <1>1, <1>7, <1>10, <2>1, <2>2
<1>12. /\ k \in [Addr -> Int]
       /\ \A a \in Addr \ Words(p) : k[a] = m[a]
       /\ k[b] = c /\ k[c + OFFSET_EPC] = f_entry /\ k[c + A0] = arg
       /\ \A a \in Addr : a \notin {c + OFFSET_EPC, c + A0, c + NR_REGS + 4, b} => k[a] = m[a]
  BY <1>7, <1>8, <1>9, <1>11 DEF f_entry
<1>13. \A r \in Saved : k[c + r] = IF r = A0 THEN arg ELSE 0
  <2> TAKE r \in Saved
  <2>1. CASE r # A0
    <3>1. c + r \in Addr /\ c + r \notin {c + OFFSET_EPC, c + A0, c + NR_REGS + 4, b}
      BY <1>1, <1>2, <1>7, <1>8, <1>10, <2>1
    <3> QED BY <1>12, <2>1, <3>1 DEF c
  <2> QED BY <1>12, <2>1
<1>14. Resumes(p, k, <<f_entry, [r \in Saved |-> IF r = A0 THEN arg ELSE 0]>>)
  <2>1. [r \in Saved |-> IF r = A0 THEN arg ELSE 0] = [r \in Saved |-> k[c + r]]
    BY <1>13
  <2>2. c = Base(p + 1) - 1 - CONTEXT_SIZE
    BY DEF c
  <2> QED BY <1>1, <1>4, <1>12, <2>1, <2>2 DEF Resumes, b
<1> QED BY <1>12, <1>14 DEF k

LEMMA SwitchingInit ==
    ASSUME StackFits, YieldInit
    PROVE  Switching
<1> DEFINE zero == [a \in Addr |-> 0]
           one == kcontext(0, 1, zero)
<1>1. /\ mem = kcontext(1, 2, one) /\ reg = [r \in Reg |-> 0] /\ sp = 4 * STACK_SIZE
      /\ pc = main_ecall /\ current = boot
      /\ left = [p \in PCB |-> IF p = boot THEN <<>>
                                 ELSE <<f_entry, [r \in Saved |-> IF r = A0 THEN p + 1 ELSE 0]>>]
  BY DEF YieldInit, Saved
<1>2. PCB = {0, 1, 2} /\ boot = 2 /\ 0 \in PCB /\ 1 \in PCB
  BY Places
<1>3. zero \in [Addr -> Int] /\ \A a \in Addr : zero[a] = 0
  OBVIOUS
<1> HIDE DEF zero
<1>4. ASSUME NEW p \in {0, 1}, NEW r \in Saved
      PROVE  Base(p + 1) - 1 - CONTEXT_SIZE + r \in Words(p) /\ Words(p) \subseteq Addr
  <2>1. Base(p + 1) - 1 - CONTEXT_SIZE \in Frame(p) /\ p \in PCB
    BY <1>2 DEF Frame
  <2>2. r \in 0 .. CONTEXT_SIZE - 1
    BY <2>1, FrameWords DEF Saved
  <2> QED BY <2>1, <2>2, FrameWords, OwnWords
<1>5. /\ one \in [Addr -> Int]
      /\ \A a \in Addr \ Words(0) : one[a] = zero[a]
      /\ Resumes(0, one, <<f_entry, [r \in Saved |-> IF r = A0 THEN 1 ELSE 0]>>)
  <2>1. \A r \in Saved \ {A0} : zero[Base(0 + 1) - 1 - CONTEXT_SIZE + r] = 0
    BY <1>3, <1>4
  <2>2. 0 \in {0, 1} /\ 1 \in Int
    OBVIOUS
  <2> QED BY <1>3, <2>1, <2>2, KcontextMakes, Zenon
<1> HIDE DEF one
<1>6. Words(0) \cap Words(1) = {}
  BY <1>2, OwnWords
<1>7. /\ mem \in [Addr -> Int]
      /\ \A a \in Addr \ Words(1) : mem[a] = one[a]
      /\ Resumes(1, mem, <<f_entry, [r \in Saved |-> IF r = A0 THEN 2 ELSE 0]>>)
  <2>1. \A r \in Saved \ {A0} : one[Base(1 + 1) - 1 - CONTEXT_SIZE + r] = 0
    BY <1>3, <1>4, <1>5, <1>6
  <2>2. 1 \in {0, 1} /\ 2 \in Int
    OBVIOUS
  <2>3. /\ kcontext(1, 2, one) \in [Addr -> Int]
        /\ \A a \in Addr \ Words(1) : kcontext(1, 2, one)[a] = one[a]
        /\ Resumes(1, kcontext(1, 2, one), <<f_entry, [r \in Saved |-> IF r = A0 THEN 2 ELSE 0]>>)
    BY <1>5, <2>1, <2>2, KcontextMakes, Zenon
  <2> QED BY <1>1, <2>3, Zenon
<1>8. Resumes(0, mem, <<f_entry, [r \in Saved |-> IF r = A0 THEN 1 ELSE 0]>>)
  <2>1. \A a \in Words(0) : mem[a] = one[a]
    BY <1>2, <1>6, <1>7, OwnWords
  <2> QED BY <1>2, <1>5, <2>1, ResumesFrame
<1>9. /\ left[0] = <<f_entry, [r \in Saved |-> IF r = A0 THEN 0 + 1 ELSE 0]>>
      /\ left[1] = <<f_entry, [r \in Saved |-> IF r = A0 THEN 1 + 1 ELSE 0]>>
  <2> DEFINE l(p) == IF p = boot THEN <<>> ELSE <<f_entry, [r \in Saved |-> IF r = A0 THEN p + 1 ELSE 0]>>
  <2>1. left = [p \in PCB |-> l(p)]
    BY <1>1
  <2>2. l(0) = <<f_entry, [r \in Saved |-> IF r = A0 THEN 0 + 1 ELSE 0]>>
        /\ l(1) = <<f_entry, [r \in Saved |-> IF r = A0 THEN 1 + 1 ELSE 0]>>
    BY <1>2
  <2> HIDE DEF l
  <2>3. left[0] = l(0) /\ left[1] = l(1)
    BY <1>2, <2>1
  <2> QED BY <2>2, <2>3
<1>10. 0 + 1 = 1 /\ 1 + 1 = 2
  OBVIOUS
<1>11. Resumes(0, mem, left[0]) /\ Resumes(1, mem, left[1])
  BY <1>7, <1>8, <1>9, <1>10
<1>12. Running
  BY <1>1, <1>2 DEF Running
<1>13. left = [p \in PCB |-> left[p]] /\ reg \in [Reg -> Int]
  BY <1>1
<1>14. \A p \in PCB \ {current} : p = 0 \/ p = 1
  BY <1>1, <1>2
<1> QED BY <1>7, <1>11, <1>12, <1>13, <1>14 DEF Switching

LEMMA SwitchingStep == StackFits /\ Switching /\ [YieldNext]_yieldVars => Switching'
<1> SUFFICES ASSUME StackFits, Switching, [YieldNext]_yieldVars PROVE Switching'
  OBVIOUS
<1>1. CASE f_Entry
  BY <1>1, EntryKeeps
<1>2. CASE f_Putch
  <2>1. reg' \in [Reg -> Int]
    BY <1>2 DEF f_Putch
  <2>2. /\ pc = f_putch /\ pc' = f_ecall /\ mem' = mem /\ sp' = sp /\ current' = current /\ left' = left
    BY <1>2 DEF f_Putch
  <2>3. Running'
    BY <2>2 DEF Switching, Running, f_putch, f_ecall, f_entry, main_ecall
  <2> QED BY <2>1, <2>2, <2>3 DEF Switching
<1>3. CASE f_Loop
  <2>1. /\ pc = f_loop /\ pc' = f_putch /\ UNCHANGED <<mem, reg, sp, current, left>>
    BY <1>3 DEF f_Loop
  <2>2. Running'
    BY <2>1 DEF Switching, Running, f_putch, f_loop, f_entry, main_ecall
  <2> QED BY <2>1, <2>2 DEF Switching
<1>4. CASE Trap
  BY <1>4, TrapKeeps
<1>5. CASE UNCHANGED yieldVars
  BY <1>5 DEF yieldVars, Switching, Running
<1> QED BY <1>1, <1>2, <1>3, <1>4, <1>5 DEF YieldNext

(* The context a suspended thread will be resumed from is intact, and a    *)
(* thread comes back with its stack pointer where it was, for every number *)
(* of saved registers and every size of the stacks with room for a Context *)
(* and what f keeps beside it.                                             *)
THEOREM ContextsStayIntact ==
    ASSUME StackFits
    PROVE  YieldSpec => []ContextsIntact
<1>1. YieldInit => Switching
  BY SwitchingInit
<1>2. Switching /\ [YieldNext]_yieldVars => Switching'
  BY SwitchingStep
<1>3. Switching => ContextsIntact
  <2> SUFFICES ASSUME Switching PROVE ContextsIntact
    OBVIOUS
  <2>1. ContextsSaved
    BY DEF Switching, Resumes, ContextsSaved, Saved
  <2>2. StacksKept
    BY DEF Switching, Running, StacksKept, f_putch, f_ecall, f_loop, f_entry, main_ecall
  <2> QED BY <2>1, <2>2 DEF ContextsIntact
<1> QED BY <1>1, <1>2, <1>3, PTL DEF YieldSpec
-----------------------------------------------------------------------------
(* The time.  Clocked: the words of 2^32, and a clock that counts to some  *)
(* time, as long as it may be.                                             *)
Clocked == Word \in Nat \ {0} /\ MaxTime \in Nat

(* Between the two reads of a call the words latched by the first stay.    *)
Latched == /\ us \in 0 .. MaxTime /\ low \in Nat /\ high_part \in Nat
           /\ begun # None => /\ begun \in Nat /\ begun <= us
                              /\ high_part * Word + low = begun

LEMMA WordsOfTime ==
    ASSUME NEW t \in Nat, NEW w \in Nat \ {0}
    PROVE  /\ t = w * (t \div w) + (t % w)
           /\ t \div w \in Nat /\ t % w \in 0 .. w - 1
BY Z3

(* The rtc latches both words when the high one is read, so a call returns *)
(* the time at which it began: between two reads the low word may wrap as  *)
(* often as it likes.  With the CLINT, which latches them at every read,   *)
(* this is false (README, section 5).                                      *)
THEOREM UptimeIsDuringCall ==
    ASSUME Clocked, Device = "rtc"
    PROVE  TimerSpec => UptimeDuringCall
<1>1. TimerInit => Latched
  BY DEF TimerInit, Latched, Clocked
<1>2. ASSUME Latched, [TimerNext]_timerVars PROVE Latched'
  <2>1. CASE Pass
    BY <1>2, <2>1 DEF Latched, Pass, Clocked
  <2>2. CASE ReadHigh
    <3>1. low' = us % Word /\ high_part' = us \div Word /\ begun' = us /\ us' = us
      BY <2>2 DEF ReadHigh, inl, rtc_io_handler
    <3>2. us \in Nat /\ Word \in Nat \ {0}
      BY <1>2 DEF Latched, Clocked
    <3>3. us = Word * high_part' + low' /\ high_part' \in Nat /\ low' \in 0 .. Word - 1
      BY <3>1, <3>2, WordsOfTime
    <3>4. low' \in Nat /\ high_part' * Word + low' = us
      BY <3>2, <3>3
    <3> QED BY <1>2, <3>1, <3>2, <3>3, <3>4 DEF Latched
  <2>3. CASE ReadLow
    BY <1>2, <2>3 DEF Latched, ReadLow, inl, rtc_io_handler
  <2>4. CASE UNCHANGED timerVars
    BY <1>2, <2>4 DEF Latched, timerVars
  <2> QED BY <1>2, <2>1, <2>2, <2>3, <2>4 DEF TimerNext
<1>3. Latched => [ReadLow => begun <= uptime' /\ uptime' <= us]_timerVars
  <2> SUFFICES ASSUME Latched, ReadLow PROVE begun <= uptime' /\ uptime' <= us
    OBVIOUS
  <2>1. low' = low
    BY DEF ReadLow, inl, rtc_io_handler
  <2>2. uptime' = begun /\ begun \in Nat /\ begun <= us
    BY <2>1 DEF ReadLow, Latched
  <2> QED BY <2>2
<1> QED BY <1>1, <1>2, <1>3, PTL DEF TimerSpec, UptimeDuringCall

-----------------------------------------------------------------------------
(* The PS/2 keyboard.  The codes of keys are not those of the prefixes.    *)
CodesApart == KeyCodes \cap (Prefix \cup {NONE}) = {}

(* What the bytes of a key say: prefixes in front of its code.             *)
LEMMA BytesShape ==
    ASSUME NEW ev \in KeyEvent
    PROVE  /\ Bytes(ev) \in Seq(Prefix \cup KeyCodes)
           /\ Len(Bytes(ev)) = 1 + (IF ev.ext THEN 1 ELSE 0) + (IF ev.keydown THEN 0 ELSE 1)
           /\ ev.ext => Bytes(ev)[1] = "E0"
           /\ ~ev.keydown => Bytes(ev)[Len(Bytes(ev)) - 1] = "F0"
           /\ Bytes(ev)[Len(Bytes(ev))] = ev.code
<1> DEFINE b == Bytes(ev)
           S == Prefix \cup KeyCodes
<1>0. /\ ev.code \in S /\ ev.ext \in BOOLEAN /\ ev.keydown \in BOOLEAN
      /\ "E0" \in S /\ "F0" \in S
  BY DEF KeyEvent, Prefix
<1> HIDE DEF S
<1> DEFINE e == IF ev.ext THEN <<"E0">> ELSE <<>>
           f == IF ev.keydown THEN <<>> ELSE <<"F0">>
           c == <<ev.code>>
<1>1. /\ e \in Seq(S) /\ Len(e) = (IF ev.ext THEN 1 ELSE 0) /\ (ev.ext => e[1] = "E0")
      /\ f \in Seq(S) /\ Len(f) = (IF ev.keydown THEN 0 ELSE 1) /\ (~ev.keydown => f[1] = "F0")
      /\ c \in Seq(S) /\ Len(c) = 1 /\ c[1] = ev.code
  BY <1>0
<1> DEFINE g == e \o f
<1>2. b = g \o c
  BY DEF Bytes
<1> HIDE DEF b, e, f, c, g
<1>3. /\ g \in Seq(S) /\ Len(g) = Len(e) + Len(f)
      /\ \A i \in 1 .. Len(e) + Len(f) : g[i] = IF i <= Len(e) THEN e[i] ELSE f[i - Len(e)]
  BY <1>1, ConcatProperties DEF g
<1>4. /\ b \in Seq(S) /\ Len(b) = Len(g) + 1
      /\ \A i \in 1 .. Len(g) + 1 : b[i] = IF i <= Len(g) THEN g[i] ELSE c[i - Len(g)]
  BY <1>1, <1>2, <1>3, ConcatProperties
<1>5. Len(b) = 1 + (IF ev.ext THEN 1 ELSE 0) + (IF ev.keydown THEN 0 ELSE 1)
  BY <1>1, <1>3, <1>4
<1>6. ev.ext => b[1] = "E0"
  BY <1>1, <1>3, <1>4
<1>7. ~ev.keydown => b[Len(b) - 1] = "F0"
  BY <1>1, <1>3, <1>4
<1>8. b[Len(b)] = ev.code
  BY <1>1, <1>3, <1>4
<1> QED BY <1>4, <1>5, <1>6, <1>7, <1>8 DEF b, S

(* The m bytes b spell the key ev: prefixes, each at most once, and a code. *)
Spell(b, m, ev) ==
    /\ b \in Seq(Prefix \cup KeyCodes) /\ m \in 1 .. 3
    /\ b[m] = ev.code /\ \A j \in 1 .. m - 1 : b[j] \in Prefix
    /\ ev.ext <=> \E j \in 1 .. m - 1 : b[j] = "E0"
    /\ ~ev.keydown <=> \E j \in 1 .. m - 1 : b[j] = "F0"
    /\ \A i, j \in 1 .. m - 1 : b[i] = b[j] => i = j

(* Bytes(ev) spells ev.                                                    *)
LEMMA BytesSpell ==
    ASSUME NEW ev \in KeyEvent, NEW b, b = Bytes(ev)
    PROVE  Spell(b, Len(b), ev)
<1> USE DEF Spell
<1>1. /\ b \in Seq(Prefix \cup KeyCodes)
      /\ Len(b) = 1 + (IF ev.ext THEN 1 ELSE 0) + (IF ev.keydown THEN 0 ELSE 1)
      /\ ev.ext => b[1] = "E0"
      /\ ~ev.keydown => b[Len(b) - 1] = "F0"
      /\ b[Len(b)] = ev.code
  BY BytesShape
<1>2. CASE ev.ext = TRUE /\ ev.keydown = TRUE
  <2>1. Len(b) = 2 /\ 1 .. Len(b) - 1 = {1}
    BY <1>1, <1>2
  <2> QED BY <1>1, <1>2, <2>1 DEF Prefix
<1>3. CASE ev.ext = TRUE /\ ev.keydown = FALSE
  <2>1. Len(b) = 3 /\ 1 .. Len(b) - 1 = {1, 2} /\ Len(b) - 1 = 2
    BY <1>1, <1>3
  <2> QED BY <1>1, <1>3, <2>1 DEF Prefix
<1>4. CASE ev.ext = FALSE /\ ev.keydown = TRUE
  <2>1. Len(b) = 1 /\ 1 .. Len(b) - 1 = {}
    BY <1>1, <1>4
  <2> QED BY <1>1, <1>4, <2>1 DEF Prefix
<1>5. CASE ev.ext = FALSE /\ ev.keydown = FALSE
  <2>1. Len(b) = 2 /\ 1 .. Len(b) - 1 = {1} /\ Len(b) - 1 = 1
    BY <1>1, <1>5
  <2> QED BY <1>1, <1>5, <2>1 DEF Prefix
<1> QED BY <1>2, <1>3, <1>4, <1>5 DEF KeyEvent

(* What the keyboard has sent and the driver has not reported is one       *)
(* stream: the prefixes l that the driver has read and forgotten, the      *)
(* queue and the bytes on the wire.                                        *)
Joins(s, l, q, w) ==
    /\ Len(s) = Len(l) + Len(q) + Len(w)
    /\ \A j \in 1 .. Len(l) : s[j] = l[j]
    /\ \A j \in 1 .. Len(q) : s[Len(l) + j] = q[j]
    /\ \A j \in 1 .. Len(w) : s[Len(l) + Len(q) + j] = w[j]

(* A stream spells the keys ks from first to last: the bytes of key i      *)
(* follow the first at[i] bytes.                                           *)
Spells(q, ks, first, last, at) ==
    /\ \A i \in first .. last + 1 : at[i] \in Nat
    /\ \A i, j \in first .. last + 1 : i <= j => at[i] <= at[j]
    /\ at[first] = 0 /\ Len(q) = at[last + 1]
    /\ \A i \in first .. last :
          /\ at[i + 1] = at[i] + Len(Bytes(ks[i]))
          /\ \A j \in 1 .. Len(Bytes(ks[i])) : q[at[i] + j] = Bytes(ks[i])[j]

(* The forgotten prefixes are those of the next key, and no later key has  *)
(* lost one.                                                               *)
LostAre(l) ==
    /\ \A p \in Prefix : <<Len(got) + 1, p>> \in lost <=> \E j \in 1 .. Len(l) : l[j] = p
    /\ \A i \in Nat, p \in Prefix : i > Len(got) + 1 => <<i, p>> \notin lost

Byte == Prefix \cup KeyCodes
Sent == /\ typed \in Seq(KeyEvent) /\ got \in Seq(KeyEvent)
        /\ queue \in Seq(Byte) /\ wire \in Seq(Byte)
Stream(s, l, at) ==
        /\ s \in Seq(Byte) /\ l \in Seq(Prefix)
        /\ Joins(s, l, queue, wire)
        /\ LostAre(l)
        /\ Spells(s, typed, Len(got) + 1, Len(typed), at)
Polled == /\ Sent /\ InOrder /\ FlagsSeen
          /\ \E s, l, at : Stream(s, l, at)

(* A key is sent, a byte arrives, a poll forgets the prefixes that it has  *)
(* read, a poll takes a code and the prefixes in front of it.              *)
LEMMA JoinsType ==
    ASSUME NEW s \in Seq(Byte), NEW l \in Seq(Prefix), NEW q \in Seq(Byte), NEW b \in Seq(Byte),
           Joins(s, l, q, <<>>)
    PROVE  Joins(s \o b, l, q, b)
<1> DEFINE r == s \o b
           x == Len(l)
           y == Len(q)
           z == Len(b)
<1>1. x \in Nat /\ y \in Nat /\ z \in Nat /\ Len(s) = x + y
  BY DEF Joins
<1>2. /\ Len(r) = Len(s) + z
      /\ \A j \in 1 .. Len(s) + z : r[j] = IF j <= Len(s) THEN s[j] ELSE b[j - Len(s)]
  BY ConcatProperties
<1>3. (\A j \in 1 .. x : s[j] = l[j]) /\ \A j \in 1 .. y : s[x + j] = q[j]
  BY DEF Joins
<1> HIDE DEF r, x, y, z
<1>4. Len(r) = x + y + z
  BY <1>1, <1>2
<1>5. \A j \in 1 .. x : r[j] = l[j]
  BY <1>1, <1>2, <1>3
<1>6. \A j \in 1 .. y : r[x + j] = q[j]
  BY <1>1, <1>2, <1>3
<1>7. \A j \in 1 .. z : r[x + y + j] = b[j]
  <2> TAKE j \in 1 .. z
  <2>1. x + y + j \in 1 .. Len(s) + z /\ ~(x + y + j <= Len(s)) /\ (x + y + j) - Len(s) = j
    BY <1>1
  <2> QED BY <1>2, <2>1
<1> QED BY <1>4, <1>5, <1>6, <1>7 DEF Joins, r, x, y, z

(* A byte of the wire arrives in the queue.                                *)
LEMMA JoinsArrive ==
    ASSUME NEW s, NEW l \in Seq(Prefix), NEW q \in Seq(Byte), NEW w \in Seq(Byte), w # <<>>,
           Joins(s, l, q, w)
    PROVE  Joins(s, l, Append(q, Head(w)), Tail(w))
<1> DEFINE h == Append(q, Head(w))
           t == Tail(w)
           x == Len(l)
           y == Len(q)
           z == Len(w)
<1>1. x \in Nat /\ y \in Nat /\ z \in Nat \ {0} /\ Len(s) = x + y + z
  BY DEF Joins
<1>2. /\ Len(h) = y + 1 /\ h[y + 1] = w[1] /\ \A j \in 1 .. y : h[j] = q[j]
      /\ Len(t) = z - 1 /\ \A j \in 1 .. z - 1 : t[j] = w[j + 1]
  BY <1>1, HeadTailProperties, AppendProperties
<1>3. /\ \A j \in 1 .. x : s[j] = l[j]
      /\ \A j \in 1 .. y : s[x + j] = q[j]
      /\ \A j \in 1 .. z : s[x + y + j] = w[j]
  BY DEF Joins
<1> HIDE DEF h, t, x, y, z
<1>4. Len(s) = x + Len(h) + Len(t)
  BY <1>1, <1>2
<1>5. \A j \in 1 .. y + 1 : s[x + j] = h[j]
  <2> TAKE j \in 1 .. y + 1
  <2>1. CASE j \in 1 .. y
    BY <1>2, <1>3, <2>1
  <2>2. CASE j = y + 1
    <3>1. 1 \in 1 .. z /\ x + y + 1 = x + (y + 1)
      BY <1>1
    <3>2. s[x + y + 1] = w[1]
      BY <1>3, <3>1
    <3> QED BY <1>2, <2>2, <3>1, <3>2
  <2> QED BY <1>1, <2>1, <2>2
<1>6. \A j \in 1 .. z - 1 : s[x + (y + 1) + j] = t[j]
  <2> TAKE j \in 1 .. z - 1
  <2>1. j + 1 \in 1 .. z /\ x + (y + 1) + j = x + y + (j + 1)
    BY <1>1
  <2> QED BY <1>2, <1>3, <2>1
<1> QED BY <1>2, <1>3, <1>4, <1>5, <1>6 DEF Joins, h, t, x

(* A poll reads the queue's prefixes and nothing else.                     *)
LEMMA JoinsForget ==
    ASSUME NEW s, NEW l \in Seq(Prefix), NEW q \in Seq(Prefix), NEW w \in Seq(Byte),
           Joins(s, l, q, w)
    PROVE  Joins(s, l \o q, <<>>, w)
<1> DEFINE r == l \o q
           x == Len(l)
           y == Len(q)
           z == Len(w)
<1>1. x \in Nat /\ y \in Nat /\ z \in Nat /\ Len(s) = x + y + z
  BY DEF Joins
<1>2. /\ Len(r) = x + y
      /\ \A j \in 1 .. x + y : r[j] = IF j <= x THEN l[j] ELSE q[j - x]
  BY ConcatProperties
<1>3. /\ \A j \in 1 .. x : s[j] = l[j]
      /\ \A j \in 1 .. y : s[x + j] = q[j]
      /\ \A j \in 1 .. z : s[x + y + j] = w[j]
  BY DEF Joins
<1> HIDE DEF r, x, y, z
<1>4. \A j \in 1 .. x + y : s[j] = r[j]
  <2> TAKE j \in 1 .. x + y
  <2>1. CASE j <= x
    BY <1>1, <1>2, <1>3, <2>1
  <2>2. CASE ~(j <= x)
    <3>1. j - x \in 1 .. y /\ x + (j - x) = j
      BY <1>1, <2>2
    <3> QED BY <1>2, <1>3, <2>2, <3>1
  <2> QED BY <2>1, <2>2
<1>5. /\ Len(<<>>) = 0 /\ Len(s) = (x + y) + 0 + z
      /\ \A j \in 1 .. 0 : s[(x + y) + j] = <<>>[j]
  BY <1>1
<1>6. \A j \in 1 .. z : s[(x + y) + 0 + j] = w[j]
  <2>1. (x + y) + 0 = x + y
    BY <1>1
  <2> QED BY <1>3, <2>1
<1>7. Joins(s, r, <<>>, w)
  <2>1. Len(w) = z /\ Len(r) = x + y
    BY <1>2, Zenon DEF z
  <2> QED BY <1>4, <1>5, <1>6, <2>1 DEF Joins
<1> QED BY <1>7, Zenon DEF r

(* Where a byte is after n = x + k + 1 bytes were taken from the front.    *)
PlacesAfter(x, y, z, k, m, n) ==
    /\ \A j \in 1 .. y - (k + 1) : /\ 0 + j = j /\ j \in 1 .. m - n
                                  /\ n + j = x + ((k + 1) + j) /\ (k + 1) + j \in 1 .. y
    /\ \A j \in 1 .. z : /\ 0 + (y - (k + 1)) + j \in 1 .. m - n
                       /\ n + (0 + (y - (k + 1)) + j) = x + y + j

LEMMA PlacesLeft ==
    ASSUME NEW x \in Nat, NEW y \in Nat, NEW z \in Nat, NEW k \in Nat, k + 1 <= y,
           NEW m, m = x + y + z, NEW n, n = x + k + 1
    PROVE  PlacesAfter(x, y, z, k, m, n)
  BY DEF PlacesAfter

(* A poll takes k prefixes and a code from the queue: with l, the stream's *)
(* first n bytes.                                                          *)
LEMMA JoinsTake ==
    ASSUME NEW s \in Seq(Byte), NEW l \in Seq(Prefix), NEW q \in Seq(Byte), NEW w \in Seq(Byte),
           Joins(s, l, q, w), NEW k \in 0 .. Len(q) - 1, NEW n, n = Len(l) + k + 1
    PROVE  /\ SubSeq(q, k + 2, Len(q)) \in Seq(Byte)
           /\ Joins(SubSeq(s, n + 1, Len(s)), <<>>, SubSeq(q, k + 2, Len(q)), w)
<1> DEFINE r == SubSeq(s, n + 1, Len(s))
           t == SubSeq(q, k + 2, Len(q))
           x == Len(l)
           y == Len(q)
           z == Len(w)
           m == Len(s)
<1>1. x \in Nat /\ y \in Nat /\ z \in Nat /\ m = x + y + z /\ k \in Nat /\ k + 1 <= y
      /\ n \in Nat /\ n <= m /\ n = x + k + 1
  BY DEF Joins
<1>2. /\ Len(r) = m - n /\ \A j \in 1 .. m - n : r[j] = s[n + j]
  <2>1. n + 1 \in Int /\ m \in Int /\ \A i \in n + 1 .. m : s[i] \in Byte
    BY <1>1
  <2>2. /\ Len(r) = IF n + 1 <= m THEN m - (n + 1) + 1 ELSE 0
        /\ \A j \in 1 .. m - (n + 1) + 1 : r[j] = s[(n + 1) + j - 1]
    BY <2>1, SubSeqProperties
  <2> HIDE DEF r, m
  <2>3. m - (n + 1) + 1 = m - n /\ (~(n + 1 <= m) => m - n = 0)
        /\ \A j \in 1 .. m - n : (n + 1) + j - 1 = n + j
    BY <1>1
  <2> QED BY <2>2, <2>3
<1>3. /\ t \in Seq(Byte) /\ Len(t) = y - (k + 1) /\ \A j \in 1 .. y - (k + 1) : t[j] = q[(k + 1) + j]
  <2>1. k + 2 \in Int /\ y \in Int /\ \A i \in k + 2 .. y : q[i] \in Byte
    BY <1>1
  <2>2. /\ t \in Seq(Byte)
        /\ Len(t) = IF k + 2 <= y THEN y - (k + 2) + 1 ELSE 0
        /\ \A j \in 1 .. y - (k + 2) + 1 : t[j] = q[(k + 2) + j - 1]
    BY <2>1, SubSeqProperties
  <2> HIDE DEF t, y
  <2>3. y - (k + 2) + 1 = y - (k + 1) /\ (~(k + 2 <= y) => y - (k + 1) = 0)
        /\ \A j \in 1 .. y - (k + 1) : (k + 2) + j - 1 = (k + 1) + j
    BY <1>1
  <2> QED BY <2>2, <2>3
<1>4. /\ \A j \in 1 .. y : s[x + j] = q[j]
      /\ \A j \in 1 .. z : s[x + y + j] = w[j]
  BY DEF Joins
<1> HIDE DEF r, t, x, y, z, m
<1>5. PlacesAfter(x, y, z, k, m, n)
  BY <1>1, PlacesLeft, Zenon
<1>6. Len(r) = 0 + (y - (k + 1)) + z
  BY <1>1, <1>2
<1>7. \A j \in 1 .. y - (k + 1) : r[0 + j] = t[j]
  <2> TAKE j \in 1 .. y - (k + 1)
  <2>1. 0 + j = j /\ j \in 1 .. m - n /\ n + j = x + ((k + 1) + j) /\ (k + 1) + j \in 1 .. y
    BY <1>5, Zenon DEF PlacesAfter
  <2> QED BY <1>2, <1>3, <1>4, <2>1
<1>8. \A j \in 1 .. z : r[0 + (y - (k + 1)) + j] = w[j]
  <2> TAKE j \in 1 .. z
  <2>1. /\ 0 + (y - (k + 1)) + j \in 1 .. m - n
        /\ n + (0 + (y - (k + 1)) + j) = x + y + j
    BY <1>5, Zenon DEF PlacesAfter
  <2> QED BY <1>2, <1>4, <2>1
<1>9. Len(<<>>) = 0 /\ \A j \in 1 .. 0 : r[j] = <<>>[j]
  OBVIOUS
<1>10. Joins(r, <<>>, t, w)
  <2>1. Len(w) = z /\ Len(t) = y - (k + 1)
    BY <1>3, Zenon DEF z
  <2> QED BY <1>6, <1>7, <1>8, <1>9, <2>1 DEF Joins
<1> QED BY <1>3, <1>10, Zenon DEF r, t

(* getScan reads the prefixes in front of the queue and the byte after.    *)
LEMMA PrefixesAre ==
    ASSUME NEW q, Len(q) \in Nat, NEW k \in 0 .. Len(q),
           \A i \in 1 .. k : q[i] \in Prefix,
           k = Len(q) \/ q[k + 1] \notin Prefix
    PROVE  Prefixes(q) = k
<1> DEFINE P(n) == /\ \A i \in 1 .. n : q[i] \in Prefix
                   /\ n = Len(q) \/ q[n + 1] \notin Prefix
<1>1. \A n \in 0 .. Len(q) : P(n) => n = k
  <2> SUFFICES ASSUME NEW n \in 0 .. Len(q), P(n) PROVE n = k
    OBVIOUS
  <2>1. ~(n < k)
    <3> SUFFICES ASSUME n < k PROVE FALSE
      OBVIOUS
    <3>1. n + 1 \in 1 .. k /\ n # Len(q)
      OBVIOUS
    <3> QED BY <3>1
  <2>2. ~(k < n)
    <3> SUFFICES ASSUME k < n PROVE FALSE
      OBVIOUS
    <3>1. k + 1 \in 1 .. n /\ k # Len(q)
      OBVIOUS
    <3> QED BY <3>1
  <2> QED BY <2>1, <2>2
<1>2. P(k)
  OBVIOUS
<1>3. Prefixes(q) = CHOOSE n \in 0 .. Len(q) : P(n)
  BY DEF Prefixes
<1> HIDE DEF P
<1> QED BY <1>1, <1>2, <1>3

(* What getScan returns when k prefixes are in front.                      *)
LEMMA ScanIs ==
    ASSUME NEW q, Len(q) \in Nat, NEW k \in 0 .. Len(q),
           \A i \in 1 .. k : q[i] \in Prefix,
           k = Len(q) \/ q[k + 1] \notin Prefix
    PROVE  /\ getScan(q).ext <=> \E j \in 1 .. k : q[j] = "E0"
           /\ getScan(q).release <=> \E j \in 1 .. k : q[j] = "F0"
           /\ getScan(q).ext \in BOOLEAN
           /\ getScan(q).code = IF k < Len(q) THEN q[k + 1] ELSE NONE
           /\ getScan(q).rest = SubSeq(q, k + 2, Len(q))
<1> DEFINE E == \E j \in 1 .. k : q[j] = "E0"
           F == \E j \in 1 .. k : q[j] = "F0"
           C == IF k < Len(q) THEN q[k + 1] ELSE NONE
           R == SubSeq(q, k + 2, Len(q))
<1>1. Prefixes(q) = k
  BY PrefixesAre
<1>2. getScan(q) = [ext |-> E, release |-> F, code |-> C, rest |-> R]
  BY <1>1, Zenon DEF getScan
<1>3. E \in BOOLEAN
  OBVIOUS
<1> HIDE DEF E, F, C, R
<1>4. getScan(q).ext = E /\ getScan(q).release = F /\ getScan(q).code = C /\ getScan(q).rest = R
  BY <1>2
<1>5. (getScan(q).ext <=> E) /\ (getScan(q).release <=> F) /\ getScan(q).ext \in BOOLEAN
  BY <1>3, <1>4, Zenon
<1> QED BY <1>4, <1>5, Zenon DEF E, F, C, R

(* The next key's bytes b are in front of the stream and its code is in    *)
(* the queue: the poll takes the code, with the prefixes that no earlier   *)
(* poll has read.                                                          *)
LEMMA ScanTakes ==
    ASSUME CodesApart, NEW ev \in KeyEvent, NEW b, b = Bytes(ev),
           NEW s, NEW l \in Seq(Prefix), NEW q \in Seq(Byte), NEW w,
           Joins(s, l, q, w), \A j \in 1 .. Len(b) : s[j] = b[j],
           Len(b) <= Len(l) + Len(q)
    PROVE  \E k \in 0 .. Len(q) - 1 :
              /\ Len(b) = Len(l) + k + 1
              /\ getScan(q).code = ev.code
              /\ getScan(q).rest = SubSeq(q, k + 2, Len(q))
              /\ getScan(q).ext \in BOOLEAN
              /\ getScan(q).ext <=> ev.ext /\ ~\E j \in 1 .. Len(l) : l[j] = "E0"
              /\ ~ev.keydown /\ (~\E j \in 1 .. Len(l) : l[j] = "F0") => getScan(q).release
<1> DEFINE m == Len(b)
           x == Len(l)
           y == Len(q)
           k == m - 1 - x
<1>1. /\ m \in 1 .. 3
      /\ b[m] = ev.code /\ \A j \in 1 .. m - 1 : b[j] \in Prefix
      /\ ev.ext <=> \E j \in 1 .. m - 1 : b[j] = "E0"
      /\ ~ev.keydown <=> \E j \in 1 .. m - 1 : b[j] = "F0"
      /\ \A i, j \in 1 .. m - 1 : b[i] = b[j] => i = j
  <2>1. Spell(b, m, ev)
    BY BytesSpell, Zenon
  <2> QED BY <2>1, Zenon DEF Spell
<1>2. ev.code \notin Prefix
  BY DEF CodesApart, KeyEvent, Prefix, NONE
<1>3. x \in Nat /\ y \in Nat /\ m <= x + y
  OBVIOUS
<1>4. /\ \A j \in 1 .. x : s[j] = l[j] /\ l[j] \in Prefix
      /\ \A j \in 1 .. y : s[x + j] = q[j]
  BY DEF Joins
<1>5. \A j \in 1 .. m : s[j] = b[j]
  OBVIOUS
<1> HIDE DEF m, x, y
<1>6. x < m
  <2> SUFFICES ASSUME m <= x PROVE FALSE
    BY <1>1, <1>3
  <2>1. m \in 1 .. x /\ m \in 1 .. m
    BY <1>1, <1>3
  <2> QED BY <1>1, <1>2, <1>4, <1>5, <2>1
<1>7. /\ k \in 0 .. y - 1 /\ k \in 0 .. y /\ k # y /\ k < y /\ m = x + k + 1
      /\ \A j \in 1 .. k : j \in 1 .. y /\ x + j \in 1 .. m - 1 /\ x + j \in 1 .. m
      /\ k + 1 \in 1 .. y /\ x + (k + 1) = m /\ m \in 1 .. m
      /\ \A j \in 1 .. x : j \in 1 .. m - 1 /\ j \in 1 .. m
      /\ \A i \in 1 .. m - 1 : i \in 1 .. x \/ (i - x \in 1 .. k /\ x + (i - x) = i)
  BY <1>1, <1>3, <1>6
<1> HIDE DEF k
<1>8. /\ \A j \in 1 .. k : q[j] = b[x + j] /\ q[j] \in Prefix
      /\ \A j \in 1 .. x : l[j] = b[j]
      /\ q[k + 1] = ev.code
  <2>1. ASSUME NEW j \in 1 .. k PROVE q[j] = b[x + j] /\ q[j] \in Prefix
    <3>1. j \in 1 .. y /\ x + j \in 1 .. m - 1 /\ x + j \in 1 .. m
      BY <1>7, Zenon
    <3>2. s[x + j] = q[j] /\ s[x + j] = b[x + j] /\ b[x + j] \in Prefix
      BY <1>1, <1>4, <1>5, <3>1, Zenon
    <3> QED BY <3>2, Zenon
  <2>2. ASSUME NEW j \in 1 .. x PROVE l[j] = b[j]
    <3>1. j \in 1 .. m
      BY <1>7, Zenon
    <3> QED BY <1>4, <1>5, <3>1, Zenon
  <2>3. q[k + 1] = ev.code
    <3>1. s[m] = q[k + 1] /\ s[m] = b[m]
      BY <1>4, <1>5, <1>7
    <3> QED BY <1>1, <3>1, Zenon
  <2> QED BY <2>1, <2>2, <2>3, Zenon
<1>9. /\ getScan(q).ext <=> \E j \in 1 .. k : q[j] = "E0"
      /\ getScan(q).release <=> \E j \in 1 .. k : q[j] = "F0"
      /\ getScan(q).ext \in BOOLEAN
      /\ getScan(q).code = IF k < y THEN q[k + 1] ELSE NONE
      /\ getScan(q).rest = SubSeq(q, k + 2, y)
  BY <1>2, <1>3, <1>7, <1>8, ScanIs DEF y
<1>10. ASSUME NEW j \in 1 .. k, q[j] = "E0"
       PROVE  ev.ext /\ ~\E i \in 1 .. x : l[i] = "E0"
  <2>1. b[x + j] = "E0" /\ x + j \in 1 .. m - 1
    BY <1>7, <1>8, <1>10
  <2>2. ASSUME NEW i \in 1 .. x, l[i] = "E0" PROVE FALSE
    <3>1. b[i] = "E0" /\ i \in 1 .. m - 1
      BY <1>7, <1>8, <2>2
    <3>2. i = x + j
      BY <1>1, <2>1, <3>1
    <3> QED BY <1>3, <3>2
  <2> QED BY <1>1, <2>1, <2>2
<1>11. ASSUME NEW p, NEW i \in 1 .. m - 1, b[i] = p, ~\E j \in 1 .. x : l[j] = p
       PROVE  \E j \in 1 .. k : q[j] = p
  <2>1. i \notin 1 .. x
    BY <1>8, <1>11
  <2>2. i - x \in 1 .. k /\ x + (i - x) = i
    BY <1>7, <2>1
  <2> QED BY <1>8, <1>11, <2>2
<1>12. getScan(q).ext <=> ev.ext /\ ~\E j \in 1 .. x : l[j] = "E0"
  BY <1>1, <1>9, <1>10, <1>11
<1>13. ~ev.keydown /\ (~\E j \in 1 .. x : l[j] = "F0") => getScan(q).release
  BY <1>1, <1>9, <1>11
<1> QED BY <1>7, <1>8, <1>9, <1>12, <1>13 DEF m, x, y

LEMMA LensAre ==
    ASSUME NEW ks \in Seq(KeyEvent), NEW i \in 1 .. Len(ks)
    PROVE  /\ ks[i] \in KeyEvent
           /\ Bytes(ks[i]) \in Seq(Prefix \cup KeyCodes)
           /\ Len(Bytes(ks[i])) \in 1 .. 3
  BY BytesSpell DEF Spell

(* A key arrives: its bytes follow those of the others.                    *)
LEMMA SpellsMore ==
    ASSUME NEW q \in Seq(Prefix \cup KeyCodes), NEW ks \in Seq(KeyEvent),
           NEW first \in Nat \ {0}, NEW last \in Nat, first <= last + 1, last < Len(ks), NEW at,
           Spells(q, ks, first, last, at)
    PROVE  \E a : Spells(q \o Bytes(ks[last + 1]), ks, first, last + 1, a)
<1> DEFINE b == Bytes(ks[last + 1])
           a == [i \in first .. last + 2 |-> IF i <= last + 1 THEN at[i] ELSE at[last + 1] + Len(b)]
           r == q \o b
<1>1. /\ b \in Seq(Prefix \cup KeyCodes) /\ Len(b) \in 1 .. 3
      /\ \A i \in first .. last : Len(Bytes(ks[i])) \in 1 .. 3
  BY LensAre
<1> DEFINE B(i) == Bytes(ks[i])
           L(i) == Len(B(i))
<1>2. /\ \A i \in first .. last + 1 : at[i] \in Nat
      /\ \A i, j \in first .. last + 1 : i <= j => at[i] <= at[j]
  BY DEF Spells
<1>a. at[first] = 0 /\ Len(q) = at[last + 1] /\ Len(q) \in Nat /\ at[last + 1] \in Nat
  BY DEF Spells
<1>b. \A i \in first .. last : at[i + 1] = at[i] + L(i)
  BY DEF Spells
<1>c. \A i \in first .. last : \A j \in 1 .. L(i) : q[at[i] + j] = B(i)[j]
  BY DEF Spells
<1>l. \A i \in first .. last : L(i) \in 1 .. 3
  BY LensAre
<1> HIDE DEF b, L, B
<1>3. /\ Len(r) = Len(q) + Len(b)
      /\ \A i \in 1 .. Len(q) : r[i] = q[i]
      /\ \A i \in 1 .. Len(b) : r[Len(q) + i] = b[i]
  <2>1. /\ Len(r) = Len(q) + Len(b)
        /\ \A i \in 1 .. Len(q) + Len(b) : r[i] = IF i <= Len(q) THEN q[i] ELSE b[i - Len(q)]
    BY <1>1, ConcatProperties
  <2> DEFINE m == Len(q)
             n == Len(b)
  <2>2. m \in Nat /\ n \in 1 .. 3
    BY <1>a, <1>1
  <2> HIDE DEF r, m, n
  <2>3. \A i \in 1 .. m : i \in 1 .. m + n /\ i <= m
    BY <2>2
  <2>4. \A i \in 1 .. n : m + i \in 1 .. m + n /\ ~(m + i <= m) /\ (m + i) - m = i
    BY <2>2
  <2> QED BY <2>1, <2>3, <2>4 DEF m, n
<1>4. /\ \A i \in first .. last + 1 : a[i] = at[i]
      /\ a[last + 2] = Len(q) + Len(b)
      /\ \A i \in first .. last + 2 : a[i] \in Nat
  BY <1>1, <1>2, <1>a
<1> HIDE DEF a, r
<1>5. \A i, j \in first .. last + 2 : i <= j => a[i] <= a[j]
  <2> TAKE i, j \in first .. last + 2
  <2> HAVE i <= j
  <2>1. CASE j <= last + 1
    BY <1>2, <1>4, <2>1
  <2>2. CASE j = last + 2 /\ i = last + 2
    BY <1>4, <2>2
  <2>3. CASE j = last + 2 /\ i <= last + 1
    <3>1. a[i] = at[i] /\ at[i] <= at[last + 1] /\ at[i] \in Nat
      <4>1. i \in first .. last + 1 /\ last + 1 \in first .. last + 1 /\ i <= last + 1
        BY <2>3
      <4> QED BY <1>2, <1>4, <4>1
    <3> QED BY <1>1, <1>a, <1>4, <2>3, <3>1
  <2> QED BY <2>1, <2>2, <2>3
<1>6. ASSUME NEW i \in first .. last + 1
      PROVE  /\ a[i + 1] = a[i] + L(i)
             /\ \A j \in 1 .. L(i) : r[a[i] + j] = B(i)[j]
  <2>1. CASE i = last + 1
    <3>1. B(i) = b /\ L(i) = Len(b)
      BY <2>1 DEF b, B, L
    <3>2. a[i] = Len(q) /\ i + 1 = last + 2
      BY <1>a, <1>4, <2>1
    <3> QED BY <1>3, <1>4, <3>1, <3>2
  <2>2. CASE i <= last
    <3>0. i \in first .. last /\ i \in first .. last + 1 /\ i + 1 \in first .. last + 1
          /\ last + 1 \in first .. last + 1 /\ i + 1 <= last + 1
      BY <2>2
    <3>1. /\ a[i] = at[i] /\ a[i + 1] = at[i + 1] /\ at[i] \in Nat
          /\ at[i + 1] = at[i] + L(i) /\ L(i) \in 1 .. 3
          /\ at[i + 1] <= Len(q)
      BY <1>2, <1>a, <1>b, <1>l, <1>4, <3>0
    <3>2. \A j \in 1 .. L(i) : at[i] + j \in 1 .. Len(q)
      <4> DEFINE l == L(i)
                 x == at[i]
                 m == Len(q)
      <4>1. l \in 1 .. 3 /\ x \in Nat /\ m \in Nat /\ x + l <= m
        BY <1>a, <3>1
      <4> HIDE DEF l, x, m
      <4>2. \A j \in 1 .. l : x + j \in 1 .. m
        BY <4>1
      <4> QED BY <4>2 DEF l, x, m
    <3>3. \A j \in 1 .. L(i) : q[at[i] + j] = B(i)[j]
      BY <1>c, <3>0
    <3> QED BY <1>3, <3>1, <3>2, <3>3
  <2> QED BY <2>1, <2>2
<1>7. a[first] = 0 /\ Len(r) = a[(last + 1) + 1] /\ (last + 1) + 1 = last + 2
  BY <1>1, <1>a, <1>3, <1>4
<1>8. Spells(r, ks, first, last + 1, a)
  BY <1>4, <1>5, <1>6, <1>7 DEF Spells, L, B
<1> QED BY <1>8 DEF r, b

(* A stream starts with the bytes b of the first key, and what follows     *)
(* them spells the other keys.                                             *)
SpelledFrom(q, b, ks, first, last) ==
    /\ Len(b) <= Len(q) /\ \A j \in 1 .. Len(b) : q[j] = b[j]
    /\ SubSeq(q, Len(b) + 1, Len(q)) \in Seq(Prefix \cup KeyCodes)
    /\ \E a : Spells(SubSeq(q, Len(b) + 1, Len(q)), ks, first + 1, last, a)

LEMMA SpellsLess ==
    ASSUME NEW q \in Seq(Prefix \cup KeyCodes), NEW ks \in Seq(KeyEvent),
           NEW first \in Nat \ {0}, NEW last \in Nat, first <= last, last <= Len(ks), NEW at,
           Spells(q, ks, first, last, at), NEW b, b = Bytes(ks[first])
    PROVE  SpelledFrom(q, b, ks, first, last)
<1> USE DEF SpelledFrom
<1> DEFINE a == [i \in first + 1 .. last + 1 |-> at[i] - Len(b)]
           r == SubSeq(q, Len(b) + 1, Len(q))
<1>1. \A i \in first .. last : Len(Bytes(ks[i])) \in 1 .. 3
  BY LensAre
<1> DEFINE B(i) == Bytes(ks[i])
           L(i) == Len(B(i))
<1>2. /\ \A i \in first .. last + 1 : at[i] \in Nat
      /\ \A i, j \in first .. last + 1 : i <= j => at[i] <= at[j]
  BY DEF Spells
<1>a. at[first] = 0 /\ Len(q) = at[last + 1] /\ Len(q) \in Nat /\ at[last + 1] \in Nat
  BY DEF Spells
<1>b. \A i \in first .. last : at[i + 1] = at[i] + L(i)
  BY DEF Spells
<1>c. \A i \in first .. last : \A j \in 1 .. L(i) : q[at[i] + j] = B(i)[j]
  BY DEF Spells
<1>l. \A i \in first .. last : L(i) \in 1 .. 3
  BY LensAre
<1>3. Len(b) \in 1 .. 3 /\ at[first + 1] = Len(b)
  BY <1>a, <1>b, <1>l
<1>4. Len(b) <= Len(q) /\ \A j \in 1 .. Len(b) : q[j] = b[j]
  <2>1. first + 1 \in first .. last + 1 /\ last + 1 \in first .. last + 1 /\ first + 1 <= last + 1
    OBVIOUS
  <2>2. at[first + 1] <= at[last + 1]
    BY <1>2, <2>1
  <2>3. \A j \in 1 .. Len(b) : q[at[first] + j] = b[j]
    BY <1>c
  <2>4. \A j \in 1 .. Len(b) : at[first] + j = j
    BY <1>a
  <2> QED BY <1>a, <1>3, <2>2, <2>3, <2>4
<1> HIDE DEF L, B
<1>5. /\ r \in Seq(Prefix \cup KeyCodes) /\ Len(r) = Len(q) - Len(b)
      /\ \A i \in 1 .. Len(q) - Len(b) : r[i] = q[Len(b) + i]
  <2>1. Len(b) + 1 \in Int /\ Len(q) \in Int /\ Len(q) - Len(b) \in Nat
        /\ \A i \in Len(b) + 1 .. Len(q) : q[i] \in Prefix \cup KeyCodes
    BY <1>a, <1>3, <1>4
  <2>2. Len(q) - (Len(b) + 1) + 1 = Len(q) - Len(b)
        /\ (IF Len(b) + 1 <= Len(q) THEN Len(q) - (Len(b) + 1) + 1 ELSE 0) = Len(q) - Len(b)
        /\ \A i \in 1 .. Len(q) - Len(b) : (Len(b) + 1) + i - 1 = Len(b) + i
    BY <1>a, <1>3, <1>4
  <2>3. /\ r \in Seq(Prefix \cup KeyCodes)
        /\ Len(r) = IF Len(b) + 1 <= Len(q) THEN Len(q) - (Len(b) + 1) + 1 ELSE 0
        /\ \A i \in 1 .. Len(q) - (Len(b) + 1) + 1 : r[i] = q[(Len(b) + 1) + i - 1]
    BY <2>1, SubSeqProperties
  <2> HIDE DEF r
  <2> QED BY <2>2, <2>3
<1>6. \A i \in first + 1 .. last + 1 : a[i] = at[i] - Len(b) /\ a[i] \in Nat
  <2> TAKE i \in first + 1 .. last + 1
  <2>0. first + 1 \in first .. last + 1 /\ i \in first .. last + 1 /\ first + 1 <= i
    OBVIOUS
  <2>1. at[first + 1] <= at[i] /\ at[i] \in Nat
    BY <1>2, <2>0
  <2> QED BY <1>3, <2>1
<1> HIDE DEF a, r
<1>7. \A i, j \in first + 1 .. last + 1 : i <= j => a[i] <= a[j]
  <2> TAKE i, j \in first + 1 .. last + 1
  <2> HAVE i <= j
  <2>1. i \in first .. last + 1 /\ j \in first .. last + 1
    OBVIOUS
  <2>2. at[i] <= at[j] /\ at[i] \in Nat /\ at[j] \in Nat
    BY <1>2, <2>1
  <2> QED BY <1>3, <1>6, <2>2
<1>8. ASSUME NEW i \in first + 1 .. last
      PROVE  /\ a[i + 1] = a[i] + L(i)
             /\ \A j \in 1 .. L(i) : r[a[i] + j] = B(i)[j]
  <2>0. /\ i \in first .. last /\ i \in first .. last + 1 /\ i + 1 \in first .. last + 1
        /\ i \in first + 1 .. last + 1 /\ i + 1 \in first + 1 .. last + 1
        /\ last + 1 \in first .. last + 1 /\ i + 1 <= last + 1
    OBVIOUS
  <2>1. /\ at[i] \in Nat /\ at[i + 1] \in Nat /\ at[i + 1] <= Len(q)
        /\ at[i + 1] = at[i] + L(i) /\ L(i) \in 1 .. 3
    BY <1>2, <1>a, <1>b, <1>l, <2>0
  <2>2. a[i] = at[i] - Len(b) /\ a[i + 1] = at[i + 1] - Len(b) /\ a[i] \in Nat
    BY <1>6, <2>0
  <2>3. \A j \in 1 .. L(i) :
            a[i] + j \in 1 .. Len(q) - Len(b) /\ Len(b) + (a[i] + j) = at[i] + j
    <3> DEFINE l == L(i)
               x == a[i]
               y == at[i]
               z == at[i + 1]
               m == Len(q)
               n == Len(b)
    <3>1. /\ l \in 1 .. 3 /\ x \in Nat /\ y \in Nat /\ z \in Nat /\ m \in Nat /\ n \in 1 .. 3
          /\ z = y + l /\ x = y - n /\ z <= m
      BY <1>a, <1>3, <2>1, <2>2
    <3> HIDE DEF l, x, y, z, m, n
    <3>2. \A j \in 1 .. l : x + j \in 1 .. m - n /\ n + (x + j) = y + j
      BY <3>1
    <3> QED BY <3>2 DEF l, x, y, m, n
  <2>4. \A j \in 1 .. L(i) : q[at[i] + j] = B(i)[j]
    BY <1>c, <2>0
  <2>5. \A j \in 1 .. L(i) : r[a[i] + j] = B(i)[j]
    BY <1>5, <2>3, <2>4
  <2>6. a[i + 1] = a[i] + L(i)
    <3> DEFINE l == L(i)
               n == Len(b)
    <3>1. l \in 1 .. 3 /\ n \in 1 .. 3
      BY <1>3, <2>1
    <3> HIDE DEF l, n
    <3>2. a[i] = at[i] - n /\ a[i + 1] = (at[i] + l) - n
      BY <2>1, <2>2 DEF l, n
    <3>3. (at[i] + l) - n = (at[i] - n) + l
      BY <2>1, <3>1
    <3> QED BY <3>2, <3>3 DEF l
  <2> QED BY <2>5, <2>6
<1>9. a[first + 1] = 0 /\ Len(r) = a[last + 1]
  <2>1. first + 1 \in first + 1 .. last + 1 /\ last + 1 \in first + 1 .. last + 1
    OBVIOUS
  <2> QED BY <1>a, <1>3, <1>5, <1>6, <2>1
<1>10. Spells(r, ks, first + 1, last, a)
  BY <1>6, <1>7, <1>8, <1>9 DEF Spells, L, B
<1> QED BY <1>4, <1>5, <1>10 DEF r

(* A key is sent: what the queue spells has already been sent.             *)
LEMMA SpellsSent ==
    ASSUME NEW q, NEW ks \in Seq(KeyEvent), NEW ev \in KeyEvent, NEW first \in Nat \ {0},
           NEW at, Spells(q, ks, first, Len(ks), at)
    PROVE  Spells(q, Append(ks, ev), first, Len(ks), at)
<1>1. \A i \in first .. Len(ks) : Append(ks, ev)[i] = ks[i]
  OBVIOUS
<1> QED BY <1>1 DEF Spells

LEMMA PolledInit == ScanInit => Polled
<1> SUFFICES ASSUME ScanInit PROVE Polled
  OBVIOUS
<1>1. wire = <<>> /\ queue = <<>> /\ typed = <<>> /\ got = <<>> /\ lost = {}
  BY DEF ScanInit
<1>2. Sent /\ Len(got) = 0 /\ Len(typed) = 0
  BY <1>1 DEF Sent
<1>3. InOrder /\ FlagsSeen
  BY <1>1 DEF InOrder, FlagsSeen
<1>4. Spells(<<>>, typed, 0 + 1, 0, [i \in {1} |-> 0])
  BY DEF Spells
<1>5. Joins(<<>>, <<>>, queue, wire) /\ LostAre(<<>>)
  BY <1>1 DEF Joins, LostAre
<1>6. <<>> \in Seq(Byte) /\ <<>> \in Seq(Prefix)
  OBVIOUS
<1>7. Stream(<<>>, <<>>, [i \in {1} |-> 0])
  BY <1>2, <1>4, <1>5, <1>6 DEF Stream
<1> QED BY <1>2, <1>3, <1>7 DEF Polled

LEMMA PolledType ==
    ASSUME Polled, NEW ev \in KeyEvent, Type(ev)
    PROVE  Polled'
<1>1. /\ wire = <<>> /\ typed' = Append(typed, ev) /\ wire' = Bytes(ev)
      /\ queue' = queue /\ got' = got /\ lost' = lost
  BY DEF Type
<1>2. /\ typed \in Seq(KeyEvent) /\ got \in Seq(KeyEvent) /\ queue \in Seq(Byte)
  BY DEF Polled, Sent
<1>3. Bytes(ev) \in Seq(Byte)
  BY BytesSpell DEF Byte, Spell
<1>4. /\ typed' \in Seq(KeyEvent) /\ Len(typed') = Len(typed) + 1 /\ typed'[Len(typed) + 1] = ev
      /\ \A i \in 1 .. Len(typed) : typed'[i] = typed[i]
  BY <1>1, <1>2
<1>5. Sent'
  BY <1>1, <1>2, <1>3, <1>4 DEF Sent
<1>6. Len(got) <= Len(typed) /\ Len(got) \in Nat /\ Len(typed) \in Nat
  BY <1>2 DEF Polled, InOrder
<1>7. InOrder' /\ FlagsSeen'
  BY <1>1, <1>4, <1>6 DEF Polled, InOrder, FlagsSeen
<1>8. PICK s, l, at : Stream(s, l, at)
  BY DEF Polled
<1>9. s \in Seq(Byte) /\ l \in Seq(Prefix) /\ Joins(s, l, queue, wire) /\ LostAre(l)
      /\ Spells(s, typed, Len(got) + 1, Len(typed), at)
  BY <1>8 DEF Stream
<1>10. Joins(s \o Bytes(ev), l, queue', wire') /\ s \o Bytes(ev) \in Seq(Byte)
  BY <1>1, <1>2, <1>3, <1>9, JoinsType
<1>11. LostAre(l)'
  BY <1>1, <1>9 DEF LostAre
<1>12. PICK a : Spells(s \o Bytes(ev), typed', Len(got) + 1, Len(typed) + 1, a)
  <2> DEFINE first == Len(got) + 1
             last  == Len(typed)
  <2>1. first \in Nat \ {0} /\ last \in Nat /\ first <= last + 1 /\ last < Len(typed')
    BY <1>4, <1>6
  <2>2. Spells(s, typed', first, last, at)
    BY <1>1, <1>2, <1>9, <2>1, SpellsSent
  <2> HIDE DEF first, last
  <2>3. \E a : Spells(s \o Bytes(typed'[last + 1]), typed', first, last + 1, a)
    BY <1>4, <1>9, <2>1, <2>2, SpellsMore DEF Byte
  <2> QED BY <1>4, <2>3 DEF first, last
<1>13. Stream(s \o Bytes(ev), l, a)'
  BY <1>1, <1>4, <1>9, <1>10, <1>11, <1>12 DEF Stream
<1> QED BY <1>5, <1>7, <1>13 DEF Polled

LEMMA PolledArrive ==
    ASSUME Polled, Arrive
    PROVE  Polled'
<1>1. /\ wire # <<>> /\ queue' = Append(queue, Head(wire)) /\ wire' = Tail(wire)
      /\ typed' = typed /\ got' = got /\ lost' = lost
  BY DEF Arrive
<1>2. queue \in Seq(Byte) /\ wire \in Seq(Byte)
  BY DEF Polled, Sent
<1>3. queue' \in Seq(Byte) /\ wire' \in Seq(Byte)
  BY <1>1, <1>2, HeadTailProperties, AppendProperties
<1>4. Sent' /\ InOrder' /\ FlagsSeen'
  BY <1>1, <1>3 DEF Polled, Sent, InOrder, FlagsSeen
<1>5. PICK s, l, at : Stream(s, l, at)
  BY DEF Polled
<1>6. Joins(s, l, queue', wire')
  BY <1>1, <1>2, <1>5, JoinsArrive DEF Stream
<1>7. Stream(s, l, at)'
  BY <1>1, <1>5, <1>6 DEF Stream, LostAre
<1> QED BY <1>4, <1>7 DEF Polled

(* A poll that finds prefixes and no code, or nothing.                     *)
LEMMA PolledForget ==
    ASSUME CodesApart, Polled, NEW u \in BOOLEAN, __am_input_keybrd_ps2(u),
           \A j \in 1 .. Len(queue) : queue[j] \in Prefix
    PROVE  Polled'
<1>1. /\ typed \in Seq(KeyEvent) /\ got \in Seq(KeyEvent)
      /\ queue \in Seq(Byte) /\ wire \in Seq(Byte)
  BY DEF Polled, Sent
<1>2. Len(queue) \in Nat /\ Len(queue) \in 0 .. Len(queue) /\ ~(Len(queue) < Len(queue))
  BY <1>1
<1>3. getScan(queue).code = NONE /\ getScan(queue).rest = SubSeq(queue, Len(queue) + 2, Len(queue))
  BY <1>2, ScanIs
<1>4. /\ typed' = typed /\ got' = got /\ wire' = wire
      /\ lost' = lost \cup { <<Len(got) + 1, queue[j]>> : j \in 1 .. Len(queue) }
  BY <1>3 DEF __am_input_keybrd_ps2
<1>5. queue' = <<>>
  <2>1. Len(queue) + 2 \in Int /\ Len(queue) \in Int /\ Len(queue) < Len(queue) + 2
    BY <1>2
  <2>2. SubSeq(queue, Len(queue) + 2, Len(queue)) = <<>>
    BY <2>1, SubSeqEmpty
  <2> QED BY <1>3, <2>2 DEF __am_input_keybrd_ps2
<1>6. queue \in Seq(Prefix)
  BY <1>1
<1>7. PICK s, l, at : Stream(s, l, at)
  BY DEF Polled
<1>8. PICK r : r = l \o queue
  OBVIOUS
<1>9. Joins(s, r, queue', wire') /\ r \in Seq(Prefix)
  BY <1>1, <1>4, <1>5, <1>6, <1>7, <1>8, JoinsForget DEF Stream
<1>10. \A p : (\E j \in 1 .. Len(r) : r[j] = p)
              <=> (\E j \in 1 .. Len(l) : l[j] = p) \/ (\E j \in 1 .. Len(queue) : queue[j] = p)
  <2> DEFINE x == Len(l)
             y == Len(queue)
  <2>1. x \in Nat /\ y \in Nat /\ Len(r) = x + y
        /\ \A j \in 1 .. x + y : r[j] = IF j <= x THEN l[j] ELSE queue[j - x]
    BY <1>6, <1>7, <1>8, ConcatProperties DEF Stream
  <2> HIDE DEF x, y
  <2> TAKE p
  <2>2. ASSUME NEW j \in 1 .. x + y, r[j] = p
        PROVE  (\E i \in 1 .. x : l[i] = p) \/ (\E i \in 1 .. y : queue[i] = p)
    <3>1. CASE j <= x
      BY <2>1, <2>2, <3>1
    <3>2. CASE ~(j <= x)
      <4>1. j - x \in 1 .. y
        BY <2>1, <3>2
      <4> QED BY <2>1, <2>2, <3>2, <4>1
    <3> QED BY <3>1, <3>2
  <2>3. ASSUME NEW j \in 1 .. x, l[j] = p PROVE \E i \in 1 .. x + y : r[i] = p
    BY <2>1, <2>3
  <2>4. ASSUME NEW j \in 1 .. y, queue[j] = p PROVE \E i \in 1 .. x + y : r[i] = p
    <3>1. x + j \in 1 .. x + y /\ ~(x + j <= x) /\ (x + j) - x = j
      BY <2>1
    <3> QED BY <2>1, <2>4, <3>1
  <2> QED BY <2>1, <2>2, <2>3, <2>4 DEF x, y
<1>11. LostAre(l)
  BY <1>7 DEF Stream
<1>12. Len(got) \in Nat
  BY <1>1
<1>13. LostAre(r)'
  <2>1. ASSUME NEW p \in Prefix
        PROVE  <<Len(got) + 1, p>> \in lost' <=> \E j \in 1 .. Len(r) : r[j] = p
    BY <1>4, <1>10, <1>11 DEF LostAre
  <2>2. ASSUME NEW i \in Nat, NEW p \in Prefix, i > Len(got) + 1
        PROVE  <<i, p>> \notin lost'
    BY <1>4, <1>11, <1>12, <2>2 DEF LostAre
  <2> QED BY <1>4, <2>1, <2>2 DEF LostAre
<1>14. Stream(s, r, at)'
  BY <1>4, <1>7, <1>9, <1>13 DEF Stream
<1>15. InOrder' /\ Sent'
  BY <1>1, <1>4, <1>5 DEF Polled, InOrder, Sent
<1>16. FlagsSeen'
  <2>1. ASSUME NEW i \in 1 .. Len(got), NEW p PROVE <<i, p>> \in lost' <=> <<i, p>> \in lost
    BY <1>4, <1>12
  <2> QED BY <1>4, <2>1 DEF Polled, FlagsSeen
<1> QED BY <1>14, <1>15, <1>16 DEF Polled

(* A poll that finds the code of the next key.                             *)
LEMMA PolledTake ==
    ASSUME CodesApart, Polled, NEW u \in BOOLEAN, __am_input_keybrd_ps2(u),
           NEW s, NEW l, NEW at, Stream(s, l, at), Len(got) < Len(typed),
           NEW b, b = Bytes(typed[Len(got) + 1]), Len(b) <= Len(l) + Len(queue)
    PROVE  Polled'
<1> DEFINE n  == Len(got)
           ev == typed[n + 1]
           scan == getScan(queue)
<1>1. /\ typed \in Seq(KeyEvent) /\ got \in Seq(KeyEvent)
      /\ queue \in Seq(Byte) /\ wire \in Seq(Byte)
  BY DEF Polled, Sent
<1>2. /\ n \in Nat /\ Len(typed) \in Nat /\ n + 1 \in 1 .. Len(typed) /\ n + 1 \in Nat \ {0}
      /\ n + 1 <= Len(typed) /\ ev \in KeyEvent /\ (n + 1) + 1 > n + 1
  BY <1>1
<1>3. /\ s \in Seq(Byte) /\ l \in Seq(Prefix) /\ Joins(s, l, queue, wire) /\ LostAre(l)
      /\ Spells(s, typed, n + 1, Len(typed), at)
  BY DEF Stream
<1>4. /\ \A j \in 1 .. Len(b) : s[j] = b[j]
      /\ SubSeq(s, Len(b) + 1, Len(s)) \in Seq(Byte)
      /\ \E a : Spells(SubSeq(s, Len(b) + 1, Len(s)), typed, (n + 1) + 1, Len(typed), a)
  <2>1. /\ s \in Seq(Prefix \cup KeyCodes) /\ Byte = Prefix \cup KeyCodes
        /\ n + 1 \in Nat \ {0} /\ n + 1 <= Len(typed) /\ Len(typed) <= Len(typed)
        /\ Len(typed) \in Nat /\ typed \in Seq(KeyEvent) /\ b = Bytes(typed[n + 1])
    BY <1>1, <1>2, <1>3 DEF Byte
  <2>2. SpelledFrom(s, b, typed, n + 1, Len(typed))
    BY <1>3, <2>1, SpellsLess, Zenon
  <2> QED BY <2>1, <2>2, Zenon DEF SpelledFrom
<1> HIDE DEF n, ev, scan
<1>5. b = Bytes(ev)
  BY DEF ev, n
<1>6. PICK k \in 0 .. Len(queue) - 1 :
         /\ Len(b) = Len(l) + k + 1
         /\ scan.code = ev.code
         /\ scan.rest = SubSeq(queue, k + 2, Len(queue))
         /\ scan.ext \in BOOLEAN
         /\ scan.ext <=> ev.ext /\ ~\E j \in 1 .. Len(l) : l[j] = "E0"
         /\ ~ev.keydown /\ (~\E j \in 1 .. Len(l) : l[j] = "F0") => scan.release
  BY <1>1, <1>2, <1>3, <1>4, <1>5, ScanTakes DEF scan
<1>7. ev.code # NONE /\ ev.code \in KeyCodes
  BY <1>2 DEF CodesApart, KeyEvent, NONE
<1> DEFINE new == [ext |-> scan.ext, code |-> scan.code, keydown |-> keydown(scan, u)]
<1>8. /\ typed' = typed /\ wire' = wire /\ lost' = lost /\ got' = Append(got, new)
      /\ queue' = SubSeq(queue, k + 2, Len(queue))
  BY <1>6, <1>7 DEF __am_input_keybrd_ps2, scan
<1>9. new \in KeyEvent /\ new.code = ev.code /\ new.ext = scan.ext
      /\ (scan.release => ~new.keydown)
  BY <1>6, <1>7 DEF KeyEvent, keydown
<1> HIDE DEF new
<1>10. /\ got' \in Seq(KeyEvent) /\ Len(got') = n + 1 /\ got'[n + 1] = new
       /\ \A i \in 1 .. n : got'[i] = got[i]
  BY <1>1, <1>8, <1>9 DEF n
<1>11. queue' \in Seq(Byte) /\ Joins(SubSeq(s, Len(b) + 1, Len(s)), <<>>, queue', wire')
  BY <1>1, <1>3, <1>6, <1>8, JoinsTake
<1>12. LostAre(<<>>)'
  <2>1. ASSUME NEW i \in Nat, NEW p \in Prefix, i > n + 1 PROVE <<i, p>> \notin lost
    BY <1>3, <2>1 DEF LostAre, n
  <2>2. Len(<<>>) = 0 /\ 1 .. 0 = {} /\ (n + 1) + 1 \in Nat
    BY <1>2
  <2>3. ASSUME NEW p \in Prefix PROVE <<(n + 1) + 1, p>> \notin lost
    BY <1>2, <2>1, <2>2
  <2>4. ASSUME NEW i \in Nat, NEW p \in Prefix, i > (n + 1) + 1 PROVE <<i, p>> \notin lost
    BY <1>2, <2>1, <2>4
  <2> QED BY <1>8, <1>10, <2>2, <2>3, <2>4 DEF LostAre
<1>13. PICK a : Spells(SubSeq(s, Len(b) + 1, Len(s)), typed, (n + 1) + 1, Len(typed), a)
  BY <1>4
<1>14. Stream(SubSeq(s, Len(b) + 1, Len(s)), <<>>, a)'
  BY <1>4, <1>8, <1>10, <1>11, <1>12, <1>13 DEF Stream
<1>15. Sent'
  BY <1>1, <1>8, <1>10, <1>11 DEF Sent
<1>16. InOrder'
  BY <1>2, <1>8, <1>9, <1>10 DEF Polled, InOrder, ev, n
<1>17. FlagsSeen'
  <2> SUFFICES ASSUME NEW i \in 1 .. n + 1
               PROVE  /\ got'[i].ext <=> typed[i].ext /\ <<i, "E0">> \notin lost
                      /\ ~typed[i].keydown /\ <<i, "F0">> \notin lost => ~got'[i].keydown
    BY <1>8, <1>10 DEF FlagsSeen
  <2>1. CASE i \in 1 .. n
    BY <1>10, <2>1 DEF Polled, FlagsSeen, n
  <2>2. CASE i = n + 1
    <3>1. /\ <<n + 1, "E0">> \in lost <=> \E j \in 1 .. Len(l) : l[j] = "E0"
          /\ <<n + 1, "F0">> \in lost <=> \E j \in 1 .. Len(l) : l[j] = "F0"
      BY <1>3 DEF LostAre, n, Prefix
    <3> QED BY <1>6, <1>9, <1>10, <2>2, <3>1 DEF ev
  <2> QED BY <1>2, <2>1, <2>2
<1> QED BY <1>14, <1>15, <1>16, <1>17 DEF Polled

LEMMA PolledKeybrd ==
    ASSUME CodesApart, Polled, NEW u \in BOOLEAN, __am_input_keybrd_ps2(u)
    PROVE  Polled'
<1>1. PICK s, l, at : Stream(s, l, at)
  BY DEF Polled
<1>2. /\ s \in Seq(Byte) /\ l \in Seq(Prefix) /\ queue \in Seq(Byte) /\ wire \in Seq(Byte)
      /\ typed \in Seq(KeyEvent) /\ got \in Seq(KeyEvent) /\ Len(got) <= Len(typed)
      /\ Joins(s, l, queue, wire) /\ Spells(s, typed, Len(got) + 1, Len(typed), at)
  BY <1>1 DEF Polled, Sent, InOrder, Stream
<1>3. /\ Len(l) \in Nat /\ Len(queue) \in Nat /\ Len(wire) \in Nat
      /\ Len(got) \in Nat /\ Len(typed) \in Nat /\ Len(s) = Len(l) + Len(queue) + Len(wire)
      /\ \A j \in 1 .. Len(queue) : s[Len(l) + j] = queue[j]
  BY <1>2 DEF Joins
<1>4. CASE Len(got) = Len(typed)
  <2>1. Len(s) = 0
    BY <1>2, <1>3, <1>4 DEF Spells
  <2>2. 1 .. Len(queue) = {}
    BY <1>3, <2>1
  <2> QED BY <2>2, PolledForget
<1>5. CASE Len(got) < Len(typed)
  <2> DEFINE b == Bytes(typed[Len(got) + 1])
  <2>1. Len(got) + 1 \in Nat \ {0} /\ Len(got) + 1 <= Len(typed) /\ Len(got) + 1 \in 1 .. Len(typed)
    BY <1>3, <1>5
  <2>2. typed[Len(got) + 1] \in KeyEvent
    BY <1>2, <2>1
  <2>3. \A j \in 1 .. Len(b) : s[j] = b[j]
    <3>1. s \in Seq(Prefix \cup KeyCodes) /\ Len(typed) <= Len(typed)
      BY <1>2, <1>3 DEF Byte
    <3>2. SpelledFrom(s, b, typed, Len(got) + 1, Len(typed))
      BY <1>2, <1>3, <2>1, <3>1, SpellsLess, Zenon
    <3> QED BY <3>2, Zenon DEF SpelledFrom
  <2>4. Len(b) \in 1 .. 3 /\ \A j \in 1 .. Len(b) - 1 : b[j] \in Prefix
    BY <2>2, BytesSpell DEF Spell
  <2> HIDE DEF b
  <2>5. CASE Len(b) <= Len(l) + Len(queue)
    BY <1>1, <1>5, <2>5, PolledTake DEF b
  <2>6. CASE ~(Len(b) <= Len(l) + Len(queue))
    <3>1. ASSUME NEW j \in 1 .. Len(queue) PROVE queue[j] \in Prefix
      <4>1. Len(l) + j \in 1 .. Len(b) - 1 /\ Len(l) + j \in 1 .. Len(b)
        BY <1>3, <2>4, <2>6
      <4> QED BY <1>3, <2>3, <2>4, <4>1
    <3> QED BY <3>1, PolledForget
  <2> QED BY <2>5, <2>6
<1> QED BY <1>2, <1>3, <1>4, <1>5

(* The keys that getScan reports are the keys that were typed, in their    *)
(* order, however their bytes and the program's polls interleave and       *)
(* whatever the variable keydown held; a prefix that a poll reads too      *)
(* early is missing from its own key and shows on no other.                *)
THEOREM ScanKeysInOrder ==
    ASSUME CodesApart
    PROVE  ScanSpec => []KeysInOrder
<1>1. ScanInit => Polled
  BY PolledInit
<1>2. Polled /\ [ScanNext]_ps2Vars => Polled'
  <2> SUFFICES ASSUME Polled, [ScanNext]_ps2Vars PROVE Polled'
    OBVIOUS
  <2>1. ASSUME NEW ev \in KeyEvent, Type(ev) PROVE Polled'
    BY <2>1, PolledType
  <2>2. CASE Arrive
    BY <2>2, PolledArrive
  <2>3. ASSUME NEW u \in BOOLEAN, __am_input_keybrd_ps2(u) PROVE Polled'
    BY <2>3, PolledKeybrd
  <2>4. CASE UNCHANGED ps2Vars
    BY <2>4 DEF ps2Vars, Polled, Sent, Stream, LostAre, InOrder, FlagsSeen
  <2> QED BY <2>1, <2>2, <2>3, <2>4 DEF ScanNext
<1>3. Polled => KeysInOrder
  BY DEF Polled, KeysInOrder
<1> QED BY <1>1, <1>2, <1>3, PTL DEF ScanSpec
=============================================================================
