------------------------------- MODULE Device -------------------------------
(***************************************************************************)
(* NEMU's devices inside its execution loop (nemu/src/cpu/cpu-exec.c and   *)
(* device/device.c): after each guest instruction device_update refreshes  *)
(* the screen and drains the host's events, at most once in a period.  The *)
(* keyboard is module KeyQueue.  `elapsed` is now - last of device_update, *)
(* which is only ever compared with the period.  Between two instructions  *)
(* the loop may have returned to the debugger's prompt, where each command *)
(* first empties SDL's queue.  `pressed`, `received`, `showable` and       *)
(* `ignored` are history variables.                                        *)
(***************************************************************************)
EXTENDS KeyQueue

CONSTANTS Period,               \* 1000000 / TIMER_HZ, in steps of time
          Frames,               \* what the frame buffer may hold
          MaxPressed            \* bound on the keys pressed

VARIABLES run_state, turn,     \* nemu_state.state; where the loop stands
          elapsed, sdl,         \* SDL's queue of events
          vmem, sync, screen,   \* frame buffer, sync register, window
          pressed,              \* keys pressed, but for those the debugger cleared
          received,
          ignored,              \* the debugger cleared the last quit event
          showable              \* frames the buffer held since the last sync write

loopVars == <<run_state, turn, elapsed, sdl>>
vgaVars  == <<vmem, sync, screen, showable>>
devVars  == <<keyVars, loopVars, vgaVars, pressed, received, ignored>>

Quit == [keydown |-> TRUE, keycode |-> NEMU_KEY_NONE]     \* SDL_QUIT, apart from every key

DevInit == /\ KeyInit
           /\ run_state = "RUNNING" /\ turn = "exec"
           /\ elapsed = 0 /\ sdl = <<>>
           /\ \E f \in Frames : vmem = f /\ screen = f /\ showable = {f}
           /\ sync = 0
           /\ pressed = <<>> /\ received = <<>> /\ ignored = FALSE

(* The host: time passes, keys are pressed, the window is closed.          *)
Tick == /\ elapsed < Period /\ elapsed' = elapsed + 1
        /\ UNCHANGED <<keyVars, run_state, turn, sdl, vgaVars, pressed, received, ignored>>
HostKey(e) == /\ Len(pressed) < MaxPressed
              /\ sdl' = Append(sdl, e) /\ pressed' = Append(pressed, e)
              /\ UNCHANGED <<keyVars, run_state, turn, elapsed, vgaVars, received, ignored>>
HostQuit == /\ \A k \in DOMAIN sdl : sdl[k] # Quit
            /\ run_state = "RUNNING"
            /\ sdl' = Append(sdl, Quit) /\ ignored' = FALSE
            /\ UNCHANGED <<keyVars, run_state, turn, elapsed, vgaVars, pressed, received>>

(* One turn of execute: an instruction, then the state is looked at.       *)
AfterInst == /\ turn = "exec" /\ ~failed
             /\ turn' = IF run_state = "RUNNING" THEN "update" ELSE "left"
GuestKey == /\ AfterInst /\ ReadKey
            /\ received' = IF kbd' = none THEN received ELSE Append(received, kbd')
            /\ UNCHANGED <<run_state, elapsed, sdl, vgaVars, pressed, ignored>>
GuestDraw(f) == /\ AfterInst
                /\ vmem' = f /\ showable' = IF sync = 0 THEN showable ELSE showable \cup {f}
                /\ UNCHANGED <<keyVars, run_state, elapsed, sdl, sync, screen, pressed, received, ignored>>
GuestSync == /\ AfterInst
             /\ sync' = 1 /\ showable' = {vmem}
             /\ UNCHANGED <<keyVars, run_state, elapsed, sdl, vmem, screen, pressed, received, ignored>>

(* The register is zeroed but the window only updated on the next sync.    *)
vga_update_screen_Clear == sync' = 0 /\ UNCHANGED <<vmem, screen, showable>>
(* The sync register is not zeroed.                                        *)
vga_update_screen_Keep == /\ screen' = IF sync # 0 THEN vmem ELSE screen
                          /\ UNCHANGED <<vmem, sync, showable>>

vga_update_screen == /\ screen' = IF sync # 0 THEN vmem ELSE screen
                     /\ sync' = 0
                     /\ UNCHANGED <<vmem, showable>>

(* Too early: nothing.  Otherwise the screen, then the events in turn.     *)
device_update ==
    /\ turn = "update"
    /\ IF elapsed < Period
       THEN turn' = "exec" /\ UNCHANGED <<elapsed, vgaVars>>
       ELSE turn' = "poll" /\ elapsed' = 0 /\ vga_update_screen
    /\ UNCHANGED <<keyVars, run_state, sdl, pressed, received, ignored>>

(* The newest event is taken first.                                        *)
SDL_PollEvent_Newest ==
    /\ turn = "poll" /\ ~failed
    /\ IF sdl = <<>>
       THEN turn' = "exec" /\ UNCHANGED <<keyVars, run_state, sdl>>
       ELSE LET e == sdl[Len(sdl)]
            IN  /\ sdl' = SubSeq(sdl, 1, Len(sdl) - 1)
                /\ IF e = Quit THEN run_state' = "QUIT" /\ UNCHANGED keyVars
                   ELSE /\ UNCHANGED run_state
                        /\ IF run_state = "RUNNING" THEN send_key(e) ELSE UNCHANGED keyVars
                /\ UNCHANGED turn
    /\ UNCHANGED <<elapsed, vgaVars, pressed, received, ignored>>

(* send_key drops a key that comes after SDL_QUIT.                         *)
SDL_PollEvent ==
    /\ turn = "poll" /\ ~failed
    /\ IF sdl = <<>>
       THEN turn' = "exec" /\ UNCHANGED <<keyVars, run_state, sdl>>
       ELSE LET e == Head(sdl)
            IN  /\ sdl' = Tail(sdl)
                /\ IF e = Quit THEN run_state' = "QUIT" /\ UNCHANGED keyVars
                   ELSE /\ UNCHANGED run_state
                        /\ IF run_state = "RUNNING" THEN send_key(e) ELSE UNCHANGED keyVars
                /\ UNCHANGED turn
    /\ UNCHANGED <<elapsed, vgaVars, pressed, received, ignored>>

(* The keys among SDL's events s: HostQuit adds at most one other event.   *)
SdlKeys(s) == IF \A k \in DOMAIN s : s[k] # Quit THEN s
              ELSE [k \in 1 .. Len(s) - 1 |-> IF \E j \in 1 .. k : s[j] = Quit THEN s[k + 1] ELSE s[k]]

(* A command at the prompt: the events that came since the last update are  *)
(* gone, keys and quit alike, before the command (si, c, ...) is looked at. *)
sdl_clear_event_queue ==
    /\ turn = "exec" /\ run_state = "RUNNING" /\ ~failed
    /\ sdl' = <<>>
    /\ pressed' = SubSeq(pressed, 1, Len(pressed) - Len(SdlKeys(sdl)))
    /\ ignored' = (ignored \/ \E k \in DOMAIN sdl : sdl[k] = Quit)
    /\ UNCHANGED <<keyVars, run_state, turn, elapsed, vgaVars, received>>

Guest == GuestKey \/ (\E f \in Frames : GuestDraw(f)) \/ GuestSync
Loop  == Guest \/ device_update \/ SDL_PollEvent
DevNext == Loop \/ Tick \/ (\E e \in Event : HostKey(e)) \/ HostQuit \/ sdl_clear_event_queue
DevSpec == DevInit /\ [][DevNext]_devVars
(* The host schedules the NEMU process and its clock runs.                 *)
FairDevSpec == DevSpec /\ WF_devVars(Loop) /\ WF_devVars(Tick)
-----------------------------------------------------------------------------
(* Until the window is closed or the queue overflows, what the guest has   *)
(* read, what waits in the ring and what waits in SDL's queue are together *)
(* the keys pressed, in order: none twice, none overtaken, and none lost   *)
(* but those that a command at the debugger's prompt found in SDL's queue. *)
KeysReachGuest ==
    run_state = "RUNNING" /\ ~failed => pressed = received \o waiting \o SdlKeys(sdl)

(* Once the sync register has been served, the window shows what the       *)
(* buffer held at the guest's last sync write or drew after it; never a    *)
(* frame drawn before it, nor one the guest has not asked to show.         *)
WindowShowsSynced == sync = 0 => screen \in showable

(* A frame the guest has asked to show is shown, unless the user closes    *)
(* the window or the keyboard fails first: the throttle only delays it.    *)
SyncServed == sync = 1 ~> (sync = 0 \/ run_state = "QUIT" \/ failed)

(* Closing the window ends the simulation, unless a debugger command clears *)
(* the event before it is seen.                                            *)
QuitLeaves == (\E k \in DOMAIN sdl : sdl[k] = Quit) ~> (turn = "left" \/ failed \/ ignored)
=============================================================================
