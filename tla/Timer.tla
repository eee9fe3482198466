------------------------------- MODULE Timer --------------------------------
(***************************************************************************)
(* Reading the time: __am_timer_uptime of the AbstractMachine reads two    *)
(* words, the high one first, from a device of NEMU that latches a time    *)
(* kept in two words: the rtc of device/timer.c, or the CLINT of           *)
(* device/ysyxsoc/clint.c.  Time passes between the two reads.             *)
(***************************************************************************)
EXTENDS Naturals

CONSTANTS Word,                 \* 2^32 in the code
          Device,               \* "rtc" or "clint"
          MaxTime               \* bound on the time

VARIABLES us,                   \* get_time of the host
          low, high,            \* the two words of the port
          high_part, begun,     \* of a call in progress; when it started, or none
          uptime                \* result of the last call, or none

timerVars == <<us, low, high, high_part, begun, uptime>>

None == MaxTime + 1

TimerInit == /\ us = 0 /\ low = 0 /\ high = 0
             /\ high_part = 0 /\ begun = None /\ uptime = None

Pass == us < MaxTime /\ us' = us + 1 /\ UNCHANGED <<low, high, high_part, begun, uptime>>

(* The words are latched by a read of the low one, which comes second.     *)
rtc_io_handler_Low(offset) ==
    IF offset = 0 THEN low' = us % Word /\ high' = us \div Word
                  ELSE UNCHANGED <<low, high>>

rtc_io_handler(offset) ==
    IF offset = 4 THEN low' = us % Word /\ high' = us \div Word
                  ELSE UNCHANGED <<low, high>>

clint_io_handler(offset) == low' = us % Word /\ high' = us \div Word

inl(offset) == IF Device = "rtc" THEN rtc_io_handler(offset) ELSE clint_io_handler(offset)

ReadHigh == /\ begun = None
            /\ inl(4)
            /\ high_part' = high' /\ begun' = us
            /\ UNCHANGED <<us, uptime>>
ReadLow == /\ begun # None
           /\ inl(0)
           /\ uptime' = high_part * Word + low'
           /\ begun' = None
           /\ UNCHANGED <<us, high_part>>

TimerNext == Pass \/ ReadHigh \/ ReadLow
TimerSpec == TimerInit /\ [][TimerNext]_timerVars
-----------------------------------------------------------------------------
(* The time a call returns is a time during the call: not before it began, *)
(* not after it ended, so that a later call never returns an earlier time. *)
(* A carry from the low into the high word between the two reads must not  *)
(* show.                                                                   *)
UptimeDuringCall == [][ReadLow => begun <= uptime' /\ uptime' <= us]_timerVars
=============================================================================
