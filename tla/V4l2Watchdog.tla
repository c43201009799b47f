---------------------------- MODULE V4l2Watchdog ----------------------------
(***************************************************************************)
(* The timeout bookkeeping of V4l2Device::stream(): how long the thread    *)
(* waits before it counts a frame as dropped, and when it warns that no    *)
(* image came for a long time.  V4l2Stream models the buffers of the same  *)
(* loop; here get_frame only succeeds or fails.                            *)
(***************************************************************************)
EXTENDS Integers

CONSTANTS
  WaitingPeriod,   \* m_stream_timeout_sec, set once by update_stream_timeout
  LostDefault,     \* lost_countdown_default
  LogRepetition,   \* log_repetition
  MaxMisses        \* bound on the failures in a row

ASSUME WatchdogAssumption ==
  /\ WaitingPeriod \in Nat /\ MaxMisses \in Nat
  /\ LostDefault \in Nat \ {0} /\ LogRepetition \in Nat \ {0}

SelectTimeout == 2

VARIABLES
  waitedSeconds,   \* waited_seconds
  lostCountdown,   \* lost_countdown
  logCounter,      \* log_repetition_counter
  triggerMode,     \* is_trigger_mode_enabled()
  misses           \* ghost: failures since the last image or warning

vars == <<waitedSeconds, lostCountdown, logCounter, triggerMode, misses>>

Init ==
  /\ waitedSeconds = 0
  /\ lostCountdown = LostDefault
  /\ logCounter = 0
  /\ triggerMode \in BOOLEAN
  /\ misses = 0

TypeOK ==
  /\ waitedSeconds \in 0..(WaitingPeriod + SelectTimeout - 1)
  /\ lostCountdown \in Int /\ lostCountdown <= LostDefault
  /\ logCounter \in 0..LogRepetition
  /\ triggerMode \in BOOLEAN
  /\ misses \in Nat

(* Mutant: the countdown is not restored after a warning.                  *)
WarnWithoutReset(countdown, log, missed) ==
  IF countdown <= 0 /\ log < LogRepetition
  THEN lostCountdown' = countdown /\ logCounter' = log + 1 /\ misses' = 0
  ELSE lostCountdown' = countdown /\ logCounter' = log /\ misses' = missed

(* The end of a pass: warn, at most LogRepetition times, and start over.   *)
Warn(countdown, log, missed) ==
  IF countdown <= 0 /\ log < LogRepetition
  THEN lostCountdown' = LostDefault /\ logCounter' = log + 1 /\ misses' = 0
  ELSE lostCountdown' = countdown /\ logCounter' = log /\ misses' = missed

(* The waiting period of the current image is not over.                    *)
StillWaiting == waitedSeconds < WaitingPeriod

(* select() timed out.  In trigger mode that is expected; otherwise a full *)
(* waiting period counts as a dropped frame (the statistic is left out).   *)
Timeout ==
  /\ \/ /\ triggerMode
        /\ UNCHANGED <<waitedSeconds, lostCountdown, logCounter, misses>>
     \/ /\ ~triggerMode /\ StillWaiting
        /\ waitedSeconds' = waitedSeconds + SelectTimeout
        /\ Warn(lostCountdown, logCounter, misses)
     \/ /\ ~triggerMode /\ ~StillWaiting
        /\ misses < MaxMisses
        /\ waitedSeconds' = 0
        /\ Warn(lostCountdown - 1, logCounter, misses + 1)
  /\ UNCHANGED triggerMode

(* get_frame returned true.                                                *)
Image ==
  /\ Warn(LostDefault, 0, 0)
  /\ UNCHANGED <<waitedSeconds, triggerMode>>

(* get_frame returned false.                                               *)
NoFrame ==
  /\ misses < MaxMisses
  /\ Warn(lostCountdown - 1, logCounter, misses + 1)
  /\ UNCHANGED <<waitedSeconds, triggerMode>>

SetTriggerMode ==
  /\ triggerMode' = ~triggerMode
  /\ UNCHANGED <<waitedSeconds, lostCountdown, logCounter, misses>>

Next == Timeout \/ Image \/ NoFrame \/ SetTriggerMode

Spec == Init /\ [][Next]_vars

-----------------------------------------------------------------------------
(* The warning "Did not receive image for long time." is given only after  *)
(* LostDefault failures in a row with no image among them.                 *)
WarnAfterRowOfMisses ==
  [][logCounter' > logCounter => misses = LostDefault - 1]_vars

=============================================================================
