SPECIFICATION WakingSpec
CONSTANTS
  WORD = 8
  INT = 8
  FRACT_MAX = 2
  MS_PER_S = 5
  MICROSECONDS_PER_WDT_OVERFLOW = 1
  SecondsTick <- MCSecondsTick
  SleepTick <- MCSleepTick
  Delays = {}
  Sleeps = {}
  Seconds = {}
PROPERTY WakeupEndsSuspend
