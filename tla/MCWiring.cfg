SPECIFICATION FairSpec
CONSTANTS
  WORD = 7
  INT = 16
  FRACT_MAX = 4
  MS_PER_S = 3
  MICROSECONDS_PER_WDT_OVERFLOW = 3
  SecondsTick <- MCSecondsTick
  SleepTick <- MCSleepTick
  Delays = {2}
  Sleeps = {2, 4}
  Seconds = {1}
INVARIANTS TypeOK ClockExact
PROPERTIES DelayTiming SleepTiming WakeupPrompt CallsReturn
