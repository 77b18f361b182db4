SPECIFICATION Spec
CONSTANTS
  SERIAL_BUFFER_SIZE = 3
  TICKS_PER_BIT = 4
  DATA_BITS = 2
  Bytes = {1, 2}
  MaxBytes = 3
  AVAILABLE_TONE_PINS = 2
  TonePins = {1, 2, 3}
  NoPin = 255
  F_TIMER = 4
  MS_PER_S = 2
  ULONG = 16
  INT16 = 8
  Tones <- MCTones
  ServoCount = 2
  ServoPins = {1, 2}
  Widths = {3, 6}
  REFRESH = 12
  MIN_WAIT = 3
INVARIANT StopBitKept
