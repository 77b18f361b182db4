# Energia, modelled in TLA+

This directory is a verification project for Energia (the `wiring-library`
repository): the Arduino-like framework for TI's MSP430, Stellaris/Tiva (lm4f),
CC3200 and C2000 boards. It holds TLA+ modules translated from the source, TLC
configurations that check them on small instances, and theorems that TLAPS
proves for every instance. `PROJECT.json` lists every run, theorem, hazard and
finding, and maps each definition to the lines it models.

    tlc -workers 2 -config MCHardwareSerial.cfg MCHardwareSerial
    tlapm HardwareSerialProofs.tla

## The system

A sketch is one thread, `setup()` and then `loop()` for ever (`main.cpp`). All
concurrency comes from interrupt handlers, which do not nest on the MSP430, and
from the peripherals, which run by themselves. Nothing is locked but by turning
interrupts off; nearly everything is shared through `volatile` globals and
device registers.

Paths below are relative to `src/hardware/msp430/cores/msp430/` unless they say
otherwise.

| Component | State | Operations | Shares it with | What makes it hard |
|---|---|---|---|---|
| `HardwareSerial.cpp`, `usci_isr_handler.c` | two rings, `UCAxIE`, the UART's registers | `begin end available peek read write flush` | `uart_rx_isr`, `uart_tx_isr`, the UART | lock-free rings; an interrupt that disables itself; waits without a timeout; a second `begin` |
| `wiring.c` | `wdt_millis`, `wdt_fract`, `wdt_overflow_count`, `sleeping`, `stay_asleep`, the `S` increments, `WDTCTL` | `millis micros delay sleep sleepSeconds suspend`, `wakeup()` | `watchdog_isr`, every handler that may call `wakeup()` | rollover; the timer changes its source; test and low-power mode are two steps |
| `WInterrupts.c` | `intFuncPn`, `intChangeVectPn`, the ports' `IES IE IFG` | `attachInterrupt detachInterrupt` | `Port_1` to `Port_4`, the pins | mode CHANGE emulated by turning the edge round; hardware sets flags while code rewrites them |
| `twi.c`, `Wire.cpp` | `twi_state`, master, slave rx and tx buffers with their indices, `TwoWire`'s own buffers | `begin beginTransmission write endTransmission requestFrom read`, slave callbacks | `i2c_txrx_isr`, `i2c_state_isr` / `USI_ISR`, the bus | transfers driven by interrupts; NACK, repeated start, a slave callback in the middle of a master's preparation |
| `TimerSerial.cpp` | receive ring, bit-level state of both directions | as `HardwareSerial` | two timer interrupts, `delay`-free bit timing | a bit must be ready before the previous one ends |
| `Tone.cpp` | pins, toggle counts and periods of three channels | `tone noTone` | the timer interrupt | channels freed by the handler or by the sketch |
| `wiring_digital/analog/pulse/shift` | registers | pin I/O, PWM, ADC, `pulseIn`, `shiftIn/Out` | little | tables, busy waits |
| `Stream`, `Print`, `WString`, `WMath`, `random` | buffers of one call | text and numbers | none | sequential |
| `libraries/SoftwareSerial`, `libraries/Servo` | one ring for all ports; pulse widths of eight servos | `listen read write`; `attach write` | pin / timer interrupt | shared ring; one timer served in turn |
| `lm4f` core and libraries | as above, other drivers | as above | nested vectored interrupts, UART FIFO | `primeTransmit` called from both sides; clock reads that tear |
| `cc3200`, `c2000` | derived from `lm4f` and `msp430` | | | |
| `c2000` flash kernel and serial loader | byte protocol of a boot loader | | serial line | |
| `arduino` (AVR) | the upstream tree | | | not Energia's own code |
| `driverlib`, `lwip`, SimpleLink, USB stack, register headers | | | | vendored |

What makes the modelled components correct:

* **Serial.** Bytes leave on the line in the order written, each once; `read`
  returns bytes in the order of arrival; what is lost is only what overran the
  receiver, found the ring full, was discarded by `end` or cut off by `begin`;
  what `available` and `peek` told the sketch stays true; waits end.
* **Time and sleep.** The clock is the sum of its ticks across carries and
  rollovers; `delay`, `sleep` and `sleepSeconds` take the time they were asked
  for to within a bounded error and return; a wakeup takes effect.
* **Pin interrupts.** A function runs only for a change its pin's mode asks for;
  a CHANGE pin is never left waiting for the wrong edge; the handler ends.
* **I2C.** As a master, the sketch sends exactly what it wrote and returns
  exactly what the slave sent, and its calls return; as a slave, it answers a
  request with that request's reply and hands its callback one whole message.
* **Timer serial.** Bytes cross the line bit for bit, at any phase of the two
  ends, in both directions at once; what polls the transmitter returns.
* **Tone.** No pin is driven by two channels; a pin without a tone is low; a tone
  with a duration ends.
* **Servo.** Pulses never overlap; a cycle lasts the refresh interval; every
  attached servo is served.
* **lm4f serial.** Sketch and handler, both of which move bytes from the ring to
  the FIFO, send each byte once and in order; no loop waits for an index that
  the compiler need not read again.

## Modules

| Module | What it is |
|---|---|
| `ByteQueue` | abstract: a bounded FIFO queue, what each direction of a serial port promises |
| `RingBuffer` | `struct ring_buffer` and its index arithmetic as operators |
| `HardwareSerial` | the port: sketch, two handlers, UART; extends `RingBuffer`, instantiates `ByteQueue` twice |
| `RingBufferProofs`, `HardwareSerialProofs` | lemmas about the operators; theorems about the port |
| `Wiring`, `WiringProofs` | clock, delay, sleep, suspend, wakeup; theorems about the clock, delay, the sleeps and wakeup |
| `WInterrupts`, `WInterruptsProofs` | one port's pin interrupts; theorems about them |
| `Twi`, `TwiProofs` | the I2C engine with the `Wire` object over it, a slave, another master; theorems about it |
| `TimerSerial`, `Tone`, `Servo` | the three users of Timer A0 |
| `TimerSerialProofs` | the serial port's inductive invariant, and induction over the bits of a byte |
| `TimerA0`, `TimerA0Proofs` | composes the three: a program is linked with one; theorems about all of them |
| `Lm4fSerial`, `Lm4fSerialProofs` | the lm4f port, whose sketch and handler both empty the transmit ring; extends `RingBuffer`; theorems about it |
| `MCHardwareSerial`, `MCWiring`, `MCWInterrupts`, `MCTwi`, `MCTimerA0`, `MCLm4fSerial` | instances for TLC |

### Conventions

* The sketch runs **one statement that touches shared state per step**; `pc` is
  the statement that comes next. A test that fails and leaves the state alone
  (a spin) is no step, which is what a stuttering step stands for.
* An interrupt handler is **one step** where nothing runs beside it that could
  see its middle: the CPU clears GIE on entry and handlers do not nest. `Port_1`
  is cut into statements because the pins keep changing while it runs. A
  read-modify-write of a register that the other party also writes
  (`UCAxIE |= UCTXIE`, `P1IFG &= ~bit`) is a load and a store: that is how the
  builds with byte-offset registers (`*(&(UCAxIE) + offset) |= ..`) may compile
  it, and it covers the single-instruction case.
* **Program order** of the statements is taken as written, also for
  `buffer->buffer[..]`, which is not `volatile` between two volatile accesses.
  The language does not promise that order; the model assumes a compiler that
  keeps it.
* History variables record what an observer saw. No step of the code depends on
  them, but `written` and `arrived` name the next byte.
* A definition whose name begins with `Bug` is a faulty variant of the one that
  follows it. No specification uses it; putting it in the other's place must
  make a property fail, and `PROJECT.json` ("mutants") says which.
* When a call returns its locals are reset, which keeps states few and loses
  nothing, for no later call reads them.

### `HardwareSerial`

Bytes are named by their order: the code never looks at a value. The n-th byte
written is `n`, the n-th that arrives is `n`, `0` is none; so order, loss and
repetition are visible as arithmetic. `tx` and `rx` are the rings, `ie` and
`gie` the two interrupt enables, `txbuf`, `shift` and `rxbuf` the UART;
`UCTXIFG` and `UCRXIFG` are read off `txbuf` and `rxbuf`. `write` is six steps
(index, wait, store, publish, load `IE`, store `IE`), `read` three, `begin`
three. `TxIsr*` and `RxIsr` are the handlers with the vectors that call them;
`SharedVector` is the USCI part where UART and I2C share vectors, and an I2C
request may run `uart_tx_isr` with `UCTXIE` clear. `Shift`, `ShiftOut` and
`Arrive` are the UART: a byte that arrives before the last was fetched
overwrites it.

One sketch calls the port (a handler that calls `Serial.write` is not
modelled); the calls that wait for interrupts are made with interrupts on, and
`write` before the first `begin` is left out.

### `Wiring`

Time is counted in units of `wdt_fract`. `wdt` is what drives the timer, `lpm`
the CPU's mode; the sketch steps only while `lpm = "active"`. Entering a
low-power mode sets GIE and does not look at `stay_asleep` again, so the lost
wakeups of the code are there. The assignments that prepare and end a sleep are
steps of their own, so a tick may fall between any two of them and be credited
with the wrong increments. `WakeupIsr` is any other handler with a callback that
calls `wakeup()`; it leaves the low-power mode only if `stay_asleep` changed
while it ran, as the handlers do.

`Expire` is the timer. Its one assumption is stated there: the interval is far
longer than the code between two low-power modes, so the timer expires at most
once in it. Nothing in the code bounds what other handlers spend there, so this
is an assumption and no result. `taken`, the time that really passed, is a sum
of whole intervals, so every timing property has a resolution of one tick; the
counts of ticks in them are what the check shows to hold and, at the next
smaller number, to fail.

### `WInterrupts`

One port; the code repeats the same text for P1 to P4. The registers are
functions or sets over the pins. `owed` counts the level changes a pin's mode
asks for, less the calls of its function. `Overlooked` is the window in which
the hardware sets a flag that a store of `P1IFG` may then erase. The functions
themselves do not attach or detach; `Reattach` says whether the sketch attaches
a pin that is attached.

### `Twi`

The build for a USCI_B0 (`__MSP430_HAS_USCI__`). The sketch is in a call or idle
(`call`). `i2c_state_isr` runs `onRequestService` and `onReceiveService`, which
rewrite Wire's buffers and their indices, so the statements of `begin`,
`beginTransmission`, `write`, `read` and `endTransmission` that share them are
steps of their own:

* `BeginTransmission`, `BeginTxIndex`, `BeginTxLength` are the three stores at
  `Wire.cpp:120`, `124`, `125`;
* `Write` is the test for room, `WriteStore`, `WriteCount`, `WriteLength` the
  three stores after it. A request between the test and the store may have left
  no room. The byte then goes to what lies behind `txBuffer`; the model lets it
  hit `txBufferIndex` or nothing, and the length becomes `BUFFER_LENGTH + 1`,
  which `endTransmission` refuses (`EndUnsent`);
* `End` passes the length to `twi_writeTo`, which resets the module one step
  later; a request may come between the two and rewrite what is to be sent. A
  length beyond the live bytes sends any bytes (`Sent`);
* `Begin`, `BeginLength`, `BeginState`, `BeginReset` are those of `begin`.

What follows `UCSWRST` in a call is one step with it, for the module is then off
the bus and raises nothing until it is started; so is what follows the waits of
`twi_writeTo` and `twi_readFrom`, for with `UCMST` set nobody addresses the
module. `ctl` and `ifg` are the bits set in the control and
flag registers; `Isr` has one action per branch of `i2c_txrx_isr` and
`i2c_state_isr`, with the callbacks of `Wire` inside `StartTxIsr` and `StopIsr`;
`Hw` is the module as a master with a slave that may refuse the address or any
byte; `Remote` is another master, which writes to the sketch or reads from it;
`HwArbitrationLost` lets it win the bus. `Begin`, `EndTransmission` and
`RequestFrom` go through `UCSWRST` (`Reset`), which drops whatever the module
was doing.

Assumptions, each stated at its definition:

* Handlers run whole and before the sketch goes on, and a byte on the bus takes
  longer than the handlers it raises and than a turn of a waiting loop
  (`Settled`). At 100 kHz a byte takes 90 us, some 1400 cycles at 16 MHz.
* The waits poll. The code enters LPM0 between two tests; the handlers' wakeups
  and the watchdog tick end that sleep, so a wait that is late is not a wait
  that fails.
* A buffer is the sequence of its live bytes. What lies beyond them is any byte,
  which is what a handler that reads on in memory finds (`TxBytes`).
* The module clears `UCTXNACK` and discards a byte left in `UCB0TXBUF` at a START
  that addresses it; while `UCMST` is set it cannot be addressed.
* The sketch asks for one byte or more, has registered both callbacks, and
  calls neither `begin` nor `requestFrom` between `beginTransmission` and
  `endTransmission`. The winner of an arbitration does not address the sketch
  before the call that lost it has returned.

`wrote`, `wire`, `message`, `got`, `reply`, `diverted`, `killed` and `lost` are
history: `reply` is what the callback wrote at the request on the bus, `diverted`
says that it went to Wire's `txBuffer` because the sketch was transmitting, and
`killed` that a request emptied the transmission the sketch was writing.
`RequestAnswered` compares what the other master gets with `reply`, and says
nothing of a diverted one, to which the code answers with a 0 (see "Other
disagreements").

### `TimerA0`: `TimerSerial`, `Tone`, `Servo`

Each of the three defines the handler of the vector `TIMER0_A0`, so `owner` is
chosen once. They share no variable, and `OneUserSteps` (in the proofs) is what
lets a theorem about one be a theorem of the whole.

* **`TimerSerial`** counts time in fractions of a bit (`TICKS_PER_BIT`). A byte
  is its bits, shifted as `USARTTXBUF` and `rx_bits` are. Handlers, reads and
  successful polls happen within a tick: `Tick` waits for them, as a bit lasts
  longer than the code between two. The three statements of `write` that program
  the timer are one step, for they lie within a tick. The peer holds its bits
  for exactly a bit, starts them at any tick, and samples in the middle.
* **`Tone`** leaves out the intervals: a handler whose channel is enabled may
  come at any time, so what holds does so for all frequencies. `Periods` keeps
  the widths: the product wraps as an unsigned long, the quotient as an
  `int16_t`. A frequency above `F_TIMER / 2`, which divides by zero, is
  excluded.
* **`Servo`** counts in timer ticks; a slot is what the handler puts in
  `TA0CCR0`. The sketch may call between any two handlers, and a handler may
  come between any two statements of `attach` or `detach`. `stuck` names the
  pins left high by a `detach`, or a new pin, in the middle of a pulse; the next
  pulse of such a pin, or the end of that servo's slot, takes it out.

### `Lm4fSerial`

As in `HardwareSerial` a byte is its number. The ring's indices are not
`volatile` here, so a loop that waits for one to change may be compiled to wait
for ever; in the model it does, and `NeverSpins` says that no such wait is
entered. `nvic` is `IntEnable`, `ie` the UART's own mask, `ris` what is
requested. `primeTransmit` is cut into its statements on both sides, `isr` being
the place of the handler.

`begin` may be called on a port that runs, whose interrupts stay on in it, so its
statements are steps (`BeginConfig` to `BeginAlloc`) and the handler may come
between any two: after the driver library's wait until nothing is being sent,
between the four stores of `flushAll`, and between `free` and `malloc`. Two things
it can spoil are named. `torn`: the handler found one index of the transmit ring
set and the other not, and sent bytes that had been sent. `freed`: a character
was in the receive ring when its memory was freed, or came before there was new
memory. The properties of a direction hold until it is spoilt so. The stores of
263 to 265 are one step (`BeginEnable`), as the handler cannot tell what is
between them; `EndFlush` is one, as `end` has masked all interrupts.

## Runs

All bounds are the CONSTANTS of the cfg and the CONSTRAINT of two of them
(`OneBufferful` in `MCTwi`, `OneDirectionSpoilt` in `MCLm4fSerial`); nothing else
limits a run.

| Run | Checks | Shows |
|---|---|---|
| `serial` | `TypeOK TxStream RxStream PromiseKept PeekedIsNext QueuedBytesEnabled TransmittedInOrder TxImplementsQueue RxImplementsQueue WaitEnds EveryByteTransmitted` | in every interleaving of sketch, handlers and UART, through a second `begin`, overruns, a full ring and `end`, no ring loses, repeats or reorders a byte, and each is a bounded FIFO queue; the waits without a timeout end and every byte written reaches the line, unless a `begin` stranded the ring |
| `wiring` | `TypeOK ClockExact DelayTiming SleepTiming WakeupPrompt CallsReturn` | the clock is the sum of its ticks through carries and rollovers; `delay` is never early and less than two ticks late; `sleep` and `sleepSeconds` are less than a tick and a millisecond early and at most two ticks late although ticks around a change of the timer's source are credited wrongly; they return, with interrupts on or off; a wakeup takes effect at the second tick at the latest |
| `interrupts` | `TypeOK ChangeArmed NoSpuriousCall ComesToRest` | a CHANGE pin without a flag waits for the edge its next change makes, no function is called without a change in its mode, and the handler comes to rest, for pins detached before they are attached again |
| `twi` | `TypeOK MessageReadWhole RequestAnswered WrittenAsAsked ReadAsAsked CallsReturn` | whatever the slave refuses and whenever another master comes, a master's call transfers what was asked, reports success only then, and returns, unless it lost arbitration; a slave's callbacks see whole messages and its replies start at their first byte, unless the request came in a transmission, whose bytes and reply then mix |
| `timerA0` | `TypeOK HeardAsWritten PinsInTune OnePulse StoredAsSent PollEnds ToneEnds CycleLength ServoServed` | bytes cross the line bit for bit at any phase; tones never share a pin and leave it low; pulses never overlap, fill the refresh interval and reach every attached servo |
| `lm4fSerial` | `TypeOK InOrder NeverSpins ComesToRest` | although sketch and handler both empty the ring, no byte is sent twice, skipped or reordered; no loop depends on rereading an index; every call ends with all its bytes sent; unless the handler came between two stores of a `begin` on a running port |
| `serialRebegin` | `FullBufferIsEmptied` is violated | finding 1 |
| `wiringSuspend` | `WakeupEndsSuspend` is violated | finding 2 |
| `interruptsReattach` | `NoSpuriousCall` is violated | finding 3 |
| `timerSerialStop` | `StopBitKept` is violated | finding 4 |
| `twiRepeatedStart` | `SentOnlyInCalls` is violated | finding 5 |
| `twiOverrun` | `HandlersEnd` is violated | finding 6 |

Why the bounds are enough:

* **Serial:** a ring of three slots is the smallest that is neither empty nor
  full when it holds a byte. Three writes and three arrivals fill it, wrap both
  indices, and overrun the receiver; two `begin`s are the first and one that
  finds bytes queued. The theorems need none of these bounds.
* **Wiring:** the code's numbers (1000 us, 1000 ms, 2^32, 2^16) are scaled so
  that what makes them awkward stays: a tick is a fraction of a millisecond that
  does not divide it (3/4), the sleep ticks are longer than a millisecond and one
  of them has a fraction, and the counters roll over within a run. `sleep` is
  called with less and with more than a second, so that it goes through
  `sleepSeconds` and the rest. Arguments of `sleep` stay below `INT`
  milliseconds; above, its 16-bit product overflows and the rest is wrong.
* **Pin interrupts:** two pins, so that a rewrite of `P1IFG` for one meets a
  change of the other; four changes are two of each, or all of one while its
  function runs.
* **I2C:** buffers of two bytes are the smallest with a first, a last and a byte
  between the two ends of a transfer; `Quantities` has one byte, whose stop the
  sketch asks for itself, one that fills the buffer and one that is cut to it.
  `Replies` are none, one of a byte, one that fills the buffer and one that does
  not fit. The other master moves up to as many bytes as the buffer holds; one
  more in `twiOverrun`, where the handler never ends (finding 6). `Stops` is TRUE,
  as the repeated start is finding 5, but in `twiRepeatedStart`. `UINT8` is the least
  that holds the length of an overfull buffer, and wraps in a request.
  `OneBufferful` leaves out states in which the last message and the bytes to be
  sent are together longer than a buffer: the two share no variable, and a full
  one of either meets every step of the other side. The theorems do not need it.
* **Timer A0:** a bit of four ticks gives the two ends four phases; bytes of two
  bits have every pair of neighbours; three bytes are two back to back and one
  the other way. Two channels for three pins, so that one finds none free; the
  tones include a rest, an endless one, one whose product wraps and one whose
  count is negative. Two servos whose pulses leave less, or more, than the least
  wait.
* **lm4f serial:** rings of three slots and FIFOs of two, so that the ring holds
  bytes the FIFO has no room for; three arrivals overrun the FIFO or fill the
  ring, and three writes wrap the indices. `OneDirectionSpoilt` ends a run once
  `begin` has spoilt both directions, when only `TypeOK` is left to hold. The
  theorems do not need it.

`CHECK_DEADLOCK FALSE` stands in `MCSerialRebegin`, where the port without
arrivals may really stop, in the three configurations of `MCTwi`: a call
that lost arbitration waits for ever, and nothing else need move; and in
`MCLm4fSerial`, where a torn ring keeps `begin` and `end` waiting. Each property
of a passing run has a variant of the code that breaks it, see `mutants` in
`PROJECT.json`.

### Fairness

* The statements of a call in progress have weak fairness: the CPU runs. In
  `Wiring` they are enabled in active mode only.
* A pending interrupt has strong fairness, for GIE may go off and on again
  before it is taken. `TxIsr` and `RxIsr` have it only where their enable bit is
  set: a dispatch of `uart_tx_isr` by an I2C request is never promised.
* `Interrupts` has strong fairness in `HardwareSerial` and `WInterrupts`: a
  critical section of the sketch ends. `CallsReturn` does without it.
* The UART shifts and the timer expires while it is not held (weak fairness);
  the handler of the pins runs on once entered.
* `Twi` and `Lm4fSerial` have strong fairness for the statements of the sketch,
  for a handler may interrupt it again and again before each; the handlers, the
  bus and the UART have weak fairness. In `Twi` the other master's transfer that
  the sketch has no part in ends; nothing makes one begin or go on.
* `TimerA0`: weak fairness of the sketch's statements, of the timer's ticks and
  of each channel's handler.
* Nothing makes the sketch call anything, a byte arrive or a pin change.
  `WakingSpec` alone lets other interrupts call `wakeup()` again and again; it
  makes finding 2 stronger: not even then does `suspend` return.

## What is proved

TLAPS checks the following for every value of the constants that the named
assumptions admit: `SizeAssumption` (a ring has two slots or more),
`SerialAssumption`, `ClockAssumption`, `PortAssumption` and `FifoAssumption` (the
types of the constants; a fraction of a sleep tick is less than a millisecond),
`ToneAssumption` and `ServoAssumption` (the pulses of all servos fit the refresh
interval), `BitAssumption` (four divides the ticks of a bit, so that its quarters
are ticks) and `TwiAssumption` (the buffers hold a byte or more and the 8-bit
index counts them all). They are evaluated by TLC in every run.

**`RingBufferProofs`** says what the index arithmetic does to `Contents`, the
queue a ring stands for: publishing the head appends the byte in the slot,
advancing the tail drops the first, a store to the free slot changes nothing,
`store_char` appends or changes nothing, `Available` is the length. The modular
arithmetic of the ring is confined to these lemmas.

**`HardwareSerialProofs`** has three layers. `TypeInv` is `TypeOK` and `CallInv`,
which need each other: that `idx` is a slot rests on the locals of the call in
progress. `TxStream` and `QueuedBytesEnabled` are the transmit side; `RxInv`,
which is `RxStream`, `PromiseKept` and `PeekedIsNext`, is the receive side. Each
side is inductive with the first layer and independent of the other, and
`TxSteps` and `RxSteps` say that only a few actions touch its variables. From
them follow

* `TypeCorrect`, `CallsUndisturbed`, `TransmitStream`, `QueuedStayEnabled`,
  `ReceiveStream`, `AvailableIsAPromise`, `PeekThenRead` (invariants),
* `LineInOrder` (an action property, from `TxStream`), and
* `TransmitRefinement`, `ReceiveRefinement`: under `q <- Contents(tx)` and
  `q <- Contents(rx)` every step of the port is a `Put`, a `Get`, a `Clear` or a
  stutter of `ByteQueue`. `WritePublish` is the put of the transmit ring, not
  `WriteStore`, and `uart_rx_isr` with a full ring is a stutter.

**`WiringProofs`**: only `WatchdogIsr` changes the clock, and its one carry is
enough because both addends of the fraction are below `FRACT_MAX`; with the
milliseconds modulo `WORD` the clock is `credited` modulo `WORD * FRACT_MAX`
(`ClockLosesNothing`). `WiringTypeCorrect` is needed for it, and says itself that
the fraction never reaches a millisecond, whichever increments a tick is
credited with.

The timings rest on `PlaceInv`: what drives the timer at each statement, that the
CPU is in a low-power mode only at a test, and that a call meets one tick before
its first low-power mode and one in each. None of them is inductive; each needs
the account of where the time went, and has a hypothesis about the constants.

* `DelayLasts` assumes `ShortTick`, a tick shorter than a millisecond. `DelayInv`:
  what `delay` has counted off and what `micros()` will show when the pending
  tick is taken make up the time taken, but for one tick that was pending at the
  call; and less than a millisecond is due when a pass begins, because a pass
  waits for one tick and counts off up to one millisecond. The tick is 512 us at
  1 and 16 MHz. At 8 MHz it is 1024 us, more falls due than is counted off, and
  `delay` is late in proportion: the hypothesis leaves out what is false.
* `WakeupWithinTwoTicks` assumes a running tick no longer than one of
  `sleepSeconds` (0.5 ms and 250 ms). `WokenInv`: at a statement before a
  low-power mode the wakeup is at most one tick old, at the test at most two.
* `SleepsLast` assumes `SleepsFit`. `CreditInv` says with what the next tick is
  credited, between any two of the assignments that set it; `StayInv`, that only
  a wakeup ends a sleep; `ArgsInv`, that the arguments stay in the word and what
  `sleep` has still to do below a second; `SecondsInv` and `SleepInv`, by how much
  `millis()` and the time taken differ in the two parts, for `sleep` adds the
  errors of both. `SleepsFit` asks that a millisecond, a running tick and a tick
  of `sleep` fit into one of `sleepSeconds` (1 + 0.5 + 1.95 ms into 250) and that
  into a second, which excludes the VLO at 8 kHz (1024.3 ms) and neither the one
  at 12 kHz nor the crystal; that the word has room for an argument and three
  ticks; and that `sleep` is called for less than 66 s, where its 16-bit product
  is exact.

The proof corrected the model: `SleepTiming` used to allow one tick early, which
holds on the instance of `MCWiring` only because its milliseconds have few
fractions. A sleep that begins with a fraction shown and a tick pending counts
both, the fraction because `start` has only `millis()` and the running tick
because `sleeping` is set. With ten fractions to a millisecond TLC finds such a
sleep, a tick and part of a millisecond early, and the bound now allows it.
`PlaceInv`, `DelayInv` and `WokenInv` were checked with TLC on the instance of
`MCWiring`, which satisfies their hypotheses. It does not satisfy `SleepsFit`, its
second being too short for that (`SleepTiming` holds there all the same); the
invariants of the sleeps were checked on two instances that do.

**`WInterruptsProofs`**: `ModeInv` ties the tables to the mode a pin was attached
in, also in the middle of a call. `OwedInv` says what a flag stands for: one
change without a call, and two if the pin is back at the level its edge starts
from; that is why the handler may leave a flag set in mode CHANGE.
`NoSpuriousCall` is not inductive without it. `ArmedInv` says that without a flag
the edge starts from the pin's level. `NoCallWithoutChange` and
`ChangePinsArmed` assume `~Reattach`, which `ModeInv` needs at `AttachCall`: with
it dropped the property is false, finding 3. `PortTypeCorrect` assumes nothing.

**`Lm4fSerialProofs`** has the same layers as the msp430 port. `TypeInv` is
`TypeOK` with `CallInv`, what a statement relies on (the handler is off while
`primeTransmit` runs in the sketch, and leaves alone the index that `begin` has
set), and `SpinInv`, the ring is empty between calls; that `write` leaves it so
again rests on `TxInOrder`. `RxInv` adds to `RxInOrder` a bound on what has
arrived and that bytes are dense while none was lost. The lemmas of
`RingBufferProofs` serve both ports; `ResetRing` and `ForgottenRing` are what
`begin` needs besides, one index set alone and a ring whose memory is gone. They
give `Lm4fTypeCorrect`, for every interleaving of `begin` with the handler, and
`NoLoopSpins` and `BytesInOrder`, which say nothing of the transmit side once it
is `torn` and nothing of the receive side once it is `freed`: without these two
words both are false of the code.

**`TimerA0Proofs`**: `ChannelInv` says what `tone` and `noTone` rely on between
two statements: the channel they work on is the pin's, or no longer is, and one
that has a pin puts out on it. It is inductive with `OneTonePerPin` and
`SilentPinIsLow`, the two parts of `PinsInTune`. For the servos `AttachInv` says
that the timer is off without a servo but where `detach` is about to turn it
off; `CycleInv` that `totalWait` is the time since the cycle began. `Timer_AIs`
states the handler once for its two callers. They give `PulsesApart` and
`CyclesEven`. `TimerA0TypeCorrect` needs more than types: that a count fits 16
bits is a lemma about `Periods`, and that the pulses of a cycle fit the refresh
interval is `SharedInv`, which allows the first `n` servos `n` shares of it; with
the bound on their sum alone the invariant would not survive a `write`, which
changes a width after the pulse was counted.

**`TimerSerialProofs`** has one invariant for each direction, `ReceiverInv` and
`TransmitterInv`, and each says in which of four or six phases that direction is.
A phase fixes two things. One is by how many ticks the sampling end's timer and
the sending end's differ: the receiver samples half a bit after an edge,
`line.t = ccr1 + Half` or `ccr1 - Half` in the bit before, and the peer half a bit
after each match. The other is what the sampling end has gathered: `Gathers` is
`data + mask * rest = byte + STOP_BIT`, where `rest` is what is left to shift out.
A sample moves a bit from `rest` to `data` and doubles `mask`, and the sum stays;
when `rest` is the stop bit alone, `data` is the byte (`GatherNext`). The
transmitter needs the two bytes written last, for `write` hands over a byte while
the peer is still at the end of the one before (`TxLead`, `TxStart`). From the
two follow `BytesHeardAsWritten` and `BytesStoredAsSent`, in `TimerA0Proofs`. The
stop bit is in neither: that it is kept is false (finding 4). TLC has checked
`ReceiverInv` and `TransmitterInv` as invariants on the instance of `timerA0`, and
with bits of eight ticks and bytes of three bits.

The weight of a bit is the recursive function `Weight`, for the provers know no
powers. What `WeightIs` and `WeightGrows` say of it is by induction. The library's
induction theorems cannot be used, having an operator as a parameter; but
`SetInduction`, which says the same of a set of numbers, follows from
`NatLessThanWellFounded` and `WFMin`, which have none.

**`TwiProofs`**: `IInv` is inductive only as a whole. `BusInv` says where the bus
can be, given what the sketch waits for and which flags are up; `MasterRxInv`
and `MasterTxInv` say how far a transfer of the sketch's own has come, and
`SlaveRxInv` and `SlaveTxInv` one of another master's. The handlers serve all of
them through the same `twi_state`, so each step of a handler must show that the
others' transfer is not under way, which is what `BusInv` says and what the
others are needed to keep. `SlaveTxInv` counts the bytes that have left the reply
(`Moved`: on the wire, in the shift register, in `UCB0TXBUF`), with the index
equal to it until it wraps; and that the engine's buffer holds the callback's reply,
unless that was diverted or did not fit. `WroteInv` says at each statement of a
transmission how far `txBuffer`, its index and its length have come, until a
request empties it (`killed`). Only so far are Wire's indices bounded by
`BUFFER_LENGTH`, in `TypeOK` as in the code; the engine's are bounded always.
From `IInv` follow `TypeCorrect`, `MessagesReadWhole`, `RequestsAnswered` (of
requests that find no transmission) and `ReadsAsAsked`. `WritesAsAsked`, of
transmissions no request has come into, needs `SendingInv` too and
assumes that every `endTransmission` asks for a stop: after a repeated start
the byte left in `UCB0TXBUF` goes to the slave that is addressed next, and the
property is false (finding 5).

**Only model-checked:** every liveness property (`WaitEnds`,
`EveryByteTransmitted`, `CallsReturn`, `ComesToRest`, `PollEnds`, `ToneEnds`,
`ServoServed`), which are out of the prover's reach. Every safety property the
passing runs check is a theorem. The timings of the clock's calls are so under
the hypotheses above, `NoSpuriousCall`, `ChangeArmed` and `WrittenAsAsked` under
those that keep findings 3 and 5 out. What a property leaves out by its own
words (`killed`, `diverted`, `lost`, `torn`, `freed`) its theorem leaves out too.

## Findings

1. `begin` with bytes in the transmit ring: a later `write` that fills the ring,
   and `flush` and `end` at once, wait for ever (`HardwareSerial.cpp:147`,
   `231`).
2. A `wakeup()` between `suspend`'s test and LPM4 is lost, and so is every later
   one (`wiring.c:553`, `557`).
3. A CHANGE pin attached again with RISING or FALLING stays a CHANGE pin
   (`WInterrupts.c:80`).
4. The timer serial port takes its transmitter for free while the stop bit has
   yet to be sent; the next byte may take its place (`TimerSerial.cpp:221`).
5. After a transmission that ends without a stop, the slave is sent bytes the
   sketch never wrote (`twi.c:703`).
6. A slave receiver with a full buffer never fetches the byte that does not fit;
   its interrupt comes again for ever (`twi.c:675`).

`PROJECT.json` quotes what the documentation or the comments say of each.

### Other disagreements

Met while modelling, explained here without a run of their own:

* `flush` returns with up to two bytes still in the UART
  (`HardwareSerial.cpp:221`): it waits for the ring only, while
  `src/reference/Serial_Flush.html:54` says that it "waits for outgoing data to
  transmit".
* `delay` counts off at most a millisecond per tick; where a tick is longer (8
  MHz, 1024 us) it takes 2.4% more than asked (`wiring.c:571`). `MCWiring` has a
  tick of 3/4 of a millisecond, for which `DelayTiming` holds.
* A CHANGE pin that changes back before its function looked at it, and once more
  before the handler compares levels, gets no call for its last change
  (`WInterrupts.c:185`, against `src/reference/AttachInterrupt.html:59`).
* A lost arbitration is acknowledged and otherwise ignored (`twi.c:731`, with a
  TODO): the call under way never returns, although the comment at `twi.c:371`
  lists a result for it, 4. `CallsReturn` excludes it (`lost`).
* A request to the sketch as a slave during its own transmission. `Wire::write`
  looks at `transmitting` only (`Wire.cpp:171`), although the comment above it
  says it "must be called in: slave tx event callback or after
  beginTransmission" (`Wire.cpp:166`): the callback's reply goes to `txBuffer`, in
  place of what the sketch had written, the other master gets a 0
  (`twi.c:771`), and the sketch's slave is sent the reply later. `killed` and
  `diverted` name it.
* Such a request between the test for room and the store of `Wire::write`, with
  a callback that fills `txBuffer`: the byte is stored at
  `txBuffer[BUFFER_LENGTH]` (`Wire.cpp:179`), although "don't bother if buffer is
  full" stands above the test (`Wire.cpp:173`). The length becomes
  `BUFFER_LENGTH + 1`, and `endTransmission` returns `TWI_ERROR_BUF_TO_LONG`
  (`twi.c:413`). Between the two stores of `beginTransmission` (`Wire.cpp:124`,
  `125`) it leaves the index at the end of the reply and the length 0, so that
  the next `write` makes the reply's bytes part of the transmission.
* A message that comes between `rxBufferIndex = 0` and `rxBufferLength = 0` of
  `Wire::begin` (`Wire.cpp:65`, `66`) and of which the callback reads some leaves
  the index above the length: `available()` is negative until the next message
  or `requestFrom`.
* `begin` on a running lm4f port. The handler between `txReadIndex = 0` and
  `txWriteIndex = 0` (`HardwareSerial.cpp:193`, `194`) finds bytes that were sent
  before and sends them again; afterwards the indices differ, and `end` waits at
  `190` for ever with all interrupts masked. `primeTransmit` guards against such
  a race (the comment at `211`), `flushAll`, which is to "wait for transmission of
  outgoing data" (`189`), does not. `torn` names it.
* The same `begin` enables the interrupts (`264`, `265`) before it frees and
  allocates the buffers (`273` to `278`), so the handler may store to freed memory
  or, where `malloc` fails, through a null pointer. "Catch attempts to re-init"
  (`273`) thinks of the leak only. `freed` names it.
* A wakeup before `stay_asleep = true` in `sleep`, `sleepSeconds` or `suspend` is
  overwritten (`wiring.c:478`, `528`, `551`). `WakeupPrompt` is of the later ones.
* The comment at `Tone.cpp:78` says that a tone with a duration "is stopped after
  this time". One whose count of periods does not fit an `int16_t` may get a
  negative one, which means for ever (`Tone.cpp:64`). `ToneEnds` is of the others.
* `src/reference/Serial_Available.html:52` speaks of a buffer of 128 bytes; the
  code's ring has 16 slots (`HardwareSerial.cpp:76`). No run depends on the
  number.

## Not modelled

* **`wiring.c`:** `initClocks`, `enableXtal` and the calibration of the VLO run
  once, before interrupts matter; `delayMicroseconds` is a loop of cycles.
* **Serial calls from interrupt handlers**, `write` before `begin`, parity and
  framing errors, which the code does not look at.
* **Functions attached to pins that attach or detach**, and nesting: a function
  that turns interrupts on again.
* **I2C on a USI or an eUSCI**, whose handlers are other code; a slave that holds
  the clock; `requestFrom` of no byte, which wraps the length; `Wire::flush`,
  which is empty.
* **`Servo`:** the conversions between degrees, microseconds and ticks.
  **`Tone`:** the intervals between matches, and frequencies that divide by
  zero.
* **Stray stores:** what a byte stored past `txBuffer` hits other than
  `txBufferIndex`, and what one stored to a freed receive buffer destroys.
* **lm4f serial:** `setBufferSize` on a ring in use, `setModule`, `setPins`, a
  `malloc` that fails.
* **`SoftwareSerial` (msp430):** its only concurrency is `read` against `recv`
  on one ring, the receive side of `HardwareSerial`.
* **`driverlib`, `lwip`, SimpleLink, USB stacks, register headers, the AVR
  tree:** not Energia's own code, and by far most of the lines of the repository.
  **Displays, sensors, tables, examples:** no concurrent state. **`random`,
  `WMath`, `WString`:** sequential code.
* The rest of the table above is planned, see below.

## Plan

The modules exist up to 6.

1. `RingBuffer`, `ByteQueue`, `HardwareSerial`, with their proofs.
2. `Wiring`, with proofs of its safety.
3. `WInterrupts`, with proofs of its safety.
4. `Twi`, with proofs of its safety.
5. `Lm4fSerial`, with proofs of its safety.
6. `TimerSerial`, `Tone`, `Servo` under `TimerA0`, with proofs of their safety.
7. `Ticks`: the lm4f clock, a counter and a register read in two steps.
8. `StreamParse`: `Stream::find` and `parseInt` as functions against a
   reference definition.
9. The USI's and the eUSCI's I2C engines; `listen` of `SoftwareSerial`.

Runs to come: a `sleep` above the 16-bit product; the composition of `Wiring`
with `WInterrupts` (a callback that wakes a sleeping sketch). Theorems to come:
`Lm4fSerial` against `ByteQueue`; `sleepSeconds` for a VLO of 8 kHz, whose tick is
longer than a second.
