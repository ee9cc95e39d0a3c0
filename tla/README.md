# Verification of the non-invasive RPM sensor firmware

TLA+ models, model-checking configurations and machine-checked proofs for the
firmware under `firmware/src/` (PIC32MZ, C).  The device measures the speed of a
propeller or an engine without touching it: an optical sensor drives an input
capture, two push buttons and a 2-line LCD give a menu, profiles (number of
blades and cylinders) are kept in flash, a microphone chain with digital
potentiometers and an accelerometer serve two more measuring menus.

All paths below are relative to `firmware/src/` unless they say otherwise; the
drivers (`drv_*`) and system services (`sys_*`) are under
`system_config/default/framework/`.

## 1. Inventory

### How the parts run and interact

There is no operating system.  `main` (main.c 70-88) calls `SYS_Initialize`, then
`SYS_Tasks` for ever; `SYS_Tasks` (system_tasks.c) calls `SYS_DEVCON_Tasks`,
`DRV_NVM_Tasks` and `APP_Tasks`.  Two interrupts of the same priority preempt this
super-loop and never each other (system_interrupt.c):

- Timer 1, every millisecond: `App_Timer1Callback`, which first runs
  `GestBtn_Update`, then counts and writes `appData.state`;
- IC3, on captured edges: `DRV_IC3_Callback`, which stores one capture.

Everything is shared memory: `appData.state` (written by both sides, without
protection), the bytes of bit-fields of the debouncer, and the ring
`captureBuffer` / `captureIndex` / `rpmCaptureActive`.

| Component | State | Operations | Makes it correct |
|---|---|---|---|
| Debouncer, GestBtn.c | one `S_Switch` per button: state, counter, and the bit-fields prev, value, pressed | `GestBtn_Update` (interrupt), `GestBtn_Scan` (super-loop) | one event per stable run, never stuck, none lost or invented by a preempted scan |
| Loop and Timer 1 callback, app.c | `appData.state`, static `WaitIteration`, `InitDone` | `APP_Tasks`, `App_Timer1Callback` | nothing used before it is set up, the start-up delay counted in full, services recur |
| Speed capture, app.c, menu.c, drv_ic_static.c | ring of 8 time stamps, `captureIndex`, `rpmCaptureActive`, the loss counter, the module's own buffer | `DRV_IC3_Callback`, start, stop and read of the capture, the services of MENU_MESURE_VISUEL | latest captures, in order, of this session; the speed from the latest period; 0 on loss |
| Menu, menu.c | current menu, cursors, settings, speed, capture and accelerometer flags, the LCD contents | one `Menu_Task` per service, `Menu_Display` | the capture confined to its menu, settings of the selected profile, the screen up to date, profiles not overwritten |
| Profile storage, ProfilStorage.c | `profils[4]` in RAM and in one flash page | load, save, get, reset, test | what is saved can be loaded again |
| NVM driver, drv_nvm_static.c | 5 buffer objects, a linked list, a token, a page copy, the client's event handler | Write, Erase, EraseWrite, Read, Tasks, CommandStatus, EventHandlerSet | requests in order, once, whole; nothing else on a page lost; objects returned; handles honest, also when the handler calls back into the driver |
| SPI bus, Mc32Spi.c, PotControl.c, LIS2HH12.c | chip selects, SPI1 configuration, wiper values, registers | write and read frames | each call is a frame of its slave: what is written reaches the register |
| LCD and I2C, LCD.c, drv_i2c_static.c, i2c_master.c | the I2C module, what the display shows, its cursor | start, byte, stop with busy waits and delays; `LCD_Ping` | each instruction executed once and whole, the text drawn and nothing else on the screen, every wait ends |
| SPI driver, drv_spi_static*.c | the job under way, `symbolsInProgress`, the SPI module's FIFOs | add a read, write or write-read job, blocking write-read, `DRV_SPI0_Tasks`, status | jobs in order, once, to their end; no FIFO overflow |
| Its queue manager, drv_spi_static_sys_queue.c | one pool of elements, a free list, several queues with reservations | create, destroy, alloc, free, enqueue, dequeue, peek | the pool stays whole, reservations hold |
| Timer driver, drv_tmr_static.c, drv_tmr_mapping.c | two timers' registers, `Running` per instance | start, stop, clock, counter and period calls, by instance or handle | the driver's state is the hardware's; no tick after a stop; ticks go on |
| Start-up, clocks, device control, sys_clk, sys_devcon, system_init.c | oscillator, bus divisors, wait states, prefetch, locked registers, the interrupt enable | `SYS_Initialize`, unlock and lock, power modes | the clocks are what the constants say, every section restores what it disabled |
| Ports, sys_ports_static.c | latches, directions, analog and open-drain selects, remapping | `SYS_PORTS_Initialize` | the pins are what the program uses, none driven from an unknown latch |

### What is hard here

- *Interleaving*: the interrupt between any two instructions of the super-loop; a
  bit-field store that undoes what a tick wrote; two ring entries and their index
  read while the ring moves; `appData.state` written by both sides; a timer's
  interrupt between the register writes of the call that stops it.
- *Ordering and staleness*: a copy of the settings of a profile that is changed
  elsewhere; a screen redrawn only when a flag says so; captures that stay in the
  module's own buffer; an index modulo 8 used to detect silence; a job freed by the
  error path and used after it.
- *Reentrancy*: the flash driver's event handler makes requests while the driver is
  between the end of one request and the release of its object.
- *Long sequences*: save, abandon and new profile in any order; bouncing across both
  states of the debouncer; tokens that wrap; erase-writes that cross pages; elements
  of a pool that go from queue to queue.
- *Liveness*: services must recur although requests are overwritten; the drivers'
  lists must keep moving; ticks must go on although the handler clears its flag late.
- *Partial failure*: the flash driver refuses a request without telling anyone; a
  timer accepts half of a clock setting; the LCD ignores what the bus answers.

`PROJECT.json` lists each hazard at its line with the properties that watch it.
There is no test suite in the repository; its README lists the LCD menu as
complete, the saving to NVM as not working and the accelerometer's SPI as unstable.

## 2. Modules

| Module | Models | Composition |
|---|---|---|
| `ButtonEvents` | what the menu may rely on: a set of events waiting to be collected | abstract specification |
| `GestBtn` | GestBtn.c; the scan in steps, torn by a tick | implements `ButtonEvents` |
| `AppLoop` | `APP_Tasks` and `App_Timer1Callback` on `appData.state` | - |
| `RpmCapture` | IC3 and its driver, its handler, the ring and the services that read it | - |
| `Menu` | every case of `Menu_Task`, the contents of the LCD, the profiles in RAM | - |
| `Firmware` | the application: one service is a scan, a menu body and a return, preempted by ticks | extends `AppLoop`, instances of `ButtonEvents` and `Menu` |
| `NvmContract` | requests take effect in order, each as a whole | abstract specification |
| `NvmDriver` | drv_nvm_static.c: the list of objects, handles, page merging, the event handler that calls again | implements `NvmContract` |
| `NvmDriverMC` | a small media and overlapping requests | extends `NvmDriver` |
| `ProfilStorage` | load and save of the profiles against the driver's refusals | - |
| `LcdContract` | each instruction asked of the display is executed once, before the next | abstract specification |
| `LcdI2c` | LCD.c and the redraws of menu.c over drv_i2c_static.c | implements `LcdContract` |
| `LcdMC` | a display of three columns and five texts | extends `LcdI2c` |
| `SpiBus` | Mc32Spi.c, PotControl.c, LIS2HH12.c: chip selects and frames | - |
| `SpiQueue` | drv_spi_static_sys_queue.c as operators on one area of memory | - |
| `SpiJobs` | jobs are done in order, each once, with its own symbols and answers | abstract specification |
| `SpiDriver` | drv_spi_static.c, its tasks and mapping, the SPI module, a second client of the pool | extends `SpiQueue`, implements `SpiJobs` |
| `SpiDriverMC` | job shapes around the size of the FIFOs | extends `SpiDriver` |
| `Board` | system_init.c, clocks, device control, ports, the set-up of I2C, IC and NVM: calls as sequences of register writes | - |
| `TmrDriver` | drv_tmr_static.c, drv_tmr_mapping.c and Timer 1's interrupt | extends `Board` |
| `*_proofs` | the theorems of the module they extend | - |

### How state and actions correspond to the code

- **GestBtn.** `sw[b]` is the `S_Switch` of a button with the fields of the source.
  `debounce_switch` is the function of that name, `GestBtn_Update` one tick for both
  buttons.  A scan is `Begin`, then `Skip`, `Take` or `Torn` for each button, in the
  code's order.  `pressed`, `prev` and `value` share a byte: `Torn` is the store
  that puts the three bits back to what they were before the tick, while `state` and
  `counter`, bytes of their own, keep the tick's update.  `level` and `run`
  are history: what the pin was sampled at and for how long.
- **AppLoop.** The variables have the names of the source.  The interrupt is one step
  (nothing preempts it); APP_STATE_INIT is three steps because the timer is started in
  its middle; a service is two steps because the interrupt runs during `Menu_Task`.
  `ticks` and `requested` are history.
- **RpmCapture.** The handler is a step for the callback and one for the clearing of
  the flag.  Whether clearing it while captures are still buffered raises it again
  cannot be told from the code, so both outcomes are possible.  The two entries are
  read in either order, as the compiler may.  An edge is its number, which stands for
  its time stamp; of the speed only zero or not is kept.  `DRV_IC0_Stop` empties the
  module's buffer.
- **Menu.** One action per case of the switch and outcome of its conditions, with the
  final `Menu_Display` as part of it (`Refreshed`), or a service that redraws nothing.
  `lcd` is the tuple of the values written, so a forgotten redraw shows.  The speed of
  a service is any of `Rpms`.
- **Firmware.** `phase` says where in `Menu_Task` the super-loop is.
- **NvmDriver.** `buf` are the buffer objects, `next` the links; a step of
  `DRV_NVM_Tasks` is one flash operation.  The end of a request is two steps,
  `Tasks_Complete` and `Tasks_Release`, and a read two, `DRV_NVM_Read` and
  `Read_Release`: in between the client's handler runs and may make any request
  (`Caller`); `events` has the objects whose handler runs, innermost first, and
  `inHandler` says that the handler set at the event is running: it may unregister itself
  and still make requests.  The bounds check adds in a `Word`, as the code in 32 bits; the
  requests are assumed not to wrap it.
  Addresses are row numbers, the data of a request is the number of its row.
  Programming only clears bits (`Programmed`), so writing over data shows.
- **LcdI2c.** An instruction is the three bytes of `_sendRaw`; `prog` are the
  instructions the super-loop has still to send, `pc` is the place in `_sendRaw`.
  Every access to the I2C module is a step, and the module's own steps come in
  between.  A byte written too early is dropped, by the driver while another is sent,
  by the module during a start or a stop.  The delays are modelled by what they are
  long enough for: the end of a start or stop (`StartDelay`, `StopDelay`).  `LCD_Ping`
  waits for nothing, so its bytes may be dropped and its stop may still be under way
  when it returns.  Nothing calls it yet; the model begins the next redraw only when
  the bus is idle again, as any use of it between redraws must.
- **SpiBus.** `todo` are the calls still to make; a call lowers its select, exchanges
  its bytes and raises it.  A byte goes to every slave whose select is low.  A slave's
  frame begins when its select falls or, when it is low then, at power-up.
- **SpiQueue.** `m` is the shared area with the fields of the source: the links of
  elements and queues, the free lists and the counters.  An operator is the area
  after a successful call; `CanCreate`, `CanAlloc` say when the code refuses.
- **SpiDriver.** `pc` is the place in `DRV_SPI0_Tasks` (or client code), `tx`, `shift`
  and `rx` the SPI module, whose two steps come between any two of the driver.  The
  second client creates, uses and destroys a queue of its own in the same pool.  The
  overflow path calls back, frees the job and clears the receiver in the code's order, and
  ends at the use of `currentJob`, then NULL (`"stale"`); `NothingLost` says that it is
  never taken.  `DRV_SPI0_BufferAddWriteRead` is called between two jobs only: line 427
  has no such guard, and during a job it would take the job's answers.  No part of the
  firmware calls this driver (Mc32Spi.c drives SPI1 itself), so the clients of the model
  are any use of its interface within that limit.
- **Board and TmrDriver.** A call is the sequence of its register writes, `todo`,
  made one at a time; a write to a locked register is ignored by the hardware.
  Between two writes the timers count (from one interesting value to the next) and
  an enabled interrupt is taken.  A clock is set in three writes between a suspend
  and a resume; `clockCall` (history) is that call with the clock and state it found.
  `DRV_TMR_Initialize` may come at any time and leaves `Running` alone: `again` (history)
  has the timers it stopped in this way, for which `DRV_TMR_ClientStatus` may say RUNNING
  of a timer that stands still.  `boot` are the calls of `SYS_Initialize` still to make.

A name such as `Bounced_KeepsCounter`, with a suffix after the name of the
definition that follows, is a deliberate fault.  No specification uses it; putting
it in the place of the definition makes the run named in `PROJECT.json` fail, which
shows that the property can tell the difference.

## 3. Runs

`tlc -config X.cfg M` in this directory.  Deadlock is checked in all of them.

| Run | Module | Question | Bounds |
|---|---|---|---|
| gestbtn | GestBtn | does the debouncer settle, note one event per stable run and implement `ButtonEvents`? | the code's count of 5; `run` saturates at 8, beyond every comparison with it |
| capture | RpmCapture | is the ring right at every moment, and the difference the latest period? | ring of 4, module buffer of 2, 7 edges while IC3 is on: the ring wraps, overflows the module's buffer and spans two sessions |
| menu | Menu | every sequence of button masks: capture confined, settings and screen current, new profiles safe | 3 profiles, 2 blades, cylinders to 2, two speeds: every wrap, and all slots taken, are reached |
| nvm | NvmDriverMC | do overlapping requests and handlers that call again implement the contract, does every request complete, does no object leak and no handle lie? | 3 objects, tokens modulo 2, two pages of two rows; a write and an erase of everything, an erase-write across pages, a refused write; a 32-bit sum wraps at 8, beyond the requests; handlers nest until the objects are used up |
| lcd | LcdMC | is every instruction executed once and whole, does each redraw end and show its text alone? | 3 columns; a text of full lines, one with an empty line, one written over the save text; any contents at power-up |
| firmware | Firmware | is nothing used before it is set up and the delay counted in full; with fairness, do services recur and button events get through? | delay 5, period 2, one profile: the delay spans two periods, so that each comparison goes both ways |
| spi_driver | SpiDriverMC | are the jobs done in order, each once and to its end, and does the pool stay whole beside a second client? | FIFOs of 2, jobs of 0, 1 and 3 symbols (none, fewer and more than fit), 3 elements, 2 queues, one reservation each |
| tmr | TmrDriver | do driver and hardware agree between calls, do the clocks and pins agree with the rest of the code, do ticks go on? | the code's frequencies, masks and periods; one counter value, one period (beyond 16 bits) and one prescaler beside those of the start-up; both timers have a prescaler, as on this device (the theorem covers those without); timer 1's 32 bits end at 2^31 - 2, since TLC's integers have 32 |
| apploop_request | AppLoop | finding, see below | delay 2, period 2 |
| capture_wrap | RpmCapture | finding | counter modulo 8 in place of 2^16, threshold 2 in place of 100 |
| spi | SpiBus | finding | the code's registers and values; no bound |
| profil | ProfilStorage | finding | the code's counts; the block number 0xBD1FC000 is replaced by 2000000000, also beyond the media, since TLC's integers have 32 bits |

The bounds are enough because the code's behaviour depends on the constants only
through comparisons: with the small values every comparison goes both ways and every
counter wraps.  Where a theorem exists, it covers every value.

What the deeper properties say:

- `OneEventPerStableRun`, `RestsOnStableLevel`: an event only at the end of a stable
  run, and after one the debouncer rests, wherever scans are torn.
- `DeltaIsLatestPeriod`: the two entries a service subtracts are the last two captures
  at the moment it read the index, although the interrupt goes on storing.
- `CapturesInOrder`: no capture of an earlier session is stored in this one.
- `NoBufferLeaks`, `UnfinishedNotCompleted`: the objects in use are those of the list
  and of the reads under way; a client that polls its handle is never told "completed"
  too early, although tokens repeat.
- `ScreenAsDrawn`: once a redraw has ended, the screen shows its text and blanks.
- `NothingLost`: as many symbols are in the SPI module as the driver counts, never more
  than its receive FIFO holds; a blocking exchange finds and leaves it empty.
- `PoolWhole`, `ReservationsHonoured`: every element is in one place, and a queue that
  has less than it reserved, and not its maximum, can always take one.  (The code does not
  ask that the reservation be within the maximum.)
- `RunningIsTrue`, `NoTickWhenStopped`: between calls the registers are what `Running`
  says, and the application is never called back for a stopped timer.
  The one exception is a timer that `DRV_TMR_Initialize` initialises again while it runs:
  it stands still and `Running` says otherwise, until it is started, stopped or given a
  clock (`again`).
- `ClockSetWhole`: the source, its synchronisation and the prescaler are three writes, and
  the timer never counts between them; afterwards it runs exactly when it ran before, and
  the result tells what was set.  A refused source leaves the prescaler alone; a refused
  prescaler leaves the new source behind, which only a timer without a prescaler can show.
- `TimeBasesAgree`, `PinsAsUsed`: constants of four files, and thirty pin masks, agree.
  The constants are those the code uses; a fifth, that it does not use, contradicts them
  (see the observations).
- `ServicesLeaveNoTrace`: interrupts and locks are after a service as before it.  The
  services are those of clk, devcon, NVM and I2C.

### Fairness

- `Firmware`: weak fairness of the tick (a running timer ticks, and `TicksGoOn` of
  `TmrDriver` shows that the driver lets it) and of the super-loop (the interrupts are
  short, so the processor gets back to it; a torn scan is also progress of it).  It
  assumes with it that the busy waits on SPI and I2C inside the menu end, which
  holds only if the peripherals answer: the code has no timeout there, and the hazards
  say so; for the LCD `RedrawEnds` shows that they end if the module works.
- `NvmDriver`: strong fairness of `DRV_NVM_Tasks`, which `SYS_Tasks` calls on every turn
  of the super-loop, so that requests made in between cannot keep it off; and of the
  return of the handler at each depth: a handler may call the driver as often as it
  likes, but returns.
- `LcdI2c`: weak fairness of the processor inside `_sendRaw` and `LCD_Ping` and of the
  I2C module, which finishes a start, a byte or a stop it was told to make.
- `SpiDriver`: strong fairness of `DRV_SPI_Tasks`, which the system is to call
  periodically whatever the clients do, weak fairness of the blocking call, of the loop
  of a destruction and of the SPI module.
- `TmrDriver`: weak fairness of the start-up, of the call under way and of the counting
  of a timer that is on with the internal clock; strong fairness of the interrupt, which is
  pending until it is taken and taken as soon as interrupts are enabled.

No fairness is assumed of the buttons, the pins, the edges or the clients of a driver.

### Findings

Four runs check what a comment says, and TLC finds what the code does instead:

1. `apploop_request`: a service request made by the interrupt during a service that
   outlasts the period is overwritten at its end.  `ServicesRecur` shows that services
   go on nevertheless.
2. `capture_wrap`: the loss counter is a `uint16_t` never held at its limit; after it
   wraps, an old difference gives its speed again.
3. `spi`: the chip selects are low from start-up until their slave's first call has
   ended, so the first `LIS2HH12_WriteReg` is no frame of its own and CTRL1 is never
   written (README.md line 42 of the repository lists the accelerometer's SPI as
   unstable).
4. `profil`: the calls of ProfilStorage.c pass an address and a number of bytes where
   the driver expects block numbers; all are refused silently (README.md line 38 of the
   repository knows that saving does not work).

Observations that no run states: the comments of GestBtn.c (35, 55, 111) call a pin
at 0 pressed, and an event is noted when the pin is back at 1, on the release.
`DRV_TMR0_StopInIdleEnable` clears the bit it should set, as `StopInIdleDisable` does.
app.c line 143 defines `TIMER_FREQ_HZ` as 100000000 with the comment "100 MHz timer base
(PBCLK3)".  PBCLK3 is 10 MHz: sys_clk_pic32mz.c divides the 100 MHz system clock by 10,
system_config.h says 10000000, and menu.c line 174 converts captures with `TIMER_FREQ`,
10 MHz.  Nothing uses the macro, so no behaviour shows the disagreement; `TimeBasesAgree`
is about the constants that are used, and states besides that PBCLK3 never runs at
`TIMER_FREQ_HZ`.

## 4. Proofs

`tlapm M.tla`.  Each proofs module defines an inductive invariant, proves `Init => IInv`,
that every step preserves it, and derives the theorems.

- **GestBtn_proofs.** For every debounce count > 0: `TypeCorrect`, `StableLevelRests`,
  `EventsAreDebounced`, `Refinement`.  `RestsOnStableLevel` is not inductive: it says
  nothing before the run is long.  `Tracks(b)` relates the run to the counter and the
  previous level all along, including the lag of one sample that a torn scan leaves.
  The refinement needs also `ScanInOrder` (the mask holds only buttons already
  scanned), because `Take` of the abstract specification forbids collecting a button twice.
- **Menu_proofs.** For every number of profiles, blades and cylinders: `TypeCorrect`,
  `CaptureConfined`, `SettingsMatch`, `NewProfileSafe`, `ScreenCurrent`.  The properties
  together are inductive with `lastRpm = rpm`, without which a redraw could be missed.
- **RpmCapture_proofs.** For every ring of two slots or more, buffer depth and threshold:
  `TypeCorrect`, `RingCorrect`, `OrderCorrect`, `DeltaCorrect`.  The argument is that the
  edges in the module's buffer are ordered and newer than the last one stored
  (`FifoInOrder`), that the interrupt stores only while it is told to (`Protocol`), and
  that an entry already read is what the log had when the index was read (`Reading`).
- **Firmware_proofs.** Of the loop, for every delay and period: `TypeCorrect`,
  `NoServiceBeforeWait`.  The strengthening tells the three phases apart: before the timer,
  before the first service (`BeforeService`: the only states are INIT, INIT_WAIT, and the
  one the delay's expiry may leave), and the equality of ticks and `WaitIteration` until it
  saturates (`CountedTicks`).  Of the application, for every menu too: `ImplementsLoop`, each
  step of the composition is a step of `AppLoop` or leaves its variables alone, whence
  `SystemTypeCorrect` and `SystemServiceAfterWait` by the loop's own invariant; and
  `MenuLeftAlone`, whose invariant adds that `phase` is other than "outside" exactly while the
  loop is in the menu (`PhaseInMenu`).  (A theorem of a module used by INSTANCE cannot be
  cited, so the menu's theorems are not carried over.)
- **LcdI2c_proofs.** For every display and every set of texts: `TypeCorrect`, `Refinement`
  of `LcdContract` and `ScreenCorrect`.  The invariant says, for each place in `_sendRaw`, what
  the module is doing and which bytes of the frame it has received: the
  reason why no byte is written too early although nothing checks.  For the screen a
  second one (`Progress`) runs along the instructions that are left (`Rest`): the cells
  they will still write are written from the text, the others show it already.
- **NvmDriver_proofs.** For every number of objects, token range, media and set of
  requests: `TypeCorrect`, `BuffersAccounted`, `HandlesTruthful` and `Refinement` of
  `NvmContract`.  None is inductive.  The first
  invariant (`IInv`) is that the list, from the first object that is not done on, is the
  sequence of the handles of unfinished requests (`ListIsHandles`), that nothing else
  is on it but a head whose end is being handled (`ListedKnown`), and that `events` has
  exactly the objects outside it (`EventsValid`).  The numbers of an object (rows,
  addresses) play no part in it and are left open (`Shape`).  The second (`Data`) is about
  them: the object of each waiting request says what was asked (`Asked`), and the flash is
  what the request under way makes of the rows done so far, then erased to the end of the
  page in hand, then untouched (`Reached`); for each kind of request and each phase of an
  erase-write it says where in the rows the driver's addresses and counts stand
  (`Writing`, `Erasing`, `PageErased`, `PageWriting`), and that the page buffer is the old
  page, or what the request makes of it.  With it a step disturbs only the page it is on
  (`OnePage`), the last one leaves exactly `Apply` (`WorkDone`), and no row number leaves
  the media.
- **TmrDriver_proofs.** For every clock frequency, set of prescalers, width of timer 1,
  value given to the timers, and whichever timers have a prescaler: `TypeCorrect`, `RunningCorrect`, `ClockSetCorrect`, `PinsCorrect`,
  `ServicesCorrect`, `StoppedMeansSilent`; `TimeBasesCorrect` under the two frequencies
  of the code, which it is about.  The properties hold between two calls, so none is
  inductive: the invariant says at every moment of a call what the writes that are left
  will make of the registers (`AtEnd`), which of them are made while the device is
  unlocked (`Before`), and that each interrupt section among them is closed
  (`RestoredAfter`).  One write keeps this whatever the handler and the counters do in
  between (`WriteStep`); the writes of every call establish it (`ChipCall`, `PortsCall`,
  `TimerCall`), programs being put together from parts by `SectionOfParts`,
  `PortsOfParts` and `TimerParts`.  For `ClockSetCorrect` it says also that no clock
  register is written while the timer is on (`StandsStill`), and which clock the writes
  that are left will make of the one the call found (`NewClock`).
- **SpiDriver_proofs.** For every number of elements and queues, size of the FIFOs, set of
  job shapes and set-up of the second client: `PoolCorrect`, `ReservationsCorrect`,
  `TypeCorrect`, `NothingLostCorrect` and `Refinement`, the safety half of `ImplementsJobs`
  (`Jobs!SafeSpec`).  The first invariant (`PoolInv`) gives the lists their order: sequences
  `F` and `C[q]` along which the links run (`Linked`), a function that says where each
  element is (`Owned`), and the counters as their lengths (`Layout`).  Each operator of
  `SpiQueue` takes a layout to a layout (`AllocLayout` to `DestroyLayout`), and
  what the queues may still claim follows the pool's counter (`Reserves`); `ChainIs` shows
  that walking the links gives the sequences back.  The second invariant (`DriverInv`)
  counts: of a job of t and r symbols, S of them put in the module and R of their answers
  taken, every field of the job is a function of t, r, S and R (`Numbers`), what is on the
  wire continues what has left (`Wire`), and the answers in the FIFO are the next ones
  (`Count`).  Sending and receiving keep it by arithmetic alone (`SendNumbers`,
  `ReceiveNumbers`), and when R reaches the larger of t and r the module is empty.

The assumptions are those of the constants (`DebounceAssumption`, `AppLoopAssumption`,
`CaptureAssumption`, `MenuAssumption`, `LcdAssumption`, `NvmAssumption`, `BoardAssumption`,
`TmrDriverAssumption`, `SpiQueueAssumption`, `SpiDriverAssumption`), which TLC evaluates in
the runs.

Every invariant of a passing run has a theorem.  Only model-checked: the liveness
properties (out of the prover's reach, like fairness and ENABLED), `ServicesRecur`,
`EventsCollected`, `RequestsComplete`, `RedrawEnds`, `TicksGoOn` and the liveness half of
`ImplementsJobs`.  No module declares a RECURSIVE operator.

## 5. Not modelled

- `lcd_printf`, called in a DEBUG_POT build only; of the I2C driver what nobody calls:
  reception, restart, acknowledge, and `i2c_master.c`.  A slave that does not
  acknowledge looks the same to LCD.c, which never asks.
- Of the SPI slaves `Pot_Read` (DEBUG_POT only), SPI2, and the values read.
- `Profils_ResetAll`, never called, and `Profils_TestSaveLoad` (DEBUG_MEMORY only).
- A loss of captures taken for none when a multiple of 8 arrives in one service period
  (menu.c line 334) is a behaviour of `RpmCapture`, but no property is stated about it.
- 32-bit arithmetic of the speed (`delta * nbBlades`), the accelerometer's tilt and the
  text on the LCD.
- `DRV_NVM_Deinitialize` and the driver's geometry getters; `DRV_SPI0_ClientConfigure`
  and `Deinitialize`, which touch no job; the queue's statistics, compiled out.
- The alarm and gate functions of the timer driver, which do nothing in this
  configuration; the handlers of Timer 3 (priority 0, never entered) and of the capture
  error (clears its flag).
- The reference clocks, the JTAG, trace and cache functions of sys_devcon and the
  `SYS_PORTS_*` pin services: one register access each, called by nothing after the
  start-up.  Two of them are more: `SYS_PORTS_RemapInput` and `SYS_PORTS_RemapOutput`
  (sys_ports_static.c 1096 to 1137) unlock the device and its remapping registers and
  never lock them again.  Nothing calls them, and `ServicesLeaveNoTrace` does not cover them.
- Exceptions (the program stops) and the busy-wait delays of Mc32Delays.c, which appear
  as the steps they make long enough.
- The harmony headers and the static plib code generated by the configurator.

## 6. Plan

Done: the debouncer with its contract, the loop, the capture, the menu, their composition,
the flash driver with its event handler and its contract, the profiles, the SPI slaves,
the LCD over I2C with its contract, the SPI driver and its queues with their contract, the
timers and the board; proofs of every invariant and every refinement.

Next, in this order:

1. The speed with its 32-bit arithmetic, as operators checked against a reference on
   bounded inputs: where `delta * nbBlades` wraps, and when the divisor becomes 0.
2. The measuring menus over `RpmCapture` and `SpiBus`: composed with `Firmware`, so that a
   service reads the ring and the accelerometer it started.
