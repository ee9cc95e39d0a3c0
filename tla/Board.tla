------------------------------- MODULE Board -------------------------------
(***************************************************************************)
(* The processor and its board: SYS_Initialize of system_init.c, the clock *)
(* and device control services (sys_clk_pic32mz.c, sys_devcon.c,           *)
(* sys_devcon_pic32mz.c), the pins (sys_ports_static.c) and the set-up of  *)
(* the I2C and input capture modules.  TmrDriver adds the timers and their *)
(* interrupt, and has the specification.                                   *)
(*                                                                         *)
(* A call is the sequence of its register writes, `todo`, carried out one  *)
(* at a time; whatever interrupt is enabled may come between two of them.  *)
(* The hardware ignores a write to a protected register (the oscillator's  *)
(* and the buses') while the device is locked.                             *)
(*                                                                         *)
(* Operators whose name has a suffix after the name of the one that        *)
(* follows them are deliberate faults: they are in no specification.       *)
(***************************************************************************)
EXTENDS Integers, Sequences

CONSTANT SYS_CLK_FREQ   \* frequency of the system clock, in Hz

ASSUME BoardAssumption == SYS_CLK_FREQ \in Nat \ {0}

VARIABLES
    boot,       \* SYS_Initialize: the calls still to be made
    todo,       \* the writes of the call under way
    chip,       \* the registers of the processor
    port,       \* the registers of the pins
    asked       \* history: what the last calls wanted of the processor

boardVars == <<boot, todo, chip, port, asked>>

Buses    == {1, 2, 3, 4, 5, 7, 8}
Channels == {"B", "C", "D", "E", "F", "G"}

\* _DRV_NVM_OPERATION_MODE: the two operations the flash driver uses.
FlashOperations == {"none", "rowProgram", "pageErase"}

\* intOn: interrupts globally enabled; int_flag: what the call under way found.
\* waiting: the processor is stopped by the wait instruction.  modify: the
\* flash may be modified; the operation can only be selected while it may not.
Chip == [intOn : BOOLEAN, int_flag : BOOLEAN, unlocked : BOOLEAN,
         pbDiv : [Buses -> Nat \ {0}], sosc : BOOLEAN,
         onWait : {"idle", "sleep"}, waiting : BOOLEAN,
         waitStates : 0 .. 7, prefetch : BOOLEAN,
         modify : BOOLEAN, operation : FlashOperations,
         i2cDivisor : Nat, icTimer : {"none", "TMR2"}]

Protected == {"pbDiv", "sosc", "onWait"}

\* The registers of the pins.  lat: pins with a high latch; out: outputs;
\* digital: not analog; remapped: <<function, pin>> of the peripheral pin select.
Pin == Channels \X (0 .. 15)

BoardTypeOK ==
    /\ boot \in Seq({"clk", "devcon", "i2c", "ic", "nvm", "tmr0", "tmr1", "ports", "int"})
    /\ chip \in Chip
    /\ \A r \in {"lat", "out", "digital", "openDrain"} : port[r] \subseteq Pin
    /\ \A m \in port.remapped : m[2] \in Pin

\* After a reset: the latches are not known.
BoardInit ==
    /\ boot = <<"clk", "devcon", "i2c", "ic", "nvm", "tmr0", "tmr1", "ports", "int">>
    /\ todo = <<>>
    /\ chip = [intOn |-> FALSE, int_flag |-> FALSE, unlocked |-> FALSE,
               pbDiv |-> [b \in Buses |-> IF b = 7 THEN 1 ELSE 2],
               sosc |-> FALSE, onWait |-> "idle", waiting |-> FALSE,
               waitStates |-> 7, prefetch |-> FALSE,
               modify |-> FALSE, operation |-> "none",
               i2cDivisor |-> 0, icTimer |-> "none"]
    /\ \E l \in {{}, Pin} :
         port = [lat |-> l, out |-> {}, digital |-> {}, openDrain |-> {},
                 remapped |-> {}]
    /\ asked = [sosc |-> FALSE, onWait |-> "idle", operation |-> "none"]
----------------------------------------------------------------------------
\* Register writes.

Write(r, v) == [register |-> r, value |-> v]

\* PLIB_INT_GetStateAndDisable, and the conditional PLIB_INT_Enable that ends
\* the sections it protects.
GetStateAndDisable == Write("disable", TRUE)
RestoreInt         == Write("restore", TRUE)

\* The effect of a write on the processor.
ChipWritten(w) ==
    CASE w.register = "disable" -> [chip EXCEPT !.int_flag = chip.intOn, !.intOn = FALSE]
      [] w.register = "restore" -> [chip EXCEPT !.intOn = @ \/ chip.int_flag]
      [] w.register \in Protected /\ ~chip.unlocked -> chip
      [] w.register = "operation" /\ chip.modify -> chip
      [] w.register = "pbDiv" /\ chip.unlocked -> [chip EXCEPT !.pbDiv[w.value[1]] = w.value[2]]
      [] OTHER -> [chip EXCEPT ![w.register] = w.value]

\* The effect on the pins: PLIB_PORTS_Write replaces the latches of a channel,
\* the others set the bits of their mask.
PortWritten(w) ==
    CASE w.register = "lat" ->
           [port EXCEPT !.lat = {p \in @ : p[1] # w.value[1]} \cup w.value[2]]
      [] OTHER -> [port EXCEPT ![w.register] = @ \cup w.value]

ChipRegisters == DOMAIN chip \cup {"disable", "restore"}
PortRegisters == DOMAIN port

\* sys_devcon.c
SYS_DEVCON_SystemUnlock_NoRestore == <<GetStateAndDisable, Write("unlocked", TRUE)>>
SYS_DEVCON_SystemUnlock == <<GetStateAndDisable, Write("unlocked", TRUE), RestoreInt>>
SYS_DEVCON_SystemLock   == <<GetStateAndDisable, Write("unlocked", FALSE), RestoreInt>>

Unlocked(writes) == SYS_DEVCON_SystemUnlock \o writes \o SYS_DEVCON_SystemLock

\* SYS_DEVCON_PowerModeEnter ends with the wait instruction.
PowerModeEnter(m) == Append(Unlocked(<<Write("onWait", m)>>), Write("waiting", TRUE))

\* sys_devcon_pic32mz.c.  ECC is off (FECCCON in system_init.c).
ecc == FALSE
WaitStates(sysclk) ==
    IF sysclk <= (IF ecc THEN 60000000 ELSE 74000000) THEN 0
    ELSE IF sysclk <= (IF ecc THEN 120000000 ELSE 140000000) THEN 1
    ELSE IF sysclk <= 200000000 THEN 2 ELSE 4

PerformanceConfig(sysclk) ==
    <<GetStateAndDisable, Write("waitStates", WaitStates(sysclk)), RestoreInt,
      GetStateAndDisable, Write("prefetch", TRUE), RestoreInt>>

\* sys_clk_pic32mz.c
SYS_CLK_SystemFrequencyGet == SYS_CLK_FREQ

SYS_CLK_BUS_PERIPHERAL ==
    [b \in Buses |-> CASE b = 2 -> 25000000 [] b = 3 -> 10000000
                       [] b = 7 -> 100000000 [] OTHER -> 50000000]
SYS_CLK_PeripheralFrequencyGet(b) == SYS_CLK_BUS_PERIPHERAL[b]

PBClockDivisors == <<<<1, 2>>, <<2, 4>>, <<3, 10>>, <<4, 2>>, <<5, 2>>, <<7, 1>>, <<8, 2>>>>
Clocks_Locked == [n \in 1 .. 7 |-> Write("pbDiv", PBClockDivisors[n])]
Clocks        == Unlocked([n \in 1 .. 7 |-> Write("pbDiv", PBClockDivisors[n])])

SecondaryOscillatorIsEnabled == chip.sosc
SecondaryOscillatorSet(on) ==
    IF SecondaryOscillatorIsEnabled # on THEN Unlocked(<<Write("sosc", on)>>) ELSE <<>>

\* drv_i2c_static.c: the divisor from the bus's frequency to the baud rate;
\* 0 while the module is disabled.
DRV_I2C0_Enabled(baud) == Write("i2cDivisor", SYS_CLK_PeripheralFrequencyGet(2) \div baud)
DRV_I2C0_DeInitialize  == <<Write("i2cDivisor", 0)>>
DRV_I2C0_BaudRateSet(baud) == Append(DRV_I2C0_DeInitialize, DRV_I2C0_Enabled(baud))

\* drv_nvm_static.c: an operation on the flash, with interrupts disabled until
\* it has finished.
MemoryModifyInhibit == <<Write("modify", FALSE)>>
DRV_NVM_UnlockSequence(mode) ==
    <<GetStateAndDisable>> \o MemoryModifyInhibit
      \o <<Write("operation", mode), Write("modify", TRUE), RestoreInt>>

\* drv_ic_static.c: timer 2 dates the captures, its two halves as one.
DRV_IC0_Initialize == <<Write("icTimer", "TMR2")>>
----------------------------------------------------------------------------
\* SYS_PORTS_Initialize with the masks of system_config.h.

SYS_PORT_LAT   == [c \in Channels |-> 0]
SYS_PORT_ODC   == [c \in Channels |-> 0]
SYS_PORT_TRIS  == [B |-> 65535, C |-> 65535, D |-> 63427, E |-> 65303,
                   F |-> 65535, G |-> 65535]
SYS_PORT_ANSEL == [B |-> 65311, C |-> 57343, D |-> 61888, E |-> 65296,
                   F |-> 65476, G |-> 65215]

\* The pins of channel c in a mask, and those in mask ^ 0xFFFF.
Weight == <<1, 2, 4, 8, 16, 32, 64, 128, 256, 512, 1024, 2048, 4096, 8192,
            16384, 32768>>
Masked(c, mask)    == {<<c, b>> : b \in {n \in 0 .. 15 : (mask \div Weight[n + 1]) % 2 = 1}}
NotMasked(c, mask) == Masked(c, 65535 - mask)

\* The masks of the change notices and of the pull resistors are empty.
PortInit_DirectionFirst(c) ==
    <<Write("openDrain", Masked(c, SYS_PORT_ODC[c])),
      Write("out", NotMasked(c, SYS_PORT_TRIS[c])),
      Write("lat", <<c, Masked(c, SYS_PORT_LAT[c])>>),
      Write("digital", NotMasked(c, SYS_PORT_ANSEL[c]))>>
PortInit(c) ==
    <<Write("openDrain", Masked(c, SYS_PORT_ODC[c])),
      Write("lat", <<c, Masked(c, SYS_PORT_LAT[c])>>),
      Write("out", NotMasked(c, SYS_PORT_TRIS[c])),
      Write("digital", NotMasked(c, SYS_PORT_ANSEL[c]))>>

RemapInputs  == {<<"SDI1", <<"B", 5>>>>, <<"U2RX", <<"G", 6>>>>, <<"U1RX", <<"G", 8>>>>,
                 <<"U4RX", <<"B", 6>>>>, <<"IC3", <<"F", 4>>>>}
RemapOutputs == {<<"SDO1", <<"F", 1>>>>, <<"U4TX", <<"B", 7>>>>}

Ports == PortInit("B") \o PortInit("C") \o PortInit("D") \o PortInit("E")
           \o PortInit("F") \o PortInit("G")
           \o <<Write("remapped", RemapInputs), Write("remapped", RemapOutputs)>>

\* The pins system_config.h gives names to: what the program drives (transmit
\* enable, regulator, LED, infrared, three selects, USB, backlight) and reads
\* (debug clock, OK, SELECT).
Driven == {<<"E", b>> : b \in {3, 5, 6, 7}} \cup {<<"D", b>> : b \in {2, 3, 4, 5, 11}}
Read   == {<<"C", 13>>, <<"E", 0>>, <<"E", 1>>}
----------------------------------------------------------------------------
\* SYS_Initialize, call after call.

Boot(call, writes) == /\ boot # <<>> /\ Head(boot) = call
                      /\ todo = <<>>
                      /\ boot' = Tail(boot)
                      /\ todo' = writes
                      /\ UNCHANGED <<chip, port, asked>>

BoardBoot == \/ Boot("clk", Clocks)
             \/ Boot("devcon", PerformanceConfig(SYS_CLK_SystemFrequencyGet))
             \/ Boot("i2c", <<DRV_I2C0_Enabled(400000)>>)
             \/ Boot("ic", DRV_IC0_Initialize)
             \/ Boot("nvm", MemoryModifyInhibit)
             \/ Boot("ports", Ports)
             \/ Boot("int", <<Write("intOn", TRUE)>>)

\* The services, called by the super-loop.
Service(writes) == /\ boot = <<>> /\ todo = <<>> /\ ~chip.waiting
                   /\ todo' = writes
                   /\ UNCHANGED <<boot, chip, port>>

SYS_DEVCON_PowerModeEnter(m) == /\ Service(PowerModeEnter(m))
                                /\ asked' = [asked EXCEPT !.onWait = m]

SYS_DEVCON_PerformanceConfig == /\ Service(PerformanceConfig(SYS_CLK_SystemFrequencyGet))
                                /\ UNCHANGED asked

SYS_CLK_SecondaryOscillatorEnable  == /\ Service(SecondaryOscillatorSet(TRUE))
                                      /\ asked' = [asked EXCEPT !.sosc = TRUE]
SYS_CLK_SecondaryOscillatorDisable == /\ Service(SecondaryOscillatorSet(FALSE))
                                      /\ asked' = [asked EXCEPT !.sosc = FALSE]

\* The flash driver works on a row or a page.
FlashOperation(mode) == /\ Service(DRV_NVM_UnlockSequence(mode))
                        /\ asked' = [asked EXCEPT !.operation = mode]

\* DRV_I2C_Open gives a handle and leaves the module as it is, the close of a
\* valid one disables it.
InvalidHandle       == -1
DRV_I2C_Open(index) == IF index = 0 THEN 0 ELSE InvalidHandle
DRV_I2C_Close(h)    == /\ Service(IF h = 0 THEN DRV_I2C0_DeInitialize ELSE <<>>)
                       /\ UNCHANGED asked
I2cBaudRate == Service(DRV_I2C0_BaudRateSet(400000)) /\ UNCHANGED asked

Services == \/ \E m \in {"idle", "sleep"} : SYS_DEVCON_PowerModeEnter(m)
            \/ SYS_DEVCON_PerformanceConfig
            \/ SYS_CLK_SecondaryOscillatorEnable \/ SYS_CLK_SecondaryOscillatorDisable
            \/ \E mode \in FlashOperations \ {"none"} : FlashOperation(mode)
            \/ \E index \in {0, 1} : DRV_I2C_Close(DRV_I2C_Open(index))
            \/ I2cBaudRate

\* The write that comes next, if it is one of the board's.
BoardStep == /\ todo # <<>> /\ ~chip.waiting
             /\ \/ /\ Head(todo).register \in ChipRegisters
                   /\ chip' = ChipWritten(Head(todo))
                   /\ UNCHANGED port
                \/ /\ Head(todo).register \in PortRegisters
                   /\ port' = PortWritten(Head(todo))
                   /\ UNCHANGED chip
             /\ todo' = Tail(todo)
             /\ UNCHANGED <<boot, asked>>

\* Another interrupt than timer 0's ends a wait (the capture's, say).
OtherInterrupt == /\ chip.waiting /\ chip.intOn
                  /\ chip' = [chip EXCEPT !.waiting = FALSE]
                  /\ UNCHANGED <<boot, todo, port, asked>>
----------------------------------------------------------------------------
\* From the moment a pin is driven it has its configured level, and once the
\* ports are set up every pin the program drives is an output and every one
\* it or a peripheral reads is a digital input: the masks of system_config.h,
\* the macros there and the order of SYS_PORTS_Initialize agree.
PinsAsUsed ==
    /\ port.out \cap port.lat \subseteq UNION {Masked(c, SYS_PORT_LAT[c]) : c \in Channels}
    /\ boot = <<>> =>
         /\ Driven \subseteq port.out
         /\ Read \cup {m[2] : m \in RemapInputs} \subseteq port.digital \ port.out
         /\ RemapInputs \cup RemapOutputs = port.remapped

\* Between two calls after the start-up the device is locked, interrupts are
\* enabled as they were, and the last calls have had their effect, wherever
\* an interrupt came (sys_devcon.c saves and restores the interrupt enable
\* in each of its sections).  The calls are those of clk, devcon, NVM and I2C;
\* SYS_PORTS_RemapInput and SYS_PORTS_RemapOutput, which unlock the device and
\* never lock it again, are called by nothing and are not among them.
ServicesLeaveNoTrace ==
    boot = <<>> /\ todo = <<>> =>
        /\ chip.intOn /\ ~chip.unlocked
        /\ \A r \in DOMAIN asked : chip[r] = asked[r]
=============================================================================
