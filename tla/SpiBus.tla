------------------------------- MODULE SpiBus -------------------------------
(***************************************************************************)
(* Mc32Spi.c, PotControl.c and LIS2HH12.c: the three slaves on SPI1, two   *)
(* digital potentiometers and the accelerometer, each with a chip select   *)
(* of its own.  A byte on the bus reaches every slave whose select is low. *)
(* The super-loop makes one call after the other: the potentiometers at    *)
(* start-up, the accelerometer once the vibration menu is entered.         *)
(*                                                                         *)
(* A slave is modelled by the frames the code sends it: its frame goes     *)
(* from the fall of its select, or from power-up when the select is low    *)
(* then, to the rise.                                                      *)
(*                                                                         *)
(* History variable: `written` has what LIS2HH12_WriteReg was asked to put *)
(* in a register, from the return of the call on.                          *)
(***************************************************************************)
EXTENDS Naturals, Sequences

CONSTANT Unset      \* a register or wiper that was never written

VARIABLES
    selected,    \* the slaves whose chip select is low
    config,      \* who SPI1 is configured for
    todo,        \* the calls the super-loop has still to make, current first
    begun, sent, \* the current call has made its select low, bytes it has sent
    accInit,     \* accInitDone of Menu_Task
    heard,       \* what each slave received in its frame
    wipers, regs,
    written

vars == <<selected, config, todo, begun, sent, accInit,
          heard, wipers, regs, written>>

Slaves == {"ACC", "U3", "U5"}

\* The registers the code writes: CTRL1, CTRL3, CTRL4, CTRL5, and the one
\* whose address the first command to a potentiometer would be.
Registers == {0, 32, 34, 35, 36}
Wipers    == {<<"U3", 0>>, <<"U3", 16>>, <<"U5", 0>>}

\* SYS_PORTS_Initialize makes the three selects outputs at 0.
Init == /\ selected = Slaves
        /\ config = "none"
        /\ todo = <<>>
        /\ begun = FALSE /\ sent = 0
        /\ accInit = FALSE
        /\ heard = [s \in Slaves |-> <<>>]
        /\ wipers = [w \in Wipers |-> Unset]
        /\ regs = [r \in Registers |-> Unset]
        /\ written = [r \in Registers |-> Unset]
----------------------------------------------------------------------------
\* The calls, by the slave they select and the bytes they exchange.
Call(s, bytes) == [slave |-> s, bytes |-> bytes]

Pot_Write(s, command, value)   == Call(s, <<command, value>>)
LIS2HH12_WriteReg(reg, value)  == Call("ACC", <<reg, value>>)
LIS2HH12_ReadReg(reg)          == Call("ACC", <<128 + reg, 255>>)
LIS2HH12_ReadXYZ               == Call("ACC", <<192 + 40>> \o [i \in 1 .. 6 |-> 255])

LIS2HH12_Init == <<LIS2HH12_WriteReg(32, 87), LIS2HH12_WriteReg(34, 0),
                   LIS2HH12_WriteReg(35, 0), LIS2HH12_WriteReg(36, 0)>>

SPI_ConfigurePot == config' = "Pot"
SPI_ConfigureAcc == config' = "Acc"

\* APP_STATE_INIT: the configuration, then the three wipers.
Startup == /\ config = "none"
           /\ SPI_ConfigurePot
           /\ todo' = <<Pot_Write("U5", 0, 70), Pot_Write("U3", 0, 30),
                        Pot_Write("U3", 16, 250)>>
           /\ UNCHANGED <<selected, begun, sent, accInit,
                           heard, wipers, regs, written>>

\* The first service of MENU_MESURE_VIBRATION: the configuration, the set-up
\* and the identifier.
Vibration_First == /\ todo = <<>> /\ config # "none" /\ ~accInit
                   /\ accInit' = TRUE
                   /\ SPI_ConfigureAcc
                   /\ todo' = Append(LIS2HH12_Init, LIS2HH12_ReadReg(15))
                   /\ UNCHANGED <<selected, begun, sent, heard, wipers, regs,
                                   written>>

\* Every fiftieth service there.
Vibration_Read == /\ todo = <<>> /\ accInit
                  /\ todo' = <<LIS2HH12_ReadXYZ>>
                  /\ UNCHANGED <<selected, config, begun, sent, accInit,
                                  heard, wipers, regs, written>>

slave == Head(todo).slave
bytes == Head(todo).bytes

\* CS_x_Off: a frame begins if the select was high.
Select == /\ todo # <<>> /\ ~begun
          /\ selected' = selected \cup {slave}
          /\ heard' = IF slave \in selected THEN heard ELSE [heard EXCEPT ![slave] = <<>>]
          /\ begun' = TRUE
          /\ UNCHANGED <<config, todo, sent, accInit, wipers, regs, written>>

\* A potentiometer takes pairs of a command, its wiper, and a value.
WiperSet(w) == /\ w[1] \in selected
               /\ Len(heard[w[1]]) % 2 = 1
               /\ heard[w[1]][Len(heard[w[1]])] = w[2]

\* The first byte of a frame is the address for the accelerometer; with bit 7
\* clear the others are written there (bit 6 would advance the address).
RegSet(r) == "ACC" \in selected /\ heard["ACC"] # <<>> /\ heard["ACC"][1] = r

\* spi_write1, spi_read1: one byte out, one byte in.
Exchange == /\ todo # <<>> /\ begun /\ sent < Len(bytes)
            /\ LET b == bytes[sent + 1] IN
                 /\ heard' = [s \in Slaves |-> IF s \in selected
                                               THEN Append(heard[s], b) ELSE heard[s]]
                 /\ wipers' = [w \in Wipers |-> IF WiperSet(w) THEN b ELSE wipers[w]]
                 /\ regs' = [r \in Registers |-> IF RegSet(r) THEN b ELSE regs[r]]
            /\ sent' = sent + 1
            /\ UNCHANGED <<selected, config, todo, begun, accInit, written>>

\* CS_x_On, and the call returns.
Release == /\ todo # <<>> /\ begun /\ sent = Len(bytes)
           /\ selected' = selected \ {slave}
           /\ written' = [r \in Registers |-> IF slave = "ACC" /\ bytes[1] = r
                                              THEN bytes[2] ELSE written[r]]
           /\ todo' = Tail(todo)
           /\ begun' = FALSE /\ sent' = 0
           /\ UNCHANGED <<config, accInit, heard, wipers, regs>>

Next == Startup \/ Vibration_First \/ Vibration_Read \/ Select \/ Exchange \/ Release

Spec == Init /\ [][Next]_vars
----------------------------------------------------------------------------
\* The documentation of LIS2HH12_WriteReg (LIS2HH12.h line 67, "Le registre est
\* mis a jour"): when the call has returned the register has the value.
RegisterWritten == \A r \in Registers : written[r] # Unset => regs[r] = written[r]
=============================================================================
