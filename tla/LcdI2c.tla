------------------------------- MODULE LcdI2c -------------------------------
(***************************************************************************)
(* LCD.c over drv_i2c_static.c: an instruction is a frame of three bytes   *)
(* (address, control, value) between a start and a stop.  The super-loop   *)
(* and the I2C module run side by side.  LCD.c polls for the end of each   *)
(* byte but ignores what the driver returns, and leaves the end of a start *)
(* and of a stop to its delays of 30 us.  LCD_Ping, which nothing calls    *)
(* yet, waits for nothing: what it began may still be under way when it    *)
(* returns, and the model redraws only after that.                         *)
(*                                                                         *)
(* The I2C module and the display are external: one master, no bus         *)
(* collision, starts and stops shorter than the delay.                     *)
(*                                                                         *)
(* History variables: `asked`, that of LcdContract, and `shown`, the last  *)
(* text the program began to write.                                        *)
(*                                                                         *)
(* Operators whose name has a suffix after the name of the one that        *)
(* follows them are deliberate faults: they are in no specification.       *)
(***************************************************************************)
EXTENDS Naturals, Sequences

CONSTANTS Width, Chars, Blank,
          Texts,          \* the texts of Menu_Display, two lines each
          Welcome,        \* the one APP_Tasks writes
          SaveText,       \* the one of Menu_Display in MENU_SAUVEGARDE ...
          SaveOverlay     \* ... and what Menu_Task writes over it

Fits(t) == Len(t[1]) <= Width /\ Len(t[2]) <= Width

ASSUME LcdAssumption ==
    /\ Width \in Nat \ {0}
    /\ Blank \in Chars
    /\ {Welcome, SaveText, SaveOverlay} \cup Texts \subseteq Seq(Chars) \X Seq(Chars)
    /\ \A t \in {Welcome, SaveText, SaveOverlay} \cup Texts : Fits(t)
    /\ \A l \in {1, 2} : Len(SaveText[l]) <= Len(SaveOverlay[l])

VARIABLES
    prog,      \* the instructions the super-loop has still to send
    pc, sent,  \* where it is in _sendRaw or LCD_Ping, bytes it has written
    op, shift, \* what the I2C module is doing, the byte it is sending
    frame,     \* the bytes the display has received since the last start
    cells, cursor, asked, shown

cpuVars == <<prog, pc, sent, shown>>
vars    == <<cpuVars, op, shift, frame, cells, cursor, asked>>

Display == INSTANCE LcdContract

Lines == Display!Lines

\* _sendRaw: the bytes of an instruction.
Address     == <<"address">>
Control(i)  == IF i[1] = "data" THEN <<"LCD_DATA">> ELSE <<"LCD_CMD">>
BytesOf(i)  == <<Address, Control(i), i>>
Bytes       == {Address, <<"LCD_DATA">>, <<"LCD_CMD">>} \cup Display!Instr

\* In LCD_Ping.
Ping == {"pingByte", "pingStop"}

\* DRV_I2C0_MasterBusIdle
DRV_I2C0_MasterBusIdle == op = "none"

TypeOK == /\ prog \in Seq(Display!Instr)
          /\ pc \in {"idle", "startDelay", "byte", "wait", "stop", "stopDelay"} \cup Ping
          /\ sent \in 0 .. 3
          /\ op \in {"none", "start", "send", "stop"}
          /\ shift \in Bytes
          /\ frame \in Seq(Bytes)
          /\ cells \in [Lines -> [1 .. Width -> Chars]]
          /\ cursor \in [line : Lines, col : 1 .. Width + 1]
          /\ asked \in Display!Instr \cup {Display!NoInstr}
          /\ Fits(shown)
          /\ pc \in {"idle"} \cup Ping \/ prog # <<>>
----------------------------------------------------------------------------
\* The texts as instructions.  The rows are numbered from 1.

lcd_set_cursor_FromZero(row) == <<<<"cursor", row - 1>>>>
lcd_set_cursor(row) == <<<<"cursor", row>>>>
lcd_put_string(s)   == [n \in 1 .. Len(s) |-> <<"data", s[n]>>]

lcd_init == [n \in 1 .. 7 |-> <<"setup">>] \o <<<<"clear">>, <<"setup">>>>

Lines_Write(t) == lcd_set_cursor(1) \o lcd_put_string(t[1]) \o
                  lcd_set_cursor(2) \o lcd_put_string(t[2])

BlankLine == [n \in 1 .. Width |-> Blank]

\* Menu_Display: both lines are blanked, then written.
Menu_Display_OneLine(t) == lcd_set_cursor(1) \o lcd_put_string(BlankLine) \o Lines_Write(t)
Menu_Display(t) == Lines_Write(<<BlankLine, BlankLine>>) \o Lines_Write(t)

\* APP_STATE_INIT: the display is set up and the welcome text written.
Init == /\ Display!Init
        /\ prog = lcd_init \o Lines_Write(Welcome) \o lcd_set_cursor(1)
        /\ pc = "idle" /\ sent = 0
        /\ op = "none" /\ shift = Address
        /\ frame = <<>>
        /\ shown = Welcome

\* A service redraws the screen.
Redraw == /\ prog = <<>> /\ pc = "idle" /\ DRV_I2C0_MasterBusIdle
          /\ \E t \in Texts \cup {SaveText} : prog' = Menu_Display(t) /\ shown' = t
          /\ UNCHANGED <<pc, sent, op, shift, frame, cells, cursor, asked>>

\* A service in MENU_SAUVEGARDE writes over it without blanking.
Overlay == /\ prog = <<>> /\ pc = "idle" /\ DRV_I2C0_MasterBusIdle
           /\ shown \in {SaveText, SaveOverlay}
           /\ prog' = Lines_Write(SaveOverlay) /\ shown' = SaveOverlay
           /\ UNCHANGED <<pc, sent, op, shift, frame, cells, cursor, asked>>
----------------------------------------------------------------------------
\* _sendRaw, one action per access to the I2C module.

DRV_I2C0_MasterStart ==
    /\ pc = "idle" /\ prog # <<>>
    /\ op' = IF DRV_I2C0_MasterBusIdle THEN "start" ELSE op
    /\ pc' = "startDelay" /\ sent' = 0
    /\ asked' = Head(prog)
    /\ UNCHANGED <<prog, shown, shift, frame, cells, cursor>>

\* delay_usCt(30): longer than a start or a stop takes.
StartDelay_TooShort ==
    /\ pc = "startDelay"
    /\ pc' = "byte"
    /\ UNCHANGED <<prog, sent, shown, op, shift, frame, cells, cursor, asked>>

StartDelay == /\ pc = "startDelay" /\ op # "start"
              /\ pc' = "byte"
              /\ UNCHANGED <<prog, sent, shown, op, shift, frame, cells, cursor, asked>>

\* A byte written while another is being sent is dropped by the driver, one
\* written during a start or a stop by the I2C module.
DRV_I2C0_ByteWrite ==
    /\ pc = "byte"
    /\ IF op = "none"
       THEN op' = "send" /\ shift' = BytesOf(Head(prog))[sent + 1]
       ELSE UNCHANGED <<op, shift>>
    /\ sent' = sent + 1
    /\ pc' = "wait"
    /\ UNCHANGED <<prog, shown, frame, cells, cursor, asked>>

DRV_I2C0_WaitForByteWriteToComplete_Inverted ==
    /\ pc = "wait" /\ op = "send"
    /\ pc' = IF sent < 3 THEN "byte" ELSE "stop"
    /\ UNCHANGED <<prog, sent, shown, op, shift, frame, cells, cursor, asked>>

DRV_I2C0_WaitForByteWriteToComplete ==
    /\ pc = "wait" /\ op # "send"
    /\ pc' = IF sent < 3 THEN "byte" ELSE "stop"
    /\ UNCHANGED <<prog, sent, shown, op, shift, frame, cells, cursor, asked>>

DRV_I2C0_MasterStop == /\ pc = "stop"
                       /\ op' = IF DRV_I2C0_MasterBusIdle THEN "stop" ELSE op
                       /\ pc' = "stopDelay"
                       /\ UNCHANGED <<prog, sent, shown, shift, frame, cells, cursor, asked>>

StopDelay == /\ pc = "stopDelay" /\ op # "stop"
             /\ pc' = "idle"
             /\ prog' = Tail(prog)
             /\ UNCHANGED <<sent, shown, op, shift, frame, cells, cursor, asked>>

SendRaw == \/ DRV_I2C0_MasterStart \/ StartDelay \/ DRV_I2C0_ByteWrite
           \/ DRV_I2C0_WaitForByteWriteToComplete
           \/ DRV_I2C0_MasterStop \/ StopDelay
\* LCD_Ping does not wait for the end of its start, of its byte or of its
\* stop: the byte may be dropped, the stop refused.  On a bus that is not
\* idle it does nothing.
LCD_Ping ==
    /\ prog = <<>> /\ pc = "idle" /\ DRV_I2C0_MasterBusIdle
    /\ op' = "start"
    /\ pc' = "pingByte"
    /\ UNCHANGED <<prog, sent, shown, shift, frame, cells, cursor, asked>>

Ping_Byte == /\ pc = "pingByte"
             /\ IF op = "none" THEN op' = "send" /\ shift' = Address
                ELSE UNCHANGED <<op, shift>>
             /\ pc' = "pingStop"
             /\ UNCHANGED <<prog, sent, shown, frame, cells, cursor, asked>>

Ping_Stop == /\ pc = "pingStop"
             /\ op' = IF DRV_I2C0_MasterBusIdle THEN "stop" ELSE op
             /\ pc' = "idle"
             /\ UNCHANGED <<prog, sent, shown, shift, frame, cells, cursor, asked>>

Pinging == Ping_Byte \/ Ping_Stop
----------------------------------------------------------------------------
\* The I2C module and the display.

StartDone == /\ op = "start"
             /\ op' = "none" /\ frame' = <<>>
             /\ UNCHANGED <<cpuVars, shift, cells, cursor, asked>>

\* The display has received a byte; the third one of its frame is executed,
\* as a character or a command according to the second.
Received(b) == /\ frame' = Append(frame, b)
               /\ IF Len(frame) = 2 /\ frame[1] = Address /\ b \in Display!Instr
                     /\ frame[2] = Control(b)
                  THEN Display!Execute(b) /\ asked' = Display!NoInstr
                  ELSE UNCHANGED <<cells, cursor, asked>>

ByteDone == /\ op = "send"
            /\ op' = "none"
            /\ Received(shift)
            /\ UNCHANGED <<cpuVars, shift>>

StopDone == /\ op = "stop"
            /\ op' = "none"
            /\ UNCHANGED <<cpuVars, shift, frame, cells, cursor, asked>>

I2cModule == StartDone \/ ByteDone \/ StopDone

Next == Redraw \/ Overlay \/ SendRaw \/ LCD_Ping \/ Pinging \/ I2cModule

\* The processor goes on and the I2C module finishes what it was told to do.
Spec == Init /\ [][Next]_vars /\ WF_vars(SendRaw \/ Pinging) /\ WF_vars(I2cModule)
----------------------------------------------------------------------------
\* The display shows line l of text t and nothing else.
Shows(t, l) == cells[l] = [c \in 1 .. Width |-> IF c <= Len(t[l]) THEN t[l][c] ELSE Blank]

\* When a redraw has returned, the display shows its text with nothing left
\* of an earlier one, whatever was drawn before and at power-up, and although
\* LCD.c never looks at what the driver returns.
ScreenAsDrawn == prog = <<>> => \A l \in Lines : Shows(shown, l)

\* No instruction is dropped, cut short or executed twice.
ImplementsContract == Display!Spec

\* Every redraw ends: no busy wait of LCD.c waits for ever as long as the I2C
\* module finishes what it was told to do.
RedrawEnds == prog # <<>> ~> prog = <<>>
=============================================================================
