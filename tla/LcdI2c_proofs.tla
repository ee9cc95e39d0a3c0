--------------------------- MODULE LcdI2c_proofs ---------------------------
(***************************************************************************)
(* Theorems about LcdI2c, for every display, every set of texts and every  *)
(* interleaving of the super-loop with the I2C module: LCD.c, which never  *)
(* looks at what the driver returns, gets each instruction executed, and   *)
(* the text of a redraw is on the screen when it returns.                  *)
(***************************************************************************)
EXTENDS LcdI2c, SequenceTheorems, TLAPS

\* Outside _sendRaw.  What LCD_Ping began may still be under way; the display
\* gets at most the address from it, at the beginning of a frame.
Outside ==
    pc \in {"idle"} \cup Ping =>
        /\ asked = Display!NoInstr
        /\ op = "send" => frame = <<>> /\ shift = Address
        /\ pc = "pingByte" => op \in {"start", "none"}
                              /\ (op = "none" => frame = <<>>)
        /\ pc \in Ping => prog = <<>>
        /\ prog # <<>> => op = "none"

\* Inside, in the order of its steps: what the display has received so far is
\* the beginning of the frame of the first instruction of prog.
Received3(n) ==
    CASE n = 0 -> <<>>
      [] n = 1 -> <<Address>>
      [] n = 2 -> <<Address, Control(Head(prog))>>
      [] OTHER -> BytesOf(Head(prog))

InStart == pc = "startDelay" =>
             /\ op \in {"start", "none"} /\ sent = 0
             /\ asked = Head(prog)
             /\ op = "none" => frame = <<>>

InByte == pc = "byte" =>
            /\ op = "none" /\ sent \in 0 .. 2
            /\ asked = Head(prog)
            /\ frame = Received3(sent)

InWait == pc = "wait" =>
            /\ op \in {"send", "none"} /\ sent \in 1 .. 3
            /\ op = "send" => /\ shift = BytesOf(Head(prog))[sent]
                              /\ asked = Head(prog)
                              /\ frame = Received3(sent - 1)
            /\ op = "none" => /\ frame = Received3(sent)
                              /\ asked = IF sent = 3 THEN Display!NoInstr
                                                     ELSE Head(prog)

InStop == pc \in {"stop", "stopDelay"} =>
            /\ asked = Display!NoInstr
            /\ op = "none" \/ (pc = "stopDelay" /\ op = "stop")

IInv == TypeOK /\ Outside /\ InStart /\ InByte /\ InWait /\ InStop
----------------------------------------------------------------------------
\* The programs are sequences of instructions.

LEMMA InstrForms ==
    ASSUME NEW i \in Display!Instr
    PROVE  \/ i = <<"setup">> \/ i = <<"clear">>
           \/ \E l \in Lines : i = <<"cursor", l>>
           \/ \E c \in Chars : i = <<"data", c>>
<1> QED BY DEF Display!Instr, Lines

LEMMA CursorProgram ==
    ASSUME NEW row \in Lines
    PROVE  lcd_set_cursor(row) \in Seq(Display!Instr)
<1>1. <<"cursor", row>> \in Display!Instr
  BY DEF Display!Instr, Lines
<1> QED BY <1>1 DEF lcd_set_cursor

LEMMA StringProgram ==
    ASSUME NEW s \in Seq(Chars)
    PROVE  lcd_put_string(s) \in Seq(Display!Instr)
<1>1. \A n \in 1 .. Len(s) : <<"data", s[n]>> \in Display!Instr
  BY DEF Display!Instr
<1> QED BY <1>1 DEF lcd_put_string

LEMMA LinesProgram ==
    ASSUME NEW t \in Seq(Chars) \X Seq(Chars)
    PROVE  Lines_Write(t) \in Seq(Display!Instr) /\ Lines_Write(t) # <<>>
<1> DEFINE c1 == lcd_set_cursor(1)
           c2 == lcd_set_cursor(2)
           s1 == lcd_put_string(t[1])
           s2 == lcd_put_string(t[2])
<1>1. c1 \in Seq(Display!Instr) /\ c2 \in Seq(Display!Instr)
  BY CursorProgram DEF Lines, Display!Lines
<1>2. s1 \in Seq(Display!Instr) /\ s2 \in Seq(Display!Instr)
  BY StringProgram
<1>3. Len(c1) = 1
  BY DEF lcd_set_cursor
<1> HIDE DEF c1, c2, s1, s2
<1>4. c1 \o s1 \in Seq(Display!Instr) /\ Len(c1 \o s1) >= 1
  <2>1. c1 \o s1 \in Seq(Display!Instr) /\ Len(c1 \o s1) = Len(c1) + Len(s1)
    BY <1>1, <1>2, ConcatProperties
  <2>2. Len(s1) \in Nat
    BY <1>2
  <2> QED BY <2>1, <2>2, <1>3
<1>5. c1 \o s1 \o c2 \in Seq(Display!Instr) /\ Len(c1 \o s1 \o c2) >= 1
  BY <1>1, <1>4
<1>6. /\ c1 \o s1 \o c2 \o s2 \in Seq(Display!Instr)
      /\ Len(c1 \o s1 \o c2 \o s2) >= 1
  BY <1>2, <1>5
<1> QED BY <1>6 DEF Lines_Write, c1, c2, s1, s2

LEMMA DisplayProgram ==
    ASSUME NEW t \in Seq(Chars) \X Seq(Chars)
    PROVE  Menu_Display(t) \in Seq(Display!Instr) /\ Menu_Display(t) # <<>>
<1>1. BlankLine \in Seq(Chars)
  BY LcdAssumption DEF BlankLine
<1>2. Lines_Write(<<BlankLine, BlankLine>>) \in Seq(Display!Instr)
  BY <1>1, LinesProgram
<1>3. Lines_Write(t) \in Seq(Display!Instr) /\ Lines_Write(t) # <<>>
  BY LinesProgram
<1> QED BY <1>2, <1>3 DEF Menu_Display

LEMMA InitProgram ==
    lcd_init \o Lines_Write(Welcome) \o lcd_set_cursor(1) \in Seq(Display!Instr)
<1>1. <<"setup">> \in Display!Instr /\ <<"clear">> \in Display!Instr
  BY DEF Display!Instr
<1>2. lcd_init \in Seq(Display!Instr)
  <2>1. [n \in 1 .. 7 |-> <<"setup">>] \in Seq(Display!Instr)
    BY <1>1
  <2>2. <<<<"clear">>, <<"setup">>>> \in Seq(Display!Instr)
    BY <1>1
  <2> QED BY <2>1, <2>2 DEF lcd_init
<1>3. Lines_Write(Welcome) \in Seq(Display!Instr)
  BY LinesProgram, LcdAssumption
<1>4. lcd_set_cursor(1) \in Seq(Display!Instr)
  BY CursorProgram DEF Lines, Display!Lines
<1> QED BY <1>2, <1>3, <1>4

LEMMA FirstInstr ==
    ASSUME TypeOK, prog # <<>> PROVE Head(prog) \in Display!Instr
<1> QED BY DEF TypeOK

\* An instruction is its own third byte.
LEMMA BytesForms ==
    ASSUME NEW i \in Display!Instr
    PROVE  /\ BytesOf(i) = <<Address, Control(i), i>>
           /\ BytesOf(i)[1] = Address
           /\ BytesOf(i)[2] = Control(i)
           /\ BytesOf(i)[3] = i
           /\ Address \in Bytes /\ Control(i) \in Bytes /\ i \in Bytes
<1> QED BY DEF BytesOf, Bytes, Address, Control

\* What the display does keeps its cells and cursor in their types.
LEMMA ExecuteType ==
    ASSUME TypeOK, NEW i \in Display!Instr, Display!Execute(i)
    PROVE  /\ cells' \in [Lines -> [1 .. Width -> Chars]]
           /\ cursor' \in [line : Lines, col : 1 .. Width + 1]
<1> USE LcdAssumption DEF TypeOK, Lines, Display!Lines, Display!At
<1>1. CASE i = <<"setup">>
  BY <1>1 DEF Display!Execute
<1>2. CASE i = <<"clear">>
  BY <1>2 DEF Display!Execute, Display!BlankCells
<1>3. ASSUME NEW l \in Lines, i = <<"cursor", l>>
      PROVE  /\ cells' \in [Lines -> [1 .. Width -> Chars]]
             /\ cursor' \in [line : Lines, col : 1 .. Width + 1]
  BY <1>3 DEF Display!Execute
<1>4. ASSUME NEW c \in Chars, i = <<"data", c>>
      PROVE  /\ cells' \in [Lines -> [1 .. Width -> Chars]]
             /\ cursor' \in [line : Lines, col : 1 .. Width + 1]
  <2>1. Display!Write(c)
    BY <1>4 DEF Display!Execute
  <2>2. CASE cursor.col <= Width
    <3> DEFINE l == cursor.line
               k == cursor.col
    <3>1. l \in Lines /\ k \in 1 .. Width /\ k + 1 \in 1 .. Width + 1
      BY <2>2
    <3>2. /\ cells' = [cells EXCEPT ![l] = [cells[l] EXCEPT ![k] = c]]
          /\ cursor' = [cursor EXCEPT !.col = k + 1]
      BY <2>1, <2>2 DEF Display!Write
    <3>3. cells \in [Lines -> [1 .. Width -> Chars]]
      OBVIOUS
    <3> HIDE DEF l, k
    <3>4. [cells[l] EXCEPT ![k] = c] \in [1 .. Width -> Chars]
      BY <3>1, <3>3
    <3>5. cells' \in [Lines -> [1 .. Width -> Chars]]
      BY <3>2, <3>3, <3>4
    <3> QED BY <3>1, <3>2, <3>5
  <2>3. CASE ~(cursor.col <= Width)
    BY <2>1, <2>3 DEF Display!Write
  <2> QED BY <2>2, <2>3
<1> QED BY <1>1, <1>2, <1>3, <1>4, InstrForms
----------------------------------------------------------------------------
LEMMA InitIInv == Init => IInv
<1> SUFFICES ASSUME Init PROVE IInv
  OBVIOUS
<1>1. TypeOK
  <2>1. prog \in Seq(Display!Instr)
    BY InitProgram DEF Init
  <2>2. /\ cells \in [Lines -> [1 .. Width -> Chars]]
        /\ cursor \in [line : Lines, col : 1 .. Width + 1]
        /\ asked = Display!NoInstr
    BY LcdAssumption DEF Init, Display!Init, Lines, Display!Lines, Display!At
  <2>3. Fits(shown)
    BY LcdAssumption DEF Init
  <2>4. frame \in Seq(Bytes) /\ shift \in Bytes
    BY DEF Init, Bytes
  <2> QED BY <2>1, <2>2, <2>3, <2>4 DEF Init, TypeOK
<1>2. Outside /\ InStart /\ InByte /\ InWait /\ InStop
  BY DEF Init, Display!Init, Outside, Ping, InStart, InByte, InWait, InStop
<1> QED BY <1>1, <1>2 DEF IInv

\* A service that redraws puts a program where there was none.
LEMMA ServiceStep == ASSUME IInv, Redraw \/ Overlay PROVE IInv'
<1>1. /\ prog' \in Seq(Display!Instr) /\ prog' # <<>> /\ Fits(shown')
  <2>1. CASE Redraw
    <3>1. PICK t \in Texts \cup {SaveText} : prog' = Menu_Display(t) /\ shown' = t
      BY <2>1 DEF Redraw
    <3>2. t \in Seq(Chars) \X Seq(Chars) /\ Fits(t)
      BY LcdAssumption
    <3> QED BY <3>1, <3>2, DisplayProgram
  <2>2. CASE Overlay
    <3>1. SaveOverlay \in Seq(Chars) \X Seq(Chars) /\ Fits(SaveOverlay)
      BY LcdAssumption
    <3> QED BY <2>2, <3>1, LinesProgram DEF Overlay
  <2> QED BY <2>1, <2>2
<1>2. /\ pc = "idle" /\ op = "none"
      /\ UNCHANGED <<pc, sent, op, shift, frame, cells, cursor, asked>>
  BY DEF Redraw, Overlay, DRV_I2C0_MasterBusIdle
<1>3. TypeOK'
  BY <1>1, <1>2 DEF IInv, TypeOK, Bytes, Fits
<1>4. Outside' /\ InStart' /\ InByte' /\ InWait' /\ InStop'
  BY <1>2 DEF IInv, Outside, Ping, InStart, InByte, InWait, InStop
<1> QED BY <1>3, <1>4 DEF IInv
----------------------------------------------------------------------------
\* The steps of _sendRaw.

LEMMA StartStep == ASSUME IInv, DRV_I2C0_MasterStart PROVE IInv'
<1> USE DEF DRV_I2C0_MasterStart
<1>1. Head(prog) \in Display!Instr
  BY FirstInstr DEF IInv
<1>2. op = "none"
  BY DEF IInv, Outside, Ping
<1>3. TypeOK'
  BY <1>1, <1>2 DEF IInv, TypeOK, DRV_I2C0_MasterBusIdle, Bytes, Fits
<1>4. Outside' /\ InByte' /\ InWait' /\ InStop' /\ InStart'
  BY <1>2 DEF Outside, Ping, InByte, InWait, InStop, InStart, DRV_I2C0_MasterBusIdle
<1> QED BY <1>3, <1>4 DEF IInv

LEMMA StartDelayStep == ASSUME IInv, StartDelay PROVE IInv'
<1> USE DEF StartDelay
<1>1. op = "none" /\ sent = 0 /\ asked = Head(prog) /\ frame = <<>>
  BY DEF IInv, InStart
<1>2. TypeOK'
  BY DEF IInv, TypeOK, Bytes, Fits, Ping
<1>3. Outside' /\ InByte' /\ InWait' /\ InStop' /\ InStart'
  BY <1>1 DEF Outside, Ping, InByte, InWait, InStop, InStart, Received3
<1> QED BY <1>2, <1>3 DEF IInv

LEMMA ByteStep == ASSUME IInv, DRV_I2C0_ByteWrite PROVE IInv'
<1> USE DEF DRV_I2C0_ByteWrite
<1>1. /\ op = "none" /\ sent \in 0 .. 2
      /\ asked = Head(prog) /\ frame = Received3(sent)
  BY DEF IInv, InByte
<1>2. prog # <<>> /\ Head(prog) \in Display!Instr
  BY FirstInstr DEF IInv, TypeOK, Ping
<1>3. op' = "send" /\ shift' = BytesOf(Head(prog))[sent + 1]
  BY <1>1
<1>4. shift' \in Bytes
  <2>1. sent = 0 \/ sent = 1 \/ sent = 2
    BY <1>1
  <2> QED BY <1>2, <1>3, <2>1, BytesForms
<1>5. sent' = sent + 1 /\ sent' \in 1 .. 3 /\ sent' \in 0 .. 3 /\ sent' - 1 = sent
  BY <1>1
<1>6. TypeOK'
  BY <1>2, <1>3, <1>4, <1>5 DEF IInv, TypeOK, Bytes, Fits
<1>7. InWait'
  <2>1. prog' = prog /\ asked' = asked /\ frame' = frame
    OBVIOUS
  <2>2. frame = Received3(sent' - 1)
    BY <1>1, <1>5
  <2> QED BY <1>1, <1>3, <1>5, <2>1, <2>2 DEF InWait, Received3
<1>8. Outside' /\ InByte' /\ InStop' /\ InStart'
  BY DEF Outside, Ping, InByte, InStop, InStart
<1> QED BY <1>6, <1>7, <1>8 DEF IInv

LEMMA WaitStep == ASSUME IInv, DRV_I2C0_WaitForByteWriteToComplete PROVE IInv'
<1> USE DEF DRV_I2C0_WaitForByteWriteToComplete
<1>1. /\ op = "none" /\ sent \in 1 .. 3
      /\ frame = Received3(sent)
      /\ asked = IF sent = 3 THEN Display!NoInstr ELSE Head(prog)
  BY DEF IInv, InWait
<1>2. TypeOK'
  BY <1>1 DEF IInv, TypeOK, Bytes, Fits, Ping
<1>3. InByte' /\ InStop'
  BY <1>1 DEF InByte, InStop, Received3
<1>4. Outside' /\ InWait' /\ InStart'
  BY DEF Outside, Ping, InWait, InStart
<1> QED BY <1>2, <1>3, <1>4 DEF IInv

LEMMA StopStep == ASSUME IInv, DRV_I2C0_MasterStop PROVE IInv'
<1> USE DEF DRV_I2C0_MasterStop
<1>1. op = "none" /\ asked = Display!NoInstr
  BY DEF IInv, InStop
<1>2. TypeOK'
  BY <1>1 DEF IInv, TypeOK, Bytes, Fits, Ping
<1>3. Outside' /\ InStart' /\ InByte' /\ InWait' /\ InStop'
  BY <1>1 DEF Outside, Ping, InStart, InByte, InWait, InStop
<1> QED BY <1>2, <1>3 DEF IInv

LEMMA StopDelayStep == ASSUME IInv, StopDelay PROVE IInv'
<1> USE DEF StopDelay
<1>1. op = "none" /\ asked = Display!NoInstr
  BY DEF IInv, InStop
<1>2. prog # <<>> /\ prog' \in Seq(Display!Instr)
  BY DEF IInv, TypeOK, Ping
<1>3. TypeOK'
  BY <1>2 DEF IInv, TypeOK, Bytes, Fits
<1>4. Outside' /\ InStart' /\ InByte' /\ InWait' /\ InStop'
  BY <1>1 DEF Outside, Ping, InStart, InByte, InWait, InStop
<1> QED BY <1>3, <1>4 DEF IInv

\* LCD_Ping
LEMMA PingStep == ASSUME IInv, LCD_Ping \/ Pinging PROVE IInv'
<1> USE DEF IInv, Ping
<1>1. CASE LCD_Ping
  <2>1. TypeOK'
    BY <1>1 DEF LCD_Ping, TypeOK, Bytes, Fits
  <2>2. Outside' /\ InStart' /\ InByte' /\ InWait' /\ InStop'
    BY <1>1 DEF LCD_Ping, Outside, InStart, InByte, InWait, InStop
  <2> QED BY <2>1, <2>2
<1>2. CASE Ping_Byte
  <2>1. TypeOK'
    BY <1>2 DEF Ping_Byte, TypeOK, Bytes, Fits
  <2>2. Outside' /\ InStart' /\ InByte' /\ InWait' /\ InStop'
    BY <1>2 DEF Ping_Byte, Outside, InStart, InByte, InWait, InStop
  <2> QED BY <2>1, <2>2
<1>3. CASE Ping_Stop
  <2>1. TypeOK'
    BY <1>3 DEF Ping_Stop, TypeOK, Bytes, Fits, DRV_I2C0_MasterBusIdle
  <2>2. Outside' /\ InStart' /\ InByte' /\ InWait' /\ InStop'
    BY <1>3 DEF Ping_Stop, Outside, InStart, InByte, InWait, InStop,
                DRV_I2C0_MasterBusIdle
  <2> QED BY <2>1, <2>2
<1> QED BY <1>1, <1>2, <1>3 DEF Pinging
----------------------------------------------------------------------------
\* The steps of the I2C module.

LEMMA StartOrStopDone == ASSUME IInv, StartDone \/ StopDone PROVE IInv'
<1>1. /\ op \in {"start", "stop"} /\ op' = "none"
      /\ UNCHANGED <<prog, pc, sent, shown, shift, cells, cursor, asked>>
      /\ frame' \in {<<>>, frame}
      /\ op = "start" => frame' = <<>>
  BY DEF StartDone, StopDone, cpuVars
<1>2. TypeOK'
  <2>1. frame' \in Seq(Bytes)
    <3>1. frame \in Seq(Bytes) /\ <<>> \in Seq(Bytes)
      BY DEF IInv, TypeOK
    <3> QED BY <1>1, <3>1
  <2> QED BY <1>1, <2>1 DEF IInv, TypeOK, Bytes, Fits
<1>3. pc \notin {"byte", "wait"}
  BY <1>1 DEF IInv, InByte, InWait
<1>4. Outside' /\ InStart' /\ InByte' /\ InWait' /\ InStop'
  BY <1>1, <1>3 DEF IInv, Outside, Ping, InStart, InByte, InWait, InStop
<1> QED BY <1>2, <1>4 DEF IInv

\* A byte that ends outside _sendRaw is LCD_Ping's: the display ignores it.
LEMMA PingByteDone ==
    ASSUME IInv, ByteDone, pc \in {"idle"} \cup Ping
    PROVE  IInv' /\ UNCHANGED <<cells, cursor, asked>>
<1>1. frame = <<>> /\ shift = Address
  BY DEF IInv, Outside, ByteDone
<1>2. /\ frame' = <<Address>> /\ UNCHANGED <<cells, cursor, asked>>
      /\ op' = "none" /\ UNCHANGED <<prog, pc, sent, shown, shift>>
  BY <1>1 DEF ByteDone, Received, cpuVars
<1>3. frame' \in Seq(Bytes)
  BY <1>2 DEF Bytes
<1>4. TypeOK'
  BY <1>2, <1>3 DEF IInv, TypeOK, Bytes, Fits
<1>5. pc # "pingByte"
  BY DEF IInv, Outside, ByteDone
<1>6. Outside' /\ InStart' /\ InByte' /\ InWait' /\ InStop'
  BY <1>2, <1>5 DEF IInv, Outside, Ping, InStart, InByte, InWait, InStop
<1> QED BY <1>2, <1>4, <1>6 DEF IInv

\* Of the three bytes of an instruction the display executes the last.
LEMMA InstrByteDone ==
    ASSUME IInv, ByteDone, pc \notin {"idle"} \cup Ping
    PROVE  /\ IInv'
           /\ \/ UNCHANGED <<cells, cursor, asked>>
              \/ /\ asked \in Display!Instr
                 /\ Display!Execute(asked) /\ asked' = Display!NoInstr
<1> DEFINE i == Head(prog)
<1>1. pc = "wait" /\ op = "send"
  BY DEF IInv, TypeOK, InStart, InByte, InStop, ByteDone
<1>2. /\ sent \in 1 .. 3 /\ shift = BytesOf(i)[sent] /\ asked = i
      /\ frame = Received3(sent - 1)
  BY <1>1 DEF IInv, InWait
<1>3. prog # <<>> /\ i \in Display!Instr
  BY <1>1, FirstInstr DEF IInv, TypeOK, Ping
<1>4. /\ op' = "none" /\ UNCHANGED <<prog, pc, sent, shown, shift>>
      /\ frame' = Append(frame, shift)
      /\ Received(shift)
  BY DEF ByteDone, Received, cpuVars
<1>5. frame' = Received3(sent)
  <2>1. sent = 1 \/ sent = 2 \/ sent = 3
    BY <1>2
  <2>2. CASE sent = 1
    BY <2>2, <1>2, <1>3, <1>4, BytesForms DEF Received3
  <2>3. CASE sent = 2
    <3>1. frame = <<Address>> /\ shift = Control(i)
      BY <2>3, <1>2, <1>3, BytesForms DEF Received3
    <3>2. frame' = Append(frame, Control(i))
      BY <3>1, <1>4
    <3>3. Len(frame') = 2 /\ frame' \in Seq(Bytes) /\ DOMAIN frame' = 1 .. 2
      BY <3>1, <3>2, <1>4 DEF IInv, TypeOK
    <3>4. frame'[1] = Address /\ frame'[2] = Control(i)
      BY <3>1, <3>2 DEF IInv, TypeOK
    <3>5. frame' = <<Address, Control(i)>>
      BY <3>3, <3>4
    <3> QED BY <2>3, <3>5 DEF Received3
  <2>4. CASE sent = 3
    <3>1. frame = <<Address, Control(i)>> /\ shift = i
      BY <2>4, <1>2, <1>3, BytesForms DEF Received3
    <3>2. frame' = Append(frame, i)
      BY <3>1, <1>4
    <3>3. Len(frame') = 3 /\ frame' \in Seq(Bytes) /\ DOMAIN frame' = 1 .. 3
      BY <3>1, <3>2, <1>4 DEF IInv, TypeOK
    <3>4. frame'[1] = Address /\ frame'[2] = Control(i) /\ frame'[3] = i
      BY <3>1, <3>2 DEF IInv, TypeOK
    <3>5. frame' = BytesOf(i)
      BY <3>3, <3>4 DEF BytesOf
    <3>6. Received3(sent) = BytesOf(i)
      BY <2>4 DEF Received3
    <3> QED BY <3>5, <3>6
  <2> QED BY <2>1, <2>2, <2>3, <2>4
<1>6. CASE sent # 3
  <2>1. Len(frame) # 2
    <3>1. sent = 1 \/ sent = 2
      BY <1>2, <1>6
    <3> QED BY <3>1, <1>2 DEF Received3
  <2>2. UNCHANGED <<cells, cursor, asked>>
    BY <2>1, <1>4 DEF Received
  <2>3. frame' \in Seq(Bytes)
    BY <1>4 DEF IInv, TypeOK
  <2>4. TypeOK'
    BY <1>4, <2>2, <2>3 DEF IInv, TypeOK, Bytes, Fits
  <2>5. InWait'
    BY <1>1, <1>2, <1>4, <1>5, <1>6, <2>2 DEF InWait, Received3
  <2>6. Outside' /\ InStart' /\ InByte' /\ InStop'
    BY <1>1, <1>4 DEF Outside, Ping, InStart, InByte, InStop
  <2> QED BY <2>2, <2>4, <2>5, <2>6 DEF IInv
<1>7. CASE sent = 3
  <2>1. frame = <<Address, Control(i)>> /\ shift = i
    BY <1>2, <1>3, <1>7, BytesForms DEF Received3
  <2>2. Display!Execute(i) /\ asked' = Display!NoInstr
    BY <2>1, <1>3, <1>4 DEF Received
  <2>3. /\ cells' \in [Lines -> [1 .. Width -> Chars]]
        /\ cursor' \in [line : Lines, col : 1 .. Width + 1]
    BY <2>2, <1>3, ExecuteType DEF IInv
  <2>4. frame' \in Seq(Bytes)
    BY <1>4 DEF IInv, TypeOK
  <2>5. TypeOK'
    BY <1>4, <2>2, <2>3, <2>4 DEF IInv, TypeOK, Bytes, Fits
  <2>6. InWait'
    BY <1>1, <1>2, <1>4, <1>5, <1>7, <2>2 DEF InWait, Received3
  <2>7. Outside' /\ InStart' /\ InByte' /\ InStop'
    BY <1>1, <1>4 DEF Outside, Ping, InStart, InByte, InStop
  <2> QED BY <1>2, <1>3, <2>2, <2>5, <2>6, <2>7 DEF IInv
<1> QED BY <1>6, <1>7
----------------------------------------------------------------------------
LEMMA StepIInv == IInv /\ [Next]_vars => IInv'
<1> SUFFICES ASSUME IInv, [Next]_vars PROVE IInv'
  OBVIOUS
<1>1. CASE UNCHANGED vars
  BY <1>1 DEF vars, cpuVars, IInv, TypeOK, Bytes, Fits, Outside, InStart,
              InByte, InWait, InStop, Received3
<1>2. CASE SendRaw
  BY <1>2, StartStep, StartDelayStep, ByteStep, WaitStep, StopStep, StopDelayStep
     DEF SendRaw
<1>3. CASE I2cModule
  BY <1>3, StartOrStopDone, PingByteDone, InstrByteDone DEF I2cModule
<1> QED BY <1>1, <1>2, <1>3, ServiceStep, PingStep DEF Next

THEOREM Invariance == Spec => []IInv
<1> QED BY InitIInv, StepIInv, PTL DEF Spec

\* The variables of the display, of the I2C module and of LCD.c's place in a
\* frame stay in their types, whatever is drawn.
THEOREM TypeCorrect == Spec => []TypeOK
<1>1. IInv => TypeOK
  BY DEF IInv
<1> QED BY <1>1, Invariance, PTL

\* A step of LcdI2c is one of LcdContract or leaves its variables alone: an
\* instruction is asked for at its start bit, executed at its third byte.
LEMMA ContractStep ==
    ASSUME IInv, [Next]_vars
    PROVE  [Display!Next]_(Display!vars)
<1> USE DEF Display!vars
<1>1. CASE UNCHANGED vars
  BY <1>1 DEF vars
<1>2. CASE DRV_I2C0_MasterStart
  <2>1. asked = Display!NoInstr
    BY <1>2 DEF IInv, Outside, DRV_I2C0_MasterStart
  <2>2. asked' \in Display!Instr /\ UNCHANGED <<cells, cursor>>
    BY <1>2, FirstInstr DEF IInv, DRV_I2C0_MasterStart
  <2> QED BY <2>1, <2>2 DEF Display!Next, Display!Ask
<1>3. CASE ByteDone
  <2>1. \/ UNCHANGED <<cells, cursor, asked>>
        \/ /\ asked \in Display!Instr
           /\ Display!Execute(asked) /\ asked' = Display!NoInstr
    BY <1>3, PingByteDone, InstrByteDone
  <2>2. \A i \in Display!Instr : i # Display!NoInstr
    BY InstrForms DEF Display!NoInstr
  <2> QED BY <2>1, <2>2 DEF Display!Next, Display!Do
<1>4. CASE Redraw \/ Overlay \/ LCD_Ping \/ Pinging
  BY <1>4 DEF Redraw, Overlay, LCD_Ping, Pinging, Ping_Byte, Ping_Stop
<1>5. CASE \/ StartDelay \/ DRV_I2C0_ByteWrite
           \/ DRV_I2C0_WaitForByteWriteToComplete
           \/ DRV_I2C0_MasterStop \/ StopDelay
  BY <1>5 DEF StartDelay, DRV_I2C0_ByteWrite,
              DRV_I2C0_WaitForByteWriteToComplete, DRV_I2C0_MasterStop, StopDelay
<1>6. CASE StartDone \/ StopDone
  BY <1>6 DEF StartDone, StopDone
<1> QED BY <1>1, <1>2, <1>3, <1>4, <1>5, <1>6 DEF Next, SendRaw, I2cModule

\* LCD.c over the I2C module implements the contract: no instruction is
\* dropped, cut short, executed twice or taken for another, although its
\* functions never check what the driver returns.
THEOREM Refinement == Spec => ImplementsContract
<1>1. Init => Display!Init
  BY DEF Init
<1>2. IInv /\ [Next]_vars => [Display!Next]_(Display!vars)
  BY ContractStep
<1> QED BY <1>1, <1>2, Invariance, PTL DEF Spec, ImplementsContract, Display!Spec
----------------------------------------------------------------------------
\* What a redraw leaves on the display.  The instructions not executed yet are
\* what is left of the program, without its first one once the display has
\* executed that.

Executed == prog # <<>> /\ pc # "idle" /\ asked = Display!NoInstr
Rest     == IF Executed THEN Tail(prog) ELSE prog

AllTexts == {Welcome, SaveText, SaveOverlay} \cup Texts

\* The instructions that write string s from column c on.
From(s, c) == [n \in 1 .. Len(s) + 1 - c |-> <<"data", s[c - 1 + n]>>]

WrittenTo(s, l, c) == \A x \in 1 .. Width : x < c => cells[l][x] = s[x]

BlankBeyond(t) ==
    \A l \in Lines : \A x \in 1 .. Width : x > Len(t[l]) => cells[l][x] = Blank

Drawn(t) == \A l \in Lines : WrittenTo(t[l], l, Len(t[l]) + 1)

\* Lines_Write(t) is under way, and tail comes after it.
FirstLine(t, tail) ==
    \E c \in 1 .. Len(t[1]) + 1 :
      /\ Rest = From(t[1], c) \o (lcd_set_cursor(2) \o (lcd_put_string(t[2]) \o tail))
      /\ cursor = [line |-> 1, col |-> c]
      /\ WrittenTo(t[1], 1, c)

SecondLine(t, tail) ==
    \E c \in 1 .. Len(t[2]) + 1 :
      /\ Rest = From(t[2], c) \o tail
      /\ cursor = [line |-> 2, col |-> c]
      /\ WrittenTo(t[1], 1, Len(t[1]) + 1)
      /\ WrittenTo(t[2], 2, c)

Drawing(t, tail) ==
    Rest = Lines_Write(t) \o tail \/ FirstLine(t, tail) \/ SecondLine(t, tail)

\* The display is being set up.
AfterSetup == Lines_Write(Welcome) \o lcd_set_cursor(1)
Setup(k)   == [n \in 1 .. k |-> <<"setup">>] \o (<<<<"clear">>, <<"setup">>>> \o AfterSetup)

Setting == \/ \E k \in 0 .. 7 : Rest = Setup(k)
           \/ Rest = <<<<"setup">>>> \o AfterSetup /\ BlankBeyond(<< <<>>, <<>> >>)

Blanks == <<BlankLine, BlankLine>>

\* The text is on the display, or the display is being set up for the welcome
\* text, or the text is being written over blanks, or they are.
Progress ==
    /\ shown \in AllTexts
    /\ \/ Rest \in {<<>>, lcd_set_cursor(1)} /\ BlankBeyond(shown) /\ Drawn(shown)
       \/ shown = Welcome /\ Setting
       \/ /\ BlankBeyond(shown)
          /\ Drawing(shown, <<>>) \/ Drawing(shown, lcd_set_cursor(1))
       \/ Drawing(Blanks, Lines_Write(shown))
----------------------------------------------------------------------------
\* Programs as sequences.

LEMMA FirstOfConcat ==
    ASSUME NEW S, NEW s \in Seq(S), NEW t \in Seq(S), s # <<>>
    PROVE  Head(s \o t) = Head(s) /\ Tail(s \o t) = Tail(s) \o t /\ s \o t # <<>>
<1>1. Head(s \o t) = Head(s)
  OBVIOUS
<1>2. Tail(s \o t) = Tail(s) \o t
  OBVIOUS
<1> QED BY <1>1, <1>2

LEMMA TextType ==
    ASSUME NEW t \in AllTexts
    PROVE  /\ t \in Seq(Chars) \X Seq(Chars) /\ Fits(t)
           /\ t[1] \in Seq(Chars) /\ t[2] \in Seq(Chars)
<1> QED BY LcdAssumption DEF AllTexts

LEMMA BlanksType ==
    /\ Blanks \in Seq(Chars) \X Seq(Chars) /\ Fits(Blanks)
    /\ \A l \in Lines : Len(Blanks[l]) = Width
    /\ \A l \in Lines, x \in 1 .. Width : Blanks[l][x] = Blank
<1>1. BlankLine \in Seq(Chars) /\ Len(BlankLine) = Width
  BY LcdAssumption DEF BlankLine
<1>2. \A x \in 1 .. Width : BlankLine[x] = Blank
  BY DEF BlankLine
<1>3. Blanks = <<BlankLine, BlankLine>>
  BY DEF Blanks
<1> HIDE DEF Blanks
<1>4. /\ Blanks \in Seq(Chars) \X Seq(Chars)
      /\ Blanks[1] = BlankLine /\ Blanks[2] = BlankLine
  BY <1>1, <1>3
<1>5. Width \in Nat
  BY LcdAssumption
<1> QED BY <1>1, <1>2, <1>4, <1>5 DEF Lines, Display!Lines, Fits

LEMMA FromString ==
    ASSUME NEW s \in Seq(Chars), NEW c \in 1 .. Len(s) + 1
    PROVE  /\ From(s, c) \in Seq(Display!Instr)
           /\ Len(From(s, c)) = Len(s) + 1 - c
           /\ From(s, 1) = lcd_put_string(s)
           /\ c = Len(s) + 1 => From(s, c) = <<>>
           /\ c # Len(s) + 1 => /\ From(s, c) # <<>>
                                /\ c \in 1 .. Len(s) /\ s[c] \in Chars
                                /\ Head(From(s, c)) = <<"data", s[c]>>
                                /\ Tail(From(s, c)) = From(s, c + 1)
<1>1. Len(s) + 1 - c \in Nat
  OBVIOUS
<1>2. \A n \in 1 .. Len(s) + 1 - c : <<"data", s[c - 1 + n]>> \in Display!Instr
  BY DEF Display!Instr
<1>3. From(s, c) \in Seq(Display!Instr) /\ Len(From(s, c)) = Len(s) + 1 - c
  BY <1>1, <1>2 DEF From
<1>4. From(s, 1) = lcd_put_string(s)
  <2>1. Len(s) + 1 - 1 = Len(s) /\ \A n \in 1 .. Len(s) : 1 - 1 + n = n
    OBVIOUS
  <2> QED BY <2>1 DEF From, lcd_put_string
<1>5. c = Len(s) + 1 => From(s, c) = <<>>
  BY <1>3
<1>6. ASSUME c # Len(s) + 1
      PROVE  /\ From(s, c) # <<>>
             /\ c \in 1 .. Len(s) /\ s[c] \in Chars
             /\ Head(From(s, c)) = <<"data", s[c]>>
             /\ Tail(From(s, c)) = From(s, c + 1)
  <2>1. c \in 1 .. Len(s) /\ s[c] \in Chars /\ From(s, c) # <<>>
    BY <1>3, <1>6
  <2>2. Head(From(s, c)) = <<"data", s[c]>>
    BY <1>1, <1>3, <2>1 DEF From
  <2>3. Tail(From(s, c)) = From(s, c + 1)
    <3>1. Len(s) + 1 - (c + 1) \in Nat /\ c + 1 \in 1 .. Len(s) + 1
      BY <2>1
    <3>2. /\ From(s, c + 1) \in Seq(Display!Instr)
          /\ Len(From(s, c + 1)) = Len(s) + 1 - (c + 1)
      <4>1. \A n \in 1 .. Len(s) + 1 - (c + 1) :
              <<"data", s[(c + 1) - 1 + n]>> \in Display!Instr
        BY DEF Display!Instr
      <4> QED BY <3>1, <4>1 DEF From
    <3>3. /\ Tail(From(s, c)) \in Seq(Display!Instr)
          /\ Len(Tail(From(s, c))) = Len(s) + 1 - (c + 1)
          /\ \A n \in 1 .. Len(s) + 1 - (c + 1) :
               Tail(From(s, c))[n] = From(s, c)[n + 1]
      BY <1>3, <2>1, HeadTailProperties
    <3>4. \A n \in 1 .. Len(s) + 1 - (c + 1) :
            From(s, c)[n + 1] = From(s, c + 1)[n]
      <4> TAKE n \in 1 .. Len(s) + 1 - (c + 1)
      <4>1. n + 1 \in 1 .. Len(s) + 1 - c /\ c - 1 + (n + 1) = (c + 1) - 1 + n
        OBVIOUS
      <4> QED BY <4>1 DEF From
    <3>5. \A n \in 1 .. Len(s) + 1 - (c + 1) :
            Tail(From(s, c))[n] = From(s, c + 1)[n]
      BY <3>3, <3>4
    <3> HIDE DEF From
    <3> QED BY <3>2, <3>3, <3>5, SeqEqual
  <2> QED BY <2>1, <2>2, <2>3
<1> QED BY <1>3, <1>4, <1>5, <1>6

LEMMA LinesForm ==
    ASSUME NEW t \in Seq(Chars) \X Seq(Chars), NEW tail \in Seq(Display!Instr)
    PROVE  /\ Lines_Write(t) \o tail # <<>>
           /\ Head(Lines_Write(t) \o tail) = <<"cursor", 1>>
           /\ Tail(Lines_Write(t) \o tail) =
                From(t[1], 1) \o (lcd_set_cursor(2) \o (lcd_put_string(t[2]) \o tail))
<1> DEFINE c1 == lcd_set_cursor(1)
           c2 == lcd_set_cursor(2)
           s1 == lcd_put_string(t[1])
           s2 == lcd_put_string(t[2])
           S  == Display!Instr
<1>1. c1 \in Seq(S) /\ c2 \in Seq(S)
  BY CursorProgram DEF Lines, Display!Lines
<1>2. s1 \in Seq(S) /\ s2 \in Seq(S)
  BY StringProgram
<1>3. c1 # <<>> /\ Head(c1) = <<"cursor", 1>> /\ Tail(c1) = <<>>
  BY DEF lcd_set_cursor
<1>4. t[1] \in Seq(Chars) /\ 1 \in 1 .. Len(t[1]) + 1
  OBVIOUS
<1>5. From(t[1], 1) = s1
  BY <1>4, FromString
<1>6. Lines_Write(t) = c1 \o s1 \o c2 \o s2
  BY DEF Lines_Write
<1> HIDE DEF c1, c2, s1, s2, S
<1>7. c1 \o s1 \o c2 \o s2 \o tail = c1 \o (s1 \o (c2 \o (s2 \o tail)))
  <2> DEFINE cs    == c1 \o s1
             csc   == cs \o c2
             st    == s2 \o tail
             cst   == c2 \o st
  <2>1. cs \in Seq(S) /\ st \in Seq(S)
    BY <1>1, <1>2 DEF S
  <2>2. csc \in Seq(S) /\ cst \in Seq(S)
    BY <1>1, <2>1
  <2>3. tail \in Seq(S)
    BY DEF S
  <2> HIDE DEF cs, csc, st, cst
  <2>4. csc \o s2 \o tail = csc \o (s2 \o tail)
    BY <1>2, <2>2, <2>3
  <2>5. cs \o c2 \o st = cs \o (c2 \o st)
    BY <1>1, <2>1
  <2>6. c1 \o s1 \o cst = c1 \o (s1 \o cst)
    <3>1. c1 \in Seq(S) /\ s1 \in Seq(S) /\ cst \in Seq(S)
      BY <1>1, <1>2, <2>2
    <3> QED BY <3>1
  <2> QED BY <2>4, <2>5, <2>6 DEF cs, csc, st, cst
<1>8. s1 \o (c2 \o (s2 \o tail)) \in Seq(S)
  <2>1. s2 \o tail \in Seq(S)
    BY <1>2 DEF S
  <2>2. c2 \o (s2 \o tail) \in Seq(S)
    BY <1>1, <2>1
  <2> QED BY <1>2, <2>2
<1>9. <<>> \o (s1 \o (c2 \o (s2 \o tail))) = s1 \o (c2 \o (s2 \o tail))
  BY <1>8, ConcatEmptySeq
<1> DEFINE r == s1 \o (c2 \o (s2 \o tail))
<1> HIDE DEF r
<1>10. c1 \o r # <<>> /\ Head(c1 \o r) = Head(c1) /\ Tail(c1 \o r) = Tail(c1) \o r
  BY <1>1, <1>3, <1>8, FirstOfConcat DEF r
<1>11. Lines_Write(t) \o tail = c1 \o r
  BY <1>6, <1>7 DEF r
<1>12. Tail(c1) \o r = From(t[1], 1) \o (c2 \o (s2 \o tail))
  BY <1>3, <1>5, <1>9 DEF r
<1> QED BY <1>3, <1>10, <1>11, <1>12 DEF c2, s2

LEMMA CursorForm ==
    ASSUME NEW row \in Lines, NEW tail \in Seq(Display!Instr)
    PROVE  /\ lcd_set_cursor(row) \o tail # <<>>
           /\ Head(lcd_set_cursor(row) \o tail) = <<"cursor", row>>
           /\ Tail(lcd_set_cursor(row) \o tail) = tail
<1>1. lcd_set_cursor(row) \in Seq(Display!Instr)
  BY CursorProgram
<1>2. /\ lcd_set_cursor(row) # <<>>
      /\ Head(lcd_set_cursor(row)) = <<"cursor", row>>
      /\ Tail(lcd_set_cursor(row)) = <<>>
  BY DEF lcd_set_cursor
<1>3. <<>> \o tail = tail
  BY ConcatEmptySeq
<1> QED BY <1>1, <1>2, <1>3, FirstOfConcat
----------------------------------------------------------------------------
\* What the display does with a cursor command and with a character.

LEMMA CursorExecuted ==
    ASSUME NEW l \in Lines, Display!Execute(<<"cursor", l>>)
    PROVE  cells' = cells /\ cursor' = [line |-> l, col |-> 1]
<1> QED BY DEF Display!Execute, Display!At

LEMMA DataExecuted ==
    ASSUME TypeOK, NEW l \in Lines, NEW c \in 1 .. Width, NEW ch \in Chars,
           cursor = [line |-> l, col |-> c], Display!Execute(<<"data", ch>>)
    PROVE  /\ cursor' = [line |-> l, col |-> c + 1]
           /\ cells'[l][c] = ch
           /\ \A k \in Lines, x \in 1 .. Width :
                k # l \/ x # c => cells'[k][x] = cells[k][x]
<1>1. Display!Write(ch)
  BY DEF Display!Execute
<1>2. /\ cells' = [cells EXCEPT ![l] = [cells[l] EXCEPT ![c] = ch]]
      /\ cursor' = [cursor EXCEPT !.col = c + 1]
  BY <1>1, LcdAssumption DEF Display!Write
<1>3. cells \in [Lines -> [1 .. Width -> Chars]]
  BY DEF TypeOK
<1> QED BY <1>2, <1>3

\* The character that comes next is written where it belongs.
LEMMA CharacterWritten ==
    ASSUME TypeOK, NEW t \in Seq(Chars) \X Seq(Chars), Fits(t),
           NEW l \in Lines, NEW c \in 1 .. Len(t[l]),
           cursor = [line |-> l, col |-> c], WrittenTo(t[l], l, c),
           Display!Execute(<<"data", t[l][c]>>)
    PROVE  /\ cursor' = [line |-> l, col |-> c + 1]
           /\ WrittenTo(t[l], l, c + 1)'
           /\ \A k \in Lines : k # l /\ WrittenTo(t[k], k, Len(t[k]) + 1)
                                 => WrittenTo(t[k], k, Len(t[k]) + 1)'
           /\ BlankBeyond(t) => BlankBeyond(t)'
<1>1. /\ c \in 1 .. Width /\ t[l][c] \in Chars /\ t[l] \in Seq(Chars)
      /\ Len(t[l]) \in Nat /\ Width \in Nat
  BY LcdAssumption DEF Fits, Lines, Display!Lines
<1>2. /\ cursor' = [line |-> l, col |-> c + 1]
      /\ cells'[l][c] = t[l][c]
      /\ \A k \in Lines, x \in 1 .. Width :
           k # l \/ x # c => cells'[k][x] = cells[k][x]
  BY <1>1, DataExecuted
<1>3. WrittenTo(t[l], l, c + 1)'
  BY <1>1, <1>2 DEF WrittenTo
<1>4. \A k \in Lines : k # l /\ WrittenTo(t[k], k, Len(t[k]) + 1)
                         => WrittenTo(t[k], k, Len(t[k]) + 1)'
  BY <1>2 DEF WrittenTo
<1>5. BlankBeyond(t) => BlankBeyond(t)'
  BY <1>1, <1>2 DEF BlankBeyond
<1> QED BY <1>2, <1>3, <1>4, <1>5

LEMMA NonEmptyConcat ==
    ASSUME NEW S, NEW s \in Seq(S), NEW t \in Seq(S), t # <<>>
    PROVE  s \o t # <<>>
<1> QED OBVIOUS

\* Of the first line, its cursor command and its characters, and the cursor
\* command of the second.
LEMMA FirstLineStep ==
    ASSUME TypeOK, NEW t \in Seq(Chars) \X Seq(Chars), Fits(t),
           NEW tail \in Seq(Display!Instr),
           Rest = Lines_Write(t) \o tail \/ FirstLine(t, tail),
           Display!Execute(Head(Rest)), Rest' = Tail(Rest)
    PROVE  /\ FirstLine(t, tail)' \/ SecondLine(t, tail)'
           /\ BlankBeyond(t) => BlankBeyond(t)'
<1> DEFINE second == lcd_set_cursor(2) \o (lcd_put_string(t[2]) \o tail)
<1>1. /\ t[1] \in Seq(Chars) /\ t[2] \in Seq(Chars)
      /\ Len(t[1]) \in Nat /\ Len(t[2]) \in Nat
      /\ 1 \in 1 .. Len(t[1]) + 1 /\ 1 \in 1 .. Len(t[2]) + 1
      /\ 1 \in Lines /\ 2 \in Lines
  BY DEF Lines, Display!Lines
<1>2. /\ lcd_put_string(t[2]) \o tail \in Seq(Display!Instr)
      /\ second \in Seq(Display!Instr)
  <2>1. lcd_put_string(t[2]) \in Seq(Display!Instr)
    BY <1>1, StringProgram
  <2>2. lcd_set_cursor(2) \in Seq(Display!Instr)
    BY <1>1, CursorProgram
  <2>3. lcd_put_string(t[2]) \o tail \in Seq(Display!Instr)
    BY <2>1
  <2> QED BY <2>2, <2>3
<1>3. /\ Head(second) = <<"cursor", 2>>
      /\ Tail(second) = lcd_put_string(t[2]) \o tail
  BY <1>1, <1>2, CursorForm
<1>4. CASE Rest = Lines_Write(t) \o tail
  <2>1. Head(Rest) = <<"cursor", 1>> /\ Rest' = From(t[1], 1) \o second
    BY <1>4, LinesForm
  <2>2. cells' = cells /\ cursor' = [line |-> 1, col |-> 1]
    BY <1>1, <2>1, CursorExecuted
  <2>3. WrittenTo(t[1], 1, 1)'
    BY LcdAssumption DEF WrittenTo
  <2>4. FirstLine(t, tail)'
    BY <1>1, <2>1, <2>2, <2>3 DEF FirstLine
  <2>5. BlankBeyond(t) => BlankBeyond(t)'
    BY <2>2 DEF BlankBeyond
  <2> QED BY <2>4, <2>5
<1>5. CASE FirstLine(t, tail)
  <2>1. PICK c \in 1 .. Len(t[1]) + 1 :
          /\ Rest = From(t[1], c) \o second
          /\ cursor = [line |-> 1, col |-> c]
          /\ WrittenTo(t[1], 1, c)
    BY <1>5 DEF FirstLine
  <2> HIDE DEF second
  <2>2. CASE c = Len(t[1]) + 1
    <3>1. Rest = second
      BY <1>1, <1>2, <2>1, <2>2, FromString, ConcatEmptySeq
    <3>2. cells' = cells /\ cursor' = [line |-> 2, col |-> 1]
      BY <1>1, <1>3, <3>1, CursorExecuted
    <3>3. From(t[2], 1) = lcd_put_string(t[2])
      BY <1>1, FromString
    <3>4. Rest' = From(t[2], 1) \o tail
      BY <1>3, <3>1, <3>3
    <3>5. WrittenTo(t[2], 2, 1)' /\ WrittenTo(t[1], 1, Len(t[1]) + 1)'
      BY <2>1, <2>2, <3>2, LcdAssumption DEF WrittenTo
    <3>6. SecondLine(t, tail)'
      BY <1>1, <3>2, <3>4, <3>5 DEF SecondLine
    <3>7. BlankBeyond(t) => BlankBeyond(t)'
      BY <3>2 DEF BlankBeyond
    <3> QED BY <3>6, <3>7
  <2>3. CASE c # Len(t[1]) + 1
    <3>1. /\ From(t[1], c) \in Seq(Display!Instr) /\ From(t[1], c) # <<>>
          /\ c \in 1 .. Len(t[1])
          /\ Head(From(t[1], c)) = <<"data", t[1][c]>>
          /\ Tail(From(t[1], c)) = From(t[1], c + 1)
      BY <1>1, <2>3, FromString
    <3>2. Head(Rest) = <<"data", t[1][c]>> /\ Rest' = From(t[1], c + 1) \o second
      BY <1>2, <2>1, <3>1, FirstOfConcat
    <3>3. /\ cursor' = [line |-> 1, col |-> c + 1]
          /\ WrittenTo(t[1], 1, c + 1)'
          /\ BlankBeyond(t) => BlankBeyond(t)'
      BY <1>1, <2>1, <3>1, <3>2, CharacterWritten
    <3>4. c + 1 \in 1 .. Len(t[1]) + 1
      BY <1>1, <3>1
    <3>5. FirstLine(t, tail)'
      BY <3>2, <3>3, <3>4 DEF FirstLine, second
    <3> QED BY <3>3, <3>5
  <2> QED BY <2>2, <2>3
<1> QED BY <1>4, <1>5

\* Of the second line, its characters; at its end the text is drawn.
LEMMA SecondLineStep ==
    ASSUME TypeOK, NEW t \in Seq(Chars) \X Seq(Chars), Fits(t),
           NEW tail \in Seq(Display!Instr), SecondLine(t, tail)
    PROVE  \/ Rest = tail /\ Drawn(t)
           \/ /\ Rest # <<>>
              /\ Display!Execute(Head(Rest)) /\ Rest' = Tail(Rest) =>
                   /\ SecondLine(t, tail)'
                   /\ BlankBeyond(t) => BlankBeyond(t)'
<1>1. /\ t[2] \in Seq(Chars) /\ Len(t[2]) \in Nat
      /\ Lines = {1, 2}
  BY DEF Lines, Display!Lines
<1>2. PICK c \in 1 .. Len(t[2]) + 1 :
        /\ Rest = From(t[2], c) \o tail
        /\ cursor = [line |-> 2, col |-> c]
        /\ WrittenTo(t[1], 1, Len(t[1]) + 1)
        /\ WrittenTo(t[2], 2, c)
  BY DEF SecondLine
<1>3. CASE c = Len(t[2]) + 1
  <2>1. Rest = tail
    BY <1>1, <1>2, <1>3, FromString, ConcatEmptySeq
  <2>2. Drawn(t)
    BY <1>1, <1>2, <1>3 DEF Drawn
  <2> QED BY <2>1, <2>2
<1>4. CASE c # Len(t[2]) + 1
  <2>1. /\ From(t[2], c) \in Seq(Display!Instr) /\ From(t[2], c) # <<>>
        /\ c \in 1 .. Len(t[2])
        /\ Head(From(t[2], c)) = <<"data", t[2][c]>>
        /\ Tail(From(t[2], c)) = From(t[2], c + 1)
    BY <1>1, <1>4, FromString
  <2>2. /\ Rest # <<>>
        /\ Head(Rest) = <<"data", t[2][c]>>
        /\ Tail(Rest) = From(t[2], c + 1) \o tail
    BY <1>2, <2>1, FirstOfConcat
  <2>3. ASSUME Display!Execute(Head(Rest)), Rest' = Tail(Rest)
        PROVE  SecondLine(t, tail)' /\ (BlankBeyond(t) => BlankBeyond(t)')
    <3>1. /\ cursor' = [line |-> 2, col |-> c + 1]
          /\ WrittenTo(t[2], 2, c + 1)'
          /\ WrittenTo(t[1], 1, Len(t[1]) + 1)'
          /\ BlankBeyond(t) => BlankBeyond(t)'
      <4>1. Display!Execute(<<"data", t[2][c]>>)
        BY <2>2, <2>3
      <4>2. 2 \in Lines /\ 1 \in Lines /\ 1 # 2
        BY <1>1
      <4>3. /\ cursor' = [line |-> 2, col |-> c + 1]
            /\ WrittenTo(t[2], 2, c + 1)'
            /\ \A k \in Lines : k # 2 /\ WrittenTo(t[k], k, Len(t[k]) + 1)
                                  => WrittenTo(t[k], k, Len(t[k]) + 1)'
            /\ BlankBeyond(t) => BlankBeyond(t)'
        BY <1>2, <2>1, <4>1, <4>2, CharacterWritten
      <4> QED BY <1>2, <4>2, <4>3
    <3>2. c + 1 \in 1 .. Len(t[2]) + 1
      BY <1>1, <2>1
    <3> QED BY <2>2, <2>3, <3>1, <3>2 DEF SecondLine
  <2> QED BY <2>2, <2>3
<1> QED BY <1>3, <1>4

\* A text that is not written to its end has instructions left.
LEMMA DrawingLeft ==
    ASSUME NEW t \in Seq(Chars) \X Seq(Chars), NEW tail \in Seq(Display!Instr),
           Rest = Lines_Write(t) \o tail \/ FirstLine(t, tail)
    PROVE  Rest # <<>>
<1>1. CASE Rest = Lines_Write(t) \o tail
  BY <1>1, LinesForm
<1>2. CASE FirstLine(t, tail)
  <2>1. PICK c \in 1 .. Len(t[1]) + 1 :
          Rest = From(t[1], c) \o (lcd_set_cursor(2) \o (lcd_put_string(t[2]) \o tail))
    BY <1>2 DEF FirstLine
  <2> DEFINE second == lcd_set_cursor(2) \o (lcd_put_string(t[2]) \o tail)
  <2>2. t[1] \in Seq(Chars) /\ t[2] \in Seq(Chars) /\ 2 \in Lines
    BY DEF Lines, Display!Lines
  <2>3. lcd_put_string(t[2]) \o tail \in Seq(Display!Instr)
    <3>1. lcd_put_string(t[2]) \in Seq(Display!Instr)
      BY <2>2, StringProgram
    <3> QED BY <3>1
  <2>4. second # <<>>
    BY <2>2, <2>3, CursorForm
  <2>5. second \in Seq(Display!Instr)
    <3>1. lcd_set_cursor(2) \in Seq(Display!Instr)
      BY <2>2, CursorProgram
    <3> QED BY <3>1, <2>3
  <2>6. From(t[1], c) \in Seq(Display!Instr)
    BY <2>2, FromString
  <2> HIDE DEF second
  <2>7. From(t[1], c) \o second # <<>>
    BY <2>4, <2>5, <2>6, NonEmptyConcat
  <2> QED BY <2>1, <2>7 DEF second
<1> QED BY <1>1, <1>2

\* The set-up begins with instructions that change nothing, then clears.
LEMMA SetupForm ==
    /\ AfterSetup \in Seq(Display!Instr)
    /\ \A k \in 0 .. 7 :
         /\ Setup(k) # <<>>
         /\ Setup(k) \in Seq(Display!Instr)
         /\ k # 0 => Head(Setup(k)) = <<"setup">> /\ Tail(Setup(k)) = Setup(k - 1)
    /\ Head(Setup(0)) = <<"clear">> /\ Tail(Setup(0)) = <<<<"setup">>>> \o AfterSetup
    /\ <<<<"setup">>>> \o AfterSetup # <<>>
    /\ Head(<<<<"setup">>>> \o AfterSetup) = <<"setup">>
    /\ Tail(<<<<"setup">>>> \o AfterSetup) = AfterSetup
<1> DEFINE S   == Display!Instr
           su  == <<"setup">>
           one == <<su>>
           two == <<<<"clear">>, su>>
           end == two \o AfterSetup
           m(k) == [n \in 1 .. k |-> su]
<1>1. su \in S /\ <<"clear">> \in S
  BY DEF Display!Instr
<1>2. AfterSetup \in Seq(S)
  <2>1. Lines_Write(Welcome) \in Seq(S)
    BY LinesProgram, LcdAssumption
  <2>2. lcd_set_cursor(1) \in Seq(S)
    BY CursorProgram DEF Lines, Display!Lines
  <2> QED BY <2>1, <2>2 DEF AfterSetup
<1>3. /\ one \in Seq(S) /\ one # <<>> /\ Head(one) = su /\ Tail(one) = <<>>
      /\ two \in Seq(S) /\ two # <<>> /\ Head(two) = <<"clear">> /\ Tail(two) = one
  BY <1>1
<1>4. \A k \in 0 .. 7 :
        /\ m(k) \in Seq(S)
        /\ k # 0 => m(k) # <<>> /\ Head(m(k)) = su /\ Tail(m(k)) = m(k - 1)
  <2> TAKE k \in 0 .. 7
  <2>1. m(k) \in Seq(S)
    BY <1>1
  <2>2. k # 0 => m(k) # <<>> /\ Head(m(k)) = su /\ Tail(m(k)) = m(k - 1)
    BY <1>1
  <2> QED BY <2>1, <2>2
<1>5. m(0) = <<>>
  OBVIOUS
<1> HIDE DEF su, one, two, m, S
<1>6. end \in Seq(S) /\ end # <<>> /\ Head(end) = <<"clear">> /\ Tail(end) = one \o AfterSetup
  <2>1. end \in Seq(S)
    BY <1>2, <1>3
  <2>2. end # <<>> /\ Head(end) = Head(two) /\ Tail(end) = Tail(two) \o AfterSetup
    BY <1>2, <1>3, FirstOfConcat
  <2> QED BY <1>3, <2>1, <2>2
<1> HIDE DEF end
<1>7. \A k \in 0 .. 7 : Setup(k) = m(k) \o end
  BY DEF Setup, end, two, m, su
<1>8. ASSUME NEW k \in 0 .. 7
      PROVE  /\ Setup(k) # <<>> /\ Setup(k) \in Seq(S)
             /\ k # 0 => Head(Setup(k)) = su /\ Tail(Setup(k)) = Setup(k - 1)
  <2>1. Setup(k) = m(k) \o end /\ m(k) \in Seq(S)
    BY <1>4, <1>7
  <2>2. Setup(k) # <<>> /\ Setup(k) \in Seq(S)
    BY <1>6, <2>1, NonEmptyConcat
  <2>3. ASSUME k # 0
        PROVE  Head(Setup(k)) = su /\ Tail(Setup(k)) = Setup(k - 1)
    <3>1. m(k) # <<>> /\ Head(m(k)) = su /\ Tail(m(k)) = m(k - 1)
      BY <1>4, <2>3
    <3>2. Head(m(k) \o end) = Head(m(k)) /\ Tail(m(k) \o end) = Tail(m(k)) \o end
      BY <1>6, <2>1, <3>1, FirstOfConcat
    <3>3. k - 1 \in 0 .. 7
      BY <2>3
    <3>4. Setup(k - 1) = m(k - 1) \o end
      BY <1>7, <3>3
    <3> QED BY <2>1, <3>1, <3>2, <3>4
  <2> QED BY <2>2, <2>3
<1>9. Setup(0) = end
  <2>1. <<>> \o end = end
    BY <1>6, ConcatEmptySeq
  <2>2. Setup(0) = m(0) \o end
    BY <1>7
  <2> QED BY <1>5, <2>1, <2>2
<1>10. one \o AfterSetup # <<>> /\ Head(one \o AfterSetup) = su
       /\ Tail(one \o AfterSetup) = AfterSetup
  <2>1. <<>> \o AfterSetup = AfterSetup
    BY <1>2, ConcatEmptySeq
  <2>2. one \o AfterSetup # <<>> /\ Head(one \o AfterSetup) = Head(one)
        /\ Tail(one \o AfterSetup) = Tail(one) \o AfterSetup
    BY <1>2, <1>3, FirstOfConcat
  <2> QED BY <1>3, <2>1, <2>2
<1> QED BY <1>2, <1>6, <1>8, <1>9, <1>10 DEF one, su, S

LEMMA SettingStep ==
    ASSUME TypeOK, Setting, shown = Welcome, Display!Execute(Head(Rest)),
           Rest' = Tail(Rest), shown' = shown
    PROVE  /\ Rest # <<>>
           /\ \/ Setting'
              \/ BlankBeyond(shown)' /\ Drawing(shown, lcd_set_cursor(1))'
<1>1. ASSUME Display!Execute(<<"setup">>)
      PROVE  cells' = cells /\ cursor' = cursor
  BY <1>1 DEF Display!Execute
<1>2. ASSUME NEW k \in 0 .. 7, Rest = Setup(k)
      PROVE  Rest # <<>> /\ Setting'
  <2>1. Rest # <<>>
    BY <1>2, SetupForm
  <2>2. CASE k # 0
    <3>1. Rest' = Setup(k - 1)
      BY <1>2, <2>2, SetupForm
    <3>2. k - 1 \in 0 .. 7
      BY <2>2
    <3> QED BY <2>1, <3>1, <3>2 DEF Setting
  <2>3. CASE k = 0
    <3>1. Display!Execute(<<"clear">>) /\ Rest' = <<<<"setup">>>> \o AfterSetup
      BY <1>2, <2>3, SetupForm
    <3>2. cells' = Display!BlankCells
      BY <3>1 DEF Display!Execute
    <3>3. BlankBeyond(<< <<>>, <<>> >>)'
      BY <3>2 DEF BlankBeyond, Display!BlankCells, Lines
    <3> QED BY <2>1, <3>1, <3>3 DEF Setting
  <2> QED BY <2>2, <2>3
<1>3. ASSUME Rest = <<<<"setup">>>> \o AfterSetup, BlankBeyond(<< <<>>, <<>> >>)
      PROVE  /\ Rest # <<>>
             /\ BlankBeyond(shown)' /\ Drawing(shown, lcd_set_cursor(1))'
  <2>1. Rest # <<>> /\ Display!Execute(<<"setup">>) /\ Rest' = AfterSetup
    BY <1>3, SetupForm
  <2>2. cells' = cells
    BY <1>1, <2>1
  <2>3. \A l \in Lines, x \in 1 .. Width : cells[l][x] = Blank
    <3>1. \A l \in Lines : Len(<< <<>>, <<>> >>[l]) = 0
      BY DEF Lines, Display!Lines
    <3>2. \A l \in Lines : \A x \in 1 .. Width :
            x > Len(<< <<>>, <<>> >>[l]) => cells[l][x] = Blank
      BY <1>3, Zenon DEF BlankBeyond
    <3>3. \A x \in 1 .. Width : x > 0
      BY LcdAssumption
    <3> QED BY <3>1, <3>2, <3>3, Zenon
  <2>4. BlankBeyond(shown)'
    BY <2>2, <2>3 DEF BlankBeyond
  <2>5. Drawing(shown, lcd_set_cursor(1))'
    BY <2>1 DEF Drawing, AfterSetup
  <2> QED BY <2>1, <2>4, <2>5
<1> QED BY <1>2, <1>3 DEF Setting

\* Whatever the display executes, what is left brings the text about.
LEMMA ExecutionStep ==
    ASSUME TypeOK, Progress, Rest # <<>>,
           Display!Execute(Head(Rest)), Rest' = Tail(Rest), shown' = shown
    PROVE  Progress'
<1> DEFINE c1 == lcd_set_cursor(1)
<1>1. /\ shown \in Seq(Chars) \X Seq(Chars) /\ Fits(shown) /\ shown' \in AllTexts
      /\ <<>> \in Seq(Display!Instr) /\ Lines_Write(shown) \in Seq(Display!Instr)
  BY TextType, LinesProgram DEF Progress
<1>2. /\ c1 \in Seq(Display!Instr) /\ c1 # <<>>
      /\ Head(c1) = <<"cursor", 1>> /\ Tail(c1) = <<>> /\ 1 \in Lines
  <2>1. 1 \in Lines
    BY DEF Lines, Display!Lines
  <2> QED BY <2>1, CursorProgram DEF lcd_set_cursor
<1> HIDE DEF c1
<1>3. ASSUME Rest = c1, BlankBeyond(shown), Drawn(shown)
      PROVE  Progress'
  <2>1. cells' = cells /\ Rest' = <<>>
    BY <1>2, <1>3, CursorExecuted
  <2>2. BlankBeyond(shown)' /\ Drawn(shown)'
    BY <1>3, <2>1 DEF BlankBeyond, Drawn, WrittenTo
  <2> QED BY <1>1, <2>1, <2>2 DEF Progress
<1>4. ASSUME NEW tail \in {<<>>, c1}, Drawing(shown, tail), BlankBeyond(shown)
      PROVE  Progress'
  <2>1. tail \in Seq(Display!Instr)
    BY <1>1, <1>2, <1>4
  <2>2. CASE Rest = Lines_Write(shown) \o tail \/ FirstLine(shown, tail)
    <3>1. Drawing(shown, tail)' /\ BlankBeyond(shown)'
      BY <1>1, <1>4, <2>1, <2>2, FirstLineStep DEF Drawing
    <3> QED BY <1>1, <1>4, <3>1 DEF Progress, c1
  <2>3. CASE SecondLine(shown, tail)
    <3>1. CASE Rest = tail /\ Drawn(shown)
      BY <1>3, <1>4, <3>1
    <3>2. CASE SecondLine(shown, tail)' /\ BlankBeyond(shown)'
      <4>1. Drawing(shown, tail)'
        BY <3>2 DEF Drawing
      <4> QED BY <1>1, <1>4, <3>2, <4>1 DEF Progress, c1
    <3> QED BY <1>1, <1>4, <2>1, <2>3, <3>1, <3>2, SecondLineStep
  <2> QED BY <1>4, <2>2, <2>3 DEF Drawing
<1>5. ASSUME Drawing(Blanks, Lines_Write(shown))
      PROVE  Progress'
  <2>1. /\ Blanks \in Seq(Chars) \X Seq(Chars) /\ Fits(Blanks)
        /\ \A l \in Lines : Len(Blanks[l]) = Width
        /\ \A l \in Lines, x \in 1 .. Width : Blanks[l][x] = Blank
    BY BlanksType
  <2> HIDE DEF Blanks
  <2>2. CASE \/ Rest = Lines_Write(Blanks) \o Lines_Write(shown)
             \/ FirstLine(Blanks, Lines_Write(shown))
    <3>1. Drawing(Blanks, Lines_Write(shown))'
      BY <1>1, <2>1, <2>2, FirstLineStep DEF Drawing
    <3> QED BY <1>1, <3>1 DEF Progress
  <2>3. CASE SecondLine(Blanks, Lines_Write(shown))
    <3>1. CASE Rest = Lines_Write(shown) /\ Drawn(Blanks)
      <4>1. \A l \in Lines, x \in 1 .. Width : x < Width + 1
        BY LcdAssumption
      <4>2. \A l \in Lines, x \in 1 .. Width : cells[l][x] = Blank
        BY <2>1, <3>1, <4>1 DEF Drawn, WrittenTo
      <4>3. BlankBeyond(shown)
        BY <4>2 DEF BlankBeyond
      <4>4. Rest = Lines_Write(shown) \o <<>>
        BY <1>1, <3>1, ConcatEmptySeq
      <4>5. Drawing(shown, <<>>)' /\ BlankBeyond(shown)'
        BY <1>1, <4>3, <4>4, FirstLineStep DEF Drawing
      <4> QED BY <1>1, <4>5 DEF Progress
    <3>2. CASE SecondLine(Blanks, Lines_Write(shown))'
      <4>1. Drawing(Blanks, Lines_Write(shown))'
        BY <3>2 DEF Drawing
      <4> QED BY <1>1, <4>1 DEF Progress
    <3> QED BY <1>1, <2>1, <2>3, <3>1, <3>2, SecondLineStep
  <2> QED BY <1>5, <2>2, <2>3 DEF Drawing
<1>6. ASSUME Setting, shown = Welcome
      PROVE  Progress'
  BY <1>1, <1>6, SettingStep DEF Progress
<1> QED BY <1>3, <1>4, <1>5, <1>6 DEF Progress, c1

LEMMA SameProgress ==
    ASSUME Progress, Rest' = Rest, UNCHANGED <<cells, cursor, shown>>
    PROVE  Progress'
<1> QED BY DEF Progress, Setting, Drawing, FirstLine, SecondLine, BlankBeyond,
               Drawn, WrittenTo

\* When nothing is left the text has been drawn.
LEMMA NothingLeft ==
    ASSUME Progress, Rest = <<>>
    PROVE  BlankBeyond(shown) /\ Drawn(shown)
<1> DEFINE c1 == lcd_set_cursor(1)
<1>1. /\ shown \in Seq(Chars) \X Seq(Chars) /\ Fits(shown)
      /\ <<>> \in Seq(Display!Instr)
      /\ Lines_Write(shown) \in Seq(Display!Instr) /\ Lines_Write(shown) # <<>>
  BY TextType, LinesProgram DEF Progress
<1>2. c1 \in Seq(Display!Instr) /\ c1 # <<>>
  <2>1. 1 \in Lines
    BY DEF Lines, Display!Lines
  <2> QED BY <2>1, CursorProgram DEF lcd_set_cursor
<1> HIDE DEF c1
<1>3. ~Setting
  BY SetupForm DEF Setting
<1>4. ASSUME NEW t \in Seq(Chars) \X Seq(Chars), NEW tail \in Seq(Display!Instr),
             Drawing(t, tail)
      PROVE  tail = <<>> /\ Drawn(t)
  <2>1. SecondLine(t, tail)
    BY <1>4, DrawingLeft DEF Drawing
  <2>2. PICK c \in 1 .. Len(t[2]) + 1 :
          /\ Rest = From(t[2], c) \o tail
          /\ WrittenTo(t[1], 1, Len(t[1]) + 1)
          /\ WrittenTo(t[2], 2, c)
    BY <2>1 DEF SecondLine
  <2>3. t[2] \in Seq(Chars) /\ From(t[2], c) \in Seq(Display!Instr)
    BY FromString
  <2>4. From(t[2], c) = <<>> /\ tail = <<>>
    BY <2>2, <2>3, FirstOfConcat, NonEmptyConcat
  <2>5. c = Len(t[2]) + 1
    BY <2>3, <2>4, FromString
  <2> QED BY <2>2, <2>4, <2>5 DEF Drawn, Lines, Display!Lines
<1>5. ~Drawing(Blanks, Lines_Write(shown))
  BY <1>1, <1>4, BlanksType
<1>6. ~Drawing(shown, c1)
  BY <1>1, <1>2, <1>4
<1> QED BY <1>1, <1>2, <1>3, <1>4, <1>5, <1>6 DEF Progress, c1
----------------------------------------------------------------------------
LEMMA InitProgress == Init => Progress
<1> SUFFICES ASSUME Init PROVE Progress
  OBVIOUS
<1>1. shown = Welcome /\ shown \in AllTexts
  BY DEF Init, AllTexts
<1>2. Rest = lcd_init \o Lines_Write(Welcome) \o lcd_set_cursor(1)
  BY DEF Init, Rest, Executed
<1>3. Rest = Setup(7)
  <2> DEFINE S  == Display!Instr
             a  == [n \in 1 .. 7 |-> <<"setup">>]
             b  == <<<<"clear">>, <<"setup">>>>
             w  == Lines_Write(Welcome)
             c1 == lcd_set_cursor(1)
  <2>1. a \in Seq(S) /\ b \in Seq(S)
    <3>1. <<"setup">> \in S /\ <<"clear">> \in S
      BY DEF Display!Instr
    <3>2. a \in Seq(S)
      BY <3>1
    <3> QED BY <3>1, <3>2
  <2>2. w \in Seq(S)
    BY LinesProgram, LcdAssumption
  <2>3. c1 \in Seq(S)
    BY CursorProgram DEF Lines, Display!Lines
  <2>4. lcd_init = a \o b /\ AfterSetup = w \o c1
    BY DEF lcd_init, AfterSetup
  <2>5. Setup(7) = a \o (b \o AfterSetup)
    BY DEF Setup
  <2> DEFINE wc == w \o c1
             ab == a \o b
  <2> HIDE DEF S, a, b, w, c1
  <2>6. wc \in Seq(S) /\ ab \in Seq(S)
    BY <2>1, <2>2, <2>3
  <2> HIDE DEF wc, ab
  <2>7. ab \o w \o c1 = ab \o (w \o c1)
    BY <2>2, <2>3, <2>6
  <2>8. a \o b \o wc = a \o (b \o wc)
    BY <2>1, <2>6
  <2> QED BY <1>2, <2>4, <2>5, <2>7, <2>8 DEF ab, wc, w, c1
<1>4. 7 \in 0 .. 7
  OBVIOUS
<1> QED BY <1>1, <1>3, <1>4 DEF Progress, Setting

LEMMA StepProgress ==
    ASSUME IInv, Progress, [Next]_vars
    PROVE  Progress'
<1>1. CASE UNCHANGED vars
  <2>1. Rest' = Rest /\ UNCHANGED <<cells, cursor, shown>>
    BY <1>1 DEF vars, cpuVars, Rest, Executed
  <2> QED BY <2>1, SameProgress
<1>2. CASE Redraw
  <2>1. PICK t \in Texts \cup {SaveText} : prog' = Menu_Display(t) /\ shown' = t
    BY <1>2 DEF Redraw
  <2>2. Rest' = Lines_Write(Blanks) \o Lines_Write(shown')
    BY <1>2, <2>1 DEF Redraw, Rest, Executed, Menu_Display, Blanks
  <2>3. shown' \in AllTexts
    BY <2>1 DEF AllTexts
  <2> QED BY <2>2, <2>3 DEF Progress, Drawing
<1>3. CASE Overlay
  <2>1. /\ Rest = <<>> /\ shown \in {SaveText, SaveOverlay}
        /\ shown' = SaveOverlay /\ UNCHANGED <<cells, cursor>>
        /\ Rest' = Lines_Write(SaveOverlay)
    BY <1>3 DEF Overlay, Rest, Executed
  <2>2. BlankBeyond(shown) /\ Drawn(shown)
    BY <2>1, NothingLeft
  <2>3. SaveOverlay \in AllTexts
    BY DEF AllTexts
  <2>4. Rest' = Lines_Write(SaveOverlay) \o <<>>
    <3>1. Lines_Write(SaveOverlay) \in Seq(Display!Instr)
      BY <2>3, TextType, LinesProgram
    <3> QED BY <2>1, <3>1, ConcatEmptySeq
  <2>5. BlankBeyond(SaveOverlay)
    <3>1. \A l \in Lines : /\ Len(shown[l]) \in Nat /\ Len(SaveOverlay[l]) \in Nat
                           /\ Len(shown[l]) <= Len(SaveOverlay[l])
      <4>1. /\ SaveText \in Seq(Chars) \X Seq(Chars)
            /\ SaveOverlay \in Seq(Chars) \X Seq(Chars)
            /\ \A l \in {1, 2} : Len(SaveText[l]) <= Len(SaveOverlay[l])
        BY LcdAssumption
      <4> QED BY <2>1, <4>1 DEF Lines, Display!Lines
    <3>2. Width \in Nat
      BY LcdAssumption
    <3> QED BY <2>2, <3>1, <3>2 DEF BlankBeyond
  <2>6. BlankBeyond(SaveOverlay)'
    BY <2>1, <2>5 DEF BlankBeyond
  <2>7. Drawing(SaveOverlay, <<>>)'
    BY <2>4 DEF Drawing
  <2> QED BY <2>1, <2>3, <2>6, <2>7 DEF Progress
<1>4. CASE DRV_I2C0_MasterStart
  <2>1. Head(prog) # Display!NoInstr
    <3>1. Head(prog) \in Display!Instr
      BY <1>4, FirstInstr DEF IInv, DRV_I2C0_MasterStart
    <3> QED BY <3>1, InstrForms DEF Display!NoInstr
  <2>2. Rest' = Rest /\ UNCHANGED <<cells, cursor, shown>>
    BY <1>4, <2>1 DEF DRV_I2C0_MasterStart, Rest, Executed
  <2> QED BY <2>2, SameProgress
<1>5. CASE StopDelay
  <2>1. prog # <<>> /\ asked = Display!NoInstr
    BY <1>5 DEF StopDelay, IInv, TypeOK, InStop, Ping
  <2>2. Rest' = Rest /\ UNCHANGED <<cells, cursor, shown>>
    BY <1>5, <2>1 DEF StopDelay, Rest, Executed
  <2> QED BY <2>2, SameProgress
<1>6. CASE \/ StartDelay \/ DRV_I2C0_ByteWrite
           \/ DRV_I2C0_WaitForByteWriteToComplete \/ DRV_I2C0_MasterStop
  <2>1. Rest' = Rest /\ UNCHANGED <<cells, cursor, shown>>
    BY <1>6 DEF StartDelay, DRV_I2C0_ByteWrite,
                DRV_I2C0_WaitForByteWriteToComplete, DRV_I2C0_MasterStop,
                Rest, Executed
  <2> QED BY <2>1, SameProgress
<1>7. CASE LCD_Ping \/ Pinging
  <2>1. prog = <<>>
    BY <1>7 DEF LCD_Ping, Pinging, Ping_Byte, Ping_Stop, IInv, Outside, Ping
  <2>2. Rest' = Rest /\ UNCHANGED <<cells, cursor, shown>>
    BY <1>7, <2>1 DEF LCD_Ping, Pinging, Ping_Byte, Ping_Stop, Rest, Executed
  <2> QED BY <2>2, SameProgress
<1>8. CASE StartDone \/ StopDone
  <2>1. Rest' = Rest /\ UNCHANGED <<cells, cursor, shown>>
    BY <1>8 DEF StartDone, StopDone, cpuVars, Rest, Executed
  <2> QED BY <2>1, SameProgress
<1>9. CASE ByteDone
  <2>1. UNCHANGED <<prog, pc, sent, shown>>
    BY <1>9 DEF ByteDone, cpuVars
  <2>2. CASE UNCHANGED <<cells, cursor, asked>>
    <3>1. Rest' = Rest
      BY <2>1, <2>2 DEF Rest, Executed
    <3> QED BY <2>1, <2>2, <3>1, SameProgress
  <2>3. CASE /\ asked \in Display!Instr
             /\ Display!Execute(asked) /\ asked' = Display!NoInstr
             /\ pc \notin {"idle"} \cup Ping
    <3>1. pc = "wait" /\ asked = Head(prog)
      BY <1>9, <2>3 DEF ByteDone, IInv, TypeOK, InStart, InByte, InWait, InStop
    <3>2. prog # <<>>
      BY <3>1 DEF IInv, TypeOK, Ping
    <3>3. asked # Display!NoInstr
      BY <2>3, InstrForms DEF Display!NoInstr
    <3>4. Rest = prog /\ Rest' = Tail(prog)
      BY <2>1, <2>3, <3>1, <3>2, <3>3 DEF Rest, Executed
    <3> QED BY <2>1, <2>3, <3>1, <3>2, <3>4, ExecutionStep DEF IInv
  <2> QED BY <1>9, <2>2, <2>3, PingByteDone, InstrByteDone
<1> QED BY <1>1, <1>2, <1>3, <1>4, <1>5, <1>6, <1>7, <1>8, <1>9
        DEF Next, SendRaw, I2cModule

\* When a redraw has returned the display shows its text and nothing else,
\* whatever was on it before: LCD.c writes a text over blanks, and
\* MENU_SAUVEGARDE over a text that is no longer.
THEOREM ScreenCorrect == Spec => []ScreenAsDrawn
<1>1. IInv /\ Progress /\ [Next]_vars => (IInv /\ Progress)'
  BY StepIInv, StepProgress
<1>2. IInv /\ Progress => ScreenAsDrawn
  <2> SUFFICES ASSUME TypeOK, Progress, prog = <<>>, NEW l \in Lines
               PROVE  Shows(shown, l)
    BY DEF ScreenAsDrawn, IInv
  <2>1. BlankBeyond(shown) /\ Drawn(shown)
    BY NothingLeft DEF Rest, Executed
  <2>2. /\ shown[l] \in Seq(Chars) /\ Len(shown[l]) \in Nat /\ Width \in Nat
    BY TextType, LcdAssumption DEF Progress, Lines, Display!Lines
  <2>3. \A x \in 1 .. Width :
          cells[l][x] = IF x <= Len(shown[l]) THEN shown[l][x] ELSE Blank
    BY <2>1, <2>2 DEF BlankBeyond, Drawn, WrittenTo
  <2>4. cells[l] \in [1 .. Width -> Chars]
    BY DEF TypeOK
  <2> QED BY <2>3, <2>4 DEF Shows
<1> QED BY <1>1, <1>2, InitIInv, InitProgress, PTL DEF Spec
=============================================================================
