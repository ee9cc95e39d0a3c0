---------------------------- MODULE LcdContract ----------------------------
(***************************************************************************)
(* What LCD.c relies on the display for: each instruction it is asked to   *)
(* execute is executed as a whole, once, before it is asked for the next.  *)
(***************************************************************************)
EXTENDS Naturals

CONSTANTS Width,    \* columns of the display
          Chars,    \* what a cell can hold
          Blank     \* the space, one of them

VARIABLES
    cells,     \* what the display shows
    cursor,    \* where the next character goes
    asked      \* the instruction not executed yet, or NoInstr

vars == <<cells, cursor, asked>>

Lines == {1, 2}
Instr == {<<"setup">>, <<"clear">>} \cup ({"cursor"} \X Lines) \cup ({"data"} \X Chars)
NoInstr == <<"none">>

BlankCells == [l \in Lines |-> [c \in 1 .. Width |-> Blank]]
At(line)   == [line |-> line, col |-> 1]

\* Beyond the last column nothing is seen.
Write(char) ==
    IF cursor.col <= Width
    THEN /\ cells' = [cells EXCEPT ![cursor.line][cursor.col] = char]
         /\ cursor' = [cursor EXCEPT !.col = @ + 1]
    ELSE UNCHANGED <<cells, cursor>>

Execute(i) ==
    CASE i[1] = "setup"  -> UNCHANGED <<cells, cursor>>
      [] i[1] = "clear"  -> cells' = BlankCells /\ cursor' = At(1)
      [] i[1] = "cursor" -> cursor' = At(i[2]) /\ UNCHANGED cells
      [] i[1] = "data"   -> Write(i[2])

\* At power-up the display holds anything.
Init == /\ cells \in [Lines -> [1 .. Width -> Chars]]
        /\ cursor = At(1)
        /\ asked = NoInstr

Ask == /\ asked = NoInstr
       /\ asked' \in Instr
       /\ UNCHANGED <<cells, cursor>>

Do == /\ asked # NoInstr
      /\ Execute(asked)
      /\ asked' = NoInstr

Next == Ask \/ Do

Spec == Init /\ [][Next]_vars
=============================================================================
