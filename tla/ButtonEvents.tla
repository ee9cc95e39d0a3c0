---------------------------- MODULE ButtonEvents ----------------------------
(***************************************************************************)
(* What the button module promises to Menu_Task, with the debouncer        *)
(* hidden: a set of button events waiting to be collected.  The tick       *)
(* interrupt adds events, a scan moves waiting events one button at a time *)
(* into the mask it returns.  GestBtn implements this specification.       *)
(***************************************************************************)
CONSTANT Buttons

VARIABLES
    pending,   \* buttons with an event noted and not collected yet
    mask       \* the result being built by the current (or last) scan

vars == <<pending, mask>>

TypeOK == pending \in SUBSET Buttons /\ mask \in SUBSET Buttons

Init == pending = {} /\ mask = {}

\* The tick notes events; one that is already waiting absorbs the new one.
Post == /\ \E S \in SUBSET Buttons : pending' = pending \cup S
        /\ UNCHANGED mask

BeginScan == mask' = {} /\ UNCHANGED pending

\* Collect b.  A tick that lands inside the collection may add events of the
\* other buttons; an event of b itself that arrives then is absorbed.
Take(b) == /\ b \in pending \ mask
           /\ mask' = mask \cup {b}
           /\ \E S \in SUBSET Buttons : pending' = (pending \cup S) \ {b}

Next == Post \/ BeginScan \/ \E b \in Buttons : Take(b)

Spec == Init /\ [][Next]_vars
=============================================================================
