----------------------------- MODULE NvmContract -----------------------------
(***************************************************************************)
(* What the flash driver promises to its clients: requests take effect one *)
(* after the other, in the order they were accepted.  While the first one  *)
(* is under way only the pages it touches may hold anything; when it       *)
(* completes, the whole flash is what the request makes of its contents of *)
(* the moment it began: nothing else on those pages is lost.               *)
(***************************************************************************)
EXTENDS Naturals, Sequences

CONSTANTS Rows, RowsPerPage

Row  == 0 .. Rows - 1
Page == 0 .. (Rows \div RowsPerPage) - 1
Erased  == 0        \* all bits set
Garbage == Rows + 1 \* two values programmed over each other

PageOf(r) == r \div RowsPerPage

\* Programming a row only clears bits.
Programmed(old, new) == IF old = Erased THEN new
                        ELSE IF new \in {Erased, old} THEN old
                        ELSE Garbage

\* A request: `kind` and the rows start .. start + n - 1.  The k-th row of its
\* data is k.
Target(q) == q.start .. q.start + q.n - 1
Datum(q, r) == r - q.start + 1

PagesOf(q) == {PageOf(r) : r \in Target(q)}

\* The flash after q, from the flash f before it.
Apply(q, f) ==
    [r \in Row |->
        IF r \notin Target(q) THEN f[r]
        ELSE CASE q.kind = "ERASE"       -> Erased
               [] q.kind = "WRITE"       -> Programmed(f[r], Datum(q, r))
               [] q.kind = "ERASE_WRITE" -> Datum(q, r)]

VARIABLES
    accepted,    \* the requests accepted and not completed, in order
    flash,
    base         \* the flash when the first of them began

vars == <<accepted, flash, base>>

Init == /\ accepted = <<>>
        /\ flash = [r \in Row |-> Erased]
        /\ base = flash

\* A step of the work on q.
Disturbed(q) == \A r \in Row : PageOf(r) \notin PagesOf(q) => flash'[r] = flash[r]

Accept == \E q \in [kind : {"WRITE", "ERASE", "ERASE_WRITE"},
                    start : Row, n : 1 .. Rows] :
    /\ Target(q) \subseteq Row
    /\ accepted' = Append(accepted, q)
    /\ IF accepted = <<>>
       THEN base' = flash /\ Disturbed(q)
       ELSE UNCHANGED <<flash, base>>

Work == /\ accepted # <<>>
        /\ Disturbed(Head(accepted))
        /\ UNCHANGED <<accepted, base>>

\* The first request is complete, the next one begins.
Complete == /\ accepted # <<>>
            /\ flash = Apply(Head(accepted), base)
            /\ accepted' = Tail(accepted)
            /\ base' = flash
            /\ IF Tail(accepted) = <<>>
               THEN UNCHANGED flash
               ELSE Disturbed(Head(Tail(accepted)))

Next == Accept \/ Work \/ Complete

Spec == Init /\ [][Next]_vars
=============================================================================
