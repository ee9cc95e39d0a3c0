------------------------------ MODULE SpiJobs ------------------------------
(***************************************************************************)
(* What a client of the SPI driver may rely on: the jobs it was given a    *)
(* handle for are done one at a time, in the order they were added, each   *)
(* exactly once; a job puts its own data on the wire, in order, then as    *)
(* many dummies as its reception needs, and receives the answers to its    *)
(* own first symbols; and every job is done at last.                       *)
(*                                                                         *)
(* A job is what was asked: tx symbols to send, rx to receive.  On the     *)
(* wire a data symbol is its number, a dummy is 0; an answer is the number *)
(* of the symbol of the job it answers.                                    *)
(***************************************************************************)
EXTENDS Naturals, Sequences

CONSTANTS
    Handles,    \* the handles of jobs
    Requests    \* the <<tx, rx>> numbers of symbols of jobs

VARIABLES
    jobs,       \* the jobs not done yet, in the order they were added
    done        \* the job the client is being told of, with what was sent
                \* and received

NoJob == [id |-> 0, sent |-> <<>>, got |-> <<>>]

Symbols(j) == IF j.tx > j.rx THEN j.tx ELSE j.rx

Outcome(j) ==
    [id   |-> j.id,
     sent |-> [n \in 1 .. Symbols(j) |-> IF n <= j.tx THEN n ELSE 0],
     got  |-> [n \in 1 .. j.rx |-> n]]

Init == jobs = <<>> /\ done = NoJob

Add(h, r) == /\ \A n \in DOMAIN jobs : jobs[n].id # h
             /\ jobs' = Append(jobs, [id |-> h, tx |-> r[1], rx |-> r[2]])
             /\ UNCHANGED done

Finish == /\ jobs # <<>>
          /\ done = NoJob
          /\ jobs' = Tail(jobs)
          /\ done' = Outcome(Head(jobs))

Told == /\ done # NoJob
        /\ done' = NoJob
        /\ UNCHANGED jobs

Next == (\E h \in Handles, r \in Requests : Add(h, r)) \/ Finish \/ Told

\* Without and with the promise that every job is done at last.
SafeSpec == Init /\ [][Next]_<<jobs, done>>

Spec == SafeSpec /\ WF_<<jobs, done>>(Finish \/ Told)
=============================================================================
