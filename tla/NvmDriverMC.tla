----------------------------- MODULE NvmDriverMC -----------------------------
(***************************************************************************)
(* The flash driver on a media of two pages of two rows.  The requests     *)
(* overlap: a write and an erase of all of it, an erase-write across the   *)
(* two pages; the other write goes beyond the media.                       *)
(***************************************************************************)
EXTENDS NvmDriver

Req(kind, block, n) == [kind |-> kind, block |-> block, n |-> n]

MCRequests == {Req("WRITE", 1, 2), Req("WRITE", 3, 2), Req("ERASE", 0, 2),
               Req("ERASE_WRITE", 1, 2)}
=============================================================================
