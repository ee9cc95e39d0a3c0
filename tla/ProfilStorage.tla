---------------------------- MODULE ProfilStorage ----------------------------
(***************************************************************************)
(* ProfilStorage.c on the flash driver: the profiles in RAM, their page of *)
(* flash, and the requests the driver has accepted for it.  Reads are done *)
(* at once, erases and writes when DRV_NVM_Tasks gets to them; a request   *)
(* that goes beyond the media is refused without a word (NvmDriver has the *)
(* driver in detail).                                                      *)
(*                                                                         *)
(* History variable: `saved` has the last value saved in each slot.        *)
(***************************************************************************)
EXTENDS Naturals, Sequences

CONSTANTS
    NB_PROFILS,          \* slots (4)
    Settings,            \* the settings a profile can hold
    NVM_ADDR_PROFILS,    \* the block number every call passes (0xBD1FC000)
    ProfilsSize,         \* sizeof(profils), passed as a number of blocks (16)
    EraseCount,          \* PAGE_SIZE / ROW_SIZE (8)
    ReadBlocks, WriteBlocks, EraseBlocks    \* numBlocks of NVMGeometryTable

VARIABLES profils, flash, queue, saved

vars == <<profils, flash, queue, saved>>

Slots == 0 .. NB_PROFILS - 1
Blank == "blank"      \* no valid profile: zeroed RAM or erased flash

Init == /\ profils = [i \in Slots |-> Blank]
        /\ flash = [i \in Slots |-> Blank]
        /\ queue = <<>>
        /\ saved = [i \in Slots |-> Blank]

\* The validation of DRV_NVM_Read, DRV_NVM_Write and DRV_NVM_Erase.
Fits(block, n, numBlocks) == block + n <= numBlocks

\* What a load leaves in RAM.
Loaded == IF Fits(NVM_ADDR_PROFILS, ProfilsSize, ReadBlocks)
          THEN flash ELSE profils

\* The requests of a save that the driver takes.
Enqueued ==
    (IF Fits(NVM_ADDR_PROFILS, EraseCount, EraseBlocks)
     THEN <<"ERASE">> ELSE <<>>) \o
    (IF Fits(NVM_ADDR_PROFILS, ProfilsSize, WriteBlocks)
     THEN <<"WRITE">> ELSE <<>>)

Profils_LoadFromNVM == /\ profils' = Loaded
                       /\ UNCHANGED <<flash, queue, saved>>

\* Load, change slot i, erase the page, write the whole array.
Profils_SaveToNVM(i, s) == /\ profils' = [Loaded EXCEPT ![i] = s]
                           /\ queue' = queue \o Enqueued
                           /\ saved' = [saved EXCEPT ![i] = s]
                           /\ UNCHANGED flash

\* The head request takes effect; a write takes its data from the RAM of then.
DRV_NVM_Tasks == /\ queue # <<>>
                 /\ flash' = IF Head(queue) = "WRITE" THEN profils
                             ELSE [i \in Slots |-> Blank]
                 /\ queue' = Tail(queue)
                 /\ UNCHANGED <<profils, saved>>

Next == \/ Profils_LoadFromNVM
        \/ \E i \in Slots, s \in Settings : Profils_SaveToNVM(i, s)
        \/ DRV_NVM_Tasks

Spec == Init /\ [][Next]_vars
----------------------------------------------------------------------------
\* The documentation of Profils_SaveToNVM (ProfilStorage.c lines 48 to 53):
\* the profile is saved in the NVM, by erasing its page and writing the whole
\* array.  So once the driver has done all it accepted, the flash holds the
\* last value saved in each slot.
SavedInFlash == queue = <<>> =>
    \A i \in Slots : saved[i] # Blank => flash[i] = saved[i]
=============================================================================
