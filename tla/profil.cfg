SPECIFICATION Spec
CONSTANTS
    NB_PROFILS = 2
    Settings = {s1, s2}
    \* 0xBD1FC000 is beyond TLC's integers
    NVM_ADDR_PROFILS = 2000000000
    ProfilsSize = 16
    EraseCount = 8
    ReadBlocks = 16777216
    WriteBlocks = 8192
    EraseBlocks = 1024
INVARIANT SavedInFlash
