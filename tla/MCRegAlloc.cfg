SPECIFICATION Spec
CONSTANTS
    NumRegs = 3
    ArgRegs <- MCArgRegs
    CalleeSaved = {3}
    Texts <- MCTexts
    Machines <- MCMachines
INVARIANTS UsesReadTheirValues WrittenRegistersSaved ArgumentsMoveTogether DominatorTreeExact
CHECK_DEADLOCK FALSE
