SPECIFICATION Spec
CONSTANTS
    Programs <- AllPrograms
    Compiled <- CompileMain
    Meant <- Meaning
    MaxReg = 15
    FieldsPerFlush = 2
INVARIANTS
    CompilesRight
    RegistersHold
PROPERTY Terminates
CHECK_DEADLOCK FALSE
