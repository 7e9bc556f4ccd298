CONSTANTS
    DeviceSize = 2
    Data = {"a", "b"}
    Faults = TRUE
    Bits = 2
SPECIFICATION Spec
INVARIANTS
    TypeOK
    SavedImageIsDevice
    FaultFreeLoadIsDevice
PROPERTY LoadTerminates
