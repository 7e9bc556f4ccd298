CONSTANTS
    DeviceSize = 2
    Data = {"a", "b"}
    Faults = TRUE
    Bits = 2
SPECIFICATION Spec
INVARIANT LoadedImageIsDevice
