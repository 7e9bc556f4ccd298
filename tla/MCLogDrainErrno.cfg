CONSTANTS
    MaxEntries = 3
    MetaErrs = {"EFAULT", "EIO"}
    DataErrs = {"EFAULT"}
    NextErrs = {"EIO"}
SPECIFICATION Spec
INVARIANT DrainKeepsEveryEntry
