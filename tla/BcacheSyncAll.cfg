SPECIFICATION BcacheSpec
CONSTANTS
    NumBufs = 1
    Key <- MCKey
    Value = {0, 1}
    MaxPins = 2
PROPERTY
    SyncAllIsDurable
