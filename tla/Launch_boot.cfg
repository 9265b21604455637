SPECIFICATION LaunchSpec
CONSTANTS
    Images = {safe, planet}
    MaxAttempts = 3
    MaxInitDataAttempts = 2
    MaxAuthAttempts = 2
PROPERTIES WarmUpNeverBlocks
CHECK_DEADLOCK FALSE
