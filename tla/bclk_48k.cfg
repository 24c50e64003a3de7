CONSTANTS
    zero = zero
    Zero = zero
    track_length <- MCTrackLength
    BusInputs <- IdleBusOnly
    BITS_PER_CHANNEL = 16
    MCLK_DIV_BCLK = 8
SPECIFICATION FairSpec
PROPERTIES BclkRuns
