CONSTANTS
    zero = zero
    Zero = zero
    track_length <- MCTrackLength
    BusInputs <- MCBusInputs
    BITS_PER_CHANNEL = 3
    MCLK_DIV_BCLK = 6
SPECIFICATION FairSpec
INVARIANTS
    InsideTrack
    SamplesInOrder
    MusicKeepsTime
    EffectHeard
PROPERTIES
    FramesAligned
    DataStable
    EffectEnds
