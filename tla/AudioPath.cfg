SPECIFICATION Spec
CONSTANTS
    Word = 65536
    DatagramBytes = {11, 12, 28, 35, 36, 60}
    CsrcCounts = {0, 4}
    SampleRates = {0, 48000}
    FrameSizes = {0, 65536}
    PayloadTypes = {352}
    Formats = {18, 19}
    MaxPackets = 3
INVARIANTS AllOrNothing WholeFrames DecoderFollowsStream CountersAddUp
