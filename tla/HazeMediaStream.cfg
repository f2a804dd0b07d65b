SPECIFICATION Spec
CONSTANTS
    opus = opus
    h264 = h264
    c = c
    Codecs <- MCCodecs
    Candidates <- MCCandidates
    MaxStreams = 2
    MaxAtOnce = 1
    None = None
SYMMETRY MCSymmetry
INVARIANTS
    TypeOK
    StreamsAnnouncedOnce
    ClientsCatchUp
    AnswerIsAnIntersection
PROPERTIES
    NothingIsTakenBack
\* The call may have ended.
CHECK_DEADLOCK FALSE
