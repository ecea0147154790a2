CONSTANTS
    Sessions = {s1, s2, s3}
    Broadcasters = {b1, b2}
    None = None
SPECIFICATION Spec
INVARIANTS TypeOK OneSenderPerSession GoneIsForgotten NoEmptyRoomLeft OpenMembersAttempted
SYMMETRY Symm
