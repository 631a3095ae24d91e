SPECIFICATION Spec
CONSTANTS
    Swipes = {"left"}
    Gaps = {4}
    Uses <- OneAndTwoButtons
    MaxCount = 8
    ByteValues = {0, 1}
    BlockSize = 2
    Word = 2
    MaxSigned = 4
    WordBits = 6
    Carry = 7
    Inputs = {0, 1, 38, 63}
    Rounds = 8
    Mtus = {6, 7, 11}
    MaxLength = 6
    MaxPackets = 3
CHECK_DEADLOCK FALSE
INVARIANTS
    OneEventPerAction
    AckEndsAction
    CountsRebuilt
    SignaturesTellApart
    RoundsAgree
    SubkeysDouble
    PacketsSurvive
