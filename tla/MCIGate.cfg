CONSTANTS
    SendLength = 2
    ReceiveLength = 1
    TextSize = 2
    SndBuf = 3
    MaxGiven = 3
    MaxSegments = 3
SPECIFICATION FairSpec
PROPERTIES UplinkIsFifo DownlinkIsFifo SentWhileUp
CHECK_DEADLOCK FALSE
