CONSTANTS
    Packet = {p1, p2}
    Chunks = 3
    Texts = {3, 22}
    Air <- MCAir
    Step = 80
    MaxLag = 160
    MaxDraw = 80
    PacketGap <- MCPacketGap
    TimeModulus = 2000
    NoPacket = NoPacket
SPECIFICATION FairSpec
INVARIANTS MessageWhole NoneLost NeverCut
PROPERTY ListensAgain
