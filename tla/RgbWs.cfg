CONSTANTS
    Clients = {c1, c2}
    Sizes = {small, large}
    Pictures = {picture}
    SeqMod = 2
    Room = 2
    NoHeader = NoHeader
    NoPicture = NoPicture
    Half = Half
    Garbled = Garbled
SPECIFICATION FairRgbSpec
INVARIANTS
    RgbTypeOK
    FramesHaveHeader
    SeqContiguous
    HeaderCurrent
PROPERTIES
    PictureReachesPage
