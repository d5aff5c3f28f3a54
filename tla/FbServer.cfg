CONSTANTS
    Rows = 3
    Colours = {red, blue}
    Room = 2
    LossMax = 2
    None = None
SPECIFICATION FairFbSpec
INVARIANTS
    FbTypeOK
    HeaderFitsPayload
PROPERTIES
    LastPictureShown
