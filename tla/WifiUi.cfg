CONSTANTS
    Texts = {connecting, gotip}
    Initial = connecting
    Torn = Torn
    EventMax = 4
    TickMax = 3
SPECIFICATION UiSpec
INVARIANT NoStatusLost
CHECK_DEADLOCK FALSE
