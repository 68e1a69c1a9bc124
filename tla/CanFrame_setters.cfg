SPECIFICATION Spec
CONSTANTS
    SffSize = 2
    EffSize = 4
    MaxId = 4
    Sizes = {0, 8, 9, 12, 64, 65}
INVARIANTS TypeOK PayloadFits SwitchNeedsFD RoundTrip ReceivedIsSendable
