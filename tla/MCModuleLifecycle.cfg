CONSTANTS
    AudioPath = AudioPath
    BtPath = BtPath
    ObexPath = ObexPath
    AudioName = AudioName
    BtName = BtName
SPECIFICATION Spec
INVARIANT TypeOK
INVARIANT AudioStoppedLeavesNothing
