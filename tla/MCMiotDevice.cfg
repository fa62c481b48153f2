SPECIFICATION MCSpec
CONSTANTS
    Nodes = {n1, n2}
    Calls = {c1, c2}
    Ops = {"property", "lenient", "discover"}
    MaxProps = 2
    StampLimit = 2
    NoStamp = NoStamp
    Modes <- MCModes
INVARIANTS DoneMeansJudged StampsSound
PROPERTIES RetriesSound CallSettles ImplementsRemoteCommand
CHECK_DEADLOCK FALSE
