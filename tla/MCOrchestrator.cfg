\* Conversations with and without a user, for every kind of agent, with and
\* without checking of messages and a timeout.
CONSTANTS
    MaxSteps = 4
    MaxErrors = 2
    MaxCalls = 2
    Setups <- EverySetup
SPECIFICATION FairSpec
INVARIANTS
    ReasonHonest
    RefusalOnlyOnMixedStop
    StopIsReplayable
PROPERTIES
    LoopReleases
    FollowsProtocol
