\* Two codes and two calls of one identity, right and wrong, and their sessions.
CONSTANTS
    Calls = {c1, c2}
    Challenges = {h1, h2}
    Emails = {e1}
    Sources = {s1}
    None = None
    ChallengeTTL = 3
    LeaseTTL = 1
    SessionTTL = 3
    IdleTTL = 2
    Window = 2
    SendGap = 1
    AddressSendLimit = 1
    SourceSendLimit = 3
    ChallengeAttempts = 1
    AddressVerifyLimit = 1
    SourceVerifyLimit = 2
    RpcTimeout = 1
    CleanupTimeout = 1
    InvitationsRequired = FALSE
    MaxTime = 5
SPECIFICATION SessionSpec
CHECK_DEADLOCK FALSE
SYMMETRY Symmetry
INVARIANTS IndexCoversSessions OneActiveChallenge BudgetsHold AttemptsBounded
