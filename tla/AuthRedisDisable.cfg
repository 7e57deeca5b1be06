\* An identity disabled while a call of it is between PostgreSQL and Redis.
CONSTANTS
    Calls = {c1}
    Challenges = {h1}
    Emails = {e1}
    Sources = {s1}
    None = None
    ChallengeTTL = 2
    LeaseTTL = 1
    SessionTTL = 2
    IdleTTL = 2
    Window = 1
    SendGap = 1
    AddressSendLimit = 2
    SourceSendLimit = 3
    ChallengeAttempts = 1
    AddressVerifyLimit = 3
    SourceVerifyLimit = 4
    RpcTimeout = 1
    CleanupTimeout = 1
    InvitationsRequired = FALSE
    MaxTime = 1
SPECIFICATION Spec
CHECK_DEADLOCK FALSE
INVARIANT DisabledHasNoSession
