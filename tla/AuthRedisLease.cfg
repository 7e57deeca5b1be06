\* Two calls and their crashes, late and repeated commands, on one code.
CONSTANTS
    Calls = {c1, c2}
    Challenges = {h1}
    Emails = {e1}
    Sources = {s1}
    None = None
    ChallengeTTL = 2
    LeaseTTL = 1
    SessionTTL = 2
    IdleTTL = 1
    Window = 1
    SendGap = 1
    AddressSendLimit = 2
    SourceSendLimit = 3
    ChallengeAttempts = 1
    AddressVerifyLimit = 3
    SourceVerifyLimit = 4
    RpcTimeout = 1
    CleanupTimeout = 1
    InvitationsRequired = TRUE
    MaxTime = 3
SPECIFICATION Spec
CHECK_DEADLOCK FALSE
SYMMETRY Symmetry
INVARIANTS AtMostOneSession AnswerMatchesSession IdentityNeedsProof
PROPERTY ImplementsContract
