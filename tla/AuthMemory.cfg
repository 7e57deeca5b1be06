\* Two codes, two calls and two pre-authentications in a store of capacity
\* one, where every map fills, or two, where a resend replaces a live code.
CONSTANTS
    Logins = {l1, l2}
    Challenges = {h1, h2}
    PreAuths = {p1, p2}
    Emails = {e1, e2}
    Sources = {s1}
    None = None
    Capacities = {1, 2}
    Lag = 1
    ChallengeTTL = 2
    SessionTTL = 3
    IdleTTL = 2
    PreAuthTTL = 1
    Window = 3
    SendGap = 1
    AddressSendLimit = 2
    SourceSendLimit = 2
    ChallengeAttempts = 1
    AddressVerifyLimit = 1
    SourceVerifyLimit = 2
    BootstrapLimit = 1
    MaxTime = 3
SPECIFICATION SmallSpec
CHECK_DEADLOCK FALSE
SYMMETRY Symmetry
INVARIANTS WithinCapacity ActiveIsNamed AtMostOneSession BudgetsHold SendsKeepGap
PROPERTIES ReclaimsOnlyDead ImplementsContract
