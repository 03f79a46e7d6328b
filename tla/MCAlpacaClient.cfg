\* Four pages of at most three attempts; the third wait would exceed the maximum.
SPECIFICATION FetchSpec
CONSTANTS
    t1 = t1
    t2 = t2
    t3 = t3
    t4 = t4
    NoToken = NoToken
    Tokens <- MCTokens
    RetryAfter <- MCRetryAfter
    MaximumAttempts = 3
    MaximumPages = 4
    InitialBackoff = 2
    MaximumBackoff = 3
CHECK_DEADLOCK FALSE
INVARIANTS RequestsBounded PagesChained
