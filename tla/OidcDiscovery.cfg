\* Two calls of Start, two of Verify, two generations of keys; a document of
\* at most seven tokens, or one more.
CONSTANTS
    Starts = {s1, s2}
    Calls = {c1, c2}
    Clients = {"api", "web"}
    Configs <- MCConfigs
    Tokens <- MCTokens
    NoToken = NoToken
    MaxKeys = 2
    Names = {"k1", "k2"}
    MaxBytes = 7
    MaxDepth = 2

SPECIFICATION Spec

INVARIANTS StoppedForGood AcceptedMeetsPolicy CurrentKeyAccepted ScannerMatchesGrammar

\* Every call may have returned.
CHECK_DEADLOCK FALSE
