\* Two publishers with two events each, two subscribers with room for two,
\* which nobody obliges to receive.
CONSTANTS
    Publishers = {p1, p2}
    Subs = {s1, s2}
    None = None
    Size = 2
    MaxEvents = 2

SPECIFICATION FairSpec

INVARIANT SlowHurtsOnlyItself
PROPERTIES FeedsAreKept SubscriptionReturns

\* Every event may have been published and received.
CHECK_DEADLOCK FALSE
