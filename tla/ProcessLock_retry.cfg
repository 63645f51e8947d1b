\* One owner whose Stop is retried for ever.
CONSTANTS
    Owners = {o1}
    Nobody = Nobody
    MaxFaults = 2
SPECIFICATION FairSpec
PROPERTIES RetryReleases
