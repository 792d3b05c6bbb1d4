SPECIFICATION FairSpec
CONSTANTS
    e1 = e1
    e2 = e2
    x1 = x1
    Event <- WithExt
    ExtEvent <- OneExt
    MaxExpiries = 2
    MaxMisreads = 1
INVARIANTS StreamHonest CopiesBounded
PROPERTIES FeedFollowsLog EveryCommitPublished
