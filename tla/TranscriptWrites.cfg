SPECIFICATION FairSpec
CONSTANT MaxContents = 4
INVARIANT DoneMeansStored
PROPERTY NeverGoesBack
PROPERTY KeepsPromise
PROPERTY CallersAnswered
