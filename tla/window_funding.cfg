CONSTANTS
    Grants <- TwoGrants
    Skus <- TwoSkus
    BucketOf <- TwoBuckets
    GrantSources <- TwoSources
    MaxAvailable = 2
    MaxRate = 2
    MaxQuantity = 2
    Denominator = 2
SPECIFICATION SpecLargest
INVARIANTS  NeverOverdrawn TrimmedInOrder
