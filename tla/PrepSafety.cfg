SPECIFICATION FairSpec
CONSTANTS
    web = web
    cb = cb
    trig = trig
    i1 = i1
    i2 = i2
    b1 = b1
    b2 = b2
    t1 = t1
    t2 = t2
    c1 = c1
    c2 = c2
    Channel <- MCChannel
    NoChannel = NoChannel
    Unit <- MCUnit
    PathUnit = trig
    Marked <- MCMarked
    Payload <- MCPayload
    Image <- MCImage
    NoImage = NoImage
    ImageOf <- MCImageOf
    Build <- MCBuild
    NoBuild = NoBuild
    Tag <- MCTag
    Manifest <- MCManifest
    Overlay = TRUE
    MaxRetries = 1
    MaxRuns = 2
INVARIANTS
    TypeOK
    UnitsHaveImages
    NoSelfTrigger
    RetryIsPossible
PROPERTIES
    DownloadsComeFirst
    ReleaseIsDeployed
    SuccessMeansDeployed
    RunEnds
    ImplementsDeployment
