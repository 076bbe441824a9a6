SPECIFICATION Spec
CONSTANTS
    web = web
    cb = cb
    trig = trig
    i1 = i1
    i2 = i2
    b1 = b1
    b2 = b2
    t1 = t1
    t2 = t2
    c1 = c1
    c2 = c2
    Channel <- MCChannel
    NoChannel = NoChannel
    Unit <- MCUnit
    PathUnit = trig
    Marked <- MCMarked
    Payload <- OnePayload
    Image <- MCImage
    NoImage = NoImage
    ImageOf <- MCImageOf
    Build <- OneBuild
    NoBuild = NoBuild
    Tag <- MCTag
    Manifest <- OneManifest
    Overlay = TRUE
    MaxRetries = 1
    MaxRuns = 2
PROPERTIES
    PathsAreRestarted
