CONSTANTS
    NoValue = NoValue
    Policies <- SmallPolicies
    Abilities <- SmallAbilities
    Profiles = {p1, p2, p3}
    MaxFaults = 2
    Units = {1, 2, 3}
    Sockets = {s1, s2, s3}
    Labelled = {s1}
    Imeis = {"i1", "i2"}
    Nowhere = Nowhere
    MaxPlugs = 3
    Devices = {d1, d2}
    Composition <- SmallComposition
    NoBundle = NoBundle
    MaxSwitches = 3
    Ttl = 1
    MaxNow = 2
    Nobody = Nobody
    Writes = {w1, w2}
    Bits = {0, 1, 2, 3, 4, 5}
    Catalogs <- SmallCatalogs
    BandValues <- SmallBandValues
    BandSupports <- SmallBandSupports
    BandAsks <- SmallBandAsks
    ProvenBands <- SmallProvenBands
    Uncertified = Uncertified
    Listings <- SmallListings
    Compositions = {1, 2, 3}
SPECIFICATION MCSpec
INVARIANTS RowsAreTrue CertifiedIsProvable NeverRounded
PROPERTIES PlanSettles ManagedStaysManaged StaleTellsFirstCause ReadbackIsExact
CHECK_DEADLOCK FALSE
