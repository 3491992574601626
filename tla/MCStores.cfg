\* Either store with up to two rows, at times of every format.
CONSTANTS
    Ids = {"i1", "i2"}
    Hashes = {"x", "y"}
    Instants <- Samples
    MaxRows = 2
SPECIFICATION Spec
PROPERTY ImplementsMetadataStore
PROPERTY NonePrunedEarly
