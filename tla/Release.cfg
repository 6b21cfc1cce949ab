\* Three objects, every way for a response to go wrong, every retry; then every
\* partition table, every fault of the injection and Ctrl-C at any time.
CONSTANTS
    Objects <- MCObjects
    Published = "published"
    Size <- MCSize
    Maximum = 3
    MetadataAttempts = 4
    Attempts = 5
    Slots = 3
    Entries <- MCEntries
    Sectors = 5
SPECIFICATION PrepareSpec
INVARIANTS
    Aligned
    ArchiveComplete
    PartialBounded
    ImageTypeOK
    LayoutDisjoint
    HashedIsFinal
    NothingElseMounted
PROPERTIES
    PrepareEnds
CHECK_DEADLOCK FALSE
