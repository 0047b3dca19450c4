SPECIFICATION Spec
CONSTANTS
    member = member
    enum = enum
    common = common
    jvm = jvm
    members = members
    entries = entries
    aMember = aMember
    anEntry = anEntry
    NoTab = NoTab
    NoAnchor = NoAnchor
    Pages <- MCPages
    Buttons <- MCButtons
    Dependencies <- MCDependencies
    Row <- MCRow
    Tabs <- MCTabs
    FirstTab <- MCFirstTab
    Anchors <- MCAnchors
    TabOf <- MCTabOf
    Marked <- MCMarked
    SourceSets <- MCSourceSets
    MaxTimers = 2
INVARIANTS
    TypeOK
    StorageAgrees
    PageShowsFilters
PROPERTIES
    AnchorOpensItsTab
    AnchorReached
