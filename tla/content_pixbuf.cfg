CONSTANTS
    None = None
    themed = themed
    file = file
    moved = moved
    inSnap = inSnap
    missing = missing
    p1 = p1
    p2 = p2
    own = own
    other = other
    snapPath = snapPath
    SnapPath = snapPath
    Icons <- MCIcons
    Unreadable = {missing}
    Relocated <- MCRelocated
    Pixbufs = {p1, p2}
    ActionIds <- MCIds
    Caseless <- MCCaseless
    Callbacks = {1, 2}
    DesktopEntries = {own, other}
    Installed = {other}
    CustomHints = {"x"}
    Versions <- MCVersions
    Environments = {{"image", "early"}}
    ByteSize = 8
    IntSize = 32
    WideSize = 128
    Numerals <- MCNumerals
    CommandLines <- MCLines
SPECIFICATION Spec
INVARIANTS
    PixbufIsShown
CHECK_DEADLOCK FALSE
