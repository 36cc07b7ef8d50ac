SPECIFICATION FairSpec
CONSTANTS
    album = album
    pic = pic
    clip = clip
    top = top
    n1 = n1
    Item = {album, pic, clip}
    Folder = {album}
    Root = top
    Home <- Places
    Video = {clip}
    Name = {n1, n2}
    None = NoItem
    NoItem = NoItem
    Drives <- Stocked
    MaxCalls = 2
    MaxActs = 3
INVARIANTS
    TypeOK
    FlagsMatchCalls
    
    TickedAreShown
PROPERTIES
    BusyEnds
CHECK_DEADLOCK FALSE
