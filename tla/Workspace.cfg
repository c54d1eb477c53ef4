\* Two requests at once in every part, on tight limits.
CONSTANTS
    host = host
    guest = guest
    band = band
    g1 = g1
    d1 = d1
    t1 = t1
    l2 = l2
    none = none
    Requests = {x1, x2}
    Members = {u1, u2, u3}
    Bands = {band}
    Invites = {i1}
    MemberLimit = 2
    MembershipLimit = 1
    InviteUses = 2
    MaxStaffActs = 1
    Fans = {u1, u2}
    Offers = {o1, o2}
    Tunes = {g1}
    BandOwned = band
    TuneOwner <- TunesOfBand
    Threshold = 1
    MaxMishaps = 1
    Originals = {g1, g2}
    OriginalOf <- VersionOfFirst
    NoOriginal = none
    CopyRows = {o1, o2}
    BandSongLimits = {1, 2}
    Changing = {g1}
    MaxCopyEdits = 1
    Players = {host, guest, other}
    Lists = {l1}
    Pieces = {s1}
    ListOwner <- ListsOfHost
    PieceOwner <- PiecesOfGuest
    MaxInvitations = 1
    MaxContributions = 2
    Numbers = {o1, o2}
    Marks = {m1}
    ItemLimit = 2
    MarkLimit = 1
    MaxPlace = 3
    Setlists = {l1}
    Gigs = {d1}
    Sharers = {host}
    Visits = {guest}
    NoSetlist = none
    MaxLinks = 2
    MaxTakedowns = 1
    Artists = {a1}
    Songs = {g1, g2}
    ArtistOf <- OneArtist
    TitleOf <- OwnTitle
    SongLimit = 1
    Tracks = {g1, g2}
    Keys = {g1, g2}
    KeyOf <- Itself
    Names = {a1}
    NameOf <- TheArtist
    Shows = {l1}
    NoShow = none
    Wanted = {g1}
    KeyLimit = 2
    MaxTouches = 2
    Titles = {g1, g2}
    PlayedBy <- Itself
    NoJob = none
    SongRoom = 1
    ArtistRoom = 1
    ListRoom = 1
    Callers = {host, guest}
    Things = {d1, t1, l1, l2}
    KindOf <- KindOfThings
    HomeOf <- HomeOfThings
    Planners = {x1}
    Keep = keep
    Targets = {g1, g2, d1}
    PinLimit = 2
    MaxSpot = 4
    Goods = {l1, l2, g1, g2}
    KindOfGood <- KindOfGoods
    HomeOfGood <- HomeOfGoods
    Repertoires = {l1}
    Joining = {guest}
    Granting = {"manage_setlists"}
    Founder = host
    Powers = {"export_pdf"}
    NoteRows = {o1, o2}
    MaxNotes = 1
    Readers = {guest}
    MaxNewsTime = 1
    MaxNewsEdits = 2
    Tickets = {d1}
    Staff = {host}
    Nobody = none
    MaxActive = 1
    CloseAfter = 0
    MaxSupportTime = 1
    MaxMessages = 3
SPECIFICATION Spec
SYMMETRY Symmetry
\* Everybody may have left and every bound used up.
CHECK_DEADLOCK FALSE
INVARIANTS
    TypesOK
    BandSafety
    SetlistSafety
    LibrarySafety
    MessageSafety

    
