SPECIFICATION Spec
CONSTANTS
    Uin <- UinDef
    Field <- FieldDef
    Text <- TextDef
    Atol <- AtolDef
    Cut <- CutDef
    Hash = {"#amy"}
    TypedNick <- TypedNickDef
    RosterNick <- RosterNickDef
    NoNick = NoNick
    Key = {"f00"}
    Stored <- StoredDef
    MaxCrashes = 1
    MaxLines = 2
    Fails = TRUE
    Overlap = FALSE
CHECK_DEADLOCK FALSE
INVARIANT KeySurvives
