SPECIFICATION Spec
CONSTANTS
    x = x
    y = y
    s1 = s1
    s2 = s2
    c1 = c1
    c2 = c2
    u1 = u1
    u2 = u2
    None = None
    SubId <- MCSubId
    ServerId <- MCServerId
    Content <- MCContent
    Listing <- MCListing
    RulesURL <- MCRulesURL
    Req = {r1, r2}
    Kinds = {"delete", "server", "toggle"}
    Saved <- MCSavedTwo
    MaxBoots = 0
    MaxFailedSaves = 0
SYMMETRY Symmetry
INVARIANTS
    FinalIntentWins
CHECK_DEADLOCK FALSE
