SPECIFICATION FairSpec

CONSTANTS
    s = s
    a = a
    b = b
    None = None
    Tests <- MCTests
    Actions <- MCActions
    Members <- MCMembers
    Later <- MCLater
    Jobs = {j}
    Handles = {g, h}
    Kinds = {"single", "instances", "all", "members", "triggers", "connected",
             "parents", "children"}
    Mtu = 1
    Floor = 1
    Wrap = 8
    MaxCalls = 3

INVARIANTS
    TypeOK
    ReferencesCounted
    FreedOnce
    ListingComplete

PROPERTY Collected

CHECK_DEADLOCK FALSE
