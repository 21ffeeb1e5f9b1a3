SPECIFICATION Spec

CONSTANTS
    s = s
    a = a
    b = b
    None = None
    Tests <- MCTests
    Actions <- MCActions
    Members <- MCMembers
    Later <- MCLater
    Jobs = {j}
    Handles = {g, h}
    Kinds = {}
    Mtu = 1
    Floor = 1
    Wrap = 8
    MaxCalls = 3

INVARIANT FreedIsNotReferenced

CHECK_DEADLOCK FALSE
