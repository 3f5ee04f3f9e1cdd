SPECIFICATION Spec
CONSTANTS
    ann = ann
    bob = bob
    carol = carol
    first = first
    second = second
    tab = tab
    s1 = s1
    s2 = s2
    c1 = c1
    c2 = c2
    NoTx = NoTx
    NoCall = NoCall
    NoCopy = NoCopy
    NoPage = NoPage
    User <- MC_User
    Project <- MC_Project
    OwnerOf <- MC_OwnerOf
    Tab = {tab}
    UserOf <- MC_UserOf
    Session = {s1, s2}
    Slot = {c1, c2}
    InitMembers <- MC_Members
    MaxChanges = 2
    MaxCuts = 1
SYMMETRY Symmetry
INVARIANTS
    UpToDate
PROPERTIES
    NoStepBack
