SPECIFICATION Spec
CONSTANTS
    Uid = {1, 2, 3}
    Name = {1, 2, 3, 4}
    owner = 1
    Mappers = {1, 2}
    Commenters = {2, 3}
    InitialName <- MC_InitialName
    Slot = {1, 2}
    MaxChanges = 2
    NoName = NoName
    NoLoad = NoLoad
    NoInvitation = NoInvitation
    Refused = Refused
INVARIANTS
    UsersOK
    ListComplete
    InvitedBoreName
