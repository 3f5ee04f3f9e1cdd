SPECIFICATION Spec
CONSTANTS
    olga = olga
    ann = ann
    bob = bob
    NoUser = NoUser
    NoRow = NoRow
    User <- MC_User
    PublicOwner = olga
    MaxProject = 2
    MaxTask = 2
    MaxTasksPerProject = 2
    Drafts <- MC_Drafts
    Points <- MC_Points
    Texts <- MC_Texts
INVARIANTS
    TypeOK
    OwnerIsMember
    ProjectHasTasks
PROPERTIES
    UsersJoinOnce
    LeaversKeepNoTask
    NoTakeover
    PointsNeedAssignee
    DeadIdsStayDead
