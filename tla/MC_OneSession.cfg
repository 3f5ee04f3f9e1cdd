SPECIFICATION Spec
CONSTANTS
    olga = olga
    ann = ann
    bob = bob
    s1 = s1
    s2 = s2
    s3 = s3
    NoUser = NoUser
    NoRow = NoRow
    Clean = Clean
    NoRequest = NoRequest
    User <- MC_User
    Session <- One
    PublicOwner = olga
    MaxProject = 2
    MaxTask = 4
    MaxTasksPerProject = 2
    MaxRequests = 5
    Drafts <- MC_Drafts
    Points <- MC_Points
    Texts <- MC_Texts
    Requests <- SerialRequests
    InitProjects <- NoProjects
    InitTasks <- NoTasks
    InitNextProject = 1
    InitNextTask = 1
PROPERTIES
    SerialSpec
