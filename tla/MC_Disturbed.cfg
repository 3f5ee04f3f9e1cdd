SPECIFICATION Spec
CONSTANTS
    olga = olga
    ann = ann
    bob = bob
    s1 = s1
    s2 = s2
    s3 = s3
    NoUser = NoUser
    NoRow = NoRow
    Clean = Clean
    NoRequest = NoRequest
    User <- MC_User
    Session <- Two
    PublicOwner = olga
    MaxProject = 3
    MaxTask = 5
    MaxTasksPerProject = 2
    MaxRequests = 3
    Drafts <- MC_Drafts
    Points <- MC_Points
    Texts <- MC_Texts
    Requests <- TaskRequests
    InitProjects <- MC_Projects
    InitTasks <- AnnBusy
    InitNextProject = 3
    InitNextTask = 4
PROPERTIES
    WorkUndisturbed
