SPECIFICATION Spec
CONSTANTS
    shared = shared
    own = own
    t1 = t1
    t2 = t2
    t3 = t3
    Project = {shared, own}
    Task = {t1, t3}
    ProjectOf <- MC_ProjectOf
    me = me
    other = other
    NoUser = NoUser
    MyProjects = {own}
    JoinedAtFirst = {shared}
    Named = {me, other}
    maxProcessPoints = 1
    Slot = {1}
    Get = {1}
    MaxChanges = 2
    NoCall = NoCall
    NoGet = NoGet
    NoChange = NoChange
    NoView = NoView
    NoPage = NoPage
    NoTask = NoTask
    NoProject = NoProject
INVARIANTS
    FormOK
    DetailsCatchUp
PROPERTIES
    AgreementLasts
    ListCatchesUp
