SPECIFICATION Spec
CONSTANTS
    ann = ann
    bob = bob
    a1 = a1
    a2 = a2
    b1 = b1
    w1 = w1
    w2 = w2
    NoConn = NoConn
    User <- MC_User
    Conn <- MC_Conn
    UserOf <- MC_UserOf
    Worker <- MC_Worker
    Recipients <- MC_Recipients
    MaxArrays = 3
    MaxSends = 2
SYMMETRY Symmetry
INVARIANTS
    RegistryOK
    BrokenGoes
    OnlyForUsers
PROPERTIES
    SendReachesAll
