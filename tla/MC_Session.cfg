SPECIFICATION Spec
CONSTANTS
    ann = ann
    bob = bob
    tab1 = tab1
    tab2 = tab2
    User = {ann, bob}
    Tab = {tab1, tab2}
    MaxLogins = 2
    MaxTimers = 2
    MaxRestarts = 1
    Nobody = Nobody
    NoUser = NoUser
    NoToken = NoToken
INVARIANTS
    SessionOK
    FailsByOther
    InsideIsConnected
PROPERTIES
    SessionKept
    LoginLeadsIn
