SPECIFICATION Spec
CONSTANTS
    Desk = {m1}
    Phone = {p1}
    NoMsg = NoMsg
    Jobs = {}
    Kids = {}
    Owner = 0
    Keys = {TRUE}
    MaxRequests = 1
    MaxStops = 0
    MaxCompacts = 0
    QueueMax = 1
    NoPhone = NoPhone
PROPERTY PhoneMailIsRead
CHECK_DEADLOCK FALSE
