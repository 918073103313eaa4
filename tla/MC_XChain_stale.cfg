CONSTANTS
    Accounts = {d1, c1}
    Devices = {d1}
    Clients = {c1}
    ED = 1
    ServicePara = 200
    ClientPara = 2
    Penalties <- MC_Penalties
    Wcds <- MC_Wcds
    Fees <- MC_Fees
    MaxTime <- MC_MaxTime
    MomentMax = 7
    Capacity = 1
    OnReceivedResults = {"Busy", "Busy2"}
    InitFree <- MC_InitFree
    MaxOrders <- MC_MaxOrders
    NoDevice = NoDevice
    NoOrder = NoOrder
SPECIFICATION Spec
PROPERTY ReplySettlesItsOrder
