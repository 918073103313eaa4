CONSTANTS
    Accounts = {a1, a2}
    Devices = {a1, a2}
    Clients = {a1, a2}
    ED = 1
    SelfParaId = 1
    RemoteParas = {2}
    Penalties <- MC_Penalties
    Wcds <- MC_Wcds
    Fees <- MC_Fees
    MaxTime <- MC_MaxTime
    MomentMax = 7
    Capacity = 1
    OrderIds = {0}
    OnReceivedResults = {"Busy", "Busy2"}
    InitFree <- MC_InitFree
    NoDevice = NoDevice
    NoOrder = NoOrder
SPECIFICATION Spec
PROPERTY FailedCallHasNoEffect
