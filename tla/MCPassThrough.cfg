CONSTANTS
    Device = {a, b}
    Server = Server
    MaxQueue = 2
SPECIFICATION PassSpec
INVARIANTS PassTypeOK SuccessMeansDone PowerRestored
