CONSTANTS
    User = {alice, bob}
    Id = "id"
    Value = {"v1", "v2"}
    Broker = {"default", "plant"}
    Login = {"manager", "secret", "bob", "key"}
    NoValue = NoValue
    MqttBroker = "default"
    MqttUser = "manager"
    MqttPw = "secret"
    Request <- MCRequest
    Message <- MCMessage
    VerifyInput = TRUE
    MaxPuts = 2
    MaxLog = 2
    MaxFailed = 1
    NoInstance = NoInstance
    NoContainer = NoContainer
SPECIFICATION Spec
SYMMETRY UsersAlike
INVARIANTS TypeOK RedeployEquivalent StoredAccepted CoveredAtHome
PROPERTIES OwnersTopic OffsetTakesEffect
CHECK_DEADLOCK FALSE
