\* Two requests, of an agent and of others, in servers with all kinds of settings.
SPECIFICATION FairSpec
CONSTANTS
    r1 = r1
    r2 = r2
    Spare = Spare
    Slots = {r1, r2}
    MaxRequests = 2
    KeyPairs = {"pair", "other"}
    SecretKeys = {"k1", "k2"}
    AgentIp = "10.0.0.0/8"
    ServerLaunches <- Launches
    AgentLaunches <- Agents
    OtherRequests <- Others
INVARIANTS
    TypeOK
    AnswersTellTheTruth
    NoHandlerAfterClose
PROPERTIES
    SignalledStops
    SettingsInOrder
\* The process ends.
CHECK_DEADLOCK FALSE
