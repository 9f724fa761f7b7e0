SPECIFICATION ConversionSpec
CONSTANTS
    Texts <- AllTexts
    PodObjects <- AllPods
    Blades <- AllBlades
    Addresses = {1, 2, 3}
    Services <- AgentServices
    MaxServices = 2
    InterfaceLists <- HostInterfaces
CHECK_DEADLOCK FALSE
INVARIANTS
    ReferenceIsLossless
    PodStateIsFirst
    VersionIsStated
    AgentHasAddress
