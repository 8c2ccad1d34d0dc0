SPECIFICATION RSpec
CONSTANTS
    None = None
    MaxCalls = 2
    PermsName = "perms"
    Container <- MCContainer
    TemplateName <- MCTemplateName
    UpgradeName <- MCUpgradeName
    Image <- MCImage
    HelperProfile <- MCProfile
    SystemPath <- MCSystemPath
    TemplateKinds <- MCKinds
    ValuesChoice <- MCValues
    HostChoice <- MCHost
    HostIp <- MCHostIp
    Parse <- MCParse
    PortCall <- MCPortCall
    PortalCall <- MCPortalCall
    NetName <- MCNetName
    JoinConfig <- MCJoinConfig
    MountPath <- MCMountPath
    StorageConfig <- MCStorageConfig
    ConfigName <- MCConfigName
    ConfigData <- MCConfigData
    AllowedSource <- MCAllowed
    Setting <- MCSetting
    GroupCall <- MCGroupCall
    DeviceCall <- MCDeviceCall
    EntryCall <- MCEntryCall
    VarName <- MCVarName
    HealthCall <- MCHealthCall
    ActionCall <- MCActionCall
    StoreCall <- MCStoreCall
INVARIANTS
    RTypeOK
    PortsApart
    BindsWhatWasAsked
    JoinsApart
    TargetsDistinct
    FileIsClosed
    GpusWhereTheyBelong
    StoreOwnsItsData
    ActionsSeeTheirData
    UpgradeFirst
    NotesTellTheRisks
CHECK_DEADLOCK FALSE
