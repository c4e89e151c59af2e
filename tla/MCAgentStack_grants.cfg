SPECIFICATION Spec
CONSTANTS
    iotRead = iotRead
    iotWrite = iotWrite
    dev = dev
    prod = prod
    hubRole = hubRole
    devRole = devRole
    prodRole = prodRole
    NoEnv = NoEnv
    NoRole = NoRole
    BadRole = BadRole
    NoTool = NoTool
    NoStack = NoStack
    Capabilities = {iotRead, iotWrite}
    ReadCapabilities = {iotRead}
    Envs = {dev, prod}
    Roles = {hubRole, devRole, prodRole}
    Dirs = {0, 1}
    Templates = {}
    FlagSpellings = {"absent", "false", "off"}
    Tags = {"no"}
    RegistryFiles <- MCRegistryFiles
    Manifests <- MCManifests
    PlatformEnv <- MCPlatformEnv
INVARIANT StackTypeOK
INVARIANT ResolvedRolesAreGranted
INVARIANT GrantedRolesAreUsed
INVARIANT RegisteredToolsAreProvisioned
