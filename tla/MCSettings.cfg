CONSTANTS
    Path <- Paths
    Addr <- Addrs
    Host <- Hosts
    Level <- Levels
    Handwritten <- Files
SPECIFICATION Spec
PROPERTY SettingsSurvive
