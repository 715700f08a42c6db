\* A virtual label key that itself begins with LabelPrefix.
CONSTANTS
    VKeys <- MC_VKeysPk
    SyncedKeys = {}
    PrefixedKeys = {"pk"}
    HostKeyOf <- MC_HostKeyOfPk
    HostUserKeys = {"app"}
    ForeignKeys = {}
    MarkerLabel = "marker"
    ControllerLabel = "controller"
    MarkerValue = "m"
    Vals = {"v1"}
    SelectorKeys = {"app"}
    StoreVolatile = FALSE
SPECIFICATION Spec
PROPERTY RoundTrip
