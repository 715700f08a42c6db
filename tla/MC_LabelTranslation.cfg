\* Plain and always-synced keys, host-side edits including a foreign
\* LabelPrefix key, selector rewriting, and restarts that lose the store.
CONSTANTS
    VKeys <- MC_VKeys
    SyncedKeys = {"sync"}
    PrefixedKeys = {}
    HostKeyOf <- MC_HostKeyOf
    HostUserKeys = {"app", "foreign"}
    ForeignKeys = {"foreign"}
    MarkerLabel = "marker"
    ControllerLabel = "controller"
    MarkerValue = "m"
    Vals = {"v1", "v2"}
    SelectorKeys = {"app", "sync"}
    StoreVolatile = TRUE
SPECIFICATION Spec
INVARIANT TypeOK
INVARIANT StoreCoversHostKeys
INVARIANT SelectorRoundTrip
PROPERTY RoundTrip
PROPERTY BackSyncNeverInvents
