CONSTANTS
    UserKeys <- MC_UserKeys
    LabelKeys <- MC_LabelKeys
    KeyOrder <- MC_KeyOrder
    Vals = {v1}
    HostVals = {h1}
    NameAnnotation = NameAnnotation
    UIDAnnotation = UIDAnnotation
    KindAnnotation = KindAnnotation
    NamespaceAnnotation = NamespaceAnnotation
    ManagedAnnotationsAnnotation = ManagedAnnotationsAnnotation
    ManagedLabelsAnnotation = ManagedLabelsAnnotation
    VName = VName
    VUid = VUid
    VKind = VKind
    VNamespace = VNamespace
    NoNamespace = NoNamespace
    HostStarts = {FALSE, TRUE}
SPECIFICATION Spec
INVARIANT TypeOK
 
PROPERTY SyncIdempotent
PROPERTY LabelOwnershipOnUpdatePath
PROPERTY RoundTripAfterSync
PROPERTY Converges
