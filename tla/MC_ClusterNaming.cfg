\* Two instances named "c" in host namespaces "a" and "b"; "a" pins the
\* virtual namespace "p" to the host namespace "h".
CONSTANTS
    Instances <- MC_Instances
    VNamespaces <- MC_VNamespaces
    VNames <- MC_VNames
    Pins <- MC_Pins
    OtherTenant = OtherTenant
    Limit = 63
    Keep = 52
    DigestLen = 10
SPECIFICATION Spec
INVARIANT ManagedExactlyOwn
INVARIANT HostNamesDistinct
