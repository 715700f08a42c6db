\* Instance "b" in host namespace "ax" and instance "xb" in host namespace
\* "a": getNamespaceSuffix hashes "axxb" for both.
CONSTANTS
    Instances <- MC_InstancesXSplit
    VNamespaces <- MC_VNamespaces
    VNames <- MC_VNames
    Pins <- MC_PinsNone
    OtherTenant = OtherTenant
    Limit = 63
    Keep = 52
    DigestLen = 10
SPECIFICATION Spec
INVARIANT ManagedExactlyOwn
