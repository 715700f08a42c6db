\* One image and the user's own image.tar as an archive: docker save
\* overwrites it, so the user's image is never pushed, yet Run returns nil.
CONSTANTS
    Invocations <- MC_InvocationsImageTar
    ImageTar = "image.tar"
    DigestRefs = {"t1@sha256"}
    EnvMayFail = FALSE
    Updates = 1
    Capacity = 1
    PushMayFail = FALSE
    WriteMayFail = FALSE
SPECIFICATION Spec
CHECK_DEADLOCK FALSE
PROPERTY ImplementsPushCommand
