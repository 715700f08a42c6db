\* Eight invocations, an environment that may fail anywhere, and pushes of
\* three updates through a one-slot progress channel; the push and the
\* print of an update may fail.  Once Run has returned the process exits:
\* that final state is not a deadlock.
CONSTANTS
    Invocations <- MC_Invocations
    ImageTar = "image.tar"
    DigestRefs = {"t1@sha256"}
    EnvMayFail = TRUE
    Updates = 3
    Capacity = 1
    PushMayFail = TRUE
    WriteMayFail = TRUE
SPECIFICATION Spec
CHECK_DEADLOCK FALSE
INVARIANT TypeOK
INVARIANT GoroutineStrandedOnlyOnExit
PROPERTY ImplementsPushCommand
