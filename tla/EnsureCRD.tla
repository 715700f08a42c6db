------------------------------ MODULE EnsureCRD ------------------------------
(***************************************************************************)
(* EnsureCRDFromPhysicalCluster (src/unnamed/part_000): mirror a custom    *)
(* resource definition of the host cluster into the virtual cluster and    *)
(* wait for it to become Established.                                      *)
(*                                                                         *)
(* Several callers (syncers started for custom resources) run the function *)
(* concurrently, each for one version of the same kind; every API call is  *)
(* one atomic step and may fail.  The virtual API server establishes a     *)
(* created definition at some later time.  The readiness wait is           *)
(* wait.ExponentialBackoffWithContext with Backoff{Duration: 1s, Factor:   *)
(* 1.5, Cap: 1m, Steps: MaxInt32}; Backoff.Step sets Steps to 0 when the   *)
(* next duration passes Cap, after which the loop ends with a timeout.     *)
(* Durations are integer milliseconds (time.Duration is integer            *)
(* nanoseconds; the millisecond floor does not move any comparison with    *)
(* the 60000 ms cap).                                                      *)
(***************************************************************************)
EXTENDS Naturals, FiniteSets

CONSTANTS
    Callers,        \* concurrent calls of EnsureCRDFromPhysicalCluster
    Req,            \* Req[c]: the version caller c asks for
    HostVersions,   \* versions of the host cluster's definition
    HostStatus,     \* HostStatus[v]: version v declares a status subresource
    Mirrored,       \* versions an earlier run may already have mirrored
    FailSites,      \* API calls that may fail
    MaxErrors,      \* bound on failed API calls in one behaviour
    InitialMs,      \* Backoff.Duration (1s)
    CapMs           \* Backoff.Cap (1m)

Sites == {"kind", "getv", "discover", "gethost", "create", "poll"}
ASSUME FailSites \subseteq Sites
ASSUME Req \in [Callers -> HostVersions \cup {"missing"}]
ASSUME Mirrored \subseteq HostVersions

VARIABLES
    vcrd,       \* the virtual cluster's definition, or Absent
    pc,         \* where each call is
    def,        \* the stripped host definition a call will create
    hasStatus,  \* the hasStatusSubresource a call will return
    dur,        \* the backoff's current Duration
    ctxDone,    \* the caller's context is cancelled
    result,     \* "none" while running, then "ok", "error" or "timeout"
    errors      \* failed API calls so far

vars == <<vcrd, pc, def, hasStatus, dur, ctxDone, result, errors>>

Absent == [versions |-> {}, status |-> FALSE, established |-> FALSE, exists |-> FALSE]
Definitions == [versions : SUBSET HostVersions, status : BOOLEAN,
                established : BOOLEAN, exists : BOOLEAN]

\* Discovery (ServerResourcesForGroupVersion) lists the kind in a group
\* version once the definition serving it is established.
Discoverable(d, v) == d.exists /\ d.established /\ v \in d.versions

\* A call at site s fails (connection errors, a cancelled context, ...).
CanFail(s) == s \in FailSites /\ errors < MaxErrors

Return(c, r) ==
    /\ pc' = [pc EXCEPT ![c] = "done"]
    /\ result' = [result EXCEPT ![c] = r]

Fail(c, s) ==
    /\ CanFail(s)
    /\ errors' = errors + 1

Goto(c, l) == pc' = [pc EXCEPT ![c] = l]

-----------------------------------------------------------------------------
Init ==
    \* a definition mirrored by an earlier run may already be there
    /\ vcrd \in {Absent} \cup
                {[versions |-> {v}, status |-> HostStatus[v],
                  established |-> TRUE, exists |-> TRUE] : v \in Mirrored}
    /\ pc = [c \in Callers |-> "kind"]
    /\ def = [c \in Callers |-> Absent]
    /\ hasStatus = [c \in Callers |-> FALSE]
    /\ dur = [c \in Callers |-> InitialMs]
    /\ ctxDone = [c \in Callers |-> FALSE]
    /\ result = [c \in Callers |-> "none"]
    /\ errors = 0

\* KindExists(vConfig, gvk): found -> read the definition; NotFound -> mirror
\* it; any other error is returned.
KindExists(c) ==
    /\ pc[c] = "kind"
    /\ \/ Fail(c, "kind") /\ Return(c, "error")
       \/ Discoverable(vcrd, Req[c]) /\ Goto(c, "getv") /\ UNCHANGED <<errors, result>>
       \/ ~Discoverable(vcrd, Req[c]) /\ Goto(c, "discover") /\ UNCHANGED <<errors, result>>
    /\ UNCHANGED <<vcrd, def, hasStatus, dur, ctxDone>>

\* Get of the existing definition: an error is logged and the call returns
\* success with hasStatusSubresource still false.
GetVirtual(c) ==
    /\ pc[c] = "getv"
    /\ \/ Fail(c, "getv") /\ UNCHANGED hasStatus
       \/ UNCHANGED errors
          /\ hasStatus' = [hasStatus EXCEPT ![c] = Req[c] \in vcrd.versions /\ vcrd.status]
    /\ Return(c, "ok")
    /\ UNCHANGED <<vcrd, def, dur, ctxDone>>

\* ConvertKindToResource(pConfig, gvk): NotFound or any error is returned.
DiscoverHost(c) ==
    /\ pc[c] = "discover"
    /\ \/ Fail(c, "discover") /\ Return(c, "error")
       \/ Req[c] \notin HostVersions /\ Return(c, "error") /\ UNCHANGED errors
       \/ Req[c] \in HostVersions /\ Goto(c, "gethost") /\ UNCHANGED <<errors, result>>
    /\ UNCHANGED <<vcrd, def, hasStatus, dur, ctxDone>>

\* Clear identity, status, conversion; keep only the requested version,
\* served and storage, and note its status subresource.
StripHostDefinition(v) ==
    [versions |-> {v} \cap HostVersions,
     status |-> v \in HostVersions /\ HostStatus[v],
     established |-> FALSE, exists |-> TRUE]

\* Get of the host definition, then the stripping for the virtual cluster.
GetHost(c) ==
    /\ pc[c] = "gethost"
    /\ \/ Fail(c, "gethost") /\ Return(c, "error") /\ UNCHANGED <<def, hasStatus>>
       \/ /\ def' = [def EXCEPT ![c] = StripHostDefinition(Req[c])]
          /\ hasStatus' = [hasStatus EXCEPT ![c] = StripHostDefinition(Req[c]).status]
          /\ Goto(c, "create")
          /\ UNCHANGED <<errors, result>>
    /\ UNCHANGED <<vcrd, dur, ctxDone>>

\* Create in the virtual cluster; AlreadyExists counts as success, any
\* other error is returned.
CreateVirtual(c) ==
    /\ pc[c] = "create"
    /\ \/ Fail(c, "create") /\ Return(c, "error") /\ UNCHANGED vcrd
       \/ /\ vcrd' = IF vcrd.exists THEN vcrd ELSE def[c]
          /\ Goto(c, "poll")
          /\ UNCHANGED <<errors, result>>
    /\ UNCHANGED <<def, hasStatus, dur, ctxDone>>

\* Variant that takes any Established condition for a true one.
PollAnyCondition(c) ==
    /\ pc[c] = "poll"
    /\ \/ Fail(c, "poll") /\ Return(c, "error")
       \/ Return(c, "ok") /\ UNCHANGED errors
       \/ ~vcrd.established /\ Goto(c, "sleep") /\ UNCHANGED <<errors, result>>
    /\ UNCHANGED <<vcrd, def, hasStatus, dur, ctxDone>>

\* One condition check of the wait: an error of the Get ends the wait.
Poll(c) ==
    /\ pc[c] = "poll"
    /\ \/ Fail(c, "poll") /\ Return(c, "error")
       \/ vcrd.established /\ Return(c, "ok") /\ UNCHANGED errors
       \/ ~vcrd.established /\ Goto(c, "sleep") /\ UNCHANGED <<errors, result>>
    /\ UNCHANGED <<vcrd, def, hasStatus, dur, ctxDone>>

\* Variant of the wait whose Cap only clamps the duration.
SleepUncapped(c) ==
    /\ pc[c] = "sleep"
    /\ LET next == (dur[c] * 3) \div 2 IN
       \/ ctxDone[c] /\ Return(c, "error") /\ UNCHANGED dur
       \/ ~ctxDone[c] /\ Goto(c, "poll") /\ UNCHANGED result
          /\ dur' = [dur EXCEPT ![c] = next]
    /\ UNCHANGED <<vcrd, def, hasStatus, ctxDone, errors>>

\* Backoff.Step, then the sleep: a cancelled context ends the wait; a
\* duration grown past Cap zeroes Steps and the loop ends with a timeout.
Sleep(c) ==
    /\ pc[c] = "sleep"
    /\ LET next == (dur[c] * 3) \div 2 IN
       \/ ctxDone[c] /\ Return(c, "error") /\ UNCHANGED dur
       \/ ~ctxDone[c] /\ next > CapMs /\ Return(c, "timeout")
          /\ dur' = [dur EXCEPT ![c] = CapMs]
       \/ ~ctxDone[c] /\ next <= CapMs /\ Goto(c, "poll") /\ UNCHANGED result
          /\ dur' = [dur EXCEPT ![c] = next]
    /\ UNCHANGED <<vcrd, def, hasStatus, ctxDone, errors>>

\* The caller cancels its context.
Cancel(c) ==
    /\ pc[c] # "done"
    /\ ~ctxDone[c]
    /\ ctxDone' = [ctxDone EXCEPT ![c] = TRUE]
    /\ UNCHANGED <<vcrd, pc, def, hasStatus, dur, result, errors>>

\* The virtual API server accepts the names and sets Established.
Establish ==
    /\ vcrd.exists /\ ~vcrd.established
    /\ vcrd' = [vcrd EXCEPT !.established = TRUE]
    /\ UNCHANGED <<pc, def, hasStatus, dur, ctxDone, result, errors>>

Next ==
    \/ \E c \in Callers :
        \/ KindExists(c) \/ GetVirtual(c) \/ DiscoverHost(c) \/ GetHost(c)
        \/ CreateVirtual(c) \/ Poll(c) \/ Sleep(c) \/ Cancel(c)
    \/ Establish

Spec == Init /\ [][Next]_vars

-----------------------------------------------------------------------------
TypeOK ==
    /\ vcrd \in Definitions
    /\ pc \in [Callers -> Sites \cup {"sleep", "done"}]
    /\ def \in [Callers -> Definitions]
    /\ hasStatus \in [Callers -> BOOLEAN]
    /\ dur \in [Callers -> InitialMs..CapMs]
    /\ ctxDone \in [Callers -> BOOLEAN]
    /\ result \in [Callers -> {"none", "ok", "error", "timeout"}]
    /\ errors \in 0..MaxErrors

\* A call that returns without error leaves a definition in the virtual
\* cluster that is established and serves the version the call asked for:
\* the syncer started next relies on the kind being servable.
SuccessMeansServed ==
    \A c \in Callers :
        result[c] = "ok" => vcrd.exists /\ vcrd.established /\ Req[c] \in vcrd.versions

\* The hasStatusSubresource a successful call returns is the one the
\* virtual definition declares for the requested version, on the mirroring
\* path and on the already-mirrored path alike.
StatusFlagCorrect ==
    \A c \in Callers :
        result[c] = "ok" => hasStatus[c] = (Req[c] \in vcrd.versions /\ vcrd.status)

=============================================================================
