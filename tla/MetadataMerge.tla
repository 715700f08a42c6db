--------------------------- MODULE MetadataMerge ---------------------------
(***************************************************************************)
(* The ownership-aware label/annotation merge of pkg/util/translate        *)
(* (src/unnamed/part_000): applyMaps, applyAnnotations, applyLabels,       *)
(* ApplyMetadata and HostAnnotations, applied to one virtual object and    *)
(* its host copy.                                                          *)
(*                                                                         *)
(* Three actors touch the pair:                                            *)
(*   - the virtual side (a user) edits the virtual labels/annotations,     *)
(*   - the host side (another controller) edits host labels/annotations,   *)
(*   - the syncer creates the host copy with HostMetadata, later updates   *)
(*     it with ApplyMetadata, and copies the host metadata back onto the   *)
(*     virtual object with VirtualAnnotations and VirtualLabels (the       *)
(*     host-to-virtual direction of a bidirectional syncer).               *)
(* The ghost flag converge is set at some point of a behaviour and stops   *)
(* the edits of both users, so that convergence of the two sync           *)
(* directions can be stated as a liveness property.                       *)
(* Labels of namespaced objects in multi-namespace mode are copied         *)
(* verbatim by HostLabels (multi_namespace translator), so the label keys  *)
(* of both sides are the same keys.                                        *)
(*                                                                         *)
(* Maps are TLA+ functions whose DOMAIN is the set of present keys.  The   *)
(* bookkeeping annotations hold the newline-joined, sorted key list; it is *)
(* modelled as the sequence of keys that Join encodes (keys contain no     *)
(* newline, so Split recovers exactly the set of its elements).            *)
(***************************************************************************)
EXTENDS Naturals, Sequences, SequencesExt, TLC

CONSTANTS
    UserKeys,                      \* ordinary annotation keys
    LabelKeys,                     \* ordinary label keys, a subset of UserKeys
    Vals,                          \* values the virtual side writes
    HostVals,                      \* values the host-side controller writes
    KeyOrder,                      \* UserKeys in byte-wise string order (sort.Strings)
    NameAnnotation, UIDAnnotation, KindAnnotation, NamespaceAnnotation,
    ManagedAnnotationsAnnotation, ManagedLabelsAnnotation,
    VName, VUid, VKind, VNamespace, \* identity of the virtual object
    NoNamespace,                   \* GetNamespace() == "" (cluster scoped)
    HostStarts                     \* whether the host copy exists before the first sync

ASSUME KeyOrder \in SetToSeqs(UserKeys) /\ LabelKeys \subseteq UserKeys
ASSUME HostStarts \subseteq BOOLEAN
\* Cluster-scoped objects take HostLabelsMapCluster, a separate module.
ASSUME VNamespace # NoNamespace

VARIABLES
    vAnn, vLab,          \* virtual object annotations / labels
    pAnn, pLab,          \* host object annotations / labels
    pExists,             \* host object has been created
    annOwner, labOwner,  \* ghost: who owns each user key on the host side
    synced,              \* ghost: sync step since the last edit: "no", "created", "applied"
    converge             \* ghost: the users have stopped editing

vars == <<vAnn, vLab, pAnn, pLab, pExists, annOwner, labOwner, synced, converge>>

BackRefKeys == {NameAnnotation, UIDAnnotation, KindAnnotation, NamespaceAnnotation}
Bookkeeping == {ManagedAnnotationsAnnotation, ManagedLabelsAnnotation}
AllKeys     == UserKeys \cup BackRefKeys \cup Bookkeeping
Owners      == {"virtual", "host", "none"}

EmptyMap == [k \in {} |-> k]
Put(m, k, v) == (k :> v) @@ m
Del(m, k)    == Restrict(m, DOMAIN m \ {k})

\* Variant leaving the key list in map iteration order.
SortKeysUnsorted(s) == s

\* sort.Strings over the key list, in the byte order KeyOrder gives.
Rank(k) == CHOOSE i \in DOMAIN KeyOrder : KeyOrder[i] = k
SortKeys(s) == SortSeq(s, LAMBDA a, b : Rank(a) < Rank(b))

\* strings.Split(m[key], "\n") of a bookkeeping annotation (a missing
\* annotation reads as "", whose only element "" names no key).
ManagedSet(m, key) == IF key \in DOMAIN m THEN ToSet(m[key]) ELSE {}

(***************************************************************************)
(* applyMaps.  order is the sequence in which the Go map iteration visits  *)
(* the copied source keys; it is chosen by the caller (any permutation).   *)
(***************************************************************************)
ApplySourceKeys(fromMap, excludeKeys) == DOMAIN fromMap \ excludeKeys

applyMaps(fromMap, toMap, managedKeys, excludeKeys, order) ==
    LET src  == ApplySourceKeys(fromMap, excludeKeys)
        keep == {k \in DOMAIN toMap :
                    \/ k \in excludeKeys
                    \/ k \notin src /\ k \notin managedKeys}
    IN << [k \in src \cup keep |-> IF k \in src THEN fromMap[k] ELSE toMap[k]],
          SortKeys(order) >>

\* Variant storing an empty managed annotation list instead of dropping it.
applyAnnotationsKeepEmpty(fromA, toA, excludeA, order) ==
    LET r == applyMaps(fromA, toA, ManagedSet(toA, ManagedAnnotationsAnnotation),
                       Bookkeeping \cup excludeA, order)
    IN Put(r[1], ManagedAnnotationsAnnotation, r[2])

\* applyAnnotations: merge, then store or drop the managed annotation list.
applyAnnotations(fromA, toA, excludeA, order) ==
    LET r == applyMaps(fromA, toA, ManagedSet(toA, ManagedAnnotationsAnnotation),
                       Bookkeeping \cup excludeA, order)
    IN IF r[2] = <<>> THEN Del(r[1], ManagedAnnotationsAnnotation)
                      ELSE Put(r[1], ManagedAnnotationsAnnotation, r[2])

\* Variant reading the managed annotation list as the managed label list.
applyLabelsReadsAnnotationList(fromL, toL, toA, order) ==
    LET r == applyMaps(fromL, toL, ManagedSet(toA, ManagedAnnotationsAnnotation),
                       Bookkeeping, order)
    IN << r[1],
          IF r[2] = <<>> THEN Del(toA, ManagedLabelsAnnotation)
                         ELSE Put(toA, ManagedLabelsAnnotation, r[2]) >>

\* applyLabels: merge labels, the managed label list lives in toA.
applyLabels(fromL, toL, toA, order) ==
    LET r == applyMaps(fromL, toL, ManagedSet(toA, ManagedLabelsAnnotation),
                       Bookkeeping, order)
    IN << r[1],
          IF r[2] = <<>> THEN Del(toA, ManagedLabelsAnnotation)
                         ELSE Put(toA, ManagedLabelsAnnotation, r[2]) >>

\* ApplyMetadata: annotations first, labels read the merged annotations.
ApplyMetadata(fromA, toA, fromL, toL, excludeA, ao, lo) ==
    applyLabels(fromL, toL, applyAnnotations(fromA, toA, excludeA, ao), lo)

\* HostAnnotations: merge without the back-references, then re-stamp them.
\* GVKForObject succeeds for the registered kind of the object.
HostAnnotations(fromA, toA, order) ==
    LET merged == applyAnnotations(fromA, toA, BackRefKeys, order)
        stamped == Put(Put(Put(merged, NameAnnotation, VName), UIDAnnotation, VUid),
                       KindAnnotation, VKind)
    IN IF VNamespace = NoNamespace THEN Del(stamped, NamespaceAnnotation)
                                   ELSE Put(stamped, NamespaceAnnotation, VNamespace)

\* multiNamespace.SingleNamespaceTarget(): the multi-namespace translator
\* never targets a single namespace, so HostLabelsMap and VirtualLabelsMap
\* take their copying branch (the other one belongs to the single-namespace
\* translator, which is not under src/).
SingleNamespaceTarget == FALSE
ASSUME ~SingleNamespaceTarget

\* HostLabels -> HostLabelsMap in multi-namespace mode: a copy of vLabels.
HostLabels(fromL) == [k \in DOMAIN fromL |-> fromL[k]]

(***************************************************************************)
(* The host-to-virtual direction.  copyMaps takes every key of fromMap     *)
(* that is not excluded and keeps the excluded keys of toMap; nothing else *)
(* of toMap survives.                                                      *)
(***************************************************************************)
\* Variant whose second loop is missing: excluded keys of toMap are lost.
copyMapsDropExcluded(fromMap, toMap, excluded) ==
    [k \in DOMAIN fromMap \ excluded |-> fromMap[k]]

copyMaps(fromMap, toMap, excluded) ==
    LET copied == DOMAIN fromMap \ excluded
    IN [k \in copied \cup (DOMAIN toMap \cap excluded) |->
            IF k \in copied THEN fromMap[k] ELSE toMap[k]]

\* VirtualAnnotations(pObj, vObj): the back-references and the bookkeeping
\* annotations stay on the host; the virtual object keeps its own.
VirtualAnnotations(fromA, toA) == copyMaps(fromA, toA, BackRefKeys \cup Bookkeeping)

\* VirtualLabelsMap in multi-namespace mode: a copy of the host labels.
VirtualLabelsMap(fromL) == [k \in DOMAIN fromL |-> fromL[k]]

\* VirtualLabels: a nil map reads as empty; a namespaced object takes
\* VirtualLabelsMap.
VirtualLabels(fromL) == VirtualLabelsMap(fromL)

(***************************************************************************)
(* Ghost bookkeeping of the ownership contract: a sync makes every key of  *)
(* the source virtual-owned and ends the ownership of virtual-owned keys   *)
(* the source no longer has; a host write takes a key that the virtual     *)
(* side does not own.                                                      *)
(***************************************************************************)
AfterSync(owner, srcKeys) ==
    [k \in DOMAIN owner |-> IF k \in srcKeys THEN "virtual"
                        ELSE IF owner[k] = "virtual" THEN "none" ELSE owner[k]]
AfterHostWrite(owner, k, who) ==
    IF owner[k] = "virtual" THEN owner ELSE [owner EXCEPT ![k] = who]

-----------------------------------------------------------------------------
BackRefs ==
    [k \in {NameAnnotation, UIDAnnotation, KindAnnotation, NamespaceAnnotation} |->
        CASE k = NameAnnotation -> VName
          [] k = UIDAnnotation  -> VUid
          [] k = KindAnnotation -> VKind
          [] OTHER              -> VNamespace]

Init ==
    /\ vAnn = EmptyMap
    /\ vLab = EmptyMap
    /\ pExists \in HostStarts
    /\ pAnn = IF pExists THEN BackRefs ELSE EmptyMap
    /\ pLab = EmptyMap
    /\ annOwner = [k \in UserKeys |-> "none"]
    /\ labOwner = [k \in LabelKeys |-> "none"]
    /\ synced = "no"
    /\ converge = FALSE

\* A user of the virtual cluster sets or removes an annotation; the
\* object-name annotation may be copied in from a host object.
VirtualEditAnnotation ==
    /\ ~converge
    /\ \E k \in UserKeys \cup {NameAnnotation} :
        \/ \E v \in Vals : vAnn' = Put(vAnn, k, v)
        \/ k \in DOMAIN vAnn /\ vAnn' = Del(vAnn, k)
    /\ synced' = "no"
    /\ UNCHANGED <<vLab, pAnn, pLab, pExists, annOwner, labOwner, converge>>

VirtualEditLabel ==
    /\ ~converge
    /\ \E k \in LabelKeys :
        \/ \E v \in Vals : vLab' = Put(vLab, k, v)
        \/ k \in DOMAIN vLab /\ vLab' = Del(vLab, k)
    /\ synced' = "no"
    /\ UNCHANGED <<vAnn, pAnn, pLab, pExists, annOwner, labOwner, converge>>

\* Another controller on the host cluster edits its own keys.
HostEditAnnotation ==
    /\ pExists
    /\ ~converge
    /\ \E k \in UserKeys :
        \/ \E v \in HostVals : pAnn' = Put(pAnn, k, v)
                           /\ annOwner' = AfterHostWrite(annOwner, k, "host")
        \/ k \in DOMAIN pAnn /\ pAnn' = Del(pAnn, k)
                             /\ annOwner' = AfterHostWrite(annOwner, k, "none")
    /\ synced' = "no"
    /\ UNCHANGED <<vAnn, vLab, pLab, pExists, labOwner, converge>>

HostEditLabel ==
    /\ pExists
    /\ ~converge
    /\ \E k \in LabelKeys :
        \/ \E v \in HostVals : pLab' = Put(pLab, k, v)
                           /\ labOwner' = AfterHostWrite(labOwner, k, "host")
        \/ k \in DOMAIN pLab /\ pLab' = Del(pLab, k)
                             /\ labOwner' = AfterHostWrite(labOwner, k, "none")
    /\ synced' = "no"
    /\ UNCHANGED <<vAnn, vLab, pAnn, pExists, annOwner, converge>>

\* HostMetadata: the first sync creates the host copy.
CreateHost ==
    /\ ~pExists
    /\ \E ao \in SetToSeqs(ApplySourceKeys(vAnn, Bookkeeping \cup BackRefKeys)) :
        pAnn' = HostAnnotations(vAnn, EmptyMap, ao)
    /\ pLab' = HostLabels(vLab)
    /\ pExists' = TRUE
    /\ annOwner' = AfterSync(annOwner, DOMAIN vAnn \cap UserKeys)
    /\ labOwner' = AfterSync(labOwner, DOMAIN vLab)
    /\ synced' = "created"
    /\ UNCHANGED <<vAnn, vLab, converge>>

\* Later syncs: ApplyMetadata, keeping the host's back-reference annotations.
SyncHost ==
    /\ pExists
    /\ \E ao \in SetToSeqs(ApplySourceKeys(vAnn, Bookkeeping \cup BackRefKeys)),
          lo \in SetToSeqs(ApplySourceKeys(HostLabels(vLab), Bookkeeping)) :
        LET r == ApplyMetadata(vAnn, pAnn, HostLabels(vLab), pLab, BackRefKeys, ao, lo)
        IN /\ pLab' = r[1]
           /\ pAnn' = r[2]
    /\ annOwner' = AfterSync(annOwner, DOMAIN vAnn \cap UserKeys)
    /\ labOwner' = AfterSync(labOwner, DOMAIN vLab)
    /\ synced' = "applied"
    /\ UNCHANGED <<vAnn, vLab, pExists, converge>>

\* The host-to-virtual update: VirtualAnnotations(pObj, vObj) and
\* VirtualLabels(ctx, pObj, vObj, ns) become the virtual object's metadata.
\* A back-sync that changes the virtual object counts as an edit of it.
SyncVirtual ==
    /\ pExists
    /\ vAnn' = VirtualAnnotations(pAnn, vAnn)
    /\ vLab' = VirtualLabels(pLab)
    /\ synced' = IF vAnn' = vAnn /\ vLab' = vLab THEN synced ELSE "no"
    /\ UNCHANGED <<pAnn, pLab, pExists, annOwner, labOwner, converge>>

\* From some point on, nobody edits either object any more.
StopEdits ==
    /\ ~converge
    /\ converge' = TRUE
    /\ UNCHANGED <<vAnn, vLab, pAnn, pLab, pExists, annOwner, labOwner, synced>>

Next ==
    \/ VirtualEditAnnotation
    \/ VirtualEditLabel
    \/ HostEditAnnotation
    \/ HostEditLabel
    \/ CreateHost
    \/ SyncHost
    \/ SyncVirtual
    \/ StopEdits

\* The reconcile loop runs a sync whenever one of the two objects changed;
\* the users' edits and their stopping get no fairness.
Spec == /\ Init /\ [][Next]_vars
        /\ WF_vars(CreateHost) /\ WF_vars(SyncHost) /\ WF_vars(SyncVirtual)

-----------------------------------------------------------------------------
Map(D) == UNION {[S -> D] : S \in SUBSET AllKeys}
\* A stored managed-key list: keys without duplicates, never empty.
ManagedList == UNION {SetToSeqs(S) : S \in SUBSET UserKeys \ {{}}}

TypeOK ==
    /\ vAnn \in Map(Vals \cup HostVals)
    /\ vLab \in Map(Vals \cup HostVals)
    /\ DOMAIN pAnn \subseteq AllKeys
    /\ \A k \in DOMAIN pAnn \cap Bookkeeping : pAnn[k] \in ManagedList
    /\ DOMAIN pLab \subseteq LabelKeys
    /\ pExists \in BOOLEAN
    /\ annOwner \in [UserKeys -> Owners]
    /\ labOwner \in [LabelKeys -> Owners]
    /\ synced \in {"no", "created", "applied"}
    /\ converge \in BOOLEAN

(***************************************************************************)
(* The ownership contract of the merge (applyMaps with the managed-key     *)
(* annotation): right after a sync, a key the virtual side owns carries    *)
(* the virtual value, a key whose virtual ownership ended is gone, and a   *)
(* key only the host side ever wrote is still there.                       *)
(***************************************************************************)
Owned(host, src, owner) ==
    \A k \in DOMAIN owner :
        /\ owner[k] = "virtual" => k \in DOMAIN host /\ host[k] = src[k]
        /\ owner[k] = "none"    => k \notin DOMAIN host
        /\ owner[k] = "host"    => k \in DOMAIN host

LabelOwnership ==
    synced # "no" => Owned(pLab, vLab, labOwner)

\* On an object whose host copy the update path manages from the start
\* (the label bookkeeping annotation is written by ApplyMetadata),
\* the labels obey the ownership contract after every sync.
LabelOwnershipOnUpdatePath == pExists => []LabelOwnership

\* An ApplyMetadata sync right after another one, with no edit in between,
\* writes nothing: the managed-key lists are the same whatever order the Go
\* map iteration visits the keys in, so repeated syncs issue no spurious
\* updates.
SyncIdempotent ==
    [][synced = "applied" /\ SyncHost => UNCHANGED <<pAnn, pLab>>]_vars

\* A back-sync right after a forward sync, with no edit in between, gives
\* the virtual object back every label and annotation it had, with its
\* value: copyMaps keeps the virtual object's own excluded annotations
\* (an object-name annotation the virtual user set included) and the merge
\* carried every other key to the host unchanged.
RoundTripAfterSync ==
    [][(synced \in {"created", "applied"} /\ SyncVirtual) =>
         /\ \A k \in DOMAIN vAnn : k \in DOMAIN vAnn' /\ vAnn'[k] = vAnn[k]
         /\ \A k \in DOMAIN vLab : k \in DOMAIN vLab' /\ vLab'[k] = vLab[k]]_vars

\* The state in which neither sync direction would write anything: a
\* forward ApplyMetadata and a back-sync both leave the objects as they are.
InSync ==
    /\ pExists
    /\ VirtualAnnotations(pAnn, vAnn) = vAnn
    /\ VirtualLabels(pLab) = vLab
    /\ \A ao \in SetToSeqs(ApplySourceKeys(vAnn, Bookkeeping \cup BackRefKeys)),
          lo \in SetToSeqs(ApplySourceKeys(HostLabels(vLab), Bookkeeping)) :
           ApplyMetadata(vAnn, pAnn, HostLabels(vLab), pLab, BackRefKeys, ao, lo)
               = <<pLab, pAnn>>

\* Once the users stop editing, the two sync directions settle: the
\* reconcile loop reaches a state that no forward or backward sync changes
\* and stays there, so the syncer does not keep rewriting either object.
Converges == converge ~> []InSync

=============================================================================
