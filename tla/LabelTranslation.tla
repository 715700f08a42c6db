--------------------------- MODULE LabelTranslation ---------------------------
(***************************************************************************)
(* Label keys of cluster-scoped objects in multi-namespace mode            *)
(* (src/pkg/util/translate/multi_namespace.go, src/unnamed/part_000).      *)
(*                                                                         *)
(* Towards the host every key that is not an always-synced label becomes   *)
(* LabelPrefix + namespace + vcluster name + 10 hex digits of its SHA-256  *)
(* (hostLabelCluster), and the pair is recorded in the mapping store.      *)
(* Back towards the virtual cluster, a key with LabelPrefix is looked up   *)
(* in the store and dropped on a miss.                                     *)
(*                                                                         *)
(* Keys are model values.  HostKeyOf is the digest-derived host key of     *)
(* every virtual key; PrefixedKeys are the virtual keys that themselves    *)
(* begin with LabelPrefix; the digest keys begin with it too.  The store   *)
(* (spec: RecordForwardKey / LookupReverseKey) is a function from host key *)
(* to virtual key, last write wins; a record with an empty key is not      *)
(* stored.                                                                 *)
(*                                                                         *)
(* The store's backend is not part of this code; when StoreVolatile holds *)
(* it is kept in the syncer's memory and a restart of the syncer loses it, *)
(* while the labels already written to the host object stay.              *)
(*                                                                         *)
(* VirtualLabelsMapCluster deletes and inserts keys of the map it ranges   *)
(* over.  The Go specification leaves open whether an entry created during *)
(* the range is produced later in the same range; the model takes both.    *)
(***************************************************************************)
EXTENDS Naturals, FiniteSets, Sequences, SequencesExt, Functions

CONSTANTS
    VKeys,          \* label keys a virtual object may carry
    SyncedKeys,     \* keyMatchesSyncedLabels: always-synced system labels
    PrefixedKeys,   \* virtual keys that begin with LabelPrefix
    HostKeyOf,      \* HostKeyOf[k]: hostLabelCluster(k, namespace)
    HostUserKeys,   \* label keys a host user may set
    ForeignKeys,    \* of those, keys with LabelPrefix the store does not know
    MarkerLabel,    \* vcluster.loft.sh/... marker label
    ControllerLabel,\* vcluster.loft.sh/... controller label
    MarkerValue,    \* MarkerLabelCluster(): SafeConcatName(namespace, "x", name)
    Vals,           \* label values
    SelectorKeys,   \* keys a selector of a virtual object may name
    StoreVolatile   \* a restart of the syncer empties the mapping store

ASSUME SyncedKeys \subseteq VKeys /\ PrefixedKeys \subseteq VKeys
ASSUME /\ DOMAIN HostKeyOf = VKeys \ SyncedKeys
       /\ IsInjective(HostKeyOf)
       /\ Range(HostKeyOf) \cap (VKeys \cup HostUserKeys) = {}
ASSUME ForeignKeys \subseteq HostUserKeys /\ HostUserKeys \ ForeignKeys \subseteq VKeys
ASSUME ForeignKeys \cap VKeys = {}
ASSUME SelectorKeys \subseteq VKeys
ASSUME StoreVolatile \in BOOLEAN

VARIABLES
    vLabels,    \* labels of the virtual object
    pLabels,    \* labels of the host object
    store,      \* the mapping store: host key -> virtual key
    snap,       \* ghost: vLabels at the last sync to the host
    fresh,      \* ghost: no edit since that sync
    restarted   \* ghost: the store was lost since that sync

vars == <<vLabels, pLabels, store, snap, fresh, restarted>>

HashKeys    == Range(HostKeyOf)
\* strings.HasPrefix(key, LabelPrefix)
HasLabelPrefix(k) == k \in PrefixedKeys \cup HashKeys \cup ForeignKeys
\* strings.HasPrefix(key, "vcluster.loft.sh/")
HasSystemPrefix(k) == HasLabelPrefix(k) \/ k \in {MarkerLabel, ControllerLabel}

Put(m, k, v) == (k :> v) @@ m
Del(m, k)    == Restrict(m, DOMAIN m \ {k})

\* recordLabelCluster(ctx, virtualLabel, hostLabel)
Record(s, vKey, hKey) == IF vKey = "" \/ hKey = "" THEN s ELSE (hKey :> vKey) @@ s

-----------------------------------------------------------------------------
(* Single keys.                                                            *)

\* hostLabelCluster(key, namespace): LabelPrefix, namespace, "x", vcluster
\* name, "x" and 10 hex digits of the key's SHA-256, joined by
\* SafeConcatName; an injective function of the key, given by HostKeyOf.
hostLabelCluster(key) == HostKeyOf[key]

\* Variant calling hostLabelCluster directly, without the deferred record.
HostLabelClusterNoRecord(s, key) ==
    IF key \in SyncedKeys THEN [key |-> key, store |-> s]
    ELSE [key |-> hostLabelCluster(key), store |-> s]

\* HostLabelCluster: the host key, and the store after the deferred record.
HostLabelCluster(s, key) ==
    IF key \in SyncedKeys THEN [key |-> key, store |-> s]
    ELSE [key |-> hostLabelCluster(key), store |-> Record(s, key, hostLabelCluster(key))]

\* Variant that passes a key it cannot find through unchanged.
VirtualLabelClusterMissPassesThrough(s, pLabel) ==
    IF pLabel \in SyncedKeys \/ ~HasLabelPrefix(pLabel) THEN [key |-> pLabel, ok |-> TRUE]
    ELSE IF pLabel \in DOMAIN s THEN [key |-> s[pLabel], ok |-> TRUE]
    ELSE [key |-> pLabel, ok |-> TRUE]

\* VirtualLabelCluster: <<key, found>>.  The deferred record stores the
\* pair it just looked up (or nothing on a miss), so the store is unchanged.
VirtualLabelCluster(s, pLabel) ==
    IF pLabel \in SyncedKeys \/ ~HasLabelPrefix(pLabel) THEN [key |-> pLabel, ok |-> TRUE]
    ELSE IF pLabel \in DOMAIN s THEN [key |-> s[pLabel], ok |-> TRUE]
    ELSE [key |-> "", ok |-> FALSE]

-----------------------------------------------------------------------------
(* Label maps.                                                             *)

\* HostLabelsMapCluster: translate every virtual key (recording each), keep
\* the host's controller label, set the marker label.  Host-only labels are
\* not carried over.
HostLabelsMapCluster(s, vl, pl) ==
    LET keys == SetToSeq(DOMAIN vl)
        step(acc, k) == LET t == HostLabelCluster(acc.store, k)
                        IN [map |-> Put(acc.map, t.key, vl[k]), store |-> t.store]
        tr == FoldLeft(step, [map |-> [x \in {} |-> x], store |-> s], keys)
        withCtl == IF ControllerLabel \in DOMAIN pl
                   THEN Put(tr.map, ControllerLabel, pl[ControllerLabel]) ELSE tr.map
    IN [map |-> Put(withCtl, MarkerLabel, MarkerValue), store |-> tr.store]

\* Variant whose second loop copies the excluded keys from the host map.
CopyExcludedFromHost(pl, vl) == [k \in DOMAIN pl |-> pl[k]]

\* copyMaps(pLabels, vLabels, exclude): the host's keys except the excluded
\* ones, and the virtual object's values of the excluded ones.
CopyExcluded(pl, vl) ==
    LET excl == {MarkerLabel, ControllerLabel}
    IN [k \in (DOMAIN pl \ excl) \cup (DOMAIN vl \cap excl) |->
            IF k \in excl THEN vl[k] ELSE pl[k]]

(***************************************************************************)
(* The "translate back" range over retLabels, as the set of maps it can    *)
(* leave.  Each produced key is deleted and, if translatable, re-inserted  *)
(* under its virtual key.  A key so created that was not in the map and    *)
(* not yet produced may or may not be produced later in the same range.    *)
(***************************************************************************)
RECURSIVE TranslateBack(_, _, _, _)
TranslateBack(s, m, pending, seen) ==
    IF pending = {} THEN {m}
    ELSE UNION {
        LET t   == VirtualLabelCluster(s, k)
            m1  == Del(m, k)
            m2  == IF t.ok THEN Put(m1, t.key, m[k]) ELSE m1
            new == IF t.ok /\ t.key \notin DOMAIN m1 \cup seen \cup {k}
                   THEN {t.key} ELSE {}
        IN UNION {TranslateBack(s, m2, (pending \ {k}) \cup later, seen \cup {k}) :
                  later \in SUBSET new}
        : k \in pending }

\* Variant whose last loop adds back every host label not there yet,
\* without skipping the vcluster.loft.sh/ keys.
VirtualLabelsMapClusterAddsAll(s, pl, vl) ==
    LET ret == CopyExcluded(pl, vl)
        back(m) == [k \in DOMAIN m \cup DOMAIN pl |->
                        IF k \in DOMAIN m THEN m[k] ELSE pl[k]]
    IN {back(m) : m \in TranslateBack(s, ret, DOMAIN ret, {})}

\* VirtualLabelsMapCluster: copy, translate back, then add the host's labels
\* without the vcluster.loft.sh/ prefix that are not there yet.
VirtualLabelsMapCluster(s, pl, vl) ==
    LET ret == CopyExcluded(pl, vl)
        back(m) == [k \in DOMAIN m \cup {k2 \in DOMAIN pl :
                                           ~HasSystemPrefix(k2) /\ k2 \notin DOMAIN m} |->
                        IF k \in DOMAIN m THEN m[k] ELSE pl[k]]
    IN {back(m) : m \in TranslateBack(s, ret, DOMAIN ret, {})}

-----------------------------------------------------------------------------
(* Selectors: matchLabels as a map, matchExpressions as a sequence of keys *)
(* (operators and values pass through and are left out).                  *)

\* Variant whose key function is hostLabelCluster without the record.
hostLabelSelectorPlain(s, sel) ==
    LET ks == SetToSeq(DOMAIN sel.match)
        stepM(acc, k) == LET t == HostLabelClusterNoRecord(acc.store, k)
                         IN [match |-> Put(acc.match, t.key, sel.match[k]), store |-> t.store]
        m == FoldLeft(stepM, [match |-> [x \in {} |-> x], store |-> s], ks)
        stepE(acc, k) == LET t == HostLabelClusterNoRecord(acc.store, k)
                         IN [exprs |-> Append(acc.exprs, t.key), store |-> t.store]
        e == FoldLeft(stepE, [exprs |-> <<>>, store |-> m.store], sel.exprs)
    IN [match |-> m.match, exprs |-> e.exprs, store |-> e.store]

\* hostLabelSelector with HostLabelCluster: every key is translated and
\* recorded.
hostLabelSelector(s, sel) ==
    LET ks == SetToSeq(DOMAIN sel.match)
        stepM(acc, k) == LET t == HostLabelCluster(acc.store, k)
                         IN [match |-> Put(acc.match, t.key, sel.match[k]), store |-> t.store]
        m == FoldLeft(stepM, [match |-> [x \in {} |-> x], store |-> s], ks)
        stepE(acc, k) == LET t == HostLabelCluster(acc.store, k)
                         IN [exprs |-> Append(acc.exprs, t.key), store |-> t.store]
        e == FoldLeft(stepE, [exprs |-> <<>>, store |-> m.store], sel.exprs)
    IN [match |-> m.match, exprs |-> e.exprs, store |-> e.store]

\* virtualLabelSelector with VirtualLabelCluster: a key without a known
\* translation is kept as it is.  (Two keys translating to one would keep
\* the value of whichever the range produced last; no selector here has
\* such keys.)
virtualLabelSelector(s, sel) ==
    LET tr(k) == LET t == VirtualLabelCluster(s, k) IN IF t.ok THEN t.key ELSE k
    IN [match |-> [k2 \in {tr(k) : k \in DOMAIN sel.match} |->
                      sel.match[CHOOSE k \in DOMAIN sel.match : tr(k) = k2]],
        exprs |-> [i \in DOMAIN sel.exprs |-> tr(sel.exprs[i])]]

-----------------------------------------------------------------------------
Init ==
    /\ vLabels = [k \in {} |-> k]
    /\ pLabels = [k \in {} |-> k]
    /\ store = [k \in {} |-> k]
    /\ snap = vLabels
    /\ fresh = FALSE
    /\ restarted = FALSE

\* A user sets or removes a label of the virtual object.
VirtualEditLabel ==
    /\ \E k \in VKeys :
          \/ \E v \in Vals : vLabels' = Put(vLabels, k, v)
          \/ k \in DOMAIN vLabels /\ vLabels' = Del(vLabels, k)
    /\ fresh' = FALSE
    /\ UNCHANGED <<pLabels, store, snap, restarted>>

\* Someone sets or removes a label, or the controller label, on the host.
HostEditLabel ==
    /\ \E k \in HostUserKeys \cup {ControllerLabel} :
          \/ \E v \in Vals : pLabels' = Put(pLabels, k, v)
          \/ k \in DOMAIN pLabels /\ pLabels' = Del(pLabels, k)
    /\ fresh' = FALSE
    /\ UNCHANGED <<vLabels, store, snap, restarted>>

\* The syncer writes the host object's labels: HostLabels ->
\* HostLabelsMapCluster for an object without a namespace.
SyncToHost ==
    LET r == HostLabelsMapCluster(store, vLabels, pLabels)
    IN /\ pLabels' = r.map
       /\ store' = r.store
       /\ snap' = vLabels
       /\ fresh' = TRUE
       /\ restarted' = FALSE
       /\ UNCHANGED vLabels

\* The syncer writes the virtual object's labels from the host object's:
\* VirtualLabels -> VirtualLabelsMapCluster.
SyncToVirtual ==
    /\ vLabels' \in VirtualLabelsMapCluster(store, pLabels, vLabels)
    /\ UNCHANGED <<pLabels, store, snap, fresh, restarted>>

Selectors ==
    {[match |-> m, exprs |-> e] :
        m \in UNION {[D -> Vals] : D \in SUBSET SelectorKeys},
        e \in {<<>>} \cup {<<k>> : k \in SelectorKeys}}

\* A selector of a cluster-scoped object is rewritten for the host
\* (HostLabelSelectorCluster); its keys are recorded in the store.
RewriteSelector ==
    /\ \E sel \in Selectors : store' = hostLabelSelector(store, sel).store
    /\ UNCHANGED <<vLabels, pLabels, snap, fresh, restarted>>

\* The syncer restarts with an empty in-memory mapping store; the objects
\* of both clusters keep their labels.
Restart ==
    /\ StoreVolatile
    /\ store' = [k \in {} |-> k]
    /\ restarted' = TRUE
    /\ UNCHANGED <<vLabels, pLabels, snap, fresh>>

Next ==
    \/ VirtualEditLabel \/ HostEditLabel \/ SyncToHost \/ SyncToVirtual
    \/ RewriteSelector \/ Restart

Spec == Init /\ [][Next]_vars

-----------------------------------------------------------------------------
TypeOK ==
    /\ vLabels \in UNION {[D -> Vals] : D \in SUBSET VKeys}
    /\ DOMAIN pLabels \subseteq
           HashKeys \cup SyncedKeys \cup HostUserKeys \cup {MarkerLabel, ControllerLabel}
    /\ store \in UNION {[D -> VKeys] : D \in SUBSET HashKeys}
    /\ {fresh, restarted} \subseteq BOOLEAN

\* Every digest key the syncer put on the host object has its virtual key
\* in the mapping store (the deferred record of HostLabelCluster), so the
\* way back (VirtualLabelCluster) finds it and not another key; a restart
\* that lost the store breaks this until the next sync to the host.
StoreCoversHostKeys ==
    ~restarted => \A h \in DOMAIN pLabels \cap HashKeys :
        h \in DOMAIN store /\ HostKeyOf[store[h]] = h

\* The spec: a cluster-scoped label key translated to the host and back
\* through the same mapping store is the original key.  A sync to the
\* virtual object right after a sync to the host, with no edit and no
\* restart between, gives the virtual object back the labels it had.
RoundTrip ==
    [][SyncToVirtual /\ fresh /\ ~restarted => vLabels' = snap]_vars

\* Across a restart that lost the store, a sync back to the virtual object
\* may drop the labels whose digest keys the store no longer knows, but it
\* never gives the virtual object a key or a value it did not have at the
\* last sync to the host: VirtualLabelCluster reports the miss and
\* VirtualLabelsMapCluster drops the key rather than passing the host key
\* through or resolving it to another virtual key.
BackSyncNeverInvents ==
    [][SyncToVirtual /\ fresh =>
          \A k \in DOMAIN vLabels' : k \in DOMAIN snap /\ vLabels'[k] = snap[k]]_vars

\* A selector rewritten for the host and read back through the store has
\* the keys and values it had (the spec's selector round trip).
SelectorRoundTrip ==
    \A sel \in Selectors :
        LET h == hostLabelSelector(store, sel)
        IN virtualLabelSelector(h.store, [match |-> h.match, exprs |-> h.exprs]) = sel

=============================================================================
