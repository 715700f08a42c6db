---------------------------- MODULE ClusterNaming ----------------------------
(***************************************************************************)
(* The multi-namespace translator (src/pkg/util/translate/                 *)
(* multi_namespace.go) of several vcluster instances that share one host   *)
(* cluster.  Each instance is fixed by its current host namespace and its  *)
(* VClusterName.  It puts the objects of a virtual namespace into the host *)
(* namespace HostNamespace derives, gives cluster-scoped objects the name  *)
(* HostNameCluster derives and the marker label MarkerLabelCluster, and    *)
(* decides with IsManaged which host objects are its own.  Other tenants   *)
(* of the host cluster create objects too.                                 *)
(*                                                                         *)
(* A string is a sequence of one-character strings.  The literal          *)
(* "vcluster" and each hex digest are single elements: a digest is the     *)
(* string "sha:" followed by the digested input, so distinct inputs have   *)
(* distinct digests (the truncation to 8 hex characters is not modelled).  *)
(* Names are far shorter than 63 characters, so SafeConcatName only joins. *)
(***************************************************************************)
EXTENDS Naturals, Sequences, SequencesExt

CONSTANTS
    Instances,      \* [ns, name]: currentNamespace and VClusterName
    VNamespaces,    \* virtual namespaces synced
    VNames,         \* virtual object names
    Pins,           \* instance -> (virtual namespace -> pinned host namespace)
    OtherTenant,    \* creator of the objects no instance made
    Limit, Keep, DigestLen  \* see SafeConcat

VARIABLE host   \* the host cluster's objects

\* NewMultiNamespaceTranslator(currentNamespace): an instance's translator
\* holds its host namespace; VClusterName is the process-wide name of the
\* instance that the naming functions combine with it.
NewMultiNamespaceTranslator(currentNamespace, vclusterName) ==
    [ns |-> currentNamespace, name |-> vclusterName]

SC == INSTANCE SafeConcat WITH Chars <- {".", "-"}, MaxPart <- 0, MaxParts <- 0,
                               parts <- <<>>

Cat(s) == FoldLeft(LAMBDA acc, c : acc \o c, "", s)

\* hex.EncodeToString(sha256.Sum256([]byte(s)))[0:8]
Sha(s) == "sha:" \o Cat(s)

\* getNamespacePrefix()
Prefix == <<"vcluster">>

\* getNamespaceSuffix(currentNamespace, VClusterName)
NamespaceSuffix(i) == <<Sha(i.ns \o <<"x">> \o i.name)>>

\* hostNamespace: fmt.Sprintf("%s-%s-%s", prefix, sha(vNamespace)[0:8], suffix)
hostNamespace(i, v) == Prefix \o <<"-", Sha(v), "-">> \o NamespaceSuffix(i)

\* HostName: names of namespaced objects are kept.
HostName(n) == n

\* pro.VirtualNamespaceMatchesMapping and pro.HostNamespaceMatchesMapping
PinnedHost(i, v) == v \in DOMAIN Pins[i]
PinnedNamespaces(i) == {Pins[i][v] : v \in DOMAIN Pins[i]}

HostNamespace(i, v) ==
    IF PinnedHost(i, v) THEN Pins[i][v] ELSE hostNamespace(i, v)

\* Variant accepting every namespace with the prefix.
IsTargetedNamespacePrefixOnly(i, p) ==
    p \in PinnedNamespaces(i) \/ IsPrefix(Prefix, p)

IsTargetedNamespace(i, p) ==
    \/ p \in PinnedNamespaces(i)
    \/ IsPrefix(Prefix, p) /\ IsSuffix(NamespaceSuffix(i), p)

\* SafeConcatName(currentNamespace, "x", VClusterName)
MarkerLabelCluster(i) == SC!SafeConcatName(<<i.ns, <<"x">>, i.name>>)

\* Variant leaving the host namespace out of the name.
HostNameClusterNoNamespace(i, n) ==
    IF n = <<>> THEN <<>>
    ELSE SC!SafeConcatName(<<Prefix, n, <<"x">>, i.name>>)

\* SafeConcatName("vcluster", name, "x", currentNamespace, "x", VClusterName)
HostNameCluster(i, n) ==
    IF n = <<>> THEN <<>>
    ELSE SC!SafeConcatName(<<Prefix, n, <<"x">>, i.ns, <<"x">>, i.name>>)

(***************************************************************************)
(* A host object: namespace (<<>> when cluster-scoped), name, the          *)
(* MarkerLabel value (<<>> when absent), whether the object-name           *)
(* annotation is set, whether a kind annotation contradicts the object's   *)
(* kind, and who created it.                                               *)
(***************************************************************************)
IsManaged(i, o) ==
    IF o.ns = <<>> THEN o.marker = MarkerLabelCluster(i)
    ELSE IsTargetedNamespace(i, o.ns) /\ o.nameAnn /\ ~o.otherKind

Obj(ns, n, m, ann, k, by) ==
    [ns |-> ns, name |-> n, marker |-> m, nameAnn |-> ann, otherKind |-> k, by |-> by]

Init == host = {}

\* An instance syncs an object of a virtual namespace: HostName keeps the
\* name, the namespace is translated, the name annotation is set.
SyncNamespaced(i, v, n) ==
    host' = host \cup {Obj(HostNamespace(i, v), HostName(n), <<>>, TRUE, FALSE, i)}

\* An instance syncs a cluster-scoped object: the name is translated and
\* HostLabelsMapCluster sets MarkerLabel to MarkerLabelCluster().
SyncCluster(i, n) ==
    host' = host \cup {Obj(<<>>, HostNameCluster(i, n), MarkerLabelCluster(i),
                           TRUE, FALSE, i)}

\* Another tenant creates an object in an instance's host namespace,
\* without the name annotation or carrying a kind annotation of another
\* kind, or a cluster-scoped object without the marker.
ForeignObject(i, v, n) ==
    \/ host' = host \cup {Obj(HostNamespace(i, v), n, <<>>, FALSE, FALSE, OtherTenant)}
    \/ host' = host \cup {Obj(HostNamespace(i, v), n, <<>>, TRUE, TRUE, OtherTenant)}
    \/ host' = host \cup {Obj(<<>>, n, <<>>, FALSE, FALSE, OtherTenant)}

Next ==
    \E i \in Instances, v \in VNamespaces, n \in VNames :
        SyncNamespaced(i, v, n) \/ SyncCluster(i, n) \/ ForeignObject(i, v, n)

Spec == Init /\ [][Next]_host

-----------------------------------------------------------------------------
\* IsManaged claims exactly the objects an instance created itself: its own
\* namespaced and cluster-scoped objects are recognised, and no object of
\* another instance or another tenant is, so no instance adopts, updates or
\* deletes what belongs to someone else.
ManagedExactlyOwn ==
    \A o \in host, i \in Instances : IsManaged(i, o) <=> o.by = i

\* Two instances never derive the same host identity (namespace and name)
\* for their objects, so neither overwrites the other's.
HostNamesDistinct ==
    \A o1, o2 \in host :
        o1.by \in Instances /\ o2.by \in Instances /\ o1.by # o2.by
            => <<o1.ns, o1.name>> # <<o2.ns, o2.name>>

=============================================================================
