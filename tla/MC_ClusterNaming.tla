-------------------------- MODULE MC_ClusterNaming --------------------------
(* Two vcluster instances with the same VClusterName in different host   *)
(* namespaces (the usual way to run several), one pinning a virtual       *)
(* namespace; and two instances whose namespace and name differ only in  *)
(* where an "x" sits.                                                     *)
EXTENDS ClusterNaming

I1 == NewMultiNamespaceTranslator(<<"a">>, <<"c">>)
I2 == NewMultiNamespaceTranslator(<<"b">>, <<"c">>)
MC_Instances == {I1, I2}
MC_VNamespaces == {<<"p">>, <<"q">>}
MC_VNames == {<<"n">>}
MC_Pins == [i \in MC_Instances |-> IF i = I1 THEN <<"p">> :> <<"h">> ELSE <<>>]

J1 == NewMultiNamespaceTranslator(<<"a", "x">>, <<"b">>)
J2 == NewMultiNamespaceTranslator(<<"a">>, <<"x", "b">>)
MC_InstancesXSplit == {J1, J2}
MC_PinsNone == [i \in MC_InstancesXSplit |-> <<>>]
=============================================================================
