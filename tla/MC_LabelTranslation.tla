------------------------- MODULE MC_LabelTranslation -------------------------
(***************************************************************************)
(* Constants for LabelTranslation.  Keys are strings standing for label    *)
(* keys: "app" a plain user label (a host user may set it on the host    *)
(* object too), "sync" an always-synced system label, "pk" a user label   *)
(* that itself begins with LabelPrefix, "h_app" and "h_pk" the digest     *)
(* keys hostLabelCluster derives from them, and "foreign" a LabelPrefix    *)
(* key the store does not know (one derived by another vcluster).         *)
(***************************************************************************)
EXTENDS LabelTranslation

MC_VKeys        == {"app", "sync"}
MC_HostKeyOf    == "app" :> "h_app"
MC_VKeysPk      == {"app", "pk"}
MC_HostKeyOfPk  == ("app" :> "h_app") @@ ("pk" :> "h_pk")
=============================================================================
