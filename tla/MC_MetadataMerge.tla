------------------------- MODULE MC_MetadataMerge -------------------------
(***************************************************************************)
(* Constants for MetadataMerge: two ordinary annotation keys, so the      *)
(* managed list has an order to get wrong, and one label key, which is    *)
(* enough for a label to be copied, dropped and kept; the host side       *)
(* writes its own value, so a virtual value overwriting it is visible.    *)
(***************************************************************************)
EXTENDS MetadataMerge

MC_UserKeys == {"app", "tier"}
MC_KeyOrder == <<"app", "tier">>
MC_LabelKeys == {"app"}
=============================================================================
