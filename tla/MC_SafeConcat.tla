--------------------------- MODULE MC_SafeConcat ---------------------------
(* SafeConcatName scaled to Limit 5 = Keep 3 + "-" + DigestLen 1: joins  *)
(* of up to 7 characters cross the limit, and the kept prefix is long    *)
(* enough to hold "..-".                                                 *)
EXTENDS SafeConcat

MC_Chars == {"a", ".", "-"}
=============================================================================
