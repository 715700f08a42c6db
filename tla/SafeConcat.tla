----------------------------- MODULE SafeConcat -----------------------------
(***************************************************************************)
(* SafeConcatName of src/unnamed/part_000, the shortening rule every host  *)
(* identifier goes through.  A string is a sequence of one-character       *)
(* strings.  The 63/52/10 widths are the constants Limit/Keep/DigestLen,   *)
(* scaled down for TLC with the same relation Keep + 1 + DigestLen = Limit.*)
(* The digest is the first DigestLen hex characters of a SHA-256; only its *)
(* alphabet matters to the properties checked here (hex has no "." and no  *)
(* "-"), so it is a fixed hex string.                                      *)
(*                                                                         *)
(* The module is a checker for the pure function: the state is the list   *)
(* of name parts handed to SafeConcatName, and any list may follow any.    *)
(***************************************************************************)
EXTENDS Naturals, Sequences, SequencesExt

CONSTANTS
    Chars,      \* characters names are made of (must include "." and "-")
    MaxPart,    \* longest name part enumerated
    MaxParts,   \* most parts enumerated
    Limit,      \* 63: longest identifier
    Keep,       \* 52: characters kept of an over-long join
    DigestLen   \* 10: hex characters of the digest appended

ASSUME {".", "-"} \subseteq Chars
ASSUME Keep + 1 + DigestLen = Limit

VARIABLE parts

Str == BoundedSeq(Chars, MaxPart)
Inputs == UNION {[1..n -> Str] : n \in 1..MaxParts}

\* strings.Join(name, "-")
JoinDash(ps) == FoldLeft(LAMBDA acc, p : acc \o <<"-">> \o p, Head(ps), Tail(ps))

\* hex.EncodeToString(sha256.Sum256(s))[0:DigestLen]
Digest(s) == [i \in 1..DigestLen |-> "0"]

(***************************************************************************)
(* strings.ReplaceAll(s, ".-", "-"): one left-to-right pass; after a match *)
(* the scan resumes behind the matched ".-".                               *)
(***************************************************************************)
RECURSIVE ReplaceDotDash(_)
ReplaceDotDash(s) ==
    IF Len(s) < 2 THEN s
    ELSE IF s[1] = "." /\ s[2] = "-"
         THEN <<"-">> \o ReplaceDotDash(Tail(Tail(s)))
         ELSE <<s[1]>> \o ReplaceDotDash(Tail(s))

\* fullPath[0:52] + "-" + digest, then ReplaceAll(".-", "-")
Shorten(full) ==
    ReplaceDotDash(SubSeq(full, 1, Keep) \o <<"-">> \o Digest(full))

\* len(fullPath) > 63
NeedsShortening(full) == Len(full) > Limit

SafeConcatName(ps) ==
    LET full == JoinDash(ps)
    IN IF NeedsShortening(full) THEN Shorten(full) ELSE full

-----------------------------------------------------------------------------
Init == parts \in Inputs
Next == parts' \in Inputs
Spec == Init /\ [][Next]_parts

Full == JoinDash(parts)
Out  == SafeConcatName(parts)


\* The spec: a shortened identifier never has a "." immediately followed by
\* "-".  ReplaceAll makes a single pass, so "..-" becomes ".-".
NoDotDash ==
    NeedsShortening(Full) =>
        ~\E i \in 1..Len(Out) - 1 : Out[i] = "." /\ Out[i + 1] = "-"

=============================================================================
