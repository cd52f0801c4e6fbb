------------------------------ MODULE Patterns ------------------------------
(***************************************************************************)
(* The patterns of KEYS.                                                   *)
(*                                                                         *)
(* The property holds the matcher of Glob against what it is to compute,   *)
(* said in another way; PatternsProofs proves it.                          *)
(***************************************************************************)
EXTENDS Glob, Draft

CONSTANTS
    PatternBytes,   \* bytes a pattern is made of
    PlainBytes,     \* those a longer pattern is made of
    MaxMixed,       \* bound: bytes of a pattern with others than PlainBytes
    Subjects        \* strings a pattern is matched against

ASSUME PatternsAssumption ==
    /\ PatternBytes \subseteq Byte
    /\ MaxMixed \in Nat /\ MaxMixed <= MaxPattern
    /\ Subjects \subseteq Seq(Byte)

AddPatternByte ==
    /\ input.kind = "pattern"
    /\ \E byte \in PatternBytes :
          /\ \/ Len(input.body) < MaxMixed
             \/ /\ Len(input.body) < MaxPattern
                /\ \A i \in DOMAIN input.body : input.body[i] \in PlainBytes
                /\ byte \in PlainBytes
          /\ Extend("pattern", byte)

-----------------------------------------------------------------------------
(***************************************************************************)
(* What a pattern covers.  A star covers any string, and one that is       *)
(* followed by something else than stars takes a search; another element   *)
(* covers the bytes it accepts, one at a time.                             *)
(***************************************************************************)
(* The pattern behind its first element, which no byte decides. *)
behind(p) == step_over(match_one(p, 0).pattern)

(* The string s, with d searches, by the pattern p, given what the shorter *)
(* patterns cover.                                                         *)
covered_by(shorter, p, s, d) ==
    LET inner == Len(p) > 1 /\ p[2] # Star
        left == IF inner THEN d - 1 ELSE d
    IN  IF p = <<>> THEN s = <<>>
        ELSE IF p[1] = Star
        THEN left >= 0 /\ \E i \in 1..(Len(s) + 1) : <<Tail(p), from(s, i), left>> \in shorter
        ELSE s # <<>> /\ match_one(p, s[1]).matched /\ <<behind(p), Tail(s), d>> \in shorter

Covering[n \in 0..MaxPattern] ==
    {c \in Patterns(n) \X Seq(Byte) \X Nat :
        covered_by(IF n = 0 THEN {} ELSE Covering[n - 1], c[1], c[2], c[3])}

Covered(p, s, d) == <<p, s, d>> \in Covering[MaxPattern]

(* A match that is found is one, and a match that takes no more searches   *)
(* than MAX_DEPTH is found, although the matcher gives the search up as    *)
(* soon as an inner star fails.  No pattern has more stars than bytes.     *)
(* The empty string is the exception: only the empty pattern matches it.   *)
FindsMatches(p, s) ==
    LET found == string_match(s, p)
    IN  IF s = <<>> THEN found <=> p = <<>>
        ELSE /\ found => Covered(p, s, Len(p))
             /\ Covered(p, s, MAX_DEPTH) => found

(* The matcher of KEYS finds a match if and only if there is one, for      *)
(* every pattern with at most MAX_DEPTH stars that need a search; with     *)
(* more it may miss a match and never invents one.                         *)
GlobFindsMatches == input.kind = "pattern" => \A s \in Subjects : FindsMatches(input.body, s)
=============================================================================
