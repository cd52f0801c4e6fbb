-------------------------------- MODULE Glob --------------------------------
(***************************************************************************)
(* The glob matcher of KEYS: pattern.rs, on sequences of bytes.            *)
(*                                                                         *)
(* The loop of string_match_impl is a recursion on what is left of the     *)
(* string and the pattern, here a recursive function: the matcher of       *)
(* patterns of n bytes calls the one of n - 1 bytes, for every turn of the *)
(* loop and every recursion of the code takes a byte of the pattern.       *)
(* skip_longer_matches, a flag the whole search shares, is an argument and *)
(* part of every result.                                                   *)
(***************************************************************************)
EXTENDS Types

CONSTANTS
    MAX_DEPTH,      \* the deepest recursion: 1000 in the code
    MaxPattern      \* bound: bytes of a pattern

ASSUME GlobAssumption == MAX_DEPTH \in Nat /\ MaxPattern \in Nat

Star == 42
AnyByte == 63
Open == 91
Close == 93
Caret == 94
Dash == 45
Backslash == 92

from(s, i) == SubSeq(s, i, Len(s))

Result(matched, skip) == [matched |-> matched, skip |-> skip]

in_range(a, b, byte) == (a <= byte /\ byte <= b) \/ (b <= byte /\ byte <= a)

(***************************************************************************)
(* The walk through a class, from the byte after its bracket (and caret):  *)
(* whether a member matched, and the pattern from the closing bracket on.  *)
(* A turn takes a byte at least, so that Len(p) of them end the loop.      *)
(***************************************************************************)
class_turn(byte, at) ==
    LET p == at.pattern
        past(n, hit) == [matched |-> at.matched \/ hit, pattern |-> from(p, n + 1)]
    IN  CASE Len(p) > 1 /\ p[1] = Backslash -> past(2, p[2] = byte)
          [] p = <<>> \/ p[1] = Close -> at
          [] Len(p) > 2 /\ p[1] \notin {Backslash, Close} /\ p[2] = Dash ->
                past(3, in_range(p[1], p[3], byte))
          [] OTHER -> past(1, p[1] = byte)

walk_class(p, byte) ==
    LET walk[n \in 0..Len(p)] ==
            IF n = 0 THEN [matched |-> FALSE, pattern |-> p] ELSE class_turn(byte, walk[n - 1])
    IN  walk[Len(p)]

(* One byte of the string against one element of the pattern other than a  *)
(* star: whether it matches, and the pattern at the end of that element.   *)
match_one(p, byte) ==
    CASE p[1] = AnyByte -> [matched |-> TRUE, pattern |-> p]
      [] p[1] = Open ->
            LET negated == Len(p) > 1 /\ p[2] = Caret
                class == walk_class(from(p, IF negated THEN 3 ELSE 2), byte)
            IN  [matched |-> class.matched # negated, pattern |-> class.pattern]
      [] p[1] = Backslash /\ Len(p) > 1 -> [matched |-> p[2] = byte, pattern |-> from(p, 2)]
      [] OTHER -> [matched |-> p[1] = byte, pattern |-> p]

(* The pattern behind its last byte looked at. *)
step_over(p) == IF p = <<>> THEN <<>> ELSE Tail(p)

drop_stars(p) ==
    LET others == {i \in DOMAIN p : p[i] # Star}
    IN  IF others = {} THEN <<>> ELSE from(p, CHOOSE i \in others : \A j \in others : i <= j)

(***************************************************************************)
(* The search.                                                             *)
(***************************************************************************)
call(s, p, skip, depth) == [string |-> s, pattern |-> p, skip |-> skip, depth |-> depth]

(* Mutant: the rest of the pattern is not tried at the last byte. *)
try_offsets_but_last(matcher, s, rest, skip, depth) ==
    LET tried(i) == matcher[call(from(s, i), rest, skip, depth + 1)]
        stops == {i \in 1..(Len(s) - 1) : tried(i).matched \/ tried(i).skip}
    IN  IF stops = {} THEN Result(FALSE, TRUE)
        ELSE tried(CHOOSE i \in stops : \A j \in stops : i <= j)

(* The rest of the pattern after a star, at every offset of the string up  *)
(* to one where it matches or where the flag is set, which is then that of *)
(* the result.  The flag is never unset, and is as it was at the offsets   *)
(* before.                                                                 *)
try_offsets(matcher, s, rest, skip, depth) ==
    LET tried(i) == matcher[call(from(s, i), rest, skip, depth + 1)]
        stops == {i \in 1..Len(s) : tried(i).matched \/ tried(i).skip}
    IN  IF stops = {} THEN Result(FALSE, TRUE)
        ELSE tried(CHOOSE i \in stops : \A j \in stops : i <= j)

match_by(matcher, s, p, skip, depth) ==
    LET one == match_one(p, s[1])
        next == step_over(one.pattern)
    IN  IF depth > MAX_DEPTH THEN Result(FALSE, skip)
        ELSE IF p = <<>> \/ s = <<>> THEN Result(p = <<>> /\ s = <<>>, skip)
        ELSE IF p[1] = Star
        THEN IF drop_stars(p) = <<>> THEN Result(TRUE, skip)
             ELSE try_offsets(matcher, s, drop_stars(p), skip, depth)
        ELSE IF ~one.matched THEN Result(FALSE, skip)
        ELSE IF Len(s) = 1 THEN Result(drop_stars(next) = <<>>, skip)
        ELSE matcher[call(Tail(s), next, skip, depth)]

(* The patterns of at most n bytes, and the calls with one of them. *)
Patterns(n) == {p \in Seq(Byte) : Len(p) <= n}

Calls(n) == [string : Seq(Byte), pattern : Patterns(n), skip : BOOLEAN, depth : Nat]

string_match_impl[n \in 0..MaxPattern] ==
    [c \in Calls(n) |->
        match_by(IF n = 0 THEN <<>> ELSE string_match_impl[n - 1],
                 c.string, c.pattern, c.skip, c.depth)]

string_match(s, p) == string_match_impl[MaxPattern][call(s, p, FALSE, 0)].matched
=============================================================================
