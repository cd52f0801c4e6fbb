------------------------------- MODULE Draft -------------------------------
(***************************************************************************)
(* An input of the server under construction: a request, the settings of a *)
(* configuration, a frame of the wire or of the AOF, or a pattern of KEYS. *)
(* It grows by a piece at a time, so that a run visits every input up to   *)
(* the bounds.                                                             *)
(***************************************************************************)
EXTENDS Sequences

VARIABLE input

Kinds == {"request", "settings", "frame", "pattern"}
Start(kind) == [kind |-> kind, body |-> <<>>]

(* The input grows by the element e. *)
Extend(kind, e) ==
    /\ input.kind = kind
    /\ input' = [input EXCEPT !.body = Append(@, e)]

(* The next input. *)
Restart == input.body # <<>> /\ input' \in {Start(kind) : kind \in Kinds}
=============================================================================
