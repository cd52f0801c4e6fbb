------------------------------- MODULE Inputs -------------------------------
(***************************************************************************)
(* Everything the server reads: words and settings (Requests), frames      *)
(* (Protocol) and patterns (Patterns).  What reads them shares no state,   *)
(* so one input at a time is enough.                                       *)
(***************************************************************************)
EXTENDS Requests, Protocol, Patterns

Init == input \in {Start(kind) : kind \in Kinds}

Next ==
    \/ AddWord \/ AddToSettings
    \/ AddString \/ AddFrameByte
    \/ AddPatternByte
    \/ Restart

Spec == Init /\ [][Next]_input
=============================================================================
