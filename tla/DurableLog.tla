----------------------------- MODULE DurableLog -----------------------------
(***************************************************************************)
(* What the append-only file promises, without files, buffers, clocks or   *)
(* commands: a log that only grows while clients are served, of which a    *)
(* prefix is safe; a crash loses nothing of that prefix and leaves no gap; *)
(* and no client is served before all that is left has been applied, entry *)
(* by entry and in order.  A server may refuse to start; it may not start  *)
(* with half a log.                                                        *)
(***************************************************************************)
EXTENDS Naturals, Sequences

VARIABLES
    log,      \* the entries, oldest first
    safe,     \* how many of them no crash can take
    phase,    \* replay, serving or failed
    applied   \* how many of them the replay has applied

logvars == <<log, safe, phase, applied>>

Init == log = <<>> /\ safe = 0 /\ phase = "replay" /\ applied = 0

Grow ==
    /\ phase = "serving"
    /\ Len(log') > Len(log) /\ SubSeq(log', 1, Len(log)) = log
    /\ UNCHANGED <<safe, phase, applied>>

Secure ==
    /\ phase = "serving"
    /\ safe' \in safe..Len(log)
    /\ UNCHANGED <<log, phase, applied>>

Crash ==
    /\ phase # "failed" /\ phase' = "replay"
    /\ \E n \in safe..Len(log) : log' = SubSeq(log, 1, n)
    /\ applied' = 0
    /\ UNCHANGED safe

Apply ==
    /\ phase = "replay" /\ applied < Len(log)
    /\ applied' = applied + 1
    /\ UNCHANGED <<log, safe, phase>>

Serve ==
    /\ phase = "replay" /\ applied = Len(log)
    /\ phase' = "serving"
    /\ UNCHANGED <<log, safe, applied>>

Refuse ==
    /\ phase = "replay" /\ phase' = "failed"
    /\ UNCHANGED <<log, safe, applied>>

Next == Grow \/ Secure \/ Crash \/ Apply \/ Serve \/ Refuse

Spec == Init /\ [][Next]_logvars
=============================================================================
