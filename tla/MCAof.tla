------------------------------- MODULE MCAof -------------------------------
(***************************************************************************)
(* Values of the constants of Aof for TLC: what the connections send, and  *)
(* the forms in which the log has it.                                      *)
(***************************************************************************)
EXTENDS Aof, MCExecutor

CONSTANTS main

ConnectionSymmetry == Permutations(Connections)

DurabilityRequests ==
    {[op |-> "MSet", items |-> << <<a, x>> >>], KeyCommand("GetDel", a), For("Expire", a, 1)}
LogOrderRequests == {SetOf(a, x), SetOf(a, y)}
TornTailRequests == {SetOf(a, x)}
RefusedRequests == {SetOf(a, x), SetIf(a, y, Nx), For("PExpire", a, 1)}

Logged(requests) ==
    requests \cup {At("PExpireAt", cmd.key, d) : cmd \in requests \cap ExpireCommand, d \in U64}

DurabilityCommands == Logged(DurabilityRequests)
LogOrderCommands == Logged(LogOrderRequests)
TornTailCommands == Logged(TornTailRequests)
RefusedCommands == Logged(RefusedRequests)
=============================================================================
