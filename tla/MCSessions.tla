------------------------------ MODULE MCSessions ------------------------------
(***************************************************************************)
(* The executions of a session and the two stores that serialise them, one *)
(* part at a time.  A behaviour explores the part it begins with; the      *)
(* others rest.                                                            *)
(***************************************************************************)
EXTENDS MCChatRuns, RedisSessions, MemorySessions

VARIABLE part

partsVars == <<part, vars, redisVars, memoryVars>>

PartsInit == part \in {"runs", "redis", "memory"} /\ Init /\ RedisInit /\ MemoryInit

PartsNext ==
  /\ UNCHANGED part
  /\ \/ part = "runs" /\ Next /\ UNCHANGED <<redisVars, memoryVars>>
     \/ part = "redis" /\ RedisNext /\ UNCHANGED <<vars, memoryVars>>
     \/ part = "memory" /\ MemoryNext /\ UNCHANGED <<vars, redisVars>>

PartsSpec == PartsInit /\ [][PartsNext]_partsVars

(* Either store serialises the transactions of a session, and requests     *)
(* begin, end and are forgotten as every store promises: RedisKeepsPromise *)
(* and MemoryKeepsPromise, each asked only of the part that moves.         *)
StoresKeepPromise ==
  /\ Kept!ContractInit /\ Promised!ContractInit
  /\ [][/\ part = "redis" => Kept!ContractNext /\ HoldersAreAlone
        /\ part = "memory" => Promised!ContractNext /\ LeasedStays]_partsVars
  /\ []((part = "redis" => ClaimsAreOwn) /\ (part = "memory" => OneInside /\ NothingIsHoarded))

PartsSymmetry == MCSymmetry \cup Permutations(Tasks)
=============================================================================
