-------------------------------- MODULE KeyTable --------------------------------
(***************************************************************************)
(* What RegisteredKeyStore promises its callers: a table of AiApiKeys that *)
(* only a registration, a revocation or a purge changes.  Encryption, its  *)
(* migration, commits, restarts and rotated keys are not to be seen.       *)
(***************************************************************************)
CONSTANTS Users, AiApiKeys, Nobody

VARIABLE table

TableInit == table \in [Users -> AiApiKeys \union {Nobody}]

Put(u, k) == table' = [table EXCEPT ![u] = k]

Remove(u) == table' = [table EXCEPT ![u] = Nobody]

TableNext == \E u \in Users : Remove(u) \/ \E k \in AiApiKeys : Put(u, k)

TableSpec == TableInit /\ [][TableNext]_table
================================================================================
