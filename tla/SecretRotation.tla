---------------------------- MODULE SecretRotation ----------------------------
(***************************************************************************)
(* Both rotations in one deployment: the settings are read once per        *)
(* process (get_settings), so that what an operator changes on this side   *)
(* takes effect with a restart, and one restart may carry several changes; *)
(* StudyLife, its tokens and the clock go on meanwhile.                    *)
(***************************************************************************)
EXTENDS KeyStore, TokenRotation

vars == <<storeVars, tokenVars>>

TypeOK == StoreTypeOK /\ TokenTypeOK

Init == StoreInit /\ TokenInit

Store == StoreNext /\ UNCHANGED tokenVars

Deploy == Down /\ Redeploy /\ UNCHANGED storeVars

World == Elsewhere /\ UNCHANGED storeVars

Next == Store \/ Deploy \/ World

Spec == Init /\ [][Next]_vars
================================================================================
