-------------------------------- MODULE Lifespan --------------------------------
(***************************************************************************)
(* One process (main.py, _lifespan): the store of keys is opened first,    *)
(* the HTTPS listeners are started last, if the deployment has a           *)
(* certificate, and a listener that cannot be started ends the process.    *)
(* While it runs it chunks texts, answers questions and enriches captures. *)
(* Its end takes all with it but the table, the files, what StudyLife has. *)
(* The parts share nothing else, and so a behaviour of the process is an   *)
(* interleaving of theirs.                                                 *)
(***************************************************************************)
EXTENDS SecretRotation, TlsListeners, Chunking, Retrieval, DateRanges, CaptureMatch

lifespanVars == <<vars, tlsVars, chunkVars, retrievalVars, dateVars, captureVars>>

\* The types of the parts besides the secrets': every variable stays in its set.
PartsTypeOK == TlsTypeOK /\ ChunkTypeOK /\ RetrievalTypeOK /\ DateTypeOK /\ CaptureTypeOK

LifespanInit == Init /\ TlsInit /\ ChunkInit /\ RetrievalInit /\ DateInit /\ CaptureInit

--------------------------------------------------------------------------------
\* Bound: one part at a time leaves its first state.  For the store that is an
\* empty table, opened or not.

AKey == CHOOSE k \in FernetKeys : TRUE

SecretsRest ==
    /\ registered = [u \in Users |-> Nobody] /\ rows = NoRows /\ rewritten = {}
    /\ encrypting = AKey /\ listed = {AKey} /\ conn["tick"] = "closed"
    /\ tokens = {} /\ signer = Legacy /\ verifying = {} /\ shared /\ quiet = 0

ListenersRest == at = "down" /\ issued = 0
ChunksRest == ~chunking /\ sentenceEnds = {}
QuestionRests == stage = "idle" /\ dateStage = "idle"
CaptureRests == matching = "idle"
ComputationsRest == ChunksRest /\ QuestionRests /\ CaptureRests

--------------------------------------------------------------------------------
\* A deployment without a certificate: there are no listeners.
Secrets ==
    /\ ListenersRest /\ ComputationsRest
    /\ Next
    /\ UNCHANGED <<tlsVars, chunkVars, retrievalVars, dateVars, captureVars>>

\* RegisteredKeyStore.setup comes before the listeners.
OpenMain ==
    /\ SecretsRest /\ ~ListenersRest
    /\ OpenStore("main") \/ FinishSetup("main")
    /\ UNCHANGED <<tokenVars, tlsVars, chunkVars, retrievalVars, dateVars, captureVars>>

Certificates ==
    /\ SecretsRest /\ ComputationsRest
    /\ FilesNext \/ (Serving /\ ListenersNext)
    /\ UNCHANGED <<vars, chunkVars, retrievalVars, dateVars, captureVars>>

Question ==
    \/ dateStage = "idle" /\ RetrievalNext /\ UNCHANGED dateVars
    \/ stage = "idle" /\ DateNext /\ UNCHANGED retrievalVars

Compute ==
    /\ SecretsRest /\ ListenersRest /\ Serving
    /\ \/ QuestionRests /\ CaptureRests /\ ChunkNext
          /\ UNCHANGED <<retrievalVars, dateVars, captureVars>>
       \/ ChunksRest /\ CaptureRests /\ Question /\ UNCHANGED <<chunkVars, captureVars>>
       \/ ChunksRest /\ QuestionRests /\ CaptureNext
          /\ UNCHANGED <<chunkVars, retrievalVars, dateVars>>
    /\ UNCHANGED <<vars, tlsVars>>

\* The process is stopped, or a listener could not be started.
EndServing ==
    /\ SecretsRest /\ Serving
    /\ Stop /\ UNCHANGED tokenVars
    /\ StartFails \/ StopListeners \/ (at = "down" /\ UNCHANGED tlsVars)
    /\ DropText /\ DropQuestion /\ DropDates /\ DropCapture

LifespanNext == Secrets \/ OpenMain \/ Certificates \/ Compute \/ EndServing

LifespanSpec == LifespanInit /\ [][LifespanNext]_lifespanVars
================================================================================
