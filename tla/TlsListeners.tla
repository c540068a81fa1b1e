----------------------------- MODULE TlsListeners -----------------------------
(***************************************************************************)
(* The HTTPS listeners (tls.py): each loads the certificate and the key    *)
(* when the process starts, and watch_certificates polls the two files and *)
(* loads them again once they have changed.  The files are written by      *)
(* somebody else, at any moment: a Kubernetes volume swaps both at once,   *)
(* another deployment writes them one after the other.  A version stands   *)
(* for a matching pair; OpenSSL takes a certificate, which drops a key it  *)
(* does not match, and then takes the key if it matches.                   *)
(***************************************************************************)
EXTENDS Integers, Sequences

CONSTANTS
    NListeners,   \* in the order main.py starts them
    MaxRenewals,  \* bound: certificates issued
    Missing,      \* the file is not there; nothing read, nothing loaded
    Broken        \* a context that has a certificate and no key to it

ASSUME ListenersAssumption == NListeners \in Nat \ {0} /\ MaxRenewals \in Nat
ASSUME VersionsAssumption ==
    /\ Missing \notin Nat /\ Missing \notin Nat \X Nat
    /\ Broken \notin Nat /\ Broken # Missing

VARIABLES
    certFile, keyFile,  \* the files
    issued,             \* the newest pair, which may not have been written yet
    swapped,            \* was it swapped in, or written file by file?
    at,                 \* the lifespan until its yield, then the watcher
    seen,               \* the certificate file's version, as this step of it read it
    turn,               \* the listener it works on
    loaded,             \* the listeners' SSL contexts
    last, current,      \* watch_certificates: the fingerprints
    polled,             \* history: has a poll gone well with the newest pair complete?
    unread,             \* history: has a poll been unable to read a key since?
    missed              \* history: it was completed between a load and the baseline

files == <<certFile, keyFile>>
tlsVars == <<files, issued, swapped, at, seen, turn, loaded, last, current, polled, unread, missed>>

Listeners == 1 .. NListeners
Versions == 0 .. MaxRenewals
Pair == Versions \X Versions

TlsTypeOK ==
    /\ certFile \in Versions \union {Missing} /\ keyFile \in Versions \union {Missing}
    /\ issued \in Versions /\ swapped \in BOOLEAN
    /\ at \in {"down", "build", "bind", "baseline", "asleep", "reload", "dead"}
    /\ seen \in Versions \union {Missing}
    /\ turn \in 0 .. NListeners
    /\ loaded \in [Listeners -> Versions \union {Missing, Broken}]
    /\ last \in Pair \union {Missing} /\ current \in Pair \union {Missing}
    /\ polled \in BOOLEAN /\ unread \in BOOLEAN /\ missed \in BOOLEAN

Unloaded == [l \in Listeners |-> Missing]

TlsInit ==
    /\ certFile = 0 /\ keyFile = 0 /\ issued = 0 /\ swapped = TRUE
    /\ at = "down" /\ seen = Missing /\ turn = 0 /\ loaded = Unloaded
    /\ last = Missing /\ current = Missing
    /\ polled = TRUE /\ unread = FALSE /\ missed = FALSE

--------------------------------------------------------------------------------
\* The files' owner.  Renewals are weeks apart and polls minutes: none comes
\* while the one before is being written or has not been polled.

Complete == certFile = issued /\ keyFile = issued

\* Between the first load and the watcher's baseline.
Unwatched == (at = "build" /\ (turn > 1 \/ seen # Missing)) \/ at \in {"bind", "baseline"}

Issue ==
    /\ issued < MaxRenewals
    /\ Complete /\ (polled \/ at \in {"down", "dead"})
    /\ issued' = issued + 1
    /\ polled' = FALSE /\ unread' = FALSE
    /\ UNCHANGED <<at, seen, turn, loaded, last, current>>

\* The volume's symlink.
Swap ==
    /\ Issue
    /\ swapped' = TRUE /\ certFile' = issued + 1 /\ keyFile' = issued + 1
    /\ missed' = Unwatched

Rewrite ==
    /\ Issue
    /\ swapped' = FALSE /\ missed' = FALSE
    /\ UNCHANGED files

FileWritten ==
    /\ missed' = (missed \/ (Unwatched /\ certFile' = issued /\ keyFile' = issued))
    /\ UNCHANGED <<issued, swapped, at, seen, turn, loaded, last, current, polled, unread>>

\* A file goes away and comes back, or is replaced.
WriteCert ==
    /\ certFile # issued /\ certFile' \in {issued, Missing} \ {certFile}
    /\ UNCHANGED keyFile
    /\ FileWritten

WriteKey ==
    /\ keyFile # issued /\ keyFile' \in {issued, Missing} \ {keyFile}
    /\ UNCHANGED certFile
    /\ FileWritten

--------------------------------------------------------------------------------
\* SSLContext.load_cert_chain, with what the context held before.
LoadFails(cert, key) == cert = Missing \/ cert # key

AfterLoad(held, cert, key) ==
    IF cert = Missing THEN held
    ELSE IF cert = key THEN cert
    ELSE IF cert = held THEN held ELSE Broken

ByOwner == <<certFile, keyFile, issued, swapped>>

Ends ==
    /\ at' = "down" /\ seen' = Missing /\ turn' = 0 /\ loaded' = Unloaded
    /\ last' = Missing /\ current' = Missing
    /\ missed' = FALSE
    /\ UNCHANGED <<ByOwner, polled, unread>>

\* tls_files: both are there.  A setup with one of them stops the start.
StartListeners ==
    /\ at = "down" /\ Missing \notin {certFile, keyFile}
    /\ at' = "build" /\ turn' = 1
    /\ UNCHANGED <<ByOwner, seen, loaded, last, current, polled, unread, missed>>

\* A load opens the certificate first.
OpenCert ==
    /\ at \in {"build", "reload"} /\ seen = Missing /\ certFile # Missing
    /\ seen' = certFile
    /\ UNCHANGED <<ByOwner, at, turn, loaded, last, current, polled, unread, missed>>

KeyMatches == seen # Missing /\ ~LoadFails(seen, keyFile)

\* Mutant: a poll is done when the first listener has the new pair.
LoadKeyFirstOnly ==
    /\ at \in {"build", "reload"} /\ KeyMatches
    /\ loaded' = [loaded EXCEPT ![turn] = AfterLoad(@, seen, keyFile)]
    /\ seen' = Missing
    /\ IF at = "build" /\ turn < NListeners
         THEN turn' = turn + 1 /\ UNCHANGED <<at, last, current, polled>>
         ELSE /\ turn' = 0
              /\ at' = IF at = "build" THEN "bind" ELSE "asleep"
              /\ last' = IF at = "build" THEN last ELSE current
              /\ current' = Missing
              /\ polled' = (polled \/ current = <<issued, issued>>)
    /\ UNCHANGED <<ByOwner, unread, missed>>

\* The key fits: the next listener, or on with the lifespan or the poll.
LoadKey ==
    /\ at \in {"build", "reload"} /\ KeyMatches
    /\ loaded' = [loaded EXCEPT ![turn] = AfterLoad(@, seen, keyFile)]
    /\ seen' = Missing
    /\ IF turn < NListeners
         THEN turn' = turn + 1 /\ UNCHANGED <<at, last, current, polled>>
         ELSE /\ turn' = 0
              /\ at' = IF at = "build" THEN "bind" ELSE "asleep"
              /\ last' = IF at = "build" THEN last ELSE current
              /\ current' = Missing
              /\ polled' = (polled \/ current = <<issued, issued>>)
    /\ UNCHANGED <<ByOwner, unread, missed>>

\* What a load that fails was given: a certificate it cannot open, or a key that
\* is missing, unreadable or another certificate's.
BadKey == {k \in {keyFile, Missing} : LoadFails(seen, k)}

\* A load of build_tls_server raises, at either file: the lifespan ends, and the
\* process with it.
BuildFails == at = "build" /\ Ends

\* Mutant: the new fingerprint is kept although the files could not be loaded.
ReloadFailsForgotten ==
    /\ at = "reload"
    /\ \/ seen = Missing /\ UNCHANGED <<loaded, unread>>
       \/ /\ seen # Missing
          /\ \E k \in BadKey :
                /\ loaded' = [loaded EXCEPT ![turn] = AfterLoad(@, seen, k)]
                /\ unread' = (unread \/ k # keyFile)
    /\ at' = "asleep" /\ seen' = Missing /\ turn' = 0 /\ last' = current /\ current' = Missing
    /\ UNCHANGED <<ByOwner, polled, missed>>

\* reload_certificates returns False: the listeners after this one are left
\* alone, and the fingerprint stays the old one.
ReloadFails ==
    /\ at = "reload"
    /\ \/ seen = Missing /\ UNCHANGED <<loaded, unread>>
       \/ /\ seen # Missing
          /\ \E k \in BadKey :
                /\ loaded' = [loaded EXCEPT ![turn] = AfterLoad(@, seen, k)]
                /\ unread' = (unread \/ k # keyFile)
    /\ at' = "asleep" /\ seen' = Missing /\ turn' = 0 /\ current' = Missing
    /\ UNCHANGED <<ByOwner, last, polled, missed>>

\* start_tls_server, for both: the ports are bound, or the lifespan ends.
Bind ==
    /\ at = "bind" /\ at' = "baseline"
    /\ UNCHANGED <<ByOwner, seen, turn, loaded, last, current, polled, unread, missed>>

BindFails == at = "bind" /\ Ends

\* _fingerprint stats the certificate, then the key.
StatCert ==
    /\ at \in {"baseline", "asleep"} /\ seen = Missing /\ certFile # Missing
    /\ seen' = certFile
    /\ UNCHANGED <<ByOwner, at, turn, loaded, last, current, polled, unread, missed>>

\* Mutant: a key that is not there is taken for one more fingerprint.
BaselineOfOne ==
    /\ at = "baseline" /\ seen # Missing
    /\ last' = <<seen, keyFile>> /\ at' = "asleep" /\ seen' = Missing
    /\ UNCHANGED <<ByOwner, turn, loaded, current, polled, unread, missed>>

Baseline ==
    /\ at = "baseline" /\ seen # Missing /\ keyFile # Missing
    /\ last' = <<seen, keyFile>> /\ at' = "asleep" /\ seen' = Missing
    /\ UNCHANGED <<ByOwner, turn, loaded, current, polled, unread, missed>>

StatFails == IF seen = Missing THEN certFile = Missing ELSE keyFile = Missing

\* The first fingerprint is taken outside the try: the watcher's task is gone.
BaselineFails ==
    /\ at = "baseline" /\ StatFails
    /\ at' = "dead" /\ seen' = Missing
    /\ UNCHANGED <<ByOwner, turn, loaded, last, current, polled, unread, missed>>

PollSeesNothingNew ==
    /\ at = "asleep" /\ seen # Missing /\ last = <<seen, keyFile>>
    /\ seen' = Missing
    /\ polled' = (polled \/ last = <<issued, issued>>)
    /\ UNCHANGED <<ByOwner, at, turn, loaded, last, current, unread, missed>>

PollSeesChange ==
    /\ at = "asleep" /\ seen # Missing /\ keyFile # Missing /\ last # <<seen, keyFile>>
    /\ current' = <<seen, keyFile>>
    /\ at' = "reload" /\ seen' = Missing /\ turn' = 1
    /\ UNCHANGED <<ByOwner, loaded, last, polled, unread, missed>>

\* "TLS certificate files not readable"
PollFails ==
    /\ at = "asleep" /\ StatFails
    /\ seen' = Missing
    /\ UNCHANGED <<ByOwner, at, turn, loaded, last, current, polled, unread, missed>>

\* The process ends, at any point.
StopListeners == at # "down" /\ Ends

FilesNext == Swap \/ Rewrite \/ WriteCert \/ WriteKey

StartNext == StartListeners \/ Bind \/ Baseline \/ BaselineFails

WatchNext == PollSeesNothingNew \/ PollSeesChange \/ PollFails \/ ReloadFails

ListenersNext == StartNext \/ WatchNext \/ OpenCert \/ LoadKey \/ StatCert

StartFails == BuildFails \/ BindFails

TlsNext == FilesNext \/ ListenersNext \/ StartFails \/ StopListeners

TlsSpec == TlsInit /\ [][TlsNext]_tlsVars

--------------------------------------------------------------------------------
\* The event loop is free for a handshake: no poll is under way.
Idle == at = "asleep" /\ seen = Missing

(***************************************************************************)
(* A renewed pair is served: once the watcher has polled with the pair in  *)
(* place, every listener has it, unless it came between the first load and *)
(* the watcher's baseline, however the polls before fell between the two   *)
(* files and whichever listener they stopped at (watch_certificates).      *)
(***************************************************************************)
RenewedIsServed == Idle /\ polled /\ ~missed => \A l \in Listeners : loaded[l] = issued

(***************************************************************************)
(* A reload that fails costs a listener its certificate only when it fell  *)
(* between two files written one after the other, or could not read the    *)
(* key, and only until the next poll that goes well (reload_certificates,  *)
(* "keeps serving the old pair").                                          *)
(***************************************************************************)
OutageOnlyMidRewrite ==
    Idle => \A l \in Listeners : loaded[l] = Broken => ~polled /\ (~swapped \/ unread)
================================================================================
