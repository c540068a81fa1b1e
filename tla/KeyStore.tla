------------------------------- MODULE KeyStore -------------------------------
(***************************************************************************)
(* The AiApiKeys at rest (studylife/registered_keys.py): every row is      *)
(* encrypted with the first key of AI_KEY_ENCRYPTION_KEY and readable with *)
(* all of them; setup() takes a row it cannot decrypt for a legacy         *)
(* plaintext and encrypts it.  The process opens one store when it starts  *)
(* and another one for every sync tick, so that this migration runs beside *)
(* registrations, each on its own SQLite connection.                       *)
(***************************************************************************)
EXTENDS Integers, Sequences

CONSTANTS
    Users,
    AiApiKeys,     \* what StudyLife registers
    FernetKeys,
    NoRow, Nobody  \* no row, no registration

ASSUME RowsAssumption == Nobody \notin AiApiKeys

VARIABLES
    encrypting,    \* AI_KEY_ENCRYPTION_KEY: the first key
    listed,        \* AI_KEY_ENCRYPTION_KEY: all keys, in an order that decides nothing
    rows,          \* the table: the AiApiKey, and what it is encrypted with, outermost first
    conn,          \* a store's connection: closed, migrating, open
    unseen,        \* migration: the rows its SELECT returned and it has not come to
    uncommitted,   \* migration: its UPDATEs so far
    registered,    \* history: the AiApiKey StudyLife registered last
    rewritten      \* history: users registered since the first key was put first

storeVars == <<encrypting, listed, rows, conn, unseen, uncommitted, registered, rewritten>>

Connections == {"main", "tick"}
Rows == [key : AiApiKeys, under : Seq(FernetKeys)]
Row(k, under) == [key |-> k, under |-> under]
NoRows == [u \in Users |-> NoRow]

ASSUME NoRowAssumption == NoRow \notin Rows

StoreTypeOK ==
    /\ encrypting \in FernetKeys /\ listed \subseteq FernetKeys
    /\ rows \in [Users -> Rows \union {NoRow}]
    /\ conn \in [Connections -> {"closed", "migrating", "open"}]
    /\ unseen \in [Connections -> [Users -> Rows \union {NoRow}]]
    /\ uncommitted \in [Connections -> [Users -> Rows \union {NoRow}]]
    /\ registered \in [Users -> AiApiKeys \union {Nobody}]
    /\ rewritten \subseteq Users

\* A table from before encryption, and its first AI_KEY_ENCRYPTION_KEY.
StoreInit ==
    /\ registered \in [Users -> AiApiKeys \union {Nobody}]
    /\ rows = [u \in Users |-> IF registered[u] = Nobody THEN NoRow ELSE Row(registered[u], <<>>)]
    /\ encrypting \in FernetKeys /\ listed = {encrypting}
    /\ conn = [c \in Connections |-> "closed"]
    /\ unseen = [c \in Connections |-> NoRows]
    /\ uncommitted = [c \in Connections |-> NoRows]
    /\ rewritten = {}

--------------------------------------------------------------------------------
Serving == conn["main"] = "open"
Down == \A c \in Connections : conn[c] = "closed"

\* Mutant: a row under an older key is not recognised.
DecryptableFirst(row) == row.under # <<>> /\ Head(row.under) = encrypting

Decryptable(row) == row.under # <<>> /\ Head(row.under) \in listed
Decrypted(row) == Row(row.key, Tail(row.under))

\* What the first key makes of it.
Encrypted(row) == Row(row.key, <<encrypting>> \o row.under)

\* SQLite has one writer: an UPDATE waits for the other connection's commit.
Unlocked(c) == \A d \in Connections \ {c} : uncommitted[d] = NoRows

\* RegisteredKeyStore.setup: the lifespan's before anything is served, then each tick's.
OpenStore(c) ==
    /\ IF c = "main" THEN Down ELSE Serving /\ conn[c] = "closed"
    /\ conn' = [conn EXCEPT ![c] = "migrating"]
    /\ unseen' = [unseen EXCEPT ![c] = rows]
    /\ UNCHANGED <<encrypting, listed, rows, uncommitted, registered, rewritten>>

\* A row that decrypts is left alone.
SkipRow(c, u) ==
    /\ unseen[c][u] # NoRow /\ Decryptable(unseen[c][u])
    /\ unseen' = [unseen EXCEPT ![c][u] = NoRow]
    /\ UNCHANGED <<encrypting, listed, rows, conn, uncommitted, registered, rewritten>>

\* The UPDATE writes what the SELECT returned; it does not bring a deleted row back.
MigrateRow(c, u) ==
    /\ unseen[c][u] # NoRow /\ ~Decryptable(unseen[c][u])
    /\ Unlocked(c)
    /\ unseen' = [unseen EXCEPT ![c][u] = NoRow]
    /\ uncommitted' = [uncommitted EXCEPT ![c][u] =
                          IF rows[u] = NoRow THEN NoRow ELSE Encrypted(unseen[c][u])]
    /\ UNCHANGED <<encrypting, listed, rows, conn, registered, rewritten>>

\* Mutant: setup returns without a commit.
FinishSetupUncommitted(c) ==
    /\ conn[c] = "migrating" /\ unseen[c] = NoRows
    /\ conn' = [conn EXCEPT ![c] = "open"]
    /\ uncommitted' = [uncommitted EXCEPT ![c] = NoRows]
    /\ UNCHANGED <<encrypting, listed, rows, unseen, registered, rewritten>>

FinishSetup(c) ==
    /\ conn[c] = "migrating" /\ unseen[c] = NoRows
    /\ conn' = [conn EXCEPT ![c] = "open"]
    /\ rows' = [u \in Users |-> IF uncommitted[c][u] # NoRow THEN uncommitted[c][u] ELSE rows[u]]
    /\ uncommitted' = [uncommitted EXCEPT ![c] = NoRows]
    /\ UNCHANGED <<encrypting, listed, unseen, registered, rewritten>>

\* The tick is over.
CloseTick ==
    /\ conn["tick"] = "open"
    /\ conn' = [conn EXCEPT !["tick"] = "closed"]
    /\ UNCHANGED <<encrypting, listed, rows, unseen, uncommitted, registered, rewritten>>

\* Mutant: a registration is encrypted with whichever key is at hand.
SetKeyAnyListed(u, k) ==
    /\ Serving /\ Unlocked("main")
    /\ \E f \in listed : rows' = [rows EXCEPT ![u] = Row(k, <<f>>)]
    /\ registered' = [registered EXCEPT ![u] = k]
    /\ rewritten' = rewritten \union {u}
    /\ UNCHANGED <<encrypting, listed, conn, unseen, uncommitted>>

SetKey(u, k) ==
    /\ Serving /\ Unlocked("main")
    /\ rows' = [rows EXCEPT ![u] = Encrypted(Row(k, <<>>))]
    /\ registered' = [registered EXCEPT ![u] = k]
    /\ rewritten' = rewritten \union {u}
    /\ UNCHANGED <<encrypting, listed, conn, unseen, uncommitted>>

\* Mutant: the row is blanked, not deleted.
DeleteKeyBlank(c, u) ==
    /\ Serving /\ conn[c] = "open" /\ Unlocked(c)
    /\ rows' = [rows EXCEPT ![u] = Nobody]
    /\ registered' = [registered EXCEPT ![u] = Nobody]
    /\ UNCHANGED <<encrypting, listed, conn, unseen, uncommitted, rewritten>>

\* A revocation, or the purge of a tick.
DeleteKey(c, u) ==
    /\ Serving /\ conn[c] = "open" /\ Unlocked(c)
    /\ rows' = [rows EXCEPT ![u] = NoRow]
    /\ registered' = [registered EXCEPT ![u] = Nobody]
    /\ UNCHANGED <<encrypting, listed, conn, unseen, uncommitted, rewritten>>

\* The process ends, anywhere; SQLite rolls back what was not committed.
Stop ==
    /\ ~Down
    /\ conn' = [c \in Connections |-> "closed"]
    /\ unseen' = [c \in Connections |-> NoRows]
    /\ uncommitted' = [c \in Connections |-> NoRows]
    /\ UNCHANGED <<encrypting, listed, rows, registered, rewritten>>

\* Rotation as the module documents it: a new key is put first ...
PrependKey(k) ==
    /\ Down /\ k \notin listed
    /\ encrypting' = k /\ listed' = listed \union {k}
    /\ rewritten' = {}
    /\ UNCHANGED <<rows, conn, unseen, uncommitted, registered>>

\* ... and the old ones go when every row has been rewritten by a registration.
DropOldKeys ==
    /\ Down /\ \A u \in Users : registered[u] # Nobody => u \in rewritten
    /\ listed # {encrypting} /\ listed' = {encrypting}
    /\ UNCHANGED <<encrypting, rows, conn, unseen, uncommitted, registered, rewritten>>

Setup(c) == OpenStore(c) \/ FinishSetup(c) \/ \E u \in Users : SkipRow(c, u) \/ MigrateRow(c, u)

Requests(u) == (\E k \in AiApiKeys : SetKey(u, k)) \/ \E c \in Connections : DeleteKey(c, u)

Rotate == DropOldKeys \/ \E k \in FernetKeys : PrependKey(k)

StoreNext ==
    \/ \E c \in Connections : Setup(c)
    \/ \E u \in Users : Requests(u)
    \/ CloseTick \/ Stop \/ Rotate

--------------------------------------------------------------------------------
(***************************************************************************)
(* Through migrations, restarts in the middle of one, and rotations that   *)
(* follow the documented order, whoever is served can be served: get()     *)
(* returns what StudyLife registered last, for every registered user and   *)
(* for nobody else (RegisteredKeyStore.get).                               *)
(***************************************************************************)
KeysReadable ==
    Serving => \A u \in Users :
        IF registered[u] = Nobody
          THEN rows[u] = NoRow
          ELSE /\ rows[u] # NoRow /\ Decryptable(rows[u])
               /\ Decrypted(rows[u]) = Row(registered[u], <<>>)

(***************************************************************************)
(* Once the process serves, the migration of a tick finds nothing to do,   *)
(* so it cannot overwrite a registration it has not seen ("a fully-migrated*)
(* table does zero UPDATEs on a repeat call", _migrate_plaintext_keys).    *)
(***************************************************************************)
TicksMigrateNothing == uncommitted["tick"] = NoRows

\* What get() makes of a row with the present keys; a row nobody has migrated yet
\* is plaintext, and what is under two keys or an unknown one is of no use.
Answer(u) ==
    IF rows[u] = NoRow THEN Nobody
    ELSE IF rows[u].under = <<>> \/ (Decryptable(rows[u]) /\ Tail(rows[u].under) = <<>>)
         THEN rows[u].key ELSE NoRow

Table == INSTANCE KeyTable WITH table <- [u \in Users |-> Answer(u)]

(***************************************************************************)
(* The store implements the plain table: no step of a migration, commit,   *)
(* rollback, restart or rotation is seen through get(), and whatever two   *)
(* connections do beside each other, set() and delete() of one user change *)
(* that user's entry and no other (RegisteredKeyStore).                    *)
(***************************************************************************)
ImplementsKeyTable == Table!TableSpec
================================================================================
