-------------------------- MODULE SecretRotationProofs --------------------------
(***************************************************************************)
(* Rotations lose neither a row nor a token, for any number of users, keys *)
(* and key ids, and any lifetime of a token.                               *)
(***************************************************************************)
EXTENDS SecretRotation, TLAPS

--------------------------------------------------------------------------------
\* One layer of encryption, and none.
LEMMA LayerFacts ==
    ASSUME NEW S, NEW k \in S
    PROVE  /\ <<>> \in Seq(S) /\ <<k>> \in Seq(S) /\ <<k>> # <<>>
           /\ Head(<<k>>) = k /\ Tail(<<k>>) = <<>> /\ <<k>> \o <<>> = <<k>>
OBVIOUS

LEMMA EncryptedTyped ==
    ASSUME NEW row \in Rows, encrypting \in FernetKeys
    PROVE  Encrypted(row) \in Rows /\ Encrypted(row).key = row.key /\ Encrypted(row) # NoRow
<1>1. row.key \in AiApiKeys /\ <<encrypting>> \o row.under \in Seq(FernetKeys)
  BY DEF Rows
<1>2. Encrypted(row) \in Rows
  BY <1>1 DEF Encrypted, Row, Rows
<1> QED BY <1>2, NoRowAssumption DEF Encrypted, Row

LEMMA StoreTypeStep == StoreTypeOK /\ [StoreNext]_storeVars => StoreTypeOK'
<1> SUFFICES ASSUME StoreTypeOK, StoreNext PROVE StoreTypeOK'
  BY DEF StoreTypeOK, storeVars
<1> USE DEF StoreTypeOK
<1>0. NoRows \in [Users -> Rows \union {NoRow}]
  BY DEF NoRows
<1>1. ASSUME NEW c \in Connections, OpenStore(c) PROVE StoreTypeOK'
  BY <1>1 DEF OpenStore
<1>2. ASSUME NEW c \in Connections, NEW u \in Users, SkipRow(c, u) PROVE StoreTypeOK'
  BY <1>2 DEF SkipRow
<1>3. ASSUME NEW c \in Connections, NEW u \in Users, MigrateRow(c, u) PROVE StoreTypeOK'
  <2>1. unseen[c][u] \in Rows
    BY <1>3 DEF MigrateRow
  <2>2. Encrypted(unseen[c][u]) \in Rows
    BY <2>1, EncryptedTyped
  <2> QED BY <1>3, <2>2 DEF MigrateRow
<1>4. ASSUME NEW c \in Connections, FinishSetup(c) PROVE StoreTypeOK'
  BY <1>0, <1>4 DEF FinishSetup
<1>5. CASE CloseTick
  BY <1>5 DEF CloseTick
<1>6. ASSUME NEW u \in Users, NEW k \in AiApiKeys, SetKey(u, k) PROVE StoreTypeOK'
  <2>1. Row(k, <<>>) \in Rows
    BY DEF Row, Rows
  <2>2. Encrypted(Row(k, <<>>)) \in Rows
    BY <2>1, EncryptedTyped
  <2> QED BY <1>6, <2>2 DEF SetKey
<1>7. ASSUME NEW c \in Connections, NEW u \in Users, DeleteKey(c, u) PROVE StoreTypeOK'
  BY <1>7 DEF DeleteKey
<1>8. CASE Stop
  BY <1>0, <1>8 DEF Stop
<1>9. CASE Rotate
  BY <1>9 DEF Rotate, PrependKey, DropOldKeys
<1> QED
  BY <1>1, <1>2, <1>3, <1>4, <1>5, <1>6, <1>7, <1>8, <1>9 DEF StoreNext, Setup, Requests

LEMMA TokenTypeStep == TokenTypeOK /\ [Elsewhere \/ Redeploy]_tokenVars => TokenTypeOK'
<1> SUFFICES ASSUME TokenTypeOK, Elsewhere \/ Redeploy PROVE TokenTypeOK'
  BY DEF TokenTypeOK, tokenVars
<1> USE TokensAssumption DEF TokenTypeOK, Signers
<1>1. CASE Mint
  BY <1>1 DEF Mint, Token
<1>2. CASE Second
  <2>1. \A t \in tokens : Older(t) \in Token
    BY DEF Older, Token
  <2>2. quiet' \in 0 .. Lifetime + 1
    BY <1>2 DEF Second
  <2> QED BY <1>2, <2>1, <2>2 DEF Second
<1>3. CASE \E t \in tokens : Spend(t)
  BY <1>3 DEF Spend
<1>4. CASE \E s \in Signers : SignWith(s)
  BY <1>4 DEF SignWith
<1>5. CASE Redeploy
  BY <1>5 DEF Redeploy, DropShared, AddVerifier, DropVerifier
<1> QED BY <1>1, <1>2, <1>3, <1>4, <1>5 DEF Elsewhere

(***************************************************************************)
(* Every variable of the store and of the tokens stays in its set, for any *)
(* number of users, keys and key ids (RegisteredKeyStore, identity.py).    *)
(***************************************************************************)
THEOREM RotationTypeCorrect == Spec => []TypeOK
<1>1. Init => TypeOK
  <2> SUFFICES ASSUME Init PROVE TypeOK
    OBVIOUS
  <2>1. StoreTypeOK
    <3>1. \A k \in AiApiKeys : Row(k, <<>>) \in Rows
      BY DEF Row, Rows
    <3> QED BY <3>1 DEF Init, StoreInit, StoreTypeOK, NoRows
  <2>2. TokenTypeOK
    BY TokensAssumption DEF Init, TokenInit, TokenTypeOK, Signers
  <2> QED BY <2>1, <2>2 DEF TypeOK
<1>2. TypeOK /\ [Next]_vars => TypeOK'
  BY StoreTypeStep, TokenTypeStep DEF TypeOK, Next, Store, Deploy, World, vars
<1> QED BY <1>1, <1>2, PTL DEF Spec

--------------------------------------------------------------------------------
(***************************************************************************)
(* Why rows stay readable.  A row holds what was registered last, as       *)
(* plaintext or under one key that is still listed; under the first one if *)
(* the user registered since that was put first, which is what the removal *)
(* of the others relies on.                                                *)
(***************************************************************************)
Plain(row) == row.under = <<>>
Under(row, k) == row.under = <<k>>

RowKept(u) ==
    IF registered[u] = Nobody
      THEN rows[u] = NoRow
      ELSE /\ rows[u] \in Rows /\ rows[u].key = registered[u]
           /\ Plain(rows[u]) \/ \E k \in listed : Under(rows[u], k)
           /\ u \in rewritten => Under(rows[u], encrypting)

\* What a connection has read and not written belongs to its migration.
ConnectionsInOrder ==
    /\ encrypting \in listed
    /\ Serving \/ conn["tick"] = "closed"
    /\ \A c \in Connections : conn[c] = "closed" => uncommitted[c] = NoRows
    /\ \A c \in Connections : conn[c] # "migrating" => unseen[c] = NoRows

\* Nothing else runs beside the first migration: what it read is the table, and
\* what it leaves alone is encrypted.
FirstMigration(u) ==
    /\ unseen["main"][u] \in {NoRow, rows[u]}
    /\ uncommitted["main"][u] # NoRow =>
          /\ rows[u] # NoRow /\ Plain(rows[u])
          /\ uncommitted["main"][u] = Row(rows[u].key, <<encrypting>>)
    /\ rows[u] # NoRow /\ Plain(rows[u]) =>
          unseen["main"][u] # NoRow \/ uncommitted["main"][u] # NoRow

\* A tick reads only rows that decrypt.
LaterMigration(u) ==
    /\ rows[u] # NoRow => ~Plain(rows[u])
    /\ unseen["tick"][u] # NoRow => Decryptable(unseen["tick"][u])

StoreInv ==
    /\ ConnectionsInOrder
    /\ \A u \in Users : RowKept(u)
    /\ conn["main"] = "migrating" => \A u \in Users : FirstMigration(u)
    /\ Serving => uncommitted["main"] = NoRows /\ \A u \in Users : LaterMigration(u)
    /\ TicksMigrateNothing

\* Two connections, two states of a row.
LEMMA RowFacts ==
    ASSUME StoreTypeOK, NEW row \in Rows, encrypting \in listed
    PROVE  /\ row # NoRow
           /\ \A k \in FernetKeys : Under(row, k) =>
                 ~Plain(row) /\ (k \in listed => Decryptable(row))
                 /\ Decrypted(row) = Row(row.key, <<>>)
           /\ Plain(row) => ~Decryptable(row) /\ Encrypted(row) = Row(row.key, <<encrypting>>)
<1>1. row # NoRow
  BY NoRowAssumption
<1>2. ASSUME NEW k \in FernetKeys, Under(row, k)
      PROVE  ~Plain(row) /\ (k \in listed => Decryptable(row)) /\ Decrypted(row) = Row(row.key, <<>>)
  BY <1>2, LayerFacts DEF Under, Plain, Decryptable, Decrypted
<1>3. ASSUME Plain(row)
      PROVE  ~Decryptable(row) /\ Encrypted(row) = Row(row.key, <<encrypting>>)
  <2>1. encrypting \in FernetKeys
    BY DEF StoreTypeOK
  <2> QED BY <1>3, <2>1, LayerFacts DEF Plain, Decryptable, Encrypted
<1> QED BY <1>1, <1>2, <1>3

LEMMA WrittenRow ==
    ASSUME StoreTypeOK, NEW k \in AiApiKeys
    PROVE  LET row == Row(k, <<encrypting>>)
           IN row \in Rows /\ row.key = k /\ Under(row, encrypting) /\ ~Plain(row)
              /\ Encrypted(Row(k, <<>>)) = row
<1>1. encrypting \in FernetKeys
  BY DEF StoreTypeOK
<1>2. <<encrypting>> \in Seq(FernetKeys) /\ <<encrypting>> # <<>> /\ <<encrypting>> \o <<>> = <<encrypting>>
  BY <1>1, LayerFacts
<1> QED BY <1>2 DEF Row, Rows, Under, Plain, Encrypted

LEMMA InitStoreInv == StoreInit => StoreInv
<1> SUFFICES ASSUME StoreInit PROVE StoreInv
  OBVIOUS
<1> USE DEF StoreInit, Serving, NoRows
<1>1. ConnectionsInOrder
  BY DEF ConnectionsInOrder, Connections
<1>2. ASSUME NEW u \in Users PROVE RowKept(u)
  BY DEF RowKept, Row, Rows, Plain
<1>3. TicksMigrateNothing
  BY DEF TicksMigrateNothing, Connections
<1> QED BY <1>1, <1>2, <1>3 DEF StoreInv, Connections

LEMMA OpenStoreKeeps ==
    ASSUME StoreTypeOK, StoreInv, NEW c \in Connections, OpenStore(c)
    PROVE  StoreInv'
<1>1. UNCHANGED <<encrypting, listed, rows, uncommitted, registered, rewritten>>
      /\ conn' = [conn EXCEPT ![c] = "migrating"] /\ unseen' = [unseen EXCEPT ![c] = rows]
      /\ conn[c] = "closed"
  BY DEF OpenStore, Down
<1>2. \A u \in Users : RowKept(u)'
  BY <1>1 DEF StoreInv, RowKept, Plain, Under
<1>3. TicksMigrateNothing'
  BY <1>1 DEF StoreInv, TicksMigrateNothing, NoRows
<1>4. CASE c = "main"
  <2>1. Down /\ conn'["main"] = "migrating" /\ conn'["tick"] = "closed"
    BY <1>1, <1>4 DEF OpenStore, Down, StoreTypeOK, Connections
  <2>2. ConnectionsInOrder'
    BY <1>1, <1>4, <2>1 DEF StoreInv, ConnectionsInOrder, Down, Serving, NoRows, StoreTypeOK, Connections
  <2>3. \A u \in Users : unseen'["main"][u] = rows[u] /\ uncommitted["main"][u] = NoRow
    BY <1>1, <1>4, <2>1 DEF StoreInv, ConnectionsInOrder, Down, NoRows, StoreTypeOK, Connections
  <2>4. \A u \in Users : FirstMigration(u)'
    BY <1>1, <2>3 DEF FirstMigration, Plain
  <2> QED BY <1>2, <1>3, <2>1, <2>2, <2>4 DEF StoreInv, Serving
<1>5. CASE c = "tick"
  <2>1. Serving /\ Serving' /\ conn'["tick"] = "migrating"
    BY <1>1, <1>5 DEF OpenStore, Serving, StoreTypeOK, Connections
  <2>2. ConnectionsInOrder'
    BY <1>1, <1>5, <2>1 DEF StoreInv, ConnectionsInOrder, Serving, NoRows, StoreTypeOK, Connections
  <2>3. ASSUME NEW u \in Users, rows[u] # NoRow PROVE ~Plain(rows[u]) /\ Decryptable(rows[u])
    <3>1. ~Plain(rows[u]) /\ rows[u] \in Rows /\ encrypting \in listed
      BY <2>1, <2>3 DEF StoreInv, LaterMigration, RowKept, ConnectionsInOrder
    <3>2. PICK k \in listed : Under(rows[u], k)
      BY <3>1, <2>3 DEF StoreInv, RowKept
    <3> QED BY <3>1, <3>2, RowFacts DEF StoreTypeOK
  <2>4. \A u \in Users : LaterMigration(u)'
    BY <1>1, <1>5, <2>3 DEF LaterMigration, Plain, Decryptable, StoreTypeOK, Connections
  <2> QED BY <1>1, <1>2, <1>3, <2>1, <2>2, <2>4 DEF StoreInv, Serving, NoRows
<1> QED BY <1>4, <1>5 DEF Connections

LEMMA SkipRowKeeps ==
    ASSUME StoreTypeOK, StoreInv, NEW c \in Connections, NEW u \in Users, SkipRow(c, u)
    PROVE  StoreInv'
<1>1. /\ UNCHANGED <<encrypting, listed, rows, conn, uncommitted, registered, rewritten>>
      /\ unseen' = [unseen EXCEPT ![c][u] = NoRow] /\ unseen[c][u] # NoRow /\ Decryptable(unseen[c][u])
  BY DEF SkipRow
<1>2. \A v \in Users : RowKept(v)'
  BY <1>1 DEF StoreInv, RowKept, Plain, Under
<1>3. ConnectionsInOrder'
  BY <1>1 DEF StoreInv, ConnectionsInOrder, Serving, NoRows, StoreTypeOK, Connections
<1>4. ASSUME conn["main"] = "migrating", NEW v \in Users PROVE FirstMigration(v)'
  <2>1. FirstMigration(v)
    BY <1>4 DEF StoreInv
  <2>2. CASE c = "main" /\ v = u
    <3>1. rows[u] = unseen["main"][u] /\ rows[u] # NoRow /\ Decryptable(rows[u])
      BY <1>1, <2>1, <2>2 DEF FirstMigration
    <3>2. ~Plain(rows[u])
      BY <3>1, RowFacts DEF StoreTypeOK, StoreInv, ConnectionsInOrder
    <3>3. unseen'["main"][u] = NoRow
      BY <1>1, <2>2 DEF StoreTypeOK
    <3> QED BY <1>1, <2>1, <2>2, <3>2, <3>3 DEF FirstMigration, Plain
  <2>3. CASE ~(c = "main" /\ v = u)
    <3>1. unseen'["main"][v] = unseen["main"][v]
      BY <1>1, <2>3 DEF StoreTypeOK, Connections
    <3> QED BY <1>1, <2>1, <3>1 DEF FirstMigration, Plain
  <2> QED BY <2>2, <2>3
<1>5. ASSUME Serving, NEW v \in Users PROVE LaterMigration(v)'
  <2>1. LaterMigration(v)
    BY <1>5 DEF StoreInv
  <2>2. unseen'["tick"][v] \in {NoRow, unseen["tick"][v]}
    BY <1>1 DEF StoreTypeOK, Connections
  <2> QED BY <1>1, <2>1, <2>2 DEF LaterMigration, Plain, Decryptable
<1> QED BY <1>1, <1>2, <1>3, <1>4, <1>5 DEF StoreInv, Serving, TicksMigrateNothing, NoRows

LEMMA MigrateRowKeeps ==
    ASSUME StoreTypeOK, StoreInv, NEW c \in Connections, NEW u \in Users, MigrateRow(c, u)
    PROVE  StoreInv'
<1>1. /\ UNCHANGED <<encrypting, listed, rows, conn, registered, rewritten>>
      /\ unseen' = [unseen EXCEPT ![c][u] = NoRow]
      /\ uncommitted' = [uncommitted EXCEPT ![c][u] =
                            IF rows[u] = NoRow THEN NoRow ELSE Encrypted(unseen[c][u])]
      /\ unseen[c][u] # NoRow /\ ~Decryptable(unseen[c][u])
  BY DEF MigrateRow
<1>2. c = "main" /\ conn["main"] = "migrating"
  <2>1. conn[c] = "migrating"
    BY <1>1 DEF StoreInv, ConnectionsInOrder, NoRows
  <2>2. c # "tick"
    <3> SUFFICES ASSUME c = "tick" PROVE FALSE
      OBVIOUS
    <3>1. Serving
      BY <2>1 DEF StoreInv, ConnectionsInOrder
    <3> QED BY <3>1, <1>1 DEF StoreInv, LaterMigration
  <2> QED BY <2>1, <2>2 DEF Connections
<1>3. \A v \in Users : RowKept(v)'
  BY <1>1 DEF StoreInv, RowKept, Plain, Under
<1>4. ConnectionsInOrder'
  BY <1>1, <1>2 DEF StoreInv, ConnectionsInOrder, Serving, NoRows, StoreTypeOK, Connections
<1>5. TicksMigrateNothing'
  BY <1>1, <1>2 DEF StoreInv, TicksMigrateNothing, NoRows, StoreTypeOK, Connections
<1>6. ASSUME NEW v \in Users PROVE FirstMigration(v)'
  <2>1. FirstMigration(v)
    BY <1>2 DEF StoreInv
  <2>2. CASE v # u
    <3>1. unseen'["main"][v] = unseen["main"][v] /\ uncommitted'["main"][v] = uncommitted["main"][v]
      BY <1>1, <1>2, <2>2 DEF StoreTypeOK, Connections
    <3> QED BY <1>1, <2>1, <3>1 DEF FirstMigration, Plain
  <2>3. CASE v = u
    <3>1. rows[u] = unseen["main"][u] /\ rows[u] # NoRow /\ rows[u] \in Rows
      BY <1>1, <1>2, <2>1, <2>3 DEF FirstMigration, StoreTypeOK
    <3>2. encrypting \in listed /\ listed \subseteq FernetKeys
      BY DEF StoreInv, ConnectionsInOrder, StoreTypeOK
    <3>3. Plain(rows[u]) \/ \E k \in listed : Under(rows[u], k)
      BY <3>1 DEF StoreInv, RowKept
    <3>4. Plain(rows[u]) /\ Encrypted(rows[u]) = Row(rows[u].key, <<encrypting>>)
      BY <1>1, <1>2, <3>1, <3>2, <3>3, RowFacts
    <3>5. uncommitted'["main"][u] = Row(rows[u].key, <<encrypting>>) /\ unseen'["main"][u] = NoRow
      BY <1>1, <1>2, <3>1, <3>4 DEF StoreTypeOK
    <3>6. Row(rows[u].key, <<encrypting>>) # NoRow
      BY <3>1, <3>2, <3>4, EncryptedTyped
    <3> QED BY <1>1, <2>3, <3>1, <3>4, <3>5, <3>6 DEF FirstMigration, Plain
  <2> QED BY <2>2, <2>3
<1> QED BY <1>1, <1>2, <1>3, <1>4, <1>5, <1>6 DEF StoreInv, Serving

\* The commit of the first migration leaves every row encrypted; a tick commits nothing.
LEMMA FinishSetupKeeps ==
    ASSUME StoreTypeOK, StoreInv, NEW c \in Connections, FinishSetup(c)
    PROVE  StoreInv'
<1>1. /\ UNCHANGED <<encrypting, listed, unseen, registered, rewritten>>
      /\ conn[c] = "migrating" /\ unseen[c] = NoRows
      /\ conn' = [conn EXCEPT ![c] = "open"] /\ uncommitted' = [uncommitted EXCEPT ![c] = NoRows]
      /\ rows' = [u \in Users |-> IF uncommitted[c][u] # NoRow THEN uncommitted[c][u] ELSE rows[u]]
  BY DEF FinishSetup
<1>2. ConnectionsInOrder'
  BY <1>1 DEF StoreInv, ConnectionsInOrder, Serving, NoRows, StoreTypeOK, Connections
<1>3. TicksMigrateNothing'
  BY <1>1 DEF StoreInv, TicksMigrateNothing, StoreTypeOK, Connections
<1>4. CASE c = "tick"
  <2>1. rows' = rows /\ uncommitted' = uncommitted
    BY <1>1, <1>4 DEF StoreInv, TicksMigrateNothing, NoRows, StoreTypeOK, Connections
  <2>2. Serving /\ Serving' /\ conn'["main"] = "open"
    BY <1>1, <1>4 DEF StoreInv, ConnectionsInOrder, Serving, StoreTypeOK, Connections
  <2>3. \A u \in Users : RowKept(u)' /\ LaterMigration(u)'
    BY <1>1, <2>1, <2>2 DEF StoreInv, RowKept, LaterMigration, Plain, Under, Decryptable
  <2> QED BY <1>2, <1>3, <2>1, <2>2, <2>3 DEF StoreInv, NoRows
<1>5. CASE c = "main"
  <2>1. conn'["main"] = "open" /\ uncommitted'["main"] = NoRows
    BY <1>1, <1>5 DEF StoreTypeOK, Connections
  <2>2. unseen["tick"] = NoRows
    BY <1>1, <1>5 DEF StoreInv, ConnectionsInOrder, Serving, Connections
  <2>3. ASSUME NEW u \in Users PROVE RowKept(u)' /\ LaterMigration(u)'
    <3>1. RowKept(u) /\ FirstMigration(u) /\ unseen["main"][u] = NoRow
      BY <1>1, <1>5 DEF StoreInv, NoRows
    <3>2. unseen'["tick"][u] = NoRow
      BY <1>1, <2>2 DEF NoRows
    <3>3. CASE rows[u] = NoRow
      <4>1. rows'[u] = NoRow
        BY <1>1, <1>5, <3>1, <3>3 DEF FirstMigration
      <4>2. registered[u] = Nobody
        BY <3>1, <3>3, NoRowAssumption DEF RowKept
      <4> QED BY <1>1, <3>2, <4>1, <4>2 DEF RowKept, LaterMigration
    <3>4. CASE rows[u] # NoRow /\ Plain(rows[u])
      <4>1. rows'[u] = Row(rows[u].key, <<encrypting>>)
        BY <1>1, <1>5, <3>1, <3>4 DEF FirstMigration
      <4>2. rows[u].key = registered[u] /\ registered[u] # Nobody /\ registered[u] \in AiApiKeys
        BY <3>1, <3>4 DEF RowKept, StoreTypeOK
      <4>3. /\ rows'[u] \in Rows /\ rows'[u].key = registered[u]
            /\ Under(rows'[u], encrypting) /\ ~Plain(rows'[u])
        BY <4>1, <4>2, WrittenRow
      <4> QED
        BY <1>1, <3>2, <4>2, <4>3 DEF RowKept, LaterMigration, Under, Plain, StoreInv, ConnectionsInOrder
    <3>5. CASE rows[u] # NoRow /\ ~Plain(rows[u])
      <4>1. rows'[u] = rows[u]
        BY <1>1, <1>5, <3>1, <3>5 DEF FirstMigration
      <4> QED BY <1>1, <3>1, <3>2, <3>5, <4>1 DEF RowKept, LaterMigration, Plain, Under
    <3> QED BY <3>3, <3>4, <3>5
  <2> QED BY <1>2, <1>3, <2>1, <2>3 DEF StoreInv, Serving
<1> QED BY <1>4, <1>5 DEF Connections

LEMMA SetKeyKeeps ==
    ASSUME StoreTypeOK, StoreInv, NEW u \in Users, NEW k \in AiApiKeys, SetKey(u, k)
    PROVE  StoreInv'
<1>1. /\ UNCHANGED <<encrypting, listed, conn, unseen, uncommitted>> /\ Serving
      /\ rows' = [rows EXCEPT ![u] = Encrypted(Row(k, <<>>))]
      /\ registered' = [registered EXCEPT ![u] = k] /\ rewritten' = rewritten \union {u}
  BY DEF SetKey
<1>2. ASSUME NEW v \in Users PROVE RowKept(v)' /\ LaterMigration(v)'
  <2>1. RowKept(v) /\ LaterMigration(v) /\ encrypting \in listed
    BY <1>1 DEF StoreInv, ConnectionsInOrder
  <2>2. CASE v = u
    <3>1. /\ rows'[u] \in Rows /\ rows'[u].key = k
          /\ Under(rows'[u], encrypting) /\ ~Plain(rows'[u])
      BY <1>1, WrittenRow DEF StoreTypeOK
    <3>2. registered'[u] = k /\ k # Nobody
      BY <1>1, RowsAssumption DEF StoreTypeOK
    <3> QED BY <1>1, <2>1, <2>2, <3>1, <3>2 DEF RowKept, LaterMigration, Plain, Under, Decryptable
  <2>3. CASE v # u
    <3>1. rows'[v] = rows[v] /\ registered'[v] = registered[v] /\ (v \in rewritten' => v \in rewritten)
      BY <1>1, <2>3 DEF StoreTypeOK
    <3> QED BY <1>1, <2>1, <3>1 DEF RowKept, LaterMigration, Plain, Under, Decryptable
  <2> QED BY <2>2, <2>3
<1> QED BY <1>1, <1>2 DEF StoreInv, ConnectionsInOrder, Serving, TicksMigrateNothing, NoRows

LEMMA DeleteKeyKeeps ==
    ASSUME StoreTypeOK, StoreInv, NEW c \in Connections, NEW u \in Users, DeleteKey(c, u)
    PROVE  StoreInv'
<1>1. /\ UNCHANGED <<encrypting, listed, conn, unseen, uncommitted, rewritten>> /\ Serving
      /\ rows' = [rows EXCEPT ![u] = NoRow] /\ registered' = [registered EXCEPT ![u] = Nobody]
  BY DEF DeleteKey
<1>2. ASSUME NEW v \in Users PROVE RowKept(v)' /\ LaterMigration(v)'
  <2>1. RowKept(v) /\ LaterMigration(v)
    BY <1>1 DEF StoreInv
  <2>2. \/ rows'[v] = NoRow /\ registered'[v] = Nobody
        \/ rows'[v] = rows[v] /\ registered'[v] = registered[v]
    BY <1>1 DEF StoreTypeOK
  <2> QED BY <1>1, <2>1, <2>2 DEF RowKept, LaterMigration, Plain, Under, Decryptable
<1> QED BY <1>1, <1>2 DEF StoreInv, ConnectionsInOrder, Serving, TicksMigrateNothing, NoRows

LEMMA StopKeeps ==
    ASSUME StoreTypeOK, StoreInv, Stop
    PROVE  StoreInv'
<1>1. /\ UNCHANGED <<encrypting, listed, rows, registered, rewritten>>
      /\ conn' = [c \in Connections |-> "closed"] /\ unseen' = [c \in Connections |-> NoRows]
      /\ uncommitted' = [c \in Connections |-> NoRows] /\ NoRows' = NoRows
  BY DEF Stop, NoRows
<1>2. \A u \in Users : RowKept(u)'
  BY <1>1 DEF StoreInv, RowKept, Plain, Under
<1>3. conn'["main"] = "closed" /\ conn'["tick"] = "closed" /\ uncommitted'["tick"] = NoRows
  BY <1>1 DEF Connections
<1>4. ConnectionsInOrder'
  BY <1>1, <1>3 DEF StoreInv, ConnectionsInOrder
<1> QED BY <1>1, <1>2, <1>3, <1>4 DEF StoreInv, Serving, TicksMigrateNothing

LEMMA RotateKeeps ==
    ASSUME StoreTypeOK, StoreInv, Rotate
    PROVE  StoreInv'
<1>1. /\ Down /\ UNCHANGED <<rows, conn, unseen, uncommitted, registered>> /\ encrypting' \in listed'
      /\ NoRows' = NoRows
  BY DEF Rotate, DropOldKeys, PrependKey, StoreInv, ConnectionsInOrder, NoRows
<1>2. CASE \E k \in FernetKeys : PrependKey(k)
  BY <1>1, <1>2 DEF PrependKey, StoreInv, ConnectionsInOrder, Serving, Down, Connections, RowKept,
                    Plain, Under, TicksMigrateNothing
<1>3. CASE DropOldKeys
  <2>1. ASSUME NEW u \in Users PROVE RowKept(u)'
    BY <1>3 DEF DropOldKeys, StoreInv, RowKept, Plain, Under
  <2> QED
    BY <1>1, <1>3, <2>1 DEF DropOldKeys, StoreInv, ConnectionsInOrder, Serving, Down, Connections,
                            TicksMigrateNothing
<1> QED BY <1>2, <1>3 DEF Rotate

LEMMA StoreInvStep == StoreTypeOK /\ StoreInv /\ [StoreNext]_storeVars => StoreInv'
<1> SUFFICES ASSUME StoreTypeOK, StoreInv, [StoreNext]_storeVars PROVE StoreInv'
  OBVIOUS
<1>1. CASE CloseTick
  <2>1. /\ UNCHANGED <<encrypting, listed, rows, unseen, uncommitted, registered, rewritten>>
        /\ conn["tick"] = "open" /\ conn' = [conn EXCEPT !["tick"] = "closed"] /\ NoRows' = NoRows
    BY <1>1 DEF CloseTick, NoRows
  <2>2. Serving' = Serving /\ conn'["main"] = conn["main"]
    BY <2>1 DEF Serving, StoreTypeOK, Connections
  <2>3. ConnectionsInOrder'
    BY <2>1, <2>2 DEF StoreInv, ConnectionsInOrder, TicksMigrateNothing, StoreTypeOK, Connections
  <2>4. \A u \in Users : /\ RowKept(u)' = RowKept(u) /\ FirstMigration(u)' = FirstMigration(u)
                         /\ LaterMigration(u)' = LaterMigration(u)
    BY <2>1 DEF RowKept, FirstMigration, LaterMigration, Plain, Under, Decryptable
  <2> QED BY <2>1, <2>2, <2>3, <2>4 DEF StoreInv, TicksMigrateNothing
<1>2. CASE UNCHANGED storeVars
  BY <1>2 DEF storeVars, StoreInv, ConnectionsInOrder, RowKept, FirstMigration, LaterMigration, Plain,
              Under, Decryptable, Serving, NoRows, TicksMigrateNothing
<1> QED
  BY <1>1, <1>2, OpenStoreKeeps, SkipRowKeeps, MigrateRowKeeps, FinishSetupKeeps, SetKeyKeeps,
     DeleteKeyKeeps, StopKeeps, RotateKeeps
  DEF StoreNext, Setup, Requests

\* What is served is readable, as long as the invariant holds.
LEMMA StoreInvReadable == StoreTypeOK /\ StoreInv => KeysReadable
<1> SUFFICES ASSUME StoreTypeOK, StoreInv, Serving, NEW u \in Users
             PROVE  IF registered[u] = Nobody
                      THEN rows[u] = NoRow
                      ELSE /\ rows[u] # NoRow /\ Decryptable(rows[u])
                           /\ Decrypted(rows[u]) = Row(registered[u], <<>>)
  BY DEF KeysReadable
<1>1. RowKept(u) /\ LaterMigration(u) /\ encrypting \in listed
  BY DEF StoreInv, ConnectionsInOrder
<1>2. CASE registered[u] = Nobody
  BY <1>1, <1>2 DEF RowKept
<1>3. CASE registered[u] # Nobody
  <2>1. rows[u] \in Rows /\ rows[u].key = registered[u] /\ rows[u] # NoRow /\ ~Plain(rows[u])
    BY <1>1, <1>3, NoRowAssumption DEF RowKept, LaterMigration
  <2>2. PICK k \in listed : Under(rows[u], k)
    BY <1>1, <1>3, <2>1 DEF RowKept
  <2> QED BY <1>1, <1>3, <2>1, <2>2, RowFacts DEF StoreTypeOK
<1> QED BY <1>2, <1>3

\* The rows' invariant along a behaviour of the whole deployment.
LEMMA StoreInvHolds == Spec => [](TypeOK /\ StoreInv)
<1>1. Init => StoreInv
  BY InitStoreInv DEF Init
<1>2. TypeOK /\ StoreInv /\ [Next]_vars => StoreInv'
  BY StoreInvStep DEF TypeOK, Next, Store, Deploy, World, vars
<1> QED BY <1>1, <1>2, RotationTypeCorrect, PTL DEF Spec

(***************************************************************************)
(* Whoever is registered is readable while the process serves, whatever    *)
(* was migrated, cut off and rotated before (RegisteredKeyStore.get).      *)
(***************************************************************************)
THEOREM KeysReadableHolds == Spec => []KeysReadable
<1>1. TypeOK /\ StoreInv => KeysReadable
  BY StoreInvReadable DEF TypeOK
<1> QED BY <1>1, StoreInvHolds, PTL

(***************************************************************************)
(* The setup of a tick writes nothing, so it overwrites nothing            *)
(* (RegisteredKeyStore._migrate_plaintext_keys).                           *)
(***************************************************************************)
THEOREM TicksMigrateNothingHolds == Spec => []TicksMigrateNothing
<1>1. StoreInv => TicksMigrateNothing
  BY DEF StoreInv
<1> QED BY <1>1, StoreInvHolds, PTL

\* With every row kept, get() answers what was registered last.
LEMMA AnswersRegistered ==
    ASSUME StoreTypeOK, StoreInv
    PROVE  [u \in Users |-> Answer(u)] = registered
<1>1. ASSUME NEW u \in Users PROVE Answer(u) = registered[u]
  <2>1. RowKept(u) /\ encrypting \in listed
    BY DEF StoreInv, ConnectionsInOrder
  <2>2. CASE registered[u] = Nobody
    BY <2>1, <2>2 DEF RowKept, Answer
  <2>3. CASE registered[u] # Nobody
    <3>1. rows[u] \in Rows /\ rows[u].key = registered[u] /\ rows[u] # NoRow
      BY <2>1, <2>3, NoRowAssumption DEF RowKept
    <3>2. CASE Plain(rows[u])
      BY <3>1, <3>2 DEF Plain, Answer
    <3>3. ASSUME NEW k \in listed, Under(rows[u], k) PROVE Answer(u) = registered[u]
      <4>1. k \in FernetKeys
        BY DEF StoreTypeOK
      <4>2. Decryptable(rows[u]) /\ Tail(rows[u].under) = <<>>
        BY <3>1, <3>3, <4>1, <2>1, RowFacts, LayerFacts DEF Under
      <4> QED BY <3>1, <4>2 DEF Answer
    <3> QED BY <2>1, <2>3, <3>2, <3>3 DEF RowKept
  <2> QED BY <2>2, <2>3
<1>2. registered = [u \in Users |-> registered[u]]
  BY DEF StoreTypeOK
<1> QED BY <1>1, <1>2

\* Only set() and delete() change what is registered, one user at a time.
LEMMA RegisteredStep ==
    ASSUME StoreTypeOK, [StoreNext]_storeVars
    PROVE  \/ registered' = registered
           \/ \E u \in Users : \/ registered' = [registered EXCEPT ![u] = Nobody]
                              \/ \E k \in AiApiKeys : registered' = [registered EXCEPT ![u] = k]
  BY DEF StoreNext, Setup, Requests, Rotate, OpenStore, SkipRow, MigrateRow, FinishSetup, CloseTick,
         SetKey, DeleteKey, Stop, PrependKey, DropOldKeys, storeVars

(***************************************************************************)
(* Encryption at rest, two connections with their migrations, restarts and *)
(* rotations are a plain table to whoever calls get(), set() and delete(), *)
(* for any users and keys (RegisteredKeyStore).                            *)
(***************************************************************************)
THEOREM KeyTableImplemented == Spec => ImplementsKeyTable
<1> DEFINE answers == [u \in Users |-> Answer(u)]
<1>1. Init => Table!TableInit
  <2> SUFFICES ASSUME Init PROVE Table!TableInit
    OBVIOUS
  <2>1. ASSUME NEW u \in Users PROVE Answer(u) \in AiApiKeys \union {Nobody}
    <3>1. CASE registered[u] = Nobody
      BY <3>1 DEF Init, StoreInit, Answer
    <3>2. CASE registered[u] # Nobody
      <4>1. rows[u] = Row(registered[u], <<>>) /\ registered[u] \in AiApiKeys
        BY <3>2 DEF Init, StoreInit
      <4>2. rows[u] \in Rows
        BY <4>1 DEF Row, Rows
      <4> QED BY <4>1, <4>2, NoRowAssumption DEF Answer, Row
    <3> QED BY <3>1, <3>2
  <2> QED BY <2>1 DEF Table!TableInit
<1>2. TypeOK /\ StoreInv => answers = registered
  BY AnswersRegistered DEF TypeOK
<1>3. TypeOK /\ answers = registered /\ (answers = registered)' /\ [Next]_vars
      => [Table!TableNext]_answers
  <2> SUFFICES ASSUME TypeOK, answers = registered, (answers = registered)', [Next]_vars
               PROVE  [Table!TableNext]_answers
    OBVIOUS
  <2>1. [StoreNext]_storeVars
    BY DEF Next, Store, Deploy, World, vars
  <2> QED BY <2>1, RegisteredStep DEF TypeOK, Table!TableNext, Table!Put, Table!Remove
<1> HIDE DEF answers
<1>4. Spec => [](answers = registered)
  BY <1>2, StoreInvHolds, PTL
<1>5. ImplementsKeyTable <=> Table!TableInit /\ [][Table!TableNext]_answers
  BY DEF ImplementsKeyTable, Table!TableSpec, answers
<1> QED
  BY <1>1, <1>3, <1>4, <1>5, RotationTypeCorrect, PTL DEF Spec

--------------------------------------------------------------------------------
(***************************************************************************)
(* Why a token is good: a token that is not expired and was not signed     *)
(* with the present signer was minted before the signer changed, so it     *)
(* expires before that change counts as waited out.                        *)
(***************************************************************************)
TokenInv ==
    /\ Verifies(signer)
    /\ \A t \in tokens : t.left >= 0 => Verifies(t.by)
    /\ \A t \in tokens : t.left >= 0 /\ t.by # signer => quiet + t.left <= Lifetime

\* What is dropped is neither the signer's nor an unexpired token's.
LEMMA RedeployKeeps == TokenTypeOK /\ TokenInv /\ Redeploy => TokenInv'
<1> SUFFICES ASSUME TokenTypeOK, TokenInv, Redeploy PROVE TokenInv'
  OBVIOUS
<1>1. UNCHANGED <<signer, tokens, quiet>>
  BY DEF Redeploy, DropShared, AddVerifier, DropVerifier
<1>2. ASSUME NEW s \in Signers, Verifies(s), WaitedOut => s = signer PROVE Verifies(s)'
  BY <1>1, <1>2, TokensAssumption
     DEF Redeploy, DropShared, AddVerifier, DropVerifier, Verifies, Signers
<1>3. ASSUME NEW t \in tokens, t.left >= 0, WaitedOut PROVE t.by = signer
  BY <1>3, TokensAssumption DEF TokenInv, WaitedOut, TokenTypeOK, Token
<1>4. Verifies(signer)'
  BY <1>1, <1>2 DEF TokenInv, TokenTypeOK, Verifies
<1>5. ASSUME NEW t \in tokens, t.left >= 0 PROVE Verifies(t.by)'
  BY <1>2, <1>3, <1>5 DEF TokenInv, TokenTypeOK, Token
<1> QED BY <1>1, <1>4, <1>5 DEF TokenInv

LEMMA ElsewhereKeeps == TokenTypeOK /\ TokenInv /\ Elsewhere => TokenInv'
<1> SUFFICES ASSUME TokenTypeOK, TokenInv, Elsewhere PROVE TokenInv'
  OBVIOUS
<1>1. UNCHANGED <<verifying, shared>>
  BY DEF Elsewhere, Mint, Second, Spend, SignWith
<1>2. \A s : Verifies(s)' <=> Verifies(s)
  BY <1>1 DEF Verifies
<1>3. CASE Mint
  BY <1>1, <1>2, <1>3 DEF Mint, TokenInv, Verifies
<1>4. CASE \E t \in tokens : Spend(t)
  BY <1>1, <1>2, <1>4 DEF Spend, TokenInv, Verifies
<1>5. CASE Second
  <2>1. signer' = signer /\ tokens' = {Older(t) : t \in tokens}
    BY <1>5 DEF Second
  <2>2. quiet \in Nat /\ quiet' \in Nat /\ quiet' <= quiet + 1 /\ Lifetime \in Nat
    BY <1>5, TokensAssumption DEF Second, TokenTypeOK
  <2>3. ASSUME NEW t \in tokens, Older(t).left >= 0
        PROVE  t.left >= 0 /\ Older(t).by = t.by /\ Older(t).left = t.left - 1 /\ t.left \in Int
    BY <2>3, TokensAssumption DEF TokenTypeOK, Token, Older
  <2>4. \A t \in tokens : Older(t).left >= 0 => Verifies(Older(t).by)
    BY <2>3 DEF TokenInv
  <2>5. ASSUME NEW t \in tokens, Older(t).left >= 0, Older(t).by # signer
        PROVE  quiet' + Older(t).left <= Lifetime
    <3>1. quiet + t.left <= Lifetime
      BY <2>3, <2>5 DEF TokenInv
    <3> QED BY <2>2, <2>3, <2>5, <3>1
  <2>6. \A t \in tokens' : t.left >= 0 => Verifies(t.by)'
    BY <1>2, <2>1, <2>4
  <2>7. \A t \in tokens' : t.left >= 0 /\ t.by # signer' => quiet' + t.left <= Lifetime
    BY <2>1, <2>5
  <2>8. Verifies(signer)'
    BY <1>1, <2>1 DEF TokenInv, Verifies
  <2> QED BY <2>6, <2>7, <2>8 DEF TokenInv
<1>6. CASE \E s \in Signers : SignWith(s)
  <2>1. UNCHANGED tokens /\ quiet' = 0
    BY <1>6 DEF SignWith
  <2>2. Verifies(signer)'
    BY <1>1, <1>6 DEF SignWith, Verifies
  <2>3. \A t \in tokens : quiet' + t.left <= Lifetime
    BY <2>1, TokensAssumption DEF TokenTypeOK, Token
  <2> QED BY <1>1, <2>1, <2>2, <2>3 DEF TokenInv, Verifies
<1> QED BY <1>3, <1>4, <1>5, <1>6 DEF Elsewhere

(***************************************************************************)
(* A token is good for its lifetime and no longer, for any lifetime, any   *)
(* key ids and any number of tokens in flight (resolve_identity).          *)
(***************************************************************************)
THEOREM GoodForItsLifetimeHolds == Spec => []GoodForItsLifetime
<1>1. Init => TokenInv
  BY DEF Init, TokenInit, TokenInv, Verifies
<1>2. TypeOK /\ TokenInv /\ [Next]_vars => TokenInv'
  <2>1. UNCHANGED tokenVars /\ TokenInv => TokenInv'
    BY DEF tokenVars, TokenInv, Verifies
  <2> QED
    BY <2>1, RedeployKeeps, ElsewhereKeeps DEF TypeOK, Next, Store, Deploy, World, vars
<1>3. TypeOK /\ TokenInv => GoodForItsLifetime
  <2> SUFFICES ASSUME TypeOK, TokenInv, NEW t \in tokens PROVE Resolve(t) = "user" <=> t.left >= 0
    BY DEF GoodForItsLifetime
  <2>1. CASE t.left >= 0
    <3>1. Verifies(t.by) /\ ~(verifying = {} /\ ~shared)
      BY <2>1 DEF TokenInv, Verifies
    <3> QED BY <2>1, <3>1 DEF Resolve
  <2>2. CASE ~(t.left >= 0)
    BY <2>2 DEF Resolve
  <2> QED BY <2>1, <2>2
<1> QED BY <1>1, <1>2, <1>3, RotationTypeCorrect, PTL DEF Spec
================================================================================
