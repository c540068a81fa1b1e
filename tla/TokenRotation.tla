----------------------------- MODULE TokenRotation -----------------------------
(***************************************************************************)
(* Proxy tokens while their signing secrets are rotated (api/identity.py). *)
(* StudyLife signs each token with the first entry of its own list, or,    *)
(* having none, with the legacy shared secret and without a key id; this   *)
(* side verifies it against the settings it was started with.  A key id    *)
(* stands for its secret, Legacy for the shared secret, and a token's age  *)
(* for its expiry: the whole seconds it has left.                          *)
(***************************************************************************)
EXTENDS Integers, FiniteSets

CONSTANTS
    Kids,        \* key ids
    Legacy,      \* the shared secret, which has no key id
    Lifetime,    \* seconds a token is valid (StudyLife's)
    MaxTokens    \* bound: tokens in flight

ASSUME TokensAssumption == Legacy \notin Kids /\ Lifetime \in Nat /\ MaxTokens \in Nat

VARIABLES
    signer,      \* StudyLife: what it signs with
    verifying,   \* STUDYLIFE_TOKEN_SIGNING_SECRET: the key ids listed, none if unset
    shared,      \* is STUDYLIFE_SHARED_SECRET set?
    tokens,      \* the tokens in flight: who signed them, and the time left, -1 if expired
    quiet        \* seconds since StudyLife changed its signer, as far as they matter

tokenVars == <<signer, verifying, shared, tokens, quiet>>

Signers == Kids \union {Legacy}
Token == [by : Signers, left : -1 .. Lifetime]

TokenTypeOK ==
    /\ signer \in Signers
    /\ verifying \subseteq Kids
    /\ shared \in BOOLEAN
    /\ tokens \subseteq Token
    /\ quiet \in 0 .. Lifetime + 1

\* A deployment from before the split.
TokenInit ==
    /\ signer = Legacy
    /\ verifying = {} /\ shared = TRUE
    /\ tokens = {}
    /\ quiet = 0

--------------------------------------------------------------------------------
\* Mutant: the legacy format is a fallback only.
VerifiesFallback(s) == IF s = Legacy THEN shared /\ verifying = {} ELSE s \in verifying

\* Tokens with a key id need that id listed, the others the shared secret.
Verifies(s) == IF s = Legacy THEN shared ELSE s \in verifying

\* resolve_identity: the user id, or the status it answers with.
Resolve(t) ==
    IF verifying = {} /\ ~shared THEN "503"
    ELSE IF Verifies(t.by) /\ t.left >= 0 THEN "user" ELSE "401"

Mint ==
    /\ Cardinality(tokens) < MaxTokens
    /\ tokens' = tokens \union {[by |-> signer, left |-> Lifetime]}
    /\ UNCHANGED <<signer, verifying, shared, quiet>>

\* A token arrives, or never will.
Spend(t) ==
    /\ tokens' = tokens \ {t}
    /\ UNCHANGED <<signer, verifying, shared, quiet>>

Older(t) == IF t.left >= 0 THEN [t EXCEPT !.left = @ - 1] ELSE t

Second ==
    /\ tokens' = {Older(t) : t \in tokens}
    /\ quiet' = IF quiet <= Lifetime THEN quiet + 1 ELSE quiet
    /\ UNCHANGED <<signer, verifying, shared>>

\* Rotation: this side lists a new entry, StudyLife signs with it, and once the
\* last token of the old entry has expired this side drops that.
AddVerifier(k) ==
    /\ verifying' = verifying \union {k}
    /\ UNCHANGED <<signer, shared, tokens, quiet>>

SignWith(s) ==
    /\ s # signer /\ Verifies(s)
    /\ signer' = s /\ quiet' = 0
    /\ UNCHANGED <<verifying, shared, tokens>>

WaitedOut == quiet > Lifetime

DropVerifier(k) ==
    /\ WaitedOut /\ k # signer
    /\ verifying' = verifying \ {k}
    /\ UNCHANGED <<signer, shared, tokens, quiet>>

DropShared ==
    /\ WaitedOut /\ signer # Legacy
    /\ shared' = FALSE
    /\ UNCHANGED <<signer, verifying, tokens, quiet>>

\* What needs a deployment of this side, and what does not.
Redeploy == DropShared \/ \E k \in Kids : AddVerifier(k) \/ DropVerifier(k)

Elsewhere ==
    \/ Mint \/ Second
    \/ \E t \in tokens : Spend(t)
    \/ \E s \in Signers : SignWith(s)

--------------------------------------------------------------------------------
(***************************************************************************)
(* A token StudyLife minted is good for its whole lifetime, its expiry     *)
(* second included, and not longer, whatever has been rotated on either    *)
(* side since, from the shared secret to key ids and from one key id to    *)
(* the next (resolve_identity, "no coordinated-redeploy 401 window").      *)
(***************************************************************************)
GoodForItsLifetime == \A t \in tokens : Resolve(t) = "user" <=> t.left >= 0
================================================================================
