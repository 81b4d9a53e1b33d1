----------------------------- MODULE TokenAuth -----------------------------
(***************************************************************************)
(* Access tokens (apps/api/src/api/auth/jwt.ts) while an operator rotates  *)
(* the signing key: several API processes, each with the configuration it  *)
(* was started with and a clock of its own.  A token is a key, iat and     *)
(* exp; a signature verifies with the key that made it and with no other.  *)
(*                                                                         *)
(* The operator is modelled from docs/INTEGRATION.md: the replaced key    *)
(* becomes a previous key, and is dropped "after the longest token         *)
(* lifetime plus permitted clock skew".  With several processes a new key  *)
(* is a previous key of all of them before one signs with it.              *)
(***************************************************************************)
EXTENDS Integers

CONSTANTS
  Processes,
  Keys,       \* signing keys, 1 the first and each next one the one that replaces it
  Offset,     \* how far the clock of a process is from true time
  Ttl,        \* accessTokenTtlSeconds
  Skew,       \* clockSkewSeconds
  MaxTime

ASSUME KeysAreNumbered == Keys \subseteq Nat /\ 1 \in Keys
ASSUME ParametersType == Ttl \in Nat \ {0} /\ Skew \in Nat /\ MaxTime \in Nat
ASSUME OffsetType == Offset \in [Processes -> Int]
\* What "permitted clock skew" permits between any two clocks.
ASSUME ClocksAgree == \A p, q \in Processes : Offset[p] - Offset[q] <= Skew

VARIABLES
  now,      \* true time, in seconds
  config,   \* the signingKey and the previousSigningKeys of each process
  retired,  \* when the last process went past a key, Never before
  tokens    \* the tokens issued

vars == <<now, config, retired, tokens>>

Never == -1

Clock(p) == now + Offset[p]

Init ==
  /\ now = 0
  /\ config = [p \in Processes |-> [signingKey |-> 1, previousSigningKeys |-> {}]]
  /\ retired = [k \in Keys |-> Never]
  /\ tokens = {}

Trusts(p, k) == k = config[p].signingKey \/ k \in config[p].previousSigningKeys

\* Wrong on purpose, for a mutant: signs with the key that is to come.
IssueWithNextKey(p) ==
  LET iat == Clock(p)
  IN  /\ tokens' = tokens \cup {[key |-> config[p].signingKey + 1, iat |-> iat, exp |-> iat + Ttl]}
      /\ UNCHANGED <<now, config, retired>>

IssueAccessToken(p) ==
  LET iat == Clock(p)
  IN  /\ tokens' = tokens \cup {[key |-> config[p].signingKey, iat |-> iat, exp |-> iat + Ttl]}
      /\ UNCHANGED <<now, config, retired>>

\* Wrong on purpose, for a mutant: a token from a clock ahead is rejected.
VerifiesWithoutSkew(p, token) ==
  /\ token.exp > token.iat
  /\ Trusts(p, token.key)
  /\ token.iat <= Clock(p)
  /\ token.exp > Clock(p) - Skew

\* verifyAccessToken, without the checks on the payload's form and issuer.
Verifies(p, token) ==
  /\ token.exp > token.iat
  /\ Trusts(p, token.key)
  /\ token.iat <= Clock(p) + Skew
  /\ token.exp > Clock(p) - Skew

\* The operator gives a process the next key, to verify with.
Announce(p, k) ==
  /\ ~Trusts(p, k)
  /\ \E q \in Processes : config[q].signingKey = k - 1
  /\ config' = [config EXCEPT ![p].previousSigningKeys = @ \cup {k}]
  /\ UNCHANGED <<now, retired, tokens>>

\* A process is restarted to sign with the next key, which the others know by then.
Promote(p, k) ==
  /\ k = config[p].signingKey + 1
  /\ \A q \in Processes \ {p} : Trusts(q, k)
  /\ config' = [config EXCEPT ![p] = [signingKey |-> k,
                  previousSigningKeys |-> (@.previousSigningKeys \cup {@.signingKey}) \ {k}]]
  /\ retired' = [old \in Keys |-> IF retired[old] = Never /\ \A q \in Processes : config'[q].signingKey > old
                                   THEN now ELSE retired[old]]
  /\ UNCHANGED <<now, tokens>>

\* Wrong on purpose, for a mutant: the skew is not waited for.
RemoveOldKeyEarly(p, k) ==
  /\ k \in config[p].previousSigningKeys
  /\ retired[k] # Never /\ now >= retired[k] + Ttl
  /\ config' = [config EXCEPT ![p].previousSigningKeys = @ \ {k}]
  /\ UNCHANGED <<now, retired, tokens>>

\* An old key is dropped once the longest token lifetime and the skew have passed since
\* the last process went past it.
RemoveOldKey(p, k) ==
  /\ k \in config[p].previousSigningKeys
  /\ retired[k] # Never /\ now >= retired[k] + Ttl + Skew
  /\ config' = [config EXCEPT ![p].previousSigningKeys = @ \ {k}]
  /\ UNCHANGED <<now, retired, tokens>>

Tick ==
  /\ now < MaxTime
  /\ now' = now + 1
  /\ UNCHANGED <<config, retired, tokens>>

Next ==
  \/ \E p \in Processes : \/ IssueAccessToken(p)
                          \/ \E k \in Keys : Announce(p, k) \/ Promote(p, k) \/ RemoveOldKey(p, k)
  \/ Tick

Spec == Init /\ [][Next]_vars

-----------------------------------------------------------------------------
(* Properties.                                                             *)

Token == [key : Keys, iat : Int, exp : Int]

TypeOK ==
  /\ now \in Nat
  /\ config \in [Processes -> [signingKey : Keys, previousSigningKeys : SUBSET Keys]]
  /\ retired \in [Keys -> Nat \cup {Never}]
  /\ tokens \subseteq Token

\* A client is never turned away early: whichever process it asks, in the middle of a
\* rotation or after it, a token verifies until the asked process's clock says it is over.
TokenServesItsLifetime ==
  \A token \in tokens, p \in Processes : Clock(p) < token.exp => Verifies(p, token)

\* Once a rotation is complete the old key opens nothing: a process trusts a key it has
\* dropped for no token that any clock calls valid.
DroppedKeyIsDead ==
  \A p \in Processes, token \in tokens :
    ~Trusts(p, token.key) => \A q \in Processes : Clock(q) >= token.exp

-----------------------------------------------------------------------------
(* The inductive invariant behind them.                                    *)

\* What a process signs with, every process verifies with.
SigningKeysAreTrusted == \A p, q \in Processes : Trusts(p, config[q].signingKey)

\* A retired key is behind every process.
RetiredKeysAreBehind ==
  \A k \in Keys : retired[k] # Never =>
    retired[k] <= now /\ \A q \in Processes : config[q].signingKey > k

\* A token was made by some process's clock, before its key was retired.
TokensAreTimely ==
  \A token \in tokens :
    /\ token.exp = token.iat + Ttl
    /\ \E q \in Processes : token.iat <= Clock(q)
    /\ retired[token.key] # Never => \E q \in Processes : token.iat <= retired[token.key] + Offset[q]

\* A key is dropped when its time has come.
TokensAreTrusted ==
  \A token \in tokens, p \in Processes :
    \/ Trusts(p, token.key)
    \/ retired[token.key] # Never /\ now >= retired[token.key] + Ttl + Skew

RotationInv == SigningKeysAreTrusted /\ RetiredKeysAreBehind /\ TokensAreTimely /\ TokensAreTrusted
=============================================================================
