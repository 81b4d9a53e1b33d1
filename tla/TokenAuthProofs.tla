-------------------------- MODULE TokenAuthProofs --------------------------
(* Tokens live through a rotation, and die with the key that is dropped.   *)
EXTENDS TokenAuth, TLAPS

USE KeysAreNumbered, ParametersType, OffsetType, ClocksAgree

LEMMA KeysAreIntegers == \A k \in Keys : k \in Int
BY KeysAreNumbered

Config == [signingKey : Keys, previousSigningKeys : SUBSET Keys]

LEMMA InitType == Init => TypeOK
<1> SUFFICES ASSUME Init PROVE TypeOK
  OBVIOUS
<1>1. [signingKey |-> 1, previousSigningKeys |-> {}] \in Config
  BY DEF Config
<1>2. config \in [Processes -> Config]
  BY <1>1 DEF Init
<1> QED BY <1>2 DEF Init, TypeOK, Never, Config

LEMMA IssueType ==
  ASSUME TypeOK, NEW p \in Processes, IssueAccessToken(p)
  PROVE  TypeOK'
<1> DEFINE token == [key |-> config[p].signingKey, iat |-> Clock(p), exp |-> Clock(p) + Ttl]
<1>1. config[p].signingKey \in Keys /\ Clock(p) \in Int
  BY DEF TypeOK, Clock
<1>2. token \in Token
  BY <1>1 DEF Token
<1>3. tokens' = tokens \cup {token}
  BY DEF IssueAccessToken
<1> QED BY <1>2, <1>3 DEF TypeOK, IssueAccessToken

LEMMA AnnounceType ==
  ASSUME TypeOK, NEW p \in Processes, NEW k \in Keys, Announce(p, k)
  PROVE  TypeOK'
<1>1. config' \in [Processes -> Config]
  BY DEF Announce, TypeOK, Config
<1> QED BY <1>1 DEF Announce, TypeOK, Config

LEMMA PromoteType ==
  ASSUME TypeOK, NEW p \in Processes, NEW k \in Keys, Promote(p, k)
  PROVE  TypeOK'
<1>1. [signingKey |-> k,
       previousSigningKeys |-> (config[p].previousSigningKeys \cup {config[p].signingKey}) \ {k}] \in Config
  BY DEF TypeOK, Config
<1>2. config' \in [Processes -> Config]
  BY <1>1 DEF Promote, TypeOK, Config
<1>3. retired' \in [Keys -> Nat \cup {Never}]
  BY DEF Promote, TypeOK
<1> QED BY <1>2, <1>3 DEF Promote, TypeOK, Config

LEMMA RemoveType ==
  ASSUME TypeOK, NEW p \in Processes, NEW k \in Keys, RemoveOldKey(p, k)
  PROVE  TypeOK'
<1>1. config' \in [Processes -> Config]
  BY DEF RemoveOldKey, TypeOK, Config
<1> QED BY <1>1 DEF RemoveOldKey, TypeOK, Config

LEMMA StepType == TypeOK /\ [Next]_vars => TypeOK'
<1> SUFFICES ASSUME TypeOK, [Next]_vars PROVE TypeOK'
  OBVIOUS
<1>1. CASE \E p \in Processes : IssueAccessToken(p)
  BY <1>1, IssueType
<1>2. CASE \E p \in Processes, k \in Keys : Announce(p, k) \/ Promote(p, k) \/ RemoveOldKey(p, k)
  BY <1>2, AnnounceType, PromoteType, RemoveType
<1>3. CASE Tick
  BY <1>3 DEF Tick, TypeOK
<1>4. CASE UNCHANGED vars
  BY <1>4 DEF vars, TypeOK
<1> QED BY <1>1, <1>2, <1>3, <1>4 DEF Next

-----------------------------------------------------------------------------
(* The rotation invariant.                                                 *)

Inv == TypeOK /\ RotationInv

LEMMA InitInv == Init => Inv
<1> SUFFICES ASSUME Init PROVE Inv
  OBVIOUS
<1>1. TypeOK
  BY InitType
<1>2. \A p \in Processes : config[p].signingKey = 1
  BY DEF Init
<1> QED BY <1>1, <1>2 DEF Init, Inv, RotationInv, SigningKeysAreTrusted, RetiredKeysAreBehind,
             TokensAreTimely, TokensAreTrusted, Trusts

LEMMA IssueInv ==
  ASSUME Inv, NEW p \in Processes, IssueAccessToken(p)
  PROVE  RotationInv'
<1> USE DEF Inv, RotationInv
<1>1. UNCHANGED <<now, config, retired>>
  BY DEF IssueAccessToken
<1>2. SigningKeysAreTrusted' /\ RetiredKeysAreBehind'
  BY <1>1 DEF SigningKeysAreTrusted, RetiredKeysAreBehind, Trusts
<1>3. PICK new \in Token :
        /\ new.key = config[p].signingKey /\ new.iat = Clock(p) /\ new.exp = Clock(p) + Ttl
        /\ tokens' = tokens \cup {new}
  <2> DEFINE token == [key |-> config[p].signingKey, iat |-> Clock(p), exp |-> Clock(p) + Ttl]
  <2>1. config[p].signingKey \in Keys /\ Clock(p) \in Int
    BY DEF TypeOK, Clock
  <2>2. token \in Token
    BY <2>1 DEF Token
  <2> QED BY <2>2 DEF IssueAccessToken
<1>4. new.key \in Keys /\ retired[new.key] = Never
  <2>1. new.key \in Keys /\ new.key \in Int
    BY <1>3, KeysAreIntegers DEF Token
  <2>2. ~(config[p].signingKey > new.key)
    BY <1>3, <2>1
  <2> QED BY <2>1, <2>2 DEF RetiredKeysAreBehind
<1>5. Clock(p) \in Int /\ \A q \in Processes : Clock(q)' = Clock(q)
  BY <1>1 DEF Clock, TypeOK
<1>6. TokensAreTimely'
  <2> SUFFICES ASSUME NEW token \in tokens'
               PROVE  /\ token.exp = token.iat + Ttl
                      /\ \E q \in Processes : token.iat <= Clock(q)
                      /\ retired[token.key] # Never =>
                           \E q \in Processes : token.iat <= retired[token.key] + Offset[q]
    BY <1>1, <1>5 DEF TokensAreTimely
  <2>1. CASE token \in tokens
    BY <2>1 DEF TokensAreTimely
  <2>2. CASE token = new
    BY <2>2, <1>3, <1>4, <1>5
  <2> QED BY <2>1, <2>2, <1>3
<1>7. TokensAreTrusted'
  <2>1. \A q \in Processes : Trusts(q, new.key)
    BY <1>3 DEF SigningKeysAreTrusted
  <2> QED BY <2>1, <1>1, <1>3 DEF TokensAreTrusted, Trusts
<1> QED BY <1>2, <1>6, <1>7

\* A step that lets no process forget a key, and leaves the tokens and the clock alone.
LEMMA KeepsTrust ==
  ASSUME TypeOK, TokensAreTrusted, UNCHANGED <<now, tokens>>,
         \A k \in Keys : retired[k] # Never => retired'[k] = retired[k],
         \A q \in Processes, k \in Keys : Trusts(q, k) => Trusts(q, k)'
  PROVE  TokensAreTrusted'
<1> SUFFICES ASSUME NEW token \in tokens, NEW q \in Processes
             PROVE  \/ Trusts(q, token.key)'
                    \/ retired'[token.key] # Never /\ now >= retired'[token.key] + Ttl + Skew
  BY DEF TokensAreTrusted
<1>1. token.key \in Keys
  BY DEF TypeOK, Token
<1>2. CASE Trusts(q, token.key)
  BY <1>1, <1>2
<1>3. CASE retired[token.key] # Never /\ now >= retired[token.key] + Ttl + Skew
  BY <1>1, <1>3
<1> QED BY <1>2, <1>3 DEF TokensAreTrusted

LEMMA AnnounceInv ==
  ASSUME Inv, NEW p \in Processes, NEW k \in Keys, Announce(p, k)
  PROVE  RotationInv'
<1> USE DEF Inv, RotationInv
<1>1. /\ UNCHANGED <<now, retired, tokens>>
      /\ \A q \in Processes : config'[q].signingKey = config[q].signingKey
      /\ \A q \in Processes : config[q].previousSigningKeys \subseteq config'[q].previousSigningKeys
  BY DEF Announce, TypeOK
<1>2. \A q \in Processes, j \in Keys : Trusts(q, j) => Trusts(q, j)'
  BY <1>1 DEF Trusts
<1>3. SigningKeysAreTrusted'
  BY <1>1, <1>2 DEF SigningKeysAreTrusted, TypeOK
<1>4. RetiredKeysAreBehind'
  BY <1>1 DEF RetiredKeysAreBehind
<1>5. TokensAreTimely'
  BY <1>1 DEF TokensAreTimely, Clock
<1>6. TokensAreTrusted'
  BY <1>1, <1>2, KeepsTrust
<1> QED BY <1>3, <1>4, <1>5, <1>6

LEMMA PromoteInv ==
  ASSUME Inv, NEW p \in Processes, NEW k \in Keys, Promote(p, k)
  PROVE  RotationInv'
<1> USE DEF Inv, RotationInv
<1>1. /\ UNCHANGED <<now, tokens>> /\ now \in Nat
      /\ config[p].signingKey \in Keys /\ k = config[p].signingKey + 1
      /\ config'[p].signingKey = k
      /\ config'[p].previousSigningKeys = (config[p].previousSigningKeys \cup {config[p].signingKey}) \ {k}
      /\ \A q \in Processes \ {p} : config'[q] = config[q] /\ Trusts(q, k)
  BY DEF Promote, TypeOK
<1>2. \A q \in Processes, j \in Keys : Trusts(q, j) => Trusts(q, j)'
  BY <1>1 DEF Trusts
<1>3. SigningKeysAreTrusted'
  <2> SUFFICES ASSUME NEW q \in Processes, NEW r \in Processes
               PROVE  Trusts(q, config[r].signingKey)'
    BY DEF SigningKeysAreTrusted
  <2>1. CASE r # p
    BY <2>1, <1>1, <1>2 DEF SigningKeysAreTrusted, TypeOK
  <2>2. CASE r = p /\ q # p
    BY <2>2, <1>1, <1>2
  <2>3. CASE r = p /\ q = p
    BY <2>3, <1>1 DEF Trusts
  <2> QED BY <2>1, <2>2, <2>3
<1>4. \A j \in Keys : /\ retired[j] # Never => retired'[j] = retired[j]
                      /\ retired[j] = Never /\ retired'[j] # Never =>
                           retired'[j] = now /\ \A q \in Processes : config'[q].signingKey > j
  BY DEF Promote
<1>5. RetiredKeysAreBehind'
  <2> SUFFICES ASSUME NEW j \in Keys, retired'[j] # Never
               PROVE  retired'[j] <= now /\ \A q \in Processes : config'[q].signingKey > j
    BY <1>1 DEF RetiredKeysAreBehind
  <2>1. CASE retired[j] = Never
    BY <2>1, <1>1, <1>4
  <2>2. CASE retired[j] # Never
    <3>1. retired'[j] <= now /\ \A q \in Processes : config[q].signingKey > j
      BY <2>2, <1>4 DEF RetiredKeysAreBehind
    <3>2. \A q \in Processes \ {p} : config'[q].signingKey > j
      BY <3>1, <1>1
    <3>3. config'[p].signingKey > j
      <4>1. config[p].signingKey > j
        BY <3>1
      <4>2. config[p].signingKey \in Int /\ j \in Int /\ config'[p].signingKey = config[p].signingKey + 1
        BY <1>1, KeysAreIntegers
      <4> QED BY <4>1, <4>2
    <3> QED BY <3>1, <3>2, <3>3
  <2> QED BY <2>1, <2>2
<1>6. TokensAreTimely'
  <2> SUFFICES ASSUME NEW token \in tokens
               PROVE  /\ token.exp = token.iat + Ttl
                      /\ \E q \in Processes : token.iat <= Clock(q)'
                      /\ retired'[token.key] # Never =>
                           \E q \in Processes : token.iat <= retired'[token.key] + Offset[q]
    BY <1>1 DEF TokensAreTimely
  <2>1. token.key \in Keys /\ token.exp = token.iat + Ttl
    BY DEF TokensAreTimely, TypeOK, Token
  <2>2. PICK q \in Processes : token.iat <= now + Offset[q]
    BY DEF TokensAreTimely, Clock
  <2>3. \E r \in Processes : token.iat <= Clock(r)'
    BY <2>2, <1>1 DEF Clock
  <2>4. CASE retired[token.key] = Never
    BY <2>1, <2>2, <2>3, <2>4, <1>4
  <2>5. CASE retired[token.key] # Never
    BY <2>1, <2>3, <2>5, <1>4 DEF TokensAreTimely
  <2> QED BY <2>4, <2>5
<1>7. TokensAreTrusted'
  BY <1>1, <1>2, <1>4, KeepsTrust
<1> QED BY <1>3, <1>5, <1>6, <1>7

LEMMA RemoveInv ==
  ASSUME Inv, NEW p \in Processes, NEW k \in Keys, RemoveOldKey(p, k)
  PROVE  RotationInv'
<1> USE DEF Inv, RotationInv
<1>1. /\ UNCHANGED <<now, retired, tokens>>
      /\ retired[k] # Never /\ now >= retired[k] + Ttl + Skew
      /\ \A q \in Processes : config'[q].signingKey = config[q].signingKey
      /\ \A q \in Processes : config[q].previousSigningKeys \ {k} \subseteq config'[q].previousSigningKeys
  BY DEF RemoveOldKey, TypeOK
<1>2. \A q \in Processes, j \in Keys : j # k /\ Trusts(q, j) => Trusts(q, j)'
  BY <1>1 DEF Trusts
<1>3. \A q \in Processes : config[q].signingKey \in Keys /\ config[q].signingKey > k
  BY <1>1 DEF RetiredKeysAreBehind, TypeOK
<1>4. SigningKeysAreTrusted'
  <2>1. \A q \in Processes : config[q].signingKey # k
    <3> TAKE q \in Processes
    <3>1. k \in Int /\ config[q].signingKey \in Int
      BY <1>3, KeysAreIntegers
    <3> QED BY <3>1, <1>3
  <2> QED BY <2>1, <1>1, <1>2, <1>3 DEF SigningKeysAreTrusted
<1>5. RetiredKeysAreBehind'
  BY <1>1 DEF RetiredKeysAreBehind
<1>6. TokensAreTimely'
  BY <1>1 DEF TokensAreTimely, Clock
<1>7. TokensAreTrusted'
  <2> SUFFICES ASSUME NEW token \in tokens, NEW q \in Processes
               PROVE  \/ Trusts(q, token.key)'
                      \/ retired[token.key] # Never /\ now >= retired[token.key] + Ttl + Skew
    BY <1>1 DEF TokensAreTrusted
  <2>1. token.key \in Keys
    BY DEF TypeOK, Token
  <2>2. CASE token.key = k
    BY <2>2, <1>1
  <2>3. CASE token.key # k
    BY <2>1, <2>3, <1>2 DEF TokensAreTrusted
  <2> QED BY <2>2, <2>3
<1> QED BY <1>4, <1>5, <1>6, <1>7

LEMMA TickInv ==
  ASSUME Inv, Tick
  PROVE  RotationInv'
<1> USE DEF Inv, RotationInv
<1>1. UNCHANGED <<config, retired, tokens>> /\ now' = now + 1 /\ now \in Nat
  BY DEF Tick, TypeOK
<1>2. \A k \in Keys : retired[k] \in Int
  BY DEF TypeOK, Never
<1>3. SigningKeysAreTrusted'
  BY <1>1 DEF SigningKeysAreTrusted, Trusts
<1>4. RetiredKeysAreBehind'
  BY <1>1, <1>2 DEF RetiredKeysAreBehind
<1>5. TokensAreTimely'
  <2> SUFFICES ASSUME NEW token \in tokens
               PROVE  \E q \in Processes : token.iat <= Clock(q)'
    BY <1>1 DEF TokensAreTimely
  <2>1. PICK q \in Processes : token.iat <= Clock(q)
    BY DEF TokensAreTimely
  <2>2. token.iat \in Int /\ Clock(q) \in Int /\ Clock(q)' = Clock(q) + 1
    BY <1>1 DEF TypeOK, Token, Clock
  <2> QED BY <2>1, <2>2
<1>6. TokensAreTrusted'
  <2> SUFFICES ASSUME NEW token \in tokens, NEW q \in Processes
               PROVE  \/ Trusts(q, token.key)
                      \/ retired[token.key] # Never /\ now + 1 >= retired[token.key] + Ttl + Skew
    BY <1>1 DEF TokensAreTrusted, Trusts
  <2>1. retired[token.key] \in Int
    BY <1>2 DEF TypeOK, Token
  <2> QED BY <2>1, <1>1 DEF TokensAreTrusted
<1> QED BY <1>3, <1>4, <1>5, <1>6

LEMMA StepInv == Inv /\ [Next]_vars => Inv'
<1> SUFFICES ASSUME Inv, [Next]_vars PROVE RotationInv'
  BY StepType DEF Inv
<1>1. CASE \E p \in Processes : IssueAccessToken(p)
  BY <1>1, IssueInv
<1>2. CASE \E p \in Processes, k \in Keys : Announce(p, k) \/ Promote(p, k) \/ RemoveOldKey(p, k)
  BY <1>2, AnnounceInv, PromoteInv, RemoveInv
<1>3. CASE Tick
  BY <1>3, TickInv
<1>4. CASE UNCHANGED vars
  BY <1>4 DEF vars, Inv, RotationInv, SigningKeysAreTrusted, RetiredKeysAreBehind,
      TokensAreTimely, TokensAreTrusted, Trusts, Clock
<1> QED BY <1>1, <1>2, <1>3, <1>4 DEF Next

-----------------------------------------------------------------------------
(* The theorems.                                                           *)

\* The clocks and the lifetime of a token whose key was dropped.
LEMMA Dropped ==
  ASSUME Inv, NEW token \in tokens, NEW p \in Processes, ~Trusts(p, token.key), NEW q \in Processes
  PROVE  Clock(q) >= token.exp
<1> USE DEF Inv, RotationInv
<1>1. token.key \in Keys /\ token.iat \in Int /\ token.exp = token.iat + Ttl
  BY DEF TypeOK, Token, TokensAreTimely
<1>2. retired[token.key] # Never /\ now >= retired[token.key] + Ttl + Skew
  BY DEF TokensAreTrusted
<1>3. PICK r \in Processes : token.iat <= retired[token.key] + Offset[r]
  BY <1>2 DEF TokensAreTimely
<1>4. Offset[r] - Offset[q] <= Skew /\ Offset[r] \in Int /\ Offset[q] \in Int
  OBVIOUS
<1>5. retired[token.key] \in Int /\ now \in Int
  <2>1. now \in Nat /\ retired \in [Keys -> Nat \cup {Never}] /\ Never \in Int
    BY DEF TypeOK, Never
  <2>2. retired[token.key] \in Nat \cup {Never}
    BY <2>1, <1>1
  <2> QED BY <2>1, <2>2
<1> QED BY <1>1, <1>2, <1>3, <1>4, <1>5 DEF Clock

\* Configurations, tokens and the clock keep their types.
THEOREM TokenAuthTypes == Spec => []TypeOK
BY InitType, StepType, PTL DEF Spec

\* A dropped key was used for no token that some clock still calls valid.
THEOREM DroppedKeysAreDead == Spec => []DroppedKeyIsDead
<1>1. Inv => DroppedKeyIsDead
  BY Dropped DEF DroppedKeyIsDead
<1> QED BY <1>1, InitInv, StepInv, PTL DEF Spec

\* Every process accepts every token until its clock says the token is over.
THEOREM TokensServeTheirLifetime == Spec => []TokenServesItsLifetime
<1>1. ASSUME Inv, NEW token \in tokens, NEW p \in Processes, Clock(p) < token.exp
      PROVE  Verifies(p, token)
  <2>1. token.iat \in Int /\ token.exp \in Int /\ Clock(p) \in Int /\ token.exp = token.iat + Ttl
    BY <1>1 DEF Inv, RotationInv, TokensAreTimely, TypeOK, Token, Clock
  <2>2. Trusts(p, token.key)
    <3>1. ~(Clock(p) >= token.exp)
      BY <1>1, <2>1
    <3> QED BY <1>1, <3>1, Dropped
  <2>3. token.iat <= Clock(p) + Skew
    <3>1. PICK q \in Processes : token.iat <= now + Offset[q]
      BY <1>1 DEF Inv, RotationInv, TokensAreTimely, Clock
    <3>2. Offset[q] - Offset[p] <= Skew /\ Offset[q] \in Int /\ Offset[p] \in Int /\ now \in Int
      BY <1>1 DEF Inv, TypeOK
    <3> QED BY <2>1, <3>1, <3>2 DEF Clock
  <2>4. token.exp > token.iat /\ token.exp > Clock(p) - Skew
    BY <1>1, <2>1
  <2> QED BY <2>2, <2>3, <2>4 DEF Verifies
<1>2. Inv => TokenServesItsLifetime
  BY <1>1 DEF TokenServesItsLifetime
<1> QED BY <1>2, InitInv, StepInv, PTL DEF Spec
=============================================================================
