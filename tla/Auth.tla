-------------------------------- MODULE Auth --------------------------------
(***************************************************************************)
(* Who may use /api/users, while the deployment changes: event-admin       *)
(* begins to mint tokens with aud and iss, the operator turns on the       *)
(* binding to them and replaces the static token of services, and the      *)
(* process, which reads its settings once, restarts at any time.           *)
(***************************************************************************)
EXTENDS Naturals

CONSTANTS
    Lifetime,       \* how long a token is valid
    StaticTokens,   \* the values of api_bearer_token
    Null

ASSUME LifetimeIsPositive == Lifetime \in Nat \ {0}

VARIABLES
    env,        \* the environment of the service
    settings,   \* what the running process has read of it
    minting,    \* the claims that event-admin puts into tokens
    age,        \* for how long it has done so, per claim, up to Lifetime
    tokens      \* the tokens it has minted

vars == <<env, settings, minting, age, tokens>>

Bindings == {"aud", "iss"}

\* What is bound by jwt_audience and jwt_issuer, and api_bearer_token.
Settings == [bound: SUBSET Bindings, static: StaticTokens \cup {Null}]

\* The claims of a token that are there and name this service and its issuer.
Roles == {"admin", "user"}
Token == [claims: SUBSET Bindings, role: Roles, left: 0 .. Lifetime]

ASSUME CredentialsDiffer ==
    Null \notin StaticTokens \cup Token \cup Roles /\ StaticTokens \cap Token = {}

TypeOK ==
    /\ env \in Settings
    /\ settings \in Settings
    /\ minting \subseteq Bindings
    /\ age \in [Bindings -> 0 .. Lifetime]
    /\ tokens \subseteq Token

Init ==
    /\ env \in [bound: {{}}, static: StaticTokens \cup {Null}]
    /\ settings = env
    /\ minting = {}
    /\ age = [claim \in Bindings |-> 0]
    /\ tokens = {}

-----------------------------------------------------------------------------
(***************************************************************************)
(* The decision about one request.                                         *)
(***************************************************************************)
\* lru_cache: the settings of the process.
GetSettings == settings

IsStatic(credential) == credential = GetSettings.static /\ credential # Null

\* Variant: verify_aud is always on, and refuses an aud that is not expected.
Decodes_StrictAud(token) ==
    /\ token.left > 0
    /\ GetSettings.bound \subseteq token.claims
    /\ "aud" \in token.claims => "aud" \in GetSettings.bound

\* Signature, expiry, and each claim that is bound; other claims pass.
Decodes(token) == token.left > 0 /\ GetSettings.bound \subseteq token.claims

\* The role that verify_bearer_token gives, Null with 401.
Role(credential) ==
    IF credential = Null THEN Null
    ELSE IF IsStatic(credential) THEN "admin"
    ELSE IF credential \in Token /\ Decodes(credential) THEN credential.role
    ELSE Null

\* require_admin.
Status(credential) ==
    CASE Role(credential) = "admin" -> "served"
      [] Role(credential) = Null    -> "401"
      [] OTHER                      -> "403"

-----------------------------------------------------------------------------
(***************************************************************************)
(* The deployment.                                                         *)
(***************************************************************************)
\* A new version of event-admin puts one more claim, or both, into tokens.
Upgrade(claims) ==
    /\ minting \subseteq claims /\ minting # claims
    /\ minting' = claims
    /\ UNCHANGED <<env, settings, age, tokens>>

Mint(role) ==
    /\ tokens' = tokens \cup
                 {[claims |-> minting, role |-> role, left |-> Lifetime]}
    /\ UNCHANGED <<env, settings, minting, age>>

\* Time passes.
Tick ==
    /\ \/ \E t \in tokens : t.left > 0
       \/ \E claim \in minting : age[claim] < Lifetime
    /\ tokens' = {[t EXCEPT !.left = IF @ = 0 THEN 0 ELSE @ - 1] : t \in tokens}
    /\ age' = [claim \in Bindings |->
                 IF claim \in minting /\ age[claim] < Lifetime
                 THEN age[claim] + 1 ELSE age[claim]]
    /\ UNCHANGED <<env, settings, minting>>

\* docs/AUDIT.md:28 and 43-44: the operator binds claims that event-admin
\* mints, and may take a binding back.
Bind(bound) ==
    /\ bound # env.bound
    /\ bound \subseteq minting
    /\ env' = [env EXCEPT !.bound = bound]
    /\ UNCHANGED <<settings, minting, age, tokens>>

\* The static token is replaced, or taken away.
Rotate(static) ==
    /\ static # env.static
    /\ env' = [env EXCEPT !.static = static]
    /\ UNCHANGED <<settings, minting, age, tokens>>

\* A crash or a deployment.
Restart ==
    /\ settings' = env
    /\ UNCHANGED <<env, minting, age, tokens>>

Next ==
    \/ \E claims \in SUBSET Bindings : Upgrade(claims) \/ Bind(claims)
    \/ \E role \in Roles : Mint(role)
    \/ \E static \in StaticTokens \cup {Null} : Rotate(static)
    \/ Tick
    \/ Restart

Spec == Init /\ [][Next]_vars

-----------------------------------------------------------------------------
(***************************************************************************)
(* Properties.                                                             *)
(***************************************************************************)
\* What a token gets that no binding refuses.
Deserved(t) == IF t.role = "admin" THEN "served" ELSE "403"

\* auth.py:27-40.  What the documented rollout does refuse, in whatever order
\* upgrades, bindings, restarts and tokens come: tokens from before the
\* upgrade that brought a claim, and these for less than a lifetime after it.
\* So who binds a claim a lifetime after it is minted refuses nobody.
RefusalIsBrief ==
    \A t \in tokens :
        t.left > 0 /\ Status(t) # Deserved(t) =>
            \E claim \in settings.bound \ t.claims : age[claim] < Lifetime
=============================================================================
