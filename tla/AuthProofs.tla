----------------------------- MODULE AuthProofs -----------------------------
(***************************************************************************)
(* Proofs about Auth, for every lifetime and every set of static tokens.   *)
(***************************************************************************)
EXTENDS Auth, TLAPS

\* What is bound, in the environment and so after any restart, is minted.
BoundIsMinted == \A s \in {env, settings} : s.bound \subseteq minting

\* A token without a claim that is minted is older than that: what it has
\* left and the age of the claim are a lifetime at most.
OlderTokensEnd ==
    \A t \in tokens, claim \in minting :
        claim \in t.claims \/ t.left + age[claim] <= Lifetime \/ t.left = 0

\* A claim that is not minted has no age.
AgeBegins == \A claim \in Bindings \ minting : age[claim] = 0

RolloutInv == TypeOK /\ BoundIsMinted /\ OlderTokensEnd /\ AgeBegins

LEMMA InitRollout == Init => RolloutInv
BY LifetimeIsPositive
   DEF Init, RolloutInv, TypeOK, BoundIsMinted, OlderTokensEnd, AgeBegins,
       Settings, Bindings

\* Time takes from every token what it adds to the age of a claim.
LEMMA TickKeepsRollout == RolloutInv /\ Tick => RolloutInv'
<1> SUFFICES ASSUME RolloutInv, Tick PROVE RolloutInv'
  OBVIOUS
<1> USE DEF RolloutInv, TypeOK
<1> DEFINE Older(t) == [t EXCEPT !.left = IF @ = 0 THEN 0 ELSE @ - 1]
<1>1. ASSUME NEW t \in tokens
      PROVE  /\ Older(t) \in Token /\ Older(t).claims = t.claims
             /\ t.left \in Nat
             /\ Older(t).left = IF t.left = 0 THEN 0 ELSE t.left - 1
  BY LifetimeIsPositive DEF Token
<1>2. tokens' = {Older(t) : t \in tokens}
  BY DEF Tick
<1>3. /\ age' \in [Bindings -> 0 .. Lifetime]
      /\ \A claim \in Bindings :
            age[claim] \in Nat /\ age'[claim] \in age[claim] .. age[claim] + 1
      /\ \A claim \in Bindings \ minting : age'[claim] = age[claim]
  BY LifetimeIsPositive DEF Tick
<1>4. env' = env /\ settings' = settings /\ minting' = minting
  BY DEF Tick
<1> HIDE DEF Older
<1>5. TypeOK'
  BY <1>1, <1>2, <1>3, <1>4
<1>6. OlderTokensEnd'
  <2> SUFFICES ASSUME NEW s \in tokens', NEW claim \in minting'
               PROVE  \/ claim \in s.claims \/ s.left = 0
                      \/ s.left + age'[claim] <= Lifetime
    BY DEF OlderTokensEnd
  <2>1. PICK t \in tokens : s = Older(t)
    BY <1>2
  <2>2. /\ claim \in minting /\ claim \in Bindings
        /\ age[claim] \in Nat /\ age'[claim] \in Nat
        /\ age'[claim] <= age[claim] + 1
    BY <1>3, <1>4
  <2>3. claim \in t.claims \/ t.left + age[claim] <= Lifetime \/ t.left = 0
    BY <2>2 DEF OlderTokensEnd
  <2> QED
    BY <1>1, <2>1, <2>2, <2>3, LifetimeIsPositive
<1>7. BoundIsMinted' /\ AgeBegins'
  BY <1>3, <1>4 DEF BoundIsMinted, AgeBegins
<1> QED
  BY <1>5, <1>6, <1>7

LEMMA NextKeepsRollout == RolloutInv /\ [Next]_vars => RolloutInv'
<1> SUFFICES ASSUME RolloutInv, [Next]_vars PROVE RolloutInv'
  OBVIOUS
<1> USE DEF RolloutInv, TypeOK, BoundIsMinted, OlderTokensEnd, AgeBegins
<1>1. ASSUME NEW claims \in SUBSET Bindings, Upgrade(claims)
      PROVE  RolloutInv'
  <2>1. \A t \in tokens : t.left \in Nat /\ t.left <= Lifetime
    BY LifetimeIsPositive DEF Token
  <2>2. \A claim \in claims \ minting : age[claim] = 0
    OBVIOUS
  <2> QED
    BY <1>1, <2>1, <2>2, LifetimeIsPositive DEF Upgrade
<1>2. ASSUME NEW bound \in SUBSET Bindings, Bind(bound) PROVE RolloutInv'
  <2>1. env' \in Settings /\ env'.bound = bound
    BY <1>2 DEF Bind, Settings
  <2> QED
    BY <1>2, <2>1 DEF Bind
<1>3. ASSUME NEW role \in Roles, Mint(role) PROVE RolloutInv'
  <2> DEFINE token == [claims |-> minting, role |-> role, left |-> Lifetime]
  <2>1. token \in Token
    BY LifetimeIsPositive DEF Token
  <2>2. tokens' = tokens \cup {token} /\ token.claims = minting
    BY <1>3 DEF Mint
  <2> HIDE DEF token
  <2> QED
    BY <1>3, <2>1, <2>2 DEF Mint
<1>4. ASSUME NEW static \in StaticTokens \cup {Null}, Rotate(static)
      PROVE  RolloutInv'
  <2>1. env' \in Settings /\ env'.bound = env.bound
    BY <1>4 DEF Rotate, Settings
  <2> QED
    BY <1>4, <2>1 DEF Rotate
<1>5. CASE Restart
  BY <1>5 DEF Restart
<1>6. CASE UNCHANGED vars
  BY <1>6 DEF vars
<1> QED
  BY <1>1, <1>2, <1>3, <1>4, <1>5, <1>6, TickKeepsRollout DEF Next

LEMMA RolloutInvariant == Spec => []RolloutInv
BY InitRollout, NextKeepsRollout, PTL DEF Spec

\* A token is no static token, and is decoded with the settings of the process.
LEMMA StatusOfToken ==
    ASSUME TypeOK, NEW t \in tokens, t.left > 0,
           settings.bound \subseteq t.claims
    PROVE  Status(t) = Deserved(t)
<1>1. t \in Token /\ t # Null /\ t.role \in Roles /\ t.role # Null
  BY CredentialsDiffer DEF TypeOK, Token
<1>2. ~IsStatic(t)
  BY <1>1, CredentialsDiffer DEF TypeOK, Settings, IsStatic, GetSettings
<1>3. Decodes(t)
  BY DEF Decodes, GetSettings
<1>4. Role(t) = t.role
  BY <1>1, <1>2, <1>3 DEF Role
<1> QED
  BY <1>1, <1>4 DEF Status, Deserved, Roles

\* auth.py:27-40, docs/AUDIT.md:43-44.  The documented rollout refuses none
\* but tokens from before event-admin minted a claim, and these for less than
\* a lifetime from then on; for every lifetime and every order of its steps.
THEOREM RefusalStaysBrief == Spec => []RefusalIsBrief
<1>1. RolloutInv => RefusalIsBrief
  <2> SUFFICES ASSUME RolloutInv, NEW t \in tokens, t.left > 0,
                      Status(t) # Deserved(t)
               PROVE  \E claim \in settings.bound \ t.claims :
                          age[claim] < Lifetime
    BY DEF RefusalIsBrief
  <2>1. PICK claim \in settings.bound : claim \notin t.claims
    BY StatusOfToken DEF RolloutInv
  <2>2. claim \in minting /\ age[claim] \in Nat /\ t.left \in Nat
    BY <2>1, LifetimeIsPositive
       DEF RolloutInv, BoundIsMinted, TypeOK, Token
  <2>3. t.left + age[claim] <= Lifetime
    BY <2>1, <2>2 DEF RolloutInv, OlderTokensEnd
  <2> QED
    BY <2>1, <2>2, <2>3, LifetimeIsPositive
<1> QED
  BY <1>1, RolloutInvariant, PTL
=============================================================================
