--------------------------- MODULE MailSend_proofs ---------------------------
(* Theorems about GoogleGrant and about MailSend, which sends under it, for *)
(* any number of threads, consents, features, requests and payloads and any *)
(* bounds.                                                                  *)
EXTENDS MailSend, TLAPS

----------------------------------------------------------------------------
(* The grant on its own.                                                   *)

(* Lemmas about the values the actions store.                              *)

LEMMA ZeroIsAToken == 0 \in Token /\ 0 \in Generation
BY GrantAssumption DEF Token, Generation

LEMMA IdleIsACaller == Idle \in Caller
BY ZeroIsAToken DEF Idle, Caller, NoToken

LEMMA FailedIsACaller ==
  ASSUME NEW category \in Category PROVE Failed(category) \in Caller
BY IdleIsACaller DEF Failed, Caller

(* Replacing one thread's record, or one consent's, by another of the same *)
(* kind.                                                                   *)
LEMMA CallerUpdate ==
  ASSUME NEW f \in [Callers -> Caller], NEW c \in Callers, NEW v \in Caller
  PROVE  [f EXCEPT ![c] = v] \in [Callers -> Caller]
OBVIOUS

LEMMA IntentUpdate ==
  ASSUME NEW f \in [Intents -> Intent], NEW i \in Intents, NEW v \in Intent
  PROVE  [f EXCEPT ![i] = v] \in [Intents -> Intent]
OBVIOUS

----------------------------------------------------------------------------
(* Type correctness, one lemma per group of steps.                         *)

LEMMA GrantInitTyped == GrantInit => GrantTypeOK
<1> SUFFICES ASSUME GrantInit PROVE GrantTypeOK
  OBVIOUS
<1>1. grant \in Grant
  BY ZeroIsAToken DEF GrantInit, Grant, NoToken
<1>2. callers \in [Callers -> Caller]
  BY IdleIsACaller DEF GrantInit
<1>3. intents \in [Intents -> Intent]
  BY ZeroIsAToken DEF GrantInit, Intent
<1>4. QED
  BY <1>1, <1>2, <1>3, ZeroIsAToken DEF GrantInit, GrantTypeOK

LEMMA RequestTyped ==
  ASSUME GrantTypeOK, NEW c \in Callers, NEW feature \in Features,
         RequestCredential(c, feature)
  PROVE  GrantTypeOK'
<1> DEFINE next ==
      IF Status(feature) # "CONNECTED" THEN Failed(CategoryOf(Status(feature)))
      ELSE IF grant.expired THEN [Idle EXCEPT !.phase = "expired"]
      ELSE [Idle EXCEPT !.phase = "held", !.gen = grant.gen, !.access = grant.access]
<1>1. Status(feature) # "CONNECTED" => CategoryOf(Status(feature)) \in Category
  BY DEF Status, CategoryOf, Category
<1>2. [Idle EXCEPT !.phase = "expired"] \in Caller
  BY IdleIsACaller DEF Caller
<1>3. [Idle EXCEPT !.phase = "held", !.gen = grant.gen, !.access = grant.access] \in Caller
  BY IdleIsACaller DEF Caller, GrantTypeOK, Grant
<1>4. next \in Caller
  BY <1>1, <1>2, <1>3, FailedIsACaller
<1>5. callers' = [callers EXCEPT ![c] = next]
  BY DEF RequestCredential
<1>6. QED
  BY <1>4, <1>5, CallerUpdate DEF RequestCredential, GrantTypeOK

LEMMA RefreshTyped ==
  ASSUME GrantTypeOK, NEW c \in Callers, RefreshStep(c)
  PROVE  GrantTypeOK'
<1>0. callers[c] \in Caller
  BY DEF GrantTypeOK
<1>1. CASE BeginRefresh(c)
  <2>1. [grant EXCEPT !.claim = c, !.leased = TRUE] \in Grant
    BY DEF GrantTypeOK, Grant
  <2>2. [Idle EXCEPT !.phase = "refreshing", !.gen = grant.gen, !.refresh = grant.refresh]
          \in Caller
    BY IdleIsACaller DEF GrantTypeOK, Grant, Caller
  <2>3. QED
    BY <1>1, <2>1, <2>2, CallerUpdate DEF BeginRefresh, GrantTypeOK
<1>2. CASE RefuseRefresh(c)
  <2>1. (IF grant.refresh = NoToken THEN "REAUTH_REQUIRED" ELSE "TEMPORARY") \in Category
    BY DEF Category
  <2>2. QED
    BY <1>2, <2>1, FailedIsACaller, CallerUpdate DEF RefuseRefresh, GrantTypeOK
<1>3. ASSUME NEW rotates \in BOOLEAN, ProviderGrants(c, rotates) PROVE GrantTypeOK'
  <2> DEFINE next == [callers[c] EXCEPT !.phase = "granted", !.access = minted + 1,
                        !.refresh = IF rotates THEN minted + 2 ELSE NoToken]
  <2>1. minted \in Nat /\ minted' \in Token
    BY GrantAssumption, <1>3 DEF GrantTypeOK, Token, ProviderGrants
  <2>2. minted + 1 \in Token /\ (IF rotates THEN minted + 2 ELSE NoToken) \in Token
    BY GrantAssumption, <1>3, <2>1 DEF ProviderGrants, Token, NoToken
  <2>3. next \in Caller
    BY <1>0, <2>2 DEF Caller
  <2>4. callers' = [callers EXCEPT ![c] = next]
    BY <1>3 DEF ProviderGrants
  <2>5. QED
    BY <1>3, <2>1, <2>3, <2>4, CallerUpdate DEF ProviderGrants, GrantTypeOK
<1>4. CASE ProviderRejects(c) \/ ProviderUnavailable(c)
  <2>1. /\ [callers[c] EXCEPT !.phase = "rejected"] \in Caller
        /\ [callers[c] EXCEPT !.phase = "unavailable"] \in Caller
        /\ callers[c].refresh \in Token
    BY <1>0 DEF Caller
  <2>2. QED
    BY <1>4, <2>1, CallerUpdate DEF ProviderRejects, ProviderUnavailable, GrantTypeOK
<1>5. CASE CompleteRefresh(c)
  <2>1. grant.gen + 1 \in Generation /\ callers[c].gen + 1 \in Generation
    BY GrantAssumption, <1>0, <1>5
    DEF CompleteRefresh, ClaimIsCurrent, GrantTypeOK, Grant, Generation
  <2>2. callers[c].access \in Token /\ callers[c].refresh \in Token
    BY <1>0 DEF Caller
  <2>3. StoreRefreshed(c) \in Grant
    BY <2>1, <2>2 DEF StoreRefreshed, GrantTypeOK, Grant
  <2>4. [Idle EXCEPT !.phase = "held", !.gen = callers[c].gen + 1,
                     !.access = callers[c].access] \in Caller
    BY <2>1, <2>2, IdleIsACaller DEF Caller
  <2>5. QED
    BY <1>5, <2>3, <2>4, CallerUpdate DEF CompleteRefresh, GrantTypeOK
<1>6. CASE RefreshIsStale(c)
  BY <1>6, FailedIsACaller, CallerUpdate DEF RefreshIsStale, GrantTypeOK, Category
<1>7. CASE FailRefresh(c)
  <2>1. grant' \in Grant
    BY <1>7 DEF FailRefresh, GrantTypeOK, Grant
  <2>2. (IF callers[c].phase = "rejected" THEN "REAUTH_REQUIRED" ELSE "TEMPORARY")
          \in Category
    BY DEF Category
  <2>3. QED
    BY <1>7, <2>1, <2>2, FailedIsACaller, CallerUpdate DEF FailRefresh, GrantTypeOK
<1>8. QED
  BY <1>1, <1>2, <1>3, <1>4, <1>5, <1>6, <1>7 DEF RefreshStep

LEMMA OwnerTyped ==
  ASSUME GrantTypeOK, OwnerStep
  PROVE  GrantTypeOK'
<1>1. CASE TokenExpires
  BY <1>1 DEF TokenExpires, GrantTypeOK, Grant
<1>2. CASE LeaseExpires
  BY <1>2 DEF LeaseExpires, GrantTypeOK, Grant
<1>3. CASE Disconnect
  <2>1. grant.gen + 1 \in Generation
    BY <1>3, GrantAssumption DEF Disconnect, GrantTypeOK, Grant, Generation
  <2>2. grant' \in Grant
    BY <1>3, <2>1, ZeroIsAToken DEF Disconnect, GrantTypeOK, Grant, NoToken
  <2>3. QED
    BY <1>3, <2>2 DEF Disconnect, GrantTypeOK
<1>4. ASSUME NEW i \in Intents, StartConsent(i) \/ DenyConsent(i) PROVE GrantTypeOK'
  <2>1. /\ [intents[i] EXCEPT !.state = "pending", !.gen = grant.gen] \in Intent
        /\ [intents[i] EXCEPT !.state = "denied"] \in Intent
    BY DEF GrantTypeOK, Grant, Intent
  <2>2. QED
    BY <1>4, <2>1, IntentUpdate DEF StartConsent, DenyConsent, GrantTypeOK
<1>5. ASSUME NEW i \in Intents, NEW scopes \in SUBSET Features, NEW offline \in BOOLEAN,
             Connect(i, scopes, offline)
      PROVE  GrantTypeOK'
  <2>1. grant.gen + 1 \in Generation
    BY <1>5, GrantAssumption DEF Connect, GrantTypeOK, Grant, Generation
  <2>2. minted \in Nat /\ minted' \in Token /\ minted + 1 \in Token
    BY <1>5, GrantAssumption DEF Connect, GrantTypeOK, Token
  <2>3. offline => minted + 2 \in Token
    BY <1>5, <2>2, GrantAssumption DEF Connect, Token
  <2>4. grant' \in Grant
    BY <1>5, <2>1, <2>2, <2>3 DEF Connect, GrantTypeOK, Grant
  <2>5. [intents[i] EXCEPT !.state = "connected"] \in Intent
    BY DEF GrantTypeOK, Intent
  <2>6. QED
    BY <1>5, <2>2, <2>4, <2>5, IntentUpdate DEF Connect, GrantTypeOK
<1>6. QED
  BY <1>1, <1>2, <1>3, <1>4, <1>5 DEF OwnerStep

LEMMA ReleaseTyped ==
  ASSUME GrantTypeOK, NEW c \in Callers, Release(c) \/ CallerCrashes(c)
  PROVE  GrantTypeOK'
BY IdleIsACaller, CallerUpdate DEF Release, CallerCrashes, GrantTypeOK

LEMMA GrantStepTyped == GrantTypeOK /\ [GrantNext]_grantVars => GrantTypeOK'
<1> SUFFICES ASSUME GrantTypeOK, [GrantNext]_grantVars PROVE GrantTypeOK'
  OBVIOUS
<1>1. CASE UNCHANGED grantVars
  BY <1>1 DEF grantVars, GrantTypeOK
<1>2. CASE GrantNext
  BY <1>2, RequestTyped, RefreshTyped, OwnerTyped, ReleaseTyped DEF GrantNext
<1>3. QED
  BY <1>1, <1>2

(* The grant row, the threads and the consents keep their types: in        *)
(* particular no refresh, consent or disconnect moves the generation past  *)
(* the bound or stores what is not a token.                                *)
THEOREM GrantTypeCorrect == GrantSpec => []GrantTypeOK
BY GrantInitTyped, GrantStepTyped, PTL DEF GrantSpec

----------------------------------------------------------------------------
(* The inductive invariant.  None of the four properties is inductive: a   *)
(* step of a thread is safe because of what its generation says about the  *)
(* row it read in an earlier transaction.                                  *)

InExchange(thread) ==
  thread.phase \in {"refreshing", "granted", "rejected", "unavailable"}

(* Nobody holds a generation the row has not reached, and nobody who holds *)
(* the row's generation holds anything but what the row stores.            *)
ThreadAgrees(thread, row, refused) ==
  /\ thread.gen <= row.gen
  /\ thread.gen = row.gen =>
       /\ thread.phase = "held" => thread.access = row.access
       /\ InExchange(thread) => row.access # NoToken
       /\ InExchange(thread) /\ thread.phase # "granted" => thread.refresh = row.refresh
  /\ thread.phase = "granted" => thread.access # NoToken
  /\ thread.phase = "rejected" => thread.refresh \in refused

ThreadsAgree == \A c \in Callers : ThreadAgrees(callers[c], grant, rejected)

RefreshNeedsAccess == grant.refresh # NoToken => grant.access # NoToken

(* A pending consent that a disconnect overtook is a generation behind.    *)
ConsentsAgree ==
  \A i \in Intents :
    /\ intents[i].state = "pending" => intents[i].gen <= grant.gen
    /\ i \in overtaken =>
         /\ intents[i].state \in {"pending", "denied"}
         /\ intents[i].state = "pending" => intents[i].gen < grant.gen

GrantInv ==
  /\ GrantTypeOK
  /\ ThreadsAgree
  /\ RefreshNeedsAccess
  /\ ConsentsAgree
  /\ ReauthOnlyForARejectedToken

----------------------------------------------------------------------------
(* Facts the type invariant gives about a row and a thread.                *)
LEMMA TypedParts ==
  ASSUME GrantTypeOK
  PROVE  /\ grant.gen \in Nat /\ grant.access \in Nat /\ grant.refresh \in Nat
         /\ \A c \in Callers : callers[c].gen \in Nat /\ callers[c] \in Caller
         /\ \A i \in Intents : intents[i].gen \in Nat /\ intents[i] \in Intent
         /\ minted \in Nat
BY GrantAssumption DEF GrantTypeOK, Grant, Caller, Intent, Generation, Token

(* Steps that leave the row's tokens and generation alone, and the         *)
(* consents too, disturb only what the invariant says of the thread that   *)
(* takes the step; they may demand a new consent over a refused token.     *)
LEMMA ThreadStep ==
  ASSUME GrantInv, GrantTypeOK', NEW c \in Callers, NEW v,
         callers' = [callers EXCEPT ![c] = v],
         ThreadAgrees(v, grant, rejected'),
         grant'.gen = grant.gen, grant'.access = grant.access,
         grant'.refresh = grant.refresh,
         grant'.status = grant.status \/ grant.refresh \in rejected,
         rejected \subseteq rejected', UNCHANGED <<intents, overtaken>>
  PROVE  GrantInv'
<1>1. ASSUME NEW d \in Callers PROVE ThreadAgrees(callers'[d], grant', rejected')
  <2>1. CASE d = c
    BY <2>1 DEF GrantInv, GrantTypeOK, ThreadAgrees, InExchange
  <2>2. CASE d # c
    BY <2>2 DEF GrantInv, GrantTypeOK, ThreadsAgree, ThreadAgrees, InExchange
  <2>3. QED
    BY <2>1, <2>2
<1>2. QED
  BY <1>1 DEF GrantInv, ThreadsAgree, RefreshNeedsAccess, ConsentsAgree,
              ReauthOnlyForARejectedToken

(* A thread without a claim or a credential agrees with every row.         *)
LEMMA EmptyHandedAgrees ==
  ASSUME GrantTypeOK, NEW v, v.gen = 0,
         v.phase \in {"none", "expired", "failed"}, NEW refused
  PROVE  ThreadAgrees(v, grant, refused)
BY TypedParts DEF ThreadAgrees, InExchange, NoToken

(* A thread that is a generation behind agrees with any later row.         *)
LEMMA BehindAgrees ==
  ASSUME NEW v, NEW row, NEW refused, v.gen \in Nat, row.gen \in Nat, v.gen < row.gen,
         v.phase = "granted" => v.access # NoToken,
         v.phase = "rejected" => v.refresh \in refused
  PROVE  ThreadAgrees(v, row, refused)
BY DEF ThreadAgrees

LEMMA GrantInvInit == GrantInit => GrantInv
<1> SUFFICES ASSUME GrantInit PROVE GrantInv
  OBVIOUS
<1>1. GrantTypeOK
  BY GrantInitTyped
<1>2. ThreadsAgree
  BY <1>1, EmptyHandedAgrees DEF GrantInit, ThreadsAgree, Idle
<1>3. ConsentsAgree
  BY DEF GrantInit, ConsentsAgree
<1>4. QED
  BY <1>1, <1>2, <1>3
  DEF GrantInv, GrantInit, RefreshNeedsAccess, ReauthOnlyForARejectedToken

LEMMA RequestInv ==
  ASSUME GrantInv, NEW c \in Callers, NEW feature \in Features,
         RequestCredential(c, feature)
  PROVE  GrantInv'
<1> DEFINE held == [Idle EXCEPT !.phase = "held", !.gen = grant.gen, !.access = grant.access]
           expired == [Idle EXCEPT !.phase = "expired"]
           failed == Failed(CategoryOf(Status(feature)))
<1>1. GrantTypeOK /\ GrantTypeOK'
  BY RequestTyped DEF GrantInv
<1>2. ThreadAgrees(held, grant, rejected)
  BY <1>1, TypedParts DEF ThreadAgrees, InExchange, Idle
<1>3. ThreadAgrees(expired, grant, rejected) /\ ThreadAgrees(failed, grant, rejected)
  BY <1>1, EmptyHandedAgrees DEF Idle, Failed
<1>4. \E v \in {held, expired, failed} : callers' = [callers EXCEPT ![c] = v]
  BY DEF RequestCredential
<1>5. QED
  BY <1>1, <1>2, <1>3, <1>4, ThreadStep DEF RequestCredential

LEMMA ReleaseInv ==
  ASSUME GrantInv, NEW c \in Callers, Release(c) \/ CallerCrashes(c)
  PROVE  GrantInv'
<1>1. GrantTypeOK /\ GrantTypeOK'
  BY ReleaseTyped DEF GrantInv
<1>2. ThreadAgrees(Idle, grant, rejected)
  BY <1>1, EmptyHandedAgrees DEF Idle
<1>3. QED
  BY <1>1, <1>2, ThreadStep DEF Release, CallerCrashes

LEMMA RefreshInv ==
  ASSUME GrantInv, NEW c \in Callers, RefreshStep(c)
  PROVE  GrantInv'
<1> DEFINE t == callers[c]
<1>1. GrantTypeOK /\ GrantTypeOK' /\ t \in Caller
  BY RefreshTyped, TypedParts DEF GrantInv
<1>2. ThreadAgrees(t, grant, rejected) /\ RefreshNeedsAccess
  BY DEF GrantInv, ThreadsAgree
<1>3. CASE BeginRefresh(c)
  <2> DEFINE v == [Idle EXCEPT !.phase = "refreshing", !.gen = grant.gen,
                               !.refresh = grant.refresh]
  <2>1. ThreadAgrees(v, grant, rejected)
    BY <1>1, <1>2, <1>3, TypedParts
    DEF BeginRefresh, MayClaim, ThreadAgrees, InExchange, RefreshNeedsAccess, Idle
  <2>2. QED
    BY <1>1, <1>3, <2>1, ThreadStep DEF BeginRefresh, GrantTypeOK, Grant
<1>4. CASE RefuseRefresh(c)
  <2> DEFINE v == Failed(IF grant.refresh = NoToken THEN "REAUTH_REQUIRED" ELSE "TEMPORARY")
  <2>1. ThreadAgrees(v, grant, rejected)
    BY <1>1, EmptyHandedAgrees DEF Idle, Failed
  <2>2. QED
    BY <1>1, <1>4, <2>1, ThreadStep DEF RefuseRefresh
<1>5. ASSUME NEW rotates \in BOOLEAN, ProviderGrants(c, rotates) PROVE GrantInv'
  <2> DEFINE v == [t EXCEPT !.phase = "granted", !.access = minted + 1,
                            !.refresh = IF rotates THEN minted + 2 ELSE NoToken]
  <2>1. ThreadAgrees(v, grant, rejected)
    BY <1>1, <1>2, <1>5, TypedParts DEF ProviderGrants, ThreadAgrees, InExchange, Caller, NoToken
  <2>2. callers' = [callers EXCEPT ![c] = v]
    BY <1>5 DEF ProviderGrants
  <2>3. QED
    BY <1>1, <1>5, <2>1, <2>2, ThreadStep DEF ProviderGrants
<1>6. CASE ProviderRejects(c)
  <2> DEFINE v == [t EXCEPT !.phase = "rejected"]
  <2>1. ThreadAgrees(v, grant, rejected')
    BY <1>1, <1>2, <1>6 DEF ProviderRejects, ThreadAgrees, InExchange, Caller
  <2>2. QED
    BY <1>1, <1>6, <2>1, ThreadStep DEF ProviderRejects
<1>7. CASE ProviderUnavailable(c)
  <2> DEFINE v == [t EXCEPT !.phase = "unavailable"]
  <2>1. ThreadAgrees(v, grant, rejected)
    BY <1>1, <1>2, <1>7 DEF ProviderUnavailable, ThreadAgrees, InExchange, Caller
  <2>2. QED
    BY <1>1, <1>7, <2>1, ThreadStep DEF ProviderUnavailable
<1>8. CASE CompleteRefresh(c)
  <2> DEFINE v == [Idle EXCEPT !.phase = "held", !.gen = t.gen + 1, !.access = t.access]
  <2>1. /\ grant'.gen = grant.gen + 1 /\ t.gen = grant.gen
        /\ grant'.access = t.access /\ grant'.status = "CONNECTED"
        /\ grant' = StoreRefreshed(c)
    BY <1>1, <1>8 DEF CompleteRefresh, StoreRefreshed, ClaimIsCurrent, GrantTypeOK, Grant
  <2>2. ASSUME NEW d \in Callers PROVE ThreadAgrees(callers'[d], grant', rejected')
    <3>1. CASE d = c
      <4>1. callers'[c] = v
        BY <1>1, <1>8 DEF CompleteRefresh, GrantTypeOK
      <4>2. /\ v.gen = grant'.gen /\ v.phase = "held" /\ v.access = grant'.access
            /\ v.gen \in Nat
        BY <1>1, <2>1, TypedParts DEF Idle
      <4>3. QED
        BY <3>1, <4>1, <4>2 DEF ThreadAgrees, InExchange
    <3>2. CASE d # c
      <4>1. callers'[d] = callers[d] /\ rejected' = rejected
        BY <1>1, <1>8, <3>2 DEF CompleteRefresh, GrantTypeOK
      <4>2. ThreadAgrees(callers[d], grant, rejected)
        BY DEF GrantInv, ThreadsAgree
      <4>3. callers[d].gen < grant'.gen
        BY <1>1, <2>1, <4>2, TypedParts DEF ThreadAgrees
      <4>4. callers[d].gen \in Nat /\ grant'.gen \in Nat
        BY <1>1, <2>1, TypedParts
      <4>5. QED
        BY <4>1, <4>2, <4>3, <4>4, BehindAgrees DEF ThreadAgrees
    <3>3. QED
      BY <3>1, <3>2
  <2>3. RefreshNeedsAccess'
    BY <1>1, <1>2, <1>8, <2>1
    DEF CompleteRefresh, RefreshNeedsAccess, ThreadAgrees, InExchange
  <2>4. ConsentsAgree'
    BY <1>1, <1>8, <2>1, TypedParts DEF CompleteRefresh, GrantInv, ConsentsAgree
  <2>5. QED
    BY <1>1, <2>1, <2>2, <2>3, <2>4
    DEF GrantInv, ThreadsAgree, ReauthOnlyForARejectedToken
<1>9. CASE RefreshIsStale(c)
  <2>1. ThreadAgrees(Failed("TEMPORARY"), grant, rejected)
    BY <1>1, EmptyHandedAgrees DEF Idle, Failed
  <2>2. QED
    BY <1>1, <1>9, <2>1, ThreadStep DEF RefreshIsStale
<1>10. CASE FailRefresh(c)
  <2> DEFINE v == Failed(IF t.phase = "rejected" THEN "REAUTH_REQUIRED" ELSE "TEMPORARY")
  <2>1. ThreadAgrees(v, grant, rejected)
    BY <1>1, EmptyHandedAgrees DEF Idle, Failed
  <2>2. callers' = [callers EXCEPT ![c] = v]
    BY <1>10 DEF FailRefresh
  <2>3. t.phase = "rejected" /\ ClaimIsCurrent(c) => grant.refresh \in rejected
    BY <1>2 DEF ClaimIsCurrent, ThreadAgrees, InExchange
  <2>4. /\ grant'.gen = grant.gen /\ grant'.access = grant.access
        /\ grant'.refresh = grant.refresh
        /\ grant'.status = grant.status \/ grant.refresh \in rejected
    BY <1>1, <1>10, <2>3 DEF FailRefresh, GrantTypeOK, Grant
  <2>5. QED
    BY <1>1, <1>10, <2>1, <2>2, <2>4, ThreadStep DEF FailRefresh
<1>11. QED
  BY <1>3, <1>4, <1>5, <1>6, <1>7, <1>8, <1>9, <1>10 DEF RefreshStep

LEMMA OwnerInv ==
  ASSUME GrantInv, OwnerStep
  PROVE  GrantInv'
<1>1. GrantTypeOK /\ GrantTypeOK'
  BY OwnerTyped DEF GrantInv
<1>2. ASSUME grant'.gen = grant.gen + 1, UNCHANGED <<callers, rejected>>
      PROVE  ThreadsAgree'
  <2> SUFFICES ASSUME NEW d \in Callers PROVE ThreadAgrees(callers[d], grant', rejected)
    BY <1>2 DEF ThreadsAgree
  <2>1. ThreadAgrees(callers[d], grant, rejected)
    BY DEF GrantInv, ThreadsAgree
  <2>2. callers[d].gen < grant'.gen
    BY <1>1, <1>2, <2>1, TypedParts DEF ThreadAgrees
  <2>3. callers[d].gen \in Nat /\ grant'.gen \in Nat
    BY <1>1, <1>2, TypedParts
  <2>4. QED
    BY <2>1, <2>2, <2>3, BehindAgrees DEF ThreadAgrees
<1>3. CASE TokenExpires \/ LeaseExpires
  <2>1. /\ grant'.gen = grant.gen /\ grant'.access = grant.access
        /\ grant'.refresh = grant.refresh /\ grant'.status = grant.status
    BY <1>1, <1>3 DEF TokenExpires, LeaseExpires, GrantTypeOK, Grant
  <2>2. QED
    BY <1>1, <1>3, <2>1
    DEF TokenExpires, LeaseExpires, GrantInv, ThreadsAgree, ThreadAgrees, InExchange,
        RefreshNeedsAccess, ConsentsAgree, ReauthOnlyForARejectedToken
<1>4. CASE Disconnect
  <2>1. /\ grant'.gen = grant.gen + 1 /\ grant'.access = NoToken /\ grant'.refresh = NoToken
        /\ grant'.status = "NOT_CONNECTED"
    BY <1>1, <1>4 DEF Disconnect, GrantTypeOK, Grant
  <2>2. ThreadsAgree'
    BY <1>2, <1>4, <2>1 DEF Disconnect
  <2>3. ConsentsAgree'
    BY <1>1, <1>4, <2>1, TypedParts DEF Disconnect, GrantInv, ConsentsAgree
  <2>4. QED
    BY <1>1, <2>1, <2>2, <2>3 DEF GrantInv, RefreshNeedsAccess, ReauthOnlyForARejectedToken
<1>5. ASSUME NEW i \in Intents, StartConsent(i) \/ DenyConsent(i) PROVE GrantInv'
  <2>1. ConsentsAgree'
    <3> SUFFICES ASSUME NEW j \in Intents
                 PROVE  /\ intents'[j].state = "pending" => intents'[j].gen <= grant.gen
                        /\ j \in overtaken =>
                             /\ intents'[j].state \in {"pending", "denied"}
                             /\ intents'[j].state = "pending" => intents'[j].gen < grant.gen
      BY <1>5 DEF ConsentsAgree, StartConsent, DenyConsent
    <3>1. CASE j # i
      <4>1. intents'[j] = intents[j]
        BY <1>1, <1>5, <3>1 DEF StartConsent, DenyConsent, GrantTypeOK
      <4>2. QED
        BY <4>1 DEF GrantInv, ConsentsAgree
    <3>2. CASE j = i
      <4>1. CASE StartConsent(i)
        <5>1. intents'[i].state = "pending" /\ intents'[i].gen = grant.gen
          BY <1>1, <4>1 DEF StartConsent, GrantTypeOK, Intent
        <5>2. i \notin overtaken
          BY <4>1 DEF StartConsent, GrantInv, ConsentsAgree
        <5>3. QED
          BY <1>1, <3>2, <5>1, <5>2, TypedParts
      <4>2. CASE DenyConsent(i)
        <5>1. intents'[i].state = "denied"
          BY <1>1, <4>2 DEF DenyConsent, GrantTypeOK, Intent
        <5>2. QED
          BY <3>2, <5>1
      <4>3. QED
        BY <1>5, <4>1, <4>2
    <3>3. QED
      BY <3>1, <3>2
  <2>2. QED
    BY <1>1, <1>5, <2>1
    DEF StartConsent, DenyConsent, GrantInv, ThreadsAgree, RefreshNeedsAccess,
        ReauthOnlyForARejectedToken
<1>6. ASSUME NEW i \in Intents, NEW scopes \in SUBSET Features, NEW offline \in BOOLEAN,
             Connect(i, scopes, offline)
      PROVE  GrantInv'
  <2>1. /\ grant'.gen = grant.gen + 1 /\ grant'.access = minted + 1
        /\ grant'.refresh = IF offline THEN minted + 2 ELSE grant.refresh
        /\ grant'.status = IF ~offline /\ grant.refresh = NoToken
                           THEN "REAUTH_REQUIRED" ELSE "CONNECTED"
    BY <1>1, <1>6 DEF Connect, GrantTypeOK, Grant
  <2>2. ThreadsAgree'
    BY <1>2, <1>6, <2>1 DEF Connect
  <2>3. grant'.access # NoToken
    BY <1>1, <2>1, TypedParts DEF NoToken
  <2>4. ConsentsAgree'
    <3> SUFFICES ASSUME NEW j \in Intents
                 PROVE  /\ intents'[j].state = "pending" => intents'[j].gen <= grant.gen + 1
                        /\ j \in overtaken =>
                             /\ intents'[j].state \in {"pending", "denied"}
                             /\ intents'[j].state = "pending" => intents'[j].gen < grant.gen + 1
      BY <1>6, <2>1 DEF ConsentsAgree, Connect
    <3>1. CASE j # i
      BY <1>1, <1>6, <3>1, TypedParts DEF Connect, GrantInv, ConsentsAgree, GrantTypeOK
    <3>2. CASE j = i
      BY <1>1, <1>6, <3>2, TypedParts
      DEF Connect, NotStale, GrantInv, ConsentsAgree, GrantTypeOK, Intent
    <3>3. QED
      BY <3>1, <3>2
  <2>5. QED
    BY <1>1, <2>1, <2>2, <2>3, <2>4
    DEF GrantInv, RefreshNeedsAccess, ReauthOnlyForARejectedToken
<1>7. QED
  BY <1>3, <1>4, <1>5, <1>6 DEF OwnerStep

LEMMA GrantInvStep == GrantInv /\ [GrantNext]_grantVars => GrantInv'
<1> SUFFICES ASSUME GrantInv, [GrantNext]_grantVars PROVE GrantInv'
  OBVIOUS
<1>1. CASE UNCHANGED grantVars
  BY <1>1, GrantStepTyped
  DEF grantVars, GrantInv, ThreadsAgree, RefreshNeedsAccess, ConsentsAgree,
      ReauthOnlyForARejectedToken
<1>2. CASE GrantNext
  BY <1>2, RequestInv, RefreshInv, OwnerInv, ReleaseInv DEF GrantNext
<1>3. QED
  BY <1>1, <1>2

THEOREM GrantInvariant == GrantSpec => []GrantInv
BY GrantInvInit, GrantInvStep, PTL DEF GrantSpec

----------------------------------------------------------------------------
(* What the invariant gives.                                               *)

(* isCurrent is a sound fence: a thread that passes it holds the access    *)
(* token the row stores.                                                   *)
THEOREM CurrentCredential == GrantSpec => []CurrentCredentialIsStored
<1>1. GrantInv => CurrentCredentialIsStored
  BY DEF GrantInv, ThreadsAgree, ThreadAgrees, CurrentCredentialIsStored, IsCurrent
<1>2. QED
  BY <1>1, GrantInvariant, PTL

(* A grant is disabled only over the refresh token Google refused.         *)
THEOREM ReauthIsJustified == GrantSpec => []ReauthOnlyForARejectedToken
<1>1. GrantInv => ReauthOnlyForARejectedToken
  BY DEF GrantInv
<1>2. QED
  BY <1>1, GrantInvariant, PTL

(* A consent overtaken by a disconnect is never applied.                   *)
THEOREM DisconnectWins == GrantSpec => []ConsentNeverUndoesDisconnect
<1>1. GrantInv => ConsentNeverUndoesDisconnect
  BY DEF GrantInv, GrantTypeOK, ConsentsAgree, ConsentNeverUndoesDisconnect
<1>2. QED
  BY <1>1, GrantInvariant, PTL

(* Once disconnected, access returns by a consent and in no other way.     *)
THEOREM AccessReturnsByConsent == GrantSpec => OnlyConsentRestoresAccess
<1> DEFINE Restores == grant.access = NoToken /\ grant'.access # NoToken
           ByConsent == \E i \in Intents : /\ intents[i].state = "pending"
                                           /\ intents'[i].state = "connected"
<1>1. ASSUME GrantInv, [GrantNext]_grantVars, Restores PROVE ByConsent
  <2>0. GrantTypeOK
    BY <1>1 DEF GrantInv
  <2>1. ASSUME NEW c \in Callers, CompleteRefresh(c) PROVE FALSE
    <3>1. ThreadAgrees(callers[c], grant, rejected)
      BY <1>1 DEF GrantInv, ThreadsAgree
    <3>2. QED
      BY <1>1, <2>1, <3>1 DEF CompleteRefresh, ClaimIsCurrent, ThreadAgrees, InExchange
  <2>2. ASSUME NEW i \in Intents, NEW scopes \in SUBSET Features, NEW offline \in BOOLEAN,
               Connect(i, scopes, offline)
        PROVE  ByConsent
    BY <2>0, <2>2 DEF Connect, GrantTypeOK, Intent
  <2>3. ASSUME NEW c \in Callers, NEW feature \in Features, RequestCredential(c, feature)
        PROVE  FALSE
    BY <1>1, <2>3 DEF RequestCredential
  <2>4. ASSUME NEW c \in Callers, RefreshStep(c), ~CompleteRefresh(c) PROVE FALSE
    BY <1>1, <2>0, <2>4
    DEF RefreshStep, BeginRefresh, RefuseRefresh, ProviderGrants, ProviderRejects,
        ProviderUnavailable, RefreshIsStale, FailRefresh, GrantTypeOK, Grant
  <2>5. ASSUME NEW c \in Callers, Release(c) \/ CallerCrashes(c) PROVE FALSE
    BY <1>1, <2>5 DEF Release, CallerCrashes
  <2>6. ASSUME OwnerStep,
               ~ \E i \in Intents, scopes \in SUBSET Features, offline \in BOOLEAN :
                   Connect(i, scopes, offline)
        PROVE  FALSE
    BY <1>1, <2>0, <2>6
    DEF OwnerStep, TokenExpires, LeaseExpires, Disconnect, StartConsent, DenyConsent,
        GrantTypeOK, Grant
  <2>7. QED
    BY <1>1, <2>1, <2>2, <2>3, <2>4, <2>5, <2>6 DEF GrantNext, grantVars
<1>2. GrantInv /\ [GrantNext]_grantVars => [Restores => ByConsent]_grantVars
  BY <1>1
<1>3. QED
  BY <1>2, GrantInvariant, PTL DEF GrantSpec, OnlyConsentRestoresAccess

----------------------------------------------------------------------------
(* send() touches the grant only through GoogleGrant's own steps, so every *)
(* theorem about GrantSpec holds of MailSpec.                              *)

NoneIsIdle == \A c \in Callers : callers[c].phase = "none" => callers[c] = Idle

LEMMA EndCallIsAGrantStep ==
  ASSUME GrantTypeOK, NoneIsIdle, NEW c \in Callers, EndCall(c)
  PROVE  [GrantNext]_grantVars /\ NoneIsIdle'
<1>1. callers[c] \in Caller
  BY DEF GrantTypeOK
<1>2. NoneIsIdle'
  BY DEF EndCall, NoneIsIdle, GrantTypeOK
<1>3. CASE callers[c].phase = "none"
  <2>1. callers' = callers
    BY <1>3 DEF EndCall, NoneIsIdle, GrantTypeOK
  <2>2. QED
    BY <1>2, <2>1 DEF EndCall, grantVars
<1>4. CASE callers[c].phase \in {"held", "failed"}
  BY <1>2, <1>4 DEF EndCall, Release, GrantNext
<1>5. CASE callers[c].phase \in {"expired", "refreshing", "granted", "rejected", "unavailable"}
  BY <1>2, <1>5 DEF EndCall, CallerCrashes, GrantNext
<1>6. QED
  BY <1>1, <1>3, <1>4, <1>5 DEF Caller

LEMMA RefreshKeepsNoneIdle ==
  ASSUME GrantTypeOK, NoneIsIdle, NEW c \in Callers, RefreshStep(c)
  PROVE  NoneIsIdle'
<1>1. callers[c] \in Caller
  BY DEF GrantTypeOK
<1>2. ASSUME NEW v, v.phase # "none", callers' = [callers EXCEPT ![c] = v]
      PROVE  NoneIsIdle'
  BY <1>2 DEF NoneIsIdle, GrantTypeOK
<1>3. CASE BeginRefresh(c)
  BY <1>2, <1>3 DEF BeginRefresh, Idle
<1>4. CASE RefuseRefresh(c) \/ RefreshIsStale(c) \/ FailRefresh(c)
  BY <1>2, <1>4 DEF RefuseRefresh, RefreshIsStale, FailRefresh, Idle, Failed
<1>5. ASSUME NEW rotates \in BOOLEAN, ProviderGrants(c, rotates) PROVE NoneIsIdle'
  BY <1>1, <1>2, <1>5 DEF ProviderGrants, Caller
<1>6. CASE ProviderRejects(c) \/ ProviderUnavailable(c)
  BY <1>1, <1>2, <1>6 DEF ProviderRejects, ProviderUnavailable, Caller
<1>7. CASE CompleteRefresh(c)
  BY <1>2, <1>7 DEF CompleteRefresh, Idle
<1>8. QED
  BY <1>3, <1>4, <1>5, <1>6, <1>7 DEF RefreshStep

LEMMA MailStepIsAGrantStep ==
  ASSUME GrantTypeOK, NoneIsIdle, [MailNext]_vars
  PROVE  [GrantNext]_grantVars /\ NoneIsIdle'
<1>1. CASE UNCHANGED grantVars
  BY <1>1 DEF grantVars, NoneIsIdle
<1>2. ASSUME NEW c \in Callers, EndCall(c) PROVE [GrantNext]_grantVars /\ NoneIsIdle'
  BY <1>2, EndCallIsAGrantStep
<1>3. ASSUME NEW c \in Callers, AskCredential(c) PROVE [GrantNext]_grantVars /\ NoneIsIdle'
  <2>1. RequestCredential(c, GMAIL)
    BY <1>3 DEF AskCredential
  <2>2. NoneIsIdle'
    BY <2>1 DEF RequestCredential, NoneIsIdle, GrantTypeOK, Idle, Failed
  <2>3. QED
    BY <2>1, <2>2, MailAssumption DEF GrantNext
<1>4. ASSUME NEW c \in Callers, RefreshStep(c) PROVE [GrantNext]_grantVars /\ NoneIsIdle'
  BY <1>4, RefreshKeepsNoneIdle DEF GrantNext
<1>5. ASSUME OwnerStep PROVE [GrantNext]_grantVars /\ NoneIsIdle'
  <2>1. callers' = callers
    BY <1>5 DEF OwnerStep, TokenExpires, LeaseExpires, Disconnect, StartConsent,
                DenyConsent, Connect
  <2>2. QED
    BY <1>5, <2>1 DEF GrantNext, NoneIsIdle
<1>6. ASSUME NEW c \in Callers, Deliver(c) PROVE [GrantNext]_grantVars /\ NoneIsIdle'
  BY <1>1, <1>2, <1>3, <1>4, <1>6
  DEF Deliver, CredentialFails, CheckCredential, Post, AnswerAccepted, AnswerRefused,
      AnswerUncertain, AnswerChecked, Finish, FinishThrows
<1>7. QED
  BY <1>1, <1>2, <1>5, <1>6
  DEF MailNext, Claim, Replay, Crash, Receive, Age, GmailAccepts, vars

(* GmailService is a client of the grant and nothing more: whatever it     *)
(* does, the grant behaves as GoogleGrant says.                            *)
THEOREM MailImplementsGrant == MailSpec => GrantSpec
<1>1. MailInit => GrantInit /\ NoneIsIdle
  BY DEF MailInit, GrantInit, NoneIsIdle
<1>2. GrantTypeOK /\ NoneIsIdle /\ [MailNext]_vars
        => GrantTypeOK' /\ NoneIsIdle' /\ [GrantNext]_grantVars
  BY MailStepIsAGrantStep, GrantStepTyped
<1>3. QED
  BY <1>1, <1>2, GrantInitTyped, PTL DEF MailSpec, GrantSpec

----------------------------------------------------------------------------
(* The inductive invariant behind the receipts.  A thread inside send() is *)
(* the only one there for its request, from the insert of the row on; what *)
(* it may conclude depends on where the message is: not posted, in flight  *)
(* (posted and not yet accepted), or accepted.                             *)

SendAgrees(t, status, flying, count) ==
  /\ status \in {"SENDING", "UNKNOWN"}
  /\ t.pc \in {"claimed", "checked"} => ~flying /\ count = 0
  /\ t.pc = "answered" => ~flying /\ count = 1
  /\ t.pc = "posted" => count = IF flying THEN 0 ELSE 1
  /\ t.pc = "finish" =>
       /\ t.outcome \in Terminal
       /\ t.outcome = "SENT" => ~flying /\ count = 1
       /\ t.outcome = "FAILED" => ~flying /\ count = 0

RowAgrees(status, flying, count, answers) ==
  /\ count \in {0, 1}
  /\ flying => count = 0
  /\ status = "ABSENT" => ~flying /\ count = 0
  /\ status = "SENT" => ~flying /\ count = 1
  /\ status = "FAILED" => ~flying /\ count = 0
  /\ answers \cap {"SENT", "FAILED"} \subseteq {status}

OneOwner ==
  \A c, d \in Callers :
    c # d /\ threads[c].request = threads[d].request => threads[c].request = NoRequest

SendsAgree ==
  \A c \in Callers :
    /\ threads[c].request = NoRequest <=> threads[c].pc = "idle"
    /\ threads[c].request # NoRequest =>
         SendAgrees(threads[c], rows[threads[c].request].status,
                    threads[c].request \in inFlight, accepted[threads[c].request])

RowsAgree ==
  \A r \in Requests : RowAgrees(rows[r].status, r \in inFlight, accepted[r], told[r])

MailInv ==
  /\ MailTypeOK
  /\ NoneIsIdle
  /\ OneOwner
  /\ SendsAgree
  /\ RowsAgree

----------------------------------------------------------------------------
(* Steps of one thread: only what concerns its own request moves.          *)

LEMMA NoCallIsAThread == NoCall \in Thread
BY GrantAssumption DEF NoCall, Thread, Generation

LEMMA ThreadUpdate ==
  ASSUME NEW f \in [Callers -> Thread], NEW c \in Callers, NEW v \in Thread
  PROVE  [f EXCEPT ![c] = v] \in [Callers -> Thread]
OBVIOUS

LEMMA RowUpdate ==
  ASSUME NEW f \in [Requests -> Row], NEW r \in Requests, NEW v \in Row
  PROVE  [f EXCEPT ![r] = v] \in [Requests -> Row]
OBVIOUS

LEMMA ToldUpdate ==
  ASSUME told \in [Requests -> SUBSET Receipt], NEW r \in Requests,
         NEW s \in Receipt, Tell(r, s)
  PROVE  told' \in [Requests -> SUBSET Receipt]
BY DEF Tell

LEMMA SendStep ==
  ASSUME MailInv, MailTypeOK', NoneIsIdle', NEW c \in Callers, NEW r \in Requests,
         threads[c].request = r, NEW v,
         threads' = [threads EXCEPT ![c] = v],
         \/ v = NoCall
         \/ /\ v.request = r /\ v.pc # "idle"
            /\ SendAgrees(v, rows'[r].status, r \in inFlight', accepted'[r]),
         RowAgrees(rows'[r].status, r \in inFlight', accepted'[r], told'[r]),
         \A q \in Requests \ {r} :
           /\ rows'[q].status = rows[q].status /\ accepted'[q] = accepted[q]
           /\ q \in inFlight' <=> q \in inFlight
           /\ told'[q] = told[q]
  PROVE  MailInv'
<1>1. threads \in [Callers -> Thread] /\ r # NoRequest
  BY MailAssumption DEF MailInv, MailTypeOK
<1>2. threads'[c] = v /\ \A d \in Callers \ {c} : threads'[d] = threads[d]
  BY <1>1
<1>3. v.request \in {r, NoRequest}
  BY DEF NoCall
<1>4. \A d \in Callers \ {c} : threads[d].request # r
  BY <1>1 DEF MailInv, OneOwner
<1>5. OneOwner'
  BY <1>1, <1>2, <1>3, <1>4 DEF MailInv, OneOwner
<1>6. SendsAgree'
  <2> SUFFICES ASSUME NEW d \in Callers
               PROVE  /\ threads'[d].request = NoRequest <=> threads'[d].pc = "idle"
                      /\ threads'[d].request # NoRequest =>
                           SendAgrees(threads'[d], rows'[threads'[d].request].status,
                                      threads'[d].request \in inFlight',
                                      accepted'[threads'[d].request])
    BY DEF SendsAgree
  <2>1. CASE d = c
    BY <1>1, <1>2, <2>1 DEF NoCall
  <2>2. CASE d # c
    <3>1. threads[d].request \in Requests \cup {NoRequest}
      BY <1>1 DEF Thread
    <3>2. QED
      BY <1>2, <1>4, <2>2, <3>1 DEF MailInv, SendsAgree
  <2>3. QED
    BY <2>1, <2>2
<1>7. RowsAgree'
  BY DEF MailInv, RowsAgree
<1>8. QED
  BY <1>5, <1>6, <1>7 DEF MailInv

(* Steps that move no thread: a poll, the clock, Gmail.                    *)
LEMMA RowStep ==
  ASSUME MailInv, MailTypeOK', NoneIsIdle', NEW r \in Requests,
         threads' = threads,
         \A c \in Callers : threads[c].request = r =>
           SendAgrees(threads[c], rows'[r].status, r \in inFlight', accepted'[r]),
         RowAgrees(rows'[r].status, r \in inFlight', accepted'[r], told'[r]),
         \A q \in Requests \ {r} :
           /\ rows'[q].status = rows[q].status /\ accepted'[q] = accepted[q]
           /\ q \in inFlight' <=> q \in inFlight
           /\ told'[q] = told[q]
  PROVE  MailInv'
<1>1. OneOwner'
  BY DEF MailInv, OneOwner
<1>2. SendsAgree'
  <2> SUFFICES ASSUME NEW d \in Callers
               PROVE  /\ threads[d].request = NoRequest <=> threads[d].pc = "idle"
                      /\ threads[d].request # NoRequest =>
                           SendAgrees(threads[d], rows'[threads[d].request].status,
                                      threads[d].request \in inFlight',
                                      accepted'[threads[d].request])
    BY DEF SendsAgree
  <2>1. threads[d].request \in Requests \cup {NoRequest}
    BY DEF MailInv, MailTypeOK, Thread
  <2>2. QED
    BY <2>1 DEF MailInv, SendsAgree
<1>3. RowsAgree'
  BY DEF MailInv, RowsAgree
<1>4. QED
  BY <1>1, <1>2, <1>3 DEF MailInv

(* The facts the invariant gives a thread about its own request.           *)
LEMMA OwnRequest ==
  ASSUME MailInv, NEW c \in Callers, threads[c].pc # "idle"
  PROVE  /\ threads[c] \in Thread
         /\ threads[c].request \in Requests
         /\ rows[threads[c].request] \in Row
         /\ SendAgrees(threads[c], rows[threads[c].request].status,
                       threads[c].request \in inFlight, accepted[threads[c].request])
         /\ RowAgrees(rows[threads[c].request].status, threads[c].request \in inFlight,
                      accepted[threads[c].request], told[threads[c].request])
<1>1. threads[c] \in Thread
  BY DEF MailInv, MailTypeOK
<1>2. threads[c].request \in Requests
  BY <1>1 DEF MailInv, SendsAgree, Thread
<1>3. QED
  BY <1>1, <1>2, MailAssumption DEF MailInv, MailTypeOK, SendsAgree, RowsAgree

LEMMA ClaimInv ==
  ASSUME MailInv, GrantTypeOK', NoneIsIdle', NEW c \in Callers, NEW r \in Requests,
         NEW payload \in Payloads, Claim(c, r, payload)
  PROVE  MailInv'
<1> DEFINE v == [NoCall EXCEPT !.pc = "claimed", !.request = r]
           row == [NoRow EXCEPT !.status = "SENDING", !.hash = payload]
<1>1. v \in Thread /\ v.request = r /\ v.pc = "claimed"
  BY NoCallIsAThread DEF Thread, NoCall
<1>2. row \in Row /\ row.status = "SENDING"
  BY ZeroIsAToken DEF Row, NoRow, Receipt
<1>3. threads' = [threads EXCEPT ![c] = v] /\ rows' = [rows EXCEPT ![r] = row]
  BY DEF Claim
<1>4. MailTypeOK'
  BY <1>1, <1>2, <1>3, ThreadUpdate, RowUpdate DEF Claim, MailInv, MailTypeOK
<1>5. /\ r \notin inFlight /\ accepted[r] = 0
      /\ told[r] \cap {"SENT", "FAILED"} = {}
  BY DEF Claim, Owns, MailInv, RowsAgree, RowAgrees
<1>6. \A d \in Callers : threads[d].request # r
  <2>1. \A d \in Callers : threads[d].request = r => rows[r].status # "ABSENT"
    BY MailAssumption DEF MailInv, SendsAgree, SendAgrees
  <2>2. QED
    BY <2>1 DEF Claim, Owns
<1>7. /\ threads'[c] = v /\ \A d \in Callers \ {c} : threads'[d] = threads[d]
      /\ rows'[r] = row /\ \A q \in Requests \ {r} : rows'[q] = rows[q]
  BY <1>3 DEF MailInv, MailTypeOK
<1>8. OneOwner'
  <2> SUFFICES ASSUME NEW d \in Callers, NEW e \in Callers, d # e,
                      threads'[d].request = threads'[e].request
               PROVE  threads'[d].request = NoRequest
    BY DEF OneOwner
  <2>1. d # c /\ e # c
    <3>1. threads'[c].request = r
      BY <1>1, <1>7
    <3>2. \A x \in Callers \ {c} : threads'[x].request # r
      BY <1>6, <1>7
    <3>3. QED
      BY <3>1, <3>2
  <2>2. QED
    BY <1>7, <2>1 DEF MailInv, OneOwner
<1>9. SendsAgree'
  <2> SUFFICES ASSUME NEW d \in Callers
               PROVE  /\ threads'[d].request = NoRequest <=> threads'[d].pc = "idle"
                      /\ threads'[d].request # NoRequest =>
                           SendAgrees(threads'[d], rows'[threads'[d].request].status,
                                      threads'[d].request \in inFlight,
                                      accepted[threads'[d].request])
    BY DEF SendsAgree, Claim
  <2>1. CASE d = c
    <3>1. threads'[d] = v /\ rows'[r].status = "SENDING" /\ r # NoRequest
      BY <1>2, <1>7, <2>1, MailAssumption
    <3>2. SendAgrees(v, rows'[r].status, r \in inFlight, accepted[r])
      BY <1>1, <1>5, <3>1 DEF SendAgrees
    <3>3. QED
      BY <1>1, <3>1, <3>2
  <2>2. CASE d # c
    <3>1. threads[d].request \in Requests \cup {NoRequest}
      BY DEF MailInv, MailTypeOK, Thread
    <3>2. QED
      BY <1>6, <1>7, <2>2, <3>1 DEF MailInv, SendsAgree
  <2>3. QED
    BY <2>1, <2>2
<1>10. RowsAgree'
  <2> SUFFICES ASSUME NEW q \in Requests
               PROVE  RowAgrees(rows'[q].status, q \in inFlight, accepted[q], told[q])
    BY DEF RowsAgree, Claim
  <2>1. CASE q = r
    BY <1>2, <1>5, <1>7, <2>1 DEF RowAgrees
  <2>2. CASE q # r
    BY <1>7, <2>2 DEF MailInv, RowsAgree
  <2>3. QED
    BY <2>1, <2>2
<1>11. QED
  BY <1>4, <1>8, <1>9, <1>10 DEF MailInv

LEMMA ReplayInv ==
  ASSUME MailInv, GrantTypeOK', NoneIsIdle', NEW c \in Callers, NEW r \in Requests,
         NEW payload \in Payloads, Replay(c, r, payload)
  PROVE  MailInv'
<1>1. rows[r].status \in Receipt
  BY DEF Replay, Owns, MailInv, MailTypeOK, Row
<1>2. MailTypeOK'
  BY <1>1, ToldUpdate DEF Replay, MailInv, MailTypeOK
<1>3. /\ told'[r] = told[r] \cup {rows[r].status}
      /\ \A q \in Requests \ {r} : told'[q] = told[q]
  BY DEF Replay, Tell, MailInv, MailTypeOK
<1>4. RowAgrees(rows[r].status, r \in inFlight, accepted[r], told'[r])
  BY <1>3 DEF MailInv, RowsAgree, RowAgrees
<1>5. \A d \in Callers : threads[d].request = r =>
        SendAgrees(threads[d], rows[r].status, r \in inFlight, accepted[r])
  BY MailAssumption DEF MailInv, SendsAgree
<1>6. QED
  BY <1>2, <1>3, <1>4, <1>5, RowStep DEF Replay

LEMMA ReceiveInv ==
  ASSUME MailInv, GrantTypeOK', NoneIsIdle', NEW r \in Requests, Receive(r)
  PROVE  MailInv'
<1> DEFINE new == [rows[r] EXCEPT !.status = "UNKNOWN", !.aged = FALSE]
<1>1. rows[r] \in Row /\ new \in Row /\ new.status = "UNKNOWN"
  BY DEF MailInv, MailTypeOK, Row, Receipt, Terminal
<1>2. /\ rows' \in [Requests -> Row]
      /\ rows'[r].status \in {rows[r].status, "UNKNOWN"}
      /\ rows'[r].status # rows[r].status => rows[r].status = "SENDING"
      /\ \A q \in Requests \ {r} : rows'[q] = rows[q]
  BY <1>1, RowUpdate DEF Receive, AgedOut, MailInv, MailTypeOK
<1>3. rows'[r].status \in Receipt
  BY <1>1, <1>2 DEF Receive, Row, Receipt, Terminal
<1>4. MailTypeOK'
  BY <1>2, <1>3, ToldUpdate DEF Receive, MailInv, MailTypeOK
<1>5. /\ told'[r] = told[r] \cup {rows'[r].status}
      /\ \A q \in Requests \ {r} : told'[q] = told[q]
  BY DEF Receive, Tell, MailInv, MailTypeOK
<1>6. RowAgrees(rows'[r].status, r \in inFlight, accepted[r], told'[r])
  BY <1>2, <1>5 DEF Receive, MailInv, RowsAgree, RowAgrees
<1>7. \A d \in Callers : threads[d].request = r =>
        SendAgrees(threads[d], rows'[r].status, r \in inFlight, accepted[r])
  BY <1>2, MailAssumption DEF MailInv, SendsAgree, SendAgrees
<1>8. QED
  BY <1>2, <1>4, <1>5, <1>6, <1>7, RowStep DEF Receive

LEMMA AgeInv ==
  ASSUME MailInv, GrantTypeOK', NoneIsIdle', NEW r \in Requests, Age(r)
  PROVE  MailInv'
<1>1. rows[r] \in Row
  BY DEF MailInv, MailTypeOK
<1>2. [rows[r] EXCEPT !.aged = TRUE] \in Row
  BY <1>1 DEF Row
<1>3. \A q \in Requests : rows'[q].status = rows[q].status
  BY <1>1 DEF Age, MailInv, MailTypeOK, Row
<1>4. MailTypeOK'
  BY <1>2, RowUpdate DEF Age, MailInv, MailTypeOK
<1>5. \A d \in Callers : threads[d].request = r =>
        SendAgrees(threads[d], rows[r].status, r \in inFlight, accepted[r])
  BY MailAssumption DEF MailInv, SendsAgree
<1>6. QED
  BY <1>3, <1>4, <1>5, RowStep DEF Age, MailInv, RowsAgree

LEMMA GmailInv ==
  ASSUME MailInv, GrantTypeOK', NoneIsIdle', NEW r \in Requests, GmailAccepts(r)
  PROVE  MailInv'
<1>1. accepted[r] = 0 /\ accepted \in [Requests -> 0 .. Recipients]
  BY DEF GmailAccepts, MailInv, MailTypeOK, RowsAgree, RowAgrees
<1>2. accepted'[r] = 1 /\ \A q \in Requests \ {r} : accepted'[q] = accepted[q]
  BY <1>1 DEF GmailAccepts
<1>3. MailTypeOK'
  BY <1>1, MailAssumption DEF GmailAccepts, MailInv, MailTypeOK
<1>4. /\ r \notin inFlight'
      /\ \A q \in Requests \ {r} : q \in inFlight' <=> q \in inFlight
  BY DEF GmailAccepts
<1>5. RowAgrees(rows[r].status, r \in inFlight', accepted'[r], told[r])
  BY <1>2, <1>4 DEF GmailAccepts, MailInv, RowsAgree, RowAgrees
<1>6. \A d \in Callers : threads[d].request = r =>
        SendAgrees(threads[d], rows[r].status, r \in inFlight', accepted'[r])
  BY <1>2, <1>4, MailAssumption DEF GmailAccepts, MailInv, SendsAgree, SendAgrees
<1>7. QED
  BY <1>2, <1>3, <1>4, <1>5, <1>6, RowStep DEF GmailAccepts

(* Steps of the owner of a request.                                        *)

LEMMA ProviderStepInv ==
  ASSUME MailInv, GrantTypeOK', NoneIsIdle', NEW c \in Callers,
         \/ CredentialFails(c) \/ CheckCredential(c) \/ Post(c) \/ AnswerAccepted(c)
         \/ AnswerRefused(c) \/ AnswerUncertain(c)
         \/ \E parses \in BOOLEAN : AnswerChecked(c, parses)
  PROVE  MailInv'
<1> DEFINE t == threads[c]
           r == t.request
           v == threads'[c]
<1>1. t.pc # "idle"
  BY DEF CredentialFails, CheckCredential, Post, AnswerAccepted, AnswerRefused,
         AnswerUncertain, AnswerChecked
<1>2. /\ t \in Thread /\ r \in Requests
      /\ SendAgrees(t, rows[r].status, r \in inFlight, accepted[r])
      /\ RowAgrees(rows[r].status, r \in inFlight, accepted[r], told[r])
  BY <1>1, OwnRequest
<1>3. callers[c].gen \in Generation
  BY DEF MailInv, MailTypeOK, GrantTypeOK, Caller
<1>4. \A category : OutcomeOf(category) \in {"UNKNOWN", "FAILED"}
  BY DEF OutcomeOf
<1> HIDE DEF r
<1>5. /\ threads' = [threads EXCEPT ![c] = v] /\ v \in Thread /\ v.request = r
      /\ v.pc # "idle" /\ inFlight' \in SUBSET Requests
      /\ \A q \in Requests \ {r} : q \in inFlight' <=> q \in inFlight
      /\ SendAgrees(v, rows[r].status, r \in inFlight', accepted[r])
      /\ RowAgrees(rows[r].status, r \in inFlight', accepted[r], told[r])
  <2> DEFINE Goal == /\ threads' = [threads EXCEPT ![c] = v] /\ v \in Thread /\ v.request = r
                     /\ v.pc # "idle" /\ inFlight' \in SUBSET Requests
                     /\ \A q \in Requests \ {r} : q \in inFlight' <=> q \in inFlight
                     /\ SendAgrees(v, rows[r].status, r \in inFlight', accepted[r])
                     /\ RowAgrees(rows[r].status, r \in inFlight', accepted[r], told[r])
  <2>0. threads \in [Callers -> Thread] /\ inFlight \in SUBSET Requests
    BY DEF MailInv, MailTypeOK
  <2>1. CASE CredentialFails(c)
    BY <1>2, <1>4, <2>0, <2>1
    DEF CredentialFails, Conclude, SendAgrees, Thread, Terminal, r
  <2>2. CASE CheckCredential(c)
    BY <1>2, <1>3, <2>0, <2>2 DEF CheckCredential, SendAgrees, Thread, Terminal, r
  <2>3. CASE Post(c)
    BY <1>2, <2>0, <2>3 DEF Post, SendAgrees, RowAgrees, Thread, r
  <2>4. CASE AnswerAccepted(c)
    BY <1>2, <2>0, <2>4 DEF AnswerAccepted, SendAgrees, Thread, r
  <2>5. CASE AnswerRefused(c)
    BY <1>2, <2>0, <2>5
    DEF AnswerRefused, Conclude, SendAgrees, RowAgrees, Thread, Terminal, r
  <2>6. CASE AnswerUncertain(c)
    BY <1>2, <2>0, <2>6
    DEF AnswerUncertain, UncertainOutcome, Conclude, SendAgrees, Thread, Terminal, r
  <2>7. ASSUME NEW parses \in BOOLEAN, AnswerChecked(c, parses) PROVE Goal
    BY <1>2, <2>0, <2>7
    DEF AnswerChecked, Conclude, SendAgrees, Thread, Terminal, r
  <2>8. QED
    BY <2>1, <2>2, <2>3, <2>4, <2>5, <2>6, <2>7
<1>6. UNCHANGED <<rows, accepted, told>>
  BY DEF CredentialFails, CheckCredential, Post, AnswerAccepted, AnswerRefused,
         AnswerUncertain, AnswerChecked
<1>7. MailTypeOK'
  BY <1>5, <1>6, ThreadUpdate DEF MailInv, MailTypeOK
<1>8. r \in Requests /\ threads[c].request = r
  BY <1>2 DEF r
<1>9. QED
  BY <1>5, <1>6, <1>7, <1>8, SendStep

(* What finish() writes: a typed row whose status is the old one unless it *)
(* was SENDING, and then a truthful terminal one.                          *)
LEMMA FinishedRow ==
  ASSUME MailInv, NEW c \in Callers, threads[c].pc = "finish"
  PROVE  LET r == threads[c].request
         IN /\ Finished(c) \in Row
            /\ rows[r].status # "SENDING" => Finished(c) = rows[r]
            /\ rows[r].status = "SENDING" => Finished(c).status \in Terminal
            /\ Finished(c).status \in Terminal
            /\ RowAgrees(Finished(c).status, r \in inFlight, accepted[r], told[r])
            /\ RowAgrees(Finished(c).status, r \in inFlight, accepted[r],
                         told[r] \cup {Finished(c).status})
            /\ RowAgrees(Finished(c).status, r \in inFlight, accepted[r],
                         told[r] \cup {"UNKNOWN"})
<1> DEFINE r == threads[c].request
<1>1. /\ threads[c] \in Thread /\ r \in Requests /\ rows[r] \in Row
      /\ SendAgrees(threads[c], rows[r].status, r \in inFlight, accepted[r])
      /\ RowAgrees(rows[r].status, r \in inFlight, accepted[r], told[r])
  BY OwnRequest
<1>2. Recorded(c) \in Terminal /\ Recorded(c) \in {threads[c].outcome, "UNKNOWN"}
  BY <1>1 DEF Recorded, SendAgrees, Terminal
<1>3. /\ Finished(c) \in Row
      /\ rows[r].status # "SENDING" => Finished(c) = rows[r]
      /\ rows[r].status = "SENDING" => Finished(c).status = Recorded(c)
  BY <1>1, <1>2 DEF Finished, Row, Receipt, Thread
<1>4. Finished(c).status \in Terminal
  BY <1>1, <1>2, <1>3 DEF SendAgrees, Terminal
<1>5. RowAgrees(Finished(c).status, r \in inFlight, accepted[r], told[r])
  BY <1>1, <1>2, <1>3 DEF SendAgrees, RowAgrees, Terminal
<1>6. QED
  BY <1>2, <1>3, <1>4, <1>5 DEF RowAgrees, Terminal

LEMMA EndInv ==
  ASSUME MailInv, GrantTypeOK', NoneIsIdle', NEW c \in Callers,
         \/ Finish(c) \/ Crash(c)
         \/ \E committed \in BOOLEAN : FinishThrows(c, committed)
  PROVE  MailInv'
<1> DEFINE r == threads[c].request
<1>1. /\ threads[c].pc # "idle"
      /\ threads' = [threads EXCEPT ![c] = NoCall]
      /\ UNCHANGED <<inFlight, accepted>>
  BY DEF Finish, FinishThrows, Crash, EndCall
<1>2. /\ r \in Requests
      /\ RowAgrees(rows[r].status, r \in inFlight, accepted[r], told[r])
  BY <1>1, OwnRequest
<1>3. rows \in [Requests -> Row] /\ told \in [Requests -> SUBSET Receipt]
  BY DEF MailInv, MailTypeOK
<1> HIDE DEF r
<1>4. /\ rows' \in [Requests -> Row] /\ told' \in [Requests -> SUBSET Receipt]
      /\ RowAgrees(rows'[r].status, r \in inFlight, accepted[r], told'[r])
      /\ \A q \in Requests \ {r} : rows'[q].status = rows[q].status /\ told'[q] = told[q]
  <2>1. CASE Crash(c)
    BY <1>2, <1>3, <2>1 DEF Crash
  <2>2. ASSUME threads[c].pc = "finish", NEW s \in Receipt,
               told' = [told EXCEPT ![r] = @ \cup {s}],
               \/ rows' = [rows EXCEPT ![r] = Finished(c)] /\ s \in {"UNKNOWN", Finished(c).status}
               \/ rows' = rows /\ s = "UNKNOWN"
        PROVE  /\ rows' \in [Requests -> Row] /\ told' \in [Requests -> SUBSET Receipt]
               /\ RowAgrees(rows'[r].status, r \in inFlight, accepted[r], told'[r])
               /\ \A q \in Requests \ {r} :
                    rows'[q].status = rows[q].status /\ told'[q] = told[q]
    <3>1. /\ Finished(c) \in Row
          /\ RowAgrees(Finished(c).status, r \in inFlight, accepted[r],
                       told[r] \cup {Finished(c).status})
          /\ RowAgrees(Finished(c).status, r \in inFlight, accepted[r],
                       told[r] \cup {"UNKNOWN"})
      BY <2>2, FinishedRow DEF r
    <3>2. told' \in [Requests -> SUBSET Receipt] /\ told'[r] = told[r] \cup {s}
      BY <1>2, <1>3, <2>2
    <3>3. CASE rows' = rows /\ s = "UNKNOWN"
      BY <1>2, <1>3, <2>2, <3>2, <3>3 DEF RowAgrees
    <3>4. CASE /\ rows' = [rows EXCEPT ![r] = Finished(c)]
               /\ s \in {"UNKNOWN", Finished(c).status}
      <4>1. rows' \in [Requests -> Row] /\ rows'[r] = Finished(c)
        BY <1>2, <1>3, <3>1, <3>4, RowUpdate
      <4>2. \A q \in Requests \ {r} : rows'[q].status = rows[q].status /\ told'[q] = told[q]
        BY <1>3, <2>2, <3>4
      <4>3. QED
        BY <3>1, <3>2, <3>4, <4>1, <4>2
    <3>5. QED
      BY <2>2, <3>3, <3>4
  <2>3. CASE Finish(c)
    <3>1. Finished(c).status \in Receipt
      BY <2>3, FinishedRow DEF Finish, Terminal, Receipt
    <3>2. QED
      BY <2>2, <2>3, <3>1 DEF Finish, Tell, Answer, r
  <2>4. ASSUME NEW committed \in BOOLEAN, FinishThrows(c, committed)
        PROVE  /\ rows' \in [Requests -> Row] /\ told' \in [Requests -> SUBSET Receipt]
               /\ RowAgrees(rows'[r].status, r \in inFlight, accepted[r], told'[r])
               /\ \A q \in Requests \ {r} :
                    rows'[q].status = rows[q].status /\ told'[q] = told[q]
    BY <2>2, <2>4 DEF FinishThrows, Tell, Receipt, Terminal, r
  <2>5. QED
    BY <2>1, <2>3, <2>4
<1>5. MailTypeOK'
  BY <1>1, <1>4, NoCallIsAThread, ThreadUpdate DEF MailInv, MailTypeOK
<1>6. threads[c].request = r
  BY DEF r
<1>7. QED
  BY <1>1, <1>2, <1>4, <1>5, <1>6, SendStep

LEMMA MailInvInit == MailInit => MailInv
<1> SUFFICES ASSUME MailInit PROVE MailInv
  OBVIOUS
<1>1. MailTypeOK
  BY GrantInitTyped, NoCallIsAThread, ZeroIsAToken, MailAssumption
  DEF MailInit, MailTypeOK, NoRow, Row
<1>2. NoneIsIdle
  BY DEF MailInit, GrantInit, NoneIsIdle
<1>3. OneOwner /\ SendsAgree
  BY DEF MailInit, OneOwner, SendsAgree, NoCall
<1>4. RowsAgree
  BY DEF MailInit, RowsAgree, RowAgrees, NoRow
<1>5. QED
  BY <1>1, <1>2, <1>3, <1>4 DEF MailInv

LEMMA MailInvStep == MailInv /\ [MailNext]_vars => MailInv'
<1> SUFFICES ASSUME MailInv, [MailNext]_vars PROVE MailInv'
  OBVIOUS
<1>1. GrantTypeOK' /\ NoneIsIdle'
  BY MailStepIsAGrantStep, GrantStepTyped DEF MailInv, MailTypeOK
<1>2. CASE UNCHANGED mailVars
  BY <1>1, <1>2 DEF mailVars, MailInv, MailTypeOK, OneOwner, SendsAgree, RowsAgree
<1>3. ASSUME NEW c \in Callers, Deliver(c) PROVE MailInv'
  BY <1>1, <1>2, <1>3, ProviderStepInv, EndInv DEF Deliver, AskCredential
<1>4. QED
  BY <1>1, <1>2, <1>3, ClaimInv, ReplayInv, ReceiveInv, AgeInv, GmailInv, EndInv
  DEF MailNext, vars

THEOREM MailInvariant == MailSpec => []MailInv
BY MailInvInit, MailInvStep, PTL DEF MailSpec

----------------------------------------------------------------------------
(* What the invariant gives.                                               *)

THEOREM MailTypeCorrect == MailSpec => []MailTypeOK
<1>1. MailInv => MailTypeOK
  BY DEF MailInv
<1>2. QED
  BY <1>1, MailInvariant, PTL

(* However often a request is repeated, Gmail gets its message at most     *)
(* once.                                                                   *)
THEOREM AtMostOnce == MailSpec => []AtMostOneMessage
<1>1. MailInv => AtMostOneMessage
  BY DEF MailInv, RowsAgree, RowAgrees, AtMostOneMessage
<1>2. QED
  BY <1>1, MailInvariant, PTL

(* SENT and FAILED tell the truth about Gmail.                             *)
THEOREM DefinitiveReceipts == MailSpec => []DefinitiveReceiptIsTrue
<1>1. MailInv => DefinitiveReceiptIsTrue
  BY DEF MailInv, RowsAgree, RowAgrees, DefinitiveReceiptIsTrue
<1>2. QED
  BY <1>1, MailInvariant, PTL

(* Nobody is told SENT or FAILED unless the row says so, for good.         *)
THEOREM DefinitiveAnswers == MailSpec => []DefinitiveAnswerIsRecorded
<1>1. MailInv => DefinitiveAnswerIsRecorded
  BY DEF MailInv, RowsAgree, RowAgrees, DefinitiveAnswerIsRecorded
<1>2. QED
  BY <1>1, MailInvariant, PTL

(* Every step that changes a row either finishes the send of its owner, or *)
(* ages the row out, or inserts it.                                        *)
LEMMA RowChanges ==
  ASSUME MailInv, [MailNext]_vars, NEW r \in Requests, rows'[r].status # rows[r].status
  PROVE  \/ rows[r].status = "ABSENT" /\ rows'[r].status = "SENDING"
         \/ rows[r].status = "SENDING" /\ rows'[r].status = "UNKNOWN"
         \/ \E c \in Callers :
              /\ rows[r].status = "SENDING"
              /\ threads[c].request = r
              /\ rows'[r] = Finished(c)
              /\ UNCHANGED grant
<1>0. rows \in [Requests -> Row] /\ rows[r] \in Row
  BY DEF MailInv, MailTypeOK
<1> DEFINE Goal == \/ rows[r].status = "ABSENT" /\ rows'[r].status = "SENDING"
                   \/ rows[r].status = "SENDING" /\ rows'[r].status = "UNKNOWN"
                   \/ \E c \in Callers :
                        /\ rows[r].status = "SENDING"
                        /\ threads[c].request = r
                        /\ rows'[r] = Finished(c)
                        /\ UNCHANGED grant
<1>1. ASSUME NEW c \in Callers, NEW q \in Requests, NEW payload \in Payloads,
             Claim(c, q, payload)
      PROVE  Goal
  BY <1>0, <1>1 DEF Claim, Owns, NoRow
<1>2. ASSUME NEW q \in Requests, Receive(q) PROVE Goal
  BY <1>0, <1>2 DEF Receive, AgedOut, Row
<1>3. ASSUME NEW q \in Requests, Age(q) PROVE FALSE
  BY <1>0, <1>3 DEF Age, Row
<1>4. ASSUME NEW c \in Callers, threads[c].pc = "finish", EndCall(c),
             rows' = [rows EXCEPT ![threads[c].request] = Finished(c)]
      PROVE  Goal
  <2>1. threads[c].request = r /\ rows'[r] = Finished(c)
    BY <1>0, <1>4
  <2>2. rows[r].status = "SENDING"
    BY <1>4, <2>1, FinishedRow
  <2>3. QED
    BY <1>4, <2>1, <2>2 DEF EndCall
<1>5. ASSUME NEW c \in Callers, Finish(c) PROVE Goal
  BY <1>4, <1>5 DEF Finish
<1>6. ASSUME NEW c \in Callers, NEW committed \in BOOLEAN, FinishThrows(c, committed)
      PROVE  Goal
  BY <1>4, <1>6 DEF FinishThrows
<1>7. ASSUME UNCHANGED rows PROVE FALSE
  BY <1>7
<1>8. ASSUME NEW c \in Callers, Deliver(c) PROVE Goal
  BY <1>5, <1>6, <1>7, <1>8
  DEF Deliver, AskCredential, mailVars, CredentialFails, CheckCredential, Post,
      AnswerAccepted, AnswerRefused, AnswerUncertain, AnswerChecked
<1>9. QED
  BY <1>1, <1>2, <1>3, <1>7, <1>8
  DEF MailNext, vars, mailVars, Replay, Crash, GmailAccepts

(* A terminal receipt never changes.                                       *)
THEOREM TerminalIsFinal == MailSpec => TerminalReceiptIsFinal
<1> DEFINE Final == \A r \in Requests :
                      rows[r].status \in Terminal => rows'[r].status = rows[r].status
<1>1. ASSUME MailInv, [MailNext]_vars PROVE Final
  BY <1>1, RowChanges DEF Terminal
<1>2. MailInv /\ [MailNext]_vars => [Final]_vars
  BY <1>1
<1>3. QED
  BY <1>2, MailInvariant, PTL DEF MailSpec, TerminalReceiptIsFinal

(* SENT is committed under the grant generation of its credential.         *)
THEOREM SentUnderGrant == MailSpec => SentUnderTheSameGrant
<1> DEFINE Fenced == \A r \in Requests :
                       rows'[r].status = "SENT" /\ rows[r].status # "SENT"
                         => IsCurrent(rows'[r].gen)
<1>1. ASSUME MailInv, [MailNext]_vars PROVE Fenced
  <2> SUFFICES ASSUME NEW r \in Requests, rows'[r].status = "SENT", rows[r].status # "SENT"
               PROVE  IsCurrent(rows'[r].gen)
    OBVIOUS
  <2>1. PICK c \in Callers : /\ rows[r].status = "SENDING"
                             /\ threads[c].request = r
                             /\ rows'[r] = Finished(c)
    BY <1>1, RowChanges
  <2>2. rows[r] \in Row
    BY <1>1 DEF MailInv, MailTypeOK
  <2>3. Recorded(c) = "SENT" /\ rows'[r].gen = threads[c].gen
    BY <2>1, <2>2 DEF Finished, Recorded, Row
  <2>4. QED
    BY <2>3 DEF Recorded
<1>2. MailInv /\ [MailNext]_vars => [Fenced]_vars
  BY <1>1
<1>3. QED
  BY <1>2, MailInvariant, PTL DEF MailSpec, SentUnderTheSameGrant
=============================================================================
