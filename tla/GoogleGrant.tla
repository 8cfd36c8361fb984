---------------------------- MODULE GoogleGrant ----------------------------
(***************************************************************************)
(* One user's Google grant as GoogleAuthorizationService keeps it: the     *)
(* single row of identity.google_authorization, the threads that ask for a *)
(* credential (and refresh an expired one with an HTTP exchange between    *)
(* two short transactions), the browser consents that connect the account, *)
(* and disconnect.                                                         *)
(*                                                                         *)
(* A token is a number drawn from one counter, so two tokens are equal     *)
(* only when they are the same token.  The claim token of a refresh is     *)
(* named by the thread that holds it: a thread has one claim at a time and *)
(* every claim replaces the previous one.  Ciphertext, e-mail address and  *)
(* Google subject are left out; grantedScopes is the set of features the   *)
(* scopes support.                                                         *)
(***************************************************************************)
EXTENDS Naturals

CONSTANTS
  Callers,    \* threads that call credential()
  Intents,    \* browser consents
  Features,   \* GoogleAccess.Feature
  NoCaller,   \* refresh_claim_token IS NULL
  MaxGen,     \* bound on the generation
  MaxToken    \* bound on the tokens Google issues

ASSUME GrantAssumption ==
  /\ NoCaller \notin Callers
  /\ MaxGen \in Nat
  /\ MaxToken \in Nat

VARIABLES
  grant,      \* the row; status "ABSENT" before the first connect
  callers,    \* what each thread has in hand
  intents,    \* what each browser consent has in hand
  minted,     \* tokens Google has issued so far
  rejected,   \* history: refresh tokens Google answered 400/401 to
  overtaken   \* history: consents that were pending during a disconnect

grantVars == <<grant, callers, intents, minted, rejected, overtaken>>

NoToken == 0
Token == 0 .. MaxToken
Generation == 0 .. MaxGen
Category ==
  {"CONFIGURATION_REQUIRED", "REAUTH_REQUIRED", "PERMISSION_REQUIRED", "TEMPORARY"}

Grant ==
  [status  : {"ABSENT", "CONNECTED", "NOT_CONNECTED", "REAUTH_REQUIRED"},
   gen     : Generation,
   access  : Token,
   refresh : Token,
   scopes  : SUBSET Features,
   expired : BOOLEAN,                 \* expiresAt is in the past
   claim   : Callers \cup {NoCaller}, \* refresh_claim_token
   leased  : BOOLEAN]                 \* refresh_lease_until is in the future

Caller ==
  [phase   : {"none", "expired", "refreshing", "granted", "rejected",
              "unavailable", "held", "failed"},
   gen     : Generation,              \* of the claim, then of the credential
   access  : Token,
   refresh : Token,
   failure : Category \cup {"NONE"}]

Intent == [state : {"none", "pending", "connected", "denied"}, gen : Generation,
           feature : Features]

Idle == [phase |-> "none", gen |-> 0, access |-> NoToken, refresh |-> NoToken,
         failure |-> "NONE"]
Failed(category) == [Idle EXCEPT !.phase = "failed", !.failure = category]

GrantTypeOK ==
  /\ grant \in Grant
  /\ callers \in [Callers -> Caller]
  /\ intents \in [Intents -> Intent]
  /\ minted \in Token
  /\ rejected \in SUBSET Token
  /\ overtaken \in SUBSET Intents

GrantInit ==
  /\ grant = [status |-> "ABSENT", gen |-> 0, access |-> NoToken,
              refresh |-> NoToken, scopes |-> {}, expired |-> FALSE,
              claim |-> NoCaller, leased |-> FALSE]
  /\ callers = [c \in Callers |-> Idle]
  /\ intents \in [Intents -> [state : {"none"}, gen : {0}, feature : Features]]
  /\ minted = 0
  /\ rejected = {}
  /\ overtaken = {}

----------------------------------------------------------------------------
(* status(grant, feature) and isCurrent.                                   *)

Status(feature) ==
  IF grant.access = NoToken THEN "NOT_CONNECTED"
  ELSE IF grant.status = "REAUTH_REQUIRED" THEN "REAUTH_REQUIRED"
  ELSE IF feature \notin grant.scopes THEN "PERMISSION_REQUIRED"
  ELSE "CONNECTED"

CategoryOf(status) ==
  IF status = "NOT_CONNECTED" THEN "CONFIGURATION_REQUIRED" ELSE status

IsCurrent(gen) ==
  /\ grant.status \notin {"ABSENT", "REAUTH_REQUIRED"}
  /\ grant.gen = gen

----------------------------------------------------------------------------
(* credential(): one unlocked read of the row ...                          *)

RequestCredential(c, feature) ==
  /\ callers[c].phase = "none"
  /\ callers' = [callers EXCEPT ![c] =
       IF Status(feature) # "CONNECTED" THEN Failed(CategoryOf(Status(feature)))
       ELSE IF grant.expired THEN [Idle EXCEPT !.phase = "expired"]
       ELSE [Idle EXCEPT !.phase = "held", !.gen = grant.gen, !.access = grant.access]]
  /\ UNCHANGED <<grant, intents, minted, rejected, overtaken>>

(* ... then, for an expired token, beginRefresh under the row lock.        *)
(* Mutant: a claim whose holder died is never taken over.                  *)
MayClaimUnlessClaimed == grant.refresh # NoToken /\ grant.claim = NoCaller

MayClaim == grant.refresh # NoToken /\ ~grant.leased

BeginRefresh(c) ==
  /\ callers[c].phase = "expired"
  /\ MayClaim
  /\ grant' = [grant EXCEPT !.claim = c, !.leased = TRUE]
  /\ callers' = [callers EXCEPT ![c] =
       [Idle EXCEPT !.phase = "refreshing", !.gen = grant.gen, !.refresh = grant.refresh]]
  /\ UNCHANGED <<intents, minted, rejected, overtaken>>

RefuseRefresh(c) ==
  /\ callers[c].phase = "expired"
  /\ ~MayClaim
  /\ callers' = [callers EXCEPT ![c] =
       Failed(IF grant.refresh = NoToken THEN "REAUTH_REQUIRED" ELSE "TEMPORARY")]
  /\ UNCHANGED <<grant, intents, minted, rejected, overtaken>>

(* The token endpoint answers outside any transaction: 200 with a new      *)
(* access token and perhaps a rotated refresh token, 400/401, or nothing   *)
(* usable.                                                                 *)
ProviderGrants(c, rotates) ==
  LET fresh == IF rotates THEN 2 ELSE 1
  IN /\ callers[c].phase = "refreshing"
     /\ minted + fresh <= MaxToken
     /\ minted' = minted + fresh
     /\ callers' = [callers EXCEPT ![c] =
          [@ EXCEPT !.phase = "granted",
                    !.access = minted + 1,
                    !.refresh = IF rotates THEN minted + 2 ELSE NoToken]]
     /\ UNCHANGED <<grant, intents, rejected, overtaken>>

ProviderRejects(c) ==
  /\ callers[c].phase = "refreshing"
  /\ rejected' = rejected \cup {callers[c].refresh}
  /\ callers' = [callers EXCEPT ![c] = [@ EXCEPT !.phase = "rejected"]]
  /\ UNCHANGED <<grant, intents, minted, overtaken>>

ProviderUnavailable(c) ==
  /\ callers[c].phase = "refreshing"
  /\ callers' = [callers EXCEPT ![c] = [@ EXCEPT !.phase = "unavailable"]]
  /\ UNCHANGED <<grant, intents, minted, rejected, overtaken>>

(* completeRefresh and failRefresh act only for the claim that is still    *)
(* the row's, at the generation it was taken at.                           *)
ClaimIsCurrent(c) == grant.claim = c /\ grant.gen = callers[c].gen

(* Mutant: a refresh keeps the generation.                                 *)
StoreRefreshedInPlace(c) ==
  [grant EXCEPT !.access = callers[c].access,
                !.refresh = IF callers[c].refresh # NoToken THEN callers[c].refresh ELSE @,
                !.expired = FALSE,
                !.status = "CONNECTED",
                !.claim = NoCaller,
                !.leased = FALSE]

StoreRefreshed(c) ==
  [grant EXCEPT !.access = callers[c].access,
                !.refresh = IF callers[c].refresh # NoToken THEN callers[c].refresh ELSE @,
                !.expired = FALSE,
                !.status = "CONNECTED",
                !.claim = NoCaller,
                !.leased = FALSE,
                !.gen = @ + 1]

CompleteRefresh(c) ==
  /\ callers[c].phase = "granted"
  /\ ClaimIsCurrent(c)
  /\ grant.gen < MaxGen
  /\ grant' = StoreRefreshed(c)
  /\ callers' = [callers EXCEPT ![c] =
       [Idle EXCEPT !.phase = "held", !.gen = callers[c].gen + 1,
                    !.access = callers[c].access]]
  /\ UNCHANGED <<intents, minted, rejected, overtaken>>

(* REFRESH_STALE: completeRefresh returned false, and failRefresh finds    *)
(* the same mismatch and leaves the row alone.                             *)
RefreshIsStale(c) ==
  /\ callers[c].phase = "granted"
  /\ ~ClaimIsCurrent(c)
  /\ callers' = [callers EXCEPT ![c] = Failed("TEMPORARY")]
  /\ UNCHANGED <<grant, intents, minted, rejected, overtaken>>

FailRefresh(c) ==
  LET reauth == callers[c].phase = "rejected"
  IN /\ callers[c].phase \in {"rejected", "unavailable"}
     /\ grant' = IF ClaimIsCurrent(c)
                 THEN [grant EXCEPT !.claim = NoCaller, !.leased = FALSE,
                                    !.status = IF reauth THEN "REAUTH_REQUIRED" ELSE @]
                 ELSE grant
     /\ callers' = [callers EXCEPT ![c] =
          Failed(IF reauth THEN "REAUTH_REQUIRED" ELSE "TEMPORARY")]
     /\ UNCHANGED <<intents, minted, rejected, overtaken>>

(* The thread is done with its credential or its failure; or its process   *)
(* stops with whatever it was doing.                                       *)
Release(c) ==
  /\ callers[c].phase \in {"held", "failed"}
  /\ callers' = [callers EXCEPT ![c] = Idle]
  /\ UNCHANGED <<grant, intents, minted, rejected, overtaken>>

CallerCrashes(c) ==
  /\ callers[c].phase \in {"expired", "refreshing", "granted", "rejected", "unavailable"}
  /\ callers' = [callers EXCEPT ![c] = Idle]
  /\ UNCHANGED <<grant, intents, minted, rejected, overtaken>>

----------------------------------------------------------------------------
(* The passage of time.                                                    *)

TokenExpires ==
  /\ grant.access # NoToken /\ ~grant.expired
  /\ grant' = [grant EXCEPT !.expired = TRUE]
  /\ UNCHANGED <<callers, intents, minted, rejected, overtaken>>

LeaseExpires ==
  /\ grant.leased
  /\ grant' = [grant EXCEPT !.leased = FALSE]
  /\ UNCHANGED <<callers, intents, minted, rejected, overtaken>>

----------------------------------------------------------------------------
(* Browser consent: the intent records the generation it was started at;   *)
(* the callback applies the grant only if the generation is still that     *)
(* one, the intent is at most ten minutes old, the wanted feature was      *)
(* granted, and no feature of a connected grant would be lost.             *)

StartConsent(i) ==
  /\ intents[i].state = "none"
  /\ intents' = [intents EXCEPT ![i] = [@ EXCEPT !.state = "pending", !.gen = grant.gen]]
  /\ UNCHANGED <<grant, callers, minted, rejected, overtaken>>

(* Mutant: the callback ignores the generation it was started at.          *)
AlwaysFresh(i) == i \in Intents

NotStale(i) == intents[i].gen = grant.gen

Regresses(scopes) ==
  /\ grant.access # NoToken
  /\ grant.status = "CONNECTED"
  /\ ~(grant.scopes \subseteq scopes)

Connect(i, scopes, offline) ==
  LET fresh == IF offline THEN 2 ELSE 1
  IN /\ intents[i].state = "pending"
     /\ NotStale(i)
     /\ intents[i].feature \in scopes
     /\ ~Regresses(scopes)
     /\ grant.gen < MaxGen
     /\ minted + fresh <= MaxToken
     /\ minted' = minted + fresh
     /\ grant' = [grant EXCEPT
          !.access = minted + 1,
          !.refresh = IF offline THEN minted + 2 ELSE @,
          !.scopes = scopes,
          !.expired = FALSE,
          !.status = IF ~offline /\ grant.refresh = NoToken
                     THEN "REAUTH_REQUIRED" ELSE "CONNECTED",
          !.gen = @ + 1]
     /\ intents' = [intents EXCEPT ![i] = [@ EXCEPT !.state = "connected"]]
     /\ UNCHANGED <<callers, rejected, overtaken>>

(* Every other callback (denied, late, stale, insufficient or regressing   *)
(* scopes) consumes the intent and leaves the grant alone.                 *)
DenyConsent(i) ==
  /\ intents[i].state = "pending"
  /\ intents' = [intents EXCEPT ![i] = [@ EXCEPT !.state = "denied"]]
  /\ UNCHANGED <<grant, callers, minted, rejected, overtaken>>

(* disconnect forgets both tokens and moves the generation; it leaves the  *)
(* refresh claim, its lease and expiresAt as they are.                     *)
Disconnect ==
  /\ grant.gen < MaxGen
  /\ grant' = [grant EXCEPT !.access = NoToken, !.refresh = NoToken, !.scopes = {},
                            !.status = "NOT_CONNECTED", !.gen = @ + 1]
  /\ overtaken' = overtaken \cup {i \in Intents : intents[i].state = "pending"}
  /\ UNCHANGED <<callers, intents, minted, rejected>>

----------------------------------------------------------------------------
(* Steps that are the same whoever the caller is ...                       *)
RefreshStep(c) ==
  \/ BeginRefresh(c)
  \/ RefuseRefresh(c)
  \/ \E rotates \in BOOLEAN : ProviderGrants(c, rotates)
  \/ ProviderRejects(c)
  \/ ProviderUnavailable(c)
  \/ CompleteRefresh(c)
  \/ RefreshIsStale(c)
  \/ FailRefresh(c)

(* ... and steps that no caller takes part in.                             *)
OwnerStep ==
  \/ TokenExpires
  \/ LeaseExpires
  \/ Disconnect
  \/ \E i \in Intents :
       \/ StartConsent(i)
       \/ DenyConsent(i)
       \/ \E scopes \in SUBSET Features, offline \in BOOLEAN : Connect(i, scopes, offline)

GrantNext ==
  \/ OwnerStep
  \/ \E c \in Callers :
       \/ \E feature \in Features : RequestCredential(c, feature)
       \/ RefreshStep(c)
       \/ Release(c)
       \/ CallerCrashes(c)

GrantSpec == GrantInit /\ [][GrantNext]_grantVars

(* The calendar dispatcher and the users' requests come back, so a thread  *)
(* keeps asking; an exchange that is tried again and again is not refused  *)
(* by Google for ever; a lease lasts 15 seconds.                           *)
GrantFairness ==
  /\ WF_grantVars(LeaseExpires)
  /\ \A c \in Callers :
       /\ SF_grantVars(\E feature \in Features : RequestCredential(c, feature))
       /\ SF_grantVars(BeginRefresh(c))
       /\ SF_grantVars(\E rotates \in BOOLEAN : ProviderGrants(c, rotates))
       /\ SF_grantVars(CompleteRefresh(c))
       /\ WF_grantVars(RefuseRefresh(c) \/ RefreshIsStale(c) \/ FailRefresh(c) \/ Release(c))

GrantLiveSpec == GrantSpec /\ GrantFairness
----------------------------------------------------------------------------
(* A thread that passes isCurrent holds the very access token the row      *)
(* stores: the generation identifies the token, whatever refreshes,        *)
(* consents and disconnects happened since the thread read it.             *)
CurrentCredentialIsStored ==
  \A c \in Callers :
    callers[c].phase = "held" /\ IsCurrent(callers[c].gen)
      => callers[c].access = grant.access

(* A grant is marked REAUTH_REQUIRED only over the refresh token that      *)
(* Google really refused (or for want of one): a late 400/401 to a         *)
(* superseded refresh never disables the grant that replaced it.           *)
ReauthOnlyForARejectedToken ==
  grant.status = "REAUTH_REQUIRED" /\ grant.refresh # NoToken
    => grant.refresh \in rejected

(* A consent that a disconnect overtook is never applied: the user's       *)
(* disconnect wins over the browser tab left open before it.               *)
ConsentNeverUndoesDisconnect ==
  \A i \in overtaken : intents[i].state # "connected"

(* After a disconnect only a completed consent brings a token back: no     *)
(* refresh that was under way restores access (disconnect leaves the       *)
(* refresh claim in the row, so the generation alone prevents it).         *)
OnlyConsentRestoresAccess ==
  [][grant.access = NoToken /\ grant'.access # NoToken
       => \E i \in Intents : /\ intents[i].state = "pending"
                             /\ intents'[i].state = "connected"]_grantVars

(* An expired access token does not stay expired: a refresh whose thread   *)
(* died holds the claim for the length of its lease only.  (Unless the     *)
(* grant ends, or the bounds of the model are reached.)                    *)
RefreshCompletes ==
  grant.status = "CONNECTED" /\ grant.expired /\ grant.refresh # NoToken
    ~> \/ ~grant.expired
       \/ grant.status # "CONNECTED"
       \/ grant.gen = MaxGen
       \/ minted + 2 > MaxToken

=============================================================================
