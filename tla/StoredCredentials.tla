------------------------- MODULE StoredCredentials -------------------------
(***************************************************************************)
(* The data of the credential store: what a set of temporary AWS           *)
(* credentials was issued for, the identity fingerprint it is filed under, *)
(* and when a stored set may still be served.                              *)
(*                                                                         *)
(* Times are kept relative to the present: `left` is the time until a set  *)
(* expires, so "now + buffer < expiration" reads "buffer < left".          *)
(***************************************************************************)
EXTENDS Integers

CONSTANTS
  App,              \* Azure tenant and app ID URI, as one value
  Role,             \* AWS role ARNs
  NoRole,           \* no role_arn configured or requested
  NoEntry,          \* the keyring or cache holds nothing for the profile
  SessionDuration,  \* the profile's configured session length
  AdvisoryWindow    \* REFRESH_BUFFER, the SDK's advisory refresh window

ASSUME CredentialsAssumption ==
  /\ NoRole \notin Role
  /\ SessionDuration \in Nat \ {0}
  /\ AdvisoryWindow \in Nat

RoleOrNone == Role \cup {NoRole}

(* The fingerprint is an injective encoding of its fields (each is         *)
(* length-prefixed before hashing), so the fields themselves stand for it. *)
Identity == [app: App, role: RoleOrNone]
CredentialIdentity(app, role) == [app |-> app, role |-> role]

(* Credentials know what STS issued them for; the store files them under a *)
(* tag that its writer chose.                                              *)
Credentials == [app: App, role: Role, left: Nat]
Entry == [tag: Identity, cred: Credentials]
Store == Entry \cup {NoEntry}

ASSUME NoEntryAssumption == NoEntry \notin Entry

RefreshBuffer ==
  LET half == SessionDuration \div 2
  IN  IF AdvisoryWindow < half THEN AdvisoryWindow ELSE half

IsFresh(cred) == RefreshBuffer < cred.left

(* VARIANT: any stored credentials are taken for the profile's.            *)
UsableByAnyone(entry, identity) ==
  /\ entry # NoEntry
  /\ identity \in Identity
  /\ IsFresh(entry.cred)

(* What get_credentials / get_valid_credentials answer for an identity,    *)
(* together with the is_valid check made on the answer.                    *)
Usable(entry, identity) ==
  /\ entry # NoEntry
  /\ entry.tag = identity
  /\ IsFresh(entry.cred)

(* try_load_credentials: the in-process cache first, then the keyring.     *)
TryLoad(cached, stored, identity, forceRefresh) ==
  IF forceRefresh THEN NoEntry
  ELSE IF Usable(cached, identity) THEN cached
  ELSE IF Usable(stored, identity) THEN stored
  ELSE NoEntry

(* A keyring hit is promoted into the cache; a cache hit is there already. *)
Promoted(cached, hit) == IF hit = NoEntry THEN cached ELSE hit

Aged(entry) ==
  IF entry = NoEntry \/ entry.cred.left = 0 THEN entry
  ELSE [entry EXCEPT !.cred.left = @ - 1]

(* The tag names what the credentials were issued for.                     *)
Truthful(entry) ==
  entry # NoEntry =>
    entry.tag = CredentialIdentity(entry.cred.app, entry.cred.role)
=============================================================================
