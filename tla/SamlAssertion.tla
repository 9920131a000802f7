--------------------------- MODULE SamlAssertion ---------------------------
(***************************************************************************)
(* What awzars reads out of the SAML response the browser captured: when   *)
(* it accepts the assertion in it, and which roles, in which order, the    *)
(* assertion offers.                                                       *)
(*                                                                         *)
(* Times are relative to the moment the response is parsed.  A response is *)
(* what its XML says: the issuer's tenant (trailing slashes aside), the    *)
(* <Conditions> and the <AttributeValue>s of the role attribute in         *)
(* document order, and the first Recipient.                                *)
(***************************************************************************)
EXTENDS Integers, FiniteSets, Sequences, SequencesExt

CONSTANTS
  Tenant,      \* the tenants an issuer can name
  AppIdUri,    \* audiences
  Skew,        \* CLOCK_SKEW_SECONDS
  Horizon,     \* bounds the times in a response
  Account,     \* account numbers, a set of integers in their order
  Letter,      \* the letters of a resource name, integers in their order
  Partition,   \* the partitions aws, aws-cn, ..., integers in their order
  NoIssuer,    \* no <Issuer>, or one that is no tenant's
  NoTime,      \* no NotBefore or NotOnOrAfter
  Unreadable,  \* a time that is not in RFC 3339
  Malformed    \* text that is no IAM ARN

ASSUME SamlAssumption ==
  /\ Skew \in Nat /\ Horizon \in Nat
  /\ Account \cup Letter \cup Partition \subseteq Int
  /\ NoIssuer \notin Tenant
  /\ {NoTime, Unreadable} \cap (-Horizon..Horizon) = {}

Time == -Horizon..Horizon

(* IamArn: what is left of an ARN that IamArn::parse accepts.              *)
Arn == [kind: {"role", "saml-provider"}, account: Account,
        name: Seq(Letter), partition: Partition]

Conditions == [notBefore: Time \cup {NoTime, Unreadable},
               notOnOrAfter: Time \cup {NoTime, Unreadable},
               audiences: SUBSET AppIdUri]

(* `values` are the role attribute's values, split at their commas.        *)
Response == [envelope: {"assertion", "oversized", "undecodable", "no assertion"},
             issuer: Tenant \cup {NoIssuer},
             conditions: Seq(Conditions),
             recipient: {"none", "AWS", "other"},
             values: Seq(Seq(Arn \cup {Malformed}))]

----------------------------------------------------------------------------
(* The roles.                                                              *)

IsPair(parts) ==
  /\ Len(parts) = 2
  /\ Malformed \notin {parts[1], parts[2]}
  /\ {parts[1].kind, parts[2].kind} = {"role", "saml-provider"}

(* parse_role_value: a role and its provider, in either order.             *)
RoleOf(parts) == IF parts[1].kind = "role" THEN parts[1] ELSE parts[2]
PrincipalOf(parts) == IF parts[1].kind = "role" THEN parts[2] ELSE parts[1]

(* VARIANT: the first part is taken for the role.                          *)
InsertInOrder(roles, parts) ==
  IF IsPair(parts)
  THEN [r \in DOMAIN roles \cup {parts[1]} |->
          IF r = parts[1] THEN parts[2] ELSE roles[r]]
  ELSE roles

(* A role listed before gets the principal listed last.                    *)
Insert(roles, parts) ==
  IF IsPair(parts)
  THEN [r \in DOMAIN roles \cup {RoleOf(parts)} |->
          IF r = RoleOf(parts) THEN PrincipalOf(parts) ELSE roles[r]]
  ELSE roles

(* extract_roles, value by value.                                          *)
ExtractRoles(values) ==
  LET after[n \in 0..Len(values)] ==
        IF n = 0 THEN [r \in {} |-> Malformed] ELSE Insert(after[n - 1], values[n])
  IN  after[Len(values)]

(* The order of two names, letter by letter.                               *)
NameBefore(s, t) ==
  \E k \in 0..Len(s) :
    /\ k <= Len(t)
    /\ SubSeq(s, 1, k) = SubSeq(t, 1, k)
    /\ k < Len(t) /\ (k = Len(s) \/ s[k + 1] < t[k + 1])

(* role_order: by account, by resource, then by the whole ARN.             *)
RoleBefore(r, s) ==
  \/ r.account < s.account
  \/ r.account = s.account /\ NameBefore(r.name, s.name)
  \/ r.account = s.account /\ r.name = s.name /\ r.partition < s.partition

(* The members of S, each at the place that the number before it gives it. *)
InOrder(S, before) ==
  [k \in 1..Cardinality(S) |->
     CHOOSE x \in S : Cardinality({y \in S : <<y, x>> \in before}) = k - 1]

(* SamlAssertion::roles, a sequence of roles; their principals are in the  *)
(* map.                                                                    *)
Listed(roles) ==
  LET D == DOMAIN roles
  IN  InOrder(D, {pair \in D \X D : RoleBefore(pair[1], pair[2])})

----------------------------------------------------------------------------
(* The checks.                                                             *)

(* A time given by a later <Conditions> replaces an earlier one, also when *)
(* it cannot be read; one that cannot be read is not checked.              *)
LastGiven(times) ==
  LET given == {i \in DOMAIN times : times[i] # NoTime}
  IN  IF given = {} \/ times[Max(given)] = Unreadable THEN NoTime
      ELSE times[Max(given)]

NotBefore(response) ==
  LastGiven([i \in DOMAIN response.conditions |-> response.conditions[i].notBefore])

NotOnOrAfter(response) ==
  LastGiven([i \in DOMAIN response.conditions |-> response.conditions[i].notOnOrAfter])

Audiences(response) ==
  UNION {response.conditions[i].audiences : i \in DOMAIN response.conditions}

(* VARIANT: an assertion is accepted until the skew after its end.         *)
InWindowSkewed(notBefore, notOnOrAfter) ==
  /\ ~(notBefore # NoTime /\ notOnOrAfter # NoTime /\ notBefore >= notOnOrAfter)
  /\ ~(notBefore # NoTime /\ Skew < notBefore)
  /\ ~(notOnOrAfter # NoTime /\ 0 >= notOnOrAfter + Skew)

(* Not inverted, begun but for the skew, and not over: the end of the      *)
(* window has no skew.                                                     *)
InWindow(notBefore, notOnOrAfter) ==
  /\ ~(notBefore # NoTime /\ notOnOrAfter # NoTime /\ notBefore >= notOnOrAfter)
  /\ ~(notBefore # NoTime /\ Skew < notBefore)
  /\ ~(notOnOrAfter # NoTime /\ 0 >= notOnOrAfter)

(* SamlAssertion::parse returns an assertion.                              *)
Accepts(response, tenant, app) ==
  /\ response.envelope = "assertion"
  /\ response.issuer = tenant
  /\ app \in Audiences(response)
  /\ InWindow(NotBefore(response), NotOnOrAfter(response))
  /\ response.recipient # "other"
=============================================================================
