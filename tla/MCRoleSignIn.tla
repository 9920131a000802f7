---------------------------- MODULE MCRoleSignIn ----------------------------
(* A small instance of RoleSignIn for TLC.                                 *)
EXTENDS RoleSignIn

Role(account, name, partition) ==
  [kind |-> "role", account |-> account, name |-> name, partition |-> partition]
Provider(name) == [Role(1, name, 1) EXCEPT !.kind = "saml-provider"]

RoleA == Role(1, <<1>>, 1)
RoleAB == Role(1, <<1, 2>>, 1)
RoleB == Role(2, <<2>>, 1)
RoleB2 == Role(2, <<2>>, 2)
P == Provider(<<1>>)
Q == Provider(<<2>>)

(* Pairs in both orders, the same role with two providers, and values that *)
(* are no pair.                                                            *)
SomeValues ==
  { <<RoleA, P>>, <<Q, RoleA>>, <<RoleAB, P>>, <<RoleB, P>>, <<P, RoleB2>>,
    <<RoleA, RoleB>>, <<RoleA>>, <<Malformed, P>>, <<RoleB, P, Q>> }

Stated(from, until, audiences) ==
  [notBefore |-> from, notOnOrAfter |-> until, audiences |-> audiences]

Good == [envelope |-> "assertion", issuer |-> "tenant",
         conditions |-> <<Stated(0, 1, {"app"})>>, recipient |-> "AWS",
         values |-> <<<<RoleA, P>>>>]

Times == Time \cup {NoTime, Unreadable}

(* Every window and audience, in an assertion that is otherwise good, with *)
(* a second <Conditions> that states audiences only; every issuer,         *)
(* recipient and envelope; every list of up to three values and one of     *)
(* four roles.                                                             *)
SomeResponses ==
  { [Good EXCEPT !.conditions = <<Stated(from, until, auds)>> \o more] :
      from \in Times, until \in Times, auds \in SUBSET {"app", "app2"},
      more \in {<<>>, <<Stated(NoTime, NoTime, {"app"})>>} }
  \cup
  { [Good EXCEPT !.envelope = envelope, !.issuer = issuer, !.recipient = recipient] :
      envelope \in {"assertion", "oversized", "undecodable", "no assertion"},
      issuer \in {"tenant", "tenant2", NoIssuer}, recipient \in {"none", "AWS", "other"} }
  \cup
  { [Good EXCEPT !.conditions = <<>>] }
  \cup
  { [Good EXCEPT !.values = v] : v \in UNION {[1..n -> SomeValues] : n \in 0..3} }
  \cup
  { [Good EXCEPT !.values = <<<<RoleB, P>>, <<P, RoleB2>>, <<Q, RoleA>>, <<RoleAB, P>>>>] }

Login == [command |-> "login", role |-> NoRole, explicit |-> FALSE, interactive |-> TRUE]

(* With and without a role, a flag, and a terminal.                        *)
SomeRequests ==
  { [Login EXCEPT !.role = r, !.interactive = i] :
      r \in {NoRole, RoleB}, i \in BOOLEAN }
  \cup { [Login EXCEPT !.role = RoleB, !.explicit = TRUE],
         [Login EXCEPT !.command = "list-roles"] }
=============================================================================
