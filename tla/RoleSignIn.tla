----------------------------- MODULE RoleSignIn -----------------------------
(***************************************************************************)
(* From the captured SAML response to the question put to STS: `login`,    *)
(* `credential-process` and `list-roles` parse the response; the first two *)
(* decide on a role, may ask a human to confirm or to pick one in the      *)
(* role selector, and ask STS for credentials of that role.                *)
(*                                                                         *)
(* `event` is a history variable: the answer of the human, if there was    *)
(* one.                                                                    *)
(***************************************************************************)
EXTENDS SamlAssertion, RoleChoice

CONSTANTS
  Requests,     \* the command invocations considered
  Responses,    \* the responses a browser may capture
  OurTenant, OurApp,  \* the profile's, or the overrides of the command
  Height,       \* the rows of the list on the screen
  MaxQuery,     \* bounds the length of a search
  NoAssertion,  \* no assertion accepted yet
  Nothing       \* no request, no response, nothing asked of STS

VARIABLES
  pc,        \* the point the command has reached
  request, response,
  roles,     \* the accepted assertion's roles, each with its principal
  query,     \* RoleSelector::search_query
  filtered,  \* RoleSelector::filtered_indices
  selected,  \* the selected row of `filtered`, 0 if there is none
  event,
  role,      \* the role decided on
  sts        \* the pair AssumeRoleWithSAML was called with

vars == <<pc, request, response, roles, query, filtered, selected, event, role, sts>>
signIn == <<request, response, roles>>
selector == <<query, filtered, selected>>

Request == [command: {"login", "list-roles"}, role: Arn \cup {NoRole},
            explicit: BOOLEAN, interactive: BOOLEAN]

ASSUME RoleSignInAssumption ==
  /\ Height \in Nat \ {0}
  /\ MaxQuery \in Nat
  /\ OurTenant \in Tenant /\ OurApp \in AppIdUri
  /\ Requests \subseteq Request /\ Responses \subseteq Response
  /\ \A r \in Requests : r.explicit => r.role # NoRole
  /\ Nothing \notin Requests \cup Responses
  /\ \A r \in Responses : NoAssertion # ExtractRoles(r.values)

(* The list of the selector, in its order.                                 *)
list == Listed(roles)

----------------------------------------------------------------------------
(* The selector.                                                           *)

Matches(name, text) ==
  \E i \in 0..(Len(name) - Len(text)) : SubSeq(name, i + 1, i + Len(text)) = text

(* update_filtered: the rows that contain the query, the first selected.   *)
Filter(text) ==
  /\ query' = text
  /\ LET rows == {i \in DOMAIN list : Matches(list[i].name, text)}
     IN  filtered' = InOrder(rows, {pair \in rows \X rows : pair[1] < pair[2]})
  /\ selected' = IF filtered' = <<>> THEN 0 ELSE 1

(* RoleSelector::new, on a list of several roles                           *)
OpenSelector ==
  /\ query' = <<>>
  /\ filtered' = [i \in DOMAIN list |-> i]
  /\ selected' = 1

(* get_selected_role, when there is a selected row                         *)
SelectedRole(row) == list[filtered[row]]

Pick(row, what) ==
  /\ role' = SelectedRole(row)
  /\ event' = what
  /\ selected' = row
  /\ pc' = "exchange"
  /\ UNCHANGED <<signIn, query, filtered, sts>>

Enter ==
  /\ pc = "select" /\ selected # 0
  /\ Pick(selected, "enter")

(* handle_list_click.  The list is drawn from a copy of the selector's     *)
(* state, so the offset of the state stays 0 however far the drawn list is *)
(* scrolled: of a scrolled list the role picked is not the one clicked.    *)
Click(row) ==
  /\ pc = "select" /\ row <= Len(filtered)
  /\ Pick(row, "click")

(* Enter on an empty list is an error, Esc and Ctrl+C give the choice up.  *)
LeaveSelector ==
  /\ pc = "select"
  /\ pc' = "failed"
  /\ UNCHANGED <<signIn, selector, event, role, sts>>

Search(text) ==
  /\ Filter(text)
  /\ UNCHANGED <<pc, signIn, event, role, sts>>

Type(letter) ==
  /\ pc = "select" /\ Len(query) < MaxQuery
  /\ Search(Append(query, letter))

(* Backspace on an empty query still filters again.                        *)
Erase ==
  /\ pc = "select"
  /\ Search(IF query = <<>> THEN query ELSE Front(query))

(* VARIANT: the last row is no bound.                                      *)
DownUnbounded ==
  /\ pc = "select" /\ filtered # <<>>
  /\ selected' = selected + 1
  /\ UNCHANGED <<pc, signIn, query, filtered, event, role, sts>>

(* move_selection, by a key or the wheel                                   *)
Down ==
  /\ pc = "select" /\ filtered # <<>>
  /\ selected' = IF selected < Len(filtered) THEN selected + 1 ELSE selected
  /\ UNCHANGED <<pc, signIn, query, filtered, event, role, sts>>

Up ==
  /\ pc = "select" /\ filtered # <<>>
  /\ selected' = IF selected > 1 THEN selected - 1 ELSE selected
  /\ UNCHANGED <<pc, signIn, query, filtered, event, role, sts>>

----------------------------------------------------------------------------
(* The command.                                                            *)

Start(r) ==
  /\ pc = "idle"
  /\ request' = r
  /\ pc' = "browser"
  /\ UNCHANGED <<response, roles, selector, event, role, sts>>

(* The browser returns what it captured, and it is parsed.                 *)
SignIn(captured) ==
  /\ pc = "browser"
  /\ response' = captured
  /\ IF Accepts(captured, OurTenant, OurApp)
     THEN roles' = ExtractRoles(captured.values) /\ pc' = "decide"
     ELSE roles' = NoAssertion /\ pc' = "failed"
  /\ UNCHANGED <<request, selector, event, role, sts>>

ListRoles ==
  /\ pc = "decide" /\ request.command = "list-roles"
  /\ pc' = "done"
  /\ UNCHANGED <<signIn, selector, event, role, sts>>

Decided ==
  ResolveRole(DOMAIN roles, request.role, request.explicit, request.interactive)

(* VARIANT: the only role left replaces the configured one unasked.        *)
ChooseUnasked ==
  LET only == Len(list) = 1
  IN  CASE Decided = "Use"                             -> "use requested"
        [] Decided \in {"Pick", "Replace"} /\ only     -> "use only"
        [] Decided \in {"Pick", "Replace"} /\ ~only
                                      /\ list # <<>>     -> "select"
        [] OTHER                                         -> "fail"

(* resolve_role, and choose_role up to its prompt: a single role is picked *)
(* without the selector, but replaces a configured one only if confirmed.  *)
Choose ==
  LET only == Len(list) = 1
  IN  CASE Decided = "Use"                             -> "use requested"
        [] Decided = "Pick" /\ only                    -> "use only"
        [] Decided = "Replace" /\ only                 -> "confirm"
        [] Decided \in {"Pick", "Replace"} /\ ~only
                                      /\ list # <<>>     -> "select"
        [] OTHER                                         -> "fail"

UseRole(chosen) ==
  /\ role' = chosen
  /\ pc' = "exchange"
  /\ UNCHANGED <<signIn, selector, event, sts>>

ResolvesToRole ==
  /\ pc = "decide" /\ request.command = "login"
  /\ \/ Choose = "use requested" /\ UseRole(request.role)
     \/ Choose = "use only" /\ UseRole(list[1])

ResolvesToPrompt ==
  /\ pc = "decide" /\ request.command = "login"
  /\ \/ Choose = "confirm" /\ pc' = "confirm" /\ UNCHANGED selector
     \/ Choose = "select" /\ pc' = "select" /\ OpenSelector
  /\ UNCHANGED <<signIn, event, role, sts>>

(* The requested role is not offered and nobody may replace it, none is    *)
(* requested and nobody can choose, or none is offered at all.             *)
ResolvesToNothing ==
  /\ pc = "decide" /\ request.command = "login"
  /\ Choose = "fail"
  /\ pc' = "failed"
  /\ UNCHANGED <<signIn, selector, event, role, sts>>

Confirm ==
  /\ pc = "confirm"
  /\ role' = list[1] /\ event' = "yes" /\ pc' = "exchange"
  /\ UNCHANGED <<signIn, selector, sts>>

Decline ==
  /\ pc = "confirm"
  /\ pc' = "failed"
  /\ UNCHANGED <<signIn, selector, event, role, sts>>

(* exchange_for_credentials; what STS answers changes nothing here.        *)
Exchange ==
  /\ pc = "exchange" /\ role \in DOMAIN roles
  /\ sts' = [role |-> role, principal |-> roles[role]]
  /\ pc' = "done"
  /\ UNCHANGED <<signIn, selector, event, role>>

Init ==
  /\ pc = "idle"
  /\ request = Nothing /\ response = Nothing /\ roles = NoAssertion
  /\ query = <<>> /\ filtered = <<>> /\ selected = 0
  /\ event = "none"
  /\ role = NoRole
  /\ sts = Nothing

(* The process ends, and another command runs.                             *)
Exit ==
  /\ pc \in {"done", "failed"}
  /\ pc' = "idle"
  /\ request' = Nothing /\ response' = Nothing /\ roles' = NoAssertion
  /\ query' = <<>> /\ filtered' = <<>> /\ selected' = 0
  /\ event' = "none"
  /\ role' = NoRole
  /\ sts' = Nothing

SelectorEvent ==
  \/ Enter \/ LeaveSelector \/ Erase \/ Down \/ Up
  \/ \E row \in 1..Height : Click(row)
  \/ \E letter \in Letter : Type(letter)

Next ==
  \/ \E r \in Requests : Start(r)
  \/ \E captured \in Responses : SignIn(captured)
  \/ ListRoles
  \/ ResolvesToRole \/ ResolvesToPrompt \/ ResolvesToNothing
  \/ Confirm \/ Decline
  \/ SelectorEvent
  \/ Exchange
  \/ Exit

Spec == Init /\ [][Next]_vars

----------------------------------------------------------------------------
(* Properties.                                                             *)

(* Every variable keeps its type; in particular the selected row is one of *)
(* the filtered rows, after any search and any move, and the role decided  *)
(* on is one the assertion offers.                                         *)
TypeOK ==
  /\ pc \in {"idle", "browser", "decide", "confirm", "select", "exchange",
             "done", "failed"}
  /\ request \in Requests \cup {Nothing}
  /\ response = Nothing \/ response \in Response
  /\ roles # NoAssertion =>
       \A r \in DOMAIN roles : r.kind = "role" /\ roles[r].kind = "saml-provider"
  /\ query \in Seq(Letter)
  /\ \A i \in DOMAIN filtered : filtered[i] \in DOMAIN list
  /\ selected \in (IF filtered = <<>> THEN {0} ELSE 1..Len(filtered))
  /\ role # NoRole => role \in DOMAIN roles
  /\ sts # Nothing => roles # NoAssertion

IsTime(t) == t \notin {NoTime, Unreadable}

(* What the checks are for, said of the XML alone: an assertion of the     *)
(* tenant, for the app and for AWS, and now is in each window it states,   *)
(* give or take the skew before the window, none after it.                 *)
Valid(r) ==
  /\ r.envelope = "assertion"
  /\ r.issuer = OurTenant
  /\ r.recipient \in {"none", "AWS"}
  /\ \E i \in DOMAIN r.conditions : OurApp \in r.conditions[i].audiences
  /\ \A i \in DOMAIN r.conditions :
       LET from == r.conditions[i].notBefore
           until == r.conditions[i].notOnOrAfter
       IN  /\ IsTime(from) => 0 \in (from - Skew)..Horizon
           /\ IsTime(until) => until > 0
           /\ IsTime(from) /\ IsTime(until) => (from..(until - 1)) # {}

(* The chain of checks in SamlAssertion::parse accepts a response exactly  *)
(* when it is valid: it neither refuses a sign-in for a skewed clock at    *)
(* the start of the window nor lets one through after its end.             *)
AcceptsTheValid ==
  response # Nothing => ((roles # NoAssertion) <=> Valid(response))

(* The two ARNs of a value, whichever comes first.                         *)
Pairs(parts, r, p) ==
  /\ Len(parts) = 2 /\ {parts[1], parts[2]} = {r, p}
  /\ r # Malformed /\ p # Malformed
  /\ r.kind = "role" /\ p.kind = "saml-provider"

(* The roles read from the assertion are those of its well-formed values   *)
(* and each has the provider it is listed with last: none is lost to a     *)
(* malformed neighbour or to the order of the two ARNs.                    *)
OffersTheLastPairs ==
  roles # NoAssertion =>
    LET values == response.values
        Arns == UNION {Range(values[i]) : i \in DOMAIN values}
        IsLastPair(r, p) ==
          \E i \in DOMAIN values :
            /\ Pairs(values[i], r, p)
            /\ \A j \in (i + 1)..Len(values) :
                 ~ \E other \in Arns : Pairs(values[j], r, other)
    IN  \A r, p \in Arns :
          IsLastPair(r, p) <=> (r \in DOMAIN roles /\ roles[r] = p)

(* STS is asked for the role that was requested, or for one a human agreed *)
(* to in this very command, or, where none was requested, for the only one *)
(* on offer; a role given by --role-arn is never replaced, nor is any by a *)
(* command that cannot ask.                                                *)
NeverReplacedSilently ==
  sts # Nothing =>
    \/ sts.role = request.role
    \/ event # "none" /\ request.interactive /\ ~request.explicit
    \/ request.role = NoRole /\ DOMAIN roles = {sts.role}
=============================================================================
