--------------------------- MODULE SingleRefresh ---------------------------
(***************************************************************************)
(* What the refresh lock promises the users of one profile, with no word   *)
(* of how a command is written: there is at most one owner at a time, only *)
(* the owner drives a browser or files credentials, what it files is       *)
(* filed under the identity the credentials were issued for, and anybody   *)
(* may at any time throw stored credentials away.                          *)
(***************************************************************************)
EXTENDS StoredCredentials

CONSTANTS Procs, NoProc

VARIABLES
  owner,    \* who is refreshing, or NoProc
  signing,  \* who drives a browser sign-in
  entry     \* the stored credentials

svars == <<owner, signing, entry>>

SInit == owner = NoProc /\ signing = {} /\ entry = NoEntry

Take(p) ==
  /\ owner = NoProc
  /\ owner' = p
  /\ UNCHANGED <<signing, entry>>

OpenBrowser(p) ==
  /\ owner = p
  /\ signing' = signing \cup {p}
  /\ UNCHANGED <<owner, entry>>

(* The sign-in ends, and the owner may stop being one.                     *)
CloseBrowser(p) ==
  /\ owner = p
  /\ p \in signing
  /\ signing' = signing \ {p}
  /\ owner' \in {p, NoProc}
  /\ UNCHANGED entry

File(p) ==
  /\ owner = p
  /\ p \notin signing
  /\ entry' \in Entry
  /\ Truthful(entry')
  /\ UNCHANGED <<owner, signing>>

Leave(p) ==
  /\ owner = p
  /\ p \notin signing
  /\ owner' = NoProc
  /\ UNCHANGED <<signing, entry>>

Erase == entry' = NoEntry /\ UNCHANGED <<owner, signing>>

Age == entry' = Aged(entry) /\ UNCHANGED <<owner, signing>>

SNext ==
  \/ \E p \in Procs : \/ Take(p) \/ OpenBrowser(p) \/ CloseBrowser(p)
                      \/ File(p) \/ Leave(p)
  \/ Erase
  \/ Age

SSpec == SInit /\ [][SNext]_svars
=============================================================================
