-------------------------------- MODULE MCWeb --------------------------------
(***************************************************************************)
(* What administrators and users do in the browser: accounts, sessions and *)
(* API keys, brands and chat channels, signing in at a provider, and what  *)
(* the activity log makes of it, each on an instance of its own. A         *)
(* behaviour is one of the part it is about; the others stay at their      *)
(* start.                                                                  *)
(*                                                                         *)
(* Three accounts, of which the first is the one made at the first start,  *)
(* and two people at the identity provider who share an e-mail address;    *)
(* two users with two session rows and an API key, time in half a minute   *)
(* of TOUCH_EVERY; two brands, two channels, two schedules; two browsers,  *)
(* two people and two providers; two users whose requests are about one    *)
(* object. A part never sees another's values, so all of them name two of  *)
(* their rows x1 and x2, and two of their requests r1 and r2. Guesses are  *)
(* sign-ins alone, one more of them than what else happens to sessions;    *)
(* with two sign-ins at a provider the world changes once, with one twice; *)
(* the activity log is written by two requests, and read while three come  *)
(* in that change nothing.                                                 *)
(***************************************************************************)
EXTENDS Accounts, SessionsProps, Configuration, SingleSignOn, ActivityLog, TLC

CONSTANTS u1, i1, i2, mail, m1, m2, k1, client, t1, j1, x1, x2, r1, r2

VARIABLE area

webVars == <<area, vars, sessionVars, configurationVars, ssoVars, logVars>>

MCEmailOf == [i \in Identities |-> mail]

MCStartRows == {Null, NewAccount("admin", Null, Null), NewAccount("user", mail, Null)}

Areas == {"accounts", "sessions", "guesses", "configuration", "single sign-on", "activity", "reading"}

\* The parts that may start in several states do so only when it is about them
WebInit ==
  /\ area \in Areas
  /\ Init /\ SessionInit /\ ConfigurationInit /\ SsoInit /\ LogInit
  /\ area # "accounts" => /\ \A u \in Users : users[u] = Null \/ u = u1
                          /\ ~sso.create /\ ~sso.groups
  /\ \A u \in Users : grants[u] # Null => users[u].role = "user"
  /\ area # "sessions" => idle = 0 /\ \A s \in SessionIds : sessions[s] = None

Within(a, itsVars) == IF area = a THEN TRUE ELSE UNCHANGED itsVars

WebNext ==
  /\ UNCHANGED area
  /\ Within("accounts", vars) /\ (area = "guesses" \/ Within("sessions", sessionVars))
  /\ Within("configuration", configurationVars) /\ Within("single sign-on", ssoVars)
  /\ (area = "reading" \/ Within("activity", logVars))
  /\ \/ area = "accounts" /\ Next
     \/ area = "sessions" /\ SessionNext /\ requested' <= MaxVisits - 1
     \/ area = "guesses" /\ SessionNext /\ UNCHANGED <<members, sessions, keys>>
     \/ area = "configuration" /\ ConfigurationNext
     \/ area = "single sign-on" /\ SsoNext /\ Len(begun') + changes' <= 3
     \/ area = "activity" /\ LogNext /\ UNCHANGED <<reader, logDay>> /\ count'.requests < MaxEvents
     \/ area = "reading" /\ LogNext /\ UNCHANGED <<accounts, nameOf>> /\ count'.losses = 0
        /\ \A r \in Slots : serving'[r].op \in {"", "view"}

WebSpec == WebInit /\ [][WebNext]_webVars

WebSymmetry == Permutations({x1, x2}) \union Permutations({r1, r2}) \union Permutations(Identities)
=============================================================================
