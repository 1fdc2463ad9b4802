---------------------------- MODULE SingleSignOn ----------------------------
(***************************************************************************)
(* Signing in at an identity provider (app/sso.py and its handlers in      *)
(* app/web/routes_ui.py): the browser is sent away with a signed cookie,   *)
(* comes back with a code, and the code is exchanged for an ID token that  *)
(* is checked with the keys the provider publishes.  What the provider     *)
(* says of itself and its keys is kept in memory.  A callback runs in a    *)
(* thread of its own and asks the provider between its steps, while the    *)
(* provider rotates its keys, moves its endpoints or is out of reach, the  *)
(* settings change and the process restarts.                               *)
(*                                                                         *)
(* A sign-in that was begun stands for its state, nonce, verifier and      *)
(* code: all of them are drawn at random for it.  Which account a person   *)
(* gets is in Accounts, the session in Sessions.                           *)
(***************************************************************************)
EXTENDS Integers, Sequences, FiniteSets

CONSTANTS
  Browsers,
  People,          \* at the providers: the subjects of their tokens
  Issuers,
  StateMaxAge,     \* STATE_MAX_AGE
  CacheSeconds,    \* CACHE_SECONDS
  MaxSignIns,      \* bound on the sign-ins begun
  MaxChanges,      \* bound on what changes at the providers, in the settings, and on restarts
  LastSecond       \* bound on the clock

\* Who has not been signed in, and claims about nobody
Nobody == ""

ASSUME SingleSignOnConstants ==
  /\ {StateMaxAge, CacheSeconds} \subseteq Nat \ {0}
  /\ {MaxSignIns, MaxChanges, LastSecond} \subseteq Nat
  /\ Nobody \notin People /\ Issuers # {}

VARIABLES
  second,      \* the clock
  setting,     \* [issuer, enabled]: sso_issuer and sso_enabled
  provider,    \* provider[i]: the times its keys came into use, where it is, whether it answers
  known,       \* _providers: where an issuer was, and when that was read
  certificates,\* _keys: the key at a place of an issuer, and when it was read
  begun,       \* the sign-ins begun: [browser, issuer, place, at, person, used]
  cookie,      \* cookie[b]: the sign-in in the cookie etd_sso, 0 without it
  callback,    \* callback[b]: the local variables of sso_callback
  signedIn,    \* the sessions created (history)
  turnedAway,  \* the tokens refused for their key (history)
  changes

ssoVars == <<second, setting, provider, known, certificates, begun, cookie, callback, signedIn,
             turnedAway, changes>>

process == <<setting, provider, changes>>
browsing == <<begun, cookie, callback, signedIn, turnedAway>>

Places == 1..(MaxChanges + 1)
Unread == [at |-> -CacheSeconds, value |-> 0]
NoCallback == [step |-> "none", code |-> 0, saved |-> 0, issuer |-> "none", key |-> 0, timely |-> TRUE]

SsoInit ==
  /\ second = 0 /\ changes = 0
  /\ setting = [issuer |-> CHOOSE i \in Issuers : TRUE, enabled |-> TRUE]
  /\ provider = [i \in Issuers |-> [keys |-> <<0>>, place |-> 1, up |-> TRUE]]
  /\ known = [i \in Issuers |-> Unread]
  /\ certificates = [x \in Issuers \X Places |-> Unread]
  /\ begun = <<>>
  /\ cookie = [b \in Browsers |-> 0]
  /\ callback = [b \in Browsers |-> NoCallback]
  /\ signedIn = {} /\ turnedAway = {}

-----------------------------------------------------------------------------
(* What is kept in memory.  An entry without a value stands for SsoError.  *)

Recent(entry) == second - entry.at < CacheSeconds

\* discover
Discover(i, fresh) ==
  IF Recent(known[i]) /\ ~fresh THEN known[i]
  ELSE [at |-> second, value |-> IF provider[i].up THEN provider[i].place ELSE 0]

CurrentKey(i) == Len(provider[i].keys)

\* _jwks
Jwks(i, place, fresh) ==
  IF Recent(certificates[<<i, place>>]) /\ ~fresh THEN certificates[<<i, place>>]
  ELSE [at |-> second,
        value |-> IF provider[i].up /\ provider[i].place = place THEN CurrentKey(i) ELSE 0]

\* Mutant: the kept keys only
SigningKeyKept(i, place, key) == Jwks(i, place, FALSE)

\* _signing_key: a key that is not among the kept ones is looked for once more
SigningKey(i, place, key) ==
  LET kept == Jwks(i, place, FALSE)
  IN IF kept.value \in {key, 0} THEN kept ELSE Jwks(i, place, TRUE)

Stored(entry, found) == IF found.value = 0 THEN entry ELSE found

KeepProvider(i, found) == known' = [known EXCEPT ![i] = Stored(@, found)]

KeepKeys(i, place, found) ==
  certificates' = [certificates EXCEPT ![<<i, place>>] = Stored(@, found)]

-----------------------------------------------------------------------------

\* sso_start: _sso_failed takes the cookie away
SsoStart(b) ==
  LET i == setting.issuer
      found == Discover(i, FALSE)
  IN  /\ setting.enabled /\ Len(begun) < MaxSignIns
      /\ KeepProvider(i, found)
      /\ IF found.value = 0 THEN cookie' = [cookie EXCEPT ![b] = 0] /\ UNCHANGED begun
         ELSE /\ begun' = Append(begun, [browser |-> b, issuer |-> i, place |-> found.value,
                                         at |-> second, person |-> Nobody, used |-> FALSE])
              /\ cookie' = [cookie EXCEPT ![b] = Len(begun')]
      /\ UNCHANGED <<second, process, certificates, callback, signedIn, turnedAway>>

\* The provider signs a person in and sends the browser back
Confirm(n, p) ==
  /\ n \in DOMAIN begun /\ begun[n].person = Nobody
  /\ provider[begun[n].issuer].up /\ provider[begun[n].issuer].place = begun[n].place
  /\ begun' = [begun EXCEPT ![n].person = p]
  /\ UNCHANGED <<second, process, known, certificates, cookie, callback, signedIn, turnedAway>>

Failed(b) ==
  /\ callback' = [callback EXCEPT ![b] = NoCallback]
  /\ cookie' = [cookie EXCEPT ![b] = 0]

\* The provider did not sign anybody in: sso_callback with an error looks at
\* nothing else
SsoRefused(b) ==
  /\ callback[b].step = "none" /\ cookie[b] # 0
  /\ Failed(b)
  /\ UNCHANGED <<second, process, known, certificates, begun, signedIn, turnedAway>>

\* read_state
ReadState(b) == cookie[b] # 0 /\ second - begun[cookie[b]].at <= StateMaxAge

\* sso_callback: the answer of a sign-in is opened in a browser, again or in
\* another one too; the settings are read once
SsoReturns(b, n) ==
  /\ callback[b].step = "none" /\ n \in DOMAIN begun /\ begun[n].person # Nobody
  /\ IF setting.enabled /\ ReadState(b) /\ cookie[b] = n
     THEN /\ callback' = [callback EXCEPT ![b] = [NoCallback EXCEPT
               !.step = "exchange", !.code = n, !.saved = cookie[b], !.issuer = setting.issuer]]
          /\ UNCHANGED cookie
     ELSE Failed(b)
  /\ UNCHANGED <<second, process, known, certificates, begun, signedIn, turnedAway>>

\* exchange: the provider takes a code once, from where it sent it, with the
\* verifier of the sign-in it was given for
Exchange(b) ==
  LET c == callback[b]
      found == Discover(c.issuer, FALSE)
      there == provider[c.issuer].up /\ provider[c.issuer].place = found.value
      taken == there /\ begun[c.code].issuer = c.issuer /\ c.saved = c.code /\ ~begun[c.code].used
  IN  /\ c.step = "exchange"
      /\ KeepProvider(c.issuer, found)
      /\ begun' = [begun EXCEPT ![c.code].used = @ \/ taken]
      /\ IF ~taken THEN Failed(b)
         ELSE /\ callback' = [callback EXCEPT ![b].step = "verify", ![b].key = CurrentKey(c.issuer)]
              /\ UNCHANGED cookie
      /\ UNCHANGED <<second, process, certificates, signedIn, turnedAway>>

\* A key that is the provider's, or was less than CACHE_SECONDS ago
Timely(i, key) ==
  key = CurrentKey(i) \/ second - provider[i].keys[key + 1] < CacheSeconds

\* verify_id_token: the key, then the nonce
VerifyIdToken(b) ==
  LET c == callback[b]
      found == Discover(c.issuer, FALSE)
      keys == SigningKey(c.issuer, found.value, c.key)
  IN  /\ c.step = "verify"
      /\ KeepProvider(c.issuer, found)
      /\ IF found.value = 0 THEN Failed(b) /\ UNCHANGED <<certificates, turnedAway>>
         ELSE /\ KeepKeys(c.issuer, found.value, keys)
              /\ IF keys.value = c.key /\ c.code = c.saved
                 THEN /\ callback' = [callback EXCEPT ![b].step = "sign in",
                                                      ![b].timely = Timely(c.issuer, c.key)]
                      /\ UNCHANGED <<cookie, turnedAway>>
                 ELSE /\ Failed(b)
                      /\ turnedAway' = turnedAway \union
                           {[current |-> c.key = CurrentKey(c.issuer), up |-> provider[c.issuer].up,
                             moved |-> found.value # provider[c.issuer].place]}
      /\ UNCHANGED <<second, process, begun, signedIn>>

\* userinfo: claims beside those of the token, when they are about its subject
Claims(subject, about) == IF about = subject THEN about ELSE Nobody

\* The rest of sso_callback; the endpoint that is not there gives no claims
SsoSignedIn(b, about) ==
  LET c == callback[b]
      found == Discover(c.issuer, FALSE)
      subject == begun[c.code].person
  IN  /\ c.step = "sign in"
      /\ about # Nobody => provider[c.issuer].up /\ found.value = provider[c.issuer].place
      /\ KeepProvider(c.issuer, found)
      /\ Failed(b)
      /\ signedIn' = IF found.value = 0 THEN signedIn
                     ELSE signedIn \union {[browser |-> b, number |-> c.code, subject |-> subject,
                                            claims |-> Claims(subject, about), timely |-> c.timely]}
      /\ UNCHANGED <<second, process, certificates, begun, turnedAway>>

-----------------------------------------------------------------------------

Changes == changes < MaxChanges /\ changes' = changes + 1

\* sso.check, when single sign-on is on: both are read anew
Checked(s) ==
  LET found == Discover(s.issuer, TRUE)
  IN IF ~s.enabled THEN UNCHANGED <<known, certificates>>
     ELSE /\ KeepProvider(s.issuer, found)
          /\ IF found.value = 0 THEN UNCHANGED certificates
             ELSE KeepKeys(s.issuer, found.value, Jwks(s.issuer, found.value, TRUE))

\* sso_save
SsoSave(s) ==
  /\ Changes /\ setting' = s /\ s # setting
  /\ Checked(s)
  /\ UNCHANGED <<second, provider, browsing>>

\* sso_check
SsoCheck ==
  /\ Changes
  /\ Checked([setting EXCEPT !.enabled = TRUE])
  /\ UNCHANGED <<second, setting, provider, browsing>>

\* What providers do
ProviderChange(i) ==
  /\ Changes
  /\ \/ provider' = [provider EXCEPT ![i].keys = Append(@, second)]
     \/ provider' = [provider EXCEPT ![i].place = @ + 1]
     \/ provider' = [provider EXCEPT ![i].up = ~@]
  /\ UNCHANGED <<second, setting, known, certificates, browsing>>

\* The process is started again: memory is empty, callbacks are gone
SsoRestart ==
  /\ Changes
  /\ known' = [i \in Issuers |-> Unread]
  /\ certificates' = [x \in Issuers \X Places |-> Unread]
  /\ callback' = [b \in Browsers |-> NoCallback]
  /\ UNCHANGED <<second, setting, provider, begun, cookie, signedIn, turnedAway>>

SsoTick ==
  /\ second < LastSecond /\ second' = second + 1
  /\ UNCHANGED <<process, known, certificates, browsing>>

SsoNext ==
  \/ \E b \in Browsers :
       \/ SsoStart(b) \/ SsoRefused(b) \/ Exchange(b) \/ VerifyIdToken(b)
       \/ \E n \in DOMAIN begun : SsoReturns(b, n)
       \/ \E about \in People \union {Nobody} : SsoSignedIn(b, about)
  \/ \E n \in DOMAIN begun, p \in People : Confirm(n, p)
  \/ \E s \in [issuer : Issuers, enabled : BOOLEAN] : SsoSave(s)
  \/ SsoCheck \/ SsoRestart \/ SsoTick
  \/ \E i \in Issuers : ProviderChange(i)

-----------------------------------------------------------------------------

\* Whoever is signed in is the one the provider signed in, in the browser that
\* was sent there, with claims about nobody else; their token's key was the
\* provider's less than CACHE_SECONDS ago.  And nobody is turned away for a key
\* the provider publishes where it was last found, as long as it answers
\* (read_state, _signing_key, userinfo).
SignInsAreConfirmed ==
  /\ \A s \in signedIn :
       /\ begun[s.number].browser = s.browser /\ begun[s.number].person = s.subject
       /\ s.claims \in {Nobody, s.subject}
       /\ s.timely
  /\ \A t \in turnedAway : t.current /\ t.up => t.moved
=============================================================================
