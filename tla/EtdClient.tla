----------------------------- MODULE EtdClient -----------------------------
(***************************************************************************)
(* The client of ETD's API (app/etd/client.py): the collectors of a tenant *)
(* run in threads of their own, each with a client of its own, and share   *)
(* one rate limiter.  A thread fetches the pages of a search, window by    *)
(* window; every request passes the limiter, tokens are renewed, and       *)
(* refused requests are tried again.                                       *)
(*                                                                         *)
(* Time is relative: ahead and delay count the ticks to come, Interval is  *)
(* the number of ticks between two requests.  ETD's answers are external.  *)
(***************************************************************************)
EXTENDS Integers, Sequences, FiniteSets

CONSTANTS
  Threads,
  Interval,    \* ticks of 1 / RATE_LIMIT_PER_SECOND
  MaxRetries,
  Pages,       \* Pages[w]: the pages ETD has for window w of the search
  Memory       \* ticks of which the requests are remembered (history)

ASSUME ClientConstants ==
  /\ Interval \in Nat \ {0} /\ MaxRetries \in Nat /\ Memory \in Nat \ {0}
  /\ Pages \in Seq(Nat \ {0}) /\ IsFiniteSet(Threads)

VARIABLES
  ahead,   \* how far _next_allowed lies ahead of the clock
  client,  \* the client of each thread, and where its call is
  pages,   \* pages[t]: what iter_pages has yielded, as <<window, page>>
  recent   \* the requests of the last ticks, as <<ticks, number>> (history)

vars == <<ahead, client, pages, recent>>

Client == [pc        : {"idle", "top", "slot", "send", "backoff", "done", "failed"},
           request   : {"post", "token"},
           forced    : BOOLEAN,  \* the token was rejected with a 401
           token     : BOOLEAN,  \* a token that has not expired
           attempt   : Nat,
           refreshed : BOOLEAN,
           delay     : Nat,      \* ticks the limiter lets it sleep
           window    : Nat,
           page      : Nat]

Fresh == [pc |-> "idle", request |-> "post", forced |-> FALSE, token |-> FALSE, attempt |-> 0,
          refreshed |-> FALSE, delay |-> 0, window |-> 1, page |-> 1]

Init ==
  /\ ahead = 0
  /\ client = [t \in Threads |-> Fresh]
  /\ pages = [t \in Threads |-> <<>>]
  /\ recent = {}

Set(t, c) == client' = [client EXCEPT ![t] = c]

Start(t) ==
  /\ client[t].pc = "idle" /\ Len(Pages) > 0
  /\ Set(t, [client[t] EXCEPT !.pc = "top"])
  /\ UNCHANGED <<ahead, pages, recent>>

\* The caller stops iterating, as the backfill does when its budget is used
Leave(t) ==
  /\ client[t].pc = "top" /\ client[t].attempt = 0
  /\ Set(t, [client[t] EXCEPT !.pc = "failed"])
  /\ UNCHANGED <<ahead, pages, recent>>

\* Mutant: spaced from now, not from the request before it
SpacedFromNow == Interval
\* RateLimiter.wait, under its lock: the next one is allowed an interval later
NextAllowed == ahead + Interval

\* Mutant: an attempt is not counted when it is repeated
LoopUncounted(c) ==
  IF c.pc = "top" THEN [c EXCEPT !.attempt = 1, !.request = IF c.token THEN "post" ELSE "token"]
  ELSE c

\* The head of _post's loop; get_token asks for a token when there is none
LoopHead(c) ==
  IF c.pc = "top" THEN [c EXCEPT !.attempt = @ + 1, !.request = IF c.token THEN "post" ELSE "token"]
  ELSE c

\* A slot is taken; the thread sleeps outside the lock until it comes
TakeSlot(t) ==
  /\ client[t].pc \in {"top", "slot"}
  /\ Set(t, [LoopHead(client[t]) EXCEPT !.pc = "send", !.delay = ahead])
  /\ ahead' = NextAllowed
  /\ UNCHANGED <<pages, recent>>

Sent(from, to) == {r \in recent : r[1] \in from..to}

Sends(t, request) ==
  /\ client[t].pc = "send" /\ client[t].request = request /\ client[t].delay = 0
  /\ recent' = recent \union {<<1, Cardinality(Sent(1, 1)) + 1>>}
  /\ UNCHANGED ahead

Fails(t) == Set(t, [client[t] EXCEPT !.pc = "failed"])

-----------------------------------------------------------------------------
(* Requests and ETD's answers *)

\* get_token: with a new token _post goes on, or starts over after a 401
TokenGiven(t) ==
  LET c == client[t] IN
  /\ Sends(t, "token")
  /\ Set(t, [c EXCEPT !.token = TRUE, !.forced = FALSE, !.request = "post",
                      !.pc = IF c.forced THEN "top" ELSE "slot"])
  /\ UNCHANGED pages

\* Refused, or no answer at all: the call is over
Refused(t) ==
  /\ Sends(t, "token") \/ Sends(t, "post")
  /\ Fails(t)
  /\ UNCHANGED pages

\* Mutant: the page token is kept for the next window
NextPageKept(c) ==
  IF c.page < Pages[c.window] THEN [c EXCEPT !.page = @ + 1] ELSE [c EXCEPT !.window = @ + 1]

\* iter_pages: the next page, or the next window without a page token
NextPage(c) ==
  IF c.page < Pages[c.window] THEN [c EXCEPT !.page = @ + 1]
  ELSE [c EXCEPT !.window = @ + 1, !.page = 1]

\* A page is yielded; the next search_page is a call of its own
Page(t) ==
  LET c == client[t]
      n == NextPage(c)
  IN
  /\ Sends(t, "post")
  /\ pages' = [pages EXCEPT ![t] = Append(@, <<c.window, c.page>>)]
  /\ Set(t, [n EXCEPT !.pc = IF n.window > Len(Pages) THEN "done" ELSE "top",
                      !.attempt = 0, !.refreshed = FALSE])

MayRefresh(c) == ~c.refreshed

Unauthorized(t) ==
  LET c == client[t] IN
  /\ Sends(t, "post")
  /\ IF MayRefresh(c)
     THEN Set(t, [c EXCEPT !.pc = "slot", !.request = "token", !.refreshed = TRUE, !.forced = TRUE])
     ELSE Fails(t)
  /\ UNCHANGED pages

MayRetry(c) == c.attempt <= MaxRetries

\* 429, 502 and 503
TryLater(t) ==
  LET c == client[t] IN
  /\ Sends(t, "post")
  /\ IF MayRetry(c) THEN Set(t, [c EXCEPT !.pc = "backoff"]) ELSE Fails(t)
  /\ UNCHANGED pages

\* The sleep of Retry-After or 2^attempt seconds is over
Wake(t) ==
  /\ client[t].pc = "backoff"
  /\ Set(t, [client[t] EXCEPT !.pc = "top"])
  /\ UNCHANGED <<ahead, pages, recent>>

\* Two minutes before its hour is over
Expire(t) ==
  /\ client[t].token /\ client[t].pc \in {"top", "backoff"}
  /\ Set(t, [client[t] EXCEPT !.token = FALSE])
  /\ UNCHANGED <<ahead, pages, recent>>

Sooner(n) == IF n = 0 THEN 0 ELSE n - 1

Tick ==
  /\ ahead' = Sooner(ahead)
  /\ client' = [t \in Threads |-> [client[t] EXCEPT !.delay = Sooner(@)]]
  /\ recent' = {<<r[1] + 1, r[2]>> : r \in Sent(1, Memory - 1)}
  /\ UNCHANGED pages

Answer(t) == TokenGiven(t) \/ Page(t) \/ Unauthorized(t) \/ TryLater(t) \/ Refused(t)
Step(t) == Start(t) \/ Leave(t) \/ TakeSlot(t) \/ Answer(t) \/ Wake(t)

Next == Tick \/ \E t \in Threads : Step(t) \/ Expire(t)

\* A thread runs on when it can, time passes, and every request is answered,
\* if only by the client's timeout.  Nobody needs to start or leave.
FairSpec ==
  /\ Init /\ [][Next]_vars
  /\ WF_vars(Tick)
  /\ \A t \in Threads : WF_vars(TakeSlot(t) \/ Answer(t) \/ Wake(t))

-----------------------------------------------------------------------------
(* What the collectors rely on *)

Ended == {"done", "failed"}

\* client.py:60: the threads of a tenant together keep its rate.  In any span of
\* time there are at most as many requests as it has slots, and one for each
\* thread that was held up after its own.
RateIsKept ==
  \A from, to \in 1..Memory : from <= to =>
    Cardinality(Sent(from, to)) <= (to - from) \div Interval + 1 + Cardinality(Threads)

SearchPages == UNION {{w} \X (1..Pages[w]) : w \in 1..Len(Pages)}
Earlier(q, r) == q[1] < r[1] \/ (q[1] = r[1] /\ q[2] < r[2])

\* The pages arrive in order, none skipped and none twice, across windows, new
\* tokens and repeated requests, and a search that comes to its end has all of
\* them (client.py:314-352).
PagesInOrder ==
  \A t \in Threads :
    LET got == {pages[t][i] : i \in DOMAIN pages[t]} IN
    /\ got \subseteq SearchPages
    /\ \A i, j \in DOMAIN pages[t] : i < j => Earlier(pages[t][i], pages[t][j])
    /\ \A q \in SearchPages : client[t].pc = "done" \/ (\E r \in got : Earlier(q, r)) => q \in got

\* Whatever ETD answers, every search comes to its end: nobody waits at the
\* limiter for ever, and no call is repeated without end.
EverySearchEnds == \A t \in Threads : client[t].pc # "idle" ~> client[t].pc \in Ended
=============================================================================
