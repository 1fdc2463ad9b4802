-------------------------- MODULE EtdClientProofs --------------------------
(***************************************************************************)
(* The client of ETD, for any number of threads, any interval, search and  *)
(* memory: the rate of a tenant is kept by its threads together, and every *)
(* search gets its pages in order.                                         *)
(***************************************************************************)
EXTENDS EtdClient, FiniteSetTheorems, TLAPS

-----------------------------------------------------------------------------
(* Types *)

ClientTypeOK ==
  /\ ahead \in Nat
  /\ client \in [Threads -> Client]
  /\ pages \in [Threads -> Seq(SearchPages)]
  /\ recent \subseteq Nat \X Nat /\ IsFiniteSet(recent)

\* The page a client asks for: in the search, or behind its end
PlaceOK(c) ==
  /\ c.window \in 1..(Len(Pages) + 1) /\ c.page \in Nat \ {0}
  /\ c.window <= Len(Pages) => c.page <= Pages[c.window]
  /\ c.pc \notin {"idle", "done", "failed"} => c.window <= Len(Pages)
  /\ c.pc = "idle" => c.window = 1
  /\ c.pc = "done" => c.window = Len(Pages) + 1

\* The pages s are those before at, in their order
Reached(s, at) ==
  /\ \A i \in DOMAIN s : Earlier(s[i], at)
  /\ \A i, j \in DOMAIN s : i < j => Earlier(s[i], s[j])
  /\ \A q \in SearchPages : Earlier(q, at) => \E i \in DOMAIN s : s[i] = q

At(c) == <<c.window, c.page>>

\* What is answered without a page
Answered(t) == TokenGiven(t) \/ Unauthorized(t) \/ TryLater(t) \/ Refused(t)

Searching == ClientTypeOK /\ \A t \in Threads : PlaceOK(client[t]) /\ Reached(pages[t], At(client[t]))

LEMMA ClientFacts ==
  /\ Interval \in Nat /\ Interval >= 1 /\ Memory \in Nat /\ Memory >= 1
  /\ Len(Pages) \in Nat /\ \A w \in 1..Len(Pages) : Pages[w] \in Nat /\ Pages[w] >= 1
  /\ IsFiniteSet(Threads)
  BY ClientConstants DEF ClientConstants

LEMMA PageFacts ==
  \A q : q \in SearchPages <=> \E w \in 1..Len(Pages) : \E p \in 1..Pages[w] : q = <<w, p>>
  BY DEF SearchPages

LEMMA SearchingInit == Init => Searching
<1> SUFFICES ASSUME Init PROVE Searching
  OBVIOUS
<1>1. Fresh \in Client /\ Fresh.window = 1 /\ Fresh.page = 1 /\ Fresh.pc = "idle"
  BY DEF Fresh, Client
<1>2. ClientTypeOK
  BY <1>1, FS_EmptySet DEF Init, ClientTypeOK
<1>3. PlaceOK(Fresh)
  BY <1>1, ClientFacts DEF PlaceOK
<1>4. Reached(<<>>, <<1, 1>>)
  <2>1. \A q \in SearchPages : ~Earlier(q, <<1, 1>>)
    BY PageFacts, ClientFacts DEF Earlier
  <2> QED
    BY <2>1 DEF Reached
<1> QED
  BY <1>1, <1>2, <1>3, <1>4 DEF Init, Searching, At

\* A step that yields no page and asks for the same one
LEMMA SamePage ==
  ASSUME Searching, NEW t \in Threads, NEW c \in Client, client' = [client EXCEPT ![t] = c],
         c.window = client[t].window, c.page = client[t].page, c.pc \notin {"idle", "done"},
         client[t].pc \notin {"done", "failed"}, client[t].pc = "idle" => Len(Pages) > 0,
         pages' = pages, ahead' \in Nat, recent' \subseteq Nat \X Nat, IsFiniteSet(recent')
  PROVE  Searching'
<1>1. ClientTypeOK'
  BY DEF Searching, ClientTypeOK
<1>2. ASSUME NEW u \in Threads PROVE PlaceOK(client[u])' /\ Reached(pages[u], At(client[u]))'
  <2>1. CASE u # t
    BY <1>2, <2>1 DEF Searching, ClientTypeOK, PlaceOK, Reached, At
  <2>2. CASE u = t
    <3>1. client'[t] = c
      BY DEF Searching, ClientTypeOK
    <3>2. PlaceOK(client[t]) /\ Reached(pages[t], At(client[t]))
      BY DEF Searching
    <3> QED
      BY <2>2, <3>1, <3>2 DEF PlaceOK, Reached, At
  <2> QED
    BY <2>1, <2>2
<1> QED
  BY <1>1, <1>2 DEF Searching

\* LoopHead changes the attempt and what is asked for only
LEMMA HeadFacts ==
  ASSUME NEW c \in Client, NEW d \in Nat
  PROVE  LET n == [LoopHead(c) EXCEPT !.pc = "send", !.delay = d]
         IN  n \in Client /\ n.window = c.window /\ n.page = c.page /\ n.pc = "send" /\ n.delay = d
<1>1. c.attempt \in Nat /\ c.attempt + 1 \in Nat
  BY DEF Client
<1>2. LoopHead(c) \in Client /\ LoopHead(c).window = c.window /\ LoopHead(c).page = c.page
  <2>1. CASE c.pc = "top"
    <3>1. PICK request \in {"post", "token"} : request = IF c.token THEN "post" ELSE "token"
      OBVIOUS
    <3>2. LoopHead(c) = [c EXCEPT !.attempt = c.attempt + 1, !.request = request]
      BY <2>1, <3>1 DEF LoopHead
    <3> QED
      BY <1>1, <3>2 DEF Client
  <2>2. CASE c.pc # "top"
    BY <2>2 DEF LoopHead
  <2> QED
    BY <2>1, <2>2
<1>3. PICK h \in Client : h = LoopHead(c)
  BY <1>2
<1> QED
  BY <1>2, <1>3 DEF Client

\* The requests remembered stay finitely many
LEMMA SentTypes ==
  ASSUME ClientTypeOK, \E t \in Threads, request \in {"post", "token"} : Sends(t, request)
  PROVE  /\ ahead' \in Nat /\ recent' \subseteq Nat \X Nat /\ IsFiniteSet(recent')
<1>1. IsFiniteSet(Sent(1, 1))
  BY FS_Subset DEF ClientTypeOK, Sent
<1>2. Cardinality(Sent(1, 1)) \in Nat
  BY <1>1, FS_CardinalityType
<1>3. PICK x : x = <<1, Cardinality(Sent(1, 1)) + 1>>
  OBVIOUS
<1>4. recent' = recent \union {x} /\ ahead' = ahead
  BY <1>3 DEF Sends
<1>5. IsFiniteSet(recent \union {x})
  BY FS_AddElement DEF ClientTypeOK
<1>6. x \in Nat \X Nat
  BY <1>2, <1>3
<1> QED
  BY <1>4, <1>5, <1>6 DEF ClientTypeOK

LEMMA TickTypes ==
  ASSUME ClientTypeOK, Tick
  PROVE  ahead' \in Nat /\ recent' \subseteq Nat \X Nat /\ IsFiniteSet(recent')
<1>1. IsFiniteSet(Sent(1, Memory - 1)) /\ Sent(1, Memory - 1) \subseteq Nat \X Nat
  BY FS_Subset DEF ClientTypeOK, Sent
<1>2. IsFiniteSet(recent')
  <2> DEFINE f == [r \in Sent(1, Memory - 1) |-> <<r[1] + 1, r[2]>>]
  <2>1. f \in Surjection(Sent(1, Memory - 1), recent')
    BY DEF Tick, Surjection
  <2> QED
    BY <1>1, <2>1, FS_Surjection
<1> QED
  BY <1>1, <1>2 DEF Tick, ClientTypeOK, Sooner

LEMMA SearchingTick == Searching /\ Tick => Searching'
<1> SUFFICES ASSUME Searching, Tick PROVE Searching'
  OBVIOUS
<1>1. \A t \in Threads : client[t] \in Client
  BY DEF Searching, ClientTypeOK
<1>2. \A t \in Threads : /\ client'[t] \in Client /\ client'[t].window = client[t].window
                         /\ client'[t].page = client[t].page /\ client'[t].pc = client[t].pc
  BY <1>1 DEF Tick, Sooner, Client
<1>3. pages' = pages /\ client' = [t \in Threads |-> client'[t]]
  BY DEF Tick
<1>4. ClientTypeOK'
  BY <1>2, <1>3, TickTypes DEF Searching, ClientTypeOK
<1>5. \A t \in Threads : PlaceOK(client[t])' /\ Reached(pages[t], At(client[t]))'
  BY <1>2, <1>3 DEF Searching, PlaceOK, Reached, At
<1> QED
  BY <1>4, <1>5 DEF Searching

LEMMA NextFacts ==
  ASSUME NEW c \in Client
  PROVE  LET n == NextPage(c)
         IN  /\ n \in Client
             /\ n.window = IF c.page < Pages[c.window] THEN c.window ELSE c.window + 1
             /\ n.page = IF c.page < Pages[c.window] THEN c.page + 1 ELSE 1
<1>1. PICK p \in Nat, w \in Nat : p = c.page + 1 /\ w = c.window + 1
  BY DEF Client
<1>2. NextPage(c) = IF c.page < Pages[c.window] THEN [c EXCEPT !.page = p]
                    ELSE [c EXCEPT !.window = w, !.page = 1]
  BY <1>1 DEF NextPage
<1>3. CASE c.page < Pages[c.window]
  BY <1>1, <1>2, <1>3 DEF Client
<1>4. CASE ~(c.page < Pages[c.window])
  <2>1. PICK n : n = [c EXCEPT !.window = w, !.page = 1]
    OBVIOUS
  <2>2. n \in Client /\ n.window = w /\ n.page = 1
    BY <2>1 DEF Client
  <2> QED
    BY <1>1, <1>2, <1>4, <2>1, <2>2
<1> QED
  BY <1>3, <1>4

\* A page is yielded that comes after all before it, and the next one is the first
\* after it
LEMMA SearchingPage ==
  ASSUME Searching, NEW t \in Threads, Page(t)
  PROVE  Searching'
<1> DEFINE c == client[t]
           n == NextPage(c)
           s == pages[t]
           e == [n EXCEPT !.pc = IF n.window > Len(Pages) THEN "done" ELSE "top", !.attempt = 0, !.refreshed = FALSE]
<1>1. c \in Client /\ PlaceOK(c) /\ Reached(s, At(c)) /\ s \in Seq(SearchPages)
  BY DEF Searching, ClientTypeOK
<1>2. c.window \in 1..Len(Pages) /\ c.page \in 1..Pages[c.window]
  BY <1>1, ClientFacts DEF Page, Sends, PlaceOK, Client
<1>4. /\ n \in Client
      /\ n.window = IF c.page < Pages[c.window] THEN c.window ELSE c.window + 1
      /\ n.page = IF c.page < Pages[c.window] THEN c.page + 1 ELSE 1
  BY <1>1, NextFacts
<1>5. e \in Client /\ e.window = n.window /\ e.page = n.page /\ e.pc = IF n.window > Len(Pages) THEN "done" ELSE "top"
  <2>1. PICK pc \in {"done", "top"} : pc = IF n.window > Len(Pages) THEN "done" ELSE "top"
    OBVIOUS
  <2>2. e = [n EXCEPT !.pc = pc, !.attempt = 0, !.refreshed = FALSE]
    BY <2>1
  <2> QED
    BY <1>4, <2>1, <2>2 DEF Client
<1>6. PlaceOK(e)
  <2> HIDE DEF c, n, e
  <2> QED
    BY <1>2, <1>4, <1>5, ClientFacts DEF PlaceOK
<1>7. client' = [client EXCEPT ![t] = e] /\ pages' = [pages EXCEPT ![t] = Append(s, At(c))]
  BY DEF Page, Set, At
<1>8. At(c) \in SearchPages
  BY <1>2, PageFacts DEF At
<1>9. Reached(Append(s, At(c)), At(e))
  <2>1. PICK b : b = Append(s, At(c))
    OBVIOUS
  <2>2. /\ Len(s) \in Nat /\ b \in Seq(SearchPages) /\ Len(b) = Len(s) + 1 /\ b[Len(s) + 1] = At(c)
        /\ \A i \in 1..Len(s) : b[i] = s[i]
    BY <1>1, <1>8, <2>1
  <2>3. \A q \in SearchPages : Earlier(q, At(e)) <=> Earlier(q, At(c)) \/ q = At(c)
    <3> SUFFICES ASSUME NEW w \in 1..Len(Pages), NEW p \in 1..Pages[w]
                 PROVE  Earlier(<<w, p>>, At(e)) <=> Earlier(<<w, p>>, At(c)) \/ <<w, p>> = At(c)
      BY PageFacts
    <3>1. CASE c.page < Pages[c.window]
      BY <1>2, <1>4, <1>5, <3>1, ClientFacts DEF Earlier, At
    <3>2. CASE ~(c.page < Pages[c.window])
      BY <1>2, <1>4, <1>5, <3>2, ClientFacts DEF Earlier, At
    <3> QED
      BY <3>1, <3>2
  <2>4. \A i \in 1..(Len(s) + 1) : b[i] \in SearchPages /\ (i # Len(s) + 1 => i \in 1..Len(s))
    BY <2>2
  <2>5. \A i \in DOMAIN b : Earlier(b[i], At(e))
    BY <1>1, <2>2, <2>3, <2>4 DEF Reached
  <2>6. ASSUME NEW i \in DOMAIN b, NEW j \in DOMAIN b, i < j PROVE Earlier(b[i], b[j])
    BY <1>1, <2>2, <2>4, <2>6 DEF Reached
  <2>7. ASSUME NEW q \in SearchPages, Earlier(q, At(e)) PROVE \E i \in DOMAIN b : b[i] = q
    BY <1>1, <2>2, <2>3, <2>7 DEF Reached
  <2> QED
    BY <2>1, <2>5, <2>6, <2>7 DEF Reached
<1>10. ClientTypeOK'
  <2>1. Sends(t, "post")
    BY DEF Page
  <2>2. ahead' \in Nat /\ recent' \subseteq Nat \X Nat /\ IsFiniteSet(recent')
    BY <2>1, SentTypes DEF Searching
  <2> QED
    BY <1>1, <1>5, <1>7, <1>8, <2>2 DEF Searching, ClientTypeOK
<1>11. ASSUME NEW u \in Threads PROVE PlaceOK(client[u])' /\ Reached(pages[u], At(client[u]))'
  <2>1. CASE u # t
    BY <1>7, <2>1 DEF Searching, ClientTypeOK, PlaceOK, Reached, At
  <2>2. CASE u = t
    <3>1. client'[t] = e /\ pages'[t] = Append(s, At(c))
      BY <1>7 DEF Searching, ClientTypeOK
    <3> QED
      BY <1>6, <1>9, <2>2, <3>1 DEF PlaceOK, Reached, At
  <2> QED
    BY <2>1, <2>2
<1> QED
  BY <1>10, <1>11 DEF Searching

LEMMA SearchingStep == Searching /\ [Next]_vars => Searching'
<1> SUFFICES ASSUME Searching, [Next]_vars PROVE Searching'
  OBVIOUS
<1>1. \A t \in Threads : client[t] \in Client
  BY DEF Searching, ClientTypeOK
<1>2. ahead \in Nat /\ recent \subseteq Nat \X Nat /\ IsFiniteSet(recent)
  BY DEF Searching, ClientTypeOK
<1>3. CASE UNCHANGED vars
  BY <1>3 DEF vars, Searching, ClientTypeOK, PlaceOK, Reached, At
<1>4. CASE Tick
  BY <1>4, SearchingTick
<1>5. ASSUME NEW t \in Threads, Start(t) \/ Leave(t) \/ Wake(t) \/ Expire(t) PROVE Searching'
  <2>1. PICK c \in Client : /\ client' = [client EXCEPT ![t] = c] /\ c.window = client[t].window
                            /\ c.page = client[t].page /\ c.pc \notin {"idle", "done"}
                            /\ client[t].pc \notin {"done", "failed"}
                            /\ (client[t].pc = "idle" => Len(Pages) > 0)
    <3>1. CASE Start(t)
      BY <1>1, <3>1 DEF Start, Set, Client
    <3>2. CASE Leave(t)
      BY <1>1, <3>2 DEF Leave, Set, Client
    <3>3. CASE Wake(t)
      BY <1>1, <3>3 DEF Wake, Set, Client
    <3>4. CASE Expire(t)
      BY <1>1, <3>4 DEF Expire, Set, Client
    <3> QED
      BY <1>5, <3>1, <3>2, <3>3, <3>4
  <2>2. pages' = pages /\ ahead' = ahead /\ recent' = recent
    BY <1>5 DEF Start, Leave, Wake, Expire
  <2> QED
    BY <1>2, <2>1, <2>2, SamePage
<1>6. ASSUME NEW t \in Threads, TakeSlot(t) PROVE Searching'
  <2>1. PICK c : c = [LoopHead(client[t]) EXCEPT !.pc = "send", !.delay = ahead]
    OBVIOUS
  <2>2. c \in Client /\ c.window = client[t].window /\ c.page = client[t].page /\ c.pc = "send"
    BY <1>1, <1>2, <2>1, HeadFacts
  <2>3. /\ client' = [client EXCEPT ![t] = c] /\ pages' = pages /\ recent' = recent /\ ahead' = ahead + Interval
        /\ client[t].pc \in {"top", "slot"}
    BY <1>6, <2>1 DEF TakeSlot, Set, NextAllowed
  <2>4. ahead' \in Nat
    BY <1>2, <2>3, ClientFacts
  <2> QED
    BY <1>2, <2>2, <2>3, <2>4, SamePage
<1>7. ASSUME NEW t \in Threads, Answered(t) PROVE Searching'
  <2>1. PICK c \in Client : /\ client' = [client EXCEPT ![t] = c] /\ c.window = client[t].window
                            /\ c.page = client[t].page /\ c.pc \notin {"idle", "done"}
                            /\ client[t].pc = "send"
    <3>1. CASE TokenGiven(t)
      BY <1>1, <3>1 DEF TokenGiven, Sends, Set, Client
    <3>2. CASE Unauthorized(t)
      BY <1>1, <3>2 DEF Unauthorized, Sends, Set, Fails, Client
    <3>3. CASE TryLater(t)
      BY <1>1, <3>3 DEF TryLater, Sends, Set, Fails, Client
    <3>4. CASE Refused(t)
      BY <1>1, <3>4 DEF Refused, Sends, Set, Fails, Client
    <3> QED
      BY <1>7, <3>1, <3>2, <3>3, <3>4 DEF Answered
  <2>2. pages' = pages /\ (Sends(t, "post") \/ Sends(t, "token"))
    BY <1>7 DEF Answered, TokenGiven, Unauthorized, TryLater, Refused
  <2>3. ahead' \in Nat /\ recent' \subseteq Nat \X Nat /\ IsFiniteSet(recent')
    BY <2>2, SentTypes DEF Searching
  <2> QED
    BY <2>1, <2>2, <2>3, SamePage
<1> QED
  BY <1>3, <1>4, <1>5, <1>6, <1>7, SearchingPage DEF Next, Step, Answer, Answered

THEOREM ClientsAreTyped == Init /\ [][Next]_vars => []Searching
  BY SearchingInit, SearchingStep, PTL

\* The pages of every search arrive in order, none skipped and none twice, and a
\* search that ends has all of them (client.py iter_pages, _post).
THEOREM PagesArriveInOrder == FairSpec => []PagesInOrder
<1>1. Searching => PagesInOrder
  <2> SUFFICES ASSUME Searching, NEW t \in Threads
               PROVE  LET got == {pages[t][i] : i \in DOMAIN pages[t]} IN
                      /\ got \subseteq SearchPages
                      /\ \A i, j \in DOMAIN pages[t] : i < j => Earlier(pages[t][i], pages[t][j])
                      /\ \A q \in SearchPages :
                           client[t].pc = "done" \/ (\E r \in got : Earlier(q, r)) => q \in got
    BY DEF PagesInOrder
  <2> DEFINE c == client[t]
             s == pages[t]
  <2>1. s \in Seq(SearchPages) /\ c \in Client /\ PlaceOK(c) /\ Reached(s, At(c))
    BY DEF Searching, ClientTypeOK
  <2>2. \A i \in DOMAIN s : s[i] \in SearchPages
    BY <2>1
  <2>3. ASSUME NEW q \in SearchPages, c.pc = "done" PROVE Earlier(q, At(c))
    BY <2>1, <2>3, PageFacts, ClientFacts DEF PlaceOK, Earlier, At
  <2>4. ASSUME NEW q \in SearchPages, NEW i \in DOMAIN s, Earlier(q, s[i]) PROVE Earlier(q, At(c))
    <3>1. s[i] \in SearchPages /\ Earlier(s[i], At(c))
      BY <2>1, <2>2 DEF Reached
    <3>2. c.window \in Nat /\ c.page \in Nat
      BY <2>1 DEF Client
    <3> QED
      BY <2>4, <3>1, <3>2, PageFacts, ClientFacts DEF Earlier, At
  <2> QED
    BY <2>1, <2>2, <2>3, <2>4 DEF Reached
<1> QED
  BY <1>1, ClientsAreTyped, PTL DEF FairSpec

-----------------------------------------------------------------------------
(* The rate.  Slots lie an interval apart, and a thread has one at a time,   *)
(* so what was sent in the last ticks and what still waits for its slot are  *)
(* together no more than the slots up to ahead, and one for each thread; and *)
(* every slot to come has a thread that waits for it.                        *)

Waiting == {t \in Threads : client[t].pc = "send"}

\* Sent up to now, and waiting
Counted ==
  \A to \in 1..Memory :
    Interval * (Cardinality(Sent(1, to)) + Cardinality(Waiting) - Cardinality(Threads)) <= to - 1 + ahead

\* The slots to come are waited for
Spaced ==
  \A j \in Nat \ {0} : ahead - j * Interval > 0 =>
    \E t \in Waiting : client[t].delay = ahead - j * Interval

\* Of the time before this tick; Counted and Spaced give the rest (KeptRate)
RateWasKept ==
  \A from, to \in 1..Memory : 2 <= from /\ from <= to =>
    Cardinality(Sent(from, to)) <= (to - from) \div Interval + 1 + Cardinality(Threads)

Kept == Searching /\ Counted /\ Spaced /\ RateWasKept

LEMMA CountFacts ==
  ASSUME ClientTypeOK
  PROVE  /\ IsFiniteSet(Waiting) /\ Cardinality(Waiting) \in Nat /\ Cardinality(Threads) \in Nat
         /\ Cardinality(Waiting) <= Cardinality(Threads)
         /\ \A from, to : IsFiniteSet(Sent(from, to)) /\ Cardinality(Sent(from, to)) \in Nat
<1>1. IsFiniteSet(Waiting) /\ Cardinality(Waiting) <= Cardinality(Threads)
  BY FS_Subset, ClientFacts DEF Waiting
<1>2. ASSUME NEW from, NEW to PROVE IsFiniteSet(Sent(from, to)) /\ Cardinality(Sent(from, to)) \in Nat
  BY FS_Subset, FS_CardinalityType DEF ClientTypeOK, Sent
<1> QED
  BY <1>1, <1>2, FS_CardinalityType, ClientFacts

LEMMA CountNext ==
  ASSUME ClientTypeOK'
  PROVE  \A from, to : IsFiniteSet(Sent(from, to)') /\ Cardinality(Sent(from, to)') \in Nat
  BY FS_Subset, FS_CardinalityType DEF ClientTypeOK, Sent

LEMMA TimesMonotone ==
  ASSUME NEW i \in Nat, NEW a \in Int, NEW b \in Int, a <= b
  PROVE  i * a <= i * b /\ i * (b + 1) = i * b + i
<1>1. i * (b - a) >= 0
  OBVIOUS
<1> QED
  BY <1>1

LEMMA DivFacts ==
  ASSUME NEW i \in Nat \ {0}, NEW n \in Nat
  PROVE  n \div i \in Nat /\ i * (n \div i) <= n /\ n < i * (n \div i) + i
<1>1. PICK q \in Int : q = n \div i
  OBVIOUS
<1>2. i * q <= n /\ n < i * q + i
  BY <1>1
<1>3. q < 0 => i * (q + 1) <= i * 0
  BY <1>1, TimesMonotone
<1>4. i * (q + 1) = i * q + i
  BY <1>1
<1> QED
  BY <1>1, <1>2, <1>3, <1>4

LEMMA DividedBy ==
  ASSUME NEW i \in Nat \ {0}, NEW n \in Nat, NEW k \in Int, i * k <= n
  PROVE  k <= n \div i
<1>1. PICK q \in Int : q = n \div i
  OBVIOUS
<1>2. n < i * q + i
  BY <1>1
<1>3. k >= q + 1 => i * (q + 1) <= i * k
  BY <1>1, TimesMonotone
<1>4. i * (q + 1) = i * q + i
  BY <1>1
<1> QED
  BY <1>1, <1>2, <1>3, <1>4

\* The slots to come are at most the threads that wait
LEMMA SlotsHaveThreads ==
  ASSUME ClientTypeOK, Spaced, NEW n \in Nat, \A j \in 1..n : ahead - j * Interval > 0
  PROVE  n <= Cardinality(Waiting)
<1> DEFINE f == [j \in 1..n |-> CHOOSE t \in Waiting : client[t].delay = ahead - j * Interval]
<1>1. \A j \in 1..n : f[j] \in Waiting /\ client[f[j]].delay = ahead - j * Interval
  BY DEF Spaced
<1>2. ASSUME NEW i \in 1..n, NEW j \in 1..n, f[i] = f[j] PROVE i = j
  <2>1. ahead - i * Interval = ahead - j * Interval
    BY <1>1, <1>2
  <2>2. i * Interval = j * Interval
    BY <2>1, ClientFacts DEF ClientTypeOK
  <2>3. ASSUME NEW a \in 1..n, NEW b \in 1..n, a < b PROVE a * Interval # b * Interval
    <3>1. /\ Interval * (a + 1) <= Interval * b /\ Interval * (a + 1) = Interval * a + Interval
          /\ Interval * a \in Nat /\ Interval * b \in Nat
      BY <2>3, ClientFacts, TimesMonotone
    <3>2. a * Interval = Interval * a /\ b * Interval = Interval * b
      BY <2>3, ClientFacts
    <3> QED
      BY <3>1, <3>2, ClientFacts
  <2>4. ~(i < j) /\ ~(j < i)
    <3>1. i < j => i * Interval # j * Interval
      BY <2>3
    <3>2. j < i => j * Interval # i * Interval
      BY <2>3
    <3> QED
      BY <2>2, <3>1, <3>2
  <2>5. i \in Int /\ j \in Int
    OBVIOUS
  <2> QED
    BY <2>4, <2>5
<1>3. f \in Injection(1..n, Waiting)
  BY <1>1, <1>2 DEF Injection, IsInjective
<1>4. Cardinality(1..n) <= Cardinality(Waiting)
  BY <1>3, CountFacts, FS_Injection
<1> QED
  BY <1>4, FS_Interval

\* Up to now
LEMMA RateUpToNow ==
  ASSUME ClientTypeOK, Counted, Spaced, NEW to \in 1..Memory
  PROVE  Cardinality(Sent(1, to)) <= (to - 1) \div Interval + 1 + Cardinality(Threads)
<1>1. PICK s, w, h, i, a :
        /\ s = Cardinality(Sent(1, to)) /\ w = Cardinality(Waiting) /\ h = Cardinality(Threads)
        /\ i = Interval /\ a = ahead
  OBVIOUS
<1>2. {s, w, h, a, to - 1} \subseteq Nat /\ i \in Nat \ {0} /\ i * (s + w - h) <= to - 1 + a
  BY <1>1, CountFacts, ClientFacts DEF Counted, ClientTypeOK
<1>3. PICK n \in Nat : a <= i * (n + 1) /\ \A j \in 1..n : a - j * i > 0
  <2>1. CASE a = 0
    <3>1. a <= i * (0 + 1) /\ \A j \in 1..0 : a - j * i > 0
      BY <1>2, <2>1
    <3> QED
      BY <3>1
  <2>2. CASE a > 0
    <3>0. PICK b \in Nat : b = a - 1
      BY <1>2, <2>2
    <3>1. PICK n \in Nat : n = b \div i
      BY <1>2, <3>0, DivFacts
    <3>2. i * n <= b /\ b < i * n + i
      BY <1>2, <3>0, <3>1, DivFacts
    <3>3. i * (n + 1) = i * n + i
      BY <1>2
    <3>4. ASSUME NEW j \in 1..n PROVE a - j * i > 0
      <4>1. i * j <= i * n /\ j * i = i * j
        BY <1>2, TimesMonotone
      <4> QED
        BY <1>2, <3>0, <3>2, <4>1
    <3>5. a <= i * (n + 1)
      BY <1>2, <3>0, <3>2, <3>3
    <3> QED
      BY <3>4, <3>5
  <2> QED
    BY <1>2, <2>1, <2>2
<1>4. n <= w
  BY <1>1, <1>3, SlotsHaveThreads
<1>5. i * (s + n - h) <= i * (s + w - h)
  BY <1>2, <1>4, TimesMonotone
<1>6. i * (s + n - h) = i * (s - h - 1) + i * (n + 1)
  BY <1>2
<1>7. i * (s - h - 1) <= to - 1
  <2>1. PICK x \in Int, y \in Int, z \in Int, v \in Int :
          x = i * (s - h - 1) /\ y = i * (n + 1) /\ z = i * (s + n - h) /\ v = i * (s + w - h)
    BY <1>2
  <2>2. z = x + y /\ z <= v /\ v <= to - 1 + a /\ a <= y
    BY <1>2, <1>3, <1>5, <1>6, <2>1
  <2>3. x <= to - 1
    BY <1>2, <2>2
  <2> QED
    BY <2>1, <2>3
<1>8. s - h - 1 <= (to - 1) \div i
  <2>1. PICK k \in Int, b \in Nat : k = s - h - 1 /\ b = to - 1
    BY <1>2
  <2>2. i * k <= b
    BY <1>7, <2>1
  <2>3. k <= b \div i
    BY <1>2, <2>2, DividedBy
  <2> QED
    BY <2>1, <2>3
<1> QED
  <2>1. PICK k \in Int, d \in Int : k = s - h - 1 /\ d = (to - 1) \div i
    BY <1>2, DivFacts
  <2>2. k <= d /\ s = k + 1 + h
    BY <1>2, <1>8, <2>1
  <2>3. s <= d + 1 + h
    BY <1>2, <2>1, <2>2
  <2> QED
    BY <1>1, <2>1, <2>3

LEMMA KeptRate == Kept => RateIsKept
<1> SUFFICES ASSUME Kept, NEW from \in 1..Memory, NEW to \in 1..Memory, from <= to
             PROVE  Cardinality(Sent(from, to)) <= (to - from) \div Interval + 1 + Cardinality(Threads)
  BY DEF RateIsKept
<1>1. ClientTypeOK /\ Counted /\ Spaced
  BY DEF Kept, Searching
<1>2. CASE from = 1
  BY <1>1, <1>2, RateUpToNow
<1>3. CASE from # 1
  BY <1>3 DEF Kept, RateWasKept
<1> QED
  BY <1>2, <1>3

\* What was sent before this tick only moves on when time does
Elsewhere == \A from, to \in 1..Memory : 2 <= from /\ from <= to => Cardinality(Sent(from, to))' <= Cardinality(Sent(from, to))

\* A request leaves: it was waited for
LEMMA SendsKeeps ==
  ASSUME Kept, NEW t \in Threads, NEW request, Sends(t, request), NEW c, c.pc # "send",
         client' = [client EXCEPT ![t] = c]
  PROVE  Counted' /\ Spaced' /\ Elsewhere
<1>1. ClientTypeOK /\ Counted /\ Spaced /\ client[t].pc = "send" /\ client[t].delay = 0 /\ ahead' = ahead
  BY DEF Kept, Searching, Sends
<1>2. Waiting' = Waiting \ {t} /\ t \in Waiting
  BY <1>1 DEF Waiting, ClientTypeOK
<1>3. Cardinality(Waiting') = Cardinality(Waiting) - 1
  BY <1>1, <1>2, CountFacts, FS_RemoveElement
<1>4. PICK x : recent' = recent \union {x} /\ x[1] = 1
  <2>1. PICK n \in Nat : n = Cardinality(Sent(1, 1)) + 1
    BY <1>1, CountFacts
  <2>2. recent' = recent \union {<<1, n>>}
    BY <2>1 DEF Sends
  <2>3. <<1, n>>[1] = 1
    OBVIOUS
  <2> QED
    BY <2>2, <2>3, Zenon
<1>5. ASSUME NEW to \in 1..Memory PROVE Cardinality(Sent(1, to)') <= Cardinality(Sent(1, to)) + 1
  <2>1. Sent(1, to)' = Sent(1, to) \union {x}
    BY <1>4, <1>5 DEF Sent
  <2>2. IsFiniteSet(Sent(1, to)) /\ Cardinality(Sent(1, to)) \in Nat
    BY <1>1, CountFacts
  <2> QED
    BY <2>1, <2>2, FS_AddElement
<1>6. ASSUME NEW from \in 1..Memory, NEW to \in 1..Memory, 2 <= from PROVE Sent(from, to)' = Sent(from, to)
  BY <1>4, <1>6 DEF Sent
<1>7. Counted'
  <2> SUFFICES ASSUME NEW to \in 1..Memory
               PROVE  Interval * (Cardinality(Sent(1, to)') + Cardinality(Waiting') - Cardinality(Threads)) <= to - 1 + ahead'
    BY DEF Counted
  <2>1. PICK s, n, w, h, i, a, m :
          /\ s = Cardinality(Sent(1, to)) /\ n = Cardinality(Sent(1, to)') /\ w = Cardinality(Waiting)
          /\ h = Cardinality(Threads) /\ i = Interval /\ a = ahead /\ m = to - 1
    OBVIOUS
  <2>2. {s, w, h, a, i, m} \subseteq Nat /\ i * (s + w - h) <= m + a
    BY <1>1, <2>1, CountFacts, ClientFacts DEF Counted, ClientTypeOK
  <2>3. n \in Nat /\ n <= s + 1
    <3>1. IsFiniteSet(Sent(1, to)')
      BY <1>1, <1>4, FS_AddElement, FS_Subset DEF Sent, ClientTypeOK
    <3> QED
      BY <1>5, <2>1, <3>1, FS_CardinalityType
  <2>4. PICK k \in Int, l \in Int : k = n + (w - 1) - h /\ l = s + w - h /\ k <= l
    BY <2>2, <2>3
  <2>5. i * k <= i * l
    BY <2>2, <2>4, TimesMonotone
  <2>6. PICK y \in Int, z \in Int : y = i * k /\ z = i * l
    BY <2>2, <2>4
  <2>7. y <= m + a
    BY <2>2, <2>4, <2>5, <2>6
  <2> QED
    BY <1>1, <1>3, <2>1, <2>4, <2>6, <2>7
<1>8. Spaced'
  <2> SUFFICES ASSUME NEW j \in Nat \ {0}, ahead - j * Interval > 0
               PROVE  \E u \in Waiting' : client'[u].delay = ahead - j * Interval
    BY <1>1 DEF Spaced
  <2>1. PICK u \in Waiting : client[u].delay = ahead - j * Interval
    BY <1>1 DEF Spaced
  <2>2. u # t
    BY <1>1, <2>1, ClientFacts DEF ClientTypeOK
  <2>3. u \in Waiting' /\ client'[u] = client[u]
    BY <1>1, <1>2, <2>2 DEF Waiting, ClientTypeOK
  <2> QED
    BY <2>1, <2>3
<1>9. Elsewhere
  BY <1>1, <1>6, CountFacts DEF Elsewhere
<1> QED
  BY <1>7, <1>8, <1>9

\* A slot is taken behind all others
LEMMA TakeSlotKeeps ==
  ASSUME Kept, NEW t \in Threads, TakeSlot(t)
  PROVE  Counted' /\ Spaced' /\ Elsewhere
<1>1. ClientTypeOK /\ Counted /\ Spaced /\ client[t] \in Client
  BY DEF Kept, Searching, ClientTypeOK
<1>2. PICK c : c = [LoopHead(client[t]) EXCEPT !.pc = "send", !.delay = ahead]
  OBVIOUS
<1>3. c.pc = "send" /\ c.delay = ahead
  BY <1>1, <1>2, HeadFacts DEF ClientTypeOK
<1>4. /\ client' = [client EXCEPT ![t] = c] /\ recent' = recent /\ ahead' = ahead + Interval
      /\ client[t].pc \in {"top", "slot"}
  BY <1>2 DEF TakeSlot, Set, NextAllowed
<1>5. Waiting' = Waiting \union {t} /\ t \notin Waiting
  BY <1>1, <1>3, <1>4 DEF Waiting, ClientTypeOK
<1>6. Cardinality(Waiting') = Cardinality(Waiting) + 1
  BY <1>1, <1>5, CountFacts, FS_AddElement
<1>7. \A from, to : Sent(from, to)' = Sent(from, to)
  BY <1>4 DEF Sent
<1>8. Counted'
  <2> SUFFICES ASSUME NEW to \in 1..Memory
               PROVE  Interval * (Cardinality(Sent(1, to)') + Cardinality(Waiting') - Cardinality(Threads)) <= to - 1 + ahead'
    BY DEF Counted
  <2>1. PICK s, w, h, i, a, m :
          /\ s = Cardinality(Sent(1, to)) /\ w = Cardinality(Waiting)
          /\ h = Cardinality(Threads) /\ i = Interval /\ a = ahead /\ m = to - 1
    OBVIOUS
  <2>2. {s, w, h, a, i, m} \subseteq Nat /\ i * (s + w - h) <= m + a
    BY <1>1, <2>1, CountFacts, ClientFacts DEF Counted, ClientTypeOK
  <2>3. PICK k \in Int, l \in Int : k = s + (w + 1) - h /\ l = s + w - h /\ k = l + 1
    BY <2>2
  <2>4. i * k = i * l + i
    BY <2>2, <2>3, TimesMonotone
  <2>5. PICK y \in Int, z \in Int : y = i * k /\ z = i * l
    BY <2>2, <2>3
  <2>6. y <= m + (a + i)
    BY <2>2, <2>3, <2>4, <2>5
  <2>7. Cardinality(Sent(1, to)') + Cardinality(Waiting') - Cardinality(Threads) = k
    BY <1>6, <1>7, <2>1, <2>3
  <2> QED
    BY <1>4, <2>1, <2>5, <2>6, <2>7
<1>9. Spaced'
  <2> SUFFICES ASSUME NEW j \in Nat \ {0}, ahead' - j * Interval > 0
               PROVE  \E u \in Waiting' : client'[u].delay = ahead' - j * Interval
    BY DEF Spaced
  <2>1. PICK i \in Nat, a \in Nat : i = Interval /\ a = ahead /\ ahead' = a + i
    BY <1>1, <1>4, ClientFacts DEF ClientTypeOK
  <2>2. CASE j = 1
    <3>1. t \in Waiting' /\ client'[t] = c
      BY <1>1, <1>4, <1>5 DEF ClientTypeOK
    <3>2. ahead' - j * Interval = ahead
      BY <2>1, <2>2
    <3> QED
      BY <1>3, <3>1, <3>2
  <2>3. CASE j # 1
    <3>1. PICK k \in Nat \ {0} : j = k + 1
      BY <2>3
    <3>2. (k + 1) * i = k * i + i
      BY <2>1, <3>1
    <3>3. ahead' - j * Interval = ahead - k * Interval
      BY <2>1, <3>1, <3>2
    <3>4. PICK u \in Waiting : client[u].delay = ahead - k * Interval
      BY <1>1, <3>1, <3>3 DEF Spaced
    <3>5. u \in Waiting' /\ client'[u] = client[u]
      BY <1>1, <1>4, <1>5, <3>4 DEF Waiting, ClientTypeOK
    <3> QED
      BY <3>3, <3>4, <3>5
  <2> QED
    BY <2>2, <2>3
<1>10. Elsewhere
  BY <1>1, <1>7, CountFacts DEF Elsewhere
<1> QED
  BY <1>8, <1>9, <1>10

\* Time passes, and what was sent is a tick older
LEMMA OlderIsNoMore ==
  ASSUME ClientTypeOK, Tick, NEW from \in Nat, NEW to \in 1..Memory, 2 <= from
  PROVE  Cardinality(Sent(from, to))' <= Cardinality(Sent(from - 1, to - 1))
<1> DEFINE S == Sent(from - 1, to - 1)
           f == [r \in S |-> <<r[1] + 1, r[2]>>]
<1>1. \A r \in recent : r[1] \in Nat /\ r[2] \in Nat
  BY DEF ClientTypeOK
<1>2. \A r \in S : f[r] \in Sent(from, to)'
  <2> SUFFICES ASSUME NEW r \in S PROVE f[r] \in Sent(from, to)'
    OBVIOUS
  <2>1. r \in recent /\ r[1] \in Nat /\ from - 1 <= r[1] /\ r[1] <= to - 1
    BY <1>1 DEF Sent
  <2>2. r \in Sent(1, Memory - 1)
    BY <2>1, ClientFacts DEF Sent
  <2>3. <<r[1] + 1, r[2]>> \in recent'
    BY <2>2 DEF Tick
  <2> QED
    BY <2>1, <2>3 DEF Sent
<1>3. ASSUME NEW q \in Sent(from, to)' PROVE \E r \in S : f[r] = q
  <2>1. q \in recent' /\ q[1] \in from..to
    BY DEF Sent
  <2>2. PICK r \in Sent(1, Memory - 1) : q = <<r[1] + 1, r[2]>>
    BY <2>1 DEF Tick
  <2>3. r \in recent /\ r[1] \in Nat /\ q[1] = r[1] + 1
    BY <1>1, <2>2 DEF Sent
  <2>4. r \in S
    BY <2>1, <2>3 DEF Sent
  <2> QED
    BY <2>2, <2>4
<1>4. f \in Surjection(S, Sent(from, to)')
  BY <1>2, <1>3 DEF Surjection
<1>5. IsFiniteSet(S)
  BY CountFacts
<1> QED
  BY <1>4, <1>5, FS_Surjection

LEMMA NothingYetNow ==
  ASSUME ClientTypeOK, Tick, NEW to \in 1..Memory
  PROVE  Sent(1, to)' = Sent(2, to)'
<1>1. \A r \in recent : r[1] \in Nat
  BY DEF ClientTypeOK
<1>2. \A q \in recent' : q[1] \in Nat /\ 2 <= q[1]
  <2> SUFFICES ASSUME NEW q \in recent' PROVE q[1] \in Nat /\ 2 <= q[1]
    OBVIOUS
  <2>1. PICK r \in Sent(1, Memory - 1) : q = <<r[1] + 1, r[2]>>
    BY DEF Tick
  <2>2. r[1] \in Nat /\ 1 <= r[1]
    BY <1>1, ClientFacts DEF Sent
  <2> QED
    BY <2>1, <2>2
<1> QED
  BY <1>2 DEF Sent

LEMMA TickKeeps ==
  ASSUME Kept, Tick
  PROVE  Counted' /\ Spaced' /\ RateWasKept'
<1>1. /\ ClientTypeOK /\ Counted /\ Spaced /\ ahead \in Nat /\ ahead' = Sooner(ahead)
      /\ \A t \in Threads : client[t] \in Client
  BY DEF Kept, Searching, ClientTypeOK, Tick
<1>2. ClientTypeOK'
  BY SearchingTick DEF Kept, Searching
<1>3. \A t \in Threads : client'[t].pc = client[t].pc /\ client'[t].delay = Sooner(client[t].delay)
  BY <1>1 DEF Tick, Client
<1>4. Waiting' = Waiting
  BY <1>3 DEF Waiting
<1>5. Counted'
  <2> SUFFICES ASSUME NEW to \in 1..Memory
               PROVE  Interval * (Cardinality(Sent(1, to)') + Cardinality(Waiting') - Cardinality(Threads)) <= to - 1 + ahead'
    BY DEF Counted
  <2>1. PICK n, w, h, i, a, b, m :
          /\ n = Cardinality(Sent(1, to)') /\ w = Cardinality(Waiting)
          /\ h = Cardinality(Threads) /\ i = Interval /\ a = ahead /\ b = ahead' /\ m = to - 1
    OBVIOUS
  <2>2. {n, w, h, a, b, i, m} \subseteq Nat /\ w <= h /\ a <= b + 1
    BY <1>1, <1>2, <2>1, CountFacts, CountNext, ClientFacts DEF Sooner
  <2>3. i * (n + w - h) <= m + b
    <3>1. CASE to = 1
      <4>1. Sent(1, to)' = {}
        BY <1>1, <3>1, NothingYetNow DEF Sent
      <4>2. n = 0
        BY <2>1, <4>1, FS_EmptySet
      <4>3. PICK k \in Int : k = n + w - h /\ k <= 0
        BY <2>2, <4>2
      <4>4. i * k <= i * 0
        BY <2>2, <4>3, TimesMonotone
      <4>5. PICK y \in Int : y = i * k
        BY <2>2, <4>3
      <4>6. y <= m + b
        BY <2>2, <4>4, <4>5
      <4> QED
        BY <4>3, <4>5, <4>6
    <3>2. CASE to # 1
      <4>1. PICK p, s : p \in 1..Memory /\ p = to - 1 /\ s = Cardinality(Sent(1, p))
        BY <3>2, ClientFacts
      <4>2. s \in Nat /\ n <= s
        <5>1. Cardinality(Sent(2, to))' <= Cardinality(Sent(2 - 1, to - 1))
          BY <1>1, OlderIsNoMore
        <5>2. 2 - 1 = 1
          OBVIOUS
        <5> QED
          BY <1>1, <2>1, <4>1, <5>1, <5>2, NothingYetNow, CountFacts
      <4>3. i * (s + w - h) <= p - 1 + a
        BY <1>1, <2>1, <4>1 DEF Counted
      <4>4. PICK k \in Int, l \in Int : k = n + w - h /\ l = s + w - h /\ k <= l
        BY <2>2, <4>2
      <4>5. i * k <= i * l
        BY <2>2, <4>4, TimesMonotone
      <4>6. PICK y \in Int, z \in Int : y = i * k /\ z = i * l
        BY <2>2, <4>4
      <4>7. y <= m + b
        BY <2>1, <2>2, <4>1, <4>3, <4>4, <4>5, <4>6
      <4> QED
        BY <4>4, <4>6, <4>7
    <3> QED
      BY <3>1, <3>2
  <2> QED
    BY <1>4, <2>1, <2>3
<1>6. Spaced'
  <2> SUFFICES ASSUME NEW j \in Nat \ {0}, ahead' - j * Interval > 0
               PROVE  \E u \in Waiting' : client'[u].delay = ahead' - j * Interval
    BY DEF Spaced
  <2>1. PICK x \in Nat : x = j * Interval
    BY ClientFacts
  <2>2. ahead' = ahead - 1 /\ ahead - j * Interval > 1
    BY <1>1, <2>1 DEF Sooner
  <2>3. PICK u \in Waiting : client[u].delay = ahead - j * Interval
    BY <1>1, <2>1, <2>2 DEF Spaced
  <2>4. client'[u].delay = client[u].delay - 1
    BY <1>1, <1>3, <2>1, <2>2, <2>3 DEF Sooner, Waiting
  <2>5. client'[u].delay = ahead' - j * Interval
    BY <1>1, <2>1, <2>2, <2>3, <2>4
  <2> QED
    BY <1>4, <2>3, <2>5
<1>7. ASSUME NEW from \in 1..Memory, NEW to \in 1..Memory, 2 <= from, from <= to
      PROVE  Cardinality(Sent(from, to))' <= (to - from) \div Interval + 1 + Cardinality(Threads)
  <2>1. PICK g \in 1..Memory, p \in 1..Memory : g = from - 1 /\ p = to - 1 /\ g <= p /\ p - g = to - from
    BY <1>7, ClientFacts
  <2>2. Cardinality(Sent(from, to))' <= Cardinality(Sent(g, p))
    BY <1>1, <1>7, <2>1, OlderIsNoMore
  <2>3. Cardinality(Sent(g, p)) <= (to - from) \div Interval + 1 + Cardinality(Threads)
    BY <2>1, KeptRate DEF RateIsKept
  <2>4. PICK d \in Nat : d = (to - from) \div Interval
    <3>1. to - from \in Nat /\ Interval \in Nat \ {0}
      BY <1>7, ClientFacts
    <3> QED
      BY <3>1, DivFacts
  <2>5. PICK y \in Nat, z \in Nat, h \in Nat :
          y = Cardinality(Sent(from, to)') /\ z = Cardinality(Sent(g, p)) /\ h = Cardinality(Threads)
    BY <1>1, <1>2, CountFacts, CountNext
  <2>6. y <= z /\ z <= d + 1 + h
    BY <2>2, <2>3, <2>4, <2>5
  <2>7. y <= d + 1 + h
    BY <2>6
  <2> QED
    BY <2>4, <2>5, <2>7
<1> QED
  BY <1>5, <1>6, <1>7 DEF RateWasKept

\* Any other step leaves the limiter and what waits for it alone
LEMMA QuietKeeps ==
  ASSUME Kept, recent' = recent, ahead' = ahead, Waiting' = Waiting,
         \A t \in Waiting : client'[t].delay = client[t].delay
  PROVE  Counted' /\ Spaced' /\ Elsewhere
<1>1. ClientTypeOK /\ Counted /\ Spaced
  BY DEF Kept, Searching
<1>2. \A from, to : Sent(from, to)' = Sent(from, to)
  BY DEF Sent
<1> QED
  BY <1>1, <1>2, CountFacts DEF Counted, Spaced, Elsewhere

LEMMA AnswerSets ==
  ASSUME ClientTypeOK, NEW t \in Threads, Answer(t)
  PROVE  \E c \in Client : client' = [client EXCEPT ![t] = c] /\ c.pc # "send"
<1>1. client[t] \in Client
  BY DEF ClientTypeOK
<1> DEFINE at(pc) == [client[t] EXCEPT !.pc = pc]
<1>2. \A pc \in {"backoff", "failed"} : at(pc) \in Client /\ at(pc).pc = pc
  BY <1>1 DEF Client
<1>3. CASE TokenGiven(t)
  <2> DEFINE c(pc) == [client[t] EXCEPT !.token = TRUE, !.forced = FALSE, !.request = "post", !.pc = pc]
  <2>1. \A pc \in {"top", "slot"} : c(pc) \in Client /\ c(pc).pc = pc
    BY <1>1 DEF Client
  <2>2. PICK pc \in {"top", "slot"} : pc = IF client[t].forced THEN "top" ELSE "slot"
    OBVIOUS
  <2>3. client' = [client EXCEPT ![t] = c(pc)]
    BY <1>3, <2>2 DEF TokenGiven, Set
  <2> QED
    BY <2>1, <2>3
<1>4. CASE Page(t)
  <2>1. PICK n \in Client : n = NextPage(client[t])
    BY <1>1, NextFacts
  <2> DEFINE c(pc) == [n EXCEPT !.pc = pc, !.attempt = 0, !.refreshed = FALSE]
  <2>2. \A pc \in {"done", "top"} : c(pc) \in Client /\ c(pc).pc = pc
    BY DEF Client
  <2>3. PICK pc \in {"done", "top"} : pc = IF n.window > Len(Pages) THEN "done" ELSE "top"
    OBVIOUS
  <2>4. client' = [client EXCEPT ![t] = c(pc)]
    BY <1>4, <2>1, <2>3 DEF Page, Set
  <2> QED
    BY <2>2, <2>4
<1>5. CASE Unauthorized(t)
  <2> DEFINE c == [client[t] EXCEPT !.pc = "slot", !.request = "token", !.refreshed = TRUE, !.forced = TRUE]
  <2>1. c \in Client /\ c.pc = "slot"
    BY <1>1 DEF Client
  <2> QED
    BY <1>2, <1>5, <2>1 DEF Unauthorized, Set, Fails
<1>6. CASE TryLater(t)
  BY <1>2, <1>6 DEF TryLater, Set, Fails
<1>7. CASE Refused(t)
  BY <1>2, <1>7 DEF Refused, Set, Fails
<1> QED
  BY <1>3, <1>4, <1>5, <1>6, <1>7 DEF Answer

LEMMA KeptInit == Init => Kept
<1> SUFFICES ASSUME Init PROVE Kept
  OBVIOUS
<1>1. Searching /\ ahead = 0 /\ recent = {}
  BY SearchingInit DEF Init
<1>2. Waiting = {}
  BY DEF Init, Waiting, Fresh
<1>3. ClientTypeOK
  BY <1>1 DEF Searching
<1>4. Cardinality(Waiting) = 0 /\ \A from, to : Cardinality(Sent(from, to)) = 0
  BY <1>1, <1>2, FS_EmptySet DEF Sent
<1>5. Counted
  <2> SUFFICES ASSUME NEW to \in 1..Memory
               PROVE  Interval * (Cardinality(Sent(1, to)) + Cardinality(Waiting) - Cardinality(Threads)) <= to - 1 + ahead
    BY DEF Counted
  <2>1. PICK k \in Int : k = Cardinality(Sent(1, to)) + Cardinality(Waiting) - Cardinality(Threads) /\ k <= 0
    BY <1>3, <1>4, CountFacts
  <2>2. Interval * k <= Interval * 0 /\ Interval * 0 = 0
    BY <2>1, ClientFacts, TimesMonotone
  <2>3. PICK y \in Int : y = Interval * k
    BY <2>1, ClientFacts
  <2>4. y <= to - 1 + ahead
    BY <1>1, <2>2, <2>3
  <2> QED
    BY <2>1, <2>3, <2>4
<1>6. Spaced
  <2>1. \A j \in Nat \ {0} : j * Interval \in Nat
    BY ClientFacts
  <2> QED
    BY <1>1, <2>1 DEF Spaced
<1>7. RateWasKept
  <2> SUFFICES ASSUME NEW from \in 1..Memory, NEW to \in 1..Memory, from <= to
               PROVE  Cardinality(Sent(from, to)) <= (to - from) \div Interval + 1 + Cardinality(Threads)
    BY DEF RateWasKept
  <2>1. to - from \in Nat /\ Interval \in Nat \ {0}
    BY ClientFacts
  <2>2. PICK d \in Nat : d = (to - from) \div Interval
    BY <2>1, DivFacts
  <2> QED
    BY <1>3, <1>4, <2>2, CountFacts
<1> QED
  BY <1>1, <1>5, <1>6, <1>7 DEF Kept

LEMMA KeptStep == Kept /\ [Next]_vars => Kept'
<1> SUFFICES ASSUME Kept, [Next]_vars PROVE Kept'
  OBVIOUS
<1>1. Searching' /\ ClientTypeOK' /\ ClientTypeOK
  BY SearchingStep DEF Kept, Searching
<1>2. \A t \in Threads : client[t] \in Client
  BY <1>1 DEF ClientTypeOK
<1>4. ASSUME Elsewhere, NEW from \in 1..Memory, NEW to \in 1..Memory, 2 <= from, from <= to
      PROVE  Cardinality(Sent(from, to))' <= (to - from) \div Interval + 1 + Cardinality(Threads)
  <2>1. to - from \in Nat /\ Interval \in Nat \ {0}
    BY <1>4, ClientFacts
  <2>2. PICK d \in Nat : d = (to - from) \div Interval
    BY <2>1, DivFacts
  <2>3. PICK y \in Nat, z \in Nat, h \in Nat :
          y = Cardinality(Sent(from, to)') /\ z = Cardinality(Sent(from, to)) /\ h = Cardinality(Threads)
    BY <1>1, CountFacts, CountNext
  <2>4. y <= z /\ z <= d + 1 + h
    BY <1>4, <2>2, <2>3 DEF Elsewhere, Kept, RateWasKept
  <2>5. y <= d + 1 + h
    BY <2>4
  <2> QED
    BY <2>2, <2>3, <2>5
<1>5. ASSUME Counted', Spaced', Elsewhere PROVE Kept'
  BY <1>1, <1>4, <1>5 DEF Kept, RateWasKept
<1>6. CASE Tick
  BY <1>1, <1>6, TickKeeps DEF Kept
<1>7. ASSUME NEW t \in Threads, TakeSlot(t) PROVE Kept'
  BY <1>5, <1>7, TakeSlotKeeps
<1>8. ASSUME NEW t \in Threads, Start(t) \/ Leave(t) \/ Wake(t) \/ Expire(t) PROVE Kept'
  <2>1. PICK c \in Client : /\ client' = [client EXCEPT ![t] = c] /\ c.pc # "send" /\ client[t].pc # "send"
                           /\ recent' = recent /\ ahead' = ahead
    <3> DEFINE at(pc) == [client[t] EXCEPT !.pc = pc]
    <3>1. \A pc \in {"top", "failed"} : at(pc) \in Client /\ at(pc).pc = pc
      BY <1>2 DEF Client
    <3>2. CASE Start(t)
      BY <3>1, <3>2 DEF Start, Set
    <3>3. CASE Leave(t)
      BY <3>1, <3>3 DEF Leave, Set
    <3>4. CASE Wake(t)
      BY <3>1, <3>4 DEF Wake, Set
    <3>5. CASE Expire(t)
      <4> DEFINE c == [client[t] EXCEPT !.token = FALSE]
      <4>1. c \in Client /\ c.pc = client[t].pc
        BY <1>2 DEF Client
      <4> QED
        BY <3>5, <4>1 DEF Expire, Set
    <3> QED
      BY <1>8, <3>2, <3>3, <3>4, <3>5
  <2>2. Waiting' = Waiting /\ \A u \in Waiting : client'[u].delay = client[u].delay
    BY <1>1, <2>1 DEF Waiting, ClientTypeOK
  <2> QED
    BY <1>5, <2>1, <2>2, QuietKeeps
<1>9. ASSUME NEW t \in Threads, Answer(t) PROVE Kept'
  <2>1. PICK c \in Client : client' = [client EXCEPT ![t] = c] /\ c.pc # "send"
    BY <1>1, <1>9, AnswerSets
  <2>2. Sends(t, "token") \/ Sends(t, "post")
    BY <1>9 DEF Answer, TokenGiven, Page, Unauthorized, TryLater, Refused
  <2> QED
    BY <1>5, <2>1, <2>2, SendsKeeps
<1>10. CASE UNCHANGED vars
  BY <1>5, <1>10, QuietKeeps DEF vars, Waiting
<1> QED
  BY <1>6, <1>7, <1>8, <1>9, <1>10 DEF Next, Step

\* In any span of time the threads of a tenant send at most one request for each
\* interval and one more for each thread held up after its slot (client.py
\* RateLimiter.wait, limiter_for).
THEOREM TenantsKeepTheirRate == FairSpec => []RateIsKept
  BY KeptInit, KeptStep, KeptRate, PTL DEF FairSpec
=============================================================================
