--------------------------- MODULE OutboundProofs ---------------------------
(* Proofs about advice, for any number of requests, any sizes, memories and   *)
(* replies of the engine, any _CACHE_TTL and timeout, and a clock that never  *)
(* runs out; and about a download, for files of any length, any number of     *)
(* retries, DELETEs at any await, crashes and database faults, where servers  *)
(* honour Range and the last update does not raise.                           *)
EXTENDS Outbound, TLAPS

Fields == {"kind", "at", "size", "level", "began", "memory", "seen", "age", "error", "refused", "offer"}

\* What a request knows of times: it entered detect() before it was answered.
Timely(r) ==
  /\ r.at \in {"fetch", "fetched"} => r.began <= clock /\ clock - r.began <= Timeout
  /\ r.at = "fetched" => r.began <= r.seen /\ r.seen <= clock

Sound(r) ==
  /\ DOMAIN r = Fields
  /\ r.size \in Nat /\ r.began \in Nat /\ r.memory \in Nat /\ r.seen \in Nat /\ r.age \in Nat
  /\ r.kind = "plan" => r.size # 0
  /\ r.age <= (IF CacheTtl > Timeout THEN CacheTtl - 1 ELSE Timeout)
  /\ r.refused # {} => r.error # "none"
  /\ Timely(r)

\* The inductive invariant: no stamp is later than the look at the machine it
\* stands for, and every request is sound.
AdviceInv ==
  /\ clock \in Nat
  /\ profile = [memory |-> profile.memory, at |-> profile.at, seen |-> profile.seen, known |-> profile.known]
  /\ profile.memory \in Nat /\ profile.at \in Nat /\ profile.seen \in Nat
  /\ profile.at <= profile.seen /\ profile.seen <= clock
  /\ client = [c \in Clients |-> client[c]]
  /\ \A c \in Clients : Sound(client[c])

-----------------------------------------------------------------------------

LEMMA StartsSound == OutInit => AdviceInv
BY AdviceAssumption
   DEF OutInit, AdviceInit, AdviceInv, NoProfile, Away, NoOffer, Sound, Timely, Fields

\* A step that replaces one sound request by another leaves all sound.
LEMMA PutKeeps ==
  ASSUME AdviceInv, NEW c \in Clients, NEW r, Put(c, r), Sound(r), UNCHANGED <<clock, profile>>
  PROVE  AdviceInv'
<1>1. client' = [d \in Clients |-> IF d = c THEN r ELSE client[d]]
  BY DEF AdviceInv, Put
<1>2. \A d \in Clients : Sound(client'[d])
  BY <1>1 DEF AdviceInv
<1>3. \A d \in Clients : Sound(client[d])'
  BY <1>2 DEF Sound, Timely
<1> QED BY <1>1, <1>3 DEF AdviceInv
\* The actions that change neither the clock nor the profile.
LEMMA AskKeeps ==
  ASSUME AdviceInv, NEW kind, NEW c \in Clients,
         Ask(c, kind) \/ AskPlan(c, kind) \/ AskExecute(c, kind) \/ Leave(c)
  PROVE  AdviceInv'
<1>1. Sound(Away)
  BY AdviceAssumption DEF Sound, Timely, Fields, Away
<1>2. CASE Ask(c, kind)
  <2>1. Sound([Away EXCEPT !.kind = kind, !.at = "detect"])
    BY <1>2, AdviceAssumption DEF Ask, Sound, Timely, Fields, Away
  <2> QED BY <2>1, <1>2, PutKeeps DEF Ask
<1>3. CASE AskPlan(c, kind)
  <2>1. PICK size \in Sizes : Put(c, [Away EXCEPT !.kind = kind, !.at = "assess", !.size = size])
    BY <1>3 DEF AskPlan
  <2>2. Sound([Away EXCEPT !.kind = kind, !.at = "assess", !.size = size])
    BY AdviceAssumption DEF Sound, Timely, Fields, Away
  <2> QED BY <2>1, <2>2, <1>3, PutKeeps DEF AskPlan
<1>4. CASE AskExecute(c, kind)
  <2>1. Sound([Away EXCEPT !.kind = kind, !.at = "assess"])
    BY <1>4, AdviceAssumption DEF AskExecute, Sound, Timely, Fields, Away
  <2> QED BY <2>1, <1>4, PutKeeps DEF AskExecute
<1>5. CASE Leave(c)
  BY <1>1, <1>5, PutKeeps DEF Leave
<1> QED BY <1>2, <1>3, <1>4, <1>5

\* Within a request, what does not touch its times.
LEMMA WorkKeeps ==
  ASSUME AdviceInv, NEW c \in Clients,
         \/ Assess(c) \/ Recommend(c) \/ Inform(c)
         \/ Execute(c, "convert", "quantize") \/ Execute(c, "quantize", "done")
  PROVE  AdviceInv'
<1>1. Sound(client[c])
  BY DEF AdviceInv
<1>2. CASE Assess(c)
  <2>1. PICK level \in 0 .. 4 :
          Put(c, [client[c] EXCEPT !.level = level,
                                   !.at = IF client[c].kind = "plan" THEN "detect"
                                          ELSE IF level = 4 THEN "done" ELSE "convert"])
    BY <1>2 DEF Assess
  <2>2. Sound([client[c] EXCEPT !.level = level,
                                !.at = IF client[c].kind = "plan" THEN "detect"
                                       ELSE IF level = 4 THEN "done" ELSE "convert"])
    BY <1>1 DEF Sound, Timely, Fields
  <2> QED BY <2>1, <2>2, <1>2, PutKeeps DEF Assess
<1>3. CASE Recommend(c)
  <2>1. PICK offer : Put(c, [client[c] EXCEPT !.at = "done", !.age = 0, !.offer = offer])
    BY <1>3 DEF Recommend
  <2>2. Sound([client[c] EXCEPT !.at = "done", !.age = 0, !.offer = offer])
    BY <1>1, AdviceAssumption DEF Sound, Timely, Fields
  <2> QED BY <2>1, <2>2, <1>3, PutKeeps DEF Recommend
<1>4. CASE Inform(c)
  <2>1. Sound([client[c] EXCEPT !.at = "done", !.age = 0])
    BY <1>1, AdviceAssumption DEF Sound, Timely, Fields
  <2> QED BY <2>1, <1>4, PutKeeps DEF Inform
<1>5. ASSUME NEW step \in {"convert", "quantize"}, NEW next \in {"quantize", "done"}, Execute(c, step, next)
      PROVE  AdviceInv'
  <2>1. ASSUME NEW accepted \in BOOLEAN
        PROVE  Sound([Note(c, step, accepted) EXCEPT !.at = next])
    BY <1>1 DEF Note, Sound, Timely, Fields
  <2>2. Sound([client[c] EXCEPT !.at = "done"])
    BY <1>1 DEF Sound, Timely, Fields
  <2> QED BY <2>1, <2>2, <1>5, PutKeeps DEF Execute
<1> QED BY <1>2, <1>3, <1>4, <1>5

\* A cached profile is used only while its stamp, and so its sight of the
\* machine, is younger than _CACHE_TTL.
LEMMA DetectKeeps ==
  ASSUME AdviceInv, NEW c \in Clients, Detect(c) \/ Fetch(c) \/ FetchFails(c)
  PROVE  AdviceInv'
<1>1. Sound(client[c])
  BY DEF AdviceInv
<1>2. CASE Detect(c)
  <2>1. CASE profile.known /\ clock - profile.at < CacheTtl
    <3>1. Sound([client[c] EXCEPT !.at = "known", !.memory = profile.memory,
                                  !.age = clock - profile.seen, !.began = 0, !.seen = 0])
      BY <1>1, <2>1, AdviceAssumption DEF AdviceInv, Sound, Timely, Fields
    <3> QED BY <3>1, <2>1, <1>2, PutKeeps DEF Detect, Know
  <2>2. CASE ~(profile.known /\ clock - profile.at < CacheTtl)
    <3>1. Sound([client[c] EXCEPT !.at = "fetch", !.began = clock])
      BY <1>1, AdviceAssumption DEF AdviceInv, Sound, Timely, Fields
    <3> QED BY <3>1, <2>2, <1>2, PutKeeps DEF Detect
  <2> QED BY <2>1, <2>2
<1>3. CASE Fetch(c)
  <2>1. PICK memory \in Memories :
          Put(c, [client[c] EXCEPT !.at = "fetched", !.memory = memory, !.seen = clock])
    BY <1>3 DEF Fetch
  <2>2. /\ client[c].at = "fetch" /\ memory \in Nat /\ clock \in Nat
        /\ client[c].began <= clock /\ clock - client[c].began <= Timeout
    BY <1>1, <1>3, AdviceAssumption DEF Fetch, AdviceInv, Sound, Timely
  <2>3. Sound([client[c] EXCEPT !.at = "fetched", !.memory = memory, !.seen = clock])
    BY <1>1, <2>2 DEF Sound, Timely, Fields
  <2> QED BY <2>1, <2>3, <1>3, PutKeeps DEF Fetch
<1>4. CASE FetchFails(c)
  <2>1. Sound([client[c] EXCEPT !.at = "known", !.memory = profile.memory,
                                !.age = 0, !.began = 0, !.seen = 0])
    BY <1>1, AdviceAssumption DEF AdviceInv, Sound, Timely, Fields
  <2> QED BY <2>1, <1>4, PutKeeps DEF FetchFails, Know
<1> QED BY <1>2, <1>3, <1>4

\* An answer is stamped with the time at which its request entered detect().
LEMMA ProfileKeeps ==
  ASSUME AdviceInv, NEW kind, NEW c \in Clients, Remember(c) \/ Refresh(c, kind)
  PROVE  AdviceInv'
<1>1. Sound(client[c])
  BY DEF AdviceInv
<1>2. \A d \in Clients : clock' = clock /\ Sound(client'[d]) => Sound(client[d])'
  BY DEF Sound, Timely
<1>3. CASE Remember(c)
  <2> DEFINE r == [client[c] EXCEPT !.at = "known", !.memory = client[c].memory,
                                    !.age = clock - client[c].seen, !.began = 0, !.seen = 0]
  <2>1. Sound(r)
    BY <1>1, <1>3, AdviceAssumption DEF Remember, AdviceInv, Sound, Timely, Fields
  <2>2. client' = [d \in Clients |-> IF d = c THEN r ELSE client[d]]
    BY <1>3 DEF Remember, Know, Put, AdviceInv
  <2>3. profile' = [memory |-> client[c].memory, at |-> client[c].began,
                    seen |-> client[c].seen, known |-> TRUE] /\ clock' = clock
    BY <1>3 DEF Remember, Stamp
  <2>4. client[c].began <= client[c].seen /\ client[c].seen <= clock
    BY <1>1, <1>3 DEF Remember, Sound, Timely
  <2>5. \A d \in Clients : Sound(client[d])'
    BY <2>1, <2>2, <2>3, <1>2 DEF AdviceInv
  <2> HIDE DEF r
  <2> QED BY <1>1, <2>2, <2>3, <2>4, <2>5 DEF AdviceInv, Sound
<1>4. CASE Refresh(c, kind)
  <2> DEFINE r == [Away EXCEPT !.kind = kind, !.at = "detect"]
  <2>1. Sound(r)
    BY <1>4, AdviceAssumption DEF Refresh, Sound, Timely, Fields, Away
  <2>2. client' = [d \in Clients |-> IF d = c THEN r ELSE client[d]]
    BY <1>4 DEF Refresh, Put, AdviceInv
  <2>3. profile' = NoProfile /\ clock' = clock
    BY <1>4 DEF Refresh
  <2>4. \A d \in Clients : Sound(client[d])'
    BY <2>1, <2>2, <2>3, <1>2 DEF AdviceInv
  <2> HIDE DEF r
  <2> QED BY <2>2, <2>3, <2>4 DEF AdviceInv, NoProfile
<1> QED BY <1>3, <1>4

\* Time does not pass beyond the timeout of a request for the profile.
LEMMA TickKeeps ==
  ASSUME AdviceInv, Tick
  PROVE  AdviceInv'
<1>1. \A c \in Clients : Sound(client[c])'
  BY AdviceAssumption DEF AdviceInv, Tick, Sound, Timely
<1> QED BY <1>1, AdviceAssumption DEF AdviceInv, Tick

LEMMA AdviceInvariant == OutSpec => []AdviceInv
<1>1. AdviceInv /\ [OutNext]_outVars => AdviceInv'
  <2> SUFFICES ASSUME AdviceInv, [OutNext]_outVars PROVE AdviceInv'
    OBVIOUS
  <2>1. CASE UNCHANGED adviceVars
    BY <2>1 DEF adviceVars, AdviceInv, Sound, Timely
  <2>2. CASE Advising
    BY <2>2, AskKeeps, WorkKeeps, DetectKeeps, ProfileKeeps, TickKeeps DEF Advising, AdviceNext
  <2> QED BY <2>1, <2>2 DEF OutNext, Downloading, Registering, outVars
<1> QED BY <1>1, StartsSound, PTL DEF OutSpec

-----------------------------------------------------------------------------

\* The ranking

\* Division by the memory there is keeps the order.
LEMMA DivideKeepsOrder ==
  ASSUME NEW a \in Int, NEW b \in Int, NEW d \in Nat \ {0}, a >= b
  PROVE  a \div d >= b \div d
OBVIOUS

LEMMA DivideBounds ==
  ASSUME NEW a \in Int, NEW d \in Nat \ {0}, NEW k \in Int
  PROVE  /\ a \div d \in Int
         /\ a <= k * d => a \div d <= k
         /\ a >= k * d => a \div d >= k
<1>1. a \div d \in Int /\ d * (a \div d) <= a /\ a < d * (a \div d) + d
  OBVIOUS
<1> DEFINE q == a \div d
<1>2. q \in Int /\ d * q <= a /\ a < d * q + d
  BY <1>1
<1> HIDE DEF q
<1>3. a <= k * d => q <= k
  BY <1>2
<1>4. a >= k * d => q >= k
  BY <1>2
<1> QED BY <1>2, <1>3, <1>4 DEF q

\* Where the pieces of the fit lie.
LEMMA FitRange ==
  ASSUME NEW need \in Nat, NEW have \in Nat,
         NEW fit, fit = Fit(need, have)
  PROVE  /\ fit \in 0 .. 100
         /\ need <= have /\ have > 0 => fit >= 40
         /\ have < need => fit <= 40
         /\ 10 * need <= 8 * have /\ have > 0 => fit >= 80
         /\ 8 * have < 10 * need => fit <= 80
<1>1. CASE have = 0
  BY <1>1 DEF Fit
<1>2. CASE have > 0 /\ 2 * need <= have
  BY <1>2 DEF Fit
<1>3. CASE have > 0 /\ have < 2 * need /\ 10 * need <= 8 * have
  <2> DEFINE q == (20 * (8 * have - 10 * need)) \div (3 * have)
  <2>1. q \in Int /\ 0 <= q /\ q <= 20
    BY <1>3, DivideBounds
  <2>2. fit = 80 + q
    BY <1>3 DEF Fit
  <2> HIDE DEF q
  <2> QED BY <1>3, <2>1, <2>2
<1>4. CASE have > 0 /\ 8 * have < 10 * need /\ need <= have
  <2> DEFINE q == (200 * (have - need)) \div have
  <2>1. q \in Int /\ 0 <= q /\ q <= 40
    BY <1>4, DivideBounds
  <2>2. fit = 40 + q
    BY <1>4 DEF Fit
  <2> HIDE DEF q
  <2> QED BY <1>4, <2>1, <2>2
<1>5. CASE have > 0 /\ have < need /\ need < 2 * have
  <2> DEFINE q == (40 * (2 * have - need)) \div have
  <2>1. q \in Int /\ 0 <= q /\ q <= 40
    BY <1>5, DivideBounds
  <2>2. fit = q
    BY <1>5 DEF Fit
  <2> HIDE DEF q
  <2> QED BY <1>5, <2>1, <2>2
<1>6. CASE have > 0 /\ 2 * have <= need
  BY <1>6 DEF Fit
<1>7. \/ have = 0
      \/ have > 0 /\ 2 * need <= have
      \/ have > 0 /\ have < 2 * need /\ 10 * need <= 8 * have
      \/ have > 0 /\ 8 * have < 10 * need /\ need <= have
      \/ have > 0 /\ have < need /\ need < 2 * have
      \/ have > 0 /\ 2 * have <= need
  OBVIOUS
<1> QED BY <1>1, <1>2, <1>3, <1>4, <1>5, <1>6, <1>7

\* A model that needs less fits no worse.
LEMMA FitFalls ==
  ASSUME NEW less \in Nat, NEW more \in Nat, less <= more, NEW have \in Nat,
         NEW best, best = Fit(less, have), NEW worst, worst = Fit(more, have)
  PROVE  best >= worst
<1>0. /\ best \in 0 .. 100
      /\ less <= have /\ have > 0 => best >= 40
      /\ 10 * less <= 8 * have /\ have > 0 => best >= 80
      /\ worst \in 0 .. 100
      /\ have < more => worst <= 40
      /\ 8 * have < 10 * more => worst <= 80
  BY FitRange
<1>1. CASE have = 0
  BY <1>1 DEF Fit
<1>2. CASE have > 0 /\ 2 * less <= have
  <2>1. best = 100
    BY <1>2 DEF Fit
  <2> QED BY <1>0, <2>1
<1>3. CASE have > 0 /\ 2 * have <= more
  <2>1. worst = 0
    BY <1>3 DEF Fit
  <2> QED BY <1>0, <2>1
<1>4. CASE have > 0 /\ have < 2 * less /\ 10 * more <= 8 * have
  <2> DEFINE p == (20 * (8 * have - 10 * less)) \div (3 * have)
             q == (20 * (8 * have - 10 * more)) \div (3 * have)
  <2>1. p \in Int /\ q \in Int /\ p >= q
    BY <1>4, DivideKeepsOrder
  <2>2. best = 80 + p /\ worst = 80 + q
    BY <1>4 DEF Fit
  <2> HIDE DEF p, q
  <2> QED BY <2>1, <2>2
<1>5. CASE have > 0 /\ 8 * have < 10 * less /\ more <= have
  <2> DEFINE p == (200 * (have - less)) \div have
             q == (200 * (have - more)) \div have
  <2>1. p \in Int /\ q \in Int /\ p >= q
    BY <1>5, DivideKeepsOrder
  <2>2. best = 40 + p /\ worst = 40 + q
    BY <1>5 DEF Fit
  <2> HIDE DEF p, q
  <2> QED BY <2>1, <2>2
<1>6. CASE have > 0 /\ have < less /\ more < 2 * have
  <2> DEFINE p == (40 * (2 * have - less)) \div have
             q == (40 * (2 * have - more)) \div have
  <2>1. p \in Int /\ q \in Int /\ p >= q
    BY <1>6, DivideKeepsOrder
  <2>2. best = p /\ worst = q
    BY <1>6 DEF Fit
  <2> HIDE DEF p, q
  <2> QED BY <2>1, <2>2
<1>7. CASE have > 0 /\ 10 * less <= 8 * have /\ 8 * have < 10 * more
  BY <1>7, <1>0
<1>8. CASE have > 0 /\ less <= have /\ have < more
  BY <1>8, <1>0
<1> QED BY <1>1, <1>2, <1>3, <1>4, <1>5, <1>6, <1>7, <1>8

\* The memory that counts for a model.
Has(reply, memory) == IF reply.have = Unsaid THEN memory ELSE reply.have

\* What does not depend on the fit.
Rest(m, reply, preference) ==
  LET w == Weights(preference)
  IN w[2] * 55 + w[3] * Speed(reply.speed) + w[4] * Popularity(m.downloads)

\* The ranks that the engine's replies give. A model that can run has one.
LEMMA RankOf ==
  ASSUME NEW m \in Stock, NEW reply \in Replies, reply.can = TRUE, NEW memory \in Nat,
         NEW preference
  PROVE  LET fit == Fit(reply.need, Has(reply, memory))
             w   == Weights(preference)
         IN  /\ Has(reply, memory) \in Nat /\ reply.need \in Nat /\ fit \in Nat
             /\ w[1] \in Nat /\ Rest(m, reply, preference) \in Nat \ {0}
             /\ Rank(m, reply, memory, preference) = w[1] * fit + Rest(m, reply, preference)
<1> DEFINE a == Weights(preference)[1]
           b == Weights(preference)[2]
           c == Weights(preference)[3]
           d == Weights(preference)[4]
           f == Fit(reply.need, Has(reply, memory))
           s == Speed(reply.speed)
           t == Popularity(m.downloads)
<1>1. /\ Has(reply, memory) \in Nat /\ reply.need \in Nat /\ reply.speed \in Nat
      /\ m.downloads \in Nat /\ reply # NoReply
  BY AdviceAssumption DEF Has
<1>2. f \in Nat /\ s \in Nat /\ t \in Nat
  <2>1. f \in 0 .. 100
    BY <1>1, FitRange
  <2>2. s \in Nat /\ t \in Nat
    BY <1>1 DEF Speed, Popularity
  <2> QED BY <2>1, <2>2
<1>3. a \in Nat /\ b \in Nat \ {0} /\ c \in Nat /\ d \in Nat
  BY DEF Weights
<1>4. HardwareFit(reply.need, Has(reply, memory), reply.can) = f
  BY DEF HardwareFit
<1>5. Rank(m, reply, memory, preference) = a * f + b * 55 + c * s + d * t
  BY <1>1, <1>4 DEF Rank, Scored, Has
<1> HIDE DEF a, b, c, d, f, s, t
<1>6. a * f \in Nat /\ b * 55 \in Nat \ {0} /\ c * s \in Nat /\ d * t \in Nat
  BY <1>2, <1>3
<1>7. b * 55 + c * s + d * t \in Nat \ {0}
  BY <1>6
<1>8. a * f + b * 55 + c * s + d * t = a * f + (b * 55 + c * s + d * t)
  BY <1>6
<1>9. Rest(m, reply, preference) = b * 55 + c * s + d * t
  BY DEF Rest, b, c, d, s, t
<1> QED BY <1>1, <1>2, <1>3, <1>5, <1>7, <1>8, <1>9 DEF a, f

LEMMA RunnableHasRank ==
  ASSUME NEW m \in Stock, NEW reply \in Replies, reply.can = TRUE, NEW memory \in Nat,
         NEW preference
  PROVE  Rank(m, reply, memory, preference) \in Nat \ {0}
<1> DEFINE a == Weights(preference)[1]
           f == Fit(reply.need, Has(reply, memory))
           rest == Rest(m, reply, preference)
<1>1. /\ a \in Nat /\ f \in Nat /\ rest \in Nat \ {0}
      /\ Rank(m, reply, memory, preference) = a * f + rest
  BY RankOf
<1> HIDE DEF a, f, rest
<1>2. a * f \in Nat
  BY <1>1
<1> QED BY <1>1, <1>2

\* Of two models alike in all else, the one that needs less ranks no lower.
LEMMA RankFalls ==
  ASSUME NEW m \in Stock, NEW n \in Stock, NEW p \in Replies, NEW q \in Replies,
         p.can = TRUE, q.can = TRUE, NEW memory \in Nat, NEW preference
  PROVE  m.downloads = n.downloads /\ p.speed = q.speed /\ p.have = q.have /\ p.need <= q.need
           => Rank(m, p, memory, preference) >= Rank(n, q, memory, preference)
<1> DEFINE a == Weights(preference)[1]
           f == Fit(p.need, Has(p, memory))
           g == Fit(q.need, Has(q, memory))
           rest == Rest(m, p, preference)
<1>1. /\ Has(p, memory) \in Nat /\ p.need \in Nat /\ a \in Nat /\ f \in Nat /\ rest \in Nat
      /\ Rank(m, p, memory, preference) = a * f + rest
  BY RankOf
<1>2. q.need \in Nat /\ g \in Nat /\ Rank(n, q, memory, preference) = a * g + Rest(n, q, preference)
  BY RankOf
<1> HAVE m.downloads = n.downloads /\ p.speed = q.speed /\ p.have = q.have /\ p.need <= q.need
<1>3. Has(q, memory) = Has(p, memory) /\ Rest(n, q, preference) = rest
  BY DEF Has, Rest
<1>4. f >= g
  BY <1>1, <1>2, <1>3, FitFalls
<1> HIDE DEF f, g, a, rest
<1>5. a * f >= a * g /\ a * f \in Nat /\ a * g \in Nat
  BY <1>1, <1>2, <1>4
<1> QED BY <1>1, <1>2, <1>3, <1>5

-----------------------------------------------------------------------------
\* The list of a request was chosen by the ranks that its memory gives.
Ordered(memory, offer) ==
  /\ \A m \in DOMAIN offer.says : m \in Stock /\ offer.says[m] \in Replies \cup {NoReply}
  /\ offer.top \subseteq DOMAIN offer.says
  /\ \A m \in offer.top, n \in DOMAIN offer.says \ offer.top :
       Rank(m, offer.says[m], memory, offer.preference)
         >= Rank(n, offer.says[n], memory, offer.preference)

\* No list is there before the request is over.
OffersInv ==
  \A c \in Clients : /\ client[c].at # "done" => client[c].offer = NoOffer
                     /\ Ordered(client[c].memory, client[c].offer)

\* An empty list is in order, whatever the memory.
LEMMA NothingOrdered == ASSUME NEW memory PROVE Ordered(memory, NoOffer)
BY DEF Ordered, NoOffer

\* A request that has no list after a step, or keeps it, leaves all in order.
LEMMA StillOrdered ==
  ASSUME OffersInv, NEW c \in Clients, NEW r, Put(c, r), AdviceInv,
         r.at # "done" => r.offer = NoOffer, Ordered(r.memory, r.offer)
  PROVE  OffersInv'
<1>1. \A d \in Clients : client'[d] = IF d = c THEN r ELSE client[d]
  BY DEF AdviceInv, Put
<1> QED BY <1>1 DEF OffersInv, Ordered

LEMMA RecommendKeepsOrder ==
  ASSUME AdviceInv, OffersInv, NEW c \in Clients, Recommend(c)
  PROVE  OffersInv'
<1>1. PICK least \in Sizes, most \in Sizes, preference \in Preferences :
        \E says \in [Offered(least, most) -> Replies \cup {NoReply}] :
          LET rank == [m \in Offered(least, most) |->
                         Rank(m, says[m], client[c].memory, preference)]
          IN \E top \in TopOf(rank) :
               Put(c, [client[c] EXCEPT !.at = "done", !.age = 0,
                         !.offer = [preference |-> preference, says |-> says, top |-> top]])
  BY DEF Recommend
<1> DEFINE offered == Offered(least, most)
<1>2. PICK says \in [offered -> Replies \cup {NoReply}] :
        LET rank == [m \in offered |-> Rank(m, says[m], client[c].memory, preference)]
        IN \E top \in TopOf(rank) :
             Put(c, [client[c] EXCEPT !.at = "done", !.age = 0,
                       !.offer = [preference |-> preference, says |-> says, top |-> top]])
  BY <1>1
<1> DEFINE rank == [m \in offered |-> Rank(m, says[m], client[c].memory, preference)]
<1>3. PICK top \in TopOf(rank) :
        Put(c, [client[c] EXCEPT !.at = "done", !.age = 0,
                  !.offer = [preference |-> preference, says |-> says, top |-> top]])
  BY <1>2
<1> DEFINE offer == [preference |-> preference, says |-> says, top |-> top]
<1>4. Ordered(client[c].memory, offer)
  <2>1. /\ top \subseteq offered /\ offered \subseteq Stock /\ DOMAIN says = offered
        /\ \A m \in top, n \in offered \ top : rank[m] >= rank[n]
    BY <1>3 DEF TopOf, Offered
  <2>2. \A m \in offered : rank[m] = Rank(m, says[m], client[c].memory, preference)
    OBVIOUS
  <2> HIDE DEF offered, rank
  <2> QED BY <2>1, <2>2 DEF Ordered
<1> HIDE DEF offer
<1> DEFINE r == [client[c] EXCEPT !.at = "done", !.age = 0, !.offer = offer]
<1>5. DOMAIN client[c] = Fields
  BY DEF AdviceInv, Sound
<1>6. r.at = "done" /\ r.memory = client[c].memory /\ r.offer = offer
  BY <1>5 DEF Fields
<1>7. Put(c, r)
  BY <1>3 DEF offer
<1> HIDE DEF r
<1> QED BY <1>4, <1>6, <1>7, StillOrdered

\* The other steps of a request leave it without a list.
LEMMA OthersKeepOrder ==
  ASSUME AdviceInv, OffersInv, NEW c \in Clients, NEW r, Put(c, r), r.offer = NoOffer
  PROVE  OffersInv'
BY StillOrdered, NothingOrdered

LEMMA AskingKeepsOrder ==
  ASSUME AdviceInv, OffersInv, NEW kind, NEW c \in Clients,
         Ask(c, kind) \/ AskPlan(c, kind) \/ AskExecute(c, kind) \/ Refresh(c, kind) \/ Leave(c)
  PROVE  OffersInv'
<1>1. CASE Ask(c, kind) \/ Refresh(c, kind)
  <2>1. [Away EXCEPT !.kind = kind, !.at = "detect"].offer = NoOffer
    BY DEF Away
  <2> QED BY <1>1, <2>1, OthersKeepOrder DEF Ask, Refresh
<1>2. CASE AskPlan(c, kind)
  <2>1. PICK size \in Sizes : Put(c, [Away EXCEPT !.kind = kind, !.at = "assess", !.size = size])
    BY <1>2 DEF AskPlan
  <2>2. [Away EXCEPT !.kind = kind, !.at = "assess", !.size = size].offer = NoOffer
    BY DEF Away
  <2> QED BY <2>1, <2>2, OthersKeepOrder
<1>3. CASE AskExecute(c, kind)
  <2>1. [Away EXCEPT !.kind = kind, !.at = "assess"].offer = NoOffer
    BY DEF Away
  <2> QED BY <1>3, <2>1, OthersKeepOrder DEF AskExecute
<1>4. CASE Leave(c)
  <2>1. Away.offer = NoOffer
    BY DEF Away
  <2> QED BY <1>4, <2>1, OthersKeepOrder DEF Leave
<1> QED BY <1>1, <1>2, <1>3, <1>4

LEMMA WorkingKeepsOrder ==
  ASSUME AdviceInv, OffersInv, NEW c \in Clients, client[c].at # "done",
         \/ Assess(c) \/ Detect(c) \/ Fetch(c) \/ Remember(c) \/ FetchFails(c) \/ Inform(c)
         \/ Execute(c, "convert", "quantize") \/ Execute(c, "quantize", "done")
  PROVE  OffersInv'
<1>0. DOMAIN client[c] = Fields /\ client[c].offer = NoOffer
  BY DEF AdviceInv, Sound, OffersInv
<1>1. CASE Assess(c)
  <2> DEFINE r(level) == [client[c] EXCEPT !.level = level,
                                           !.at = IF client[c].kind = "plan" THEN "detect"
                                                  ELSE IF level = 4 THEN "done" ELSE "convert"]
  <2>1. PICK level \in 0 .. 4 : Put(c, r(level))
    BY <1>1 DEF Assess
  <2>2. r(level).offer = NoOffer
    BY <1>0 DEF Fields
  <2> HIDE DEF r
  <2> QED BY <2>1, <2>2, OthersKeepOrder
<1>2. ASSUME NEW memory, NEW age, Know(c, memory, age)
      PROVE  OffersInv'
  <2>1. [client[c] EXCEPT !.at = "known", !.memory = memory, !.age = age,
                          !.began = 0, !.seen = 0].offer = NoOffer
    BY <1>0 DEF Fields
  <2> QED BY <1>2, <2>1, OthersKeepOrder DEF Know
<1>3. CASE Detect(c)
  <2>1. CASE Put(c, [client[c] EXCEPT !.at = "fetch", !.began = clock])
    <3>1. [client[c] EXCEPT !.at = "fetch", !.began = clock].offer = NoOffer
      BY <1>0 DEF Fields
    <3> QED BY <2>1, <3>1, OthersKeepOrder
  <2> QED BY <1>2, <1>3, <2>1 DEF Detect
<1>4. CASE Fetch(c)
  <2>1. PICK memory \in Memories :
          Put(c, [client[c] EXCEPT !.at = "fetched", !.memory = memory, !.seen = clock])
    BY <1>4 DEF Fetch
  <2>2. [client[c] EXCEPT !.at = "fetched", !.memory = memory, !.seen = clock].offer = NoOffer
    BY <1>0 DEF Fields
  <2> QED BY <2>1, <2>2, OthersKeepOrder
<1>5. CASE Remember(c) \/ FetchFails(c)
  BY <1>2, <1>5 DEF Remember, FetchFails
<1>6. CASE Inform(c)
  <2>1. [client[c] EXCEPT !.at = "done", !.age = 0].offer = NoOffer
    BY <1>0 DEF Fields
  <2> QED BY <1>6, <2>1, OthersKeepOrder DEF Inform
<1>7. ASSUME NEW step, NEW next, Execute(c, step, next)
      PROVE  OffersInv'
  <2>1. ASSUME NEW accepted \in BOOLEAN
        PROVE  [Note(c, step, accepted) EXCEPT !.at = next].offer = NoOffer
    BY <1>0 DEF Note, Fields
  <2>2. [client[c] EXCEPT !.at = "done"].offer = NoOffer
    BY <1>0 DEF Fields
  <2> QED BY <2>1, <2>2, <1>7, OthersKeepOrder DEF Execute
<1> QED BY <1>1, <1>3, <1>4, <1>5, <1>6, <1>7

LEMMA AdvisingKeepsOrder ==
  ASSUME AdviceInv, OffersInv, NEW kind, AdviceNext(kind)
  PROVE  OffersInv'
<1>1. CASE Tick
  BY <1>1 DEF Tick, OffersInv, Ordered
<1>2. ASSUME NEW c \in Clients,
             \/ Assess(c) \/ Detect(c) \/ Fetch(c) \/ Remember(c) \/ FetchFails(c) \/ Inform(c)
             \/ Execute(c, "convert", "quantize") \/ Execute(c, "quantize", "done")
      PROVE  OffersInv'
  <2>1. client[c].at # "done"
    BY <1>2 DEF Assess, Detect, Fetch, Remember, FetchFails, Inform, Execute
  <2> QED BY <1>2, <2>1, WorkingKeepsOrder
<1> QED BY <1>1, <1>2, AskingKeepsOrder, RecommendKeepsOrder DEF AdviceNext

LEMMA OffersInvariant == OutSpec => [](AdviceInv /\ OffersInv)
<1>1. OutInit => OffersInv
  BY NothingOrdered DEF OutInit, AdviceInit, OffersInv, Away
<1>2. AdviceInv /\ OffersInv /\ [OutNext]_outVars => OffersInv'
  <2> SUFFICES ASSUME AdviceInv, OffersInv, [OutNext]_outVars PROVE OffersInv'
    OBVIOUS
  <2>1. CASE UNCHANGED adviceVars
    BY <2>1 DEF adviceVars, OffersInv, Ordered
  <2>2. CASE Advising
    BY <2>2, AdvisingKeepsOrder DEF Advising
  <2> QED BY <2>1, <2>2 DEF OutNext, Downloading, Registering, outVars
<1> QED BY <1>1, <1>2, AdviceInvariant, PTL DEF OutSpec

-----------------------------------------------------------------------------

\* The two functions that choose a width agree, and 30% of the memory stays free.
THEOREM WidthsFit ==
  ASSUME NEW size \in Nat \ {0}, NEW memory \in Nat
  PROVE  /\ SuggestedBits(size, memory) > 4 =>
              10 * size * SuggestedBits(size, memory) <= 56 * memory
         /\ StepBits(size, memory) <= SuggestedBits(size, memory)
BY DEF SuggestedBits, StepBits

\* Whatever requests overlap: a profile in use was true within _CACHE_TTL, a
\* plan leaves its share of the memory free and its step agrees with its
\* suggestion, a model that cannot run takes no place of one that can, and a
\* refused step is never reported as completed.
THEOREM AdviceAlwaysTrue == OutSpec => []AdviceTrue
<1>1. AdviceInv => ProfilesFresh /\ PlanFits /\ RefusalsReported
  <2> SUFFICES ASSUME AdviceInv, NEW c \in Clients, Sound(client[c])
               PROVE  /\ client[c].age <= (IF CacheTtl > Timeout THEN CacheTtl - 1 ELSE Timeout)
                      /\ client[c].at = "done" /\ client[c].kind = "plan" =>
                           LET r == client[c]
                               bits == SuggestedBits(r.size, r.memory)
                           IN /\ bits > 4 => 10 * r.size * bits <= 56 * r.memory
                              /\ Quantizes(r.level) => StepBits(r.size, r.memory) <= bits
                      /\ client[c].refused # {} => Reported(client[c]) # "completed"
    BY DEF AdviceInv, ProfilesFresh, PlanFits, RefusalsReported
  <2>1. client[c].kind = "plan" => client[c].size \in Nat \ {0} /\ client[c].memory \in Nat
    BY DEF Sound
  <2>2. client[c].refused # {} => Reported(client[c]) # "completed"
    BY DEF Sound, Reported
  <2> QED BY <2>1, <2>2, WidthsFit DEF Sound
<1>2. AdviceInv /\ OffersInv => RunnableFirst
  <2> SUFFICES ASSUME AdviceInv, OffersInv, NEW c \in Clients,
                      NEW m \in DOMAIN client[c].offer.says, NEW n \in DOMAIN client[c].offer.says,
                      client[c].offer.says[n] # NoReply, client[c].offer.says[n].can
               PROVE  LET o == client[c].offer
                          r(x) == Rank(x, o.says[x], client[c].memory, o.preference)
                          can == o.says[m] # NoReply /\ o.says[m].can
                      IN  /\ m \in o.top /\ n \notin o.top => can
                          /\ /\ can /\ m.downloads = n.downloads
                             /\ o.says[m].speed = o.says[n].speed /\ o.says[m].have = o.says[n].have
                             /\ o.says[m].need <= o.says[n].need
                             => r(m) >= r(n)
    BY DEF RunnableFirst
  <2> DEFINE o == client[c].offer
             memory == client[c].memory
  <2>1. memory \in Nat /\ Ordered(memory, o)
    BY DEF AdviceInv, Sound, OffersInv
  <2>2. m \in Stock /\ n \in Stock /\ o.says[m] \in Replies \cup {NoReply} /\ o.says[n] \in Replies
    BY <2>1 DEF Ordered
  <2>3. ASSUME m \in o.top, n \notin o.top, ~(o.says[m] # NoReply /\ o.says[m].can)
        PROVE  FALSE
    <3>1. Rank(m, o.says[m], memory, o.preference) = 0
      BY <2>3 DEF Rank
    <3>2. Rank(n, o.says[n], memory, o.preference) \in Nat \ {0}
      BY <2>1, <2>2, RunnableHasRank
    <3>3. Rank(m, o.says[m], memory, o.preference) >= Rank(n, o.says[n], memory, o.preference)
      BY <2>1, <2>3 DEF Ordered
    <3> QED BY <3>1, <3>2, <3>3
  <2>4. ASSUME o.says[m] # NoReply, o.says[m].can, m.downloads = n.downloads,
               o.says[m].speed = o.says[n].speed, o.says[m].have = o.says[n].have,
               o.says[m].need <= o.says[n].need
        PROVE  Rank(m, o.says[m], memory, o.preference) >= Rank(n, o.says[n], memory, o.preference)
    BY <2>1, <2>2, <2>4, RankFalls
  <2> QED BY <2>3, <2>4
<1> QED BY <1>1, <1>2, OffersInvariant, PTL DEF AdviceTrue

-----------------------------------------------------------------------------
(* Downloads                                                               *)

Honoured == RangeAnswers = {206} /\ "completing" \notin DbFaults

Early     == {"starting", "marking", "opening", "backoff", "givingup"}
Streaming == {"streaming", "saving"}
Stored    == {"verifying", "completing"}
Finished  == {"completed", "failed", "cancelled"}

\* The first n blocks of the remote file are in the file, somewhere.
Covers(file, n) == \A b \in 1 .. n : \E i \in 1 .. Len(file) : file[i] = b

\* What has been hashed is what this attempt received: the last blocks of the
\* file, and all of it when the attempt began with an empty one.
HashIsTail ==
  /\ Len(hashed) <= offset
  /\ \A i \in 1 .. Len(hashed) : hashed[i] = offset - Len(hashed) + i
  /\ Len(hashed) = offset => part = hashed

\* The row counts no block that the .part has not got.
SavedIsThere == saved > 0 => part \in Seq(1 .. Blocks) /\ Covers(part, saved)

Receiving ==
  /\ part \in Seq(1 .. Blocks)
  /\ offset = sent /\ saved <= offset /\ Covers(part, offset)
  /\ HashIsTail

Replaced ==
  /\ bin # Absent /\ part = Absent
  /\ hashed = Source => bin = Source
  /\ pc = "completing" => (expected => hashed = Source)

Finishing ==
  /\ bin # Absent /\ part = Absent
  /\ expected => bin = Source

\* The inductive invariant: what is known at each point of the worker.
DInv ==
  /\ TypeOK
  /\ pc = "backoff" => attempt < MaxRetries
  /\ pc \in Early \cup Streaming => bin = Absent /\ SavedIsThere
  /\ pc \in Early \cup Streaming \cup Stored \cup {"rejecting"} => status # "completed"
  /\ pc \in Streaming => Receiving
  /\ pc \in Stored => Replaced
  /\ pc = "rejecting" => bin = Absent
  /\ bin # Absent /\ total > 0 => Covers(bin, Blocks)
  /\ status = "completed" => Finishing
  /\ pc \in {"returning", "ended"} /\ canceller = "idle" => status \in Finished

USE ConstantsAssumption

-----------------------------------------------------------------------------
\* Files are sequences of blocks

LEMMA NoBlocksIsNoFile == ASSUME NEW f \in Seq(1 .. Blocks) PROVE f # Absent
<1> SUFFICES ASSUME f = Absent PROVE FALSE
  OBVIOUS
<1>1. Len(f) = 1 /\ f[1] = 0
  BY DEF Absent
<1> QED BY <1>1

LEMMA SourceIsFile == /\ Source \in Seq(1 .. Blocks) /\ Len(Source) = Blocks
                      /\ \A i \in 1 .. Blocks : Source[i] = i
BY DEF Source

LEMMA CoversAppend ==
  ASSUME NEW f \in Seq(1 .. Blocks), NEW n \in 0 .. Blocks - 1, Covers(f, n)
  PROVE  Append(f, n + 1) \in Seq(1 .. Blocks) /\ Covers(Append(f, n + 1), n + 1)
<1> DEFINE g == Append(f, n + 1)
<1>1. /\ g \in Seq(1 .. Blocks) /\ Len(g) = Len(f) + 1
      /\ g[Len(f) + 1] = n + 1 /\ \A i \in 1 .. Len(f) : g[i] = f[i]
  OBVIOUS
<1>2. ASSUME NEW b \in 1 .. n + 1 PROVE \E i \in 1 .. Len(g) : g[i] = b
  <2>1. CASE b = n + 1
    BY <1>1, <2>1
  <2>2. CASE b \in 1 .. n
    <3>1. PICK i \in 1 .. Len(f) : f[i] = b
      BY <2>2 DEF Covers
    <3> QED BY <3>1, <1>1
  <2> QED BY <2>1, <2>2, SMTT(30)
<1> QED BY <1>1, <1>2 DEF Covers

\* A file that covers the remote one holds exactly its blocks.
LEMMA CoversHolds ==
  ASSUME NEW f \in Seq(1 .. Blocks), Covers(f, Blocks)
  PROVE  Holds(f) = 1 .. Blocks
<1>1. DOMAIN f = 1 .. Len(f) /\ \A i \in 1 .. Len(f) : f[i] \in 1 .. Blocks
  OBVIOUS
<1> QED BY <1>1 DEF Covers, Holds

-----------------------------------------------------------------------------
\* One lemma for the failures, one for each kind of step

LEMMA DownloadStarts == Init => DInv
BY DEF Init, DInv, TypeOK, File, Control, Caught, Uncaught, Gone, WithPartPath, Early, Streaming,
       Stored, SavedIsThere

LEMMA FailKeeps ==
  ASSUME DInv, NEW from \in {"marking", "opening"} \cup Streaming, Fail(from)
  PROVE  DInv'
<1>1. /\ pc = from /\ pc' = (IF attempt >= MaxRetries THEN "givingup" ELSE "backoff")
      /\ UNCHANGED <<row, files, loop, canceller>>
  BY DEF Fail, At
<1>2. TypeOK /\ bin = Absent /\ SavedIsThere /\ status # "completed"
  BY <1>1 DEF DInv, Early, Streaming
<1>3. TypeOK'
  BY <1>1, <1>2 DEF TypeOK, Control, Caught, Uncaught, Gone, WithPartPath, row, files, loop
<1>4. SavedIsThere'
  BY <1>1, <1>2 DEF SavedIsThere, Covers, row, files, loop
<1>5. pc' = "backoff" => attempt' < MaxRetries
  BY <1>1, <1>2 DEF TypeOK, loop
<1> QED BY <1>1, <1>2, <1>3, <1>4, <1>5 DEF DInv, Early, Streaming, Stored, Absent, row, files, loop

LEMMA OpenKeeps ==
  ASSUME Honoured, DInv, NEW answer \in {200, 206}, Open(answer)
  PROVE  DInv'
<1>1. pc = "opening" /\ pc' = "streaming" /\ UNCHANGED <<row, bin, attempt, canceller>>
  BY DEF Open, At
<1>2. bin = Absent /\ SavedIsThere /\ TypeOK /\ status # "completed"
  BY <1>1 DEF DInv, Early
<1>3. offset' = saved /\ sent' = saved /\ saved <= Blocks /\ total' \in {0, Blocks}
  BY <1>2 DEF Open, Honoured, TypeOK
<1>4. part' = (IF saved > 0 THEN part ELSE <<>>) /\ hashed' = <<>>
  <2>1. saved > 0 => part # Absent
    BY <1>2, NoBlocksIsNoFile DEF SavedIsThere
  <2> QED BY <2>1 DEF Open
<1>5. part' \in Seq(1 .. Blocks) /\ Covers(part', saved)
  <2>1. CASE saved > 0
    BY <2>1, <1>2, <1>4 DEF SavedIsThere
  <2>2. CASE saved = 0
    BY <2>2, <1>4 DEF Covers
  <2> QED BY <2>1, <2>2, <1>2 DEF TypeOK
<1>6. SavedIsThere'
  BY <1>1, <1>5 DEF SavedIsThere, Covers, row
<1>7. Receiving'
  BY <1>1, <1>2, <1>3, <1>4, <1>5 DEF Receiving, HashIsTail, Covers, row, TypeOK
<1>8. TypeOK'
  BY <1>1, <1>2, <1>3, <1>4, <1>5 DEF TypeOK, File, Control, Caught, Uncaught, Gone, WithPartPath, row
<1> QED BY <1>1, <1>2, <1>6, <1>7, <1>8 DEF DInv, Early, Streaming, Stored, row

LEMMA ReceiveKeeps == DInv /\ Receive => DInv'
<1> SUFFICES ASSUME DInv, Receive PROVE DInv'
  OBVIOUS
<1>1. /\ pc = "streaming" /\ pc' \in Streaming /\ UNCHANGED <<row, bin, attempt, total, canceller>>
      /\ sent < Blocks /\ sent' = sent + 1 /\ offset' = offset + 1
      /\ part' = Append(part, sent + 1) /\ hashed' = Append(hashed, sent + 1)
  BY DEF Receive, At, Streaming
<1>2. TypeOK /\ Receiving /\ bin = Absent /\ SavedIsThere /\ status # "completed"
  BY <1>1 DEF DInv, Streaming
<1>3. part' \in Seq(1 .. Blocks) /\ Covers(part', offset + 1)
  BY <1>1, <1>2, CoversAppend DEF Receiving, TypeOK
<1>4. HashIsTail'
  <2>1. /\ Len(hashed') = Len(hashed) + 1 /\ hashed'[Len(hashed) + 1] = offset + 1
        /\ \A i \in 1 .. Len(hashed) : hashed'[i] = hashed[i]
    BY <1>1, <1>2 DEF TypeOK, Receiving
  <2>2. Len(hashed) \in Nat /\ offset \in Nat
    BY <1>2 DEF TypeOK
  <2>0. offset' = offset + 1 /\ HashIsTail
    BY <1>1, <1>2 DEF Receiving
  <2>3. \A i \in 1 .. Len(hashed') : hashed'[i] = offset' - Len(hashed') + i
    BY <2>0, <2>1, <2>2 DEF HashIsTail
  <2>4. Len(hashed') = offset' => part' = hashed'
    <3> SUFFICES ASSUME Len(hashed') = offset' PROVE part' = hashed'
      OBVIOUS
    <3>1. Len(hashed) = offset
      BY <2>0, <2>1, <2>2
    <3> QED BY <3>1, <1>1, <1>2 DEF Receiving, HashIsTail
  <2> QED BY <2>1, <2>2, <2>3, <2>4, <1>1, <1>2 DEF Receiving, HashIsTail
<1>5. Receiving' /\ SavedIsThere'
  <2>1. offset \in Nat /\ saved \in Nat /\ saved <= offset /\ offset = sent
    BY <1>2 DEF TypeOK, Receiving
  <2>2. UNCHANGED saved /\ offset' = offset + 1 /\ sent' = offset'
    BY <1>1, <2>1 DEF row
  <2>3. Covers(part', saved)
    BY <1>3, <2>1 DEF Covers
  <2> QED BY <1>3, <1>4, <2>1, <2>2, <2>3 DEF Receiving, SavedIsThere, Covers
<1>6. TypeOK'
  BY <1>1, <1>2, <1>3 DEF TypeOK, File, Control, Caught, Uncaught, Gone, WithPartPath, Streaming, row
<1> QED BY <1>1, <1>2, <1>5, <1>6 DEF DInv, Early, Streaming, Stored, row

LEMMA ReplaceKeeps == DInv /\ Replace => DInv'
<1> SUFFICES ASSUME DInv, Replace PROVE DInv'
  OBVIOUS
<1>1. /\ pc = "streaming" /\ pc' = "verifying" /\ UNCHANGED <<row, loop, canceller>>
      /\ offset >= total /\ bin' = part /\ part' = Absent
  BY DEF Replace, At
<1>2. TypeOK /\ Receiving /\ status # "completed"
  BY <1>1 DEF DInv, Streaming, Early
<1>3. bin' # Absent
  BY <1>1, <1>2, NoBlocksIsNoFile DEF Receiving
<1>4. hashed = Source => part = Source
  <2> SUFFICES ASSUME hashed = Source PROVE part = Source
    OBVIOUS
  <2>1. Len(hashed) = Blocks /\ hashed[1] = 1
    BY SourceIsFile
  <2>2. offset - Blocks + 1 = 1
    BY <2>1, <1>2 DEF Receiving, HashIsTail
  <2> QED BY <2>1, <2>2, <1>2 DEF Receiving, HashIsTail, TypeOK
<1>5. total > 0 => Covers(part, Blocks)
  <2>1. total > 0 => offset = Blocks
    BY <1>1, <1>2 DEF Receiving, TypeOK
  <2> QED BY <2>1, <1>2 DEF Receiving
<1>6. Replaced' /\ (bin # Absent /\ total > 0 => Covers(bin, Blocks))'
  BY <1>1, <1>3, <1>4, <1>5 DEF Replaced, Covers, Source, Absent, row, loop
<1>7. TypeOK'
  BY <1>1, <1>2 DEF TypeOK, File, Control, Caught, Uncaught, Gone, WithPartPath, row, loop
<1> QED BY <1>1, <1>2, <1>6, <1>7 DEF DInv, Early, Streaming, Stored, row

\* The steps that move no block.
LEMMA StreamStepsKeep ==
  ASSUME DInv, Start \/ MarkDownloading \/ Save \/ Backoff \/ GiveUp \/ MarkCancelled
  PROVE  DInv'
<1>1. CASE Start
  BY <1>1 DEF Start, At, DInv, TypeOK, Control, Caught, Uncaught, Gone, WithPartPath, Early,
     Streaming, Stored, SavedIsThere, Finishing, Covers, row, files, loop
<1>2. CASE MarkDownloading
  BY <1>2 DEF MarkDownloading, At, DInv, TypeOK, Control, Caught, Uncaught, Gone, WithPartPath, Early,
     Streaming, Stored, SavedIsThere, Finishing, Covers, files, loop
<1>3. CASE Save
  <2>1. Receiving /\ TypeOK
    BY <1>3 DEF Save, At, DInv, Streaming
  <2>2. SavedIsThere' /\ Receiving' /\ TypeOK'
    BY <1>3, <2>1 DEF Save, At, SavedIsThere, Receiving, HashIsTail, Covers, TypeOK, Control, Caught,
       Uncaught, Gone, WithPartPath, files, loop
  <2> QED BY <1>3, <2>2 DEF Save, At, DInv, Early, Streaming, Stored, Finishing, Covers, files, loop
<1>4. CASE Backoff
  BY <1>4 DEF Backoff, At, DInv, TypeOK, Control, Caught, Uncaught, Gone, WithPartPath, Early,
     Streaming, Stored, SavedIsThere, Finishing, Covers, row, files
<1>5. CASE GiveUp
  BY <1>5 DEF GiveUp, At, DInv, TypeOK, Control, Caught, Uncaught, Gone, WithPartPath, Early,
     Streaming, Stored, SavedIsThere, Finishing, Finished, Covers, files, loop
<1>6. CASE MarkCancelled
  BY <1>6 DEF MarkCancelled, At, DInv, TypeOK, Control, Caught, Uncaught, Gone, WithPartPath, Early,
     Streaming, Stored, SavedIsThere, Finishing, Finished, Covers, files, loop
<1> QED BY <1>1, <1>2, <1>3, <1>4, <1>5, <1>6

LEMMA EndStepsKeep ==
  ASSUME DInv, Verify \/ RejectIntegrity \/ Complete \/ Return
  PROVE  DInv'
<1>1. CASE Verify
  <2>1. pc = "verifying" /\ Replaced /\ TypeOK /\ status # "completed"
    BY <1>1 DEF Verify, At, DInv, Stored
  <2>2. /\ UNCHANGED <<row, part, loop, canceller>> /\ pc' \in {"rejecting", "completing"}
        /\ pc' = "rejecting" => bin' = Absent
        /\ pc' = "completing" => bin' = bin /\ (expected => hashed = Source)
    BY <1>1 DEF Verify, At
  <2>3. pc' = "completing" => Replaced'
    BY <2>1, <2>2 DEF Replaced, Source, Absent, row, loop
  <2>4. (bin # Absent /\ total > 0 => Covers(bin, Blocks))'
    <3>1. total' = total /\ (bin' = Absent \/ bin' = bin)
      BY <2>2 DEF loop
    <3>2. bin # Absent /\ total > 0 => Covers(bin, Blocks)
      BY DEF DInv
    <3>3. Absent' = Absent
      BY DEF Absent
    <3> QED BY <3>1, <3>2, <3>3, SMTT(30) DEF Covers
  <2>5. TypeOK'
    BY <2>1, <2>2 DEF TypeOK, File, Control, Caught, Uncaught, Gone, WithPartPath, row, loop
  <2> QED BY <2>1, <2>2, <2>3, <2>4, <2>5 DEF DInv, Early, Streaming, Stored, row
<1>2. CASE RejectIntegrity
  BY <1>2 DEF RejectIntegrity, At, DInv, TypeOK, Control, Caught, Uncaught, Gone, WithPartPath, Early,
     Streaming, Stored, Finishing, Finished, Covers, files, loop
<1>3. CASE Complete
  <2>1. Replaced /\ TypeOK
    BY <1>3 DEF Complete, At, DInv, Stored
  <2>2. Finishing'
    BY <1>3, <2>1 DEF Complete, At, Replaced, Finishing, Source, files, loop
  <2>3. TypeOK'
    BY <1>3, <2>1 DEF Complete, At, TypeOK, File, Control, Caught, Uncaught, Gone, WithPartPath, files, loop
  <2> QED BY <1>3, <2>2, <2>3 DEF Complete, At, DInv, Early, Streaming, Stored, Finished, Covers, files, loop
<1>4. CASE Return
  BY <1>4 DEF Return, At, DInv, TypeOK, Control, Caught, Uncaught, Gone, WithPartPath, Early,
     Streaming, Stored, Finishing, Finished, Covers, Source, row, files, loop
<1> QED BY <1>1, <1>2, <1>3, <1>4

LEMMA CancelKeeps ==
  ASSUME DInv, MarkRow \/ Signal \/ CheckCancel \/ Crash
  PROVE  DInv'
<1>1. CASE MarkRow
  BY <1>1 DEF MarkRow, DInv, TypeOK, Early, Streaming, Stored, SavedIsThere, Receiving, HashIsTail,
     Replaced, Finishing, Finished, Covers, Source, files, loop
<1>2. CASE CheckCancel
  BY <1>2 DEF CheckCancel, DInv, TypeOK, Early, Streaming, Stored, SavedIsThere, Receiving, HashIsTail,
     Replaced, Finishing, Finished, Covers, Source, row, files, loop
<1>3. CASE Signal
  <2>1. pc' \in {"cancelling", "ended"} \cup Gone /\ canceller' = "answered"
        /\ UNCHANGED <<row, bin, loop>> /\ part' \in {part, Absent}
    BY <1>3 DEF Signal, DInv, TypeOK, Control, Gone
  <2> QED BY <2>1 DEF DInv, TypeOK, File, Control, Caught, Uncaught, Gone, WithPartPath, Early, Streaming,
     Stored, Finishing, Covers, Source, row, loop
<1>4. CASE Crash
  BY <1>4 DEF Crash, DInv, TypeOK, Control, Caught, Uncaught, Gone, WithPartPath, Early, Streaming,
     Stored, Finishing, Covers, Source, row, files, loop
<1> QED BY <1>1, <1>2, <1>3, <1>4

-----------------------------------------------------------------------------
LEMMA NextKeeps ==
  ASSUME Honoured, DInv, [Next]_vars
  PROVE  DInv'
<1>1. CASE UNCHANGED vars
  BY <1>1 DEF vars, DInv, TypeOK, SavedIsThere, Receiving, HashIsTail, Replaced, Finishing, Covers,
     Source, row, files, loop
<1>2. CASE NetworkFault \/ DbFault \/ EndShort
  <2>1. PICK from \in {"marking", "opening"} \cup Streaming : Fail(from)
    BY <1>2 DEF NetworkFault, DbFault, EndShort, Honoured, Streaming
  <2> QED BY <2>1, FailKeeps
<1>3. CASE \E answer \in {200, 206} : Open(answer)
  BY <1>3, OpenKeeps
<1>4. CASE Receive \/ Replace
  BY <1>4, ReceiveKeeps, ReplaceKeeps
<1>5. CASE Start \/ MarkDownloading \/ Save \/ Backoff \/ GiveUp \/ MarkCancelled
  BY <1>5, StreamStepsKeep
<1>6. CASE Verify \/ RejectIntegrity \/ Complete \/ Return
  BY <1>6, EndStepsKeep
<1>7. CASE MarkRow \/ Signal \/ CheckCancel \/ Crash
  BY <1>7, CancelKeeps
<1> QED BY <1>1, <1>2, <1>3, <1>4, <1>5, <1>6, <1>7 DEF Next, Worker, Delete

LEMMA DownloadInvariant == ASSUME Honoured PROVE OutSpec => []DInv
<1>1. OutInit => DInv
  BY DownloadStarts DEF OutInit
<1>2. DInv /\ [OutNext]_outVars => DInv'
  <2> SUFFICES ASSUME DInv, [OutNext]_outVars PROVE DInv'
    OBVIOUS
  <2>1. [Next]_vars
    BY DEF OutNext, outVars, Downloading, Advising, Registering
  <2> QED BY <2>1, NextKeeps
<1> QED BY <1>1, <1>2, PTL DEF OutSpec

\* Whatever connections drop, statements fail, DELETEs arrive and processes die:
\* a final file misses no block of the remote one, a row reads completed only
\* over its file, a verified file is the remote one, and a worker that no DELETE
\* raced leaves a finished row behind.
THEOREM FilesAlwaysTrue == ASSUME Honoured PROVE OutSpec => []FilesTrue
<1>1. DInv => FilesTrue
  <2> SUFFICES ASSUME DInv PROVE FilesTrue
    OBVIOUS
  <2>1. FinalIsWhole
    BY CoversHolds DEF DInv, FinalIsWhole, TypeOK, File
  <2>2. CompletedHasFile /\ VerifiedMeansSource /\ Settled
    BY DEF DInv, CompletedHasFile, VerifiedMeansSource, Settled, Finishing, Finished
  <2> QED BY <2>1, <2>2 DEF FilesTrue, DInv
<1> QED BY <1>1, DownloadInvariant, PTL
=============================================================================
