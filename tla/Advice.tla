------------------------------- MODULE Advice -------------------------------
(* What the hub tells its users about hardware and models: the cached        *)
(* hardware profile (hardware/detector.py), the recommendations              *)
(* (recommend/engine.py, scorer.py), the migration plans                     *)
(* (adapt/migration.py) and the adaptation it runs on the MLX engine         *)
(* (routers/adapt.py).  Scores are in points, memory in GB, sizes in billions *)
(* of parameters.                                                          *)
EXTENDS Integers, FiniteSets

CONSTANTS
  Clients,     \* requests under way
  Sizes,       \* sizes of models to plan for
  Memories,    \* what the engine may report as its memory
  Stock,       \* the models on offer: [size, downloads]
  Replies,     \* what the engine says of a model: [can, need, have, speed]
  Unsaid,      \* of the memory it has, when the engine leaves that out
  NoReply,
  Preferences, \* what the ranking may favour
  MaxResults,
  CacheTtl,    \* _CACHE_TTL
  Timeout,     \* of the requests for the hardware profile
  MaxClock     \* bound on the clock

ASSUME AdviceAssumption ==
  /\ Sizes \subseteq Nat \ {0} /\ Memories \subseteq Nat /\ 0 \notin Memories
  /\ \A m \in Stock : m.downloads \in Nat
  /\ \A r \in Replies : /\ r.can \in BOOLEAN /\ r.need \in Nat /\ r.speed \in Nat
                        /\ r.have = Unsaid \/ r.have \in Nat
  /\ NoReply \notin Replies /\ Preferences \subseteq {"quality", "balanced", "speed"}
  /\ {MaxResults, CacheTtl, Timeout} \subseteq Nat \ {0} /\ MaxClock \in Nat

VARIABLES
  clock,
  profile,  \* the detector's _cache: memory, when it was stamped, when it was true
  client    \* the requests

adviceVars == <<clock, profile, client>>

NoProfile == [memory |-> 0, at |-> 0, seen |-> 0, known |-> FALSE]

NoOffer == [preference |-> "balanced", says |-> <<>>, top |-> {}]

Away == [kind |-> "none", at |-> "idle", size |-> 0, level |-> 0, began |-> 0, memory |-> 0,
         seen |-> 0, age |-> 0, error |-> "none", refused |-> {}, offer |-> NoOffer]

\* The hardware router, the recommend engine and the adapt engine each have a
\* detector of their own, so requests of different kinds meet nowhere.
Kinds == {"hardware", "recommend", "plan", "execute"}

AdviceInit ==
  /\ clock = 0
  /\ profile = NoProfile
  /\ client = [c \in Clients |-> Away]

Put(c, r) == client' = [client EXCEPT ![c] = r]

-----------------------------------------------------------------------------
(* The migration plan                                                      *)

\* The widest of 16, 8 and 4 bits that leaves 30% of the memory free.
SuggestedBits(size, memory) ==
  IF memory <= 0 THEN 4
  ELSE IF 20 * size <= 7 * memory THEN 16
  ELSE IF 10 * size <= 7 * memory THEN 8
  ELSE 4

\* The width the plan's own quantization step names.
StepBits(size, memory) == IF size > 7 \/ memory < 2 * size THEN 4 ELSE 8

\* Levels 0 (native) and 4 (not supported) end before that step.
Quantizes(level) == level \in 1 .. 3

-----------------------------------------------------------------------------
(* The ranking                                                             *)

Fit(need, have) ==
  IF have <= 0                  THEN 0
  ELSE IF 2 * need <= have      THEN 100
  ELSE IF 10 * need <= 8 * have THEN 80 + (20 * (8 * have - 10 * need)) \div (3 * have)
  ELSE IF need <= have          THEN 40 + (200 * (have - need)) \div have
  ELSE IF need < 2 * have       THEN (40 * (2 * have - need)) \div have
  ELSE 0

HardwareFit(need, have, can) == IF can THEN Fit(need, have) ELSE 0

Speed(tokens) == IF tokens >= 50 THEN 100 ELSE 2 * tokens

Popularity(downloads) == IF downloads >= 100000 THEN 100 ELSE 20 + (80 * downloads) \div 100000

\* Weights in tenths: hardware, quality, speed, popularity.
Weights(preference) ==
  CASE preference = "quality"  -> <<3, 4, 1, 2>>
    [] preference = "speed"    -> <<2, 1, 5, 2>>
    [] OTHER                   -> <<4, 2, 2, 2>>

\* Every model is offered as Q4_K_M, whose quality is 55.
Scored(model, reply, memory, preference) ==
  LET w == Weights(preference)
      have == IF reply.have = Unsaid THEN memory ELSE reply.have
  IN w[1] * HardwareFit(reply.need, have, reply.can) + w[2] * 55
       + w[3] * Speed(reply.speed) + w[4] * Popularity(model.downloads)

Rank(model, reply, memory, preference) ==
  IF reply = NoReply \/ ~reply.can THEN 0 ELSE Scored(model, reply, memory, preference)

\* The lists that sorting by rank and cutting at max_results may give: ties
\* come in the order in which the models were last changed.
TopOf(rank) ==
  LET all == DOMAIN rank
      k   == IF Cardinality(all) < MaxResults THEN Cardinality(all) ELSE MaxResults
  IN {top \in SUBSET all :
        Cardinality(top) = k /\ \A m \in top, n \in all \ top : rank[m] >= rank[n]}

-----------------------------------------------------------------------------
(* The requests                                                            *)

Ask(c, kind) ==
  /\ client[c].at = "idle" /\ kind \in {"hardware", "recommend"}
  /\ Put(c, [Away EXCEPT !.kind = kind, !.at = "detect"])
  /\ UNCHANGED <<clock, profile>>

AskPlan(c, kind) ==
  /\ client[c].at = "idle" /\ kind = "plan"
  /\ \E size \in Sizes : Put(c, [Away EXCEPT !.kind = kind, !.at = "assess", !.size = size])
  /\ UNCHANGED <<clock, profile>>

\* The request is answered at once; the adaptation runs in a task.
AskExecute(c, kind) ==
  /\ client[c].at = "idle" /\ kind = "execute"
  /\ Put(c, [Away EXCEPT !.kind = kind, !.at = "assess"])
  /\ UNCHANGED <<clock, profile>>

\* POST /hardware/refresh drops the cached profile and detects.
Refresh(c, kind) ==
  /\ client[c].at = "idle" /\ kind = "hardware"
  /\ Put(c, [Away EXCEPT !.kind = kind, !.at = "detect"])
  /\ profile' = NoProfile
  /\ UNCHANGED clock

\* The engine knows a model's level, or the hub guesses 0 or 2 from its name.
Assess(c) ==
  /\ client[c].at = "assess"
  /\ \E level \in 0 .. 4 :
       Put(c, [client[c] EXCEPT !.level = level,
                                !.at = IF client[c].kind = "plan" THEN "detect"
                                       ELSE IF level = 4 THEN "done" ELSE "convert"])
  /\ UNCHANGED <<clock, profile>>

Know(c, memory, age) ==
  Put(c, [client[c] EXCEPT !.at = "known", !.memory = memory, !.age = age,
                           !.began = 0, !.seen = 0])

\* A profile whose stamp is younger than _CACHE_TTL is used as it is.
Detect(c) ==
  /\ client[c].at = "detect"
  /\ IF profile.known /\ clock - profile.at < CacheTtl
       THEN Know(c, profile.memory, clock - profile.seen)
       ELSE Put(c, [client[c] EXCEPT !.at = "fetch", !.began = clock])
  /\ UNCHANGED <<clock, profile>>

\* The engine looks at its machine; the answer is under way.
Fetch(c) ==
  /\ client[c].at = "fetch"
  /\ \E memory \in Memories :
       Put(c, [client[c] EXCEPT !.at = "fetched", !.memory = memory, !.seen = clock])
  /\ UNCHANGED <<clock, profile>>

\* Mutant: the profile is stamped when the answer comes.
StampLate(c) == [memory |-> client[c].memory, at |-> clock, seen |-> client[c].seen, known |-> TRUE]

\* The profile is stamped with the time at which detect() was entered.
Stamp(c) == [memory |-> client[c].memory, at |-> client[c].began, seen |-> client[c].seen, known |-> TRUE]

Remember(c) ==
  /\ client[c].at = "fetched"
  /\ profile' = Stamp(c)
  /\ Know(c, client[c].memory, clock - client[c].seen)
  /\ UNCHANGED clock

\* When the engine cannot be asked, any profile that is still there will do,
\* and else one without memory.
FetchFails(c) ==
  /\ client[c].at \in {"fetch", "fetched"}
  /\ Know(c, profile.memory, 0)
  /\ UNCHANGED <<clock, profile>>

\* The models in the wanted range; a database that fails is an empty one.
Offered(least, most) == {m \in Stock : least <= m.size /\ m.size <= most}

\* The engine is asked for the models in batches, and one by one when a batch
\* fails; it may leave out any of them.
Recommend(c) ==
  /\ client[c].at = "known" /\ client[c].kind = "recommend"
  /\ \E least, most \in Sizes, preference \in Preferences :
       LET offered == Offered(least, most)
       IN \E says \in [offered -> Replies \cup {NoReply}] :
            LET rank == [m \in offered |-> Rank(m, says[m], client[c].memory, preference)]
            IN \E top \in TopOf(rank) :
                 Put(c, [client[c] EXCEPT !.at = "done", !.age = 0,
                           !.offer = [preference |-> preference, says |-> says, top |-> top]])
  /\ UNCHANGED <<clock, profile>>

\* GET /hardware has its answer, and so has the plan: it is a function of the
\* size, the level and the memory.
Inform(c) ==
  /\ client[c].at = "known" /\ client[c].kind \in {"hardware", "plan"}
  /\ Put(c, [client[c] EXCEPT !.at = "done", !.age = 0])
  /\ UNCHANGED <<clock, profile>>

\* _execution_errors keeps the last refusal.
Note(c, step, accepted) ==
  [client[c] EXCEPT !.error = IF accepted THEN @ ELSE step,
                    !.refused = IF accepted THEN @ ELSE @ \cup {step}]

\* One step of the adaptation is accepted or refused by the engine; an
\* exception is logged and ends it.
Execute(c, step, next) ==
  /\ client[c].at = step
  /\ \/ \E accepted \in BOOLEAN : Put(c, [Note(c, step, accepted) EXCEPT !.at = next])
     \/ Put(c, [client[c] EXCEPT !.at = "done"])
  /\ UNCHANGED <<clock, profile>>

Reported(r) == IF r.at # "done" THEN "running" ELSE IF r.error # "none" THEN "failed" ELSE "completed"

Leave(c) ==
  /\ client[c].at = "done"
  /\ Put(c, Away)
  /\ UNCHANGED <<clock, profile>>

\* A request for the profile is given up after its timeout.
Tick ==
  /\ clock < MaxClock
  /\ \A c \in Clients : client[c].at \in {"fetch", "fetched"} => clock - client[c].began < Timeout
  /\ clock' = clock + 1
  /\ UNCHANGED <<profile, client>>

AdviceNext(kind) ==
  \/ \E c \in Clients :
       \/ Ask(c, kind) \/ AskPlan(c, kind) \/ AskExecute(c, kind) \/ Refresh(c, kind) \/ Assess(c)
       \/ Detect(c) \/ Fetch(c) \/ Remember(c) \/ FetchFails(c)
       \/ Recommend(c) \/ Inform(c)
       \/ Execute(c, "convert", "quantize") \/ Execute(c, "quantize", "done")
       \/ Leave(c)
  \/ Tick

-----------------------------------------------------------------------------
(* Properties                                                              *)

\* A profile that a request uses, unless the engine could not be asked, was
\* true within _CACHE_TTL, whatever detections overlap and overwrite each other.
ProfilesFresh == \A c \in Clients : client[c].age <= (IF CacheTtl > Timeout THEN CacheTtl - 1 ELSE Timeout)

\* More than 4 bits are suggested only where the weights leave 30% of the
\* memory free, and the step of the plan never asks for more than suggested.
PlanFits ==
  \A c \in Clients :
    LET r    == client[c]
        bits == SuggestedBits(r.size, r.memory)
    IN r.at = "done" /\ r.kind = "plan" =>
         /\ bits > 4 => 10 * r.size * bits <= 56 * r.memory
         /\ Quantizes(r.level) => StepBits(r.size, r.memory) <= bits

\* A model that cannot run, or of which the engine said nothing, takes no place
\* of one that can; and of two alike, the one that needs less ranks no lower.
RunnableFirst ==
  \A c \in Clients :
    LET o      == client[c].offer
        can(m) == o.says[m] # NoReply /\ o.says[m].can
        r(m)   == Rank(m, o.says[m], client[c].memory, o.preference)
    IN \A m, n \in DOMAIN o.says :
         /\ m \in o.top /\ n \notin o.top /\ can(n) => can(m)
         /\ /\ can(m) /\ can(n) /\ m.downloads = n.downloads
            /\ o.says[m].speed = o.says[n].speed /\ o.says[m].have = o.says[n].have
            /\ o.says[m].need <= o.says[n].need
            => r(m) >= r(n)

\* An adaptation of which the engine refused a step is not reported completed,
\* whatever became of the other step (H7).
RefusalsReported ==
  \A c \in Clients : client[c].refused # {} => Reported(client[c]) # "completed"

AdviceTrue == ProfilesFresh /\ PlanFits /\ RunnableFirst /\ RefusalsReported
=============================================================================
