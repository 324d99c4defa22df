------------------------------ MODULE Webhooks ------------------------------
(***************************************************************************)
(* Webhooks and the delivery of events to them (server/events.py,          *)
(* routers/webhooks.py).  An event is handed to one task per subscriber,   *)
(* gated by a semaphore that is held over the retries and their pauses.    *)
(* Tasks live in the process and die with it.                              *)
(***************************************************************************)
EXTENDS Naturals, FiniteSets

CONSTANTS Hooks,        \* webhook ids
          Events,       \* records [kind, model]: each is raised at most once
          Subscriptions,\* what a webhook may be made with: [kinds, tenant]
          MaxTries,     \* _WEBHOOK_MAX_RETRIES
          Concurrency,  \* _WEBHOOK_CONCURRENCY
          NoTenant

ASSUME WebhooksAssumption == MaxTries \in Nat \ {0} /\ Concurrency \in Nat \ {0}

VARIABLES hooks,     \* the webhooks table: "unused", "there" or "gone", and
                     \* the row's fields
          delivery   \* the task of each subscriber and event

hookVars == <<hooks, delivery>>

\* kinds = {} subscribes to every event
NoHook == [st |-> "unused", sub |-> [kinds |-> {}, tenant |-> NoTenant]]
NoTask == [pc |-> "none", tries |-> 0]
Ended  == [pc |-> "ended", tries |-> 0]

HooksTypeOK ==
  /\ hooks \in [Hooks -> [st : {"unused", "there", "gone"},
                          sub : Subscriptions \cup {NoHook.sub}]]
  /\ delivery \in [Hooks \X Events ->
                     [pc : {"none", "waiting", "posting", "sleeping", "ended"},
                      tries : 0..MaxTries]]

HooksInit ==
  /\ hooks = [h \in Hooks |-> NoHook]
  /\ delivery = [d \in Hooks \X Events |-> NoTask]
-----------------------------------------------------------------------------
CreateHook(h, sub) ==
  /\ hooks[h].st = "unused"
  /\ hooks' = [hooks EXCEPT ![h] = [st |-> "there", sub |-> sub]]
  /\ UNCHANGED delivery

\* deliveries under way keep the address they were spawned with
DeleteHook(h) ==
  /\ hooks[h].st = "there"
  /\ hooks' = [hooks EXCEPT ![h].st = "gone"]
  /\ UNCHANGED delivery

\* without a tenant every webhook is listed
Listed(tenant) ==
  {h \in Hooks : /\ hooks[h].st = "there"
                 /\ tenant = NoTenant \/ hooks[h].sub.tenant = tenant}

Subscribes(h, kind) == hooks[h].sub.kinds = {} \/ kind \in hooks[h].sub.kinds

\* The rows are read, then one task is spawned for each subscriber.
Dispatch(e, tenant) ==
  /\ delivery' = [d \in Hooks \X Events |->
                    IF d[2] = e /\ d[1] \in Listed(tenant) /\ Subscribes(d[1], e.kind)
                    THEN [pc |-> "waiting", tries |-> 0] ELSE delivery[d]]
  /\ UNCHANGED hooks

HeldWhenEnded(d) == delivery[d].pc \in {"posting", "sleeping", "ended"}
HoldsSlot(d)     == delivery[d].pc \in {"posting", "sleeping"}

\* async with sem, and the first request
Acquire(d) ==
  /\ delivery[d].pc = "waiting"
  /\ Cardinality({x \in DOMAIN delivery : HoldsSlot(x)}) < Concurrency
  /\ delivery' = [delivery EXCEPT ![d] = [pc |-> "posting", tries |-> 1]]
  /\ UNCHANGED hooks

\* any answer below 500 ends the delivery
Answered(d) ==
  /\ delivery[d].pc = "posting"
  /\ delivery' = [delivery EXCEPT ![d] = Ended]
  /\ UNCHANGED hooks

\* a 5xx, no answer within the timeout, no connection: after the last try the
\* delivery is given up, whether or not the subscriber got it
Unanswered(d) ==
  /\ delivery[d].pc = "posting"
  /\ delivery' = IF delivery[d].tries < MaxTries THEN [delivery EXCEPT ![d].pc = "sleeping"]
                 ELSE [delivery EXCEPT ![d] = Ended]
  /\ UNCHANGED hooks

Retry(d) ==
  /\ delivery[d].pc = "sleeping"
  /\ delivery' = [delivery EXCEPT ![d] = [pc |-> "posting", tries |-> @.tries + 1]]
  /\ UNCHANGED hooks

Deliver(d) == Acquire(d) \/ Answered(d) \/ Unanswered(d) \/ Retry(d)

Pending(d) == delivery[d].pc \in {"waiting", "posting", "sleeping"}

\* a stop cancels the tasks
LoseDeliveries ==
  delivery' = [d \in DOMAIN delivery |-> IF Pending(d) THEN Ended ELSE delivery[d]]
=============================================================================
