------------------------------- MODULE Marks -------------------------------
(***************************************************************************)
(* What one caller may put on a model once: a favorite (routers/favorites) *)
(* and the lock of a path (routers/gitlfs).  Both look for a row and add   *)
(* one after an await; the tables have no unique constraint.  One user and *)
(* one path are modelled.                                                  *)
(***************************************************************************)
EXTENDS Naturals, FiniteSets

CONSTANTS MarkKinds,  \* record [kind, model]
          Adders,     \* calls in flight
          NoMark

ASSUME MarksAssumption == NoMark \notin MarkKinds /\ IsFiniteSet(Adders)

VARIABLES marks,  \* rows in model_favorites and gitlfs_locks
          adder   \* the mark each call has found missing

markVars == <<marks, adder>>

Adding(k) == {c \in Adders : adder[c] = k}

MarksTypeOK ==
  /\ marks \in [MarkKinds -> 0..Cardinality(Adders)]
  /\ adder \in [Adders -> MarkKinds \cup {NoMark}]

MarksInit ==
  /\ marks = [k \in MarkKinds |-> 0]
  /\ adder = [c \in Adders |-> NoMark]
-----------------------------------------------------------------------------
\* A taken path is refused, and so is a favorite, which with two rows fails
\* instead: the query expects one.
AnyTimes(k) == TRUE
Unmarked(k) == marks[k] = 0

FindNone(c, k) ==
  /\ adder[c] = NoMark
  /\ Unmarked(k)
  /\ adder' = [adder EXCEPT ![c] = k]
  /\ UNCHANGED marks

\* the foreign key fails when the model is gone
Insert(c, models) ==
  /\ adder[c] # NoMark
  /\ marks' = IF adder[c].model \in models THEN [marks EXCEPT ![adder[c]] = @ + 1] ELSE marks
  /\ adder' = [adder EXCEPT ![c] = NoMark]

Unmark(k) ==
  /\ marks[k] > 0
  /\ marks' = [marks EXCEPT ![k] = @ - 1]
  /\ UNCHANGED adder

\* favorites go with their model, locks keep it
Locked == {k.model : k \in {x \in MarkKinds : x.kind = "lock" /\ marks[x] > 0}}

DropFavorites(m) ==
  /\ marks' = [k \in MarkKinds |-> IF k.kind = "favorite" /\ k.model = m THEN 0 ELSE marks[k]]
  /\ UNCHANGED adder

DropAdders == adder' = [c \in Adders |-> NoMark] /\ UNCHANGED marks
=============================================================================
