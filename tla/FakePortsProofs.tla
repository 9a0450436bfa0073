--------------------------- MODULE FakePortsProofs ---------------------------
(***************************************************************************)
(* Proofs about FakePorts: for any callers, pushes and calls, outcomes are *)
(* served in order and a panic ends the fake.                              *)
(***************************************************************************)
EXTENDS FakePorts, TLAPS

-----------------------------------------------------------------------------
(* The inductive invariant. *)

Panics == {"Panic", "empty", "poisoned"}

\* Only a Mutex that is not poisoned gives out its guard.
GuardInv == guard # None => ~poisoned

\* The Mutex is poisoned from the first panic on.
PoisonInv == ~poisoned => \A i \in DOMAIN answers : answers[i] \notin Panics

IInv == TypeOK /\ GuardInv /\ PoisonInv /\ ServedInOrder /\ PanicEndsTheFake

-----------------------------------------------------------------------------
(* Lemmas. *)

\* Popping the head of a queue and appending it elsewhere keeps the whole.
LEMMA PopKeepsOrder ==
  ASSUME NEW S, NEW h \in Seq(S), NEW q \in Seq(S), q # <<>>
  PROVE  Append(h, Head(q)) \o Tail(q) = h \o q
OBVIOUS

\* So does appending to a queue and to the whole.
Joined(h, q) == h \o q

LEMMA PushKeepsOrder ==
  ASSUME NEW S, NEW h \in Seq(S), NEW q \in Seq(S), NEW x \in S
  PROVE  Append(Joined(h, q), x) = Joined(h, Append(q, x))
BY DEF Joined

\* An answer is recorded after those there are.
LEMMA Answered ==
  ASSUME NEW S, NEW a \in Seq(S), NEW x \in S
  PROVE  /\ Append(a, x) \in Seq(S)
         /\ DOMAIN a = 1..Len(a) /\ Len(a) \in Nat
         /\ DOMAIN Append(a, x) = 1..(Len(a) + 1)
         /\ Append(a, x)[Len(a) + 1] = x
         /\ \A i \in 1..Len(a) : Append(a, x)[i] = a[i]
OBVIOUS

\* A call ends: with an outcome or a first panic while the Mutex is not
\* poisoned, with the panic of unwrap() once it is.
LEMMA AnswerInv ==
  ASSUME TypeOK, PoisonInv, PanicEndsTheFake,
         NEW x \in Outcome \cup {"empty", "poisoned"}, answers' = Append(answers, x),
         ~poisoned \/ x = "poisoned",
         poisoned' = (x \in Panics)
  PROVE  PoisonInv' /\ PanicEndsTheFake'
<1> DEFINE n == Len(answers)
<1>1. /\ DOMAIN answers = 1..n /\ n \in Nat
      /\ DOMAIN answers' = 1..(n + 1) /\ answers'[n + 1] = x
      /\ \A i \in 1..n : answers'[i] = answers[i]
  BY Answered DEF TypeOK
<1> HIDE DEF n
<1>2. \A i \in DOMAIN answers' : i \in 1..n \/ i = n + 1
  BY <1>1
<1>3. PoisonInv'
  BY Zenon, <1>1, <1>2 DEF PoisonInv, Panics
<1>4. PanicEndsTheFake'
  <2> SUFFICES ASSUME NEW i \in DOMAIN answers', NEW j \in DOMAIN answers', i < j,
                      answers'[i] \in Panics
               PROVE  answers'[j] = "poisoned"
    BY Zenon DEF PanicEndsTheFake, Panics
  <2>1. i \in 1..n
    BY <1>1, <1>2
  <2>2. answers[i] \in Panics
    BY Zenon, <1>1, <2>1
  <2>3. CASE j \in 1..n
    BY Zenon, <1>1, <2>1, <2>2, <2>3 DEF PanicEndsTheFake, Panics
  <2>4. CASE j = n + 1
    BY Zenon, <1>1, <2>1, <2>2, <2>4 DEF PoisonInv
  <2>5. QED
    BY Zenon, <1>2, <2>3, <2>4
<1>5. QED
  BY Zenon, <1>3, <1>4

-----------------------------------------------------------------------------
(* The invariant holds initially and every action preserves it. *)

LEMMA InitInv == Init => IInv
<1> SUFFICES ASSUME Init PROVE IInv
  BY Zenon
<1>1. TypeOK
  <2>1. <<>> \in Seq(Outcome) /\ <<>> \in Seq(Outcome \cup {"empty", "poisoned"})
    OBVIOUS
  <2>2. [m \in methods |-> <<>>] \in [methods -> Seq(Outcome)]
    BY Zenon, <2>1
  <2>3. QED
    BY Zenon, <2>1, <2>2 DEF Init, TypeOK
<1>2. GuardInv /\ PoisonInv /\ ServedInOrder /\ PanicEndsTheFake
  BY DEF Init, GuardInv, PoisonInv, ServedInOrder, PanicEndsTheFake
<1>3. QED
  BY Zenon, <1>1, <1>2 DEF IInv

\* An outcome is pushed.
LEMMA PushInv ==
  ASSUME IInv, NEW m \in methods, NEW o \in Outcome, Push(m, o)
  PROVE  IInv'
<1>i. TypeOK /\ GuardInv /\ PoisonInv /\ ServedInOrder /\ PanicEndsTheFake
  BY Zenon DEF IInv
<1>u. /\ queue' = [queue EXCEPT ![m] = Append(queue[m], o)]
      /\ pushed' = [pushed EXCEPT ![m] = Append(pushed[m], o)]
      /\ UNCHANGED <<methods, guard, poisoned, call, handed, answers>>
  BY Zenon DEF Push
<1>s. queue[m] \in Seq(Outcome) /\ pushed[m] \in Seq(Outcome) /\ handed[m] \in Seq(Outcome)
  BY Zenon, <1>i DEF TypeOK
<1>a. Append(queue[m], o) \in Seq(Outcome) /\ Append(pushed[m], o) \in Seq(Outcome)
  BY <1>s
<1>1. TypeOK'
  BY Zenon, <1>i, <1>u, <1>a DEF TypeOK
<1>2. GuardInv' /\ PoisonInv' /\ PanicEndsTheFake'
  BY Zenon, <1>i, <1>u DEF GuardInv, PoisonInv, PanicEndsTheFake
<1>3. ServedInOrder'
  <2>1. PICK h \in Seq(Outcome), q \in Seq(Outcome) : h = handed[m] /\ q = queue[m]
    BY Zenon, <1>s
  <2>2. pushed[m] = Joined(h, q)
    BY Zenon, <1>i, <2>1 DEF ServedInOrder, Joined
  <2>3. Append(Joined(h, q), o) = Joined(h, Append(q, o))
    BY PushKeepsOrder
  <2>4. Append(pushed[m], o) = Joined(h, Append(q, o))
    BY Zenon, <2>2, <2>3
  <2>5. Append(pushed[m], o) = handed[m] \o Append(queue[m], o)
    BY Zenon, <2>1, <2>4 DEF Joined
  <2>6. QED
    BY Zenon, <1>i, <1>u, <2>5 DEF ServedInOrder, TypeOK
<1>4. QED
  BY Zenon, <1>1, <1>2, <1>3 DEF IInv

\* A method is called, and takes the lock.
LEMMA BeginLockInv ==
  ASSUME IInv, NEW c \in Callers, (\E m \in methods : Begin(c, m)) \/ Lock(c)
  PROVE  IInv'
<1>i. TypeOK /\ GuardInv /\ PoisonInv /\ ServedInOrder /\ PanicEndsTheFake
  BY Zenon DEF IInv
<1>u. UNCHANGED <<methods, queue, poisoned, pushed, handed, answers>>
  BY Zenon DEF Begin, Lock, lockVars, history
<1>1. PoisonInv' /\ ServedInOrder' /\ PanicEndsTheFake'
  BY Zenon, <1>i, <1>u DEF PoisonInv, ServedInOrder, PanicEndsTheFake
<1>2. ASSUME NEW m \in methods, Begin(c, m)
      PROVE  TypeOK' /\ GuardInv'
  BY <1>i, <1>u, <1>2 DEF Begin, lockVars, TypeOK, GuardInv
<1>3. CASE Lock(c)
  <2>1. guard' = c /\ call' = call /\ ~poisoned /\ call[c] \in methods
    BY Zenon, <1>i, <1>3 DEF Lock, TypeOK
  <2>2. guard' # None => guard' \in Callers /\ call'[guard'] \in methods'
    BY Zenon, <1>u, <2>1
  <2>3. TypeOK'
    BY <1>i, <1>u, <2>1, <2>2, Zenon DEF TypeOK
  <2>4. QED
    BY Zenon, <1>1, <1>u, <2>1, <2>3 DEF GuardInv, IInv
<1>4. QED
  BY Zenon, <1>1, <1>2, <1>3 DEF IInv

\* A call ends without an outcome.
LEMMA PanicInv ==
  ASSUME IInv, NEW c \in Callers, LockPoisoned(c) \/ EmptyPanics(c)
  PROVE  IInv'
<1>i. TypeOK /\ GuardInv /\ PoisonInv /\ ServedInOrder /\ PanicEndsTheFake
  BY Zenon DEF IInv
<1>u. /\ call' = [call EXCEPT ![c] = None] /\ guard' = None /\ poisoned' = TRUE
      /\ UNCHANGED <<methods, queue, pushed, handed>>
  BY Zenon, <1>i DEF LockPoisoned, EmptyPanics, End, lockVars, TypeOK
<1>x. PICK x \in {"empty", "poisoned"} :
        answers' = Append(answers, x) /\ (~poisoned \/ x = "poisoned")
  <2>1. CASE LockPoisoned(c)
    BY Zenon, <2>1 DEF LockPoisoned, End
  <2>2. CASE EmptyPanics(c)
    BY Zenon, <1>i, <2>2, CallsAssumption DEF EmptyPanics, End, GuardInv
  <2>3. QED
    BY Zenon, <2>1, <2>2
<1>1. TypeOK'
  <2>1. answers' \in Seq(Outcome \cup {"empty", "poisoned"})
    BY <1>i, <1>x DEF TypeOK
  <2>2. QED
    BY Zenon, <1>i, <1>u, <2>1 DEF TypeOK
<1>2. GuardInv' /\ ServedInOrder'
  BY Zenon, <1>i, <1>u DEF GuardInv, ServedInOrder
<1>3. PoisonInv' /\ PanicEndsTheFake'
  <2>1. poisoned' = (x \in Panics)
    BY Zenon, <1>u, <1>x DEF Panics
  <2>2. QED
    BY Zenon, <1>i, <1>x, <2>1, AnswerInv
<1>4. QED
  BY Zenon, <1>1, <1>2, <1>3 DEF IInv

\* An outcome is popped.
LEMMA MatchInv ==
  ASSUME IInv, NEW c \in Callers, Match(c)
  PROVE  IInv'
<1> DEFINE m == call[c]
           o == Head(queue[m])
<1>i. TypeOK /\ GuardInv /\ PoisonInv /\ ServedInOrder /\ PanicEndsTheFake
  BY Zenon DEF IInv
<1>u. /\ guard = c /\ queue[m] # <<>>
      /\ queue' = [queue EXCEPT ![m] = Tail(queue[m])]
      /\ handed' = [handed EXCEPT ![m] = Append(handed[m], o)]
      /\ guard' = None /\ poisoned' = (o = "Panic")
      /\ call' = [call EXCEPT ![c] = None] /\ answers' = Append(answers, o)
      /\ UNCHANGED <<methods, pushed>>
  BY Zenon DEF Match, End
<1>m. m \in methods /\ ~poisoned
  BY Zenon, <1>i, <1>u, CallsAssumption DEF TypeOK, GuardInv
<1>s. queue[m] \in Seq(Outcome) /\ handed[m] \in Seq(Outcome)
  BY Zenon, <1>i, <1>m DEF TypeOK
<1>o. o \in Outcome /\ Tail(queue[m]) \in Seq(Outcome) /\ Append(handed[m], o) \in Seq(Outcome)
  BY <1>u, <1>s
<1>k. Append(handed[m], o) \o Tail(queue[m]) = handed[m] \o queue[m]
  BY Zenon, <1>u, <1>s, PopKeepsOrder
<1> HIDE DEF m, o
<1>1. TypeOK'
  <2>1. answers' \in Seq(Outcome \cup {"empty", "poisoned"})
    BY <1>i, <1>u, <1>o DEF TypeOK
  <2>2. poisoned' \in BOOLEAN
    BY Zenon, <1>u
  <2>3. QED
    BY Zenon, <1>i, <1>u, <1>m, <1>o, <2>1, <2>2 DEF TypeOK
<1>2. GuardInv'
  BY Zenon, <1>u DEF GuardInv
<1>3. ServedInOrder'
  BY Zenon, <1>i, <1>u, <1>m, <1>k DEF ServedInOrder, TypeOK
<1>4. PoisonInv' /\ PanicEndsTheFake'
  <2>1. poisoned' = (o \in Panics)
    BY <1>u, <1>o DEF Panics, Outcome
  <2>2. QED
    BY Zenon, <1>i, <1>u, <1>m, <1>o, <2>1, AnswerInv
<1>5. QED
  BY Zenon, <1>1, <1>2, <1>3, <1>4 DEF IInv

LEMMA NextInv == IInv /\ [Next]_vars => IInv'
<1> SUFFICES ASSUME IInv, [Next]_vars PROVE IInv'
  BY Zenon
<1>1. CASE UNCHANGED vars
  BY Zenon, <1>1 DEF vars, lockVars, history, IInv, TypeOK, GuardInv, PoisonInv, ServedInOrder,
              PanicEndsTheFake
<1>2. ASSUME NEW m \in methods, NEW o \in Outcome, Push(m, o)
      PROVE  IInv'
  BY Zenon, <1>2, PushInv
<1>3. ASSUME NEW c \in Callers, (\E m \in methods : Begin(c, m)) \/ MethodStep(c)
      PROVE  IInv'
  BY Zenon, <1>3, BeginLockInv, PanicInv, MatchInv DEF MethodStep
<1>4. QED
  BY Zenon, <1>1, <1>2, <1>3
     DEF Next, PushRegistry, PushJourneyManager, PushVoiceManager, PushPostCall, PushAnalytics,
         RegistryPort, JourneyManagerPort, VoiceManagerPort, PostCallPort, AnalyticsPort

-----------------------------------------------------------------------------
(* The theorems. *)

\* IInv is an invariant of every instance of FakePorts.
THEOREM Invariance == Spec => []IInv
<1>1. Init => IInv
  BY Zenon, InitInv
<1>2. IInv /\ [Next]_vars => IInv'
  BY Zenon, NextInv
<1>3. QED
  BY <1>1, <1>2, PTL DEF Spec

\* Type correctness of every instance.
THEOREM TypeCorrect == Spec => []TypeOK
<1>1. IInv => TypeOK
  BY DEF IInv
<1> QED  BY <1>1, Invariance, PTL

\* The outcomes of a method are handed out in the order of the pushes.
THEOREM InOrder == Spec => []ServedInOrder
<1>1. IInv => ServedInOrder
  BY Zenon DEF IInv
<1>2. QED
  BY <1>1, Invariance, PTL

\* After a panic no call of any method gets an outcome.
THEOREM PanicIsFinal == Spec => []PanicEndsTheFake
<1>1. IInv => PanicEndsTheFake
  BY Zenon DEF IInv
<1>2. QED
  BY <1>1, Invariance, PTL
=============================================================================
