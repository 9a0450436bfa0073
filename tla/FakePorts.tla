----------------------------- MODULE FakePorts -----------------------------
(***************************************************************************)
(* The fake adapters (engagement-hub-ports, fake/): for each port, one     *)
(* queue of scripted outcomes per method behind one Mutex that all clones  *)
(* of the fake share.                                                      *)
(*                                                                         *)
(* The five fakes are the same but for their methods, so a behaviour is of *)
(* one of them.  The guard of lock() is a temporary of the match that      *)
(* looks at the outcome: it lives until an arm has run.  A panic inside    *)
(* the match, injected or from the expect() on an empty queue, therefore   *)
(* unwinds through the guard and poisons the Mutex, after which unwrap()   *)
(* on lock() panics.  A request's arguments are not looked at.             *)
(***************************************************************************)
EXTENDS Integers, Sequences

CONSTANTS
    Callers,    \* tasks that call methods of the fake or of a clone
    None,
    MaxPushes,  \* bound: outcomes pushed
    MaxCalls    \* bound: calls of methods

ASSUME CallsAssumption == MaxPushes \in Nat /\ MaxCalls \in Nat /\ None \notin Callers

\* Outcome<T>; the payload of an outcome plays no part.
Outcome == {"Success", "Transient", "Permanent", "Unavailable", "Panic"}

\* The queues of each fake.
FakeRegistryPort == {"resolve_snapshot", "get_voice_profile"}

FakeJourneyManagerPort ==
    {"create_execution", "cancel_execution", "get_execution_timeline"}

FakeVoiceManagerPort ==
    {"start_voice_session", "stop_voice_session", "issue_test_token", "create_telephony",
     "list_telephonies", "get_telephony", "update_telephony", "delete_telephony"}

FakePostCallPort ==
    {"get_transcript", "get_summary", "get_sentiment", "get_output_extraction",
     "list_agent_call_logs", "list_org_call_logs"}

FakeAnalyticsPort ==
    {"get_agent_analytics", "get_agent_metrics", "get_org_analytics", "get_org_metrics"}

Fakes ==
    {FakeRegistryPort, FakeJourneyManagerPort, FakeVoiceManagerPort, FakePostCallPort,
     FakeAnalyticsPort}

VARIABLES
    methods,    \* the methods of the fake of this behaviour
    queue,      \* queue[m]: outcomes not yet handed out
    guard,      \* the caller that holds the MutexGuard, or None
    poisoned,   \* the Mutex is poisoned
    call,       \* call[c]: the method c is in, or None
    pushes, calls,      \* outcomes pushed and calls begun so far
    pushed,     \* pushed[m]: every outcome pushed (history)
    handed,     \* handed[m]: every outcome popped (history)
    answers     \* how calls ended, in that order (history)

lockVars == <<queue, guard, poisoned>>
history  == <<pushed, handed, answers>>
vars     == <<methods, lockVars, call, pushes, calls, history>>

\* new(): empty queues.
Init ==
    /\ methods \in Fakes
    /\ queue = [m \in methods |-> <<>>] /\ guard = None /\ poisoned = FALSE
    /\ call = [c \in Callers |-> None]
    /\ pushes = 0 /\ calls = 0
    /\ pushed = [m \in methods |-> <<>>] /\ handed = [m \in methods |-> <<>>]
    /\ answers = <<>>

-----------------------------------------------------------------------------
(* push_<method>, from the test. *)

\* lock().unwrap() succeeds and push_back follows at once; on a poisoned
\* Mutex it panics in the test, and nothing is pushed.
Push(m, o) ==
    /\ guard = None /\ ~poisoned /\ pushes < MaxPushes
    /\ queue' = [queue EXCEPT ![m] = Append(@, o)]
    /\ pushed' = [pushed EXCEPT ![m] = Append(@, o)]
    /\ pushes' = pushes + 1
    /\ UNCHANGED <<methods, guard, poisoned, call, calls, handed, answers>>

-----------------------------------------------------------------------------
(* The methods of a port. *)

Begin(c, m) ==
    /\ call[c] = None /\ calls < MaxCalls
    /\ call' = [call EXCEPT ![c] = m]
    /\ calls' = calls + 1
    /\ UNCHANGED <<methods, lockVars, pushes, history>>

\* lock() returns a guard.
Lock(c) ==
    /\ call[c] # None /\ guard = None /\ ~poisoned
    /\ guard' = c
    /\ UNCHANGED <<methods, queue, poisoned, call, pushes, calls, history>>

\* The call of c ends, with a result or a panic.
End(c, answer) ==
    /\ call' = [call EXCEPT ![c] = None]
    /\ answers' = Append(answers, answer)
    /\ UNCHANGED <<methods, pushes, calls, pushed>>

\* lock() returns a PoisonError, and unwrap() panics.
LockPoisoned(c) ==
    /\ call[c] # None /\ guard = None /\ poisoned
    /\ End(c, "poisoned")
    /\ UNCHANGED <<lockVars, handed>>

\* pop_front().expect() on an empty queue panics, with the guard held.
EmptyPanics(c) ==
    /\ guard = c /\ queue[call[c]] = <<>>
    /\ guard' = None /\ poisoned' = TRUE
    /\ End(c, "empty")
    /\ UNCHANGED <<queue, handed>>

\* A bug: pop_back instead of pop_front.
MatchNewest(c) ==
    LET m == call[c]
        o == queue[m][Len(queue[m])]
    IN  /\ guard = c /\ queue[m] # <<>>
        /\ queue' = [queue EXCEPT ![m] = SubSeq(@, 1, Len(@) - 1)]
        /\ handed' = [handed EXCEPT ![m] = Append(@, o)]
        /\ guard' = None /\ poisoned' = (o = "Panic")
        /\ End(c, o)

\* A bug: the outcome is bound by a let, which drops the guard before the match.
MatchUnguarded(c) ==
    LET m == call[c]
        o == Head(queue[m])
    IN  /\ guard = c /\ queue[m] # <<>>
        /\ queue' = [queue EXCEPT ![m] = Tail(@)]
        /\ handed' = [handed EXCEPT ![m] = Append(@, o)]
        /\ guard' = None /\ UNCHANGED poisoned
        /\ End(c, o)

\* The next outcome is popped and its arm runs, under the guard.
Match(c) ==
    LET m == call[c]
        o == Head(queue[m])
    IN  /\ guard = c /\ queue[m] # <<>>
        /\ queue' = [queue EXCEPT ![m] = Tail(@)]
        /\ handed' = [handed EXCEPT ![m] = Append(@, o)]
        /\ guard' = None /\ poisoned' = (o = "Panic")
        /\ End(c, o)

-----------------------------------------------------------------------------
(* The five fakes. *)

\* The push_<method> functions of each.
PushRegistry       == methods = FakeRegistryPort /\ \E m \in methods, o \in Outcome : Push(m, o)
PushJourneyManager == methods = FakeJourneyManagerPort /\ \E m \in methods, o \in Outcome : Push(m, o)
PushVoiceManager   == methods = FakeVoiceManagerPort /\ \E m \in methods, o \in Outcome : Push(m, o)
PushPostCall       == methods = FakePostCallPort /\ \E m \in methods, o \in Outcome : Push(m, o)
PushAnalytics      == methods = FakeAnalyticsPort /\ \E m \in methods, o \in Outcome : Push(m, o)

\* A method that has been called runs.
MethodStep(c) == Lock(c) \/ LockPoisoned(c) \/ EmptyPanics(c) \/ Match(c)

\* The implementation of its port by each.
RegistryPort(c) ==
    /\ methods = FakeRegistryPort
    /\ (\E m \in methods : Begin(c, m)) \/ MethodStep(c)

JourneyManagerPort(c) ==
    /\ methods = FakeJourneyManagerPort
    /\ (\E m \in methods : Begin(c, m)) \/ MethodStep(c)

VoiceManagerPort(c) ==
    /\ methods = FakeVoiceManagerPort
    /\ (\E m \in methods : Begin(c, m)) \/ MethodStep(c)

PostCallPort(c) ==
    /\ methods = FakePostCallPort
    /\ (\E m \in methods : Begin(c, m)) \/ MethodStep(c)

AnalyticsPort(c) ==
    /\ methods = FakeAnalyticsPort
    /\ (\E m \in methods : Begin(c, m)) \/ MethodStep(c)

Next ==
    \/ PushRegistry \/ PushJourneyManager \/ PushVoiceManager \/ PushPostCall \/ PushAnalytics
    \/ \E c \in Callers :
           \/ RegistryPort(c) \/ JourneyManagerPort(c) \/ VoiceManagerPort(c)
           \/ PostCallPort(c) \/ AnalyticsPort(c)

Spec == Init /\ [][Next]_vars

-----------------------------------------------------------------------------
(* Properties. *)

\* Type invariant; the holder of the guard is inside a method.
TypeOK ==
    /\ queue \in [methods -> Seq(Outcome)]
    /\ pushed \in [methods -> Seq(Outcome)] /\ handed \in [methods -> Seq(Outcome)]
    /\ poisoned \in BOOLEAN
    /\ call \in [Callers -> methods \cup {None}]
    /\ guard # None => guard \in Callers /\ call[guard] \in methods
    /\ answers \in Seq(Outcome \cup {"empty", "poisoned"})

\* Whichever tasks and clones call, the outcomes of a method are handed out
\* in the order they were pushed, each once, and none is lost.
ServedInOrder == \A m \in methods : pushed[m] = handed[m] \o queue[m]

\* A panic, injected or for want of an outcome, is the end of the whole fake:
\* whatever is still queued, for this method or another, no call by any task
\* gets an outcome after it.
PanicEndsTheFake ==
    \A i, j \in DOMAIN answers :
        i < j /\ answers[i] \in {"Panic", "empty", "poisoned"} => answers[j] = "poisoned"
=============================================================================
