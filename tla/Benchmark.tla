------------------------------ MODULE Benchmark ------------------------------
(***************************************************************************)
(* The benchmark of rnotify: tester.c starts a round, opens a file, and    *)
(* averages the times that the applications (application.c) report.  An    *)
(* application subscribes to directories drawn at random; then one thread  *)
(* of it takes the start messages and another handles the events, and      *)
(* both use rn->start_time without a lock.  How an event travels is the    *)
(* subject of Dispatcher, Proxy and Delivery.                              *)
(***************************************************************************)
EXTENDS Naturals, Sequences, FiniteSets

CONSTANTS
  Apps,
  Dirs,       \* the directories an application draws from
  Opened,     \* the directory whose file the tester opens
  Count,      \* [Apps -> Nat], subscription_count
  MaxRounds,  \* bound
  MaxLate     \* bound: see late

ASSUME BenchmarkAssumption ==
  /\ Opened \in Dirs /\ IsFiniteSet(Dirs)
  /\ Count \in [Apps -> Nat] /\ MaxRounds \in Nat /\ MaxLate \in Nat

VARIABLES
  subs,       \* [Apps -> SUBSET Dirs], subscribed_files
  listening,  \* the applications whose two threads run
  starts,     \* [Apps -> Seq(round)], start messages not yet taken
  events,     \* [Apps -> Seq(round)], the opening of the file, not yet handled
  started,    \* [Apps -> round], the round start_time is from, 0 before it is set
  results,    \* Seq of [round, from], on the way to the tester
  tester,     \* "enter", "sleep" or "collect"
  round,
  counted,    \* Seq of [round, from], the results the tester has taken this round
  expected,   \* history: applications that were sent the event of this round
  late        \* history: messages that were missed or took longer than the tester waits

benchVars == <<subs, listening, starts, events, started, results, tester, round, counted,
          expected, late>>
appVars == <<subs, listening>>

BenchmarkInit ==
  /\ subs = [a \in Apps |-> {}] /\ listening = {}
  /\ starts = [a \in Apps |-> <<>>] /\ events = [a \in Apps |-> <<>>]
  /\ started = [a \in Apps |-> 0] /\ results = <<>>
  /\ tester = "enter" /\ round = 0 /\ counted = <<>> /\ expected = {} /\ late = 0

-----------------------------------------------------------------------------
(* The application *)

\* Slip: the modulus leaves one directory out.
DrawShort(a, d) ==
  /\ a \notin listening /\ Cardinality(subs[a]) < Count[a]
  /\ d # Opened
  /\ subs' = [subs EXCEPT ![a] = @ \cup {d}]
  /\ UNCHANGED <<listening, starts, events, started, results, tester, round, counted,
                 expected, late>>

\* A directory that is subscribed already is drawn again.
Draw(a, d) ==
  /\ a \notin listening /\ Cardinality(subs[a]) < Count[a]
  /\ subs' = [subs EXCEPT ![a] = @ \cup {d}]
  /\ UNCHANGED <<listening, starts, events, started, results, tester, round, counted,
                 expected, late>>

Listen(a) ==
  /\ a \notin listening /\ Cardinality(subs[a]) = Count[a]
  /\ listening' = listening \cup {a}
  /\ UNCHANGED <<subs, starts, events, started, results, tester, round, counted, expected,
                 late>>

\* test_channel_listener
TakeStart(a) ==
  /\ a \in listening /\ starts[a] # <<>>
  /\ started' = [started EXCEPT ![a] = Head(starts[a])]
  /\ starts' = [starts EXCEPT ![a] = Tail(@)]
  /\ UNCHANGED <<appVars, events, results, tester, round, counted, expected, late>>

\* check_notifications: what is reported is the time since start_time.
Handle(a) ==
  /\ a \in listening /\ events[a] # <<>>
  /\ results' = Append(results, [round |-> Head(events[a]), from |-> started[a]])
  /\ events' = [events EXCEPT ![a] = Tail(@)]
  /\ UNCHANGED <<appVars, starts, started, tester, round, counted, expected, late>>

-----------------------------------------------------------------------------
(* The tester: test_channel *)

Late(some) == IF some THEN late < MaxLate /\ late' = late + 1 ELSE UNCHANGED late

\* A subscriber whose connection is not up yet misses the message; it does not once it
\* has had one.
Start ==
  /\ tester = "enter" /\ round < MaxRounds
  /\ round' = round + 1
  /\ \E unheard \in SUBSET {a \in Apps : started[a] = 0 /\ starts[a] = <<>>} :
       /\ Late(unheard # {})
       /\ starts' = [a \in Apps |-> IF a \in unheard THEN starts[a]
                                   ELSE Append(starts[a], round + 1)]
  /\ tester' = "sleep"
  /\ UNCHANGED <<appVars, events, started, results, counted, expected>>

\* Slip: the results of the last round are not forgotten.
OpenFileAdding ==
  /\ tester = "sleep"
  /\ Late(\E a \in Apps : starts[a] # <<>>)
  /\ events' = [a \in Apps |-> IF Opened \in subs[a] THEN Append(events[a], round)
                               ELSE events[a]]
  /\ expected' = {a \in Apps : Opened \in subs[a]}
  /\ tester' = "collect"
  /\ UNCHANGED <<appVars, starts, started, results, round, counted>>

\* Three seconds after the start.
OpenFile ==
  /\ tester = "sleep"
  /\ Late(\E a \in Apps : starts[a] # <<>>)
  /\ events' = [a \in Apps |-> IF Opened \in subs[a] THEN Append(events[a], round)
                               ELSE events[a]]
  /\ expected' = {a \in Apps : Opened \in subs[a]}
  /\ counted' = <<>>
  /\ tester' = "collect"
  /\ UNCHANGED <<appVars, starts, started, results, round>>

Collect ==
  /\ tester = "collect" /\ results # <<>>
  /\ counted' = Append(counted, Head(results))
  /\ results' = Tail(results)
  /\ UNCHANGED <<appVars, starts, events, started, tester, round, expected, late>>

\* Slip: one result is enough.
SilenceAfterFirst ==
  /\ tester = "collect" /\ (results = <<>> \/ counted # <<>>)
  /\ Late(results = <<>> /\ \E a \in Apps : events[a] # <<>>)
  /\ tester' = "enter"
  /\ UNCHANGED <<appVars, starts, events, started, results, round, counted, expected>>

\* Ten seconds without a result: the average is taken of what has been counted.
Silence ==
  /\ tester = "collect" /\ results = <<>>
  /\ Late(\E a \in Apps : events[a] # <<>>)
  /\ tester' = "enter"
  /\ UNCHANGED <<appVars, starts, events, started, results, round, counted, expected>>

-----------------------------------------------------------------------------

BenchmarkNext ==
  \/ \E a \in Apps : Listen(a) \/ TakeStart(a) \/ Handle(a) \/ \E d \in Dirs : Draw(a, d)
  \/ Start \/ OpenFile \/ Collect \/ Silence

\* The threads go on, and a random draw does not avoid a directory for ever.
BenchmarkSpec ==
  /\ BenchmarkInit /\ [][BenchmarkNext]_benchVars
  /\ \A a \in Apps : /\ WF_benchVars(Listen(a)) /\ WF_benchVars(TakeStart(a))
                     /\ WF_benchVars(Handle(a))
                     /\ \A d \in Dirs : SF_benchVars(Draw(a, d))
  /\ WF_benchVars(OpenFile) /\ WF_benchVars(Collect) /\ WF_benchVars(Silence)

-----------------------------------------------------------------------------
(* Properties *)

Result == [round : 1 .. MaxRounds, from : 0 .. MaxRounds]

\* Every variable keeps its type, and an application listens only when it has as many
\* subscriptions, all different, as it was told (application.c:58-82).
BenchmarkTypeOK ==
  /\ subs \in [Apps -> SUBSET Dirs] /\ listening \subseteq Apps
  /\ starts \in [Apps -> Seq(1 .. MaxRounds)] /\ events \in [Apps -> Seq(1 .. MaxRounds)]
  /\ \A a \in Apps : /\ Cardinality(subs[a]) <= Count[a]
                     /\ a \in listening => Cardinality(subs[a]) = Count[a]
  /\ started \in [Apps -> 0 .. MaxRounds]
  /\ results \in Seq(Result) /\ counted \in Seq(Result)
  /\ tester \in {"enter", "sleep", "collect"} /\ round \in 0 .. MaxRounds
  /\ expected \subseteq Apps /\ late \in 0 .. MaxLate

\* tester.c:67, application.c:16: as long as the start messages are heard and taken within
\* the three seconds and the results come before ten seconds of silence, a time that counts
\* belongs to the round and is measured from the start of that very round, although
\* start_time is shared without a lock.
TimesOfTheRound ==
  (late = 0 /\ tester # "sleep") =>
    \A i \in DOMAIN counted : counted[i] = [round |-> round, from |-> round]

\* Both threads of an application, the messages under way and the tester are in the
\* round they take themselves to be in (tester.c:41-72).
RoundConsistent == BenchmarkTypeOK /\ TimesOfTheRound

\* tester.c:67: under the same conditions the average is taken of as many times as
\* applications watch the directory; it divides by zero when none does.
EveryoneCounted ==
  (late = 0 /\ tester = "enter") => Len(counted) = Cardinality(expected)

\* application.c:58, tester.c:54: an application that is told no more directories than
\* there are comes to listen, and a round that has begun comes to its end.
Completes ==
  /\ (\A a \in Apps : Count[a] <= Cardinality(Dirs)) => <>(listening = Apps)
  /\ tester = "collect" ~> tester = "enter"
=============================================================================
