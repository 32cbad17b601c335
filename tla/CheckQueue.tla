------------------------------ MODULE CheckQueue ------------------------------
(***************************************************************************)
(* Whose run is next, and who looks: pipeline/coordination.py              *)
(* (fair_candidates, admit_next) and the loop of pipeline/worker.py, with  *)
(* the wake-ups of pipeline/router.py.                                     *)
(*                                                                         *)
(* The claim itself is PipelineClaims, and what a run does in its turn is  *)
(* CheckRunPipeline; here a run is claimed or not and a turn is its end.   *)
(***************************************************************************)
EXTENDS Integers, Sequences, FiniteSets, SequencesExt

CONSTANTS
  Runs,
  Owner,       \* run -> instructor of its manuscript
  Schedulers,  \* processes, each with one worker_loop
  None,        \* no run, no scheduler
  Periodic,    \* worker_loop polls, too
  MaxCrashes,  \* bound of the model: processes that die
  MaxTimeouts  \* bound of the model: admissions that time out

QueueAssumption ==
  /\ None \notin Runs \union Schedulers
  /\ Periodic \in BOOLEAN
  /\ MaxCrashes \in Nat /\ MaxTimeouts \in Nat

VARIABLES
  queue,     \* the runs in the order of their creation
  state,     \* run -> "none", "waiting", "parked" (blocked until a time) or "over"
  started,   \* run -> rank of its started_at, 0 without one
  asked,     \* runs somebody has asked to cancel, once each
  locked,    \* runs whose row the cancellation has locked
  claim,     \* the run with a fresh claim
  guard,     \* the scheduler with the guard's lock
  at,        \* scheduler -> "wait", "sleep", "look", "choose" or "turn"
  list,      \* scheduler -> candidates it has read and not tried yet
  busy,      \* schedulers that found a candidate's row locked
  mine,      \* scheduler -> the run it has claimed
  event,     \* scheduler -> its wake_event
  unsent,    \* run -> the scheduler its request has still to wake
  ahead,     \* history: instructor -> those with a new run since its oldest one waits
  crashes,
  timeouts

rows == <<queue, state, started, asked, locked>>
loop == <<at, list, busy, mine>>
faults == <<crashes, timeouts>>
vars == <<rows, claim, guard, loop, event, unsent, ahead, faults>>

Instructors == {Owner[r] : r \in Runs}

Init ==
  /\ queue = <<>>
  /\ state = [r \in Runs |-> "none"]
  /\ started = [r \in Runs |-> 0]
  /\ asked = {} /\ locked = {}
  /\ claim = None /\ guard = None
  /\ at = [s \in Schedulers |-> IF Periodic THEN "sleep" ELSE "wait"]
  /\ list = [s \in Schedulers |-> <<>>]
  /\ busy = {}
  /\ mine = [s \in Schedulers |-> None]
  /\ event = [s \in Schedulers |-> FALSE]
  /\ unsent = [r \in Runs |-> None]
  /\ ahead = [o \in Instructors |-> {}]
  /\ crashes = 0 /\ timeouts = 0

-----------------------------------------------------------------------------
(* The order of service.                                                   *)

Open(r) == state[r] \in {"waiting", "parked"}

Position(r) == CHOOSE i \in DOMAIN queue : queue[i] = r

\* The oldest run of its instructor that is not over.
IsHead(r) ==
  Open(r) /\ \A p \in Runs : Open(p) /\ Owner[p] = Owner[r] => Position(r) <= Position(p)

Heads == {r \in Runs : IsHead(r)}

\* Rank of the last start of a run of the instructor, 0 before the first.
LastStarted(o) ==
  CHOOSE n \in {0} \union {started[r] : r \in Runs} :
    /\ n = 0 \/ \E r \in Runs : Owner[r] = o /\ started[r] = n
    /\ \A r \in Runs : Owner[r] = o => started[r] <= n

\* Faulty variant of Before: the oldest head is always first.
BeforeByAge(p, r) == Position(p) < Position(r)

\* Whoever was served longest ago is first, and the older run among equals.
Before(p, r) ==
  \/ LastStarted(Owner[p]) < LastStarted(Owner[r])
  \/ LastStarted(Owner[p]) = LastStarted(Owner[r]) /\ Position(p) < Position(r)

Older(p, r) == Position(p) < Position(r)

Eligible == {r \in Runs : state[r] = "waiting"}

\* The heads come first, whatever their turn, and the others by age.
Sooner(p, r) ==
  IF p \in Heads /\ r \in Heads THEN Before(p, r)
  ELSE p \in Heads \/ (r \notin Heads /\ Older(p, r))

\* fair_candidates without the runs that are blocked when it is read.
FairCandidates ==
  {q \in [1..Cardinality(Eligible) -> Eligible] :
     /\ Range(q) = Eligible
     /\ \A j \in DOMAIN q : \A i \in 1..(j - 1) : Sooner(q[i], q[j])}

-----------------------------------------------------------------------------
(* Requests.                                                               *)

\* create_check_run commits; the wake-up follows in a step of its own.
Create(r, s) ==
  /\ state[r] = "none"
  /\ queue' = Append(queue, r)
  /\ state' = [state EXCEPT ![r] = "waiting"]
  /\ unsent' = [unsent EXCEPT ![r] = s]
  /\ UNCHANGED <<started, asked, locked, claim, guard, loop, event, ahead, faults>>

WakePipeline(r) ==
  /\ unsent[r] # None
  /\ event' = [event EXCEPT ![unsent[r]] = TRUE]
  /\ unsent' = [unsent EXCEPT ![r] = None]
  /\ UNCHANGED <<rows, claim, guard, loop, ahead, faults>>

\* cancel_check_run locks the row of an active run ...
AskCancel(r) ==
  /\ Open(r) /\ r \notin asked
  /\ asked' = asked \union {r}
  /\ locked' = locked \union {r}
  /\ UNCHANGED <<queue, state, started, claim, guard, loop, event, unsent, ahead, faults>>

\* ... and ends the run, leaves that to its driver, or is broken off.
EndCancel(r) ==
  /\ r \in locked
  /\ locked' = locked \ {r}
  /\ state' \in {state, [state EXCEPT ![r] = "over"]}
  /\ UNCHANGED <<queue, started, asked, claim, guard, loop, event, unsent, ahead, faults>>

\* The time a parked run waits for has come.
Unpark(r) ==
  /\ state[r] = "parked"
  /\ state' = [state EXCEPT ![r] = "waiting"]
  /\ UNCHANGED <<queue, started, asked, locked, claim, guard, loop, event, unsent, ahead, faults>>

-----------------------------------------------------------------------------
(* worker_loop.                                                            *)

Goto(s, place) == at' = [at EXCEPT ![s] = place]

\* Faulty variant of Wake: the timeout of the wait is missing.
WakeUnpolled(s) ==
  /\ (at[s] = "wait" /\ event[s]) \/ at[s] = "sleep"
  /\ event' = [event EXCEPT ![s] = FALSE]
  /\ Goto(s, "look")
  /\ UNCHANGED <<rows, claim, guard, list, busy, mine, unsent, ahead, faults>>

\* The loop is woken, polls, or has slept; it clears the event first.
Wake(s) ==
  /\ \/ at[s] = "wait" /\ (event[s] \/ Periodic)
     \/ at[s] = "sleep"
  /\ event' = [event EXCEPT ![s] = FALSE]
  /\ Goto(s, "look")
  /\ UNCHANGED <<rows, claim, guard, list, busy, mine, unsent, ahead, faults>>

\* admit_next finds the guard taken or a fresh claim, or times out.
Refused(s) ==
  /\ at[s] \in {"look", "choose"}
  /\ \/ at[s] = "look" /\ (guard # None \/ claim # None) /\ UNCHANGED <<guard, faults>>
     \/ /\ timeouts < MaxTimeouts /\ timeouts' = timeouts + 1
        /\ UNCHANGED crashes
        /\ guard' = IF guard = s THEN None ELSE guard
  /\ Goto(s, "sleep")
  /\ busy' = busy \ {s}
  /\ list' = [list EXCEPT ![s] = <<>>]
  /\ UNCHANGED <<rows, claim, mine, event, unsent, ahead>>

\* The instructors whose oldest run is waiting and can be claimed.
Served(o) == \E r \in Heads : Owner[r] = o /\ state[r] = "waiting" /\ r \notin locked

\* admit_next takes the guard and reads the candidates.
Look(s) ==
  /\ at[s] = "look"
  /\ guard = None /\ claim = None
  /\ guard' = s
  /\ \E candidates \in FairCandidates : list' = [list EXCEPT ![s] = candidates]
  /\ ahead' = [o \in Instructors |-> IF Served(o) THEN ahead[o] ELSE {}]
  /\ Goto(s, "choose")
  /\ UNCHANGED <<rows, claim, busy, mine, event, unsent, faults>>

\* The next candidate is locked by a request, or not waiting any more.
Skip(s) ==
  /\ at[s] = "choose" /\ list[s] # <<>>
  /\ LET r == Head(list[s]) IN
       /\ r \in locked \/ state[r] # "waiting"
       /\ busy' = IF r \in locked THEN busy \union {s} ELSE busy
       /\ ahead' = [ahead EXCEPT ![Owner[r]] = {}]
  /\ list' = [list EXCEPT ![s] = Tail(@)]
  /\ UNCHANGED <<rows, claim, guard, at, mine, event, unsent, faults>>

\* It is claimed.
Claim(s) ==
  /\ at[s] = "choose" /\ list[s] # <<>>
  /\ LET r == Head(list[s]) IN
       /\ r \notin locked /\ state[r] = "waiting"
       /\ claim' = r
       /\ mine' = [mine EXCEPT ![s] = r]
       /\ ahead' = [ahead EXCEPT ![Owner[r]] = {}]
  /\ guard' = None
  /\ list' = [list EXCEPT ![s] = <<>>]
  /\ busy' = busy \ {s}
  /\ Goto(s, "turn")
  /\ UNCHANGED <<rows, event, unsent, faults>>

\* Faulty variant of Exhausted: the event is cleared after the last look.
ExhaustedClears(s) ==
  /\ at[s] = "choose" /\ list[s] = <<>>
  /\ guard' = None
  /\ busy' = busy \ {s}
  /\ event' = [event EXCEPT ![s] = FALSE]
  /\ Goto(s, IF s \in busy THEN "sleep" ELSE "wait")
  /\ UNCHANGED <<rows, claim, list, mine, unsent, ahead, faults>>

\* No candidate: the loop waits, unless one was locked.
Exhausted(s) ==
  /\ at[s] = "choose" /\ list[s] = <<>>
  /\ guard' = None
  /\ busy' = busy \ {s}
  /\ Goto(s, IF s \in busy THEN "sleep" ELSE "wait")
  /\ UNCHANGED <<rows, claim, list, mine, event, unsent, ahead, faults>>

-----------------------------------------------------------------------------
(* The turn of a run.                                                      *)

Ranked == {r \in Runs : started[r] # 0}

\* It leaves "queued": started_at is set once.
Begin(s) ==
  /\ at[s] = "turn" /\ state[mine[s]] = "waiting" /\ mine[s] \notin locked
  /\ started[mine[s]] = 0
  /\ started' = [started EXCEPT ![mine[s]] = Cardinality(Ranked) + 1]
  /\ ahead' = [o \in Instructors |-> IF o = Owner[mine[s]] THEN {}
                                 ELSE ahead[o] \union {Owner[mine[s]]}]
  /\ UNCHANGED <<queue, state, asked, locked, claim, guard, loop, event, unsent, faults>>

\* The run ends, is parked, or yields; then its claim is released.
EndTurn(s, outcome) ==
  /\ at[s] = "turn"
  /\ mine[s] \notin locked
  /\ started[mine[s]] = 0 /\ state[mine[s]] # "over" => outcome = "waiting"
  /\ state[mine[s]] = "over" => outcome = "over"
  /\ state' = [state EXCEPT ![mine[s]] = outcome]
  /\ claim' = None
  /\ mine' = [mine EXCEPT ![s] = None]
  /\ Goto(s, "sleep")
  /\ UNCHANGED <<queue, started, asked, locked, guard, list, busy, event, unsent, ahead, faults>>

\* The process dies; its claim outlives it, what it had to wake does not.
Crash(s) ==
  /\ crashes < MaxCrashes
  /\ crashes' = crashes + 1
  /\ guard' = IF guard = s THEN None ELSE guard
  /\ Goto(s, IF Periodic THEN "sleep" ELSE "wait")
  /\ list' = [list EXCEPT ![s] = <<>>]
  /\ busy' = busy \ {s}
  /\ mine' = [mine EXCEPT ![s] = None]
  /\ event' = [event EXCEPT ![s] = FALSE]
  /\ unsent' = [r \in Runs |-> IF unsent[r] = s THEN None ELSE unsent[r]]
  /\ UNCHANGED <<rows, claim, ahead, timeouts>>

\* The claim of a process that died is stale.
Expire ==
  /\ claim # None /\ \A s \in Schedulers : mine[s] # claim
  /\ claim' = None
  /\ UNCHANGED <<rows, guard, loop, event, unsent, ahead, faults>>

-----------------------------------------------------------------------------

Next ==
  \/ \E r \in Runs, s \in Schedulers : Create(r, s)
  \/ \E r \in Runs : WakePipeline(r) \/ AskCancel(r) \/ EndCancel(r) \/ Unpark(r)
  \/ \E s \in Schedulers :
       Wake(s) \/ Refused(s) \/ Look(s) \/ Skip(s) \/ Claim(s) \/ Exhausted(s)
         \/ Begin(s) \/ Crash(s)
  \/ \E s \in Schedulers, o \in {"over", "parked", "waiting"} : EndTurn(s, o)
  \/ Expire

Spec == Init /\ [][Next]_vars

-----------------------------------------------------------------------------
(* Properties.                                                             *)

TypeOK ==
  /\ queue \in Seq(Runs)
  /\ state \in [Runs -> {"none", "waiting", "parked", "over"}]
  /\ started \in [Runs -> Nat]
  /\ locked \subseteq asked /\ asked \subseteq Runs
  /\ claim \in Runs \union {None} /\ guard \in Schedulers \union {None}
  /\ at \in [Schedulers -> {"wait", "sleep", "look", "choose", "turn"}]
  /\ list \in [Schedulers -> Seq(Runs)]
  /\ busy \subseteq Schedulers
  /\ mine \in [Schedulers -> Runs \union {None}]
  /\ event \in [Schedulers -> BOOLEAN]
  /\ unsent \in [Runs -> Schedulers \union {None}]
  /\ ahead \in [Instructors -> SUBSET Instructors]
  /\ crashes \in 0..MaxCrashes /\ timeouts \in 0..MaxTimeouts

\* Turns rotate: nobody starts a second new run while the oldest run of another
\* instructor is waiting all along (of a step).
TurnsRotate ==
  \A s \in Schedulers : Begin(s) => \A o \in Instructors : Owner[mine[s]] \notin ahead[o]

\* A run that was accepted is started, or cancelled before.
AcceptedRunStarts == \A r \in Runs : state[r] = "waiting" ~> started[r] # 0 \/ state[r] = "over"

\* Every run ends, whoever else has how many.
EveryRunEnds == \A r \in Runs : state[r] = "waiting" ~> state[r] = "over"

=============================================================================
