----------------------------- MODULE RateGovernor -----------------------------
(***************************************************************************)
(* The waits of rate_governor.py before a call to an outside service: the  *)
(* window of estimated tokens of a model, as llm/queue.py takes it, and    *)
(* after it the window of requests, as llm/queue.py and external/http.py   *)
(* take it, with the spacing and the cool-down of a service.  Every attempt *)
(* of a call waits on its own, so a retry or a redirect is a call of its   *)
(* own here.                                                               *)
(*                                                                         *)
(* Times are kept as ages, so that the clock has no end: a tick makes      *)
(* everything older and every sleep shorter.  Both locks are asyncio.Locks *)
(* with a first-come line, whose head sleeps with the lock held.           *)
(***************************************************************************)
EXTENDS Integers, Sequences, SequencesExt

CONSTANTS
  Callers,
  Services,   \* a behaviour is about one of them: they share nothing
  Metered,    \* those with a token budget, the models of the pool
  Window,     \* ticks of the sliding window, 60 s in the code
  Budget,     \* tokens within a window
  Sizes,      \* estimated tokens of a call
  Profiles,   \* service -> the interval and rpm that settings may give it
  Cooldowns,  \* ticks a service may refuse for
  Old         \* ages from here on are not told apart

GovernorAssumption ==
  /\ Window \in Nat \ {0} /\ Budget \in Nat /\ Sizes \subseteq Nat
  /\ Metered \subseteq Services
  /\ Old \in Nat /\ Old > Window
  /\ Profiles \in [Services -> SUBSET [interval : 0..Old, rpm : Nat \ {0}]]
  /\ Cooldowns \subseteq Nat \ {0}

VARIABLES
  service,    \* the service of this behaviour
  pos,        \* caller -> "idle", "tokens", "slot", "sent" or "refused"
  size,       \* caller -> tokens of its call
  sleep,      \* caller -> ticks it sleeps still
  tokenLine,  \* callers at the lock of the token window, the holder first
  slotLine,   \* callers at the lock of the request window, the holder first
  spent,      \* _window: age and tokens of the calls that were let through
  stamps,     \* _timestamps: ages of the calls that were let through
  last,       \* age of _last_admitted_at
  interval,   \* _min_interval_seconds
  rpm,        \* requests within a window
  deferred,   \* ticks until _deferred_until
  drawn,      \* age and tokens of the calls let through within a window
  sends       \* ages of the calls that were sent within a window

limits == <<service, interval, rpm>>
windows == <<spent, stamps, last, deferred, drawn, sends>>
vars == <<limits, windows, pos, size, sleep, tokenLine, slotLine>>

Init ==
  /\ service \in Services
  /\ pos = [c \in Callers |-> "idle"]
  /\ size = [c \in Callers |-> 0]
  /\ sleep = [c \in Callers |-> 0]
  /\ tokenLine = <<>> /\ slotLine = <<>>
  /\ spent = <<>> /\ stamps = <<>> /\ last = Old /\ deferred = 0
  /\ drawn = <<>> /\ sends = <<>>
  /\ \E p \in Profiles[service] : interval = p.interval /\ rpm = p.rpm

-----------------------------------------------------------------------------
(* Windows.                                                                *)

Larger(m, n) == IF m >= n THEN m ELSE n
Smaller(m, n) == IF m <= n THEN m ELSE n

Recent(age) == age <= Window

Ages(calls) == [i \in DOMAIN calls |-> calls[i].age]

\* How many the loop takes off: from the left, until one is recent.
Popped(ages) ==
  CHOOSE k \in 0..Len(ages) :
    /\ \A i \in 1..k : ~Recent(ages[i])
    /\ k < Len(ages) => Recent(ages[k + 1])

Rest(s, k) == SubSeq(s, k + 1, Len(s))

SpentWindow == Rest(spent, Popped(Ages(spent)))
StampWindow == Rest(stamps, Popped(stamps))

Total(calls) ==
  LET upTo[n \in 0..Len(calls)] == IF n = 0 THEN 0 ELSE upTo[n - 1] + calls[n].tokens
  IN  upTo[Len(calls)]

-----------------------------------------------------------------------------
(* A call.                                                                 *)

Goto(c, place) == pos' = [pos EXCEPT ![c] = place]

Ask(c) ==
  /\ pos[c] = "idle"
  /\ \E n \in Sizes : size' = [size EXCEPT ![c] = n]
  /\ IF service \in Metered
     THEN Goto(c, "tokens") /\ tokenLine' = Append(tokenLine, c) /\ UNCHANGED slotLine
     ELSE Goto(c, "slot") /\ slotLine' = Append(slotLine, c) /\ UNCHANGED tokenLine
  /\ UNCHANGED <<limits, windows, sleep>>

\* The holder of a lock looks at its window when it is awake.
Awake(c, place, line) == pos[c] = place /\ line # <<>> /\ Head(line) = c /\ sleep[c] = 0

SleepFor(c, ticks) == sleep' = [sleep EXCEPT ![c] = Larger(ticks, 1)]

\* A call over the budget passes an empty window.
MayPass(c) == SpentWindow = <<>> \/ Total(SpentWindow) + size[c] <= Budget

\* TokenGovernor.acquire
TakeTokens(c) ==
  /\ Awake(c, "tokens", tokenLine)
  /\ IF MayPass(c)
     THEN LET call == [age |-> 0, tokens |-> size[c]] IN
          /\ spent' = Append(SpentWindow, call) /\ drawn' = Append(drawn, call)
          /\ tokenLine' = Tail(tokenLine)
          /\ Goto(c, "slot") /\ slotLine' = Append(slotLine, c)
          /\ UNCHANGED sleep
     ELSE /\ spent' = SpentWindow
          /\ SleepFor(c, Window - SpentWindow[1].age)
          /\ UNCHANGED <<pos, tokenLine, slotLine, drawn>>
  /\ UNCHANGED <<limits, size, stamps, last, deferred, sends>>

Full == Len(StampWindow) >= rpm

\* Faulty variant of Pause: only the window counts.
NoPause == 0

\* What is left of the interval since the last call.
Pause == interval - last

Refused == deferred > 0

Refuse(c) ==
  /\ Refused
  /\ Goto(c, "refused") /\ slotLine' = Tail(slotLine)
  /\ UNCHANGED <<sleep, stamps, last, sends>>

Send(c) ==
  /\ ~Refused /\ ~Full /\ Pause <= 0
  /\ stamps' = Append(StampWindow, 0) /\ last' = 0
  /\ sends' = Append(sends, 0)
  /\ Goto(c, "sent") /\ slotLine' = Tail(slotLine)
  /\ UNCHANGED sleep

WaitForSlot(c) ==
  /\ ~Refused /\ (Full \/ Pause > 0)
  /\ stamps' = StampWindow
  /\ SleepFor(c, IF Full THEN Window - StampWindow[1] ELSE Pause)
  /\ UNCHANGED <<pos, slotLine, last, sends>>

\* RateGovernor.acquire
TakeSlot(c) ==
  /\ Awake(c, "slot", slotLine)
  /\ Refuse(c) \/ Send(c) \/ WaitForSlot(c)
  /\ UNCHANGED <<limits, size, tokenLine, spent, deferred, drawn>>

Finish(c) ==
  /\ pos[c] \in {"sent", "refused"}
  /\ Goto(c, "idle")
  /\ UNCHANGED <<limits, windows, size, sleep, tokenLine, slotLine>>

\* The service refuses a call: it is left alone for a while.
Reject(c, ticks) ==
  /\ pos[c] = "sent" /\ service \notin Metered
  /\ deferred' = Larger(deferred, ticks)
  /\ Goto(c, "idle")
  /\ UNCHANGED <<limits, size, sleep, tokenLine, slotLine, spent, stamps, last, drawn, sends>>

\* A lookup under another profile: the process keeps the stricter limits.
Tighten(p) ==
  /\ service \notin Metered
  /\ interval' = Larger(interval, p.interval) /\ rpm' = Smaller(rpm, p.rpm)
  /\ UNCHANGED <<service, windows, pos, size, sleep, tokenLine, slotLine>>

\* A call is cancelled where it waits, or its timeout ends; what it has taken
\* stays taken.
Leaves(line, c) == \E i \in DOMAIN line : line[i] = c /\ line' = RemoveAt(line, i)

Cancel(c) ==
  /\ \/ pos[c] = "tokens" /\ Leaves(tokenLine, c) /\ UNCHANGED slotLine
     \/ pos[c] = "slot" /\ Leaves(slotLine, c) /\ UNCHANGED tokenLine
  /\ Goto(c, "idle")
  /\ sleep' = [sleep EXCEPT ![c] = 0]
  /\ UNCHANGED <<limits, windows, size>>

-----------------------------------------------------------------------------
(* Time.                                                                   *)

Older(age) == Smaller(age + 1, Old)

OlderStamps(ages) == [i \in DOMAIN ages |-> Older(ages[i])]
OlderCalls(calls) == [i \in DOMAIN calls |-> [calls[i] EXCEPT !.age = Older(@)]]

\* How many of ages, the oldest first, are beyond a window.
Beyond(ages) == CHOOSE k \in 0..Len(ages) : \A i \in DOMAIN ages : i <= k <=> ~Recent(ages[i])

Tick ==
  /\ sleep' = [c \in Callers |-> Larger(sleep[c] - 1, 0)]
  /\ spent' = OlderCalls(spent) /\ stamps' = OlderStamps(stamps)
  /\ last' = Older(last)
  /\ deferred' = Larger(deferred - 1, 0)
  /\ drawn' = Rest(OlderCalls(drawn), Beyond(Ages(OlderCalls(drawn))))
  /\ sends' = Rest(OlderStamps(sends), Beyond(OlderStamps(sends)))
  /\ UNCHANGED <<limits, pos, size, tokenLine, slotLine>>

-----------------------------------------------------------------------------

Step(c) == TakeTokens(c) \/ TakeSlot(c) \/ Finish(c)

Next ==
  \/ \E c \in Callers : Ask(c) \/ Step(c) \/ Cancel(c) \/ \E ticks \in Cooldowns : Reject(c, ticks)
  \/ \E p \in Profiles[service] : Tighten(p)
  \/ Tick

Spec == Init /\ [][Next]_vars

-----------------------------------------------------------------------------
(* Properties.                                                             *)

InLine(line, place) ==
  /\ line \in Seq(Callers) /\ IsInjective(line)
  /\ \A c \in Callers : pos[c] = place <=> Contains(line, c)

Call == [age : 0..Old, tokens : Sizes \union {0}]

TypeOK ==
  /\ service \in Services
  /\ pos \in [Callers -> {"idle", "tokens", "slot", "sent", "refused"}]
  /\ size \in [Callers -> Sizes \union {0}]
  /\ sleep \in [Callers -> 0..Old]
  /\ \A c \in Callers : sleep[c] > 0 => pos[c] \in {"tokens", "slot"}
  /\ InLine(tokenLine, "tokens") /\ InLine(slotLine, "slot")
  /\ spent \in Seq(Call) /\ drawn \in Seq(Call)
  /\ stamps \in Seq(0..Old) /\ sends \in Seq(0..Old)
  /\ last \in 0..Old /\ interval \in 0..Old /\ rpm \in Nat \ {0} /\ deferred \in Nat

\* When a request is sent, a window, ends included, holds no more requests than
\* the profile in force allows, however calls wait, wake late or are cancelled.
RateRespected == [][Len(sends') > Len(sends) => Len(sends') <= rpm]_vars

\* Calls let through within a window stay within the budget of tokens, except
\* that one call larger than the budget may pass alone.
TokensRespected == Total(drawn) <= Budget \/ Len(drawn) = 1

\* Two requests are never closer than the interval in force when the second is
\* sent, one that came into force while its call was asleep included; and none
\* is sent during a cool-down.
PacedRequests ==
  [][\A c \in Callers :
       pos[c] = "slot" /\ pos'[c] = "sent" =>
         deferred = 0 /\ \A i \in DOMAIN sends : sends[i] >= interval]_vars

=============================================================================
