------------------------------- MODULE LlmQuota -------------------------------
(***************************************************************************)
(* The model queue: llm/queue.py, the fallback from an instructor's own    *)
(* key to the shared one of llm/__init__.py, and the memory of a rejected  *)
(* key of llm/resolution.py.                                               *)
(*                                                                         *)
(* A call goes through the queues of its route, the own key's first.  In a *)
(* queue identical calls wait for each other on a registered lock, look    *)
(* into the response cache, and try the models of the pool in their order. *)
(* Every request sent was first charged, under a row lock, to the local    *)
(* budget of its day, its key's owner and its model.                       *)
(*                                                                         *)
(* The midnight of the provider's time zone may pass between any two steps,*)
(* and a call may be cancelled at any of them.                             *)
(***************************************************************************)
EXTENDS Integers, Sequences, FiniteSets

CONSTANTS
  Calls,       \* calls of complete()
  Runs,        \* check runs
  RunOf,       \* call -> its run
  Input,       \* call -> prompt and context
  Route,       \* call -> queues, in the order they are tried
  Queues,      \* LLMQueue objects: one to a process and a key
  Owner,       \* queue -> whose key it spends
  Owners,
  Models,
  Pool,        \* sequence of models
  Quota,       \* model -> daily_quota
  Vision,      \* models that take images
  Inputs,
  Images,      \* inputs with images
  Days,        \* 0..d, bound of the model
  Before,      \* island -> debits recorded before
  Alias,       \* island -> debits recorded under its historical aliases
  MaxRetries,  \* llm_max_retries
  NoCall,
  NoRow        \* no budget row in hand

\* One row of llm_quota_counters: a day's budget of a key and a model.
Islands == Days \X Owners \X Models

ASSUME RouteAssumption ==
  /\ RunOf \in [Calls -> Runs] /\ Input \in [Calls -> Inputs]
  /\ Route \in [Calls -> Seq(Queues)] /\ Owner \in [Queues -> Owners]
  /\ \A c \in Calls :
       /\ Route[c] # <<>>
       /\ \A m, n \in DOMAIN Route[c] : Route[c][m] = Route[c][n] => m = n
ASSUME PoolAssumption ==
  /\ Pool \in Seq(Models) /\ Pool # <<>> /\ Quota \in [Models -> Nat]
  /\ Vision \subseteq Models /\ Images \subseteq Inputs
ASSUME RecordAssumption == Before \in [Islands -> Nat] /\ Alias \in [Islands -> Nat]
ASSUME BoundsAssumption ==
  /\ Days \subseteq Nat /\ 0 \in Days
  /\ MaxRetries \in Nat \ {0} /\ NoCall \notin Calls /\ NoRow \notin Islands

VARIABLES
  today,     \* the day in llm_quota_reset_timezone
  debits,    \* island -> call_count
  admitted,  \* island -> requests it was charged for
  refused,   \* islands whose allowance the provider said was spent
  cached,    \* <<input, model>> pairs with a stored response
  lockOf,    \* queue and input -> the lock of _inflight, by who made it
  users,     \* queue and input -> its users
  bought,    \* queue and input -> responses paid for and stored
  at,        \* call -> where it is
  leg,       \* call -> its queue, an index of its route
  lock,      \* call -> the lock it waits for or holds
  try,       \* call -> the model it came to, an index of the pool
  attempt,   \* call -> attempts made with this model
  island,    \* call -> the budget row it has locked
  seen,      \* call -> call_count as read from that row
  missing,   \* call -> a model was unavailable
  outcome,   \* call -> how it ended
  unusable   \* runs that know their key to be rejected

ledger == <<debits, admitted, refused>>
inflight == <<lockOf, users>>
position == <<leg, lock, try, attempt, island, seen, missing>>
vars == <<today, ledger, cached, inflight, bought, at, position, outcome, unusable>>

Keys == Queues \X Inputs
Outside == {"idle", "waiting", "ended"}
Inside == {"lookup", "asking", "locked", "flying", "refused"}
Outcomes == {"none", "answered", "quota_exhausted", "key_rejected", "api_down",
             "cancelled", "unavailable"}

Queue(c) == Route[c][leg[c]]
Key(c) == <<Queue(c), Input[c]>>

\* _candidates_for: the entries of the pool a call may use, and those it has
\* not come to yet.
Candidates(c) ==
  {n \in DOMAIN Pool : Quota[Pool[n]] > 0 /\ (Input[c] \in Images => Pool[n] \in Vision)}
Left(c) == {n \in Candidates(c) : n > try[c]}

Model(c) == Pool[try[c]]
Row(c) == <<today, Owner[Queue(c)], Model(c)>>

Init ==
  /\ today = 0
  /\ debits = Before
  /\ admitted = [r \in Islands |-> 0]
  /\ refused = {}
  /\ cached = {}
  /\ lockOf = [k \in Keys |-> NoCall]
  /\ users = [k \in Keys |-> 0]
  /\ bought = [k \in Keys |-> 0]
  /\ at = [c \in Calls |-> "idle"]
  /\ leg = [c \in Calls |-> 1]
  /\ lock = [c \in Calls |-> NoCall]
  /\ try = [c \in Calls |-> 0]
  /\ attempt = [c \in Calls |-> 0]
  /\ island = [c \in Calls |-> NoRow]
  /\ seen = [c \in Calls |-> 0]
  /\ missing = [c \in Calls |-> FALSE]
  /\ outcome = [c \in Calls |-> "none"]
  /\ unusable = {}

-----------------------------------------------------------------------------
(* Entering a queue and leaving it: submit.                                *)

\* The lock registered for the input, or a new one.
Register(c, q) ==
  LET k == <<q, Input[c]>>
      common == IF users[k] = 0 THEN c ELSE lockOf[k]
  IN  /\ lockOf' = [lockOf EXCEPT ![k] = common]
      /\ users' = [users EXCEPT ![k] = users[k] + 1]
      /\ lock' = [lock EXCEPT ![c] = common]

\* Faulty variant of Unregister: whoever leaves drops the lock.
UnregisterAll(c) ==
  /\ users' = [users EXCEPT ![Key(c)] = 0]
  /\ lockOf' = [lockOf EXCEPT ![Key(c)] = NoCall]

\* The lock goes with its last user.
Kept(c) == IF users[Key(c)] = 1 THEN NoCall ELSE lock[c]

Unregister(c) ==
  /\ users' = [users EXCEPT ![Key(c)] = users[Key(c)] - 1]
  /\ lockOf' = [lockOf EXCEPT ![Key(c)] = Kept(c)]

\* RunLLMClient.complete, and the registration of submit.
Begin(c) ==
  /\ at[c] = "idle"
  /\ IF RunOf[c] \in unusable
       THEN /\ at' = [at EXCEPT ![c] = "ended"]
            /\ outcome' = [outcome EXCEPT ![c] = "unavailable"]
            /\ UNCHANGED <<inflight, position>>
       ELSE /\ at' = [at EXCEPT ![c] = "waiting"]
            /\ Register(c, Queue(c))
            /\ UNCHANGED <<outcome, leg, try, attempt, island, seen, missing>>
  /\ UNCHANGED <<today, ledger, cached, bought, unusable>>

Enter(c) ==
  /\ at[c] = "waiting"
  /\ \A d \in Calls : at[d] \in Inside => Key(d) # Key(c) \/ lock[d] # lock[c]
  /\ at' = [at EXCEPT ![c] = "lookup"]
  /\ UNCHANGED <<today, ledger, cached, inflight, bought, position, outcome, unusable>>

\* The transaction on a budget row is over.
Unlock(c) ==
  /\ island' = [island EXCEPT ![c] = NoRow]
  /\ seen' = [seen EXCEPT ![c] = 0]

\* The call returns or raises to its caller; what it knew is forgotten.
End(c, o) ==
  /\ at' = [at EXCEPT ![c] = "ended"]
  /\ outcome' = [outcome EXCEPT ![c] = o]
  /\ Unregister(c)
  /\ Unlock(c)
  /\ lock' = [lock EXCEPT ![c] = NoCall]
  /\ try' = [try EXCEPT ![c] = 0]
  /\ attempt' = [attempt EXCEPT ![c] = 0]
  /\ missing' = [missing EXCEPT ![c] = FALSE]
  /\ UNCHANGED leg

\* Faulty variant of CanFallBack: only a spent allowance is rerouted.
CanFallBackWhenSpent(c, o) == leg[c] < Len(Route[c]) /\ o = "quota_exhausted"

\* The refusals FallbackLLMClient reroutes to the shared key.
CanFallBack(c, o) ==
  leg[c] < Len(Route[c]) /\ o \in {"quota_exhausted", "key_rejected"}

\* The next queue of the route, where the call registers afresh.
FallBack(c) ==
  LET q == Route[c][leg[c] + 1]
      k == <<q, Input[c]>>
      common == IF users[k] = 0 THEN c ELSE lockOf[k]
  IN  /\ users' = [x \in Keys |-> users[x] + (IF x = k THEN 1 ELSE 0)
                                         - (IF x = Key(c) THEN 1 ELSE 0)]
      /\ lockOf' = [x \in Keys |-> IF x = k THEN common
                                   ELSE IF x = Key(c) THEN Kept(c) ELSE lockOf[x]]
      /\ lock' = [lock EXCEPT ![c] = common]
      /\ leg' = [leg EXCEPT ![c] = leg[c] + 1]
      /\ try' = [try EXCEPT ![c] = 0]
      /\ attempt' = [attempt EXCEPT ![c] = 0]
      /\ missing' = [missing EXCEPT ![c] = FALSE]
      /\ at' = [at EXCEPT ![c] = "waiting"]
      /\ Unlock(c)
      /\ UNCHANGED outcome

Fail(c, o) ==
  IF CanFallBack(c, o) THEN FallBack(c) /\ UNCHANGED unusable
  ELSE /\ End(c, o)
       /\ unusable' = IF o = "key_rejected" THEN unusable \union {RunOf[c]} ELSE unusable

-----------------------------------------------------------------------------
(* One call in one queue: _submit and _call_with_retry.                    *)

\* What a call says when no candidate is left.
Exhausted(c) == IF missing[c] THEN "api_down" ELSE "quota_exhausted"

Ask(c) ==
  /\ \E n \in Left(c) :
       /\ \A m \in Left(c) : n <= m
       /\ try' = [try EXCEPT ![c] = n]
  /\ attempt' = [attempt EXCEPT ![c] = 0]
  /\ at' = [at EXCEPT ![c] = "asking"]
  /\ Unlock(c)
  /\ UNCHANGED <<inflight, leg, lock, outcome, unusable>>

\* Faulty variant of NextModel: a daily cap is retried.
NextModelSame(c) ==
  IF Left(c) # {} /\ try[c] = 0 THEN Ask(c) /\ UNCHANGED missing
  ELSE IF try[c] = 0 THEN Fail(c, Exhausted(c))
  ELSE /\ at' = [at EXCEPT ![c] = "asking"]
       /\ Unlock(c)
       /\ UNCHANGED <<inflight, leg, lock, try, attempt, missing, outcome, unusable>>

\* On to the next candidate, if there is one.
NextModel(c) ==
  IF Left(c) # {} THEN Ask(c) /\ UNCHANGED missing ELSE Fail(c, Exhausted(c))

Found(c) == \E n \in Candidates(c) : <<Input[c], Pool[n]>> \in cached

\* A response stored for any candidate answers the call.
LookUp(c) ==
  /\ at[c] = "lookup"
  /\ \/ Found(c) /\ End(c, "answered") /\ UNCHANGED unusable
     \/ ~ Found(c) /\ NextModel(c)
  /\ UNCHANGED <<today, ledger, cached, bought>>

RowFree(r) == \A d \in Calls : at[d] = "locked" => island[d] # r

\* _lock_budget, after the waits of the request and token governors.
LockBudget(c) ==
  /\ at[c] = "asking"
  /\ RowFree(Row(c))
  /\ island' = [island EXCEPT ![c] = Row(c)]
  /\ seen' = [seen EXCEPT ![c] = debits[Row(c)]]
  /\ at' = [at EXCEPT ![c] = "locked"]
  /\ UNCHANGED <<today, ledger, cached, inflight, bought, leg, lock, try, attempt,
                 missing, outcome, unusable>>

\* Faulty variant of Spent: off by one.
SpentAbove(r, n) == n + Alias[r] > Quota[r[3]]

Spent(r, n) == n + Alias[r] >= Quota[r[3]]

\* _try_reserve_quota and its commit.
Reserve(c) ==
  /\ at[c] = "locked"
  /\ ~ Spent(island[c], seen[c])
  /\ debits' = [debits EXCEPT ![island[c]] = seen[c] + 1]
  /\ admitted' = [admitted EXCEPT ![island[c]] = admitted[island[c]] + 1]
  /\ Unlock(c)
  /\ at' = [at EXCEPT ![c] = "flying"]
  /\ UNCHANGED <<today, refused, cached, inflight, bought, leg, lock, try, attempt,
                 missing, outcome, unusable>>

\* The local budget is spent: no closure, the next model.
Decline(c) ==
  /\ at[c] = "locked"
  /\ Spent(island[c], seen[c])
  /\ NextModel(c)
  /\ UNCHANGED <<today, ledger, cached, bought>>

\* The provider's answers to the request in flight.

\* A 429 of the minute, a 5xx, no connection: retried, and charged again.
Hiccup(c) ==
  /\ at[c] = "flying"
  /\ IF attempt[c] + 1 < MaxRetries
       THEN /\ attempt' = [attempt EXCEPT ![c] = attempt[c] + 1]
            /\ at' = [at EXCEPT ![c] = "asking"]
            /\ UNCHANGED <<inflight, leg, lock, try, island, seen, missing, outcome, unusable>>
       ELSE Fail(c, "api_down")
  /\ UNCHANGED <<today, ledger, cached, bought>>

\* A 404 of the model: the next one is asked, and the failure remembered.
ModelUnavailable(c) ==
  /\ at[c] = "flying"
  /\ IF Left(c) # {} THEN Ask(c) /\ missing' = [missing EXCEPT ![c] = TRUE]
                     ELSE Fail(c, "api_down")
  /\ UNCHANGED <<today, ledger, cached, bought>>

KeyRejected(c) ==
  /\ at[c] = "flying"
  /\ Fail(c, "key_rejected")
  /\ UNCHANGED <<today, ledger, cached, bought>>

\* A 429 of the day: the provider has spent the day its clock shows.
Refuse(c) ==
  /\ at[c] = "flying"
  /\ refused' = refused \union {Row(c)}
  /\ at' = [at EXCEPT ![c] = "refused"]
  /\ UNCHANGED <<today, debits, admitted, cached, inflight, bought, position, outcome,
                 unusable>>

AtLeast(n, q) == IF n < q THEN q ELSE n

\* _close_island: the day that is closed is the day of the closing.
CloseIsland(c) ==
  /\ at[c] = "refused"
  /\ RowFree(Row(c))
  /\ debits' = [debits EXCEPT ![Row(c)] = AtLeast(debits[Row(c)], Quota[Model(c)])]
  /\ NextModel(c)
  /\ UNCHANGED <<today, admitted, refused, cached, bought>>

\* _write_cache: the first writer's response stays.
Store(c) ==
  /\ at[c] = "flying"
  /\ cached' = cached \union {<<Input[c], Model(c)>>}
  /\ bought' = [bought EXCEPT ![Key(c)] = bought[Key(c)] + 1]
  /\ End(c, "answered")
  /\ UNCHANGED <<today, ledger, unusable>>

\* The caller's task is cancelled; a transaction under way is rolled back.
Cancel(c) ==
  /\ at[c] \in Inside \union {"waiting"}
  /\ End(c, "cancelled")
  /\ UNCHANGED <<today, ledger, cached, bought, unusable>>

Midnight ==
  /\ today + 1 \in Days
  /\ today' = today + 1
  /\ UNCHANGED <<ledger, cached, inflight, bought, at, position, outcome, unusable>>

Step(c) ==
  \/ Enter(c) \/ LookUp(c) \/ LockBudget(c) \/ Reserve(c) \/ Decline(c)
  \/ Hiccup(c) \/ ModelUnavailable(c) \/ KeyRejected(c)
  \/ Refuse(c) \/ CloseIsland(c) \/ Store(c)

Next == Midnight \/ \E c \in Calls : Begin(c) \/ Step(c) \/ Cancel(c)

Spec == Init /\ [][Next]_vars

-----------------------------------------------------------------------------
(* Properties.                                                             *)

TypeOK ==
  /\ today \in Days
  /\ debits \in [Islands -> Nat] /\ admitted \in [Islands -> Nat]
  /\ refused \subseteq Islands
  /\ cached \subseteq Inputs \X Models
  /\ lockOf \in [Keys -> Calls \union {NoCall}]
  /\ users \in [Keys -> Int] /\ bought \in [Keys -> Nat]
  /\ at \in [Calls -> Inside \union Outside]
  /\ leg \in [Calls -> Nat] /\ try \in [Calls -> {0} \union DOMAIN Pool]
  /\ lock \in [Calls -> Calls \union {NoCall}]
  /\ attempt \in [Calls -> 0..MaxRetries - 1]
  /\ island \in [Calls -> Islands \union {NoRow}] /\ seen \in [Calls -> Nat]
  /\ missing \in [Calls -> BOOLEAN]
  /\ outcome \in [Calls -> Outcomes]
  /\ unusable \subseteq Runs

\* No day's budget is charged for more requests than its cap leaves after
\* the debits on record, its aliases' included, whichever queues and
\* processes compete for the last of it (_try_reserve_quota).
BudgetRespected ==
  \A r \in Islands :
    admitted[r] > 0 => admitted[r] + Before[r] + Alias[r] <= Quota[r[3]]

\* What is on record is at least what was charged.
RecordCovers == \A r \in Islands : debits[r] >= Before[r] + admitted[r]

\* Who is about to charge a row has read it as it is, and has it alone.
LockInv ==
  \A c \in Calls : at[c] = "locked" =>
    /\ seen[c] = debits[island[c]]
    /\ \A d \in Calls \ {c} : at[d] = "locked" => island[d] # island[c]

\* Every call is at a queue of its route, and asks a model of the pool.
PlaceInv ==
  \A c \in Calls :
    /\ leg[c] \in DOMAIN Route[c]
    /\ at[c] \in {"asking", "locked", "flying", "refused"} => try[c] # 0
    /\ at[c] = "locked" => island[c] \in Islands

\* The inductive invariant of the proofs.
IInv == TypeOK /\ PlaceInv /\ LockInv /\ BudgetRespected /\ RecordCovers

\* The calls that wait for the lock of an input in a queue, or hold it.
Here(k) == {c \in Calls : at[c] \notin {"idle", "ended"} /\ Key(c) = k}

\* The users counted at a registered lock are the calls that wait for it or
\* hold it, through failures, fallbacks and cancellations, and all of them
\* share it: it is dropped when the last one leaves (submit's finally).
UsersCounted ==
  \A k \in Keys :
    users[k] = Cardinality(Here(k)) /\ \A c \in Here(k) : lock[c] = lockOf[k]

\* Identical calls of one queue that miss the cache together pay for one
\* response between them, whoever of them is cancelled (submit).
PaidOnce == \A k \in Keys : bought[k] <= 1

\* Identical calls of one queue that miss the cache together pay for one
\* response between them, whoever of them is cancelled; they share a lock, which
\* goes when the last of its users leaves.
OneBuys == PaidOnce /\ UsersCounted

\* The budget of a call's model was spent, on some day so far.
SpentSomeDay(c, n) ==
  \E d \in Days : LET r == <<d, Owner[Queue(c)], Pool[n]>> IN Spent(r, debits[r])

\* A call that ends for want of allowance ends so only when every model it
\* may use had its budget spent and none was merely unavailable (_submit's two
\* ways to run out of candidates).
QuotaMeansSpent ==
  \A c \in Calls : outcome[c] = "quota_exhausted" =>
    \A n \in Candidates(c) : SpentSomeDay(c, n)

\* A key that is spent or revoked never ends a call that has another key to
\* turn to (FallbackLLMClient), and so never takes the run's capability away.
OtherKeyTried ==
  \A c \in Calls : outcome[c] \in {"quota_exhausted", "key_rejected"} =>
    leg[c] = Len(Route[c])

\* A call that ends for want of allowance, or of a key, has tried every key of
\* its route, and every model it may use there had its budget spent.
EndsForAReason == QuotaMeansSpent /\ OtherKeyTried

-----------------------------------------------------------------------------
(* Why: the inductive invariant of the two properties above.               *)

Asking == {"asking", "locked", "flying", "refused"}

\* All that wait for an input in a queue share a lock, so one is at work on it.
OneInside ==
  \A c, d \in Calls :
    at[c] \in Inside /\ at[d] \in Inside /\ Key(c) = Key(d) => c = d

\* What was paid for is found by every later call with the same input.
PaidIsFound ==
  \A c \in Calls, q \in Queues : bought[<<q, Input[c]>>] > 0 => Found(c)

\* A call that asks a model found nothing when it came, and the models it has
\* passed, none of them unavailable, were spent.
CallOK(c) ==
  /\ at[c] \in {"idle", "waiting", "lookup"} => try[c] = 0 /\ ~missing[c]
  /\ at[c] \in Asking => try[c] \in Candidates(c) /\ bought[Key(c)] = 0
  /\ at[c] \in Asking /\ ~missing[c] =>
       \A n \in Candidates(c) : n < try[c] => SpentSomeDay(c, n)
  /\ at[c] = "locked" => \E d \in Days : island[c] = <<d, Owner[Queue(c)], Model(c)>>
  /\ at[c] # "ended" => outcome[c] = "none"
  /\ outcome[c] = "quota_exhausted" => \A n \in Candidates(c) : SpentSomeDay(c, n)
  /\ outcome[c] \in {"quota_exhausted", "key_rejected"} => leg[c] = Len(Route[c])

CallInv ==
  /\ IInv
  /\ OneBuys /\ \A k \in Keys : IsFiniteSet(Here(k))
  /\ OneInside /\ PaidIsFound
  /\ \A c \in Calls : CallOK(c)

-----------------------------------------------------------------------------

\* Debits once saved are never lowered, neither by a closure under a smaller
\* cap nor by a charge computed from an older count.
DebitsNeverFall == [][\A r \in Islands : debits'[r] >= debits[r]]_debits

\* Whoever asks ends with an answer or a reason, although calls wait for
\* each other's lock and for the rows' locks, and an attempt that failed is made
\* and charged again (_call_with_retry).
CallSettles == \A c \in Calls : at[c] = "waiting" ~> at[c] = "ended"

\* "Closed until reset": a budget is held closed, beyond what it was charged
\* for, only on a day whose allowance the provider refused.
HeldOnlyIfRefused ==
  \A r \in Islands : debits[r] > Before[r] + admitted[r] => r \in refused

=============================================================================
