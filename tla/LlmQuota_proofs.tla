--------------------------- MODULE LlmQuota_proofs ----------------------------
(***************************************************************************)
(* The budgets of the model queue are respected by any calls, queues and   *)
(* processes, for any pool, caps, aliases and earlier debits; identical    *)
(* calls of a queue pay once between them; and a call that ends without an *)
(* answer has tried every key and model it could.  And what is sent is     *)
(* paced: within the tokens and requests of every window (RateGovernor).   *)
(***************************************************************************)
EXTENDS ModelCalls, FiniteSetTheorems, WellFoundedInduction, TLAPS

LEMMA InitInv == Init => IInv
  <1> SUFFICES ASSUME Init PROVE IInv
    OBVIOUS
  <1>1. TypeOK
    BY RouteAssumption, PoolAssumption, RecordAssumption, BoundsAssumption
    DEF Init, TypeOK, Inside, Outside, Outcomes
  <1>2. PlaceInv /\ LockInv
    BY RouteAssumption DEF Init, PlaceInv, LockInv
  <1>3. BudgetRespected /\ RecordCovers
    BY RecordAssumption DEF Init, BudgetRespected, RecordCovers
  <1> QED BY <1>1, <1>2, <1>3 DEF IInv

LEMMA KeyType ==
  ASSUME IInv, NEW c \in Calls
  PROVE  /\ Queue(c) \in Queues /\ Key(c) \in Keys
         /\ Owner[Queue(c)] \in Owners
  BY RouteAssumption DEF IInv, PlaceInv, Queue, Key, Keys

LEMMA RowType ==
  ASSUME IInv, NEW c \in Calls, at[c] \in Asking
  PROVE  /\ Model(c) \in Models
         /\ Row(c) \in Islands /\ Row(c)[3] = Model(c)
  <1>1. try[c] \in DOMAIN Pool
    BY PoolAssumption DEF IInv, TypeOK, PlaceInv, Asking
  <1>2. Pool[try[c]] \in Models
    BY <1>1, PoolAssumption
  <1> QED BY <1>2, KeyType DEF Model, Row, Islands, IInv, TypeOK

-----------------------------------------------------------------------------
(* Steps that leave the budgets alone.                                     *)

Same(d) ==
  /\ at'[d] = at[d] /\ leg'[d] = leg[d] /\ try'[d] = try[d]
  /\ island'[d] = island[d] /\ seen'[d] = seen[d]

Placed(c) ==
  /\ leg'[c] \in DOMAIN Route[c]
  /\ at'[c] \in Asking => try'[c] # 0

\* A step of one call that neither holds a row afterwards nor charges one.
LEMMA Quiet ==
  ASSUME IInv, TypeOK', NEW c \in Calls, \A d \in Calls \ {c} : Same(d),
         Placed(c), at'[c] # "locked", debits' = debits, admitted' = admitted
  PROVE  IInv'
  <1>1. PlaceInv'
    BY DEF IInv, PlaceInv, Same, Placed, Asking
  <1>2. LockInv'
    <2>1. ASSUME NEW d \in Calls, at'[d] = "locked"
          PROVE  d # c /\ Same(d) /\ at[d] = "locked"
      BY <2>1 DEF Same
    <2>2. ASSUME NEW d \in Calls, at'[d] = "locked" PROVE seen'[d] = debits'[island'[d]]
      BY <2>1, <2>2 DEF Same, IInv, LockInv
    <2>3. ASSUME NEW d \in Calls, NEW e \in Calls \ {d}, at'[d] = "locked", at'[e] = "locked"
          PROVE  island'[d] # island'[e]
      BY <2>1, <2>3 DEF Same, IInv, LockInv
    <2> QED BY <2>2, <2>3 DEF LockInv
  <1>3. BudgetRespected' /\ RecordCovers'
    BY DEF IInv, BudgetRespected, RecordCovers
  <1> QED BY <1>1, <1>2, <1>3 DEF IInv

\* Everything but the ledger, the cache and the day is typed after a step.
LocalTypeOK ==
  /\ lockOf \in [Keys -> Calls \union {NoCall}]
  /\ users \in [Keys -> Int]
  /\ at \in [Calls -> Inside \union Outside]
  /\ leg \in [Calls -> Nat] /\ try \in [Calls -> {0} \union DOMAIN Pool]
  /\ lock \in [Calls -> Calls \union {NoCall}]
  /\ attempt \in [Calls -> 0..MaxRetries - 1]
  /\ island \in [Calls -> Islands \union {NoRow}] /\ seen \in [Calls -> Nat]
  /\ missing \in [Calls -> BOOLEAN]
  /\ outcome \in [Calls -> Outcomes]
  /\ unusable \subseteq Runs

LEMMA RegisterTypes ==
  ASSUME IInv, NEW c \in Calls, NEW q \in Queues, Register(c, q)
  PROVE  /\ lockOf' \in [Keys -> Calls \union {NoCall}]
         /\ users' \in [Keys -> Int]
         /\ lock' \in [Calls -> Calls \union {NoCall}]
  <1>1. <<q, Input[c]>> \in Keys
    BY RouteAssumption DEF Keys
  <1> DEFINE shared == IF users[<<q, Input[c]>>] = 0 THEN c ELSE lockOf[<<q, Input[c]>>]
  <1>2. shared \in Calls \union {NoCall}
    BY <1>1 DEF IInv, TypeOK
  <1>3. /\ lockOf' = [lockOf EXCEPT ![<<q, Input[c]>>] = shared]
        /\ users' = [users EXCEPT ![<<q, Input[c]>>] = users[<<q, Input[c]>>] + 1]
        /\ lock' = [lock EXCEPT ![c] = shared]
    BY DEF Register
  <1> HIDE DEF shared
  <1> QED BY <1>1, <1>2, <1>3 DEF IInv, TypeOK

\* A call that ends.
LEMMA EndSteps ==
  ASSUME IInv, NEW c \in Calls, NEW o \in Outcomes, End(c, o), unusable' \subseteq Runs
  PROVE  /\ LocalTypeOK' /\ Placed(c) /\ at'[c] # "locked"
         /\ \A d \in Calls \ {c} : Same(d)
  <1>1. Key(c) \in Keys /\ Kept(c) \in Calls \union {NoCall} /\ users[Key(c)] \in Int
    BY KeyType DEF Kept, IInv, TypeOK
  <1>2. lockOf' \in [Keys -> Calls \union {NoCall}] /\ users' \in [Keys -> Int]
    BY <1>1 DEF End, Unregister, IInv, TypeOK
  <1>3. /\ at' \in [Calls -> Inside \union Outside] /\ leg' \in [Calls -> Nat]
        /\ try' \in [Calls -> {0} \union DOMAIN Pool]
        /\ lock' \in [Calls -> Calls \union {NoCall}]
        /\ attempt' \in [Calls -> 0..MaxRetries - 1]
        /\ missing' \in [Calls -> BOOLEAN]
    BY BoundsAssumption DEF End, IInv, TypeOK, Outside
  <1>4. /\ island' \in [Calls -> Islands \union {NoRow}]
        /\ seen' \in [Calls -> Nat] /\ outcome' \in [Calls -> Outcomes]
    BY DEF End, Unlock, IInv, TypeOK
  <1>5. Placed(c) /\ at'[c] # "locked"
    BY DEF End, Placed, IInv, PlaceInv, TypeOK, Asking
  <1>6. \A d \in Calls \ {c} : Same(d)
    BY DEF End, Unlock, Same, IInv, TypeOK
  <1> QED BY <1>2, <1>3, <1>4, <1>5, <1>6 DEF LocalTypeOK

\* A call that turns to the next queue of its route.
LEMMA FallBackSteps ==
  ASSUME IInv, NEW c \in Calls, leg[c] < Len(Route[c]), FallBack(c),
         unusable' = unusable
  PROVE  /\ LocalTypeOK' /\ Placed(c) /\ at'[c] # "locked"
         /\ \A d \in Calls \ {c} : Same(d)
  <1> DEFINE k == <<Route[c][leg[c] + 1], Input[c]>>
             shared == IF users[k] = 0 THEN c ELSE lockOf[k]
  <1>1. Key(c) \in Keys /\ Kept(c) \in Calls \union {NoCall}
    BY KeyType DEF Kept, IInv, TypeOK
  <1>2. leg[c] + 1 \in DOMAIN Route[c] /\ k \in Keys
    BY RouteAssumption DEF IInv, PlaceInv, TypeOK, Keys
  <1>3. shared \in Calls \union {NoCall}
    BY <1>2 DEF IInv, TypeOK
  <1>4. /\ users' = [x \in Keys |-> users[x] + (IF x = k THEN 1 ELSE 0)
                                             - (IF x = Key(c) THEN 1 ELSE 0)]
        /\ lockOf' = [x \in Keys |-> IF x = k THEN shared
                                     ELSE IF x = Key(c) THEN Kept(c) ELSE lockOf[x]]
        /\ lock' = [lock EXCEPT ![c] = shared]
    BY DEF FallBack
  <1> HIDE DEF k, shared
  <1>5. /\ lockOf' \in [Keys -> Calls \union {NoCall}]
        /\ lock' \in [Calls -> Calls \union {NoCall}]
    BY <1>1, <1>3, <1>4 DEF IInv, TypeOK
  <1>6. users' \in [Keys -> Int]
    <2>1. \A x \in Keys : users[x] \in Int
      BY DEF IInv, TypeOK
    <2> QED BY <2>1, <1>4
  <1>7. /\ at' \in [Calls -> Inside \union Outside] /\ leg' \in [Calls -> Nat]
        /\ try' \in [Calls -> {0} \union DOMAIN Pool]
        /\ attempt' \in [Calls -> 0..MaxRetries - 1]
        /\ missing' \in [Calls -> BOOLEAN] /\ outcome' \in [Calls -> Outcomes]
    <2>1. leg' = [leg EXCEPT ![c] = leg[c] + 1] /\ attempt' = [attempt EXCEPT ![c] = 0]
      BY DEF FallBack
    <2>2. leg' \in [Calls -> Nat] /\ attempt' \in [Calls -> 0..MaxRetries - 1]
      BY <2>1, BoundsAssumption DEF IInv, TypeOK
    <2> QED BY <2>2 DEF FallBack, IInv, TypeOK, Outside
  <1>8. island' \in [Calls -> Islands \union {NoRow}] /\ seen' \in [Calls -> Nat]
    BY DEF FallBack, Unlock, IInv, TypeOK
  <1>9. Placed(c) /\ at'[c] # "locked"
    BY <1>2 DEF FallBack, Placed, IInv, TypeOK, Asking
  <1>10. \A d \in Calls \ {c} : Same(d)
    BY DEF FallBack, Unlock, Same, IInv, TypeOK
  <1> QED BY <1>5, <1>6, <1>7, <1>8, <1>9, <1>10 DEF LocalTypeOK, IInv, TypeOK

LEMMA FailSteps ==
  ASSUME IInv, NEW c \in Calls, NEW o \in Outcomes, Fail(c, o)
  PROVE  /\ LocalTypeOK' /\ Placed(c) /\ at'[c] # "locked"
         /\ \A d \in Calls \ {c} : Same(d)
  <1>1. CASE CanFallBack(c, o)
    BY <1>1, FallBackSteps DEF Fail, CanFallBack
  <1>2. CASE ~ CanFallBack(c, o)
    <2>1. End(c, o) /\ unusable' \subseteq Runs
      BY <1>2, RouteAssumption DEF Fail, IInv, TypeOK
    <2> QED BY <2>1, EndSteps
  <1> QED BY <1>1, <1>2

LEMMA AskSteps ==
  ASSUME IInv, NEW c \in Calls, Ask(c), missing' \in [Calls -> BOOLEAN]
  PROVE  /\ LocalTypeOK' /\ Placed(c) /\ at'[c] # "locked"
         /\ \A d \in Calls \ {c} : Same(d)
  <1>1. PICK n \in Left(c) : try' = [try EXCEPT ![c] = n]
    BY DEF Ask
  <1>2. n \in DOMAIN Pool /\ n # 0
    BY PoolAssumption DEF Left, Candidates
  <1>3. /\ try' \in [Calls -> {0} \union DOMAIN Pool]
        /\ attempt' \in [Calls -> 0..MaxRetries - 1]
        /\ at' \in [Calls -> Inside \union Outside]
    BY <1>1, <1>2, BoundsAssumption DEF Ask, IInv, TypeOK, Inside
  <1>4. island' \in [Calls -> Islands \union {NoRow}] /\ seen' \in [Calls -> Nat]
    BY DEF Ask, Unlock, IInv, TypeOK
  <1>5. Placed(c) /\ at'[c] # "locked"
    BY <1>1, <1>2 DEF Ask, Placed, IInv, PlaceInv, TypeOK
  <1>6. \A d \in Calls \ {c} : Same(d)
    BY <1>1 DEF Ask, Unlock, Same, IInv, TypeOK
  <1> QED BY <1>3, <1>4, <1>5, <1>6 DEF LocalTypeOK, Ask, inflight, IInv, TypeOK

LEMMA NextModelSteps ==
  ASSUME IInv, NEW c \in Calls, NextModel(c)
  PROVE  /\ LocalTypeOK' /\ Placed(c) /\ at'[c] # "locked"
         /\ \A d \in Calls \ {c} : Same(d)
  <1>1. CASE Left(c) # {}
    BY <1>1, AskSteps DEF NextModel, IInv, TypeOK
  <1>2. CASE Left(c) = {}
    BY <1>2, FailSteps DEF NextModel, Exhausted, Outcomes
  <1> QED BY <1>1, <1>2

-----------------------------------------------------------------------------
(* The actions.                                                            *)

\* The ledger, the cache and the day stay as they are, or are typed anyway.
LEMMA QuietStep ==
  ASSUME IInv, NEW c \in Calls, LocalTypeOK', Placed(c), at'[c] # "locked",
         \A d \in Calls \ {c} : Same(d),
         today' = today, debits' = debits, admitted' = admitted,
         refused' \subseteq Islands, cached' \subseteq Inputs \X Models,
         bought' \in [Keys -> Nat]
  PROVE  IInv'
  <1>1. TypeOK'
    BY DEF LocalTypeOK, IInv, TypeOK
  <1> QED BY <1>1, Quiet

LEMMA BeginInv ==
  ASSUME IInv, NEW c \in Calls, Begin(c)
  PROVE  IInv'
  <1> USE DEF ledger
  <1>1. CASE RunOf[c] \in unusable
    <2>1. LocalTypeOK'
      BY <1>1 DEF Begin, inflight, position, LocalTypeOK, IInv, TypeOK, Outside, Outcomes
    <2>2. Placed(c) /\ at'[c] # "locked" /\ \A d \in Calls \ {c} : Same(d)
      BY <1>1 DEF Begin, position, Placed, Same, IInv, TypeOK, PlaceInv, Asking
    <2> QED BY <2>1, <2>2, QuietStep DEF Begin, IInv, TypeOK
  <1>2. CASE RunOf[c] \notin unusable
    <2>1. Register(c, Queue(c)) /\ Queue(c) \in Queues
      BY <1>2, KeyType DEF Begin
    <2>2. LocalTypeOK'
      BY <1>2, <2>1, RegisterTypes DEF Begin, LocalTypeOK, IInv, TypeOK, Outside
    <2>3. Placed(c) /\ at'[c] # "locked" /\ \A d \in Calls \ {c} : Same(d)
      BY <1>2 DEF Begin, Placed, Same, IInv, TypeOK, PlaceInv, Asking
    <2> QED BY <2>2, <2>3, QuietStep DEF Begin, IInv, TypeOK
  <1> QED BY <1>1, <1>2

LEMMA EnterInv ==
  ASSUME IInv, NEW c \in Calls, Enter(c)
  PROVE  IInv'
  <1> USE DEF ledger, inflight, position
  <1>1. LocalTypeOK'
    BY DEF Enter, LocalTypeOK, IInv, TypeOK, Inside
  <1>2. Placed(c) /\ at'[c] # "locked" /\ \A d \in Calls \ {c} : Same(d)
    BY DEF Enter, Placed, Same, IInv, TypeOK, PlaceInv, Asking
  <1> QED BY <1>1, <1>2, QuietStep DEF Enter, IInv, TypeOK

LEMMA LookUpInv ==
  ASSUME IInv, NEW c \in Calls, LookUp(c)
  PROVE  IInv'
  <1>1. /\ LocalTypeOK' /\ Placed(c) /\ at'[c] # "locked"
        /\ \A d \in Calls \ {c} : Same(d)
    <2>1. CASE End(c, "answered") /\ UNCHANGED unusable
      BY <2>1, EndSteps DEF Outcomes, IInv, TypeOK
    <2>2. CASE NextModel(c)
      BY <2>2, NextModelSteps
    <2> QED BY <2>1, <2>2 DEF LookUp
  <1> QED BY <1>1, QuietStep DEF LookUp, ledger, IInv, TypeOK

LEMMA DeclineInv ==
  ASSUME IInv, NEW c \in Calls, Decline(c)
  PROVE  IInv'
  BY NextModelSteps, QuietStep DEF Decline, ledger, IInv, TypeOK

LEMMA HiccupInv ==
  ASSUME IInv, NEW c \in Calls, Hiccup(c)
  PROVE  IInv'
  <1>1. CASE attempt[c] + 1 < MaxRetries
    <2>1. attempt' \in [Calls -> 0..MaxRetries - 1]
      <3>1. attempt' = [attempt EXCEPT ![c] = attempt[c] + 1]
        BY <1>1 DEF Hiccup
      <3>2. attempt[c] + 1 \in 0..MaxRetries - 1
        BY <1>1, BoundsAssumption DEF IInv, TypeOK
      <3> QED BY <3>1, <3>2 DEF IInv, TypeOK
    <2>2. LocalTypeOK'
      BY <1>1, <2>1 DEF Hiccup, inflight, LocalTypeOK, IInv, TypeOK, Inside
    <2>3. Placed(c) /\ at'[c] # "locked" /\ \A d \in Calls \ {c} : Same(d)
      BY <1>1 DEF Hiccup, Placed, Same, IInv, TypeOK, PlaceInv, Asking
    <2> QED BY <2>2, <2>3, QuietStep DEF Hiccup, ledger, IInv, TypeOK
  <1>2. CASE ~ (attempt[c] + 1 < MaxRetries)
    <2>1. Fail(c, "api_down")
      BY <1>2 DEF Hiccup
    <2> QED BY <2>1, FailSteps, QuietStep DEF Hiccup, ledger, IInv, TypeOK, Outcomes
  <1> QED BY <1>1, <1>2

LEMMA ModelUnavailableInv ==
  ASSUME IInv, NEW c \in Calls, ModelUnavailable(c)
  PROVE  IInv'
  <1>1. /\ LocalTypeOK' /\ Placed(c) /\ at'[c] # "locked"
        /\ \A d \in Calls \ {c} : Same(d)
    <2>1. CASE Left(c) # {}
      <3>1. Ask(c) /\ missing' \in [Calls -> BOOLEAN]
        BY <2>1 DEF ModelUnavailable, IInv, TypeOK
      <3> QED BY <3>1, AskSteps
    <2>2. CASE Left(c) = {}
      BY <2>2, FailSteps DEF ModelUnavailable, Outcomes
    <2> QED BY <2>1, <2>2
  <1> QED BY <1>1, QuietStep DEF ModelUnavailable, ledger, IInv, TypeOK

LEMMA KeyRejectedInv ==
  ASSUME IInv, NEW c \in Calls, KeyRejected(c)
  PROVE  IInv'
  <1>1. Fail(c, "key_rejected") /\ "key_rejected" \in Outcomes
    BY DEF KeyRejected, Outcomes
  <1> QED BY <1>1, FailSteps, QuietStep DEF KeyRejected, ledger, IInv, TypeOK

LEMMA RefuseInv ==
  ASSUME IInv, NEW c \in Calls, Refuse(c)
  PROVE  IInv'
  <1> USE DEF inflight, position
  <1>1. Row(c) \in Islands
    BY RowType DEF Refuse, Asking
  <1>2. LocalTypeOK'
    BY DEF Refuse, LocalTypeOK, IInv, TypeOK, Inside
  <1>3. Placed(c) /\ at'[c] # "locked" /\ \A d \in Calls \ {c} : Same(d)
    BY DEF Refuse, Placed, Same, IInv, TypeOK, PlaceInv, Asking
  <1> QED BY <1>1, <1>2, <1>3, QuietStep DEF Refuse, IInv, TypeOK

LEMMA StoreInv ==
  ASSUME IInv, NEW c \in Calls, Store(c)
  PROVE  IInv'
  <1>1. Model(c) \in Models /\ Key(c) \in Keys
    BY RowType, KeyType DEF Store, Asking
  <1>2. cached' \subseteq Inputs \X Models /\ bought' \in [Keys -> Nat]
    <2>1. Input[c] \in Inputs
      BY RouteAssumption
    <2> QED BY <1>1, <2>1 DEF Store, IInv, TypeOK
  <1>3. End(c, "answered") /\ "answered" \in Outcomes /\ unusable' \subseteq Runs
    BY DEF Store, Outcomes, IInv, TypeOK
  <1> QED BY <1>2, <1>3, EndSteps, QuietStep DEF Store, ledger, IInv, TypeOK

LEMMA CancelInv ==
  ASSUME IInv, NEW c \in Calls, Cancel(c)
  PROVE  IInv'
  <1>1. End(c, "cancelled") /\ "cancelled" \in Outcomes /\ unusable' \subseteq Runs
    BY DEF Cancel, Outcomes, IInv, TypeOK
  <1> QED BY <1>1, EndSteps, QuietStep DEF Cancel, ledger, IInv, TypeOK

LEMMA MidnightInv == IInv /\ Midnight => IInv'
  <1> SUFFICES ASSUME IInv, Midnight PROVE IInv'
    OBVIOUS
  <1> USE DEF ledger, inflight, position
  <1>1. TypeOK'
    BY DEF Midnight, IInv, TypeOK
  <1>2. PlaceInv' /\ LockInv'
    BY DEF Midnight, IInv, PlaceInv, LockInv
  <1>3. BudgetRespected' /\ RecordCovers'
    BY DEF Midnight, IInv, BudgetRespected, RecordCovers
  <1> QED BY <1>1, <1>2, <1>3 DEF IInv

-----------------------------------------------------------------------------
(* The transactions on a budget row.                                       *)

LEMMA LockBudgetInv ==
  ASSUME IInv, NEW c \in Calls, LockBudget(c)
  PROVE  IInv'
  <1> USE DEF ledger, inflight
  <1>1. Row(c) \in Islands /\ debits[Row(c)] \in Nat
    BY RowType DEF LockBudget, Asking, IInv, TypeOK
  <1>2. TypeOK'
    BY <1>1 DEF LockBudget, IInv, TypeOK, Inside
  <1>3. PlaceInv'
    BY <1>1 DEF LockBudget, IInv, TypeOK, PlaceInv
  <1>4. LockInv'
    BY <1>1 DEF LockBudget, RowFree, IInv, TypeOK, LockInv
  <1>5. BudgetRespected' /\ RecordCovers'
    BY DEF LockBudget, IInv, BudgetRespected, RecordCovers
  <1> QED BY <1>2, <1>3, <1>4, <1>5 DEF IInv

LEMMA ReserveInv ==
  ASSUME IInv, NEW c \in Calls, Reserve(c)
  PROVE  IInv'
  <1> DEFINE r == island[c]
  <1> USE DEF inflight
  <1>1. /\ r \in Islands /\ seen[c] = debits[r]
        /\ debits[r] \in Nat /\ admitted[r] \in Nat /\ Before[r] \in Nat /\ Alias[r] \in Nat
        /\ Quota[r[3]] \in Nat
    BY RecordAssumption, PoolAssumption DEF Reserve, IInv, PlaceInv, LockInv, TypeOK, Islands
  <1>2. /\ debits' = [debits EXCEPT ![r] = debits[r] + 1]
        /\ admitted' = [admitted EXCEPT ![r] = admitted[r] + 1]
        /\ debits[r] + Alias[r] < Quota[r[3]]
    BY <1>1 DEF Reserve, Spent
  <1>3. \A d \in Calls \ {c} : at[d] = "locked" => island[d] # r
    BY DEF Reserve, IInv, LockInv
  <1>4. /\ at' = [at EXCEPT ![c] = "flying"] /\ at[c] = "locked"
        /\ island' = [island EXCEPT ![c] = NoRow] /\ seen' = [seen EXCEPT ![c] = 0]
    BY DEF Reserve, Unlock
  <1> HIDE DEF r
  <1>5. TypeOK'
    <2>1. debits' \in [Islands -> Nat] /\ admitted' \in [Islands -> Nat]
      BY <1>1, <1>2 DEF IInv, TypeOK
    <2>2. /\ at' \in [Calls -> Inside \union Outside]
          /\ island' \in [Calls -> Islands \union {NoRow}] /\ seen' \in [Calls -> Nat]
      BY <1>4 DEF IInv, TypeOK, Inside
    <2> QED BY <2>1, <2>2 DEF Reserve, IInv, TypeOK
  <1>6. PlaceInv'
    BY <1>4 DEF Reserve, IInv, TypeOK, PlaceInv
  <1>7. LockInv'
    BY <1>1, <1>2, <1>3, <1>4 DEF IInv, TypeOK, LockInv, PlaceInv
  <1>8. debits[r] >= Before[r] + admitted[r]
    BY <1>1 DEF IInv, RecordCovers
  <1>9. RecordCovers'
    BY <1>1, <1>2, <1>8 DEF IInv, TypeOK, RecordCovers
  <1>10. BudgetRespected'
    <2>1. admitted'[r] + Before[r] + Alias[r] <= Quota[r[3]]
      <3>1. admitted'[r] = admitted[r] + 1
        BY <1>1, <1>2 DEF IInv, TypeOK
      <3> QED BY <3>1, <1>1, <1>2, <1>8
    <2>2. ASSUME NEW x \in Islands, x # r PROVE admitted'[x] = admitted[x]
      BY <2>2, <1>2 DEF IInv, TypeOK
    <2> QED BY <2>1, <2>2 DEF IInv, BudgetRespected
  <1> QED BY <1>5, <1>6, <1>7, <1>9, <1>10 DEF IInv

LEMMA CloseIslandInv ==
  ASSUME IInv, NEW c \in Calls, CloseIsland(c)
  PROVE  IInv'
  <1> DEFINE r == Row(c)
             n == AtLeast(debits[r], Quota[Model(c)])
  <1>1. /\ r \in Islands /\ debits[r] \in Nat /\ n \in Nat /\ n >= debits[r]
    <2>1. r \in Islands /\ debits[r] \in Nat /\ Quota[Model(c)] \in Nat
      BY RowType, PoolAssumption DEF CloseIsland, Asking, IInv, TypeOK
    <2> QED BY <2>1 DEF AtLeast
  <1>2. /\ debits' = [debits EXCEPT ![r] = n] /\ admitted' = admitted
        /\ \A d \in Calls : at[d] = "locked" => island[d] # r
    BY DEF CloseIsland, RowFree
  <1>3. /\ LocalTypeOK' /\ Placed(c) /\ at'[c] # "locked"
        /\ \A d \in Calls \ {c} : Same(d)
    BY NextModelSteps DEF CloseIsland
  <1> HIDE DEF r, n
  <1>4. TypeOK'
    <2>1. debits' \in [Islands -> Nat]
      BY <1>1, <1>2 DEF IInv, TypeOK
    <2> QED BY <2>1, <1>3 DEF CloseIsland, LocalTypeOK, IInv, TypeOK
  <1>5. PlaceInv'
    BY <1>3 DEF IInv, PlaceInv, Same, Placed, Asking
  <1>6. LockInv'
    <2>1. ASSUME NEW d \in Calls, at'[d] = "locked"
          PROVE  Same(d) /\ at[d] = "locked" /\ island[d] # r /\ island[d] \in Islands
      BY <2>1, <1>2, <1>3 DEF Same, IInv, PlaceInv
    <2>2. ASSUME NEW d \in Calls, at'[d] = "locked" PROVE seen'[d] = debits'[island'[d]]
      <3>1. debits'[island[d]] = debits[island[d]]
        BY <2>1, <2>2, <1>2 DEF IInv, TypeOK
      <3> QED BY <3>1, <2>1, <2>2 DEF Same, IInv, LockInv
    <2>3. ASSUME NEW d \in Calls, NEW e \in Calls \ {d}, at'[d] = "locked", at'[e] = "locked"
          PROVE  island'[d] # island'[e]
      BY <2>1, <2>3 DEF Same, IInv, LockInv
    <2> QED BY <2>2, <2>3 DEF LockInv
  <1>7. BudgetRespected'
    BY <1>2 DEF IInv, BudgetRespected
  <1>8. RecordCovers'
    <2>1. ASSUME NEW x \in Islands PROVE debits'[x] >= debits[x]
      BY <1>1, <1>2 DEF IInv, TypeOK
    <2>2. ASSUME NEW x \in Islands
          PROVE  /\ debits'[x] \in Nat /\ debits[x] \in Nat
                 /\ Before[x] + admitted[x] \in Nat /\ debits[x] >= Before[x] + admitted[x]
      BY <1>4, RecordAssumption DEF IInv, TypeOK, RecordCovers
    <2> QED BY <2>1, <2>2, <1>2 DEF RecordCovers
  <1> QED BY <1>4, <1>5, <1>6, <1>7, <1>8 DEF IInv

-----------------------------------------------------------------------------

LEMMA NextInv == IInv /\ [Next]_vars => IInv'
  <1> SUFFICES ASSUME IInv, [Next]_vars PROVE IInv'
    OBVIOUS
  <1>1. CASE Midnight
    BY <1>1, MidnightInv
  <1>2. ASSUME NEW c \in Calls, Begin(c) \/ Step(c) \/ Cancel(c) PROVE IInv'
    BY <1>2, BeginInv, EnterInv, LookUpInv, LockBudgetInv, ReserveInv, DeclineInv,
       HiccupInv, ModelUnavailableInv, KeyRejectedInv, RefuseInv, CloseIslandInv,
       StoreInv, CancelInv DEF Step
  <1>3. CASE UNCHANGED vars
    <2> USE <1>3 DEF vars, ledger, inflight, position
    <2>1. TypeOK'
      BY DEF IInv, TypeOK
    <2>2. PlaceInv' /\ LockInv'
      BY DEF IInv, PlaceInv, LockInv
    <2>3. BudgetRespected' /\ RecordCovers'
      BY DEF IInv, BudgetRespected, RecordCovers
    <2> QED BY <2>1, <2>2, <2>3 DEF IInv
  <1> QED BY <1>1, <1>2, <1>3 DEF Next

\* The inductive invariant holds in every state of the model queue.
THEOREM Inductive == Spec => []IInv
  BY InitInv, NextInv, PTL DEF Spec

\* The variables keep their types.
THEOREM TypeCorrect == Spec => []TypeOK
  <1>1. IInv => TypeOK
    BY DEF IInv
  <1> QED BY <1>1, Inductive, PTL

\* No budget is charged for more than its cap leaves (_try_reserve_quota),
\* however many queues and processes compete for it.
THEOREM BudgetTheorem == Spec => []BudgetRespected
  <1>1. IInv => BudgetRespected
    BY DEF IInv
  <1> QED BY <1>1, Inductive, PTL

\* Saved debits are never lowered (_close_island, _try_reserve_quota).
THEOREM DebitsTheorem == Spec => DebitsNeverFall
  <1> DEFINE Rising == \A r \in Islands : debits'[r] >= debits[r]
  <1>1. ASSUME IInv, debits' = debits PROVE Rising
    BY <1>1 DEF IInv, TypeOK
  <1>2. ASSUME IInv, NEW c \in Calls, Reserve(c) PROVE Rising
    <2>1. island[c] \in Islands /\ seen[c] = debits[island[c]]
      BY <1>2 DEF Reserve, IInv, PlaceInv, LockInv
    <2> QED BY <1>2, <2>1 DEF Reserve, IInv, TypeOK
  <1>3. ASSUME IInv, NEW c \in Calls, CloseIsland(c) PROVE Rising
    <2>1. Row(c) \in Islands /\ Quota[Model(c)] \in Nat
      BY <1>3, RowType, PoolAssumption DEF CloseIsland, Asking
    <2> QED BY <1>3, <2>1 DEF CloseIsland, AtLeast, IInv, TypeOK
  <1>4. ASSUME IInv, NEW c \in Calls, Begin(c) \/ Step(c) \/ Cancel(c) PROVE Rising
    <2>1. CASE Reserve(c)
      BY <2>1, <1>2, <1>4
    <2>2. CASE CloseIsland(c)
      BY <2>2, <1>3, <1>4
    <2>3. CASE ~ Reserve(c) /\ ~ CloseIsland(c)
      <3>1. debits' = debits
        BY <2>3, <1>4 DEF Step, Begin, Cancel, Enter, LookUp, LockBudget, Decline, Hiccup,
           ModelUnavailable, KeyRejected, Refuse, Store, ledger
      <3> QED BY <3>1, <1>1, <1>4
    <2> QED BY <2>1, <2>2, <2>3
  <1>5. ASSUME IInv, [Next]_vars PROVE Rising \/ debits' = debits
    <2>1. CASE Midnight
      BY <2>1 DEF Midnight, ledger
    <2>2. CASE UNCHANGED vars
      BY <2>2 DEF vars, ledger
    <2>3. ASSUME NEW c \in Calls, Begin(c) \/ Step(c) \/ Cancel(c) PROVE Rising
      BY <2>3, <1>4, <1>5
    <2> QED BY <2>1, <2>2, <2>3, <1>5 DEF Next
  <1>6. IInv /\ [Next]_vars => [Rising]_debits
    BY <1>5
  <1> QED BY <1>6, Inductive, PTL DEF Spec, DebitsNeverFall

-----------------------------------------------------------------------------
(* The calls at a lock.                                                    *)

\* What a step of one call leaves of the others.
Others(c) ==
  \A d \in Calls \ {c} :
    /\ at'[d] = at[d] /\ leg'[d] = leg[d] /\ lock'[d] = lock[d]
    /\ try'[d] = try[d] /\ island'[d] = island[d]
    /\ missing'[d] = missing[d] /\ outcome'[d] = outcome[d]

Registered(k) ==
  /\ users[k] = Cardinality(Here(k)) /\ IsFiniteSet(Here(k))
  /\ \A c \in Here(k) : lock[c] = lockOf[k]

LEMMA AllRegistered ==
  ASSUME CallInv PROVE \A k \in Keys : Registered(k)
  BY DEF CallInv, OneBuys, UsersCounted, Registered

Present(c) == at[c] \notin {"idle", "ended"}

LEMMA HereNow ==
  ASSUME NEW k, NEW c
  PROVE  c \in Here(k) <=> c \in Calls /\ Present(c) /\ Key(c) = k
  BY DEF Here, Present

LEMMA HereNext ==
  ASSUME NEW c \in Calls, Others(c), NEW k
  PROVE  Here(k)' = (Here(k) \ {c})
                    \union {d \in {c} : at'[c] \notin {"idle", "ended"} /\ Key(c)' = k}
  <1>1. \A d \in Calls \ {c} : at'[d] = at[d] /\ Key(d)' = Key(d)
    BY DEF Others, Key, Queue
  <1> QED BY <1>1 DEF Here

\* A step in which the call stays where it is registered.
LEMMA HereStays ==
  ASSUME CallInv, NEW c \in Calls, Others(c), leg'[c] = leg[c], lock'[c] = lock[c],
         at[c] \in {"idle", "ended"} <=> at'[c] \in {"idle", "ended"},
         UNCHANGED inflight
  PROVE  \A k \in Keys : Registered(k)'
  <1>1. ASSUME NEW k \in Keys PROVE Here(k)' = Here(k)
    <2>1. Key(c)' = Key(c)
      BY DEF Key, Queue
    <2>2. Here(k)' = (Here(k) \ {c})
                    \union {d \in {c} : at'[c] \notin {"idle", "ended"} /\ Key(c)' = k}
      BY HereNext
    <2>3. c \in Here(k) <=> at'[c] \notin {"idle", "ended"} /\ Key(c)' = k
      BY <2>1, HereNow DEF Present
    <2> QED BY <2>2, <2>3
  <1>2. \A d \in Calls : lock'[d] = lock[d]
    BY DEF Others
  <1>3. ASSUME NEW k \in Keys PROVE Registered(k)'
    <2>1. Registered(k)
      BY AllRegistered
    <2> QED BY <1>1, <1>2, <2>1, HereNow DEF Registered, inflight
  <1> QED BY <1>3

\* The registration a call leaves behind.
LEMMA Leaves ==
  ASSUME CallInv, NEW c \in Calls, Present(c), Others(c),
         NEW k \in Keys, k = Key(c), Here(k)' = Here(k) \ {c},
         users'[k] = users[k] - 1, lockOf'[k] = Kept(c)
  PROVE  Registered(k)'
  <1> DEFINE H == Here(k)
  <1>1. /\ users[k] = Cardinality(H) /\ IsFiniteSet(H)
        /\ \A d \in H : lock[d] = lockOf[k]
        /\ c \in H /\ H \subseteq Calls
    BY AllRegistered, HereNow DEF Registered
  <1> HIDE DEF H
  <1>2. /\ IsFiniteSet(H \ {c}) /\ Cardinality(H \ {c}) = Cardinality(H) - 1
        /\ Cardinality(H \ {c}) = 0 => H \ {c} = {}
    BY <1>1, FS_RemoveElement, FS_EmptySet
  <1>3. Cardinality(H) \in Nat
    BY <1>1, FS_CardinalityType
  <1>4. ASSUME NEW d \in H \ {c} PROVE lock'[d] = lockOf'[k]
    <2>1. Kept(c) = lock[c]
      BY <1>1, <1>2, <1>3 DEF Kept
    <2>2. lock'[d] = lock[d]
      BY <1>1 DEF Others
    <2> QED BY <1>1, <2>1, <2>2
  <1>5. Here(k)' = H \ {c}
    BY DEF H
  <1> QED BY <1>1, <1>2, <1>4, <1>5 DEF Registered

\* The registration of a call that comes.
LEMMA Came ==
  ASSUME CallInv, NEW c \in Calls, NEW k \in Keys, Others(c), c \notin Here(k),
         Here(k)' = Here(k) \union {c},
         users'[k] = users[k] + 1,
         lockOf'[k] = IF users[k] = 0 THEN c ELSE lockOf[k],
         lock'[c] = lockOf'[k]
  PROVE  Registered(k)'
  <1> DEFINE H == Here(k)
  <1>1. /\ users[k] = Cardinality(H) /\ IsFiniteSet(H)
        /\ \A d \in H : lock[d] = lockOf[k]
        /\ c \notin H /\ H \subseteq Calls
    BY AllRegistered, HereNow DEF Registered
  <1> HIDE DEF H
  <1>2. /\ IsFiniteSet(H \union {c}) /\ Cardinality(H \union {c}) = Cardinality(H) + 1
        /\ Cardinality(H) = 0 => H = {}
    BY <1>1, FS_AddElement, FS_EmptySet
  <1>3. ASSUME NEW d \in H \union {c} PROVE lock'[d] = lockOf'[k]
    <2>1. CASE d # c
      BY <1>1, <1>2, <2>1 DEF Others
    <2> QED BY <2>1
  <1>4. Here(k)' = H \union {c}
    BY DEF H
  <1> QED BY <1>1, <1>2, <1>3, <1>4 DEF Registered

\* The registrations a call is not concerned with.
LEMMA Elsewhere ==
  ASSUME CallInv, NEW c \in Calls, NEW k \in Keys, Others(c), c \notin Here(k),
         Here(k)' = Here(k), users'[k] = users[k], lockOf'[k] = lockOf[k]
  PROVE  Registered(k)'
  <1>1. Registered(k) /\ \A d \in Here(k) : d \in Calls \ {c}
    BY AllRegistered, HereNow
  <1> QED BY <1>1 DEF Registered, Others

LEMMA HereLeft ==
  ASSUME CallInv, NEW c \in Calls, Present(c), Others(c), NEW o, End(c, o)
  PROVE  \A k \in Keys : Registered(k)'
  <1>1. Key(c) \in Keys /\ IInv
    BY KeyType DEF CallInv
  <1>2. /\ users' = [users EXCEPT ![Key(c)] = users[Key(c)] - 1]
        /\ lockOf' = [lockOf EXCEPT ![Key(c)] = Kept(c)]
        /\ at'[c] = "ended"
        /\ users \in [Keys -> Int] /\ lockOf \in [Keys -> Calls \union {NoCall}]
    BY <1>1 DEF End, Unregister, IInv, TypeOK
  <1>3. ASSUME NEW k PROVE Here(k)' = Here(k) \ {c}
    BY <1>2, HereNext
  <1>4. ASSUME NEW k \in Keys, k # Key(c) PROVE Registered(k)'
    <2>1. c \notin Here(k)
      BY <1>4, HereNow
    <2>2. users'[k] = users[k] /\ lockOf'[k] = lockOf[k] /\ Here(k)' = Here(k)
      BY <1>1, <1>2, <1>3, <1>4, <2>1
    <2> QED BY <2>1, <2>2, Elsewhere
  <1>5. ASSUME NEW k \in Keys, k = Key(c) PROVE Registered(k)'
    <2>1. users'[k] = users[k] - 1 /\ lockOf'[k] = Kept(c)
      BY <1>2, <1>5
    <2> QED BY <1>3, <1>5, <2>1, Leaves
  <1> QED BY <1>4, <1>5

\* A call that begins, or turns to the next queue of its route.
LEMMA HereBegun ==
  ASSUME CallInv, NEW c \in Calls, ~Present(c), Others(c), Register(c, Queue(c)),
         leg'[c] = leg[c], at'[c] \notin {"idle", "ended"}
  PROVE  \A k \in Keys : Registered(k)'
  <1>1. /\ Key(c) \in Keys /\ IInv /\ Key(c)' = Key(c)
        /\ users \in [Keys -> Int] /\ lockOf \in [Keys -> Calls \union {NoCall}]
        /\ lock \in [Calls -> Calls \union {NoCall}]
    BY KeyType DEF CallInv, IInv, TypeOK, Key, Queue
  <1>2. ASSUME NEW k PROVE /\ c \notin Here(k)
                           /\ k = Key(c) => Here(k)' = Here(k) \union {c}
                           /\ k # Key(c) => Here(k)' = Here(k)
    <2>1. c \notin Here(k)
      BY HereNow
    <2> QED BY <1>1, <2>1, HereNext
  <1>3. PICK common : common = IF users[Key(c)] = 0 THEN c ELSE lockOf[Key(c)]
    OBVIOUS
  <1>4. /\ lockOf' = [lockOf EXCEPT ![Key(c)] = common]
        /\ users' = [users EXCEPT ![Key(c)] = users[Key(c)] + 1]
        /\ lock' = [lock EXCEPT ![c] = common]
    BY <1>3 DEF Register, Key
  <1>5. ASSUME NEW k \in Keys, k # Key(c) PROVE Registered(k)'
    <2>1. users'[k] = users[k] /\ lockOf'[k] = lockOf[k] /\ Here(k)' = Here(k)
      BY <1>1, <1>2, <1>4, <1>5
    <2> QED BY <1>2, <2>1, Elsewhere
  <1>6. ASSUME NEW k \in Keys, k = Key(c) PROVE Registered(k)'
    <2>1. /\ users'[k] = users[k] + 1 /\ lockOf'[k] = common /\ lock'[c] = common
          /\ Here(k)' = Here(k) \union {c}
          /\ common = IF users[k] = 0 THEN c ELSE lockOf[k]
      BY <1>1, <1>2, <1>3, <1>4, <1>6
    <2> QED BY <1>2, <2>1, Came
  <1> QED BY <1>5, <1>6

LEMMA HereTurned ==
  ASSUME CallInv, NEW c \in Calls, Present(c), Others(c), leg[c] < Len(Route[c]),
         FallBack(c)
  PROVE  \A k \in Keys : Registered(k)'
  <1>1. PICK q : q = Route[c][leg[c] + 1]
    OBVIOUS
  <1>2. /\ leg[c] \in DOMAIN Route[c] /\ leg[c] + 1 \in DOMAIN Route[c]
        /\ leg[c] \in Nat /\ q \in Queues /\ IInv
    BY <1>1, RouteAssumption DEF CallInv, IInv, PlaceInv, TypeOK
  <1>3. q # Queue(c)
    BY <1>1, <1>2, RouteAssumption DEF Queue
  <1>4. PICK n \in Keys : n = <<q, Input[c]>>
    BY <1>2, RouteAssumption DEF Keys
  <1>5. n # Key(c) /\ Key(c) \in Keys
    BY <1>2, <1>3, <1>4, KeyType DEF Key
  <1>6. PICK common : common = IF users[n] = 0 THEN c ELSE lockOf[n]
    OBVIOUS
  <1>7. /\ users' = [x \in Keys |-> users[x] + (IF x = n THEN 1 ELSE 0)
                                             - (IF x = Key(c) THEN 1 ELSE 0)]
        /\ lockOf' = [x \in Keys |-> IF x = n THEN common
                                     ELSE IF x = Key(c) THEN Kept(c) ELSE lockOf[x]]
        /\ lock' = [lock EXCEPT ![c] = common]
        /\ leg' = [leg EXCEPT ![c] = leg[c] + 1] /\ at' = [at EXCEPT ![c] = "waiting"]
    BY <1>1, <1>4, <1>6 DEF FallBack
  <1>8. /\ leg'[c] = leg[c] + 1 /\ at'[c] = "waiting" /\ lock'[c] = common
        /\ users \in [Keys -> Int]
    BY <1>2, <1>7 DEF IInv, TypeOK
  <1>9. Key(c)' = n
    BY <1>1, <1>4, <1>8 DEF Key, Queue
  <1>10. ASSUME NEW k PROVE /\ k = n => c \notin Here(k) /\ Here(k)' = Here(k) \union {c}
                            /\ k # n => Here(k)' = Here(k) \ {c}
    <2>1. c \in Here(k) <=> k = Key(c)
      BY HereNow
    <2>2. Here(k)' = (Here(k) \ {c}) \union {d \in {c} : n = k}
      BY <1>8, <1>9, HereNext
    <2> QED BY <1>5, <2>1, <2>2
  <1>11. ASSUME NEW k \in Keys, k = n PROVE Registered(k)'
    <2>1. users'[k] = users[k] + 1 /\ lockOf'[k] = common
      BY <1>5, <1>7, <1>8, <1>11
    <2> QED BY <1>6, <1>8, <1>10, <1>11, <2>1, Came
  <1>12. ASSUME NEW k \in Keys, k = Key(c) PROVE Registered(k)'
    <2>1. users'[k] = users[k] - 1 /\ lockOf'[k] = Kept(c)
      BY <1>5, <1>7, <1>8, <1>12
    <2> QED BY <1>5, <1>10, <1>12, <2>1, Leaves
  <1>13. ASSUME NEW k \in Keys, k # n, k # Key(c) PROVE Registered(k)'
    <2>1. users'[k] = users[k] /\ lockOf'[k] = lockOf[k]
      BY <1>7, <1>8, <1>13
    <2>2. c \notin Here(k)
      BY <1>13, HereNow
    <2>3. Here(k)' = Here(k) \ {c}
      BY <1>10, <1>13
    <2>4. Here(k) \ {c} = Here(k)
      BY <2>2
    <2> QED BY <2>1, <2>2, <2>3, <2>4, Elsewhere
  <1> QED BY <1>11, <1>12, <1>13
-----------------------------------------------------------------------------
(* The calls a step is not of, and what a step of a call leaves true.      *)

\* Neither debits nor stored responses are taken back.
Forward ==
  /\ \A r \in Islands : debits'[r] >= debits[r]
  /\ cached \subseteq cached'

\* SpentSomeDay after a step, of the queue the call was in before it.
SpentThen(c, n) ==
  \E d \in Days : LET r == <<d, Owner[Queue(c)], Pool[n]>> IN Spent(r, debits'[r])

LEMMA SpentStays ==
  ASSUME IInv, IInv', NEW c \in Calls, Forward,
         NEW n \in DOMAIN Pool, SpentSomeDay(c, n)
  PROVE  SpentThen(c, n)
  <1>1. PICK d \in Days : Spent(<<d, Owner[Queue(c)], Pool[n]>>,
                                debits[<<d, Owner[Queue(c)], Pool[n]>>])
    BY DEF SpentSomeDay
  <1>2. PICK r : r = <<d, Owner[Queue(c)], Pool[n]>>
    OBVIOUS
  <1>3. r \in Islands /\ r[3] \in Models
    BY <1>2, KeyType, PoolAssumption DEF Islands
  <1>4. /\ debits[r] \in Nat /\ debits'[r] \in Nat /\ debits'[r] >= debits[r]
        /\ Alias[r] \in Nat /\ Quota[r[3]] \in Nat
    BY <1>3, RecordAssumption, PoolAssumption DEF IInv, TypeOK, Forward
  <1>5. Spent(r, debits'[r])
    BY <1>1, <1>2, <1>4 DEF Spent
  <1> QED BY <1>2, <1>5 DEF SpentThen

LEMMA SpentInQueue ==
  ASSUME NEW c \in Calls, leg'[c] = leg[c], NEW n
  PROVE  SpentSomeDay(c, n)' <=> SpentThen(c, n)
  <1>1. Queue(c)' = Queue(c)
    BY DEF Queue
  <1>2. SpentSomeDay(c, n)' <=>
          \E d \in Days : LET r == <<d, Owner[Queue(c)'], Pool[n]>> IN Spent(r, debits'[r])
    BY DEF SpentSomeDay, Spent
  <1> QED BY <1>1, <1>2 DEF SpentThen

LEMMA OthersOK ==
  ASSUME CallInv, IInv', NEW c \in Calls, Others(c), Forward,
         \A k \in Keys : bought'[k] = bought[k] \/ (at[c] \in Inside /\ k = Key(c))
  PROVE  \A d \in Calls \ {c} : CallOK(d)'
  <1> SUFFICES ASSUME NEW d \in Calls \ {c} PROVE CallOK(d)'
    OBVIOUS
  <1>1. /\ at'[d] = at[d] /\ leg'[d] = leg[d] /\ try'[d] = try[d] /\ island'[d] = island[d]
        /\ missing'[d] = missing[d] /\ outcome'[d] = outcome[d]
        /\ IInv /\ CallOK(d) /\ OneInside
    BY DEF Others, CallInv
  <1>2. /\ Candidates(d) \subseteq DOMAIN Pool /\ Candidates(d)' = Candidates(d)
        /\ Queue(d)' = Queue(d) /\ Model(d)' = Model(d) /\ Key(d)' = Key(d)
        /\ Key(d) \in Keys
    BY <1>1, KeyType DEF Candidates, Queue, Model, Key
  <1>3. \A n \in Candidates(d) : SpentSomeDay(d, n) => SpentSomeDay(d, n)'
    BY <1>1, <1>2, SpentStays, SpentInQueue
  <1>4. at[d] \in Asking => bought'[Key(d)] = 0
    BY <1>1, <1>2 DEF CallOK, OneInside, Asking, Inside
  <1>5. /\ at'[d] \in {"idle", "waiting", "lookup"} => try'[d] = 0 /\ ~missing'[d]
        /\ at'[d] \in Asking => try'[d] \in Candidates(d)' /\ bought'[Key(d)'] = 0
        /\ at'[d] # "ended" => outcome'[d] = "none"
        /\ outcome'[d] \in {"quota_exhausted", "key_rejected"} => leg'[d] = Len(Route[d])
    BY <1>1, <1>2, <1>4 DEF CallOK
  <1>6. at'[d] \in Asking /\ ~missing'[d] =>
          \A n \in Candidates(d)' : n < try'[d] => SpentSomeDay(d, n)'
    BY <1>1, <1>2, <1>3 DEF CallOK
  <1>7. at'[d] = "locked" => \E x \in Days : island'[d] = <<x, Owner[Queue(d)'], Model(d)'>>
    BY <1>1, <1>2 DEF CallOK
  <1>8. outcome'[d] = "quota_exhausted" => \A n \in Candidates(d)' : SpentSomeDay(d, n)'
    BY <1>1, <1>2, <1>3 DEF CallOK
  <1> QED BY <1>5, <1>6, <1>7, <1>8 DEF CallOK

\* What every step of a call comes to, but the charge and the response.
Moved(c) ==
  /\ Others(c)
  /\ at'[c] \in Inside => at[c] \in Inside /\ leg'[c] = leg[c]

LEMMA StaysOneInside ==
  ASSUME OneInside, NEW c \in Calls, Moved(c)
  PROVE  OneInside'
  <1>1. ASSUME NEW d \in Calls, at'[d] \in Inside
        PROVE  at[d] \in Inside /\ Key(d)' = Key(d)
    BY <1>1 DEF Moved, Others, Key, Queue
  <1> QED BY <1>1 DEF OneInside

LEMMA FoundStays ==
  ASSUME Forward, NEW c \in Calls, Found(c) PROVE Found(c)'
  BY DEF Found, Forward, Candidates

LEMMA Preserved ==
  ASSUME CallInv, IInv', NEW c \in Calls, Others(c), OneInside', Forward,
         bought' = bought, \A k \in Keys : Registered(k)', CallOK(c)'
  PROVE  CallInv'
  <1>1. \A d \in Calls : CallOK(d)'
    BY OthersOK
  <1>2. PaidIsFound'
    BY FoundStays DEF CallInv, PaidIsFound
  <1>3. OneBuys' /\ \A k \in Keys : IsFiniteSet(Here(k)')
    BY DEF Registered, CallInv, OneBuys, UsersCounted, PaidOnce
  <1> QED BY <1>1, <1>2, <1>3 DEF CallInv
-----------------------------------------------------------------------------
(* What the moves of a call do to it.                                      *)

LEMMA EndMoves ==
  ASSUME CallInv, NEW c \in Calls, Present(c), NEW o, End(c, o)
  PROVE  Moved(c) /\ \A k \in Keys : Registered(k)'
  <1>1. Others(c)
    BY DEF End, Unlock, Others, CallInv, IInv, TypeOK
  <1>2. at'[c] \notin Inside
    BY DEF End, CallInv, IInv, TypeOK, Inside
  <1> QED BY <1>1, <1>2, HereLeft DEF Moved

LEMMA FailMoves ==
  ASSUME CallInv, NEW c \in Calls, Present(c), NEW o, Fail(c, o)
  PROVE  Moved(c) /\ \A k \in Keys : Registered(k)'
  <1>1. CASE CanFallBack(c, o)
    <2>1. FallBack(c) /\ leg[c] < Len(Route[c])
      BY <1>1 DEF Fail, CanFallBack
    <2>2. Others(c)
      BY <2>1 DEF FallBack, Unlock, Others, CallInv, IInv, TypeOK
    <2>3. at'[c] \notin Inside
      BY <2>1 DEF FallBack, CallInv, IInv, TypeOK, Inside
    <2> QED BY <2>1, <2>2, <2>3, HereTurned DEF Moved
  <1>2. CASE ~ CanFallBack(c, o)
    BY <1>2, EndMoves DEF Fail
  <1> QED BY <1>1, <1>2

LEMMA AskMoves ==
  ASSUME CallInv, NEW c \in Calls, at[c] \in Inside, Ask(c),
         \A d \in Calls \ {c} : missing'[d] = missing[d]
  PROVE  Moved(c) /\ \A k \in Keys : Registered(k)'
  <1>1. PICK n : try' = [try EXCEPT ![c] = n]
    BY DEF Ask
  <1>2. Others(c)
    BY <1>1 DEF Ask, Unlock, Others, CallInv, IInv, TypeOK
  <1>3. at'[c] = "asking" /\ leg' = leg /\ lock' = lock /\ UNCHANGED inflight
    BY DEF Ask, CallInv, IInv, TypeOK
  <1>4. \A k \in Keys : Registered(k)'
    BY <1>2, <1>3, HereStays DEF Inside
  <1> QED BY <1>2, <1>3, <1>4 DEF Moved

LEMMA NextModelMoves ==
  ASSUME CallInv, NEW c \in Calls, at[c] \in Inside, NextModel(c)
  PROVE  Moved(c) /\ \A k \in Keys : Registered(k)'
  <1>1. CASE Left(c) # {}
    BY <1>1, AskMoves DEF NextModel
  <1>2. CASE Left(c) = {}
    BY <1>2, FailMoves DEF NextModel, Present, Inside
  <1> QED BY <1>1, <1>2

LEMMA PlacesInPool ==
  ASSUME IInv, NEW c \in Calls
  PROVE  try[c] \in Nat /\ Candidates(c) \subseteq Nat
  <1>1. DOMAIN Pool \subseteq Nat
    BY PoolAssumption
  <1>2. try[c] \in {0} \union DOMAIN Pool
    BY DEF IInv, TypeOK
  <1> QED BY <1>1, <1>2 DEF Candidates

\* The models a call has come to so far were spent.
SpentSoFar(c) ==
  \A n \in Candidates(c) : n <= try[c] => SpentThen(c, n)

LEMMA EndOK ==
  ASSUME CallInv, NEW c \in Calls, NEW o, End(c, o),
         o = "quota_exhausted" => \A n \in Candidates(c) : SpentSomeDay(c, n)',
         o \in {"quota_exhausted", "key_rejected"} => leg[c] = Len(Route[c])
  PROVE  CallOK(c)'
  <1>1. at'[c] = "ended" /\ outcome'[c] = o /\ leg' = leg
    BY DEF End, CallInv, IInv, TypeOK
  <1>2. Candidates(c)' = Candidates(c)
    BY DEF Candidates
  <1> QED BY <1>1, <1>2 DEF CallOK, Asking

LEMMA FailOK ==
  ASSUME CallInv, NEW c \in Calls, at[c] \in Inside, NEW o, Fail(c, o),
         o = "quota_exhausted" => \A n \in Candidates(c) : SpentThen(c, n)
  PROVE  CallOK(c)'
  <1>1. CASE CanFallBack(c, o)
    <2>1. FallBack(c)
      BY <1>1 DEF Fail
    <2>2. /\ at'[c] = "waiting" /\ try'[c] = 0 /\ ~missing'[c] /\ outcome'[c] = outcome[c]
      BY <2>1 DEF FallBack, CallInv, IInv, TypeOK
    <2>3. outcome[c] = "none"
      BY DEF CallInv, CallOK, Inside
    <2>4. Candidates(c)' = Candidates(c)
      BY DEF Candidates
    <2> QED BY <2>2, <2>3, <2>4 DEF CallOK, Asking
  <1>2. CASE ~ CanFallBack(c, o)
    <2>1. End(c, o)
      BY <1>2 DEF Fail
    <2>2. leg[c] \in 1..Len(Route[c])
      BY RouteAssumption DEF CallInv, IInv, PlaceInv
    <2>3. o \in {"quota_exhausted", "key_rejected"} => leg[c] = Len(Route[c])
      BY <1>2, <2>2, RouteAssumption DEF CanFallBack
    <2>4. leg'[c] = leg[c]
      BY <2>1 DEF End
    <2> QED BY <2>1, <2>3, <2>4, SpentInQueue, EndOK
  <1> QED BY <1>1, <1>2

LEMMA AskOK ==
  ASSUME CallInv, NEW c \in Calls, at[c] \in Inside, Ask(c),
         bought' = bought, bought[Key(c)] = 0, ~missing'[c] => SpentSoFar(c)
  PROVE  CallOK(c)'
  <1>1. PICK n \in Left(c) : /\ \A m \in Left(c) : n <= m
                             /\ try' = [try EXCEPT ![c] = n]
    BY DEF Ask
  <1>2. /\ at'[c] = "asking" /\ leg' = leg /\ outcome'[c] = outcome[c] /\ try'[c] = n
        /\ Key(c)' = Key(c)
    BY <1>1 DEF Ask, CallInv, IInv, TypeOK, Key, Queue
  <1>3. outcome[c] = "none" /\ n \in Candidates(c) /\ Candidates(c)' = Candidates(c)
    BY <1>1 DEF CallInv, CallOK, Inside, Left, Candidates
  <1>4. ASSUME NEW m \in Candidates(c), m < n PROVE m <= try[c]
    <2>1. m \in Nat /\ n \in Nat /\ try[c] \in Nat
      BY <1>3, PlacesInPool DEF CallInv
    <2>2. m \notin Left(c)
      BY <1>1, <1>4, <2>1
    <2> QED BY <2>1, <2>2 DEF Left
  <1>5. ~missing'[c] => \A m \in Candidates(c) : m < n => SpentSomeDay(c, m)'
    BY <1>2, <1>4, SpentInQueue DEF SpentSoFar
  <1> QED BY <1>2, <1>3, <1>5 DEF CallOK, Asking

LEMMA NextModelOK ==
  ASSUME CallInv, NEW c \in Calls, at[c] \in Inside, NextModel(c),
         bought' = bought, bought[Key(c)] = 0, ~missing[c] => SpentSoFar(c)
  PROVE  CallOK(c)'
  <1>1. CASE Left(c) # {}
    <2>1. Ask(c) /\ missing' = missing
      BY <1>1 DEF NextModel
    <2> QED BY <2>1, AskOK
  <1>2. CASE Left(c) = {}
    <2>1. Fail(c, Exhausted(c))
      BY <1>2 DEF NextModel
    <2>2. ASSUME NEW n \in Candidates(c) PROVE n <= try[c]
      <3>1. n \in Nat /\ try[c] \in Nat
        BY PlacesInPool DEF CallInv
      <3> QED BY <1>2, <3>1 DEF Left
    <2>3. Exhausted(c) = "quota_exhausted" => \A n \in Candidates(c) : SpentThen(c, n)
      BY <2>2 DEF Exhausted, SpentSoFar
    <2> QED BY <2>1, <2>3, FailOK
  <1> QED BY <1>1, <1>2

\* A call that stays with its model.
LEMMA SameModelOK ==
  ASSUME CallInv, IInv', NEW c \in Calls, at[c] \in Asking, at'[c] \in Asking, Forward,
         bought' = bought, leg'[c] = leg[c], try'[c] = try[c], missing'[c] = missing[c],
         outcome'[c] = outcome[c],
         at'[c] = "locked" => \E d \in Days : island'[c] = <<d, Owner[Queue(c)], Model(c)>>
  PROVE  CallOK(c)'
  <1>1. IInv /\ CallOK(c)
    BY DEF CallInv
  <1>2. /\ Candidates(c)' = Candidates(c) /\ Queue(c)' = Queue(c) /\ Model(c)' = Model(c)
        /\ Key(c)' = Key(c) /\ Candidates(c) \subseteq DOMAIN Pool
    BY DEF Candidates, Queue, Model, Key
  <1>3. \A n \in Candidates(c) : SpentSomeDay(c, n) => SpentSomeDay(c, n)'
    BY <1>1, <1>2, SpentStays, SpentInQueue
  <1>4. outcome[c] = "none" /\ at'[c] \notin {"idle", "waiting", "lookup"}
    BY <1>1 DEF CallOK, Asking
  <1>5. at'[c] \in Asking /\ ~missing'[c] =>
          \A n \in Candidates(c)' : n < try'[c] => SpentSomeDay(c, n)'
    BY <1>1, <1>2, <1>3 DEF CallOK
  <1>6. try'[c] \in Candidates(c)' /\ bought'[Key(c)'] = 0
    BY <1>1, <1>2 DEF CallOK
  <1> QED BY <1>2, <1>4, <1>5, <1>6 DEF CallOK
-----------------------------------------------------------------------------
(* The calls' invariant, action by action.                                 *)

LEMMA BeginCalls ==
  ASSUME CallInv, IInv', NEW c \in Calls, Begin(c) PROVE CallInv'
  <1>1. Others(c) /\ Forward /\ bought' = bought /\ at'[c] \notin Inside
    <2>1. CASE RunOf[c] \in unusable
      BY <2>1 DEF Begin, Others, position, Forward, ledger, CallInv, IInv, TypeOK, Inside
    <2>2. CASE RunOf[c] \notin unusable
      <3>1. PICK common : lock' = [lock EXCEPT ![c] = common]
        BY <2>2 DEF Begin, Register
      <3>2. Others(c) /\ at'[c] \notin Inside
        BY <2>2, <3>1 DEF Begin, Others, CallInv, IInv, TypeOK, Inside
      <3> QED BY <3>2 DEF Begin, Forward, ledger, CallInv, IInv, TypeOK
    <2> QED BY <2>1, <2>2
  <1>2. at[c] = "idle" /\ ~Present(c) /\ outcome[c] = "none" /\ try[c] = 0 /\ ~missing[c]
    BY DEF Begin, Present, CallInv, CallOK
  <1>3. (\A k \in Keys : Registered(k)') /\ CallOK(c)'
    <2>1. CASE RunOf[c] \in unusable
      <3>1. /\ at'[c] = "ended" /\ outcome'[c] = "unavailable"
            /\ leg' = leg /\ lock' = lock /\ UNCHANGED inflight
        BY <2>1 DEF Begin, position, CallInv, IInv, TypeOK
      <3> QED BY <1>1, <1>2, <3>1, HereStays DEF CallOK, Asking
    <2>2. CASE RunOf[c] \notin unusable
      <3>1. /\ at'[c] = "waiting" /\ outcome' = outcome /\ leg' = leg
            /\ try' = try /\ missing' = missing /\ Register(c, Queue(c))
        BY <2>2 DEF Begin, CallInv, IInv, TypeOK
      <3>2. \A k \in Keys : Registered(k)'
        BY <1>1, <1>2, <3>1, HereBegun
      <3> QED BY <1>2, <3>1, <3>2 DEF CallOK, Asking
    <2> QED BY <2>1, <2>2
  <1>4. OneInside'
    BY <1>1, StaysOneInside DEF Moved, CallInv
  <1> QED BY <1>1, <1>3, <1>4, Preserved

\* Who comes in finds nobody at work on the same input: all who are share
\* the lock it waited for.
LEMMA EnterCalls ==
  ASSUME CallInv, IInv', NEW c \in Calls, Enter(c) PROVE CallInv'
  <1> USE DEF ledger, position, inflight
  <1>1. Others(c) /\ Forward /\ bought' = bought
    BY DEF Enter, Others, Forward, CallInv, IInv, TypeOK
  <1>2. /\ at[c] = "waiting" /\ at'[c] = "lookup" /\ leg' = leg /\ lock' = lock
        /\ try' = try /\ missing' = missing /\ outcome' = outcome
    BY DEF Enter, CallInv, IInv, TypeOK
  <1>3. \A k \in Keys : Registered(k)'
    <2>1. UNCHANGED inflight
      BY DEF Enter
    <2> QED BY <1>1, <1>2, <2>1, HereStays
  <1>4. CallOK(c)'
    BY <1>2 DEF CallInv, CallOK, Asking
  <1>5. OneInside'
    <2>1. ASSUME NEW d \in Calls, at[d] \in Inside PROVE Key(d) # Key(c)
      <3>1. SUFFICES ASSUME Key(d) = Key(c) PROVE FALSE
        OBVIOUS
      <3>2. Key(c) \in Keys /\ c \in Here(Key(c)) /\ d \in Here(Key(c))
        BY <1>2, <2>1, <3>1, KeyType, HereNow DEF Present, Inside, CallInv
      <3>3. lock[d] = lockOf[Key(c)] /\ lock[c] = lockOf[Key(c)]
        BY <3>2, AllRegistered DEF Registered
      <3> QED BY <2>1, <3>1, <3>3 DEF Enter
    <2>2. \A d \in Calls : Key(d)' = Key(d)
      BY <1>2 DEF Key, Queue
    <2>3. \A d \in Calls \ {c} : at'[d] = at[d]
      BY <1>1 DEF Others
    <2> QED BY <2>1, <2>2, <2>3 DEF OneInside, CallInv
  <1> QED BY <1>1, <1>3, <1>4, <1>5, Preserved

\* A step in which a call moves, and no response is paid for.
LEMMA MoveCalls ==
  ASSUME CallInv, IInv', NEW c \in Calls, Moved(c), \A k \in Keys : Registered(k)',
         Forward, bought' = bought, CallOK(c)'
  PROVE  CallInv'
  BY StaysOneInside, Preserved DEF Moved, CallInv

LEMMA Unbought ==
  ASSUME CallInv, NEW c \in Calls,
         at[c] \in Asking \/ (at[c] = "lookup" /\ ~Found(c))
  PROVE  bought[Key(c)] = 0
  <1>1. CASE at[c] \in Asking
    BY <1>1 DEF CallInv, CallOK
  <1>2. CASE ~Found(c)
    <2>1. PICK q \in Queues : Key(c) = <<q, Input[c]>>
      BY KeyType DEF Key, CallInv
    <2>2. bought[Key(c)] \in Nat /\ ~(bought[Key(c)] > 0)
      BY <1>2, <2>1, KeyType DEF CallInv, PaidIsFound, IInv, TypeOK
    <2> QED BY <2>2
  <1> QED BY <1>1, <1>2

\* The models a call has passed stay spent; that it now leaves its own for
\* want of allowance is to be shown.
LEMMA PassedSpent ==
  ASSUME CallInv, IInv', NEW c \in Calls, Forward,
         at[c] \in Asking \/ at[c] = "lookup",
         at[c] \in Asking => SpentThen(c, try[c])
  PROVE  ~missing[c] => SpentSoFar(c)
  <1>1. IInv /\ CallOK(c)
    BY DEF CallInv
  <1>2. SUFFICES ASSUME ~missing[c], NEW n \in Candidates(c), n <= try[c]
                 PROVE  SpentThen(c, n)
    BY DEF SpentSoFar
  <1>3. n \in Nat /\ try[c] \in Nat /\ n \in DOMAIN Pool /\ n # 0
    BY <1>1, PlacesInPool, PoolAssumption DEF Candidates
  <1>4. at[c] \in Asking
    BY <1>1, <1>2, <1>3 DEF CallOK
  <1>5. CASE n = try[c]
    BY <1>4, <1>5
  <1>6. CASE n < try[c]
    <2>1. SpentSomeDay(c, n)
      BY <1>1, <1>2, <1>4, <1>6 DEF CallOK
    <2> QED BY <1>1, <1>3, <2>1, SpentStays
  <1> QED BY <1>2, <1>3, <1>5, <1>6

LEMMA Unmoved ==
  ASSUME CallInv, debits' = debits, cached' = cached PROVE Forward
  BY DEF Forward, CallInv, IInv, TypeOK

LEMMA LookUpCalls ==
  ASSUME CallInv, IInv', NEW c \in Calls, LookUp(c) PROVE CallInv'
  <1>1. at[c] = "lookup" /\ at[c] \in Inside /\ Present(c) /\ Forward /\ bought' = bought
    BY Unmoved DEF LookUp, ledger, Present, Inside
  <1>2. CASE End(c, "answered")
    <2>1. CallOK(c)'
      BY <1>2, EndOK
    <2> QED BY <1>1, <1>2, <2>1, EndMoves, MoveCalls
  <1>3. CASE ~Found(c) /\ NextModel(c)
    <2>1. bought[Key(c)] = 0 /\ (~missing[c] => SpentSoFar(c))
      BY <1>1, <1>3, Unbought, PassedSpent DEF Asking
    <2>2. CallOK(c)'
      BY <1>1, <1>3, <2>1, NextModelOK
    <2> QED BY <1>1, <1>3, <2>2, NextModelMoves, MoveCalls
  <1> QED BY <1>2, <1>3 DEF LookUp

\* A step in which a call stays with its model.
LEMMA SameModelCalls ==
  ASSUME CallInv, IInv', NEW c \in Calls, at[c] \in Asking, at'[c] \in Asking, Others(c),
         Forward, bought' = bought, leg'[c] = leg[c], lock'[c] = lock[c],
         try'[c] = try[c], missing'[c] = missing[c], outcome'[c] = outcome[c],
         UNCHANGED inflight,
         at'[c] = "locked" => \E d \in Days : island'[c] = <<d, Owner[Queue(c)], Model(c)>>
  PROVE  CallInv'
  <1>1. CallOK(c)'
    BY SameModelOK
  <1>2. \A k \in Keys : Registered(k)'
    BY HereStays DEF Asking
  <1>3. Moved(c)
    BY DEF Moved, Asking, Inside
  <1> QED BY <1>1, <1>2, <1>3, MoveCalls

LEMMA LockBudgetCalls ==
  ASSUME CallInv, IInv', NEW c \in Calls, LockBudget(c) PROVE CallInv'
  <1> USE DEF LockBudget, CallInv, IInv, TypeOK
  <1>1. Others(c) /\ Forward
    BY Unmoved DEF Others, ledger
  <1>2. /\ at[c] \in Asking /\ at'[c] \in Asking /\ bought' = bought
        /\ leg'[c] = leg[c] /\ lock'[c] = lock[c] /\ try'[c] = try[c]
        /\ missing'[c] = missing[c] /\ outcome'[c] = outcome[c] /\ UNCHANGED inflight
    BY DEF Asking
  <1>3. today \in Days /\ island'[c] = <<today, Owner[Queue(c)], Model(c)>>
    BY DEF Row
  <1> QED BY <1>1, <1>2, <1>3, SameModelCalls

LEMMA ReserveCalls ==
  ASSUME CallInv, IInv', NEW c \in Calls, Reserve(c) PROVE CallInv'
  <1> USE DEF Reserve, CallInv, IInv, TypeOK
  <1>1. Others(c)
    BY DEF Others, Unlock
  <1>2. Forward
    <2>1. island[c] \in Islands /\ seen[c] = debits[island[c]]
      BY DEF PlaceInv, LockInv
    <2> QED BY <2>1 DEF Forward
  <1>3. /\ at[c] \in Asking /\ at'[c] \in Asking /\ at'[c] # "locked" /\ bought' = bought
        /\ leg'[c] = leg[c] /\ lock'[c] = lock[c] /\ try'[c] = try[c]
        /\ missing'[c] = missing[c] /\ outcome'[c] = outcome[c] /\ UNCHANGED inflight
    BY DEF Asking
  <1> QED BY <1>1, <1>2, <1>3, SameModelCalls

LEMMA RefuseCalls ==
  ASSUME CallInv, IInv', NEW c \in Calls, Refuse(c) PROVE CallInv'
  <1> USE DEF Refuse, CallInv, IInv, TypeOK, position
  <1>1. Others(c) /\ Forward
    BY Unmoved DEF Others
  <1>2. /\ at[c] \in Asking /\ at'[c] \in Asking /\ at'[c] # "locked" /\ bought' = bought
        /\ leg'[c] = leg[c] /\ lock'[c] = lock[c] /\ try'[c] = try[c]
        /\ missing'[c] = missing[c] /\ outcome'[c] = outcome[c] /\ UNCHANGED inflight
    BY DEF Asking
  <1> QED BY <1>1, <1>2, SameModelCalls

\* A budget is declined because its row, on the day it was locked, is spent.
LEMMA DeclineCalls ==
  ASSUME CallInv, IInv', NEW c \in Calls, Decline(c) PROVE CallInv'
  <1>1. /\ at[c] = "locked" /\ at[c] \in Asking /\ at[c] \in Inside
        /\ Forward /\ bought' = bought /\ debits' = debits
    BY Unmoved DEF Decline, ledger, Asking, Inside
  <1>2. SpentThen(c, try[c])
    <2>1. PICK d \in Days : island[c] = <<d, Owner[Queue(c)], Model(c)>>
      BY <1>1 DEF CallInv, CallOK
    <2>2. Spent(island[c], debits'[island[c]])
      BY <1>1 DEF Decline, CallInv, IInv, LockInv
    <2> QED BY <2>1, <2>2 DEF SpentThen, Model
  <1>3. bought[Key(c)] = 0 /\ (~missing[c] => SpentSoFar(c))
    BY <1>1, <1>2, Unbought, PassedSpent
  <1>4. NextModel(c)
    BY DEF Decline
  <1> QED BY <1>1, <1>3, <1>4, NextModelOK, NextModelMoves, MoveCalls

\* A closed budget is spent, by the cap it is closed under.
LEMMA CloseIslandCalls ==
  ASSUME CallInv, IInv', NEW c \in Calls, CloseIsland(c) PROVE CallInv'
  <1>1. at[c] \in Asking /\ at[c] \in Inside /\ bought' = bought /\ IInv
    BY DEF CloseIsland, Asking, Inside, CallInv
  <1>2. PICK r : r = Row(c)
    OBVIOUS
  <1>3. PICK n : n = AtLeast(debits[r], Quota[Model(c)])
    OBVIOUS
  <1>4. /\ r \in Islands /\ r[3] = Model(c) /\ debits[r] \in Nat /\ Quota[Model(c)] \in Nat
        /\ Alias[r] \in Nat /\ n \in Nat /\ n >= debits[r] /\ n >= Quota[Model(c)]
    <2>1. r \in Islands /\ r[3] = Model(c) /\ debits[r] \in Nat /\ Quota[Model(c)] \in Nat
      BY <1>1, <1>2, RowType, PoolAssumption DEF IInv, TypeOK
    <2> QED BY <1>3, <2>1, RecordAssumption DEF AtLeast
  <1>5. debits' = [debits EXCEPT ![r] = n]
    BY <1>2, <1>3 DEF CloseIsland
  <1>6. Forward
    BY <1>1, <1>4, <1>5 DEF CloseIsland, Forward, IInv, TypeOK
  <1>7. SpentThen(c, try[c])
    <2>1. debits'[r] = n
      BY <1>1, <1>4, <1>5 DEF IInv, TypeOK
    <2>2. Spent(r, debits'[r])
      BY <1>4, <2>1 DEF Spent
    <2>3. today \in Days /\ r = <<today, Owner[Queue(c)], Pool[try[c]]>>
      BY <1>1, <1>2 DEF Row, Model, IInv, TypeOK
    <2> QED BY <2>2, <2>3 DEF SpentThen
  <1>8. bought[Key(c)] = 0 /\ (~missing[c] => SpentSoFar(c))
    BY <1>1, <1>6, <1>7, Unbought, PassedSpent
  <1>9. NextModel(c)
    BY DEF CloseIsland
  <1> QED BY <1>1, <1>6, <1>8, <1>9, NextModelOK, NextModelMoves, MoveCalls

LEMMA HiccupCalls ==
  ASSUME CallInv, IInv', NEW c \in Calls, Hiccup(c) PROVE CallInv'
  <1>1. /\ at[c] \in Asking /\ at[c] \in Inside /\ Present(c)
        /\ Forward /\ bought' = bought
    BY Unmoved DEF Hiccup, ledger, Asking, Inside, Present
  <1>2. CASE attempt[c] + 1 < MaxRetries
    <2>1. Others(c)
      BY <1>2 DEF Hiccup, Others, CallInv, IInv, TypeOK
    <2>2. /\ at'[c] \in Asking /\ at'[c] # "locked"
          /\ leg'[c] = leg[c] /\ lock'[c] = lock[c] /\ try'[c] = try[c]
          /\ missing'[c] = missing[c] /\ outcome'[c] = outcome[c] /\ UNCHANGED inflight
      BY <1>2 DEF Hiccup, Asking, CallInv, IInv, TypeOK
    <2> QED BY <1>1, <2>1, <2>2, SameModelCalls
  <1>3. CASE ~ (attempt[c] + 1 < MaxRetries)
    <2>1. Fail(c, "api_down")
      BY <1>3 DEF Hiccup
    <2> QED BY <1>1, <2>1, FailOK, FailMoves, MoveCalls
  <1> QED BY <1>2, <1>3

\* A model that is unavailable proves nothing of the allowance, and its
\* failure is remembered.
LEMMA ModelUnavailableCalls ==
  ASSUME CallInv, IInv', NEW c \in Calls, ModelUnavailable(c) PROVE CallInv'
  <1>1. /\ at[c] \in Asking /\ at[c] \in Inside /\ Present(c)
        /\ Forward /\ bought' = bought
    BY Unmoved DEF ModelUnavailable, ledger, Asking, Inside, Present
  <1>2. CASE Left(c) # {}
    <2>1. Ask(c) /\ missing' = [missing EXCEPT ![c] = TRUE]
      BY <1>2 DEF ModelUnavailable
    <2>2. missing'[c] /\ \A d \in Calls \ {c} : missing'[d] = missing[d]
      BY <2>1 DEF CallInv, IInv, TypeOK
    <2>3. bought[Key(c)] = 0
      BY <1>1, Unbought
    <2> QED BY <1>1, <2>1, <2>2, <2>3, AskOK, AskMoves, MoveCalls
  <1>3. CASE Left(c) = {}
    <2>1. Fail(c, "api_down")
      BY <1>3 DEF ModelUnavailable
    <2> QED BY <1>1, <2>1, FailOK, FailMoves, MoveCalls
  <1> QED BY <1>2, <1>3

LEMMA KeyRejectedCalls ==
  ASSUME CallInv, IInv', NEW c \in Calls, KeyRejected(c) PROVE CallInv'
  <1>1. /\ at[c] \in Inside /\ Present(c) /\ Forward /\ bought' = bought
        /\ Fail(c, "key_rejected")
    BY Unmoved DEF KeyRejected, ledger, Inside, Present
  <1> QED BY <1>1, FailOK, FailMoves, MoveCalls

\* The response is stored before the call leaves: nobody pays for it again.
LEMMA StoreCalls ==
  ASSUME CallInv, IInv', NEW c \in Calls, Store(c) PROVE CallInv'
  <1>1. /\ at[c] \in Asking /\ at[c] \in Inside /\ Present(c) /\ IInv /\ CallOK(c)
        /\ End(c, "answered")
    BY DEF Store, Asking, Inside, Present, CallInv
  <1>2. Forward
    BY DEF Store, Forward, ledger, CallInv, IInv, TypeOK
  <1>3. PICK k \in Keys : k = Key(c)
    BY <1>1, KeyType
  <1>4. bought' = [bought EXCEPT ![k] = 1] /\ bought \in [Keys -> Nat]
    <2>1. bought[k] = 0
      BY <1>1, <1>3, Unbought
    <2>2. bought' = [bought EXCEPT ![k] = bought[k] + 1]
      BY <1>3 DEF Store
    <2> QED BY <1>1, <2>1, <2>2 DEF IInv, TypeOK
  <1>5. Moved(c) /\ (\A x \in Keys : Registered(x)') /\ CallOK(c)'
    BY <1>1, EndMoves, EndOK
  <1>6. \A d \in Calls \ {c} : CallOK(d)'
    BY <1>1, <1>2, <1>3, <1>4, <1>5, OthersOK DEF Moved
  <1>7. PaidIsFound'
    <2>1. ASSUME NEW d \in Calls, NEW q \in Queues, bought'[<<q, Input[d]>>] > 0
          PROVE  Found(d)'
      <3>1. <<q, Input[d]>> \in Keys
        BY RouteAssumption DEF Keys
      <3>2. CASE <<q, Input[d]>> = k
        <4>1. Input[d] = Input[c]
          BY <1>3, <3>2 DEF Key
        <4>2. try[c] \in Candidates(c) /\ <<Input[c], Pool[try[c]]>> \in cached'
          BY <1>1 DEF CallOK, Store, Model
        <4>3. Candidates(d) = Candidates(c)
          BY <4>1 DEF Candidates
        <4> QED BY <4>1, <4>2, <4>3 DEF Found, Candidates
      <3>3. CASE <<q, Input[d]>> # k
        <4>1. Found(d)
          BY <1>4, <2>1, <3>1, <3>3 DEF CallInv, PaidIsFound
        <4> QED BY <1>2, <4>1, FoundStays
      <3> QED BY <3>2, <3>3
    <2> QED BY <2>1 DEF PaidIsFound
  <1>8. PaidOnce'
    BY <1>4 DEF PaidOnce, CallInv, OneBuys
  <1>9. OneBuys' /\ \A x \in Keys : IsFiniteSet(Here(x)')
    BY <1>5, <1>8 DEF Registered, OneBuys, UsersCounted
  <1>10. OneInside'
    BY <1>5, StaysOneInside DEF CallInv
  <1> QED BY <1>5, <1>6, <1>7, <1>9, <1>10 DEF CallInv

LEMMA CancelCalls ==
  ASSUME CallInv, IInv', NEW c \in Calls, Cancel(c) PROVE CallInv'
  <1>1. /\ Present(c) /\ Forward /\ bought' = bought /\ End(c, "cancelled")
    BY Unmoved DEF Cancel, ledger, Inside, Present
  <1> QED BY <1>1, EndOK, EndMoves, MoveCalls

LEMMA StillCalls ==
  ASSUME CallInv, IInv', debits' = debits,
         UNCHANGED <<cached, inflight, bought, at, position, outcome>>
  PROVE  CallInv'
  <1>1. Forward
    BY Unmoved
  <1>2. \A k : Here(k)' = Here(k)
    BY DEF Here, Key, Queue, position
  <1>3. OneBuys' /\ \A k \in Keys : IsFiniteSet(Here(k)')
    BY <1>2 DEF CallInv, OneBuys, PaidOnce, UsersCounted, position, inflight
  <1>4. OneInside' /\ PaidIsFound'
    BY DEF CallInv, OneInside, PaidIsFound, Found, Candidates, Key, Queue, position
  <1>5. ASSUME NEW c \in Calls PROVE CallOK(c)'
    BY DEF CallInv, CallOK, SpentSomeDay, Spent, Candidates, Key, Queue, Model, position
  <1> QED BY <1>3, <1>4, <1>5 DEF CallInv

LEMMA InitCalls == Init => CallInv
  <1> SUFFICES ASSUME Init PROVE CallInv
    OBVIOUS
  <1>1. IInv /\ PaidOnce
    BY InitInv DEF Init, PaidOnce
  <1>2. \A k \in Keys : Here(k) = {}
    BY DEF Init, Here
  <1>3. OneBuys /\ \A k \in Keys : IsFiniteSet(Here(k))
    BY <1>1, <1>2, FS_EmptySet DEF Init, OneBuys, UsersCounted
  <1>4. OneInside
    BY DEF Init, OneInside, Inside
  <1>5. PaidIsFound
    BY RouteAssumption DEF Init, PaidIsFound, Keys
  <1>6. \A c \in Calls : CallOK(c)
    BY DEF Init, CallOK, Asking
  <1> QED BY <1>1, <1>3, <1>4, <1>5, <1>6 DEF CallInv

LEMMA NextCalls == CallInv /\ IInv' /\ [Next]_vars => CallInv'
  <1> SUFFICES ASSUME CallInv, IInv', [Next]_vars PROVE CallInv'
    OBVIOUS
  <1>1. CASE Midnight
    BY <1>1, StillCalls DEF Midnight, ledger
  <1>2. ASSUME NEW c \in Calls, Begin(c) \/ Step(c) \/ Cancel(c) PROVE CallInv'
    BY <1>2, BeginCalls, EnterCalls, LookUpCalls, LockBudgetCalls, ReserveCalls,
       DeclineCalls, HiccupCalls, ModelUnavailableCalls, KeyRejectedCalls, RefuseCalls,
       CloseIslandCalls, StoreCalls, CancelCalls DEF Step
  <1>3. CASE UNCHANGED vars
    BY <1>3, StillCalls DEF vars, ledger
  <1> QED BY <1>1, <1>2, <1>3 DEF Next

\* The users of a lock are the calls at it, one of which is at work; what was
\* paid for is found; the models passed were spent.
THEOREM CallInductive == Spec => []CallInv
  BY InitCalls, NextCalls, Inductive, PTL DEF Spec

\* Identical calls of a queue pay for one response between them, and leave
\* the lock they share when the last of them goes (submit).
THEOREM OneBuysTheorem == Spec => []OneBuys
  <1>1. CallInv => OneBuys
    BY DEF CallInv
  <1> QED BY <1>1, CallInductive, PTL

\* No call ends for want of allowance while a key of its route is untried, or
\* a model it may use there unspent (_submit, FallbackLLMClient).
THEOREM EndsTheorem == Spec => []EndsForAReason
  <1>1. CallInv => EndsForAReason
    BY DEF CallInv, CallOK, EndsForAReason, QuotaMeansSpent, OtherKeyTried
  <1> QED BY <1>1, CallInductive, PTL

-----------------------------------------------------------------------------
(* The waits before a request (RateGovernor): induction over sequences, by *)
(* way of sets of numbers, since what is summed and popped is a sequence.  *)

\* The natural numbers in order, as a relation.
Below == {ss \in Nat \X Nat : ss[1] < ss[2]}

LEMMA BelowFounded == IsWellFoundedOn(Below, Nat)
  BY NatLessThanWellFounded, Zenon DEF OpToRel, Below

LEMMA Least ==
  ASSUME NEW T \in SUBSET Nat, NEW t \in T
  PROVE  \E x \in T : \A y \in T : x <= y
  <1>1. PICK x \in T : \A y \in T : ~(<<y, x>> \in Below)
    BY WFMin, BelowFounded
  <1>2. \A y \in T : ~(y < x)
    BY <1>1 DEF Below
  <1> QED BY <1>2

\* Induction over the numbers up to a length.
LEMMA UpTo ==
  ASSUME NEW m \in Nat, NEW S, 0 \in S,
         \A n \in 1..m : n - 1 \in S => n \in S
  PROVE  \A n \in 0..m : n \in S
  <1> DEFINE T == {n \in 0..m : n \notin S}
  <1> SUFFICES ASSUME NEW t \in T PROVE FALSE
    OBVIOUS
  <1>1. PICK x \in T : \A y \in T : x <= y
    <2>1. T \in SUBSET Nat
      OBVIOUS
    <2> QED BY <2>1, Least
  <1>2. x \in 1..m
    OBVIOUS
  <1>3. x - 1 \notin T
    BY <1>1
  <1> QED BY <1>2, <1>3

-----------------------------------------------------------------------------
(* Sums of tokens.                                                         *)

Weighed(calls) == Len(calls) \in Nat /\ \A i \in 1..Len(calls) : calls[i].tokens \in Nat

\* f holds the sums of the first calls.
Sums(f, calls) ==
  /\ f \in [0..Len(calls) -> Int] /\ f[0] = 0
  /\ \A n \in 1..Len(calls) : f[n] = f[n - 1] + calls[n].tokens

LEMMA SumsExist ==
  ASSUME NEW calls, Weighed(calls)
  PROVE  \E f : Sums(f, calls)
  <1> DEFINE m == Len(calls)
             First(n) == \E f : /\ f \in [0..n -> Int] /\ f[0] = 0
                                /\ \A i \in 1..n : f[i] = f[i - 1] + calls[i].tokens
             S == {n \in 0..m : First(n)}
  <1>1. m \in Nat
    BY DEF Weighed
  <1>2. 0 \in S
    <2> DEFINE none == [i \in 0..0 |-> 0]
    <2>1. none \in [0..0 -> Int] /\ none[0] = 0 /\ \A i \in 1..0 : none[i] = none[i - 1] + calls[i].tokens
      OBVIOUS
    <2>2. First(0)
      <3> HIDE DEF none
      <3> QED BY <2>1
    <2> QED BY <1>1, <2>2
  <1>3. ASSUME NEW n \in 1..m, n - 1 \in S PROVE n \in S
    <2>1. PICK f : /\ f \in [0..(n - 1) -> Int] /\ f[0] = 0
                   /\ \A i \in 1..(n - 1) : f[i] = f[i - 1] + calls[i].tokens
      BY <1>3
    <2> DEFINE g == [i \in 0..n |-> IF i = n THEN f[n - 1] + calls[n].tokens ELSE f[i]]
    <2>2. calls[n].tokens \in Nat
      BY DEF Weighed
    <2>3. g \in [0..n -> Int] /\ g[0] = 0
      BY <1>1, <2>1, <2>2
    <2>4. \A i \in 1..n : g[i] = g[i - 1] + calls[i].tokens
      BY <1>1, <2>1
    <2>5. First(n)
      <3> HIDE DEF g
      <3> QED BY <2>3, <2>4
    <2>6. n \in 0..m
      BY <1>1
    <2> HIDE DEF First
    <2> QED BY <2>5, <2>6
  <1>4. \A n \in 0..m : n \in S
    <2> HIDE DEF S
    <2> QED BY <1>1, <1>2, <1>3, UpTo
  <1>5. First(m)
    <2> HIDE DEF First
    <2> QED BY <1>1, <1>4
  <1> QED BY <1>5 DEF Sums

LEMMA SumsAgree ==
  ASSUME NEW calls, Weighed(calls), NEW f, NEW g, Sums(f, calls), Sums(g, calls)
  PROVE  f = g
  <1> DEFINE m == Len(calls)
             S == {n \in 0..m : f[n] = g[n]}
  <1>1. m \in Nat
    BY DEF Weighed
  <1>2. 0 \in S
    BY <1>1 DEF Sums
  <1>3. ASSUME NEW n \in 1..m, n - 1 \in S PROVE n \in S
    BY <1>1, <1>3 DEF Sums
  <1>4. \A n \in 0..m : n \in S
    <2> HIDE DEF S
    <2> QED BY <1>1, <1>2, <1>3, UpTo
  <1> QED BY <1>4 DEF Sums

\* What Total finds, by whatever function of sums.
LEMMA TotalIs ==
  ASSUME NEW calls, Weighed(calls), NEW f, Sums(f, calls)
  PROVE  Governor!Total(calls) = f[Len(calls)]
  <1> DEFINE Is(g) == g = [n \in 0..Len(calls) |-> IF n = 0 THEN 0 ELSE g[n - 1] + calls[n].tokens]
             h == CHOOSE g : Is(g)
  <1>1. Is(f)
    BY DEF Sums, Weighed
  <1>2. Is(h)
    <2> HIDE DEF Is
    <2> QED BY <1>1
  <1>3. Sums(h, calls)
    <2> DEFINE S == {n \in 0..Len(calls) : h[n] \in Int}
    <2> HIDE DEF h
    <2>1. 0 \in S
      BY <1>2 DEF Weighed
    <2>2. ASSUME NEW n \in 1..Len(calls), n - 1 \in S PROVE n \in S
      BY <1>2, <2>2 DEF Weighed
    <2>3. \A n \in 0..Len(calls) : n \in S
      <3> HIDE DEF S
      <3> QED BY <2>1, <2>2, UpTo DEF Weighed
    <2>4. h \in [0..Len(calls) -> Int]
      BY <1>2, <2>3
    <2>5. h[0] = 0 /\ \A n \in 1..Len(calls) : h[n] = h[n - 1] + calls[n].tokens
      BY <1>2 DEF Weighed
    <2> QED BY <2>4, <2>5 DEF Sums
  <1>4. h = f
    <2> HIDE DEF h
    <2> QED BY <1>3, SumsAgree
  <1>5. Governor!Total(calls) = h[Len(calls)]
    BY DEF Governor!Total
  <1> QED BY <1>4, <1>5

\* One call more.
LEMMA TotalAppend ==
  ASSUME NEW T, NEW calls \in Seq(T), NEW call \in T, Weighed(calls), call.tokens \in Nat
  PROVE  /\ Weighed(Append(calls, call))
         /\ Governor!Total(Append(calls, call)) = Governor!Total(calls) + call.tokens
  <1> DEFINE m == Len(calls)
             more == Append(calls, call)
  <1>1. /\ Len(more) = m + 1 /\ more[m + 1] = call
        /\ \A i \in 1..m : more[i] = calls[i]
    OBVIOUS
  <1>2. Weighed(more)
    BY <1>1 DEF Weighed
  <1>3. PICK f : Sums(f, calls)
    BY SumsExist
  <1> DEFINE g == [n \in 0..(m + 1) |-> IF n = m + 1 THEN f[m] + call.tokens ELSE f[n]]
  <1>4. Sums(g, more)
    <2> HIDE DEF more
    <2>1. g \in [0..(m + 1) -> Int] /\ g[0] = 0
      BY <1>3 DEF Sums, Weighed
    <2>2. \A n \in 1..(m + 1) : g[n] = g[n - 1] + more[n].tokens
      BY <1>1, <1>3 DEF Sums, Weighed
    <2>3. Len(more) = m + 1
      BY <1>1 DEF more
    <2> HIDE DEF g, m
    <2> QED BY <2>1, <2>2, <2>3 DEF Sums
  <1>5. g[Len(more)] = f[m] + call.tokens
    <2> HIDE DEF more
    <2> QED BY <1>1 DEF Weighed
  <1> HIDE DEF more, g
  <1> QED BY <1>2, <1>3, <1>4, <1>5, TotalIs DEF more

\* The last calls draw no more than all of them.
LEMMA TotalRest ==
  ASSUME NEW T, NEW calls \in Seq(T), Weighed(calls), NEW k \in 0..Len(calls)
  PROVE  /\ Weighed(Governor!Rest(calls, k))
         /\ Governor!Total(Governor!Rest(calls, k)) <= Governor!Total(calls)
         /\ Governor!Total(calls) \in Int
  <1> DEFINE m == Len(calls)
             end == Governor!Rest(calls, k)
  <1>1. /\ Len(end) = m - k /\ \A i \in 1..(m - k) : end[i] = calls[k + i]
    BY DEF Governor!Rest
  <1>2. Weighed(end)
    BY <1>1 DEF Weighed
  <1>3. PICK f : Sums(f, calls)
    BY SumsExist
  <1>4. f[k] >= 0
    <2> DEFINE S == {n \in 0..m : f[n] >= 0}
    <2>1. 0 \in S
      BY <1>3 DEF Sums, Weighed
    <2>2. ASSUME NEW n \in 1..m, n - 1 \in S PROVE n \in S
      <3>1. f[n] = f[n - 1] + calls[n].tokens
        BY <1>3 DEF Sums
      <3>2. f[n - 1] \in Int /\ f[n - 1] >= 0 /\ calls[n].tokens \in Nat /\ n \in 0..m
        BY <1>3, <2>2 DEF Sums, Weighed
      <3> QED BY <3>1, <3>2
    <2>3. \A n \in 0..m : n \in S
      <3> HIDE DEF S
      <3> QED BY <2>1, <2>2, UpTo DEF Weighed
    <2> QED BY <2>3
  <1> DEFINE g == [n \in 0..(m - k) |-> f[k + n] - f[k]]
  <1>5. Sums(g, end)
    <2> HIDE DEF end
    <2>1. g \in [0..(m - k) -> Int] /\ g[0] = 0
      BY <1>3 DEF Sums, Weighed
    <2>2. \A n \in 1..(m - k) : g[n] = g[n - 1] + end[n].tokens
      <3> TAKE n \in 1..(m - k)
      <3>1. k + n \in 1..m /\ (k + n) - 1 = k + (n - 1) /\ k + (n - 1) \in 0..m
        BY DEF Weighed
      <3>2. f[k + n] = f[k + (n - 1)] + calls[k + n].tokens
        BY <1>3, <3>1 DEF Sums
      <3>3. \A j \in 0..m : f[j] \in Int
        BY <1>3 DEF Sums
      <3>4. f[k + (n - 1)] \in Int /\ f[k] \in Int /\ calls[k + n].tokens \in Int
        BY <3>1, <3>3 DEF Weighed
      <3>5. n \in 0..(m - k) /\ n - 1 \in 0..(m - k) /\ end[n].tokens = calls[k + n].tokens
        BY <1>1, <3>1 DEF Weighed
      <3> QED BY <3>2, <3>4, <3>5
    <2> QED BY <1>1, <2>1, <2>2 DEF Sums
  <1>6. g[Len(end)] = f[m] - f[k] /\ f[m] \in Int /\ f[k] \in Int
    <2> HIDE DEF end
    <2> QED BY <1>1, <1>3 DEF Weighed, Sums
  <1>7. Governor!Total(calls) = f[m] /\ Governor!Total(end) = g[Len(end)]
    <2> HIDE DEF end, g
    <2> QED BY <1>2, <1>3, <1>5, TotalIs
  <1> HIDE DEF end, g
  <1> QED BY <1>2, <1>4, <1>6, <1>7 DEF end

\* Growing older costs no tokens.
LEMMA TotalOlder ==
  ASSUME NEW T, NEW calls \in Seq(T), Weighed(calls), NEW older, Len(older) = Len(calls),
         \A i \in 1..Len(calls) : older[i].tokens = calls[i].tokens
  PROVE  Weighed(older) /\ Governor!Total(older) = Governor!Total(calls)
  <1>1. Weighed(older)
    BY DEF Weighed
  <1>2. PICK f : Sums(f, calls)
    BY SumsExist
  <1>3. Sums(f, older)
    BY <1>2 DEF Sums
  <1> QED BY <1>1, <1>2, <1>3, TotalIs

-----------------------------------------------------------------------------
(* The end of a window.                                                    *)

LEMMA RestIs ==
  ASSUME NEW T, NEW s \in Seq(T), NEW k \in 0..Len(s)
  PROVE  /\ Governor!Rest(s, k) \in Seq(T)
         /\ Len(Governor!Rest(s, k)) = Len(s) - k
         /\ \A i \in 1..Len(s) - k : Governor!Rest(s, k)[i] = s[k + i]
  BY DEF Governor!Rest

LEMMA SameSequence ==
  ASSUME NEW T, NEW s \in Seq(T), NEW t \in Seq(T), Len(s) = Len(t),
         \A i \in 1..Len(s) : s[i] = t[i]
  PROVE  s = t
  OBVIOUS

\* The oldest is the first.
Sorted(ages) == \A i, j \in DOMAIN ages : i <= j => ages[i] >= ages[j]

LEMMA SortedIs ==
  ASSUME NEW T, NEW s \in Seq(T)
  PROVE  Sorted(s) <=> \A i, j \in 1..Len(s) : i <= j => s[i] >= s[j]
  BY DEF Sorted

LEMMA ElementIs ==
  ASSUME NEW T, NEW s \in Seq(T), NEW i \in 1..Len(s)
  PROVE  s[i] \in T
  OBVIOUS

\* The loop that takes off what is old ends.
LEMMA PoppedEnds ==
  ASSUME NEW ages \in Seq(Int)
  PROVE  LET k == Governor!Popped(ages) IN
         /\ k \in 0..Len(ages)
         /\ \A i \in 1..k : ~Governor!Recent(ages[i])
         /\ k < Len(ages) => Governor!Recent(ages[k + 1])
  <1> DEFINE m == Len(ages)
             Ends(k) == /\ \A i \in 1..k : ~Governor!Recent(ages[i])
                        /\ k < m => Governor!Recent(ages[k + 1])
             T == {k \in 0..m : k < m => Governor!Recent(ages[k + 1])}
  <1>1. T \subseteq Nat /\ m \in T
    OBVIOUS
  <1>2. PICK k \in T : \A j \in T : k <= j
    <2> HIDE DEF T
    <2> QED BY <1>1, Least
  <1>3. ASSUME NEW i \in 1..k PROVE ~Governor!Recent(ages[i])
    <2>1. k \in 0..m /\ i - 1 \in 0..m /\ i - 1 < m /\ i - 1 < k
      OBVIOUS
    <2>2. i - 1 \notin T
      <3> HIDE DEF T
      <3> QED BY <1>2, <2>1
    <2> QED BY <2>1, <2>2
  <1>4. k \in 0..m /\ Ends(k)
    BY <1>3
  <1>5. Governor!Popped(ages) = CHOOSE j \in 0..m : Ends(j)
    BY DEF Governor!Popped
  <1> HIDE DEF Ends, m, T
  <1>6. Governor!Popped(ages) \in 0..m /\ Ends(Governor!Popped(ages))
    BY <1>4, <1>5
  <1> QED BY <1>6 DEF Ends, m

\* A window was let through last: the rest of what is kept is old.
Remembers(recent, kept, ages) ==
  /\ Sorted(ages)
  /\ \E d \in 0..Len(kept) :
       /\ recent = Governor!Rest(kept, d)
       /\ \A i \in 1..d : ~Governor!Recent(ages[i])
       /\ \A i \in d + 1..Len(kept) : Governor!Recent(ages[i])

\* What the loop leaves is the window.
LEMMA Trimmed ==
  ASSUME NEW recent, NEW kept, NEW ages \in Seq(Int), Len(ages) = Len(kept),
         Remembers(recent, kept, ages)
  PROVE  Governor!Rest(kept, Governor!Popped(ages)) = recent
  <1>1. PICK d \in 0..Len(kept) :
          /\ recent = Governor!Rest(kept, d)
          /\ \A i \in 1..d : ~Governor!Recent(ages[i])
          /\ \A i \in d + 1..Len(kept) : Governor!Recent(ages[i])
    BY DEF Remembers
  <1> DEFINE k == Governor!Popped(ages)
  <1>2. /\ k \in 0..Len(ages)
        /\ \A i \in 1..k : ~Governor!Recent(ages[i])
        /\ k < Len(ages) => Governor!Recent(ages[k + 1])
    BY PoppedEnds
  <1> HIDE DEF k
  <1>3. ~(k < d)
    <2> SUFFICES ASSUME k < d PROVE FALSE
      OBVIOUS
    <2>1. k + 1 \in 1..d /\ k < Len(ages)
      BY <1>2
    <2> QED BY <1>1, <1>2, <2>1
  <1>4. ~(d < k)
    <2> SUFFICES ASSUME d < k PROVE FALSE
      OBVIOUS
    <2>1. d + 1 \in 1..k /\ d + 1 \in d + 1..Len(kept)
      BY <1>2
    <2> QED BY <1>1, <1>2, <2>1
  <1>5. k = d
    BY <1>2, <1>3, <1>4
  <1> QED BY <1>1, <1>5 DEF k

\* How many are beyond the window, when the oldest is the first.
LEMMA BeyondIs ==
  ASSUME NEW ages \in Seq(Int), Sorted(ages)
  PROVE  /\ Governor!Beyond(ages) \in 0..Len(ages)
         /\ \A i \in 1..Len(ages) : i <= Governor!Beyond(ages) <=> ~Governor!Recent(ages[i])
  <1> DEFINE m == Len(ages)
             Splits(k) == \A i \in DOMAIN ages : i <= k <=> ~Governor!Recent(ages[i])
             k == Governor!Popped(ages)
  <1>1. /\ k \in 0..m
        /\ \A i \in 1..k : ~Governor!Recent(ages[i])
        /\ k < m => Governor!Recent(ages[k + 1])
    BY PoppedEnds
  <1> HIDE DEF k
  <1>2. ASSUME NEW i \in 1..m, i > k PROVE Governor!Recent(ages[i])
    <2>1. k + 1 \in 1..m /\ k + 1 <= i /\ k < m
      BY <1>1, <1>2
    <2>2. ages[k + 1] >= ages[i] /\ ages[k + 1] \in Int /\ ages[i] \in Int
      BY <2>1 DEF Sorted
    <2> QED BY <1>1, <2>1, <2>2, WaitsAssumption DEF Governor!Recent, Governor!GovernorAssumption
  <1>3. Splits(k)
    <2>1. DOMAIN ages = 1..m
      OBVIOUS
    <2> QED BY <1>1, <1>2, <2>1
  <1>4. Governor!Beyond(ages) = CHOOSE j \in 0..m : Splits(j)
    BY DEF Governor!Beyond
  <1>5. Governor!Beyond(ages) \in 0..m /\ Splits(Governor!Beyond(ages))
    <2> HIDE DEF Splits, m
    <2> QED BY <1>1, <1>3, <1>4 DEF m
  <1> QED BY <1>5

\* A call let through now.
LEMMA RemembersAppend ==
  ASSUME NEW T, NEW recent \in Seq(T), NEW kept \in Seq(T), NEW ages \in Seq(Nat),
         Len(ages) = Len(kept), Remembers(recent, kept, ages),
         NEW call \in T, NEW now, now \in Seq(Nat), Len(now) = Len(recent) + 1,
         now[Len(recent) + 1] = 0,
         \A d \in 0..Len(kept) : recent = Governor!Rest(kept, d) =>
           \A i \in 1..Len(recent) : now[i] = ages[d + i]
  PROVE  Remembers(Append(recent, call), Append(recent, call), now)
  <1> DEFINE more == Append(recent, call)
  <1>1. PICK d \in 0..Len(kept) :
          /\ recent = Governor!Rest(kept, d)
          /\ \A i \in 1..d : ~Governor!Recent(ages[i])
          /\ \A i \in d + 1..Len(kept) : Governor!Recent(ages[i])
    BY DEF Remembers
  <1>2. Len(recent) = Len(kept) - d
    <2>1. Len(Governor!Rest(kept, d)) = Len(kept) - d
      BY RestIs
    <2> QED BY <1>1, <2>1
  <1>3. \A i \in 1..Len(recent) : now[i] = ages[d + i] /\ d + i \in d + 1..Len(kept)
    BY <1>1, <1>2
  <1>4. Sorted(now)
    <2> SUFFICES ASSUME NEW i \in 1..Len(now), NEW j \in 1..Len(now), i <= j
                 PROVE  now[i] >= now[j]
      BY SortedIs
    <2>1. CASE j = Len(recent) + 1
      BY <2>1
    <2>2. CASE j # Len(recent) + 1
      <3>1. i \in 1..Len(recent) /\ j \in 1..Len(recent)
        BY <2>2
      <3>2. d + i \in DOMAIN ages /\ d + j \in DOMAIN ages /\ d + i <= d + j
        <4>1. DOMAIN ages = 1..Len(kept) /\ Len(kept) \in Nat
          OBVIOUS
        <4>2. d + i \in 1..Len(kept) /\ d + j \in 1..Len(kept) /\ d + i <= d + j
          BY <1>2, <3>1, <4>1
        <4> QED BY <4>1, <4>2
      <3>3. ages[d + i] >= ages[d + j]
        BY <3>2 DEF Remembers, Sorted
      <3> QED BY <1>3, <3>1, <3>3
    <2> QED BY <2>1, <2>2
  <1>5. \A i \in 1..Len(now) : Governor!Recent(now[i])
    <2> TAKE i \in 1..Len(now)
    <2>1. CASE i = Len(recent) + 1
      <3>1. Governor!Recent(0)
        BY WaitsAssumption DEF Governor!Recent, Governor!GovernorAssumption
      <3> QED BY <2>1, <3>1
    <2>2. CASE i # Len(recent) + 1
      <3>1. i \in 1..Len(recent)
        BY <2>2
      <3>2. now[i] = ages[d + i] /\ d + i \in d + 1..Len(kept)
        BY <1>3, <3>1
      <3> QED BY <1>1, <3>2
    <2> QED BY <2>1, <2>2
  <1>6. more = Governor!Rest(more, 0) /\ Len(more) = Len(now)
    BY DEF Governor!Rest
  <1> HIDE DEF more
  <1>7. /\ 0 \in 0..Len(more) /\ more = Governor!Rest(more, 0)
        /\ \A i \in 1..0 : ~Governor!Recent(now[i])
        /\ \A i \in 0 + 1..Len(more) : Governor!Recent(now[i])
    BY <1>5, <1>6
  <1>8. Remembers(more, more, now)
    BY <1>4, <1>7 DEF Remembers
  <1> QED BY <1>8 DEF more

\* What is trimmed is the window itself.
LEMMA RemembersTrimmed ==
  ASSUME NEW T, NEW recent \in Seq(T), NEW kept \in Seq(T), NEW ages \in Seq(Nat),
         Len(ages) = Len(kept), Remembers(recent, kept, ages),
         NEW now, now \in Seq(Nat), Len(now) = Len(recent),
         \A d \in 0..Len(kept) : recent = Governor!Rest(kept, d) =>
           \A i \in 1..Len(recent) : now[i] = ages[d + i]
  PROVE  Remembers(recent, recent, now)
  <1>1. PICK d \in 0..Len(kept) :
          /\ recent = Governor!Rest(kept, d)
          /\ \A i \in 1..d : ~Governor!Recent(ages[i])
          /\ \A i \in d + 1..Len(kept) : Governor!Recent(ages[i])
    BY DEF Remembers
  <1>2. Len(recent) = Len(kept) - d
    <2>1. Len(Governor!Rest(kept, d)) = Len(kept) - d
      BY RestIs
    <2> QED BY <1>1, <2>1
  <1>3. \A i \in 1..Len(recent) : now[i] = ages[d + i] /\ d + i \in d + 1..Len(kept)
    BY <1>1, <1>2
  <1>4. Sorted(now)
    <2> SUFFICES ASSUME NEW i \in 1..Len(now), NEW j \in 1..Len(now), i <= j
                 PROVE  now[i] >= now[j]
      BY SortedIs
    <2>1. d + i \in DOMAIN ages /\ d + j \in DOMAIN ages /\ d + i <= d + j
      BY <1>2
    <2>2. ages[d + i] >= ages[d + j]
      BY <2>1 DEF Remembers, Sorted
    <2> QED BY <1>3, <2>2
  <1>5. \A i \in 1..Len(recent) : Governor!Recent(now[i])
    BY <1>1, <1>3
  <1>6. recent = Governor!Rest(recent, 0)
    BY DEF Governor!Rest
  <1>7. /\ 0 \in 0..Len(recent) /\ recent = Governor!Rest(recent, 0)
        /\ \A i \in 1..0 : ~Governor!Recent(now[i])
        /\ \A i \in 0 + 1..Len(recent) : Governor!Recent(now[i])
    BY <1>5, <1>6
  <1> QED BY <1>4, <1>7 DEF Remembers

LEMMA OlderIs ==
  ASSUME NEW m \in 0..Old, NEW n \in 0..Old
  PROVE  /\ Governor!Older(m) \in 0..Old
         /\ m >= n => Governor!Older(m) >= Governor!Older(n)
         /\ ~Governor!Recent(m) => ~Governor!Recent(Governor!Older(m))
  BY WaitsAssumption DEF Governor!Older, Governor!Smaller, Governor!Recent, Governor!GovernorAssumption

\* What is kept, its ages, the window and its ages, before and after a tick.
Aged(T, recent, kept, ages, kept2, ages2, older, now) ==
  /\ recent \in Seq(T) /\ kept \in Seq(T) /\ ages \in Seq(0..Old) /\ Len(ages) = Len(kept)
  /\ kept2 \in Seq(T) /\ ages2 \in Seq(0..Old) /\ Len(kept2) = Len(kept) /\ Len(ages2) = Len(kept)
  /\ older \in Seq(T) /\ now \in Seq(0..Old) /\ Len(older) = Len(recent) /\ Len(now) = Len(recent)
  /\ \A i \in 1..Len(kept) : ages2[i] = Governor!Older(ages[i])
  /\ \A d \in 0..Len(kept) : recent = Governor!Rest(kept, d) =>
       \A i \in 1..Len(recent) : now[i] = ages2[d + i] /\ older[i] = kept2[d + i]

\* A tick: the window loses what comes to be old.
LEMMA RemembersTick ==
  ASSUME NEW T, NEW recent, NEW kept, NEW ages, NEW kept2, NEW ages2, NEW older, NEW now,
         Aged(T, recent, kept, ages, kept2, ages2, older, now), Remembers(recent, kept, ages)
  PROVE  /\ Governor!Beyond(now) \in 0..Len(recent)
         /\ Remembers(Governor!Rest(older, Governor!Beyond(now)), kept2, ages2)
  <1> DEFINE b == Governor!Beyond(now)
             rest == Governor!Rest(older, b)
             m == Len(kept)
  <1>1. PICK d \in 0..m :
          /\ recent = Governor!Rest(kept, d)
          /\ \A i \in 1..d : ~Governor!Recent(ages[i])
          /\ \A i \in d + 1..m : Governor!Recent(ages[i])
    BY DEF Remembers
  <1>0. /\ recent \in Seq(T) /\ kept \in Seq(T) /\ ages \in Seq(0..Old) /\ Len(ages) = Len(kept)
        /\ kept2 \in Seq(T) /\ ages2 \in Seq(0..Old) /\ Len(kept2) = Len(kept) /\ Len(ages2) = Len(kept)
        /\ older \in Seq(T) /\ now \in Seq(0..Old) /\ Len(older) = Len(recent) /\ Len(now) = Len(recent)
        /\ \A i \in 1..Len(kept) : ages2[i] = Governor!Older(ages[i])
        /\ \A i \in 1..Len(recent) : now[i] = ages2[d + i] /\ older[i] = kept2[d + i]
    BY <1>1 DEF Aged
  <1> USE <1>0
  <1>2. m \in Nat /\ Len(kept) = m /\ Len(kept2) = m /\ Len(ages) = m /\ Len(ages2) = m
    OBVIOUS
  <1> HIDE DEF m
  <1>20. Len(recent) = m - d /\ Len(older) = m - d /\ Len(now) = m - d
    <2>1. Len(Governor!Rest(kept, d)) = m - d
      BY <1>2, RestIs
    <2> QED BY <1>1, <2>1
  <1>3. \A i \in 1..m - d : now[i] = ages2[d + i] /\ older[i] = kept2[d + i] /\ d + i \in 1..m
    BY <1>1, <1>2, <1>20
  <1>4. Sorted(ages2)
    <2> SUFFICES ASSUME NEW i \in 1..m, NEW j \in 1..m, i <= j
                 PROVE  ages2[i] >= ages2[j]
      BY <1>2, SortedIs
    <2>1. ages[i] >= ages[j] /\ ages[i] \in 0..Old /\ ages[j] \in 0..Old
      <3>1. Sorted(ages) /\ i \in 1..Len(ages) /\ j \in 1..Len(ages)
        BY <1>2 DEF Remembers
      <3>2. ages[i] >= ages[j]
        BY <3>1, SortedIs
      <3> QED BY <3>1, <3>2, ElementIs
    <2> QED BY <1>2, <2>1, OlderIs
  <1>5. Sorted(now)
    <2> SUFFICES ASSUME NEW i \in 1..m - d, NEW j \in 1..m - d, i <= j
                 PROVE  now[i] >= now[j]
      BY <1>20, SortedIs
    <2>1. d + i \in DOMAIN ages2 /\ d + j \in DOMAIN ages2 /\ d + i <= d + j
      BY <1>2
    <2>2. ages2[d + i] >= ages2[d + j]
      BY <1>4, <2>1 DEF Sorted
    <2> QED BY <1>3, <2>2
  <1>6. b \in 0..m - d /\ \A i \in 1..m - d : i <= b <=> ~Governor!Recent(now[i])
    <2>1. now \in Seq(Int)
      BY WaitsAssumption DEF Governor!GovernorAssumption
    <2> QED BY <1>20, <1>5, <2>1, BeyondIs
  <1> HIDE DEF b
  <1>7. rest = Governor!Rest(kept2, d + b)
    <2>1. /\ rest \in Seq(T) /\ Len(rest) = m - d - b
          /\ \A i \in 1..m - d - b : rest[i] = older[b + i]
      <3>1. b \in 0..Len(older)
        BY <1>20, <1>6
      <3>2. /\ rest \in Seq(T) /\ Len(rest) = Len(older) - b
            /\ \A i \in 1..Len(older) - b : rest[i] = older[b + i]
        BY <3>1, RestIs
      <3> HIDE DEF rest
      <3> QED BY <1>20, <3>2
    <2> DEFINE e == d + b
               other == Governor!Rest(kept2, e)
    <2>6. e \in 0..Len(kept2)
      BY <1>2, <1>6
    <2> HIDE DEF e
    <2>7. /\ other \in Seq(T) /\ Len(other) = Len(kept2) - e
          /\ \A i \in 1..Len(kept2) - e : other[i] = kept2[e + i]
      BY <2>6, RestIs
    <2> HIDE DEF other
    <2>2. /\ other \in Seq(T) /\ Len(other) = m - (d + b)
          /\ \A i \in 1..m - (d + b) : other[i] = kept2[d + b + i]
      BY <1>2, <2>7 DEF e
    <2> HIDE DEF rest
    <2>3. Len(rest) = Len(other)
      BY <1>2, <1>6, <2>1, <2>2
    <2>4. ASSUME NEW i \in 1..Len(rest) PROVE rest[i] = other[i]
      <3>1. b + i \in 1..m - d /\ d + (b + i) = d + b + i /\ i \in 1..m - d - b /\ i \in 1..m - (d + b)
        BY <1>2, <1>6, <2>1
      <3>2. older[b + i] = kept2[d + (b + i)]
        BY <1>3, <3>1
      <3> QED BY <2>1, <2>2, <3>1, <3>2
    <2>5. rest = other
      BY <2>1, <2>2, <2>3, <2>4, SameSequence
    <2> QED BY <2>5 DEF other, e
  <1>8. ASSUME NEW i \in 1..d + b PROVE ~Governor!Recent(ages2[i])
    <2>1. i \in 1..m
      BY <1>2, <1>6
    <2>2. CASE i <= d
      <3>1. i \in 1..d
        BY <1>2, <2>1, <2>2
      <3>2. ages[i] \in 0..Old
        BY <1>2, <2>1, ElementIs
      <3> QED BY <1>1, <1>2, <2>1, <3>1, <3>2, OlderIs
    <2>3. CASE i > d
      <3>1. i - d \in 1..m - d /\ i - d <= b /\ d + (i - d) = i
        BY <1>2, <1>6, <2>1, <2>3
      <3>2. now[i - d] = ages2[i]
        BY <1>3, <3>1
      <3> QED BY <1>6, <3>1, <3>2
    <2> QED BY <2>1, <2>2, <2>3
  <1>9. ASSUME NEW i \in (d + b) + 1..m PROVE Governor!Recent(ages2[i])
    <2>1. i - d \in 1..m - d /\ ~(i - d <= b) /\ d + (i - d) = i
      BY <1>2, <1>6
    <2>2. now[i - d] = ages2[i]
      BY <1>3, <2>1
    <2> QED BY <1>6, <2>1, <2>2
  <1>10. d + b \in 0..Len(kept2)
    BY <1>2, <1>6
  <1>11. b \in 0..Len(recent)
    BY <1>20, <1>6
  <1> HIDE DEF rest
  <1>12. Remembers(rest, kept2, ages2)
    BY <1>2, <1>4, <1>7, <1>8, <1>9, <1>10 DEF Remembers
  <1> QED BY <1>11, <1>12 DEF rest, b

-----------------------------------------------------------------------------
(* The lines at the locks.                                                 *)

LEMMA LineAppend ==
  ASSUME NEW line \in Seq(Callers), Governor!IsInjective(line),
         NEW c \in Callers, ~Governor!Contains(line, c)
  PROVE  /\ Append(line, c) \in Seq(Callers) /\ Governor!IsInjective(Append(line, c))
         /\ \A e \in Callers :
              Governor!Contains(Append(line, c), e) <=> Governor!Contains(line, e) \/ e = c
  <1> DEFINE longer == Append(line, c)
             m == Len(line)
  <1>1. /\ longer \in Seq(Callers) /\ Len(longer) = m + 1 /\ longer[m + 1] = c
        /\ \A i \in 1..m : longer[i] = line[i]
        /\ DOMAIN longer = 1..m + 1 /\ DOMAIN line = 1..m /\ m \in Nat
    OBVIOUS
  <1> HIDE DEF longer, m
  <1>2. Governor!IsInjective(longer)
    BY <1>1 DEF Governor!IsInjective, Governor!Contains, m
  <1>3. \A e \in Callers : Governor!Contains(longer, e) <=> Governor!Contains(line, e) \/ e = c
    BY <1>1 DEF Governor!Contains, m
  <1> QED BY <1>1, <1>2, <1>3 DEF longer

LEMMA LineTail ==
  ASSUME NEW line \in Seq(Callers), Governor!IsInjective(line), line # <<>>
  PROVE  /\ Tail(line) \in Seq(Callers) /\ Governor!IsInjective(Tail(line))
         /\ \A e \in Callers :
              Governor!Contains(Tail(line), e) <=> Governor!Contains(line, e) /\ e # Head(line)
  <1> DEFINE shorter == Tail(line)
             m == Len(line)
  <1>1. /\ shorter \in Seq(Callers) /\ Len(shorter) = m - 1 /\ Head(line) = line[1]
        /\ \A i \in 1..m - 1 : shorter[i] = line[i + 1]
        /\ DOMAIN shorter = 1..m - 1 /\ DOMAIN line = 1..m /\ m \in Nat \ {0}
    OBVIOUS
  <1> HIDE DEF shorter, m
  <1>2. Governor!IsInjective(shorter)
    <2> SUFFICES ASSUME NEW i \in 1..m - 1, NEW j \in 1..m - 1, shorter[i] = shorter[j]
                 PROVE  i = j
      BY <1>1 DEF Governor!IsInjective
    <2>1. i + 1 \in 1..m /\ j + 1 \in 1..m /\ line[i + 1] = line[j + 1]
      BY <1>1
    <2>2. i + 1 = j + 1
      BY <1>1, <2>1 DEF Governor!IsInjective
    <2> QED BY <2>2
  <1>3. ASSUME NEW e \in Callers, Governor!Contains(shorter, e)
        PROVE  Governor!Contains(line, e) /\ e # Head(line)
    <2>1. PICK i \in 1..m - 1 : shorter[i] = e
      BY <1>1, <1>3 DEF Governor!Contains
    <2>2. i + 1 \in 1..m /\ line[i + 1] = e /\ i + 1 # 1 /\ 1 \in 1..m
      BY <1>1, <2>1
    <2> QED BY <1>1, <2>2 DEF Governor!Contains, Governor!IsInjective, m
  <1>4. ASSUME NEW e \in Callers, Governor!Contains(line, e), e # Head(line)
        PROVE  Governor!Contains(shorter, e)
    <2>1. PICK i \in 1..m : line[i] = e
      BY <1>1, <1>4 DEF Governor!Contains, m
    <2>2. i - 1 \in 1..m - 1 /\ shorter[i - 1] = e
      BY <1>1, <1>4, <2>1
    <2> QED BY <1>1, <2>2 DEF Governor!Contains
  <1> QED BY <1>1, <1>2, <1>3, <1>4 DEF shorter

LEMMA Concatenation ==
  ASSUME NEW T, NEW s \in Seq(T), NEW t \in Seq(T)
  PROVE  s \o t \in Seq(T) /\ Len(s \o t) = Len(s) + Len(t)
  OBVIOUS

LEMMA LineRemove ==
  ASSUME NEW line \in Seq(Callers), Governor!IsInjective(line), NEW k \in DOMAIN line
  PROVE  /\ Governor!RemoveAt(line, k) \in Seq(Callers)
         /\ Governor!IsInjective(Governor!RemoveAt(line, k))
         /\ \A e \in Callers :
              Governor!Contains(Governor!RemoveAt(line, k), e) <=> Governor!Contains(line, e) /\ e # line[k]
  <1> DEFINE shorter == Governor!RemoveAt(line, k)
             m == Len(line)
  <1>1. m \in Nat /\ DOMAIN line = 1..m /\ k \in 1..m
    OBVIOUS
  <1>2. /\ shorter \in Seq(Callers) /\ Len(shorter) = m - 1 /\ DOMAIN shorter = 1..m - 1
        /\ \A i \in 1..m - 1 : shorter[i] = IF i < k THEN line[i] ELSE line[i + 1]
    <2> DEFINE left == SubSeq(line, 1, k - 1)
               right == SubSeq(line, k + 1, m)
    <2>1. left \in Seq(Callers) /\ Len(left) = k - 1 /\ \A i \in 1..k - 1 : left[i] = line[i]
      BY <1>1
    <2>2. right \in Seq(Callers) /\ Len(right) = m - k /\ \A i \in 1..m - k : right[i] = line[k + i]
      BY <1>1
    <2>3. shorter = left \o right
      BY DEF Governor!RemoveAt
    <2> HIDE DEF left, right, shorter, m
    <2>4. shorter \in Seq(Callers) /\ Len(shorter) = m - 1
      <3>1. left \o right \in Seq(Callers) /\ Len(left \o right) = Len(left) + Len(right)
        BY <2>1, <2>2, Concatenation
      <3> QED BY <1>1, <2>1, <2>2, <2>3, <3>1
    <2>5. ASSUME NEW i \in 1..m - 1
          PROVE  shorter[i] = IF i < k THEN line[i] ELSE line[i + 1]
      <3>1. CASE i < k
        <4>1. i \in 1..k - 1 /\ shorter[i] = left[i]
          BY <1>1, <2>1, <2>2, <2>3, <3>1
        <4> QED BY <2>1, <3>1, <4>1
      <3>2. CASE ~(i < k)
        <4>1. i - (k - 1) \in 1..m - k /\ k + (i - (k - 1)) = i + 1
          BY <1>1, <3>2
        <4>2. shorter[i] = right[i - (k - 1)]
          BY <1>1, <2>1, <2>2, <2>3, <3>2
        <4> QED BY <2>2, <3>2, <4>1, <4>2
      <3> QED BY <3>1, <3>2
    <2> QED BY <2>4, <2>5
  <1> HIDE DEF shorter, m
  <1>3. Governor!IsInjective(shorter)
    <2> SUFFICES ASSUME NEW i \in 1..m - 1, NEW j \in 1..m - 1, shorter[i] = shorter[j]
                 PROVE  i = j
      BY <1>2 DEF Governor!IsInjective
    <2> DEFINE p(n) == IF n < k THEN n ELSE n + 1
    <2>1. p(i) \in 1..m /\ p(j) \in 1..m /\ line[p(i)] = line[p(j)]
      BY <1>1, <1>2
    <2>2. p(i) = p(j)
      BY <1>1, <2>1 DEF Governor!IsInjective
    <2> QED BY <1>1, <2>2
  <1>4. ASSUME NEW e \in Callers, Governor!Contains(shorter, e)
        PROVE  Governor!Contains(line, e) /\ e # line[k]
    <2>1. PICK i \in 1..m - 1 : shorter[i] = e
      BY <1>2, <1>4 DEF Governor!Contains
    <2> DEFINE j == IF i < k THEN i ELSE i + 1
    <2>2. j \in 1..m /\ line[j] = e /\ j # k
      BY <1>1, <1>2, <2>1
    <2> HIDE DEF j
    <2> QED BY <1>1, <2>2 DEF Governor!Contains, Governor!IsInjective, m
  <1>5. ASSUME NEW e \in Callers, Governor!Contains(line, e), e # line[k]
        PROVE  Governor!Contains(shorter, e)
    <2>1. PICK i \in 1..m : line[i] = e
      BY <1>1, <1>5 DEF Governor!Contains, m
    <2> DEFINE j == IF i < k THEN i ELSE i - 1
    <2>2. j \in 1..m - 1 /\ shorter[j] = e
      <3>1. CASE i < k
        BY <1>1, <1>2, <2>1, <3>1
      <3>2. CASE i > k
        BY <1>1, <1>2, <2>1, <3>2
      <3> QED BY <1>1, <1>5, <2>1, <3>1, <3>2
    <2> HIDE DEF j
    <2> QED BY <1>2, <2>2 DEF Governor!Contains
  <1> QED BY <1>2, <1>3, <1>4, <1>5 DEF shorter

-----------------------------------------------------------------------------
(* What holds of a governor between two steps.                             *)

\* The loop finds the calls of a window, which are within the budget, and the
\* last of them is the one that is remembered.
WindowsInv ==
  /\ Remembers(drawn, spent, Governor!Ages(spent))
  /\ Remembers(sends, stamps, stamps)
  /\ \A i \in 1..Len(sends) : sends[i] >= last

CallersOK ==
  /\ pos \in [Callers -> {"idle", "tokens", "slot", "sent", "refused"}]
  /\ size \in [Callers -> Sizes \union {0}]
  /\ sleep \in [Callers -> 0..Old]
  /\ \A c \in Callers : sleep[c] > 0 => pos[c] \in {"tokens", "slot"}
  /\ Governor!InLine(tokenLine, "tokens") /\ Governor!InLine(slotLine, "slot")

LimitsOK == service \in Services /\ interval \in 0..Old /\ rpm \in Nat \ {0}

WindowsOK ==
  /\ spent \in Seq(Governor!Call) /\ drawn \in Seq(Governor!Call)
  /\ stamps \in Seq(0..Old) /\ sends \in Seq(0..Old)
  /\ last \in 0..Old /\ deferred \in Nat

Paced == CallersOK /\ LimitsOK /\ WindowsOK /\ Governor!TokensRespected /\ WindowsInv

LEMMA PacedTypes == Paced <=> Governor!TypeOK /\ Governor!TokensRespected /\ WindowsInv
  BY DEF Paced, CallersOK, LimitsOK, WindowsOK, Governor!TypeOK

LEMMA Times ==
  /\ Window \in Nat \ {0} /\ Old \in Nat /\ Old > Window /\ Budget \in Nat
  /\ Sizes \subseteq Nat /\ Cooldowns \subseteq Nat \ {0}
  BY WaitsAssumption DEF Governor!GovernorAssumption

LEMMA Limits ==
  ASSUME NEW s \in Services, NEW p \in Profiles[s]
  PROVE  p.interval \in 0..Old /\ p.rpm \in Nat \ {0}
  BY WaitsAssumption DEF Governor!GovernorAssumption

LEMMA AgesCount ==
  ASSUME NEW s \in Seq(0..Old)
  PROVE  s \in Seq(Nat) /\ s \in Seq(Int)
  <1>1. \A i \in 1..Len(s) : s[i] \in 0..Old
    BY ElementIs
  <1>2. \A i \in 1..Len(s) : s[i] \in Nat /\ s[i] \in Int
    BY <1>1
  <1> QED BY <1>2

LEMMA CallTypes ==
  ASSUME NEW call \in Governor!Call
  PROVE  call.age \in 0..Old /\ call.tokens \in Nat
  <1>1. call.age \in 0..Old /\ call.tokens \in Sizes \union {0}
    BY DEF Governor!Call
  <1>2. Sizes \subseteq Nat
    BY Times
  <1>3. CASE call.tokens \in Sizes
    BY <1>1, <1>2, <1>3, Zenon
  <1>4. CASE call.tokens = 0
    BY <1>1, <1>4
  <1> QED BY <1>1, <1>3, <1>4

LEMMA CallsWeigh ==
  ASSUME NEW calls \in Seq(Governor!Call)
  PROVE  Weighed(calls)
  <1>1. \A i \in 1..Len(calls) : calls[i] \in Governor!Call
    BY ElementIs
  <1> QED BY <1>1, CallTypes DEF Weighed

LEMMA AgesAre ==
  ASSUME NEW calls \in Seq(Governor!Call)
  PROVE  /\ Governor!Ages(calls) \in Seq(0..Old) /\ Len(Governor!Ages(calls)) = Len(calls)
         /\ \A i \in 1..Len(calls) : Governor!Ages(calls)[i] = calls[i].age /\ calls[i].age \in 0..Old
  <1>1. \A i \in 1..Len(calls) : calls[i].age \in 0..Old
    <2>1. \A i \in 1..Len(calls) : calls[i] \in Governor!Call
      BY ElementIs
    <2> QED BY <2>1, CallTypes
  <1>2. DOMAIN calls = 1..Len(calls) /\ Len(calls) \in Nat
    OBVIOUS
  <1>3. Governor!Ages(calls) = [i \in 1..Len(calls) |-> calls[i].age]
    BY <1>2 DEF Governor!Ages
  <1>4. Governor!Ages(calls) \in [1..Len(calls) -> 0..Old]
    BY <1>1, <1>3
  <1> QED BY <1>1, <1>2, <1>3, <1>4

LEMMA InitPaced == Governor!Init => Paced
  <1> SUFFICES ASSUME Governor!Init PROVE Paced
    OBVIOUS
  <1>1. CallersOK
    BY Times DEF Governor!Init, CallersOK, Governor!InLine, Governor!IsInjective, Governor!Contains
  <1>2. LimitsOK
    BY Limits DEF Governor!Init, LimitsOK
  <1>3. WindowsOK
    BY Times DEF Governor!Init, WindowsOK
  <1>4. Governor!TokensRespected
    <2>1. Weighed(drawn)
      BY <1>3, CallsWeigh DEF WindowsOK
    <2>2. PICK f : Sums(f, drawn)
      BY <2>1, SumsExist
    <2>3. Governor!Total(drawn) = f[Len(drawn)] /\ f[0] = 0
      BY <2>1, <2>2, TotalIs DEF Sums
    <2>4. Len(drawn) = 0
      BY DEF Governor!Init
    <2> QED BY <2>3, <2>4, Times DEF Governor!TokensRespected
  <1>5. WindowsInv
    <2>1. drawn = <<>> /\ spent = <<>> /\ sends = <<>> /\ stamps = <<>>
      BY DEF Governor!Init
    <2>2. Governor!Ages(spent) = <<>>
      BY <2>1 DEF Governor!Ages
    <2>3. Governor!Rest(<<>>, 0) = <<>>
      BY DEF Governor!Rest
    <2>4. Remembers(<<>>, <<>>, <<>>)
      BY <2>3 DEF Remembers, Sorted
    <2> QED BY <2>1, <2>2, <2>4 DEF WindowsInv
  <1> QED BY <1>1, <1>2, <1>3, <1>4, <1>5 DEF Paced

\* The loops leave what was let through within a window.
LEMMA WindowsAre ==
  ASSUME Paced
  PROVE  Governor!SpentWindow = drawn /\ Governor!StampWindow = sends
  <1>1. /\ Governor!Ages(spent) \in Seq(Int) /\ Len(Governor!Ages(spent)) = Len(spent)
        /\ stamps \in Seq(Int)
    BY AgesAre, AgesCount DEF Paced, WindowsOK
  <1> QED BY <1>1, Trimmed DEF Paced, WindowsInv, Governor!SpentWindow, Governor!StampWindow

\* The ages of the calls of a window are those at the end of all ages.
LEMMA EndAges ==
  ASSUME WindowsOK, NEW d \in 0..Len(spent), drawn = Governor!Rest(spent, d)
  PROVE  \A i \in 1..Len(drawn) :
           /\ drawn[i] = spent[d + i] /\ d + i \in 1..Len(spent)
           /\ Governor!Ages(drawn)[i] = Governor!Ages(spent)[d + i]
  <1>1. Len(drawn) = Len(spent) - d /\ \A i \in 1..Len(spent) - d : drawn[i] = spent[d + i]
    BY RestIs DEF WindowsOK
  <1>2. \A i \in 1..Len(drawn) : drawn[i] = spent[d + i] /\ d + i \in 1..Len(spent)
    BY <1>1 DEF WindowsOK
  <1> QED BY <1>2, AgesAre DEF WindowsOK

LEMMA StillPaced ==
  ASSUME Paced, CallersOK', LimitsOK',
         spent' = spent, drawn' = drawn, stamps' = stamps, sends' = sends, last' = last,
         deferred' \in Nat
  PROVE  Paced'
  <1>1. WindowsOK'
    BY DEF Paced, WindowsOK
  <1>2. Governor!TokensRespected' /\ WindowsInv'
    BY DEF Paced, Governor!TokensRespected, WindowsInv
  <1> QED BY <1>1, <1>2 DEF Paced

\* TokenGovernor.acquire lets a call through.
LEMMA TokensPass ==
  ASSUME Paced, CallersOK', LimitsOK', NEW call \in Governor!Call, call.age = 0,
         spent' = Append(drawn, call), drawn' = Append(drawn, call),
         drawn = <<>> \/ Governor!Total(drawn) + call.tokens <= Budget,
         UNCHANGED <<stamps, sends, last, deferred>>
  PROVE  Paced'
  <1>1. drawn \in Seq(Governor!Call) /\ spent \in Seq(Governor!Call)
    BY DEF Paced, WindowsOK
  <1> DEFINE more == Append(drawn, call)
  <1>2. more \in Seq(Governor!Call) /\ Len(more) = Len(drawn) + 1 /\ more[Len(drawn) + 1] = call
        /\ \A i \in 1..Len(drawn) : more[i] = drawn[i]
    BY <1>1
  <1>3. WindowsOK'
    BY <1>2 DEF Paced, WindowsOK
  <1>4. Governor!TokensRespected'
    <2>1. CASE drawn = <<>>
      BY <1>2, <2>1 DEF Governor!TokensRespected
    <2>2. CASE Governor!Total(drawn) + call.tokens <= Budget
      <3>1. call.tokens \in Nat
        BY CallTypes
      <3>2. Governor!Total(more) = Governor!Total(drawn) + call.tokens
        BY <1>1, <3>1, CallsWeigh, TotalAppend
      <3> QED BY <2>2, <3>2 DEF Governor!TokensRespected
    <2> QED BY <2>1, <2>2
  <1>5. Remembers(more, more, Governor!Ages(more))
    <2>1. /\ Governor!Ages(spent) \in Seq(Nat) /\ Len(Governor!Ages(spent)) = Len(spent)
          /\ Governor!Ages(more) \in Seq(Nat) /\ Len(Governor!Ages(more)) = Len(drawn) + 1
      <3> HIDE DEF more
      <3> QED BY <1>1, <1>2, AgesAre, AgesCount
    <2>2. Governor!Ages(more)[Len(drawn) + 1] = 0
      <3>1. Len(drawn) + 1 \in 1..Len(more)
        BY <1>1, <1>2
      <3> HIDE DEF more
      <3>2. Governor!Ages(more)[Len(drawn) + 1] = more[Len(drawn) + 1].age
        BY <1>2, <3>1, AgesAre
      <3> QED BY <1>2, <3>2
    <2>3. ASSUME NEW d \in 0..Len(spent), drawn = Governor!Rest(spent, d), NEW i \in 1..Len(drawn)
          PROVE  Governor!Ages(more)[i] = Governor!Ages(spent)[d + i]
      <3>1. i \in 1..Len(more)
        BY <1>1, <1>2
      <3>2. Governor!Ages(more)[i] = more[i].age
        BY <1>2, <3>1, AgesAre
      <3>3. Governor!Ages(drawn)[i] = drawn[i].age
        BY <1>1, AgesAre
      <3>4. Governor!Ages(drawn)[i] = Governor!Ages(spent)[d + i]
        BY <2>3, EndAges DEF Paced
      <3> QED BY <1>2, <3>2, <3>3, <3>4
    <2> HIDE DEF more
    <2>4. Remembers(drawn, spent, Governor!Ages(spent))
      BY DEF Paced, WindowsInv
    <2>5. Remembers(Append(drawn, call), Append(drawn, call), Governor!Ages(more))
      BY <1>1, <2>1, <2>2, <2>3, <2>4, RemembersAppend
    <2> QED BY <2>5 DEF more
  <1>6. WindowsInv'
    BY <1>5 DEF Paced, WindowsInv
  <1> QED BY <1>3, <1>4, <1>6 DEF Paced

\* It keeps a call waiting.
LEMMA TokensWait ==
  ASSUME Paced, CallersOK', LimitsOK', spent' = drawn, UNCHANGED <<drawn, stamps, sends, last, deferred>>
  PROVE  Paced'
  <1>1. drawn \in Seq(Governor!Call) /\ spent \in Seq(Governor!Call)
    BY DEF Paced, WindowsOK
  <1>2. WindowsOK' /\ Governor!TokensRespected'
    BY <1>1 DEF Paced, WindowsOK, Governor!TokensRespected
  <1>3. Remembers(drawn, drawn, Governor!Ages(drawn))
    <2>1. /\ Governor!Ages(spent) \in Seq(Nat) /\ Len(Governor!Ages(spent)) = Len(spent)
          /\ Governor!Ages(drawn) \in Seq(Nat) /\ Len(Governor!Ages(drawn)) = Len(drawn)
      BY <1>1, AgesAre, AgesCount
    <2>2. ASSUME NEW d \in 0..Len(spent), drawn = Governor!Rest(spent, d), NEW i \in 1..Len(drawn)
          PROVE  Governor!Ages(drawn)[i] = Governor!Ages(spent)[d + i]
      BY <2>2, EndAges DEF Paced
    <2>3. Remembers(drawn, spent, Governor!Ages(spent))
      BY DEF Paced, WindowsInv
    <2> QED BY <1>1, <2>1, <2>2, <2>3, RemembersTrimmed
  <1>4. WindowsInv'
    BY <1>3 DEF Paced, WindowsInv
  <1> QED BY <1>2, <1>4 DEF Paced

LEMMA EndStamps ==
  ASSUME WindowsOK, NEW d \in 0..Len(stamps), sends = Governor!Rest(stamps, d)
  PROVE  \A i \in 1..Len(sends) : sends[i] = stamps[d + i] /\ d + i \in 1..Len(stamps)
  <1>1. Len(sends) = Len(stamps) - d /\ \A i \in 1..Len(stamps) - d : sends[i] = stamps[d + i]
    BY RestIs DEF WindowsOK
  <1> QED BY <1>1 DEF WindowsOK

\* RateGovernor.acquire lets a call through.
LEMMA SlotPass ==
  ASSUME Paced, CallersOK', LimitsOK', stamps' = Append(sends, 0), sends' = Append(sends, 0),
         last' = 0, UNCHANGED <<spent, drawn, deferred>>
  PROVE  Paced'
  <1>1. sends \in Seq(0..Old) /\ stamps \in Seq(0..Old) /\ 0 \in 0..Old
    BY Times DEF Paced, WindowsOK
  <1> DEFINE more == Append(sends, 0)
  <1>2. more \in Seq(0..Old) /\ Len(more) = Len(sends) + 1 /\ more[Len(sends) + 1] = 0
        /\ \A i \in 1..Len(sends) : more[i] = sends[i]
    BY <1>1
  <1>3. WindowsOK' /\ Governor!TokensRespected'
    BY <1>1, <1>2 DEF Paced, WindowsOK, Governor!TokensRespected
  <1>4. Remembers(more, more, more)
    <2>1. stamps \in Seq(Nat) /\ more \in Seq(Nat)
      BY <1>1, <1>2, AgesCount
    <2>2. ASSUME NEW d \in 0..Len(stamps), sends = Governor!Rest(stamps, d), NEW i \in 1..Len(sends)
          PROVE  more[i] = stamps[d + i]
      BY <1>2, <2>2, EndStamps DEF Paced
    <2> HIDE DEF more
    <2>3. Remembers(sends, stamps, stamps)
      BY DEF Paced, WindowsInv
    <2>4. Remembers(Append(sends, 0), Append(sends, 0), more)
      BY <1>1, <1>2, <2>1, <2>2, <2>3, RemembersAppend
    <2> QED BY <2>4 DEF more
  <1>5. \A i \in 1..Len(more) : more[i] >= 0
    <2> HIDE DEF more
    <2>1. \A i \in 1..Len(more) : more[i] \in 0..Old
      BY <1>2, ElementIs
    <2> QED BY <2>1
  <1>6. WindowsInv'
    BY <1>4, <1>5 DEF Paced, WindowsInv
  <1> QED BY <1>3, <1>6 DEF Paced

\* It keeps a call waiting.
LEMMA SlotWait ==
  ASSUME Paced, CallersOK', LimitsOK', stamps' = sends, UNCHANGED <<spent, drawn, sends, last, deferred>>
  PROVE  Paced'
  <1>1. sends \in Seq(0..Old) /\ stamps \in Seq(0..Old)
    BY DEF Paced, WindowsOK
  <1>2. WindowsOK' /\ Governor!TokensRespected'
    BY <1>1 DEF Paced, WindowsOK, Governor!TokensRespected
  <1>3. Remembers(sends, sends, sends)
    <2>1. stamps \in Seq(Nat) /\ sends \in Seq(Nat)
      BY <1>1, AgesCount
    <2>2. ASSUME NEW d \in 0..Len(stamps), sends = Governor!Rest(stamps, d), NEW i \in 1..Len(sends)
          PROVE  sends[i] = stamps[d + i]
      BY <2>2, EndStamps DEF Paced
    <2>3. Remembers(sends, stamps, stamps)
      BY DEF Paced, WindowsInv
    <2>4. \A d \in 0..Len(stamps) : sends = Governor!Rest(stamps, d) =>
            \A i \in 1..Len(sends) : sends[i] = stamps[d + i]
      BY <2>2
    <2>5. ASSUME NEW now \in Seq(Nat), Len(now) = Len(sends),
                 \A d \in 0..Len(stamps) : sends = Governor!Rest(stamps, d) =>
                   \A i \in 1..Len(sends) : now[i] = stamps[d + i]
          PROVE  Remembers(sends, sends, now)
      BY <1>1, <2>1, <2>3, <2>5, RemembersTrimmed
    <2> QED BY <2>1, <2>4, <2>5
  <1>4. WindowsInv'
    BY <1>3 DEF Paced, WindowsInv
  <1> QED BY <1>2, <1>4 DEF Paced

-----------------------------------------------------------------------------
(* Time.                                                                   *)

LEMMA OlderStampsAre ==
  ASSUME NEW ages \in Seq(0..Old)
  PROVE  /\ Governor!OlderStamps(ages) \in Seq(0..Old)
         /\ Len(Governor!OlderStamps(ages)) = Len(ages)
         /\ \A i \in 1..Len(ages) : Governor!OlderStamps(ages)[i] = Governor!Older(ages[i])
  <1>1. DOMAIN ages = 1..Len(ages) /\ Len(ages) \in Nat
    OBVIOUS
  <1>2. Governor!OlderStamps(ages) = [i \in 1..Len(ages) |-> Governor!Older(ages[i])]
    BY <1>1 DEF Governor!OlderStamps
  <1>3. \A i \in 1..Len(ages) : Governor!Older(ages[i]) \in 0..Old
    BY ElementIs, OlderIs
  <1>4. Governor!OlderStamps(ages) \in [1..Len(ages) -> 0..Old]
    BY <1>2, <1>3
  <1> QED BY <1>1, <1>2, <1>4

LEMMA OlderCallsAre ==
  ASSUME NEW calls \in Seq(Governor!Call)
  PROVE  /\ Governor!OlderCalls(calls) \in Seq(Governor!Call)
         /\ Len(Governor!OlderCalls(calls)) = Len(calls)
         /\ \A i \in 1..Len(calls) :
              /\ Governor!OlderCalls(calls)[i] = [calls[i] EXCEPT !.age = Governor!Older(@)]
              /\ Governor!OlderCalls(calls)[i].tokens = calls[i].tokens
              /\ Governor!OlderCalls(calls)[i].age = Governor!Older(calls[i].age)
  <1> DEFINE older(i) == [calls[i] EXCEPT !.age = Governor!Older(@)]
  <1>1. DOMAIN calls = 1..Len(calls) /\ Len(calls) \in Nat
    OBVIOUS
  <1>2. Governor!OlderCalls(calls) = [i \in 1..Len(calls) |-> older(i)]
    BY <1>1 DEF Governor!OlderCalls
  <1>3. ASSUME NEW i \in 1..Len(calls)
        PROVE  /\ older(i) \in Governor!Call
               /\ older(i).tokens = calls[i].tokens /\ older(i).age = Governor!Older(calls[i].age)
    <2>1. calls[i] \in Governor!Call
      BY ElementIs
    <2>2. Governor!Older(calls[i].age) \in 0..Old
      BY <2>1, CallTypes, OlderIs
    <2> QED BY <2>1, <2>2 DEF Governor!Call
  <1> HIDE DEF older
  <1>4. Governor!OlderCalls(calls) \in [1..Len(calls) -> Governor!Call]
    BY <1>2, <1>3
  <1>5. /\ Governor!OlderCalls(calls) \in Seq(Governor!Call)
        /\ Len(Governor!OlderCalls(calls)) = Len(calls)
    BY <1>1, <1>2, <1>4
  <1>6. \A i \in 1..Len(calls) : Governor!OlderCalls(calls)[i] = older(i)
    BY <1>2
  <1> QED BY <1>3, <1>5, <1>6 DEF older

\* A tick takes from a window of tokens what comes to be old.
LEMMA TokensTick ==
  ASSUME Paced, Governor!Tick
  PROVE  /\ spent' \in Seq(Governor!Call) /\ drawn' \in Seq(Governor!Call)
         /\ Remembers(drawn', spent', Governor!Ages(spent'))
         /\ Governor!TokensRespected'
  <1> DEFINE older == Governor!OlderCalls(drawn)
             now == Governor!Ages(older)
             b == Governor!Beyond(now)
  <1>1. spent \in Seq(Governor!Call) /\ drawn \in Seq(Governor!Call)
    BY DEF Paced, WindowsOK
  <1>2. spent' = Governor!OlderCalls(spent) /\ drawn' = Governor!Rest(older, b)
    BY DEF Governor!Tick
  <1>3. /\ spent' \in Seq(Governor!Call) /\ Len(spent') = Len(spent)
        /\ \A i \in 1..Len(spent) :
             /\ spent'[i] = [spent[i] EXCEPT !.age = Governor!Older(@)]
             /\ spent'[i].age = Governor!Older(spent[i].age)
    BY <1>1, <1>2, OlderCallsAre
  <1>4. /\ older \in Seq(Governor!Call) /\ Len(older) = Len(drawn)
        /\ \A i \in 1..Len(drawn) :
             /\ older[i] = [drawn[i] EXCEPT !.age = Governor!Older(@)]
             /\ older[i].tokens = drawn[i].tokens
             /\ older[i].age = Governor!Older(drawn[i].age)
    BY <1>1, OlderCallsAre
  <1> HIDE DEF older
  <1>5. now \in Seq(0..Old) /\ Len(now) = Len(drawn) /\ \A i \in 1..Len(drawn) : now[i] = older[i].age
    BY <1>4, AgesAre
  <1>6. /\ Governor!Ages(spent) \in Seq(0..Old) /\ Len(Governor!Ages(spent)) = Len(spent)
        /\ \A i \in 1..Len(spent) : Governor!Ages(spent)[i] = spent[i].age
    BY <1>1, AgesAre
  <1>7. /\ Governor!Ages(spent') \in Seq(0..Old) /\ Len(Governor!Ages(spent')) = Len(spent)
        /\ \A i \in 1..Len(spent) : Governor!Ages(spent')[i] = spent'[i].age
    BY <1>3, AgesAre
  <1>8. \A i \in 1..Len(spent) : Governor!Ages(spent')[i] = Governor!Older(Governor!Ages(spent)[i])
    BY <1>3, <1>6, <1>7
  <1>9. ASSUME NEW d \in 0..Len(spent), drawn = Governor!Rest(spent, d), NEW i \in 1..Len(drawn)
        PROVE  now[i] = Governor!Ages(spent')[d + i] /\ older[i] = spent'[d + i]
    <2>1. drawn[i] = spent[d + i] /\ d + i \in 1..Len(spent)
      BY <1>9, EndAges DEF Paced
    <2>2. older[i] = spent'[d + i]
      BY <1>3, <1>4, <2>1
    <2>3. now[i] = older[i].age /\ Governor!Ages(spent')[d + i] = spent'[d + i].age
      BY <1>5, <1>7, <2>1
    <2> QED BY <2>2, <2>3
  <1>10. Remembers(drawn, spent, Governor!Ages(spent))
    BY DEF Paced, WindowsInv
  <1> HIDE DEF now
  <1>11. b \in 0..Len(drawn) /\ Remembers(Governor!Rest(older, b), spent', Governor!Ages(spent'))
    <2>1. /\ spent' \in Seq(Governor!Call) /\ Len(spent') = Len(spent)
          /\ older \in Seq(Governor!Call) /\ Len(older) = Len(drawn)
          /\ now \in Seq(0..Old) /\ Len(now) = Len(drawn)
          /\ Governor!Ages(spent) \in Seq(0..Old) /\ Len(Governor!Ages(spent)) = Len(spent)
          /\ Governor!Ages(spent') \in Seq(0..Old) /\ Len(Governor!Ages(spent')) = Len(spent)
      BY <1>3, <1>4, <1>5, <1>6, <1>7
    <2>2. \A d \in 0..Len(spent) : drawn = Governor!Rest(spent, d) =>
            \A i \in 1..Len(drawn) : now[i] = Governor!Ages(spent')[d + i] /\ older[i] = spent'[d + i]
      BY <1>9
    <2> DEFINE kept2 == spent'
               ages == Governor!Ages(spent)
               ages2 == Governor!Ages(spent')
    <2>3. Aged(Governor!Call, drawn, spent, ages, kept2, ages2, older, now)
      BY <1>1, <1>8, <2>1, <2>2 DEF Aged
    <2> HIDE DEF kept2, ages2, b
    <2>4. /\ Governor!Beyond(now) \in 0..Len(drawn)
          /\ Remembers(Governor!Rest(older, Governor!Beyond(now)), kept2, ages2)
      BY <1>10, <2>3, RemembersTick
    <2> QED BY <2>4 DEF kept2, ages2, b
  <1> HIDE DEF b
  <1>12. drawn' \in Seq(Governor!Call) /\ Len(drawn') = Len(drawn) - b
    <2>1. b \in 0..Len(older)
      BY <1>4, <1>11
    <2>2. Governor!Rest(older, b) \in Seq(Governor!Call) /\ Len(Governor!Rest(older, b)) = Len(older) - b
      BY <1>4, <2>1, RestIs
    <2> QED BY <1>2, <1>4, <2>2
  <1>13. Governor!TokensRespected'
    <2>1. Governor!Total(older) = Governor!Total(drawn) /\ Weighed(older)
      BY <1>1, <1>4, CallsWeigh, TotalOlder
    <2>2. Governor!Total(drawn') <= Governor!Total(older) /\ Governor!Total(older) \in Int
      BY <1>2, <1>4, <1>11, <2>1, TotalRest
    <2>3. Weighed(drawn') /\ Governor!Total(drawn') \in Int
      <3>1. 0 \in 0..Len(drawn')
        BY <1>12
      <3> QED BY <1>12, <3>1, CallsWeigh, TotalRest
    <2>4. CASE Governor!Total(drawn) <= Budget
      BY <2>1, <2>2, <2>3, <2>4, Times DEF Governor!TokensRespected
    <2>5. CASE Len(drawn) = 1 /\ Len(drawn') # 1
      <3>1. Len(drawn') = 0
        BY <1>11, <1>12, <2>5
      <3>2. PICK f : Sums(f, drawn')
        BY <2>3, SumsExist
      <3>3. Governor!Total(drawn') = f[Len(drawn')] /\ f[0] = 0
        BY <2>3, <3>2, TotalIs DEF Sums
      <3> QED BY <3>1, <3>3, Times DEF Governor!TokensRespected
    <2> QED BY <2>4, <2>5 DEF Paced, Governor!TokensRespected
  <1> QED BY <1>2, <1>3, <1>11, <1>12, <1>13

LEMMA StampsTick ==
  ASSUME Paced, Governor!Tick
  PROVE  /\ stamps' \in Seq(0..Old) /\ sends' \in Seq(0..Old) /\ Len(sends') <= Len(sends)
         /\ Remembers(sends', stamps', stamps')
         /\ \A i \in 1..Len(sends') : sends'[i] >= last'
         /\ last' \in 0..Old /\ deferred' \in Nat
  <1> DEFINE now == Governor!OlderStamps(sends)
             b == Governor!Beyond(now)
  <1>1. /\ stamps \in Seq(0..Old) /\ sends \in Seq(0..Old)
        /\ last \in 0..Old /\ deferred \in Nat
    BY DEF Paced, WindowsOK
  <1>2. /\ stamps' = Governor!OlderStamps(stamps) /\ sends' = Governor!Rest(now, b)
        /\ last' = Governor!Older(last) /\ deferred' = Governor!Larger(deferred - 1, 0)
    BY DEF Governor!Tick
  <1>3. /\ stamps' \in Seq(0..Old) /\ Len(stamps') = Len(stamps)
        /\ \A i \in 1..Len(stamps) : stamps'[i] = Governor!Older(stamps[i])
    BY <1>1, <1>2, OlderStampsAre
  <1>4. /\ now \in Seq(0..Old) /\ Len(now) = Len(sends)
        /\ \A i \in 1..Len(sends) : now[i] = Governor!Older(sends[i])
    BY <1>1, OlderStampsAre
  <1> HIDE DEF now
  <1>5. ASSUME NEW d \in 0..Len(stamps), sends = Governor!Rest(stamps, d), NEW i \in 1..Len(sends)
        PROVE  now[i] = stamps'[d + i]
    <2>1. sends[i] = stamps[d + i] /\ d + i \in 1..Len(stamps)
      BY <1>5, EndStamps DEF Paced
    <2> QED BY <1>3, <1>4, <2>1
  <1>6. Remembers(sends, stamps, stamps)
    BY DEF Paced, WindowsInv
  <1>7. b \in 0..Len(sends) /\ Remembers(Governor!Rest(now, b), stamps', stamps')
    <2>1. Aged(0..Old, sends, stamps, stamps, stamps', stamps', now, now)
      BY <1>1, <1>3, <1>4, <1>5 DEF Aged
    <2> QED BY <1>6, <2>1, RemembersTick
  <1> HIDE DEF b
  <1>8. /\ sends' \in Seq(0..Old) /\ Len(sends') = Len(sends) - b
        /\ \A i \in 1..Len(sends) - b : sends'[i] = now[b + i]
    <2> DEFINE rest == Governor!Rest(now, b)
    <2>1. b \in 0..Len(now)
      BY <1>4, <1>7
    <2>2. /\ rest \in Seq(0..Old) /\ Len(rest) = Len(now) - b
          /\ \A i \in 1..Len(now) - b : rest[i] = now[b + i]
      BY <1>4, <2>1, RestIs
    <2>3. sends' = rest
      BY <1>2
    <2> HIDE DEF rest
    <2> QED BY <1>4, <2>2, <2>3
  <1>9. ASSUME NEW i \in 1..Len(sends') PROVE sends'[i] >= last'
    <2>1. b + i \in 1..Len(sends) /\ i \in 1..Len(sends) - b
      BY <1>1, <1>7, <1>8
    <2>2. sends[b + i] >= last /\ sends[b + i] \in 0..Old
      BY <1>1, <2>1, ElementIs DEF Paced, WindowsInv
    <2>3. sends'[i] = Governor!Older(sends[b + i])
      BY <1>4, <1>8, <2>1
    <2> QED BY <1>1, <1>2, <2>2, <2>3, OlderIs
  <1>10. last' \in 0..Old /\ deferred' \in Nat
    BY <1>1, <1>2, OlderIs DEF Governor!Larger
  <1>11. Len(sends') <= Len(sends)
    BY <1>1, <1>7, <1>8
  <1> QED BY <1>2, <1>3, <1>7, <1>8, <1>9, <1>10, <1>11

-----------------------------------------------------------------------------
(* The steps of a call.                                                    *)

Places == {"idle", "tokens", "slot", "sent", "refused"}

LEMMA Types ==
  ASSUME CallersOK
  PROVE  /\ pos \in [Callers -> Places] /\ size \in [Callers -> Sizes \union {0}]
         /\ sleep \in [Callers -> 0..Old]
         /\ tokenLine \in Seq(Callers) /\ Governor!IsInjective(tokenLine)
         /\ slotLine \in Seq(Callers) /\ Governor!IsInjective(slotLine)
  BY DEF CallersOK, Governor!InLine, Places

LEMMA Stands ==
  ASSUME CallersOK, NEW c \in Callers
  PROVE  /\ pos[c] = "tokens" <=> Governor!Contains(tokenLine, c)
         /\ pos[c] = "slot" <=> Governor!Contains(slotLine, c)
         /\ sleep[c] > 0 => pos[c] \in {"tokens", "slot"}
  BY Zenon DEF CallersOK, Governor!InLine

\* A caller goes from one place to another, and its lines with it.
LEMMA Moves ==
  ASSUME CallersOK, NEW c \in Callers, NEW place \in Places,
         pos' = [pos EXCEPT ![c] = place], size' \in [Callers -> Sizes \union {0}],
         sleep' \in [Callers -> 0..Old], sleep'[c] = 0,
         \A e \in Callers \ {c} : sleep'[e] = sleep[e],
         tokenLine' \in Seq(Callers), Governor!IsInjective(tokenLine'),
         slotLine' \in Seq(Callers), Governor!IsInjective(slotLine'),
         \A e \in Callers \ {c} : Governor!Contains(tokenLine', e) <=> Governor!Contains(tokenLine, e),
         \A e \in Callers \ {c} : Governor!Contains(slotLine', e) <=> Governor!Contains(slotLine, e),
         Governor!Contains(tokenLine', c) <=> place = "tokens",
         Governor!Contains(slotLine', c) <=> place = "slot"
  PROVE  CallersOK'
  <1>1. pos' \in [Callers -> Places]
    BY Types
  <1>2. ASSUME NEW e \in Callers
        PROVE  /\ pos'[e] = "tokens" <=> Governor!Contains(tokenLine', e)
               /\ pos'[e] = "slot" <=> Governor!Contains(slotLine', e)
               /\ sleep'[e] > 0 => pos'[e] \in {"tokens", "slot"}
    <2>1. CASE e = c
      BY <2>1, Types
    <2>2. CASE e # c
      <3>1. pos'[e] = pos[e] /\ sleep'[e] = sleep[e]
        BY <2>2, Types
      <3>2. /\ pos[e] = "tokens" <=> Governor!Contains(tokenLine, e)
            /\ pos[e] = "slot" <=> Governor!Contains(slotLine, e)
            /\ sleep[e] > 0 => pos[e] \in {"tokens", "slot"}
        BY Stands
      <3>3. /\ Governor!Contains(tokenLine', e) <=> Governor!Contains(tokenLine, e)
            /\ Governor!Contains(slotLine', e) <=> Governor!Contains(slotLine, e)
        BY <2>2
      <3> QED BY <3>1, <3>2, <3>3
    <2> QED BY <2>1, <2>2
  <1> QED BY <1>1, <1>2 DEF CallersOK, Governor!InLine, Places

\* A caller sleeps with its lock held.
LEMMA Sleeps ==
  ASSUME CallersOK, NEW c \in Callers, pos[c] \in {"tokens", "slot"}, NEW ticks \in 0..Old,
         sleep' = [sleep EXCEPT ![c] = ticks], UNCHANGED <<pos, size, tokenLine, slotLine>>
  PROVE  CallersOK'
  <1>1. sleep' \in [Callers -> 0..Old]
    BY Types
  <1>2. ASSUME NEW e \in Callers, sleep'[e] > 0 PROVE pos'[e] \in {"tokens", "slot"}
    <2>1. CASE e = c
      BY <2>1
    <2>2. CASE e # c
      <3>1. sleep[e] > 0
        BY <1>2, <2>2, Types
      <3> QED BY <3>1, Stands
    <2> QED BY <2>1, <2>2
  <1> QED BY <1>1, <1>2 DEF CallersOK, Governor!InLine

\* One that is in no line, or leaves it, does not sleep.
LEMMA AwakeOutside ==
  ASSUME CallersOK, NEW c \in Callers, pos[c] \notin {"tokens", "slot"}
  PROVE  sleep[c] = 0 /\ ~Governor!Contains(tokenLine, c) /\ ~Governor!Contains(slotLine, c)
  <1>1. sleep[c] \in 0..Old
    BY Types
  <1>3. ~(sleep[c] > 0)
    BY Stands
  <1>2. sleep[c] = 0
    BY <1>1, <1>3, Times
  <1>4. (pos[c] = "tokens" <=> Governor!Contains(tokenLine, c)) /\ (pos[c] = "slot" <=> Governor!Contains(slotLine, c))
    BY Stands
  <1> QED BY <1>2, <1>4

LEMMA AskStep ==
  ASSUME Paced, NEW c \in Callers, Governor!Ask(c)
  PROVE  Paced'
  <1>1. /\ pos[c] = "idle" /\ size' \in [Callers -> Sizes \union {0}]
        /\ UNCHANGED <<service, interval, rpm, spent, stamps, last, deferred, drawn, sends, sleep>>
    BY Types DEF Governor!Ask, Governor!limits, Governor!windows, Paced
  <1>2. CallersOK /\ sleep[c] = 0 /\ ~Governor!Contains(tokenLine, c) /\ ~Governor!Contains(slotLine, c)
    BY <1>1, AwakeOutside DEF Paced
  <1>3. CASE service \in Metered
    <2>1. pos' = [pos EXCEPT ![c] = "tokens"] /\ tokenLine' = Append(tokenLine, c) /\ slotLine' = slotLine
      BY <1>3 DEF Governor!Ask, Governor!Goto
    <2>2. /\ tokenLine' \in Seq(Callers) /\ Governor!IsInjective(tokenLine')
          /\ \A e \in Callers : Governor!Contains(tokenLine', e) <=> Governor!Contains(tokenLine, e) \/ e = c
      BY <1>2, <2>1, LineAppend, Types
    <2>3. CallersOK'
      BY <1>1, <1>2, <2>1, <2>2, Moves, Types DEF Places
    <2> QED BY <1>1, <2>3, StillPaced DEF Paced, LimitsOK, WindowsOK
  <1>4. CASE service \notin Metered
    <2>1. pos' = [pos EXCEPT ![c] = "slot"] /\ slotLine' = Append(slotLine, c) /\ tokenLine' = tokenLine
      BY <1>4 DEF Governor!Ask, Governor!Goto
    <2>2. /\ slotLine' \in Seq(Callers) /\ Governor!IsInjective(slotLine')
          /\ \A e \in Callers : Governor!Contains(slotLine', e) <=> Governor!Contains(slotLine, e) \/ e = c
      BY <1>2, <2>1, LineAppend, Types
    <2>3. CallersOK'
      BY <1>1, <1>2, <2>1, <2>2, Moves, Types DEF Places
    <2> QED BY <1>1, <2>3, StillPaced DEF Paced, LimitsOK, WindowsOK
  <1> QED BY <1>3, <1>4

\* What is left of a window, in ticks, is a time to sleep.
LEMMA SleepTime ==
  ASSUME NEW ticks \in Int, ticks <= Old
  PROVE  Governor!Larger(ticks, 1) \in 0..Old
  BY Times DEF Governor!Larger

LEMMA TakeTokensStep ==
  ASSUME Paced, NEW c \in Callers, Governor!TakeTokens(c)
  PROVE  Paced'
  <1>1. /\ pos[c] = "tokens" /\ tokenLine # <<>> /\ Head(tokenLine) = c /\ sleep[c] = 0
        /\ UNCHANGED <<service, interval, rpm, size, stamps, last, deferred, sends>>
    BY DEF Governor!TakeTokens, Governor!Awake, Governor!limits
  <1>2. CallersOK /\ LimitsOK' /\ Governor!SpentWindow = drawn
    BY <1>1, WindowsAre DEF Paced, LimitsOK
  <1>3. CASE Governor!MayPass(c)
    <2> DEFINE call == [age |-> 0, tokens |-> size[c]]
    <2>1. /\ spent' = Append(drawn, call) /\ drawn' = Append(drawn, call)
          /\ tokenLine' = Tail(tokenLine) /\ slotLine' = Append(slotLine, c)
          /\ pos' = [pos EXCEPT ![c] = "slot"] /\ sleep' = sleep
      BY <1>2, <1>3 DEF Governor!TakeTokens, Governor!Goto
    <2>2. call \in Governor!Call /\ call.age = 0 /\ call.tokens = size[c]
      BY <1>2, Types, Times DEF Governor!Call
    <2>3. drawn = <<>> \/ Governor!Total(drawn) + size[c] <= Budget
      BY <1>2, <1>3 DEF Governor!MayPass
    <2>4. /\ tokenLine' \in Seq(Callers) /\ Governor!IsInjective(tokenLine')
          /\ \A e \in Callers : Governor!Contains(tokenLine', e) <=> Governor!Contains(tokenLine, e) /\ e # c
      BY <1>1, <1>2, <2>1, LineTail, Types
    <2>5. ~Governor!Contains(slotLine, c)
      <3>1. pos[c] = "slot" <=> Governor!Contains(slotLine, c)
        BY <1>2, Stands
      <3> QED BY <1>1, <3>1
    <2>6. /\ slotLine' \in Seq(Callers) /\ Governor!IsInjective(slotLine')
          /\ \A e \in Callers : Governor!Contains(slotLine', e) <=> Governor!Contains(slotLine, e) \/ e = c
      BY <1>2, <2>1, <2>5, LineAppend, Types
    <2> HIDE DEF call
    <2>7. CallersOK'
      BY <1>1, <1>2, <2>1, <2>4, <2>6, Moves, Types DEF Places
    <2> QED BY <1>1, <1>2, <2>1, <2>2, <2>3, <2>7, TokensPass
  <1>4. CASE ~Governor!MayPass(c)
    <2>1. /\ spent' = drawn
          /\ sleep' = [sleep EXCEPT ![c] = Governor!Larger(Window - drawn[1].age, 1)]
          /\ UNCHANGED <<pos, tokenLine, slotLine, drawn>>
      BY <1>2, <1>4 DEF Governor!TakeTokens, Governor!SleepFor
    <2>2. drawn \in Seq(Governor!Call) /\ drawn # <<>>
      BY <1>2, <1>4 DEF Governor!MayPass, Paced, WindowsOK
    <2>3. drawn[1].age \in 0..Old
      <3>1. 1 \in 1..Len(drawn)
        BY <2>2
      <3> QED BY <2>2, <3>1, AgesAre
    <2>4. Governor!Larger(Window - drawn[1].age, 1) \in 0..Old
      BY <2>3, SleepTime, Times
    <2>5. CallersOK'
      BY <1>1, <1>2, <2>1, <2>4, Sleeps
    <2> QED BY <1>1, <1>2, <2>1, <2>5, TokensWait
  <1> QED BY <1>3, <1>4

\* What a call that has left the line leaves behind.
LEMMA LeavesSlot ==
  ASSUME CallersOK, NEW c \in Callers, pos[c] = "slot", sleep[c] = 0,
         NEW place \in Places \ {"tokens", "slot"}, pos' = [pos EXCEPT ![c] = place],
         slotLine # <<>>, Head(slotLine) = c, slotLine' = Tail(slotLine),
         UNCHANGED <<size, sleep, tokenLine>>
  PROVE  CallersOK'
  <1>1. /\ slotLine' \in Seq(Callers) /\ Governor!IsInjective(slotLine')
        /\ \A e \in Callers : Governor!Contains(slotLine', e) <=> Governor!Contains(slotLine, e) /\ e # c
    BY LineTail, Types
  <1>2. ~Governor!Contains(tokenLine, c)
    BY Stands
  <1> QED BY <1>1, <1>2, Moves, Types DEF Places

LEMMA TakeSlotStep ==
  ASSUME Paced, NEW c \in Callers, Governor!TakeSlot(c)
  PROVE  Paced'
  <1>1. /\ pos[c] = "slot" /\ slotLine # <<>> /\ Head(slotLine) = c /\ sleep[c] = 0
        /\ UNCHANGED <<service, interval, rpm, size, tokenLine, spent, deferred, drawn>>
    BY DEF Governor!TakeSlot, Governor!Awake, Governor!limits
  <1>2. CallersOK /\ LimitsOK /\ LimitsOK' /\ Governor!StampWindow = sends
    BY <1>1, WindowsAre DEF Paced, LimitsOK
  <1>3. CASE Governor!Refuse(c)
    <2>1. /\ pos' = [pos EXCEPT ![c] = "refused"] /\ slotLine' = Tail(slotLine)
          /\ UNCHANGED <<sleep, stamps, last, sends>>
      BY <1>3 DEF Governor!Refuse, Governor!Goto
    <2>2. CallersOK'
      BY <1>1, <1>2, <2>1, LeavesSlot DEF Places
    <2> QED BY <1>1, <1>2, <2>1, <2>2, StillPaced DEF Paced, WindowsOK
  <1>4. CASE Governor!Send(c)
    <2>1. /\ pos' = [pos EXCEPT ![c] = "sent"] /\ slotLine' = Tail(slotLine)
          /\ stamps' = Append(sends, 0) /\ sends' = Append(sends, 0) /\ last' = 0 /\ sleep' = sleep
      BY <1>2, <1>4 DEF Governor!Send, Governor!Goto
    <2>2. CallersOK'
      BY <1>1, <1>2, <2>1, LeavesSlot DEF Places
    <2> QED BY <1>1, <1>2, <2>1, <2>2, SlotPass
  <1>5. CASE Governor!WaitForSlot(c)
    <2> DEFINE ticks == IF Governor!Full THEN Window - sends[1] ELSE Governor!Pause
    <2>1. /\ stamps' = sends /\ sleep' = [sleep EXCEPT ![c] = Governor!Larger(ticks, 1)]
          /\ UNCHANGED <<pos, slotLine, last, sends>>
      BY <1>2, <1>5 DEF Governor!WaitForSlot, Governor!SleepFor
    <2>2. ticks \in Int /\ ticks <= Old
      <3>1. CASE Governor!Full
        <4>1. Len(sends) >= rpm /\ rpm \in Nat \ {0}
          BY <1>2, <3>1 DEF Governor!Full, LimitsOK
        <4>2. sends \in Seq(0..Old)
          BY DEF Paced, WindowsOK
        <4>3. 1 \in 1..Len(sends)
          BY <4>1, <4>2
        <4>4. sends[1] \in 0..Old
          BY <4>2, <4>3, ElementIs
        <4> QED BY <3>1, <4>4, Times
      <3>2. CASE ~Governor!Full
        BY <1>2, <3>2, Times DEF Governor!Pause, LimitsOK, Paced, WindowsOK
      <3> QED BY <3>1, <3>2
    <2> HIDE DEF ticks
    <2>3. Governor!Larger(ticks, 1) \in 0..Old
      BY <2>2, SleepTime
    <2>4. CallersOK'
      BY <1>1, <1>2, <2>1, <2>3, Sleeps
    <2> QED BY <1>1, <1>2, <2>1, <2>4, SlotWait
  <1> QED BY <1>3, <1>4, <1>5 DEF Governor!TakeSlot

\* A call that has no lock goes back.
LEMMA GoesIdle ==
  ASSUME CallersOK, NEW c \in Callers, pos[c] \in {"sent", "refused"}, pos' = [pos EXCEPT ![c] = "idle"],
         UNCHANGED <<size, sleep, tokenLine, slotLine>>
  PROVE  CallersOK'
  <1>1. sleep[c] = 0 /\ ~Governor!Contains(tokenLine, c) /\ ~Governor!Contains(slotLine, c)
    BY AwakeOutside
  <1> QED BY <1>1, Moves, Types DEF Places

LEMMA FinishStep ==
  ASSUME Paced, NEW c \in Callers, Governor!Finish(c)
  PROVE  Paced'
  <1>1. /\ pos[c] \in {"sent", "refused"} /\ pos' = [pos EXCEPT ![c] = "idle"]
        /\ UNCHANGED <<size, sleep, tokenLine, slotLine>>
        /\ UNCHANGED <<service, interval, rpm, spent, stamps, last, deferred, drawn, sends>>
    BY DEF Governor!Finish, Governor!Goto, Governor!limits, Governor!windows
  <1>2. CallersOK' /\ LimitsOK'
    BY <1>1, GoesIdle DEF Paced, LimitsOK
  <1> QED BY <1>1, <1>2, StillPaced DEF Paced, WindowsOK

LEMMA RejectStep ==
  ASSUME Paced, NEW c \in Callers, NEW ticks \in Cooldowns, Governor!Reject(c, ticks)
  PROVE  Paced'
  <1>1. /\ pos[c] = "sent" /\ pos' = [pos EXCEPT ![c] = "idle"]
        /\ deferred' = Governor!Larger(deferred, ticks)
        /\ UNCHANGED <<size, sleep, tokenLine, slotLine>>
        /\ UNCHANGED <<service, interval, rpm, spent, stamps, last, drawn, sends>>
    BY DEF Governor!Reject, Governor!Goto, Governor!limits
  <1>2. CallersOK' /\ LimitsOK'
    BY <1>1, GoesIdle DEF Paced, LimitsOK
  <1>3. deferred' \in Nat
    BY <1>1, Times DEF Governor!Larger, Paced, WindowsOK
  <1> QED BY <1>1, <1>2, <1>3, StillPaced

LEMMA TightenStep ==
  ASSUME Paced, NEW p \in Profiles[service], Governor!Tighten(p)
  PROVE  Paced'
  <1>1. /\ interval' = Governor!Larger(interval, p.interval) /\ rpm' = Governor!Smaller(rpm, p.rpm)
        /\ UNCHANGED <<pos, size, sleep, tokenLine, slotLine>>
        /\ UNCHANGED <<service, spent, stamps, last, deferred, drawn, sends>>
    BY DEF Governor!Tighten, Governor!windows
  <1>2. service \in Services /\ interval \in 0..Old /\ rpm \in Nat \ {0}
    BY DEF Paced, LimitsOK
  <1>3. p.interval \in 0..Old /\ p.rpm \in Nat \ {0}
    BY <1>2, Limits
  <1>4. LimitsOK'
    BY <1>1, <1>2, <1>3 DEF LimitsOK, Governor!Larger, Governor!Smaller
  <1>5. CallersOK'
    BY <1>1 DEF Paced, CallersOK, Governor!InLine
  <1> QED BY <1>1, <1>4, <1>5, StillPaced DEF Paced, WindowsOK

LEMMA CancelStep ==
  ASSUME Paced, NEW c \in Callers, Governor!Cancel(c)
  PROVE  Paced'
  <1>1. /\ pos' = [pos EXCEPT ![c] = "idle"] /\ sleep' = [sleep EXCEPT ![c] = 0]
        /\ UNCHANGED <<size, service, interval, rpm, spent, stamps, last, deferred, drawn, sends>>
    BY DEF Governor!Cancel, Governor!Goto, Governor!limits, Governor!windows
  <1>2. CallersOK /\ LimitsOK'
    BY <1>1 DEF Paced, LimitsOK
  <1>3. sleep' \in [Callers -> 0..Old] /\ sleep'[c] = 0 /\ \A e \in Callers \ {c} : sleep'[e] = sleep[e]
    <2>1. 0 \in 0..Old
      BY Times
    <2> QED BY <1>1, <1>2, <2>1, Types
  <1>4. ASSUME pos[c] = "tokens", Governor!Leaves(tokenLine, c), UNCHANGED slotLine
        PROVE  CallersOK'
    <2>1. PICK i \in DOMAIN tokenLine : tokenLine[i] = c /\ tokenLine' = Governor!RemoveAt(tokenLine, i)
      BY <1>4 DEF Governor!Leaves
    <2>2. /\ tokenLine' \in Seq(Callers) /\ Governor!IsInjective(tokenLine')
          /\ \A e \in Callers : Governor!Contains(tokenLine', e) <=> Governor!Contains(tokenLine, e) /\ e # c
      BY <1>2, <2>1, LineRemove, Types
    <2>3. ~Governor!Contains(slotLine, c)
      BY <1>2, <1>4, Stands
    <2> QED BY <1>1, <1>2, <1>3, <1>4, <2>2, <2>3, Moves, Types DEF Places
  <1>5. ASSUME pos[c] = "slot", Governor!Leaves(slotLine, c), UNCHANGED tokenLine
        PROVE  CallersOK'
    <2>1. PICK i \in DOMAIN slotLine : slotLine[i] = c /\ slotLine' = Governor!RemoveAt(slotLine, i)
      BY <1>5 DEF Governor!Leaves
    <2>2. /\ slotLine' \in Seq(Callers) /\ Governor!IsInjective(slotLine')
          /\ \A e \in Callers : Governor!Contains(slotLine', e) <=> Governor!Contains(slotLine, e) /\ e # c
      BY <1>2, <2>1, LineRemove, Types
    <2>3. ~Governor!Contains(tokenLine, c)
      BY <1>2, <1>5, Stands
    <2> QED BY <1>1, <1>2, <1>3, <1>5, <2>2, <2>3, Moves, Types DEF Places
  <1>6. CallersOK'
    BY <1>4, <1>5 DEF Governor!Cancel
  <1> QED BY <1>1, <1>2, <1>6, StillPaced DEF Paced, WindowsOK

LEMMA TickStep ==
  ASSUME Paced, Governor!Tick
  PROVE  Paced'
  <1>1. /\ sleep' = [c \in Callers |-> Governor!Larger(sleep[c] - 1, 0)]
        /\ UNCHANGED <<service, interval, rpm, pos, size, tokenLine, slotLine>>
    BY DEF Governor!Tick, Governor!limits
  <1>2. CallersOK /\ LimitsOK'
    BY <1>1 DEF Paced, LimitsOK
  <1>3. CallersOK'
    <2>1. ASSUME NEW c \in Callers
          PROVE  /\ Governor!Larger(sleep[c] - 1, 0) \in 0..Old
                 /\ Governor!Larger(sleep[c] - 1, 0) > 0 => sleep[c] > 0
      <3>1. sleep[c] \in 0..Old
        BY <1>2, Types
      <3> QED BY <3>1, Times DEF Governor!Larger
    <2>2. sleep' \in [Callers -> 0..Old]
      BY <1>1, <2>1
    <2>3. \A c \in Callers : sleep'[c] > 0 => pos'[c] \in {"tokens", "slot"}
      BY <1>1, <1>2, <2>1, Stands
    <2> QED BY <1>1, <1>2, <2>2, <2>3 DEF CallersOK, Governor!InLine
  <1>4. WindowsOK' /\ Governor!TokensRespected' /\ WindowsInv'
    BY TokensTick, StampsTick DEF WindowsOK, WindowsInv
  <1> QED BY <1>2, <1>3, <1>4 DEF Paced

LEMMA PacedStep == Paced /\ [Governor!Next]_Governor!vars => Paced'
  <1> SUFFICES ASSUME Paced, [Governor!Next]_Governor!vars PROVE Paced'
    OBVIOUS
  <1>1. ASSUME NEW c \in Callers, Governor!Step(c) PROVE Paced'
    BY <1>1, TakeTokensStep, TakeSlotStep, FinishStep DEF Governor!Step
  <1>2. CASE Governor!Next
    BY <1>1, <1>2, AskStep, CancelStep, RejectStep, TightenStep, TickStep DEF Governor!Next
  <1>3. CASE UNCHANGED Governor!vars
    <2>1. UNCHANGED <<pos, size, sleep, tokenLine, slotLine>>
          /\ UNCHANGED <<service, interval, rpm, spent, stamps, last, deferred, drawn, sends>>
      BY <1>3 DEF Governor!vars, Governor!limits, Governor!windows
    <2>2. CallersOK' /\ LimitsOK'
      BY <2>1 DEF Paced, CallersOK, LimitsOK, Governor!InLine
    <2> QED BY <2>1, <2>2, StillPaced DEF Paced, WindowsOK
  <1> QED BY <1>2, <1>3

-----------------------------------------------------------------------------
(* What a step sends.                                                      *)

\* A step that sends is one of RateGovernor.acquire, and of its last branch.
LEMMA SendsOnlyBySlot ==
  ASSUME Paced, Governor!Next
  PROVE  \/ Len(sends') <= Len(sends) /\ \A c \in Callers : pos[c] = "slot" => pos'[c] # "sent"
         \/ \E c \in Callers : Governor!Send(c)
  <1>1. pos \in [Callers -> Places] /\ Len(sends) \in Nat
    BY Types DEF Paced, WindowsOK
  <1>2. ASSUME NEW c \in Callers, Governor!Ask(c)
        PROVE  Len(sends') <= Len(sends) /\ \A e \in Callers : pos[e] = "slot" => pos'[e] # "sent"
    BY <1>1, <1>2 DEF Governor!Ask, Governor!Goto, Governor!windows
  <1>3. ASSUME NEW c \in Callers, Governor!TakeTokens(c)
        PROVE  Len(sends') <= Len(sends) /\ \A e \in Callers : pos[e] = "slot" => pos'[e] # "sent"
    BY <1>1, <1>3 DEF Governor!TakeTokens, Governor!Goto
  <1>4. ASSUME NEW c \in Callers, Governor!TakeSlot(c)
        PROVE  \/ Len(sends') <= Len(sends) /\ \A e \in Callers : pos[e] = "slot" => pos'[e] # "sent"
               \/ Governor!Send(c)
    BY <1>1, <1>4 DEF Governor!TakeSlot, Governor!Refuse, Governor!WaitForSlot, Governor!Goto
  <1>5. ASSUME NEW c \in Callers, Governor!Finish(c)
        PROVE  Len(sends') <= Len(sends) /\ \A e \in Callers : pos[e] = "slot" => pos'[e] # "sent"
    BY <1>1, <1>5 DEF Governor!Finish, Governor!Goto, Governor!windows
  <1>6. ASSUME NEW c \in Callers, Governor!Cancel(c)
        PROVE  Len(sends') <= Len(sends) /\ \A e \in Callers : pos[e] = "slot" => pos'[e] # "sent"
    BY <1>1, <1>6 DEF Governor!Cancel, Governor!Goto, Governor!windows
  <1>7. ASSUME NEW c \in Callers, NEW ticks \in Cooldowns, Governor!Reject(c, ticks)
        PROVE  Len(sends') <= Len(sends) /\ \A e \in Callers : pos[e] = "slot" => pos'[e] # "sent"
    BY <1>1, <1>7 DEF Governor!Reject, Governor!Goto
  <1>8. ASSUME NEW p \in Profiles[service], Governor!Tighten(p)
        PROVE  Len(sends') <= Len(sends) /\ \A e \in Callers : pos[e] = "slot" => pos'[e] # "sent"
    BY <1>1, <1>8 DEF Governor!Tighten, Governor!windows
  <1>9. ASSUME Governor!Tick
        PROVE  Len(sends') <= Len(sends) /\ \A e \in Callers : pos[e] = "slot" => pos'[e] # "sent"
    BY <1>9, StampsTick DEF Governor!Tick
  <1> QED BY <1>2, <1>3, <1>4, <1>5, <1>6, <1>7, <1>8, <1>9 DEF Governor!Next, Governor!Step

\* What is sent finds room in the window, the interval over and no cool-down.
LEMMA SentIsPaced ==
  ASSUME Paced, NEW c \in Callers, Governor!Send(c)
  PROVE  /\ Len(sends') <= rpm
         /\ deferred = 0 /\ \A i \in DOMAIN sends : sends[i] >= interval
  <1>1. /\ sends \in Seq(0..Old) /\ last \in 0..Old /\ deferred \in Nat
        /\ interval \in 0..Old /\ rpm \in Nat \ {0}
    BY DEF Paced, WindowsOK, LimitsOK
  <1>2. ~(Len(sends) >= rpm) /\ sends' = Append(sends, 0)
    BY WindowsAre DEF Governor!Send, Governor!Full
  <1>3. Len(sends') <= rpm
    BY <1>1, <1>2
  <1>4. interval <= last /\ deferred = 0
    BY <1>1 DEF Governor!Send, Governor!Pause, Governor!Refused
  <1>5. ASSUME NEW i \in DOMAIN sends PROVE sends[i] >= interval
    <2>1. i \in 1..Len(sends)
      BY <1>1
    <2>2. sends[i] >= last /\ sends[i] \in 0..Old
      BY <1>1, <2>1, ElementIs DEF Paced, WindowsInv
    <2> QED BY <1>1, <1>4, <2>2
  <1> QED BY <1>3, <1>4, <1>5

\* The calls of the checks are paced, for any window, budget, profiles and
\* cool-downs: a model lets through its tokens and requests in a window and no
\* more, and a service is neither called sooner than its interval nor while it
\* cools down (rate_governor.py).
THEOREM CallsArePaced == Governor!Spec => SendingPaced
  <1>1. Governor!Init => Paced
    BY InitPaced
  <1>2. Paced /\ [Governor!Next]_Governor!vars => Paced'
    BY PacedStep
  <1>3. Paced => Governor!TypeOK /\ Governor!TokensRespected
    BY PacedTypes
  <1>4. Paced /\ [Governor!Next]_Governor!vars =>
          [Len(sends') > Len(sends) => Len(sends') <= rpm]_Governor!vars
    <2> SUFFICES ASSUME Paced, Governor!Next, Len(sends') > Len(sends), Len(sends) \in Nat, Len(sends') \in Nat
                 PROVE  Len(sends') <= rpm
      BY PacedStep DEF Paced, WindowsOK
    <2>1. \E c \in Callers : Governor!Send(c)
      BY SendsOnlyBySlot
    <2> QED BY <2>1, SentIsPaced
  <1>5. Paced /\ [Governor!Next]_Governor!vars =>
          [\A c \in Callers : pos[c] = "slot" /\ pos'[c] = "sent" =>
             deferred = 0 /\ \A i \in DOMAIN sends : sends[i] >= interval]_Governor!vars
    <2> SUFFICES ASSUME Paced, Governor!Next, NEW c \in Callers, pos[c] = "slot", pos'[c] = "sent"
                 PROVE  deferred = 0 /\ \A i \in DOMAIN sends : sends[i] >= interval
      OBVIOUS
    <2>1. \E e \in Callers : Governor!Send(e)
      BY SendsOnlyBySlot
    <2> QED BY <2>1, SentIsPaced
  <1> QED BY <1>1, <1>2, <1>3, <1>4, <1>5, PTL
      DEF Governor!Spec, SendingPaced, Governor!RateRespected, Governor!PacedRequests

=============================================================================
