-------------------------- MODULE StoredRecords_proofs --------------------------
(***************************************************************************)
(* Proofs about the stored records.  LibraryArchive: the corpus is the     *)
(* active entries, nothing brings a removed entry back, a submission has   *)
(* no live copy, and stored files follow what the records say of them.     *)
(* RubricVersions: the versions of a format that are used or replaced are  *)
(* not edited, and no two of them are active.  In neither do the requests  *)
(* ever all wait for each other, and uploads keep within the storage they  *)
(* are promised (UploadAttempts_proofs).                                   *)
(***************************************************************************)
EXTENDS StoredRecords, WellFoundedInduction, TLAPS

Holding == {"locked", "settle", "erase", "commit"}
Uploading == {"store", "extract", "finalize"}
Aims == {"active", "needs_decision", "failed"}

\* What a request in each place relies on: it has its lock, and the entry is
\* still as it was found.
Ready(q) ==
  /\ at[q] \in Holding => holder[paper[q]] = q
  /\ at[q] \in {"copy", "insert"} => op[q] = "submit" /\ entry[paper[q]] = "none"
  /\ at[q] \in Uploading =>
       op[q] = "submit" /\ entry[paper[q]] \in {"processing", "removed"}
  /\ at[q] = "reading" => op[q] = "add"
  /\ at[q] \in {"reading", "lock", "locked", "settle"} /\ op[q] \in {"submit", "add"}
       => aim[q] \in Aims
  /\ at[q] \in {"erase", "commit"} => op[q] \in {"submit", "add", "remove", "purge"}
  /\ at[q] \in {"erase", "commit"} /\ op[q] \in {"submit", "add"}
       => entry[paper[q]] = "removed"
  /\ at[q] = "ending" => op[q] = "withdraw" /\ aim[q] # "removed"

\* The entry between its reading under the lock and the commit.
Unchanged(q) ==
  at[q] = "settle" =>
    /\ op[q] \in {"submit", "add", "cleanup", "withdraw"}
    /\ op[q] = "submit" => entry[paper[q]] = "processing"
    /\ op[q] = "add" => entry[paper[q]] = "needs_decision"
    /\ op[q] = "cleanup" => entry[paper[q]] = "active"
    /\ op[q] = "withdraw" => entry[paper[q]] # "active"

SoleSubmission ==
  \A p, q \in Requests :
    op[p] = "submit" /\ op[q] = "submit" /\ at[p] # "idle" /\ at[q] # "idle" => p = q

RequestsInv == \A q \in Requests : Ready(q) /\ Unchanged(q)

IInv == TypeOK /\ SoleSubmission /\ RequestsInv /\ CorpusIsActive

-----------------------------------------------------------------------------

LEMMA TypeInit == Init => TypeOK
<1> SUFFICES ASSUME Init PROVE TypeOK
  OBVIOUS
<1>1. (CHOOSE m \in Papers : TRUE) \in Papers
  BY KindsAssumption
<1>2. paper \in [Requests -> Papers]
  BY <1>1 DEF Init
<1>3. /\ entry \in [Papers -> Statuses]
      /\ ingest \in [Papers -> {"none", "open", "done", "failed"}]
      /\ holder \in [Papers -> Requests \union {None}]
  BY DEF Init, Statuses
<1>4. /\ op \in [Requests -> Operations]
      /\ at \in [Requests -> Places]
      /\ aim \in [Requests -> Statuses]
  BY DEF Init, Operations, Places, Statuses
<1>5. /\ stalled \subseteq Papers /\ purged \subseteq Papers
      /\ corpus \subseteq Papers /\ stored \subseteq Papers
      /\ checking \subseteq Checked /\ crashes \in 0..MaxCrashes
  BY KindsAssumption DEF Init, Papers
<1> QED
  BY <1>2, <1>3, <1>4, <1>5 DEF TypeOK

\* Every step keeps the types.
LEMMA TypeStep == TypeOK /\ [Next]_vars => TypeOK'
<1> SUFFICES ASSUME TypeOK, [Next]_vars PROVE TypeOK'
  OBVIOUS
<1> USE DEF TypeOK, rows, who, Goto, Papers, Statuses, Operations, Places
<1>1. ASSUME NEW q \in Requests, FindCopy(q) \/ Insert(q) \/ Store(q) PROVE TypeOK'
  BY <1>1 DEF FindCopy, Insert, Store
<1>2. ASSUME NEW q \in Requests, StoreFails(q) PROVE TypeOK'
  BY <1>2 DEF StoreFails
<1>3. ASSUME NEW q \in Requests, Extract(q) \/ ExtractFails(q) PROVE TypeOK'
  BY <1>3 DEF Extract, ExtractFails
<1>4. ASSUME NEW q \in Requests, Finalize(q) PROVE TypeOK'
  BY <1>4 DEF Finalize
<1>5. ASSUME NEW q \in Requests, ReadSource(q) \/ Lock(q) PROVE TypeOK'
  BY <1>5 DEF ReadSource, Lock
<1>6. ASSUME NEW q \in Requests, CheckEntry(q) PROVE TypeOK'
  BY <1>6 DEF CheckEntry, Leave, Unlock
<1>7. ASSUME NEW q \in Requests, Settle(q) PROVE TypeOK'
  BY <1>7 DEF Settle, Leave, Unlock
<1>8. ASSUME NEW q \in Requests, CheckRemoval(q) \/ Erase(q) PROVE TypeOK'
  BY <1>8 DEF CheckRemoval, Erase, Leave, Unlock
<1>9. ASSUME NEW q \in Requests, CommitRemoval(q) PROVE TypeOK'
  BY <1>9 DEF CommitRemoval, Leave, Unlock
<1>10. ASSUME NEW q \in Requests, CheckCleanup(q) \/ CommitCleanup(q) PROVE TypeOK'
  BY <1>10 DEF CheckCleanup, CommitCleanup, Leave, Unlock
<1>11. ASSUME NEW q \in Requests, CheckWithdrawal(q) \/ Withdraw(q) PROVE TypeOK'
  BY <1>11 DEF CheckWithdrawal, Withdraw, Unlock
<1>12. ASSUME NEW q \in Requests, CommitWithdrawal(q) PROVE TypeOK'
  BY <1>12 DEF CommitWithdrawal
<1>13. ASSUME NEW q \in Requests, NEW m \in Papers, Admit(q, m) \/ CancelRun(q, m) PROVE TypeOK'
  BY <1>13 DEF Admit, CancelRun
<1>14. ASSUME NEW q \in Requests, NEW m \in Papers,
              AskRemove(q, m) \/ AskPurge(q, m) \/ AskCleanup(q, m) \/ AskAdd(q, m)
       PROVE TypeOK'
  BY <1>14 DEF AskRemove, AskPurge, AskCleanup, AskAdd, Begin
<1>15. ASSUME NEW m \in Papers, CreateRun(m) \/ EndRun(m) \/ Stall(m) PROVE TypeOK'
  BY <1>15 DEF CreateRun, EndRun, Stall
<1>16. CASE Crash
  BY <1>16, KindsAssumption DEF Crash
<1>17. CASE UNCHANGED vars
  BY <1>17 DEF vars
<1> QED
  BY <1>1, <1>2, <1>3, <1>4, <1>5, <1>6, <1>7, <1>8, <1>9, <1>10, <1>11, <1>12, <1>13,
     <1>14, <1>15, <1>16, <1>17 DEF Next, Step, Ask

-----------------------------------------------------------------------------
(* Requests do not disturb each other.                                     *)

\* Two requests do not both hold the lock of a paper.
LEMMA OneHolder ==
  ASSUME RequestsInv, NEW p \in Requests, NEW q \in Requests,
         at[p] \in Holding, at[q] \in Holding, paper[p] = paper[q]
  PROVE  p = q
  BY DEF RequestsInv, Ready

\* The place, operation, paper and aim of a request stay.
Stays(p) ==
  at'[p] = at[p] /\ op'[p] = op[p] /\ paper'[p] = paper[p] /\ aim'[p] = aim[p]

LEMMA Frame ==
  ASSUME NEW p \in Requests, Ready(p), Unchanged(p), Stays(p),
         entry'[paper[p]] = entry[paper[p]],
         at[p] \in Holding => holder'[paper[p]] = p
  PROVE  Ready(p)' /\ Unchanged(p)'
  BY DEF Ready, Unchanged, Stays, Holding, Uploading

\* What a step of q may do to the locks.
Locks(q) ==
  \/ holder' = holder
  \/ at[q] \in Holding /\ Unlock(q)
  \/ holder[paper[q]] = None /\ holder' = [holder EXCEPT ![paper[q]] = q]

LEMMA LocksOfOthers ==
  ASSUME TypeOK, RequestsInv, NEW q \in Requests, Locks(q),
         NEW p \in Requests, p # q, at[p] \in Holding
  PROVE  holder'[paper[p]] = p
<1>1. holder[paper[p]] = p
  BY DEF RequestsInv, Ready
<1>2. paper[p] \in Papers /\ holder \in [Papers -> Requests \union {None}]
  BY DEF TypeOK
<1>3. CASE at[q] \in Holding /\ Unlock(q)
  <2>1. paper[p] # paper[q]
    BY <1>3, OneHolder
  <2> QED
    BY <1>1, <1>2, <1>3, <2>1 DEF Unlock
<1>4. CASE holder[paper[q]] = None /\ holder' = [holder EXCEPT ![paper[q]] = q]
  BY <1>1, <1>2, <1>4, KindsAssumption
<1> QED
  BY <1>1, <1>3, <1>4 DEF Locks

\* A step that writes no entry only has to keep its own promise.
LEMMA Others ==
  ASSUME TypeOK, RequestsInv, NEW q \in Requests, Locks(q), entry' = entry,
         \A p \in Requests \ {q} : Stays(p),
         Ready(q)', Unchanged(q)'
  PROVE  RequestsInv'
<1> SUFFICES ASSUME NEW p \in Requests, p # q PROVE Ready(p)' /\ Unchanged(p)'
  BY DEF RequestsInv
<1>1. Ready(p) /\ Unchanged(p)
  BY DEF RequestsInv
<1>2. at[p] \in Holding => holder'[paper[p]] = p
  BY LocksOfOthers
<1> QED
  BY <1>1, <1>2, Frame

\* A step that writes the entry of its paper has to keep the promises of the
\* requests that are at work on it, too.
LEMMA OthersOfPaper ==
  ASSUME TypeOK, TypeOK', RequestsInv, NEW q \in Requests, Locks(q),
         \A m \in Papers \ {paper[q]} : entry'[m] = entry[m],
         \A p \in Requests \ {q} : Stays(p),
         Ready(q)', Unchanged(q)',
         \A p \in Requests \ {q} : paper[p] = paper[q] => Ready(p)' /\ Unchanged(p)'
  PROVE  RequestsInv'
<1> SUFFICES ASSUME NEW p \in Requests, p # q, paper[p] # paper[q]
             PROVE  Ready(p)' /\ Unchanged(p)'
  BY DEF RequestsInv
<1>1. Ready(p) /\ Unchanged(p)
  BY DEF RequestsInv
<1>2. at[p] \in Holding => holder'[paper[p]] = p
  BY LocksOfOthers
<1>3. entry'[paper[p]] = entry[paper[p]]
  BY DEF TypeOK
<1> QED
  BY <1>1, <1>2, <1>3, Frame

-----------------------------------------------------------------------------
(* Each step keeps what the requests rely on.                              *)

LEMMA StepsWithoutEntry ==
  ASSUME TypeOK, TypeOK', RequestsInv, CorpusIsActive, NEW q \in Requests,
         \/ FindCopy(q) \/ Store(q) \/ Extract(q) \/ ExtractFails(q) \/ Finalize(q)
         \/ ReadSource(q) \/ Lock(q) \/ CheckEntry(q) \/ CheckRemoval(q) \/ Erase(q)
         \/ CheckCleanup(q) \/ CheckWithdrawal(q) \/ Withdraw(q) \/ CommitWithdrawal(q)
  PROVE  RequestsInv'
<1>1. Ready(q) /\ Unchanged(q)
  BY DEF RequestsInv
<1> USE DEF TypeOK, rows, who, Goto, Holding
<1>2. CASE FindCopy(q)
  <2>1. entry' = entry /\ Locks(q)
    BY <1>1, <1>2 DEF FindCopy, Locks
  <2>2. \A p \in Requests \ {q} : Stays(p)
    BY <1>2 DEF FindCopy, Stays
  <2>3. Ready(q)' /\ Unchanged(q)'
    BY <1>1, <1>2 DEF FindCopy, Ready, Unchanged, Uploading
  <2> QED
    BY <2>1, <2>2, <2>3, Others
<1>3. CASE Store(q)
  <2>1. entry' = entry /\ Locks(q)
    BY <1>1, <1>3 DEF Store, Locks
  <2>2. \A p \in Requests \ {q} : Stays(p)
    BY <1>3 DEF Store, Stays
  <2>3. Ready(q)' /\ Unchanged(q)'
    BY <1>1, <1>3 DEF Store, Ready, Unchanged, Uploading
  <2> QED
    BY <2>1, <2>2, <2>3, Others
<1>4. CASE Extract(q)
  <2>1. entry' = entry /\ Locks(q)
    BY <1>1, <1>4 DEF Extract, Locks
  <2>2. \A p \in Requests \ {q} : Stays(p)
    BY <1>4 DEF Extract, Stays
  <2>3. Ready(q)' /\ Unchanged(q)'
    BY <1>1, <1>4 DEF Extract, Ready, Unchanged, Uploading
  <2> QED
    BY <2>1, <2>2, <2>3, Others
<1>5. CASE ExtractFails(q)
  <2>1. entry' = entry /\ Locks(q)
    BY <1>1, <1>5 DEF ExtractFails, Locks
  <2>2. \A p \in Requests \ {q} : Stays(p)
    BY <1>5 DEF ExtractFails, Stays
  <2>3. Ready(q)' /\ Unchanged(q)'
    BY <1>1, <1>5 DEF ExtractFails, Ready, Unchanged, Uploading, Aims
  <2> QED
    BY <2>1, <2>2, <2>3, Others
<1>6. CASE Finalize(q)
  <2>1. entry' = entry /\ Locks(q)
    BY <1>1, <1>6 DEF Finalize, Locks
  <2>2. \A p \in Requests \ {q} : Stays(p)
    BY <1>6 DEF Finalize, Stays
  <2>3. Ready(q)' /\ Unchanged(q)'
    BY <1>1, <1>6 DEF Finalize, Ready, Unchanged, Uploading, Aims
  <2> QED
    BY <2>1, <2>2, <2>3, Others
<1>7. CASE ReadSource(q)
  <2>1. entry' = entry /\ Locks(q)
    BY <1>1, <1>7 DEF ReadSource, Locks
  <2>2. \A p \in Requests \ {q} : Stays(p)
    BY <1>7 DEF ReadSource, Stays
  <2>3. Ready(q)' /\ Unchanged(q)'
    BY <1>1, <1>7 DEF ReadSource, Ready, Unchanged, Uploading, Aims
  <2> QED
    BY <2>1, <2>2, <2>3, Others
<1>8. CASE Lock(q)
  <2>1. entry' = entry /\ Locks(q)
    BY <1>1, <1>8 DEF Lock, Locks
  <2>2. \A p \in Requests \ {q} : Stays(p)
    BY <1>8 DEF Lock, Stays
  <2>3. Ready(q)' /\ Unchanged(q)'
    BY <1>1, <1>8 DEF Lock, Ready, Unchanged, Uploading
  <2> QED
    BY <2>1, <2>2, <2>3, Others
<1>9. CASE CheckEntry(q)
  <2>1. entry' = entry /\ Locks(q)
    BY <1>1, <1>9 DEF CheckEntry, Locks, Leave, Unlock
  <2>2. \A p \in Requests \ {q} : Stays(p)
    BY <1>9 DEF CheckEntry, Stays, Leave, Unlock
  <2>3. Ready(q)' /\ Unchanged(q)'
    BY <1>1, <1>9 DEF CheckEntry, Ready, Unchanged, Uploading, Leave, Unlock, Still, MustDiscard
  <2> QED
    BY <2>1, <2>2, <2>3, Others
<1>10. CASE CheckRemoval(q)
  <2>1. entry' = entry /\ Locks(q)
    BY <1>1, <1>10 DEF CheckRemoval, Locks, Leave, Unlock
  <2>2. \A p \in Requests \ {q} : Stays(p)
    BY <1>10 DEF CheckRemoval, Stays, Leave, Unlock
  <2>3. Ready(q)' /\ Unchanged(q)'
    BY <1>1, <1>10 DEF CheckRemoval, Ready, Unchanged, Uploading, Leave, Unlock
  <2> QED
    BY <2>1, <2>2, <2>3, Others
<1>11. CASE Erase(q)
  <2>1. entry' = entry /\ Locks(q)
    BY <1>1, <1>11 DEF Erase, Locks
  <2>2. \A p \in Requests \ {q} : Stays(p)
    BY <1>11 DEF Erase, Stays
  <2>3. Ready(q)' /\ Unchanged(q)'
    BY <1>1, <1>11 DEF Erase, Ready, Unchanged, Uploading
  <2> QED
    BY <2>1, <2>2, <2>3, Others
<1>12. CASE CheckCleanup(q)
  <2>1. entry' = entry /\ Locks(q)
    BY <1>1, <1>12 DEF CheckCleanup, Locks, Leave, Unlock
  <2>2. \A p \in Requests \ {q} : Stays(p)
    BY <1>12 DEF CheckCleanup, Stays, Leave, Unlock
  <2>3. Ready(q)' /\ Unchanged(q)'
    BY <1>1, <1>12 DEF CheckCleanup, Ready, Unchanged, Uploading, Leave, Unlock
  <2> QED
    BY <2>1, <2>2, <2>3, Others
<1>13. CASE CheckWithdrawal(q)
  <2>1. entry' = entry /\ Locks(q)
    BY <1>1, <1>13 DEF CheckWithdrawal, Locks, Unlock, InLibrary
  <2>2. \A p \in Requests \ {q} : Stays(p)
    BY <1>13 DEF CheckWithdrawal, Stays, Unlock, InLibrary
  <2>3. Ready(q)' /\ Unchanged(q)'
    BY <1>1, <1>13 DEF CheckWithdrawal, Ready, Unchanged, Uploading, Unlock, InLibrary
  <2> QED
    BY <2>1, <2>2, <2>3, Others
<1>14. CASE Withdraw(q)
  <2>1. entry' = entry /\ Locks(q)
    BY <1>1, <1>14 DEF Withdraw, Locks, Unlock, CorpusIsActive
  <2>2. \A p \in Requests \ {q} : Stays(p)
    BY <1>14 DEF Withdraw, Stays, Unlock, CorpusIsActive
  <2>3. Ready(q)' /\ Unchanged(q)'
    BY <1>1, <1>14 DEF Withdraw, Ready, Unchanged, Uploading, Unlock, CorpusIsActive
  <2> QED
    BY <2>1, <2>2, <2>3, Others
<1>15. CASE CommitWithdrawal(q)
  <2>1. entry' = entry /\ Locks(q)
    BY <1>1, <1>15 DEF CommitWithdrawal, Locks
  <2>2. \A p \in Requests \ {q} : Stays(p)
    BY <1>15 DEF CommitWithdrawal, Stays
  <2>3. Ready(q)' /\ Unchanged(q)'
    BY <1>1, <1>15 DEF CommitWithdrawal, Ready, Unchanged, Uploading
  <2> QED
    BY <2>1, <2>2, <2>3, Others
<1> QED
  BY <1>2, <1>3, <1>4, <1>5, <1>6, <1>7, <1>8, <1>9, <1>10, <1>11, <1>12, <1>13, <1>14, <1>15

LEMMA StepsWithEntry ==
  ASSUME TypeOK, TypeOK', RequestsInv, SoleSubmission, NEW q \in Requests,
         \/ Insert(q) \/ StoreFails(q) \/ Settle(q) \/ CommitRemoval(q) \/ CommitCleanup(q)
  PROVE  RequestsInv'
<1>1. Ready(q) /\ Unchanged(q)
  BY DEF RequestsInv
<1>a. \A p \in Requests \ {q} : Stays(p)
  BY DEF Insert, StoreFails, Settle, CommitRemoval, CommitCleanup, Leave, Goto, who, Stays,
         TypeOK
<1>b. \A m \in Papers \ {paper[q]} : entry'[m] = entry[m]
  BY DEF Insert, StoreFails, Settle, CommitRemoval, CommitCleanup, TypeOK
<1>c. Locks(q) /\ paper' = paper /\ op' = op
  BY DEF Insert, StoreFails, Settle, CommitRemoval, CommitCleanup, Leave, who, Locks, Holding
<1>d. Ready(q)' /\ Unchanged(q)'
  BY <1>1 DEF Insert, StoreFails, Settle, CommitRemoval, CommitCleanup, Leave, Goto, who,
              Ready, Unchanged, Holding, Uploading, TypeOK
<1>2. SUFFICES ASSUME NEW p \in Requests \ {q}, paper[p] = paper[q]
               PROVE  Ready(p)' /\ Unchanged(p)'
  BY <1>a, <1>b, <1>c, <1>d, OthersOfPaper
<1>3. Ready(p) /\ Unchanged(p) /\ Stays(p)
  BY <1>a DEF RequestsInv
<1>4. at[p] \in Holding => holder'[paper[p]] = p
  BY <1>c, LocksOfOthers
<1>5. entry'[paper[p]] = entry'[paper[q]] /\ paper[q] \in Papers
  BY <1>2 DEF TypeOK
<1>6. ~ (op[p] = "submit" /\ op[q] = "submit" /\ at[p] # "idle" /\ at[q] # "idle")
  BY DEF SoleSubmission
<1> USE DEF TypeOK
<1>7. CASE Insert(q)
  <2>1. at[q] = "insert" /\ op[q] = "submit" /\ entry[paper[p]] = "none"
    BY <1>1, <1>2, <1>7 DEF Insert, Ready
  <2>2. entry'[paper[p]] = "processing"
    BY <1>2, <1>5, <1>7 DEF Insert
  <2> QED
    BY <1>3, <1>4, <1>6, <2>1, <2>2
       DEF Ready, Unchanged, Stays, Holding, Uploading
<1>8. CASE StoreFails(q)
  <2>1. /\ at[q] = "store" /\ op[q] = "submit"
        /\ entry[paper[p]] \in {"processing", "removed"}
        /\ at[p] \notin {"erase", "commit"}
    BY <1>1, <1>2, <1>8 DEF StoreFails, Ready, Uploading, RowTaken
  <2>2. entry'[paper[p]] = "none"
    BY <1>2, <1>5, <1>8 DEF StoreFails
  <2> QED
    BY <1>3, <1>4, <1>6, <2>1, <2>2
       DEF Ready, Unchanged, Stays, Holding, Uploading
<1>9. CASE Settle(q) \/ CommitRemoval(q) \/ CommitCleanup(q)
  <2>1. at[q] \in Holding /\ at[q] # "idle"
    BY <1>9 DEF Settle, CommitRemoval, CommitCleanup, Holding
  <2>2. at[p] \notin Holding
    BY <1>2, <2>1, OneHolder
  <2>3. CASE Settle(q)
    <3>1. \/ op[q] = "submit" /\ entry[paper[p]] = "processing"
          \/ op[q] = "add" /\ entry[paper[p]] = "needs_decision"
      BY <1>1, <1>2, <2>3 DEF Settle, Unchanged
    <3> QED
      BY <1>3, <1>6, <2>1, <2>2, <3>1 DEF Ready, Unchanged, Stays, Holding, Uploading
  <2>4. CASE CommitRemoval(q)
    <3>1. \/ entry'[paper[p]] = entry[paper[p]]
          \/ entry'[paper[p]] = "removed" /\ entry[paper[p]] # "none"
      BY <1>2, <1>5, <2>4 DEF CommitRemoval
    <3> QED
      BY <1>3, <2>2, <3>1 DEF Ready, Unchanged, Stays, Holding, Uploading
  <2>5. CASE CommitCleanup(q)
    <3>1. entry[paper[p]] = "active"
      BY <1>1, <1>2, <2>5 DEF CommitCleanup, Unchanged
    <3> QED
      BY <1>3, <2>2, <3>1 DEF Ready, Unchanged, Stays, Holding, Uploading
  <2> QED
    BY <1>9, <2>3, <2>4, <2>5
<1> QED
  BY <1>7, <1>8, <1>9

\* Asking moves an idle request only.
LEMMA Asking ==
  ASSUME TypeOK, TypeOK', RequestsInv, NEW q \in Requests, NEW m \in Papers, Ask(q, m)
  PROVE  RequestsInv'
<1> USE DEF TypeOK, rows, who, Goto, Begin, Ask, Admit, AskRemove, AskPurge, AskCleanup,
            AskAdd, CancelRun
<1>1. entry' = entry /\ Locks(q)
  BY DEF Locks
<1>2. \A p \in Requests \ {q} : Stays(p)
  BY DEF Stays
<1>3. Ready(q)' /\ Unchanged(q)'
  BY DEF Ready, Unchanged, Holding, Uploading, Aims
<1> QED
  BY <1>1, <1>2, <1>3, Others

LEMMA RequestsStep ==
  TypeOK /\ TypeOK' /\ SoleSubmission /\ RequestsInv /\ CorpusIsActive /\ [Next]_vars
    => RequestsInv'
<1> SUFFICES ASSUME TypeOK, TypeOK', SoleSubmission, RequestsInv, CorpusIsActive, [Next]_vars
             PROVE  RequestsInv'
  OBVIOUS
<1>1. ASSUME NEW q \in Requests, Step(q) PROVE RequestsInv'
  BY <1>1, StepsWithoutEntry, StepsWithEntry DEF Step
<1>2. ASSUME NEW q \in Requests, NEW m \in Papers, Ask(q, m) PROVE RequestsInv'
  BY <1>2, Asking
<1>3. ASSUME NEW m \in Papers, CreateRun(m) \/ EndRun(m) \/ Stall(m) PROVE RequestsInv'
  <2> SUFFICES ASSUME NEW p \in Requests PROVE Ready(p)' /\ Unchanged(p)'
    BY DEF RequestsInv
  <2> QED
    BY <1>3 DEF CreateRun, EndRun, Stall, rows, who, RequestsInv, Ready, Unchanged
<1>4. CASE Crash
  BY <1>4 DEF Crash, RequestsInv, Ready, Unchanged, Holding, Uploading
<1>5. CASE UNCHANGED vars
  BY <1>5 DEF vars, rows, who, RequestsInv, Ready, Unchanged
<1> QED
  BY <1>1, <1>2, <1>3, <1>4, <1>5 DEF Next

-----------------------------------------------------------------------------
(* The inductive invariant.                                                *)

LEMMA SoleStep == TypeOK /\ SoleSubmission /\ [Next]_vars => SoleSubmission'
<1> SUFFICES ASSUME TypeOK, SoleSubmission, [Next]_vars,
                    NEW p \in Requests, NEW q \in Requests,
                    op'[p] = "submit", op'[q] = "submit", at'[p] # "idle", at'[q] # "idle"
             PROVE  p = q
  BY DEF SoleSubmission
<1>1. ASSUME NEW r \in Requests, Step(r)
      PROVE  \A z \in Requests : op'[z] = op[z] /\ (at'[z] # "idle" => at[z] # "idle")
  BY <1>1 DEF Step, FindCopy, Insert, Store, StoreFails, Extract, ExtractFails, Finalize,
              ReadSource, Lock, CheckEntry, Settle, CheckRemoval, Erase, CommitRemoval,
              CheckCleanup, CommitCleanup, CheckWithdrawal, Withdraw, CommitWithdrawal,
              Leave, Goto, who, TypeOK
<1>2. ASSUME NEW r \in Requests, NEW m \in Papers, Ask(r, m)
      PROVE  \/ \A z \in Requests : z # r /\ op[z] = "submit" => at[z] = "idle"
             \/ op'[r] # "submit"
  BY <1>2 DEF Ask, Admit, AskRemove, AskPurge, AskCleanup, AskAdd, CancelRun, Begin, TypeOK
<1>3. ASSUME NEW r \in Requests, NEW m \in Papers, Ask(r, m)
      PROVE  \A z \in Requests : z # r => op'[z] = op[z] /\ at'[z] = at[z]
  BY <1>3 DEF Ask, Admit, AskRemove, AskPurge, AskCleanup, AskAdd, CancelRun, Begin, Goto,
              TypeOK
<1>4. ASSUME NEW m \in Papers, CreateRun(m) \/ EndRun(m) \/ Stall(m)
      PROVE  op' = op /\ at' = at
  BY <1>4 DEF CreateRun, EndRun, Stall, who
<1>5. CASE Crash
  BY <1>5 DEF Crash
<1>6. CASE UNCHANGED vars
  BY <1>6 DEF vars, who, SoleSubmission
<1> QED
  BY <1>1, <1>2, <1>3, <1>4, <1>5, <1>6 DEF Next, SoleSubmission

\* Only these steps write an entry or comparison rows.
LEMMA CorpusStep ==
  TypeOK /\ TypeOK' /\ RequestsInv /\ CorpusIsActive /\ [Next]_vars => CorpusIsActive'
<1> SUFFICES ASSUME TypeOK, TypeOK', RequestsInv, CorpusIsActive, [Next]_vars
             PROVE  CorpusIsActive'
  OBVIOUS
<1>1. ASSUME NEW q \in Requests, Step(q) PROVE CorpusIsActive'
  <2>1. Ready(q) /\ Unchanged(q) /\ paper[q] \in Papers
    BY DEF RequestsInv, TypeOK
  <2>2. CASE Insert(q) \/ StoreFails(q)
    <3>1. entry[paper[q]] # "active" /\ entry'[paper[q]] # "active"
      BY <2>1, <2>2 DEF Insert, StoreFails, Ready, Uploading, TypeOK
    <3> QED
      BY <2>2, <3>1 DEF Insert, StoreFails, CorpusIsActive, TypeOK
  <2>3. CASE Settle(q)
    <3>1. entry[paper[q]] # "active"
      BY <2>1, <2>3 DEF Settle, Unchanged
    <3> QED
      BY <2>1, <2>3, <3>1 DEF Settle, CorpusIsActive, TypeOK
  <2>4. CASE CommitRemoval(q)
    <3>1. entry'[paper[q]] # "active"
      BY <2>1, <2>4 DEF CommitRemoval, Ready, TypeOK
    <3> QED
      BY <2>1, <2>4, <3>1 DEF CommitRemoval, CorpusIsActive, TypeOK
  <2>5. CASE CommitCleanup(q)
    BY <2>1, <2>5 DEF CommitCleanup, CorpusIsActive, TypeOK
  <2>6. CASE CommitWithdrawal(q)
    BY <2>1, <2>6 DEF CommitWithdrawal, Ready, CorpusIsActive
  <2>7. CASE UNCHANGED <<entry, corpus>>
    BY <2>7 DEF CorpusIsActive
  <2> QED
    BY <1>1, <2>2, <2>3, <2>4, <2>5, <2>6, <2>7
       DEF Step, FindCopy, Store, Extract, ExtractFails, Finalize, ReadSource, Lock,
           CheckEntry, CheckRemoval, Erase, CheckCleanup, CheckWithdrawal, Withdraw, rows
<1>2. ASSUME ~ \E q \in Requests : Step(q) PROVE UNCHANGED <<entry, corpus>>
  BY <1>2 DEF Next, Ask, Admit, AskRemove, AskPurge, AskCleanup, AskAdd, CancelRun, Begin,
              CreateRun, EndRun, Stall, Crash, rows, vars
<1> QED
  BY <1>1, <1>2 DEF CorpusIsActive

\* The inductive invariant: requests keep their promises to each other.
THEOREM Inductive == Spec => []IInv
<1>1. Init => IInv
  <2> SUFFICES ASSUME Init PROVE IInv
    OBVIOUS
  <2>1. SoleSubmission /\ RequestsInv
    BY DEF Init, SoleSubmission, RequestsInv, Ready, Unchanged, Holding, Uploading
  <2>2. CorpusIsActive
    BY DEF Init, CorpusIsActive
  <2> QED
    BY <2>1, <2>2, TypeInit DEF IInv
<1>2. IInv /\ [Next]_vars => IInv'
  BY TypeStep, SoleStep, RequestsStep, CorpusStep DEF IInv
<1> QED
  BY <1>1, <1>2, PTL DEF Spec

\* The comparison rows of any library are those of its active entries.
THEOREM CorpusTheorem == Spec => []CorpusIsActive
<1>1. IInv => CorpusIsActive
  BY DEF IInv
<1> QED
  BY <1>1, Inductive, PTL

\* No step brings an entry back that has left the Library.
LEMMA RemovedStep ==
  IInv /\ [Next]_vars =>
    [\A m \in Papers : entry[m] = "removed" => entry'[m] \in {"removed", "none"}]_vars
<1> SUFFICES ASSUME IInv, [Next]_vars, NEW m \in Papers, entry[m] = "removed"
             PROVE  entry'[m] \in {"removed", "none"}
  OBVIOUS
<1>1. ASSUME NEW q \in Requests, Step(q) PROVE entry'[m] \in {"removed", "none"}
  <2>1. Ready(q) /\ Unchanged(q) /\ paper[q] \in Papers /\ entry \in [Papers -> Statuses]
    BY DEF IInv, RequestsInv, TypeOK
  <2>2. CASE Insert(q)
    BY <2>1, <2>2 DEF Insert, Ready
  <2>3. CASE StoreFails(q)
    BY <2>1, <2>3 DEF StoreFails
  <2>4. CASE Settle(q)
    BY <2>1, <2>4 DEF Settle, Unchanged
  <2>5. CASE CommitRemoval(q) \/ CommitCleanup(q)
    BY <2>1, <2>5 DEF CommitRemoval, CommitCleanup
  <2>6. CASE entry' = entry
    BY <2>6
  <2> QED
    BY <1>1, <2>2, <2>3, <2>4, <2>5, <2>6
       DEF Step, FindCopy, Store, Extract, ExtractFails, Finalize, ReadSource, Lock,
           CheckEntry, CheckRemoval, Erase, CheckCleanup, CheckWithdrawal, Withdraw,
           CommitWithdrawal, rows
<1>2. ASSUME ~ \E q \in Requests : Step(q) PROVE entry' = entry
  BY <1>2 DEF Next, Ask, Admit, AskRemove, AskPurge, AskCleanup, AskAdd, CancelRun, Begin,
              CreateRun, EndRun, Stall, Crash, rows, vars
<1> QED
  BY <1>1, <1>2

\* A removal or purge is final, for any requests in any order.
THEOREM RemovedTheorem == Spec => RemovedStaysOut
BY Inductive, RemovedStep, PTL DEF Spec, RemovedStaysOut

-----------------------------------------------------------------------------
(* Copies.                                                                 *)

StalledIsProcessing == \A m \in stalled : entry[m] = "processing"

\* Since it looked for copies, no other file of the same content came up.
Alone(q) ==
  op[q] = "submit" /\ at[q] \notin {"idle", "copy"} =>
    \A n \in Papers \ {paper[q]} : Content(n) = Content(paper[q]) => ~ Live(n)

CopyInv == StalledIsProcessing /\ (\A q \in Requests : Alone(q)) /\ OneCopy

\* The request brings its own submission up.
Raises(q, m) ==
  m = paper[q] /\ op[q] = "submit" /\ at[q] \in {"insert", "settle"}

\* No other step makes an entry one that copies are refused for.
LEMMA LiveStep ==
  ASSUME IInv, StalledIsProcessing, [Next]_vars, NEW m \in Papers, Live(m)'
  PROVE  Live(m) \/ \E q \in Requests : Raises(q, m)
<1> USE DEF Live
<1>0. TypeOK /\ RequestsInv
  BY DEF IInv
<1>1. ASSUME NEW q \in Requests, Step(q) PROVE Live(m) \/ Raises(q, m)
  <2>1. Ready(q) /\ Unchanged(q) /\ paper[q] \in Papers /\ entry \in [Papers -> Statuses]
    BY <1>0 DEF RequestsInv, TypeOK
  <2>2. CASE Insert(q)
    BY <2>1, <2>2 DEF Insert, Ready, Raises
  <2>3. CASE StoreFails(q)
    BY <2>1, <2>3 DEF StoreFails
  <2>4. CASE Settle(q)
    BY <2>1, <2>4 DEF Settle, Unchanged, Raises, StalledIsProcessing
  <2>5. CASE CommitRemoval(q)
    BY <2>1, <2>5 DEF CommitRemoval, Ready
  <2>6. CASE CommitCleanup(q)
    BY <2>1, <2>6 DEF CommitCleanup
  <2>7. CASE entry' = entry /\ stalled' = stalled
    BY <2>7
  <2> QED
    BY <1>1, <2>2, <2>3, <2>4, <2>5, <2>6, <2>7
       DEF Step, FindCopy, Store, Extract, ExtractFails, Finalize, ReadSource, Lock,
           CheckEntry, CheckRemoval, Erase, CheckCleanup, CheckWithdrawal, Withdraw,
           CommitWithdrawal, rows
<1>2. ASSUME NEW n \in Papers, Stall(n) PROVE Live(m)
  BY <1>2 DEF Stall, rows
<1>3. ASSUME ~ \E q \in Requests : Step(q), ~ \E n \in Papers : Stall(n)
      PROVE  entry' = entry /\ stalled' = stalled
  BY <1>3 DEF Next, Ask, Admit, AskRemove, AskPurge, AskCleanup, AskAdd, CancelRun, Begin,
              CreateRun, EndRun, Crash, rows, vars
<1> QED
  BY <1>1, <1>2, <1>3

LEMMA StalledStep == IInv /\ StalledIsProcessing /\ [Next]_vars => StalledIsProcessing'
<1> SUFFICES ASSUME IInv, StalledIsProcessing, [Next]_vars PROVE StalledIsProcessing'
  OBVIOUS
<1>0. TypeOK /\ RequestsInv
  BY DEF IInv
<1>1. ASSUME NEW q \in Requests, Step(q) PROVE StalledIsProcessing'
  <2>1. /\ Ready(q) /\ Unchanged(q) /\ paper[q] \in Papers
        /\ entry \in [Papers -> Statuses] /\ stalled \subseteq Papers
    BY <1>0 DEF RequestsInv, TypeOK
  <2>2. CASE Insert(q) \/ StoreFails(q) \/ Settle(q) \/ CommitRemoval(q) \/ CommitCleanup(q)
    BY <2>1, <2>2 DEF Insert, StoreFails, Settle, CommitRemoval, CommitCleanup, Ready,
                      Unchanged, StalledIsProcessing
  <2>3. CASE entry' = entry /\ stalled' = stalled
    BY <2>3 DEF StalledIsProcessing
  <2> QED
    BY <1>1, <2>2, <2>3
       DEF Step, FindCopy, Store, Extract, ExtractFails, Finalize, ReadSource, Lock,
           CheckEntry, CheckRemoval, Erase, CheckCleanup, CheckWithdrawal, Withdraw,
           CommitWithdrawal, rows
<1>2. ASSUME NEW n \in Papers, Stall(n) PROVE StalledIsProcessing'
  BY <1>2 DEF Stall, rows, StalledIsProcessing
<1>3. ASSUME ~ \E q \in Requests : Step(q), ~ \E n \in Papers : Stall(n)
      PROVE  entry' = entry /\ stalled' = stalled
  BY <1>3 DEF Next, Ask, Admit, AskRemove, AskPurge, AskCleanup, AskAdd, CancelRun, Begin,
              CreateRun, EndRun, Crash, rows, vars
<1> QED
  BY <1>1, <1>2, <1>3 DEF StalledIsProcessing

\* A submission that is past its look for copies was so before, or looked now.
LEMMA SubmissionStep ==
  ASSUME IInv, [Next]_vars, NEW q \in Requests,
         op'[q] = "submit", at'[q] \notin {"idle", "copy"}
  PROVE  /\ paper'[q] = paper[q] /\ op[q] = "submit" /\ at[q] # "idle"
         /\ at[q] = "copy" => FindCopy(q)
<1>0. TypeOK
  BY DEF IInv
<1>1. ASSUME NEW r \in Requests, Step(r)
      PROVE  /\ op' = op /\ paper' = paper
             /\ at[q] = "idle" => at'[q] = "idle"
             /\ at[q] = "copy" /\ ~ FindCopy(q) => at'[q] = "copy"
  <2>1. /\ op' = op /\ paper' = paper /\ at[r] # "idle"
        /\ at[r] # "copy" \/ FindCopy(r)
    BY <1>1 DEF Step, FindCopy, Insert, Store, StoreFails, Extract, ExtractFails, Finalize,
              ReadSource, Lock, CheckEntry, Settle, CheckRemoval, Erase, CommitRemoval,
              CheckCleanup, CommitCleanup, CheckWithdrawal, Withdraw, CommitWithdrawal, who
  <2>2. r # q => at'[q] = at[q]
    BY <1>0, <1>1 DEF Step, FindCopy, Insert, Store, StoreFails, Extract, ExtractFails,
              Finalize, ReadSource, Lock, CheckEntry, Settle, CheckRemoval, Erase,
              CommitRemoval, CheckCleanup, CommitCleanup, CheckWithdrawal, Withdraw,
              CommitWithdrawal, Leave, Goto, TypeOK
  <2> QED
    BY <2>1, <2>2
<1>2. ASSUME NEW r \in Requests, NEW m \in Papers, Ask(r, m)
      PROVE  q # r /\ op'[q] = op[q] /\ paper'[q] = paper[q] /\ at'[q] = at[q]
  <2>1. op'[r] # "submit" \/ at'[r] = "copy"
    BY <1>0, <1>2 DEF Ask, Admit, AskRemove, AskPurge, AskCleanup, AskAdd, CancelRun, Begin,
              Goto, TypeOK
  <2> QED
    BY <1>0, <1>2, <2>1 DEF Ask, Admit, AskRemove, AskPurge, AskCleanup, AskAdd, CancelRun,
              Begin, Goto, TypeOK
<1>3. ASSUME NEW m \in Papers, CreateRun(m) \/ EndRun(m) \/ Stall(m)
      PROVE  op' = op /\ at' = at /\ paper' = paper
  BY <1>3 DEF CreateRun, EndRun, Stall, who
<1>4. CASE Crash
  BY <1>4 DEF Crash
<1>5. CASE UNCHANGED vars
  BY <1>5 DEF vars, who
<1> QED
  BY <1>1, <1>2, <1>3, <1>4, <1>5 DEF Next

LEMMA CopyStep == IInv /\ CopyInv /\ [Next]_vars => CopyInv'
<1> SUFFICES ASSUME IInv, CopyInv, [Next]_vars PROVE CopyInv'
  OBVIOUS
<1>1. StalledIsProcessing /\ (\A q \in Requests : Alone(q)) /\ OneCopy
  BY DEF CopyInv
<1>2. StalledIsProcessing'
  BY <1>1, StalledStep
<1>3. \A m \in Papers : Live(m)' => Live(m) \/ \E q \in Requests : Raises(q, m)
  BY <1>1, LiveStep
<1>4. ASSUME NEW q \in Requests PROVE Alone(q)'
  <2> SUFFICES ASSUME op'[q] = "submit", at'[q] \notin {"idle", "copy"},
                      NEW n \in Papers, n # paper'[q], Content(n) = Content(paper'[q]),
                      Live(n)'
               PROVE  FALSE
    BY DEF Alone
  <2>1. /\ paper'[q] = paper[q] /\ op[q] = "submit" /\ at[q] # "idle"
        /\ at[q] = "copy" => FindCopy(q)
    BY SubmissionStep
  <2>2. ~ \E r \in Requests : Raises(r, n)
    BY <2>1 DEF IInv, SoleSubmission, Raises
  <2>3. Live(n)
    BY <1>3, <2>2
  <2>4. CASE at[q] = "copy"
    BY <2>1, <2>3, <2>4 DEF FindCopy, Goto, IInv, TypeOK
  <2>5. CASE at[q] # "copy"
    BY <1>1, <2>1, <2>3, <2>5 DEF Alone
  <2> QED
    BY <2>4, <2>5
<1>5. OneCopy'
  <2> SUFFICES ASSUME NEW m \in Submissions, NEW n \in Papers, m # n,
                      Content(m) = Content(n), Live(m)', Live(n)'
               PROVE  FALSE
    BY DEF OneCopy
  <2>0. m \in Papers
    BY DEF Papers
  <2>1. CASE Live(m) /\ Live(n)
    BY <1>1, <2>1 DEF OneCopy
  <2>2. ASSUME NEW q \in Requests, Raises(q, m) PROVE FALSE
    <3>1. ~ Live(n)
      BY <1>1, <2>2 DEF Alone, Raises
    <3>2. PICK r \in Requests : Raises(r, n)
      BY <1>3, <3>1
    <3> QED
      BY <2>2, <3>2 DEF IInv, SoleSubmission, Raises
  <2>3. ASSUME NEW q \in Requests, Raises(q, n) PROVE FALSE
    <3>1. ~ Live(m)
      BY <1>1, <2>0, <2>3 DEF Alone, Raises
    <3> QED
      BY <1>3, <2>0, <2>2, <3>1
  <2> QED
    BY <1>3, <2>0, <2>1, <2>2, <2>3
<1> QED
  BY <1>2, <1>4, <1>5 DEF CopyInv

\* As long as one submission is prepared at a time, no submission is live twice,
\* whatever is removed, stalled or interrupted meanwhile.
THEOREM OneCopyTheorem == Spec => []OneCopy
<1>1. Init => CopyInv
  <2> SUFFICES ASSUME Init PROVE CopyInv
    OBVIOUS
  <2>1. \A m \in Submissions : ~ Live(m)
    BY KindsAssumption DEF Init, Live, Papers
  <2> QED
    BY <2>1 DEF Init, CopyInv, StalledIsProcessing, Alone, OneCopy
<1>2. CopyInv => OneCopy
  BY DEF CopyInv
<1> QED
  BY <1>1, <1>2, CopyStep, Inductive, PTL DEF Spec

-----------------------------------------------------------------------------
(* Stored files.                                                           *)

\* Whoever erases has looked, and the row is locked until it commits.
Erasing(q) ==
  /\ op[q] \in {"submit", "add"} /\ at[q] # "idle" => paper[q] \in Submissions
  /\ at[q] \in {"erase", "commit"} =>
       /\ entry[paper[q]] # "none"
       /\ op[q] = "purge" => paper[q] \notin checking
  /\ at[q] = "erase" /\ paper[q] \in Checked => op[q] = "purge"

\* A late upload that has the file of the paper still to discard.
Discards(q, m) ==
  /\ paper[q] = m /\ op[q] = "submit"
  /\ at[q] \in {"extract", "finalize", "lock", "locked", "erase"}

Commits(q, m) == paper[q] = m /\ at[q] = "commit"

\* What a file that is there, or is not, says of the requests at work.
Source(m) ==
  /\ m \notin stored /\ entry[m] \notin {"none", "removed"}
       => \E q \in Requests : Commits(q, m) \/ (paper[q] = m /\ at[q] = "store")
  /\ m \in Checked /\ m \notin stored /\ m \notin purged
       => \E q \in Requests : Commits(q, m) /\ op[q] = "purge"
  /\ m \in stored
     /\ (m \in purged \/ \E q \in Requests : Commits(q, m)
                                             /\ (op[q] = "purge" \/ m \in Submissions))
       => \E q \in Requests : Discards(q, m)

FilesInv ==
  /\ \A q \in Requests : Erasing(q)
  /\ \A m \in Checked : entry[m] \in {"active", "removed"}
  /\ \A m \in purged : entry[m] = "removed" /\ m \notin checking
  /\ crashes = 0 => (\A m \in Papers : Source(m)) /\ checking \subseteq stored

Acts(q) == \A p \in Requests \ {q} : Stays(p)

\* A step of a request leaves the others where they are.
LEMMA StepFrame ==
  ASSUME TypeOK, NEW q \in Requests, Step(q)
  PROVE  Acts(q) /\ op' = op /\ paper' = paper /\ crashes' = crashes
<1>1. op' = op /\ paper' = paper /\ crashes' = crashes
  BY DEF Step, FindCopy, Insert, Store, StoreFails, Extract, ExtractFails, Finalize,
         ReadSource, Lock, CheckEntry, Settle, CheckRemoval, Erase, CommitRemoval,
         CheckCleanup, CommitCleanup, CheckWithdrawal, Withdraw, CommitWithdrawal, who
<1>2. \A p \in Requests \ {q} : at'[p] = at[p]
  BY DEF Step, FindCopy, Insert, Store, StoreFails, Extract, ExtractFails, Finalize,
         ReadSource, Lock, CheckEntry, Settle, CheckRemoval, Erase, CommitRemoval,
         CheckCleanup, CommitCleanup, CheckWithdrawal, Withdraw, CommitWithdrawal, Leave,
         Goto, TypeOK
<1>3. \A p \in Requests \ {q} : aim'[p] = aim[p]
  BY DEF Step, FindCopy, Insert, Store, StoreFails, Extract, ExtractFails, Finalize,
         ReadSource, Lock, CheckEntry, Settle, CheckRemoval, Erase, CommitRemoval,
         CheckCleanup, CommitCleanup, CheckWithdrawal, Withdraw, CommitWithdrawal, who,
         TypeOK
<1> QED
  BY <1>1, <1>2, <1>3 DEF Acts, Stays

LEMMA AskFrame ==
  ASSUME TypeOK, NEW q \in Requests, NEW m \in Papers, Ask(q, m)
  PROVE  /\ Acts(q) /\ at[q] = "idle" /\ at'[q] \in {"copy", "reading", "lock"}
         /\ op'[q] \in {"submit", "add"} => paper'[q] = m
         /\ UNCHANGED <<entry, purged, stored, checking, crashes>>
<1> USE DEF TypeOK, rows, who, Goto, Begin, Ask, Admit, AskRemove, AskPurge, AskCleanup,
            AskAdd, CancelRun
<1>1. Acts(q)
  BY DEF Acts, Stays
<1>2. at[q] = "idle" /\ at'[q] \in {"copy", "reading", "lock"}
  OBVIOUS
<1>3. paper'[q] = m
  OBVIOUS
<1>4. UNCHANGED <<entry, purged, stored, checking, crashes>>
  OBVIOUS
<1> QED
  BY <1>1, <1>2, <1>3, <1>4

\* These steps write neither entries, files nor what a purge records.
FilesStand == entry' = entry /\ purged' = purged /\ stored' = stored

LEMMA QuietSteps ==
  ASSUME NEW q \in Requests,
         \/ FindCopy(q) \/ ExtractFails(q) \/ Finalize(q) \/ ReadSource(q) \/ Lock(q)
         \/ CheckEntry(q) \/ CheckRemoval(q) \/ CheckCleanup(q) \/ CheckWithdrawal(q)
         \/ Withdraw(q) \/ CommitWithdrawal(q)
  PROVE  FilesStand /\ checking' \subseteq checking
BY DEF FindCopy, ExtractFails, Finalize, ReadSource, Lock, CheckEntry, CheckRemoval,
       CheckCleanup, CheckWithdrawal, Withdraw, CommitWithdrawal, rows, FilesStand

\* Where a request that is going to erase came from.
LEMMA ToErase ==
  ASSUME IInv, FilesInv, NEW q \in Requests, Step(q), at'[q] \in {"erase", "commit"}
  PROVE  /\ entry'[paper[q]] # "none"
         /\ op[q] = "purge" => paper[q] \notin checking
         /\ at'[q] = "erase" /\ paper[q] \in Checked => op[q] = "purge"
<1>1. Ready(q) /\ Erasing(q) /\ paper[q] \in Papers /\ at \in [Requests -> Places]
  BY DEF IInv, RequestsInv, TypeOK, FilesInv
<1>2. CheckEntry(q) \/ CheckRemoval(q) \/ Erase(q)
  BY <1>1 DEF Step, FindCopy, Insert, Store, StoreFails, Extract, ExtractFails, Finalize,
         ReadSource, Lock, Settle, CommitRemoval,
         CheckCleanup, CommitCleanup, CheckWithdrawal, Withdraw, CommitWithdrawal, Leave,
         Goto
<1>3. CASE CheckEntry(q)
  <2>1. entry' = entry /\ entry[paper[q]] = "removed" /\ op[q] \in {"submit", "add"}
        /\ at[q] # "idle"
    BY <1>1, <1>3 DEF CheckEntry, MustDiscard, Leave, Goto, rows
  <2> QED
    BY <1>1, <2>1, KindsAssumption DEF Erasing
<1>4. CASE CheckRemoval(q)
  BY <1>1, <1>4, KindsAssumption
     DEF CheckRemoval, MayRemove, MayPurge, Known, Leave, Goto, rows, FilesInv
<1>5. CASE Erase(q)
  BY <1>1, <1>5 DEF Erase, Erasing, Goto, rows
<1> QED
  BY <1>2, <1>3, <1>4, <1>5

LEMMA EntryStep ==
  ASSUME IInv, FilesInv, NEW q \in Requests, Step(q)
  PROVE  /\ \A m \in Papers \ {paper[q]} :
               /\ entry'[m] = entry[m]
               /\ m \in purged' <=> m \in purged
               /\ m \in stored' <=> m \in stored
         /\ checking' \subseteq checking
<1>1. paper[q] \in Papers /\ entry \in [Papers -> Statuses]
  BY DEF IInv, TypeOK
<1>2. CASE Insert(q) \/ Store(q) \/ StoreFails(q)
  BY <1>1, <1>2 DEF Insert, Store, StoreFails, rows
<1>3. CASE Extract(q) \/ Settle(q) \/ Erase(q) \/ CommitRemoval(q) \/ CommitCleanup(q)
  BY <1>1, <1>3 DEF Extract, Settle, Erase, CommitRemoval, CommitCleanup, rows
<1> QED
  BY <1>2, <1>3, QuietSteps DEF Step, FilesStand

\* What a step writes to the entry of its paper.
LEMMA WrittenEntry ==
  ASSUME IInv, FilesInv, NEW q \in Requests, Step(q)
  PROVE  \/ entry'[paper[q]] = entry[paper[q]]
            /\ (purged' = purged \/ (CommitRemoval(q) /\ entry[paper[q]] = "removed"))
         \/ /\ paper[q] \in Submissions /\ entry[paper[q]] # "removed"
            /\ entry'[paper[q]] # "none" /\ purged' = purged
         \/ StoreFails(q) /\ paper[q] \in Submissions
         \/ /\ entry'[paper[q]] = "removed"
            /\ CommitRemoval(q) \/ (CommitCleanup(q) /\ purged' = purged)
<1>1. /\ Ready(q) /\ Unchanged(q) /\ Erasing(q) /\ paper[q] \in Papers
      /\ entry \in [Papers -> Statuses]
  BY DEF IInv, RequestsInv, TypeOK, FilesInv
<1>2. CASE Insert(q)
  <2>1. paper[q] \in Submissions /\ entry[paper[q]] = "none"
    BY <1>1, <1>2 DEF Insert, Ready, Erasing
  <2> QED
    BY <1>1, <1>2, <2>1 DEF Insert
<1>3. CASE StoreFails(q)
  BY <1>1, <1>3 DEF StoreFails, Ready, Uploading, Erasing
<1>4. CASE Settle(q)
  <2>1. /\ paper[q] \in Submissions /\ entry[paper[q]] # "removed"
        /\ aim[q] \in Aims
    BY <1>1, <1>4 DEF Settle, Unchanged, Ready, Erasing
  <2> QED
    BY <1>1, <1>4, <2>1 DEF Settle, Aims
<1>5. CASE CommitRemoval(q)
  <2>1. \/ entry'[paper[q]] = "removed"
        \/ entry'[paper[q]] = entry[paper[q]] /\ op[q] \notin {"remove", "purge"}
    BY <1>1, <1>5 DEF CommitRemoval, Erasing
  <2>2. op[q] \notin {"remove", "purge"} => entry[paper[q]] = "removed"
    BY <1>1, <1>5 DEF CommitRemoval, Ready
  <2> QED
    BY <1>5, <2>1, <2>2
<1>6. CASE CommitCleanup(q)
  BY <1>1, <1>6 DEF CommitCleanup
<1>7. CASE Store(q) \/ Extract(q) \/ Erase(q)
  BY <1>7 DEF Store, Extract, Erase, rows
<1> QED
  BY <1>2, <1>3, <1>4, <1>5, <1>6, <1>7, QuietSteps DEF Step, FilesStand

LEMMA ErasingStep ==
  ASSUME IInv, FilesInv, NEW q \in Requests, Step(q)
  PROVE  \A p \in Requests : Erasing(p)'
<1>1. /\ Acts(q) /\ op' = op /\ paper' = paper /\ at \in [Requests -> Places]
      /\ \A p \in Requests : Erasing(p) /\ paper[p] \in Papers
      /\ checking' \subseteq checking
  BY StepFrame, EntryStep DEF FilesInv, IInv, TypeOK
<1>2. ASSUME NEW p \in Requests \ {q} PROVE Erasing(p)'
  <2>1. Stays(p) /\ Erasing(p)
    BY <1>1 DEF Acts
  <2>2. ASSUME at[p] \in {"erase", "commit"} PROVE entry'[paper[p]] # "none"
    <3>1. CASE paper[p] # paper[q]
      BY <1>1, <2>1, <2>2, <3>1, EntryStep DEF Erasing
    <3>2. CASE paper[p] = paper[q]
      <4>1. ~ StoreFails(q)
        BY <2>2, <3>2 DEF StoreFails, RowTaken
      <4> QED
        BY <2>1, <2>2, <3>2, <4>1, WrittenEntry DEF Erasing
    <3> QED
      BY <3>1, <3>2
  <2> QED
    BY <1>1, <2>1, <2>2 DEF Erasing, Stays
<1>3. Erasing(q)'
  <2>1. at'[q] # "idle" => at[q] # "idle"
    BY <1>1 DEF Step, FindCopy, Insert, Store, StoreFails, Extract, ExtractFails, Finalize,
         ReadSource, Lock, CheckEntry, Settle, CheckRemoval, Erase, CommitRemoval,
         CheckCleanup, CommitCleanup, CheckWithdrawal, Withdraw, CommitWithdrawal
  <2>2. at'[q] \in {"erase", "commit"} =>
          /\ entry'[paper[q]] # "none"
          /\ op[q] = "purge" => paper[q] \notin checking
          /\ at'[q] = "erase" /\ paper[q] \in Checked => op[q] = "purge"
    BY ToErase
  <2> QED
    BY <1>1, <2>1, <2>2 DEF Erasing
<1> QED
  BY <1>2, <1>3

LEMMA EntriesStep ==
  ASSUME IInv, FilesInv, NEW q \in Requests, Step(q)
  PROVE  /\ \A m \in Checked : entry'[m] \in {"active", "removed"}
         /\ \A m \in purged' : entry'[m] = "removed" /\ m \notin checking'
<1>1. /\ Erasing(q) /\ Ready(q) /\ paper[q] \in Papers /\ checking' \subseteq checking
      /\ purged \subseteq Papers /\ checking \subseteq Checked
      /\ \A m \in purged : entry[m] = "removed" /\ m \notin checking
      /\ \A m \in Checked : entry[m] \in {"active", "removed"}
  BY EntryStep DEF FilesInv, IInv, RequestsInv, TypeOK
<1>2. ASSUME NEW m \in Checked PROVE entry'[m] \in {"active", "removed"}
  <2>1. m \in Papers
    BY DEF Papers
  <2>2. CASE m # paper[q]
    BY <1>1, <2>1, <2>2, EntryStep
  <2>3. CASE m = paper[q]
    <3>1. m \notin Submissions
      BY KindsAssumption
    <3> QED
      BY <1>1, <2>3, <3>1, WrittenEntry
  <2> QED
    BY <2>2, <2>3
<1>3. purged' \subseteq Papers
  BY <1>1, WrittenEntry DEF CommitRemoval, StoreFails
<1>4. ASSUME NEW m \in purged' PROVE entry'[m] = "removed" /\ m \notin checking'
  <2>1. CASE m # paper[q]
    BY <1>1, <1>3, <2>1, EntryStep
  <2>2. CASE m = paper[q]
    <3>1. CASE StoreFails(q)
      BY <2>2, <3>1 DEF StoreFails
    <3>2. CASE CommitRemoval(q)
      <4>1. entry'[m] = "removed"
        BY <1>1, <1>4, <2>2, <3>2, WrittenEntry DEF StoreFails, CommitRemoval
      <4>2. m \in purged \/ op[q] = "purge" \/ m \in Submissions
        BY <2>2, <3>2 DEF CommitRemoval
      <4>3. m \notin checking
        BY <1>1, <2>2, <3>2, <4>2, KindsAssumption DEF CommitRemoval, Erasing
      <4> QED
        BY <1>1, <4>1, <4>3
    <3>3. CASE ~ StoreFails(q) /\ ~ CommitRemoval(q)
      <4>1. m \in purged
        BY <3>3, WrittenEntry
      <4> QED
        BY <1>1, <2>2, <3>3, <4>1, WrittenEntry
    <3> QED
      BY <3>1, <3>2, <3>3
  <2> QED
    BY <2>1, <2>2
<1> QED
  BY <1>2, <1>4

LEMMA CheckingStep ==
  ASSUME IInv, FilesInv, NEW q \in Requests, Step(q), checking \subseteq stored
  PROVE  checking' \subseteq stored'
<1>1. /\ Erasing(q) /\ Ready(q) /\ paper[q] \in Papers /\ checking' \subseteq checking
      /\ checking \subseteq Checked /\ checking \subseteq Papers
  BY EntryStep DEF FilesInv, IInv, RequestsInv, TypeOK, Papers
<1>2. ASSUME NEW m \in checking PROVE m \in stored'
  <2>1. CASE m # paper[q]
    BY <1>1, <2>1, EntryStep
  <2>2. CASE m = paper[q]
    <3>1. paper[q] \notin Submissions
      BY <1>1, <1>2, <2>2, KindsAssumption
    <3>2. ~ Erase(q)
      BY <1>1, <1>2, <2>2 DEF Erase, Erasing
    <3>3. ~ StoreFails(q)
      BY <1>1, <3>1 DEF StoreFails, Erasing, Ready, Uploading
    <3>4. stored \subseteq stored'
      BY <3>2, <3>3, QuietSteps DEF Step, FilesStand, Insert, Store, Extract, Settle,
         CommitRemoval, CommitCleanup
    <3> QED
      BY <3>4
  <2> QED
    BY <2>1, <2>2
<1> QED
  BY <1>1, <1>2

-----------------------------------------------------------------------------
(* Sources.                                                                *)

\* What q is to the file of m is the same, or more, after the step.
LEMMA SourceStays ==
  ASSUME NEW q \in Requests, Acts(q), NEW m \in Papers, Source(m),
         entry'[m] = entry[m] \/ entry'[m] \in {"none", "removed"},
         m \in stored' <=> m \in stored, m \in purged' <=> m \in purged,
         Commits(q, m) => Commits(q, m)' /\ op'[q] = op[q],
         Commits(q, m)' /\ (op'[q] = "purge" \/ m \in Submissions)
           => Commits(q, m) /\ op'[q] = op[q],
         paper[q] = m /\ at[q] = "store" => paper'[q] = m /\ at'[q] = "store",
         Discards(q, m) => Discards(q, m)'
  PROVE  Source(m)'
<1>1. ASSUME NEW p \in Requests \ {q}
      PROVE  /\ Commits(p, m)' <=> Commits(p, m)
             /\ Discards(p, m)' <=> Discards(p, m)
             /\ op'[p] = op[p] /\ paper'[p] = paper[p] /\ at'[p] = at[p]
  BY DEF Acts, Stays, Commits, Discards
<1>2. m \notin stored' /\ entry'[m] \notin {"none", "removed"}
        => \E p \in Requests : Commits(p, m)' \/ (paper'[p] = m /\ at'[p] = "store")
  BY <1>1 DEF Source
<1>3. m \in Checked /\ m \notin stored' /\ m \notin purged'
        => \E p \in Requests : Commits(p, m)' /\ op'[p] = "purge"
  BY <1>1 DEF Source
<1>4. m \in stored'
      /\ (m \in purged' \/ \E p \in Requests : Commits(p, m)'
                                              /\ (op'[p] = "purge" \/ m \in Submissions))
        => \E p \in Requests : Discards(p, m)'
  BY <1>1 DEF Source
<1> QED
  BY <1>2, <1>3, <1>4 DEF Source

LEMMA SourceElsewhere ==
  ASSUME IInv, FilesInv, NEW q \in Requests, Step(q), NEW m \in Papers, m # paper[q],
         Source(m)
  PROVE  Source(m)'
<1>1. /\ Acts(q) /\ op' = op /\ paper' = paper
      /\ entry'[m] = entry[m] /\ (m \in purged' <=> m \in purged)
      /\ (m \in stored' <=> m \in stored)
  BY StepFrame, EntryStep DEF IInv
<1>2. ~ Commits(q, m) /\ ~ Commits(q, m)' /\ ~ Discards(q, m)
  BY <1>1 DEF Commits, Discards
<1> QED
  BY <1>1, <1>2, SourceStays

\* A step that keeps the file and what q is to it.
LEMMA SourceHere ==
  ASSUME IInv, NEW q \in Requests, Step(q), NEW m \in Papers, m = paper[q], Source(m),
         FilesStand,
         at[q] # "store", at[q] # "commit",
         at'[q] = "commit" => op[q] # "purge" /\ m \notin Submissions,
         op[q] = "submit" /\ at[q] \in {"extract", "finalize", "lock", "locked", "erase"} =>
           at'[q] \in {"extract", "finalize", "lock", "locked", "erase"}
  PROVE  Source(m)'
<1>1. Acts(q) /\ op' = op /\ paper' = paper
  BY StepFrame DEF IInv
<1>2. /\ ~ Commits(q, m) /\ (Discards(q, m) => Discards(q, m)')
      /\ ~ (Commits(q, m)' /\ (op'[q] = "purge" \/ m \in Submissions))
  BY <1>1 DEF Commits, Discards
<1> QED
  BY <1>1, <1>2, SourceStays DEF FilesStand

\* Nobody else commits under the lock a request has.
LEMMA SoleCommit ==
  ASSUME IInv, NEW q \in Requests, at[q] \in Holding,
         NEW p \in Requests, Commits(p, paper[q])
  PROVE  p = q
BY OneHolder DEF IInv, Commits, Holding

LEMMA SourceStep ==
  ASSUME IInv, FilesInv, NEW q \in Requests, Step(q), \A m \in Papers : Source(m)
  PROVE  \A m \in Papers : Source(m)'
<1> SUFFICES ASSUME NEW m \in Papers, m = paper[q] PROVE Source(m)'
  BY SourceElsewhere
<1>1. /\ Acts(q) /\ op' = op /\ paper' = paper /\ at \in [Requests -> Places]
      /\ Ready(q) /\ Unchanged(q) /\ Erasing(q) /\ Source(m)
      /\ entry \in [Papers -> Statuses] /\ stored \subseteq Papers
  BY StepFrame DEF IInv, RequestsInv, TypeOK, FilesInv
<1>2. \A p \in Requests \ {q} :
        /\ Commits(p, m)' <=> Commits(p, m)
        /\ Discards(p, m)' <=> Discards(p, m)
  BY <1>1 DEF Acts, Stays, Commits, Discards
<1>3. m \in purged => entry[m] = "removed"
  BY DEF FilesInv
<1>4. m \in Submissions => m \notin Checked
  BY KindsAssumption
<1>5. CASE \/ FindCopy(q) \/ ExtractFails(q) \/ Finalize(q) \/ ReadSource(q) \/ Lock(q)
           \/ CheckCleanup(q) \/ CheckWithdrawal(q) \/ Withdraw(q) \/ CommitWithdrawal(q)
  <2>1. FilesStand /\ at[q] # "store" /\ at[q] # "commit" /\ at'[q] # "commit"
    BY <1>1, <1>5, QuietSteps DEF FindCopy, ExtractFails, Finalize, ReadSource, Lock,
       CheckCleanup, CheckWithdrawal, Withdraw, CommitWithdrawal, Goto, Leave
  <2>2. op[q] = "submit" /\ at[q] \in {"extract", "finalize", "lock", "locked", "erase"} =>
          at'[q] \in {"extract", "finalize", "lock", "locked", "erase"}
    BY <1>1, <1>5 DEF FindCopy, ExtractFails, Finalize, ReadSource, Lock,
       CheckCleanup, CheckWithdrawal, Withdraw, CommitWithdrawal, Goto, Leave, Ready
  <2> QED
    BY <1>1, <2>1, <2>2, SourceHere
<1>6. CASE CheckRemoval(q)
  <2>1. /\ FilesStand /\ at[q] = "locked" /\ op[q] \in {"remove", "purge"}
        /\ at'[q] = "commit" => op[q] # "purge" /\ m \notin Submissions
    BY <1>1, <1>6, QuietSteps DEF CheckRemoval, Goto, Leave
  <2> QED
    BY <1>1, <2>1, SourceHere
<1>7. CASE CheckEntry(q)
  <2>1. /\ FilesStand /\ at[q] = "locked" /\ op[q] \in {"submit", "add"}
        /\ at'[q] \in {"erase", "settle", "idle"}
        /\ at'[q] # "erase" => entry[m] # "removed"
    BY <1>1, <1>7, QuietSteps DEF CheckEntry, Still, MustDiscard, Goto, Leave
  <2>2. CASE at'[q] = "erase"
    BY <1>1, <2>1, <2>2, SourceHere
  <2>3. CASE at'[q] # "erase"
    <3>1. \A p \in Requests : ~ Commits(p, m)
      BY <2>1, SoleCommit DEF Holding, Commits
    <3>2. \A p \in Requests : ~ Commits(p, m)'
      BY <1>2, <2>1, <3>1 DEF Commits
    <3>3. /\ m \notin stored => \/ entry[m] \in {"none", "removed"}
                                \/ \E p \in Requests \ {q} : paper[p] = m /\ at[p] = "store"
          /\ m \in Checked /\ m \notin stored => m \in purged
      BY <1>1, <2>1, <3>1 DEF Source
    <3> QED
      BY <1>1, <1>3, <2>1, <2>3, <3>2, <3>3 DEF Source, FilesStand, Acts, Stays
  <2> QED
    BY <2>2, <2>3
<1>8. CASE Insert(q)
  <2>1. /\ op[q] = "submit" /\ entry[m] = "none" /\ m \in Submissions
        /\ at[q] = "insert" /\ at'[q] = "store" /\ purged' = purged
    BY <1>1, <1>8 DEF Insert, Goto, Ready, Erasing
  <2>2. \A p \in Requests : ~ Commits(p, m)
    BY <2>1 DEF FilesInv, Erasing, Commits
  <2>3. \A p \in Requests : ~ Commits(p, m)'
    BY <1>2, <2>1, <2>2 DEF Commits
  <2> QED
    BY <1>1, <1>3, <1>4, <2>1, <2>3 DEF Source
<1>9. CASE Store(q) \/ Extract(q)
  <2>1. /\ op[q] = "submit" /\ at'[q] \in {"extract", "finalize"} /\ m \in stored'
    BY <1>1, <1>9 DEF Store, Extract, Goto, Ready, Uploading
  <2>2. Discards(q, m)'
    BY <1>1, <2>1 DEF Discards
  <2> QED
    BY <2>1, <2>2 DEF Source
<1>10. CASE StoreFails(q)
  <2>1. entry'[m] = "none" /\ m \notin stored' /\ m \in Submissions
    BY <1>1, <1>10 DEF StoreFails, Ready, Uploading, Erasing
  <2> QED
    BY <1>4, <2>1 DEF Source
<1>11. CASE Settle(q)
  <2>1. /\ at[q] = "settle" /\ at'[q] = "idle" /\ m \in Submissions
        /\ entry[m] \in {"processing", "needs_decision"}
        /\ op[q] = "add" => entry[m] = "needs_decision"
        /\ op[q] \in {"submit", "add"} /\ purged' = purged /\ stored' = stored
    BY <1>1, <1>11 DEF Settle, Unchanged, Erasing, Leave, Goto
  <2>2. \A p \in Requests : ~ Commits(p, m)
    BY <2>1, SoleCommit DEF Holding, Commits
  <2>3. \A p \in Requests : ~ Commits(p, m)'
    BY <1>2, <2>1, <2>2 DEF Commits
  <2>4. ASSUME NEW p \in Requests, paper[p] = m, at[p] = "store" PROVE FALSE
    <3>1. op[p] = "submit" /\ entry[m] \in {"processing", "removed"}
      BY <2>4 DEF IInv, RequestsInv, Ready, Uploading
    <3>2. op[q] = "submit"
      BY <2>1, <3>1
    <3> QED
      BY <2>1, <2>4, <3>1, <3>2 DEF IInv, SoleSubmission
  <2>5. m \in stored
    BY <1>1, <2>1, <2>2, <2>4 DEF Source
  <2> QED
    BY <1>3, <2>1, <2>3, <2>5 DEF Source
<1>12. CASE Erase(q)
  <2>1. m \notin stored' /\ at'[q] = "commit" /\ (m \in Checked => op[q] = "purge")
    BY <1>1, <1>12 DEF Erase, Goto, Erasing
  <2>2. Commits(q, m)' /\ (m \in Checked => op'[q] = "purge")
    BY <1>1, <2>1 DEF Commits
  <2> QED
    BY <2>1, <2>2 DEF Source
<1>13. CASE CommitRemoval(q)
  <2>1. /\ at[q] = "commit" /\ at'[q] = "idle" /\ stored' = stored
        /\ m \in purged' <=> m \in purged \/ op[q] = "purge" \/ m \in Submissions
    BY <1>1, <1>13 DEF CommitRemoval, Leave, Goto
  <2>2. entry'[m] = "removed"
    BY <1>1, <1>13, <2>1 DEF CommitRemoval, Erasing, Ready
  <2>3. \A p \in Requests : ~ Commits(p, m)'
    BY <1>2, <2>1, SoleCommit DEF Holding, Commits
  <2>4. Commits(q, m)
    BY <2>1 DEF Commits
  <2>5. m \in Checked /\ m \notin stored /\ m \notin purged => op[q] = "purge"
    BY <1>1, <2>1, SoleCommit DEF Source, Holding
  <2>6. m \in stored /\ m \in purged' => \E p \in Requests \ {q} : Discards(p, m)
    BY <1>1, <2>1, <2>4 DEF Source, Discards
  <2> QED
    BY <1>2, <2>1, <2>2, <2>3, <2>5, <2>6 DEF Source
<1>14. CASE CommitCleanup(q)
  <2>1. /\ at[q] = "settle" /\ at'[q] = "idle" /\ entry'[m] = "removed" /\ op[q] = "cleanup"
        /\ purged' = purged /\ stored' = stored
    BY <1>1, <1>14 DEF CommitCleanup, Leave, Goto
  <2>2. ~ Commits(q, m) /\ ~ Commits(q, m)' /\ ~ Discards(q, m)
    BY <2>1 DEF Commits, Discards
  <2> QED
    BY <1>1, <2>1, <2>2, SourceStays
<1> QED
  BY <1>5, <1>6, <1>7, <1>8, <1>9, <1>10, <1>11, <1>12, <1>13, <1>14 DEF Step

LEMMA FilesStep == IInv /\ IInv' /\ FilesInv /\ [Next]_vars => FilesInv'
<1> SUFFICES ASSUME IInv, FilesInv, [Next]_vars PROVE FilesInv'
  OBVIOUS
<1>0. TypeOK
  BY DEF IInv
<1>1. ASSUME NEW q \in Requests, Step(q) PROVE FilesInv'
  <2>1. crashes' = crashes
    BY <1>0, <1>1, StepFrame
  <2> QED
    BY <1>1, <2>1, ErasingStep, EntriesStep, CheckingStep, SourceStep DEF FilesInv
<1>2. ASSUME NEW q \in Requests, NEW m \in Papers, Ask(q, m) PROVE FilesInv'
  <2>1. /\ Acts(q) /\ at[q] = "idle" /\ at'[q] \in {"copy", "reading", "lock"}
        /\ UNCHANGED <<entry, purged, stored, checking, crashes>>
    BY <1>0, <1>2, AskFrame
  <2>2. op'[q] \in {"submit", "add"} => paper'[q] \in Submissions
    BY <1>0, <1>2 DEF Ask, Admit, AskRemove, AskPurge, AskCleanup, AskAdd, CancelRun, Begin,
       TypeOK, FilesInv, Papers
  <2>3. \A p \in Requests : Erasing(p)'
    BY <2>1, <2>2 DEF FilesInv, Erasing, Acts, Stays
  <2>4. ASSUME NEW n \in Papers, Source(n) PROVE Source(n)'
    <3>1. ~ Commits(q, n) /\ ~ Commits(q, n)' /\ ~ Discards(q, n)
      BY <2>1 DEF Commits, Discards
    <3> QED
      BY <2>1, <2>4, <3>1, SourceStays
  <2> QED
    BY <2>1, <2>3, <2>4 DEF FilesInv
<1>3. ASSUME NEW m \in Papers, CreateRun(m) PROVE FilesInv'
  <2>1. /\ UNCHANGED <<entry, purged, stored, op, at, paper, crashes>>
        /\ checking' = checking \union {m} /\ m \in Checked /\ m \notin purged
        /\ ~ RowTaken(m)
    BY <1>3 DEF CreateRun, rows, who
  <2>2. \A p \in Requests : Erasing(p)'
    BY <2>1 DEF FilesInv, Erasing, RowTaken
  <2>3. \A n \in Papers : Source(n) => Source(n)'
    BY <2>1 DEF Source, Commits, Discards
  <2>4. Source(m) => m \in stored
    BY <2>1 DEF Source, Commits, RowTaken
  <2> QED
    BY <2>1, <2>2, <2>3, <2>4 DEF FilesInv
<1>4. ASSUME checking' \subseteq checking,
             UNCHANGED <<entry, purged, stored, op, at, paper, crashes>>
      PROVE  FilesInv'
  <2>1. \A p \in Requests : Erasing(p)'
    BY <1>4 DEF FilesInv, Erasing
  <2>2. \A n \in Papers : Source(n) => Source(n)'
    BY <1>4 DEF Source, Commits, Discards
  <2> QED
    BY <1>4, <2>1, <2>2 DEF FilesInv
<1>5. ASSUME NEW m \in Papers, EndRun(m) \/ Stall(m) PROVE FilesInv'
  BY <1>4, <1>5 DEF EndRun, Stall, rows, who
<1>6. CASE Crash
  <2>1. /\ crashes' # 0 /\ UNCHANGED <<entry, purged, checking, op, paper>>
        /\ \A p \in Requests : at'[p] = "idle"
    BY <1>0, <1>6 DEF Crash, rows, who, TypeOK
  <2>2. \A p \in Requests : Erasing(p)'
    BY <2>1 DEF Erasing
  <2> QED
    BY <2>1, <2>2 DEF FilesInv
<1>7. CASE UNCHANGED vars
  BY <1>4, <1>7 DEF vars, rows, who
<1> QED
  BY <1>1, <1>2, <1>3, <1>5, <1>6, <1>7 DEF Next

\* As long as the process lives, no requests in any order leave a check that
\* goes on, or an active entry, without its source, nor a source where a purge
\* deleted it (purge_manuscript, _discard_late_work, create_check_run).
THEOREM FilesTheorem == Spec => []FilesFollow
<1>1. Init => FilesInv
  <2> SUFFICES ASSUME Init PROVE FilesInv
    OBVIOUS
  <2>1. \A m \in Papers : Source(m)
    BY KindsAssumption DEF Init, Source, Papers, Commits
  <2> QED
    BY <2>1, KindsAssumption DEF Init, FilesInv, Erasing, Papers
<1>2. FilesInv => FilesFollow
  <2> SUFFICES ASSUME FilesInv, crashes = 0
               PROVE  CheckKeepsSource /\ ActiveKeepsSource /\ PurgedHasNothing
    BY DEF FilesFollow
  <2>1. \A m \in Papers : Source(m)
    BY DEF FilesInv
  <2>2. CheckKeepsSource
    BY DEF FilesInv, CheckKeepsSource
  <2>3. ActiveKeepsSource
    BY <2>1 DEF ActiveKeepsSource, Source, Commits, AtWorkOn
  <2>4. PurgedHasNothing
    BY <2>1 DEF PurgedHasNothing, Source, Discards, AtWorkOn
  <2> QED
    BY <2>2, <2>3, <2>4
<1> QED
  BY <1>1, <1>2, FilesStep, Inductive, PTL DEF Spec

-----------------------------------------------------------------------------
(* Who holds an advisory lock goes on.                                     *)

\* An advisory lock is held by a request that is at work under it.
HeldInv ==
  \A m \in Papers : holder[m] # None => at[holder[m]] \in Holding /\ paper[holder[m]] = m

\* What a step does to the advisory locks.
LEMMA LockSteps ==
  ASSUME TypeOK, NEW q \in Requests, Step(q)
  PROVE  \/ holder' = holder /\ (at[q] \in Holding => at'[q] \in Holding)
         \/ Unlock(q)
         \/ holder' = [holder EXCEPT ![paper[q]] = q] /\ at'[q] \in Holding
  BY DEF Step, FindCopy, Insert, Store, StoreFails, Extract, ExtractFails, Finalize,
         ReadSource, Lock, CheckEntry, Settle, CheckRemoval, Erase, CommitRemoval,
         CheckCleanup, CommitCleanup, CheckWithdrawal, Withdraw, CommitWithdrawal, Leave,
         Goto, Holding, TypeOK

LEMMA HeldStep == TypeOK /\ TypeOK' /\ HeldInv /\ [Next]_vars => HeldInv'
  <1> SUFFICES ASSUME TypeOK, TypeOK', HeldInv, [Next]_vars PROVE HeldInv'
    OBVIOUS
  <1>1. ASSUME NEW q \in Requests, Step(q), NEW m \in Papers, holder'[m] # None
        PROVE  at'[holder'[m]] \in Holding /\ paper'[holder'[m]] = m
    <2>1. /\ \A p \in Requests \ {q} : at'[p] = at[p] 
          /\ paper' = paper /\ paper[q] \in Papers
          /\ holder \in [Papers -> Requests \union {None}]
          /\ holder'[m] \in Requests
      BY <1>1, StepFrame DEF Acts, Stays, TypeOK
    <2>2. CASE holder' = holder /\ (at[q] \in Holding => at'[q] \in Holding)
      BY <1>1, <2>1, <2>2 DEF HeldInv
    <2>3. CASE Unlock(q)
      <3>1. m # paper[q] /\ holder'[m] = holder[m]
        BY <1>1, <2>1, <2>3 DEF Unlock
      <3>2. at[holder[m]] \in Holding /\ paper[holder[m]] = m
        BY <1>1, <3>1 DEF HeldInv
      <3> QED BY <2>1, <3>1, <3>2
    <2>4. CASE holder' = [holder EXCEPT ![paper[q]] = q] /\ at'[q] \in Holding
      <3>1. CASE m = paper[q]
        BY <2>1, <2>4, <3>1
      <3>2. CASE m # paper[q]
        <4>1. holder'[m] = holder[m]
          BY <2>1, <2>4, <3>2
        <4>2. at[holder[m]] \in Holding /\ paper[holder[m]] = m
          BY <1>1, <4>1 DEF HeldInv
        <4> QED BY <2>1, <3>2, <4>1, <4>2
      <3> QED BY <3>1, <3>2
    <2> QED BY <1>1, <2>2, <2>3, <2>4, LockSteps
  <1>2. ASSUME NEW q \in Requests, NEW n \in Papers, Ask(q, n) PROVE HeldInv'
    <2>1. Acts(q) /\ at[q] = "idle"
      BY <1>2, AskFrame
    <2>2. holder' = holder
      BY <1>2 DEF Ask, Admit, AskRemove, AskPurge, AskCleanup, AskAdd, CancelRun, Begin
    <2>3. ASSUME NEW m \in Papers, holder[m] # None
          PROVE  at'[holder[m]] \in Holding /\ paper'[holder[m]] = m
      <3>1. at[holder[m]] \in Holding /\ paper[holder[m]] = m /\ holder[m] \in Requests
        BY <2>3 DEF HeldInv, TypeOK
      <3> QED BY <2>1, <3>1 DEF Acts, Stays, Holding
    <2> QED BY <2>2, <2>3 DEF HeldInv
  <1>3. ASSUME NEW m \in Papers, CreateRun(m) \/ EndRun(m) \/ Stall(m) PROVE HeldInv'
    BY <1>3 DEF CreateRun, EndRun, Stall, HeldInv, who
  <1>4. CASE Crash
    BY <1>4 DEF Crash, HeldInv
  <1>5. CASE UNCHANGED vars
    BY <1>5 DEF vars, who, HeldInv
  <1> QED BY <1>1, <1>2, <1>3, <1>4, <1>5 DEF Next, HeldInv

\* A request that waits does so for a reader, who never does, for the holder of
\* an advisory lock, who waits only for readers, or for one who is about to commit.
LEMMA HolderGoesOn == TypeOK /\ HeldInv => NobodyIsStuck
  <1> SUFFICES ASSUME TypeOK, HeldInv, NEW q \in Requests, AtWork(q),
                      \A p \in Requests : AtWork(p) => Waits(p)
               PROVE  FALSE
    BY DEF NobodyIsStuck
  <1>1. ASSUME NEW p \in Requests, at[p] \in {"reading", "erase", "commit", "settle"} PROVE FALSE
    BY <1>1 DEF AtWork, Waits
  <1>2. \A m \in Papers : ~Shared(m) /\ ~RowTaken(m)
    BY <1>1 DEF Shared, Sharing, RowTaken
  <1>3. \A p \in Requests : AtWork(p) => at[p] = "lock" /\ holder[paper[p]] # None
    BY <1>2 DEF Waits, TypeOK
  <1>4. PICK r \in Requests : at[r] \in Holding
    BY <1>3 DEF HeldInv, TypeOK
  <1> QED BY <1>3, <1>4 DEF Holding, AtWork

\* In every state, for any number of requests and papers, a request holds the
\* lock of its paper while it is at work under it.
THEOREM HeldInductive == Spec => []HeldInv
  <1>1. Init => HeldInv
    BY DEF Init, HeldInv
  <1>2. Spec => []TypeOK
    BY Inductive, PTL DEF IInv
  <1> QED BY <1>1, <1>2, HeldStep, PTL DEF Spec

-----------------------------------------------------------------------------
(* The versions of a required format (RubricVersions).                     *)

LEMMA VersionsConstants ==
  /\ LastId \in Nat \ {0} /\ Initial \in 1..LastId /\ MaxDeaths \in Nat
  /\ None \notin FormatRequests /\ None \notin Programs /\ Rubric!Ids = 1..LastId
  BY VersionsAssumption DEF Rubric!RubricAssumption, Rubric!Ids

LEMMA InitVersions == Rubric!Init => Rubric!VersionsInv
  <1> SUFFICES ASSUME Rubric!Init PROVE Rubric!VersionsInv
    OBVIOUS
  <1> USE VersionsConstants DEF Rubric!Init
  <1>1. used = 1..Initial /\ versions = used /\ active \subseteq used
    OBVIOUS
  <1>2. Rubric!TypeOK
    BY <1>1 DEF Rubric!TypeOK, Rubric!Ops
  <1>3. Rubric!OneActive
    BY DEF Rubric!OneActive
  <1>4. Rubric!FamilyAgrees /\ Rubric!LocksApart
    BY DEF Rubric!FamilyAgrees, Rubric!LocksApart
  <1>5. Rubric!VersionsRise
    BY <1>1 DEF Rubric!VersionsRise
  <1>6. ASSUME NEW q \in FormatRequests
        PROVE  /\ todo[q] \union {target[q]} \subseteq used
               /\ Rubric!ClaimsAllBefore(q) /\ Rubric!ClaimsTarget(q) /\ Rubric!StillMay(q)
    BY <1>1 DEF Rubric!ClaimsAllBefore, Rubric!ClaimsTarget, Rubric!StillMay, Rubric!Locking
  <1> QED BY <1>2, <1>3, <1>4, <1>5, <1>6 DEF Rubric!VersionsInv

-----------------------------------------------------------------------------
(* What a step of one request leaves to the others.                        *)

SameRequest(p) ==
  /\ step'[p] = step[p] /\ asks'[p] = asks[p] /\ target'[p] = target[p] /\ todo'[p] = todo[p]
  /\ \A v \in Rubric!Ids : /\ writer'[v] = p <=> writer[v] = p
                           /\ p \in readers'[v] <=> p \in readers[v]

\* A version is deleted, replaced as the active one or pinned under a lock that
\* shuts the others out, and is added by an upload that holds one of the family.
Guarded(q) ==
  /\ \A p \in FormatRequests \ {q} : SameRequest(p)
  /\ used \subseteq used'
  /\ \A v \in versions \ versions' : writer[v] \in {q, None} /\ readers[v] \subseteq {q}
  /\ \A v \in versions' \ versions :
       v \notin used /\ step[q] = "write" /\ asks[q] = "upload"
  /\ \A v \in versions : number'[v] = number[v]
  /\ \A v \in active \ active' : readers[v] \subseteq {q}
  /\ \A v \in pinned' \ pinned : q \in readers[v]

LEMMA OthersClaims ==
  ASSUME Rubric!VersionsInv, Rubric!TypeOK', NEW q \in FormatRequests, Guarded(q),
         NEW p \in FormatRequests, p # q
  PROVE  Rubric!ClaimsAllBefore(p)' /\ Rubric!ClaimsTarget(p)'
  <1>1. /\ SameRequest(p) /\ Rubric!ClaimsAllBefore(p) /\ Rubric!ClaimsTarget(p)
        /\ todo[p] \union {target[p]} \subseteq used /\ Rubric!TypeOK /\ Rubric!LocksApart
    BY DEF Guarded, Rubric!VersionsInv
  <1>2. Rubric!Claimed(p)' = Rubric!Claimed(p)
    BY <1>1 DEF SameRequest, Rubric!Claimed, Rubric!Ids
  <1>3. \A w \in Rubric!Claimed(p) : w \in used
    BY <1>1, VersionsConstants DEF Rubric!Claimed, Rubric!LocksApart
  <1>4. ASSUME NEW v \in versions', v \notin versions, NEW w \in used PROVE ~(v <= w)
    <2>1. v \notin used /\ v \in Rubric!Ids
      BY <1>4 DEF Guarded, Rubric!TypeOK
    <2>2. PICK k \in 1..LastId : used = 1..k
      BY DEF Rubric!VersionsInv, Rubric!VersionsRise
    <2> QED BY <2>1, <2>2, VersionsConstants
  <1>5. Rubric!Locking(p)' = Rubric!Locking(p) /\ asks'[p] = asks[p] /\ target'[p] = target[p]
    BY <1>1 DEF Rubric!Locking, SameRequest
  <1>6. Rubric!ClaimsAllBefore(p)'
    BY <1>1, <1>2, <1>3, <1>4, <1>5 DEF Rubric!ClaimsAllBefore
  <1>7. target'[p] \in versions' => target[p] \in versions
    BY <1>1, <1>5 DEF Guarded
  <1>8. target[p] \in Rubric!Ids
    BY <1>1 DEF Rubric!TypeOK
  <1>9. Rubric!ClaimsTarget(p)'
    BY <1>1, <1>5, <1>7, <1>8 DEF Rubric!ClaimsTarget, SameRequest
  <1> QED BY <1>6, <1>9

\* Nobody adds a version while another request may write the latest one.
LEMMA NoneAdded ==
  ASSUME Rubric!VersionsInv, NEW q \in FormatRequests, Guarded(q),
         NEW p \in FormatRequests, p # q, step[p] = "write", asks[p] \in {"save", "confirm"}
  PROVE  versions' \subseteq versions
  <1> SUFFICES ASSUME step[q] = "write", asks[q] = "upload" PROVE FALSE
    BY DEF Guarded
  <1>1. /\ Rubric!ClaimsAllBefore(p) /\ Rubric!ClaimsTarget(p)
        /\ Rubric!StillMay(p) /\ Rubric!StillMay(q) /\ Rubric!TypeOK
    BY DEF Rubric!VersionsInv
  <1>2. /\ todo[p] = {} /\ target[p] \in versions /\ writer[target[p]] = p
        /\ \A w \in versions : number[w] <= number[target[p]]
    BY <1>1 DEF Rubric!StillMay, Rubric!ClaimsTarget, Rubric!CanEdit, Rubric!IsLatest,
                Rubric!Locking
  <1>3. PICK w \in versions : writer[w] = q
    BY <1>1 DEF Rubric!StillMay
  <1>4. w \in 1..LastId /\ target[p] \in 1..LastId /\ number[w] \in Nat /\ number[target[p]] \in Nat
    <2>1. w \in Rubric!Ids /\ target[p] \in Rubric!Ids
      BY <1>1, <1>2 DEF Rubric!TypeOK
    <2>2. number[w] \in 0..LastId /\ number[target[p]] \in 0..LastId
      BY <1>1, <2>1 DEF Rubric!TypeOK
    <2> QED BY <2>1, <2>2, VersionsConstants
  <1>5. w <= target[p]
    BY <1>2, <1>4 DEF Rubric!VersionsInv, Rubric!VersionsRise
  <1>6. target[p] \in Rubric!Claimed(p)
    BY <1>2, <1>4, VersionsConstants DEF Rubric!Claimed
  <1>7. w \in Rubric!Claimed(p)
    BY <1>1, <1>5, <1>6 DEF Rubric!ClaimsAllBefore, Rubric!Locking
  <1> QED BY <1>2, <1>3, <1>7 DEF Rubric!Claimed

LEMMA OthersMay ==
  ASSUME Rubric!VersionsInv, Rubric!TypeOK', NEW q \in FormatRequests, Guarded(q),
         NEW p \in FormatRequests, p # q
  PROVE  Rubric!StillMay(p)'
  <1>1. /\ SameRequest(p) /\ Rubric!StillMay(p) /\ Rubric!ClaimsTarget(p)
        /\ Rubric!TypeOK /\ Rubric!LocksApart
    BY DEF Guarded, Rubric!VersionsInv
  <1> SUFFICES ASSUME step[p] = "write" PROVE Rubric!StillMay(p)'
    BY <1>1 DEF Rubric!StillMay, SameRequest
  <1>2. /\ step'[p] = "write" /\ asks'[p] = asks[p] /\ target'[p] = target[p] /\ todo'[p] = {}
        /\ target[p] \in Rubric!Ids
    BY <1>1 DEF Rubric!StillMay, SameRequest, Rubric!TypeOK
  <1>3. p # None
    BY VersionsConstants
  <1>4. CASE asks[p] \in {"upload", "program"}
    <2>1. PICK w \in versions : writer[w] = p
      BY <1>1, <1>4 DEF Rubric!StillMay
    <2>2. w \in versions' /\ w \in Rubric!Ids
      BY <1>1, <1>3, <2>1 DEF Guarded, Rubric!TypeOK
    <2>3. writer'[w] = p
      BY <1>1, <2>1, <2>2 DEF SameRequest
    <2> QED BY <1>2, <1>4, <2>2, <2>3 DEF Rubric!StillMay
  <1>5. CASE asks[p] \notin {"upload", "program"}
    <2>1. target[p] \in versions
          /\ IF asks[p] = "check" THEN p \in readers[target[p]] ELSE writer[target[p]] = p
      BY <1>1, <1>5 DEF Rubric!StillMay, Rubric!ClaimsTarget, Rubric!Locking
    <2>2. target[p] \in versions'
      BY <1>3, <2>1 DEF Guarded
    <2>3. asks[p] = "check" => target[p] \in active'
      BY <1>1, <1>5, <2>1 DEF Guarded, Rubric!StillMay
    <2>4. asks[p] \in {"save", "confirm", "delete"} =>
            readers[target[p]] = {} /\ target[p] \notin pinned'
      BY <1>1, <1>2, <1>3, <2>1
         DEF Rubric!LocksApart, Rubric!StillMay, Rubric!CanEdit, Guarded
    <2>5. ASSUME asks[p] \in {"save", "confirm"} PROVE Rubric!CanEdit(target[p])'
      <3>1. Rubric!CanEdit(target[p])
        BY <1>1, <2>5 DEF Rubric!StillMay
      <3>2. versions' \subseteq versions
        BY <2>5, NoneAdded
      <3>3. \A w \in versions' : number'[w] <= number'[target[p]]
        BY <2>1, <3>1, <3>2 DEF Rubric!CanEdit, Rubric!IsLatest, Guarded
      <3> QED BY <1>2, <2>4, <2>5, <3>3 DEF Rubric!CanEdit, Rubric!IsLatest
    <2> QED BY <1>2, <1>5, <2>2, <2>3, <2>4, <2>5 DEF Rubric!StillMay
  <1> QED BY <1>4, <1>5

\* What remains to be shown of a step of q.
Remaining(q) ==
  /\ Rubric!TypeOK' /\ Rubric!OneActive' /\ Rubric!FamilyAgrees'
  /\ Rubric!VersionsRise' /\ Rubric!LocksApart'
  /\ todo'[q] \union {target'[q]} \subseteq used'
  /\ Rubric!ClaimsAllBefore(q)' /\ Rubric!ClaimsTarget(q)' /\ Rubric!StillMay(q)'

LEMMA VersionsFrame ==
  ASSUME Rubric!VersionsInv, NEW q \in FormatRequests, Guarded(q), Remaining(q)
  PROVE  Rubric!VersionsInv'
  <1>1. ASSUME NEW p \in FormatRequests
        PROVE  /\ todo'[p] \union {target'[p]} \subseteq used'
               /\ Rubric!ClaimsAllBefore(p)' /\ Rubric!ClaimsTarget(p)' /\ Rubric!StillMay(p)'
    <2>1. CASE p = q
      BY <2>1 DEF Remaining
    <2>2. CASE p # q
      <3>1. todo'[p] = todo[p] /\ target'[p] = target[p]
        BY <2>2 DEF Guarded, SameRequest
      <3>2. todo[p] \union {target[p]} \subseteq used /\ used \subseteq used'
        BY DEF Guarded, Rubric!VersionsInv
      <3> QED BY <2>2, <3>1, <3>2, OthersClaims, OthersMay DEF Remaining
    <2> QED BY <2>1, <2>2
  <1> QED BY <1>1 DEF Rubric!VersionsInv, Remaining

\* A request that is done, or has not begun, claims nothing.
LEMMA NothingClaimed ==
  ASSUME NEW q \in FormatRequests, step'[q] \notin {"lock", "write"}
  PROVE  Rubric!ClaimsAllBefore(q)' /\ Rubric!ClaimsTarget(q)' /\ Rubric!StillMay(q)'
  BY DEF Rubric!ClaimsAllBefore, Rubric!ClaimsTarget, Rubric!StillMay, Rubric!Locking

LEMMA TableKept ==
  ASSUME Rubric!VersionsInv, UNCHANGED Rubric!table
  PROVE  Rubric!OneActive' /\ Rubric!FamilyAgrees' /\ Rubric!VersionsRise'
  BY DEF Rubric!VersionsInv, Rubric!table, Rubric!OneActive, Rubric!FamilyAgrees,
         Rubric!VersionsRise

\* Where a request moves, and what its locks become.
LEMMA Moved ==
  ASSUME Rubric!TypeOK, NEW q \in FormatRequests, NEW place, Rubric!Goto(q, place)
  PROVE  /\ step'[q] = place
         /\ \A p \in FormatRequests \ {q} : step'[p] = step[p]
  BY DEF Rubric!Goto, Rubric!TypeOK

LEMMA Released ==
  ASSUME Rubric!VersionsInv, NEW q \in FormatRequests, Rubric!Release(q), used \subseteq used'
  PROVE  /\ writer' \in [Rubric!Ids -> FormatRequests \union {None}]
         /\ readers' \in [Rubric!Ids -> SUBSET FormatRequests]
         /\ Rubric!LocksApart'
         /\ \A p \in FormatRequests \ {q}, v \in Rubric!Ids :
              /\ writer'[v] = p <=> writer[v] = p
              /\ p \in readers'[v] <=> p \in readers[v]
  <1> USE VersionsConstants DEF Rubric!Release
  <1>1. /\ writer \in [Rubric!Ids -> FormatRequests \union {None}]
        /\ readers \in [Rubric!Ids -> SUBSET FormatRequests]
        /\ Rubric!LocksApart
    BY DEF Rubric!VersionsInv, Rubric!TypeOK
  <1>2. /\ writer' \in [Rubric!Ids -> FormatRequests \union {None}]
        /\ readers' \in [Rubric!Ids -> SUBSET FormatRequests]
    BY <1>1
  <1>3. Rubric!LocksApart'
    BY <1>1 DEF Rubric!LocksApart
  <1> QED BY <1>1, <1>2, <1>3

-----------------------------------------------------------------------------
(* Requests that arrive, lock, decide and end without a write.             *)

LEMMA AskVersions ==
  ASSUME Rubric!VersionsInv, NEW q \in FormatRequests, NEW o \in Rubric!Ops,
         NEW v \in Rubric!Ids, Rubric!Ask(q, o, v)
  PROVE  Rubric!VersionsInv'
  <1> USE DEF Rubric!Ask
  <1>1. Rubric!TypeOK /\ UNCHANGED <<Rubric!table, Rubric!locks, todo, deaths>>
    BY DEF Rubric!VersionsInv
  <1>2. /\ step' \in [FormatRequests ->
                        {"idle", "asked", "lock", "write", "parse", "done"}]
        /\ asks' \in [FormatRequests -> Rubric!Ops]
        /\ target' \in [FormatRequests -> Rubric!Ids]
        /\ target'[q] = v /\ v \in used
        /\ \A p \in FormatRequests \ {q} :
             asks'[p] = asks[p] /\ target'[p] = target[p]
    BY <1>1 DEF Rubric!TypeOK, Rubric!Goto
  <1>3. loaded' \in [FormatRequests -> [criteria : Nat, revision : Nat, active : BOOLEAN]]
    BY <1>1 DEF Rubric!TypeOK
  <1>4. Rubric!TypeOK'
    BY <1>1, <1>2, <1>3 DEF Rubric!TypeOK, Rubric!table, Rubric!locks
  <1>5. Guarded(q)
    BY <1>1, <1>2, Moved DEF Guarded, SameRequest, Rubric!table, Rubric!locks
  <1>6. Rubric!LocksApart' /\ todo'[q] \union {target'[q]} \subseteq used'
    BY <1>1, <1>2 DEF Rubric!VersionsInv, Rubric!LocksApart, Rubric!table, Rubric!locks
  <1>7. step'[q] = "asked"
    BY <1>1, Moved
  <1> QED BY <1>1, <1>4, <1>5, <1>6, <1>7, TableKept, NothingClaimed, VersionsFrame DEF Remaining

LEMMA StartVersions ==
  ASSUME Rubric!VersionsInv, NEW q \in FormatRequests, Rubric!Start(q)
  PROVE  Rubric!VersionsInv'
  <1> USE DEF Rubric!Start
  <1>1. Rubric!TypeOK /\ UNCHANGED <<Rubric!table, Rubric!locks, Rubric!asked, deaths>>
    BY DEF Rubric!VersionsInv
  <1>2. /\ step' \in [FormatRequests ->
                        {"idle", "asked", "lock", "write", "parse", "done"}]
        /\ todo' \in [FormatRequests -> SUBSET Rubric!Ids]
        /\ todo'[q] = Rubric!ToLock(q) /\ todo'[q] \subseteq versions
        /\ \A p \in FormatRequests \ {q} : todo'[p] = todo[p]
    BY <1>1 DEF Rubric!TypeOK, Rubric!Goto, Rubric!ToLock
  <1>3. Rubric!TypeOK'
    BY <1>1, <1>2 DEF Rubric!TypeOK, Rubric!table, Rubric!locks, Rubric!asked
  <1>4. Guarded(q)
    BY <1>1, <1>2, Moved DEF Guarded, SameRequest, Rubric!table, Rubric!locks, Rubric!asked
  <1>5. Rubric!LocksApart' /\ todo'[q] \union {target'[q]} \subseteq used'
    BY <1>1, <1>2
       DEF Rubric!VersionsInv, Rubric!LocksApart, Rubric!table, Rubric!locks, Rubric!asked,
           Rubric!TypeOK
  <1>6. step'[q] = "lock" /\ versions' = versions /\ asks'[q] = asks[q] /\ target'[q] = target[q]
    BY <1>1, Moved DEF Rubric!table, Rubric!asked
  <1>7. Rubric!ClaimsAllBefore(q)' /\ Rubric!ClaimsTarget(q)' /\ Rubric!StillMay(q)'
    BY <1>2, <1>6 DEF Rubric!ClaimsAllBefore, Rubric!ClaimsTarget, Rubric!StillMay,
                      Rubric!Claimed, Rubric!ToLock
  <1> QED BY <1>1, <1>3, <1>4, <1>5, <1>7, TableKept, VersionsFrame DEF Remaining

LEMMA LockVersions ==
  ASSUME Rubric!VersionsInv, NEW q \in FormatRequests, Rubric!Lock(q)
  PROVE  Rubric!VersionsInv'
  <1>1. /\ Rubric!TypeOK /\ UNCHANGED <<Rubric!table, step, Rubric!asked, deaths>>
        /\ step[q] = "lock" /\ Rubric!LocksApart /\ q # None
        /\ Rubric!ClaimsAllBefore(q) /\ Rubric!ClaimsTarget(q)
        /\ todo[q] \union {target[q]} \subseteq used
    BY VersionsConstants DEF Rubric!Lock, Rubric!VersionsInv
  <1>2. PICK v \in todo[q] :
          /\ \A w \in todo[q] : v <= w
          /\ \/ v \notin versions /\ UNCHANGED Rubric!locks
             \/ /\ v \in versions /\ Rubric!Free(q, v)
                /\ IF asks[q] = "check"
                   THEN readers' = [readers EXCEPT ![v] = @ \union {q}] /\ UNCHANGED writer
                   ELSE writer' = [writer EXCEPT ![v] = q] /\ UNCHANGED readers
          /\ todo' = [todo EXCEPT ![q] = @ \ {v}]
    BY DEF Rubric!Lock, Rubric!NextRow
  <1>3. v \in Rubric!Ids /\ v \in used /\ todo'[q] = todo[q] \ {v}
        /\ todo' \in [FormatRequests -> SUBSET Rubric!Ids]
        /\ \A p \in FormatRequests \ {q} : todo'[p] = todo[p]
    BY <1>1, <1>2 DEF Rubric!TypeOK
  <1> DEFINE Shut == /\ writer' = writer
                     /\ readers' = [readers EXCEPT ![v] = @ \union {q}] /\ writer[v] = None
                     /\ asks[q] = "check"
             Held == /\ readers' = readers
                     /\ writer' = [writer EXCEPT ![v] = q] /\ writer[v] = None
                     /\ asks[q] # "check" /\ readers[v] = {}
  <1>4. /\ v \notin versions => writer' = writer /\ readers' = readers
        /\ v \in versions => Shut \/ Held
    BY <1>2 DEF Rubric!locks, Rubric!Free
  <1>41. /\ writer' \in [Rubric!Ids -> FormatRequests \union {None}]
         /\ readers' \in [Rubric!Ids -> SUBSET FormatRequests]
    <2>1. /\ writer \in [Rubric!Ids -> FormatRequests \union {None}]
          /\ readers \in [Rubric!Ids -> SUBSET FormatRequests]
      BY <1>1 DEF Rubric!TypeOK
    <2>2. CASE Shut
      BY <1>3, <2>1, <2>2
    <2>3. CASE Held
      BY <1>3, <2>1, <2>3
    <2> QED BY <1>4, <2>1, <2>2, <2>3
  <1>5. Rubric!TypeOK'
    BY <1>1, <1>3, <1>41 DEF Rubric!TypeOK, Rubric!table, Rubric!asked
  <1>6. Rubric!LocksApart'
    BY <1>1, <1>3, <1>4 DEF Rubric!LocksApart, Rubric!table, Rubric!TypeOK
  <1>7. Guarded(q)
    <2>1. ASSUME NEW p \in FormatRequests \ {q}, NEW u \in Rubric!Ids
          PROVE  /\ writer'[u] = p <=> writer[u] = p
                 /\ p \in readers'[u] <=> p \in readers[u]
      <3>1. p # q /\ p # None
        BY VersionsConstants
      <3>2. writer \in [Rubric!Ids -> FormatRequests \union {None}]
            /\ readers \in [Rubric!Ids -> SUBSET FormatRequests]
        BY <1>1 DEF Rubric!TypeOK
      <3>3. CASE Shut
        BY <1>3, <3>1, <3>2, <3>3
      <3>4. CASE Held
        BY <1>3, <3>1, <3>2, <3>4
      <3> QED BY <1>4, <3>3, <3>4
    <2> QED BY <1>1, <1>3, <2>1 DEF Guarded, SameRequest, Rubric!table, Rubric!asked
  <1>8. /\ asks[q] # "check" => Rubric!Claimed(q)' \subseteq Rubric!Claimed(q)
        /\ asks[q] # "check" => \A u \in versions : u \in Rubric!Claimed(q) => u \in Rubric!Claimed(q)'
    BY <1>1, <1>2, <1>3 DEF Rubric!Claimed, Rubric!locks, Rubric!TypeOK
  <1>9. step'[q] = "lock" /\ versions' = versions /\ asks'[q] = asks[q] /\ target'[q] = target[q]
    BY <1>1 DEF Rubric!table, Rubric!asked
  <1>10. Rubric!ClaimsAllBefore(q)'
    BY <1>1, <1>8, <1>9 DEF Rubric!ClaimsAllBefore, Rubric!Locking
  <1>11. Rubric!ClaimsTarget(q)'
    BY <1>1, <1>2, <1>3, <1>9 DEF Rubric!ClaimsTarget, Rubric!Locking, Rubric!TypeOK, Rubric!locks
  <1>12. Rubric!StillMay(q)' /\ todo'[q] \union {target'[q]} \subseteq used'
    BY <1>1, <1>3, <1>9 DEF Rubric!StillMay, Rubric!table
  <1> QED BY <1>1, <1>5, <1>6, <1>7, <1>10, <1>11, <1>12, TableKept, VersionsFrame DEF Remaining

LEMMA DecideVersions ==
  ASSUME Rubric!VersionsInv, NEW q \in FormatRequests, Rubric!Decide(q)
  PROVE  Rubric!VersionsInv'
  <1>1. /\ Rubric!TypeOK /\ UNCHANGED <<Rubric!table, Rubric!asked, todo, deaths>>
        /\ step[q] = "lock" /\ todo[q] = {} /\ Rubric!LocksApart /\ q # None
        /\ Rubric!ClaimsAllBefore(q) /\ Rubric!ClaimsTarget(q) /\ target[q] \in used
    BY VersionsConstants DEF Rubric!Decide, Rubric!VersionsInv
  <1>2. CASE Rubric!May(q)
    <2>1. Rubric!Goto(q, "write") /\ UNCHANGED Rubric!locks
      BY <1>2 DEF Rubric!Decide
    <2>2. step'[q] = "write" /\ UNCHANGED <<writer, readers, versions, active, pinned, number>>
          /\ UNCHANGED <<asks, target, todo>>
      BY <1>1, <2>1, Moved DEF Rubric!locks, Rubric!table, Rubric!asked
    <2>3. Rubric!TypeOK'
      BY <1>1, <2>1 DEF Rubric!TypeOK, Rubric!table, Rubric!locks, Rubric!asked, Rubric!Goto
    <2>4. Guarded(q)
      BY <1>1, <2>1, Moved DEF Guarded, SameRequest, Rubric!table, Rubric!locks, Rubric!asked
    <2>5. Rubric!ClaimsAllBefore(q)' /\ Rubric!ClaimsTarget(q)'
      BY <1>1, <2>2 DEF Rubric!ClaimsAllBefore, Rubric!ClaimsTarget, Rubric!Locking, Rubric!Claimed
    <2>6. Rubric!StillMay(q)'
      BY <1>1, <1>2, <2>2 DEF Rubric!StillMay, Rubric!May, Rubric!CanEdit, Rubric!IsLatest
    <2>7. Rubric!LocksApart' /\ todo'[q] \union {target'[q]} \subseteq used'
      BY <1>1, <2>2 DEF Rubric!LocksApart, Rubric!table
    <2> QED BY <1>1, <2>3, <2>4, <2>5, <2>6, <2>7, TableKept, VersionsFrame DEF Remaining
  <1>3. CASE ~Rubric!May(q)
    <2>1. Rubric!Goto(q, "done") /\ Rubric!Release(q) /\ used' = used
      BY <1>1, <1>3 DEF Rubric!Decide, Rubric!table
    <2>2. Rubric!TypeOK'
      BY <1>1, <2>1, Released DEF Rubric!TypeOK, Rubric!table, Rubric!asked, Rubric!Goto
    <2>3. Guarded(q)
      BY <1>1, <2>1, Moved, Released DEF Guarded, SameRequest, Rubric!table, Rubric!asked
    <2>4. step'[q] = "done"
      BY <1>1, <2>1, Moved
    <2>5. todo'[q] \union {target'[q]} \subseteq used'
      BY <1>1, <2>1 DEF Rubric!asked
    <2> QED BY <1>1, <2>1, <2>2, <2>3, <2>4, <2>5, TableKept, Released, NothingClaimed, VersionsFrame
            DEF Remaining
  <1> QED BY <1>2, <1>3

\* A refused save, or a death.
LEMMA EndVersions ==
  ASSUME Rubric!VersionsInv, NEW q \in FormatRequests, Rubric!RefuseOpen(q) \/ Rubric!Die(q)
  PROVE  Rubric!VersionsInv'
  <1>1. /\ Rubric!TypeOK /\ UNCHANGED <<Rubric!table, Rubric!asked, todo>>
        /\ Rubric!Goto(q, "done") /\ Rubric!Release(q) /\ used' = used
        /\ todo[q] \union {target[q]} \subseteq used
    BY DEF Rubric!RefuseOpen, Rubric!Die, Rubric!VersionsInv, Rubric!table
  <1>2. deaths' \in 0..MaxDeaths
    <2>1. deaths' = deaths \/ (deaths < MaxDeaths /\ deaths' = deaths + 1)
      BY DEF Rubric!RefuseOpen, Rubric!Die
    <2>2. deaths \in 0..MaxDeaths
      BY <1>1 DEF Rubric!TypeOK
    <2> QED BY <2>1, <2>2, VersionsConstants
  <1>3. Rubric!TypeOK'
    <2>1. step' \in [FormatRequests -> {"idle", "asked", "lock", "write", "parse", "done"}]
      BY <1>1 DEF Rubric!Goto, Rubric!TypeOK
    <2> QED BY <1>1, <1>2, <2>1, Released DEF Rubric!TypeOK, Rubric!table, Rubric!asked
  <1>4. Guarded(q)
    BY <1>1, Moved, Released DEF Guarded, SameRequest, Rubric!table, Rubric!asked
  <1>5. step'[q] = "done"
    BY <1>1, Moved
  <1>6. todo'[q] \union {target'[q]} \subseteq used'
    BY <1>1 DEF Rubric!asked
  <1> QED BY <1>1, <1>3, <1>4, <1>5, <1>6, TableKept, Released, NothingClaimed, VersionsFrame
          DEF Remaining

-----------------------------------------------------------------------------
(* What is written.                                                        *)

TableTyped ==
  /\ versions \subseteq used /\ used \subseteq Rubric!Ids
  /\ number \in [Rubric!Ids -> 0..LastId]
  /\ criteria \in [Rubric!Ids -> Nat] /\ revision \in [Rubric!Ids -> Nat]
  /\ open \subseteq used /\ noted \subseteq used /\ open \subseteq noted
  /\ active \subseteq versions /\ pinned \subseteq versions
  /\ program \in [Rubric!Ids -> Programs \union {None}]

TableGuarded(q) ==
  /\ used \subseteq used'
  /\ \A v \in versions \ versions' : writer[v] \in {q, None} /\ readers[v] \subseteq {q}
  /\ \A v \in versions' \ versions :
       v \notin used /\ step[q] = "write" /\ asks[q] = "upload"
  /\ \A v \in versions : number'[v] = number[v]
  /\ \A v \in active \ active' : readers[v] \subseteq {q}
  /\ \A v \in pinned' \ pinned : q \in readers[v]

LEMMA Committed ==
  ASSUME Rubric!VersionsInv, NEW q \in FormatRequests, NEW place \in {"done", "parse"},
         Rubric!Goto(q, place), Rubric!Release(q) \/ UNCHANGED Rubric!locks,
         UNCHANGED <<asks, loaded, todo, deaths>>,
         target' \in [FormatRequests -> Rubric!Ids], target'[q] \in used',
         \A p \in FormatRequests \ {q} : target'[p] = target[p],
         TableTyped', TableGuarded(q),
         Rubric!OneActive', Rubric!FamilyAgrees', Rubric!VersionsRise'
  PROVE  Rubric!VersionsInv'
  <1>1. Rubric!TypeOK /\ Rubric!LocksApart /\ todo[q] \subseteq used /\ used \subseteq used'
    BY DEF Rubric!VersionsInv, TableGuarded
  <1>2. /\ writer' \in [Rubric!Ids -> FormatRequests \union {None}]
        /\ readers' \in [Rubric!Ids -> SUBSET FormatRequests]
        /\ Rubric!LocksApart'
        /\ \A p \in FormatRequests \ {q}, v \in Rubric!Ids :
             /\ writer'[v] = p <=> writer[v] = p
             /\ p \in readers'[v] <=> p \in readers[v]
    <2>1. CASE Rubric!Release(q)
      BY <1>1, <2>1, Released
    <2>2. CASE UNCHANGED Rubric!locks
      BY <1>1, <2>2 DEF Rubric!locks, Rubric!TypeOK, Rubric!LocksApart
    <2> QED BY <2>1, <2>2
  <1>3. step'[q] = place /\ \A p \in FormatRequests \ {q} : step'[p] = step[p]
    BY <1>1, Moved
  <1>4. Rubric!TypeOK'
    <2>1. step' \in [FormatRequests -> {"idle", "asked", "lock", "write", "parse", "done"}]
      BY <1>1 DEF Rubric!Goto, Rubric!TypeOK
    <2> QED BY <1>1, <1>2, <2>1 DEF Rubric!TypeOK, TableTyped
  <1>5. Guarded(q)
    BY <1>2, <1>3 DEF Guarded, TableGuarded, SameRequest
  <1>6. step'[q] \notin {"lock", "write"} /\ todo'[q] \union {target'[q]} \subseteq used'
    BY <1>1, <1>3
  <1> QED BY <1>2, <1>4, <1>5, <1>6, NothingClaimed, VersionsFrame DEF Remaining

\* The same for a step that leaves the target alone.
LEMMA Written ==
  ASSUME Rubric!VersionsInv, NEW q \in FormatRequests, Rubric!Goto(q, "done"),
         Rubric!Release(q) \/ UNCHANGED Rubric!locks,
         UNCHANGED <<Rubric!asked, todo, deaths>>,
         TableTyped', TableGuarded(q),
         Rubric!OneActive', Rubric!FamilyAgrees', Rubric!VersionsRise'
  PROVE  Rubric!VersionsInv'
  <1>1. target \in [FormatRequests -> Rubric!Ids] /\ target[q] \in used /\ used \subseteq used'
    BY DEF Rubric!VersionsInv, Rubric!TypeOK, TableGuarded
  <1>2. UNCHANGED <<asks, loaded, target>>
    BY DEF Rubric!asked
  <1> QED BY <1>1, <1>2, Committed

\* What a request that writes has locked.
LEMMA Decided ==
  ASSUME Rubric!VersionsInv, NEW q \in FormatRequests, step[q] = "write"
  PROVE  /\ asks[q] \in {"save", "confirm", "activate", "delete", "annotate"} =>
              target[q] \in versions /\ writer[target[q]] = q /\ readers[target[q]] = {}
         /\ asks[q] = "check" => target[q] \in active /\ q \in readers[target[q]]
         /\ asks[q] \in {"save", "confirm"} => Rubric!CanEdit(target[q])
         /\ asks[q] = "delete" => target[q] \notin pinned
         /\ asks[q] = "upload" => \E w \in versions : writer[w] = q
  <1>1. Rubric!StillMay(q) /\ Rubric!ClaimsTarget(q) /\ Rubric!LocksApart /\ Rubric!TypeOK
    BY DEF Rubric!VersionsInv
  <1>2. target[q] \in Rubric!Ids /\ q # None /\ todo[q] = {}
    BY <1>1, VersionsConstants DEF Rubric!TypeOK, Rubric!StillMay
  <1> QED BY <1>1, <1>2 DEF Rubric!StillMay, Rubric!ClaimsTarget, Rubric!Locking, Rubric!LocksApart

LEMMA SaveVersions ==
  ASSUME Rubric!VersionsInv, NEW q \in FormatRequests, Rubric!Save(q)
  PROVE  Rubric!VersionsInv'
  <1> DEFINE v == target[q]
  <1>1. /\ Rubric!TypeOK /\ v \in versions /\ v \in Rubric!Ids
        /\ readers[v] = {}
    BY Decided DEF Rubric!Save, Rubric!VersionsInv, Rubric!TypeOK
  <1>2. /\ Rubric!Goto(q, "done") /\ Rubric!Release(q)
        /\ UNCHANGED <<versions, used, number, program, pinned, Rubric!asked, todo, deaths>>
        /\ criteria' = [criteria EXCEPT ![v] = @ + 1]
        /\ revision' = [revision EXCEPT ![v] = @ + 1]
        /\ \/ open' = open \ {v} /\ UNCHANGED noted
           \/ open' = open \union {v} /\ noted' = noted \union {v}
    BY DEF Rubric!Save
  <1>3. \/ UNCHANGED active
        \/ active' = {v} /\ \A u \in versions : Rubric!Writable(q, u)
    BY DEF Rubric!Save, Rubric!ActivateOnly
  <1>4. TableTyped'
    <2>1. criteria' \in [Rubric!Ids -> Nat] /\ revision' \in [Rubric!Ids -> Nat]
      BY <1>1, <1>2 DEF Rubric!TypeOK
    <2>2. open' \subseteq used /\ noted' \subseteq used /\ open' \subseteq noted'
      BY <1>1, <1>2 DEF Rubric!TypeOK
    <2> QED BY <1>1, <1>2, <1>3, <2>1, <2>2 DEF Rubric!TypeOK, TableTyped
  <1>5. TableGuarded(q)
    BY <1>1, <1>2, <1>3 DEF TableGuarded, Rubric!Writable, Rubric!TypeOK
  <1>6. Rubric!OneActive' /\ Rubric!FamilyAgrees' /\ Rubric!VersionsRise'
    BY <1>2, <1>3 DEF Rubric!VersionsInv, Rubric!OneActive, Rubric!FamilyAgrees, Rubric!VersionsRise
  <1> QED BY <1>2, <1>4, <1>5, <1>6, Written

LEMMA ActivateVersions ==
  ASSUME Rubric!VersionsInv, NEW q \in FormatRequests, Rubric!Activate(q)
  PROVE  Rubric!VersionsInv'
  <1> DEFINE v == target[q]
  <1>1. /\ Rubric!TypeOK /\ v \in versions /\ v \in Rubric!Ids
    BY Decided DEF Rubric!Activate, Rubric!VersionsInv, Rubric!TypeOK
  <1>2. /\ Rubric!Goto(q, "done") /\ Rubric!Release(q)
        /\ UNCHANGED <<versions, used, number, criteria, open, noted, program, pinned,
                       Rubric!asked, todo, deaths>>
        /\ revision' = [revision EXCEPT ![v] = @ + 1]
        /\ active' = {v} /\ \A u \in versions : Rubric!Writable(q, u)
    BY DEF Rubric!Activate, Rubric!ActivateOnly
  <1>3. TableTyped'
    BY <1>1, <1>2 DEF Rubric!TypeOK, TableTyped
  <1>4. TableGuarded(q)
    BY <1>1, <1>2 DEF TableGuarded, Rubric!Writable, Rubric!TypeOK
  <1>5. Rubric!OneActive' /\ Rubric!FamilyAgrees' /\ Rubric!VersionsRise'
    BY <1>2 DEF Rubric!VersionsInv, Rubric!OneActive, Rubric!FamilyAgrees, Rubric!VersionsRise
  <1> QED BY <1>2, <1>3, <1>4, <1>5, Written

LEMMA DeleteVersions ==
  ASSUME Rubric!VersionsInv, NEW q \in FormatRequests, Rubric!Delete(q)
  PROVE  Rubric!VersionsInv'
  <1> DEFINE v == target[q]
  <1>1. /\ Rubric!TypeOK /\ v \in Rubric!Ids /\ writer[v] = q /\ readers[v] = {}
        /\ v \notin pinned
    BY Decided DEF Rubric!Delete, Rubric!VersionsInv, Rubric!TypeOK
  <1>2. /\ Rubric!Goto(q, "done") /\ Rubric!Release(q)
        /\ UNCHANGED <<used, number, criteria, revision, open, noted, program, pinned,
                       Rubric!asked, todo, deaths>>
        /\ versions' = versions \ {v} /\ active' = active \ {v}
    BY DEF Rubric!Delete
  <1>3. TableTyped'
    BY <1>1, <1>2 DEF Rubric!TypeOK, TableTyped
  <1>4. TableGuarded(q)
    BY <1>1, <1>2 DEF TableGuarded, Rubric!TypeOK
  <1>5. Rubric!OneActive' /\ Rubric!FamilyAgrees' /\ Rubric!VersionsRise'
    BY <1>2 DEF Rubric!VersionsInv, Rubric!OneActive, Rubric!FamilyAgrees, Rubric!VersionsRise
  <1> QED BY <1>2, <1>3, <1>4, <1>5, Written

LEMMA SetProgramVersions ==
  ASSUME Rubric!VersionsInv, NEW q \in FormatRequests, Rubric!SetProgram(q)
  PROVE  Rubric!VersionsInv'
  <1>1. Rubric!TypeOK
    BY DEF Rubric!VersionsInv
  <1>2. PICK p \in Programs \union {None} :
          program' = [v \in Rubric!Ids |-> IF v \in versions THEN p ELSE program[v]]
    BY DEF Rubric!SetProgram
  <1>3. /\ Rubric!Goto(q, "done") /\ Rubric!Release(q)
        /\ UNCHANGED <<versions, used, number, criteria, revision, open, noted, active, pinned,
                       Rubric!asked, todo, deaths>>
    BY DEF Rubric!SetProgram
  <1>4. TableTyped'
    BY <1>1, <1>2, <1>3 DEF Rubric!TypeOK, TableTyped
  <1>5. TableGuarded(q)
    BY <1>1, <1>3 DEF TableGuarded
  <1>6. Rubric!OneActive' /\ Rubric!FamilyAgrees' /\ Rubric!VersionsRise'
    BY <1>1, <1>2, <1>3
       DEF Rubric!VersionsInv, Rubric!OneActive, Rubric!FamilyAgrees, Rubric!VersionsRise,
           Rubric!TypeOK
  <1> QED BY <1>3, <1>4, <1>5, <1>6, Written

LEMMA CreateCheckVersions ==
  ASSUME Rubric!VersionsInv, NEW q \in FormatRequests, Rubric!CreateCheck(q)
  PROVE  Rubric!VersionsInv'
  <1> DEFINE v == target[q]
  <1>1. /\ Rubric!TypeOK /\ v \in active /\ q \in readers[v]
    BY Decided DEF Rubric!CreateCheck, Rubric!VersionsInv
  <1>2. /\ Rubric!Goto(q, "done") /\ Rubric!Release(q)
        /\ UNCHANGED <<versions, used, number, criteria, revision, open, noted, active, program,
                       Rubric!asked, todo, deaths>>
        /\ pinned' = pinned \union {v}
    BY DEF Rubric!CreateCheck
  <1>3. TableTyped'
    BY <1>1, <1>2 DEF Rubric!TypeOK, TableTyped
  <1>4. TableGuarded(q)
    BY <1>1, <1>2 DEF TableGuarded
  <1>5. Rubric!OneActive' /\ Rubric!FamilyAgrees' /\ Rubric!VersionsRise'
    BY <1>2 DEF Rubric!VersionsInv, Rubric!OneActive, Rubric!FamilyAgrees, Rubric!VersionsRise
  <1> QED BY <1>2, <1>3, <1>4, <1>5, Written

LEMMA AnnotateVersions ==
  ASSUME Rubric!VersionsInv, NEW q \in FormatRequests, Rubric!Annotate(q)
  PROVE  Rubric!VersionsInv'
  <1> DEFINE v == target[q]
  <1>1. /\ Rubric!TypeOK /\ v \in used /\ v \in Rubric!Ids
    BY DEF Rubric!VersionsInv, Rubric!TypeOK
  <1>2. /\ Rubric!Goto(q, "done") /\ Rubric!Release(q)
        /\ UNCHANGED <<versions, used, number, criteria, active, program, pinned,
                       Rubric!asked, todo, deaths>>
        /\ revision' = [revision EXCEPT ![v] = @ + 1]
    BY DEF Rubric!Annotate
  <1>3. PICK issues \in SUBSET {v} : open' = open \union issues /\ noted' = noted \union issues
    BY DEF Rubric!Annotate
  <1>4. TableTyped'
    BY <1>1, <1>2, <1>3 DEF Rubric!TypeOK, TableTyped
  <1>5. TableGuarded(q)
    BY <1>1, <1>2 DEF TableGuarded
  <1>6. Rubric!OneActive' /\ Rubric!FamilyAgrees' /\ Rubric!VersionsRise'
    BY <1>2 DEF Rubric!VersionsInv, Rubric!OneActive, Rubric!FamilyAgrees, Rubric!VersionsRise
  <1> QED BY <1>2, <1>4, <1>5, <1>6, Written

-----------------------------------------------------------------------------
(* The upload of a new version.                                            *)

Below == {ss \in Nat \X Nat : ss[1] < ss[2]}

LEMMA BelowFounded == IsWellFoundedOn(Below, Nat)
  BY NatLessThanWellFounded, Zenon DEF OpToRel, Below

\* A nonempty set of ids has a largest one.
LEMMA LargestId ==
  ASSUME NEW S, S \subseteq Rubric!Ids, S # {}
  PROVE  \E v \in S : \A w \in S : w <= v
  <1> DEFINE T == {LastId - v : v \in S}
  <1>1. T \subseteq Nat /\ T # {}
    <2>1. ASSUME NEW v \in S PROVE LastId - v \in Nat
      BY VersionsConstants
    <2> QED BY <2>1
  <1>2. PICK x \in T : \A y \in T : ~(<<y, x>> \in Below)
    <2> HIDE DEF T
    <2> QED BY <1>1, WFMin, BelowFounded
  <1>3. ASSUME NEW y \in T PROVE ~(y < x)
    <2>1. y \in Nat /\ x \in Nat
      BY <1>1
    <2> QED BY <1>2, <2>1 DEF Below
  <1>4. PICK v \in S : x = LastId - v
    OBVIOUS
  <1>5. ASSUME NEW w \in S PROVE w <= v
    <2>1. LastId - w \in T
      OBVIOUS
    <2>2. ~(LastId - w < LastId - v)
      BY <1>3, <1>4, <2>1
    <2>3. w \in 1..LastId /\ v \in 1..LastId
      BY VersionsConstants
    <2> QED BY <2>2, <2>3, VersionsConstants
  <1> QED BY <1>5

LEMMA InsertVersions ==
  ASSUME Rubric!VersionsInv, NEW q \in FormatRequests, Rubric!Insert(q)
  PROVE  Rubric!VersionsInv'
  <1> DEFINE v == CHOOSE w \in Rubric!Ids \ used : \A u \in Rubric!Ids \ used : w <= u
  <1>1. /\ Rubric!TypeOK /\ Rubric!VersionsRise /\ step[q] = "write" /\ asks[q] = "upload"
        /\ versions # {}
    BY Decided DEF Rubric!Insert, Rubric!VersionsInv
  <1>2. /\ used # Rubric!Ids
        /\ versions' = versions \union {v} /\ used' = used \union {v}
        /\ number' = [number EXCEPT ![v] = Rubric!NextNumber]
        /\ program' = [program EXCEPT ![v] = Rubric!SiblingProgram]
        /\ target' = [target EXCEPT ![q] = v]
        /\ Rubric!Goto(q, "parse") /\ Rubric!Release(q)
        /\ UNCHANGED <<criteria, revision, open, noted, active, pinned, asks, loaded, todo, deaths>>
    BY Zenon DEF Rubric!Insert
  <1>3. PICK k \in 1..LastId : used = 1..k
    BY <1>1 DEF Rubric!VersionsRise
  <1>4. k + 1 \in 1..LastId
    BY <1>2, <1>3, VersionsConstants
  <1>5. v = k + 1
    BY <1>3, <1>4, VersionsConstants
  <1> HIDE DEF v
  \* Its number is one more than that of the latest.
  <1>6. PICK u \in versions : Rubric!IsLatest(u) /\ Rubric!NextNumber = 1 + number[u]
    <2>1. PICK w \in versions : \A x \in versions : x <= w
      BY <1>1, LargestId DEF Rubric!TypeOK
    <2>2. Rubric!IsLatest(w)
      <3> SUFFICES ASSUME NEW x \in versions PROVE number[x] <= number[w]
        BY DEF Rubric!IsLatest
      <3>1. x \in Rubric!Ids /\ w \in Rubric!Ids
        BY <1>1 DEF Rubric!TypeOK
      <3>2. number[x] \in Nat /\ number[w] \in Nat
        BY <1>1, <3>1 DEF Rubric!TypeOK
      <3>3. x < w => number[x] < number[w]
        BY <1>1 DEF Rubric!VersionsRise
      <3>4. x < w \/ x = w
        BY <2>1, <3>1, VersionsConstants
      <3> QED BY <3>2, <3>3, <3>4
    <2> QED BY <2>2 DEF Rubric!NextNumber
  <1>7. /\ u \in 1..k /\ number[u] <= u /\ number[u] \in Nat
        /\ Rubric!NextNumber \in 0..LastId /\ Rubric!NextNumber <= k + 1
        /\ \A w \in versions : number[w] \in Nat /\ number[w] < Rubric!NextNumber
    <2>1. \A w \in versions : w \in 1..k /\ w \in Rubric!Ids
      BY <1>1, <1>3 DEF Rubric!TypeOK
    <2>2. \A w \in versions : number[w] \in Nat /\ number[w] <= number[u]
      BY <1>1, <1>6, <2>1 DEF Rubric!TypeOK, Rubric!IsLatest
    <2>3. number[u] <= u
      BY <1>1, <2>1 DEF Rubric!VersionsRise
    <2> QED BY <1>4, <1>6, <2>1, <2>2, <2>3, VersionsConstants
  \* It names the program that all name.
  <1>8. PICK s \in versions : Rubric!SiblingProgram = program[s]
    BY <1>1 DEF Rubric!SiblingProgram
  <1>9. Rubric!SiblingProgram \in Programs \union {None}
    BY <1>1, <1>8 DEF Rubric!TypeOK
  <1>10. v \in Rubric!Ids /\ v \notin used /\ v \notin versions
    BY <1>1, <1>3, <1>4, <1>5, VersionsConstants DEF Rubric!TypeOK
  <1>11. TableTyped'
    BY <1>1, <1>2, <1>7, <1>9, <1>10 DEF TableTyped, Rubric!TypeOK
  <1>12. TableGuarded(q)
    BY <1>1, <1>2, <1>10 DEF TableGuarded, Rubric!TypeOK
  <1>13. Rubric!OneActive'
    BY <1>2 DEF Rubric!VersionsInv, Rubric!OneActive
  <1>14. Rubric!FamilyAgrees'
    BY <1>1, <1>2, <1>8, <1>10
       DEF Rubric!VersionsInv, Rubric!FamilyAgrees, Rubric!TypeOK
  <1>15. Rubric!VersionsRise'
    <2>1. used' = 1..(k + 1)
      BY <1>2, <1>3, <1>5
    <2>2. \A w \in Rubric!Ids : number'[w] <= w
      BY <1>1, <1>2, <1>5, <1>7 DEF Rubric!VersionsRise, Rubric!TypeOK
    <2>3. ASSUME NEW x \in versions', NEW y \in versions', x < y PROVE number'[x] < number'[y]
      <3>1. \A w \in versions : w \in 1..k /\ w \in Rubric!Ids /\ number'[w] = number[w]
        BY <1>1, <1>2, <1>3, <1>10 DEF Rubric!TypeOK
      <3>2. number'[v] = Rubric!NextNumber
        BY <1>1, <1>2, <1>10 DEF Rubric!TypeOK
      <3>3. x \in versions
        BY <1>2, <1>5, <2>3, <3>1
      <3>4. CASE y \in versions
        BY <1>1, <2>3, <3>1, <3>3, <3>4 DEF Rubric!VersionsRise
      <3>5. CASE y = v
        BY <1>7, <3>1, <3>2, <3>3, <3>5
      <3> QED BY <1>2, <3>4, <3>5
    <2> QED BY <1>4, <2>1, <2>2, <2>3 DEF Rubric!VersionsRise
  <1>16. /\ target' \in [FormatRequests -> Rubric!Ids] /\ target'[q] \in used'
         /\ \A p \in FormatRequests \ {q} : target'[p] = target[p]
    BY <1>1, <1>2, <1>10 DEF Rubric!TypeOK
  <1> QED BY <1>2, <1>11, <1>12, <1>13, <1>14, <1>15, <1>16, Committed

LEMMA FinishVersions ==
  ASSUME Rubric!VersionsInv, NEW q \in FormatRequests, Rubric!Finish(q)
  PROVE  Rubric!VersionsInv'
  <1> DEFINE v == target[q]
  <1>1. /\ Rubric!TypeOK /\ v \in used /\ v \in Rubric!Ids
    BY DEF Rubric!VersionsInv, Rubric!TypeOK
  <1>2. /\ Rubric!Goto(q, "done") /\ UNCHANGED Rubric!locks
        /\ UNCHANGED <<versions, used, number, revision, active, program, pinned,
                       Rubric!asked, todo, deaths>>
    BY DEF Rubric!Finish
  <1>3. \/ UNCHANGED <<criteria, open, noted>>
        \/ /\ criteria' = [criteria EXCEPT ![v] = @ + 1]
           /\ \E issues \in SUBSET {v} :
                open' = (open \ {v}) \union issues /\ noted' = (noted \ {v}) \union issues
    BY DEF Rubric!Finish
  <1>4. TableTyped'
    BY <1>1, <1>2, <1>3 DEF Rubric!TypeOK, TableTyped
  <1>5. TableGuarded(q)
    BY <1>1, <1>2 DEF TableGuarded
  <1>6. Rubric!OneActive' /\ Rubric!FamilyAgrees' /\ Rubric!VersionsRise'
    BY <1>2 DEF Rubric!VersionsInv, Rubric!OneActive, Rubric!FamilyAgrees, Rubric!VersionsRise
  <1> QED BY <1>2, <1>4, <1>5, <1>6, Written

LEMMA FailVersions ==
  ASSUME Rubric!VersionsInv, NEW q \in FormatRequests, Rubric!Fail(q)
  PROVE  Rubric!VersionsInv'
  <1> DEFINE v == target[q]
  <1>1. Rubric!TypeOK
    BY DEF Rubric!VersionsInv
  <1>2. /\ Rubric!Goto(q, "done") /\ UNCHANGED Rubric!locks
        /\ UNCHANGED <<used, number, criteria, revision, open, noted, program, pinned,
                       Rubric!asked, todo, deaths>>
    BY DEF Rubric!Fail
  <1>3. \/ UNCHANGED <<versions, active>>
        \/ /\ v \notin versions \/ (Rubric!Writable(q, v) /\ v \notin pinned)
           /\ versions' = versions \ {v} /\ active' = active \ {v}
    BY DEF Rubric!Fail
  <1>4. TableTyped'
    BY <1>1, <1>2, <1>3 DEF Rubric!TypeOK, TableTyped
  <1>5. TableGuarded(q)
    BY <1>1, <1>2, <1>3 DEF TableGuarded, Rubric!Writable, Rubric!TypeOK
  <1>6. Rubric!OneActive' /\ Rubric!FamilyAgrees' /\ Rubric!VersionsRise'
    BY <1>2, <1>3 DEF Rubric!VersionsInv, Rubric!OneActive, Rubric!FamilyAgrees, Rubric!VersionsRise
  <1> QED BY <1>2, <1>4, <1>5, <1>6, Written

LEMMA NextVersions ==
  Rubric!VersionsInv /\ [Rubric!Next]_(Rubric!vars) => Rubric!VersionsInv'
  <1> SUFFICES ASSUME Rubric!VersionsInv, [Rubric!Next]_(Rubric!vars) PROVE Rubric!VersionsInv'
    OBVIOUS
  <1>1. ASSUME NEW q \in FormatRequests, Rubric!Step(q) PROVE Rubric!VersionsInv'
    BY <1>1, StartVersions, LockVersions, DecideVersions, SaveVersions, EndVersions,
       ActivateVersions, DeleteVersions, SetProgramVersions, CreateCheckVersions,
       AnnotateVersions, InsertVersions, FinishVersions, FailVersions DEF Rubric!Step
  <1>2. ASSUME NEW q \in FormatRequests, Rubric!Die(q) PROVE Rubric!VersionsInv'
    BY <1>2, EndVersions
  <1>3. ASSUME NEW q \in FormatRequests, NEW o \in Rubric!Ops, NEW v \in Rubric!Ids,
               Rubric!Ask(q, o, v)
        PROVE  Rubric!VersionsInv'
    BY <1>3, AskVersions
  <1>4. CASE UNCHANGED Rubric!vars
    <2>1. /\ UNCHANGED <<versions, used, number, criteria, revision, open, noted, active,
                         program, pinned, writer, readers, step, asks, target, loaded, todo,
                         deaths>>
      BY <1>4 DEF Rubric!vars, Rubric!table, Rubric!locks, Rubric!asked
    <2>2. Rubric!TypeOK' /\ Rubric!OneActive' /\ Rubric!FamilyAgrees'
      BY <2>1 DEF Rubric!VersionsInv, Rubric!TypeOK, Rubric!OneActive, Rubric!FamilyAgrees
    <2>3. Rubric!VersionsRise' /\ Rubric!LocksApart'
      BY <2>1 DEF Rubric!VersionsInv, Rubric!VersionsRise, Rubric!LocksApart
    <2>4. ASSUME NEW q \in FormatRequests
          PROVE  /\ (todo[q] \union {target[q]} \subseteq used)'
                 /\ Rubric!ClaimsAllBefore(q)' /\ Rubric!ClaimsTarget(q)' /\ Rubric!StillMay(q)'
      <3>1. /\ todo[q] \union {target[q]} \subseteq used
            /\ Rubric!ClaimsAllBefore(q) /\ Rubric!ClaimsTarget(q) /\ Rubric!StillMay(q)
        BY DEF Rubric!VersionsInv
      <3>2. Rubric!ClaimsAllBefore(q)'
        BY <2>1, <3>1 DEF Rubric!ClaimsAllBefore, Rubric!Claimed, Rubric!Locking
      <3>3. Rubric!ClaimsTarget(q)'
        BY <2>1, <3>1 DEF Rubric!ClaimsTarget, Rubric!Locking
      <3>4. Rubric!CanEdit(target[q])' = Rubric!CanEdit(target[q])
        BY <2>1 DEF Rubric!CanEdit, Rubric!IsLatest
      <3>5. Rubric!StillMay(q)'
        BY <2>1, <3>1, <3>4 DEF Rubric!StillMay
      <3> QED BY <2>1, <3>1, <3>2, <3>3, <3>5
    <2> QED BY <2>2, <2>3, <2>4 DEF Rubric!VersionsInv
  <1> QED BY <1>1, <1>2, <1>3, <1>4 DEF Rubric!Next

\* The claims of the requests on the rows of the family, with the rising numbers,
\* hold in every state, for any number of requests, versions and programs.
THEOREM VersionsInductive == Rubric!Spec => []Rubric!VersionsInv
  BY InitVersions, NextVersions, PTL DEF Rubric!Spec

\* No save touches a version in use or replaced, no check is pinned to a version
\* that is not active, and a family never has two active versions, two programs
\* or the same number twice.
THEOREM VersionsTheorem == Rubric!Spec => VersionsKept
  <1>1. Rubric!VersionsInv =>
          Rubric!TypeOK /\ Rubric!OneActive /\ Rubric!FamilyAgrees /\ Rubric!NumbersDistinct
    <2> SUFFICES ASSUME Rubric!VersionsInv, NEW v \in versions, NEW w \in versions, v # w
                 PROVE  number[v] # number[w]
      BY DEF Rubric!VersionsInv, Rubric!NumbersDistinct
    <2>1. Rubric!TypeOK /\ Rubric!VersionsRise
      BY DEF Rubric!VersionsInv
    <2>2. v \in Rubric!Ids /\ w \in Rubric!Ids
      BY <2>1 DEF Rubric!TypeOK
    <2>3. v < w \/ w < v
      BY <2>2, VersionsConstants
    <2>4. number[v] \in Nat /\ number[w] \in Nat
      BY <2>1, <2>2 DEF Rubric!TypeOK
    <2> QED BY <2>1, <2>3, <2>4 DEF Rubric!VersionsRise
  <1>2. Rubric!VersionsInv /\ [Rubric!Next]_(Rubric!vars) =>
          [Rubric!UsedIsNotEdited /\ Rubric!CheckOnActive]_(Rubric!vars)
    <2> SUFFICES ASSUME Rubric!VersionsInv, Rubric!Next
                 PROVE  Rubric!UsedIsNotEdited /\ Rubric!CheckOnActive
      OBVIOUS
    <2>1. Rubric!UsedIsNotEdited
      BY Decided DEF Rubric!UsedIsNotEdited, Rubric!Save, Rubric!CanEdit
    <2>2. ASSUME NEW q \in FormatRequests, Rubric!CreateCheck(q) PROVE Rubric!CheckOnActive
      <3>1. target[q] \in active /\ pinned' = pinned \union {target[q]}
        BY <2>2, Decided DEF Rubric!CreateCheck
      <3> QED BY <3>1 DEF Rubric!CheckOnActive
    <2>3. (\E q \in FormatRequests : Rubric!CreateCheck(q)) \/ pinned' = pinned
      BY DEF Rubric!Next, Rubric!Step, Rubric!Ask, Rubric!Start, Rubric!Lock, Rubric!Decide,
             Rubric!Save, Rubric!RefuseOpen, Rubric!Activate, Rubric!Delete, Rubric!SetProgram,
             Rubric!Annotate, Rubric!Insert, Rubric!Finish, Rubric!Fail, Rubric!Die,
             Rubric!table
    <2> QED BY <2>1, <2>2, <2>3 DEF Rubric!CheckOnActive
  <1> QED BY <1>1, <1>2, VersionsInductive, PTL DEF Rubric!Spec, VersionsKept

-----------------------------------------------------------------------------
(* Who has the last of the locked versions goes on.                        *)

Acting(q) ==
  Rubric!Step(q) \/ Rubric!Die(q) \/ \E o \in Rubric!Ops, v \in Rubric!Ids : Rubric!Ask(q, o, v)

\* Rows are locked in the order of their ids.
OrderInv == \A q \in FormatRequests : Rubric!LocksInOrder(q)

\* Steps of one request leave the places, rows and locks of the others alone.
LEMMA OthersStand ==
  ASSUME Rubric!VersionsInv, NEW q \in FormatRequests, Acting(q)
  PROVE  \A p \in FormatRequests \ {q} : SameRequest(p)
  <1> SUFFICES ASSUME NEW p \in FormatRequests, p # q PROVE SameRequest(p)
    OBVIOUS
  <1>1. Rubric!TypeOK /\ p # None
    BY VersionsConstants DEF Rubric!VersionsInv
  <1>2. /\ step'[p] = step[p] /\ asks'[p] = asks[p] /\ target'[p] = target[p]
        /\ todo'[p] = todo[p]
    BY <1>1 DEF Rubric!TypeOK, Rubric!Goto, Rubric!asked, Acting, Rubric!Step, Rubric!Ask,
             Rubric!Start,
             Rubric!Lock, Rubric!Decide, Rubric!Save, Rubric!RefuseOpen, Rubric!Activate,
             Rubric!Delete, Rubric!SetProgram, Rubric!CreateCheck, Rubric!Annotate,
             Rubric!Insert, Rubric!Finish, Rubric!Fail, Rubric!Die
  <1>3. CASE Rubric!Lock(q)
    <2>1. /\ writer \in [Rubric!Ids -> FormatRequests \union {None}]
          /\ readers \in [Rubric!Ids -> SUBSET FormatRequests]
      BY <1>1 DEF Rubric!TypeOK
    <2>2. PICK v \in todo[q] :
            \/ UNCHANGED <<writer, readers>>
            \/ readers' = [readers EXCEPT ![v] = @ \union {q}] /\ writer' = writer
            \/ /\ writer' = [writer EXCEPT ![v] = q] /\ readers' = readers
               /\ writer[v] = None
      BY <1>3 DEF Rubric!Lock, Rubric!NextRow, Rubric!locks, Rubric!Free
    <2>3. ASSUME NEW u \in Rubric!Ids
          PROVE  /\ writer'[u] = p <=> writer[u] = p
                 /\ p \in readers'[u] <=> p \in readers[u]
      <3>1. CASE UNCHANGED <<writer, readers>>
        BY <3>1
      <3>2. CASE readers' = [readers EXCEPT ![v] = @ \union {q}] /\ writer' = writer
        <4>1. readers'[u] \in {readers[u], readers[u] \union {q}}
          BY <2>1, <3>2
        <4> QED BY <3>2, <4>1
      <3>3. CASE /\ writer' = [writer EXCEPT ![v] = q] /\ readers' = readers
                 /\ writer[v] = None
        <4>1. writer'[u] = writer[u] \/ (writer'[u] = q /\ writer[u] = None)
          BY <2>1, <3>3
        <4> QED BY <1>1, <3>3, <4>1
      <3> QED BY <2>2, <3>1, <3>2, <3>3
    <2> QED BY <1>2, <2>3 DEF SameRequest
  <1>4. CASE ~Rubric!Lock(q)
    <2>1. UNCHANGED Rubric!locks \/ Rubric!Release(q)
      BY <1>4 DEF Acting, Rubric!Step, Rubric!Ask, Rubric!Start,
             Rubric!Decide, Rubric!Save, Rubric!RefuseOpen, Rubric!Activate,
             Rubric!Delete, Rubric!SetProgram, Rubric!CreateCheck, Rubric!Annotate,
             Rubric!Insert, Rubric!Finish, Rubric!Fail, Rubric!Die
    <2> QED
      BY <1>1, <1>2, <2>1 DEF Rubric!Release, Rubric!locks, Rubric!TypeOK, SameRequest
  <1> QED BY <1>3, <1>4

LEMMA OthersInOrder ==
  ASSUME NEW p \in FormatRequests, SameRequest(p), Rubric!LocksInOrder(p)
  PROVE  Rubric!LocksInOrder(p)'
  <1>1. /\ \A v \in Rubric!Ids : Rubric!Has(p, v)' <=> Rubric!Has(p, v)
        /\ Rubric!Locking(p)' <=> Rubric!Locking(p)
        /\ todo'[p] = todo[p] /\ asks'[p] = asks[p] /\ target'[p] = target[p]
    BY DEF SameRequest, Rubric!Has, Rubric!Locking
  <1> QED BY <1>1 DEF Rubric!LocksInOrder, SameRequest

\* A request without locks is in order when it is not locking.
LEMMA NothingHad ==
  ASSUME NEW q \in FormatRequests, step'[q] \notin {"lock", "write"},
         \A v \in Rubric!Ids : ~Rubric!Has(q, v)'
  PROVE  Rubric!LocksInOrder(q)'
  BY DEF Rubric!LocksInOrder, Rubric!Has, Rubric!Locking

LEMMA OrderStep ==
  ASSUME Rubric!VersionsInv, OrderInv, NEW q \in FormatRequests, Acting(q)
  PROVE  Rubric!LocksInOrder(q)'
  <1>1. Rubric!TypeOK /\ q # None /\ Rubric!LocksInOrder(q)
    BY VersionsConstants DEF Rubric!VersionsInv, OrderInv
  <1>2. CASE Rubric!Start(q)
    <2>1. /\ step[q] = "asked" /\ todo'[q] = Rubric!ToLock(q) /\ step'[q] = "lock"
          /\ UNCHANGED <<writer, readers, asks, target>>
      BY <1>1, <1>2, Moved DEF Rubric!Start, Rubric!TypeOK, Rubric!locks, Rubric!asked
    <2>2. \A v \in Rubric!Ids : ~Rubric!Has(q, v) /\ ~Rubric!Has(q, v)'
      BY <1>1, <2>1 DEF Rubric!LocksInOrder, Rubric!Locking, Rubric!Has
    <2> QED BY <2>1, <2>2 DEF Rubric!LocksInOrder, Rubric!ToLock, Rubric!Has
  <1>3. CASE Rubric!Lock(q)
    <2>1. /\ step[q] = "lock" /\ UNCHANGED <<step, asks, target>>
          /\ writer \in [Rubric!Ids -> FormatRequests \union {None}]
          /\ readers \in [Rubric!Ids -> SUBSET FormatRequests]
          /\ todo \in [FormatRequests -> SUBSET Rubric!Ids]
      BY <1>1, <1>3 DEF Rubric!Lock, Rubric!asked, Rubric!TypeOK
    <2>2. PICK v \in todo[q] :
            /\ \A w \in todo[q] : v <= w
            /\ todo' = [todo EXCEPT ![q] = @ \ {v}]
            /\ \/ UNCHANGED <<writer, readers>>
               \/ asks[q] = "check" /\ readers' = [readers EXCEPT ![v] = @ \union {q}]
                  /\ UNCHANGED writer
               \/ asks[q] # "check" /\ writer' = [writer EXCEPT ![v] = q] /\ UNCHANGED readers
      BY <1>3 DEF Rubric!Lock, Rubric!NextRow, Rubric!locks
    <2>3. todo'[q] = todo[q] \ {v} /\ v \in Rubric!Ids
      BY <2>1, <2>2
    <2>4. \A u \in Rubric!Ids : Rubric!Has(q, u)' => Rubric!Has(q, u) \/ u = v
      BY <1>1, <2>1, <2>2, <2>3 DEF Rubric!Has
    <2>5. \A u \in Rubric!Ids : q \in readers'[u] => q \in readers[u] \/ asks[q] = "check"
      BY <2>1, <2>2, <2>3
    <2>6. \A w \in todo[q] \ {v} : v < w
      <3> SUFFICES ASSUME NEW w \in todo[q] \ {v} PROVE v < w
        OBVIOUS
      <3>1. w \in 1..LastId /\ v \in 1..LastId
        BY <2>1, <2>3, VersionsConstants
      <3> QED BY <2>2, <3>1, VersionsConstants
    <2>7. ASSUME NEW u \in Rubric!Ids, Rubric!Has(q, u)'
          PROVE  Rubric!Locking(q)' /\ \A w \in todo'[q] : u < w
      BY <1>1, <2>1, <2>3, <2>4, <2>6, <2>7 DEF Rubric!LocksInOrder, Rubric!Locking
    <2>8. \A u \in Rubric!Ids : q \in readers'[u] => asks'[q] = "check"
      BY <1>1, <2>1, <2>5 DEF Rubric!LocksInOrder
    <2>9. asks'[q] \in {"check", "annotate"} =>
            /\ todo'[q] \subseteq {target'[q]}
            /\ \A u \in Rubric!Ids : Rubric!Has(q, u)' => u = target'[q]
      BY <1>1, <2>1, <2>3, <2>4 DEF Rubric!LocksInOrder, Rubric!Locking
    <2> QED BY <2>7, <2>8, <2>9 DEF Rubric!LocksInOrder
  <1>4. CASE Rubric!Decide(q) /\ Rubric!May(q)
    <2>1. /\ step[q] = "lock" /\ step'[q] = "write"
          /\ UNCHANGED <<writer, readers, asks, target, todo>>
      BY <1>1, <1>4, Moved DEF Rubric!Decide, Rubric!locks, Rubric!asked
    <2> QED BY <1>1, <2>1 DEF Rubric!LocksInOrder, Rubric!Locking, Rubric!Has
  <1>5. CASE \/ Rubric!Finish(q) \/ Rubric!Fail(q)
             \/ \E o \in Rubric!Ops, v \in Rubric!Ids : Rubric!Ask(q, o, v)
    <2>1. /\ step[q] \notin {"lock", "write"} /\ step'[q] \notin {"lock", "write"}
          /\ UNCHANGED <<writer, readers>>
      BY <1>1, <1>5, Moved DEF Rubric!Finish, Rubric!Fail, Rubric!Ask, Rubric!locks
    <2>2. \A v \in Rubric!Ids : ~Rubric!Has(q, v)'
      BY <1>1, <2>1 DEF Rubric!LocksInOrder, Rubric!Locking, Rubric!Has
    <2> QED BY <2>1, <2>2, NothingHad
  <1>6. CASE \/ Rubric!Decide(q) /\ ~Rubric!May(q)
             \/ Rubric!Save(q) \/ Rubric!RefuseOpen(q) \/ Rubric!Activate(q) \/ Rubric!Delete(q)
             \/ Rubric!SetProgram(q) \/ Rubric!CreateCheck(q) \/ Rubric!Annotate(q)
             \/ Rubric!Insert(q) \/ Rubric!Die(q)
    <2>1. step'[q] \in {"done", "parse"} /\ Rubric!Release(q)
      BY <1>1, <1>6, Moved DEF Rubric!Decide, Rubric!Save, Rubric!RefuseOpen, Rubric!Activate,
             Rubric!Delete, Rubric!SetProgram, Rubric!CreateCheck, Rubric!Annotate,
             Rubric!Insert, Rubric!Die
    <2>2. \A v \in Rubric!Ids : ~Rubric!Has(q, v)'
      BY <1>1, <2>1 DEF Rubric!Release, Rubric!Has
    <2> QED BY <2>1, <2>2, NothingHad
  <1> QED BY <1>2, <1>3, <1>4, <1>5, <1>6 DEF Acting, Rubric!Step

LEMMA OrderNext ==
  Rubric!VersionsInv /\ OrderInv /\ [Rubric!Next]_(Rubric!vars) => OrderInv'
  <1> SUFFICES ASSUME Rubric!VersionsInv, OrderInv, [Rubric!Next]_(Rubric!vars) PROVE OrderInv'
    OBVIOUS
  <1>1. CASE Rubric!Next
    <2>1. PICK q \in FormatRequests : Acting(q)
      BY <1>1 DEF Rubric!Next, Acting
    <2> QED BY <2>1, OrderStep, OthersStand, OthersInOrder DEF OrderInv
  <1>2. CASE UNCHANGED Rubric!vars
    <2>1. \A p \in FormatRequests : SameRequest(p)
      BY <1>2 DEF Rubric!vars, Rubric!locks, Rubric!asked, SameRequest
    <2> QED BY <2>1, OthersInOrder DEF OrderInv
  <1> QED BY <1>1, <1>2

\* Whoever has the last of the locked rows does not wait.
LEMMA LastGoesOn == Rubric!VersionsInv /\ OrderInv => Rubric!NobodyIsStuck
  <1> SUFFICES ASSUME Rubric!VersionsInv, OrderInv, NEW q \in FormatRequests, Rubric!AtWork(q),
                      \A p \in FormatRequests : Rubric!AtWork(p) => Rubric!Waits(p)
               PROVE  FALSE
    BY DEF Rubric!NobodyIsStuck
  <1> DEFINE Locked == {v \in Rubric!Ids : writer[v] # None \/ readers[v] # {}}
  <1>1. /\ Rubric!TypeOK /\ Rubric!LocksApart /\ versions \subseteq Rubric!Ids
        /\ \A p \in FormatRequests :
             Rubric!LocksInOrder(p) /\ Rubric!ClaimsAllBefore(p) /\ Rubric!StillMay(p)
    BY DEF Rubric!VersionsInv, Rubric!TypeOK, OrderInv
  <1>2. /\ \A p \in FormatRequests, v \in versions : ~Rubric!Free(p, v) => v \in Locked
        /\ \A p \in FormatRequests, v \in versions : ~Rubric!Writable(p, v) => v \in Locked
    BY <1>1 DEF Rubric!Free, Rubric!Writable
  <1>3. Locked # {}
    BY <1>2 DEF Rubric!Waits
  <1>4. PICK v \in Locked : \A w \in Locked : w <= v
    BY <1>3, LargestId
  <1>5. PICK p \in FormatRequests : Rubric!Has(p, v)
    BY <1>1 DEF Rubric!TypeOK, Rubric!Has
  <1>6. Rubric!Locking(p) /\ Rubric!Waits(p)
    BY <1>1, <1>5 DEF Rubric!LocksInOrder, Rubric!Locking, Rubric!AtWork
  <1>7. ASSUME NEW u \in todo[p], u \in versions, ~Rubric!Free(p, u) PROVE FALSE
    <2>1. v < u /\ u <= v
      BY <1>1, <1>2, <1>4, <1>5, <1>7 DEF Rubric!LocksInOrder
    <2>2. u \in 1..LastId /\ v \in 1..LastId
      BY <1>1, <1>7, VersionsConstants
    <2> QED BY <2>1, <2>2, VersionsConstants
  <1>8. ASSUME step[p] = "write", asks[p] \in {"confirm", "activate", "program"},
               NEW u \in versions, ~Rubric!Writable(p, u)
        PROVE  FALSE
    <2>1. u <= v
      BY <1>2, <1>4, <1>8
    <2>2. v \in Rubric!Claimed(p) /\ todo[p] = {}
      BY <1>1, <1>5, <1>8 DEF Rubric!LocksInOrder, Rubric!Has, Rubric!Claimed, Rubric!StillMay
    <2>3. u \in Rubric!Claimed(p)
      BY <1>1, <1>6, <1>8, <2>1, <2>2 DEF Rubric!ClaimsAllBefore
    <2>4. writer[u] = p /\ readers[u] = {} /\ p # None
      BY <1>1, <2>2, <2>3, VersionsConstants DEF Rubric!Claimed, Rubric!LocksApart
    <2> QED BY <1>8, <2>4 DEF Rubric!Writable
  <1> QED BY <1>6, <1>7, <1>8 DEF Rubric!Waits, Rubric!Locking, Rubric!NextRow

THEOREM OrderInductive == Rubric!Spec => []OrderInv
  <1>1. Rubric!Init => OrderInv
    BY VersionsConstants DEF Rubric!Init, OrderInv, Rubric!LocksInOrder, Rubric!Has, Rubric!Locking
  <1> QED BY <1>1, OrderNext, VersionsInductive, PTL DEF Rubric!Spec

\* Requests on manuscripts, under their advisory and row locks, never all wait for
\* each other, nor do those that lock the versions of a format one by one.
THEOREM RequestsTheorem == Spec /\ Rubric!Spec => []RequestsGoOn
  <1>1. TypeOK /\ HeldInv /\ Rubric!VersionsInv /\ OrderInv => RequestsGoOn
    BY HolderGoesOn, LastGoesOn DEF RequestsGoOn
  <1>2. Spec => []TypeOK
    BY Inductive, PTL DEF IInv
  <1> QED BY <1>1, <1>2, HeldInductive, VersionsInductive, OrderInductive, PTL

-----------------------------------------------------------------------------
(* The storage that uploads reserve (UploadAttempts_proofs).               *)

Storage == INSTANCE UploadAttempts_proofs WITH at <- work

\* Storage promised to uploads stays within the budget while no worker has been
\* late with its lease: WithinBudget of UploadAttempts_proofs, for these variables.
THEOREM StorageTheorem == Upload!Spec => []ReservedInBudget
  <1>1. Upload!Init => Storage!Init
    BY DEF Upload!Init, Storage!Init
  <1>2. [Upload!Next]_(Upload!vars) => [Storage!Next]_(Storage!vars)
    BY Zenon DEF Upload!Next, Storage!Next, Upload!Step, Storage!Step, Upload!BeginUpload,
       Storage!BeginUpload, Upload!LinkExpires, Storage!LinkExpires, Upload!StartTransfer,
       Storage!StartTransfer, Upload!EndTransfer, Storage!EndTransfer, Upload!CleanUp,
       Storage!CleanUp, Upload!Lapse, Storage!Lapse, Upload!Claim, Storage!Claim,
       Upload!RetireInterrupted, Storage!RetireInterrupted, Upload!RetireInterruptedRecords,
       Storage!RetireInterruptedRecords, Upload!Beat, Storage!Beat, Upload!StopWork,
       Storage!StopWork, Upload!Stall, Storage!Stall, Upload!Crash, Storage!Crash,
       Upload!LinkRecord, Storage!LinkRecord, Upload!MarkProcessing, Storage!MarkProcessing,
       Upload!Finalize, Storage!Finalize, Upload!RefuseStep, Storage!RefuseStep, Upload!FailStep,
       Storage!FailStep, Upload!RecordIngestFailure, Storage!RecordIngestFailure,
       Upload!BuildReceipt, Storage!BuildReceipt, Upload!StartRequestedCheck,
       Storage!StartRequestedCheck, Upload!SkipRequestedCheck, Storage!SkipRequestedCheck,
       Upload!FinishDone, Storage!FinishDone, Upload!FailAttempt, Storage!FailAttempt,
       Upload!RecordHandedOff, Storage!RecordHandedOff, Upload!Lapsed, Storage!Lapsed,
       Upload!Held, Storage!Held, Upload!Goto, Storage!Goto, Upload!Free, Storage!Free,
       Upload!Replaced, Storage!Replaced, Upload!Reserved, Storage!Reserved, Upload!Cardinality,
       Storage!Cardinality, Upload!HoldsOriginal, Storage!HoldsOriginal, Upload!Counted,
       Storage!Counted, Upload!Active, Storage!Active, Upload!Answered, Storage!Answered,
       Upload!Busy, Storage!Busy, Upload!Outcomes, Storage!Outcomes, Upload!Working,
       Storage!Working, Upload!Ending, Storage!Ending, Upload!rows, Storage!rows, Upload!local,
       Storage!local, Upload!vars, Storage!vars
  <1>3. Storage!ReservedInBudget => ReservedInBudget
    BY DEF ReservedInBudget, Upload!ReservedInBudget, Storage!ReservedInBudget,
       Upload!NeverStalled, Storage!NeverStalled, Upload!HasRoom, Storage!HasRoom,
       Upload!Reserved, Storage!Reserved, Upload!Cardinality, Storage!Cardinality,
       Upload!HoldsOriginal, Storage!HoldsOriginal, Upload!Active, Storage!Active
  <1>4. Storage!Spec => []Storage!ReservedInBudget
    BY Storage!WithinBudget, UploadsAssumption, KindsAssumption
  <1> QED BY <1>1, <1>2, <1>3, <1>4, PTL DEF Upload!Spec, Storage!Spec

=============================================================================
