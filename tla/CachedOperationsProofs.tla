---------------------- MODULE CachedOperationsProofs ----------------------
(***************************************************************************)
(* Proofs about CachedOperations for any number of workers, items, request *)
(* identities and batches, and any repair function.                        *)
(***************************************************************************)
EXTENDS CachedOperations, FiniteSetTheorems, TLAPS

\* Where a worker is between taking the lock of its request and releasing it.
Inside == {"check", "asking"}

-----------------------------------------------------------------------------
(***************************************************************************)
(* Types.  The variables fall into two groups, of the generator and of the *)
(* workers; an action is proved to keep the type of both.                  *)
(***************************************************************************)
CallerType ==
  /\ main \in {"fill", "wait", "yielded", "cancel", "shutdown", "gather", "closed"}
  /\ fresh \in 1..(Size + 1)
  /\ pending \in Seq(Items)
  /\ visited \in Nat
  /\ results \in Seq(Items) /\ raised \in 0..Size
  /\ ledger \in Seq(CallRecord)

StoreType ==
  /\ files \in [Keys -> {"none", "corrupt", "valid", "invalid"}]
  /\ wants \in [Items -> FirstKeys]
  /\ paid \in BOOLEAN /\ batch \in 1..MaxBatches
  /\ asks \in [Keys -> Nat] /\ records \in [Keys -> Nat]

WorkerType ==
  /\ queue \in Seq(Items)
  /\ future \in [Items -> {"new", "queued", "running", "done", "cancelled"}]
  /\ log \in [Items -> Seq(CallRecord)]
  /\ failed \subseteq Items
  /\ at \in [Threads -> {"idle", "lock", "check", "asking"}]
  /\ work \in [Threads -> 0..Size]
  /\ key \in [Threads -> Keys \cup {NoKey}]
  /\ holder \in [Keys -> Threads \cup {NoThread}]
  /\ refused \subseteq Keys

\* A worker that is not idle has an item and a request of its own.
Busy(t) == at[t] # "idle" => work[t] \in Items /\ key[t] \in Keys

Typed == CallerType /\ StoreType /\ WorkerType /\ \A t \in Threads : Busy(t)

LEMMA TypedIsTypeOK == Typed => TypeOK
BY DEF Typed, TypeOK, CallerType, StoreType, WorkerType

LEMMA InitTyped == Init => Typed
<1> SUFFICES ASSUME Init PROVE Typed
  OBVIOUS
<1>1. CallerType
  BY SizeAssumption DEF Init, CallerType, Items
<1>2. StoreType
  BY SizeAssumption DEF Init, StoreType
<1>3. WorkerType /\ \A t \in Threads : Busy(t)
  BY SizeAssumption DEF Init, WorkerType, Busy, Items
<1> QED BY <1>1, <1>2, <1>3 DEF Typed

LEMMA SubmitTyped ==
  ASSUME Typed, Submit, fresh <= Size
  PROVE  /\ fresh' \in 1..(Size + 1)
         /\ pending' \in Seq(Items) /\ queue' \in Seq(Items)
         /\ future' \in [Items -> {"new", "queued", "running", "done", "cancelled"}]
<1>1. fresh \in Items
  BY SizeAssumption DEF Typed, CallerType, Items
<1> QED BY <1>1, SizeAssumption DEF Typed, CallerType, WorkerType, Submit, Items

\* What the generator does to its own variables and to the queue and the futures.
LEMMA GeneratorTyped == Typed /\ Generator => Typed'
<1> SUFFICES ASSUME Typed, Generator PROVE Typed'
  OBVIOUS
<1>1. CASE Fill
  <2>1. CASE fresh <= Size /\ fresh <= Concurrency
    BY <1>1, <2>1, SubmitTyped
    DEF Fill, Typed, CallerType, StoreType, WorkerType, Busy, store, workers, locks, CallRecord
  <2>2. CASE ~(fresh <= Size /\ fresh <= Concurrency)
    BY <1>1, <2>2
    DEF Fill, Typed, CallerType, StoreType, WorkerType, Busy, store, workers, locks, CallRecord
  <2> QED BY <2>1, <2>2
<1>2. CASE Collect
  <2> DEFINE i == Head(pending)
  <2>1. i \in Items /\ pending' \in Seq(Items) /\ ledger' \in Seq(CallRecord)
    BY <1>2 DEF Collect, Typed, CallerType, WorkerType
  <2>2. results' \in Seq(Items) /\ raised' \in 0..Size
    <3>1. CASE i \in failed
      <4>1. raised' = i /\ results' = results
        BY <1>2, <3>1 DEF Collect
      <4> QED BY <2>1, <4>1, SizeAssumption DEF Typed, CallerType, Items
    <3>2. CASE i \notin failed
      <4>1. raised' = raised /\ results' = Append(results, i)
        BY <1>2, <3>2 DEF Collect
      <4> QED BY <2>1, <4>1 DEF Typed, CallerType
    <3> QED BY <3>1, <3>2
  <2>3. main' \in {"cancel", "yielded"}
    BY <1>2 DEF Collect, Stop
  <2>4. CallerType'
    BY <1>2, <2>1, <2>2, <2>3 DEF Collect, Typed, CallerType
  <2> QED BY <1>2, <2>4 DEF Collect, Typed, StoreType, WorkerType, Busy, store, workers, locks
<1>3. CASE Resume
  <2>1. CASE fresh <= Size
    BY <1>3, <2>1, SubmitTyped
    DEF Resume, Typed, CallerType, StoreType, WorkerType, Busy, store, workers, locks
  <2>2. CASE ~(fresh <= Size)
    BY <1>3, <2>2
    DEF Resume, Typed, CallerType, StoreType, WorkerType, Busy, store, workers, locks
  <2> QED BY <2>1, <2>2
<1>4. CASE Leave
  BY <1>4 DEF Leave, Stop, Typed, CallerType, StoreType, WorkerType, Busy, store, workers, locks
<1>5. CASE Cancel
  <2>1. CASE visited < Len(pending)
    <3>1. visited' \in Nat /\ UNCHANGED <<main, queue>>
      BY <1>5, <2>1 DEF Cancel, Typed, CallerType
    <3>2. future' \in [Items -> {"new", "queued", "running", "done", "cancelled"}]
      BY <1>5, <2>1 DEF Cancel, Typed, WorkerType
    <3> QED BY <1>5, <3>1, <3>2
        DEF Cancel, Typed, CallerType, StoreType, WorkerType, Busy, store, workers, locks
  <2>2. CASE ~(visited < Len(pending))
    BY <1>5, <2>2
    DEF Cancel, Typed, CallerType, StoreType, WorkerType, Busy, store, workers, locks
  <2> QED BY <2>1, <2>2
<1>6. CASE Shutdown
  BY <1>6 DEF Shutdown, Typed, CallerType, StoreType, WorkerType, Busy, store, workers, locks
<1>7. CASE Gather
  <2>1. CASE pending = << >>
    BY <1>7, <2>1 DEF Gather, Typed, CallerType, StoreType, WorkerType, Busy, store, workers, locks
  <2>2. CASE pending # << >>
    <3> DEFINE i == Head(pending)
    <3>1. i \in Items /\ pending' \in Seq(Items)
      <4>1. pending' = Tail(pending)
        BY <1>7, <2>2 DEF Gather
      <4>2. pending \in Seq(Items)
        BY DEF Typed, CallerType
      <4> QED BY <2>2, <4>1, <4>2
    <3>2. ledger' = ledger \/ ledger' = ledger \o log[i]
      BY <1>7, <2>2 DEF Gather
    <3>3. ledger' \in Seq(CallRecord)
      <4>1. ledger \in Seq(CallRecord) /\ log[i] \in Seq(CallRecord)
        BY <3>1 DEF Typed, CallerType, WorkerType
      <4>2. ledger \o log[i] \in Seq(CallRecord)
        BY <4>1
      <4> QED BY <3>2, <4>1, <4>2
    <3> QED BY <1>7, <2>2, <3>1, <3>3
        DEF Gather, Typed, CallerType, StoreType, WorkerType, Busy, store, workers, locks
  <2> QED BY <2>1, <2>2
<1> QED BY <1>1, <1>2, <1>3, <1>4, <1>5, <1>6, <1>7 DEF Generator

LEMMA AgainTyped == Typed /\ Again => Typed'
<1> SUFFICES ASSUME Typed, Again PROVE Typed'
  OBVIOUS
<1>1. CallerType'
  BY SizeAssumption DEF Again, Typed, CallerType, Items
<1>2. StoreType'
  BY SizeAssumption DEF Again, Typed, StoreType
<1>3. WorkerType' /\ \A t \in Threads : Busy(t)'
  BY SizeAssumption DEF Again, WorkerType, Busy, Items
<1> QED BY <1>1, <1>2, <1>3 DEF Typed

\* A worker takes only items that were submitted.
LEMMA TakeTyped ==
  ASSUME NEW t \in Threads, Typed, Take(t)
  PROVE  Typed'
<1> DEFINE i == Head(queue)
<1>1. i \in Items /\ queue' \in Seq(Items)
  BY DEF Take, Typed, WorkerType
<1>2. CASE future[i] = "cancelled"
  BY <1>1, <1>2 DEF Take, Typed, CallerType, StoreType, WorkerType, Busy, store, caller, workers, locks
<1>3. CASE future[i] # "cancelled"
  <2>1. wants[i] \in Keys
    BY <1>1, KeysAssumption DEF Typed, StoreType
  <2>2. WorkerType'
    <3>1. /\ future' = [future EXCEPT ![i] = "running"]
          /\ at' = [at EXCEPT ![t] = "lock"]
          /\ work' = [work EXCEPT ![t] = i]
          /\ key' = [key EXCEPT ![t] = wants[i]]
          /\ UNCHANGED <<log, failed, locks>>
      BY <1>3 DEF Take
    <3>2. i \in 0..Size
      BY <1>1, SizeAssumption DEF Items
    <3> HIDE DEF i
    <3> QED BY <1>1, <2>1, <3>1, <3>2 DEF Typed, WorkerType, locks
  <2>3. \A u \in Threads : Busy(u)'
    BY <1>1, <1>3, <2>1 DEF Take, Typed, WorkerType, Busy
  <2> QED BY <1>3, <2>2, <2>3 DEF Take, Typed, CallerType, StoreType, store, caller
<1> QED BY <1>2, <1>3

\* The end of an operation, and the use of an answer.
LEMMA FinishTyped ==
  ASSUME NEW t \in Threads, NEW ok \in BOOLEAN, Typed, at[t] # "idle", Finish(t, ok)
  PROVE  /\ future' \in [Items -> {"new", "queued", "running", "done", "cancelled"}]
         /\ failed' \subseteq Items
         /\ at' = [at EXCEPT ![t] = "idle"]
         /\ at' \in [Threads -> {"idle", "lock", "check", "asking"}]
         /\ work' \in [Threads -> 0..Size]
         /\ key' \in [Threads -> Keys \cup {NoKey}]
         /\ \A u \in Threads : Busy(u)'
<1>1. work[t] \in Items
  BY DEF Typed, Busy
<1>2. failed' \subseteq Items
  BY <1>1 DEF Finish, Typed, WorkerType
<1> QED BY <1>1, <1>2, SizeAssumption DEF Finish, Typed, WorkerType, Busy, Items

LEMMA UseAnswerTyped ==
  ASSUME NEW t \in Threads, NEW answer \in {"valid", "invalid"}, Typed, at[t] # "idle",
         UseAnswer(t, answer)
  PROVE  /\ future' \in [Items -> {"new", "queued", "running", "done", "cancelled"}]
         /\ failed' \subseteq Items
         /\ at' \in [Threads -> {"idle", "lock", "check", "asking"}]
         /\ work' \in [Threads -> 0..Size]
         /\ key' \in [Threads -> Keys \cup {NoKey}]
         /\ \A u \in Threads : Busy(u)'
<1>1. key[t] \in Keys
  BY DEF Typed, Busy
<1>2. CASE answer = "invalid" /\ Repair[key[t]] # NoKey
  <2>1. Repair[key[t]] \in Keys
    BY <1>1, <1>2, RepairAssumption
  <2> QED BY <1>2, <2>1 DEF UseAnswer, Typed, WorkerType, Busy
<1>3. CASE ~(answer = "invalid" /\ Repair[key[t]] # NoKey)
  BY <1>3, FinishTyped DEF UseAnswer
<1> QED BY <1>2, <1>3

LEMMA RecordTyped ==
  ASSUME NEW t \in Threads, NEW how \in {"hit", "paid", "error"}, Typed, at[t] # "idle", Record(t, how)
  PROVE  log' \in [Items -> Seq(CallRecord)]
<1>1. [item |-> work[t], key |-> key[t], how |-> how] \in CallRecord
  BY DEF Typed, Busy, CallRecord
<1> QED BY <1>1 DEF Record, Typed, WorkerType, Busy

LEMMA LockTableTyped ==
  ASSUME NEW t \in Threads, Typed, at[t] # "idle"
  PROVE  /\ Release(t) => holder' \in [Keys -> Threads \cup {NoThread}]
         /\ Refuse(t) => refused' \subseteq Keys
<1>1. key[t] \in Keys
  BY DEF Typed, Busy
<1> QED BY <1>1 DEF Release, Refuse, Typed, WorkerType

LEMMA LockTyped ==
  ASSUME NEW t \in Threads, Typed, Lock(t)
  PROVE  Typed'
<1>1. key[t] \in Keys /\ at[t] # "idle"
  BY DEF Lock, At, Typed, Busy
<1>2. CASE key[t] \in refused
  BY <1>1, <1>2, FinishTyped DEF Lock, Typed, CallerType, StoreType, WorkerType, store, caller
<1>3. CASE key[t] \notin refused
  BY <1>1, <1>3 DEF Lock, Typed, CallerType, StoreType, WorkerType, Busy, store, caller
<1> QED BY <1>2, <1>3

LEMMA CacheTyped ==
  ASSUME NEW t \in Threads, Typed, CacheHit(t) \/ CacheFails(t) \/ Ask(t)
  PROVE  Typed'
<1>1. key[t] \in Keys /\ at[t] # "idle"
  BY DEF CacheHit, CacheFails, Ask, At, Typed, Busy
<1>2. CASE CacheHit(t)
  BY <1>1, <1>2, UseAnswerTyped, RecordTyped, LockTableTyped
  DEF CacheHit, Typed, CallerType, StoreType, WorkerType, store, caller
<1>3. CASE CacheFails(t)
  BY <1>1, <1>3, FinishTyped, LockTableTyped
  DEF CacheFails, Typed, CallerType, StoreType, WorkerType, store, caller
<1>4. CASE Ask(t)
  <2>1. StoreType'
    BY <1>1, <1>4 DEF Ask, Typed, StoreType
  <2>2. WorkerType' /\ \A u \in Threads : Busy(u)'
    BY <1>1, <1>4 DEF Ask, Typed, WorkerType, Busy, locks
  <2> QED BY <1>4, <2>1, <2>2 DEF Ask, Typed, CallerType, caller
<1> QED BY <1>2, <1>3, <1>4

LEMMA AskingTyped ==
  ASSUME NEW t \in Threads, Typed, Answer(t) \/ AskFails(t) \/ AnswerLost(t)
  PROVE  Typed'
<1>1. key[t] \in Keys /\ at[t] # "idle"
  BY DEF Answer, AskFails, AnswerLost, At, Typed, Busy
<1>2. CASE Answer(t)
  <2>1. PICK answer \in {"valid", "invalid"} :
          files' = [files EXCEPT ![key[t]] = answer] /\ UseAnswer(t, answer)
    BY <1>2 DEF Answer
  <2>2. StoreType'
    BY <1>1, <1>2, <2>1 DEF Answer, Typed, StoreType
  <2>3. WorkerType' /\ \A u \in Threads : Busy(u)'
    BY <1>1, <1>2, <2>1, UseAnswerTyped, RecordTyped, LockTableTyped DEF Answer, Typed, WorkerType
  <2> QED BY <1>2, <2>2, <2>3 DEF Answer, Typed, CallerType, caller
<1>3. CASE AskFails(t)
  <2>1. StoreType'
    BY <1>1, <1>3 DEF AskFails, Typed, StoreType
  <2>2. WorkerType' /\ \A u \in Threads : Busy(u)'
    BY <1>1, <1>3, FinishTyped, RecordTyped, LockTableTyped DEF AskFails, Typed, WorkerType
  <2> QED BY <1>3, <2>1, <2>2 DEF AskFails, Typed, CallerType, caller
<1>4. CASE AnswerLost(t)
  BY <1>1, <1>4, FinishTyped, LockTableTyped
  DEF AnswerLost, Typed, CallerType, StoreType, WorkerType, store, caller
<1> QED BY <1>2, <1>3, <1>4

LEMMA NextTyped == Typed /\ [Next]_vars => Typed'
<1> SUFFICES ASSUME Typed, [Next]_vars PROVE Typed'
  OBVIOUS
<1>1. CASE \E t \in Threads : Worker(t)
  BY <1>1, TakeTyped, LockTyped, CacheTyped, AskingTyped DEF Worker
<1>2. CASE UNCHANGED vars
  BY <1>2 DEF Typed, CallerType, StoreType, WorkerType, Busy, vars, store, caller, workers, locks
<1> QED BY <1>1, <1>2, GeneratorTyped, AgainTyped DEF Next

LEMMA TypedAlways == Spec => []Typed
BY InitTyped, NextTyped, PTL DEF Spec

\* Every variable has its type, for any number of workers and items.
THEOREM BatchTypes == Spec => []TypeOK
BY TypedAlways, TypedIsTypeOK, PTL

-----------------------------------------------------------------------------
(***************************************************************************)
(* One request, one asker.  A worker between lock and release holds the    *)
(* lock of its request, which has not failed before; what was asked is     *)
(* answered, failed, or still being asked by somebody.                     *)
(***************************************************************************)
HoldsLock(t) == at[t] \in Inside => holder[key[t]] = t /\ key[t] \notin refused
AsksNew(t) == at[t] = "asking" => files[key[t]] = "none"
Settled(k) == \/ files[k] # "none"
              \/ k \in refused
              \/ \E t \in Threads : at[t] = "asking" /\ key[t] = k
AskedInv ==
  /\ \A t \in Threads : HoldsLock(t) /\ AsksNew(t)
  /\ \A k \in Keys : asks[k] <= 1 /\ (asks[k] = 1 => Settled(k))

AskedVars == <<files, asks, at, key, holder, refused>>

LEMMA InitAsked == Init => AskedInv
BY DEF Init, AskedInv, HoldsLock, AsksNew, Inside

LEMMA AskedUnchanged == AskedInv /\ UNCHANGED AskedVars => AskedInv'
BY DEF AskedInv, HoldsLock, AsksNew, Settled, AskedVars

\* No other worker is inside a request whose lock is held.
LEMMA Alone ==
  ASSUME Typed, AskedInv, NEW t \in Threads, NEW u \in Threads, u # t,
         at[t] \in Inside, at[u] \in Inside
  PROVE  key[u] # key[t]
BY DEF AskedInv, HoldsLock

\* A worker that takes the lock.
LEMMA LockAsked ==
  ASSUME Typed, AskedInv, NEW t \in Threads, Lock(t)
  PROVE  AskedInv'
<1>1. key[t] \in Keys /\ at[t] = "lock"
  BY DEF Lock, At, Typed, Busy
<1>2. CASE key[t] \in refused
  <2>1. /\ at' = [at EXCEPT ![t] = "idle"]
        /\ key' = [key EXCEPT ![t] = NoKey]
        /\ UNCHANGED <<holder, refused, files, asks>>
    BY <1>2 DEF Lock, Finish, store
  <2>2. \A u \in Threads : HoldsLock(u)' /\ AsksNew(u)'
    BY <2>1 DEF AskedInv, HoldsLock, AsksNew, Typed, WorkerType, Inside
  <2>3. \A k \in Keys : Settled(k) => Settled(k)'
    BY <1>1, <2>1 DEF Settled, Typed, WorkerType
  <2> QED BY <2>1, <2>2, <2>3 DEF AskedInv
<1>3. CASE key[t] \notin refused
  <2>1. /\ at' = [at EXCEPT ![t] = "check"]
        /\ holder' = [holder EXCEPT ![key[t]] = t]
        /\ holder[key[t]] = NoThread
        /\ UNCHANGED <<key, refused, files, asks>>
    BY <1>3 DEF Lock, store
  <2>2. \A u \in Threads : HoldsLock(u)' /\ AsksNew(u)'
    BY <1>1, <1>3, <2>1, ThreadsAssumption DEF AskedInv, HoldsLock, AsksNew, Typed, WorkerType, Inside
  <2>3. \A k \in Keys : Settled(k) => Settled(k)'
    BY <1>1, <2>1 DEF Settled, Typed, WorkerType
  <2> QED BY <2>1, <2>2, <2>3 DEF AskedInv
<1> QED BY <1>2, <1>3

\* A worker that leaves the lock of its request settled: the answer is on file or the
\* request is refused from now on.
Leaves(t) ==
  /\ at[t] \in Inside
  /\ at' \in [Threads -> {"idle", "lock", "check", "asking"}]
  /\ at'[t] \in {"idle", "lock"}
  /\ \A u \in Threads \ {t} : at'[u] = at[u] /\ key'[u] = key[u]
  /\ Release(t)
  /\ refused \subseteq refused' /\ refused' \subseteq refused \cup {key[t]}
  /\ \A k \in Keys : k # key[t] => files'[k] = files[k]
  /\ files'[key[t]] # "none" \/ key[t] \in refused'
  /\ asks' = asks

LEMMA LeavesAsked ==
  ASSUME Typed, AskedInv, NEW t \in Threads, Leaves(t)
  PROVE  AskedInv'
<1>1. key[t] \in Keys /\ at[t] \in Inside
  BY DEF Leaves, Typed, Busy, Inside
<1>2. ASSUME NEW u \in Threads
      PROVE  HoldsLock(u)' /\ AsksNew(u)'
  <2>1. CASE u = t
    BY <2>1 DEF Leaves, HoldsLock, AsksNew, Inside
  <2>2. CASE u # t /\ at[u] \in Inside
    <3>1. key[u] # key[t] /\ key[u] \in Keys
      BY <1>1, <2>2, Alone DEF Typed, Busy, Inside
    <3>2. holder'[key[u]] = holder[key[u]] /\ files'[key[u]] = files[key[u]]
      BY <3>1 DEF Leaves, Release, Typed, WorkerType
    <3> QED BY <2>2, <3>1, <3>2 DEF Leaves, AskedInv, HoldsLock, AsksNew
  <2>3. CASE u # t /\ at[u] \notin Inside
    BY <2>3 DEF Leaves, HoldsLock, AsksNew, Inside
  <2> QED BY <2>1, <2>2, <2>3
<1>3. ASSUME NEW k \in Keys, Settled(k)
      PROVE  Settled(k)'
  <2>1. CASE k = key[t]
    BY <2>1 DEF Leaves, Settled
  <2>2. CASE k # key[t]
    <3>1. files'[k] = files[k] /\ (k \in refused => k \in refused')
      BY <2>2 DEF Leaves
    <3>2. ASSUME NEW u \in Threads, at[u] = "asking", key[u] = k
          PROVE  at'[u] = "asking" /\ key'[u] = k
      BY <2>2, <3>2 DEF Leaves
    <3> QED BY <1>3, <3>1, <3>2 DEF Settled
  <2> QED BY <2>1, <2>2
<1> QED BY <1>2, <1>3 DEF AskedInv, Leaves

LEMMA FinishLeaves ==
  ASSUME Typed, NEW t \in Threads, NEW ok, Finish(t, ok)
  PROVE  /\ at'[t] = "idle"
         /\ at' \in [Threads -> {"idle", "lock", "check", "asking"}]
         /\ \A u \in Threads \ {t} : at'[u] = at[u] /\ key'[u] = key[u]
BY DEF Finish, Typed, WorkerType

LEMMA UseAnswerLeaves ==
  ASSUME Typed, NEW t \in Threads, NEW answer, UseAnswer(t, answer)
  PROVE  /\ at'[t] \in {"idle", "lock"}
         /\ at' \in [Threads -> {"idle", "lock", "check", "asking"}]
         /\ \A u \in Threads \ {t} : at'[u] = at[u] /\ key'[u] = key[u]
BY DEF UseAnswer, Finish, Typed, WorkerType

LEMMA ReleasingLeaves ==
  ASSUME Typed, AskedInv, NEW t \in Threads,
         CacheHit(t) \/ CacheFails(t) \/ Answer(t) \/ AskFails(t) \/ AnswerLost(t)
  PROVE  Leaves(t)
<1>1. key[t] \in Keys /\ at[t] \in Inside
  BY DEF CacheHit, CacheFails, Answer, AskFails, AnswerLost, At, Inside, Typed, Busy
<1>2. CASE CacheHit(t)
  <2>1. files[key[t]] \in {"valid", "invalid"} /\ UseAnswer(t, files[key[t]])
    BY <1>2 DEF CacheHit
  <2>2. Release(t) /\ UNCHANGED <<files, asks, refused>>
    BY <1>2 DEF CacheHit, store
  <2> QED BY <1>1, <2>1, <2>2, UseAnswerLeaves DEF Leaves
<1>3. CASE CacheFails(t)
  <2>1. Finish(t, FALSE) /\ Release(t) /\ Refuse(t) /\ UNCHANGED <<files, asks>>
    BY <1>3 DEF CacheFails, store
  <2> QED BY <1>1, <2>1, FinishLeaves DEF Leaves, Refuse
<1>4. CASE Answer(t)
  <2>1. PICK answer \in {"valid", "invalid"} :
          files' = [files EXCEPT ![key[t]] = answer] /\ UseAnswer(t, answer)
    BY <1>4 DEF Answer
  <2>2. Release(t) /\ UNCHANGED <<asks, refused>>
    BY <1>4 DEF Answer
  <2>3. files'[key[t]] = answer /\ \A k \in Keys : k # key[t] => files'[k] = files[k]
    BY <1>1, <2>1 DEF Typed, StoreType
  <2> QED BY <1>1, <2>1, <2>2, <2>3, UseAnswerLeaves DEF Leaves
<1>5. CASE AskFails(t)
  <2>1. Finish(t, FALSE) /\ Release(t) /\ Refuse(t) /\ UNCHANGED <<files, asks>>
    BY <1>5 DEF AskFails
  <2> QED BY <1>1, <2>1, FinishLeaves DEF Leaves, Refuse
<1>6. CASE AnswerLost(t)
  <2>1. Finish(t, FALSE) /\ Release(t) /\ Refuse(t) /\ UNCHANGED <<files, asks>>
    BY <1>6 DEF AnswerLost, store
  <2> QED BY <1>1, <2>1, FinishLeaves DEF Leaves, Refuse
<1> QED BY <1>2, <1>3, <1>4, <1>5, <1>6

\* Only a request nobody asked before in this batch is asked.
LEMMA AskAsked ==
  ASSUME Typed, AskedInv, NEW t \in Threads, Ask(t)
  PROVE  AskedInv'
<1>1. key[t] \in Keys /\ at[t] = "check" /\ files[key[t]] = "none"
  BY DEF Ask, At, Typed, Busy
<1>2. ~Settled(key[t])
  BY <1>1 DEF Settled, AskedInv, HoldsLock, Inside
<1>3. asks[key[t]] = 0
  BY <1>1, <1>2 DEF AskedInv, Typed, StoreType
<1>4. /\ asks' = [asks EXCEPT ![key[t]] = @ + 1]
      /\ at' = [at EXCEPT ![t] = "asking"]
      /\ UNCHANGED <<files, key, holder, refused>>
  BY DEF Ask, locks
<1>5. \A u \in Threads : HoldsLock(u)' /\ AsksNew(u)'
  BY <1>1, <1>4 DEF AskedInv, HoldsLock, AsksNew, Inside, Typed, WorkerType
<1>6. ASSUME NEW k \in Keys
      PROVE  asks'[k] <= 1 /\ (asks'[k] = 1 => Settled(k)')
  <2>1. CASE k = key[t]
    <3>1. at'[t] = "asking" /\ key'[t] = k
      BY <1>4, <2>1 DEF Typed, WorkerType
    <3> QED BY <1>3, <1>4, <2>1, <3>1 DEF Settled, Typed, StoreType
  <2>2. CASE k # key[t]
    <3>1. asks'[k] = asks[k]
      BY <1>4, <2>2 DEF Typed, StoreType
    <3>2. Settled(k) => Settled(k)'
      BY <1>1, <1>4 DEF Settled, Typed, WorkerType
    <3> QED BY <3>1, <3>2 DEF AskedInv
  <2> QED BY <2>1, <2>2
<1> QED BY <1>5, <1>6 DEF AskedInv

LEMMA TakeAsked ==
  ASSUME Typed, AskedInv, NEW t \in Threads, Take(t)
  PROVE  AskedInv'
<1>1. at[t] = "idle" /\ UNCHANGED <<files, asks, holder, refused>>
  BY DEF Take, At, store, locks
<1>2. CASE future[Head(queue)] = "cancelled"
  BY <1>1, <1>2, AskedUnchanged DEF Take, workers, AskedVars
<1>3. CASE future[Head(queue)] # "cancelled"
  <2>1. /\ at' = [at EXCEPT ![t] = "lock"]
        /\ key' = [key EXCEPT ![t] = wants[Head(queue)]]
    BY <1>3 DEF Take
  <2>2. \A u \in Threads : HoldsLock(u)' /\ AsksNew(u)'
    BY <1>1, <2>1 DEF AskedInv, HoldsLock, AsksNew, Inside, Typed, WorkerType
  <2>3. \A k \in Keys : Settled(k) => Settled(k)'
    BY <1>1, <2>1 DEF Settled, Typed, WorkerType
  <2> QED BY <1>1, <2>2, <2>3 DEF AskedInv
<1> QED BY <1>2, <1>3

LEMMA GeneratorAsked == AskedInv /\ Generator => AskedInv'
<1>1. Generator => UNCHANGED AskedVars
  BY DEF Generator, Fill, Collect, Resume, Leave, Cancel, Shutdown, Gather, AskedVars, store, workers, locks
<1> QED BY <1>1, AskedUnchanged

LEMMA AgainAsked == Again => AskedInv'
BY DEF Again, AskedInv, HoldsLock, AsksNew, Inside

LEMMA NextAsked == Typed /\ AskedInv /\ [Next]_vars => AskedInv'
<1> SUFFICES ASSUME Typed, AskedInv, [Next]_vars PROVE AskedInv'
  OBVIOUS
<1>1. CASE \E t \in Threads : Worker(t)
  BY <1>1, TakeAsked, LockAsked, AskAsked, ReleasingLeaves, LeavesAsked DEF Worker
<1>2. CASE UNCHANGED vars
  BY <1>2, AskedUnchanged DEF AskedVars, vars, store, workers, locks
<1> QED BY <1>1, <1>2, GeneratorAsked, AgainAsked DEF Next

LEMMA AskedAlways == Spec => [](Typed /\ AskedInv)
BY TypedAlways, InitAsked, NextAsked, PTL DEF Spec

\* Within a batch no request is sent twice, whatever the items, their repairs and the order
\* in which the workers run.
THEOREM RequestsAreShared == Spec => []AskedOnce
<1>1. AskedInv => AskedOnce
  BY DEF AskedInv, AskedOnce
<1> QED BY <1>1, AskedAlways, PTL

\* No step of any batch replaces a saved answer or a file kept for inspection.
THEOREM AnswersAreKept == Spec => SavedAnswersAreKept
<1> DEFINE Kept == \A k \in Keys : files[k] # "none" => files'[k] = files[k]
<1>1. Typed /\ AskedInv /\ [Next]_vars => [Kept]_files
  <2> SUFFICES ASSUME Typed, AskedInv, [Next]_vars, files' # files PROVE Kept
    OBVIOUS
  <2>1. PICK t \in Threads : Answer(t)
    BY DEF Next, Generator, Fill, Collect, Resume, Leave, Cancel, Shutdown, Gather, Again, Worker,
           Take, Lock, CacheHit, CacheFails, Ask, AskFails, AnswerLost, vars, store
  <2>2. PICK answer \in {"valid", "invalid"} : files' = [files EXCEPT ![key[t]] = answer]
    BY <2>1 DEF Answer
  <2>3. files[key[t]] = "none"
    BY <2>1 DEF Answer, At, AskedInv, AsksNew
  <2> QED BY <2>2, <2>3 DEF Typed, StoreType
<1> QED BY <1>1, AskedAlways, PTL DEF Spec, SavedAnswersAreKept

-----------------------------------------------------------------------------
(***************************************************************************)
(* The shutdown.  A queued item is one the cleanup still has to visit; a   *)
(* running item has a worker; a held lock has a worker inside.  So once    *)
(* every pending item was visited and every worker is idle, nothing runs.  *)
(***************************************************************************)
Visitable(i) == \E n \in DOMAIN pending : n > visited /\ pending[n] = i
HasWorker(i) == \E t \in Threads : at[t] # "idle" /\ work[t] = i
HasHolder(k) == holder[k] # NoThread => at[holder[k]] \in Inside /\ key[holder[k]] = k

Queueless == queue = << >> /\ \A i \in Items : future[i] # "queued"
Idle == \A t \in Threads : at[t] = "idle"

QueuedInv == \A i \in Items : future[i] = "queued" => Visitable(i)
RunningInv == \A i \in Items : future[i] = "running" => HasWorker(i)
HolderInv == \A k \in Keys : HasHolder(k)
PhaseInv ==
  /\ main \in {"fill", "wait", "yielded"} => visited = 0
  /\ main \in {"shutdown", "gather", "closed"} => Queueless
  /\ main \in {"gather", "closed"} => Idle

CalmInv == QueuedInv /\ RunningInv /\ HolderInv /\ PhaseInv

LEMMA CalmIsShutdown == Typed /\ CalmInv => NothingRunsAfterShutdown
<1> SUFFICES ASSUME Typed, CalmInv, main \in {"gather", "closed"}
             PROVE  /\ \A t \in Threads : At(t, "idle")
                    /\ \A k \in Keys : holder[k] = NoThread
                    /\ \A i \in Items : future[i] \in {"new", "done", "cancelled"}
  BY DEF NothingRunsAfterShutdown
<1>1. Queueless /\ Idle
  BY DEF CalmInv, PhaseInv
<1>2. ASSUME NEW k \in Keys, holder[k] # NoThread
      PROVE  FALSE
  <2>1. holder[k] \in Threads /\ at[holder[k]] \in Inside
    BY <1>2 DEF CalmInv, HolderInv, HasHolder, Typed, WorkerType
  <2> QED BY <1>1, <2>1 DEF Idle, Inside
<1>3. \A i \in Items : future[i] \notin {"running", "queued"}
  BY <1>1 DEF CalmInv, RunningInv, HasWorker, Idle, Queueless
<1> QED BY <1>1, <1>2, <1>3 DEF Idle, At, Typed, WorkerType

LEMMA InitCalm == Init => CalmInv
BY DEF Init, CalmInv, QueuedInv, RunningInv, HolderInv, HasHolder, PhaseInv

LEMMA SubmitCalm ==
  ASSUME Typed, CalmInv, Submit, fresh <= Size, main \in {"fill", "yielded"},
         UNCHANGED <<visited, at, work>>
  PROVE  QueuedInv' /\ RunningInv'
<1>1. /\ fresh \in Items
      /\ pending' = Append(pending, fresh)
      /\ future' = [future EXCEPT ![fresh] = "queued"]
      /\ pending \in Seq(Items) /\ visited = 0 /\ visited' = 0
  BY SizeAssumption DEF Submit, Typed, CallerType, Items, CalmInv, PhaseInv
<1>2. ASSUME NEW i \in Items, future'[i] = "queued"
      PROVE  Visitable(i)'
  <2>1. CASE i = fresh
    <3>1. Len(pending) + 1 \in DOMAIN pending' /\ pending'[Len(pending) + 1] = i
      BY <1>1, <2>1
    <3> QED BY <1>1, <3>1 DEF Visitable
  <2>2. CASE i # fresh
    <3>1. PICK n \in DOMAIN pending : n > visited /\ pending[n] = i
      BY <1>1, <1>2, <2>2 DEF CalmInv, QueuedInv, Visitable, Typed, WorkerType
    <3>2. n \in DOMAIN pending' /\ pending'[n] = i
      BY <1>1, <3>1
    <3> QED BY <1>1, <3>1, <3>2 DEF Visitable
  <2> QED BY <2>1, <2>2
<1>3. RunningInv'
  BY <1>1 DEF CalmInv, RunningInv, HasWorker, Typed, WorkerType
<1> QED BY <1>2, <1>3 DEF QueuedInv

\* The generator's steps leave workers and locks alone.
LEMMA GeneratorCalm == Typed /\ CalmInv /\ Generator => CalmInv'
<1> SUFFICES ASSUME Typed, CalmInv, Generator PROVE CalmInv'
  OBVIOUS
<1>1. UNCHANGED <<at, work, key, holder>>
  BY DEF Generator, Fill, Collect, Resume, Leave, Cancel, Shutdown, Gather, workers, locks
<1>2. HolderInv'
  BY <1>1 DEF CalmInv, HolderInv, HasHolder
<1>3. CASE Fill
  <2>1. CASE fresh <= Size /\ fresh <= Concurrency
    <3>1. Submit /\ main' = main /\ main = "fill" /\ visited' = visited
      BY <1>3, <2>1 DEF Fill
    <3>2. PhaseInv'
      BY <3>1 DEF CalmInv, PhaseInv
    <3> QED BY <1>1, <1>2, <2>1, <3>1, <3>2, SubmitCalm DEF CalmInv
  <2>2. CASE ~(fresh <= Size /\ fresh <= Concurrency)
    BY <1>1, <1>2, <1>3, <2>2
    DEF Fill, CalmInv, QueuedInv, Visitable, RunningInv, HasWorker, PhaseInv
  <2> QED BY <2>1, <2>2
<1>4. CASE Collect
  <2>1. /\ pending \in Seq(Items) /\ pending # << >> /\ future[Head(pending)] = "done"
        /\ pending' = Tail(pending)
        /\ visited = 0 /\ visited' = 0 /\ future' = future
    BY <1>4 DEF Collect, Typed, CallerType, CalmInv, PhaseInv
  <2>2. ASSUME NEW i \in Items, future'[i] = "queued"
        PROVE  Visitable(i)'
    <3>1. PICK n \in DOMAIN pending : n > visited /\ pending[n] = i
      BY <2>1, <2>2 DEF CalmInv, QueuedInv, Visitable
    <3>2. n # 1
      BY <2>1, <2>2, <3>1
    <3>3. n - 1 \in DOMAIN pending' /\ pending'[n - 1] = i /\ n - 1 > 0
      BY <2>1, <3>1, <3>2
    <3> QED BY <2>1, <3>3 DEF Visitable
  <2>3. RunningInv'
    BY <1>1, <2>1 DEF CalmInv, RunningInv, HasWorker
  <2>4. main' \in {"cancel", "yielded"}
    BY <1>4 DEF Collect, Stop
  <2>5. PhaseInv'
    BY <2>1, <2>4 DEF PhaseInv
  <2> QED BY <1>2, <2>2, <2>3, <2>5 DEF CalmInv, QueuedInv
<1>5. CASE Resume
  <2>1. main = "yielded" /\ main' = "wait" /\ visited' = visited
    BY <1>5 DEF Resume
  <2>2. PhaseInv'
    BY <2>1 DEF CalmInv, PhaseInv
  <2>3. CASE fresh <= Size
    BY <1>1, <1>2, <1>5, <2>1, <2>2, <2>3, SubmitCalm DEF Resume, CalmInv
  <2>4. CASE ~(fresh <= Size)
    BY <1>1, <1>2, <1>5, <2>2, <2>4
    DEF Resume, CalmInv, QueuedInv, Visitable, RunningInv, HasWorker
  <2> QED BY <2>3, <2>4
<1>6. CASE Leave
  <2>1. main' = "cancel" /\ UNCHANGED <<pending, visited, future, at, work>>
    BY <1>1, <1>6 DEF Leave, Stop
  <2>2. QueuedInv'
    BY <2>1 DEF CalmInv, QueuedInv, Visitable
  <2>3. RunningInv'
    BY <2>1 DEF CalmInv, RunningInv, HasWorker
  <2>4. PhaseInv'
    BY <2>1 DEF PhaseInv
  <2> QED BY <1>2, <2>2, <2>3, <2>4 DEF CalmInv
<1>7. CASE Cancel
  <2>1. CASE visited < Len(pending)
    <3> DEFINE c == pending[visited + 1]
    <3>1. /\ pending \in Seq(Items) /\ visited \in Nat
          /\ pending' = pending /\ visited' = visited + 1
          /\ main = "cancel" /\ main' = main
          /\ future' = [future EXCEPT ![c] = IF @ = "queued" THEN "cancelled" ELSE @]
      BY <1>7, <2>1 DEF Cancel, Typed, CallerType
    <3>2. c \in Items
      BY <2>1, <3>1
    <3>3. future'[c] # "queued"
      BY <3>1, <3>2 DEF Typed, WorkerType
    <3>4. \A i \in Items : future'[i] \in {"queued", "running"} => future'[i] = future[i]
      BY <3>1, <3>2 DEF Typed, WorkerType
    <3>5. ASSUME NEW i \in Items, future'[i] = "queued"
          PROVE  Visitable(i)'
      <4>1. PICK n \in DOMAIN pending : n > visited /\ pending[n] = i
        BY <3>4, <3>5 DEF CalmInv, QueuedInv, Visitable
      <4>2. n # visited + 1
        BY <3>3, <3>5, <4>1
      <4>3. n > visited'
        BY <3>1, <4>1, <4>2
      <4> QED BY <3>1, <4>1, <4>3 DEF Visitable
    <3>6. RunningInv'
      BY <1>1, <3>4 DEF CalmInv, RunningInv, HasWorker
    <3>7. PhaseInv'
      BY <3>1 DEF PhaseInv
    <3> QED BY <1>2, <3>5, <3>6, <3>7 DEF CalmInv, QueuedInv
  <2>2. CASE ~(visited < Len(pending))
    <3>1. main' = "shutdown" /\ queue' = << >> /\ UNCHANGED <<visited, future, pending>>
      BY <1>7, <2>2 DEF Cancel
    <3>2. \A i \in Items : ~Visitable(i)
      BY <2>2 DEF Visitable, Typed, CallerType
    <3>3. Queueless'
      BY <3>1, <3>2 DEF CalmInv, QueuedInv, Queueless
    <3> QED BY <1>1, <1>2, <3>1, <3>3
        DEF CalmInv, QueuedInv, Visitable, RunningInv, HasWorker, PhaseInv
  <2> QED BY <2>1, <2>2
<1>8. CASE Shutdown
  <2>1. main = "shutdown" /\ Idle /\ UNCHANGED <<queue, future, pending, visited>> /\ main' = "gather"
    BY <1>8 DEF Shutdown, Idle
  <2> QED BY <1>1, <1>2, <2>1
      DEF CalmInv, QueuedInv, Visitable, RunningInv, HasWorker, PhaseInv, Queueless, Idle
<1>9. CASE Gather
  <2>1. main = "gather" /\ main' \in {"gather", "closed"} /\ UNCHANGED <<queue, future, visited>>
    BY <1>9 DEF Gather
  <2>2. Queueless' /\ Idle'
    BY <1>1, <2>1 DEF CalmInv, PhaseInv, Queueless, Idle
  <2> QED BY <1>1, <1>2, <2>1, <2>2
      DEF CalmInv, QueuedInv, RunningInv, HasWorker, PhaseInv, Queueless
<1> QED BY <1>3, <1>4, <1>5, <1>6, <1>7, <1>8, <1>9 DEF Generator

LEMMA AgainCalm == Again => CalmInv'
BY DEF Again, CalmInv, QueuedInv, RunningInv, HolderInv, HasHolder, PhaseInv

\* What a worker's step changes of the pool: it runs or ends its own item, and every other
\* worker, future and lock stays as it is.
Works(t) ==
  /\ UNCHANGED <<main, pending, visited>>
  /\ main \notin {"gather", "closed"}
  /\ queue = << >> => queue' = << >>
  /\ \A u \in Threads \ {t} : at'[u] = at[u] /\ key'[u] = key[u] /\ work'[u] = work[u]
  /\ \A i \in Items : future'[i] # future[i] => future'[i] \in {"running", "done"}
  /\ \A i \in Items :
       /\ future'[i] = "running" /\ (at[t] # "idle" => work[t] # i)
         => future[i] = "running" \/ (at'[t] # "idle" /\ work'[t] = i)
       /\ future'[i] = "running" /\ at[t] # "idle" /\ work[t] = i
         => at'[t] # "idle" /\ work'[t] = i

LEMMA WorksCalm ==
  ASSUME Typed, CalmInv, NEW t \in Threads, Works(t), HolderInv'
  PROVE  CalmInv'
<1>1. QueuedInv'
  BY DEF Works, CalmInv, QueuedInv, Visitable
<1>2. ASSUME NEW i \in Items, future'[i] = "running"
      PROVE  HasWorker(i)'
  <2>1. CASE at[t] # "idle" /\ work[t] = i
    BY <1>2, <2>1 DEF Works, HasWorker
  <2>2. CASE at'[t] # "idle" /\ work'[t] = i
    BY <2>2 DEF HasWorker
  <2>3. CASE ~(at[t] # "idle" /\ work[t] = i) /\ ~(at'[t] # "idle" /\ work'[t] = i)
    <3>1. future[i] = "running"
      BY <1>2, <2>3 DEF Works
    <3>2. PICK u \in Threads : at[u] # "idle" /\ work[u] = i
      BY <3>1 DEF CalmInv, RunningInv, HasWorker
    <3> QED BY <2>3, <3>2 DEF Works, HasWorker
  <2> QED BY <2>1, <2>2, <2>3
<1>3. PhaseInv'
  BY DEF Works, CalmInv, PhaseInv, Queueless
<1> QED BY <1>1, <1>2, <1>3 DEF CalmInv, RunningInv

\* After the shutdown no worker takes a step: all are idle and the queue is empty.
LEMMA WorkersEnd ==
  ASSUME Typed, CalmInv, NEW t \in Threads, Worker(t)
  PROVE  main \notin {"gather", "closed"}
BY DEF Worker, Take, Lock, CacheHit, CacheFails, Ask, Answer, AskFails, AnswerLost, At,
       CalmInv, PhaseInv, Queueless, Idle

\* What every step of a worker leaves to the generator.
LEMMA WorkerFrame ==
  ASSUME NEW t \in Threads, Worker(t)
  PROVE  UNCHANGED <<main, pending, visited>> /\ (queue = << >> => queue' = << >>)
BY DEF Worker, Take, Lock, CacheHit, CacheFails, Ask, Answer, AskFails, AnswerLost, caller

LEMMA FinishWorks ==
  ASSUME Typed, CalmInv, NEW t \in Threads, NEW ok, Worker(t), at[t] # "idle", Finish(t, ok)
  PROVE  Works(t)
<1>1. work[t] \in Items
  BY DEF Typed, Busy
<1>2. \A u \in Threads \ {t} : at'[u] = at[u] /\ key'[u] = key[u] /\ work'[u] = work[u]
  BY DEF Finish, Typed, WorkerType
<1>3. \A i \in Items : IF i = work[t] THEN future'[i] = "done" ELSE future'[i] = future[i]
  BY <1>1 DEF Finish, Typed, WorkerType
<1> QED BY <1>2, <1>3, WorkerFrame, WorkersEnd DEF Works

LEMMA StepWorks ==
  ASSUME Typed, CalmInv, NEW t \in Threads, Worker(t), at[t] # "idle",
         at' \in [Threads -> {"idle", "lock", "check", "asking"}], at'[t] # "idle",
         \A u \in Threads \ {t} : at'[u] = at[u] /\ key'[u] = key[u],
         UNCHANGED <<work, future>>
  PROVE  Works(t)
BY WorkerFrame, WorkersEnd DEF Works

LEMMA UseAnswerWorks ==
  ASSUME Typed, CalmInv, NEW t \in Threads, NEW answer, Worker(t), at[t] # "idle",
         UseAnswer(t, answer)
  PROVE  Works(t)
<1>1. CASE answer = "invalid" /\ Repair[key[t]] # NoKey
  <2>1. /\ at' = [at EXCEPT ![t] = "lock"]
        /\ key' = [key EXCEPT ![t] = Repair[key[t]]]
        /\ UNCHANGED <<work, future>>
    BY <1>1 DEF UseAnswer
  <2>2. /\ at' \in [Threads -> {"idle", "lock", "check", "asking"}] /\ at'[t] = "lock"
        /\ \A u \in Threads \ {t} : at'[u] = at[u] /\ key'[u] = key[u]
    BY <2>1 DEF Typed, WorkerType
  <2> QED BY <2>1, <2>2, StepWorks
<1>2. CASE ~(answer = "invalid" /\ Repair[key[t]] # NoKey)
  BY <1>2, FinishWorks DEF UseAnswer
<1> QED BY <1>1, <1>2

LEMMA TakeWorks ==
  ASSUME Typed, CalmInv, NEW t \in Threads, Take(t)
  PROVE  Works(t)
<1> DEFINE i == Head(queue)
<1>1. at[t] = "idle" /\ queue # << >> /\ i \in Items
  BY DEF Take, At, Typed, WorkerType
<1>2. UNCHANGED <<main, pending, visited>> /\ main \notin {"gather", "closed"}
  BY WorkerFrame, WorkersEnd DEF Worker
<1>3. CASE future[i] = "cancelled"
  <2>1. UNCHANGED <<future, at, key, work>>
    BY <1>3 DEF Take, workers
  <2> QED BY <1>1, <1>2, <2>1 DEF Works
<1>4. CASE future[i] # "cancelled"
  <2>1. /\ future' = [future EXCEPT ![i] = "running"]
        /\ at' = [at EXCEPT ![t] = "lock"]
        /\ work' = [work EXCEPT ![t] = i]
        /\ key' = [key EXCEPT ![t] = wants[i]]
    BY <1>4 DEF Take
  <2>2. at'[t] = "lock" /\ work'[t] = i
    BY <2>1 DEF Typed, WorkerType
  <2>3. \A u \in Threads \ {t} : at'[u] = at[u] /\ key'[u] = key[u] /\ work'[u] = work[u]
    BY <2>1 DEF Typed, WorkerType
  <2>4. \A j \in Items : IF j = i THEN future'[j] = "running" ELSE future'[j] = future[j]
    BY <1>1, <2>1 DEF Typed, WorkerType
  <2> HIDE DEF i
  <2> QED BY <1>1, <1>2, <2>2, <2>3, <2>4 DEF Works
<1> QED BY <1>3, <1>4

\* A lock is held by exactly the worker inside its request.
LEMMA TakeHolder ==
  ASSUME Typed, CalmInv, NEW t \in Threads, Works(t), at[t] \notin Inside, UNCHANGED holder
  PROVE  HolderInv'
<1> SUFFICES ASSUME NEW k \in Keys, holder[k] # NoThread
             PROVE  at'[holder[k]] \in Inside /\ key'[holder[k]] = k
  BY DEF HolderInv, HasHolder
<1>1. holder[k] \in Threads /\ at[holder[k]] \in Inside /\ key[holder[k]] = k
  BY DEF CalmInv, HolderInv, HasHolder, Typed, WorkerType
<1> QED BY <1>1 DEF Works

LEMMA ReleaseHolder ==
  ASSUME Typed, CalmInv, NEW t \in Threads, Works(t), at[t] \in Inside, Release(t)
  PROVE  HolderInv'
<1> SUFFICES ASSUME NEW k \in Keys, holder'[k] # NoThread
             PROVE  at'[holder'[k]] \in Inside /\ key'[holder'[k]] = k
  BY DEF HolderInv, HasHolder
<1>1. k # key[t] /\ holder'[k] = holder[k]
  BY DEF Release, Typed, WorkerType
<1>2. holder[k] \in Threads /\ at[holder[k]] \in Inside /\ key[holder[k]] = k
  BY <1>1 DEF CalmInv, HolderInv, HasHolder, Typed, WorkerType
<1>3. holder[k] # t
  BY <1>1, <1>2
<1> QED BY <1>1, <1>2, <1>3 DEF Works

LEMMA LockCalm ==
  ASSUME Typed, CalmInv, NEW t \in Threads, Lock(t)
  PROVE  CalmInv'
<1>1. at[t] = "lock" /\ at[t] \notin Inside /\ key[t] \in Keys /\ Worker(t)
  BY DEF Lock, At, Inside, Typed, Busy, Worker
<1>2. CASE key[t] \in refused
  <2>1. Finish(t, FALSE) /\ UNCHANGED holder
    BY <1>2 DEF Lock
  <2>2. Works(t)
    BY <1>1, <2>1, FinishWorks
  <2> QED BY <1>1, <2>1, <2>2, TakeHolder, WorksCalm
<1>3. CASE key[t] \notin refused
  <2>1. /\ at' = [at EXCEPT ![t] = "check"]
        /\ holder' = [holder EXCEPT ![key[t]] = t]
        /\ UNCHANGED <<future, work, key>>
    BY <1>3 DEF Lock
  <2>2. /\ at' \in [Threads -> {"idle", "lock", "check", "asking"}] /\ at'[t] = "check"
        /\ \A u \in Threads \ {t} : at'[u] = at[u] /\ key'[u] = key[u]
    BY <2>1 DEF Typed, WorkerType
  <2>3. Works(t)
    BY <1>1, <2>1, <2>2, StepWorks
  <2>4. ASSUME NEW k \in Keys, holder'[k] # NoThread
        PROVE  at'[holder'[k]] \in Inside /\ key'[holder'[k]] = k
    <3>1. CASE k = key[t]
      <4>1. holder'[k] = t
        BY <2>1, <3>1 DEF Typed, WorkerType
      <4> QED BY <2>1, <2>2, <3>1, <4>1 DEF Inside
    <3>2. CASE k # key[t]
      <4>1. holder'[k] = holder[k]
        BY <2>1, <3>2 DEF Typed, WorkerType
      <4>2. holder[k] \in Threads /\ at[holder[k]] \in Inside /\ key[holder[k]] = k
        BY <2>4, <4>1 DEF CalmInv, HolderInv, HasHolder, Typed, WorkerType
      <4>3. holder[k] # t
        BY <1>1, <4>2
      <4> QED BY <2>2, <4>1, <4>2, <4>3
    <3> QED BY <3>1, <3>2
  <2> QED BY <2>3, <2>4, WorksCalm DEF HolderInv, HasHolder
<1> QED BY <1>2, <1>3

LEMMA AskCalm ==
  ASSUME Typed, CalmInv, NEW t \in Threads, Ask(t)
  PROVE  CalmInv'
<1>1. /\ at[t] = "check" /\ at' = [at EXCEPT ![t] = "asking"]
      /\ UNCHANGED <<future, work, key, holder>> /\ Worker(t)
  BY DEF Ask, At, locks, Worker
<1>2. /\ at' \in [Threads -> {"idle", "lock", "check", "asking"}] /\ at'[t] = "asking"
      /\ \A u \in Threads \ {t} : at'[u] = at[u] /\ key'[u] = key[u]
  BY <1>1 DEF Typed, WorkerType
<1>3. Works(t)
  BY <1>1, <1>2, StepWorks
<1>4. ASSUME NEW k \in Keys, HasHolder(k)
      PROVE  HasHolder(k)'
  <2>1. CASE holder[k] = t
    BY <1>1, <1>2, <1>4, <2>1 DEF HasHolder, Inside
  <2>2. CASE holder[k] # t
    BY <1>1, <1>2, <1>4, <2>2 DEF HasHolder, Typed, WorkerType
  <2> QED BY <2>1, <2>2
<1> QED BY <1>3, <1>4, WorksCalm DEF CalmInv, HolderInv

LEMMA ReleasingCalm ==
  ASSUME Typed, CalmInv, NEW t \in Threads,
         CacheHit(t) \/ CacheFails(t) \/ Answer(t) \/ AskFails(t) \/ AnswerLost(t)
  PROVE  CalmInv'
<1>1. at[t] \in Inside /\ at[t] # "idle" /\ Worker(t) /\ Release(t)
  BY DEF CacheHit, CacheFails, Answer, AskFails, AnswerLost, At, Inside, Worker
<1>2. Works(t)
  <2>1. CASE CacheHit(t)
    BY <1>1, <2>1, UseAnswerWorks DEF CacheHit
  <2>2. CASE Answer(t)
    BY <1>1, <2>2, UseAnswerWorks DEF Answer
  <2>3. CASE CacheFails(t) \/ AskFails(t) \/ AnswerLost(t)
    BY <1>1, <2>3, FinishWorks DEF CacheFails, AskFails, AnswerLost
  <2> QED BY <2>1, <2>2, <2>3
<1> QED BY <1>1, <1>2, ReleaseHolder, WorksCalm

LEMMA NextCalm == Typed /\ CalmInv /\ [Next]_vars => CalmInv'
<1> SUFFICES ASSUME Typed, CalmInv, [Next]_vars PROVE CalmInv'
  OBVIOUS
<1>1. ASSUME NEW t \in Threads, Take(t)
      PROVE  CalmInv'
  <2>1. at[t] \notin Inside /\ UNCHANGED holder
    BY <1>1 DEF Take, At, Inside, locks
  <2> QED BY <1>1, <2>1, TakeWorks, TakeHolder, WorksCalm
<1>2. CASE \E t \in Threads : Worker(t)
  BY <1>1, <1>2, LockCalm, AskCalm, ReleasingCalm DEF Worker
<1>3. CASE UNCHANGED vars
  BY <1>3 DEF CalmInv, QueuedInv, Visitable, RunningInv, HasWorker, HolderInv, HasHolder, PhaseInv,
              Queueless, Idle, vars, store, caller, workers, locks
<1> QED BY <1>2, <1>3, GeneratorCalm, AgainCalm DEF Next

\* When the cleanup hands over, no worker is at an item, no lock is held and no item waits,
\* however the batch ended.
THEOREM ShutdownIsComplete == Spec => []NothingRunsAfterShutdown
BY TypedAlways, InitCalm, NextCalm, CalmIsShutdown, PTL DEF Spec

-----------------------------------------------------------------------------
(***************************************************************************)
(* Results and accounts.  The items before `First` are collected, those    *)
(* pending follow without a gap; an item that is over is never worked on   *)
(* again.  A request is recorded at most once in all logs together, and    *)
(* the ledger holds what the logs of the collected items hold, in order.   *)
(***************************************************************************)
First == fresh - Len(pending)
Over(i) == future[i] \in {"done", "cancelled"}
Costs(record, k) == record.key = k /\ record.how # "hit"

WindowInv ==
  /\ First >= 1
  /\ \A n \in 1..Len(pending) : pending[n] = First + n - 1
  /\ \A i \in Items : /\ future[i] = "new" <=> i >= fresh
                      /\ i < First => Over(i)

\* An item is waiting once or worked on by one worker.
PoolInv ==
  /\ \A n \in DOMAIN queue : future[queue[n]] \in {"queued", "cancelled"}
  /\ \A m, n \in DOMAIN queue : m < n => queue[m] < queue[n]
  /\ \A t \in Threads : at[t] # "idle" => future[work[t]] = "running"
  /\ \A t, u \in Threads : at[t] # "idle" /\ at[u] # "idle" /\ work[t] = work[u] => t = u

\* Until the cleanup, everything collected was handed on.
OrderInv ==
  /\ HandedOnInItemOrder
  /\ Len(results) < First /\ raised < First
  /\ main \in {"fill", "wait", "yielded"} => raised = 0 /\ Len(results) = First - 1

\* The history of a request and the logs agree.
Recorded(k) == \E i \in Items : \E n \in DOMAIN log[i] : Costs(log[i][n], k)
LogInv ==
  /\ \A i \in Items : future[i] \in {"new", "queued", "cancelled"} => log[i] = << >>
  /\ \A i \in Items : \A n \in DOMAIN log[i] : log[i][n].item = i
  /\ \A k \in Keys : /\ records[k] <= asks[k]
                     /\ records[k] = 0 <=> ~Recorded(k)
  /\ \A t \in Threads : at[t] = "asking" => asks[key[t]] = 1 /\ records[key[t]] = 0
  /\ \A k \in Keys, i, j \in Items : \A m \in DOMAIN log[i], n \in DOMAIN log[j] :
       Costs(log[i][m], k) /\ Costs(log[j][n], k) => i = j /\ m = n

\* A collected record is one of its item's log.
Kept(record) == /\ record.item < First
                /\ \E n \in DOMAIN log[record.item] : log[record.item][n] = record
LedgerInv ==
  /\ \A m \in DOMAIN ledger : Kept(ledger[m])
  /\ \A i \in Items : i < First =>
       \A n \in DOMAIN log[i] : \E m \in DOMAIN ledger : ledger[m] = log[i][n]
  /\ \A m, n \in DOMAIN ledger : m < n => ledger[m].item <= ledger[n].item
  /\ \A k \in Keys : \A m, n \in Asked(k) : m = n
  /\ main = "closed" => pending = << >>

AccountInv == WindowInv /\ PoolInv /\ OrderInv /\ LogInv /\ LedgerInv

LEMMA FirstTyped ==
  ASSUME Typed, WindowInv
  PROVE  First \in Nat /\ First <= fresh /\ fresh = First + Len(pending) /\ Len(pending) \in Nat
BY SizeAssumption DEF Typed, CallerType, WindowInv, First

LEMMA InitAccount == Init => AccountInv
<1> SUFFICES ASSUME Init PROVE AccountInv
  OBVIOUS
<1>1. First = 1 /\ Len(pending) = 0
  BY DEF Init, First
<1>2. WindowInv
  BY <1>1 DEF Init, WindowInv, Items
<1>3. PoolInv
  BY DEF Init, PoolInv
<1>4. OrderInv
  BY <1>1 DEF Init, OrderInv, HandedOnInItemOrder
<1>5. LogInv
  BY DEF Init, LogInv, Recorded
<1>6. LedgerInv
  BY <1>1 DEF Init, LedgerInv, Asked, Items
<1> QED BY <1>2, <1>3, <1>4, <1>5, <1>6 DEF AccountInv

LEMMA AgainAccount == Typed /\ Again => AccountInv'
<1> SUFFICES ASSUME Typed, Again PROVE AccountInv'
  OBVIOUS
<1>1. First' = 1 /\ Len(pending') = 0
  BY DEF Again, First
<1>2. WindowInv'
  BY <1>1 DEF Again, WindowInv, Items
<1>3. PoolInv'
  BY DEF Again, PoolInv
<1>4. OrderInv'
  BY <1>1 DEF Again, OrderInv, HandedOnInItemOrder
<1>5. LogInv'
  BY DEF Again, LogInv, Recorded
<1>6. LedgerInv'
  BY <1>1 DEF Again, LedgerInv, Asked, Items
<1> QED BY <1>2, <1>3, <1>4, <1>5, <1>6 DEF AccountInv

\* At the end every logged record was collected, so a recorded request has one record.
LEMMA AccountIsOrdered == Typed /\ AskedInv /\ AccountInv => BatchKeepsItemOrder
<1> SUFFICES ASSUME Typed, AskedInv, AccountInv
             PROVE  HandedOnInItemOrder /\ ClosedBatchIsAccounted
  BY DEF BatchKeepsItemOrder
<1>1. HandedOnInItemOrder
  BY DEF AccountInv, OrderInv
<1>2. ASSUME main = "closed", NEW k \in Keys
      PROVE  Cardinality(Asked(k)) = records[k]
  <2>1. First = fresh
    BY <1>2, FirstTyped DEF AccountInv, LedgerInv, Typed, CallerType
  <2>2. records[k] \in {0, 1}
    BY DEF AskedInv, AccountInv, LogInv, Typed, StoreType
  <2>3. ASSUME NEW n \in Asked(k)
        PROVE  Recorded(k)
    <3>1. n \in DOMAIN ledger /\ Costs(ledger[n], k) /\ Kept(ledger[n]) /\ ledger[n] \in CallRecord
      BY <2>3 DEF Asked, Costs, AccountInv, LedgerInv, Typed, CallerType
    <3> QED BY <3>1 DEF Kept, Recorded, CallRecord
  <2>4. CASE records[k] = 0
    <3>1. Asked(k) = {}
      BY <2>3, <2>4 DEF AccountInv, LogInv
    <3> QED BY <2>4, <3>1, FS_EmptySet
  <2>5. CASE records[k] = 1
    <3>1. PICK i \in Items : \E n \in DOMAIN log[i] : Costs(log[i][n], k)
      BY <2>5 DEF AccountInv, LogInv, Recorded
    <3>2. PICK n \in DOMAIN log[i] : Costs(log[i][n], k)
      BY <3>1
    <3>3. future[i] # "new"
      BY <3>2 DEF AccountInv, LogInv
    <3>4. i < First
      BY <2>1, <3>3, SizeAssumption DEF AccountInv, WindowInv, Items, Typed, CallerType
    <3>5. PICK m \in DOMAIN ledger : ledger[m] = log[i][n]
      BY <3>4 DEF AccountInv, LedgerInv
    <3>6. Asked(k) = {m}
      BY <3>2, <3>5 DEF Asked, Costs, AccountInv, LedgerInv
    <3> QED BY <2>5, <3>6, FS_Singleton
  <2> QED BY <2>2, <2>4, <2>5
<1>3. ASSUME main = "closed"
      PROVE  \A m, n \in DOMAIN ledger : m < n => ledger[m].item <= ledger[n].item
  BY DEF AccountInv, LedgerInv
<1> QED BY <1>1, <1>2, <1>3 DEF ClosedBatchIsAccounted

\* The generator leaves the logs and histories of the workers alone.
LogVars == <<log, failed, records, asks, at, work, key>>

LEMMA GeneratorLog ==
  ASSUME Generator
  PROVE  UNCHANGED LogVars
BY DEF Generator, Fill, Collect, Resume, Leave, Cancel, Shutdown, Gather, LogVars, store, workers

LEMMA LogUnchanged ==
  ASSUME LogInv, UNCHANGED LogVars,
         \A i \in Items : future'[i] \in {"new", "queued", "cancelled"}
                            => future[i] \in {"new", "queued", "cancelled"}
  PROVE  LogInv'
BY DEF LogInv, LogVars, Recorded

\* One more item enters the window.
LEMMA SubmitAccount ==
  ASSUME Typed, AccountInv, Submit, fresh <= Size, main' # "closed",
         main \in {"fill", "yielded"}, UNCHANGED <<results, raised, ledger, LogVars>>
  PROVE  AccountInv'
<1>1. /\ fresh \in Items /\ fresh' = fresh + 1
      /\ pending' = Append(pending, fresh) /\ pending \in Seq(Items)
      /\ queue' = Append(queue, fresh) /\ queue \in Seq(Items)
  BY SizeAssumption DEF Submit, Typed, CallerType, WorkerType, Items
<1>2. First' = First /\ First \in Nat /\ Len(pending) \in Nat /\ fresh = First + Len(pending)
  BY <1>1, FirstTyped, SizeAssumption DEF First, AccountInv, Items
<1>3. future[fresh] = "new"
  BY <1>1, SizeAssumption DEF AccountInv, WindowInv, Items
<1>4. \A i \in Items : future'[i] = IF i = fresh THEN "queued" ELSE future[i]
  BY <1>1 DEF Submit, Typed, WorkerType
<1>5. WindowInv'
  <2>1. \A n \in 1..Len(pending') : pending'[n] = First + n - 1
    <3>1. \A n \in 1..Len(pending') : pending'[n] = IF n = Len(pending) + 1 THEN fresh ELSE pending[n]
      BY <1>1
    <3>2. Len(pending') = Len(pending) + 1
      BY <1>1
    <3>3. \A n \in 1..Len(pending) : pending[n] = First + n - 1
      BY DEF AccountInv, WindowInv
    <3> QED BY <1>2, <3>1, <3>2, <3>3
  <2>2. ASSUME NEW i \in Items
        PROVE  (future'[i] = "new" <=> i >= fresh') /\ (i < First => Over(i)')
    <3>1. i \in Nat /\ fresh \in Nat
      BY <1>1, SizeAssumption DEF Items
    <3>2. (future[i] = "new" <=> i >= fresh) /\ (i < First => Over(i))
      BY DEF AccountInv, WindowInv
    <3>3. future'[i] = IF i = fresh THEN "queued" ELSE future[i]
      BY <1>4
    <3>4. i < First => i # fresh
      BY <1>2, <3>1
    <3>5. i < First => Over(i)'
      BY <3>2, <3>3, <3>4 DEF Over
    <3>6. future'[i] = "new" <=> i >= fresh + 1
      BY <3>1, <3>2, <3>3
    <3> QED BY <1>1, <3>5, <3>6
  <2> QED BY <1>2, <2>1, <2>2 DEF WindowInv, AccountInv
<1>6. PoolInv'
  <2>1. \A n \in DOMAIN queue : queue[n] \in Items /\ queue[n] < fresh
    <3>1. ASSUME NEW n \in DOMAIN queue
          PROVE  queue[n] \in Items /\ queue[n] \in Nat /\ future[queue[n]] # "new"
      <4>1. queue[n] \in Items
        BY <1>1
      <4>2. future[queue[n]] \in {"queued", "cancelled"}
        BY DEF AccountInv, PoolInv
      <4> QED BY <4>1, <4>2, SizeAssumption DEF Items
    <3>2. \A i \in Items : future[i] # "new" => ~(i >= fresh)
      BY DEF AccountInv, WindowInv
    <3>3. fresh \in Nat
      BY <1>1, SizeAssumption DEF Items
    <3> QED BY <3>1, <3>2, <3>3
  <2>2. \A n \in DOMAIN queue' : IF n \in DOMAIN queue THEN queue'[n] = queue[n]
                                 ELSE n = Len(queue) + 1 /\ queue'[n] = fresh
    BY <1>1
  <2>3. \A n \in DOMAIN queue' : future'[queue'[n]] \in {"queued", "cancelled"}
    BY <1>1, <1>4, <2>1, <2>2 DEF AccountInv, PoolInv
  <2>4. \A m, n \in DOMAIN queue' : m < n => queue'[m] < queue'[n]
    BY <1>1, <2>1, <2>2 DEF AccountInv, PoolInv
  <2>5. \A t \in Threads : at[t] # "idle" => future'[work[t]] = "running"
    BY <1>3, <1>4 DEF AccountInv, PoolInv, Typed, Busy
  <2> QED BY <2>3, <2>4, <2>5 DEF AccountInv, PoolInv, LogVars
<1>7. OrderInv'
  <2>1. main' \in {"fill", "wait", "yielded"} => main \in {"fill", "wait", "yielded"}
    OBVIOUS
  <2> QED BY <1>2, <2>1 DEF AccountInv, OrderInv, HandedOnInItemOrder, LogVars
<1>8. LogInv'
  BY <1>3, <1>4, LogUnchanged DEF AccountInv
<1>9. LedgerInv'
  BY <1>2 DEF AccountInv, LedgerInv, Kept, Asked, LogVars
<1> QED BY <1>5, <1>6, <1>7, <1>8, <1>9 DEF AccountInv

\* What a concatenation holds.
LEMMA Concatenation ==
  ASSUME NEW S, NEW s \in Seq(S), NEW r \in Seq(S)
  PROVE  /\ \A n \in DOMAIN s : n \in DOMAIN (s \o r) /\ (s \o r)[n] = s[n]
         /\ \A n \in DOMAIN r : Len(s) + n \in DOMAIN (s \o r) /\ (s \o r)[Len(s) + n] = r[n]
         /\ \A m \in DOMAIN (s \o r) : m \notin DOMAIN s =>
              m - Len(s) \in DOMAIN r /\ m > Len(s)
OBVIOUS

\* The oldest pending item is collected with its log.
LEMMA AdvanceAccount ==
  ASSUME Typed, AccountInv, pending # << >>, pending' = Tail(pending), main' # "closed",
         Over(Head(pending)), ledger' = ledger \o log[Head(pending)],
         UNCHANGED <<fresh, queue, future, LogVars>>
  PROVE  /\ Head(pending) = First /\ First \in Items /\ First' = First + 1
         /\ WindowInv' /\ PoolInv' /\ LogInv' /\ LedgerInv'
<1> DEFINE i == Head(pending)
<1>1. /\ pending \in Seq(Items) /\ Len(pending) >= 1
      /\ i = pending[1] /\ i \in Items
      /\ Len(pending') = Len(pending) - 1
      /\ \A n \in 1..Len(pending') : pending'[n] = pending[n + 1]
  BY DEF Typed, CallerType
<1>2. i = First /\ First \in Nat /\ First' = First + 1 /\ fresh = First + Len(pending)
  BY <1>1, FirstTyped DEF AccountInv, WindowInv, First
<1>3. WindowInv'
  <2>1. \A n \in 1..Len(pending') : pending'[n] = First' + n - 1
    BY <1>1, <1>2 DEF AccountInv, WindowInv
  <2>2. \A j \in Items : j < First' => Over(j)
    BY <1>1, <1>2, SizeAssumption DEF AccountInv, WindowInv, Items
  <2> QED BY <1>2, <2>1, <2>2 DEF AccountInv, WindowInv, Over
<1>4. PoolInv'
  BY DEF AccountInv, PoolInv, LogVars
<1>5. LogInv'
  BY LogUnchanged DEF AccountInv
<1>6. LedgerInv'
  <2> DEFINE L == log[i]
  <2>1. ledger \in Seq(CallRecord) /\ L \in Seq(CallRecord) /\ ledger' = ledger \o L
    BY <1>1 DEF Typed, CallerType, WorkerType
  <2>2. /\ \A n \in DOMAIN ledger : n \in DOMAIN ledger' /\ ledger'[n] = ledger[n]
        /\ \A n \in DOMAIN L : Len(ledger) + n \in DOMAIN ledger' /\ ledger'[Len(ledger) + n] = L[n]
        /\ \A m \in DOMAIN ledger' : m \notin DOMAIN ledger =>
             m - Len(ledger) \in DOMAIN L /\ m > Len(ledger) /\ ledger'[m] = L[m - Len(ledger)]
    BY <2>1, Concatenation
  <2>3. \A n \in DOMAIN L : L[n].item = i
    BY <1>1 DEF AccountInv, LogInv
  <2>4. \A m \in DOMAIN ledger : /\ ledger[m] \in CallRecord /\ ledger[m].item \in Items
                                 /\ ledger[m].item < i /\ Kept(ledger[m])
    <3> SUFFICES ASSUME NEW m \in DOMAIN ledger
                 PROVE  /\ ledger[m] \in CallRecord /\ ledger[m].item \in Items
                        /\ ledger[m].item < i /\ Kept(ledger[m])
      OBVIOUS
    <3>1. ledger[m] \in CallRecord
      BY <2>1
    <3>2. Kept(ledger[m])
      BY DEF AccountInv, LedgerInv
    <3> QED BY <1>2, <3>1, <3>2 DEF Kept, CallRecord
  <2>5. log' = log
    BY DEF LogVars
  <2> HIDE DEF i, L
  <2>6. ASSUME NEW m \in DOMAIN ledger'
        PROVE  Kept(ledger[m])'
    <3>1. CASE m \in DOMAIN ledger
      <4>1. ledger'[m] = ledger[m] /\ Kept(ledger[m]) /\ ledger[m].item \in Nat
        BY <2>2, <2>4, <3>1, SizeAssumption DEF Items
      <4>2. ledger'[m].item < First'
        BY <1>2, <4>1 DEF Kept
      <4>3. \E n \in DOMAIN log'[ledger'[m].item] : log'[ledger'[m].item][n] = ledger'[m]
        BY <2>5, <4>1 DEF Kept
      <4> QED BY <4>2, <4>3 DEF Kept
    <3>2. CASE m \notin DOMAIN ledger
      <4>1. PICK n \in DOMAIN L : ledger'[m] = L[n]
        BY <2>2, <3>2
      <4>2. ledger'[m].item = i /\ i < First'
        BY <1>1, <1>2, <2>3, <4>1
      <4>3. \E h \in DOMAIN log'[ledger'[m].item] : log'[ledger'[m].item][h] = ledger'[m]
        BY <2>5, <4>1, <4>2 DEF L
      <4> QED BY <4>2, <4>3 DEF Kept
    <3> QED BY <3>1, <3>2
  <2>7. ASSUME NEW j \in Items, j < First', NEW n \in DOMAIN log[j]
        PROVE  \E m \in DOMAIN ledger' : ledger'[m] = log[j][n]
    <3>1. CASE j = i
      BY <2>2, <3>1 DEF L
    <3>2. CASE j # i
      <4>1. j < First
        BY <1>1, <1>2, <2>7, <3>2, SizeAssumption DEF Items
      <4>2. PICK m \in DOMAIN ledger : ledger[m] = log[j][n]
        BY <4>1 DEF AccountInv, LedgerInv
      <4> QED BY <2>2, <4>2
    <3> QED BY <3>1, <3>2
  <2>8. ASSUME NEW m \in DOMAIN ledger', NEW n \in DOMAIN ledger', m < n
        PROVE  ledger'[m].item <= ledger'[n].item
    <3>0. i \in Nat /\ \A h \in DOMAIN ledger : ledger[h].item \in Nat
      BY <1>1, <2>4, SizeAssumption DEF Items
    <3>1. CASE n \in DOMAIN ledger
      <4>1. m \in DOMAIN ledger
        BY <2>1, <2>2, <2>8, <3>1
      <4> QED BY <2>2, <2>8, <3>1, <4>1 DEF AccountInv, LedgerInv
    <3>2. CASE n \notin DOMAIN ledger
      <4>1. ledger'[n].item = i
        BY <2>2, <2>3, <3>2
      <4>2. CASE m \in DOMAIN ledger
        BY <2>2, <2>4, <3>0, <4>1, <4>2
      <4>3. CASE m \notin DOMAIN ledger
        BY <2>2, <2>3, <3>0, <4>1, <4>3
      <4> QED BY <4>2, <4>3
    <3> QED BY <3>1, <3>2
  <2>9. ASSUME NEW k \in Keys, NEW m \in DOMAIN ledger', NEW n \in DOMAIN ledger',
               Costs(ledger'[m], k), Costs(ledger'[n], k)
        PROVE  m = n
    <3>1. ASSUME NEW g \in DOMAIN ledger, NEW h \in DOMAIN L,
                 Costs(ledger[g], k), Costs(L[h], k)
          PROVE  FALSE
      <4>1. PICK e \in DOMAIN log[ledger[g].item] : log[ledger[g].item][e] = ledger[g]
        BY <2>4 DEF Kept
      <4>2. ledger[g].item \in Items /\ ledger[g].item # i
        BY <1>1, <2>4, SizeAssumption DEF Items
      <4> QED BY <1>1, <3>1, <4>1, <4>2 DEF AccountInv, LogInv, L
    <3>2. CASE m \in DOMAIN ledger /\ n \in DOMAIN ledger
      <4>1. m \in Asked(k) /\ n \in Asked(k)
        BY <2>2, <2>9, <3>2 DEF Asked, Costs
      <4> QED BY <4>1 DEF AccountInv, LedgerInv
    <3>3. CASE m \notin DOMAIN ledger /\ n \notin DOMAIN ledger
      <4>1. \A g, h \in DOMAIN L : Costs(L[g], k) /\ Costs(L[h], k) => g = h
        BY <1>1 DEF AccountInv, LogInv, L
      <4>2. m - Len(ledger) = n - Len(ledger)
        BY <2>2, <2>9, <3>3, <4>1
      <4> QED BY <2>1, <2>2, <3>3, <4>2
    <3>4. CASE m \in DOMAIN ledger /\ n \notin DOMAIN ledger
      BY <2>2, <2>9, <3>1, <3>4
    <3>5. CASE m \notin DOMAIN ledger /\ n \in DOMAIN ledger
      BY <2>2, <2>9, <3>1, <3>5
    <3> QED BY <3>2, <3>3, <3>4, <3>5
  <2>0. main' # "closed"
    OBVIOUS
  <2>10. \A k \in Keys : \A m, n \in Asked(k)' : m = n
    BY <2>9 DEF Asked, Costs
  <2>11. \A j \in Items : j < First' =>
           \A n \in DOMAIN log'[j] : \E m \in DOMAIN ledger' : ledger'[m] = log'[j][n]
    BY <2>5, <2>7
  <2>12. \A m, n \in DOMAIN ledger' : m < n => ledger'[m].item <= ledger'[n].item
    BY <2>8
  <2> QED BY <2>0, <2>6, <2>10, <2>11, <2>12 DEF LedgerInv
<1> QED BY <1>1, <1>2, <1>3, <1>4, <1>5, <1>6

\* Steps of the generator that move no item.
LEMMA StillAccount ==
  ASSUME Typed, AccountInv, main' # "closed" \/ pending = << >>,
         main' \in {"fill", "wait", "yielded"} => main \in {"fill", "wait", "yielded"},
         UNCHANGED <<fresh, pending, results, raised, ledger, queue, future, LogVars>>
  PROVE  AccountInv'
<1>1. First' = First
  BY DEF First
<1>2. WindowInv'
  BY <1>1 DEF AccountInv, WindowInv, Over
<1>3. PoolInv'
  BY DEF AccountInv, PoolInv, LogVars
<1>4. OrderInv'
  BY <1>1 DEF AccountInv, OrderInv, HandedOnInItemOrder, LogVars
<1>5. LogInv'
  BY LogUnchanged DEF AccountInv
<1>6. LedgerInv'
  BY <1>1 DEF AccountInv, LedgerInv, Kept, Asked, LogVars
<1> QED BY <1>2, <1>3, <1>4, <1>5, <1>6 DEF AccountInv

LEMMA CollectAccount ==
  ASSUME Typed, AccountInv, Collect
  PROVE  AccountInv'
<1> DEFINE i == Head(pending)
<1>1. /\ main = "wait" /\ pending # << >> /\ Over(i)
      /\ pending' = Tail(pending) /\ ledger' = ledger \o log[i]
      /\ main' \in {"cancel", "yielded"}
      /\ UNCHANGED <<fresh, queue, future, LogVars>>
  BY DEF Collect, Over, Stop, LogVars, store, workers
<1>2. /\ i = First /\ First \in Items /\ First' = First + 1
      /\ WindowInv' /\ PoolInv' /\ LogInv' /\ LedgerInv'
  BY <1>1, AdvanceAccount
<1> HIDE DEF i
<1>3. /\ raised = 0 /\ Len(results) = First - 1 /\ results \in Seq(Items)
      /\ results = [n \in 1..Len(results) |-> n]
      /\ \A n \in 1..Len(results) : n \notin failed
  BY <1>1 DEF AccountInv, OrderInv, HandedOnInItemOrder, Typed, CallerType
<1>4. First \in Nat /\ First >= 1 /\ failed' = failed
  BY <1>1, <1>2, SizeAssumption DEF Items, LogVars
<1>5. OrderInv'
  <2>1. CASE i \in failed
    <3>1. raised' = i /\ results' = results /\ main' = "cancel"
      BY <2>1 DEF Collect, Stop, i
    <3>2. HandedOnInItemOrder'
      BY <1>2, <1>3, <1>4, <2>1, <3>1 DEF HandedOnInItemOrder
    <3> QED BY <1>2, <1>3, <1>4, <3>1, <3>2 DEF OrderInv
  <2>2. CASE i \notin failed
    <3>1. raised' = raised /\ results' = Append(results, i)
      BY <2>2 DEF Collect, i
    <3>2. /\ Len(results') = First
          /\ \A n \in 1..Len(results') : results'[n] = n
      BY <1>2, <1>3, <1>4, <3>1
    <3>3. results' = [n \in 1..Len(results') |-> n]
      <4>1. results' \in Seq(Items)
        BY <1>2, <1>3, <3>1
      <4>2. DOMAIN results' = 1..Len(results') /\ results' = [n \in DOMAIN results' |-> results'[n]]
        BY <4>1
      <4> QED BY <3>2, <4>2
    <3>4. \A n \in 1..Len(results') : n \notin failed'
      BY <1>2, <1>3, <1>4, <2>2, <3>2
    <3>5. HandedOnInItemOrder'
      BY <1>3, <3>1, <3>3, <3>4 DEF HandedOnInItemOrder
    <3> QED BY <1>2, <1>3, <1>4, <3>1, <3>2, <3>5 DEF OrderInv
  <2> QED BY <2>1, <2>2
<1> QED BY <1>2, <1>5 DEF AccountInv

\* What the cleanup cancels was never worked on.
LEMMA CancelAccount ==
  ASSUME Typed, AccountInv, Cancel, visited < Len(pending)
  PROVE  AccountInv'
<1> DEFINE c == pending[visited + 1]
<1>1. /\ future' = [future EXCEPT ![c] = IF @ = "queued" THEN "cancelled" ELSE @]
      /\ main' = main /\ main = "cancel"
      /\ UNCHANGED <<fresh, pending, results, raised, ledger, queue, LogVars>>
  BY DEF Cancel, LogVars, store, workers
<1>2. \A i \in Items : future'[i] = future[i] \/ (future[i] = "queued" /\ future'[i] = "cancelled")
  BY <1>1 DEF Typed, WorkerType
<1>3. First' = First
  BY <1>1 DEF First
<1> HIDE DEF c
<1>4. WindowInv'
  BY <1>1, <1>2, <1>3 DEF AccountInv, WindowInv, Over
<1>5. PoolInv'
  <2>1. \A n \in DOMAIN queue : queue[n] \in Items
    BY DEF Typed, WorkerType
  <2>2. \A t \in Threads : at[t] # "idle" => work[t] \in Items
    BY DEF Typed, Busy
  <2>3. \A n \in DOMAIN queue : future'[queue[n]] \in {"queued", "cancelled"}
    BY <1>2, <2>1 DEF AccountInv, PoolInv
  <2>4. \A t \in Threads : at[t] # "idle" => future'[work[t]] = "running"
    BY <1>2, <2>2 DEF AccountInv, PoolInv
  <2> QED BY <1>1, <2>3, <2>4 DEF AccountInv, PoolInv, LogVars
<1>6. OrderInv'
  BY <1>1, <1>3 DEF AccountInv, OrderInv, HandedOnInItemOrder, LogVars
<1>7. LogInv'
  BY <1>1, <1>2, LogUnchanged DEF AccountInv
<1>8. LedgerInv'
  BY <1>1, <1>3 DEF AccountInv, LedgerInv, Kept, Asked, LogVars
<1> QED BY <1>4, <1>5, <1>6, <1>7, <1>8 DEF AccountInv

LEMMA GatherAccount ==
  ASSUME Typed, CalmInv, AccountInv, Gather
  PROVE  AccountInv'
<1> DEFINE i == Head(pending)
<1>1. CASE pending = << >>
  BY <1>1, StillAccount DEF Gather, LogVars, store, workers
<1>2. CASE pending # << >>
  <2>1. /\ main = "gather" /\ main' = main /\ pending' = Tail(pending)
        /\ UNCHANGED <<fresh, results, raised, queue, future, LogVars>>
    BY <1>2 DEF Gather, LogVars, store, workers
  <2>2. i \in Items /\ i < fresh
    <3>1. /\ pending \in Seq(Items) /\ Len(pending) >= 1 /\ i = pending[1]
          /\ i \in Items
      BY <1>2 DEF Typed, CallerType
    <3>2. First \in Nat /\ fresh = First + Len(pending)
      BY FirstTyped DEF AccountInv
    <3> QED BY <3>1, <3>2 DEF AccountInv, WindowInv
  <2> HIDE DEF i
  <2>3. Over(i)
    <3>1. future[i] \in {"new", "done", "cancelled"}
      BY <2>1, <2>2, CalmIsShutdown DEF NothingRunsAfterShutdown
    <3>2. future[i] # "new"
      BY <2>2, SizeAssumption DEF AccountInv, WindowInv, Items, Typed, CallerType
    <3> QED BY <3>1, <3>2 DEF Over
  <2>4. ledger' = ledger \o log[i]
    <3>1. CASE future[i] = "cancelled"
      <4>1. ledger' = ledger /\ log[i] = << >> /\ ledger \in Seq(CallRecord)
        BY <1>2, <2>2, <3>1 DEF Gather, i, AccountInv, LogInv, Typed, CallerType
      <4> QED BY <4>1
    <3>2. CASE future[i] # "cancelled"
      BY <1>2, <3>2 DEF Gather, i
    <3> QED BY <3>1, <3>2
  <2>5. /\ First \in Items /\ First' = First + 1
        /\ WindowInv' /\ PoolInv' /\ LogInv' /\ LedgerInv'
    BY <1>2, <2>1, <2>3, <2>4, AdvanceAccount DEF i
  <2>6. OrderInv'
    <3>1. First \in Nat /\ Len(results) \in Nat /\ raised \in Nat
      BY <2>5, SizeAssumption DEF Items, Typed, CallerType
    <3>2. Len(results) < First' /\ raised < First'
      BY <2>5, <3>1 DEF AccountInv, OrderInv
    <3> QED BY <2>1, <3>2 DEF AccountInv, OrderInv, HandedOnInItemOrder, LogVars
  <2> QED BY <2>5, <2>6 DEF AccountInv
<1> QED BY <1>1, <1>2

LEMMA GeneratorAccount == Typed /\ CalmInv /\ AccountInv /\ Generator => AccountInv'
<1> SUFFICES ASSUME Typed, CalmInv, AccountInv, Generator PROVE AccountInv'
  OBVIOUS
<1>0. UNCHANGED LogVars
  BY GeneratorLog
<1>1. CASE Fill
  <2>1. CASE fresh <= Size /\ fresh <= Concurrency
    BY <1>0, <1>1, <2>1, SubmitAccount DEF Fill
  <2>2. CASE ~(fresh <= Size /\ fresh <= Concurrency)
    BY <1>0, <1>1, <2>2, StillAccount DEF Fill
  <2> QED BY <2>1, <2>2
<1>2. CASE Resume
  <2>1. CASE fresh <= Size
    BY <1>0, <1>2, <2>1, SubmitAccount DEF Resume
  <2>2. CASE ~(fresh <= Size)
    BY <1>0, <1>2, <2>2, StillAccount DEF Resume
  <2> QED BY <2>1, <2>2
<1>3. CASE Leave
  BY <1>0, <1>3, StillAccount DEF Leave, Stop
<1>4. CASE Shutdown
  BY <1>0, <1>4, StillAccount DEF Shutdown
<1>5. CASE Cancel
  <2>1. CASE visited < Len(pending)
    BY <1>5, <2>1, CancelAccount
  <2>2. CASE ~(visited < Len(pending))
    <3>1. /\ main' = "shutdown" /\ queue' = << >>
          /\ UNCHANGED <<fresh, pending, results, raised, ledger, future>>
      BY <1>5, <2>2 DEF Cancel
    <3>2. First' = First
      BY <3>1 DEF First
    <3>3. WindowInv'
      BY <3>1, <3>2 DEF AccountInv, WindowInv, Over
    <3>4. PoolInv'
      BY <1>0, <3>1 DEF AccountInv, PoolInv, LogVars
    <3>5. OrderInv'
      BY <1>0, <3>1, <3>2 DEF AccountInv, OrderInv, HandedOnInItemOrder, LogVars
    <3>6. LogInv'
      BY <1>0, <3>1, LogUnchanged DEF AccountInv
    <3>7. LedgerInv'
      BY <1>0, <3>1, <3>2 DEF AccountInv, LedgerInv, Kept, Asked, LogVars
    <3> QED BY <3>3, <3>4, <3>5, <3>6, <3>7 DEF AccountInv
  <2> QED BY <2>1, <2>2
<1> QED BY <1>1, <1>2, <1>3, <1>4, <1>5, CollectAccount, GatherAccount DEF Generator

\* A worker at an item changes what concerns that item only, and hands it back done.
Serves(t) ==
  LET i == work[t]
  IN  /\ at[t] # "idle"
      /\ UNCHANGED <<caller, queue>>
      /\ \A u \in Threads \ {t} : at'[u] = at[u] /\ key'[u] = key[u] /\ work'[u] = work[u]
      /\ at'[t] # "idle" => work'[t] = i /\ future'[i] = "running"
      /\ future'[i] \in {"running", "done"}
      /\ \A j \in Items : j # i => /\ future'[j] = future[j]
                                   /\ log'[j] = log[j]
                                   /\ j \in failed' <=> j \in failed

LEMMA ServesAccount ==
  ASSUME Typed, AccountInv, NEW t \in Threads, Serves(t)
  PROVE  WindowInv' /\ PoolInv' /\ OrderInv' /\ LedgerInv'
<1> DEFINE i == work[t]
<1>1. i \in Items /\ future[i] = "running" /\ at[t] # "idle"
  BY DEF Typed, Busy, AccountInv, PoolInv, Serves
<1>2. First' = First /\ UNCHANGED <<fresh, pending, results, raised, ledger, main, queue>>
  BY DEF Serves, caller, First
<1>3. \A j \in Items : j < First =>
        j # i /\ future'[j] = future[j] /\ log'[j] = log[j] /\ (j \in failed' <=> j \in failed)
  BY <1>1 DEF Serves, AccountInv, WindowInv, Over
<1>4. WindowInv'
  <2>1. ASSUME NEW j \in Items
        PROVE  (future'[j] = "new" <=> j >= fresh) /\ (j < First => Over(j)')
    BY <1>1, <1>3 DEF Serves, AccountInv, WindowInv, Over
  <2> QED BY <1>2, <2>1 DEF AccountInv, WindowInv
<1>5. PoolInv'
  <2>1. ASSUME NEW n \in DOMAIN queue
        PROVE  future'[queue[n]] \in {"queued", "cancelled"}
    <3>1. queue[n] \in Items
      BY DEF Typed, WorkerType
    <3>2. future[queue[n]] \in {"queued", "cancelled"}
      BY DEF AccountInv, PoolInv
    <3> QED BY <1>1, <3>1, <3>2 DEF Serves
  <2>2. ASSUME NEW u \in Threads, at'[u] # "idle"
        PROVE  future'[work'[u]] = "running" /\ (u # t => work[u] # i /\ at[u] # "idle" /\ work'[u] = work[u])
    <3>1. CASE u = t
      BY <2>2, <3>1 DEF Serves
    <3>2. CASE u # t
      <4>1. at[u] # "idle" /\ work'[u] = work[u] /\ work[u] \in Items
        BY <2>2, <3>2 DEF Serves, Typed, Busy
      <4>2. work[u] # i
        BY <1>1, <3>2, <4>1 DEF AccountInv, PoolInv
      <4> QED BY <4>1, <4>2 DEF Serves, AccountInv, PoolInv
    <3> QED BY <3>1, <3>2
  <2>3. ASSUME NEW u \in Threads, NEW v \in Threads, at'[u] # "idle", at'[v] # "idle", work'[u] = work'[v]
        PROVE  u = v
    <3>1. at'[t] # "idle" => work'[t] = i
      BY DEF Serves
    <3> QED BY <2>2, <2>3, <3>1 DEF AccountInv, PoolInv
  <2> QED BY <1>2, <2>1, <2>2, <2>3 DEF AccountInv, PoolInv
<1>6. OrderInv'
  <2>1. First \in Nat /\ First <= fresh /\ fresh \in 1..(Size + 1) /\ Size \in Nat
        /\ Len(results) \in Nat /\ raised \in 0..Size
    BY FirstTyped, SizeAssumption DEF AccountInv, Typed, CallerType
  <2>2. \A n \in 1..Len(results) : n \in Items /\ n < First
    BY <2>1 DEF AccountInv, OrderInv, Items
  <2>3. raised # 0 => raised \in Items /\ raised < First
    BY <2>1 DEF AccountInv, OrderInv, Items
  <2>4. HandedOnInItemOrder'
    BY <1>2, <1>3, <2>2, <2>3 DEF AccountInv, OrderInv, HandedOnInItemOrder
  <2> QED BY <1>2, <2>4 DEF AccountInv, OrderInv
<1>7. LedgerInv'
  <2>1. ASSUME NEW m \in DOMAIN ledger
        PROVE  Kept(ledger[m])'
    <3>1. Kept(ledger[m]) /\ ledger[m].item \in Items
      <4>1. ledger[m] \in CallRecord
        BY DEF Typed, CallerType
      <4> QED BY <4>1 DEF AccountInv, LedgerInv, CallRecord
    <3>2. log'[ledger[m].item] = log[ledger[m].item]
      BY <1>3, <3>1 DEF Kept
    <3> QED BY <1>2, <3>1, <3>2 DEF Kept
  <2>2. \A j \in Items : j < First =>
           \A n \in DOMAIN log'[j] : \E m \in DOMAIN ledger : ledger[m] = log'[j][n]
    BY <1>3 DEF AccountInv, LedgerInv
  <2> QED BY <1>2, <2>1, <2>2 DEF AccountInv, LedgerInv, Asked
<1> QED BY <1>4, <1>5, <1>6, <1>7

LEMMA FinishServes ==
  ASSUME Typed, NEW t \in Threads, NEW ok, at[t] # "idle", Finish(t, ok)
  PROVE  /\ at'[t] = "idle" /\ future'[work[t]] = "done"
         /\ \A u \in Threads \ {t} : at'[u] = at[u] /\ key'[u] = key[u] /\ work'[u] = work[u]
         /\ \A j \in Items : j # work[t] => future'[j] = future[j] /\ (j \in failed' <=> j \in failed)
<1>1. work[t] \in Items
  BY DEF Typed, Busy
<1> QED BY <1>1 DEF Finish, Typed, WorkerType

LEMMA UseAnswerServes ==
  ASSUME Typed, AccountInv, NEW t \in Threads, NEW answer, at[t] # "idle", UseAnswer(t, answer)
  PROVE  /\ at'[t] \in {"idle", "lock"}
         /\ at'[t] # "idle" => work'[t] = work[t] /\ future'[work[t]] = "running"
         /\ future'[work[t]] \in {"running", "done"}
         /\ \A u \in Threads \ {t} : at'[u] = at[u] /\ key'[u] = key[u] /\ work'[u] = work[u]
         /\ \A j \in Items : j # work[t] => future'[j] = future[j] /\ (j \in failed' <=> j \in failed)
<1>1. CASE answer = "invalid" /\ Repair[key[t]] # NoKey
  <2>1. /\ at' = [at EXCEPT ![t] = "lock"]
        /\ key' = [key EXCEPT ![t] = Repair[key[t]]]
        /\ UNCHANGED <<work, future, failed>>
    BY <1>1 DEF UseAnswer
  <2>2. future[work[t]] = "running"
    BY DEF AccountInv, PoolInv
  <2> QED BY <2>1, <2>2 DEF Typed, WorkerType
<1>2. CASE ~(answer = "invalid" /\ Repair[key[t]] # NoKey)
  BY <1>2, FinishServes DEF UseAnswer
<1> QED BY <1>1, <1>2

\* The log of a worker's item gains one record.
LEMMA RecordGrows ==
  ASSUME Typed, NEW t \in Threads, NEW how, at[t] # "idle", Record(t, how)
  PROVE  LET i == work[t]
             new == Len(log[i]) + 1
         IN  /\ \A j \in Items : j # i => log'[j] = log[j]
             /\ \A n \in DOMAIN log[i] : n # new /\ n \in DOMAIN log'[i] /\ log'[i][n] = log[i][n]
             /\ \A n \in DOMAIN log'[i] : n \in DOMAIN log[i] \/ n = new
             /\ new \in DOMAIN log'[i]
             /\ log'[i][new] = [item |-> i, key |-> key[t], how |-> how]
<1>1. work[t] \in Items /\ log[work[t]] \in Seq(CallRecord)
  BY DEF Typed, Busy, WorkerType
<1>2. log' = [log EXCEPT ![work[t]] = Append(@, [item |-> work[t], key |-> key[t], how |-> how])]
  BY DEF Record
<1>3. log \in [Items -> Seq(CallRecord)]
  BY DEF Typed, WorkerType
<1>4. log'[work[t]] = Append(log[work[t]], [item |-> work[t], key |-> key[t], how |-> how])
  BY <1>1, <1>2, <1>3
<1>5. \A j \in Items : j # work[t] => log'[j] = log[j]
  BY <1>2, <1>3
<1> QED BY <1>1, <1>4, <1>5

\* A step that leaves no record.
LEMMA SilentLog ==
  ASSUME Typed, AccountInv, NEW t \in Threads, Serves(t), log' = log,
         UNCHANGED <<asks, records>>, at'[t] # "asking"
  PROVE  LogInv'
<1>1. \A i \in Items : future'[i] \in {"new", "queued", "cancelled"} => future'[i] = future[i]
  BY DEF Serves
<1>2. \A u \in Threads : at'[u] = "asking" => at[u] = "asking" /\ key'[u] = key[u]
  BY DEF Serves
<1> QED BY <1>1, <1>2 DEF AccountInv, LogInv, Recorded

LEMMA AskLog ==
  ASSUME Typed, AskedInv, AccountInv, NEW t \in Threads, Ask(t)
  PROVE  LogInv'
<1>1. /\ key[t] \in Keys /\ at[t] = "check" /\ files[key[t]] = "none"
      /\ asks' = [asks EXCEPT ![key[t]] = @ + 1]
      /\ at' = [at EXCEPT ![t] = "asking"]
      /\ UNCHANGED <<records, log, future, key>>
  BY DEF Ask, At, Typed, Busy
<1>2. asks[key[t]] = 0 /\ records[key[t]] = 0
  <2>1. ~Settled(key[t])
    BY <1>1 DEF Settled, AskedInv, HoldsLock, Inside
  <2>2. asks[key[t]] = 0
    BY <1>1, <2>1 DEF AskedInv, Typed, StoreType
  <2> QED BY <1>1, <2>2 DEF AccountInv, LogInv, Typed, StoreType
<1>3. \A k \in Keys : asks'[k] = IF k = key[t] THEN 1 ELSE asks[k]
  BY <1>1, <1>2 DEF Typed, StoreType
<1>4. ASSUME NEW u \in Threads, at'[u] = "asking"
      PROVE  asks'[key'[u]] = 1 /\ records'[key'[u]] = 0
  <2>1. CASE u = t
    BY <1>1, <1>2, <1>3, <2>1
  <2>2. CASE u # t
    <3>1. at[u] = "asking" /\ key[u] \in Keys /\ asks[key[u]] = 1 /\ records[key[u]] = 0
      BY <1>1, <1>4, <2>2 DEF Typed, WorkerType, Busy, AccountInv, LogInv
    <3> QED BY <1>1, <1>3, <3>1
  <2> QED BY <2>1, <2>2
<1>5. \A k \in Keys : records'[k] <= asks'[k]
  BY <1>1, <1>2, <1>3 DEF AccountInv, LogInv
<1> QED BY <1>1, <1>4, <1>5 DEF AccountInv, LogInv, Recorded

\* A record of an answer on file counts for nothing.
LEMMA HitLog ==
  ASSUME Typed, AccountInv, NEW t \in Threads, Serves(t), Record(t, "hit"),
         UNCHANGED <<asks, records>>, at'[t] # "asking"
  PROVE  LogInv'
<1> DEFINE i == work[t]
           new == Len(log[i]) + 1
<1>1. /\ \A j \in Items : j # i => log'[j] = log[j]
      /\ \A n \in DOMAIN log[i] : n # new /\ n \in DOMAIN log'[i] /\ log'[i][n] = log[i][n]
      /\ \A n \in DOMAIN log'[i] : n \in DOMAIN log[i] \/ n = new
      /\ log'[i][new] = [item |-> i, key |-> key[t], how |-> "hit"]
      /\ i \in Items
  BY RecordGrows DEF Serves, Typed, Busy
<1>2. future'[i] \in {"running", "done"} /\ \A j \in Items : j # i => future'[j] = future[j]
  BY DEF Serves
<1>3. \A u \in Threads : at'[u] = "asking" => at[u] = "asking" /\ key'[u] = key[u]
  BY DEF Serves
<1> HIDE DEF i, new
<1>4. ASSUME NEW j \in Items, NEW n \in DOMAIN log'[j], NEW k, Costs(log'[j][n], k)
      PROVE  n \in DOMAIN log[j] /\ log'[j][n] = log[j][n]
  BY <1>1, <1>4 DEF Costs
<1>5. \A j \in Items : \A n \in DOMAIN log[j] : n \in DOMAIN log'[j] /\ log'[j][n] = log[j][n]
  BY <1>1
<1>6. ASSUME NEW k \in Keys
      PROVE  Recorded(k)' <=> Recorded(k)
  <2>1. Recorded(k) => Recorded(k)'
    BY <1>5 DEF Recorded
  <2>2. Recorded(k)' => Recorded(k)
    BY <1>4 DEF Recorded
  <2> QED BY <2>1, <2>2
<1>7. \A j \in Items : future'[j] \in {"new", "queued", "cancelled"} => log'[j] = << >>
  BY <1>1, <1>2 DEF AccountInv, LogInv
<1>8. \A j \in Items : \A n \in DOMAIN log'[j] : log'[j][n].item = j
  BY <1>1 DEF AccountInv, LogInv
<1>9. ASSUME NEW k \in Keys, NEW j \in Items, NEW h \in Items,
             NEW m \in DOMAIN log'[j], NEW n \in DOMAIN log'[h],
             Costs(log'[j][m], k), Costs(log'[h][n], k)
      PROVE  j = h /\ m = n
  <2>1. m \in DOMAIN log[j] /\ log'[j][m] = log[j][m]
    BY <1>4, <1>9
  <2>2. n \in DOMAIN log[h] /\ log'[h][n] = log[h][n]
    BY <1>4, <1>9
  <2> QED BY <1>9, <2>1, <2>2 DEF AccountInv, LogInv
<1>10. \A k \in Keys, j, h \in Items : \A m \in DOMAIN log'[j], n \in DOMAIN log'[h] :
        Costs(log'[j][m], k) /\ Costs(log'[h][n], k) => j = h /\ m = n
  BY <1>9
<1> QED BY <1>3, <1>6, <1>7, <1>8, <1>10 DEF AccountInv, LogInv

\* The one record of a request that was asked.
LEMMA CostLog ==
  ASSUME Typed, AskedInv, AccountInv, NEW t \in Threads, Serves(t), at[t] = "asking", at'[t] # "asking",
         NEW how \in {"paid", "error"}, Record(t, how),
         records' = [records EXCEPT ![key[t]] = @ + 1], asks' = asks
  PROVE  LogInv'
<1> DEFINE i == work[t]
           q == key[t]
           new == Len(log[i]) + 1
<1>1. /\ \A j \in Items : j # i => log'[j] = log[j]
      /\ \A n \in DOMAIN log[i] : n # new /\ n \in DOMAIN log'[i] /\ log'[i][n] = log[i][n]
      /\ \A n \in DOMAIN log'[i] : n \in DOMAIN log[i] \/ n = new
      /\ new \in DOMAIN log'[i]
      /\ log'[i][new] = [item |-> i, key |-> q, how |-> how]
      /\ i \in Items
  BY RecordGrows DEF Serves, Typed, Busy
<1>2. future'[i] \in {"running", "done"} /\ \A j \in Items : j # i => future'[j] = future[j]
  BY DEF Serves
<1>3. q \in Keys /\ asks[q] = 1 /\ records[q] = 0 /\ ~Recorded(q)
  BY DEF Typed, Busy, AccountInv, LogInv
<1>4. \A k \in Keys : records'[k] = IF k = q THEN 1 ELSE records[k]
  BY <1>3 DEF Typed, StoreType
<1>5. \A u \in Threads : at'[u] = "asking" => at[u] = "asking" /\ key'[u] = key[u] /\ key[u] # q /\ key[u] \in Keys
  <2> SUFFICES ASSUME NEW u \in Threads, at'[u] = "asking"
               PROVE  at[u] = "asking" /\ key'[u] = key[u] /\ key[u] # q /\ key[u] \in Keys
    OBVIOUS
  <2>1. u # t /\ at[u] = "asking" /\ key'[u] = key[u]
    BY DEF Serves
  <2> QED BY <2>1, Alone DEF Inside, Typed, Busy
<1>6. Costs(log'[i][new], q) /\ \A k : Costs(log'[i][new], k) => k = q
  BY <1>1 DEF Costs
<1> HIDE DEF i, new, q
<1>7. ASSUME NEW j \in Items, NEW n \in DOMAIN log'[j]
      PROVE  \/ n \in DOMAIN log[j] /\ log'[j][n] = log[j][n]
             \/ j = i /\ n = new
  BY <1>1
<1>8. \A j \in Items : \A n \in DOMAIN log[j] : n \in DOMAIN log'[j] /\ log'[j][n] = log[j][n]
  BY <1>1
<1>9. ASSUME NEW k \in Keys
      PROVE  records'[k] <= asks'[k] /\ (records'[k] = 0 <=> ~Recorded(k)')
  <2>1. CASE k = q
    <3>1. Recorded(k)'
      BY <1>1, <1>6, <2>1 DEF Recorded
    <3> QED BY <1>3, <1>4, <2>1, <3>1
  <2>2. CASE k # q
    <3>1. Recorded(k) => Recorded(k)'
      BY <1>8 DEF Recorded
    <3>2. Recorded(k)' => Recorded(k)
      BY <1>6, <1>7, <2>2 DEF Recorded
    <3> QED BY <1>4, <2>2, <3>1, <3>2 DEF AccountInv, LogInv
  <2> QED BY <2>1, <2>2
<1>10. \A j \in Items : future'[j] \in {"new", "queued", "cancelled"} => log'[j] = << >>
  BY <1>1, <1>2 DEF AccountInv, LogInv
<1>11. \A j \in Items : \A n \in DOMAIN log'[j] : log'[j][n].item = j
  BY <1>1 DEF AccountInv, LogInv
<1>12. ASSUME NEW k \in Keys, NEW j \in Items, NEW h \in Items,
              NEW m \in DOMAIN log'[j], NEW n \in DOMAIN log'[h],
              Costs(log'[j][m], k), Costs(log'[h][n], k)
       PROVE  j = h /\ m = n
  <2>1. CASE k = q
    <3>1. ~(m \in DOMAIN log[j] /\ log'[j][m] = log[j][m])
      BY <1>3, <1>12, <2>1 DEF Recorded
    <3>2. ~(n \in DOMAIN log[h] /\ log'[h][n] = log[h][n])
      BY <1>3, <1>12, <2>1 DEF Recorded
    <3> QED BY <1>7, <3>1, <3>2
  <2>2. CASE k # q
    <3>1. m \in DOMAIN log[j] /\ log'[j][m] = log[j][m]
      BY <1>6, <1>7, <1>12, <2>2
    <3>2. n \in DOMAIN log[h] /\ log'[h][n] = log[h][n]
      BY <1>6, <1>7, <1>12, <2>2
    <3> QED BY <1>12, <3>1, <3>2 DEF AccountInv, LogInv
  <2> QED BY <2>1, <2>2
<1>13. \A u \in Threads : at'[u] = "asking" => asks'[key'[u]] = 1 /\ records'[key'[u]] = 0
  BY <1>4, <1>5 DEF AccountInv, LogInv
<1>14. \A k \in Keys, j, h \in Items : \A m \in DOMAIN log'[j], n \in DOMAIN log'[h] :
        Costs(log'[j][m], k) /\ Costs(log'[h][n], k) => j = h /\ m = n
  BY <1>12
<1> QED BY <1>9, <1>10, <1>11, <1>13, <1>14 DEF LogInv

LEMMA TakeAccount ==
  ASSUME Typed, AccountInv, NEW t \in Threads, Take(t)
  PROVE  AccountInv'
<1> DEFINE i == Head(queue)
<1>1. /\ at[t] = "idle" /\ queue \in Seq(Items) /\ queue # << >> /\ queue' = Tail(queue)
      /\ UNCHANGED <<caller, log, failed, records, asks>>
  BY DEF Take, At, Typed, WorkerType, store
<1>2. /\ i = queue[1] /\ 1 \in DOMAIN queue /\ i \in Items
      /\ \A n \in DOMAIN queue' : n + 1 \in DOMAIN queue /\ queue'[n] = queue[n + 1] /\ 1 < n + 1
      /\ \A m, n \in DOMAIN queue' : m < n => m + 1 < n + 1
  BY <1>1
<1>3. \A n \in DOMAIN queue' : /\ queue'[n] \in Items /\ queue'[n] # i
                               /\ future[queue'[n]] \in {"queued", "cancelled"}
  <2> SUFFICES ASSUME NEW n \in DOMAIN queue'
               PROVE  /\ queue'[n] \in Items /\ queue'[n] # i
                      /\ future[queue'[n]] \in {"queued", "cancelled"}
    OBVIOUS
  <2>1. n + 1 \in DOMAIN queue /\ queue'[n] = queue[n + 1] /\ 1 < n + 1
    BY <1>2
  <2>2. queue[1] < queue[n + 1] /\ future[queue[n + 1]] \in {"queued", "cancelled"}
    BY <1>2, <2>1 DEF AccountInv, PoolInv
  <2>3. queue[n + 1] \in Items
    BY <1>1, <2>1
  <2> QED BY <1>2, <2>1, <2>2, <2>3, SizeAssumption DEF Items
<1>4. \A m, n \in DOMAIN queue' : m < n => queue'[m] < queue'[n]
  BY <1>2 DEF AccountInv, PoolInv
<1>5. future[i] \in {"queued", "cancelled"}
  BY <1>2 DEF AccountInv, PoolInv
<1>6. First' = First /\ UNCHANGED <<fresh, pending, results, raised, ledger, main>>
  BY <1>1 DEF caller, First
<1>7. OrderInv'
  BY <1>1, <1>6 DEF AccountInv, OrderInv, HandedOnInItemOrder
<1>8. LedgerInv'
  BY <1>1, <1>6 DEF AccountInv, LedgerInv, Kept, Asked
<1>9. CASE future[i] = "cancelled"
  <2>1. UNCHANGED <<future, at, work, key>>
    BY <1>9 DEF Take, workers
  <2>2. WindowInv'
    BY <1>6, <2>1 DEF AccountInv, WindowInv, Over
  <2>3. PoolInv'
    BY <1>3, <1>4, <2>1 DEF AccountInv, PoolInv
  <2>4. LogInv'
    BY <1>1, <2>1, LogUnchanged DEF AccountInv, LogVars
  <2> QED BY <1>7, <1>8, <2>2, <2>3, <2>4 DEF AccountInv
<1>10. CASE future[i] # "cancelled"
  <2>1. /\ future' = [future EXCEPT ![i] = "running"]
        /\ at' = [at EXCEPT ![t] = "lock"]
        /\ work' = [work EXCEPT ![t] = i]
        /\ key' = [key EXCEPT ![t] = wants[i]]
    BY <1>10 DEF Take
  <2> HIDE DEF i
  <2>2. \A j \in Items : IF j = i THEN future'[j] = "running" ELSE future'[j] = future[j]
    BY <1>2, <2>1 DEF Typed, WorkerType
  <2>3. /\ at'[t] = "lock" /\ work'[t] = i
        /\ \A u \in Threads \ {t} : at'[u] = at[u] /\ key'[u] = key[u] /\ work'[u] = work[u]
    BY <2>1 DEF Typed, WorkerType
  <2>4. future[i] = "queued"
    BY <1>5, <1>10
  <2>5. WindowInv'
    <3>1. ASSUME NEW j \in Items
          PROVE  (future'[j] = "new" <=> j >= fresh) /\ (j < First => Over(j)')
      BY <2>2, <2>4 DEF AccountInv, WindowInv, Over
    <3> QED BY <1>6, <3>1 DEF AccountInv, WindowInv
  <2>6. PoolInv'
    <3>1. \A n \in DOMAIN queue' : future'[queue'[n]] \in {"queued", "cancelled"}
      BY <1>3, <2>2
    <3>2. ASSUME NEW u \in Threads \ {t}, at'[u] # "idle"
          PROVE  at[u] # "idle" /\ work'[u] = work[u] /\ work[u] # i /\ future'[work[u]] = "running"
      <4>1. at[u] # "idle" /\ work'[u] = work[u]
        BY <2>3, <3>2
      <4>2. future[work[u]] = "running" /\ work[u] \in Items
        BY <4>1 DEF AccountInv, PoolInv, Typed, Busy
      <4> QED BY <2>2, <2>4, <4>1, <4>2
    <3>3. \A u \in Threads : at'[u] # "idle" => future'[work'[u]] = "running"
      BY <1>2, <2>2, <2>3, <3>2
    <3>4. ASSUME NEW u \in Threads, NEW v \in Threads,
                 at'[u] # "idle", at'[v] # "idle", work'[u] = work'[v]
          PROVE  u = v
      BY <2>3, <3>2, <3>4 DEF AccountInv, PoolInv
    <3> QED BY <1>4, <3>1, <3>3, <3>4 DEF PoolInv
  <2>7. LogInv'
    <3>1. \A j \in Items : future'[j] \in {"new", "queued", "cancelled"} => future'[j] = future[j]
      BY <2>2
    <3>2. \A u \in Threads : at'[u] = "asking" => at[u] = "asking" /\ key'[u] = key[u]
      BY <2>3
    <3> QED BY <1>1, <3>1, <3>2 DEF AccountInv, LogInv, Recorded
  <2> QED BY <1>7, <1>8, <2>5, <2>6, <2>7 DEF AccountInv
<1> QED BY <1>9, <1>10

LEMMA LockAccount ==
  ASSUME Typed, AccountInv, NEW t \in Threads, Lock(t)
  PROVE  AccountInv'
<1>1. /\ at[t] = "lock" /\ UNCHANGED <<caller, queue, log, asks, records>>
  BY DEF Lock, At, store
<1>2. Serves(t) /\ at'[t] # "asking"
  <2>1. CASE key[t] \in refused
    <3>1. Finish(t, FALSE)
      BY <2>1 DEF Lock
    <3> QED BY <1>1, <3>1, FinishServes DEF Serves
  <2>2. CASE key[t] \notin refused
    <3>1. at' = [at EXCEPT ![t] = "check"] /\ UNCHANGED <<future, failed, work, key>>
      BY <2>2 DEF Lock
    <3>2. future[work[t]] = "running"
      BY <1>1 DEF AccountInv, PoolInv
    <3> QED BY <1>1, <3>1, <3>2 DEF Serves, Typed, WorkerType
  <2> QED BY <2>1, <2>2
<1> QED BY <1>1, <1>2, ServesAccount, SilentLog DEF AccountInv

LEMMA AskAccount ==
  ASSUME Typed, AskedInv, AccountInv, NEW t \in Threads, Ask(t)
  PROVE  AccountInv'
<1>1. /\ at[t] = "check" /\ at' = [at EXCEPT ![t] = "asking"]
      /\ UNCHANGED <<caller, queue, log, future, failed, work, key>>
  BY DEF Ask, At
<1>2. future[work[t]] = "running"
  BY <1>1 DEF AccountInv, PoolInv
<1>3. Serves(t)
  BY <1>1, <1>2 DEF Serves, Typed, WorkerType
<1> QED BY <1>3, ServesAccount, AskLog DEF AccountInv

LEMMA CacheAccount ==
  ASSUME Typed, AccountInv, NEW t \in Threads, CacheHit(t) \/ CacheFails(t) \/ AnswerLost(t)
  PROVE  AccountInv'
<1>1. at[t] # "idle" /\ UNCHANGED <<caller, queue, asks, records>>
  BY DEF CacheHit, CacheFails, AnswerLost, At, store
<1>2. CASE CacheHit(t)
  <2>1. Record(t, "hit") /\ UseAnswer(t, files[key[t]])
    BY <1>2 DEF CacheHit
  <2>2. \A j \in Items : j # work[t] => log'[j] = log[j]
    BY <1>1, <2>1, RecordGrows
  <2>3. Serves(t) /\ at'[t] # "asking"
    BY <1>1, <2>1, <2>2, UseAnswerServes DEF Serves
  <2> QED BY <1>1, <2>1, <2>3, ServesAccount, HitLog DEF AccountInv
<1>3. CASE CacheFails(t) \/ AnswerLost(t)
  <2>1. Finish(t, FALSE) /\ log' = log
    BY <1>3 DEF CacheFails, AnswerLost
  <2>2. Serves(t) /\ at'[t] # "asking"
    BY <1>1, <2>1, FinishServes DEF Serves
  <2> QED BY <1>1, <2>1, <2>2, ServesAccount, SilentLog DEF AccountInv
<1> QED BY <1>2, <1>3

LEMMA AnswerAccount ==
  ASSUME Typed, AskedInv, AccountInv, NEW t \in Threads, Answer(t) \/ AskFails(t)
  PROVE  AccountInv'
<1>1. /\ at[t] = "asking" /\ UNCHANGED <<caller, queue, asks>>
      /\ records' = [records EXCEPT ![key[t]] = @ + 1]
  BY DEF Answer, AskFails, At
<1>2. CASE Answer(t)
  <2>1. PICK answer \in {"valid", "invalid"} : UseAnswer(t, answer)
    BY <1>2 DEF Answer
  <2>2. Record(t, "paid")
    BY <1>2 DEF Answer
  <2>3. \A j \in Items : j # work[t] => log'[j] = log[j]
    BY <1>1, <2>2, RecordGrows
  <2>4. Serves(t) /\ at'[t] # "asking"
    BY <1>1, <2>1, <2>3, UseAnswerServes DEF Serves
  <2> QED BY <1>1, <2>2, <2>4, ServesAccount, CostLog DEF AccountInv
<1>3. CASE AskFails(t)
  <2>1. Finish(t, FALSE) /\ Record(t, "error")
    BY <1>3 DEF AskFails
  <2>2. \A j \in Items : j # work[t] => log'[j] = log[j]
    BY <1>1, <2>1, RecordGrows
  <2>3. Serves(t) /\ at'[t] # "asking"
    BY <1>1, <2>1, <2>2, FinishServes DEF Serves
  <2> QED BY <1>1, <2>1, <2>3, ServesAccount, CostLog DEF AccountInv
<1> QED BY <1>2, <1>3

LEMMA NextAccount == Typed /\ AskedInv /\ CalmInv /\ AccountInv /\ [Next]_vars => AccountInv'
<1> SUFFICES ASSUME Typed, AskedInv, CalmInv, AccountInv, [Next]_vars PROVE AccountInv'
  OBVIOUS
<1>1. CASE \E t \in Threads : Worker(t)
  BY <1>1, TakeAccount, LockAccount, AskAccount, CacheAccount, AnswerAccount DEF Worker
<1>2. CASE UNCHANGED vars
  <2>1. /\ UNCHANGED <<fresh, pending, results, raised, ledger, queue, future, LogVars>>
        /\ main' = main
    BY <1>2 DEF vars, store, caller, workers, LogVars
  <2>2. main' # "closed" \/ pending = << >>
    BY <2>1 DEF AccountInv, LedgerInv
  <2> QED BY <2>1, <2>2, StillAccount
<1> QED BY <1>1, <1>2, GeneratorAccount, AgainAccount DEF Next

\* However a batch ends: results and the first error come in item order, and each recorded
\* request is accounted once, in item order, also for items whose results nobody took.
THEOREM BatchesStayInOrder == Spec => []BatchKeepsItemOrder
<1>1. Spec => [](Typed /\ AskedInv /\ CalmInv)
  BY AskedAlways, InitCalm, NextCalm, PTL DEF Spec
<1>2. Spec => []AccountInv
  BY <1>1, InitAccount, NextAccount, PTL DEF Spec
<1> QED BY <1>1, <1>2, AccountIsOrdered, PTL

=============================================================================
