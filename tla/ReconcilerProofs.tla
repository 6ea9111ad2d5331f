---------------------------- MODULE ReconcilerProofs ----------------------------
(***************************************************************************)
(* Proofs about Reconciler: for any number of autoscalers, users' steps,   *)
(* restarts and kinds of sources, no live object drops out of the queue,   *)
(* and a deletion that was reconciled leaves no history.                   *)
(***************************************************************************)
EXTENDS Reconciler, TLAPS

ObjectFields == {"uid", "generation", "spec", "finalizer", "deleting", "status"}

IsObject(copy) ==
  /\ DOMAIN copy = ObjectFields
  /\ copy.uid \in Nat \ {0} /\ copy.uid <= events /\ copy.generation \in Nat

\* As much of the variables' types as the argument needs.
Shapes ==
  /\ events \in Nat
  /\ DOMAIN api = Autoscalers /\ DOMAIN cache = Autoscalers
  /\ DOMAIN history = Autoscalers
  /\ \A n \in Autoscalers :
       (api[n] # None => IsObject(api[n])) /\ (cache[n] # None => IsObject(cache[n]))
  /\ phase # "idle" => active \in Autoscalers

\* The generation tells copies of an object apart as far as Reconcile branches
\* on them: a change that the predicate drops is no news.
GenerationsTell ==
  \A n \in Autoscalers :
    api[n] # None /\ cache[n] # None /\ cache[n].uid = api[n].uid =>
      /\ cache[n].generation <= api[n].generation
      /\ cache[n].generation = api[n].generation => cache[n].deleting = api[n].deleting

IInv == Shapes /\ GenerationsTell /\ NeverForgotten /\ DeletionForgets

\* The steps of users and of the API server change one object, and if they keep
\* its UID, they raise its generation or keep what Reconcile branches on.
ApiChange(n, new) ==
  /\ DOMAIN api' = DOMAIN api /\ api'[n] = new
  /\ \A m \in Autoscalers : m # n => api'[m] = api[m]
  /\ events' \in Nat /\ events <= events'
  /\ new # None =>
       /\ DOMAIN new = ObjectFields
       /\ new.uid \in Nat \ {0} /\ new.uid <= events' /\ new.generation \in Nat
       /\ \/ new.uid > events
          \/ /\ api[n] # None /\ new.uid = api[n].uid
             /\ \/ new.generation > api[n].generation
                \/ new.generation = api[n].generation /\ new.deleting = api[n].deleting

LEMMA ApiChangeKeepsCopies ==
  ASSUME Shapes, GenerationsTell, NEW n \in Autoscalers, NEW new, ApiChange(n, new),
         UNCHANGED cache
  PROVE  /\ DOMAIN api' = Autoscalers
         /\ \A m \in Autoscalers : (api[m] # None => IsObject(api[m]))'
                                     /\ (cache[m] # None => IsObject(cache[m]))'
         /\ GenerationsTell'
<1>1. DOMAIN api' = Autoscalers BY DEF ApiChange, Shapes
<1>2. ASSUME NEW m \in Autoscalers
      PROVE  /\ (api[m] # None => IsObject(api[m]))'
             /\ (cache[m] # None => IsObject(cache[m]))'
             /\ (api[m] # None /\ cache[m] # None /\ cache[m].uid = api[m].uid =>
                   /\ cache[m].generation <= api[m].generation
                   /\ cache[m].generation = api[m].generation
                        => cache[m].deleting = api[m].deleting)'
  <2>1. CASE m # n
    <3>1. api'[m] = api[m] BY <2>1 DEF ApiChange, Shapes
    <3> QED BY <3>1 DEF ApiChange, Shapes, IsObject, GenerationsTell
  <2>2. CASE m = n
    <3>1. api'[m] = new BY <2>2 DEF ApiChange, Shapes
    <3>2. cache[m] # None => IsObject(cache[m]) BY DEF Shapes
    <3>3. api[m] # None => IsObject(api[m]) BY DEF Shapes
    <3> QED BY <2>2, <3>1, <3>2, <3>3 DEF ApiChange, Shapes, IsObject, GenerationsTell
  <2> QED BY <2>1, <2>2
<1> QED BY <1>1, <1>2 DEF GenerationsTell

LEMMA InitInvariant == Init => IInv
BY SMTT(30) DEF Init, IInv, Shapes, GenerationsTell, NeverForgotten, DeletionForgets,
   Idle, NothingRecent, Log!Init

\* A step that leaves the queue and its surroundings alone.
QueueVars == <<cache, queue, waiting, history, active, phase>>

LEMMA ApiStepInvariant ==
  ASSUME IInv, NEW n \in Autoscalers, NEW new, ApiChange(n, new), UNCHANGED QueueVars
  PROVE  IInv'
<1>1. UNCHANGED cache BY DEF QueueVars
<1>2. /\ DOMAIN api' = Autoscalers
      /\ \A m \in Autoscalers : (api[m] # None => IsObject(api[m]))'
                                  /\ (cache[m] # None => IsObject(cache[m]))'
      /\ GenerationsTell'
  BY <1>1, ApiChangeKeepsCopies DEF IInv
<1>3. Shapes' BY <1>2 DEF IInv, Shapes, ApiChange, QueueVars
<1>4. NeverForgotten' /\ DeletionForgets'
  BY DEF IInv, NeverForgotten, DeletionForgets, QueueVars, NothingRecent
<1> QED BY <1>2, <1>3, <1>4 DEF IInv

\* What the queue is about: the steps of the worker between StartReconcile and
\* Finish touch nothing but the history of the active object.
LEMMA WorkerStepInvariant ==
  ASSUME IInv, WorkerStep, UNCHANGED active,
         active \in Autoscalers, DOMAIN history' = Autoscalers,
         \A n \in Autoscalers : n # active => history'[n] = history[n]
  PROVE  IInv'
<1>1. Shapes' BY DEF IInv, WorkerStep, Shapes, IsObject
<1>2. GenerationsTell' BY DEF IInv, WorkerStep, GenerationsTell
<1>3. NeverForgotten' BY DEF IInv, WorkerStep, NeverForgotten
<1>4. DeletionForgets'
  BY DEF IInv, WorkerStep, DeletionForgets, NothingRecent
<1> QED BY <1>1, <1>2, <1>3, <1>4 DEF IInv

LEMMA FinishInvariant ==
  ASSUME IInv, Finish, NEW n \in Autoscalers, NEW new, ApiChange(n, new)
  PROVE  IInv'
<1>1. /\ DOMAIN api' = Autoscalers
      /\ \A m \in Autoscalers : (api[m] # None => IsObject(api[m]))'
                                  /\ (cache[m] # None => IsObject(cache[m]))'
      /\ GenerationsTell'
  BY ApiChangeKeepsCopies DEF IInv, Finish
<1>2. Shapes' BY <1>1 DEF IInv, Shapes, ApiChange, Finish, ResetWork
<1>3. NeverForgotten' BY DEF IInv, Finish, ResetWork, NeverForgotten
<1>4. DeletionForgets'
  BY AutoscalersAssumption DEF IInv, Finish, ResetWork, DeletionForgets, NothingRecent
<1> QED BY <1>1, <1>2, <1>3, <1>4 DEF IInv

LEMMA UserSteps ==
  ASSUME IInv, NEW n \in Autoscalers,
         Create(n) \/ Update(n) \/ Delete(n) \/ RemoveFinalizer(n)
  PROVE  IInv'
<1> USE DEF Event
<1>1. Shapes BY DEF IInv
<1>2. UNCHANGED QueueVars
  BY DEF Create, Update, Delete, RemoveFinalizer, ApiStep, work, QueueVars
<1>3. events' \in Nat /\ events <= events'
  BY <1>1 DEF Create, Update, Delete, RemoveFinalizer, Shapes
<1>4. CASE Create(n)
  <2>1. PICK spec \in Specs, finalizer \in BOOLEAN :
          api' = [api EXCEPT ![n] = [uid |-> events + 1, generation |-> 1, spec |-> spec,
                                     finalizer |-> finalizer, deleting |-> FALSE,
                                     status |-> NoStatus]]
    BY <1>4 DEF Create
  <2> DEFINE new == [uid |-> events + 1, generation |-> 1, spec |-> spec,
                     finalizer |-> finalizer, deleting |-> FALSE, status |-> NoStatus]
  <2>2. events' = events + 1 BY <1>4 DEF Create
  <2>3. /\ DOMAIN new = ObjectFields
        /\ new.uid = events + 1 /\ new.generation = 1
    BY DEF ObjectFields
  <2>4. api' = [api EXCEPT ![n] = new] BY <2>1
  <2> HIDE DEF new
  <2>5. ApiChange(n, new) BY <1>1, <2>2, <2>3, <2>4 DEF ApiChange, Shapes
  <2> QED BY <1>2, <2>5, ApiStepInvariant
<1>5. CASE Update(n)
  <2>1. PICK spec : api' = [api EXCEPT ![n].spec = spec, ![n].generation = @ + 1]
    BY <1>5 DEF Update
  <2>2. api[n] # None /\ DOMAIN api[n] = ObjectFields /\ n \in DOMAIN api
    BY <1>1, <1>5 DEF Update, Shapes, IsObject
  <2>3. api'[n] = [api[n] EXCEPT !.spec = spec, !.generation = @ + 1] BY <2>1, <2>2
  <2>4. api' = [api EXCEPT ![n] = api'[n]] BY <2>1, <2>2, <2>3
  <2>5. /\ DOMAIN api'[n] = ObjectFields /\ api'[n].uid = api[n].uid
        /\ api'[n].generation = api[n].generation + 1
    BY <2>2, <2>3 DEF ObjectFields
  <2>6. ApiChange(n, api'[n])
    BY <1>1, <1>3, <2>2, <2>4, <2>5 DEF ApiChange, Shapes, IsObject
  <2> QED BY <1>2, <2>6, ApiStepInvariant
<1>6. CASE Delete(n) /\ api[n].finalizer
  <2>1. api' = [api EXCEPT ![n].deleting = TRUE, ![n].generation = @ + 1]
    BY <1>6 DEF Delete
  <2>2. api[n] # None /\ DOMAIN api[n] = ObjectFields /\ n \in DOMAIN api
    BY <1>1, <1>6 DEF Delete, Shapes, IsObject
  <2>3. api'[n] = [api[n] EXCEPT !.deleting = TRUE, !.generation = @ + 1] BY <2>1, <2>2
  <2>4. api' = [api EXCEPT ![n] = api'[n]] BY <2>1, <2>2, <2>3
  <2>5. /\ DOMAIN api'[n] = ObjectFields /\ api'[n].uid = api[n].uid
        /\ api'[n].generation = api[n].generation + 1
    BY <2>2, <2>3 DEF ObjectFields
  <2>6. ApiChange(n, api'[n])
    BY <1>1, <1>3, <2>2, <2>4, <2>5 DEF ApiChange, Shapes, IsObject
  <2> QED BY <1>2, <2>6, ApiStepInvariant
<1>7. CASE (Delete(n) /\ ~api[n].finalizer) \/ RemoveFinalizer(n)
  <2>1. ApiChange(n, None)
    BY <1>1, <1>3, <1>7 DEF Delete, RemoveFinalizer, ApiChange, Shapes
  <2> QED BY <1>2, <2>1, ApiStepInvariant
<1> QED BY <1>4, <1>5, <1>6, <1>7

LEMMA SyncStep == ASSUME IInv, NEW n \in Autoscalers, CacheSync(n) PROVE IInv'
<1> USE DEF CacheSync
<1>1. UNCHANGED <<api, events, waiting, history, active, phase>> BY DEF work
<1>2. Shapes' BY <1>1 DEF IInv, Shapes, IsObject
<1>3. GenerationsTell' BY DEF IInv, Shapes, IsObject, GenerationsTell
<1>4. queue \subseteq queue' OBVIOUS
<1>5. n \in queue' \/ ( /\ cache[n] # None /\ api[n] # None
                       /\ cache'[n].deleting = cache[n].deleting )
  BY DEF IInv, Shapes, IsObject, GenerationsTell, Identity
<1>6. \A m \in Autoscalers : m # n => cache'[m] = cache[m] BY DEF IInv, Shapes
<1>7. NeverForgotten' BY <1>1, <1>4, <1>5, <1>6 DEF IInv, NeverForgotten
<1>8. DeletionForgets'
  BY <1>1, <1>4, <1>5, <1>6 DEF IInv, DeletionForgets, NothingRecent
<1> QED BY <1>2, <1>3, <1>7, <1>8 DEF IInv

LEMMA QueueSteps ==
  ASSUME IInv, NEW n \in Autoscalers,
         TimerFires(n) \/ ReconcileGone(n) \/ ScopeFails(n) \/ StartReconcile(n)
  PROVE  IInv'
<1> USE DEF TimerFires, ReconcileGone, ScopeFails, StartReconcile, Take
<1>1. UNCHANGED <<api, events, cache, history>> OBVIOUS
<1>2. Shapes' BY <1>1, AutoscalersAssumption DEF IInv, Shapes, IsObject, work
<1>3. GenerationsTell' BY <1>1 DEF IInv, GenerationsTell
<1>4. NeverForgotten'
  <2>1. CASE TimerFires(n) BY <2>1 DEF IInv, NeverForgotten, work
  <2>2. CASE ReconcileGone(n) BY <2>2 DEF IInv, NeverForgotten, work
  <2>3. CASE ScopeFails(n) BY <2>3 DEF IInv, NeverForgotten, work
  <2>4. CASE StartReconcile(n)
    <3>1. active' = n /\ queue' = queue \ {n} /\ UNCHANGED <<cache, waiting>>
      BY <2>4
    <3>2. active = None BY <2>4
    <3> QED BY <3>1, <3>2, AutoscalersAssumption DEF IInv, NeverForgotten
  <2> QED BY <2>1, <2>2, <2>3, <2>4
<1>5. DeletionForgets'
  BY AutoscalersAssumption DEF IInv, DeletionForgets, NothingRecent, work
<1> QED BY <1>2, <1>3, <1>4, <1>5 DEF IInv

LEMMA DeletedStep == ASSUME IInv, NEW n \in Autoscalers, ReconcileDeleted(n) PROVE IInv'
<1> USE DEF ReconcileDeleted, Take, work
<1>1. history' = [history EXCEPT ![n] = NothingRecent[n]]
  BY DEF Log!Forget, NothingRecent
<1>2. Shapes' BY <1>1 DEF IInv, Shapes, IsObject
<1>3. GenerationsTell' BY DEF IInv, GenerationsTell
<1>4. NeverForgotten' BY DEF IInv, NeverForgotten
<1>5. ASSUME NEW m \in Autoscalers, (cache[m] # None /\ cache[m].deleting /\ m \notin queue)'
      PROVE  (active # m /\ history[m] = NothingRecent[m])'
  <2>1. CASE m = n
    BY <1>1, <2>1, AutoscalersAssumption DEF IInv, Shapes, NothingRecent
  <2>2. CASE m # n
    <3>1. history'[m] = history[m] BY <1>1, <2>2 DEF IInv, Shapes
    <3> QED BY <1>5, <2>2, <3>1 DEF IInv, DeletionForgets, NothingRecent
  <2> QED BY <2>1, <2>2
<1> QED BY <1>2, <1>3, <1>4, <1>5 DEF IInv, DeletionForgets

LEMMA WorkerSteps == ASSUME IInv, Worker PROVE IInv'
<1>1. phase # "idle" /\ active \in Autoscalers
  BY DEF IInv, Shapes, Worker, FetchFails, FetchSucceeds, ProcessResource, SkipResource,
     ConcludeFetch, Apply, PatchStatus, PatchFails
<1>2. CASE FetchFails \/ FetchSucceeds \/ SkipResource \/ ConcludeFetch \/ Apply
  <2>1. WorkerStep /\ UNCHANGED <<active, history>>
    BY <1>2 DEF FetchFails, FetchSucceeds, SkipResource, ConcludeFetch, Apply
  <2> QED BY <1>1, <2>1, WorkerStepInvariant DEF IInv, Shapes
<1>3. CASE ProcessResource
  <2>1. WorkerStep /\ UNCHANGED active BY <1>3 DEF ProcessResource
  <2>2. PICK r, sample : history' = [history EXCEPT ![active][r] = Log!Remember(@, sample)]
    BY <1>3 DEF ProcessResource, Log!Record
  <2>3. DOMAIN history' = Autoscalers BY <2>2 DEF IInv, Shapes
  <2>4. \A n \in Autoscalers : n # active => history'[n] = history[n]
    BY <2>2 DEF IInv, Shapes
  <2> QED BY <1>1, <2>1, <2>3, <2>4, WorkerStepInvariant
<1>4. CASE PatchStatus
  <2> DEFINE new == [api[active] EXCEPT !.status = Patched(@)]
  <2>1. Shapes /\ api[active] # None BY <1>4 DEF IInv, PatchStatus
  <2>2. IsObject(api[active]) BY <1>1, <2>1 DEF Shapes
  <2>3. api' = [api EXCEPT ![active] = new] BY <1>1, <1>4, <2>1 DEF PatchStatus, Shapes
  <2>4. /\ DOMAIN new = ObjectFields /\ new.uid = api[active].uid
        /\ new.generation = api[active].generation /\ new.deleting = api[active].deleting
    BY <2>2 DEF IsObject, ObjectFields
  <2>5. Finish BY <1>4 DEF PatchStatus
  <2> HIDE DEF new
  <2>6. ApiChange(active, new)
    BY <1>1, <2>1, <2>2, <2>3, <2>4, <2>5 DEF ApiChange, IsObject, Shapes, Finish
  <2> QED BY <1>1, <2>5, <2>6, FinishInvariant
<1>5. CASE PatchFails
  <2>1. Finish /\ UNCHANGED api BY <1>5 DEF PatchFails
  <2>2. api[active] # None => IsObject(api[active]) BY <1>1 DEF IInv, Shapes
  <2>3. ApiChange(active, api[active])
    BY <1>1, <2>1, <2>2 DEF ApiChange, IsObject, IInv, Shapes, Finish
  <2> QED BY <1>1, <2>1, <2>3, FinishInvariant
<1> QED BY <1>2, <1>3, <1>4, <1>5 DEF Worker

LEMMA RestartStep == ASSUME IInv, Restart PROVE IInv'
<1> USE DEF Restart, ResetWork
<1>1. Shapes' BY DEF IInv, Shapes, IsObject, NothingRecent
<1>2. GenerationsTell' BY DEF IInv, Shapes, IsObject, GenerationsTell
<1>3. NeverForgotten' BY DEF NeverForgotten
<1>4. DeletionForgets' BY AutoscalersAssumption DEF DeletionForgets, NothingRecent
<1> QED BY <1>1, <1>2, <1>3, <1>4 DEF IInv

LEMMA InvariantKept == IInv /\ [Next]_vars => IInv'
<1> SUFFICES ASSUME IInv, [Next]_vars PROVE IInv' OBVIOUS
<1>1. CASE UNCHANGED vars \/ ChangeCluster
  BY <1>1 DEF vars, work, ChangeCluster, IInv, Shapes, IsObject, GenerationsTell,
     NeverForgotten, DeletionForgets, NothingRecent
<1>2. CASE Restart BY <1>2, RestartStep
<1>3. CASE Worker BY <1>3, WorkerSteps
<1>4. ASSUME NEW n \in Autoscalers,
             \/ Create(n) \/ Update(n) \/ Delete(n) \/ RemoveFinalizer(n)
             \/ CacheSync(n) \/ TimerFires(n)
             \/ ReconcileGone(n) \/ ReconcileDeleted(n) \/ ScopeFails(n)
             \/ StartReconcile(n)
      PROVE  IInv'
  BY <1>4, UserSteps, SyncStep, QueueSteps, DeletedStep
<1> QED BY <1>1, <1>2, <1>3, <1>4 DEF Next

LEMMA Invariant == Spec => []IInv
BY InitInvariant, InvariantKept, PTL DEF Spec

\* However fetches, forecasts, resizes and patches end, a live object that the
\* operator has seen is queued, waiting or being reconciled
\* (neuralautoscaler_controller.go:79-197 and its requeues).
THEOREM NothingIsForgotten == Spec => []NeverForgotten
<1>1. IInv => NeverForgotten BY DEF IInv
<1> QED BY <1>1, Invariant, PTL

\* After the eviction of a deleted object (neuralautoscaler_controller.go:86-89)
\* no reconcile that began before it brings a sample of it back.
THEOREM DeletionsForget == Spec => []DeletionForgets
<1>1. IInv => DeletionForgets BY DEF IInv
<1> QED BY <1>1, Invariant, PTL
===============================================================================
