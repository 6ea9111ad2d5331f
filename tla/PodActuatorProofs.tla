--------------------------- MODULE PodActuatorProofs ---------------------------
(***************************************************************************)
(* Proofs about PodActuator: whatever happens between the reads of         *)
(* listEligiblePods and the updates of resizePod, for any pods, containers *)
(* and resize spec, an update only changes a pod that is what the copy     *)
(* says it is.                                                             *)
(***************************************************************************)
EXTENDS PodActuator, ResizeTargetsProofs, FiniteSetTheorems, WellFoundedInduction, TLAPS

PodFields == {"version", "containers", "terminating", "pending", "inProgress"}

Shapes ==
  /\ DOMAIN api = Pods /\ DOMAIN cache = Pods /\ DOMAIN eligible \subseteq Pods
  /\ \A p \in Pods : (api[p] # NoPod => DOMAIN api[p] = PodFields)
                       /\ (cache[p] # NoPod => DOMAIN cache[p] = PodFields)

\* A copy with the version of the pod is the pod, also when the pod was deleted
\* and created anew since the copy was made.
CopiesAreVersions ==
  \A p \in Pods : api[p] # NoPod =>
    /\ cache[p] # NoPod /\ cache[p].version = api[p].version => cache[p] = api[p]
    /\ p \in DOMAIN eligible /\ eligible[p].version = api[p].version => eligible[p] = api[p]

EligibleCopies ==
  /\ \A p \in DOMAIN eligible : Eligible(eligible[p])
  /\ phase = "resizing" => todo \subseteq DOMAIN eligible

IInv == Shapes /\ CopiesAreVersions /\ EligibleCopies

LEMMA FreshVersionIsFresh ==
  ASSUME NEW p \in Pods
  PROVE  /\ FreshVersion(p) \in Versions
         /\ cache[p] # NoPod => FreshVersion(p) # cache[p].version
         /\ p \in DOMAIN eligible /\ eligible[p] # NoPod =>
              FreshVersion(p) # eligible[p].version
<1> DEFINE a == api[p].version
           c == cache[p].version
           e == At(eligible, p, NoPod).version
<1>1. PICK v \in Versions : v # a /\ v # c /\ v # e
  <2> HIDE DEF a, c, e
  <2> QED BY DEF Versions
<1>2. v \notin Held(p) BY <1>1 DEF Held
<1>3. FreshVersion(p) \in Versions /\ FreshVersion(p) \notin Held(p)
  BY <1>2 DEF FreshVersion
<1> QED BY <1>3 DEF Held, At

\* A write makes every copy of the pod an old one.
LEMMA WriteInvariant ==
  ASSUME IInv, NEW p \in Pods, NEW pod, Write(p, pod), DOMAIN pod = PodFields,
         UNCHANGED cache,
         \/ UNCHANGED <<eligible, todo, phase>>
         \/ eligible' = << >> /\ phase' = "idle"
         \/ UNCHANGED <<eligible, phase>> /\ todo' \subseteq todo
  PROVE  IInv'
<1> DEFINE new == [pod EXCEPT !.version = FreshVersion(p)]
<1>1. DOMAIN new = PodFields /\ new.version = FreshVersion(p) BY DEF PodFields
<1>2. api' = [api EXCEPT ![p] = new] BY DEF Write
<1> HIDE DEF new
<1>3. /\ api'[p] = new /\ DOMAIN api' = Pods
      /\ \A q \in Pods : q # p => api'[q] = api[q]
  BY <1>2 DEF IInv, Shapes
<1>4. DOMAIN eligible' \subseteq DOMAIN eligible
      /\ \A q \in DOMAIN eligible' : eligible'[q] = eligible[q]
  OBVIOUS
<1>5. \A q \in DOMAIN eligible : eligible[q] # NoPod BY DEF IInv, EligibleCopies, Eligible
<1>6. Shapes' BY <1>1, <1>3, <1>4 DEF IInv, Shapes
<1>7. CopiesAreVersions'
  <2>1. ASSUME NEW q \in Pods, q # p, api'[q] # NoPod
        PROVE  /\ cache'[q] # NoPod /\ cache'[q].version = api'[q].version
                    => cache'[q] = api'[q]
               /\ q \in DOMAIN eligible' /\ eligible'[q].version = api'[q].version
                    => eligible'[q] = api'[q]
    BY <1>3, <1>4, <2>1 DEF IInv, CopiesAreVersions
  <2>2. /\ cache'[p] # NoPod => cache'[p].version # api'[p].version
        /\ p \in DOMAIN eligible' => eligible'[p].version # api'[p].version
    BY <1>1, <1>3, <1>4, <1>5, FreshVersionIsFresh
  <2> QED BY <2>1, <2>2 DEF CopiesAreVersions
<1>8. EligibleCopies' BY <1>4 DEF IInv, EligibleCopies, Eligible, ResizeInProgress
<1> QED BY <1>6, <1>7, <1>8 DEF IInv

LEMMA InitInvariant == Init => IInv
<1> SUFFICES ASSUME Init PROVE IInv OBVIOUS
<1>1. PICK t \in [Pods -> Templates], atWork \in [Pods -> BOOLEAN] :
        api = [p \in Pods |-> [version |-> 0, containers |-> t[p], terminating |-> FALSE,
                               pending |-> FALSE, inProgress |-> atWork[p]]]
  BY DEF Init
<1>2. cache = api /\ eligible = << >> /\ phase = "idle" BY DEF Init
<1>3. \A p \in Pods : DOMAIN api[p] = PodFields BY <1>1 DEF PodFields
<1>4. DOMAIN eligible = {} BY <1>2
<1> QED BY <1>1, <1>2, <1>3, <1>4 DEF IInv, Shapes, CopiesAreVersions, EligibleCopies

\* An accepted update finds the pod as the copy has it.
LEMMA AcceptedIsCurrent ==
  ASSUME IInv, NEW p \in Pods, ResizePod(p)
  PROVE  api[p] = eligible[p] /\ api[p] # NoPod /\ Eligible(eligible[p])
BY DEF IInv, ResizePod, Accepted, Exists, CopiesAreVersions, EligibleCopies

\* Steps that touch no pod and forget the copies, or keep them.
LEMMA WorkerInvariant ==
  ASSUME IInv, UNCHANGED <<api, cache>>,
         \/ eligible' = << >> /\ phase' # "resizing"
         \/ UNCHANGED <<eligible, phase>> /\ todo' \subseteq todo
  PROVE  IInv'
<1>1. DOMAIN eligible' \subseteq DOMAIN eligible
      /\ \A q \in DOMAIN eligible' : eligible'[q] = eligible[q]
  OBVIOUS
<1>2. Shapes' BY <1>1 DEF IInv, Shapes
<1>3. CopiesAreVersions' BY <1>1 DEF IInv, CopiesAreVersions
<1>4. EligibleCopies' BY <1>1 DEF IInv, EligibleCopies, Eligible, ResizeInProgress
<1> QED BY <1>2, <1>3, <1>4 DEF IInv

LEMMA ListInvariant == ASSUME IInv, NEW p \in Pods, ListPod(p) PROVE IInv'
<1> DEFINE kept == IF Eligible(cache[p]) THEN Keep(p) ELSE eligible
<1>1. /\ UNCHANGED <<api, cache>> /\ phase = "listing"
      /\ \/ eligible' = kept /\ phase' = "listing"
         \/ eligible' = << >> /\ phase' = "idle"
         \/ eligible' = kept /\ phase' = "resizing" /\ todo' = DOMAIN kept
  BY DEF ListPod, BackToIdle, StartResizing, apiVars
<1>2. \A q \in DOMAIN kept :
        /\ q \in Pods
        /\ \/ q \in DOMAIN eligible /\ kept[q] = eligible[q]
           \/ q = p /\ kept[q] = cache[p] /\ Eligible(cache[p])
  <2>1. CASE Eligible(cache[p])
    <3>1. kept = [q \in DOMAIN eligible \cup {p} |-> IF q = p THEN cache[p] ELSE eligible[q]]
      BY <2>1 DEF Keep
    <3> HIDE DEF kept
    <3> QED BY <2>1, <3>1 DEF IInv, Shapes
  <2>2. CASE ~Eligible(cache[p]) BY <2>2 DEF IInv, Shapes
  <2> QED BY <2>1, <2>2
<1> HIDE DEF kept
<1>3. CASE eligible' = << >> /\ phase' = "idle" BY <1>1, <1>3, WorkerInvariant
<1>4. CASE eligible' = kept /\ (phase' = "resizing" => todo' = DOMAIN kept)
  <2>1. Shapes' BY <1>1, <1>2, <1>4 DEF IInv, Shapes
  <2>2. CopiesAreVersions'
    BY <1>1, <1>2, <1>4 DEF IInv, CopiesAreVersions, Eligible
  <2>3. EligibleCopies'
    <3>1. \A q \in DOMAIN kept : Eligible(kept[q]) BY <1>2 DEF IInv, EligibleCopies
    <3> QED BY <3>1, <1>4 DEF EligibleCopies, Eligible, ResizeInProgress
  <2> QED BY <2>1, <2>2, <2>3 DEF IInv
<1> QED BY <1>1, <1>3, <1>4

LEMMA ResizeInvariant == ASSUME IInv, NEW p \in Pods, ResizePod(p) PROVE IInv'
<1> DEFINE pod == [api[p] EXCEPT
                     !.containers = BuildResizePod(eligible[p].containers, peaks, podCount),
                     !.pending = TRUE]
<1>1. Write(p, pod) /\ NextPod(p) /\ UNCHANGED cache BY DEF ResizePod
<1>2. DOMAIN pod = PodFields BY AcceptedIsCurrent DEF IInv, Shapes
<1> HIDE DEF pod
<1>3. \/ UNCHANGED <<eligible, phase>> /\ todo' \subseteq todo
      \/ eligible' = << >> /\ phase' = "idle"
  BY <1>1 DEF NextPod, BackToIdle
<1> QED BY <1>1, <1>2, <1>3, WriteInvariant

LEMMA WorldInvariant ==
  ASSUME IInv, NEW p \in Pods,
         \/ Delete(p) \/ Create(p) \/ OtherResize(p) \/ KubeletBegin(p) \/ KubeletFinish(p)
  PROVE  IInv'
<1>1. UNCHANGED cache /\ UNCHANGED <<eligible, todo, phase>>
  BY DEF Delete, Create, OtherResize, KubeletBegin, KubeletFinish, workerVars
<1>2. \E pod : Write(p, pod) /\ DOMAIN pod = PodFields
  <2>1. CASE Delete(p)
    <3>1. DOMAIN api[p] = PodFields BY <2>1 DEF Delete, Exists, IInv, Shapes
    <3>2. DOMAIN [api[p] EXCEPT !.terminating = TRUE] = PodFields BY <3>1
    <3> QED BY <2>1, <3>2 DEF Delete
  <2>2. CASE Create(p)
    <3>1. PICK t \in Templates :
            Write(p, [version |-> 0, containers |-> t, terminating |-> FALSE,
                      pending |-> FALSE, inProgress |-> FALSE])
      BY <2>2 DEF Create
    <3> QED BY <3>1 DEF PodFields
  <2>3. CASE OtherResize(p)
    <3>1. DOMAIN api[p] = PodFields BY <2>3 DEF OtherResize, Exists, IInv, Shapes
    <3>2. PICK t : Write(p, [api[p] EXCEPT !.containers = t, !.pending = TRUE])
      BY <2>3 DEF OtherResize
    <3>3. DOMAIN [api[p] EXCEPT !.containers = t, !.pending = TRUE] = PodFields BY <3>1
    <3> QED BY <3>2, <3>3
  <2>4. CASE KubeletBegin(p)
    <3>1. DOMAIN api[p] = PodFields BY <2>4 DEF KubeletBegin, Exists, IInv, Shapes
    <3>2. DOMAIN [api[p] EXCEPT !.pending = FALSE, !.inProgress = TRUE] = PodFields BY <3>1
    <3> QED BY <2>4, <3>2 DEF KubeletBegin
  <2>5. CASE KubeletFinish(p)
    <3>1. DOMAIN api[p] = PodFields BY <2>5 DEF KubeletFinish, Exists, IInv, Shapes
    <3>2. DOMAIN [api[p] EXCEPT !.inProgress = FALSE] = PodFields BY <3>1
    <3> QED BY <2>5, <3>2 DEF KubeletFinish
  <2> QED BY <2>1, <2>2, <2>3, <2>4, <2>5
<1>3. PICK pod : Write(p, pod) /\ DOMAIN pod = PodFields BY <1>2
<1> QED BY <1>1, <1>3, WriteInvariant

LEMMA RemoveInvariant == ASSUME IInv, NEW p \in Pods, Remove(p) PROVE IInv'
<1>1. /\ DOMAIN api' = Pods /\ api'[p] = NoPod
      /\ \A q \in Pods : q # p => api'[q] = api[q]
      /\ UNCHANGED <<cache, eligible, todo, phase>>
  BY DEF Remove, workerVars, IInv, Shapes
<1>2. Shapes' BY <1>1 DEF IInv, Shapes
<1>3. CopiesAreVersions' BY <1>1 DEF IInv, CopiesAreVersions
<1>4. EligibleCopies' BY <1>1 DEF IInv, EligibleCopies, Eligible, ResizeInProgress
<1> QED BY <1>2, <1>3, <1>4 DEF IInv

LEMMA SyncInvariant == ASSUME IInv, NEW p \in Pods, CacheSync(p) PROVE IInv'
<1>1. /\ DOMAIN cache' = Pods /\ cache'[p] = api[p]
      /\ \A q \in Pods : q # p => cache'[q] = cache[q]
      /\ UNCHANGED <<api, eligible, todo, phase>>
  BY DEF CacheSync, apiVars, workerVars, IInv, Shapes
<1>2. Shapes' BY <1>1 DEF IInv, Shapes
<1>3. CopiesAreVersions' BY <1>1 DEF IInv, CopiesAreVersions
<1>4. EligibleCopies' BY <1>1 DEF IInv, EligibleCopies, Eligible, ResizeInProgress
<1> QED BY <1>2, <1>3, <1>4 DEF IInv

LEMMA NextInvariant == IInv /\ [Next]_vars => IInv'
<1> SUFFICES ASSUME IInv, [Next]_vars PROVE IInv' OBVIOUS
<1>1. CASE UNCHANGED vars BY <1>1, WorkerInvariant DEF vars, apiVars, workerVars
<1>2. CASE StartApply BY <1>2, WorkerInvariant DEF StartApply, apiVars
<1>3. CASE ListError BY <1>3, WorkerInvariant DEF ListError, BackToIdle, apiVars
<1>4. ASSUME NEW p \in Pods, SkipPod(p) \/ ResizePodFails(p) PROVE IInv'
  <2>1. NextPod(p) /\ UNCHANGED <<api, cache>>
    BY <1>4 DEF SkipPod, ResizePodFails, apiVars
  <2>2. \/ UNCHANGED <<eligible, phase>> /\ todo' \subseteq todo
        \/ eligible' = << >> /\ phase' = "idle"
    BY <2>1 DEF NextPod, BackToIdle
  <2> QED BY <2>1, <2>2, WorkerInvariant
<1> QED
  BY <1>1, <1>2, <1>3, <1>4, ListInvariant, ResizeInvariant, WorldInvariant, RemoveInvariant,
     SyncInvariant
  DEF Next

\* ResizesOnlySteadyPods of PodActuator: an update that the API server takes
\* finds a pod that is neither terminating nor being resized.
THEOREM OnlySteadyPodsAreResized == Spec => ResizesOnlySteadyPods
<1>1. ASSUME IInv, [Next]_vars
      PROVE  [\A p \in Pods : ResizePod(p) => ~api[p].terminating /\ ~api[p].inProgress]_vars
  BY <1>1, AcceptedIsCurrent DEF Eligible, ResizeInProgress
<1> QED BY <1>1, InitInvariant, NextInvariant, PTL DEF Spec, ResizesOnlySteadyPods

\* NoLostUpdate of PodActuator: what an update writes is computed from what
\* it replaces.
THEOREM NoUpdateIsLost == Spec => NoLostUpdate
<1>1. ASSUME IInv, NEW p \in Pods, ResizePod(p)
      PROVE  api'[p].containers = BuildResizePod(api[p].containers, peaks, podCount)
  <2> DEFINE built == BuildResizePod(eligible[p].containers, peaks, podCount)
             new == [[api[p] EXCEPT !.containers = built, !.pending = TRUE]
                       EXCEPT !.version = FreshVersion(p)]
  <2>1. api' = [api EXCEPT ![p] = new] BY <1>1 DEF ResizePod, Write
  <2>2. api[p] = eligible[p] /\ DOMAIN api[p] = PodFields
    BY <1>1, AcceptedIsCurrent DEF IInv, Shapes
  <2> HIDE DEF built
  <2>3. new.containers = built BY <2>2 DEF PodFields
  <2> HIDE DEF new
  <2>4. api'[p].containers = built BY <1>1, <2>1, <2>3 DEF IInv, Shapes
  <2> QED BY <2>2, <2>4 DEF built
<1>2. ASSUME IInv, [Next]_vars
      PROVE  [\A p \in Pods : ResizePod(p) =>
                api'[p].containers = BuildResizePod(api[p].containers, peaks, podCount)]_vars
  BY <1>1, <1>2
<1> QED BY <1>2, InitInvariant, NextInvariant, PTL DEF Spec, NoLostUpdate

-------------------------------------------------------------------------------
(* Type correctness *)

StatusOK(pod) == pod # NoPod => Status(pod) \in Pod

\* TypeOK, and that the copies are in a function: one that is not empty has
\* a pod, whose share of the peaks is not divided by zero.
TypeInv ==
  /\ \A p \in Pods : StatusOK(api[p]) /\ StatusOK(cache[p])
  /\ events \in 0 .. MaxEvents
  /\ phase \in {"idle", "listing", "resizing"}
  /\ todo \subseteq names /\ names \subseteq Pods /\ DOMAIN eligible \subseteq names
  /\ eligible = [p \in DOMAIN eligible |-> eligible[p]]
  /\ phase = "resizing" => podCount > 0

LEMMA WriteTypes ==
  ASSUME IInv, TypeInv, NEW p \in Pods, NEW pod, Write(p, pod), DOMAIN pod = PodFields,
         pod.terminating \in BOOLEAN, pod.pending \in BOOLEAN, pod.inProgress \in BOOLEAN
  PROVE  \A q \in Pods : StatusOK(api'[q])
<1> DEFINE new == [pod EXCEPT !.version = FreshVersion(p)]
<1>1. api' = [api EXCEPT ![p] = new] BY DEF Write
<1>2. /\ new.version = FreshVersion(p) /\ new.terminating = pod.terminating
      /\ new.pending = pod.pending /\ new.inProgress = pod.inProgress
  BY DEF PodFields
<1> HIDE DEF new
<1>3. Status(new) \in Pod BY <1>2, FreshVersionIsFresh DEF Status, Pod
<1> QED BY <1>1, <1>3 DEF IInv, Shapes, TypeInv, StatusOK

LEMMA BackToIdleTypes ==
  ASSUME TypeInv, BackToIdle, UNCHANGED <<apiVars, cache>>
  PROVE  TypeInv'
BY DEF TypeInv, BackToIdle, apiVars, StatusOK, Status

LEMMA NextPodTypes ==
  ASSUME TypeInv, NEW p \in Pods, NextPod(p), UNCHANGED <<events, cache>>,
         \A q \in Pods : StatusOK(api'[q])
  PROVE  TypeInv'
<1>1. CASE BackToIdle BY <1>1 DEF TypeInv, BackToIdle
<1>2. CASE todo' = todo \ {p} /\ UNCHANGED <<phase, names, peaks, eligible, podCount>>
  BY <1>2 DEF TypeInv
<1> QED BY <1>1, <1>2 DEF NextPod

LEMMA ListTypes == ASSUME IInv, TypeInv, NEW p \in Pods, ListPod(p) PROVE TypeInv'
<1> DEFINE kept == IF Eligible(cache[p]) THEN Keep(p) ELSE eligible
<1>1. /\ UNCHANGED <<apiVars, cache>> /\ p \in todo
      /\ \/ eligible' = kept /\ todo' = todo \ {p} /\ UNCHANGED <<phase, names, podCount>>
            /\ phase = "listing"
         \/ BackToIdle
         \/ kept # << >> /\ StartResizing(kept)
  BY DEF ListPod
<1>2. /\ DOMAIN kept \subseteq names
      /\ kept = [q \in DOMAIN kept |-> kept[q]]
  BY <1>1 DEF Keep, TypeInv
<1> HIDE DEF kept
<1>3. CASE eligible' = kept /\ todo' = todo \ {p} /\ UNCHANGED <<phase, names, podCount>>
           /\ phase = "listing"
  BY <1>1, <1>2, <1>3 DEF TypeInv, apiVars
<1>4. CASE BackToIdle BY <1>1, <1>4, BackToIdleTypes
<1>5. CASE kept # << >> /\ StartResizing(kept)
  <2>1. DOMAIN kept # {} BY <1>2, <1>5
  <2>2. IsFiniteSet(DOMAIN kept) BY <1>2, PodsAssumption, FS_Subset DEF TypeInv
  <2>3. Cardinality(DOMAIN kept) > 0
    <3>1. Cardinality(DOMAIN kept) \in Nat /\ Cardinality(DOMAIN kept) # 0
      BY <2>1, <2>2, FS_CardinalityType, FS_EmptySet
    <3> QED BY <3>1
  <2> QED BY <1>1, <1>2, <1>5, <2>3 DEF TypeInv, StartResizing, apiVars
<1> QED BY <1>1, <1>3, <1>4, <1>5

LEMMA WorldTypes ==
  ASSUME IInv, TypeInv, NEW p \in Pods,
         \/ Delete(p) \/ Create(p) \/ OtherResize(p) \/ KubeletBegin(p) \/ KubeletFinish(p)
  PROVE  TypeInv'
<1>1. UNCHANGED <<cache, workerVars>> /\ events' \in 0 .. MaxEvents
  <2>1. UNCHANGED <<cache, workerVars>>
    BY DEF Delete, Create, OtherResize, KubeletBegin, KubeletFinish
  <2>2. events' = events \/ (events < MaxEvents /\ events' = events + 1)
    BY DEF Delete, Create, OtherResize, KubeletBegin, KubeletFinish, Event
  <2> QED BY <2>1, <2>2, MaxEventsAssumption DEF TypeInv
<1>2. Exists(p) => /\ DOMAIN api[p] = PodFields /\ api[p].terminating \in BOOLEAN
                   /\ api[p].pending \in BOOLEAN /\ api[p].inProgress \in BOOLEAN
  BY DEF Exists, IInv, Shapes, TypeInv, StatusOK, Status, Pod
<1>3. \A q \in Pods : StatusOK(api'[q])
  <2> DEFINE Written(pod) == /\ Write(p, pod) /\ DOMAIN pod = PodFields
                             /\ pod.terminating \in BOOLEAN /\ pod.pending \in BOOLEAN
                             /\ pod.inProgress \in BOOLEAN
  <2> SUFFICES \E pod : Written(pod) BY WriteTypes
  <2>1. CASE Delete(p)
    <3>1. Written([api[p] EXCEPT !.terminating = TRUE])
      BY <1>2, <2>1 DEF Delete, PodFields
    <3> QED BY <3>1
  <2>2. CASE Create(p)
    <3>1. PICK t \in Templates :
            Write(p, [version |-> 0, containers |-> t, terminating |-> FALSE,
                      pending |-> FALSE, inProgress |-> FALSE])
      BY <2>2 DEF Create
    <3>2. Written([version |-> 0, containers |-> t, terminating |-> FALSE,
                   pending |-> FALSE, inProgress |-> FALSE])
      BY <3>1 DEF PodFields
    <3> QED BY <3>2
  <2>3. CASE OtherResize(p)
    <3>1. PICK t : Write(p, [api[p] EXCEPT !.containers = t, !.pending = TRUE])
      BY <2>3 DEF OtherResize
    <3>2. Written([api[p] EXCEPT !.containers = t, !.pending = TRUE])
      BY <1>2, <2>3, <3>1 DEF OtherResize, PodFields
    <3> QED BY <3>2
  <2>4. CASE KubeletBegin(p)
    <3>1. Written([api[p] EXCEPT !.pending = FALSE, !.inProgress = TRUE])
      BY <1>2, <2>4 DEF KubeletBegin, PodFields
    <3> QED BY <3>1
  <2>5. CASE KubeletFinish(p)
    <3>1. Written([api[p] EXCEPT !.inProgress = FALSE])
      BY <1>2, <2>5 DEF KubeletFinish, PodFields
    <3> QED BY <3>1
  <2> QED BY <2>1, <2>2, <2>3, <2>4, <2>5
<1> QED BY <1>1, <1>3 DEF TypeInv, workerVars

LEMMA NextTypes == IInv /\ TypeInv /\ [Next]_vars => TypeInv'
<1> SUFFICES ASSUME IInv, TypeInv, [Next]_vars PROVE TypeInv' OBVIOUS
<1>1. CASE UNCHANGED vars BY <1>1 DEF TypeInv, vars, apiVars, workerVars
<1>2. CASE StartApply BY <1>2 DEF StartApply, TypeInv, apiVars
<1>3. CASE ListError BY <1>3, BackToIdleTypes DEF ListError
<1>4. ASSUME NEW p \in Pods, SkipPod(p) \/ ResizePodFails(p) PROVE TypeInv'
  <2>1. NextPod(p) /\ UNCHANGED <<api, events, cache>>
    BY <1>4 DEF SkipPod, ResizePodFails, apiVars
  <2>2. \A q \in Pods : StatusOK(api'[q]) BY <2>1 DEF TypeInv
  <2> QED BY <2>1, <2>2, NextPodTypes
<1>5. ASSUME NEW p \in Pods, ResizePod(p) PROVE TypeInv'
  <2> DEFINE pod == [api[p] EXCEPT
                       !.containers = BuildResizePod(eligible[p].containers, peaks, podCount),
                       !.pending = TRUE]
  <2>1. Write(p, pod) /\ NextPod(p) /\ UNCHANGED <<events, cache>> BY <1>5 DEF ResizePod
  <2>2. /\ DOMAIN api[p] = PodFields /\ api[p].terminating \in BOOLEAN
        /\ api[p].pending \in BOOLEAN /\ api[p].inProgress \in BOOLEAN
    BY <1>5, AcceptedIsCurrent DEF IInv, Shapes, TypeInv, StatusOK, Status, Pod
  <2>3. /\ DOMAIN pod = PodFields /\ pod.terminating \in BOOLEAN
        /\ pod.pending \in BOOLEAN /\ pod.inProgress \in BOOLEAN
    BY <2>2 DEF PodFields
  <2> HIDE DEF pod
  <2>4. \A q \in Pods : StatusOK(api'[q]) BY <2>1, <2>3, WriteTypes
  <2> QED BY <2>1, <2>4, NextPodTypes
<1>6. ASSUME NEW p \in Pods, Remove(p) PROVE TypeInv'
  BY <1>6 DEF Remove, workerVars, TypeInv, StatusOK, IInv, Shapes
<1>7. ASSUME NEW p \in Pods, CacheSync(p) PROVE TypeInv'
  BY <1>7 DEF CacheSync, apiVars, workerVars, TypeInv, IInv, Shapes
<1> QED BY <1>1, <1>2, <1>3, <1>4, <1>5, <1>6, <1>7, ListTypes, WorldTypes DEF Next

LEMMA InitTypes == Init => TypeInv
<1> SUFFICES ASSUME Init PROVE TypeInv OBVIOUS
<1>1. PICK t \in [Pods -> Templates], atWork \in [Pods -> BOOLEAN] :
        api = [p \in Pods |-> [version |-> 0, containers |-> t[p], terminating |-> FALSE,
                               pending |-> FALSE, inProgress |-> atWork[p]]]
  BY DEF Init
<1>2. ASSUME NEW p \in Pods PROVE Status(api[p]) \in Pod
  <2>1. api[p] = [version |-> 0, containers |-> t[p], terminating |-> FALSE,
                  pending |-> FALSE, inProgress |-> atWork[p]]
    BY <1>1
  <2>2. Status(api[p]) = [version |-> 0, terminating |-> FALSE, pending |-> FALSE,
                          inProgress |-> atWork[p]]
    BY <2>1 DEF Status
  <2> QED BY <2>2 DEF Pod, Versions
<1> QED BY <1>2, MaxEventsAssumption DEF Init, TypeInv, StatusOK

\* TypeOK of PodActuator: what a loop still has to come to is among what it
\* started with, and the peaks are never divided by no pods.
THEOREM TypeCorrect == Spec => []TypeOK
<1>1. IInv /\ TypeInv => TypeOK
  BY DEF IInv, Shapes, EligibleCopies, TypeInv, TypeOK, StatusOK
<1> QED BY <1>1, InitInvariant, InitTypes, NextInvariant, NextTypes, PTL DEF Spec

-------------------------------------------------------------------------------
(* What containers request *)

ContainerFields == {"name", "requests", "limits"}

Sized(containers) ==
  /\ DOMAIN containers \subseteq Nat
  /\ \A i \in DOMAIN containers :
       DOMAIN containers[i] = ContainerFields /\ AllInt(containers[i].requests)

\* A container of a name is found: among any indexes there is a first one.
LEMMA FirstIsAmong ==
  ASSUME NEW T, T \subseteq Nat, T # {}
  PROVE  Min(T) \in T
<1> DEFINE Less == {ss \in Nat \X Nat : ss[1] < ss[2]}
<1>1. IsWellFoundedOn(Less, Nat) BY NatLessThanWellFounded DEF OpToRel
<1>2. PICK x \in T : \A y \in T : <<y, x>> \notin Less BY <1>1, WFMin
<1>3. ASSUME NEW y \in T PROVE x <= y
  <2>1. x \in Nat /\ y \in Nat BY <1>2
  <2>2. y < x => <<y, x>> \in Less BY <2>1
  <2> QED BY <1>2, <2>1, <2>2
<1> QED BY <1>2, <1>3 DEF Min

LEMMA TargetIndexes ==
  ASSUME NEW cs, Sized(cs)
  PROVE  TargetContainerIndexes(cs) \subseteq DOMAIN cs
<1> DEFINE named == {i \in DOMAIN cs : cs[i].name = ResizeSpec.containerName}
<1>1. named # {} => Min(named) \in named
  <2>1. named \subseteq Nat BY DEF Sized
  <2> HIDE DEF named
  <2> QED BY <2>1, FirstIsAmong
<1> QED BY <1>1 DEF TargetContainerIndexes

LEMMA SpecIsValid ==
  ValidSpec(ResizeSpec) /\ \A total \in Peaks : AllNat(total)
BY ResizeSpecAssumption, PeaksAssumption DEF ValidSpec, AllNat

\* What buildResizePod makes of the containers of a pod.
LEMMA BuildEffect ==
  ASSUME NEW cs, Sized(cs), NEW total \in Peaks, NEW n \in Nat \ {0}
  PROVE  LET new == BuildResizePod(cs, total, n) IN
         /\ Sized(new) /\ DOMAIN new = DOMAIN cs
         /\ TargetContainerIndexes(new) = TargetContainerIndexes(cs)
         /\ \A i \in DOMAIN cs :
              new[i].requests =
                IF i \in PlannedIndexes(cs, total, n)
                  THEN NewRequests(cs[i].requests,
                                   PlannedTargets(total, n, cs[i].requests, ResizeSpec))
                  ELSE cs[i].requests
<1> DEFINE new == BuildResizePod(cs, total, n)
           t(i) == PlannedTargets(total, n, cs[i].requests, ResizeSpec)
           built(i) == [cs[i] EXCEPT !.requests = NewRequests(@, t(i)),
                                     !.limits = NewLimits(@, t(i))]
<1>1. new = [i \in DOMAIN cs |-> IF i \in PlannedIndexes(cs, total, n) THEN built(i) ELSE cs[i]]
  BY DEF BuildResizePod
<1>2. ASSUME NEW i \in DOMAIN cs
      PROVE  /\ DOMAIN built(i) = ContainerFields /\ built(i).name = cs[i].name
             /\ built(i).requests = NewRequests(cs[i].requests, t(i))
  BY DEF Sized, ContainerFields
<1>3. ASSUME NEW i \in DOMAIN cs PROVE AllInt(NewRequests(cs[i].requests, t(i)))
  BY PlanSettles, SpecIsValid DEF Sized
<1> HIDE DEF new, t
<1>4. ASSUME NEW i \in DOMAIN cs
      PROVE  /\ DOMAIN new[i] = ContainerFields /\ new[i].name = cs[i].name
             /\ new[i].requests = IF i \in PlannedIndexes(cs, total, n)
                                    THEN NewRequests(cs[i].requests, t(i)) ELSE cs[i].requests
             /\ AllInt(new[i].requests)
  <2>1. CASE i \in PlannedIndexes(cs, total, n)
    <3>1. new[i] = built(i) BY <1>1, <2>1
    <3> HIDE DEF built
    <3> QED BY <1>2, <1>3, <2>1, <3>1
  <2>2. CASE i \notin PlannedIndexes(cs, total, n)
    <3>1. new[i] = cs[i] BY <1>1, <2>2
    <3> QED BY <2>2, <3>1 DEF Sized
  <2> QED BY <2>1, <2>2
<1>5. DOMAIN new = DOMAIN cs BY <1>1
<1>6. {i \in DOMAIN new : new[i].name = ResizeSpec.containerName}
        = {i \in DOMAIN cs : cs[i].name = ResizeSpec.containerName}
  BY <1>4, <1>5
<1>7. TargetContainerIndexes(new) = TargetContainerIndexes(cs)
  BY <1>5, <1>6, Zenon DEF TargetContainerIndexes
<1>8. Sized(new) BY <1>4, <1>5 DEF Sized
<1> QED BY <1>4, <1>5, <1>7, <1>8 DEF new, t

\* The copies have sizes, the peaks are what forecasts and history gave, and the
\* number that divides them is that of the kept pods.
SizesInv ==
  /\ \A p \in Pods : /\ api[p] # NoPod => Sized(api[p].containers)
                     /\ cache[p] # NoPod => Sized(cache[p].containers)
  /\ \A p \in DOMAIN eligible : Sized(eligible[p].containers)
  /\ phase # "idle" => peaks \in Peaks
  /\ phase = "resizing" => podCount = Cardinality(DOMAIN eligible)

LEMMA PodCountIsCount ==
  ASSUME IInv, TypeInv, SizesInv, phase = "resizing"
  PROVE  /\ podCount \in Nat \ {0} /\ podCount \in 1 .. Cardinality(Pods)
         /\ peaks \in Peaks
<1>1. DOMAIN eligible \subseteq Pods BY DEF IInv, Shapes
<1>2. Cardinality(DOMAIN eligible) <= Cardinality(Pods) /\ IsFiniteSet(DOMAIN eligible)
  BY <1>1, PodsAssumption, FS_Subset
<1>3. Cardinality(DOMAIN eligible) \in Nat /\ Cardinality(Pods) \in Nat
  BY <1>2, PodsAssumption, FS_CardinalityType
<1> QED BY <1>2, <1>3 DEF TypeInv, SizesInv

LEMMA TemplatesAreSized == \A t \in Templates : Sized(t)
BY TemplatesAssumption DEF Sized, ContainerFields, AllInt

LEMMA WriteSizes ==
  ASSUME IInv, SizesInv, NEW p \in Pods, NEW pod, Write(p, pod), DOMAIN pod = PodFields,
         Sized(pod.containers)
  PROVE  \A q \in Pods : api'[q] # NoPod => Sized(api'[q].containers)
<1> DEFINE new == [pod EXCEPT !.version = FreshVersion(p)]
<1>1. api' = [api EXCEPT ![p] = new] BY DEF Write
<1>2. new.containers = pod.containers BY DEF PodFields
<1> HIDE DEF new
<1> QED BY <1>1, <1>2 DEF IInv, Shapes, SizesInv

\* Steps that leave the copies alone, or forget them.
LEMMA KeepSizes ==
  ASSUME SizesInv, UNCHANGED cache,
         \A q \in Pods : api'[q] # NoPod => Sized(api'[q].containers),
         \/ UNCHANGED <<eligible, phase, peaks, podCount>>
         \/ eligible' = << >> /\ phase' = "idle"
         \/ eligible' = << >> /\ phase' = "listing" /\ peaks' \in Peaks
  PROVE  SizesInv'
<1>1. CASE UNCHANGED <<eligible, phase, peaks, podCount>> BY <1>1 DEF SizesInv, Sized, AllInt
<1>2. CASE eligible' = << >> /\ phase' = "idle" BY <1>2 DEF SizesInv
<1>3. CASE eligible' = << >> /\ phase' = "listing" /\ peaks' \in Peaks
  BY <1>3 DEF SizesInv
<1> QED BY <1>1, <1>2, <1>3

LEMMA ListSizes == ASSUME IInv, SizesInv, NEW p \in Pods, ListPod(p) PROVE SizesInv'
<1> DEFINE kept == IF Eligible(cache[p]) THEN Keep(p) ELSE eligible
<1>1. /\ UNCHANGED <<api, cache>> /\ phase = "listing"
      /\ \/ eligible' = kept /\ phase' = "listing" /\ UNCHANGED peaks
         \/ eligible' = << >> /\ phase' = "idle"
         \/ eligible' = kept /\ phase' = "resizing" /\ UNCHANGED peaks
              /\ podCount' = Cardinality(DOMAIN kept)
  BY DEF ListPod, BackToIdle, StartResizing, apiVars
<1>2. \A q \in DOMAIN kept : Sized(kept[q].containers)
  <2>1. CASE Eligible(cache[p])
    <3>1. kept = [q \in DOMAIN eligible \cup {p} |-> IF q = p THEN cache[p] ELSE eligible[q]]
      BY <2>1 DEF Keep
    <3>2. Sized(cache[p].containers) BY <2>1 DEF Eligible, SizesInv
    <3> HIDE DEF kept
    <3> QED BY <3>1, <3>2 DEF SizesInv
  <2>2. CASE ~Eligible(cache[p]) BY <2>2 DEF SizesInv
  <2> QED BY <2>1, <2>2
<1> HIDE DEF kept
<1>3. \A q \in Pods : api'[q] # NoPod => Sized(api'[q].containers) BY <1>1 DEF SizesInv
<1>4. CASE eligible' = << >> /\ phase' = "idle" BY <1>1, <1>3, <1>4, KeepSizes
<1>5. CASE /\ eligible' = kept /\ UNCHANGED peaks
           /\ phase' = "resizing" => podCount' = Cardinality(DOMAIN kept)
  BY <1>1, <1>2, <1>3, <1>5 DEF SizesInv
<1> QED BY <1>1, <1>4, <1>5

\* The update that is accepted, in terms of the pod that it finds.
LEMMA ResizeWrites ==
  ASSUME IInv, TypeInv, SizesInv, NEW p \in Pods, ResizePod(p)
  PROVE  LET built == BuildResizePod(api[p].containers, peaks, podCount) IN
         /\ Write(p, [api[p] EXCEPT !.containers = built, !.pending = TRUE])
         /\ api[p] = eligible[p] /\ api[p] # NoPod /\ DOMAIN api[p] = PodFields
         /\ Sized(api[p].containers) /\ Sized(built)
         /\ api'[p].containers = built
<1> DEFINE built == BuildResizePod(api[p].containers, peaks, podCount)
           pod == [api[p] EXCEPT !.containers = built, !.pending = TRUE]
           new == [pod EXCEPT !.version = FreshVersion(p)]
<1>1. api[p] = eligible[p] /\ api[p] # NoPod BY AcceptedIsCurrent
<1>2. Write(p, pod) /\ phase = "resizing" BY <1>1 DEF ResizePod
<1>3. DOMAIN api[p] = PodFields /\ Sized(api[p].containers)
  BY <1>1 DEF IInv, Shapes, SizesInv
<1>4. Sized(built) BY <1>2, <1>3, PodCountIsCount, BuildEffect
<1> HIDE DEF built
<1>5. new.containers = built BY <1>3 DEF PodFields
<1>6. api' = [api EXCEPT ![p] = new] BY <1>2 DEF Write
<1> HIDE DEF new
<1>7. api'[p].containers = built BY <1>5, <1>6 DEF IInv, Shapes
<1> QED BY <1>1, <1>2, <1>3, <1>4, <1>7 DEF built

LEMMA ResizeSizes ==
  ASSUME IInv, TypeInv, SizesInv, NEW p \in Pods, ResizePod(p)
  PROVE  SizesInv'
<1> DEFINE built == BuildResizePod(api[p].containers, peaks, podCount)
           pod == [api[p] EXCEPT !.containers = built, !.pending = TRUE]
<1>1. Write(p, pod) /\ DOMAIN api[p] = PodFields /\ Sized(built) BY ResizeWrites
<1> HIDE DEF built
<1>2. DOMAIN pod = PodFields /\ pod.containers = built BY <1>1 DEF PodFields
<1> HIDE DEF pod
<1>3. \A q \in Pods : api'[q] # NoPod => Sized(api'[q].containers)
  BY <1>1, <1>2, WriteSizes
<1>4. /\ UNCHANGED cache
      /\ \/ UNCHANGED <<eligible, phase, peaks, podCount>>
         \/ eligible' = << >> /\ phase' = "idle"
  BY DEF ResizePod, NextPod, BackToIdle
<1> QED BY <1>3, <1>4, KeepSizes

LEMMA WorldSizes ==
  ASSUME IInv, SizesInv, NEW p \in Pods,
         \/ Delete(p) \/ Create(p) \/ OtherResize(p) \/ KubeletBegin(p) \/ KubeletFinish(p)
  PROVE  SizesInv'
<1> DEFINE Written(pod) ==
      Write(p, pod) /\ DOMAIN pod = PodFields /\ Sized(pod.containers)
<1>1. UNCHANGED cache /\ UNCHANGED <<eligible, phase, peaks, podCount>>
  BY DEF Delete, Create, OtherResize, KubeletBegin, KubeletFinish, workerVars
<1>2. Exists(p) => DOMAIN api[p] = PodFields /\ Sized(api[p].containers)
  BY DEF Exists, IInv, Shapes, SizesInv
<1>3. \E pod : Written(pod)
  <2>1. CASE Delete(p)
    <3>1. Written([api[p] EXCEPT !.terminating = TRUE]) BY <1>2, <2>1 DEF Delete, PodFields
    <3> QED BY <3>1
  <2>2. CASE Create(p)
    <3>1. PICK t \in Templates :
            Write(p, [version |-> 0, containers |-> t, terminating |-> FALSE,
                      pending |-> FALSE, inProgress |-> FALSE])
      BY <2>2 DEF Create
    <3>2. Written([version |-> 0, containers |-> t, terminating |-> FALSE,
                   pending |-> FALSE, inProgress |-> FALSE])
      BY <3>1, TemplatesAreSized DEF PodFields
    <3> QED BY <3>2
  <2>3. CASE OtherResize(p)
    <3>1. PICK t \in Templates : Write(p, [api[p] EXCEPT !.containers = t, !.pending = TRUE])
      BY <2>3 DEF OtherResize
    <3>2. Written([api[p] EXCEPT !.containers = t, !.pending = TRUE])
      BY <1>2, <2>3, <3>1, TemplatesAreSized DEF OtherResize, PodFields
    <3> QED BY <3>2
  <2>4. CASE KubeletBegin(p)
    <3>1. Written([api[p] EXCEPT !.pending = FALSE, !.inProgress = TRUE])
      BY <1>2, <2>4 DEF KubeletBegin, PodFields
    <3> QED BY <3>1
  <2>5. CASE KubeletFinish(p)
    <3>1. Written([api[p] EXCEPT !.inProgress = FALSE])
      BY <1>2, <2>5 DEF KubeletFinish, PodFields
    <3> QED BY <3>1
  <2> QED BY <2>1, <2>2, <2>3, <2>4, <2>5
<1>4. \A q \in Pods : api'[q] # NoPod => Sized(api'[q].containers) BY <1>3, WriteSizes
<1> QED BY <1>1, <1>4, KeepSizes

LEMMA InitSizes == Init => SizesInv
<1> SUFFICES ASSUME Init PROVE SizesInv OBVIOUS
<1>1. PICK t \in [Pods -> Templates], atWork \in [Pods -> BOOLEAN] :
        api = [p \in Pods |-> [version |-> 0, containers |-> t[p], terminating |-> FALSE,
                               pending |-> FALSE, inProgress |-> atWork[p]]]
  BY DEF Init
<1>2. \A p \in Pods : Sized(api[p].containers) BY <1>1, TemplatesAreSized
<1> QED BY <1>2 DEF Init, SizesInv

LEMMA NextSizes == IInv /\ TypeInv /\ SizesInv /\ [Next]_vars => SizesInv'
<1> SUFFICES ASSUME IInv, TypeInv, SizesInv, [Next]_vars PROVE SizesInv' OBVIOUS
<1>1. UNCHANGED api => \A q \in Pods : api'[q] # NoPod => Sized(api'[q].containers)
  BY DEF SizesInv
<1>2. CASE UNCHANGED vars BY <1>1, <1>2, KeepSizes DEF vars, apiVars, workerVars
<1>3. CASE StartApply BY <1>1, <1>3, KeepSizes DEF StartApply, apiVars
<1>4. CASE ListError BY <1>1, <1>4, KeepSizes DEF ListError, BackToIdle, apiVars
<1>5. ASSUME NEW p \in Pods, SkipPod(p) \/ ResizePodFails(p) PROVE SizesInv'
  <2>1. NextPod(p) /\ UNCHANGED <<api, cache>>
    BY <1>5 DEF SkipPod, ResizePodFails, apiVars
  <2>2. \/ UNCHANGED <<eligible, phase, peaks, podCount>>
        \/ eligible' = << >> /\ phase' = "idle"
    BY <2>1 DEF NextPod, BackToIdle
  <2> QED BY <1>1, <2>1, <2>2, KeepSizes
<1>6. ASSUME NEW p \in Pods, Remove(p) PROVE SizesInv'
  <2>1. \A q \in Pods : api'[q] # NoPod => Sized(api'[q].containers)
    BY <1>6 DEF Remove, SizesInv, IInv, Shapes
  <2> QED BY <1>6, <2>1, KeepSizes DEF Remove, workerVars
<1>7. ASSUME NEW p \in Pods, CacheSync(p) PROVE SizesInv'
  BY <1>7 DEF CacheSync, apiVars, workerVars, SizesInv, IInv, Shapes
<1> QED BY <1>2, <1>3, <1>4, <1>5, <1>6, <1>7, ListSizes, ResizeSizes, WorldSizes DEF Next

-------------------------------------------------------------------------------
(* What the updates amount to *)

SizedInv == IInv /\ TypeInv /\ SizesInv

LEMMA SizedInvariant == Spec => []SizedInv
BY InitInvariant, InitTypes, InitSizes, NextInvariant, NextTypes, NextSizes, PTL
DEF Spec, SizedInv

\* UpdatesSettle of PodActuator: the containers that an update leaves are worth
\* no other update to the same share, however the targets were rounded, bounded
\* or kept by a threshold.
THEOREM UpdatesLeaveNothing == Spec => UpdatesSettle
<1>1. ASSUME SizedInv, NEW p \in Pods, ResizePod(p)
      PROVE  PlannedIndexes(api'[p].containers, peaks, podCount) = {}
  <2> DEFINE old == api[p].containers
             new == BuildResizePod(old, peaks, podCount)
  <2>1. api'[p].containers = new /\ Sized(old) /\ Sized(new) BY <1>1, ResizeWrites DEF SizedInv
  <2>2. podCount \in Nat \ {0} /\ peaks \in Peaks
    BY <1>1, PodCountIsCount DEF SizedInv, ResizePod
  <2>3. /\ DOMAIN new = DOMAIN old
        /\ TargetContainerIndexes(new) = TargetContainerIndexes(old)
        /\ \A i \in DOMAIN old :
             new[i].requests =
               IF i \in PlannedIndexes(old, peaks, podCount)
                 THEN NewRequests(old[i].requests,
                        PlannedTargets(peaks, podCount, old[i].requests, ResizeSpec))
                 ELSE old[i].requests
    BY <2>1, <2>2, BuildEffect
  <2> HIDE DEF new, old
  <2>4. ASSUME NEW i \in TargetContainerIndexes(new)
        PROVE  ~WorthResizing(peaks, podCount, new[i].requests, ResizeSpec)
    <3>1. i \in DOMAIN old /\ i \in TargetContainerIndexes(old)
      BY <2>1, <2>3, TargetIndexes
    <3>2. CASE i \in PlannedIndexes(old, peaks, podCount)
      BY <2>1, <2>2, <2>3, <3>1, <3>2, PlanSettles, SpecIsValid DEF Sized
    <3>3. CASE i \notin PlannedIndexes(old, peaks, podCount)
      BY <2>3, <3>1, <3>3 DEF PlannedIndexes
    <3> QED BY <3>2, <3>3
  <2> QED BY <2>1, <2>4 DEF PlannedIndexes
<1>2. ASSUME SizedInv, [Next]_vars
      PROVE  [\A p \in Pods : ResizePod(p) =>
                PlannedIndexes(api'[p].containers, peaks, podCount) = {}]_vars
  BY <1>1, <1>2
<1> QED BY <1>2, SizedInvariant, PTL DEF Spec, UpdatesSettle

\* PodsCoverPeak of PodActuator: the pods that one Apply works on are left with
\* requests that carry the peak together, the skipped ones included.
THEOREM PeakIsCovered == Spec => PodsCoverPeak
<1> DEFINE Covered(p) ==
      \A i \in TargetContainerIndexes(eligible[p].containers),
         r \in DOMAIN peaks \cap DOMAIN ResizeSpec.resources :
        LET running   == IF Plan(p) = {} THEN eligible[p] ELSE api'[p]
            requested == At(running.containers[i].requests, r, 0)
            max       == ResizeSpec.resources[r].max
        IN  peaks[r] > 0 /\ HeadroomSuffices(r) =>
              \/ requested * Cardinality(DOMAIN eligible) >= peaks[r]
              \/ max # None /\ 6 * requested >= 5 * max
<1>1. ASSUME SizedInv, NEW p \in Pods, ResizePod(p) \/ SkipPod(p) PROVE Covered(p)
  <2> DEFINE cs == eligible[p].containers
             n == Cardinality(DOMAIN eligible)
             planned(i) == PlannedTargets(peaks, n, cs[i].requests, ResizeSpec)
             running == IF Plan(p) = {} THEN eligible[p] ELSE api'[p]
  <2>1. n = podCount /\ n \in Nat \ {0} /\ peaks \in Peaks /\ p \in DOMAIN eligible
    BY <1>1, PodCountIsCount
    DEF SizedInv, ResizePod, SkipPod, SizesInv, IInv, EligibleCopies
  <2>2. Sized(cs) BY <1>1, <2>1 DEF SizedInv, SizesInv
  <2>3. Plan(p) = PlannedIndexes(cs, peaks, n) BY <2>1 DEF Plan
  <2>4. Plan(p) # {} => running.containers = BuildResizePod(cs, peaks, n)
    <3>1. Plan(p) # {} => ResizePod(p) BY <1>1 DEF SkipPod
    <3> QED BY <1>1, <2>1, <3>1, ResizeWrites DEF SizedInv
  <2> HIDE DEF n, running, cs
  <2>5. ASSUME NEW i \in TargetContainerIndexes(cs), NEW r \in DOMAIN ResizeSpec.resources
        PROVE  At(running.containers[i].requests, r, 0) = planned(i)[r]
    <3>1. i \in DOMAIN cs /\ AllInt(cs[i].requests) BY <2>2, TargetIndexes DEF Sized
    <3>2. i \notin Plan(p) => At(cs[i].requests, r, 0) = planned(i)[r]
      BY <2>1, <2>3, <3>1, SpecIsValid, UnplannedIsAsPlanned DEF PlannedIndexes
    <3>3. CASE Plan(p) = {} BY <3>2, <3>3 DEF running, cs
    <3>4. CASE Plan(p) # {}
      <4>1. running.containers[i].requests =
              IF i \in Plan(p) THEN NewRequests(cs[i].requests, planned(i))
                               ELSE cs[i].requests
        BY <2>1, <2>2, <2>3, <2>4, <3>1, <3>4, BuildEffect
      <4>2. r \in DOMAIN planned(i) BY <2>1, <3>1, SpecIsValid, PlanOf
      <4>3. At(NewRequests(cs[i].requests, planned(i)), r, 0) = planned(i)[r]
        <5> HIDE DEF planned
        <5> QED BY <4>2 DEF At, NewRequests
      <4> QED BY <3>2, <4>1, <4>3
    <3> QED BY <3>3, <3>4
  <2>6. ASSUME NEW i \in TargetContainerIndexes(cs),
               NEW r \in DOMAIN peaks \cap DOMAIN ResizeSpec.resources,
               peaks[r] > 0, HeadroomSuffices(r)
        PROVE  \/ planned(i)[r] * n >= peaks[r]
               \/ /\ ResizeSpec.resources[r].max # None
                  /\ 6 * planned(i)[r] >= 5 * ResizeSpec.resources[r].max
    <3>1. AllInt(cs[i].requests) BY <2>2, TargetIndexes DEF Sized
    <3>2. Percent(r, ResizeSpec) <= 20 /\ CeilDiv(6 * peaks[r], 5 * n) <= MaxInt64
      BY <2>6 DEF HeadroomSuffices, Percent, n
    <3> QED BY <2>1, <2>6, <3>1, <3>2, SpecIsValid, ResizeSpecAssumption, PlanCoversPeak
  <2> HIDE DEF planned
  <2> QED BY <2>5, <2>6 DEF cs, n, running
<1>2. ASSUME SizedInv, [Next]_vars
      PROVE  [\A p \in Pods : ResizePod(p) \/ SkipPod(p) => Covered(p)]_vars
  BY <1>1, <1>2
<1> QED BY <1>2, SizedInvariant, PTL DEF Spec, PodsCoverPeak

-------------------------------------------------------------------------------
(* Reading, deciding and writing at once *)

SeenFields == {"containers", "terminating", "pending", "inProgress"}

LEMMA SeenIsPod ==
  ASSUME NEW pod, DOMAIN pod = PodFields
  PROVE  /\ pod # NoPod /\ Seen(pod) # NoPod
         /\ Seen(pod) = [containers |-> pod.containers, terminating |-> pod.terminating,
                         pending |-> pod.pending, inProgress |-> pod.inProgress]
<1> DEFINE seen == [containers |-> pod.containers, terminating |-> pod.terminating,
                    pending |-> pod.pending, inProgress |-> pod.inProgress]
<1>1. DOMAIN NoPod = {} BY DEF NoPod
<1>2. pod # NoPod BY <1>1 DEF PodFields
<1>3. DOMAIN seen = SeenFields BY DEF SeenFields
<1>4. Seen(pod) = seen BY <1>2 DEF Seen
<1> HIDE DEF seen
<1>5. seen # NoPod BY <1>1, <1>3 DEF SeenFields
<1> QED BY <1>2, <1>4, <1>5 DEF seen

\* A write, as it looks without versions.
LEMMA WriteIsSeen ==
  ASSUME IInv, NEW p \in Pods, NEW pod, Write(p, pod), DOMAIN pod = PodFields
  PROVE  Atomic!Becomes(p, [containers |-> pod.containers, terminating |-> pod.terminating,
                            pending |-> pod.pending, inProgress |-> pod.inProgress])
<1> DEFINE new == [pod EXCEPT !.version = FreshVersion(p)]
<1>1. /\ DOMAIN new = PodFields /\ new.containers = pod.containers
      /\ new.terminating = pod.terminating /\ new.pending = pod.pending
      /\ new.inProgress = pod.inProgress
  BY DEF PodFields
<1>2. api' = [api EXCEPT ![p] = new] BY DEF Write
<1> HIDE DEF new
<1>3. Seen(new) = [containers |-> pod.containers, terminating |-> pod.terminating,
                   pending |-> pod.pending, inProgress |-> pod.inProgress]
  BY <1>1, SeenIsPod
<1>4. api'[p] = new /\ \A q \in Pods : q # p => api'[q] = api[q]
  BY <1>2 DEF IInv, Shapes
<1>5. Visible' = [q \in Pods |-> Seen(api'[q])] BY DEF Visible, Seen
<1>6. Visible' = [Visible EXCEPT ![p] = Seen(new)] BY <1>4, <1>5 DEF Visible
<1> QED BY <1>3, <1>6 DEF Atomic!Becomes

LEMMA ExistsIsSeen ==
  ASSUME IInv, NEW p \in Pods
  PROVE  /\ Exists(p) <=> Atomic!Exists(p)
         /\ Exists(p) => /\ DOMAIN api[p] = PodFields
                         /\ Visible[p] = [containers |-> api[p].containers,
                                          terminating |-> api[p].terminating,
                                          pending |-> api[p].pending,
                                          inProgress |-> api[p].inProgress]
<1>1. Visible[p] = Seen(api[p]) BY DEF Visible
<1>2. CASE ~Exists(p) BY <1>1, <1>2 DEF Exists, Atomic!Exists, Seen, Atomic!NoPod, NoPod
<1>3. CASE Exists(p)
  <2>1. DOMAIN api[p] = PodFields BY <1>3 DEF Exists, IInv, Shapes
  <2> QED BY <1>1, <1>3, <2>1, SeenIsPod DEF Exists, Atomic!Exists, Atomic!NoPod, NoPod
<1> QED BY <1>2, <1>3

\* The pod that AtomicResizes sees, and what its changes make of it.
LEMMA SeenAfter ==
  ASSUME IInv, NEW p \in Pods, Exists(p), NEW d
  PROVE  LET pod == api[p] IN
         /\ Visible[p].containers = pod.containers
         /\ Visible[p].terminating = pod.terminating
         /\ Visible[p].pending = pod.pending
         /\ Visible[p].inProgress = pod.inProgress
         /\ [Visible[p] EXCEPT !.terminating = TRUE]
             = [containers |-> pod.containers, terminating |-> TRUE,
                pending |-> pod.pending, inProgress |-> pod.inProgress]
         /\ [Visible[p] EXCEPT !.inProgress = FALSE]
             = [containers |-> pod.containers, terminating |-> pod.terminating,
                pending |-> pod.pending, inProgress |-> FALSE]
         /\ [Visible[p] EXCEPT !.pending = FALSE, !.inProgress = TRUE]
             = [containers |-> pod.containers, terminating |-> pod.terminating,
                pending |-> FALSE, inProgress |-> TRUE]
         /\ [Visible[p] EXCEPT !.containers = d, !.pending = TRUE]
             = [containers |-> d, terminating |-> pod.terminating,
                pending |-> TRUE, inProgress |-> pod.inProgress]
<1> DEFINE v == Visible[p]
           c == api[p].containers
           t == api[p].terminating
           w == api[p].pending
           i == api[p].inProgress
<1>1. v = [containers |-> c, terminating |-> t, pending |-> w, inProgress |-> i]
  BY ExistsIsSeen
<1> HIDE DEF v, c, t, w, i
<1>2. v.containers = c /\ v.terminating = t /\ v.pending = w /\ v.inProgress = i BY <1>1
<1>3. /\ [v EXCEPT !.terminating = TRUE]
          = [containers |-> c, terminating |-> TRUE, pending |-> w, inProgress |-> i]
      /\ [v EXCEPT !.inProgress = FALSE]
          = [containers |-> c, terminating |-> t, pending |-> w, inProgress |-> FALSE]
      /\ [v EXCEPT !.pending = FALSE, !.inProgress = TRUE]
          = [containers |-> c, terminating |-> t, pending |-> FALSE, inProgress |-> TRUE]
      /\ [v EXCEPT !.containers = d, !.pending = TRUE]
          = [containers |-> d, terminating |-> t, pending |-> TRUE, inProgress |-> i]
  <2> DEFINE Only(a, b, e, f) ==
        [containers : {a}, terminating : {b}, pending : {e}, inProgress : {f}]
  <2>1. v \in Only(c, t, w, i) BY <1>1, Zenon
  <2>2. ASSUME NEW a, NEW b, NEW e, NEW f, NEW y \in Only(a, b, e, f)
        PROVE  y = [containers |-> a, terminating |-> b, pending |-> e, inProgress |-> f]
    OBVIOUS
  <2>3. /\ [v EXCEPT !.terminating = TRUE] \in Only(c, TRUE, w, i)
        /\ [v EXCEPT !.inProgress = FALSE] \in Only(c, t, w, FALSE)
        /\ [v EXCEPT !.pending = FALSE, !.inProgress = TRUE] \in Only(c, t, FALSE, TRUE)
        /\ [v EXCEPT !.containers = d, !.pending = TRUE] \in Only(d, t, TRUE, i)
    BY <2>1
  <2> HIDE DEF Only
  <2> QED BY <2>2, <2>3
<1> QED BY <1>2, <1>3 DEF v, c, t, w, i

LEMMA ResizeIsAtomic ==
  ASSUME SizedInv, NEW p \in Pods, ResizePod(p)
  PROVE  Atomic!Resize(p)
<1> DEFINE built == BuildResizePod(api[p].containers, peaks, podCount)
           pod == [api[p] EXCEPT !.containers = built, !.pending = TRUE]
<1>1. /\ Write(p, pod) /\ DOMAIN api[p] = PodFields /\ Exists(p)
      /\ ~api[p].terminating /\ ~api[p].inProgress
  BY ResizeWrites, AcceptedIsCurrent DEF SizedInv, Exists, Eligible, ResizeInProgress
<1>2. peaks \in Peaks /\ podCount \in 1 .. Cardinality(Pods)
  BY PodCountIsCount DEF SizedInv, ResizePod
<1>3. Atomic!Exists(p) /\ ~Visible[p].terminating /\ ~Visible[p].inProgress
  <2>1. Visible[p].terminating = api[p].terminating /\ Visible[p].inProgress = api[p].inProgress
    BY <1>1, SeenAfter DEF SizedInv
  <2>2. Atomic!Exists(p) BY <1>1, ExistsIsSeen DEF SizedInv
  <2> QED BY <1>1, <2>1, <2>2, Zenon
<1>4. [Visible[p] EXCEPT !.containers = BuildResizePod(@, peaks, podCount), !.pending = TRUE]
        = [containers |-> built, terminating |-> api[p].terminating, pending |-> TRUE,
           inProgress |-> api[p].inProgress]
  <2>1. Visible[p].containers = api[p].containers BY <1>1, SeenAfter DEF SizedInv
  <2> HIDE DEF built
  <2>2. [Visible[p] EXCEPT !.containers = built, !.pending = TRUE]
          = [containers |-> built, terminating |-> api[p].terminating, pending |-> TRUE,
             inProgress |-> api[p].inProgress]
    BY <1>1, SeenAfter DEF SizedInv
  <2> QED BY <2>1, <2>2 DEF built
<1> HIDE DEF built
<1>5. /\ DOMAIN pod = PodFields /\ pod.containers = built /\ pod.pending = TRUE
      /\ pod.terminating = api[p].terminating /\ pod.inProgress = api[p].inProgress
  BY <1>1 DEF PodFields
<1> HIDE DEF pod
<1>6. Atomic!Becomes(p, [containers |-> pod.containers, terminating |-> pod.terminating,
                         pending |-> pod.pending, inProgress |-> pod.inProgress])
  BY <1>1, <1>5, WriteIsSeen DEF SizedInv
<1>7. Atomic!Becomes(p, [Visible[p] EXCEPT !.containers = BuildResizePod(@, peaks, podCount),
                                           !.pending = TRUE])
  BY <1>4, <1>5, <1>6
<1> QED BY <1>2, <1>3, <1>7, Zenon DEF Atomic!Resize

LEMMA WorldIsAtomic ==
  ASSUME IInv, NEW p \in Pods
  PROVE  /\ Delete(p) => Atomic!Delete(p)
         /\ Create(p) => Atomic!Create(p)
         /\ OtherResize(p) => Atomic!OtherResize(p)
         /\ KubeletBegin(p) => Atomic!KubeletBegin(p)
         /\ KubeletFinish(p) => Atomic!KubeletFinish(p)
<1> DEFINE Fields(pod) == [containers |-> pod.containers, terminating |-> pod.terminating,
                           pending |-> pod.pending, inProgress |-> pod.inProgress]
<1>1. Exists(p) => Atomic!Exists(p) /\ DOMAIN api[p] = PodFields BY ExistsIsSeen
<1>2. ASSUME NEW pod, Write(p, pod), DOMAIN pod = PodFields
      PROVE  Atomic!Becomes(p, Fields(pod))
  BY <1>2, WriteIsSeen
<1>3. ASSUME Delete(p) PROVE Atomic!Delete(p)
  <2> DEFINE pod == [api[p] EXCEPT !.terminating = TRUE]
  <2>1. Exists(p) /\ Write(p, pod) /\ DOMAIN pod = PodFields BY <1>1, <1>3 DEF Delete
  <2>2. Fields(pod) = [containers |-> api[p].containers, terminating |-> TRUE,
                       pending |-> api[p].pending, inProgress |-> api[p].inProgress]
    BY <1>1, <2>1 DEF PodFields
  <2>3. Fields(pod) = [Visible[p] EXCEPT !.terminating = TRUE] BY <2>1, <2>2, SeenAfter
  <2> HIDE DEF pod, Fields
  <2> QED BY <1>1, <1>2, <2>1, <2>3 DEF Atomic!Delete
<1>4. ASSUME Create(p) PROVE Atomic!Create(p)
  <2>1. PICK t \in Templates :
          Write(p, [version |-> 0, containers |-> t, terminating |-> FALSE,
                    pending |-> FALSE, inProgress |-> FALSE])
    BY <1>4 DEF Create
  <2> DEFINE pod == [version |-> 0, containers |-> t, terminating |-> FALSE,
                     pending |-> FALSE, inProgress |-> FALSE]
  <2>2. DOMAIN pod = PodFields /\ Fields(pod) = Atomic!Pod(t, FALSE)
    BY DEF PodFields, Atomic!Pod
  <2>3. ~Atomic!Exists(p) BY <1>4, ExistsIsSeen DEF Create
  <2>4. Write(p, pod) BY <2>1
  <2> HIDE DEF pod, Fields
  <2>5. Atomic!Becomes(p, Fields(pod)) BY <1>2, <2>2, <2>4
  <2> QED BY <2>2, <2>3, <2>5 DEF Atomic!Create
<1>5. ASSUME OtherResize(p) PROVE Atomic!OtherResize(p)
  <2>1. PICK t \in Templates : Write(p, [api[p] EXCEPT !.containers = t, !.pending = TRUE])
    BY <1>5 DEF OtherResize
  <2> DEFINE pod == [api[p] EXCEPT !.containers = t, !.pending = TRUE]
  <2>2. Exists(p) /\ Write(p, pod) /\ DOMAIN pod = PodFields BY <1>1, <1>5, <2>1 DEF OtherResize
  <2>3. Fields(pod) = [containers |-> t, terminating |-> api[p].terminating,
                       pending |-> TRUE, inProgress |-> api[p].inProgress]
    BY <1>1, <2>2 DEF PodFields
  <2>4. Fields(pod) = [Visible[p] EXCEPT !.containers = t, !.pending = TRUE]
    BY <2>2, <2>3, SeenAfter
  <2> HIDE DEF pod, Fields
  <2>5. Atomic!Becomes(p, Fields(pod)) BY <1>2, <2>2
  <2> QED BY <1>1, <2>2, <2>4, <2>5 DEF Atomic!OtherResize
<1>6. ASSUME KubeletBegin(p) PROVE Atomic!KubeletBegin(p)
  <2> DEFINE pod == [api[p] EXCEPT !.pending = FALSE, !.inProgress = TRUE]
  <2>1. Exists(p) /\ Write(p, pod) /\ DOMAIN pod = PodFields BY <1>1, <1>6 DEF KubeletBegin
  <2>2. Fields(pod) = [containers |-> api[p].containers, terminating |-> api[p].terminating,
                       pending |-> FALSE, inProgress |-> TRUE]
    BY <1>1, <2>1 DEF PodFields
  <2>3. Fields(pod) = [Visible[p] EXCEPT !.pending = FALSE, !.inProgress = TRUE]
    BY <2>1, <2>2, SeenAfter
  <2>4. Visible[p].pending = api[p].pending BY <2>1, SeenAfter
  <2>5. Visible[p].pending BY <1>6, <2>4, Zenon DEF KubeletBegin
  <2> HIDE DEF pod, Fields
  <2> QED BY <1>1, <1>2, <2>1, <2>3, <2>5 DEF Atomic!KubeletBegin
<1>7. ASSUME KubeletFinish(p) PROVE Atomic!KubeletFinish(p)
  <2> DEFINE pod == [api[p] EXCEPT !.inProgress = FALSE]
  <2>1. Exists(p) /\ Write(p, pod) /\ DOMAIN pod = PodFields BY <1>1, <1>7 DEF KubeletFinish
  <2>2. Fields(pod) = [containers |-> api[p].containers, terminating |-> api[p].terminating,
                       pending |-> api[p].pending, inProgress |-> FALSE]
    BY <1>1, <2>1 DEF PodFields
  <2>3. Fields(pod) = [Visible[p] EXCEPT !.inProgress = FALSE] BY <2>1, <2>2, SeenAfter
  <2>4. Visible[p].inProgress = api[p].inProgress BY <2>1, SeenAfter
  <2>5. Visible[p].inProgress BY <1>7, <2>4, Zenon DEF KubeletFinish
  <2> HIDE DEF pod, Fields
  <2> QED BY <1>1, <1>2, <2>1, <2>3, <2>5 DEF Atomic!KubeletFinish
<1> QED BY <1>3, <1>4, <1>5, <1>6, <1>7

LEMMA RemoveIsAtomic ==
  ASSUME IInv, NEW p \in Pods, Remove(p)
  PROVE  Atomic!Remove(p)
<1>1. Atomic!Exists(p) /\ Visible[p].terminating
  <2>1. Atomic!Exists(p) BY ExistsIsSeen DEF Remove
  <2>2. Visible[p].terminating = api[p].terminating BY SeenAfter DEF Remove
  <2> QED BY <2>1, <2>2, Zenon DEF Remove
<1>2. api'[p] = NoPod /\ \A q \in Pods : q # p => api'[q] = api[q]
  BY DEF Remove, IInv, Shapes
<1>3. Seen(NoPod) = Atomic!NoPod BY DEF Seen, NoPod, Atomic!NoPod
<1>4. Visible' = [q \in Pods |-> Seen(api'[q])] BY DEF Visible, Seen
<1>5. Visible' = [Visible EXCEPT ![p] = Atomic!NoPod] BY <1>2, <1>3, <1>4 DEF Visible
<1> QED BY <1>1, <1>5 DEF Atomic!Remove, Atomic!Becomes

\* ImplementsAtomicResizes of PodActuator: what happens to the pods is what would
\* if each resize read the pod, decided and wrote in one step, in which no other
\* resize and no deletion comes in between.
THEOREM ResizesAreAtomic == Spec => ImplementsAtomicResizes
<1>1. Init => Atomic!Init
  <2> SUFFICES ASSUME Init PROVE Atomic!Init OBVIOUS
  <2>1. PICK t \in [Pods -> Templates], atWork \in [Pods -> BOOLEAN] :
          api = [p \in Pods |-> [version |-> 0, containers |-> t[p], terminating |-> FALSE,
                                 pending |-> FALSE, inProgress |-> atWork[p]]]
    BY DEF Init
  <2>2. ASSUME NEW p \in Pods PROVE Seen(api[p]) = Atomic!Pod(t[p], atWork[p])
    <3> DEFINE pod == [version |-> 0, containers |-> t[p], terminating |-> FALSE,
                       pending |-> FALSE, inProgress |-> atWork[p]]
    <3>1. api[p] = pod BY <2>1
    <3>2. DOMAIN pod = PodFields BY DEF PodFields
    <3>3. Seen(pod) = [containers |-> pod.containers, terminating |-> pod.terminating,
                       pending |-> pod.pending, inProgress |-> pod.inProgress]
      BY <3>2, SeenIsPod
    <3> QED BY <3>1, <3>3 DEF Atomic!Pod
  <2>3. Visible = [p \in Pods |-> Atomic!Pod(t[p], atWork[p])] BY <2>2 DEF Visible
  <2> QED BY <2>3 DEF Atomic!Init
<1>2. SizedInv /\ [Next]_vars => [Atomic!Next]_Visible
  <2> SUFFICES ASSUME SizedInv, [Next]_vars PROVE [Atomic!Next]_Visible OBVIOUS
  <2>1. ASSUME UNCHANGED api PROVE UNCHANGED Visible BY <2>1 DEF Visible, Seen
  <2>2. ASSUME NEW p \in Pods,
               ListPod(p) \/ SkipPod(p) \/ ResizePodFails(p) \/ CacheSync(p)
        PROVE  UNCHANGED api
    BY <2>2 DEF ListPod, SkipPod, ResizePodFails, CacheSync, apiVars
  <2>3. StartApply \/ ListError \/ UNCHANGED vars => UNCHANGED api
    BY DEF StartApply, ListError, vars, apiVars
  <2>4. ASSUME NEW p \in Pods,
               \/ ResizePod(p) \/ Delete(p) \/ Remove(p) \/ Create(p) \/ OtherResize(p)
               \/ KubeletBegin(p) \/ KubeletFinish(p)
        PROVE  Atomic!Next
    BY <2>4, ResizeIsAtomic, WorldIsAtomic, RemoveIsAtomic DEF SizedInv, Atomic!Next
  <2> QED BY <2>1, <2>2, <2>3, <2>4 DEF Next
<1> QED BY <1>1, <1>2, SizedInvariant, PTL DEF Spec, ImplementsAtomicResizes, Atomic!Spec
==============================================================================
