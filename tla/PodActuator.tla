----------------------------- MODULE PodActuator -----------------------------
(***************************************************************************)
(* Apply, listEligiblePods and resizePod of internal/resize/actuator.go,   *)
(* against an API server, an informer cache and a kubelet.                 *)
(*                                                                         *)
(* One reconcile runs at a time (MaxConcurrentReconciles is 1), but not    *)
(* atomically: it resolves the names of the workload's pods when it        *)
(* fetches metrics, forecasts, reads the pods one by one from the cache,   *)
(* and then updates one pod after another from the copies it read.  Pods   *)
(* are deleted, recreated, resized by others and worked on by the kubelet  *)
(* between any two of these steps, and the cache lags behind.              *)
(***************************************************************************)
EXTENDS ResizeTargets, Sequences

CONSTANTS Pods,         \* names of the pods the targetRef selects
          Templates,    \* the containers a pod may have, <<[name, requests, limits], ...>>
          ResizeSpec,   \* spec.resize, valid: containerName, minChangePercent, resources
          Peaks,        \* maps from resource to the effective peak of the workload
          ServerFails,  \* the API server may fail for reasons of its own
          MaxEvents     \* bounds the steps of users and of other controllers

ASSUME PodsAssumption == IsFiniteSet(Pods)
\* The schemas of the API types.
ASSUME TemplatesAssumption ==
  \A t \in Templates :
    /\ DOMAIN t = 1 .. Len(t)
    /\ \A i \in DOMAIN t :
         /\ DOMAIN t[i] = {"name", "requests", "limits"}
         /\ \A r \in DOMAIN t[i].requests : t[i].requests[r] \in Nat
\* The schema admits an upper bound below zero, at which the API server refuses
\* each update; ContainerResize has such bounds.
ASSUME ResizeSpecAssumption ==
  /\ ValidateResize(ResizeSpec)
  /\ \A r \in DOMAIN ResizeSpec.resources :
       /\ ResizeSpec.resources[r] \in ResourceBounds
       /\ ResizeSpec.resources[r].max \in Nat \cup {None}
ASSUME PeaksAssumption == \A total \in Peaks : \A r \in DOMAIN total : total[r] \in Nat
ASSUME MaxEventsAssumption == MaxEvents \in Nat

VARIABLES
  api,       \* the pods of the API server, NoPod for a name that none has
  cache,     \* the informer's copies, which client.Get returns
  events,    \* steps of users and of other controllers so far
  phase,     \* of the reconcile: "idle", "listing" or "resizing"
  names,     \* fetchResult.PodNames
  peaks,     \* forecastPeaks of Apply
  todo,      \* the pods the running loop has not come to yet
  eligible,  \* partial function: the copies listEligiblePods kept
  podCount   \* len(eligiblePods) when that loop ended

NoPod == << >>

apiVars == <<api, events>>
workerVars == <<phase, names, peaks, todo, eligible, podCount>>
vars == <<apiVars, cache, workerVars>>

\* The kubelet may be at work when the autoscaler starts.
Init ==
  /\ \E t \in [Pods -> Templates], atWork \in [Pods -> BOOLEAN] :
       api = [p \in Pods |-> [version |-> 0, containers |-> t[p], terminating |-> FALSE,
                              pending |-> FALSE, inProgress |-> atWork[p]]]
  /\ cache = api
  /\ events = 0
  /\ phase = "idle"
  /\ names = {} /\ peaks = << >> /\ todo = {} /\ eligible = << >> /\ podCount = 0

-------------------------------------------------------------------------------
(* The API server, the cache and the kubelet (external) *)

\* Every write gives a pod a version that no copy of a pod of its name has.  A
\* version is only ever compared for equality, so that one that nobody holds any
\* longer may serve again: there is always one of four that is free.
Versions == 0 .. 3
Held(p) == {copy.version : copy \in {api[p], cache[p], At(eligible, p, NoPod)} \ {NoPod}}
FreshVersion(p) == CHOOSE v \in Versions : v \notin Held(p)

Write(p, pod) == api' = [api EXCEPT ![p] = [pod EXCEPT !.version = FreshVersion(p)]]

Event == events < MaxEvents /\ events' = events + 1

Exists(p) == api[p] # NoPod

\* A graceful deletion sets the deletion timestamp; the kubelet removes the pod.
Delete(p) ==
  /\ Event /\ Exists(p) /\ ~api[p].terminating
  /\ Write(p, [api[p] EXCEPT !.terminating = TRUE])
  /\ UNCHANGED <<cache, workerVars>>

Remove(p) ==
  /\ Exists(p) /\ api[p].terminating
  /\ api' = [api EXCEPT ![p] = NoPod]
  /\ UNCHANGED <<events, cache, workerVars>>

\* A StatefulSet recreates a pod under its old name.
Create(p) ==
  /\ Event /\ ~Exists(p)
  /\ \E t \in Templates :
       Write(p, [version |-> 0, containers |-> t, terminating |-> FALSE,
                 pending |-> FALSE, inProgress |-> FALSE])
  /\ UNCHANGED <<cache, workerVars>>

\* A user, or another autoscaler, resizes the pod.
OtherResize(p) ==
  /\ Event /\ Exists(p)
  /\ \E t \in Templates \ {api[p].containers} :
       Write(p, [api[p] EXCEPT !.containers = t, !.pending = TRUE])
  /\ UNCHANGED <<cache, workerVars>>

\* The kubelet sets the condition PodResizeInProgress when it takes a resize
\* up and clears it when the containers run with the new resources.
KubeletBegin(p) ==
  /\ Exists(p) /\ api[p].pending
  /\ Write(p, [api[p] EXCEPT !.pending = FALSE, !.inProgress = TRUE])
  /\ UNCHANGED <<events, cache, workerVars>>

KubeletFinish(p) ==
  /\ Exists(p) /\ api[p].inProgress
  /\ Write(p, [api[p] EXCEPT !.inProgress = FALSE])
  /\ UNCHANGED <<events, cache, workerVars>>

CacheSync(p) ==
  /\ cache[p] # api[p]
  /\ cache' = [cache EXCEPT ![p] = api[p]]
  /\ UNCHANGED <<apiVars, workerVars>>

-------------------------------------------------------------------------------
(* The copies of pods *)

ResizeInProgress(pod) == pod.inProgress

\* Fault: a pod whose resize is in progress is resized again.
EligibleInProgress(pod) == pod # NoPod /\ ~pod.terminating

Eligible(pod) == pod # NoPod /\ ~pod.terminating /\ ~ResizeInProgress(pod)

\* The containers resizePod considers, by index.
TargetContainerIndexes(containers) ==
  LET named == {i \in DOMAIN containers : containers[i].name = ResizeSpec.containerName}
  IN  IF ResizeSpec.containerName = None THEN {1} \cap DOMAIN containers
      ELSE IF ResizeSpec.containerName = "*" THEN DOMAIN containers
      ELSE IF named = {} THEN {} ELSE {Min(named)}

\* The containers of a pod that get a plan, and the containers submitted.
PlannedIndexes(containers, total, n) ==
  {i \in TargetContainerIndexes(containers) :
     WorthResizing(total, n, containers[i].requests, ResizeSpec)}

\* Fault: every plan is carried out on the first container.
BuildFirstContainer(containers, total, n) ==
  [i \in DOMAIN containers |->
     LET c == containers[i]
         t == PlannedTargets(total, n, c.requests, ResizeSpec)
     IN  IF i = 1 THEN [c EXCEPT !.requests = NewRequests(@, t), !.limits = NewLimits(@, t)]
         ELSE c]

BuildResizePod(containers, total, n) ==
  [i \in DOMAIN containers |->
     LET c == containers[i]
         t == PlannedTargets(total, n, c.requests, ResizeSpec)
     IN  IF i \in PlannedIndexes(containers, total, n)
           THEN [c EXCEPT !.requests = NewRequests(@, t), !.limits = NewLimits(@, t)]
           ELSE c]

-------------------------------------------------------------------------------
(* The reconcile *)

\* Fetch resolves the names from the cache and finds at least one; the peaks
\* are what forecast and recent history make of the whole workload.
StartApply ==
  /\ phase = "idle"
  /\ {p \in Pods : cache[p] # NoPod} # {}
  /\ names' = {p \in Pods : cache[p] # NoPod}
  /\ todo' = names'
  /\ peaks' \in Peaks
  /\ phase' = "listing"
  /\ eligible' = << >> /\ podCount' = 0
  /\ UNCHANGED <<apiVars, cache>>

\* The end of a reconcile; the next one starts over.
BackToIdle ==
  /\ phase' = "idle"
  /\ names' = {} /\ peaks' = << >> /\ todo' = {} /\ eligible' = << >> /\ podCount' = 0

Keep(p) == [q \in DOMAIN eligible \cup {p} |-> IF q = p THEN cache[p] ELSE eligible[q]]

StartResizingAll(kept) ==  \* Fault: the loop runs over podNames.
  /\ eligible' = kept /\ todo' = names /\ podCount' = Cardinality(DOMAIN kept)
  /\ phase' = "resizing" /\ UNCHANGED <<names, peaks>>

StartResizingByNames(kept) ==  \* Fault: the peaks are divided by len(podNames).
  /\ eligible' = kept /\ todo' = DOMAIN kept /\ podCount' = Cardinality(names)
  /\ phase' = "resizing" /\ UNCHANGED <<names, peaks>>

StartResizing(kept) ==
  /\ eligible' = kept /\ todo' = DOMAIN kept /\ podCount' = Cardinality(DOMAIN kept)
  /\ phase' = "resizing" /\ UNCHANGED <<names, peaks>>

\* One turn of the loop of listEligiblePods: a pod that is gone, terminating
\* or being resized is left out.  After the last turn, Apply goes on with the
\* pods it kept, whose number divides the peaks.
ListPod(p) ==
  /\ phase = "listing" /\ p \in todo
  /\ LET kept == IF Eligible(cache[p]) THEN Keep(p) ELSE eligible
     IN  IF todo # {p}
           THEN /\ eligible' = kept /\ todo' = todo \ {p}
                /\ UNCHANGED <<phase, names, peaks, podCount>>
           ELSE IF kept = << >> THEN BackToIdle
           ELSE StartResizing(kept)
  /\ UNCHANGED <<apiVars, cache>>

\* Get fails with something else than "not found": Apply gives up.
ListError ==
  /\ ServerFails /\ phase = "listing"
  /\ BackToIdle
  /\ UNCHANGED <<apiVars, cache>>

\* The loop of Apply comes to its next pod, or ends.
NextPod(p) ==
  IF todo = {p} THEN BackToIdle
  ELSE todo' = todo \ {p} /\ UNCHANGED <<phase, names, peaks, eligible, podCount>>

Plan(p) == PlannedIndexes(eligible[p].containers, peaks, podCount)

\* resizePod finds nothing worth a resize.
SkipPod(p) ==
  /\ phase = "resizing" /\ p \in todo
  /\ Plan(p) = {}
  /\ NextPod(p)
  /\ UNCHANGED <<apiVars, cache>>

\* The update of the resize subresource carries the version of the copy: the
\* API server applies it only to that version of the pod.
AcceptedOfAnyVersion(p) == Exists(p)  \* Fault: the copy's version is not sent.
Accepted(p) == Exists(p) /\ api[p].version = eligible[p].version

\* The update succeeds.  The subresource takes nothing but the containers'
\* resources from the pod that was sent.
ResizePod(p) ==
  /\ phase = "resizing" /\ p \in todo
  /\ Plan(p) # {}
  /\ Accepted(p)
  /\ Write(p, [api[p] EXCEPT
                 !.containers = BuildResizePod(eligible[p].containers, peaks, podCount),
                 !.pending = TRUE])
  /\ NextPod(p)
  /\ UNCHANGED <<events, cache>>

\* The update fails (a conflict, a missing pod, a refusal, a lost request);
\* the error is logged and the loop goes on.
ResizePodFails(p) ==
  /\ phase = "resizing" /\ p \in todo
  /\ Plan(p) # {}
  /\ ServerFails \/ ~Accepted(p)
  /\ NextPod(p)
  /\ UNCHANGED <<apiVars, cache>>

Next ==
  \/ StartApply
  \/ ListError
  \/ \E p \in Pods :
       \/ ListPod(p) \/ SkipPod(p) \/ ResizePod(p) \/ ResizePodFails(p)
       \/ Delete(p) \/ Remove(p) \/ Create(p) \/ OtherResize(p)
       \/ KubeletBegin(p) \/ KubeletFinish(p) \/ CacheSync(p)

Spec == Init /\ [][Next]_vars

\* RequeueAfter starts a reconcile every 20 seconds and its loops run to their
\* end, watches deliver, and the kubelet finishes what it begins.  It need not
\* begin: a resize that its node has no room for stays pending.
Fairness ==
  /\ WF_vars(\/ StartApply
             \/ \E p \in Pods :
                  ListPod(p) \/ SkipPod(p) \/ ResizePod(p) \/ ResizePodFails(p))
  /\ \A p \in Pods : WF_vars(KubeletFinish(p)) /\ WF_vars(CacheSync(p))

FairSpec == Spec /\ Fairness

-------------------------------------------------------------------------------
(* Properties *)

Pod == [version : Versions, terminating : BOOLEAN, pending : BOOLEAN,
        inProgress : BOOLEAN]

Status(pod) == [version |-> pod.version, terminating |-> pod.terminating,
                pending |-> pod.pending, inProgress |-> pod.inProgress]

TypeOK ==
  /\ \A copies \in {api, cache} :
       /\ DOMAIN copies = Pods
       /\ \A p \in Pods : copies[p] # NoPod => Status(copies[p]) \in Pod
  /\ events \in 0 .. MaxEvents
  /\ phase \in {"idle", "listing", "resizing"}
  /\ todo \subseteq names /\ names \subseteq Pods /\ DOMAIN eligible \subseteq names
  /\ phase = "resizing" => todo \subseteq DOMAIN eligible /\ podCount > 0

\* No update of the autoscaler reaches a pod that is terminating or whose
\* previous resize the kubelet has not finished, however old the copy was
\* on which listEligiblePods decided.
ResizesOnlySteadyPods ==
  [][\A p \in Pods : ResizePod(p) => ~api[p].terminating /\ ~api[p].inProgress]_vars

\* What an update writes is computed from the containers that it replaces: a
\* resize by someone else since the copy was made is never lost.
NoLostUpdate ==
  [][\A p \in Pods : ResizePod(p) =>
       api'[p].containers = BuildResizePod(api[p].containers, peaks, podCount)]_vars

\* The pods that one Apply works on carry the demand together: what it leaves a
\* container with, resized or not, times the pods that are asked for as much,
\* covers the peak, or is a headroom short of the upper bound.  The headroom of a
\* fifth makes up for what a threshold keeps, as long as that is not wider.
HeadroomSuffices(r) ==
  /\ EffectiveMinChangePercent(ResizeSpec.minChangePercent,
                               ResizeSpec.resources[r].minChangePercent) <= 20
  /\ CeilDiv(6 * peaks[r], 5 * Cardinality(DOMAIN eligible)) <= MaxInt64
PodsCoverPeak ==
  [][\A p \in Pods : ResizePod(p) \/ SkipPod(p) =>
       \A i \in TargetContainerIndexes(eligible[p].containers),
          r \in DOMAIN peaks \cap DOMAIN ResizeSpec.resources :
         LET running   == IF Plan(p) = {} THEN eligible[p] ELSE api'[p]
             requested == At(running.containers[i].requests, r, 0)
             max       == ResizeSpec.resources[r].max
         IN  peaks[r] > 0 /\ HeadroomSuffices(r) =>
               \/ requested * Cardinality(DOMAIN eligible) >= peaks[r]
               \/ max # None /\ 6 * requested >= 5 * max]_vars

\* An update leaves nothing to do for the next pass over the pod with the same
\* peaks and as many pods, in none of its containers: resizes do not feed
\* resizes, unless the number of pods that divides the peaks moves.
UpdatesSettle ==
  [][\A p \in Pods : ResizePod(p) =>
       PlannedIndexes(api'[p].containers, peaks, podCount) = {}]_vars

\* The reads of listEligiblePods, one by one, from a cache that lags behind, and
\* the updates of resizePod, some of which fail, come to the same for each pod as
\* resizes that read, decide and write at once.
Seen(pod) ==
  IF pod = NoPod THEN NoPod
  ELSE [containers |-> pod.containers, terminating |-> pod.terminating,
        pending |-> pod.pending, inProgress |-> pod.inProgress]
Visible == [p \in Pods |-> Seen(api[p])]
Atomic == INSTANCE AtomicResizes
            WITH pods <- Visible, Shares <- 1 .. Cardinality(Pods), Resized <- BuildResizePod

ImplementsAtomicResizes == Atomic!Spec

\* neuralautoscaler_controller.go:75-76, README.md:13, "divided by matching pod
\* count": the number that divides the peaks is the number of pods of the
\* workload, unless some of them are gone or going.
SharesByMatchingPods ==
  phase = "resizing" =>
    podCount >= Cardinality({p \in names : Exists(p) /\ ~api[p].terminating})

\* Under one load that stays, the requests of all pods come to rest: for ever
\* after, no container is worth a resize to its share of the load.  The shares
\* may follow the resizes that they cause for ever, though: if they do not.
Settled ==
  LET steady == {p \in Pods : Exists(p) /\ ~api[p].terminating} IN
    \A p \in steady, total \in Peaks :
      PlannedIndexes(api[p].containers, total, Cardinality(steady)) = {}
ConstantLoadSettles ==
  Cardinality(Peaks) = 1 /\ <>[]SharesByMatchingPods => <>[]Settled
==============================================================================
