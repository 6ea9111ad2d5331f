----------------------------- MODULE AtomicResizes -----------------------------
(***************************************************************************)
(* What the actuator promises to the pods of a workload, without copies,   *)
(* versions, conflicts and loops: a pod is resized in one step, from the   *)
(* containers it has at that moment, and only while it is steady.  Other   *)
(* than that, nothing of a pod is touched.  Module PodActuator is the      *)
(* code; it is shown to implement this module.                             *)
(***************************************************************************)
CONSTANTS Pods,            \* names of pods
          Templates,       \* the containers a pod may be given
          Peaks,           \* what may be asked of all pods together
          Shares,          \* the numbers of pods that may share it
          Resized(_, _, _) \* containers, sized for a peak that so many pods share

VARIABLE pods     \* by name, NoPod where there is none

NoPod == << >>

Pod(containers, atWork) ==
  [containers |-> containers, terminating |-> FALSE, pending |-> FALSE, inProgress |-> atWork]

Init ==
  \E t \in [Pods -> Templates], atWork \in [Pods -> BOOLEAN] :
    pods = [p \in Pods |-> Pod(t[p], atWork[p])]

Exists(p) == pods[p] # NoPod
Becomes(p, pod) == pods' = [pods EXCEPT ![p] = pod]

Resize(p) ==
  /\ Exists(p) /\ ~pods[p].terminating /\ ~pods[p].inProgress
  /\ \E total \in Peaks, n \in Shares :
       Becomes(p, [pods[p] EXCEPT !.containers = Resized(@, total, n), !.pending = TRUE])

\* Others, and the kubelet, do as they like.
OtherResize(p) ==
  /\ Exists(p)
  /\ \E t \in Templates : Becomes(p, [pods[p] EXCEPT !.containers = t, !.pending = TRUE])

Create(p) == ~Exists(p) /\ \E t \in Templates : Becomes(p, Pod(t, FALSE))
Delete(p) == Exists(p) /\ Becomes(p, [pods[p] EXCEPT !.terminating = TRUE])
Remove(p) == Exists(p) /\ pods[p].terminating /\ Becomes(p, NoPod)

KubeletBegin(p) ==
  Exists(p) /\ pods[p].pending
    /\ Becomes(p, [pods[p] EXCEPT !.pending = FALSE, !.inProgress = TRUE])
KubeletFinish(p) ==
  Exists(p) /\ pods[p].inProgress /\ Becomes(p, [pods[p] EXCEPT !.inProgress = FALSE])

Next ==
  \E p \in Pods :
    \/ Resize(p) \/ OtherResize(p)
    \/ Create(p) \/ Delete(p) \/ Remove(p)
    \/ KubeletBegin(p) \/ KubeletFinish(p)

Spec == Init /\ [][Next]_pods
==============================================================================
