------------------------------ MODULE SampleLog ------------------------------
(***************************************************************************)
(* What the history of package internal/metrics promises, without ring     *)
(* indices and without string keys: for every autoscaler and resource, the *)
(* last Capacity samples in the order in which they were recorded.         *)
(* Forgetting one autoscaler leaves every other autoscaler's log alone.    *)
(* Module History is the code; it is shown to implement this module.       *)
(***************************************************************************)
EXTENDS Naturals, Sequences

CONSTANTS Autoscalers,  \* the identities of NeuralAutoscaler objects
          Resources,    \* the resource metrics, "cpu" and "memory" in the code
          Samples,      \* a sample stands for a (value, timestamp) pair
          Capacity      \* samples retained per autoscaler and resource, at least one

VARIABLE log

\* The log with one more sample; the oldest makes room once it is full.
Remember(samples, sample) ==
  IF Len(samples) < Capacity THEN Append(samples, sample)
                             ELSE Append(Tail(samples), sample)

Init == log = [a \in Autoscalers |-> [r \in Resources |-> << >>]]

Record(a, r, sample) ==
  log' = [log EXCEPT ![a][r] = Remember(@, sample)]

Drop(a, r) ==
  log' = [log EXCEPT ![a][r] = << >>]

Forget(a) ==
  log' = [log EXCEPT ![a] = [r \in Resources |-> << >>]]

Next ==
  \E a \in Autoscalers :
    \/ Forget(a)
    \/ \E r \in Resources :
         \/ Drop(a, r)
         \/ \E sample \in Samples : Record(a, r, sample)

Spec == Init /\ [][Next]_log
==============================================================================
