----------------------------- MODULE MCPodActuator -----------------------------
(* PodActuator on pods with an application container and a sidecar, sized  *)
(* in cpu.                                                                  *)
EXTENDS PodActuator

Container(n, cpu) == [name |-> n, requests |-> [cpu |-> cpu], limits |-> [cpu |-> 60]]

MCTemplates == {<<Container("app", 10), Container("sidecar", 20)>>,
                <<Container("app", 40), Container("sidecar", 20)>>}

CpuResize(containerName) ==
  [containerName |-> containerName, minChangePercent |-> None,
   resources |-> [cpu |-> [min |-> 5, max |-> 200, parses |-> TRUE, minChangePercent |-> None]]]

\* The container to resize is not the first of its pod.
MCOneTemplate == {<<Container("sidecar", 20), Container("app", 10)>>}

MCResizeSpec == CpuResize("app")
MCResizeSpecOfAll == CpuResize("*")

MCPeaks == {[cpu |-> 100], [cpu |-> 20]}
MCOnePeak == {[cpu |-> 100]}
==============================================================================
