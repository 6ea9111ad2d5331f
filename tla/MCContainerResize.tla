-------------------------- MODULE MCContainerResize --------------------------
(* ContainerResize with Ki, Mi and Gi at 4, 16 and 64 bytes and integers of *)
(* ten bits, so that small quantities reach every unit and every overflow.  *)
EXTENDS ContainerResize

Bounds(min, max, percent) ==
  [min |-> min, max |-> max, parses |-> TRUE, minChangePercent |-> percent]
ResizeOf(percent, resources) ==
  [containerName |-> None, minChangePercent |-> percent, resources |-> resources]

MCSpecs ==
  { \* both resources, one of which overrides the threshold of the other
    ResizeOf(None, [cpu |-> Bounds(10, 100, None), memory |-> Bounds(5, 70, 50)]),
    \* memory alone, unbounded, every difference counts
    ResizeOf(0, [memory |-> Bounds(None, None, None)]),
    \* cpu alone, an upper bound alone
    ResizeOf(50, [cpu |-> Bounds(None, 100, 20)]),
    \* bounds that no unit divides
    ResizeOf(100, [memory |-> Bounds(18, 19, 0)]),
    \* a negative quantity is one, and no request can be at most that
    ResizeOf(0, [cpu |-> Bounds(-20, 100, None), memory |-> Bounds(None, -5, 0)]),
    \* invalid: a blank name, a bound that does not parse, min above max, an
    \* unsupported resource, a percentage past 100
    [ResizeOf(None, [cpu |-> Bounds(20, 30, None)]) EXCEPT !.containerName = Blank],
    ResizeOf(None, [cpu |-> [Bounds(None, 30, None) EXCEPT !.parses = FALSE]]),
    ResizeOf(None, [memory |-> Bounds(64, 16, None)]),
    ResizeOf(None, [gpu |-> Bounds(None, None, None)]),
    ResizeOf(101, [cpu |-> Bounds(None, None, None)]) }

Burst(cpu, memory) == [cpu |-> cpu, memory |-> memory]

MCContainers ==
  {[requests |-> Burst(10, 16), limits |-> << >>],
   [requests |-> Burst(55, 150), limits |-> [cpu |-> 100]],
   [requests |-> Burst(95, 18), limits |-> Burst(95, 150)],
   [requests |-> Burst(55, 18), limits |-> Burst(55, 18)],
   [requests |-> [cpu |-> 10], limits |-> << >>],
   [requests |-> << >>, limits |-> << >>]}

MCPeaks ==
  {[cpu |-> c] : c \in {0, 84}} \cup {[memory |-> m] : m \in {1, 13, 850, 900}}
    \cup {Burst(c, m) : c \in {9, 900}, m \in {0, 50}}

MCOutOfRangeAmd64 == -1024

MCPodCounts == {1, 2}
==============================================================================
