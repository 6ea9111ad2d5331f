------------------------------- MODULE History -------------------------------
(***************************************************************************)
(* internal/metrics/history.go: the HistoryStore, a map from a string key  *)
(* to a RingBuffer, shared by every reconcile of the process.              *)
(*                                                                         *)
(* Every method of the store takes its mutex for its whole body, so one    *)
(* method call is one action.  A (value, timestamp) pair is one sample:    *)
(* the two arrays of a RingBuffer are always written at the same index.    *)
(* Strings are sequences of tokens, which keeps what the prefix deletion   *)
(* depends on: the keys of two autoscalers may share a beginning.          *)
(***************************************************************************)
EXTENDS Integers, Sequences, SequencesExt

CONSTANTS Tokens,                  \* the pieces strings are made of
          Namespaces,              \* namespaces, sequences of tokens
          Names,                   \* autoscaler names, sequences of tokens
          Resources,               \* a resource metric is one token
          Slash,                   \* the separator of the parts of a key
          Samples,                 \* (value, timestamp) pairs
          Unwritten,               \* a cell of a ring that no Append wrote
          RequestedCapacity,       \* the argument of NewHistoryStore
          DefaultHistoryCapacity,  \* 512 in the code
          MaxSnapshot              \* bounds the fetched series TLC enumerates

ASSUME DefaultCapacityAssumption == DefaultHistoryCapacity \in Nat \ {0}
ASSUME RequestedCapacityAssumption == RequestedCapacity \in Int

\* Kubernetes names are DNS labels: they hold no slash.
ASSUME NamespacesAssumption ==
  \A s \in Namespaces : s \in Seq(Tokens) /\ \A i \in 1 .. Len(s) : s[i] # Slash
ASSUME NamesAssumption ==
  \A s \in Names : s \in Seq(Tokens) /\ \A i \in 1 .. Len(s) : s[i] # Slash
ASSUME ResourcesAssumption == Slash \in Tokens /\ Resources \subseteq Tokens \ {Slash}
ASSUME UnwrittenAssumption == Unwritten \notin Samples

VARIABLE buffers  \* a partial function from keys to rings

-------------------------------------------------------------------------------
(* Keys *)

Autoscalers == Namespaces \X Names

HistoryKey(namespace, name, resource) ==
  namespace \o <<Slash>> \o name \o <<Slash, resource>>

\* Fault: the prefix without its closing slash, "shop/web" for "shop/web/".
PrefixWithoutSlash(namespace, name) == namespace \o <<Slash>> \o name

HistoryPrefix(namespace, name) ==
  namespace \o <<Slash>> \o name \o <<Slash>>

Keys == {HistoryKey(a[1], a[2], r) : a \in Autoscalers, r \in Resources}

-------------------------------------------------------------------------------
(* RingBuffer *)

Capacity ==
  IF RequestedCapacity <= 0 THEN DefaultHistoryCapacity ELSE RequestedCapacity

Ring == [values : [0 .. Capacity - 1 -> Samples \cup {Unwritten}],
         start  : 0 .. Capacity - 1,
         count  : 0 .. Capacity]

NewRingBuffer ==
  [values |-> [i \in 0 .. Capacity - 1 |-> Unwritten], start |-> 0, count |-> 0]

\* Faults: the start does not wrap around; the oldest sample is evicted one
\* Append before the ring is full.
RingAppendNoWrap(b, sample) ==
  IF b.count < Capacity
    THEN [b EXCEPT !.values[(b.start + b.count) % Capacity] = sample,
                   !.count = @ + 1]
    ELSE [b EXCEPT !.values[b.start] = sample, !.start = @ + 1]
RingAppendEarlyEviction(b, sample) ==
  IF b.count < Capacity - 1
    THEN [b EXCEPT !.values[(b.start + b.count) % Capacity] = sample,
                   !.count = @ + 1]
    ELSE [b EXCEPT !.values[b.start] = sample,
                   !.start = (@ + 1) % Capacity]

RingAppend(b, sample) ==
  IF b.count < Capacity
    THEN [b EXCEPT !.values[(b.start + b.count) % Capacity] = sample,
                   !.count = @ + 1]
    ELSE [b EXCEPT !.values[b.start] = sample,
                   !.start = (@ + 1) % Capacity]

\* Fault: the cells in the order of the slice, not from the oldest on.
RingSeriesFromZero(b) == [i \in 1 .. b.count |-> b.values[i - 1]]

RingSeries(b) ==
  [i \in 1 .. b.count |-> b.values[(b.start + i - 1) % Capacity]]

-------------------------------------------------------------------------------
(* HistoryStore *)

Get(key) == IF key \in DOMAIN buffers THEN RingSeries(buffers[key]) ELSE << >>

BufferFor(key) ==
  IF key \in DOMAIN buffers THEN buffers[key] ELSE NewRingBuffer

\* The map with the entry of one key set, and without the keys of a set.
Put(key, b) ==
  [k \in DOMAIN buffers \cup {key} |-> IF k = key THEN b ELSE buffers[k]]
Without(gone) == [k \in DOMAIN buffers \ gone |-> buffers[k]]

Snapshots == UNION {[1 .. n -> Samples] : n \in 0 .. MaxSnapshot}

\* Only the newest sample of a fetched series is recorded; an empty series
\* records nothing.
AppendLatest(key, snapshot) ==
  /\ snapshot # << >>
  /\ buffers' = Put(key, RingAppend(BufferFor(key), Last(snapshot)))

\* A key starts with a prefix.
HasPrefix(key, prefix) == IsPrefix(prefix, key)

Delete(key) == buffers' = Without({key})

DeleteByPrefix(prefix) ==
  buffers' = Without({k \in DOMAIN buffers : HasPrefix(k, prefix)})

Init == buffers = << >>

Next ==
  \E a \in Autoscalers :
    \/ DeleteByPrefix(HistoryPrefix(a[1], a[2]))
    \/ \E r \in Resources :
         \/ Delete(HistoryKey(a[1], a[2], r))
         \/ \E snapshot \in Snapshots :
              AppendLatest(HistoryKey(a[1], a[2], r), snapshot)

Spec == Init /\ [][Next]_buffers

-------------------------------------------------------------------------------
(* Properties *)

\* Every entry of the map is a ring, under the key of some autoscaler.
TypeOK ==
  /\ DOMAIN buffers \subseteq Keys
  /\ \A k \in DOMAIN buffers : buffers[k] \in Ring

\* A ring only starts to turn once it is full, it is in the map only when it
\* holds a sample, and its unwritten cells are exactly those past its count:
\* Series never reads the zero of a freshly made slice as if it were measured.
RingWellFormed(b) ==
  /\ b.count < Capacity => b.start = 0
  /\ \A i \in 0 .. Capacity - 1 : b.values[i] = Unwritten <=> i >= b.count

RingsWellFormed ==
  \A k \in DOMAIN buffers : buffers[k].count > 0 /\ RingWellFormed(buffers[k])

\* What Get returns for a key, sample by sample, is what an unbounded log cut
\* to the last Capacity samples would return, and deleting the keys with the
\* prefix of one autoscaler deletes all of its logs and none of another's.
Logs == [a \in Autoscalers |-> [r \in Resources |-> Get(HistoryKey(a[1], a[2], r))]]

SampleLogOfKeys == INSTANCE SampleLog WITH log <- Logs

ImplementsSampleLog == SampleLogOfKeys!Spec
==============================================================================
