-------------------------- MODULE ResizeTargetsProofs --------------------------
(***************************************************************************)
(* Lemmas about the arithmetic of ResizeTargets, for all quantities,       *)
(* bounds, thresholds and pod counts, and for every size of the units and  *)
(* of the integers.                                                        *)
(***************************************************************************)
EXTENDS ResizeTargets, TLAPS

\* A clamped quantity is an integer inside the bounds, if these are in order.
LEMMA ClampInBounds ==
  ASSUME NEW q \in Int, NEW b \in ResourceBounds
  PROVE  LET c == ClampQuantity(q, b) IN
         /\ c \in Int
         /\ b.max # None => c <= b.max
         /\ b.min # None /\ ValidBounds(b) => c >= b.min
BY NoneAssumption DEF ClampQuantity, ResourceBounds, ValidBounds

\* Rounding up to a unit yields an integer, and never a smaller one.
LEMMA UnitPositive ==
  ASSUME NEW bytes \in Int
  PROVE  Unit(bytes) \in Nat \ {0}
<1>1. Kilo \in Nat \ {0}
  BY KiloAssumption
<1>2. Kilo * Kilo \in Nat \ {0}
  BY <1>1
<1>3. (Kilo * Kilo) * Kilo \in Nat \ {0}
  BY <1>1, <1>2
<1> QED BY <1>1, <1>2, <1>3 DEF Unit

LEMMA CeilDivTimes ==
  ASSUME NEW x \in Int, NEW u \in Nat \ {0}
  PROVE  CeilDiv(x, u) \in Int /\ CeilDiv(x, u) * u >= x
<1> DEFINE y == x + u - 1
<1>1. y \in Int /\ y \div u \in Int /\ y % u \in 0 .. u - 1
  OBVIOUS
<1>2. y = u * (y \div u) + (y % u)
  OBVIOUS
<1>3. u * (y \div u) = (y \div u) * u
  BY <1>1
<1> QED BY <1>1, <1>2, <1>3 DEF CeilDiv

LEMMA NormalizeNeverShrinks ==
  ASSUME NEW bytes \in Int
  PROVE  /\ NormalizeMemoryQuantity(bytes) \in Int
         /\ NormalizeMemoryQuantity(bytes) >= bytes
<1> DEFINE u == Unit(bytes)
<1>1. u \in Nat \ {0}
  BY UnitPositive
<1> HIDE DEF u
<1>2. CeilDiv(bytes, u) \in Int /\ CeilDiv(bytes, u) * u >= bytes
  BY <1>1, CeilDivTimes
<1>3. CeilDiv(bytes, u) * u \in Int
  BY <1>1, <1>2
<1> QED BY <1>2, <1>3 DEF NormalizeMemoryQuantity, u

-------------------------------------------------------------------------------
(* Units, rounding and clamping: larger quantities stay larger, and what was *)
(* rounded and clamped once is left alone.                                   *)

LEMMA CeilDivLeast ==
  ASSUME NEW x \in Int, NEW u \in Nat \ {0}, NEW k \in Int, x <= k * u
  PROVE  CeilDiv(x, u) * u <= k * u
<1> DEFINE d == (x + u - 1) \div u
<1>1. d \in Int /\ u * d <= x + u - 1 OBVIOUS
<1>2. ASSUME d > k PROVE FALSE
  <2>1. \A a, b \in Int : a >= b => u * a >= u * b OBVIOUS
  <2>2. u * d >= u * (k + 1) BY <1>1, <1>2, <2>1
  <2> QED BY <1>1, <2>2
<1> HIDE DEF d
<1>3. \A a, b \in Int : a <= b => a * u <= b * u OBVIOUS
<1>4. d * u <= k * u BY <1>1, <1>2, <1>3
<1> QED BY <1>4 DEF CeilDiv, d

LEMMA CeilDivMonotone ==
  ASSUME NEW x \in Int, NEW y \in Int, x <= y, NEW u \in Nat \ {0}
  PROVE  CeilDiv(x, u) <= CeilDiv(y, u)
<1> DEFINE d == (x + u - 1) \div u
           e == (y + u - 1) \div u
<1>1. d \in Int /\ u * d <= x + u - 1 OBVIOUS
<1>2. e \in Int /\ y + u - 1 < u * (e + 1) OBVIOUS
<1>3. ASSUME d > e PROVE FALSE
  <2>1. \A a, b \in Int : a >= b => u * a >= u * b OBVIOUS
  <2>2. u * d >= u * (e + 1) BY <1>1, <1>2, <1>3, <2>1
  <2> QED BY <1>1, <1>2, <2>2
<1> QED BY <1>1, <1>2, <1>3 DEF CeilDiv

\* The units divide each other and the range of the integers, and a quantity
\* with a larger unit is at least that unit.
LEMMA Units ==
  ASSUME NEW x \in Int, NEW y \in Int, x <= y
  PROVE  /\ Unit(x) = Unit(y) \/
              (x < Unit(y) /\ Unit(y) <= y /\ \E k \in Int : Unit(y) = k * Unit(x))
         /\ \E k \in Int : MaxInt64 + 1 = k * Unit(x)
<1> DEFINE k1 == Kilo
           k2 == Kilo * Kilo
           k3 == Kilo * Kilo * Kilo
<1>1. k1 \in Nat /\ k1 > 1 BY KiloAssumption
<1>2. k2 \in Nat /\ k1 < k2
  <2>1. \A a \in Nat : a > 1 => a * a \in Nat /\ a < a * a OBVIOUS
  <2> QED BY <1>1, <2>1
<1>3. k3 = k2 * k1 /\ k3 = k1 * k2 /\ k3 \in Nat /\ k2 < k3
  <2>1. \A a, b \in Nat : a > 1 /\ b > 0 => b * a \in Nat /\ b < b * a /\ b * a = a * b OBVIOUS
  <2> QED BY <1>1, <1>2, <2>1
<1>4. PICK q \in Int : MaxInt64 + 1 = q * k3
  <2>1. \A a \in Int, b \in Nat \ {0} : a % b = 0 => a = (a \div b) * b /\ a \div b \in Int
    OBVIOUS
  <2> DEFINE m == MaxInt64 + 1
  <2>2. m \in Int /\ m % k3 = 0 BY MaxInt64Assumption
  <2>3. k3 \in Nat \ {0} BY <1>2, <1>3
  <2> HIDE DEF m, k3
  <2> QED BY <2>1, <2>2, <2>3 DEF m
<1>5. /\ q * k3 = (q * k1) * k2 /\ q * k3 = (q * k2) * k1
      /\ q * k1 \in Int /\ q * k2 \in Int /\ q * k3 \in Int
  <2>1. \A a, b, c \in Int : a * (b * c) = (a * b) * c /\ a * b \in Int OBVIOUS
  <2> HIDE DEF k1, k2, k3
  <2> QED BY <1>1, <1>2, <1>3, <2>1
<1>6. \A z \in Int : Unit(z) = IF z >= k3 THEN k3 ELSE IF z >= k2 THEN k2
                               ELSE IF z >= k1 THEN k1 ELSE 1
  BY DEF Unit
<1>7. k2 = k1 * k1 OBVIOUS
<1> HIDE DEF k1, k2, k3
<1>8. \E k \in Int : MaxInt64 + 1 = k * Unit(x)
  <2>1. Unit(x) = 1 => MaxInt64 + 1 = (MaxInt64 + 1) * Unit(x) BY MaxInt64Assumption
  <2>2. Unit(x) \in {1, k1, k2, k3} BY <1>6
  <2> QED BY <1>4, <1>5, <2>1, <2>2, MaxInt64Assumption
<1>9. Unit(x) = Unit(y) \/
        (x < Unit(y) /\ Unit(y) <= y /\ \E k \in Int : Unit(y) = k * Unit(x))
  <2>1. Unit(x) = Unit(y) \/ (x < Unit(y) /\ Unit(y) <= y) BY <1>1, <1>2, <1>3, <1>6
  <2>2. CASE Unit(x) = 1
    <3>1. Unit(y) \in Int BY UnitPositive
    <3> QED BY <2>1, <2>2, <3>1
  <2>3. CASE Unit(x) = k1 BY <1>1, <1>2, <1>3, <1>6, <1>7, <2>1, <2>3
  <2>4. CASE Unit(x) = k2 BY <1>1, <1>2, <1>3, <1>6, <2>1, <2>4
  <2>5. CASE Unit(x) = k3 BY <1>1, <1>2, <1>3, <1>6, <2>1, <2>5
  <2> QED BY <1>6, <2>2, <2>3, <2>4, <2>5
<1> QED BY <1>8, <1>9

\* What a quantity is rounded to, up to the largest multiples of its unit.
LEMMA NormalizeCases ==
  ASSUME NEW x \in Int
  PROVE  LET u == Unit(x)
             c == CeilDiv(x, u) * u IN
         /\ u \in Nat \ {0} /\ c \in Int /\ x <= c
         /\ \/ x <= 0 /\ NormalizeMemoryQuantity(x) = x
            \/ x > MaxInt64 + 1 - u /\ NormalizeMemoryQuantity(x) = x
            \/ 0 < x /\ x <= MaxInt64 + 1 - u /\ NormalizeMemoryQuantity(x) = c
<1> DEFINE u == Unit(x)
<1>1. u \in Nat \ {0} BY UnitPositive
<1> HIDE DEF u
<1>2. CeilDiv(x, u) \in Int /\ CeilDiv(x, u) * u >= x BY <1>1, CeilDivTimes
<1>3. CeilDiv(x, u) * u \in Int BY <1>1, <1>2
<1> QED BY <1>1, <1>2, <1>3, MaxInt64Assumption DEF NormalizeMemoryQuantity, u

\* A larger quantity is not rounded to less: not where the unit changes, and not
\* where it is too large to be rounded.
LEMMA NormalizeMonotone ==
  ASSUME NEW x \in Int, NEW y \in Int, x <= y
  PROVE  NormalizeMemoryQuantity(x) <= NormalizeMemoryQuantity(y)
<1> DEFINE u == Unit(x)  c == CeilDiv(x, u) * u  nx == NormalizeMemoryQuantity(x)
           v == Unit(y)  d == CeilDiv(y, v) * v  ny == NormalizeMemoryQuantity(y)
<1>1. /\ u \in Nat \ {0} /\ c \in Int /\ x <= c /\ CeilDiv(x, u) \in Int
      /\ \/ x <= 0 /\ nx = x
         \/ x > MaxInt64 + 1 - u /\ nx = x
         \/ 0 < x /\ x <= MaxInt64 + 1 - u /\ nx = c
  BY NormalizeCases, CeilDivTimes
<1>2. /\ v \in Nat \ {0} /\ d \in Int /\ y <= d /\ CeilDiv(y, v) \in Int
      /\ \/ y <= 0 /\ ny = y
         \/ y > MaxInt64 + 1 - v /\ ny = y
         \/ 0 < y /\ y <= MaxInt64 + 1 - v /\ ny = d
  BY NormalizeCases, CeilDivTimes
<1>3. /\ u = v \/ (x < v /\ v <= y /\ \E k \in Int : v = k * u)
      /\ \E k \in Int : MaxInt64 + 1 = k * u
  BY Units
<1>4. \A k \in Int : x <= k * u => c <= k * u
  <2> SUFFICES ASSUME NEW k \in Int, x <= k * u PROVE c <= k * u OBVIOUS
  <2> HIDE DEF u
  <2> QED BY <1>1, CeilDivLeast
<1> HIDE DEF u, v, c, d, nx, ny
<1>5. c <= d
  <2>1. CASE u = v
    <3>1. d = CeilDiv(y, v) * u BY <2>1 DEF d
    <3>2. x <= d BY <1>2
    <3> QED BY <1>2, <1>4, <3>1, <3>2
  <2>2. CASE u # v
    <3>1. PICK k \in Int : v = k * u BY <1>3, <2>2
    <3>2. x <= k * u BY <1>3, <2>2, <3>1
    <3>3. c <= v BY <1>4, <3>1, <3>2
    <3> QED BY <1>1, <1>2, <1>3, <2>2, <3>3
  <2> QED BY <2>1, <2>2
<1>6. ASSUME x <= MaxInt64 + 1 - u, y > MaxInt64 + 1 - v PROVE c <= y
  <2>1. CASE u = v
    <3>1. PICK k \in Int : MaxInt64 + 1 = k * u BY <1>3
    <3>2. (k - 1) * u = MaxInt64 + 1 - u
      <4>1. \A a, b \in Int : (a - 1) * b = a * b - b OBVIOUS
      <4>2. u \in Int BY <1>1
      <4>3. (k - 1) * u = k * u - u BY <4>1, <4>2
      <4> QED BY <3>1, <4>2, <4>3, MaxInt64Assumption
    <3>3. c <= (k - 1) * u BY <1>4, <1>6, <3>2
    <3> QED BY <1>1, <1>6, <2>1, <3>2, <3>3, MaxInt64Assumption
  <2>2. CASE u # v
    <3>1. PICK k \in Int : v = k * u BY <1>3, <2>2
    <3>2. x <= k * u BY <1>3, <2>2, <3>1
    <3>3. c <= v BY <1>4, <3>1, <3>2
    <3> QED BY <1>1, <1>2, <1>3, <2>2, <3>3
  <2> QED BY <2>1, <2>2
<1>7. nx <= ny BY <1>1, <1>2, <1>5, <1>6, MaxInt64Assumption
<1> QED BY <1>7 DEF nx, ny

\* A rounded quantity is not rounded any further.
LEMMA NormalizeIdempotent ==
  ASSUME NEW x \in Int
  PROVE  NormalizeMemoryQuantity(NormalizeMemoryQuantity(x)) = NormalizeMemoryQuantity(x)
<1> DEFINE u == Unit(x)  c == CeilDiv(x, u) * u
           y == NormalizeMemoryQuantity(x)
           v == Unit(y)  d == CeilDiv(y, v) * v
<1>1. /\ u \in Nat \ {0} /\ c \in Int /\ x <= c /\ CeilDiv(x, u) \in Int
      /\ y = x \/ y = c
  BY NormalizeCases, CeilDivTimes
<1>2. y = x \/ \E k \in Int : y = k * v
  <2> SUFFICES ASSUME y = c PROVE \E k \in Int : y = k * v BY <1>1
  <2>1. CASE u = v BY <1>1, <2>1
  <2>2. CASE u # v
    <3>1. x < v /\ v <= y /\ \E k \in Int : v = k * u BY <1>1, <2>2, Units
    <3>2. PICK k \in Int : v = k * u BY <3>1
    <3>3. c <= k * u
      <4> HIDE DEF u, v
      <4> QED BY <1>1, <3>1, <3>2, CeilDivLeast
    <3>4. v \in Nat \ {0} BY <1>1, UnitPositive
    <3>5. y = v
      <4> HIDE DEF c, u, v, y
      <4> QED BY <1>1, <3>1, <3>2, <3>3, <3>4
    <3>6. y = 1 * v
      <4> HIDE DEF v, y
      <4> QED BY <3>4, <3>5
    <3> QED BY <3>6
  <2> QED BY <2>1, <2>2
<1>3. ASSUME NEW k \in Int, y = k * v PROVE NormalizeMemoryQuantity(y) = y
  <2> DEFINE ny == NormalizeMemoryQuantity(y)
  <2>1. /\ y \in Int /\ v \in Nat \ {0} /\ d \in Int /\ y <= d /\ (ny = y \/ ny = d)
    <3>1. y \in Int BY <1>1
    <3> HIDE DEF y
    <3> QED BY <3>1, NormalizeCases
  <2>2. d <= y
    <3> HIDE DEF y, v
    <3> QED BY <1>3, <2>1, CeilDivLeast
  <2> HIDE DEF y, d, ny
  <2>3. ny = y BY <2>1, <2>2
  <2> QED BY <2>3 DEF ny
<1> QED BY <1>2, <1>3

\* ComputeTargets as a whole: a target is what its desired quantity settles to.
SettledQuantity(r, q, b) ==
  LET clamped == ClampQuantity(q, b)
  IN  IF r = "memory" THEN ClampQuantity(NormalizeMemoryQuantity(clamped), b) ELSE clamped

LEMMA TargetOf ==
  ASSUME NEW peaks, NEW n \in Nat, NEW req, NEW resources, NEW r \in DOMAIN resources \cap ResourceMetrics
  PROVE  ComputeTargets(peaks, n, req, resources)[r] =
           SettledQuantity(r, DesiredQuantity(r, peaks, IF n = 0 THEN 1 ELSE n, req), resources[r])
BY DEF ComputeTargets, SettledQuantity

LEMMA ClampMonotone ==
  ASSUME NEW x \in Int, NEW y \in Int, x <= y, NEW b \in ResourceBounds
  PROVE  ClampQuantity(x, b) <= ClampQuantity(y, b)
BY NoneAssumption DEF ClampQuantity, ResourceBounds

LEMMA SettledMonotone ==
  ASSUME NEW x \in Int, NEW y \in Int, x <= y, NEW b \in ResourceBounds, NEW r
  PROVE  SettledQuantity(r, x, b) <= SettledQuantity(r, y, b)
<1> DEFINE cx == ClampQuantity(x, b)  cy == ClampQuantity(y, b)
<1>1. cx \in Int /\ cy \in Int /\ cx <= cy BY ClampInBounds, ClampMonotone
<1> HIDE DEF cx, cy
<1> DEFINE nx == NormalizeMemoryQuantity(cx)  ny == NormalizeMemoryQuantity(cy)
<1>2. nx \in Int /\ ny \in Int /\ nx <= ny BY <1>1, NormalizeNeverShrinks, NormalizeMonotone
<1> HIDE DEF nx, ny
<1>3. ClampQuantity(nx, b) <= ClampQuantity(ny, b) BY <1>2, ClampMonotone
<1> QED BY <1>1, <1>3 DEF SettledQuantity, cx, cy, nx, ny

LEMMA SettledIdempotent ==
  ASSUME NEW x \in Int, NEW b \in ResourceBounds, ValidBounds(b), NEW r
  PROVE  /\ SettledQuantity(r, x, b) \in Int
         /\ SettledQuantity(r, SettledQuantity(r, x, b), b) = SettledQuantity(r, x, b)
<1> DEFINE c == ClampQuantity(x, b)
           n == NormalizeMemoryQuantity(c)
           s == ClampQuantity(n, b)
<1>1. /\ c \in Int
      /\ b.max # None => c <= b.max
      /\ b.min # None => c >= b.min
  BY ClampInBounds
<1>2. ClampQuantity(c, b) = c BY <1>1, NoneAssumption DEF ClampQuantity, ResourceBounds
<1> HIDE DEF c
<1>3. n \in Int /\ n >= c /\ NormalizeMemoryQuantity(n) = n
  BY <1>1, NormalizeNeverShrinks, NormalizeIdempotent
<1> HIDE DEF n
<1>4. c \in Int BY <1>1
<1>5. /\ s \in Int /\ (b.max # None => s <= b.max)
      /\ (b.min # None => s >= b.min)
  BY <1>3, ClampInBounds
<1>6. ClampQuantity(s, b) = s
  <2> HIDE DEF s
  <2> QED BY <1>5, NoneAssumption DEF ClampQuantity, ResourceBounds
<1>7. s = n \/ (b.max # None /\ s = b.max)
  BY <1>1, <1>3, <1>4, NoneAssumption DEF ClampQuantity, ResourceBounds
<1>8. ClampQuantity(NormalizeMemoryQuantity(s), b) = s
  <2>1. CASE s = n BY <1>3, <2>1
  <2>2. CASE b.max # None /\ s = b.max
    <3> HIDE DEF s
    <3>1. NormalizeMemoryQuantity(s) \in Int /\ NormalizeMemoryQuantity(s) >= s
      BY <1>5, NormalizeNeverShrinks
    <3> QED BY <1>5, <2>2, <3>1, NoneAssumption DEF ClampQuantity, ResourceBounds, ValidBounds
  <2> QED BY <1>7, <2>1, <2>2
<1> HIDE DEF s
<1>9. CASE r = "memory"
  <2>1. SettledQuantity(r, x, b) = s BY <1>9 DEF SettledQuantity, s, n, c
  <2>2. SettledQuantity(r, s, b) = s BY <1>6, <1>8, <1>9 DEF SettledQuantity
  <2> QED BY <1>5, <2>1, <2>2
<1>10. CASE r # "memory"
  <2>1. SettledQuantity(r, x, b) = c BY <1>10 DEF SettledQuantity, c
  <2>2. SettledQuantity(r, c, b) = c BY <1>2, <1>10 DEF SettledQuantity
  <2> QED BY <1>4, <2>1, <2>2
<1> QED BY <1>9, <1>10

-------------------------------------------------------------------------------
(* One container: what its requests are planned to be *)

AllNat(f) == \A r \in DOMAIN f : f[r] \in Nat
AllInt(f) == \A r \in DOMAIN f : f[r] \in Int

\* A spec that its schema and Apply accept.
ValidSpec(spec) ==
  ValidateResize(spec) /\ \A r \in DOMAIN spec.resources : spec.resources[r] \in ResourceBounds

Percent(r, spec) ==
  EffectiveMinChangePercent(spec.minChangePercent, spec.resources[r].minChangePercent)

LEMMA DesiredIsInt ==
  ASSUME NEW peaks, AllNat(peaks), NEW n \in Nat \ {0}, NEW req, AllInt(req), NEW r
  PROVE  DesiredQuantity(r, peaks, n, req) \in Int
<1>1. At(req, r, 0) \in Int BY DEF At, AllInt
<1>2. ASSUME At(peaks, r, 0) > 0 PROVE ToInt64(CeilDiv(6 * peaks[r], 5 * n)) \in Int
  <2>1. peaks[r] \in Nat BY <1>2 DEF At, AllNat
  <2>2. 6 * peaks[r] \in Int /\ 5 * n \in Nat \ {0} BY <2>1
  <2>3. CeilDiv(6 * peaks[r], 5 * n) \in Int BY <2>2, CeilDivTimes
  <2> QED BY <2>3, OutOfRangeAssumption, MaxInt64Assumption DEF ToInt64
<1> QED BY <1>1, <1>2 DEF DesiredQuantity

\* The plan for a resource is its target, or the request it has.
LEMMA PlanOf ==
  ASSUME NEW spec, ValidSpec(spec), NEW peaks, AllNat(peaks), NEW n \in Nat \ {0},
         NEW req, AllInt(req)
  PROVE  LET targets == ComputeTargets(peaks, n, req, spec.resources)
             planned == PlannedTargets(peaks, n, req, spec) IN
         /\ DOMAIN targets = DOMAIN spec.resources /\ DOMAIN planned = DOMAIN spec.resources
         /\ \A r \in DOMAIN spec.resources :
              /\ targets[r] \in Int
              /\ targets[r] = SettledQuantity(r, DesiredQuantity(r, peaks, n, req),
                                              spec.resources[r])
              /\ planned[r] = IF ExceedsMinChangeThreshold(At(req, r, 0), targets[r],
                                                           Percent(r, spec))
                                THEN targets[r] ELSE At(req, r, 0)
<1> DEFINE targets == ComputeTargets(peaks, n, req, spec.resources)
           planned == PlannedTargets(peaks, n, req, spec)
<1>1. DOMAIN spec.resources \cap ResourceMetrics = DOMAIN spec.resources
  BY DEF ValidSpec, ValidateResize
<1>2. DOMAIN targets = DOMAIN spec.resources BY <1>1 DEF ComputeTargets
<1>3. ASSUME NEW r \in DOMAIN spec.resources
      PROVE  /\ targets[r] \in Int
             /\ targets[r] = SettledQuantity(r, DesiredQuantity(r, peaks, n, req),
                                             spec.resources[r])
  <2>1. spec.resources[r] \in ResourceBounds /\ ValidBounds(spec.resources[r])
    BY DEF ValidSpec, ValidateResize
  <2>2. DesiredQuantity(r, peaks, n, req) \in Int BY DesiredIsInt
  <2>3. targets[r] = SettledQuantity(r, DesiredQuantity(r, peaks, n, req), spec.resources[r])
    BY <1>1, TargetOf
  <2> QED BY <2>1, <2>2, <2>3, SettledIdempotent
<1> HIDE DEF targets
<1>4. planned = [r \in DOMAIN targets |-> IF r \in Exceeding(req, targets, spec)
                                            THEN targets[r] ELSE At(req, r, 0)]
  BY DEF PlannedTargets, ApplyMinChangeThreshold, targets
<1> HIDE DEF planned
<1>5. \A r \in DOMAIN targets :
        r \in Exceeding(req, targets, spec)
          <=> ExceedsMinChangeThreshold(At(req, r, 0), targets[r], Percent(r, spec))
  BY DEF Exceeding, Percent
<1> QED BY <1>2, <1>3, <1>4, <1>5 DEF targets, planned

\* The demand is never divided by zero.
LEMMA NoPodsIsOne ==
  ASSUME NEW peaks, NEW req, NEW resources
  PROVE  ComputeTargets(peaks, 0, req, resources) = ComputeTargets(peaks, 1, req, resources)
BY DEF ComputeTargets

\* After a resize to these requests there is nothing left to do: what rounding
\* and clamping made of a peak, or of the request that stands in for it, they
\* make of it again.
LEMMA PlanSettles ==
  ASSUME NEW spec, ValidSpec(spec), NEW peaks, AllNat(peaks), NEW n \in Nat \ {0},
         NEW req, AllInt(req)
  PROVE  LET new == NewRequests(req, PlannedTargets(peaks, n, req, spec)) IN
         AllInt(new) /\ ~WorthResizing(peaks, n, new, spec)
<1> DEFINE t == PlannedTargets(peaks, n, req, spec)
           c == ComputeTargets(peaks, n, req, spec.resources)
           new == NewRequests(req, t)
           d == ComputeTargets(peaks, n, new, spec.resources)
<1>1. /\ DOMAIN c = DOMAIN spec.resources /\ DOMAIN t = DOMAIN spec.resources
      /\ \A r \in DOMAIN spec.resources :
           /\ c[r] \in Int
           /\ c[r] = SettledQuantity(r, DesiredQuantity(r, peaks, n, req), spec.resources[r])
           /\ t[r] = IF ExceedsMinChangeThreshold(At(req, r, 0), c[r], Percent(r, spec))
                       THEN c[r] ELSE At(req, r, 0)
  BY PlanOf
<1> HIDE DEF t, c
<1>2. /\ DOMAIN new = DOMAIN req \cup DOMAIN t
      /\ \A r \in DOMAIN new : new[r] = IF r \in DOMAIN t THEN t[r] ELSE req[r]
  BY DEF NewRequests
<1>3. \A r : At(req, r, 0) \in Int BY DEF At, AllInt
<1> HIDE DEF new
<1>4. AllInt(new) BY <1>1, <1>2, <1>3 DEF AllInt
<1>5. /\ DOMAIN d = DOMAIN spec.resources
      /\ \A r \in DOMAIN spec.resources :
           d[r] = SettledQuantity(r, DesiredQuantity(r, peaks, n, new), spec.resources[r])
  BY <1>4, PlanOf
<1> HIDE DEF d
<1>6. ASSUME NEW r \in DOMAIN spec.resources
      PROVE  ~ExceedsMinChangeThreshold(At(new, r, 0), d[r], Percent(r, spec))
  <2> DEFINE b == spec.resources[r]
             old == At(req, r, 0)
  <2>1. b \in ResourceBounds /\ ValidBounds(b) BY DEF ValidSpec, ValidateResize
  <2>2. At(new, r, 0) = t[r] BY <1>1, <1>2 DEF At
  <2>3. DesiredQuantity(r, peaks, n, req) \in Int BY DesiredIsInt
  <2>4. c[r] = SettledQuantity(r, DesiredQuantity(r, peaks, n, req), b)
        /\ d[r] = SettledQuantity(r, DesiredQuantity(r, peaks, n, new), b)
    BY <1>1, <1>5
  <2> HIDE DEF b
  <2>5. CASE t[r] = c[r]
    <3>1. d[r] = c[r]
      <4>1. CASE At(peaks, r, 0) > 0 BY <2>4, <4>1 DEF DesiredQuantity
      <4>2. CASE ~(At(peaks, r, 0) > 0)
        <5>1. d[r] = SettledQuantity(r, c[r], b)
          BY <2>2, <2>4, <2>5, <4>2 DEF DesiredQuantity
        <5> QED BY <2>1, <2>3, <2>4, <5>1, SettledIdempotent
      <4> QED BY <4>1, <4>2
    <3> QED BY <1>1, <2>2, <2>5, <3>1 DEF ExceedsMinChangeThreshold
  <2>6. CASE t[r] # c[r]
    <3>1. t[r] = old /\ ~ExceedsMinChangeThreshold(old, c[r], Percent(r, spec))
      BY <1>1, <2>6
    <3>2. DesiredQuantity(r, peaks, n, new) = DesiredQuantity(r, peaks, n, req)
      BY <2>2, <3>1 DEF DesiredQuantity
    <3> QED BY <2>2, <2>4, <3>1, <3>2
  <2> QED BY <2>5, <2>6
<1>7. Exceeding(new, d, spec) = {} BY <1>5, <1>6 DEF Exceeding, Percent
<1> QED BY <1>4, <1>7 DEF WorthResizing, d, new, t

\* A container that gets no plan has what it would be planned to have.
LEMMA UnplannedIsAsPlanned ==
  ASSUME NEW spec, ValidSpec(spec), NEW peaks, AllNat(peaks), NEW n \in Nat \ {0},
         NEW req, AllInt(req), ~WorthResizing(peaks, n, req, spec),
         NEW r \in DOMAIN spec.resources
  PROVE  At(req, r, 0) = PlannedTargets(peaks, n, req, spec)[r]
<1> DEFINE targets == ComputeTargets(peaks, n, req, spec.resources)
           planned == PlannedTargets(peaks, n, req, spec)
<1>1. /\ r \in DOMAIN targets /\ r \in DOMAIN planned /\ targets[r] \in Int
      /\ planned[r] = IF ExceedsMinChangeThreshold(At(req, r, 0), targets[r], Percent(r, spec))
                        THEN targets[r] ELSE At(req, r, 0)
  BY PlanOf
<1>2. Exceeding(req, targets, spec) = {} \/ ~TargetsChanged(req, planned)
  BY DEF WorthResizing
<1> HIDE DEF targets, planned
<1>3. CASE Exceeding(req, targets, spec) = {}
  BY <1>1, <1>3 DEF Exceeding, Percent, planned
<1>4. CASE ~TargetsChanged(req, planned)
  <2>1. At(req, r, None) = planned[r] BY <1>1, <1>4 DEF TargetsChanged
  <2>2. At(req, r, 0) \in Int BY DEF At, AllInt
  <2>3. planned[r] \in Int BY <1>1, <2>2
  <2>4. r \in DOMAIN req BY <2>1, <2>3, NoneAssumption DEF At
  <2> QED BY <2>1, <2>4 DEF At, planned
<1> QED BY <1>2, <1>3, <1>4

\* The headroom of a fifth absorbs a threshold of up to 20 percent: a request
\* that is kept is not a sixth below its target.
LEMMA KeptIsNear ==
  ASSUME NEW old \in Int, NEW target \in Nat, NEW percent \in 0 .. 20,
         ~ExceedsMinChangeThreshold(old, target, percent)
  PROVE  6 * old >= 5 * target
<1>1. CASE old = 0 BY <1>1 DEF ExceedsMinChangeThreshold
<1>2. CASE old = target BY <1>2
<1>3. CASE old # 0 /\ old # target
  <2> DEFINE gap == Distance(old, target)
  <2>1. gap \in Nat /\ (old < target => gap = target - old) BY DEF Distance
  <2>2. gap * 100 < percent * old BY <1>3, <2>1 DEF ExceedsMinChangeThreshold
  <2>3. percent * old <= 20 * old
    <3>1. old > 0
      <4>1. \A a \in 0 .. 20, b \in Int : b < 0 => a * b <= 0 OBVIOUS
      <4> QED BY <1>3, <2>1, <2>2, <4>1
    <3>2. \A a \in 0 .. 20, b \in Nat : a * b <= 20 * b OBVIOUS
    <3> QED BY <3>1, <3>2
  <2> HIDE DEF gap
  <2>4. percent * old \in Int OBVIOUS
  <2> QED BY <2>1, <2>2, <2>3, <2>4
<1> QED BY <1>1, <1>2, <1>3

\* A target is at least what is desired, or it is the upper bound.
LEMMA SettledReaches ==
  ASSUME NEW q \in Int, NEW b \in ResourceBounds, NEW r
  PROVE  LET s == SettledQuantity(r, q, b) IN
         s \in Int /\ (s >= q \/ (b.max # None /\ s = b.max))
<1> DEFINE c == ClampQuantity(q, b)
           m == NormalizeMemoryQuantity(c)
           s == ClampQuantity(m, b)
<1>1. c \in Int /\ (c >= q \/ (b.max # None /\ c = b.max))
  BY NoneAssumption DEF ClampQuantity, ResourceBounds
<1> HIDE DEF c
<1>2. m \in Int /\ m >= c BY <1>1, NormalizeNeverShrinks
<1> HIDE DEF m
<1>3. s \in Int /\ (s >= m \/ (b.max # None /\ s = b.max))
  BY <1>2, NoneAssumption DEF ClampQuantity, ResourceBounds
<1>4. b.max # None => b.max \in Int /\ s <= b.max
  BY <1>2, NoneAssumption DEF ClampQuantity, ResourceBounds
<1> HIDE DEF s
<1>5. s >= q \/ (b.max # None /\ s = b.max) BY <1>1, <1>2, <1>3, <1>4
<1> QED BY <1>1, <1>3, <1>5 DEF SettledQuantity, s, m, c

\* What n pods are planned to have covers the peak, as long as no threshold is
\* wider than the headroom and the share is an int64; if it does not, it is
\* within the headroom of the upper bound.
LEMMA PlanCoversPeak ==
  ASSUME NEW spec, ValidSpec(spec), NEW peaks, AllNat(peaks), NEW n \in Nat \ {0},
         NEW req, AllInt(req), NEW r \in DOMAIN spec.resources \cap DOMAIN peaks,
         peaks[r] > 0, Percent(r, spec) <= 20, CeilDiv(6 * peaks[r], 5 * n) <= MaxInt64
  PROVE  LET planned == PlannedTargets(peaks, n, req, spec)[r]
             max     == spec.resources[r].max IN
         max \in Nat \cup {None} =>
           planned * n >= peaks[r] \/ (max # None /\ 6 * planned >= 5 * max)
<1> DEFINE planned == PlannedTargets(peaks, n, req, spec)[r]
           target == ComputeTargets(peaks, n, req, spec.resources)[r]
           old == At(req, r, 0)
           desired == CeilDiv(6 * peaks[r], 5 * n)
           b == spec.resources[r]
           peak == peaks[r]
<1>1. peak \in Nat /\ peak > 0 BY DEF AllNat
<1>2. desired \in Int /\ desired * (5 * n) >= 6 * peak
  <2>1. 6 * peak \in Int /\ 5 * n \in Nat \ {0} BY <1>1
  <2> HIDE DEF peak
  <2>2. CeilDiv(6 * peak, 5 * n) \in Int /\ CeilDiv(6 * peak, 5 * n) * (5 * n) >= 6 * peak
    BY <2>1, CeilDivTimes
  <2> QED BY <2>2 DEF peak
<1>3. DesiredQuantity(r, peaks, n, req) = desired
  BY <1>1 DEF DesiredQuantity, At, ToInt64
<1>4. b \in ResourceBounds /\ Percent(r, spec) \in 0 .. 20
  BY DefaultPercentAssumption, NoneAssumption
  DEF ValidSpec, ValidateResize, ValidBounds, ValidPercent, Percent, EffectiveMinChangePercent
<1>5. /\ target = SettledQuantity(r, desired, b)
      /\ planned = IF ExceedsMinChangeThreshold(old, target, Percent(r, spec))
                     THEN target ELSE old
  BY <1>3, PlanOf
<1>6. old \in Int BY DEF At, AllInt
<1> HIDE DEF planned, target, old, desired, b, peak
<1>7. target \in Int /\ (target >= desired \/ (b.max # None /\ target = b.max))
  BY <1>2, <1>4, <1>5, SettledReaches
<1>8. desired > 0
  <2>1. \A k \in Int : k <= 0 => k * (5 * n) <= 0 OBVIOUS
  <2> QED BY <1>1, <1>2, <2>1
<1>9. SUFFICES ASSUME b.max \in Nat \cup {None}
              PROVE  planned * n >= peak \/ (b.max # None /\ 6 * planned >= 5 * b.max)
  BY DEF planned, b, peak
<1>10. target \in Nat BY <1>7, <1>8, <1>9, <1>2
<1>11. planned \in Int /\ 6 * planned >= 5 * target
  BY <1>4, <1>5, <1>6, <1>10, KeptIsNear
<1>12. ASSUME target >= desired PROVE planned * n >= peak
  <2>1. 6 * planned >= 5 * desired BY <1>2, <1>10, <1>11, <1>12
  <2>2. \A x, y \in Int : x >= y => x * n >= y * n OBVIOUS
  <2>3. (6 * planned) * n >= (5 * desired) * n BY <1>2, <1>11, <2>1, <2>2
  <2>4. (5 * desired) * n = desired * (5 * n) /\ (6 * planned) * n = 6 * (planned * n)
    BY <1>2, <1>11
  <2>5. planned * n \in Int BY <1>11
  <2> QED BY <1>1, <1>2, <2>3, <2>4, <2>5
<1> QED BY <1>7, <1>9, <1>11, <1>12
==============================================================================
