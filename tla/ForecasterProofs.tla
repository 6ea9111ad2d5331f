--------------------------- MODULE ForecasterProofs ---------------------------
(***************************************************************************)
(* Proofs about Forecaster: for any files, flags, series, quantile levels  *)
(* and lengths of a context, a batch and a horizon, the newest samples     *)
(* reach the model, no scale is zero, and each value of a quantile is read *)
(* from the cell of its step and of the nearest level.                     *)
(***************************************************************************)
EXTENDS Forecaster, SequenceTheorems, WellFoundedInduction, FiniteSetTheorems, TLAPS

-------------------------------------------------------------------------------
(* Rows and columns, and places of a sorted series *)

LEMMA RowAndColumn ==
  ASSUME NEW columns \in Nat \ {0}, NEW rows \in Nat,
         NEW row \in 0 .. rows - 1, NEW column \in 0 .. columns - 1
  PROVE  /\ Offset(row, columns, column) \in 0 .. rows * columns - 1
         /\ Offset(row, columns, column) % columns = column
         /\ Offset(row, columns, column) \div columns = row
<1> DEFINE o == row * columns + column
<1>1. Offset(row, columns, column) = o BY DEF Offset
<1>2. row * columns \in Nat /\ row * columns + columns <= rows * columns
  <2>1. \A a, b, c \in Nat : a <= b => a * c <= b * c OBVIOUS
  <2>2. (row + 1) * columns <= rows * columns BY <2>1
  <2> QED BY <2>2
<1>3. o \in 0 .. rows * columns - 1 BY <1>2
<1>4. o \div columns = row /\ o % columns = column
  <2>1. \A q \in Int : columns * q <= o /\ o < columns * (q + 1) => q = o \div columns
    BY <1>3
  <2>2. columns * row <= o /\ o < columns * (row + 1) BY <1>2
  <2>3. o \div columns = row BY <2>1, <2>2
  <2>4. o = columns * (o \div columns) + (o % columns) BY <1>3
  <2> QED BY <2>3, <2>4
<1> QED BY <1>1, <1>3, <1>4

\* A set of natural numbers has a smallest element.
LEMMA LeastElement ==
  ASSUME NEW S \in SUBSET Nat, S # {}
  PROVE  \E x \in S : \A y \in S : x <= y
<1> DEFINE Less == {pair \in Nat \X Nat : pair[1] < pair[2]}
<1>1. IsWellFoundedOn(Less, Nat) BY NatLessThanWellFounded, Zenon DEF OpToRel
<1>2. \A y, x \in Nat : <<y, x>> \notin Less => x <= y OBVIOUS
<1> HIDE DEF Less
<1>3. PICK x \in S : \A y \in S : <<y, x>> \notin Less BY <1>1, WFMin, Zenon
<1> QED BY <1>2, <1>3

LEMMA SubsetOfInterval ==
  ASSUME NEW n \in Nat, NEW S \in SUBSET (1 .. n)
  PROVE  /\ Cardinality(S) \in 0 .. n
         /\ S # {} => Cardinality(S) > 0
         /\ S = 1 .. n => Cardinality(S) = n
         /\ \A U \in SUBSET S : U # S => Cardinality(U) < Cardinality(S)
<1>1. IsFiniteSet(1 .. n) /\ Cardinality(1 .. n) = n BY FS_Interval
<1>2. IsFiniteSet(S) /\ Cardinality(S) <= n BY <1>1, FS_Subset
<1>3. Cardinality(S) \in Nat BY <1>2, FS_CardinalityType
<1>4. S # {} => Cardinality(S) # 0 BY <1>2, FS_EmptySet
<1>5. ASSUME NEW U \in SUBSET S, U # S PROVE Cardinality(U) < Cardinality(S)
  <2>1. /\ IsFiniteSet(U) /\ Cardinality(U) <= Cardinality(S)
        /\ Cardinality(U) # Cardinality(S)
    BY <1>2, <1>5, FS_Subset
  <2>2. Cardinality(U) \in Nat BY <2>1, FS_CardinalityType
  <2> QED BY <1>3, <2>1, <2>2
<1> QED BY <1>1, <1>2, <1>3, <1>4, <1>5

\* What a place of a sorted series holds is one of its values: of the values
\* that are not above enough places, the one that is not above the fewest.
LEMMA InPlaceIsValue ==
  ASSUME NEW n \in Nat, NEW v \in [1 .. n -> Int], NEW place \in 1 .. n
  PROVE  \E i \in 1 .. n : InPlace(v, place) = v[i]
<1> DEFINE Below(x) == {i \in 1 .. n : v[i] < x}
           UpTo(x)  == {i \in 1 .. n : v[i] <= x}
           rank     == [i \in 1 .. n |-> Cardinality(UpTo(v[i]))]
<1>1. \A i \in 1 .. n : v[i] \in Int /\ rank[i] = Cardinality(UpTo(v[i])) /\ rank[i] \in 0 .. n
  <2>1. \A i \in 1 .. n : Cardinality(UpTo(v[i])) \in 0 .. n
    <3> SUFFICES ASSUME NEW i \in 1 .. n PROVE Cardinality(UpTo(v[i])) \in 0 .. n OBVIOUS
    <3>1. UpTo(v[i]) \in SUBSET (1 .. n) OBVIOUS
    <3> HIDE DEF UpTo
    <3> QED BY <3>1, SubsetOfInterval
  <2> QED BY <2>1
<1>2. \A i \in 1 .. n : v[i] \in Int /\ rank[i] \in 0 .. n BY <1>1
<1> HIDE DEF rank
<1>3. \A i, j \in 1 .. n : v[i] < v[j] => rank[i] < rank[j]
  <2> SUFFICES ASSUME NEW i \in 1 .. n, NEW j \in 1 .. n, v[i] < v[j] PROVE rank[i] < rank[j]
    OBVIOUS
  <2>1. UpTo(v[i]) \subseteq UpTo(v[j]) /\ j \in UpTo(v[j]) /\ j \notin UpTo(v[i]) BY <1>1
  <2>2. UpTo(v[j]) \in SUBSET (1 .. n) OBVIOUS
  <2> HIDE DEF UpTo
  <2>3. UpTo(v[i]) \in SUBSET UpTo(v[j]) /\ UpTo(v[i]) # UpTo(v[j]) BY <2>1
  <2>4. Cardinality(UpTo(v[i])) < Cardinality(UpTo(v[j])) BY <2>2, <2>3, SubsetOfInterval
  <2> QED BY <1>1, <2>4
<1>4. ASSUME NEW S \in SUBSET (1 .. n), S # {}
      PROVE  \E i \in S : \A j \in S : v[j] <= v[i]
  <2> DEFINE above == {n - rank[i] : i \in S}
  <2>1. above \in SUBSET Nat /\ above # {}
    <3>1. \A i \in S : n - rank[i] \in Nat BY <1>2
    <3> QED BY <1>4, <3>1
  <2>2. PICK i \in S : \A j \in S : n - rank[i] <= n - rank[j]
    <3> HIDE DEF above
    <3>1. PICK least \in above : \A a \in above : least <= a BY <2>1, LeastElement
    <3> USE DEF above
    <3> QED BY <3>1
  <2>3. \A j \in S : ~(v[i] < v[j]) BY <1>2, <1>3, <2>2
  <2> QED BY <1>2, <2>3
<1>5. PICK top \in 1 .. n : rank[top] = n
  <2>1. PICK i \in 1 .. n : \A j \in 1 .. n : v[j] <= v[i] BY <1>4
  <2>2. UpTo(v[i]) = 1 .. n BY <2>1
  <2> HIDE DEF UpTo
  <2> QED BY <1>1, <2>2, SubsetOfInterval
<1>6. PICK i \in 1 .. n :
        place <= rank[i] /\ \A j \in 1 .. n : place <= rank[j] => rank[i] <= rank[j]
  <2> DEFINE high  == {k \in 1 .. n : place <= rank[k]}
             ranks == {rank[k] : k \in high}
  <2>1. ranks \in SUBSET Nat /\ ranks # {}
    <3>1. top \in high BY <1>5
    <3>2. \A k \in high : rank[k] \in Nat BY <1>2
    <3> QED BY <3>1, <3>2
  <2> HIDE DEF ranks
  <2>2. PICK low \in ranks : \A r \in ranks : low <= r BY <2>1, LeastElement
  <2> USE DEF ranks
  <2> QED BY <2>2
<1>7. Cardinality(Below(v[i])) \in Nat /\ Cardinality(Below(v[i])) < place
  <2>1. Below(v[i]) \in SUBSET (1 .. n) OBVIOUS
  <2>2. ASSUME Below(v[i]) # {} PROVE Cardinality(Below(v[i])) < place
    <3>1. PICK j \in Below(v[i]) : \A k \in Below(v[i]) : v[k] <= v[j] BY <1>4, <2>2
    <3>2. j \in 1 .. n /\ v[j] < v[i] BY <3>1
    <3>3. UpTo(v[j]) = Below(v[i]) BY <1>1, <3>1, <3>2
    <3>4. rank[j] = Cardinality(Below(v[i])) BY <1>1, <3>2, <3>3
    <3>5. rank[j] < rank[i] BY <1>3, <3>2
    <3>6. rank[j] < place BY <1>2, <1>6, <3>2, <3>5
    <3> QED BY <3>4, <3>6
  <2>3. Below(v[i]) = {} => Cardinality(Below(v[i])) = 0 BY FS_EmptySet
  <2> HIDE DEF Below
  <2> QED BY <2>1, <2>2, <2>3, SubsetOfInterval
<1>8. InPlace(v, place) \in {v[k] : k \in DOMAIN v}
  <2>1. v[i] \in {v[k] : k \in DOMAIN v} OBVIOUS
  <2>2. Cardinality({k \in DOMAIN v : v[k] < v[i]}) < place BY <1>7
  <2>3. place <= Cardinality({k \in DOMAIN v : v[k] <= v[i]}) BY <1>1, <1>6
  <2> QED BY <2>1, <2>2, <2>3 DEF InPlace
<1> QED BY <1>8

-------------------------------------------------------------------------------
(* Type correctness *)

LEMMA LoadedModels ==
  ASSUME NEW flags \in Flags, LoadModel(flags) # Error
  PROVE  /\ LoadModel(flags).family \in Families /\ LoadModel(flags).maxContext \in Nat \ {0}
         /\ LoadModel(flags).file = flags.file /\ flags.file # Error
<1> DEFINE config == ConfigFromForecast(flags)
<1>1. config # Error /\ NewFromConfig(config) # Error /\ LoadModel(flags) = NewFromConfig(config)
  BY DEF LoadModel
<1>2. /\ config.maxContext = flags.maxContext /\ ~(flags.maxContext <= 0)
      /\ config.file = flags.file /\ flags.file # Error
  BY <1>1 DEF ConfigFromForecast
<1> HIDE DEF config
<1>3. config.family \in Families
  BY <1>1 DEF NewFromConfig
<1>4. /\ NewFromConfig(config).family = config.family
      /\ NewFromConfig(config).maxContext = config.maxContext
      /\ NewFromConfig(config).file = config.file
  BY <1>1 DEF NewFromConfig, NewTimesFM, NewChronos2
<1>5. flags.maxContext \in Int BY FlagsAssumption
<1> QED BY <1>1, <1>2, <1>3, <1>4, <1>5

\* Every request is made to a loaded model, and every run of a session is
\* made for a series that is not empty.
THEOREM TypeCorrect == Spec => []TypeOK
<1>1. Init => TypeOK BY DEF Init, NoWork, TypeOK
<1>2. TypeOK /\ [Next]_vars => TypeOK'
  <2> SUFFICES ASSUME TypeOK, [Next]_vars PROVE TypeOK' OBVIOUS
  <2>1. CASE Start
    <3>1. stage = "idle" BY <2>1 DEF Start, TypeOK
    <3>2. PICK flags \in Flags :
            \/ process' \in {"serving", "stopped"} /\ model' = None
            \/ /\ process' = "serving" /\ model' = LoadModel(flags)
               /\ LoadModel(flags) # Error
      BY <2>1 DEF Start
    <3>3. model' # None => process' = "serving" /\ model'.family \in Families
                             /\ model'.maxContext \in Nat \ {0}
      BY <3>2, LoadedModels
    <3> QED BY <2>1, <3>1, <3>2, <3>3 DEF Start, work, TypeOK
  <2>2. CASE Stop BY <2>2 DEF Stop, work, TypeOK
  <2>3. CASE Restart BY <2>3 DEF Restart, work, TypeOK
  <2>4. CASE Ask
    <3>1. request'.values \in Series /\ request'.horizon \in Nat \ {0}
      BY <2>4, DefaultsAssumption, HorizonsAssumption DEF Ask
    <3> QED BY <2>4, <3>1 DEF Ask, TypeOK
  <2>5. CASE Refuse BY <2>5 DEF Refuse, Answer, TypeOK
  <2>6. CASE Prepare BY <2>6 DEF Prepare, Valid, TypeOK
  <2>7. CASE Run
    <3>1. DOMAIN output' = Elements(model.file.outputs) BY <2>7 DEF Run, Predictions
    <3> QED BY <2>7, <3>1 DEF Run, TypeOK
  <2>8. CASE RunFails BY <2>8 DEF RunFails, Answer, TypeOK
  <2>9. CASE Read BY <2>9 DEF Read, Answer, TypeOK
  <2>10. CASE Return BY <2>10 DEF Return, TypeOK
  <2>11. CASE UNCHANGED vars BY <2>11 DEF vars, work, TypeOK
  <2> QED BY <2>1, <2>2, <2>3, <2>4, <2>5, <2>6, <2>7, <2>8, <2>9, <2>10, <2>11 DEF Next
<1> QED BY <1>1, <1>2, PTL DEF Spec

-------------------------------------------------------------------------------
(* What reaches the model *)

LEMMA NewestSamples ==
  ASSUME NEW values \in Seq(Int), NEW n \in Nat \ {0}
  PROVE  LET last == LastSamples(values, n) IN
         /\ last \in Seq(Int) /\ Len(last) = AtMost(Len(values), n)
         /\ values # << >> => Len(last) > 0
         /\ \A i \in 0 .. Len(last) - 1 : last[Len(last) - i] = values[Len(values) - i]
<1> DEFINE len == Len(values)
           k   == AtMost(len, n)
           m   == len - k + 1
<1>1. /\ len \in Nat /\ k \in 0 .. len /\ (values # << >> => k > 0)
      /\ \A i \in 1 .. len : values[i] \in Int
  BY DEF AtMost
<1>2. LastSamples(values, n) = SubSeq(values, m, len) BY DEF LastSamples
<1> HIDE DEF len, k
<1>3. \A i \in m .. len : values[i] \in Int BY <1>1
<1>4. m \in Int /\ len \in Int /\ len - m + 1 = k /\ (m <= len \/ k = 0) BY <1>1
<1> HIDE DEF m
<1>5. /\ SubSeq(values, m, len) \in Seq(Int) /\ Len(SubSeq(values, m, len)) = k
      /\ \A i \in 1 .. len - m + 1 : SubSeq(values, m, len)[i] = values[m + i - 1]
  BY <1>3, <1>4, SubSeqProperties
<1>6. \A i \in 0 .. k - 1 : SubSeq(values, m, len)[k - i] = values[len - i]
  <2> SUFFICES ASSUME NEW i \in 0 .. k - 1
               PROVE  SubSeq(values, m, len)[k - i] = values[len - i]
    OBVIOUS
  <2>1. k - i \in 1 .. len - m + 1 /\ m + (k - i) - 1 = len - i BY <1>1, <1>4
  <2> QED BY <1>5, <2>1
<1> QED BY <1>1, <1>2, <1>5, <1>6 DEF len, k

\* No series makes the scale zero: its absolute values are not negative, nor is
\* their median.
LEMMA PositiveScale ==
  ASSUME NEW tail \in Seq(Int), tail # << >>
  PROVE  ChronosScale(tail) > 0
<1> DEFINE n   == Len(tail)
           abs == [i \in DOMAIN tail |-> Abs(tail[i])]
           mid == n \div 2 + 1
<1>1. n \in Nat \ {0} /\ DOMAIN tail = 1 .. n /\ \A i \in 1 .. n : tail[i] \in Int OBVIOUS
<1>2. abs \in [1 .. n -> Int] /\ \A i \in 1 .. n : abs[i] \in Nat BY <1>1 DEF Abs
<1>3. mid \in 1 .. n /\ (n % 2 = 0 => mid - 1 \in 1 .. n) BY <1>1
<1> HIDE DEF abs, mid, n
<1>4. \A place \in 1 .. n : InPlace(abs, place) \in Nat
  <2> SUFFICES ASSUME NEW place \in 1 .. n PROVE InPlace(abs, place) \in Nat OBVIOUS
  <2>1. PICK i \in 1 .. n : InPlace(abs, place) = abs[i] BY <1>1, <1>2, InPlaceIsValue
  <2> QED BY <1>2, <2>1
<1>5. MedianAbsScale(tail) \in Nat
  <2>1. MedianAbsScale(tail) =
          IF n % 2 = 0 THEN InPlace(abs, mid - 1) + InPlace(abs, mid)
                       ELSE 2 * InPlace(abs, mid)
    BY DEF MedianAbsScale, abs, mid, n
  <2> QED BY <1>3, <1>4, <2>1
<1> QED BY <1>5 DEF ChronosScale, NoScale

HasAnswer == stage = "answered" /\ response # Error

\* What holds of a request on its way: its tensors are those of its series, the
\* output is that of the model's file, and the answer was read from it.
OnItsWay ==
  /\ model # None => \E flags \in Flags : flags.file \notin {None, Error} /\ model.file = flags.file
  /\ stage # "idle" => request.quantiles = {90, 99}
  /\ stage \in {"prepared", "ran"} \/ HasAnswer =>
       input = IF model.family = "timesfm" THEN TimesFMInput ELSE ChronosInput
  /\ stage = "ran" \/ HasAnswer => output = Predictions(model.file)
  /\ HasAnswer =>
       IF model.family = "timesfm" THEN response = TimesFMAnswer
       ELSE response = ChronosAnswer /\ "quantile_preds" \in DOMAIN output

LEMMA OnItsWayInvariant == Spec => [](TypeOK /\ OnItsWay)
<1>1. Init => OnItsWay BY DEF Init, NoWork, OnItsWay, HasAnswer
<1>2. TypeOK /\ OnItsWay /\ [Next]_vars => OnItsWay'
  <2> SUFFICES ASSUME TypeOK, OnItsWay, [Next]_vars PROVE OnItsWay' OBVIOUS
  <2>0. ASSUME UNCHANGED <<model, request, input, output>>
        PROVE  /\ UNCHANGED <<TimesFMInput, ChronosInput, TimesFMAnswer, ChronosAnswer>>
               /\ Predictions(model.file)' = Predictions(model.file)
    BY <2>0 DEF TimesFMInput, ChronosInput, TimesFMAnswer, ChronosAnswer, Predictions,
       QuantilePreds, FullPredictions, MeanPredictions
  <2>1. CASE Start
    <3>1. stage = "idle" BY <2>1 DEF Start, TypeOK
    <3>2. model' # None =>
            \E flags \in Flags : flags.file \notin {None, Error} /\ model'.file = flags.file
      BY <2>1, LoadedModels DEF Start
    <3> QED BY <2>1, <3>1, <3>2 DEF Start, work, OnItsWay, HasAnswer
  <2>2. CASE Stop BY <2>2 DEF Stop, work, OnItsWay, HasAnswer
  <2>3. CASE Restart BY <2>0, <2>3 DEF Restart, work, OnItsWay, HasAnswer
  <2>4. CASE Ask BY <2>4 DEF Ask, OnItsWay, HasAnswer
  <2>5. CASE Refuse BY <2>5 DEF Refuse, Answer, OnItsWay, HasAnswer
  <2>6. CASE Prepare
    <3>1. UNCHANGED <<TimesFMInput, ChronosInput>>
      BY <2>6 DEF Prepare, TimesFMInput, ChronosInput
    <3> QED BY <2>6, <3>1 DEF Prepare, OnItsWay, HasAnswer
  <2>7. CASE Run
    <3>1. UNCHANGED <<TimesFMInput, ChronosInput>> /\ Predictions(model.file)' = Predictions(model.file)
      BY <2>7 DEF Run, TimesFMInput, ChronosInput, Predictions, QuantilePreds, FullPredictions,
         MeanPredictions
    <3> QED BY <2>7, <3>1 DEF Run, OnItsWay, HasAnswer
  <2>8. CASE RunFails BY <2>8 DEF RunFails, Answer, OnItsWay, HasAnswer
  <2>9. CASE Read BY <2>0, <2>9 DEF Read, Answer, OnItsWay, HasAnswer
  <2>10. CASE Return BY <2>10 DEF Return, OnItsWay, HasAnswer
  <2>11. CASE UNCHANGED vars BY <2>0, <2>11 DEF vars, work, OnItsWay, HasAnswer
  <2> QED BY <2>1, <2>2, <2>3, <2>4, <2>5, <2>6, <2>7, <2>8, <2>9, <2>10, <2>11 DEF Next
<1> QED BY <1>1, <1>2, TypeCorrect, PTL DEF Spec

LEMMA ChronosTensors ==
  LET tail   == LastSamples(request.values, ChronosContextLen)
      offset == ChronosContextLen - Len(tail)
      places == 0 .. ChronosContextLen - 1
  IN  /\ ChronosInput.context =
           [i \in places |->
              [sample |-> IF i < offset THEN 0 ELSE tail[i - offset + 1],
               scale  |-> ChronosScale(tail)]]
      /\ ChronosInput.attention_mask = [i \in places |-> IF i < offset THEN 0 ELSE 1]
<1> DEFINE prepared == PrepareChronosInputs(request.values)
<1>1. /\ ChronosInput.context = prepared.context
      /\ ChronosInput.attention_mask = prepared.attentionMask
  BY DEF ChronosInput
<1> QED BY <1>1 DEF PrepareChronosInputs

\* The newest samples of a series, in their order, are what the model works on,
\* whatever the lengths of the series, the context and the batch.
THEOREM NewestReachModel == Spec => []ModelSeesNewest
<1>1. TypeOK /\ OnItsWay => ModelSeesNewest
  <2> SUFFICES ASSUME TypeOK, OnItsWay, stage \in {"prepared", "ran"} PROVE ModelSeesNewest
    BY DEF ModelSeesNewest
  <2> DEFINE values == request.values
             size   == model.maxContext
             length == AtMost(Len(values), size)
             row    == LastSamples(values, size)
             tail   == LastSamples(values, ChronosContextLen)
  <2>1. values \in Seq(Int) /\ values # << >> /\ size \in Nat \ {0}
    BY SeriesAssumption DEF TypeOK
  <2>2. CASE model.family = "timesfm"
    <3>1. /\ Len(row) = length /\ length \in Nat \ {0}
          /\ \A i \in 0 .. length - 1 : row[length - i] = values[Len(values) - i]
      <4> HIDE DEF values, size
      <4>1. /\ row \in Seq(Int) /\ Len(row) = length /\ Len(row) > 0
            /\ \A i \in 0 .. Len(row) - 1 : row[Len(row) - i] = values[Len(values) - i]
        BY <2>1, NewestSamples
      <4> QED BY <4>1
    <3>2. input = [n \in {model.inputName} |-> PrepareBatchInput(values, size, BatchSize)]
      BY <2>2 DEF OnItsWay, TimesFMInput
    <3> HIDE DEF row, length, values, size
    <3>3. PrepareBatchInput(values, size, BatchSize) =
            [o \in 0 .. BatchSize * length - 1 |-> row[(o % length) + 1]]
      BY <2>1, <3>1 DEF PrepareBatchInput, PrepareContext, row
    <3>4. ASSUME NEW b \in 1 .. BatchSize, NEW i \in 0 .. length - 1
          PROVE  input[model.inputName][b * length - 1 - i] = Context(i)
      <4>1. /\ b - 1 \in 0 .. BatchSize - 1 /\ length - 1 - i \in 0 .. length - 1
            /\ BatchSize \in Nat /\ length - i = (length - 1 - i) + 1
        BY <3>1, DefaultsAssumption
      <4>2. Offset(b - 1, length, length - 1 - i) = b * length - 1 - i BY <3>1 DEF Offset
      <4>3. /\ b * length - 1 - i \in 0 .. BatchSize * length - 1
            /\ (b * length - 1 - i) % length = length - 1 - i
        <5>1. /\ Offset(b - 1, length, length - 1 - i) \in 0 .. BatchSize * length - 1
              /\ Offset(b - 1, length, length - 1 - i) % length = length - 1 - i
          <6> DEFINE r == b - 1  c == length - 1 - i
          <6>0. BatchSize \in Nat /\ length \in Nat \ {0} BY <3>1, DefaultsAssumption
          <6>1. r \in 0 .. BatchSize - 1 /\ c \in 0 .. length - 1 BY <4>1
          <6> HIDE DEF r, c
          <6>2. /\ Offset(r, length, c) \in 0 .. BatchSize * length - 1
                /\ Offset(r, length, c) % length = c
            BY <6>0, <6>1, RowAndColumn
          <6> QED BY <6>2 DEF r, c
        <5> QED BY <4>2, <5>1
      <4>4. input[model.inputName][b * length - 1 - i] = row[length - i]
        BY <3>2, <3>3, <4>1, <4>3
      <4> QED BY <3>1, <4>4 DEF Context, values
    <3>5. DOMAIN input[model.inputName] = 0 .. BatchSize * length - 1 BY <3>2, <3>3
    <3> QED BY <2>2, <3>4, <3>5 DEF ModelSeesNewest, length, values, size
  <2>3. CASE model.family # "timesfm"
    <3>1. /\ Len(tail) = AtMost(Len(values), ChronosContextLen)
          /\ \A i \in 0 .. Len(tail) - 1 : tail[Len(tail) - i] = Context(i)
      BY <2>1, NewestSamples, ChronosLensAssumption DEF Context
    <3>2. /\ Len(tail) \in 0 .. ChronosContextLen
          /\ \A i \in 0 .. ChronosContextLen - 1 : i < Len(values) <=> i < Len(tail)
      BY <2>1, <3>1, ChronosLensAssumption DEF AtMost
    <3> DEFINE places == 0 .. ChronosContextLen - 1
               offset == ChronosContextLen - Len(tail)
    <3> HIDE DEF tail, values
    <3>3. /\ input.context = [i \in places |->
                [sample |-> IF i < offset THEN 0 ELSE tail[i - offset + 1],
                 scale  |-> ChronosScale(tail)]]
          /\ input.attention_mask = [i \in places |-> IF i < offset THEN 0 ELSE 1]
      BY <2>3, ChronosTensors DEF OnItsWay, tail, values
    <3>4. ASSUME NEW i \in places
          PROVE  LET place == ChronosContextLen - 1 - i IN
                   IF i < Len(values)
                     THEN /\ input.attention_mask[place] = 1
                          /\ input.context[place].sample = Context(i)
                     ELSE input.attention_mask[place] = 0
      <4> DEFINE place == ChronosContextLen - 1 - i
      <4>1. /\ place \in places /\ (place < offset <=> ~(i < Len(values)))
            /\ place - offset + 1 = Len(tail) - i
        BY <3>2, ChronosLensAssumption
      <4>2. i < Len(values) => i \in 0 .. Len(tail) - 1 BY <3>2, ChronosLensAssumption
      <4> HIDE DEF place, offset, places
      <4> QED BY <3>1, <3>3, <4>1, <4>2 DEF place
    <3> QED BY <2>3, <3>4 DEF ModelSeesNewest, values
  <2> QED BY <2>2, <2>3
<1> QED BY <1>1, OnItsWayInvariant, PTL

\* No series, of an idle workload or of a busy one, is divided by zero.
THEOREM ScalesArePositive == Spec => []ScaleIsPositive
<1>1. TypeOK /\ OnItsWay => ScaleIsPositive
  <2> SUFFICES ASSUME TypeOK, OnItsWay, stage \in {"prepared", "ran"},
                      model.family = "chronos2", NEW i \in DOMAIN input.context
               PROVE  input.context[i].scale > 0
    BY DEF ScaleIsPositive
  <2> DEFINE tail == LastSamples(request.values, ChronosContextLen)
  <2>1. request.values \in Seq(Int) /\ request.values # << >> BY SeriesAssumption DEF TypeOK
  <2>2. tail \in Seq(Int) /\ tail # << >>
    BY <2>1, NewestSamples, ChronosLensAssumption
  <2>3. input = ChronosInput BY DEF OnItsWay
  <2>4. input.context[i].scale = ChronosScale(tail)
    <3> HIDE DEF tail
    <3>1. /\ DOMAIN ChronosInput.context = 0 .. ChronosContextLen - 1
          /\ \A j \in 0 .. ChronosContextLen - 1 :
               ChronosInput.context[j].scale = ChronosScale(tail)
      BY ChronosTensors DEF tail
    <3> QED BY <2>3, <3>1
  <2> QED BY <2>2, <2>4, PositiveScale
<1> QED BY <1>1, OnItsWayInvariant, PTL

-------------------------------------------------------------------------------
(* What is read from the output *)

\* The place that is found holds the level that is nearest.
LEMMA NearestPlace ==
  ASSUME NEW q \in Int
  PROVE  /\ ChronosQuantileIndex(q) \in 0 .. Len(ChronosQuantileLevels) - 1
         /\ ChronosQuantileLevels[ChronosQuantileIndex(q) + 1] =
              Nearest(Elements(ChronosQuantileLevels), q)
<1> DEFINE n == Len(ChronosQuantileLevels)
           places == 1 .. n
           level(i) == ChronosQuantileLevels[i]
           distance == [i \in places |-> Abs(level(i) - q)]
           found(i) == \A j \in places :
             distance[i] < distance[j] \/ (distance[i] = distance[j] /\ i <= j)
<1>1. /\ n \in Nat \ {0} /\ \A i \in places : level(i) \in Int
      /\ \A i, j \in places : i < j => level(i) < level(j)
  <2>1. ChronosQuantileLevels \in Seq(1 .. 99) /\ ChronosQuantileLevels # << >>
    BY ChronosLevelsAssumption
  <2>2. n \in Nat /\ n # 0 BY <2>1, EmptySeq
  <2>3. \A i \in places : level(i) \in 1 .. 99 BY <2>1, ElementOfSeq
  <2>4. \A i, j \in places : i < j => level(i) < level(j) BY ChronosLevelsAssumption
  <2> HIDE DEF n
  <2> QED BY <2>2, <2>3, <2>4
<1>2. \A i \in places : distance[i] \in Nat /\ distance[i] = Abs(level(i) - q)
  BY <1>1 DEF Abs
<1> HIDE DEF n, distance
<1>3. \E i \in places : found(i)
  <2> DEFINE distances == {distance[i] : i \in places}
  <2>1. distances \in SUBSET Nat /\ distances # {} BY <1>1, <1>2
  <2> HIDE DEF distances
  <2>2. PICK d \in distances : \A e \in distances : d <= e BY <2>1, LeastElement
  <2> USE DEF distances
  <2> DEFINE closest == {i \in places : distance[i] = d}
  <2>3. closest \in SUBSET Nat /\ closest # {} BY <1>1, <2>2
  <2> HIDE DEF closest
  <2>4. PICK i \in closest : \A j \in closest : i <= j BY <2>3, LeastElement
  <2> USE DEF closest
  <2>5. i \in places /\ found(i) BY <1>2, <2>2, <2>4
  <2> QED BY <2>5
<1> DEFINE c == CHOOSE i \in places : found(i)
<1>4. c \in places /\ found(c) BY <1>3
<1>5. ChronosQuantileIndex(q) = c - 1
  BY <1>2 DEF ChronosQuantileIndex, n, distance
<1> HIDE DEF c
<1> DEFINE nearest(l) == \A other \in Elements(ChronosQuantileLevels) :
             \/ Abs(l - q) < Abs(other - q)
             \/ Abs(l - q) = Abs(other - q) /\ l <= other
<1>6. Elements(ChronosQuantileLevels) = {level(i) : i \in places}
  BY ChronosLevelsAssumption DEF Elements, n
<1>7. level(c) \in Elements(ChronosQuantileLevels) /\ nearest(level(c))
  <2>1. ASSUME NEW j \in places
        PROVE  \/ Abs(level(c) - q) < Abs(level(j) - q)
               \/ Abs(level(c) - q) = Abs(level(j) - q) /\ level(c) <= level(j)
    <3>1. distance[c] < distance[j] \/ (distance[c] = distance[j] /\ c <= j) BY <1>4
    <3>2. c <= j => level(c) <= level(j) BY <1>1, <1>4
    <3> QED BY <1>2, <1>4, <3>1, <3>2
  <2> QED BY <1>4, <1>6, <2>1
<1>8. \A l \in Elements(ChronosQuantileLevels) : nearest(l) => l = level(c)
  BY <1>1, <1>4, <1>6, <1>7 DEF Abs
<1>9. Nearest(Elements(ChronosQuantileLevels), q) = level(c) BY <1>7, <1>8 DEF Nearest
<1> QED BY <1>1, <1>4, <1>5, <1>9 DEF n

\* What is asked of TimesFM beyond its highest level is read at that level.
LEMMA NearestOfTimesFM ==
  ASSUME NEW q \in {90, 99}
  PROVE  QuantileIndex(q) = 9 /\ Nearest(Elements(TimesFMLevels) \ {0}, q) = 90
<1>1. QuantileIndex(q) = 9
  <2> DEFINE is(i) == (i = 9 \/ q <= 10 * i + 5) /\ (i = 1 \/ q > 10 * i - 5)
  <2>1. is(9) /\ \A i \in 1 .. 9 : is(i) => i = 9 OBVIOUS
  <2> QED BY <2>1 DEF QuantileIndex
<1>2. Elements(TimesFMLevels) \ {0} = {10, 20, 30, 40, 50, 60, 70, 80, 90}
  <2>1. DOMAIN TimesFMLevels = 1 .. 10 BY DEF TimesFMLevels
  <2>2. \A l : l \in Elements(TimesFMLevels) <=> l \in {10 * i : i \in 0 .. 9}
    BY <2>1 DEF Elements, TimesFMLevels
  <2> QED BY <2>2
<1> DEFINE levels == {10, 20, 30, 40, 50, 60, 70, 80, 90}
           nearest(l) == \A other \in levels :
             Abs(l - q) < Abs(other - q) \/ (Abs(l - q) = Abs(other - q) /\ l <= other)
<1>3. nearest(90) /\ \A l \in levels : nearest(l) => l = 90 BY DEF Abs
<1>4. Nearest(levels, q) = 90 BY <1>3 DEF Nearest
<1> QED BY <1>1, <1>2, <1>4

\* Every value of a quantile was predicted for its step and for the level that
\* is nearest to the one asked for, and is scaled as its context was.
THEOREM QuantilesReadWell == Spec => []QuantilesAreRead
<1>1. TypeOK /\ OnItsWay => QuantilesAreRead
  <2> SUFFICES ASSUME TypeOK, OnItsWay, HasAnswer,
                      NEW q \in DOMAIN response.quantiles,
                      NEW s \in DOMAIN response.quantiles[q]
               PROVE  LET value == response.quantiles[q][s] IN
                        /\ value.cell = [quantile |-> Nearest(Offered, q), step |-> s]
                        /\ model.family = "chronos2" =>
                             \A i \in DOMAIN input.context : value.scale = input.context[i].scale
    BY DEF QuantilesAreRead, HasAnswer
  <2> DEFINE value == response.quantiles[q][s]
  <2>1. /\ request.quantiles = {90, 99} /\ request.horizon \in Nat \ {0}
        /\ output = Predictions(model.file) /\ DOMAIN output = Elements(model.file.outputs)
        /\ \A i \in DOMAIN model.file.outputs :
             /\ model.file.outputs[i] = "quantile_preds" => model.file.contents = "chronos2"
             /\ model.file.outputs[i] = "full_predictions" => model.file.contents # "chronos2"
    BY FilesAssumption DEF OnItsWay, HasAnswer, TypeOK, Predictions
  <2>2. CASE model.family = "timesfm"
    <3> DEFINE full  == output["full_predictions"]
               shape == [steps |-> ModelHorizon, quantiles |-> 10]
    <3>1. response = TimesFMAnswer BY <2>2 DEF OnItsWay
    <3>2. /\ "full_predictions" \in DOMAIN output /\ model.file.regular  \* as s is a place
          /\ response.quantiles =
               [l \in {90, 99} |-> QuantileSeries(full, shape, l, request.horizon)]
      BY <2>1, <3>1 DEF TimesFMAnswer
    <3>3. full = FullPredictions
      <4>1. model.file.contents # "chronos2" BY <2>1, <3>2 DEF Elements
      <4> QED BY <2>1, <3>2, <4>1 DEF Predictions
    <3>4. q \in {90, 99} /\ response.quantiles[q] = QuantileSeries(full, shape, q, request.horizon)
      BY <3>2
    <3>5. /\ s \in 1 .. AtMost(request.horizon, ModelHorizon)
          /\ value = [cell |-> full[Offset(s - 1, 10, 9)], scale |-> Unscaled]
      BY <3>4, NearestOfTimesFM DEF QuantileSeries, AtMost
    <3>6. s \in 1 .. ModelHorizon BY <2>1, <3>5, ModelHorizonAssumption DEF AtMost
    <3> DEFINE o == Offset(s - 1, 10, 9)  rows == BatchSize * ModelHorizon
    <3>7. /\ rows \in Nat /\ ModelHorizon <= rows /\ s - 1 \in 0 .. rows - 1
      <4>1. \A a, b \in Nat \ {0} : a * b \in Nat /\ b <= a * b OBVIOUS
      <4> QED BY <3>6, <4>1, DefaultsAssumption, ModelHorizonAssumption
    <3>8. o \in 0 .. BatchSize * ModelHorizon * 10 - 1 /\ o % 10 = 9 /\ o \div 10 = s - 1
      <4> DEFINE r == s - 1
      <4>1. 10 \in Nat \ {0} /\ 9 \in 0 .. 10 - 1 /\ r \in 0 .. rows - 1 BY <3>7
      <4> HIDE DEF r, rows
      <4>2. /\ Offset(r, 10, 9) \in 0 .. rows * 10 - 1 /\ Offset(r, 10, 9) % 10 = 9
            /\ Offset(r, 10, 9) \div 10 = r
        BY <3>7, <4>1, RowAndColumn
      <4> QED BY <4>2 DEF r, rows
    <3>9. (s - 1) % ModelHorizon = s - 1 BY <3>6, ModelHorizonAssumption
    <3> HIDE DEF o, rows
    <3>10. FullPredictions[o] = [quantile |-> 90, step |-> s]
      <4>1. FullPredictions[o] = [quantile |-> TimesFMLevels[10], step |-> (s - 1) + 1]
        BY <3>8, <3>9 DEF FullPredictions
      <4> QED BY <3>6, <4>1 DEF TimesFMLevels
    <3>11. Nearest(Offered, q) = 90 BY <2>2, <3>4, NearestOfTimesFM DEF Offered
    <3> QED BY <2>2, <3>3, <3>5, <3>10, <3>11 DEF o
  <2>3. CASE model.family # "timesfm"
    <3> DEFINE preds == output["quantile_preds"]
               scale == PrepareChronosInputs(request.values).scale
               idx   == ChronosQuantileIndex(q)
    <3>1. response = ChronosAnswer /\ "quantile_preds" \in DOMAIN output BY <2>3 DEF OnItsWay
    <3>2. response.quantiles =
            [l \in {90, 99} |-> ChronosQuantileHorizon(preds, ChronosQuantileIndex(l), scale,
                                                       request.horizon)]
      BY <2>1, <3>1 DEF ChronosAnswer
    <3>3. preds = QuantilePreds
      <4>1. model.file.contents = "chronos2" BY <2>1, <3>1 DEF Elements
      <4> QED BY <2>1, <3>1, <4>1 DEF Predictions
    <3>4. q \in {90, 99}
          /\ response.quantiles[q] = ChronosQuantileHorizon(preds, idx, scale, request.horizon)
      BY <3>2
    <3>5. /\ s \in 1 .. AtMost(request.horizon, ChronosHorizonLen)
          /\ value = [cell |-> preds[Offset(idx, ChronosHorizonLen, s - 1)], scale |-> scale]
      <4> HIDE DEF preds, scale, idx
      <4> QED BY <3>4 DEF ChronosQuantileHorizon
    <3>6. s \in 1 .. ChronosHorizonLen BY <2>1, <3>5, ChronosLensAssumption DEF AtMost
    <3>7. /\ idx \in 0 .. Len(ChronosQuantileLevels) - 1
          /\ ChronosQuantileLevels[idx + 1] = Nearest(Offered, q)
      <4>1. Offered = Elements(ChronosQuantileLevels) BY <2>3 DEF Offered
      <4>2. q \in Int BY <3>4
      <4> QED BY <4>1, <4>2, NearestPlace
    <3> DEFINE column == s - 1  rows == Len(ChronosQuantileLevels)
               o == Offset(idx, ChronosHorizonLen, column)
    <3>8. /\ o \in 0 .. rows * ChronosHorizonLen - 1
          /\ o % ChronosHorizonLen = column /\ o \div ChronosHorizonLen = idx
      <4>1. /\ column \in 0 .. ChronosHorizonLen - 1 /\ ChronosHorizonLen \in Nat \ {0}
            /\ rows \in Nat /\ idx \in 0 .. rows - 1
        BY <3>6, <3>7, ChronosLensAssumption, ChronosLevelsAssumption
      <4> HIDE DEF column, rows, idx
      <4> QED BY <4>1, RowAndColumn
    <3> HIDE DEF o
    <3>9. QuantilePreds[o] = [quantile |-> ChronosQuantileLevels[idx + 1], step |-> column + 1]
      BY <3>8 DEF QuantilePreds
    <3>10. value.cell = [quantile |-> Nearest(Offered, q), step |-> s]
      BY <3>3, <3>5, <3>6, <3>7, <3>9 DEF o
    <3>11. \A i \in DOMAIN input.context : scale = input.context[i].scale
      <4> DEFINE tail == LastSamples(request.values, ChronosContextLen)
      <4>1. scale = ChronosScale(tail) BY DEF PrepareChronosInputs
      <4>2. input = ChronosInput BY <2>3 DEF OnItsWay
      <4> HIDE DEF tail, scale
      <4>3. /\ DOMAIN ChronosInput.context = 0 .. ChronosContextLen - 1
            /\ \A j \in 0 .. ChronosContextLen - 1 :
                 ChronosInput.context[j].scale = ChronosScale(tail)
        BY ChronosTensors DEF tail
      <4> QED BY <4>1, <4>2, <4>3
    <3> QED BY <3>5, <3>10, <3>11
  <2> QED BY <2>2, <2>3
<1> QED BY <1>1, OnItsWayInvariant, PTL
-------------------------------------------------------------------------------
(* Discovery *)

\* The model that serves is what the flags of some start make of their file.
Loaded ==
  model # None =>
    \E flags \in Flags :
      flags.file # None /\ LoadModel(flags) # Error /\ model = LoadModel(flags)

LEMMA LoadedInvariant == Spec => []Loaded
<1>1. Init => Loaded BY DEF Init, Loaded
<1>2. Loaded /\ [Next]_vars => Loaded'
  <2> SUFFICES ASSUME Loaded, [Next]_vars PROVE Loaded' OBVIOUS
  <2>1. CASE Start BY <2>1 DEF Start, Loaded
  <2>2. CASE UNCHANGED model \/ model' = None BY <2>2 DEF Loaded
  <2>3. ~Start => UNCHANGED model \/ model' = None
    BY DEF Next, Stop, Restart, Ask, Refuse, Prepare, Run, RunFails, Read, Return, Answer,
           vars, work
  <2> QED BY <2>1, <2>2, <2>3
<1> QED BY <1>1, <1>2, PTL DEF Spec

\* What is known of a model by the flags that it was loaded with.
LEMMA LoadedModel ==
  ASSUME NEW flags \in Flags, flags.file # None, NEW m, m = LoadModel(flags), m # Error
  PROVE  /\ flags.file # Error /\ m.file = flags.file /\ m.family # Error
         /\ m.discovered => m.family = DiscoverModelFamily(flags.file)
         /\ m.family = "timesfm" =>
              m.inputName = IF flags.file.inputs = << >> THEN "past_values"
                                                         ELSE flags.file.inputs[1]
<1> DEFINE config == [family     |-> ResolveModelFamily(flags),
                      maxContext |-> flags.maxContext,
                      file       |-> flags.file,
                      discovered |-> flags.family = None]
<1>1. /\ flags.file # Error /\ ConfigFromForecast(flags) = config
      /\ ResolveModelFamily(flags) # Error
  BY DEF LoadModel, ConfigFromForecast
<1>2. m = IF config.family = "timesfm" THEN NewTimesFM(config) ELSE NewChronos2(config)
  BY <1>1 DEF LoadModel, NewFromConfig
<1>3. /\ m.family = config.family /\ m.file = config.file /\ m.discovered = config.discovered
      /\ config.family = "timesfm" => m.inputName = NewTimesFM(config).inputName
  BY <1>2 DEF NewTimesFM, NewChronos2
<1> QED BY <1>1, <1>3 DEF NewTimesFM, ResolveModelFamily

\* DiscoveredModelsFit of Forecaster: discovery believes the inputs of the
\* session before the path, so that either export is filled by its own names.
THEOREM DiscoveryFits == Spec => []DiscoveredModelsFit
<1>1. TypeOK /\ OnItsWay /\ Loaded => DiscoveredModelsFit
  <2> SUFFICES ASSUME TypeOK, OnItsWay, Loaded, stage = "prepared", model.discovered,
                      Elements(model.file.inputs) \in Exports
               PROVE  DOMAIN input = Elements(model.file.inputs)
    BY DEF DiscoveredModelsFit
  <2>1. model # None BY DEF TypeOK
  <2>2. PICK flags \in Flags :
          flags.file # None /\ LoadModel(flags) # Error /\ model = LoadModel(flags)
    BY <2>1 DEF Loaded
  <2>3. /\ flags.file # Error /\ model.file = flags.file /\ model.family # Error
        /\ model.family = DiscoverModelFamily(flags.file)
        /\ model.family = "timesfm" =>
             model.inputName = IF flags.file.inputs = << >> THEN "past_values"
                                                            ELSE flags.file.inputs[1]
    BY <2>2, LoadedModel
  <2> DEFINE file == model.file
  <2>4. file.inputs \in Seq(STRING) /\ file = flags.file
    BY <2>2, <2>3, FilesAssumption
  <2>5. CASE Elements(file.inputs) = {"past_values"}
    <3>1. model.family = "timesfm" BY <2>3, <2>4, <2>5 DEF DiscoverModelFamily
    <3>2. file.inputs # << >> /\ file.inputs[1] \in Elements(file.inputs)
      BY <2>4, <2>5 DEF Elements
    <3>3. model.inputName = "past_values" BY <2>3, <2>4, <2>5, <3>1, <3>2
    <3> QED BY <2>5, <3>1, <3>3 DEF OnItsWay, TimesFMInput
  <2>6. CASE "context" \in Elements(file.inputs) /\ "past_values" \notin Elements(file.inputs)
    <3>1. model.family = "chronos2" BY <2>3, <2>4, <2>6 DEF DiscoverModelFamily
    <3>2. DOMAIN input = {"context", "group_ids", "attention_mask", "future_covariates",
                          "num_output_patches"}
      BY <3>1 DEF OnItsWay, ChronosInput
    <3> QED BY <2>6, <3>2 DEF Exports
  <2> QED BY <2>5, <2>6 DEF Exports
<1> QED BY <1>1, OnItsWayInvariant, LoadedInvariant, PTL
==============================================================================
