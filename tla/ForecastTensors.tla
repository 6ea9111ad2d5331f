---------------------------- MODULE ForecastTensors ----------------------------
(***************************************************************************)
(* Between series and tensors, in package internal/forecast/onnx: what     *)
(* preprocess.go and chronos2_preprocess.go put into the inputs of a       *)
(* model and cut out of its outputs.                                       *)
(*                                                                         *)
(* A flat slice, the row-major data of a tensor, is a function on          *)
(* 0 .. n - 1, a series a sequence.  Quantile levels are in percent.  The  *)
(* numbers of the model are not computed: a cell of an output tensor is    *)
(* [quantile, step], a cell of the input of Chronos-2 is the sample and    *)
(* the scale of the asinh that it went through, and a float of a response  *)
(* is the output cell and the scale that its sinh was multiplied with.     *)
(***************************************************************************)
EXTENDS Integers, Sequences, FiniteSets

CONSTANTS ChronosContextLen,      \* 512
          ChronosHorizonLen,      \* 64
          ChronosQuantileLevels,  \* 1, 5, 10, 15, ..., 90, 95, 99
          Unscaled                \* marks what TimesFM takes and gives: no scale

ASSUME ChronosLensAssumption ==
  ChronosContextLen \in Nat \ {0} /\ ChronosHorizonLen \in Nat \ {0}
ASSUME ChronosLevelsAssumption ==
  /\ ChronosQuantileLevels \in Seq(1 .. 99) /\ ChronosQuantileLevels # << >>
  /\ \A i, j \in 1 .. Len(ChronosQuantileLevels) :
       i < j => ChronosQuantileLevels[i] < ChronosQuantileLevels[j]
ASSUME UnscaledAssumption == Unscaled \notin Int

AtMost(n, bound) == IF n > bound THEN bound ELSE n
Abs(x) == IF x < 0 THEN -x ELSE x

LastSamples(values, n) == SubSeq(values, Len(values) - AtMost(Len(values), n) + 1, Len(values))

\* The cell in this row and column of a flat slice, all counted from zero.
Offset(row, columns, column) == row * columns + column

-------------------------------------------------------------------------------
(* TimesFM *)

\* Fault: a context that is too long loses its newest samples.
PrepareContextFromStart(values, maxContext) ==
  SubSeq(values, 1, AtMost(Len(values), maxContext))

PrepareContext(values, maxContext) ==
  IF maxContext <= 0 THEN values ELSE LastSamples(values, maxContext)

\* The same row once for each series of the batch.
PrepareBatchInput(values, maxContext, batchSize) ==
  LET row == PrepareContext(values, maxContext)
  IN  [o \in 0 .. batchSize * Len(row) - 1 |-> row[(o % Len(row)) + 1]]

\* mean is the whole batch, row after row.
SliceHorizon(mean, horizon) ==
  [s \in 1 .. AtMost(horizon, Cardinality(DOMAIN mean)) |->
     [cell |-> mean[s - 1], scale |-> Unscaled]]

\* The mean comes first, then 10, 20, ..., 90 percent.
QuantileIndex(level) ==
  CHOOSE i \in 1 .. 9 : (i = 9 \/ level <= 10 * i + 5) /\ (i = 1 \/ level > 10 * i - 5)

QuantileSeriesByColumn(full, shape, level, horizon) ==  \* Fault: quantiles by row.
  [s \in 1 .. AtMost(horizon, shape.steps) |->
     [cell  |-> full[Offset(AtMost(QuantileIndex(level), shape.quantiles - 1),
                            shape.steps, s - 1)],
      scale |-> Unscaled]]

QuantileSeries(full, shape, level, horizon) ==
  [s \in 1 .. AtMost(horizon, shape.steps) |->
     [cell  |-> full[Offset(s - 1, shape.quantiles,
                            AtMost(QuantileIndex(level), shape.quantiles - 1))],
      scale |-> Unscaled]]

-------------------------------------------------------------------------------
(* Chronos-2 *)

\* The value in this place when the values are sorted, counted from one.
InPlace(values, place) ==
  CHOOSE x \in {values[i] : i \in DOMAIN values} :
    /\ Cardinality({i \in DOMAIN values : values[i] < x}) < place
    /\ place <= Cardinality({i \in DOMAIN values : values[i] <= x})

\* Twice the median, which keeps the mean of two middle values whole.
MedianAbsScale(values) ==
  LET abs == [i \in DOMAIN values |-> Abs(values[i])]
      mid == Len(values) \div 2 + 1
  IN  IF Len(values) % 2 = 0 THEN InPlace(abs, mid - 1) + InPlace(abs, mid)
                             ELSE 2 * InPlace(abs, mid)

NoScale == 2  \* one, doubled

ChronosScaleUnguarded(tail) == MedianAbsScale(tail)  \* Fault
ChronosScale(tail) ==
  IF MedianAbsScale(tail) = 0 THEN NoScale ELSE MedianAbsScale(tail)

\* The samples stand at the end of the context; the zeros before them are no
\* different from samples of zero, but for the mask.
PrepareChronosInputs(values) ==
  LET tail   == LastSamples(values, ChronosContextLen)
      offset == ChronosContextLen - Len(tail)
      places == 0 .. ChronosContextLen - 1
  IN  [context |-> [i \in places |->
                      [sample |-> IF i < offset THEN 0 ELSE tail[i - offset + 1],
                       scale  |-> ChronosScale(tail)]],
       attentionMask |-> [i \in places |-> IF i < offset THEN 0 ELSE 1],
       scale |-> ChronosScale(tail)]

\* Counted from zero; of two levels that are as close, the first.
ChronosQuantileIndex(level) ==
  LET places == 1 .. Len(ChronosQuantileLevels)
      distance(i) == Abs(ChronosQuantileLevels[i] - level)
  IN  (CHOOSE i \in places : \A j \in places :
         distance(i) < distance(j) \/ (distance(i) = distance(j) /\ i <= j)) - 1

ChronosQuantileHorizon(preds, quantileIdx, scale, horizon) ==
  [s \in 1 .. AtMost(horizon, ChronosHorizonLen) |->
     [cell |-> preds[Offset(quantileIdx, ChronosHorizonLen, s - 1)], scale |-> scale]]
==============================================================================
