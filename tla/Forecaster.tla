------------------------------- MODULE Forecaster -------------------------------
(***************************************************************************)
(* The ONNX forecaster: how cmd/main.go comes to load a model of one       *)
(* family or the other, and how Forecast answers a request of runForecast  *)
(* (internal/forecast, internal/forecast/onnx).                            *)
(*                                                                         *)
(* A model file is [inputs, outputs, contents, regular, pathFamily,        *)
(* opens]: the names its session lists, the family it was exported from,   *)
(* whether its quantiles have the shape of that family (for TimesFM: three *)
(* dimensions), the family whose name is in its path, and whether ONNX     *)
(* Runtime can open it.                                                    *)
(* Requests come one at a time, from the one worker of the controller.     *)
(***************************************************************************)
EXTENDS ForecastTensors, Metrics

CONSTANTS Error,           \* what an operation that returns an error returns
          Flags,           \* [file, family, maxContext, apiVersion] of a start
          Series,          \* the values of a request, oldest first
          Cadences,        \* the distance of two samples of a series
          Steps,           \* spec.forecast.step, None when unset, Error when it does not parse
          Horizons,        \* spec.forecast.horizon, or None
          DefaultHorizon,  \* 12
          DefaultStep,     \* a minute
          BatchSize,       \* 2
          ModelHorizon     \* the steps in a row of a TimesFM output

ASSUME DefaultsAssumption == DefaultHorizon \in Nat \ {0} /\ BatchSize \in Nat \ {0}
ASSUME ModelHorizonAssumption == ModelHorizon \in Nat \ {0}
\* --timesfm-max-context is an integer.
ASSUME FlagsAssumption == \A flags \in Flags : flags.maxContext \in Int
\* An output has the name that its model's exports give it.
ASSUME FilesAssumption ==
  \A flags \in Flags : flags.file \notin {None, Error} =>
    /\ flags.file.inputs \in Seq(STRING)
    /\ \A i \in DOMAIN flags.file.outputs :
         /\ flags.file.outputs[i] = "quantile_preds" => flags.file.contents = "chronos2"
         /\ flags.file.outputs[i] = "full_predictions" => flags.file.contents # "chronos2"
ASSUME SeriesAssumption == Series \subseteq Seq(Int)
ASSUME HorizonsAssumption == Horizons \subseteq Int \cup {None} /\ None \notin Int

VARIABLES
  process,   \* "starting", "serving" or "stopped"
  model,     \* the loaded model, or None
  stage,     \* of a request: "idle", "asked", "prepared", "ran" or "answered"
  request,
  input,     \* the tensors of the session's run, by name
  output,    \* the tensors that it returned, by name
  response   \* what Forecast returned, or Error

work == <<stage, request, input, output, response>>
vars == <<process, model, work>>

NoWork ==
  stage = "idle" /\ request = None /\ input = None /\ output = None /\ response = None

Init == process = "starting" /\ model = None /\ NoWork

Elements(sequence) == {sequence[i] : i \in DOMAIN sequence}

-------------------------------------------------------------------------------
(* Loading a model *)

Families == {"timesfm", "chronos2"}

ParseModelFamily(raw) ==
  IF raw \in {"chronos", "chronos-2", "chronos2-onnx"} THEN "chronos2" ELSE raw

FamilyFromPathFirst(file) ==  \* Fault: the directory's name is believed first.
  IF file.pathFamily # None THEN file.pathFamily
  ELSE IF "past_values" \in Elements(file.inputs) THEN "timesfm"
  ELSE IF "context" \in Elements(file.inputs) THEN "chronos2"
  ELSE Error

\* By the names of the inputs, and only then by the path.
DiscoverModelFamily(file) ==
  IF ~file.opens THEN Error
  ELSE IF "past_values" \in Elements(file.inputs) THEN "timesfm"
  ELSE IF "context" \in Elements(file.inputs) THEN "chronos2"
  ELSE IF file.pathFamily # None THEN file.pathFamily
  ELSE Error

ResolveModelFamily(flags) ==
  IF flags.family # None THEN ParseModelFamily(flags.family)
                         ELSE DiscoverModelFamily(flags.file)

ConfigFromForecast(flags) ==
  IF flags.file = Error \/ flags.apiVersion <= 0 \/ flags.maxContext <= 0 THEN Error
  ELSE IF ResolveModelFamily(flags) = Error THEN Error
  ELSE [family     |-> ResolveModelFamily(flags),
        maxContext |-> flags.maxContext,
        file       |-> flags.file,
        discovered |-> flags.family = None]

\* The first input of the session, whatever its name, is the one to fill.
NewTimesFM(config) ==
  [family     |-> config.family, maxContext |-> config.maxContext, file |-> config.file,
   discovered |-> config.discovered,
   inputName  |-> IF config.file.inputs = << >> THEN "past_values" ELSE config.file.inputs[1]]

\* The names of the inputs are those of the export.
NewChronos2(config) ==
  [family     |-> config.family, maxContext |-> config.maxContext, file |-> config.file,
   discovered |-> config.discovered, inputName |-> "context"]

NewFromConfig(config) ==
  IF config.family \notin Families \/ ~config.file.opens THEN Error
  ELSE IF config.family = "timesfm" THEN NewTimesFM(config) ELSE NewChronos2(config)

LoadModel(flags) ==
  IF ConfigFromForecast(flags) = Error THEN Error ELSE NewFromConfig(ConfigFromForecast(flags))

\* Without a path the operator serves and never forecasts; when the model
\* cannot be loaded it exits.
Start ==
  /\ process = "starting"
  /\ \E flags \in Flags :
       IF flags.file = None THEN process' = "serving" /\ model' = None
       ELSE IF LoadModel(flags) = Error THEN process' = "stopped" /\ model' = None
       ELSE process' = "serving" /\ model' = LoadModel(flags)
  /\ UNCHANGED work

StopAtOnce ==  \* Fault: a forecast may still be under way.
  /\ process = "serving"
  /\ process' = "stopped" /\ model' = None
  /\ UNCHANGED work

\* The session is closed after the manager's workers have ended.
Stop ==
  /\ process = "serving" /\ stage = "idle"
  /\ process' = "stopped" /\ model' = None
  /\ UNCHANGED work

Restart ==
  /\ process = "stopped" /\ process' = "starting"
  /\ UNCHANGED <<model, work>>

-------------------------------------------------------------------------------
(* A forecast *)

Answer(answer) ==
  /\ stage' = "answered" /\ response' = answer
  /\ UNCHANGED <<process, model>>

\* runForecast.  The interval of the points is in the request, as step; the
\* series goes on in its own.
Ask ==
  /\ process = "serving" /\ model # None /\ stage = "idle"
  /\ \E values \in Series, cadence \in Cadences, horizon \in Horizons, step \in Steps :
       request' = [values    |-> values,
                   cadence   |-> cadence,
                   horizon   |-> IF horizon # None /\ horizon > 0 THEN horizon ELSE DefaultHorizon,
                   step      |-> IF step = None \/ (step # Error /\ step <= 0)
                                   THEN DefaultStep ELSE step,
                   quantiles |-> {90, 99}]
  /\ stage' = "asked"
  /\ UNCHANGED <<process, model, input, output, response>>

Valid == request.step # Error /\ request.values # << >> /\ request.horizon > 0

Refuse ==
  /\ stage = "asked" /\ ~Valid
  /\ Answer(Error)
  /\ UNCHANGED <<request, input, output>>

TimesFMInput ==
  [n \in {model.inputName} |->
     PrepareBatchInput(request.values, model.maxContext, BatchSize)]

ChronosInput ==
  LET prepared == PrepareChronosInputs(request.values)
  IN  [context            |-> prepared.context,
       group_ids          |-> 0,
       attention_mask     |-> prepared.attentionMask,
       future_covariates  |-> 0,
       num_output_patches |-> 4]

Prepare ==
  /\ stage = "asked" /\ Valid
  /\ input' = IF model.family = "timesfm" THEN TimesFMInput ELSE ChronosInput
  /\ stage' = "prepared"
  /\ UNCHANGED <<process, model, request, output, response>>

\* The tensors of the two exports (external).  The rows of a batch are equal.
TimesFMLevels == <<0, 10, 20, 30, 40, 50, 60, 70, 80, 90>>  \* 0 for the mean
MeanPredictions ==
  [o \in 0 .. BatchSize * ModelHorizon - 1 |->
     [quantile |-> 0, step |-> (o % ModelHorizon) + 1]]
FullPredictions ==
  [o \in 0 .. BatchSize * ModelHorizon * 10 - 1 |->
     [quantile |-> TimesFMLevels[(o % 10) + 1], step |-> ((o \div 10) % ModelHorizon) + 1]]
QuantilePreds ==
  [o \in 0 .. Len(ChronosQuantileLevels) * ChronosHorizonLen - 1 |->
     [quantile |-> ChronosQuantileLevels[(o \div ChronosHorizonLen) + 1],
      step     |-> (o % ChronosHorizonLen) + 1]]

Predictions(file) ==
  [n \in Elements(file.outputs) |->
     IF file.contents = "chronos2" THEN QuantilePreds
     ELSE IF n = "full_predictions" THEN FullPredictions ELSE MeanPredictions]

\* The session takes exactly the inputs that the file declares.
Run ==
  /\ stage = "prepared" /\ DOMAIN input = Elements(model.file.inputs)
  /\ output' = Predictions(model.file)
  /\ stage' = "ran"
  /\ UNCHANGED <<process, model, request, input, response>>

\* It fails on other names, and may fail for other reasons, a shutdown for one.
RunFails ==
  /\ stage = "prepared"
  /\ Answer(Error)
  /\ UNCHANGED <<request, input, output>>

\* The tail of a series decides its scale, the same for all outputs.
ChronosAnswer ==
  LET preds     == output["quantile_preds"]
      scale     == PrepareChronosInputs(request.values).scale
      series(q) == ChronosQuantileHorizon(preds, ChronosQuantileIndex(q), scale, request.horizon)
  IN  [point |-> series(50), quantiles |-> [q \in request.quantiles |-> series(q)]]

\* Of quantiles with another number of dimensions, quantileSeries reads none.
TimesFMAnswer ==
  LET shape == [steps |-> ModelHorizon, quantiles |-> 10]
      full  == output["full_predictions"]
  IN  [point     |-> SliceHorizon(output["mean_predictions"], request.horizon),
       quantiles |-> IF "full_predictions" \notin DOMAIN output THEN << >>
                     ELSE [q \in request.quantiles |->
                             IF model.file.regular
                               THEN QuantileSeries(full, shape, q, request.horizon)
                               ELSE << >>]]

\* Chronos-2 fails on quantiles of another shape.
Read ==
  /\ stage = "ran"
  /\ Answer(IF model.family = "timesfm"
              THEN IF "mean_predictions" \in DOMAIN output THEN TimesFMAnswer ELSE Error
              ELSE IF "quantile_preds" \in DOMAIN output /\ model.file.regular THEN ChronosAnswer
              ELSE Error)
  /\ UNCHANGED <<request, input, output>>

\* runForecast returns to the loop of Reconcile.
Return ==
  /\ stage = "answered"
  /\ stage' = "idle" /\ request' = None /\ input' = None /\ output' = None /\ response' = None
  /\ UNCHANGED <<process, model>>

Next ==
  \/ Start \/ Stop \/ Restart
  \/ Ask \/ Refuse \/ Prepare \/ Run \/ RunFails \/ Read \/ Return

Spec == Init /\ [][Next]_vars

-------------------------------------------------------------------------------
(* Properties *)

TypeOK ==
  /\ process \in {"starting", "serving", "stopped"}
  /\ stage \in {"idle", "asked", "prepared", "ran", "answered"}
  /\ model # None =>
       process = "serving" /\ model.family \in Families /\ model.maxContext \in Nat \ {0}
  /\ stage # "idle" =>
       model # None /\ request.values \in Series /\ request.horizon \in Nat \ {0}
  /\ stage \in {"prepared", "ran"} => request.values # << >>
  /\ stage = "ran" => DOMAIN output = Elements(model.file.outputs)
  /\ stage # "answered" => response = None

\* Whatever the length of the series, what reaches the model are its newest
\* samples in their order, as many as the context holds: in each row of the
\* batch for TimesFM; for Chronos-2 up to the last cell, and behind the mask.
Context(i) == request.values[Len(request.values) - i]  \* i = 0 is the newest
ModelSeesNewest ==
  stage \in {"prepared", "ran"} =>
    IF model.family = "timesfm"
      THEN LET length == AtMost(Len(request.values), model.maxContext) IN
             /\ DOMAIN input[model.inputName] = 0 .. BatchSize * length - 1
             /\ \A b \in 1 .. BatchSize, i \in 0 .. length - 1 :
                  input[model.inputName][b * length - 1 - i] = Context(i)
      ELSE \A i \in 0 .. ChronosContextLen - 1 :
             LET place == ChronosContextLen - 1 - i IN
               IF i < Len(request.values)
                 THEN /\ input.attention_mask[place] = 1
                      /\ input.context[place].sample = Context(i)
                 ELSE input.attention_mask[place] = 0

\* No series makes Chronos-2 divide by zero, an idle workload's neither.
ScaleIsPositive ==
  stage \in {"prepared", "ran"} /\ model.family = "chronos2" =>
    \A i \in DOMAIN input.context : input.context[i].scale > 0

\* The level, of those the model offers, that is nearest to the one asked for;
\* of two the lower.
Nearest(levels, level) ==
  CHOOSE l \in levels :
    \A other \in levels : \/ Abs(l - level) < Abs(other - level)
                          \/ Abs(l - level) = Abs(other - level) /\ l <= other

Offered ==
  IF model.family = "timesfm" THEN Elements(TimesFMLevels) \ {0}
                              ELSE Elements(ChronosQuantileLevels)

\* The layouts of the two models differ, and so do their levels: all the same,
\* each value of a quantile that a response gives for a step was predicted for
\* that step and for the level nearest to the one asked for, and it was scaled
\* back by what its context was scaled by.
QuantilesAreRead ==
  stage = "answered" /\ response # Error =>
    \A q \in DOMAIN response.quantiles : \A s \in DOMAIN response.quantiles[q] :
      LET value == response.quantiles[q][s] IN
        /\ value.cell = [quantile |-> Nearest(Offered, q), step |-> s]
        /\ model.family = "chronos2" =>
             \A i \in DOMAIN input.context : value.scale = input.context[i].scale

\* A model that declares the inputs of either export, and was discovered from
\* its file, is filled by these names, wherever the file is: no forecast of it
\* fails for a name.
Exports ==
  {{"past_values"},
   {"context", "group_ids", "attention_mask", "future_covariates", "num_output_patches"}}
DiscoveredModelsFit ==
  stage = "prepared" /\ model.discovered /\ Elements(model.file.inputs) \in Exports =>
    DOMAIN input = Elements(model.file.inputs)

\* neuralautoscaler_types.go:195, "Horizon is the number of future steps to
\* predict", and :200, "Step is the interval between forecasted points": the
\* point for each of these steps is what the model says of that time.
PredictsEachStep ==
  stage = "answered" /\ response # Error =>
    /\ DOMAIN response.point = 1 .. request.horizon
    /\ \A s \in DOMAIN response.point :
         response.point[s].cell.step * request.cadence = s * request.step
==============================================================================
