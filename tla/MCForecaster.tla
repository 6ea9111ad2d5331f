------------------------------ MODULE MCForecaster ------------------------------
(* The forecaster with a context and a horizon of three, series that are     *)
(* shorter and longer than that, and the model files an operator is given.   *)
EXTENDS Forecaster

\* 90 percent is a level of both models, 99 only of Chronos-2.
MCLevels == <<10, 50, 90, 99>>

File(inputs, outputs, contents, pathFamily, opens) ==
  [inputs |-> inputs, outputs |-> outputs, contents |-> contents, regular |-> TRUE,
   pathFamily |-> pathFamily, opens |-> opens]

ChronosInputs ==
  <<"context", "group_ids", "attention_mask", "future_covariates", "num_output_patches">>

TimesFMFile(path, outputs) == File(<<"past_values">>, outputs, "timesfm", path, TRUE)
ChronosFile(path) == File(ChronosInputs, <<"quantile_preds">>, "chronos2", path, TRUE)

BothOutputs == <<"mean_predictions", "full_predictions">>

\* The names are those of the README's exports and of exports with other names; two
\* exports give their quantiles another shape.
MCFiles ==
  {[file EXCEPT !.regular = FALSE] :
     file \in {TimesFMFile("timesfm", BothOutputs), ChronosFile("chronos2")}} \cup
  {TimesFMFile(None, BothOutputs), TimesFMFile("chronos2", BothOutputs),
   TimesFMFile("timesfm", <<"mean_predictions">>), TimesFMFile(None, <<"output_0">>),
   ChronosFile("chronos2"), ChronosFile("timesfm"),
   File(<<"input_1">>, BothOutputs, "timesfm", "timesfm", TRUE),
   File(<<"input_1">>, BothOutputs, "timesfm", None, TRUE),
   File(ChronosInputs, <<"quantile_preds">>, "chronos2", None, FALSE)}

Flag(file, family, maxContext) ==
  [file |-> file, family |-> family, maxContext |-> maxContext, apiVersion |-> 23]

\* No path, a wrong one, a wrong context, and the files, each discovered and
\* under a name that overrides what it is.
MCFlags ==
  {Flag(None, None, 3), Flag(Error, None, 3), Flag(TimesFMFile(None, BothOutputs), None, 0)}
    \cup {Flag(file, family, 3) : file \in MCFiles, family \in {None, "timesfm", "chronos-2", "lstm"}}

\* An idle workload, one that woke up, one with a steady load, and rising ones.
MCSeries ==
  {<<0>>, <<0, 0, 0>>, <<0, 0, 7, 0>>, <<0, 0, 7, 8>>, <<5, 5>>, <<1, 2, 3, 4>>, <<4, 3, 2, 1, 6>>}

MCCadences == {20, 60}
MCSteps == {None, Error, 0, 30}
MCHorizons == {None, 1, 5, 8}

\* What the deployment of the README does: a sample for each reconcile.
MCDeployedFlags == {Flag(ChronosFile("chronos2"), None, 3), Flag(TimesFMFile(None, BothOutputs), None, 3)}
MCReconcileCadence == {20}
MCDefault == {None}
==============================================================================
