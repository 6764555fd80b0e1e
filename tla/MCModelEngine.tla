---------------------------- MODULE MCModelEngine ----------------------------
\* Instances of ModelEngine for TLC.
EXTENDS ModelEngine

MCLengthOf == [s \in Schema |-> IF s = "unsw" THEN 49 ELSE 29]
\* One model is a pickle of the 49 features, one an ONNX file of the 29.
MCTrainedOn == [m \in Model |-> IF m = "forest" THEN "unsw" ELSE "c2"]
\* An event without features and a flow; two flows the aggregator has flattened.
MCBatch == {<<"dns", "flow">>, <<"flat">>, <<"other">>}
Files(schema, models, scalers, vae, c2, corrupt) ==
  [schema |-> schema, models |-> models, scalers |-> scalers, vae |-> vae,
   c2 |-> c2, corrupt |-> corrupt]
\* Delivered; another schema, without an autoencoder; half of it, without a
\* scaler and with a broken autoencoder; a file that cannot be loaded.
MCRelease ==
  {Files("unsw", Model, Model, "ok", "c2", FALSE),
   Files("c2", Model, Model, "missing", "unsw", FALSE),
   Files("c2", {"onnx"}, {}, "broken", None, FALSE),
   Files("c2", Model, Model, "ok", "c2", TRUE)}
=============================================================================
