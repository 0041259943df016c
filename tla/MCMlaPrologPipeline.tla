------------------------- MODULE MCMlaPrologPipeline -------------------------
(* Launches for the runs of the pipeline.                                  *)
EXTENDS MlaPrologPipeline
L(branch, quantQn) == [branch |-> branch, quantQn |-> quantQn]
AllLaunches == {L("splitN", FALSE), L("splitN", TRUE), L("dequant", TRUE), L("dequant", FALSE), L("plain", FALSE)}
Mxfp4Launch == {L("splitN", FALSE)}
=============================================================================
