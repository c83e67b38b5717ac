-------------------------- MODULE MCBuildPipeline --------------------------
(***************************************************************************)
(* BuildPipeline on a small instance.  The two jobs differ in their SHA,   *)
(* and the run checks liveness, so that they are not permuted.  The source *)
(* directories lie on both sides of what Detect tells apart.               *)
(***************************************************************************)
EXTENDS BuildPipeline, TLC

MCSources ==
  <<"Dockerfile" :> "none" @@ "go.mod" :> "plain",
   "Dockerfile" :> "directory" @@ "go.mod" :> "plain",
   "go.sum" :> "none",
   "pyproject.toml" :> "none" @@ ".python-version" :> "odd">>
=============================================================================
