----------------------------- MODULE DevicePaths -----------------------------
(* What runs on a device: the data paths that keep no state between calls, and *)
(* the engines a llama.cpp graph appends to.  A behaviour is of one of the two, *)
(* its work, and the variables of the other stay where they start.             *)
EXTENDS DataPaths, DeviceEngines

VARIABLE work

\* The data paths before any call.
PathsIdle == part = "none" /\ TextIdle /\ LayoutIdle /\ AdaptiveIdle /\ CodecIdle

pathVars == <<kernelsVars, codecVars>>

PathsInit ==
  \/ work = "paths"   /\ DataPathsInit /\ Init /\ engine = "seal" /\ NoPlane /\ NoCache /\ NoPass /\ reported = <<>>
  \/ work = "engines" /\ DeviceInit /\ PathsIdle

PathsNext ==
  /\ UNCHANGED work
  /\ \/ work = "paths"   /\ DataPathsNext /\ UNCHANGED deviceVars
     \/ work = "engines" /\ DeviceNext /\ UNCHANGED pathVars

PathsSpec == PathsInit /\ [][PathsNext]_<<work, pathVars, deviceVars>>
=============================================================================
