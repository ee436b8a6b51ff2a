--------------------------- MODULE MCDeployRelease ---------------------------
(* Three releases; a model host with its service and one of another role,   *)
(* or the frontend with its router.                                         *)
EXTENDS DeployRelease
CONSTANTS a, b, c

Host(frontend, redeploy, deployed, f, k) ==
  [frontend |-> frontend, redeploy |-> redeploy, all |-> IF frontend THEN 1 ELSE 2,
   deployed |-> deployed, faults |-> f, kills |-> k]

(* Model hosts where two commands fail, or one fails and the script is      *)
(* killed once; the frontend with both; first deployments, on a model host  *)
(* with three failures.                                                     *)
MCConfigs ==
  {Host(FALSE, FALSE, a, 2, 0), Host(FALSE, TRUE, a, 1, 1),
   Host(TRUE, TRUE, a, 2, 1), Host(FALSE, FALSE, None, 3, 0), Host(TRUE, FALSE, None, 2, 1)}
=============================================================================
