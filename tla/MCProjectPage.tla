--------------------------- MODULE MCProjectPage ---------------------------
(***************************************************************************)
(* ProjectPage for TLC: a project with a device, a project without one, a  *)
(* device still to be provisioned, and a page that is opened twice.        *)
(***************************************************************************)
EXTENDS ProjectPage, TLC

CONSTANTS p1, p2, v1, v2

MCFirstDevices == (p1 :> {v1}) @@ (p2 :> {})
=============================================================================
