---------------------------- MODULE MCHttpPipeline ----------------------------
(***************************************************************************)
(* Small instances of HttpPipeline for TLC.                                *)
(***************************************************************************)
EXTENDS HttpPipeline, TLC

\* One operation of each kind of controller.
OneOfEach ==
    {"login", "loginAdmin", "me", "createCustomer", "addMaterialStock", "deleteService",
     "createServiceOrder", "updateEstimateStatusExternal", "health", "readiness"}

Symmetry == Permutations(Users)
=============================================================================
