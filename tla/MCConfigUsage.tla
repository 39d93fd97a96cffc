--------------------------- MODULE MCConfigUsage ---------------------------
(***************************************************************************)
(* Values for the constants of ConfigUsage that a configuration cannot     *)
(* write.                                                                  *)
(***************************************************************************)
EXTENDS ConfigUsage

\* One InitBundle worker: --max-reconcile-rate=1.
OneBundle == [bundle1 |-> "InitBundle"]
OneBundleWorkers == DOMAIN OneBundle

=============================================================================
