--------------------------- MODULE MCInitBundle ---------------------------
(***************************************************************************)
(* Values for the constants of InitBundle that a configuration cannot      *)
(* write, and a watch on InitBundle: the same steps, with a note whether   *)
(* nothing has failed and nobody has renamed anything so far.              *)
(***************************************************************************)
EXTENDS InitBundle

OneName == [name : {"a"}]

TwoNames == [name : {"a", "b"}]

VARIABLE calm  \* has nothing failed, and nobody renamed anything, so far?

\* The steps that are neither failures nor renames.
Calm == INSTANCE InitBundle
  WITH AllowFaults <- FALSE, AllowDelays <- FALSE, AllowRename <- FALSE

WatchedInit == Init /\ calm = TRUE

WatchedNext == Next /\ calm' = (calm /\ Calm!Next)

WatchedSpec == WatchedInit /\ [][WatchedNext]_<<vars, calm>> /\ Fairness

\* As long as nothing failed and nobody renamed anything, an object that is
\* ready, and had its bundle generated itself, has the contents of that very
\* bundle in its secret, whatever other users of Central do.
CalmBundleIsPublished == calm => ReadyBundleIsPublished

=============================================================================
