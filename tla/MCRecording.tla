----------------------------- MODULE MCRecording ------------------------------
(* One tab with a frame, sessions enough to attach to the tab twice, and two *)
(* requests with redirects.                                                  *)
EXTENDS Recording

MCGrants == {{}, {"network", "binding", "adopt"}, Commands}

MCSymmetry == Permutations(Ids)

=============================================================================
