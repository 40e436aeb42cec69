------------------------------ MODULE MCDeploy ------------------------------
(* Two people who deploy from one checkout: a commit and an edit of it.    *)
EXTENDS Deploy

MCSources == {"commit", "edit"}
MCTags    == {"sha", "sha-dirty"}
MCTagOf   == [s \in MCSources |-> IF s = "commit" THEN "sha" ELSE "sha-dirty"]
=============================================================================
