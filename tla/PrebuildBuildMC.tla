-------------------------- MODULE PrebuildBuildMC ---------------------------
(* Two events, in every division into batches and single prebuilds.          *)
EXTENDS PrebuildBuild

CONSTANTS e1, e2

MCEvents == {e1, e2}

(* The events are alike and batches never changes: of the two divisions that *)
(* have one event alone in a batch, one is enough, and in all the others the *)
(* first event to get a build may be taken to be e1.                         *)
OneOfTwins ==
  /\ batches # {{e2}}
  /\ batches # {{e1}} /\ build[e1] = NoEvent => build[e2] = NoEvent
=============================================================================
