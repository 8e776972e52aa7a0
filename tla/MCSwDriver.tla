----------------------------- MODULE MCSwDriver -----------------------------
(* What the browser, the pages and the server do, and how often. *)
EXTENDS SwDriver, TLC

MCBounds == "deploy" :> 1 @@ "stop" :> 1 @@ "fault" :> 1 @@ "message" :> 1 @@ "request" :> 2
=============================================================================
