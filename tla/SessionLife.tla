----------------------------- MODULE SessionLife -----------------------------
(***************************************************************************)
(* What a stnet Session promises its owner (a Connector or a Listener):    *)
(* its life is a cycle.  It is restarted only when it is closed; it is     *)
(* open until its dorecv closes the channel closer; it is quiet once       *)
(* dosend and dohand have ended and IsClose() is true; it is closed again  *)
(* when onclose has been called.                                           *)
(***************************************************************************)
VARIABLE life

Init == life = "closed"

Restart == life = "closed"  /\ life' = "open"
Closing == life = "open"    /\ life' = "closing"
Quiet   == life = "closing" /\ life' = "quiet"
Closed  == life = "quiet"   /\ life' = "closed"

Next == Restart \/ Closing \/ Quiet \/ Closed

Spec == Init /\ [][Next]_life
=============================================================================
