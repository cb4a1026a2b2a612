----------------------------- MODULE MCEventServer -----------------------------
(* SSESink for TLC: subscribers with one and with two parameters. *)
EXTENDS SSESink, TLC

CONSTANTS h1, h2

MCSubscription ==
  h1 :> [route_id |-> "Red"]
    @@ h2 :> [route_id |-> "Red", headway_time_seconds |-> "60"]

MCAttributes ==
  {[route_id |-> "Blue"],
   [route_id |-> "Red", headway_time_seconds |-> "60"]}
=============================================================================
