------------------------- MODULE MCDwellEventProcessor -------------------------
(* DwellEventProcessor for TLC: two vehicles of one line at one stop, whose *)
(* ids hold dashes, with timestamps beyond the range of int32.              *)
EXTENDS DwellEventProcessor

MCAgency == {<<"mbta">>}
MCVehicle == {<<"G", "1">>, <<"G", "2">>}
MCLine == {[route |-> <<"Green", "B">>, direction |-> <<"0">>]}
MCTrip == {<<"t">>}
MCStop == {<<"70110">>}

MCStopEvents == [type : {"ARRIVAL", "DEPARTURE"}, agency : MCAgency,
                 vehicle : MCVehicle, line : MCLine, trip : MCTrip,
                 stop : MCStop, timestamp : 0..3]
=============================================================================
