------------------------- MODULE MCStopEventProcessor -------------------------
(* StopEventProcessor for TLC: one line and one trip. *)
EXTENDS StopEventProcessor, TLC

CONSTANTS l1, t1,
          Timestamps   \* the timestamps of the positions

MCLine == {l1}
MCTrip == {t1}

MCPositions == [agency : Agency, vehicle : Vehicle \cup {NoVehicle},
                line : {l1}, trip : {t1}, stop : Stop \cup {NoStop},
                status : Status, timestamp : Timestamps]

Symmetry == Permutations(Vehicle) \cup Permutations(Stop)
=============================================================================
