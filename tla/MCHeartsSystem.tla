--------------------------- MODULE MCHeartsSystem ---------------------------
(***************************************************************************)
(* Instances of the system: two seats and a third client for the first of  *)
(* them.                                                                   *)
(***************************************************************************)
EXTENDS MCHeartsServer, SystemProperties

\* Descriptors 5, 6, 7 and 8 in turn.
FourSeats == 5 :> "N" @@ 6 :> "E" @@ 7 :> "N" @@ 8 :> "E"
MCSeatOf == [fd \in Fds |-> FourSeats[fd]]

\* Everybody is automatic, or a user sits in seat E.
AllAuto == Fds
UserEast == Fds \ {6}

\* Of the two clients of seat N, either of which may come first, one may leave.
MCLeavers == {5, 6}
=============================================================================
