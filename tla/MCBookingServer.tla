-------------------------- MODULE MCBookingServer --------------------------
(* An instance of BookingServer for TLC.                                    *)
EXTENDS BookingServer

CONSTANTS t1, t2, t3, none

MCThreads == {t1, t2, t3}

(* One ticket is given back or taken.                                       *)
MCRequests == {-1, 1}
=============================================================================
