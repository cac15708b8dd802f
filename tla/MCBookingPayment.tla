------------------------- MODULE MCBookingPayment -------------------------
(* BookingPayment on small instances: one or two workers, one intent. *)
EXTENDS BookingRefinement, TLC

\* Workers are interchangeable; used for safety runs only.
WorkerSymmetry == Permutations(Workers)

=============================================================================
