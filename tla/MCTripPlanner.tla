---------------------------- MODULE MCTripPlanner ----------------------------
(* TripPlanner for two requests at a time. *)
EXTENDS TripPlanner

MCRequests == 1..2

\* One request at a time is a stream, or of a kind of its own.
MCAsks == <<{"plan", "ideas", "accommodations", "baggage", "budget", "search", "multi",
             "price", "offers", "places", "dates", "hotels"},
            {"activities"}>>

MCCallers == MCRequests \X {"stay", "ride", "ideas", "search", "price", "dates"}

=============================================================================
