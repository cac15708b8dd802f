--------------------------- MODULE MCNotifications ---------------------------
(* Notifications on small instances; its workers, devices and users are alike. *)
EXTENDS Notifications, TLC

MCAudience == [departure |-> 1, flight |-> 2, morning |-> 1, activity |-> 1,
               budget |-> 1, message |-> 2]

MCMishaps == [departure |-> 1, flight |-> 1, morning |-> 1, activity |-> 2,
              budget |-> 1, message |-> 1]

Symmetry == Permutations(Workers) \cup Permutations(Users) \cup Permutations(Devices)

=============================================================================
