---------------------------- MODULE MCAdminPanel -----------------------------
(* The configurations the panel finds: one without the flag, one with it off. *)
EXTENDS AdminPanel

MCConfigs == {[toggle |-> "absent", number |-> 1, host |-> FALSE],
              [toggle |-> "off", number |-> 1, host |-> TRUE]}
=============================================================================
