------------------------ MODULE MCLiveConfiguration ------------------------
(* One tenant and two requests while two edits are made, one process stop. *)
EXTENDS LiveConfiguration

MCLimits == {0, 1}
MCQuotas == {1}
MCTenants == {[default |-> 1, preset |-> None], [default |-> 1, preset |-> 0]}
MCBases == [endpoints : {Names}, keys : {Keys}, tenants : MCTenants,
            tier : [members : {Names}, sound : {TRUE}]]
=============================================================================
