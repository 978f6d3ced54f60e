------------------------- MODULE MCWatchAndRegister -------------------------
(* Small instances of WatchAndRegister.                                     *)
EXTENDS WatchAndRegister

(* Devices are found and recover, and stay.                                 *)
Recovering ==
  {<<v, w>> \in Views \X Views :
     DOMAIN v \subseteq DOMAIN w /\ \A d \in DOMAIN v : v[d] => w[d]}

(* The driver may report anything after anything.                           *)
AnyStep == Views \X Views

(* ... of the devices that are not hidden.                                  *)
VisibleStep ==
  {<<v, w>> \in Views \X Views :
     \A d \in Ignored : d \in DOMAIN v /\ d \in DOMAIN w /\ v[d] = w[d]}

AllUnhealthy == {[d \in Devices |-> FALSE]}
NoneFound == {Nothing}
=============================================================================
