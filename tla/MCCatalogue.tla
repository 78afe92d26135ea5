---------------------------- MODULE MCCatalogue ----------------------------
(* One model that two providers offer; the better score gives a tier that   *)
(* is not configured.                                                       *)
EXTENDS Catalogue

MCEntries == {[model |-> "a", provider |-> "p"], [model |-> "a", provider |-> "q"]}
MCNameOf == [m \in {"a"} |-> m]
MCModelOrder == <<"a">>
MCFirstOffers == {[e \in MCEntries |-> 30]}
=============================================================================
