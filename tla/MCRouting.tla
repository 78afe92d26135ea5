----------------------------- MODULE MCRouting -----------------------------
(* Three ordinary tiers with endpoints, one without, and a tier for images. *)
EXTENDS Routing

CONSTANTS small, large, eyes, far

MCOrder == <<"tier0", "tier2", "tier3", "vision", "tier5">>

MCTierOf(o, v, c, b, es) ==
  [override |-> o, vision |-> v, context |-> c, bump |-> b, endpoints |-> es]

MCTier ==
  [t \in Range(MCOrder) |->
     CASE t = "tier0"  -> MCTierOf(FALSE, FALSE, 20, 0, <<small, large>>)
       [] t = "tier2"  -> MCTierOf(FALSE, FALSE, 40, 8, <<large>>)
       [] t = "tier3"  -> MCTierOf(FALSE, FALSE, 80, 8, <<far, eyes>>)
       [] t = "vision" -> MCTierOf(TRUE, TRUE, 40, 0, <<eyes>>)
       [] t = "tier5"  -> MCTierOf(FALSE, FALSE, 20, 0, <<>>)]

MCEndpoint ==
  [e \in Endpoints |->
     CASE e = small -> [context |-> 16, success |-> 70]
       [] e = large -> [context |-> 64, success |-> 80]
       [] e = eyes  -> [context |-> 64, success |-> 90]
       [] e = far   -> [context |-> 80, success |-> 50]]

\* The prices of small and large are within five percent in tier0.
MCCost ==
  [t \in Range(MCOrder) |->
     [e \in Endpoints |->
        CASE e = small -> 100
          [] e = large -> IF t = "tier0" THEN 104 ELSE 102
          [] e = eyes  -> 200
          [] e = far   -> 90]]

MCCapable == [v \in {"code", "chat"} |->
                IF v = "chat" THEN {"tier0", "tier2", "tier5"} ELSE {"tier2", "tier3"}]

MCSignals == << <<"medical", "vision">>, <<"override", "tier3">> >>

\* A small request, one beyond the small model, one beyond tier2, two whose
\* memory asks for a redirect that holds one of them, one that no tier holds.
MCInputs ==
  LET Sized(i, o, m) == [in |-> i, out |-> o, memory |-> m]
      sizes == {Sized(4, 4, 0), Sized(12, 2, 0), Sized(28, 6, 4), Sized(36, 6, 32),
                Sized(50, 14, 32), Sized(64, 4, 64)}
      kinds == [model : {None, large}, image : {FALSE}, signals : {{}},
                vertical : {"code", "chat"}, doubt : BOOLEAN, dedicated : {None}]
        \union [model : {None}, image : {TRUE}, signals : {{}},
                vertical : {"chat"}, doubt : {FALSE}, dedicated : {None}]
        \union [model : {None}, image : {FALSE}, signals : {{"medical"}, {"override"}},
                vertical : {"chat"}, doubt : {FALSE}, dedicated : {None}]
        \union [model : {None}, image : {FALSE}, signals : {{}},
                vertical : {"chat"}, doubt : {FALSE}, dedicated : {"tier0", "tier5"}]
  IN  {[k \in DOMAIN s \union DOMAIN d |-> IF k \in DOMAIN s THEN s[k] ELSE d[k]] :
         s \in sizes, d \in kinds}

MCAccesses == {Range(MCOrder), {"tier0", "tier3", "tier4"}, {}}
MCPlans == {None, {small, large}}
MCBudgets == {[e \in Endpoints |-> None],
              [e \in Endpoints |-> IF e = far THEN 10 ELSE 100]}
MCOutages == {{}, {small}, {large}, {far, eyes}, Endpoints}
MCLoads == {[e \in Endpoints |-> 0], [e \in Endpoints |-> IF e = small THEN 2 ELSE 1]}
MCLasts == {None, "tier2"}
=============================================================================
