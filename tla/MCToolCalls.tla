---------------------------- MODULE MCToolCalls ----------------------------
(***************************************************************************)
(* One name that a tool and an agent share, asked for with one key; its    *)
(* answer is cached for two ticks.  Contents: "u" and "w" are sound, but a  *)
(* text "w" is stored as "u"; "v" is kept out by the scan, and "y" has a    *)
(* type that no agent may have.  Any of them can be written by hand.       *)
(***************************************************************************)
EXTENDS ToolCalls

Item(kind) == [kind |-> kind, name |-> "x"]
MCItems == {Item(Order[i]) : i \in DOMAIN Order}
MCItemsOf == [x |-> [tool |-> Item("tools"), agent |-> Item("agents")]]
MCKeys == {[tool |-> "x", args |-> "plain", tenant |-> "t1"]}
MCTtl == [x |-> 2]
Offer(content, enabled) == [content |-> content, enabled |-> enabled]
MCOfferValues ==
  [a \in MCItems |->
     CASE a.kind = "agents"  -> {Offer("u", None), Offer(None, FALSE), Offer("y", None)}
       [] a.kind = "servers" -> {Offer("u", None), Offer("w", None)}
       [] a.kind = "tools"   -> {Offer("w", None)}
       [] a.kind = "prompts" -> {Offer("u", None), Offer("v", TRUE)}]
MCCleaned == [c \in {"u", "v", "w", "y"} |-> IF c = "w" THEN "u" ELSE c]
MCWritable == [content : {"u"}, enabled : BOOLEAN] \union [content : {"v", "y", None}, enabled : {TRUE}]
MCFirstOffers == {[a \in MCItems |-> IF a.kind = "tools" THEN None ELSE Offer("u", None)]}
=============================================================================
