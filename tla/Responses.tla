----------------------------- MODULE Responses -----------------------------
(***************************************************************************)
(* One chat request that is answered by a swarm, as a stream or in one     *)
(* piece, from its translation to its settlement (chat_completions in      *)
(* src/gateway/app.py).  The ladder of endpoints that an answer in one     *)
(* piece may take is Dispatch.                                             *)
(***************************************************************************)
EXTENDS Swarm, Stream

CONSTANT Inputs   \* requests

ASSUME InputsAssumption ==
  \A q \in Inputs :
    /\ q.complexity \in Nat /\ q.cost \in Nat /\ q.flagged \in BOOLEAN
    /\ q.tier \in STRING /\ q.access \subseteq STRING /\ q.text \in Seq(Nat)
    /\ q.kind \in Kinds /\ q.wire \in {"openai", "anthropic"} /\ q.stream \in BOOLEAN
    /\ q.events \in Seq([type : EventTypes, reason : STRING \union {None}, tokens : Nat \ {None}])

responses == <<reply, conversation, swarmVars, streamVars>>

ResponsesInit ==
  /\ req \in Inputs
  /\ path = "none" /\ stage = "idle" /\ outcome = None /\ charged = None
  /\ ConversationInit /\ SwarmInit /\ StreamInit

\* The latest message of a user is what is routed: without one, 400.
HasUser == \E i \in DOMAIN Pivot(req) : Pivot(req)[i].role = "user"

Rejected ==
  /\ stage = "idle" /\ ~HasUser
  /\ stage' = "ended" /\ outcome' = "refused" /\ charged' = 0
  /\ UNCHANGED <<req, path, conversation, swarmVars, streamVars>>

\* A request for a stream that is taken by the swarm is answered in one piece.
Choose ==
  /\ stage = "idle" /\ HasUser /\ stage' = "reserving"
  /\ path' = IF ShouldSwarm(req) /\ Accessible(req) THEN "swarm"
             ELSE IF req.stream THEN "stream" ELSE "whole"
  /\ UNCHANGED <<req, outcome, charged, conversation, swarmVars, streamVars>>

\* The reservation is made, and what is sent is ready.
Reserve ==
  /\ stage = "reserving"
  /\ Go(IF path = "swarm" THEN "planning" ELSE "opening")
  /\ sent' = IF path = "swarm" THEN sent ELSE Encode(req.kind, Assemble(req))
  /\ UNCHANGED <<told, swarmVars, streamVars>>

\* The reservation is refused: nothing is booked.
Refuse ==
  /\ stage = "reserving"
  /\ stage' = "ended" /\ outcome' = "refused" /\ charged' = 0
  /\ UNCHANGED <<req, path, conversation, swarmVars, streamVars>>

Settle ==
  /\ stage = "settling"
  /\ stage' = "ended"
  /\ charged' = CASE path = "swarm" -> SwarmCharge [] path = "stream" -> StreamCharge
                                 [] OTHER -> WholeCharge
  /\ UNCHANGED <<req, path, outcome, conversation, swarmVars, streamVars>>

Work ==
  \/ /\ Decompose \/ BeginLayer \/ EndLayer \/ Synthesize
        \/ \E x \in DOMAIN tasks : Finish(x)
     /\ UNCHANGED <<conversation, streamVars>>
  \/ Answer /\ UNCHANGED <<swarmVars, streamVars>>
  \/ /\ Close \/ Break \/ Unprepared \/ \E n \in 1 .. MaxChunk : Receive(n)
     /\ UNCHANGED <<conversation, swarmVars>>

ResponsesNext ==
  \/ Rejected \/ Choose \/ Reserve \/ Refuse \/ Settle \/ Work
  \/ Rebuild /\ UNCHANGED <<conversation, streamVars>>

\* The event loop runs every handler on, and the sessions' time-outs end
\* every call and every stream.
ResponsesFairness ==
  /\ WF_responses(Rejected \/ Choose \/ Reserve \/ Settle)
  /\ WF_responses(Work)

ResponsesSpec == ResponsesInit /\ [][ResponsesNext]_responses /\ ResponsesFairness

-----------------------------------------------------------------------------
\* A run of the swarm is settled at what was used, and a stream at what its
\* decoder, or the search of its chunks, has to say of that.  (A whole answer
\* without a usage object is settled at 0: WholeCharge; nothing is claimed of it.)
Charged == SwarmCharged /\ StreamCharged

\* "execute_swarm must never deadlock" (swarm.py): every request ends, be its
\* plan cyclic, its tiers empty, its clients gone, its stream cut anywhere.
Ended == <>(stage = "ended")
=============================================================================
