------------------------------- MODULE ApiService -------------------------------
(***************************************************************************)
(* The endpoints that cost LLM calls: the limiter in front of them, the    *)
(* event streams of /chat and a thread of /agent and /agent/confirm.  The  *)
(* limiter decides whether a request comes in at all and shares no state   *)
(* with what the request does then, nor do a stream and an agent thread    *)
(* share any, so that a behaviour of the service is an interleaving of     *)
(* theirs.                                                                 *)
(***************************************************************************)
EXTENDS RateLimit, ChatStream, AgentConfirm

serviceVars == <<limiterVars, streamVars, vars>>

\* The types of the limiter and the streams; the agent thread's are AgentConfirm's.
RoutesTypeOK == LimiterTypeOK /\ StreamTypeOK

ServiceInit == LimiterInit /\ StreamInit /\ Init

--------------------------------------------------------------------------------
\* Bound: one part at a time leaves its first state.  A restart of the service
\* leaves a part alone that is in it, and so is the restart of the part that is not.

LimiterStep ==
    /\ StreamInit /\ Init
    /\ LimiterNext
    /\ UNCHANGED <<streamVars, vars>>

OnlyStreams == LimiterInit /\ Init /\ UNCHANGED <<limiterVars, vars>>

StreamStep == OnlyStreams /\ StreamNext

ThreadStep ==
    /\ LimiterInit /\ StreamInit
    /\ Next
    /\ UNCHANGED <<limiterVars, streamVars>>

ServiceNext == LimiterStep \/ StreamStep \/ ThreadStep

\* Every provider call and every search has a timeout, its own or its client's.
ServiceSpec ==
    /\ ServiceInit /\ [][ServiceNext]_serviceVars
    /\ \A r \in Requests : WF_serviceVars(OnlyStreams /\ Advance(r))
================================================================================
