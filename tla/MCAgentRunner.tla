---------------------------- MODULE MCAgentRunner ----------------------------
(***************************************************************************)
(* Small instances of AgentRunner.  Two tools with adapters and one        *)
(* without; bots b1 (allowed t1) and b2 (allowed t2 and the tool without   *)
(* an adapter); b3 is never registered.                                    *)
(***************************************************************************)
EXTENDS AgentRunner, TLC

CONSTANTS t1, t2, t3, b1, b2, b3

MCTools == {t1, t2, t3}
MCBots == {b1, b2, b3}
MCRegistered == {t1, t2}
MCScope == (b1 :> {t1}) @@ (b2 :> {t2, t3}) @@ (b3 :> {t1, t2})

\* The tools allowed when no bot is active are t1 and t2.
Config(bots, b, m) == [registered |-> bots, bot |-> b, allowed |-> {t1, t2}, maxSteps |-> m]

Say(kind) == [kind |-> kind, arg |-> None]
CallFor(t) == [kind |-> "tool", arg |-> t]
HandTo(b) == [kind |-> "handoff", arg |-> b]

\* Processes that differ in budget and registry resume each other's run; one
\* handoff and a tool call after it fit into five steps.  Of the outputs that
\* only make the engine ask again, a call out of scope stands for all.
RunnerConfigs == {Config({b1, b2}, b1, 5), Config({}, None, 2), Config({b1, b2}, b2, 1)}
RunnerOutputs == {CallFor(t1), CallFor(t3), HandTo(b2), HandTo(b3), Say("done")}

\* Processes that all know the bots, for the liveness run.
LiveConfigs == {Config({b1, b2}, None, m) : m \in {2, 3}}
LiveOutputs == {CallFor(t1), CallFor(t2), Say("malformed_tool")}

\* One runner object used for two runs; its policy allows t1 only.
ReuseConfigs == {[Config({b1, b2}, None, 3) EXCEPT !.allowed = {t1}]}
ReuseOutputs == {CallFor(t2), HandTo(b2)}
=============================================================================
