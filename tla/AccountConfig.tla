--------------------------- MODULE AccountConfig ---------------------------
(***************************************************************************)
(* What the approvals promise about an account's configuration, without    *)
(* the tables and threads: it changes only when a request that was made is *)
(* granted, by the whole effect of that request, and a capability that is  *)
(* deprecated is not bound any more.  Approval implements it.  The effects *)
(* are those of core/approval.py.                                          *)
(***************************************************************************)
CONSTANTS Requests, Payloads, NoPayload, Capabilities

VARIABLES cfg,          \* [cap, gran, exempt, bound] of the account
          deprecated,   \* capabilities.status = deprecated
          asked,        \* the payload of each request
          granted       \* the requests whose effect has been applied

vars == <<cfg, deprecated, asked, granted>>

InitialConfig == [cap |-> "full", gran |-> "eod_replay", exempt |-> {}, bound |-> {}]

Init == /\ cfg = InitialConfig /\ deprecated = {}
        /\ asked = [r \in Requests |-> NoPayload] /\ granted = {}

\* _effect_capability refuses a deprecated capability, inside the transaction.
Refused(p) == p.type = "capability" /\ p.value \in deprecated

EffectMutOverwrite(p) ==
    CASE p.type = "risk" -> [cfg EXCEPT !.cap = p.value]
      [] p.type = "granularity" -> [cfg EXCEPT !.gran = p.value]
      [] p.type = "exemption" -> [cfg EXCEPT !.exempt = {p.value}]
      [] p.type = "capability" -> [cfg EXCEPT !.bound = @ \cup {p.value}]
      [] OTHER -> cfg
\* The effect of each type; a launch or a task has none.
Effect(p) ==
    CASE p.type = "risk" -> [cfg EXCEPT !.cap = p.value]
      [] p.type = "granularity" -> [cfg EXCEPT !.gran = p.value]
      [] p.type = "exemption" -> [cfg EXCEPT !.exempt = @ \cup {p.value}]
      [] p.type = "capability" -> [cfg EXCEPT !.bound = @ \cup {p.value}]
      [] OTHER -> cfg

Ask(r, p) == /\ asked[r] = NoPayload /\ asked' = [asked EXCEPT ![r] = p]
             /\ UNCHANGED <<cfg, deprecated, granted>>
Grant(r) == /\ asked[r] # NoPayload /\ ~Refused(asked[r])
            /\ cfg' = Effect(asked[r]) /\ granted' = granted \cup {r}
            /\ UNCHANGED <<deprecated, asked>>
\* capability_center.unbind and deprecate
Unbind(k) == /\ cfg' = [cfg EXCEPT !.bound = @ \ {k}]
             /\ UNCHANGED <<deprecated, asked, granted>>
Deprecate(k) == /\ deprecated' = deprecated \cup {k}
                /\ UNCHANGED <<cfg, asked, granted>>

Next == \/ \E r \in Requests : Grant(r) \/ \E p \in Payloads : Ask(r, p)
        \/ \E k \in Capabilities : Unbind(k) \/ Deprecate(k)
Spec == Init /\ [][Next]_vars
=============================================================================
