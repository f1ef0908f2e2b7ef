-------------------------- MODULE MCDecisionCache --------------------------
(***************************************************************************)
(* Two realms' policies and PEP registrations for the decision cache.      *)
(***************************************************************************)
EXTENDS DecisionCache

\* Two realms with a registration of the same name, and one of another.  The
\* inputs differ in what the key has, in what it has not, or in both.
MCRegistrations == {<<"r1", "n1">>, <<"r2", "n1">>, <<"r2", "n2">>}
MCInputs == {<<"k1", "u1">>, <<"k1", "u2">>, <<"k2", "u1">>}
MCRequests ==
    {<<<<"r1", "n1">>, <<"k1", "u1">>>>, <<<<"r1", "n1">>, <<"k1", "u2">>>>,
     <<<<"r1", "n1">>, <<"k2", "u1">>>>, <<<<"r2", "n1">>, <<"k1", "u2">>>>,
     <<<<"r2", "n2">>, <<"k1", "u1">>>>}

MCRule(type, on, relation, bypass) ==
    [type |-> type, on |-> on, relation |-> relation, bypass |-> bypass]

\* One realm's rules in an order that is not the order of their precedence,
\* and a rule of the other that only an established non-relation satisfies.
MCBundle ==
    [r1 |-> [default |-> "quarantine", rules |->
                <<MCRule("allow", {<<"k1", "u1">>, <<"k2", "u1">>}, "any", "unset"),
                  MCRule("forbid", {<<"k1", "u1">>, <<"k1", "u2">>}, "related", "unset")>>],
     r2 |-> [default |-> "deny", rules |->
                <<MCRule("step_up", {<<"k1", "u1">>}, "unrelated", "yes"),
                  MCRule("allow", {<<"k1", "u1">>, <<"k1", "u2">>}, "any", "no")>>]]
MCFallback == [r1 |-> "deny", r2 |-> "audit_only"]
MCPositiveTtl == [reg \in MCRegistrations |-> IF reg[2] = "n1" THEN 2 ELSE 1]
MCNegativeTtl == [reg \in MCRegistrations |-> IF reg[1] = "r1" THEN 1 ELSE 0]
MCFailOpen == {<<"r1", "n1">>}
=============================================================================
