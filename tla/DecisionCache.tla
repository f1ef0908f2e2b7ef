--------------------------- MODULE DecisionCache ---------------------------
(***************************************************************************)
(* PEP decisions (qid-proxy pep_decision.rs) by the native policy engine   *)
(* (qid-policy native.rs), with the decision cache (qid-core state.rs).    *)
(*                                                                         *)
(* A process keeps one compiled policy bundle, whichever realm's was       *)
(* loaded last, and the name of that bundle is the policy revision in the  *)
(* cache key of every realm's requests.  Neither the realm of the request  *)
(* nor its roles, entitlements and risk score are in the key: the          *)
(* registration's name and the keyed material are.  The model follows each *)
(* cached decision to the request it was made for.                         *)
(***************************************************************************)
EXTENDS Clock, Sequences, SequencesExt

CONSTANTS
    Realms,
    Processes,
    PepChecks,      \* requests
    Registrations,  \* <<realm, name>>
    Inputs,         \* <<material in the cache key, material that is not>>
    Requests,       \* <<registration, input>>
    Bundle,         \* each realm's bundle: its rules and default decision
    Fallback,       \* each realm's configured default decision
    PositiveTtl,    \* of each registration
    NegativeTtl,
    FailOpen,       \* registrations with fail_policy "allow"
    RiskyKeys,      \* keyed material for which the risk advisory says bypass
    Shared,         \* the shared cache
    NoRevision

ASSUME DecisionAssumption ==
    /\ Registrations \subseteq Realms \X {reg[2] : reg \in Registrations}
    /\ Requests \subseteq Registrations \X Inputs
    /\ PositiveTtl \in [Registrations -> Nat] /\ NegativeTtl \in [Registrations -> Nat]
    /\ FailOpen \subseteq Registrations
    /\ Shared \notin Processes /\ NoRevision \notin Realms

VARIABLES
    bundled,        \* realms whose bundle is stored
    policySlot,     \* policy_bundle_cache: the realm whose bundle it holds
    cached,         \* decision_cache of each process, and the shared cache
    pepCheck

decisionVars == <<now, bundled, policySlot, cached, pepCheck>>

Decision == {"allow", "deny", "step_up", "audit_only", "quarantine"}

\* A rule of a compiled bundle, and the bundles and defaults as they are
\* configured.
Rule == [type: {"forbid", "step_up", "allow"}, on: SUBSET Inputs,
         relation: {"any", "related", "unrelated"}, bypass: {"unset", "yes", "no"}]
ASSUME BundleAssumption ==
    /\ Bundle \in [Realms -> [default: Decision, rules: Seq(Rule)]]
    /\ Fallback \in [Realms -> Decision]

\* What a decision was made from: a history of the cached response.
Origin == [reg: Registrations, input: Inputs, bundled: BOOLEAN, matching: SUBSET Nat, at: Nat]

NoDecision == [decision |-> "refused"]
Places == Processes \cup {Shared}

IsEntry(e) ==
    /\ DOMAIN e = {"place", "key", "answer", "until"}
    /\ e.place \in Places /\ e.until \in Nat
    /\ e.answer.decision \in Decision /\ e.answer.origin \in Origin

DecisionTypeOK ==
    /\ bundled \subseteq Realms /\ policySlot \in [Processes -> Realms \cup {NoRevision}]
    /\ \A e \in cached : IsEntry(e)
    /\ \A e, f \in cached : e.place = f.place /\ e.key = f.key => e = f
    /\ \A c \in PepChecks :
          /\ pepCheck[c].pc \in {"idle", "load", "decide", "answered", "cached"}
          /\ pepCheck[c].pc # "idle" =>
                pepCheck[c].reg \in Registrations /\ pepCheck[c].input \in Inputs

DecisionInit ==
    /\ now = 0 /\ bundled \in SUBSET Realms
    /\ policySlot \in [Processes -> bundled \cup {NoRevision}] /\ cached = {}
    /\ pepCheck = [c \in PepChecks |-> [pc |-> "idle", answer |-> NoDecision]]

-----------------------------------------------------------------------------
\* Mutant: the key leaves out the registration.
KeyWithoutName(revision, reg, in) == <<revision, in[1]>>

\* pep_decision_cache_key; there is none before a bundle is loaded.
DecisionKey(revision, reg, in) ==
    IF revision = NoRevision THEN <<>> ELSE <<revision, reg[2], in[1]>>

LiveAt(place, key) == {e \in cached : e.place = place /\ e.key = key /\ e.until > now}

\* decision_cache_get: the process's own entry, or else the shared one.  Each
\* cache may have dropped its entry, or fail.
Cached(p, key) == IF key = <<>> THEN {} ELSE LiveAt(p, key) \cup LiveAt(Shared, key)

\* A request on behalf of an authenticated registration.
Asked(endpoint, p, req, key) ==
    [pc |-> "load", endpoint |-> endpoint, at |-> now, process |-> p, reg |-> req[1],
     input |-> req[2], key |-> key, bundled |-> FALSE, answer |-> NoDecision]

\* An internal or storage error: the decision endpoint answers allow for a
\* registration that opted in, and caches nothing.
ErrorAnswer(endpoint, reg) ==
    [decision |-> IF reg \in FailOpen /\ endpoint = "decision" THEN "fail_open" ELSE "refused"]

\* do_check: the cache is looked up first.  A shared entry of another version
\* of the program may not be a response this one can read.
LookUp(c) ==
    /\ pepCheck[c].pc = "idle"
    /\ \E p \in Processes, req \in Requests :
          LET asked == Asked("decision", p, req, DecisionKey(policySlot[p], req[1], req[2])) IN
          \/ pepCheck' = [pepCheck EXCEPT ![c] = asked]
          \/ \E e \in Cached(p, asked.key) :
                pepCheck' = [pepCheck EXCEPT ![c] =
                                [asked EXCEPT !.pc = "cached", !.answer = e.answer]]
          \/ /\ LiveAt(Shared, asked.key) # {}
             /\ pepCheck' = [pepCheck EXCEPT ![c] =
                    [asked EXCEPT !.pc = "answered", !.answer = ErrorAnswer("decision", req[1])]]
    /\ UNCHANGED <<now, bundled, policySlot, cached>>

\* do_authzen_evaluate: the same engine without the decision cache.
Evaluate(c) ==
    /\ pepCheck[c].pc = "idle"
    /\ \E p \in Processes, req \in Requests :
          pepCheck' = [pepCheck EXCEPT ![c] = Asked("authzen", p, req, <<>>)]
    /\ UNCHANGED <<now, bundled, policySlot, cached>>

\* load_policy_engine: the bundle in the slot when it is the realm's, else the
\* stored one, which takes the slot, else the realm's default.
LoadEngine(c) ==
    LET p == pepCheck[c].process
        realm == pepCheck[c].reg[1]
        hit == policySlot[p] = realm
    IN  /\ pepCheck[c].pc = "load"
        /\ pepCheck' = [pepCheck EXCEPT ![c].pc = "decide", ![c].bundled = hit \/ realm \in bundled]
        /\ policySlot' = IF realm \in bundled THEN [policySlot EXCEPT ![p] = realm] ELSE policySlot
        /\ UNCHANGED <<now, bundled, cached>>

\* The repository fails.
LoadFails(c) ==
    /\ pepCheck[c].pc = "load" /\ policySlot[pepCheck[c].process] # pepCheck[c].reg[1]
    /\ pepCheck' = [pepCheck EXCEPT ![c].pc = "answered",
           ![c].answer = ErrorAnswer(pepCheck[c].endpoint, pepCheck[c].reg)]
    /\ UNCHANGED <<now, bundled, policySlot, cached>>

-----------------------------------------------------------------------------
RulesOf(realm, isBundled) == IF isBundled THEN Bundle[realm].rules ELSE <<>>
DefaultOf(realm, isBundled) == IF isBundled THEN Bundle[realm].default ELSE Fallback[realm]

\* rule_matches: every condition is established.  A relation is what the
\* ReBAC check said for this rule, unknown when it failed; a rule may ask for
\* it or for its negation.
RuleMatches(rule, in, relation) == in \in rule.on /\ rule.relation \in {"any", relation}

\* The rules that would match, if all were evaluated, for the relations found.
Matching(rules, in, relations) ==
    {i \in DOMAIN rules : RuleMatches(rules[i], in, relations[i])}

KindOrder == <<"forbid", "step_up", "allow">>
DecisionOfKind == [forbid |-> "deny", step_up |-> "step_up", allow |-> "allow"]

\* decide: the first match of the first loop that has one; 0 is the default.
Decisive(rules, matching) ==
    LET of(k) == {i \in matching : rules[i].type = KindOrder[k]}
        first == {k \in DOMAIN KindOrder : of(k) # {} /\ \A l \in 1..(k - 1) : of(l) = {}}
    IN  IF first = {} THEN 0 ELSE Min(UNION {of(k) : k \in first})

Positive == {"allow", "audit_only", "quarantine"}
LifetimeOf(reg, decision) == IF decision \in Positive THEN PositiveTtl[reg] ELSE NegativeTtl[reg]

\* The rule's word on caching, and without one the risk advisory's.
Bypassed(rules, i, in) ==
    IF i = 0 \/ rules[i].bypass = "unset" THEN in[1] \in RiskyKeys ELSE rules[i].bypass = "yes"

\* decision_cache_put: the shared cache, then the process's own.
Stored(p, key, answer, ttl) ==
    {e \in cached : ~(e.key = key /\ e.place \in {p, Shared})} \cup
    {[place |-> place, key |-> key, answer |-> answer, until |-> now + ttl] : place \in {p, Shared}}

Decide(c) ==
    LET ck == pepCheck[c]
        rules == RulesOf(ck.reg[1], ck.bundled)
    IN  ck.pc = "decide" /\ \E relations \in [DOMAIN rules -> {"related", "unrelated", "unknown"}] :
           LET matching == Matching(rules, ck.input, relations)
               i == Decisive(rules, matching)
               decision == IF i = 0 THEN DefaultOf(ck.reg[1], ck.bundled)
                           ELSE DecisionOfKind[rules[i].type]
               answer == [decision |-> decision,
                          origin |-> [reg |-> ck.reg, input |-> ck.input, bundled |-> ck.bundled,
                                      matching |-> matching, at |-> now]]
               ttl == LifetimeOf(ck.reg, decision)
           IN  /\ pepCheck' = [pepCheck EXCEPT ![c].pc = "answered", ![c].answer = answer]
               /\ cached' = IF ck.key # <<>> /\ ttl > 0 /\ ~Bypassed(rules, i, ck.input)
                            THEN Stored(ck.process, ck.key, answer, ttl) ELSE cached
               /\ UNCHANGED <<now, bundled, policySlot>>

\* An obligation that the adapter cannot take refuses the request.
ObligationFails(c) ==
    /\ pepCheck[c].pc = "decide"
    /\ pepCheck' = [pepCheck EXCEPT ![c].pc = "answered"]
    /\ UNCHANGED <<now, bundled, policySlot, cached>>

-----------------------------------------------------------------------------
\* An instance that starts seeds a bundle its configuration has and the
\* repository has not.
SeedBundle ==
    /\ \E r \in Realms \ bundled : bundled' = bundled \cup {r}
    /\ UNCHANGED <<now, policySlot, cached, pepCheck>>

DecisionTick == Tick /\ UNCHANGED <<bundled, policySlot, cached, pepCheck>>

DecisionNext ==
    \/ SeedBundle \/ DecisionTick
    \/ \E c \in PepChecks :
          \/ LookUp(c) \/ Evaluate(c) \/ LoadEngine(c) \/ LoadFails(c)
          \/ Decide(c) \/ ObligationFails(c)

DecisionSpec == DecisionInit /\ [][DecisionNext]_decisionVars

-----------------------------------------------------------------------------
\* What the policy of the origin's realm says: a forbid rule that matches
\* wins over every other, a step-up rule over an allow rule, and the default
\* decides only without any match.
Justified(answer) ==
    LET o == answer.origin
        types == {RulesOf(o.reg[1], o.bundled)[i].type : i \in o.matching}
    IN  CASE "forbid" \in types -> answer.decision = "deny"
          [] types = {"allow"} -> answer.decision = "allow"
          [] types = {} -> answer.decision = DefaultOf(o.reg[1], o.bundled)
          [] OTHER -> answer.decision = "step_up"

NameIsUnique(reg) == \A other \in Registrations : other[2] = reg[2] => other = reg

\* An evaluated decision is what the policy says of the request itself.  One
\* from the cache was justified when it was made: for this very registration,
\* if no other realm registers its name, for the same keyed material, and, if
\* it is no quarantine, no longer ago than the lifetime of such a decision.
\* Under a key with its own realm's revision it was made by that realm's bundle
\* and not by the configured default, although key and engine are read at
\* different moments and another realm's request may change the slot between
\* them.  The two exceptions are the code's own: see the next property.
AnswersAreOfThePolicy ==
    \A c \in PepChecks :
       LET ck == pepCheck[c]
           o == ck.answer.origin
       IN
       ck.answer.decision \in Decision =>
          /\ Justified(ck.answer)
          /\ ck.pc = "answered" => o.reg = ck.reg /\ o.input = ck.input
          /\ ck.pc = "cached" =>
                /\ NameIsUnique(ck.reg) => o.reg = ck.reg
                /\ o.input[1] = ck.input[1]
                /\ ck.answer.decision # "quarantine" =>
                      ck.at < o.at + LifetimeOf(o.reg, ck.answer.decision)
                /\ ck.key[1] = o.reg[1] => o.bundled

\* docs/README.md makes the realm the boundary of policy bundles and PEP
\* registrations, and docs/configuration.md gives a quarantine, as a refusal,
\* the negative lifetime.  Each alone implies that a quarantine past that
\* lifetime is not served to another realm; the cache key (decision.rs) has no
\* realm, and Decision::cache_class (models.rs) gives a quarantine the positive
\* lifetime.
OldQuarantineStaysInItsRealm ==
    \A c \in PepChecks :
       LET ck == pepCheck[c]
           o == ck.answer.origin
       IN
       ck.pc = "cached" /\ ck.answer.decision = "quarantine" =>
          o.reg[1] = ck.reg[1] \/ ck.at < o.at + NegativeTtl[o.reg]
=============================================================================
