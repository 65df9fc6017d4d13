--------------------------------- MODULE Apl ---------------------------------
(***************************************************************************)
(* The policy language APL/1.0 (services/apl): parser, validator, linter,  *)
(* evaluator and semantic difference, as functions of documents and        *)
(* contexts, and the document that is edited from version to version.      *)
(*                                                                         *)
(* A document is what YAML gives: any key may be missing and any condition *)
(* malformed.  Conditions are trees: what is computed along them is a      *)
(* recursive function over them.  A value carries its type, [t |-> "num"   *)
(* or "str" or "list", v |-> ...]; a context is a function from fields to  *)
(* values or Missing.  The operators over substrings are left out.         *)
(***************************************************************************)
EXTENDS Integers, Sequences, FiniteSets, SequencesExt

CONSTANTS
    Documents,      \* documents a behaviour may write
    Conditions,     \* the trees they may hold, with all that is below one
    Depth,          \* Depth[c]: how deep the tree c is
    Contexts,       \* contexts they are evaluated in
    FieldType,      \* SAFE_FIELD_REGISTRY
    MAX_NESTING_DEPTH, MAX_CONDITIONS_PER_RULE, MAX_RULES_PER_POLICY, MAX_LIST_ELEMENTS

VARIABLE document   \* the version in force

Effects == {"ALLOW", "REQUIRE_APPROVAL", "DENY"}
APLOperator == {"eq", "neq", "gt", "gte", "lt", "lte", "in", "not_in", "exists", "not_exists"}
Orderings == {"gt", "gte", "lt", "lte"}
Missing == [t |-> "missing"]
Unconditional == [kind |-> "none"]
Kinds == {"all", "any", "not", "atom", "malformed"}
Children(node) == IF node.kind \in {"all", "any", "not"} THEN {node.of[i] : i \in DOMAIN node.of} ELSE {}

ASSUME ConditionsAssumption ==
    /\ MAX_NESTING_DEPTH \in Nat /\ Depth \in [Conditions -> Nat]
    /\ \A c \in Conditions :
        /\ c.kind \in Kinds /\ \A child \in Children(c) : child \in Conditions /\ Depth[child] < Depth[c]
        /\ c.kind \in {"all", "any", "not"} => c.of \in Seq(Conditions) /\ (c.kind = "not" => Len(c.of) = 1)
        /\ c.kind = "atom" /\ c.value.t = "num" => c.value.v \in Int
ASSUME ContextsAssumption ==
    \A ctx \in Contexts : /\ \A c \in Conditions : c.kind = "atom" => c.field \in DOMAIN ctx
                          /\ \A f \in DOMAIN ctx : ctx[f].t = "num" => ctx[f].v \in Int
ASSUME DocumentsAssumption ==
    \A d \in Documents : /\ DOMAIN d = {"version", "named", "rules", "default", "target"} /\ d.rules \in Seq(Range(d.rules))
                         /\ \A i \in DOMAIN d.rules : d.rules[i].when = Unconditional \/ d.rules[i].when \in Conditions

\* Strictness of a decision; NO_MATCH stops nothing.
Strictness == [NO_MATCH |-> 0, ALLOW |-> 0, REQUIRE_APPROVAL |-> 1, DENY |-> 2]

(***************************************************************************)
(* parse_policy_document.                                                  *)
(***************************************************************************)
Parses(doc) == doc.version = "APL/1.0" /\ doc.named /\ Len(doc.rules) <= MAX_RULES_PER_POLICY

normalized(doc) == [doc EXCEPT !.default = IF @ = "absent" THEN "DENY" ELSE @]

(***************************************************************************)
(* Evaluator.                                                              *)
(***************************************************************************)

\* What an operator says of a field the context does not have.
WhenMissing(op) == op = "not_exists"

evaluate_atomic_condition(atom, ctx) ==
    LET actual == ctx[atom.field]
        expected == atom.value
        same == actual.t = expected.t /\ actual.v = expected.v
        numbers == actual.t = "num" /\ expected.t = "num"
    IN IF actual = Missing THEN WhenMissing(atom.op)
       ELSE \/ atom.op = "exists"
            \/ atom.op = "eq" /\ same
            \/ atom.op = "neq" /\ ~same
            \/ atom.op = "gt" /\ numbers /\ actual.v > expected.v
            \/ atom.op = "gte" /\ numbers /\ actual.v >= expected.v
            \/ atom.op = "lt" /\ numbers /\ actual.v < expected.v
            \/ atom.op = "lte" /\ numbers /\ actual.v <= expected.v
            \/ atom.op = "in" /\ expected.t = "list" /\ actual \in expected.v
            \/ atom.op = "not_in" /\ (expected.t = "list" => actual \notin expected.v)

\* Empty lists and malformed nodes are false, and true under "not".
evaluate_condition_node(node, ctx) ==
    LET holds[n \in Conditions] ==
            \/ n.kind = "all" /\ n.of # <<>> /\ \A i \in DOMAIN n.of : holds[n.of[i]]
            \/ n.kind = "any" /\ \E i \in DOMAIN n.of : holds[n.of[i]]
            \/ n.kind = "not" /\ ~holds[n.of[1]]
            \/ n.kind = "atom" /\ evaluate_atomic_condition(n, ctx)
    IN holds[node]

\* A rule whose conditions are missing or empty matches everything.
Matches(rule, ctx) == rule.when = Unconditional \/ evaluate_condition_node(rule.when, ctx)

OffTarget(ast, ctx) ==
    \E f \in DOMAIN ast.target : ctx[f] # Missing /\ ctx[f] # ast.target[f]

\* Mutant: the first rule that matches decides.
PrecedenceFirst(ast, hit) ==
    IF hit = {} THEN ast.default ELSE ast.rules[CHOOSE i \in hit : \A j \in hit : i <= j].effect

\* Of the rules that match: DENY before REQUIRE_APPROVAL before ALLOW; an effect that is none of
\* them does not count.
Precedence(ast, hit) ==
    LET has(e) == \E i \in hit : ast.rules[i].effect = e IN
    CASE has("DENY") -> "DENY"
      [] ~has("DENY") /\ has("REQUIRE_APPROVAL") -> "REQUIRE_APPROVAL"
      [] ~has("DENY") /\ ~has("REQUIRE_APPROVAL") /\ has("ALLOW") -> "ALLOW"
      [] OTHER -> ast.default

evaluate_apl_policy(ast, ctx) ==
    IF OffTarget(ast, ctx) THEN "NO_MATCH"
    ELSE Precedence(ast, {i \in DOMAIN ast.rules : Matches(ast.rules[i], ctx)})

(***************************************************************************)
(* Validator.                                                              *)
(***************************************************************************)

_validate_operator_type_compatibility(atom) ==
    /\ atom.op \in {"in", "not_in"} => atom.value.t = "list" /\ Cardinality(atom.value.v) <= MAX_LIST_ELEMENTS
    /\ atom.op \in Orderings => /\ FieldType[atom.field] # "STRING"
                                /\ FieldType[atom.field] = "NUMBER" => atom.value.t = "num"

CountConditions(node) ==
    LET count[n \in Conditions] ==
            CASE n.kind \in {"all", "any"} /\ n.of # <<>> -> FoldSeq(LAMBDA child, sum : sum + count[child], 0, n.of)
              [] n.kind = "not" -> count[n.of[1]]
              [] OTHER -> 1
    IN count[node]

_validate_condition_node(node, depth) ==
    LET valid[n \in Conditions] ==
            [d \in 1..(MAX_NESTING_DEPTH + 1) |->
                /\ d <= MAX_NESTING_DEPTH
                /\ \/ n.kind \in {"all", "any"} /\ n.of # <<>> /\ \A i \in DOMAIN n.of : valid[n.of[i]][d + 1]
                   \/ n.kind = "not" /\ valid[n.of[1]][d + 1]
                   \/ /\ n.kind = "atom" /\ n.field \in DOMAIN FieldType /\ n.op \in APLOperator
                      /\ _validate_operator_type_compatibility(n)]
    IN valid[node][depth]

validate(ast) ==
    /\ ast.default \in Effects \cup {"NO_MATCH"}
    /\ \A i, j \in DOMAIN ast.rules : i # j => ast.rules[i].id # ast.rules[j].id
    /\ \A i \in DOMAIN ast.rules :
        /\ ast.rules[i].effect \in Effects
        /\ ast.rules[i].when # Unconditional =>
              /\ _validate_condition_node(ast.rules[i].when, 1)
              /\ CountConditions(ast.rules[i].when) <= MAX_CONDITIONS_PER_RULE

(***************************************************************************)
(* Linter.                                                                 *)
(***************************************************************************)
\* Numbers the conjuncts of the node compare the field with.
Bounds(node, field, ops) ==
    {node.of[i].value.v :
        i \in {j \in DOMAIN node.of : /\ node.of[j].kind = "atom" /\ node.of[j].field = field
                                      /\ node.of[j].op \in ops /\ node.of[j].value.t = "num"}}

\* LINT004_CONTRADICTORY_BOUNDS: the top-level conjunction only.
_check_impossible_bounds(node) ==
    node.kind = "all" /\ \E f \in DOMAIN FieldType :
        \E low \in Bounds(node, f, {"gt", "gte"}), high \in Bounds(node, f, {"lt", "lte"}) : low > high

\* LINT002_DEAD_RULE: rules behind one that matches everything.
DeadRules(ast) == {i \in DOMAIN ast.rules : \E j \in DOMAIN ast.rules : j < i /\ ast.rules[j].when = Unconditional}

(***************************************************************************)
(* compute_policy_diff.                                                    *)
(***************************************************************************)
RuleIds(ast) == {ast.rules[i].id : i \in DOMAIN ast.rules}
\* A later rule replaces an earlier one with its id.
RuleOf(ast, id) == SelectLastInSeq(ast.rules, LAMBDA r : r.id = id)
EffectOf(ast, id) == ast.rules[RuleOf(ast, id)].effect

\* Mutant: rules that are gone do not count.
SensitiveRemovalNone(old, new) == FALSE

SensitiveRemoval(old, new) == \E id \in RuleIds(old) \ RuleIds(new) : EffectOf(old, id) \in {"DENY", "REQUIRE_APPROVAL"}

has_security_sensitive_changes(old, new) ==
    \/ new.default = "ALLOW" /\ old.default # "ALLOW"
    \/ \E id \in RuleIds(new) \ RuleIds(old) : EffectOf(new, id) = "ALLOW"
    \/ SensitiveRemoval(old, new)
    \/ \E id \in RuleIds(old) \cap RuleIds(new) :
        \/ EffectOf(old, id) = "DENY" /\ EffectOf(new, id) # "DENY"
        \/ EffectOf(old, id) = "REQUIRE_APPROVAL" /\ EffectOf(new, id) = "ALLOW"

(***************************************************************************)
(* Versions: any document that parses may follow any other.                *)
(***************************************************************************)
AplInit == document \in {normalized(d) : d \in {x \in Documents : Parses(x) /\ x.rules = <<>>}}

NewVersion == \E d \in Documents : Parses(d) /\ document' = normalized(d)

AplNext == NewVersion

AplSpec == AplInit /\ [][AplNext]_document

-----------------------------------------------------------------------------
(***************************************************************************)
(* Properties.                                                             *)
(***************************************************************************)
Nodes(node) ==
    LET below[n \in Conditions] == {n} \cup UNION {below[child] : child \in Children(n)} IN below[node]
NodesOf(rule) == IF rule.when = Unconditional THEN {} ELSE Nodes(rule.when)

\* A version in force parses, has an effect by default and rules with conditions.
AplTypeOK ==
    /\ Parses(document) /\ document.default # "absent"
    /\ \A i \in DOMAIN document.rules : document.rules[i].when = Unconditional \/ document.rules[i].when \in Conditions

\* The decision of evaluate_apl_policy does not depend on the order of the rules.
OrderFree ==
    \A ctx \in Contexts :
        evaluate_apl_policy(document, ctx) = evaluate_apl_policy([document EXCEPT !.rules = Reverse(@)], ctx)

\* A document the validator accepts has no condition on which the evaluator falls back to false:
\* nothing malformed or empty, no operator it does not know, no list operator without a list.
\* (Under "not" such a condition would match everything.)
ValidNeverFallsBack ==
    validate(document) =>
        \A i \in DOMAIN document.rules : \A n \in NodesOf(document.rules[i]) :
            /\ n.kind # "malformed"
            /\ n.kind \in {"all", "any"} => n.of # <<>>
            /\ n.kind = "atom" => n.op \in APLOperator /\ (n.op \in {"in", "not_in"} => n.value.t = "list")

\* An allow-list fails closed: when every rule is an ALLOW without "not" and "not_exists", taking a
\* field out of the context never turns a refusal into an ALLOW.  (A DENY rule on the field that is
\* missing does not match: deny-lists fail open.)
AllowListFailsClosed ==
    LET positive == \A i \in DOMAIN document.rules :
            /\ document.rules[i].effect = "ALLOW"
            /\ \A n \in NodesOf(document.rules[i]) : n.kind # "not" /\ (n.kind = "atom" => n.op # "not_exists")
    IN positive /\ document.default = "DENY" /\ document.target = <<>> =>
        \A ctx \in Contexts : \A f \in DOMAIN ctx :
            evaluate_apl_policy(document, ctx) = "DENY" =>
                evaluate_apl_policy(document, [ctx EXCEPT ![f] = Missing]) = "DENY"

\* A rule the linter reports for contradictory bounds matches no context.
ContradictionsNeverMatch ==
    \A i \in DOMAIN document.rules : \A ctx \in Contexts :
        LET r == document.rules[i] IN
        r.when # Unconditional /\ _check_impossible_bounds(r.when) => ~Matches(r, ctx)

\* A rule the linter calls unreachable may still decide, but only by being stricter than the rule
\* that is said to hide it: the evaluator does not stop at the first match.  (A rule with an effect
\* that is none hides nothing.)
DeadRulesOnlyTighten ==
    \A i \in DeadRules(document) : \A ctx \in Contexts :
        (\A j \in DOMAIN document.rules : document.rules[j].effect \in Effects) =>
        LET without == [document EXCEPT !.rules = RemoveAt(@, i)] IN
        Strictness[evaluate_apl_policy(document, ctx)] >= Strictness[evaluate_apl_policy(without, ctx)]

\* What the comparison of two versions does not look at, and whether some context fares better.
Unseen(old, new) ==
    \/ \E id \in RuleIds(old) \cap RuleIds(new) : old.rules[RuleOf(old, id)].when # new.rules[RuleOf(new, id)].when
    \/ \E id \in RuleIds(new) \ RuleIds(old) : EffectOf(new, id) = "REQUIRE_APPROVAL"
    \/ new.default # old.default /\ new.default # "ALLOW"
    \/ new.target # old.target
Weaker(old, new) ==
    \E ctx \in Contexts : Strictness[evaluate_apl_policy(new, ctx)] < Strictness[evaluate_apl_policy(old, ctx)]

\* A new version with which some context fares better than before is reported as security sensitive
\* when both are valid (the comparison sees one rule per id; it is also made of versions that are not),
\* unless a condition was changed, an approval rule was added or the default was relaxed to approval
\* or to NO_MATCH: those the comparison does not see.
WeakeningReported ==
    [][/\ validate(document) /\ validate(document')
       /\ ~Unseen(document, document') /\ Weaker(document, document')
       => has_security_sensitive_changes(document, document')]_document

\* A policy means one thing: its decision does not depend on the order of its rules, a document
\* that validates is never evaluated to the fallback, an allow-list refuses what it lacks, a
\* contradiction the validator reports never matches, and a rule the linter calls unreachable
\* can only tighten the decision.
PolicyReadsTrue ==
    /\ AplTypeOK /\ OrderFree /\ ValidNeverFallsBack /\ AllowListFailsClosed
    /\ ContradictionsNeverMatch /\ DeadRulesOnlyTighten
=============================================================================
