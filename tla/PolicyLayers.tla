----------------------------- MODULE PolicyLayers -----------------------------
(***************************************************************************)
(* The layers and the rule packs of a policy (core/policy.ts,              *)
(* policy-layers.ts, policy-values.ts, provider-trust.ts).  The layers are *)
(* merged one after the other, and with each field the name of the layer   *)
(* that it is from; what is wrong is a diagnostic, the resolution goes on  *)
(* to the next place where it looks at its diagnostics, and stops there.   *)
(*                                                                         *)
(* One field of each kind stands for its likes: "class" and "packs" for    *)
(* what a layer replaces, "concurrency", which the safety invariants       *)
(* bound, "name" and "model" of the provider, and "override" for what is   *)
(* merged by key: the level that a layer gives to the rule Overridden.     *)
(***************************************************************************)
EXTENDS Naturals, FiniteSets

CONSTANTS
  Builtin,      \* profiles/default.yaml
  Layers,       \* what a layer may be; not ok: invalid, or named but missing
  Pack,         \* Pack[p]: the rules of pack p, or None where it has no file
  Overridden,   \* the rule that "override" is about
  Trusted,      \* the catalog: [name, model], with model None for a model policy
  None

VARIABLES
  layer,        \* layer[s]: the layer of source s, or None
  pc,
  next,         \* the place in Order of the layer whose turn it is
  merged,
  origins,      \* origins[field]
  pending,      \* the packs that are still to be loaded
  rules,
  diagnosed     \* there is a diagnostic

vars == <<layer, pc, next, merged, origins, pending, rules, diagnosed>>

Field == {"class", "packs", "concurrency", "name", "model", "override"}
Order == <<"built-in-defaults", "user-defaults", "repository-profile", "invocation">>
Source == {Order[n] : n \in 1 .. 4}

Nothing == [f \in Field |-> None]

TypeOK ==
  /\ layer \in [Source -> Layers \cup {Builtin, None}]
  /\ pc \in {"layers", "packs", "effective", "invalid"}
  /\ next \in 1 .. 5
  /\ DOMAIN merged = Field
  /\ origins \in [Field -> Source \cup {"safety-invariants", None}]
  /\ pending \subseteq DOMAIN Pack
  /\ rules \subseteq UNION {Pack[p] : p \in {q \in DOMAIN Pack : Pack[q] # None}}
  /\ diagnosed \in BOOLEAN

Merge(target, l) == [f \in Field |-> IF l[f] = None THEN target[f] ELSE l[f]]

\* Mutated: a field keeps the origin that it has had first.
RecordOriginsOnce(l, s) ==
  [f \in Field |-> IF l[f] = None \/ origins[f] # None THEN origins[f] ELSE s]

RecordOrigins(l, s) == [f \in Field |-> IF l[f] = None THEN origins[f] ELSE s]

Init ==
  /\ layer \in {l \in [Source -> Layers \cup {Builtin, None}] : l["built-in-defaults"] = Builtin}
  /\ pc = "layers"
  /\ next = 1
  /\ merged = Nothing
  /\ origins = Nothing
  /\ pending = {}
  /\ rules = {}
  /\ diagnosed = FALSE

\* resolvePolicyLayers: a layer that is not valid is left out, and diagnosed.
MergeLayer ==
  /\ pc = "layers"
  /\ next <= 4
  /\ next' = next + 1
  /\ LET s == Order[next]
         l == layer[s]
     IN IF l # None /\ l.ok
        THEN /\ merged' = Merge(merged, l.sets)
             /\ origins' = RecordOrigins(l.sets, s)
             /\ UNCHANGED diagnosed
        ELSE /\ diagnosed' = (diagnosed \/ l # None)
             /\ UNCHANGED <<merged, origins>>
  /\ UNCHANGED <<layer, pc, pending, rules>>

(* applySafetyInvariants and validateTrustedProviderSelection.             *)

Asked == IF merged["concurrency"] = None THEN 2 ELSE merged["concurrency"]
Bounded == [merged EXCEPT !["concurrency"] = IF Asked > 2 THEN 2 ELSE Asked]
BoundedOrigins ==
  [origins EXCEPT !["concurrency"] = IF Asked > 2 THEN "safety-invariants" ELSE @]

ProviderIsTrusted ==
  merged["name"] = None \/ [name |-> merged["name"], model |-> merged["model"]] \in Trusted

ApplySafetyInvariants ==
  /\ pc = "layers"
  /\ next = 5
  /\ IF diagnosed \/ ~ProviderIsTrusted
     THEN pc' = "invalid" /\ UNCHANGED <<merged, origins, pending>>
     ELSE /\ pc' = "packs"
          /\ merged' = Bounded
          /\ origins' = BoundedOrigins
          /\ pending' = IF merged["packs"] = None THEN {} ELSE merged["packs"]
  /\ UNCHANGED <<layer, next, rules, diagnosed>>

\* loadRulePacks: a rule that is defined already is diagnosed, and left out.
LoadRulePack(p) ==
  /\ pc = "packs"
  /\ p \in pending
  /\ pending' = pending \ {p}
  /\ rules' = IF Pack[p] = None THEN rules ELSE rules \cup Pack[p]
  /\ diagnosed' = (diagnosed \/ Pack[p] = None \/ Pack[p] \cap rules # {})
  /\ UNCHANGED <<layer, pc, next, merged, origins>>

\* validateRuleOverrideReferences, and buildEffectivePolicy where nothing is diagnosed.
BuildEffectivePolicy ==
  /\ pc = "packs"
  /\ pending = {}
  /\ pc' = IF diagnosed \/ (merged["override"] # None /\ Overridden \notin rules)
           THEN "invalid" ELSE "effective"
  /\ UNCHANGED <<layer, next, merged, origins, pending, rules, diagnosed>>

Next ==
  \/ MergeLayer
  \/ ApplySafetyInvariants
  \/ \E p \in DOMAIN Pack : LoadRulePack(p)
  \/ BuildEffectivePolicy

Spec == Init /\ [][Next]_vars

-----------------------------------------------------------------------------

(* What there is to say of the layer s about field f.                      *)
SetBy(s, f) == IF layer[s] = None THEN None ELSE layer[s].sets[f]
SetAfter(n, f) == \E k \in n + 1 .. 4 : SetBy(Order[k], f) # None

(* A policy is what its resolution says of it (`cq policy explain`): each  *)
(* field has the value of the layer named as its origin, which is the last *)
(* one to set it; the safety invariants are named only where a layer asked *)
(* for more than they allow.                                               *)
OriginsExplainThePolicy ==
  pc = "effective" =>
    \A f \in Field :
      \/ /\ origins[f] = None
         /\ ~SetAfter(0, f)
         /\ merged[f] = IF f = "concurrency" THEN 2 ELSE None
      \/ \E n \in 1 .. 4 : /\ SetBy(Order[n], f) # None
                           /\ ~SetAfter(n, f)
                           /\ \/ origins[f] = Order[n] /\ merged[f] = SetBy(Order[n], f)
                              \/ /\ origins[f] = "safety-invariants"
                                 /\ SetBy(Order[n], f) > merged[f]

===============================================================================
