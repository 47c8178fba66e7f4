---------------------------- MODULE MCAdminData ----------------------------
(***************************************************************************)
(* Rules and users for model checking AdminData.                           *)
(***************************************************************************)
EXTENDS AdminData

\* The web threads are alike, and no property tells them apart.
SymThreads == Permutations(Web)

MCendings == [h \in {"a.cn", "b.cn"} |-> {".cn"}]

Rule(type, pattern, action, priority) ==
  [type |-> type, pattern |-> pattern, action |-> action, priority |-> priority,
   enabled |-> TRUE, named |-> TRUE]

Disabled(rule) == [rule EXCEPT !.enabled = FALSE]
Unnamed(rule) == [rule EXCEPT !.named = FALSE]

MCBuiltinFile ==
  <<Rule("domain_suffix", ".cn", "direct", 100),
    Rule("domain_exact", "a.cn", "proxy", 200)>>

MCCustomFile == <<Rule("domain_exact", "b.cn", "proxy", 1)>>

MCNewRules ==
  {Rule("domain_exact", "a.cn", "direct", 2),
   Rule("domain_suffix", ".cn", "proxy", 0),
   Unnamed(Rule("domain_suffix", ".cn", "direct", 1)),
   Disabled(Rule("domain_suffix", ".cn", "direct", 3))}
=============================================================================
