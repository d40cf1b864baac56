----------------------------- MODULE Containers -----------------------------
(***************************************************************************)
(* The associative containers of the C++ standard library (std::map,       *)
(* std::unordered_map) and Python's dict, as the code uses them: functions *)
(* whose domain is the set of keys present.                                *)
(***************************************************************************)
EXTENDS Functions

IsMapOf(f, K, V) == DOMAIN f \subseteq K /\ f \in [DOMAIN f -> V]

EmptyMap == [x \in {} |-> x]

MapPut(f, k, v) == [x \in DOMAIN f \cup {k} |-> IF x = k THEN v ELSE f[x]]

MapErase(f, k) == Restrict(f, DOMAIN f \ {k})

(* unordered_map::emplace leaves an existing entry alone.                   *)
Emplace(f, k, v) == IF k \in DOMAIN f THEN f ELSE MapPut(f, k, v)
=============================================================================
