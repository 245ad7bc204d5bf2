----------------------------- MODULE ScopeRules -----------------------------
(***************************************************************************)
(* Which rules of a policy registry bind a project: scope_match.py and the *)
(* choice of injectors.PolicyInjector. A scope, like a path, is the        *)
(* sequence of its components; an entry whose scope is written with a      *)
(* trailing "/*" is below.                                                 *)
(***************************************************************************)
EXTENDS Integers, Sequences, FiniteSets, SequencesExt

CONSTANT MaxEntries  \* policy_config.max_entries

ASSUME MaxEntriesAssumption == MaxEntries \in Nat

(* The first of some places, as a set: none or one.                        *)
FirstOf(places) == {i \in places : \A k \in places : i <= k}

(* .TOPICS/<scope> and _Local_DEV/repos/<name>.                            *)
CandidateScopes(path) ==
  LET topics == {i \in DOMAIN path : path[i] = ".TOPICS"}
      repos == {i \in DOMAIN path : /\ path[i] = "_Local_DEV"
                                    /\ i + 2 \in DOMAIN path
                                    /\ path[i + 1] = "repos"}
  IN {SubSeq(path, i + 1, Len(path)) : i \in FirstOf(topics) \ {Len(path)}}
     \cup {<<path[i + 2]>> : i \in FirstOf(repos)}

(* The rank of the relation between an entry and a scope, 0 for a global   *)
(* entry, -1 for none.                                                     *)
RelationRank(entry, candidate) ==
  CASE entry.global -> 0
    [] entry.below /\ ~entry.global ->
         IF IsStrictPrefix(entry.scope, candidate) THEN 2 ELSE -1
    [] OTHER ->
         IF entry.scope = candidate THEN 3
         ELSE IF IsPrefix(entry.scope, candidate) THEN 1 ELSE -1

Precedence(entry, candidate) ==
  <<RelationRank(entry, candidate), Len(entry.scope)>>

Outranks(p, q) == p[1] > q[1] \/ (p[1] = q[1] /\ p[2] > q[2])

(* The precedences of an entry that is neither global nor foreign.         *)
Matches(entry, candidates) ==
  {p \in {Precedence(entry, c) : c \in candidates} : p[1] > 0}

(* Mutant: the relation to some candidate counts, not the closest one.     *)
AnyRank(entry, candidates) ==
  CHOOSE p \in Matches(entry, candidates) :
    \A q \in Matches(entry, candidates) : ~Outranks(p, q)

BestRank(entry, candidates) ==
  CHOOSE p \in Matches(entry, candidates) :
    \A q \in Matches(entry, candidates) : ~Outranks(q, p)

Applicable(registry, candidates) ==
  {i \in DOMAIN registry :
     registry[i].active /\ Matches(registry[i], candidates) # {}}

(* The positions of the entries in the order of the sorted list, which     *)
(* keeps the order of the registry among equals.                           *)
Ranked(registry, candidates) ==
  LET rank(i) == BestRank(registry[i], candidates)
      before(i, k) == \/ Outranks(rank(i), rank(k))
                      \/ rank(i) = rank(k) /\ i < k
  IN CHOOSE list \in SetToSeqs(Applicable(registry, candidates)) :
       \A m, n \in DOMAIN list : m < n => before(list[m], list[n])

(* What the injector shows of a registry.                                  *)
RulesShown(registry, candidates) ==
  LET ranked == Ranked(registry, candidates)
  IN SubSeq(ranked, 1, IF MaxEntries < Len(ranked) THEN MaxEntries
                                                    ELSE Len(ranked))

=============================================================================
