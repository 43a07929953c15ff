---------------------------- MODULE SearchMerge ----------------------------
(***************************************************************************)
(* web_search (engine/webtools.py): one question to several scholarly      *)
(* providers and to a web search at once.  Each answers with a ranked list *)
(* or fails; the lists are merged into one of the length asked for, with   *)
(* some places kept for the web.  The answer serves the rest of the run    *)
(* when the question is asked again.                                       *)
(***************************************************************************)
EXTENDS Naturals, FiniteSets, SequencesExt, FiniteSetsExt, Selection

CONSTANTS Urls,        \* normalized addresses of results
          Scholars,    \* number of scholarly providers
          MostAsked,   \* results that may be asked for: 20
          LegLimit     \* _SCHOLARLY_LIMIT

ASSUME MergeAssumption ==
  /\ IsFiniteSet(Urls) /\ {"no url", "unheard", "failed", "unmerged"} \cap Urls = {}
  /\ Scholars \in Nat /\ MostAsked \in Nat /\ LegLimit \in Nat

VARIABLES wanted,  \* max_results
          legs,    \* the list of each provider: the scholarly ones, and last the web
          merged   \* the answer: its results and the providers it names as failed

mergeVars == <<wanted, legs, merged>>

NoUrl == "no url"      \* of a result without a usable address
Unheard == <<"unheard">>
LegFailed == <<"failed">>
Unmerged == [results |-> <<"unmerged">>, errors |-> {}]
Web == Scholars + 1
Least(a, b) == IF a < b THEN a ELSE b
ScholarlyLimit == Least(LegLimit, wanted)
LimitOf(l) == IF l = Web THEN (wanted - ScholarlyLimit) + LegLimit ELSE ScholarlyLimit

MergeTypeOK ==
  /\ wanted \in 1..MostAsked /\ DOMAIN legs = 1..Web
  /\ \A l \in 1..Web : legs[l] \in {Unheard, LegFailed} \cup BoundedSeq(Urls \cup {NoUrl}, LimitOf(l))
  /\ merged = Unmerged \/ (ToSet(merged.results) \subseteq Urls /\ merged.errors \subseteq 1..Web)

MergeInit == wanted \in 1..MostAsked /\ legs = [l \in 1..Web |-> Unheard] /\ merged = Unmerged

(* The providers answer in any order; each is asked for as many as it is allowed. *)
LegHeard(l, results) ==
  /\ legs[l] = Unheard /\ legs' = [legs EXCEPT ![l] = results] /\ UNCHANGED <<wanted, merged>>

-----------------------------------------------------------------------------
Heard(l) == IF legs[l] = LegFailed THEN <<>> ELSE legs[l]

(* The first of each address, in order. *)
Deduplicated(s) ==
  LET first == {i \in DOMAIN s : s[i] # NoUrl /\ \A j \in 1..(i - 1) : s[j] # s[i]}
      order == Ranked(first, {p \in first \X first : p[1] < p[2]})
  IN [k \in DOMAIN order |-> s[order[k]]]

(* The first of each list, then the second of each, and so on. *)
RoundRobin(lists) ==
  LET places == UNION {(1..Len(lists[l])) \X {l} : l \in DOMAIN lists}
      order == Ranked(places, {p \in places \X places :
                                 p[1][1] < p[2][1] \/ (p[1][1] = p[2][1] /\ p[1][2] < p[2][2])})
  IN [k \in DOMAIN order |-> lists[order[k][2]][order[k][1]]]

Leading(s, n) == SubSeq(s, 1, Least(n, Len(s)))
After(s, n) == SubSeq(s, n + 1, Len(s))

WebReserve == Least(2, wanted \div 3)

MergedResults ==
  LET scholarly == Deduplicated(RoundRobin([l \in 1..Scholars |-> Heard(l)]))
      cap == wanted - WebReserve
  IN Leading(Deduplicated(Leading(scholarly, cap) \o Leading(Heard(Web), WebReserve)
                        \o After(scholarly, cap) \o After(Heard(Web), WebReserve)), wanted)

LegsMerged ==
  /\ merged = Unmerged /\ \A l \in 1..Web : legs[l] # Unheard
  /\ merged' = [results |-> MergedResults, errors |-> {l \in 1..Web : legs[l] = LegFailed}]
  /\ UNCHANGED <<wanted, legs>>

MergeNext ==
  \/ LegsMerged
  \/ \E l \in 1..Web :
       \/ LegHeard(l, LegFailed)
       \/ \E results \in BoundedSeq(Urls \cup {NoUrl}, LimitOf(l)) : LegHeard(l, results)

MergeSpec == MergeInit /\ [][MergeNext]_mergeVars

-----------------------------------------------------------------------------
IndexIn(l, u) == Min({Len(Heard(l)) + 1} \cup {i \in DOMAIN Heard(l) : Heard(l)[i] = u})
Best(u) == Min({IndexIn(l, u) : l \in {m \in 1..Scholars : u \in ToSet(Heard(m))}})
Scholarly == (UNION {ToSet(Heard(l)) : l \in 1..Scholars}) \ {NoUrl}
Found == Scholarly \cup (ToSet(Heard(Web)) \ {NoUrl})

(* No address is there twice; nothing is left out while there is room; the *)
(* places of the web are its own, and no provider's later result displaces *)
(* an earlier one of another (webtools.py, line 741: reserve up to two     *)
(* slots for ordinary web results, but let scholarly overflow reclaim      *)
(* them); and the model can tell who has failed.                           *)
MergeIsFair ==
  merged # Unmerged =>
    LET kept == ToSet(merged.results) IN
    /\ Cardinality(kept) = Len(merged.results) /\ Len(merged.results) <= wanted /\ kept \subseteq Found
    /\ kept # Found => Len(merged.results) = wanted
    /\ ToSet(Leading(Heard(Web), WebReserve)) \ {NoUrl} \subseteq kept
    /\ \A u \in Scholarly \ kept, v \in kept \cap (Scholarly \ ToSet(Heard(Web))) : Best(v) <= Best(u)
    /\ \A l \in 1..Web : legs[l] = LegFailed <=> l \in merged.errors
=============================================================================
