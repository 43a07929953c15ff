------------------------------ MODULE Retrieval ------------------------------
(***************************************************************************)
(* What a turn is reminded of (engine/shadow.py).  The library selects the *)
(* episodes that score well and the last ones; before it is asked, the     *)
(* deployment's ceiling takes weak episodes away; and the trace tells of   *)
(* every stored episode what became of it.  Scores and sizes are numbers,  *)
(* the serialized text of a set is its length.                             *)
(***************************************************************************)
EXTENDS Integers, FiniteSets, FiniteSetsExt, SequencesExt, Selection

CONSTANTS Episodes,       \* positions in the store, 1..n
          Scores, Sizes,  \* what cosine_scores and the rendering may give
          Threshold,      \* timeline_threshold
          Windows, Ceilings   \* recency_window_n, context_ceiling_chars; 0 for none

ASSUME RetrievalAssumption ==
  /\ IsFiniteSet(Episodes) /\ Episodes \subseteq Nat \ {0} /\ Scores \subseteq Int /\ Threshold \in Int
  /\ Sizes \subseteq Nat /\ Windows \subseteq Nat /\ Ceilings \subseteq Nat

VARIABLES asked,   \* a store and a query: turn, score and size of each episode, and the limits
          answered     \* the retrieval's answer, or NoAnswer

retrievalVars == <<asked, answered>>

NoTurn == 0
NoAnswer == [delivered |-> {}, withheld |-> {}, recent |-> {}, rows |-> <<>>]
Diverged == [NoAnswer EXCEPT !.rows = [i \in {NoTurn} |-> "diverged"]]   \* TraceDivergenceError

TurnSet(q) == Range(q.turn)
IsAnchored(q) == q.anchor # NoTurn
Anchor(q, shown) == Min({i \in shown : q.turn[i] = q.anchor})

Eligible(q, shown) == {i \in shown : q.through = NoTurn \/ q.turn[i] <= q.through}

(* The source order: by turn, then by identifier. *)
Following(q, i, j) == q.turn[i] > q.turn[j] \/ (q.turn[i] = q.turn[j] /\ i > j)
InOrder(q, set) == Ranked(set, {p \in set \X set : Following(q, p[2], p[1])})

\* Slip: the window is taken of what the library is shown, before the horizon.
Recent_Of(q, shown) ==
  LET order == InOrder(q, shown) IN
  Range(SubSeq(order, Max({0, Len(order) - q.window}) + 1, Len(order))) \cap Eligible(q, shown)

(* The tail of the eligible episodes; none for a window of 0. *)
Recent(q, shown) ==
  LET order == InOrder(q, Eligible(q, shown)) IN
  Range(SubSeq(order, Max({0, Len(order) - q.window}) + 1, Len(order)))

Relevant(q, shown) == {i \in Eligible(q, shown) : q.score[i] >= Threshold}

(* An anchor is chosen too, but an episode beyond the horizon is never delivered. *)
Picked(q, shown) ==
  {i \in Eligible(q, shown) : i \in Recent(q, shown) \cup Relevant(q, shown)
                              \/ (IsAnchored(q) /\ i = Anchor(q, shown))}

(* render_stm_payload: a frame around the episodes, so that a set costs    *)
(* more than its parts.                                                    *)
Rendered(q, set) == IF set = {} THEN 0 ELSE 1 + MapThenSumSet(LAMBDA i : q.size[i], set)

-----------------------------------------------------------------------------
\* Slip: only continuity is protected.
Protected_Recent(q) == Recent(q, Episodes)

Protected(q) == Recent(q, Episodes) \cup (IF IsAnchored(q) THEN {Anchor(q, Episodes)} ELSE {})

\* Slip: what was said first goes first, however well it scores.
ShedsBefore_Oldest(q, i, j) == i < j

ShedsBefore(q, i, j) == q.score[i] < q.score[j] \/ (q.score[i] = q.score[j] /\ i < j)

(* _ceiling_withholds: one at a time, until the rest fits or is protected. *)
Withheld(q) ==
  LET all == Picked(q, Episodes)
      weak == all \ Protected(q)
      order == Ranked(weak, {p \in weak \X weak : ShedsBefore(q, p[1], p[2])})
      Shed(n) == Range(SubSeq(order, 1, n))
      Fits(n) == Rendered(q, all \ Shed(n)) <= q.ceiling
      enough == {n \in 0..Len(order) : Fits(n) \/ n = Len(order)}
  IN IF q.ceiling = 0 THEN {} ELSE Shed(Min(enough))

(* _trace_candidates: the classes are those of the whole store. *)
Via(q, i) ==
  CASE i \in Relevant(q, Episodes) /\ i \in Recent(q, Episodes) -> "both"
    [] i \in Relevant(q, Episodes) /\ i \notin Recent(q, Episodes) -> "relevance"
    [] i \notin Relevant(q, Episodes) /\ i \in Recent(q, Episodes) -> "continuity"
    [] OTHER -> "anchor"

Rows(q, delivered, withheld) ==
  [i \in Episodes |-> [relevant |-> i \in Relevant(q, Episodes), recent |-> i \in Recent(q, Episodes),
                       withheld |-> i \in withheld, delivered |-> i \in delivered,
                       via |-> IF i \in delivered THEN Via(q, i) ELSE "none"]]

(* The library's own report, of the episodes it is shown: its window is    *)
(* what fewer than that many eligible episodes come after.                 *)
Library(q, shown) ==
  LET eligible == Eligible(q, shown)
      recent == {i \in eligible : Cardinality({j \in eligible : Following(q, j, i)}) < q.window}
  IN [recent |-> recent, semantic |-> Cardinality(Relevant(q, shown) \ recent),
      delivered |-> recent \cup Relevant(q, shown)
                    \cup ({i \in eligible : q.turn[i] = q.anchor /\ IsAnchored(q)})]

(* _verify: the shadow's selection against the report, field by field.     *)
Verified(q, shown) ==
  LET report == Library(q, shown) IN
  /\ report.recent = Recent(q, shown) /\ report.delivered = Picked(q, shown)
  /\ report.semantic = Cardinality(Relevant(q, shown) \ Recent(q, shown))
  /\ Rendered(q, report.delivered) = Rendered(q, Picked(q, shown))

\* retrieve_with_trace is strict: a trace that diverges is not served.
Retrieved(q) ==
  LET withheld == Withheld(q)
      shown == Episodes \ withheld
      report == Library(q, shown)
  IN IF Verified(q, shown)
     THEN [delivered |-> report.delivered, withheld |-> withheld, recent |-> report.recent,
           rows |-> Rows(q, report.delivered, withheld)]
     ELSE Diverged

-----------------------------------------------------------------------------
(* Any store: the turns in any order of the positions. *)
Queries ==
  { q \in [turn : {f \in [Episodes -> Episodes] : IsInjective(f)}, score : [Episodes -> Scores],
           size : [Episodes -> Sizes], window : Windows, ceiling : Ceilings,
           through : Episodes \cup {NoTurn}, anchor : Episodes \cup {NoTurn}] : TRUE }

RetrievalInit == asked \in Queries /\ answered = NoAnswer

Retrieve ==
  /\ answered = NoAnswer /\ answered' = Retrieved(asked) /\ UNCHANGED asked

RetrievalNext == Retrieve
RetrievalSpec == RetrievalInit /\ [][RetrievalNext]_retrievalVars

-----------------------------------------------------------------------------
RetrievalTypeOK ==
  answered # NoAnswer => answered.delivered \subseteq Episodes /\ answered.withheld \subseteq Episodes

(* The ceiling takes the weakest first and no more than it must: what was  *)
(* just said and the anchor are never withheld, nothing withheld scores    *)
(* above a relevant episode that is kept, and without the last one that    *)
(* was taken the rest would not have fitted (shadow.py 154-162).           *)
CeilingIsFair ==
  answered \notin {NoAnswer, Diverged} =>
    /\ answered.withheld \cap Recent(asked, Episodes) = {}
    /\ \A i \in answered.withheld : ~(IsAnchored(asked) /\ asked.turn[i] = asked.anchor)
    /\ \A i \in answered.withheld, j \in answered.delivered \ answered.recent :
         ~(IsAnchored(asked) /\ asked.turn[j] = asked.anchor) => asked.score[i] <= asked.score[j]
    /\ answered.withheld # {} =>
         \E i \in answered.withheld : Rendered(asked, answered.delivered \cup {i}) > asked.ceiling

(* The shadow never diverges from the library, and the window over what    *)
(* the library is shown is the window over the whole store; so each row of *)
(* the trace, which is classed by the store, tells the truth about the     *)
(* answer (shadow.py 226-229): the episode was delivered for a reason that *)
(* holds of it, or withheld though relevant.                               *)
RowsTellTheTruth ==
  answered # NoAnswer =>
    /\ answered # Diverged
    /\ answered.recent = Recent(asked, Episodes)
    /\ answered.delivered = Picked(asked, Episodes) \ answered.withheld
    /\ \A i \in Episodes : LET row == answered.rows[i] IN
         /\ row.withheld => row.relevant /\ ~row.delivered
         /\ row.delivered <=> row.via # "none"
         /\ row.via = "anchor" => asked.turn[i] = asked.anchor
         /\ row.recent => row.delivered /\ row.via \in {"both", "continuity"}
=============================================================================
