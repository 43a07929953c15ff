----------------------------- MODULE ReplyStream -----------------------------
(***************************************************************************)
(* What the generator makes of a streamed completion (engine/generator.py):*)
(* content arrives in pieces cut anywhere, leaked think markup is taken    *)
(* out of it, tool calls arrive in fragments, and the trace is filled in   *)
(* however the stream ends.  A delimiter is three or two symbols long.     *)
(***************************************************************************)
EXTENDS Naturals, FiniteSets, SequencesExt

CONSTANTS Letters,      \* symbols of the content; "I" is one that lower() makes two
          MaxContent, MaxPiece, MaxFragments,   \* bounds on what the server sends
          ToolCalls     \* indexes of the calls of one reply, numbers

VARIABLES kind,      \* what the request asks for
          server,    \* what the server has sent: its content, and the fragments of each call
          filter,    \* _ThinkMarkupFilter
          content,   \* content_parts, joined
          parts,     \* tool_parts: the fragments collected under each index
          trace      \* how the stream ended, and what the trace says

replyVars == <<kind, server, filter, content, parts, trace>>

OpenMark == <<"<", "t">>
CloseMark == <<"<", "/", "t">>
Markers == {OpenMark, CloseMark}

Lower(text) == FlattenSeq([i \in DOMAIN text |-> IF text[i] = "I" THEN <<"i", "dot">> ELSE <<text[i]>>])

Occurs(text, mark, i) == i + Len(mark) - 1 <= Len(text) /\ SubSeq(text, i, i + Len(mark) - 1) = mark
First(text, marks) ==
  LET at == {[i |-> i, mark |-> m] : i \in DOMAIN text, m \in marks}
      found == {a \in at : Occurs(text, a.mark, a.i)}
  IN IF found = {} THEN [i |-> 0, mark |-> <<>>] ELSE CHOOSE a \in found : \A b \in found : a.i <= b.i

\* Slip: a delimiter is looked for in each piece alone.
PartialSuffix_None(text, marks) == 0

(* _partial_suffix: the longest end of the text that may begin a marker.   *)
PartialSuffix(text, marks) ==
  LET low == Lower(text)
      fits == {k \in 1 .. Len(text) : \E m \in marks :
                 k < Len(m) /\ SubSeq(low, Len(low) - k + 1, Len(low)) = SubSeq(m, 1, k)}
  IN IF fits = {} THEN 0 ELSE CHOOSE k \in fits : \A j \in fits : j <= k

From(text, i) == SubSeq(text, i, Len(text))
Upto(text, i) == SubSeq(text, 1, IF i < Len(text) THEN i ELSE Len(text))

(* One round of feed: up to and with the first marker.  Its place is found *)
(* in the lowered text and used in the text.                               *)
Cut(f) ==
  LET hit == First(Lower(f.pending), IF f.inside THEN {CloseMark} ELSE Markers)
  IN IF hit.i = 0 THEN f
     ELSE [pending |-> From(f.pending, hit.i + Len(hit.mark)),
           inside |-> ~f.inside /\ hit.mark = OpenMark,
           clean |-> IF f.inside THEN f.clean ELSE f.clean \o Upto(f.pending, hit.i - 1)]

Fed(f, piece) ==
  LET all == [pending |-> f.pending \o piece, inside |-> f.inside, clean |-> <<>>]
      cut[n \in 0 .. Len(all.pending)] == IF n = 0 THEN all ELSE Cut(cut[n - 1])
      rest == cut[Len(all.pending)]
      keep == PartialSuffix(rest.pending, IF rest.inside THEN {CloseMark} ELSE Markers)
      emit == Len(rest.pending) - keep
  IN [pending |-> From(rest.pending, emit + 1), inside |-> rest.inside,
      clean |-> IF rest.inside THEN rest.clean ELSE rest.clean \o Upto(rest.pending, emit)]

\* Slip: the end of the stream drops what waits for the rest of a marker.
Tail_Dropped(f) == <<>>

(* finish *)
TailOf(f) == IF f.inside THEN <<>> ELSE f.pending

-----------------------------------------------------------------------------
ReplyKinds == {"prose", "tools", "structured"}

ReplyTypeOK ==
  /\ kind \in ReplyKinds /\ filter.inside \in BOOLEAN /\ Len(filter.pending) < Len(CloseMark)
  /\ trace.end \in {"streaming", "done", "refused", "broken"} /\ trace.said \in Seq(Letters)
  /\ parts \in [ToolCalls -> Seq(ToolCalls \X (1 .. MaxFragments))]

ReplyInit ==
  /\ kind \in ReplyKinds /\ server = [text |-> <<>>, calls |-> [c \in ToolCalls |-> <<>>], sent |-> 0]
  /\ filter = [pending |-> <<>>, inside |-> FALSE] /\ content = <<>>
  /\ parts = [c \in ToolCalls |-> <<>>] /\ trace = [end |-> "streaming", said |-> <<>>, calls |-> {}]

(* A delta with content: filtered, unless it is a routed operation.        *)
ContentArrives(piece) ==
  /\ trace.end = "streaming" /\ Len(server.text) + Len(piece) <= MaxContent
  /\ server' = [server EXCEPT !.text = @ \o piece]
  /\ IF kind = "structured" THEN content' = content \o piece /\ UNCHANGED filter
     ELSE LET fed == Fed(filter, piece)
          IN content' = content \o fed.clean /\ filter' = [pending |-> fed.pending, inside |-> fed.inside]
  /\ UNCHANGED <<kind, parts, trace>>

\* Slip: fragments go to the newest call, whatever their index.
SlotOf_Newest(c) ==
  LET begun == {d \in ToolCalls : parts[d] # <<>>}
  IN IF begun = {} \/ server.calls[c] = <<>> THEN c ELSE CHOOSE d \in begun : \A e \in begun : e <= d

(* _absorb_tool_calls: the slot of the index the delta carries.            *)
SlotOf(c) == c

FragmentArrives(c) ==
  /\ trace.end = "streaming" /\ kind = "tools" /\ server.sent < MaxFragments
  /\ LET piece == <<c, server.sent + 1>>
     IN /\ server' = [server EXCEPT !.calls[c] = Append(@, piece), !.sent = @ + 1]
        /\ parts' = [parts EXCEPT ![SlotOf(c)] = Append(@, piece)]
  /\ UNCHANGED <<kind, filter, content, trace>>

CallsBegun == {c \in ToolCalls : parts[c] # <<>>}

(* The end: the tail is added; a routed reply must be one whole operation, *)
(* not cut by its length.                                                  *)
StreamEnds(valid) ==
  /\ trace.end = "streaming"
  /\ LET all == IF kind = "structured" THEN content ELSE content \o TailOf(filter)
     IN /\ content' = all
        /\ trace' = CASE kind # "structured" -> [end |-> "done", said |-> all, calls |-> CallsBegun]
                      [] kind = "structured" /\ valid -> [end |-> "done", said |-> <<>>, calls |-> {0}]
                      [] OTHER -> [end |-> "refused", said |-> <<>>, calls |-> {}]
  /\ filter' = [filter EXCEPT !.pending = <<>>] /\ UNCHANGED <<kind, server, parts>>

(* The server refuses the prompt, fails or breaks off, or the consumer     *)
(* leaves: the trace has what was said until then.                         *)
StreamBreaks ==
  /\ trace.end = "streaming"
  /\ trace' = [end |-> "broken", said |-> IF kind = "structured" THEN <<>> ELSE content, calls |-> CallsBegun]
  /\ UNCHANGED <<kind, server, filter, content, parts>>

ReplyNext ==
  \/ \E k \in 1 .. MaxPiece : \E piece \in [1 .. k -> Letters] : ContentArrives(piece)
  \/ \E c \in ToolCalls : FragmentArrives(c)
  \/ \E valid \in BOOLEAN : StreamEnds(valid)
  \/ StreamBreaks

ReplySpec == ReplyInit /\ [][ReplyNext]_replyVars

-----------------------------------------------------------------------------
(* The text without think blocks and stray delimiters, read from left to   *)
(* right, all of it at hand: what the filter is to say of any pieces.      *)
Cleaned(text) ==
  LET mark(i) == {m \in Markers : Occurs(text, m, i)}
      rest[i \in 1 .. Len(text) + 1] ==
        [inside \in BOOLEAN |->
           IF i > Len(text) THEN <<>>
           ELSE IF inside
                THEN IF CloseMark \in mark(i) THEN rest[i + Len(CloseMark)][FALSE] ELSE rest[i + 1][TRUE]
                ELSE IF mark(i) = {} THEN <<text[i]>> \o rest[i + 1][FALSE]
                     ELSE LET m == CHOOSE n \in mark(i) : TRUE IN rest[i + Len(m)][m = OpenMark]]
  IN rest[1][FALSE]

(* A reply is the same however it was cut into deltas: no markup, and no   *)
(* text lost or added around it (generator.py 78-83); while it streams,    *)
(* nothing is said that is not part of it, and calls keep their fragments. *)
(* It holds of letters that lower() keeps one for one; with "I" among them *)
(* it does not, since the place of a marker is that in the lowered text.   *)
ReplyIsWhole ==
  /\ kind # "structured" /\ trace.end = "done" => trace.said = Cleaned(server.text)
  /\ kind # "structured" => IsPrefix(content, Cleaned(server.text))
  /\ \A c \in ToolCalls : parts[c] = server.calls[c]
=============================================================================
