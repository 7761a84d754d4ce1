-------------------------------- MODULE SplitText --------------------------------
(***************************************************************************)
(* split_text (perimeter/pipeline/ingest.py): the spans a document is cut  *)
(* into, one step per span.  A character is a letter, a blank, a newline   *)
(* or an end of a sentence.  Positions count from 0, as in the code.       *)
(***************************************************************************)
EXTENDS Integers, Sequences

CONSTANTS Texts,    \* the texts split
          Configs   \* ChunkingConfig: [max_chars, overlap_chars]

Characters == {"letter", "blank", "newline", "stop"}

ASSUME SplitAssumption ==
  /\ Texts \subseteq Seq(Characters)
  /\ Configs \subseteq [max_chars : Nat, overlap_chars : Nat]
  /\ \A c \in Configs : 0 < c.max_chars /\ c.overlap_chars < c.max_chars

VARIABLES
  text, config,  \* the arguments
  pos,           \* where the next span begins
  spans,         \* the spans so far, as [start, end]
  splitting      \* the loop has not ended

splitVars == <<text, config, pos, spans, splitting>>

n == Len(text)
At(i) == text[i + 1]
IsSpace(i) == At(i) \in {"blank", "newline"}

SplitInit ==
  /\ text \in Texts
  /\ config \in Configs
  /\ pos = 0
  /\ spans = <<>>
  /\ splitting = (\E i \in 0..(n - 1) : ~IsSpace(i))

Least(a, b) == IF a <= b THEN a ELSE b
Greatest(a, b) == IF a >= b THEN a ELSE b

(* The positions after a paragraph, a sentence, a blank in (floor, end). *)
AfterParagraph(floor, end) ==
  {i + 2 : i \in {j \in floor..(end - 2) : At(j) = "newline" /\ At(j + 1) = "newline"}}
AfterSentence(floor, end) ==
  {i + 2 : i \in {j \in floor..(end - 2) : At(j) = "stop" /\ IsSpace(j + 1)}}
AfterSpace(floor, end) == {i + 1 : i \in {j \in (floor + 1)..(end - 1) : IsSpace(j)}}

Latest(S) == {i \in S : \A j \in S : j <= i}

(* Mutant of boundary: the cut is at the mark and not after it, so that it *)
(* may fall on the start.                                                  *)
boundary_AtMark(start, end) ==
  LET cuts == {i \in start..(end - 1) : IsSpace(i)}
  IN IF cuts # {} THEN Latest(cuts) ELSE {end}

(* _boundary: the set with its one answer. *)
boundary(start, end) ==
  LET floor == start + Greatest(1, (end - start) \div 4)
  IN IF AfterParagraph(floor, end) # {} THEN Latest(AfterParagraph(floor, end))
     ELSE IF AfterSentence(floor, end) # {} THEN Latest(AfterSentence(floor, end))
     ELSE IF AfterSpace(floor, end) # {} THEN Latest(AfterSpace(floor, end))
     ELSE {end}

Ends(start) ==
  LET end == Least(start + config.max_chars, n)
  IN IF end < n THEN boundary(start, end) ELSE {end}

(* Mutant of NextPos: without max(..., pos + 1).                            *)
NextPos_MayStay(end) == Greatest(end - config.overlap_chars, pos)

NextPos(end) == Greatest(end - config.overlap_chars, pos + 1)

SplitStep ==
  /\ splitting
  /\ pos < n
  /\ \E end \in Ends(pos) :
        /\ spans' = Append(spans, [start |-> pos, end |-> end])
        /\ splitting' = (end < n)
        /\ pos' = IF end < n THEN NextPos(end) ELSE pos
  /\ UNCHANGED <<text, config>>

SplitSpec == SplitInit /\ [][SplitStep]_splitVars

-----------------------------------------------------------------------------
(* No character is lost and no span is out of bounds: the spans begin at 0,*)
(* leave no gap between one and the next, are of 1 to max_chars characters *)
(* and, once the loop has ended, reach the end of the text.                *)
SpansCover ==
  /\ \A k \in DOMAIN spans :
        /\ spans[k].end - spans[k].start \in 1..config.max_chars
        /\ spans[k].end <= n
        /\ k = 1 => spans[k].start = 0
        /\ k > 1 => spans[k].start <= spans[k - 1].end
  /\ ~splitting /\ spans # <<>> => spans[Len(spans)].end = n
  /\ splitting => pos < n /\ (spans # <<>> => pos <= spans[Len(spans)].end)

(* Two spans share at most overlap_chars characters, and each starts after *)
(* the one before it: an early boundary with a long overlap must not make  *)
(* the loop cut the same span for ever.                                    *)
SpansAdvance ==
  /\ \A k \in DOMAIN spans : k > 1 =>
        /\ spans[k - 1].start < spans[k].start
        /\ spans[k - 1].end - spans[k].start <= config.overlap_chars
  /\ splitting /\ spans # <<>> =>
        /\ spans[Len(spans)].start < pos
        /\ spans[Len(spans)].end - pos <= config.overlap_chars
=============================================================================
