----------------------------- MODULE ReplProofs -----------------------------
(***************************************************************************)
(* Proofs about the interactive prompt, for any alphabet, any size of the  *)
(* history ring and lines of any length.                                   *)
(***************************************************************************)
EXTENDS Repl, SequenceTheorems, TLAPS

\* Positions before and after a slot of the ring are slots.
LEMMA SlotNeighbours ==
  ASSUME NEW i \in Slot
  PROVE  Before(i) \in Slot /\ After(i) \in Slot
  BY SizeAssumption DEF Slot, Before, After

\* A part of a line.
LEMMA PartOfLine ==
  ASSUME NEW line \in Seq(Char), NEW m \in Nat \ {0}, NEW n \in 0..Len(line)
  PROVE  /\ SubSeq(line, m, n) \in Seq(Char)
         /\ Len(SubSeq(line, m, n)) = IF m <= n THEN n - m + 1 ELSE 0
<1>1. Len(line) \in Nat /\ \A i \in 1..Len(line) : line[i] \in Char
  BY LenProperties
<1>2. m \in Int /\ n \in Int /\ \A i \in m..n : line[i] \in Char
  BY <1>1
<1> QED BY <1>1, <1>2, SubSeqProperties

\* Two lines in a row.
LEMMA Joined ==
  ASSUME NEW s \in Seq(Char), NEW t \in Seq(Char)
  PROVE  s \o t \in Seq(Char) /\ Len(s \o t) = Len(s) + Len(t)
  BY ONLY ConcatProperties, s \in Seq(Char), t \in Seq(Char)

\* vstr_ins_char makes the line longer by what is inserted.
LEMMA InsertLength ==
  ASSUME NEW line \in Seq(Char), NEW pos \in Nat, NEW text \in Seq(Char)
  PROVE  /\ Insert(line, pos, text) \in Seq(Char)
         /\ Len(Insert(line, pos, text)) = Len(line) + Len(text)
<1> DEFINE at == IF pos > Len(line) THEN Len(line) ELSE pos
           a == SubSeq(line, 1, at)
           b == SubSeq(line, at + 1, Len(line))
<1>1. Len(line) \in Nat /\ Len(text) \in Nat /\ at \in 0..Len(line)
  BY LenProperties
<1>2. a \in Seq(Char) /\ Len(a) = at
  BY <1>1, PartOfLine
<1>3. b \in Seq(Char) /\ Len(b) = Len(line) - at
  <2> HIDE DEF at
  <2>1. at + 1 \in Nat \ {0} /\ Len(line) \in 0..Len(line)
    BY <1>1
  <2> QED BY <1>1, <2>1, PartOfLine
<1>4. Insert(line, pos, text) = a \o text \o b
  BY DEF Insert
<1> HIDE DEF at, a, b
<1>5. a \o text \in Seq(Char) /\ Len(a \o text) = at + Len(text)
  BY <1>2, Joined
<1>6. a \o text \o b \in Seq(Char) /\ Len(a \o text \o b) = Len(a \o text) + Len(b)
  BY <1>3, <1>5, Joined
<1> QED BY <1>1, <1>3, <1>4, <1>5, <1>6

\* vstr_cut_out_bytes takes one character away, if there is one.
LEMMA CutLength ==
  ASSUME NEW line \in Seq(Char), NEW pos \in Nat
  PROVE  /\ Cut(line, pos) \in Seq(Char)
         /\ Len(Cut(line, pos)) = IF pos >= Len(line) THEN Len(line) ELSE Len(line) - 1
<1> DEFINE a == SubSeq(line, 1, pos)
           b == SubSeq(line, pos + 2, Len(line))
<1>1. Len(line) \in Nat
  BY LenProperties
<1>2. CASE pos >= Len(line)
  BY <1>2 DEF Cut
<1>3. CASE ~(pos >= Len(line))
  <2>1. a \in Seq(Char) /\ Len(a) = pos
    BY <1>1, <1>3, PartOfLine
  <2>2. b \in Seq(Char) /\ Len(b) = Len(line) - pos - 1
    BY <1>1, <1>3, PartOfLine
  <2>3. Cut(line, pos) = a \o b
    BY <1>3 DEF Cut
  <2> HIDE DEF a, b
  <2>4. a \o b \in Seq(Char) /\ Len(a \o b) = Len(a) + Len(b)
    BY <2>1, <2>2, Joined
  <2> QED BY <1>1, <1>3, <2>1, <2>2, <2>3, <2>4
<1> QED BY <1>2, <1>3

\* What goes to the history is a line.
LEMMA LastLineText ==
  ASSUME TypeOK, NEW text \in LastLine(Line)
  PROVE  text \in Seq(Char)
<1>1. Len(Line) \in Nat /\ OrigLineLength + 1 \in Nat \ {0} /\ OrigLineLength \in Nat
      /\ Line \in Seq(Char)
  BY LenProperties DEF TypeOK
<1>2. \A n \in 0..Len(Line) : SubSeq(Line, OrigLineLength + 1, n) \in Seq(Char)
  BY <1>1, PartOfLine
<1>3. CASE \E n \in OrigLineLength..Len(Line) : text = SubSeq(Line, OrigLineLength + 1, n)
  <2>1. PICK n \in OrigLineLength..Len(Line) : text = SubSeq(Line, OrigLineLength + 1, n)
    BY <1>3
  <2>2. n \in 0..Len(Line)
    BY <1>1
  <2> QED BY <1>2, <2>1, <2>2
<1>4. CASE \E rest \in Garbage : text = SubSeq(Line, OrigLineLength + 1, Len(Line)) \o rest
  <2>1. PICK rest \in Garbage : text = SubSeq(Line, OrigLineLength + 1, Len(Line)) \o rest
    BY <1>4
  <2>2. rest \in Seq(Char) /\ SubSeq(Line, OrigLineLength + 1, Len(Line)) \in Seq(Char)
    BY <1>1, <1>2, TextAssumption
  <2>3. SubSeq(Line, OrigLineLength + 1, Len(Line)) \o rest \in Seq(Char)
    BY ONLY <2>2, Joined
  <2> QED BY <2>1, <2>3
<1> QED BY <1>3, <1>4 DEF LastLine

-----------------------------------------------------------------------------
(* The invariant.                                                          *)

\* The ring, the cursor and the cases of an overrun rest on each other: a line is
\* recalled from the slot on show, the redraw starts at the cursor, and only a line
\* that starts at 0 may be replaced as a whole.
ReplInv == TypeOK /\ HistoryRing /\ CursorInLine /\ OverrunsExplained

LEMMA InitRepl == Init => ReplInv
<1> SUFFICES ASSUME Init PROVE ReplInv
  OBVIOUS
<1>1. 0 \in Slot /\ <<>> \in Seq(Char) /\ Len(<<>>) = 0
  BY SizeAssumption DEF Slot
<1> QED BY <1>1 DEF Init, ReplInv, TypeOK, HistoryRing, CursorInLine, OverrunsExplained, EmptyHistory

\* A new prompt: the line, the cursor and the slot on show fit whatever ring they meet.
LEMMA PromptFits ==
  ASSUME NEW index, Prompt(index), index = HistoryIndex', UNCHANGED fault, fault = "none",
         Running' \in BOOLEAN, HistoryIndex' \in Slot,
         History' \in [Slot -> Seq(Char) \cup {NULL}], History'[HistoryIndex'] = NULL
  PROVE  ReplInv'
<1>1. <<>> \in Seq(Char) /\ Len(<<>>) = 0
  OBVIOUS
<1> QED BY <1>1 DEF Prompt, ReplInv, TypeOK, HistoryRing, CursorInLine, OverrunsExplained

\* ReplPushHistory leaves an empty slot at the index.
LEMMA PushFits ==
  ASSUME TypeOK, HistoryRing, NEW text \in Seq(Char), ReplPushHistory(text)
  PROVE  /\ HistoryIndex' \in Slot
         /\ History' \in [Slot -> Seq(Char) \cup {NULL}]
         /\ History'[HistoryIndex'] = NULL
<1>1. CASE UNCHANGED ring
  BY <1>1 DEF ring, TypeOK, HistoryRing
<1>2. CASE ~UNCHANGED ring
  <2>1. HistoryIndex \in Slot /\ HistoryIndex' = After(HistoryIndex) /\ After(HistoryIndex) \in Slot
    BY <1>2, SlotNeighbours DEF ReplPushHistory, TypeOK
  <2>2. PICK copy \in ReplStringDup(text) :
          History' = [History EXCEPT ![HistoryIndex] = copy, ![After(HistoryIndex)] = NULL]
    BY <1>2 DEF ReplPushHistory
  <2>3. copy \in Seq(Char) \cup {NULL}
    BY <2>1, <2>2 DEF ReplStringDup, TypeOK
  <2> QED BY <2>1, <2>2, <2>3 DEF TypeOK
<1> QED BY <1>1, <1>2

\* Submitting a line.
LEMMA SubmitFits ==
  ASSUME TypeOK, HistoryRing, fault = "none", NEW code, NEW texts \in SUBSET Seq(Char), Submit(code, texts)
  PROVE  ReplInv'
<1>1. PICK text \in texts : ReplPushHistory(text) /\ Execute(code, HistoryIndex')
  BY DEF Submit
<1>2. /\ HistoryIndex' \in Slot
      /\ History' \in [Slot -> Seq(Char) \cup {NULL}]
      /\ History'[HistoryIndex'] = NULL
  BY <1>1, PushFits
<1> QED BY <1>1, <1>2, PromptFits DEF Execute

\* Enter, where the input goes on.
LEMMA NewLineFits ==
  ASSUME ReplInv, fault = "none", NEW mode \in {"continue", "paste"}, NewLine(mode),
         mode = "continue" => ReplMode # "paste"
  PROVE  ReplInv'
<1>1. <<Newline>> \in Seq(Char) /\ Len(<<Newline>>) = 1
  BY DEF Char
<1>2. Line \in Seq(Char) /\ CursorPos \in Nat /\ Len(Line) \in Nat
  BY LenProperties DEF ReplInv, TypeOK
<1>3. Line' \in Seq(Char) /\ Len(Line') = Len(Line) + 1
  BY <1>1, <1>2, InsertLength DEF NewLine
<1> QED BY <1>2, <1>3 DEF NewLine, ring, ReplInv, TypeOK, HistoryRing, CursorInLine, OverrunsExplained

\* A redraw: outside paste mode it starts inside the text, so it ends there.
LEMMA RedrawFits ==
  ASSUME ReplInv, fault = "none", NEW line \in Seq(Char), NEW cursor \in Nat, NEW forward \in Nat,
         Redraw(line, cursor, forward),
         ReplMode # "paste" => cursor + forward <= Len(line),
         UNCHANGED <<Running, OrigLineLength, ReplMode, ring, HistoryCursor>>
  PROVE  ReplInv'
<1>1. Len(line) \in Nat
  BY LenProperties
<1>2. ReplMode # "paste" => ~(Len(line) - cursor < 0)
  BY <1>1
<1>3. TypeOK'
  BY DEF Redraw, ReplPrint, ring, ReplInv, TypeOK
<1>4. HistoryRing'
  BY DEF ring, ReplInv, HistoryRing
<1>5. CursorInLine'
  BY DEF Redraw, ReplInv, CursorInLine
<1>6. OverrunsExplained'
  BY <1>1, <1>2 DEF Redraw, ReplPrint, ReplInv, OverrunsExplained
<1> QED BY <1>3, <1>4, <1>5, <1>6 DEF ReplInv

\* A cursor key.
LEMMA MoveFits ==
  ASSUME ReplInv, fault = "none", NEW cursor \in Nat, Move(cursor),
         ReplMode # "paste" => cursor <= Len(Line),
         UNCHANGED <<Running, OrigLineLength, ReplMode, ring, HistoryCursor>>
  PROVE  ReplInv'
  BY DEF Move, ring, ReplInv, TypeOK, HistoryRing, CursorInLine, OverrunsExplained

\* Up and Down.
LEMMA RecallFits ==
  ASSUME ReplInv, fault = "none", NEW i \in Slot, Recall(i)
  PROVE  ReplInv'
<1>1. OrigLineLength = 0 /\ ReplMode = "normal" /\ Line \in Seq(Char)
  BY DEF Recall, ReplInv, TypeOK, CursorInLine
<1>2. History[i] \in Seq(Char)
  BY DEF Recall, ReplInv, TypeOK
<1>3. OrigLineLength' = 0 /\ Line' = SubSeq(Line, 1, 0) \o History[i]
  BY <1>1 DEF Recall
<1>4. Line' \in Seq(Char) /\ Len(Line') \in Nat
  <2>1. 0 \in 0..Len(Line) /\ 1 \in Nat \ {0}
    BY <1>1, LenProperties
  <2>2. SubSeq(Line, 1, 0) \in Seq(Char)
    BY <1>1, <2>1, PartOfLine
  <2>3. Line' \in Seq(Char)
    BY <1>2, <1>3, <2>2, Joined
  <2> QED BY <2>3, LenProperties
<1> QED BY <1>1, <1>3, <1>4
      DEF Recall, ring, ReplInv, TypeOK, HistoryRing, CursorInLine, OverrunsExplained

\* Every step keeps the invariant.
LEMMA StepRepl == ReplInv /\ [Next]_vars => ReplInv'
<1> SUFFICES ASSUME ReplInv, [Next]_vars PROVE ReplInv'
  OBVIOUS
<1>0. TypeOK /\ HistoryRing /\ Line \in Seq(Char) /\ CursorPos \in Nat /\ OrigLineLength \in Nat
      /\ Len(Line) \in Nat /\ HistoryCursor \in Slot
  BY LenProperties DEF ReplInv, TypeOK
<1>1. CASE UNCHANGED vars
  BY <1>1 DEF vars, edit, ring, ReplInv, TypeOK, HistoryRing, CursorInLine, OverrunsExplained
<1>2. CASE Next
  <2>1. fault = "none"
    BY <1>2 DEF Next
  <2>2. CASE DoRepl
    <3>1. 0 \in Slot
      BY SizeAssumption DEF Slot
    <3> QED BY <2>1, <2>2, <3>1, PromptFits DEF DoRepl, EmptyHistory
  <2>3. CASE gc_collect
    <3>1. PICK i \in Slot, text \in Garbage :
            History[i] # NULL /\ History' = [History EXCEPT ![i] = text]
      BY <2>3 DEF gc_collect
    <3>2. text \in Seq(Char) /\ text # NULL
      BY TextAssumption
    <3> QED BY <2>3, <3>1, <3>2
          DEF gc_collect, edit, ReplInv, TypeOK, HistoryRing, CursorInLine, OverrunsExplained
  <2>4. CASE CtrlE
    <3>1. <<>> \in Seq(Char)
      OBVIOUS
    <3> QED BY <2>1, <2>4, <3>1
          DEF CtrlE, ring, ReplInv, TypeOK, HistoryRing, CursorInLine, OverrunsExplained
  <2>5. CASE CtrlD
    <3>1. CASE ReplMode = "normal" /\ Running' = FALSE
               /\ UNCHANGED <<edit, ReplMode, ring, HistoryCursor, fault>>
      BY <3>1 DEF edit, ring, ReplInv, TypeOK, HistoryRing, CursorInLine, OverrunsExplained
    <3>2. CASE Submit(HasText, LastLine(Line))
      BY <1>0, <2>1, <3>2, LastLineText, SubmitFits
    <3>3. CASE UNCHANGED ring /\ Execute(Line # <<>>, HistoryIndex)
      BY <1>0, <2>1, <3>3, PromptFits DEF Execute, ring, TypeOK, HistoryRing
    <3> QED BY <2>5, <3>1, <3>2, <3>3 DEF CtrlD
  <2>6. CASE Enter
    <3>1. CASE Submit(Line # <<>>, {SubSeq(Line, OrigLineLength + 1, Len(Line))})
      <4>1. SubSeq(Line, OrigLineLength + 1, Len(Line)) \in Seq(Char)
        <5>1. OrigLineLength + 1 \in Nat \ {0} /\ Len(Line) \in 0..Len(Line)
          BY <1>0
        <5> QED BY <1>0, <5>1, PartOfLine
      <4> QED BY <1>0, <2>1, <3>1, <4>1, SubmitFits
    <3>2. CASE EnterContinue /\ ReplMode # "paste"
      <4>1. CASE Submit(HasText, LastLine(Line))
        BY <1>0, <2>1, <4>1, LastLineText, SubmitFits
      <4>2. CASE NewLine("continue")
        BY <2>1, <3>2, <4>2, NewLineFits
      <4> QED BY <3>2, <4>1, <4>2 DEF EnterContinue
    <3>3. CASE NewLine("paste")
      BY <2>1, <3>3, NewLineFits
    <3> QED BY <2>6, <3>1, <3>2, <3>3 DEF Enter
  <2>7. CASE Backspace
    <3>1. CursorPos - 1 \in Nat
      BY <1>0, <2>7 DEF Backspace
    <3>2. /\ Cut(Line, CursorPos - 1) \in Seq(Char)
          /\ Len(Cut(Line, CursorPos - 1)) =
               IF CursorPos - 1 >= Len(Line) THEN Len(Line) ELSE Len(Line) - 1
      BY <1>0, <3>1, CutLength
    <3>3. ReplMode # "paste" => CursorPos - 1 + 0 <= Len(Cut(Line, CursorPos - 1))
      BY <1>0, <3>1, <3>2 DEF ReplInv, CursorInLine
    <3> QED BY <2>1, <2>7, <3>1, <3>2, <3>3, RedrawFits DEF Backspace
  <2>8. CASE Tab
    <3>1. CASE /\ fault' = IF CursorPos <= Len(Line) THEN ReplPrint(CursorPos - OrigLineLength)
                           ELSE "overrun"
               /\ UNCHANGED <<Line, CursorPos>>
      <4>1. ~(CursorPos > Len(Line))
        BY <1>0, <2>8 DEF Tab, ReplInv, CursorInLine
      <4>2. CursorPos - OrigLineLength < 0 => ReplMode = "continue" /\ CursorPos < OrigLineLength
        BY <1>0, <2>8 DEF Tab, ReplInv, CursorInLine, TypeOK
      <4> QED BY <2>1, <2>8, <3>1, <4>1, <4>2
            DEF Tab, ReplPrint, ring, ReplInv, TypeOK, HistoryRing, CursorInLine, OverrunsExplained
    <3>2. CASE \E text \in Completions :
                 Redraw(Insert(Line, CursorPos, text), CursorPos, Len(text))
      <4>1. PICK text \in Completions : Redraw(Insert(Line, CursorPos, text), CursorPos, Len(text))
        BY <3>2
      <4>2. text \in Seq(Char) /\ Len(text) \in Nat
        BY TextAssumption, LenProperties
      <4>3. /\ Insert(Line, CursorPos, text) \in Seq(Char)
            /\ Len(Insert(Line, CursorPos, text)) = Len(Line) + Len(text)
        BY <1>0, <4>2, InsertLength
      <4>4. CursorPos + Len(text) <= Len(Insert(Line, CursorPos, text))
        BY <1>0, <2>8, <4>2, <4>3 DEF Tab, ReplInv, CursorInLine
      <4> QED BY <1>0, <2>1, <2>8, <4>1, <4>2, <4>3, <4>4, RedrawFits DEF Tab
    <3> QED BY <2>8, <3>1, <3>2 DEF Tab
  <2>9. CASE \E c \in Printable \cup {Blank} : Type(c)
    <3>1. PICK c \in Printable \cup {Blank} : Type(c)
      BY <2>9
    <3>2. <<c>> \in Seq(Char) /\ Len(<<c>>) = 1
      BY DEF Char
    <3>3. /\ Insert(Line, CursorPos, <<c>>) \in Seq(Char)
          /\ Len(Insert(Line, CursorPos, <<c>>)) = Len(Line) + 1
      BY <1>0, <3>2, InsertLength
    <3>4. ReplMode # "paste" => CursorPos + 1 <= Len(Insert(Line, CursorPos, <<c>>))
      BY <1>0, <3>3 DEF ReplInv, CursorInLine
    <3> QED BY <1>0, <2>1, <3>1, <3>3, <3>4, RedrawFits DEF Type
  <2>10. CASE Up \/ Down
    BY <1>0, <2>1, <2>10, SlotNeighbours, RecallFits DEF Up, Down
  <2>11. CASE Right
    BY <1>0, <2>1, <2>11, MoveFits DEF Right
  <2>12. CASE Left
    <3>1. CursorPos - 1 \in Nat /\ (ReplMode # "paste" => CursorPos - 1 <= Len(Line))
      BY <1>0, <2>12 DEF Left, ReplInv, CursorInLine
    <3> QED BY <2>1, <2>12, <3>1, MoveFits DEF Left
  <2>13. CASE End
    BY <1>0, <2>1, <2>13, MoveFits DEF End
  <2>14. CASE Home
    <3>1. ReplMode # "paste" => OrigLineLength <= Len(Line)
      BY <1>0, <2>14 DEF Home, ReplInv, CursorInLine
    <3> QED BY <1>0, <2>1, <2>14, <3>1, MoveFits DEF Home
  <2>15. CASE Delete
    <3>1. /\ Cut(Line, CursorPos) \in Seq(Char)
          /\ Len(Cut(Line, CursorPos)) =
               IF CursorPos >= Len(Line) THEN Len(Line) ELSE Len(Line) - 1
      BY <1>0, CutLength
    <3>2. CursorPos + 0 <= Len(Cut(Line, CursorPos))
      BY <1>0, <2>15, <3>1 DEF Delete
    <3> QED BY <1>0, <2>1, <2>15, <3>1, <3>2, RedrawFits DEF Delete
  <2>16. CASE Esc
    <3>1. CASE Prompt(HistoryIndex) /\ UNCHANGED <<Running, ring, fault>>
      BY <1>0, <2>1, <3>1, PromptFits DEF ring, TypeOK, HistoryRing
    <3>2. CASE /\ Line' = <<>> /\ OrigLineLength' = 0 /\ CursorPos' = 0
               /\ ReplMode' = "normal"
               /\ UNCHANGED <<Running, ring, HistoryCursor, fault>>
      <4>1. <<>> \in Seq(Char) /\ Len(<<>>) = 0
        OBVIOUS
      <4> QED BY <2>1, <3>2, <4>1
            DEF ring, ReplInv, TypeOK, HistoryRing, CursorInLine, OverrunsExplained
    <3> QED BY <2>16, <3>1, <3>2 DEF Esc, ReplClear
  <2> QED BY <1>2, <2>2, <2>3, <2>4, <2>5, <2>6, <2>7, <2>8, <2>9, <2>10, <2>11, <2>12, <2>13,
             <2>14, <2>15, <2>16 DEF Next, ReplLoop
<1> QED BY <1>1, <1>2

\* At the prompt of repl.c, whatever keys are pressed, whatever the heap makes of the
\* history: the ring ends in an empty slot, the cursor stays in the text outside
\* paste mode, and a negative length has one of two causes.
THEOREM PromptSafe == Spec => [](TypeOK /\ HistoryRing /\ CursorInLine /\ OverrunsExplained)
<1>1. ReplInv => TypeOK /\ HistoryRing /\ CursorInLine /\ OverrunsExplained
  BY DEF ReplInv
<1> QED BY InitRepl, StepRepl, <1>1, PTL DEF Spec

\* The three parts of it for themselves: ranges of mReplData of repl.c, ...
THEOREM PromptTyped == Spec => []TypeOK
BY PromptSafe, PTL
\* ... the cursor of ReplLoop, ...
THEOREM CursorStays == Spec => []CursorInLine
BY PromptSafe, PTL
\* ... and the causes of a negative length in ReplPrint.
THEOREM OverrunsKnown == Spec => []OverrunsExplained
BY PromptSafe, PTL

-----------------------------------------------------------------------------
(* Earlier lines.                                                          *)

\* The first k characters of a line that ends with `t`.
LEMMA PrefixOfJoined ==
  ASSUME NEW s \in Seq(Char), NEW t \in Seq(Char), NEW k \in 0..Len(s)
  PROVE  SubSeq(s \o t, 1, k) = SubSeq(s, 1, k)
  BY ONLY s \in Seq(Char), t \in Seq(Char), k \in 0..Len(s)

\* The first k characters of a prefix.
LEMMA PrefixOfPrefix ==
  ASSUME NEW s \in Seq(Char), NEW n \in 0..Len(s), NEW k \in 0..n
  PROVE  SubSeq(SubSeq(s, 1, n), 1, k) = SubSeq(s, 1, k)
  BY ONLY s \in Seq(Char), n \in 0..Len(s), k \in 0..n

\* An insertion leaves what is before it.
LEMMA InsertKeeps ==
  ASSUME NEW line \in Seq(Char), NEW pos \in 0..Len(line), NEW text \in Seq(Char), NEW k \in 0..pos
  PROVE  SubSeq(Insert(line, pos, text), 1, k) = SubSeq(line, 1, k)
<1> DEFINE a == SubSeq(line, 1, pos)
           b == SubSeq(line, pos + 1, Len(line))
<1>1. Len(line) \in Nat /\ pos \in Nat /\ Len(line) \in 0..Len(line) /\ pos + 1 \in Nat \ {0}
  BY LenProperties
<1>2. a \in Seq(Char) /\ Len(a) = pos /\ b \in Seq(Char)
  BY <1>1, PartOfLine
<1>3. Insert(line, pos, text) = a \o text \o b
  <2>1. pos = IF pos > Len(line) THEN Len(line) ELSE pos
    BY <1>1
  <2> QED BY <2>1, Zenon DEF Insert
<1>4. SubSeq(a, 1, k) = SubSeq(line, 1, k)
  BY PrefixOfPrefix
<1> HIDE DEF a, b
<1>5. a \o text \in Seq(Char) /\ Len(a \o text) = pos + Len(text)
  BY <1>2, Joined
<1>6. k \in 0..Len(a) /\ k \in 0..Len(a \o text)
  BY <1>1, <1>2, <1>5, LenProperties
<1>7. SubSeq(a \o text \o b, 1, k) = SubSeq(a \o text, 1, k)
  BY <1>2, <1>5, <1>6, PrefixOfJoined
<1>8. SubSeq(a \o text, 1, k) = SubSeq(a, 1, k)
  BY <1>2, <1>6, PrefixOfJoined
<1> QED BY <1>3, <1>4, <1>7, <1>8

\* So does the removal of a character.
LEMMA CutKeeps ==
  ASSUME NEW line \in Seq(Char), NEW pos \in Nat, NEW k \in 0..pos
  PROVE  SubSeq(Cut(line, pos), 1, k) = SubSeq(line, 1, k)
<1> DEFINE a == SubSeq(line, 1, pos)
           b == SubSeq(line, pos + 2, Len(line))
<1>1. CASE pos >= Len(line)
  BY <1>1 DEF Cut
<1>2. CASE ~(pos >= Len(line))
  <2>1. Len(line) \in Nat /\ pos \in 0..Len(line) /\ Len(line) \in 0..Len(line)
        /\ pos + 2 \in Nat \ {0}
    BY <1>2, LenProperties
  <2>2. a \in Seq(Char) /\ Len(a) = pos /\ b \in Seq(Char)
    BY <2>1, PartOfLine
  <2>3. Cut(line, pos) = a \o b
    BY <1>2 DEF Cut
  <2>4. SubSeq(a, 1, k) = SubSeq(line, 1, k)
    BY <2>1, PrefixOfPrefix
  <2> HIDE DEF a, b
  <2>5. SubSeq(a \o b, 1, k) = SubSeq(a, 1, k)
    BY <2>2, PrefixOfJoined
  <2> QED BY <2>3, <2>4, <2>5
<1> QED BY <1>1, <1>2

\* One key in the last line of a compound statement.
LEMMA StepKeepsEarlier ==
  ASSUME ReplInv, Next, ReplMode = "continue", ReplMode' = "continue", CursorPos >= OrigLineLength
  PROVE  SubSeq(Line', 1, OrigLineLength) = SubSeq(Line, 1, OrigLineLength)
<1>0. Line \in Seq(Char) /\ Len(Line) \in Nat /\ OrigLineLength \in Nat
      /\ OrigLineLength \in 0..CursorPos /\ CursorPos \in 0..Len(Line)
  BY LenProperties DEF ReplInv, TypeOK, CursorInLine
<1>1. CASE UNCHANGED Line
  BY <1>1
<1>2. ASSUME NEW text \in Seq(Char), Line' = Insert(Line, CursorPos, text)
      PROVE  SubSeq(Line', 1, OrigLineLength) = SubSeq(Line, 1, OrigLineLength)
  BY <1>0, <1>2, InsertKeeps
<1>3. ~CtrlE /\ ~DoRepl /\ ~Up /\ ~Down
  BY DEF CtrlE, DoRepl, Prompt, Up, Down, Recall
<1>4. ~Esc /\ ~CtrlD /\ ~Submit(HasText, LastLine(Line))
  BY DEF Esc, CtrlD, Submit, Execute, Prompt
<1>5. CASE Enter
  <2>1. NewLine("continue")
    BY <1>4, <1>5 DEF Enter, EnterContinue
  <2>2. <<Newline>> \in Seq(Char)
    BY DEF Char
  <2> QED BY <1>2, <2>1, <2>2 DEF NewLine
<1>6. CASE Backspace
  <2>1. CursorPos - 1 \in Nat /\ OrigLineLength \in 0..(CursorPos - 1)
    BY <1>0, <1>6 DEF Backspace
  <2> QED BY <1>0, <1>6, <2>1, CutKeeps DEF Backspace, Redraw
<1>7. CASE Tab
  BY <1>1, <1>2, <1>7, TextAssumption DEF Tab, Redraw
<1>8. CASE \E c \in Printable \cup {Blank} : Type(c)
  <2>1. PICK c \in Printable \cup {Blank} : Type(c)
    BY <1>8
  <2>2. <<c>> \in Seq(Char)
    BY DEF Char
  <2> QED BY <1>2, <2>1, <2>2 DEF Type, Redraw
<1>9. CASE Delete
  <2>1. CursorPos \in Nat
    BY <1>0
  <2> QED BY <1>0, <1>9, <2>1, CutKeeps DEF Delete, Redraw
<1>10. CASE gc_collect \/ Right \/ Left \/ End \/ Home
  BY <1>1, <1>10 DEF gc_collect, edit, Right, Left, End, Home, Move
<1> QED BY <1>3, <1>4, <1>5, <1>6, <1>7, <1>8, <1>9, <1>10 DEF Next, ReplLoop

\* repl.c:350, 447 and 461 keep Backspace, Left and Delete in the last line: a line of
\* a compound statement that was ended with Enter does not change any more.
THEOREM EarlierLinesStay == Spec => EarlierLinesFixed
<1>1. ReplInv /\ [Next]_vars =>
        [ReplMode = "continue" /\ ReplMode' = "continue" /\ CursorPos >= OrigLineLength
           => SubSeq(Line', 1, OrigLineLength) = SubSeq(Line, 1, OrigLineLength)]_vars
  BY StepKeepsEarlier
<1> QED BY <1>1, InitRepl, StepRepl, PTL DEF Spec, EarlierLinesFixed

=============================================================================
