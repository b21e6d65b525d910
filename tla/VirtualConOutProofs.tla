------------------------ MODULE VirtualConOutProofs ------------------------
(***************************************************************************)
(* Proofs about VirtualConOut, for any modes, strings, attributes and       *)
(* number of priorities.                                                    *)
(***************************************************************************)
EXTENDS VirtualConOut, SequenceTheorems, TLAPS

-----------------------------------------------------------------------------
(* Modes and the stack of calls.                                           *)

\* Modes are numbers from 0, and a mode has rows and columns.
LEMMA ModeFacts ==
  /\ Modes \subseteq Nat /\ 0 \in Modes /\ NoMode \notin Modes
  /\ \A mode \in Modes : /\ Size(mode).Columns \in Nat /\ Size(mode).Columns >= 2
                         /\ Size(mode).Rows \in Nat /\ Size(mode).Rows >= 1
<1>1. ModeData \in Seq([Columns : Nat, Rows : Nat]) /\ Len(ModeData) \in Nat /\ Len(ModeData) >= 1
      /\ DOMAIN ModeData = 1..Len(ModeData)
  BY OutAssumption, EmptySeq, LenProperties
<1>2. \A m \in DOMAIN ModeData : /\ ModeData[m].Columns \in Nat /\ ModeData[m].Rows \in Nat
                                 /\ ModeData[m].Columns >= 2 /\ ModeData[m].Rows >= 1
  <2>1. \A m \in DOMAIN ModeData : ModeData[m] \in [Columns : Nat, Rows : Nat]
    BY <1>1, ElementOfSeq
  <2> QED BY <2>1, OutAssumption
<1>3. Modes = 0..(Len(ModeData) - 1)
  BY <1>1 DEF Modes
<1>4. \A mode \in Modes : mode + 1 \in DOMAIN ModeData
  BY <1>1, <1>3
<1> QED BY <1>1, <1>2, <1>3, <1>4 DEF Size, NoMode

\* The call that runs.
LEMMA TopFacts ==
  ASSUME stack \in Seq(Frames), ~Idle
  PROVE  /\ Len(stack) \in Nat /\ Len(stack) >= 1 /\ DOMAIN stack = 1..Len(stack)
         /\ Len(stack) \in DOMAIN stack /\ top \in Frames
BY EmptySeq, LenProperties, ElementOfSeq DEF Idle, top

\* A call is entered.
LEMMA PushFacts ==
  ASSUME stack \in Seq(Frames), NEW f \in Frames, stack' = Append(stack, f)
  PROVE  /\ stack' \in Seq(Frames) /\ Len(stack) \in Nat /\ Len(stack') = Len(stack) + 1
         /\ DOMAIN stack = 1..Len(stack) /\ DOMAIN stack' = 1..(Len(stack) + 1)
         /\ \A i \in DOMAIN stack : stack'[i] = stack[i]
         /\ stack'[Len(stack) + 1] = f
BY AppendProperties, LenProperties

\* The running call takes a step.
LEMMA GotoFacts ==
  ASSUME stack \in Seq(Frames), ~Idle, NEW f \in Frames, Goto(f)
  PROVE  /\ stack' \in Seq(Frames) /\ Len(stack) \in Nat /\ Len(stack) >= 1
         /\ Len(stack') = Len(stack) /\ DOMAIN stack = 1..Len(stack) /\ DOMAIN stack' = DOMAIN stack
         /\ \A i \in 1..(Len(stack) - 1) : stack'[i] = stack[i]
         /\ stack'[Len(stack)] = f
<1> DEFINE n == Len(stack)
<1>1. n \in Nat /\ n >= 1 /\ DOMAIN stack = 1..n
  BY TopFacts
<1>2. n \in 1..n
  BY <1>1
<1>3. stack' \in Seq(Frames) /\ Len(stack') = n
      /\ (\A j \in 1..n : stack'[j] = IF j = n THEN f ELSE stack[j])
  BY <1>2, ExceptSeq DEF Goto
<1>4. DOMAIN stack' = 1..n
  BY <1>3, LenProperties
<1> HIDE DEF n
<1>5. \A i \in 1..(n - 1) : i \in 1..n /\ i # n
  BY <1>1
<1>6. (\A i \in 1..(n - 1) : stack'[i] = stack[i]) /\ stack'[n] = f
  BY <1>2, <1>3, <1>5
<1> QED BY <1>1, <1>3, <1>4, <1>6 DEF n

\* The running call returns.
LEMMA ReturnFacts ==
  ASSUME stack \in Seq(Frames), ~Idle, Return
  PROVE  /\ stack' \in Seq(Frames) /\ Len(stack) \in Nat /\ Len(stack) >= 1
         /\ Len(stack') = Len(stack) - 1
         /\ DOMAIN stack = 1..Len(stack) /\ DOMAIN stack' = 1..(Len(stack) - 1)
         /\ \A i \in 1..(Len(stack) - 1) : stack'[i] = stack[i]
<1>1. Len(stack) \in Nat /\ Len(stack) >= 1 /\ DOMAIN stack = 1..Len(stack)
  BY TopFacts
<1>2. SubSeq(stack, 1, Len(stack) - 1) \in Seq(Frames)
  BY <1>1, SubSeqProperties
<1>3. Len(SubSeq(stack, 1, Len(stack) - 1)) = Len(stack) - 1
  BY <1>1, SubSeqProperties
<1> QED BY <1>1, <1>2, <1>3, SubSeqProperties, LenProperties DEF Return

\* What a new frame holds.
LEMMA FrameFields ==
  ASSUME NEW pc, NEW level, NEW left, NEW mode, NEW a, NEW rows
  PROVE  /\ Frame(pc, level, left, mode, a, rows).pc = pc
         /\ Frame(pc, level, left, mode, a, rows).level = level
         /\ Frame(pc, level, left, mode, a, rows).left = left
         /\ Frame(pc, level, left, mode, a, rows).Mode = mode
         /\ Frame(pc, level, left, mode, a, rows).Attribute = a
         /\ Frame(pc, level, left, mode, a, rows).HistoryRows = rows
BY DEF Frame

\* A call goes on to another place.
LEMMA UpdatePc ==
  ASSUME NEW f \in Frames, NEW pc, NEW g, g = [f EXCEPT !.pc = pc]
  PROVE  g.pc = pc /\ g.left = f.left /\ g.Mode = f.Mode /\ g.Attribute = f.Attribute
         /\ g.HistoryRows = f.HistoryRows
BY DEF Frames

\* A call has used up a character.
LEMMA UpdateLeft ==
  ASSUME NEW f \in Frames, NEW left, NEW g, g = [f EXCEPT !.left = left]
  PROVE  g.pc = f.pc /\ g.left = left /\ g.Mode = f.Mode /\ g.Attribute = f.Attribute
         /\ g.HistoryRows = f.HistoryRows
BY DEF Frames

\* A call has used up a character and goes on to another place.
LEMMA UpdateBoth ==
  ASSUME NEW f \in Frames, NEW left, NEW pc, NEW g, g = [f EXCEPT !.left = left, !.pc = pc]
  PROVE  g.pc = pc /\ g.left = left /\ g.Mode = f.Mode /\ g.Attribute = f.Attribute
         /\ g.HistoryRows = f.HistoryRows
BY DEF Frames

\* The running call calls itself.
LEMMA WrapFacts ==
  ASSUME TypeOK, Mode # NoMode, Wrap
  PROVE  /\ stack' \in Seq(Frames) /\ Len(stack) \in Nat /\ Len(stack) >= 1
         /\ Len(stack') = Len(stack) + 1
         /\ DOMAIN stack = 1..Len(stack) /\ DOMAIN stack' = 1..(Len(stack) + 1)
         /\ \A i \in 1..(Len(stack) - 1) : stack'[i] = stack[i]
         /\ stack'[Len(stack)] = [top EXCEPT !.pc = "lock"] /\ top \in Frames /\ top.pc = "wrap"
         /\ stack'[Len(stack) + 1] = Frame("lock", top.level, mCrLfString, Mode, Attribute, 0)
<1> DEFINE outer == [stack EXCEPT ![Len(stack)] = [top EXCEPT !.pc = "lock"]]
           f == Frame("lock", top.level, mCrLfString, Mode, Attribute, 0)
<1>1. stack \in Seq(Frames) /\ ~Idle /\ top.pc = "wrap"
  BY DEF TypeOK, Wrap, Running
<1>2. Len(stack) \in Nat /\ Len(stack) >= 1 /\ DOMAIN stack = 1..Len(stack) /\ top \in Frames
  BY <1>1, TopFacts
<1>3. [top EXCEPT !.pc = "lock"] \in Frames
  BY <1>2 DEF Frames, Writing
<1>4. mCrLfString \in Seq(Chars)
  BY DEF mCrLfString, Chars
<1>5. f \in Frames
  BY <1>2, <1>4 DEF Frames, Frame, Writing, TypeOK
<1>6. outer \in Seq(Frames) /\ Len(outer) = Len(stack) /\ DOMAIN outer = DOMAIN stack
      /\ (\A i \in 1..(Len(stack) - 1) : outer[i] = stack[i])
      /\ outer[Len(stack)] = [top EXCEPT !.pc = "lock"]
  BY <1>1, <1>2, <1>3, ExceptSeq
<1>7. stack' = Append(outer, f)
  BY DEF Wrap
<1> HIDE DEF outer, f
<1>8. stack' \in Seq(Frames) /\ Len(stack') = Len(outer) + 1
      /\ DOMAIN stack' = 1..(Len(outer) + 1)
      /\ (\A i \in 1..Len(outer) : stack'[i] = outer[i]) /\ stack'[Len(outer) + 1] = f
  BY <1>5, <1>6, <1>7, AppendProperties, LenProperties
<1>9. \A n \in Nat : n >= 1 => n \in 1..n /\ \A i \in 1..(n - 1) : i \in 1..n
  OBVIOUS
<1>10. (\A i \in 1..(Len(stack) - 1) : stack'[i] = stack[i]) /\ stack'[Len(stack)] = outer[Len(stack)]
  BY <1>2, <1>6, <1>8, <1>9
<1>11. Len(stack') = Len(stack) + 1 /\ DOMAIN stack' = 1..(Len(stack) + 1) /\ stack'[Len(stack) + 1] = f
  BY <1>6, <1>8
<1> QED BY <1>1, <1>2, <1>6, <1>8, <1>10, <1>11 DEF f

-----------------------------------------------------------------------------
(* Types.                                                                  *)

\* The rest of a string is a string.
LEMMA TailFacts ==
  ASSUME NEW f \in Frames, f.left # <<>>
  PROVE  [f EXCEPT !.left = Tail(@)] \in Frames /\ Head(f.left) \in Chars
<1>1. f.left \in Seq(Chars)
  BY DEF Frames
<1>2. Tail(f.left) \in Seq(Chars) /\ Head(f.left) \in Chars
  BY <1>1, HeadTailProperties
<1> QED BY <1>2 DEF Frames

\* What a store or a copy can do.
LEMMA TouchFacts ==
  ASSUME NEW rows, NEW columns
  PROVE  Touch(rows, columns) \in {"none", "out of bounds", "freed row"}
BY DEF Touch

\* A new screen is a sequence of rows.
LEMMA NewScreenFacts ==
  ASSUME NEW free, NEW n \in Nat, NEW rows \in NewScreens(free, n)
  PROVE  rows \in Seq(free) /\ Len(rows) = n /\ DOMAIN rows = 1..n /\ IsInjective(rows)
<1>1. rows \in [1..n -> free] /\ IsInjective(rows)
  BY DEF NewScreens
<1> QED BY <1>1

\* SetMode leaves a mode and rows.
LEMMA InModeType ==
  ASSUME TypeOK, NEW mode \in Modes, InMode(mode)
  PROVE  /\ Mode' \in Modes \cup {NoMode} /\ CursorColumn' \in Nat /\ CursorRow' \in Nat
         /\ ScreenBuffer' \in Seq(Addr) /\ ScreenHistory' \in Seq(Addr) /\ heap' \subseteq Addr
         /\ fault' \in Faults /\ adrift' \in BOOLEAN
<1>1. CASE mode = Mode /\ ClearRows
           /\ UNCHANGED <<Mode, CursorColumn, CursorRow, ScreenBuffer, ScreenHistory, heap, adrift>>
  BY <1>1, TouchFacts DEF TypeOK, ClearRows, Faults
<1>2. CASE fault' = "double free"
           /\ UNCHANGED <<Mode, CursorColumn, CursorRow, ScreenBuffer, ScreenHistory, heap, adrift>>
  BY <1>2 DEF TypeOK, Faults
<1>3. CASE ChangeMode(mode) /\ Freeable(FreedBySetMode)
  <2> DEFINE kept == heap \ ToSet(FreedBySetMode)
  <2>1. PICK rows \in NewScreens(Addr \ kept, Size(mode).Rows) :
               ScreenBuffer' = rows /\ heap' = kept \cup ToSet(rows)
    BY <1>3 DEF ChangeMode
  <2>2. rows \in Seq(Addr \ kept)
    BY NewScreenFacts, ModeFacts
  <2>3. ToSet(rows) \subseteq Addr /\ rows \in Seq(Addr)
    BY <2>2, LenProperties, ElementOfSeq DEF ToSet
  <2>4. heap' \subseteq Addr
    BY <2>1, <2>3 DEF TypeOK
  <2>5. Mode' = mode /\ CursorColumn' = 0 /\ CursorRow' = 0 /\ adrift' = ~Idle /\ fault' = fault
        /\ ScreenHistory' = <<>>
    BY <1>3 DEF ChangeMode
  <2> HIDE DEF kept
  <2>6. (~Idle) \in BOOLEAN
    OBVIOUS
  <2> QED BY <2>1, <2>3, <2>4, <2>5, <2>6, EmptySeq DEF TypeOK
<1> QED BY <1>1, <1>2, <1>3 DEF InMode, ChangeMode

\* Attributes are eight bits wide.
LEMMA AttributeFacts ==
  ASSUME NEW a \in 0..255
  PROVE  /\ (a % EFI_WIDE_ATTRIBUTE) + EFI_WIDE_ATTRIBUTE \in 0..255
         /\ a % EFI_WIDE_ATTRIBUTE \in 0..127
         /\ OnBlack(a) \in 0..15
BY DEF EFI_WIDE_ATTRIBUTE, OnBlack

\* The frame that a new call gets.
LEMMA NewFrames ==
  ASSUME TypeOK, NEW level \in Tpl
  PROVE  /\ Mode # NoMode => \A string \in Seq(Chars) : Frame("lock", level, string, Mode, Attribute, 0) \in Frames
         /\ Mode # NoMode => Frame("copy", level, <<>>, Mode, 0, 0) \in Frames
         /\ Mode # NoMode => Frame("copy all", level, <<>>, Mode, 0, Len(ScreenHistory)) \in Frames
         /\ Frame("reset", level, <<>>, 0, 0, 0) \in Frames
<1>1. <<>> \in Seq(Chars) /\ Len(ScreenHistory) \in Nat /\ 0 \in Modes /\ 0 \in 0..255
  BY EmptySeq, LenProperties, ModeFacts DEF TypeOK
<1>2. Mode # NoMode => Mode \in Modes
  BY DEF TypeOK
<1> QED BY <1>1, <1>2 DEF Frames, Frame, Writing, TypeOK

\* What the steps of a running call make of its frame.
LEMMA StepFrames ==
  ASSUME TypeOK, ~Idle
  PROVE  /\ \A pc \in Writing : [top EXCEPT !.pc = pc] \in Frames
         /\ top.left # <<>> => \A pc \in Writing : [top EXCEPT !.left = Tail(@), !.pc = pc] \in Frames
         /\ top.left # <<>> => [top EXCEPT !.left = Tail(@)] \in Frames
         /\ [top EXCEPT !.pc = "attribute", !.Attribute = OnBlack(Attribute)] \in Frames
<1>1. top \in Frames
  BY TopFacts DEF TypeOK
<1>2. top.left # <<>> => [top EXCEPT !.left = Tail(@)] \in Frames
  BY <1>1, TailFacts
<1>3. OnBlack(Attribute) \in 0..255
  <2>1. Attribute \in 0..255
    BY DEF TypeOK
  <2>2. OnBlack(Attribute) \in 0..15
    BY <2>1, AttributeFacts
  <2> QED BY <2>2
<1>4. \A pc \in Writing : [top EXCEPT !.pc = pc] \in Frames
  BY <1>1 DEF Frames, Writing
<1>5. top.left # <<>> => \A pc \in Writing : [top EXCEPT !.left = Tail(@), !.pc = pc] \in Frames
  <2>1. top.left \in Seq(Chars)
    BY <1>1 DEF Frames
  <2>2. top.left # <<>> => Tail(top.left) \in Seq(Chars)
    BY <2>1, HeadTailProperties
  <2> QED BY <1>1, <2>2 DEF Frames, Writing
<1>6. [top EXCEPT !.pc = "attribute", !.Attribute = OnBlack(Attribute)] \in Frames
  BY <1>1, <1>3 DEF Frames, Writing
<1> QED BY <1>2, <1>4, <1>5, <1>6

\* A call in progress finds a screen.
LEMMA TopRow ==
  ASSUME TypeOK, ScreenInv, fault = "none", stack # <<>>
  PROVE  /\ Mode \in Modes /\ loaded /\ Len(ScreenBuffer) = Size(Mode).Rows
         /\ Len(ScreenBuffer) \in Nat /\ DOMAIN ScreenBuffer = 1..Len(ScreenBuffer)
         /\ 1 \in DOMAIN ScreenBuffer /\ ScreenBuffer[1] \in Addr
<1>1. Mode \in Modes /\ loaded /\ Len(ScreenBuffer) = Size(Mode).Rows
  BY DEF TypeOK, ScreenInv
<1>2. Len(ScreenBuffer) >= 1
  BY <1>1, ModeFacts
<1>3. Len(ScreenBuffer) \in Nat /\ DOMAIN ScreenBuffer = 1..Len(ScreenBuffer)
  BY LenProperties DEF TypeOK
<1>4. 1 \in 1..Len(ScreenBuffer)
  BY <1>2, <1>3
<1> QED BY <1>1, <1>3, <1>4, ElementOfSeq DEF TypeOK

\* Every step keeps the types.
LEMMA TypeStep ==
  ASSUME TypeOK, ScreenInv, [Next]_vars
  PROVE  TypeOK'
<1> USE DEF device
<1>0. CASE UNCHANGED vars
  BY <1>0 DEF vars, TypeOK
<1> SUFFICES ASSUME Next PROVE TypeOK'
  BY <1>0
<1> fault = "none"
  BY DEF Next
<1>1. ASSUME NEW level \in Tpl, NEW s \in Strings, OutputString(level, s) PROVE TypeOK'
  <2>1. s \in Seq(Chars)
    BY OutAssumption
  <2>2. stack' \in Seq(Frames)
    BY <1>1, <2>1, NewFrames, PushFacts DEF OutputString, TypeOK
  <2>3. interrupted' \in BOOLEAN
    BY <1>1 DEF OutputString, Begin
  <2> QED BY <1>1, <2>2, <2>3 DEF OutputString, TypeOK
<1>2. ASSUME NEW level \in Tpl, NEW a \in Attributes, SetAttribute(level, a) PROVE TypeOK'
  <2>1. a \in 0..127
    BY OutAssumption
  <2>2. interrupted' \in BOOLEAN
    BY <1>2 DEF SetAttribute, Begin
  <2> QED BY <1>2, <2>1, <2>2 DEF SetAttribute, TypeOK, Choose, Unknown
<1>3. ASSUME NEW level \in Tpl, NEW mode \in Modes, SetMode(level, mode) PROVE TypeOK'
  <2>1. interrupted' \in BOOLEAN
    BY <1>3 DEF SetMode, Begin
  <2> QED BY <1>3, <2>1, InModeType DEF SetMode, TypeOK
<1>4. ASSUME NEW level \in Tpl, ClearScreen(level) PROVE TypeOK'
  <2>1. interrupted' \in BOOLEAN /\ adrift' \in BOOLEAN
    BY <1>4 DEF ClearScreen, Begin, Place
  <2>2. fault' \in Faults
    BY <1>4, TouchFacts DEF ClearScreen, ClearRows, Faults
  <2> QED BY <1>4, <2>1, <2>2 DEF ClearScreen, Place, TypeOK
<1>5. ASSUME NEW level \in Tpl, SetCursorPosition(level) PROVE TypeOK'
  <2>1. interrupted' \in BOOLEAN /\ adrift' \in BOOLEAN
    BY <1>5 DEF SetCursorPosition, Begin, Place
  <2>2. CursorColumn' \in Nat /\ CursorRow' \in Nat
    BY <1>5, ModeFacts DEF SetCursorPosition, Place, TypeOK
  <2> QED BY <1>5, <2>1, <2>2 DEF SetCursorPosition, TypeOK
<1>6. ASSUME NEW level \in Tpl, ConOutReset(level) PROVE TypeOK'
  <2>1. interrupted' \in BOOLEAN
    BY <1>6 DEF ConOutReset, Begin
  <2>2. stack' \in Seq(Frames)
    BY <1>6, NewFrames, PushFacts DEF ConOutReset, TypeOK
  <2> QED BY <1>6, <2>1, <2>2, InModeType, ModeFacts DEF ConOutReset, TypeOK
<1>7. ASSUME NEW level \in Tpl, GetScreen(level) PROVE TypeOK'
  <2>1. interrupted' \in BOOLEAN
    BY <1>7 DEF GetScreen, Begin
  <2>2. stack' \in Seq(Frames)
    BY <1>7, NewFrames, PushFacts DEF GetScreen, TypeOK
  <2> QED BY <1>7, <2>1, <2>2 DEF GetScreen, TypeOK
<1>8. CASE AcquireLock
  <2>1. stack' \in Seq(Frames)
    BY <1>8, StepFrames, GotoFacts DEF AcquireLock, Running, Writing, TypeOK
  <2> QED BY <1>8, <2>1 DEF AcquireLock, TypeOK
<1>9. ASSUME NEW ch \in Chars, Next1(ch), Used PROVE stack' \in Seq(Frames) /\ max.Columns \in Nat /\ max.Columns >= 2
  <2>1. ~Idle /\ top.left # <<>> /\ top \in Frames
    BY <1>9, TopFacts DEF Next1, Running, TypeOK
  <2>2. stack' \in Seq(Frames)
    BY <1>9, <2>1, StepFrames, GotoFacts DEF Used, TypeOK
  <2>3. top.Mode \in Modes
    BY <2>1 DEF Frames
  <2> QED BY <2>2, <2>3, ModeFacts DEF max
<1>10. CASE Backspace
  <2>1. stack' \in Seq(Frames) /\ max.Columns \in Nat /\ max.Columns >= 2
    BY <1>9, <1>10 DEF Backspace, Chars
  <2>2. CursorColumn' \in Nat /\ CursorRow' \in Nat
    BY <1>10, <2>1 DEF Backspace, TypeOK
  <2>3. fault' \in Faults
    BY <1>10, TouchFacts DEF Backspace, Faults
  <2> QED BY <1>10, <2>1, <2>2, <2>3 DEF Backspace, PutUnchanged, TypeOK
<1>11. CASE Linefeed
  <2>1. stack' \in Seq(Frames)
    BY <1>9, <1>11 DEF Linefeed, Chars
  <2>2. CASE /\ ScreenHistory' = Append(ScreenHistory, ScreenBuffer[1])
             /\ fault' = Touch(1..(CursorRow + 1), max.Columns)
             /\ UNCHANGED CursorRow
    <3>1. fault' \in Faults
      BY <2>2, TouchFacts DEF Faults
    <3>2. ScreenHistory' \in Seq(Addr)
      BY <1>11, TopRow, AppendProperties, <2>2 DEF Linefeed, Next1, Running, Idle, TypeOK
    <3> QED BY <1>11, <2>1, <2>2, <3>1, <3>2 DEF Linefeed, PutUnchanged, TypeOK
  <2>3. CASE CursorRow' = CursorRow + 1 /\ UNCHANGED <<ScreenHistory, fault>>
    BY <1>11, <2>1, <2>3 DEF Linefeed, PutUnchanged, TypeOK
  <2> QED BY <1>11, <2>2, <2>3 DEF Linefeed
<1>12. CASE CarriageReturn
  <2>1. stack' \in Seq(Frames)
    BY <1>9, <1>12 DEF CarriageReturn, Chars
  <2> QED BY <1>12, <2>1 DEF CarriageReturn, PutUnchanged, TypeOK
<1>13. CASE WideOrNarrow
  <2>1. stack' \in Seq(Frames)
    BY <1>9, <1>13 DEF WideOrNarrow, Chars
  <2>2. Attribute' \in 0..255
    <3>1. Attribute \in 0..255
      BY DEF TypeOK
    <3>2. /\ (Attribute % EFI_WIDE_ATTRIBUTE) + EFI_WIDE_ATTRIBUTE \in 0..255
          /\ Attribute % EFI_WIDE_ATTRIBUTE \in 0..255
      BY <3>1 DEF EFI_WIDE_ATTRIBUTE
    <3> QED BY <1>13, <3>2 DEF WideOrNarrow
  <2> QED BY <1>13, <2>1, <2>2 DEF WideOrNarrow, PutUnchanged, TypeOK
<1>14. CASE PutChar
  <2>1. ~Idle /\ top.left # <<>> /\ stack \in Seq(Frames)
    BY <1>14 DEF PutChar, Next1, Running, TypeOK
  <2>2. stack' \in Seq(Frames)
    BY <1>14, <2>1, StepFrames, GotoFacts DEF PutChar, Writing
  <2>3. CursorColumn' \in Nat
    BY <1>14 DEF PutChar, TypeOK
  <2>4. fault' \in Faults
    BY <1>14, TouchFacts DEF PutChar, Faults, TypeOK
  <2> QED BY <1>14, <2>2, <2>3, <2>4 DEF PutChar, PutUnchanged, TypeOK
<1>15. CASE Wrap
  <2>1. Mode # NoMode
    BY <1>15 DEF Wrap, Running, Idle, ScreenInv
  <2>2. stack' \in Seq(Frames)
    BY <1>15, <2>1, WrapFacts
  <2> QED BY <1>15, <2>2 DEF Wrap, TypeOK
<1>16. CASE StringEnd
  <2>1. stack' \in Seq(Frames) /\ top \in Frames
    BY <1>16, TopFacts, ReturnFacts DEF StringEnd, Running, TypeOK
  <2>2. top.Attribute \in 0..255
    BY <2>1 DEF Frames
  <2> QED BY <1>16, <2>1, <2>2 DEF StringEnd, PutUnchanged, TypeOK
<1>17. CASE ResetReads
  <2>1. stack' \in Seq(Frames)
    BY <1>17, StepFrames, GotoFacts DEF ResetReads, Running, TypeOK
  <2> QED BY <1>17, <2>1 DEF ResetReads, TypeOK
<1>18. CASE ResetWrites
  <2>1. stack' \in Seq(Frames) /\ top \in Frames
    BY <1>18, TopFacts, ReturnFacts DEF ResetWrites, Running, TypeOK
  <2>2. top.Attribute \in 0..255
    BY <2>1 DEF Frames
  <2> QED BY <1>18, <2>1, <2>2 DEF ResetWrites, Choose, Unknown, TypeOK
<1>19. CASE GetScreenCopy
  <2>1. stack' \in Seq(Frames)
    BY <1>19, ReturnFacts DEF GetScreenCopy, Running, TypeOK
  <2>2. fault' \in Faults
    BY <1>19, TouchFacts DEF GetScreenCopy, Faults
  <2> QED BY <1>19, <2>1, <2>2 DEF GetScreenCopy, TypeOK
<1>20. CASE VirtualConsoleUnload
  <2>1. ScreenBuffer' \in Seq(Addr) /\ ScreenHistory' \in Seq(Addr) /\ heap' \subseteq Addr /\ fault' \in Faults
    BY <1>20, EmptySeq DEF VirtualConsoleUnload, TypeOK, Faults
  <2> QED BY <1>20, <2>1 DEF VirtualConsoleUnload, TypeOK
<1> QED BY <1>1, <1>2, <1>3, <1>4, <1>5, <1>6, <1>7, <1>8, <1>10, <1>11, <1>12, <1>13, <1>14, <1>15,
           <1>16, <1>17, <1>18, <1>19, <1>20 DEF Next, Put

-----------------------------------------------------------------------------
(* Row buffers.                                                            *)

\* The elements of a sequence, of a longer one and of two in a row.
LEMMA ElementsAppend ==
  ASSUME NEW S, NEW s \in Seq(S), NEW e \in S
  PROVE  ToSet(Append(s, e)) = ToSet(s) \cup {e}
<1>1. /\ Append(s, e) \in Seq(S) /\ Len(Append(s, e)) = Len(s) + 1
      /\ (\A i \in 1..Len(s) : Append(s, e)[i] = s[i]) /\ Append(s, e)[Len(s) + 1] = e
  BY AppendProperties
<1>2. Len(s) \in Nat /\ DOMAIN s = 1..Len(s) /\ DOMAIN Append(s, e) = 1..(Len(s) + 1)
  BY <1>1, LenProperties
<1>3. ASSUME NEW x \in ToSet(Append(s, e)) PROVE x \in ToSet(s) \cup {e}
  <2>1. PICK i \in 1..(Len(s) + 1) : x = Append(s, e)[i]
    BY <1>2 DEF ToSet
  <2>2. i \in 1..Len(s) \/ i = Len(s) + 1
    BY <1>2
  <2> QED BY <1>1, <1>2, <2>1, <2>2 DEF ToSet
<1>4. ASSUME NEW x \in ToSet(s) \cup {e} PROVE x \in ToSet(Append(s, e))
  <2>1. \A i \in 1..Len(s) : i \in 1..(Len(s) + 1)
    BY <1>2
  <2>2. Len(s) + 1 \in 1..(Len(s) + 1)
    BY <1>2
  <2>3. CASE x = e
    BY <1>1, <1>2, <2>2, <2>3 DEF ToSet
  <2>4. CASE x \in ToSet(s)
    <3>1. PICK i \in 1..Len(s) : x = s[i]
      BY <1>2, <2>4 DEF ToSet
    <3> QED BY <1>1, <1>2, <2>1, <3>1 DEF ToSet
  <2> QED BY <2>3, <2>4
<1> QED BY <1>3, <1>4

\* The elements of the two parts of a sequence are its elements.
LEMMA ElementsConcat ==
  ASSUME NEW S, NEW s \in Seq(S), NEW t \in Seq(S)
  PROVE  ToSet(s) \cup ToSet(t) \subseteq ToSet(s \o t)
<1>1. /\ s \o t \in Seq(S) /\ Len(s \o t) = Len(s) + Len(t)
      /\ \A i \in 1..Len(s) : (s \o t)[i] = s[i]
      /\ \A j \in 1..Len(t) : (s \o t)[Len(s) + j] = t[j]
  BY ConcatProperties
<1>2. /\ Len(s) \in Nat /\ Len(t) \in Nat /\ DOMAIN s = 1..Len(s) /\ DOMAIN t = 1..Len(t)
      /\ DOMAIN (s \o t) = 1..(Len(s) + Len(t))
  BY <1>1, LenProperties
<1>3. /\ \A i \in 1..Len(s) : i \in DOMAIN (s \o t)
      /\ \A j \in 1..Len(t) : Len(s) + j \in DOMAIN (s \o t)
  BY <1>2
<1> QED BY <1>1, <1>2, <1>3 DEF ToSet

\* Rows are freed twice only if a row has scrolled off; otherwise nothing stays allocated.
LEMMA FreeFacts ==
  ASSUME TypeOK, ScreenInv, RowsAccounted, fault = "none"
  PROVE  /\ ScreenHistory = <<>> => Freeable(FreedBySetMode)
         /\ heap \ ToSet(FreedBySetMode) = {}
<1>1. ScreenHistory = <<>> => FreedBySetMode = ScreenBuffer
  BY ConcatEmptySeq DEF FreedBySetMode, TypeOK
<1>2. ScreenHistory = <<>> => Freeable(FreedBySetMode)
  BY <1>1 DEF Freeable, ScreenInv, RowsAccounted
<1>3. heap \subseteq ToSet(FreedBySetMode)
  BY ElementsConcat DEF FreedBySetMode, RowsAccounted, TypeOK
<1> QED BY <1>2, <1>3

\* A row of the screen is not a freed one.
LEMMA TouchLive ==
  ASSUME RowsAccounted, fault = "none", NEW rows, NEW columns
  PROVE  Touch(rows, columns) \in {"none", "out of bounds"}
BY DEF Touch, RowsAccounted, ToSet

\* Steps that leave the rows alone.
LEMMA SameRows ==
  ASSUME ScreenInv, RowsAccounted, fault = "none",
         UNCHANGED <<Mode, ScreenBuffer, ScreenHistory, heap, loaded>>,
         fault' \in {"none", "out of bounds", "overrun"},
         stack' = <<>> \/ (Mode # NoMode /\ loaded)
  PROVE  ScreenInv' /\ RowsAccounted'
BY DEF ScreenInv, RowsAccounted

\* SetMode leaves a screen of its mode with rows of its own.
LEMMA InModeRows ==
  ASSUME TypeOK, ScreenInv, RowsAccounted, fault = "none", loaded, NEW mode \in Modes, InMode(mode)
  PROVE  /\ RowsAccounted'
         /\ fault' = "none" => /\ IsInjective(ScreenBuffer)' /\ Len(ScreenBuffer') = Size(mode).Rows
                               /\ Mode' = mode /\ Mode' # NoMode
<1>0. mode # NoMode
  BY ModeFacts
<1>1. CASE mode = Mode /\ ClearRows
           /\ UNCHANGED <<Mode, CursorColumn, CursorRow, ScreenBuffer, ScreenHistory, heap, adrift>>
  <2>1. fault' \in {"none", "out of bounds"}
    BY <1>1, TouchLive DEF ClearRows
  <2> QED BY <1>0, <1>1, <2>1 DEF ScreenInv, RowsAccounted
<1>2. CASE ~Freeable(FreedBySetMode) /\ fault' = "double free"
           /\ UNCHANGED <<Mode, CursorColumn, CursorRow, ScreenBuffer, ScreenHistory, heap, adrift>>
  BY <1>2, FreeFacts DEF RowsAccounted
<1>3. CASE ChangeMode(mode) /\ Freeable(FreedBySetMode)
  <2> DEFINE kept == heap \ ToSet(FreedBySetMode)
  <2>1. PICK rows \in NewScreens(Addr \ kept, Size(mode).Rows) :
               ScreenBuffer' = rows /\ heap' = kept \cup ToSet(rows)
    BY <1>3 DEF ChangeMode
  <2>2. Len(rows) = Size(mode).Rows /\ IsInjective(rows)
    BY NewScreenFacts, ModeFacts
  <2>3. ScreenHistory' = <<>> /\ Mode' = mode /\ fault' = fault
    BY <1>3 DEF ChangeMode
  <2>4. heap' = ToSet(ScreenBuffer') /\ ToSet(<<>>) = {}
    BY <2>1, FreeFacts DEF ToSet
  <2> HIDE DEF kept
  <2> QED BY <1>0, <2>1, <2>2, <2>3, <2>4 DEF RowsAccounted
<1> QED BY <1>1, <1>2, <1>3 DEF InMode, ChangeMode

\* Every step keeps the rows accounted for.
LEMMA RowsStep ==
  ASSUME TypeOK, ScreenInv, RowsAccounted, [Next]_vars
  PROVE  ScreenInv' /\ RowsAccounted'
<1> USE DEF device
<1>0. CASE UNCHANGED vars
  BY <1>0 DEF vars, ScreenInv, RowsAccounted
<1> SUFFICES ASSUME Next PROVE ScreenInv' /\ RowsAccounted'
  BY <1>0
<1>a. fault = "none"
  BY DEF Next
<1>b. ~Idle => Mode # NoMode /\ loaded
  BY <1>a DEF ScreenInv, Idle
<1>1. ASSUME NEW level \in Tpl, NEW s \in Strings, OutputString(level, s) PROVE ScreenInv' /\ RowsAccounted'
  BY <1>1, <1>a, SameRows DEF OutputString, Begin
<1>2. ASSUME NEW level \in Tpl, NEW a \in Attributes, SetAttribute(level, a) PROVE ScreenInv' /\ RowsAccounted'
  BY <1>2, <1>a, <1>b, SameRows DEF SetAttribute, Idle
<1>3. ASSUME NEW level \in Tpl, NEW mode \in Modes, SetMode(level, mode) PROVE ScreenInv' /\ RowsAccounted'
  BY <1>3, <1>a, <1>b, InModeRows DEF SetMode, Begin, ScreenInv
<1>4. ASSUME NEW level \in Tpl, ClearScreen(level) PROVE ScreenInv' /\ RowsAccounted'
  <2>1. fault' \in {"none", "out of bounds"}
    BY <1>4, <1>a, TouchLive DEF ClearScreen, ClearRows
  <2> QED BY <1>4, <2>1, <1>a, <1>b, SameRows DEF ClearScreen, Idle, Begin
<1>5. ASSUME NEW level \in Tpl, SetCursorPosition(level) PROVE ScreenInv' /\ RowsAccounted'
  BY <1>5, <1>a, <1>b, SameRows DEF SetCursorPosition, Idle, Begin
<1>6. ASSUME NEW level \in Tpl, ConOutReset(level) PROVE ScreenInv' /\ RowsAccounted'
  BY <1>6, <1>a, <1>b, InModeRows, ModeFacts DEF ConOutReset, Begin, ScreenInv
<1>7. ASSUME NEW level \in Tpl, GetScreen(level) PROVE ScreenInv' /\ RowsAccounted'
  BY <1>7, <1>a, SameRows DEF GetScreen, Begin
<1>8. CASE AcquireLock
  BY <1>8, <1>a, <1>b, SameRows DEF AcquireLock, Running
<1>10. CASE Backspace
  <2>1. fault' \in {"none", "out of bounds"}
    BY <1>10, <1>a, TouchLive DEF Backspace
  <2> QED BY <1>10, <2>1, <1>a, <1>b, SameRows DEF Backspace, PutUnchanged, Next1, Running
<1>11. CASE Linefeed
  <2>1. CASE /\ ScreenHistory' = Append(ScreenHistory, ScreenBuffer[1])
             /\ fault' = Touch(1..(CursorRow + 1), max.Columns)
    <3>1. fault' \in {"none", "out of bounds"}
      BY <2>1, <1>a, TouchLive
    <3>2. 1 \in DOMAIN ScreenBuffer /\ ScreenBuffer[1] \in Addr
      BY <1>11, <1>a, TopRow DEF Linefeed, Next1, Running, Idle
    <3>3. ToSet(ScreenHistory') = ToSet(ScreenHistory) \cup {ScreenBuffer[1]}
      BY <2>1, <3>2, ElementsAppend DEF TypeOK
    <3>4. ScreenBuffer[1] \in ToSet(ScreenBuffer)
      BY <3>2 DEF ToSet
    <3>5. UNCHANGED <<Mode, ScreenBuffer, heap, loaded>> /\ Mode # NoMode /\ loaded
      BY <1>11, <1>b DEF Linefeed, PutUnchanged, Next1, Running
    <3> QED BY <1>a, <3>1, <3>3, <3>4, <3>5 DEF ScreenInv, RowsAccounted
  <2>2. CASE UNCHANGED <<ScreenHistory, fault>>
    BY <1>11, <2>2, <1>a, <1>b, SameRows DEF Linefeed, PutUnchanged, Next1, Running
  <2> QED BY <1>11, <2>1, <2>2 DEF Linefeed
<1>12. CASE CarriageReturn
  BY <1>12, <1>a, <1>b, SameRows DEF CarriageReturn, PutUnchanged, Next1, Running
<1>13. CASE WideOrNarrow
  BY <1>13, <1>a, <1>b, SameRows DEF WideOrNarrow, PutUnchanged, Next1, Running
<1>14. CASE PutChar
  <2>1. fault' \in {"none", "out of bounds"}
    BY <1>14, <1>a, TouchLive DEF PutChar
  <2> QED BY <1>14, <2>1, <1>a, <1>b, SameRows DEF PutChar, PutUnchanged, Next1, Running
<1>15. CASE Wrap
  BY <1>15, <1>a, <1>b, SameRows DEF Wrap, Running
<1>16. CASE StringEnd
  BY <1>16, <1>a, <1>b, SameRows DEF StringEnd, PutUnchanged, Running
<1>17. CASE ResetReads
  BY <1>17, <1>a, <1>b, SameRows DEF ResetReads, Running
<1>18. CASE ResetWrites
  BY <1>18, <1>a, <1>b, SameRows DEF ResetWrites, Running
<1>19. CASE GetScreenCopy
  <2>1. ToSet(ScreenHistory) \subseteq heap
    BY <1>a DEF RowsAccounted
  <2>2. fault' \in {"none", "out of bounds", "overrun"}
    BY <1>19, <2>1, <1>a, TouchLive DEF GetScreenCopy
  <2> QED BY <1>19, <2>2, <1>a, <1>b, SameRows DEF GetScreenCopy, Running
<1>20. CASE VirtualConsoleUnload
  <2>1. CASE ~Freeable(FreedBySetMode) /\ fault' = "double free" /\ UNCHANGED ScreenHistory
    BY <2>1, <1>a, FreeFacts DEF ScreenInv, RowsAccounted
  <2>2. CASE /\ heap' = heap \ ToSet(FreedBySetMode)
             /\ ScreenBuffer' = <<>> /\ ScreenHistory' = <<>> /\ UNCHANGED fault
    <3>1. heap' = {} /\ ToSet(<<>>) = {} /\ IsInjective(<<>>)
      BY <2>2, <1>a, FreeFacts DEF ToSet, IsInjective
    <3>2. stack' = <<>> /\ loaded' = FALSE
      BY <1>20 DEF VirtualConsoleUnload, Idle
    <3> QED BY <2>2, <1>a, <3>1, <3>2 DEF ScreenInv, RowsAccounted
  <2> QED BY <1>20, <2>1, <2>2 DEF VirtualConsoleUnload
<1> QED BY <1>1, <1>2, <1>3, <1>4, <1>5, <1>6, <1>7, <1>8, <1>10, <1>11, <1>12, <1>13, <1>14, <1>15,
           <1>16, <1>17, <1>18, <1>19, <1>20 DEF Next, Put

-----------------------------------------------------------------------------
(* The attribute.                                                          *)

\* The places in a stack and in one that is higher by one.
LEMMA Places ==
  ASSUME NEW n \in Nat
  PROVE  /\ \A i \in 1..(n + 1) : i \in 1..n \/ i = n + 1
         /\ \A i \in 1..n : i \in 1..(n + 1)
         /\ \A i \in 1..n : \A j \in 1..(i - 1) : j \in 1..n
         /\ n + 1 \in 1..(n + 1) /\ (n + 1) - 1 = n
OBVIOUS

\* A call that is no string is entered.
LEMMA EnterOther ==
  ASSUME TypeOK, AttributeInv, UNCHANGED <<Attribute, chosen>>,
         NEW f \in Frames, f.pc \in {"reset", "copy", "copy all"}, stack' = Append(stack, f)
  PROVE  AttributeInv'
<1> DEFINE n == Len(stack)
<1>1. /\ n \in Nat /\ DOMAIN stack = 1..n /\ DOMAIN stack' = 1..(n + 1)
      /\ (\A i \in 1..n : stack'[i] = stack[i]) /\ stack'[n + 1] = f
  BY PushFacts DEF TypeOK
<1> HIDE DEF n
<1>2. f.pc \notin Writing /\ f.pc # "attribute"
  BY DEF Writing
<1>3. \A i \in 1..(n + 1) : i \in 1..n \/ i = n + 1
  BY <1>1, Places
<1>4. \A i \in 1..n : i \in 1..(n + 1) /\ \A j \in 1..(i - 1) : j \in 1..n
  BY <1>1, Places
<1>5. ASSUME \A i \in DOMAIN stack' : stack'[i].pc \notin Writing PROVE Restored(Attribute)'
  BY <1>1, <1>4, <1>5 DEF AttributeInv, Restored
<1>6. ASSUME NEW i \in DOMAIN stack', Outermost(i)' PROVE Restored(stack[i].Attribute)'
  <2>1. i \in 1..n /\ stack'[i] = stack[i]
    BY <1>1, <1>2, <1>3, <1>6 DEF Outermost
  <2>2. Outermost(i)
    BY <1>1, <1>4, <1>6, <2>1 DEF Outermost
  <2> QED BY <1>1, <2>1, <2>2 DEF AttributeInv, Restored
<1>7. \A i \in DOMAIN stack' : stack'[i].pc = "attribute" => ~IsWide(stack'[i].Attribute)
  BY <1>1, <1>2, <1>3 DEF AttributeInv
<1> QED BY <1>5, <1>6, <1>7 DEF AttributeInv

\* A string is begun, with the attribute there is.
LEMMA EnterString ==
  ASSUME TypeOK, AttributeInv, UNCHANGED <<Attribute, chosen>>,
         NEW f \in Frames, f.pc = "lock", f.Attribute = Attribute, stack' = Append(stack, f)
  PROVE  AttributeInv'
<1> DEFINE n == Len(stack)
<1>1. /\ n \in Nat /\ DOMAIN stack = 1..n /\ DOMAIN stack' = 1..(n + 1)
      /\ (\A i \in 1..n : stack'[i] = stack[i]) /\ stack'[n + 1] = f
  BY PushFacts DEF TypeOK
<1> HIDE DEF n
<1>2. f.pc \in Writing /\ f.pc # "attribute" /\ n + 1 \in 1..(n + 1)
  BY <1>1 DEF Writing
<1>3. \A i \in 1..(n + 1) : i \in 1..n \/ i = n + 1
  BY <1>1, Places
<1>4. \A i \in 1..n : i \in 1..(n + 1) /\ \A j \in 1..(i - 1) : j \in 1..n
  BY <1>1, Places
<1>5. ~\A i \in DOMAIN stack' : stack'[i].pc \notin Writing
  BY <1>1, <1>2
<1>6. ASSUME NEW i \in DOMAIN stack', Outermost(i)' PROVE Restored(stack[i].Attribute)'
  <2>1. CASE i \in 1..n
    <3>1. Outermost(i)
      BY <1>1, <1>4, <1>6, <2>1 DEF Outermost
    <3> QED BY <1>1, <2>1, <3>1 DEF AttributeInv, Restored
  <2>2. CASE i = n + 1
    <3>1. \A j \in 1..n : stack[j].pc \notin Writing
      <4>1. (n + 1) - 1 = n
        BY <1>1
      <4> QED BY <1>1, <1>6, <2>2, <4>1 DEF Outermost
    <3> QED BY <1>1, <2>2, <3>1 DEF AttributeInv, Restored
  <2> QED BY <1>1, <1>3, <2>1, <2>2
<1>7. \A i \in DOMAIN stack' : stack'[i].pc = "attribute" => ~IsWide(stack'[i].Attribute)
  BY <1>1, <1>2, <1>3 DEF AttributeInv
<1> QED BY <1>5, <1>6, <1>7 DEF AttributeInv

\* A string goes on; it may change the attribute.
LEMMA StringGoesOn ==
  ASSUME TypeOK, AttributeInv, chosen' = chosen, ~Idle, top.pc \in Writing,
         NEW f \in Frames, f.pc \in Writing, f.Attribute = top.Attribute, Goto(f)
  PROVE  AttributeInv'
<1> DEFINE n == Len(stack)
<1>1. /\ n \in Nat /\ n >= 1 /\ DOMAIN stack = 1..n /\ DOMAIN stack' = 1..n
      /\ (\A i \in 1..(n - 1) : stack'[i] = stack[i]) /\ stack'[n] = f /\ top = stack[n]
  BY GotoFacts DEF TypeOK, top
<1> HIDE DEF n
<1>2. \A i \in 1..n : /\ stack'[i].pc \in Writing <=> stack[i].pc \in Writing
                      /\ stack'[i].Attribute = stack[i].Attribute
                      /\ stack'[i].pc = "attribute" => stack[i].pc = "attribute"
  <2>1. \A i \in 1..n : i \in 1..(n - 1) \/ i = n
    BY <1>1
  <2> QED BY <1>1, <2>1 DEF Writing
<1>3. n \in 1..n /\ \A i \in 1..n : \A j \in 1..(i - 1) : j \in 1..n
  BY <1>1
<1>4. ~\A i \in DOMAIN stack' : stack'[i].pc \notin Writing
  BY <1>1, <1>3
<1>5. ASSUME NEW i \in DOMAIN stack', Outermost(i)' PROVE Restored(stack[i].Attribute)'
  <2>1. Outermost(i)
    BY <1>1, <1>2, <1>3, <1>5 DEF Outermost
  <2> QED BY <1>1, <1>2, <2>1 DEF AttributeInv, Restored
<1>6. \A i \in DOMAIN stack' : stack'[i].pc = "attribute" => ~IsWide(stack'[i].Attribute)
  BY <1>1, <1>2 DEF AttributeInv
<1> QED BY <1>4, <1>5, <1>6 DEF AttributeInv

\* A call returns: below it, nothing changes.
LEMMA Returned ==
  ASSUME TypeOK, AttributeInv, ~Idle, Return,
         chosen' \in {chosen, Unknown} \/ \A i \in DOMAIN stack : stack[i].pc \notin Writing,
         (\A i \in 1..(Len(stack) - 1) : stack[i].pc \notin Writing) => Restored(Attribute)'
  PROVE  AttributeInv'
<1> DEFINE n == Len(stack)
<1>1. /\ n \in Nat /\ n >= 1 /\ DOMAIN stack = 1..n /\ DOMAIN stack' = 1..(n - 1)
      /\ (\A i \in 1..(n - 1) : stack'[i] = stack[i])
  BY ReturnFacts DEF TypeOK
<1> HIDE DEF n
<1>2. \A i \in 1..(n - 1) : i \in 1..n /\ \A j \in 1..(i - 1) : j \in 1..(n - 1)
  BY <1>1
<1>3. ASSUME NEW i \in DOMAIN stack', Outermost(i)' PROVE Restored(stack[i].Attribute)'
  <2>1. Outermost(i) /\ i \in DOMAIN stack
    BY <1>1, <1>2, <1>3 DEF Outermost
  <2>2. chosen' \in {chosen, Unknown}
    BY <2>1 DEF Outermost
  <2> QED BY <1>1, <2>1, <2>2 DEF AttributeInv, Restored
<1>4. \A i \in DOMAIN stack' : stack'[i].pc = "attribute" => ~IsWide(stack'[i].Attribute)
  BY <1>1, <1>2 DEF AttributeInv
<1>5. (\A i \in DOMAIN stack' : stack'[i].pc \notin Writing) => Restored(Attribute)'
  BY <1>1 DEF n
<1> QED BY <1>3, <1>4, <1>5 DEF AttributeInv

\* Nothing of it changes.
LEMMA SameAttribute ==
  ASSUME AttributeInv, UNCHANGED <<Attribute, chosen, stack>>
  PROVE  AttributeInv'
BY DEF AttributeInv, Outermost, Restored

\* A line wraps: the outer call stays a string, with one more behind it.
LEMMA WrapAttribute ==
  ASSUME TypeOK, AttributeInv, Mode # NoMode, Wrap
  PROVE  AttributeInv'
<1> DEFINE n == Len(stack)
<1>1. /\ n \in Nat /\ n >= 1 /\ DOMAIN stack = 1..n /\ DOMAIN stack' = 1..(n + 1)
      /\ (\A i \in 1..(n - 1) : stack'[i] = stack[i])
      /\ stack'[n] = [top EXCEPT !.pc = "lock"] /\ top \in Frames /\ top.pc = "wrap" /\ top = stack[n]
      /\ stack'[n + 1] = Frame("lock", top.level, mCrLfString, Mode, Attribute, 0)
  BY WrapFacts DEF top
<1>2. chosen' = chosen
  BY DEF Wrap
<1> HIDE DEF n
<1>3. stack'[n].pc = "lock" /\ stack'[n].Attribute = stack[n].Attribute /\ stack'[n + 1].pc = "lock"
  BY <1>1, FrameFields, UpdatePc
<1>4. \A i \in 1..n : i \in 1..(n - 1) \/ i = n
  BY <1>1
<1>5. \A i \in 1..n : /\ stack'[i].pc \in Writing <=> stack[i].pc \in Writing
                      /\ stack'[i].Attribute = stack[i].Attribute
                      /\ stack'[i].pc = "attribute" => stack[i].pc = "attribute"
  BY <1>1, <1>3, <1>4 DEF Writing
<1>6. n \in 1..n /\ n \in 1..((n + 1) - 1) /\ n \in 1..(n + 1)
  BY <1>1
<1>7. stack'[n].pc \in Writing
  BY <1>3 DEF Writing
<1>8. ASSUME NEW i \in DOMAIN stack', Outermost(i)' PROVE Restored(stack[i].Attribute)'
  <2>1. i # n + 1
    BY <1>6, <1>7, <1>8 DEF Outermost
  <2>2. i \in 1..n
    BY <1>1, <2>1, Places
  <2>3. \A j \in 1..(i - 1) : j \in 1..n
    BY <1>1, <2>2, Places
  <2>4. Outermost(i)
    BY <1>5, <1>8, <2>2, <2>3 DEF Outermost
  <2> QED BY <1>1, <1>2, <1>5, <2>2, <2>4 DEF AttributeInv, Restored
<1>9. \A i \in DOMAIN stack' : stack'[i].pc = "attribute" => ~IsWide(stack'[i].Attribute)
  BY <1>1, <1>3, <1>5, Places DEF AttributeInv
<1>10. ~\A i \in DOMAIN stack' : stack'[i].pc \notin Writing
  BY <1>1, <1>6, <1>7
<1> QED BY <1>8, <1>9, <1>10 DEF AttributeInv

\* Every step keeps the attribute.
LEMMA AttributeStep ==
  ASSUME TypeOK, ScreenInv, AttributeInv, [Next]_vars
  PROVE  AttributeInv'
<1> USE DEF device
<1>0. CASE UNCHANGED vars
  BY <1>0, SameAttribute DEF vars
<1> SUFFICES ASSUME Next PROVE AttributeInv'
  BY <1>0
<1>a. fault = "none"
  BY DEF Next
<1>b. ~Idle => Mode # NoMode /\ loaded
  BY <1>a DEF ScreenInv, Idle
<1>t. stack \in Seq(Frames) /\ Attribute \in 0..255
  BY DEF TypeOK
<1>1. ASSUME NEW level \in Tpl, NEW s \in Strings, OutputString(level, s) PROVE AttributeInv'
  <2> DEFINE f == Frame("lock", level, s, Mode, Attribute, 0)
  <2>1. f \in Frames
    BY <1>1, OutAssumption, NewFrames DEF OutputString
  <2>2. f.pc = "lock" /\ f.Attribute = Attribute
    BY DEF Frame
  <2>3. stack' = Append(stack, f) /\ UNCHANGED <<Attribute, chosen>>
    BY <1>1 DEF OutputString
  <2> HIDE DEF f
  <2> QED BY <2>1, <2>2, <2>3, EnterString
<1>2. ASSUME NEW level \in Tpl, NEW a \in Attributes, SetAttribute(level, a) PROVE AttributeInv'
  <2>1. ~IsWide(a)
    BY OutAssumption DEF IsWide, EFI_WIDE_ATTRIBUTE
  <2>2. stack' = stack /\ Attribute' = a
    BY <1>2 DEF SetAttribute, Choose
  <2>3. CASE \E i \in DOMAIN stack : stack[i].pc \in Writing
    <3>1. chosen' = Unknown
      BY <1>2, <2>3 DEF SetAttribute, Choose
    <3> QED BY <2>2, <2>3, <3>1 DEF AttributeInv, Outermost, Restored
  <2>4. CASE \A i \in DOMAIN stack : stack[i].pc \notin Writing
    <3>1. chosen' = a
      BY <1>2, <2>4 DEF SetAttribute, Choose
    <3> QED BY <2>1, <2>2, <2>4, <3>1 DEF AttributeInv, Outermost, Restored
  <2> QED BY <2>3, <2>4
<1>3. ASSUME NEW level \in Tpl, NEW mode \in Modes, SetMode(level, mode) PROVE AttributeInv'
  BY <1>3, SameAttribute DEF SetMode
<1>4. ASSUME NEW level \in Tpl, ClearScreen(level) \/ SetCursorPosition(level) PROVE AttributeInv'
  BY <1>4, SameAttribute DEF ClearScreen, SetCursorPosition
<1>6. ASSUME NEW level \in Tpl, ConOutReset(level) PROVE AttributeInv'
  <2> DEFINE f == Frame("reset", level, <<>>, 0, 0, 0)
  <2>1. f \in Frames /\ f.pc = "reset" /\ stack' = Append(stack, f) /\ UNCHANGED <<Attribute, chosen>>
    BY <1>6, NewFrames DEF ConOutReset, Frame
  <2> HIDE DEF f
  <2> QED BY <2>1, EnterOther
<1>7. ASSUME NEW level \in Tpl, GetScreen(level) PROVE AttributeInv'
  <2>1. PICK f \in Frames : f.pc \in {"copy", "copy all"} /\ stack' = Append(stack, f)
    BY <1>7, NewFrames DEF GetScreen, Frame
  <2>2. UNCHANGED <<Attribute, chosen>>
    BY <1>7 DEF GetScreen
  <2> QED BY <2>1, <2>2, EnterOther
<1>8. CASE AcquireLock \/ Backspace \/ Linefeed \/ CarriageReturn \/ WideOrNarrow \/ PutChar
  <2>1. ~Idle /\ top.pc \in Writing /\ top \in Frames /\ chosen' = chosen
    BY <1>8, <1>t, TopFacts
       DEF AcquireLock, Backspace, Linefeed, CarriageReturn, WideOrNarrow, PutChar, PutUnchanged, Next1,
           Running, Writing
  <2>2. CASE AcquireLock
    <3> DEFINE f == [top EXCEPT !.pc = "put"]
    <3>1. f \in Frames /\ f.pc \in Writing /\ f.Attribute = top.Attribute /\ Goto(f)
      <4>1. f \in Frames /\ Goto(f) /\ "put" \in Writing
        BY <2>1, <2>2, StepFrames DEF AcquireLock, Writing
      <4> QED BY <2>1, <4>1, UpdatePc
    <3> HIDE DEF f
    <3> QED BY <2>1, <3>1, StringGoesOn
  <2>3. ASSUME Used, top.left # <<>> PROVE AttributeInv'
    <3> DEFINE f == [top EXCEPT !.left = Tail(@)]
    <3>1. f \in Frames /\ f.pc \in Writing /\ f.Attribute = top.Attribute /\ Goto(f)
      BY <2>1, <2>3, StepFrames DEF Used, Frames
    <3> HIDE DEF f
    <3> QED BY <2>1, <3>1, StringGoesOn
  <2>4. CASE PutChar
    <3>1. top.left # <<>>
      BY <2>4 DEF PutChar, Next1
    <3>2. PICK f \in Frames : f.pc \in Writing /\ f.Attribute = top.Attribute /\ Goto(f)
      <4>1. CASE Goto([top EXCEPT !.pc = "wrap"])
        <5>1. [top EXCEPT !.pc = "wrap"] \in Frames
          BY <2>1, StepFrames DEF Writing
        <5> QED BY <2>1, <4>1, <5>1 DEF Frames, Writing
      <4>2. ASSUME NEW pc \in Writing, Goto([top EXCEPT !.left = Tail(@), !.pc = pc])
            PROVE  \E f \in Frames : f.pc \in Writing /\ f.Attribute = top.Attribute /\ Goto(f)
        <5>1. [top EXCEPT !.left = Tail(@), !.pc = pc] \in Frames
          BY <2>1, <3>1, StepFrames
        <5> QED BY <2>1, <4>2, <5>1 DEF Frames
      <4>3. "wrap" \in Writing /\ "put" \in Writing
        BY DEF Writing
      <4> QED BY <2>4, <4>1, <4>2, <4>3 DEF PutChar
    <3> QED BY <2>1, <3>2, StringGoesOn
  <2> QED BY <1>8, <2>2, <2>3, <2>4 DEF Backspace, Linefeed, CarriageReturn, WideOrNarrow, Next1
<1>15. CASE Wrap
  BY <1>15, <1>b, WrapAttribute DEF Wrap, Running
<1>r. ASSUME ~Idle PROVE Len(stack) \in Nat /\ Len(stack) >= 1 /\ DOMAIN stack = 1..Len(stack)
                         /\ (\A i \in DOMAIN stack : i \in 1..(Len(stack) - 1) \/ i = Len(stack))
                         /\ (\A i \in 1..(Len(stack) - 1) : i \in DOMAIN stack)
                         /\ Len(stack) \in DOMAIN stack
  BY <1>t, <1>r, TopFacts
<1>16. CASE StringEnd
  <2>1. ~Idle /\ top.pc \in Writing /\ Return /\ Attribute' = top.Attribute /\ chosen' = chosen
    BY <1>16 DEF StringEnd, Running, PutUnchanged, Writing
  <2>2. ASSUME \A i \in 1..(Len(stack) - 1) : stack[i].pc \notin Writing PROVE Restored(Attribute)'
    <3>1. Outermost(Len(stack))
      BY <2>1, <2>2 DEF Outermost, top
    <3>2. Restored(stack[Len(stack)].Attribute)
      BY <1>r, <2>1, <3>1 DEF AttributeInv
    <3> QED BY <2>1, <3>2 DEF Restored, top
  <2> QED BY <2>1, <2>2, Returned
<1>17. CASE ResetReads
  <2> DEFINE f == [top EXCEPT !.pc = "attribute", !.Attribute = OnBlack(Attribute)]
             n == Len(stack)
  <2>1. ~Idle /\ top.pc = "reset" /\ Goto(f) /\ UNCHANGED <<Attribute, chosen>>
    BY <1>17 DEF ResetReads, Running
  <2>2. f \in Frames /\ top \in Frames
    BY <1>t, <2>1, StepFrames, TopFacts
  <2>3. f.pc = "attribute" /\ ~IsWide(f.Attribute)
    <3>1. OnBlack(Attribute) \in 0..15
      BY <1>t, AttributeFacts
    <3>2. f.pc = "attribute" /\ f.Attribute = OnBlack(Attribute)
      BY <2>2 DEF Frames
    <3> HIDE DEF f
    <3> QED BY <3>1, <3>2 DEF IsWide, EFI_WIDE_ATTRIBUTE
  <2> HIDE DEF f
  <2>4. /\ n \in Nat /\ n >= 1 /\ DOMAIN stack = 1..n /\ DOMAIN stack' = 1..n
        /\ (\A i \in 1..(n - 1) : stack'[i] = stack[i]) /\ stack'[n] = f /\ top = stack[n]
    BY <1>t, <2>1, <2>2, GotoFacts DEF top
  <2> HIDE DEF n
  <2>5. \A i \in 1..n : i \in 1..(n - 1) \/ i = n
    BY <2>4
  <2>6. \A i \in 1..n : /\ stack'[i].pc \in Writing <=> stack[i].pc \in Writing
                        /\ stack[i].pc \in Writing => stack'[i] = stack[i]
    BY <2>1, <2>3, <2>4, <2>5 DEF Writing
  <2>7. \A i \in 1..n : \A j \in 1..(i - 1) : j \in 1..n
    BY <2>4, Places
  <2>8. ASSUME NEW i \in DOMAIN stack', Outermost(i)' PROVE Restored(stack[i].Attribute)'
    <3>1. Outermost(i)
      BY <2>4, <2>6, <2>7, <2>8 DEF Outermost
    <3> QED BY <2>1, <2>4, <2>6, <3>1 DEF AttributeInv, Restored, Outermost
  <2>9. (\A i \in DOMAIN stack' : stack'[i].pc \notin Writing) => Restored(Attribute)'
    BY <2>1, <2>4, <2>6 DEF AttributeInv, Restored
  <2>10. \A i \in DOMAIN stack' : stack'[i].pc = "attribute" => ~IsWide(stack'[i].Attribute)
    BY <2>3, <2>4, <2>5 DEF AttributeInv
  <2> QED BY <2>8, <2>9, <2>10 DEF AttributeInv
<1>18. CASE ResetWrites
  <2>1. ~Idle /\ top.pc = "attribute" /\ Return /\ Choose(top.Attribute)
    BY <1>18 DEF ResetWrites, Running
  <2>2. top.pc \notin Writing /\ ~IsWide(top.Attribute) /\ top = stack[Len(stack)]
    BY <1>r, <2>1 DEF AttributeInv, top, Writing
  <2>3. CASE \E i \in DOMAIN stack : stack[i].pc \in Writing
    <3>1. chosen' = Unknown
      BY <2>1, <2>3 DEF Choose
    <3>2. \E i \in 1..(Len(stack) - 1) : stack[i].pc \in Writing
      BY <1>r, <2>1, <2>2, <2>3
    <3> QED BY <2>1, <3>1, <3>2, Returned
  <2>4. CASE \A i \in DOMAIN stack : stack[i].pc \notin Writing
    <3>1. Restored(Attribute)'
      BY <2>1, <2>2, <2>4 DEF Choose, Restored
    <3> QED BY <2>1, <2>4, <3>1, Returned
  <2> QED BY <2>3, <2>4
<1>19. CASE GetScreenCopy
  <2>1. ~Idle /\ top.pc \notin Writing /\ Return /\ UNCHANGED <<Attribute, chosen>>
    BY <1>19 DEF GetScreenCopy, Running, Writing
  <2>2. ASSUME \A i \in 1..(Len(stack) - 1) : stack[i].pc \notin Writing PROVE Restored(Attribute)'
    <3>1. \A i \in DOMAIN stack : stack[i].pc \notin Writing
      BY <1>r, <2>1, <2>2 DEF top
    <3> QED BY <2>1, <3>1 DEF AttributeInv, Restored
  <2> QED BY <2>1, <2>2, Returned
<1>20. CASE VirtualConsoleUnload
  BY <1>20, SameAttribute DEF VirtualConsoleUnload
<1> QED BY <1>1, <1>2, <1>3, <1>4, <1>6, <1>7, <1>8, <1>15, <1>16, <1>17, <1>18, <1>19, <1>20 DEF Next, Put

-----------------------------------------------------------------------------
(* Calls without interruption.                                             *)

\* Nothing of it changes.
LEMMA AloneSame ==
  ASSUME AloneInv, UNCHANGED <<stack, ScreenHistory, interrupted, fault>>
  PROVE  AloneInv'
BY DEF AloneInv, Counted

\* A call is one step that finds nobody else, or it interrupts.
LEMMA AloneBegin ==
  ASSUME ~interrupted' => Idle, stack' = stack
  PROVE  AloneInv'
<1> SUFFICES ASSUME ~interrupted' PROVE AloneInv'
  BY DEF AloneInv
<1>1. Len(stack') = 0
  BY EmptySeq DEF Idle
<1> QED BY <1>1 DEF AloneInv

\* A call is entered and finds nobody else, or it interrupts.
LEMMA AloneEnter ==
  ASSUME TypeOK, ~interrupted' => Idle, NEW f \in Frames, stack' = Append(stack, f),
         Counted(f, Len(ScreenHistory'))
  PROVE  AloneInv'
<1> SUFFICES ASSUME ~interrupted' PROVE AloneInv'
  BY DEF AloneInv
<1>1. Len(stack) = 0
  BY EmptySeq DEF Idle
<1>2. Len(stack') = Len(stack) + 1 /\ stack'[Len(stack) + 1] = f
  BY PushFacts DEF TypeOK
<1>3. Len(stack') = 1 /\ stack'[1] = f
  BY <1>1, <1>2
<1> QED BY <1>3 DEF AloneInv

\* The running call takes a step.
LEMMA AloneGoesOn ==
  ASSUME TypeOK, AloneInv, fault = "none", ~Idle, ~interrupted' => ~interrupted,
         NEW f \in Frames, Goto(f), Counted(f, Len(ScreenHistory')),
         ~interrupted /\ Len(stack) = 2 => Wrapping(f)
  PROVE  AloneInv'
<1> SUFFICES ASSUME ~interrupted' PROVE AloneInv'
  BY DEF AloneInv
<1> DEFINE n == Len(stack)
<1>1. /\ n \in Nat /\ n >= 1 /\ Len(stack') = n
      /\ (\A i \in 1..(n - 1) : stack'[i] = stack[i]) /\ stack'[n] = f
  BY GotoFacts DEF TypeOK
<1>2. n <= 2
  BY DEF AloneInv
<1>3. n = 2 => stack[1].pc = "lock"
  BY DEF AloneInv
<1> HIDE DEF n
<1>4. CASE n = 2
  <2>1. stack'[1] = stack[1] /\ stack'[2] = f /\ Len(stack') = 2
    BY <1>1, <1>4
  <2>2. Wrapping(stack'[2])
    BY <1>4, <2>1 DEF n
  <2> QED BY <1>3, <1>4, <2>1, <2>2 DEF AloneInv
<1>5. CASE n = 1
  <2>1. stack'[1] = f /\ Len(stack') = 1
    BY <1>1, <1>5
  <2> QED BY <2>1 DEF AloneInv
<1> QED BY <1>1, <1>2, <1>4, <1>5

\* The running call returns.
LEMMA AloneReturns ==
  ASSUME TypeOK, AloneInv, fault = "none", ~Idle, ~interrupted' => ~interrupted, Return
  PROVE  AloneInv'
<1> SUFFICES ASSUME ~interrupted' PROVE AloneInv'
  BY DEF AloneInv
<1> DEFINE n == Len(stack)
<1>1. /\ n \in Nat /\ n >= 1 /\ Len(stack') = n - 1
      /\ (\A i \in 1..(n - 1) : stack'[i] = stack[i])
  BY ReturnFacts DEF TypeOK
<1>2. n <= 2
  BY DEF AloneInv
<1>3. n = 2 => stack[1].pc = "lock"
  BY DEF AloneInv
<1> HIDE DEF n
<1>4. CASE n = 2
  <2>1. stack'[1] = stack[1] /\ Len(stack') = 1
    BY <1>1, <1>4
  <2>2. Counted(stack'[1], Len(ScreenHistory'))
    BY <1>3, <1>4, <2>1 DEF Counted
  <2> QED BY <2>1, <2>2 DEF AloneInv
<1>5. CASE n = 1
  <2>1. Len(stack') = 0
    BY <1>1, <1>5
  <2> QED BY <2>1 DEF AloneInv
<1> QED BY <1>1, <1>2, <1>4, <1>5

\* Without interruption the call that wraps a line takes CR and LF only.
LEMMA AloneNext ==
  ASSUME TypeOK, AloneInv, fault = "none", ~interrupted, Len(stack) = 2, NEW ch, Next1(ch)
  PROVE  \/ ch = "CR" /\ Tail(top.left) = <<"LF">>
         \/ ch = "LF" /\ Tail(top.left) = <<>>
<1>1. top = stack[2] /\ top.left # <<>> /\ Head(top.left) = ch
  BY DEF top, Next1
<1>2. top.left \in {mCrLfString, <<"LF">>}
  BY <1>1 DEF AloneInv, Wrapping
<1>3. CASE top.left = mCrLfString
  BY <1>1, <1>3 DEF mCrLfString
<1>4. CASE top.left = <<"LF">>
  BY <1>1, <1>4
<1> QED BY <1>2, <1>3, <1>4

\* Every step keeps it.
LEMMA AloneStep ==
  ASSUME TypeOK, ScreenInv, AloneInv, [Next]_vars
  PROVE  AloneInv'
<1> USE DEF device
<1>0. CASE UNCHANGED vars
  BY <1>0, AloneSame DEF vars
<1> SUFFICES ASSUME Next PROVE AloneInv'
  BY <1>0
<1>a. fault = "none"
  BY DEF Next
<1>t. stack \in Seq(Frames)
  BY DEF TypeOK
<1>1. ASSUME NEW level \in Tpl, NEW s \in Strings, OutputString(level, s) PROVE AloneInv'
  <2> DEFINE f == Frame("lock", level, s, Mode, Attribute, 0)
  <2>1. f \in Frames /\ f.pc = "lock"
    BY <1>1, OutAssumption, NewFrames DEF OutputString, Frame
  <2>2. stack' = Append(stack, f) /\ (~interrupted' => Idle)
    BY <1>1 DEF OutputString, Begin
  <2> HIDE DEF f
  <2>3. Counted(f, Len(ScreenHistory'))
    BY <2>1 DEF Counted
  <2> QED BY <2>1, <2>2, <2>3, AloneEnter
<1>2. ASSUME NEW level \in Tpl, \E a \in Attributes : SetAttribute(level, a) PROVE AloneInv'
  BY <1>2, AloneBegin DEF SetAttribute, Begin
<1>3. ASSUME NEW level \in Tpl, \E mode \in Modes : SetMode(level, mode) PROVE AloneInv'
  BY <1>3, AloneBegin DEF SetMode, Begin
<1>4. ASSUME NEW level \in Tpl, ClearScreen(level) \/ SetCursorPosition(level) PROVE AloneInv'
  BY <1>4, AloneBegin DEF ClearScreen, SetCursorPosition, Begin
<1>6. ASSUME NEW level \in Tpl, ConOutReset(level) PROVE AloneInv'
  <2> DEFINE f == Frame("reset", level, <<>>, 0, 0, 0)
  <2>1. f \in Frames /\ f.pc = "reset" /\ stack' = Append(stack, f) /\ (~interrupted' => Idle)
    BY <1>6, NewFrames DEF ConOutReset, Begin, Frame
  <2> HIDE DEF f
  <2>2. Counted(f, Len(ScreenHistory'))
    BY <2>1 DEF Counted
  <2> QED BY <2>1, <2>2, AloneEnter
<1>7. ASSUME NEW level \in Tpl, GetScreen(level) PROVE AloneInv'
  <2>1. PICK f \in Frames : /\ f.pc = "copy all" => f.HistoryRows = Len(ScreenHistory)
                            /\ stack' = Append(stack, f)
    <3>1. CASE stack' = Append(stack, Frame("copy", level, <<>>, Mode, 0, 0))
      BY <1>7, <3>1, NewFrames DEF GetScreen, Frame
    <3>2. CASE stack' = Append(stack, Frame("copy all", level, <<>>, Mode, 0, Len(ScreenHistory)))
      BY <1>7, <3>2, NewFrames DEF GetScreen, Frame
    <3> QED BY <1>7, <3>1, <3>2 DEF GetScreen
  <2>2. (~interrupted' => Idle) /\ ScreenHistory' = ScreenHistory
    BY <1>7 DEF GetScreen, Begin
  <2>3. Counted(f, Len(ScreenHistory'))
    BY <2>1, <2>2 DEF Counted
  <2> QED BY <2>1, <2>2, <2>3, AloneEnter
<1>8. CASE AcquireLock
  <2> DEFINE f == [top EXCEPT !.pc = "put"]
  <2>1. ~Idle /\ top \in Frames /\ Goto(f) /\ interrupted' = interrupted
    BY <1>8, <1>t, TopFacts DEF AcquireLock, Running
  <2>2. f \in Frames /\ f.pc = "put" /\ f.left = top.left
    BY <2>1, StepFrames, UpdatePc DEF Writing
  <2>3. Len(stack) = 2 /\ ~interrupted => top.left \in {mCrLfString, <<"LF">>, <<>>}
    BY <1>a DEF AloneInv, Wrapping, top
  <2> HIDE DEF f
  <2>4. Counted(f, Len(ScreenHistory')) /\ (Len(stack) = 2 /\ ~interrupted => Wrapping(f))
    BY <2>2, <2>3 DEF Counted, Wrapping
  <2> QED BY <1>a, <2>1, <2>2, <2>4, AloneGoesOn
<1>9. ASSUME NEW ch \in Chars, Next1(ch), Used, interrupted' = interrupted PROVE AloneInv'
  <2> DEFINE f == [top EXCEPT !.left = Tail(@)]
  <2>1. ~Idle /\ top \in Frames /\ top.pc = "put" /\ top.left # <<>> /\ Goto(f)
    BY <1>9, <1>t, TopFacts DEF Next1, Running, Used
  <2>2. f \in Frames /\ f.pc = "put" /\ f.left = Tail(top.left)
    <3>1. f \in Frames
      BY <2>1, StepFrames
    <3> QED BY <2>1, <3>1 DEF Frames
  <2>3. Len(stack) = 2 /\ ~interrupted => Tail(top.left) \in {<<"LF">>, <<>>}
    BY <1>a, <1>9, AloneNext
  <2> HIDE DEF f
  <2>4. Counted(f, Len(ScreenHistory')) /\ (Len(stack) = 2 /\ ~interrupted => Wrapping(f))
    BY <2>2, <2>3 DEF Counted, Wrapping
  <2> QED BY <1>9, <1>a, <2>1, <2>2, <2>4, AloneGoesOn
<1>10. CASE Backspace \/ Linefeed \/ CarriageReturn \/ WideOrNarrow
  BY <1>9, <1>10 DEF Backspace, Linefeed, CarriageReturn, WideOrNarrow, PutUnchanged, Chars
<1>14. CASE PutChar
  <2>1. ~Idle /\ top \in Frames /\ top.left # <<>> /\ Next1("c") /\ interrupted' = interrupted
    BY <1>14, <1>t, TopFacts DEF PutChar, Next1, Running, PutUnchanged
  <2>2. PICK f \in Frames : f.pc \in Writing /\ Goto(f)
    <3>1. CASE Goto([top EXCEPT !.pc = "wrap"])
      <4>1. "wrap" \in Writing
        BY DEF Writing
      <4>2. [top EXCEPT !.pc = "wrap"] \in Frames
        BY <2>1, <4>1, StepFrames
      <4>3. [top EXCEPT !.pc = "wrap"].pc = "wrap"
        BY <2>1 DEF Frames
      <4> QED BY <3>1, <4>1, <4>2, <4>3
    <3>2. ASSUME NEW pc \in Writing, Goto([top EXCEPT !.left = Tail(@), !.pc = pc])
          PROVE  \E f \in Frames : f.pc \in Writing /\ Goto(f)
      <4>1. [top EXCEPT !.left = Tail(@), !.pc = pc] \in Frames
        BY <2>1, StepFrames
      <4>2. [top EXCEPT !.left = Tail(@), !.pc = pc].pc = pc
        BY <2>1 DEF Frames
      <4> QED BY <3>2, <4>1, <4>2
    <3>3. "wrap" \in Writing /\ "put" \in Writing
      BY DEF Writing
    <3> QED BY <1>14, <3>1, <3>2, <3>3 DEF PutChar
  <2>3. ~(Len(stack) = 2 /\ ~interrupted)
    BY <1>a, <2>1, AloneNext
  <2>4. Counted(f, Len(ScreenHistory'))
    BY <2>2 DEF Writing, Counted
  <2> QED BY <1>a, <2>1, <2>2, <2>3, <2>4, AloneGoesOn
<1>15. CASE Wrap
  <2>1. ~Idle /\ top.pc = "wrap" /\ interrupted' = interrupted /\ Mode # NoMode
    BY <1>15, <1>a DEF Wrap, Running, ScreenInv, Idle
  <2>2. /\ Len(stack) \in Nat /\ Len(stack) >= 1 /\ Len(stack') = Len(stack) + 1 /\ top \in Frames
        /\ stack'[Len(stack)] = [top EXCEPT !.pc = "lock"]
        /\ stack'[Len(stack) + 1] = Frame("lock", top.level, mCrLfString, Mode, Attribute, 0)
    BY <1>15, <2>1, WrapFacts
  <2>n. Len(stack) \in Nat /\ Len(stack) >= 1 /\ Len(stack') = Len(stack) + 1
    BY <2>2
  <2>3. ASSUME ~interrupted PROVE Len(stack) = 1
    <3>1. Len(stack) <= 2 /\ Len(stack) # 2
      BY <1>a, <2>1, <2>3 DEF AloneInv, Wrapping, top
    <3>2. \A n \in Nat : n >= 1 /\ n <= 2 /\ n # 2 => n = 1
      OBVIOUS
    <3> QED BY <2>n, <3>1, <3>2
  <2>4. stack'[Len(stack)].pc = "lock" /\ stack'[Len(stack) + 1].pc = "lock" /\ stack'[Len(stack) + 1].left = mCrLfString
    BY <2>2, UpdatePc, FrameFields
  <2>s. SUFFICES ASSUME ~interrupted' PROVE AloneInv'
    BY DEF AloneInv
  <2>5. Len(stack) = 1
    BY <2>1, <2>3, <2>s
  <2>6. Len(stack') = 2 /\ stack'[1].pc = "lock" /\ stack'[2].pc = "lock" /\ stack'[2].left = mCrLfString
    BY <2>n, <2>4, <2>5
  <2> QED BY <2>6 DEF AloneInv, Wrapping
<1>16. CASE StringEnd \/ ResetWrites \/ GetScreenCopy
  <2>1. ~Idle /\ interrupted' = interrupted /\ Return
    BY <1>16 DEF StringEnd, ResetWrites, GetScreenCopy, Running, PutUnchanged
  <2> QED BY <1>a, <2>1, AloneReturns
<1>17. CASE ResetReads
  <2> DEFINE f == [top EXCEPT !.pc = "attribute", !.Attribute = OnBlack(Attribute)]
  <2>1. ~Idle /\ top.pc = "reset" /\ Goto(f) /\ interrupted' = interrupted /\ top \in Frames
    BY <1>17, <1>t, TopFacts DEF ResetReads, Running
  <2>2. f \in Frames /\ f.pc = "attribute"
    BY <2>1, StepFrames DEF Frames
  <2>3. ~(Len(stack) = 2 /\ ~interrupted)
    BY <1>a, <2>1 DEF AloneInv, Wrapping, top
  <2> HIDE DEF f
  <2>4. Counted(f, Len(ScreenHistory'))
    BY <2>2 DEF Counted
  <2> QED BY <1>a, <2>1, <2>2, <2>3, <2>4, AloneGoesOn
<1>20. CASE VirtualConsoleUnload
  <2>1. Len(stack') = 0
    BY <1>20, EmptySeq DEF VirtualConsoleUnload, Idle
  <2> QED BY <2>1 DEF AloneInv
<1> QED BY <1>1, <1>2, <1>3, <1>4, <1>6, <1>7, <1>8, <1>10, <1>14, <1>15, <1>16, <1>17, <1>20 DEF Next, Put

-----------------------------------------------------------------------------
(* The cursor.                                                             *)

\* All calls in progress know mode m; one of them will move the cursor to the first column.
SameMode(m) == \A i \in DOMAIN stack : stack[i].Mode = m
Pending == \E i \in DOMAIN stack : WillReturn(stack[i])

\* What is to be shown of a step, unless the mode has changed under a call.
CursorFacts ==
  /\ fault = "none" => SameMode(Mode)
  /\ CursorColumn <= Size(Mode).Columns + 1
  /\ CursorColumn >= Size(Mode).Columns => Pending
  /\ CursorRow < Size(Mode).Rows
  /\ fault = "out of bounds" => interrupted /\ CursorColumn = Size(Mode).Columns
  /\ fault = "overrun" => interrupted

\* Numbers that are not at least as large are smaller.
LEMMA Smaller ==
  ASSUME NEW a \in Nat, NEW b \in Nat
  PROVE  ~(a >= b) => a < b
OBVIOUS

\* It suffices for both parts of the invariant.
LEMMA CursorParts ==
  ASSUME TypeOK', Mode' # NoMode /\ ~adrift' => CursorFacts'
  PROVE  CursorInv' /\ CursorOnScreen'
<1> SUFFICES ASSUME Mode' # NoMode, ~adrift' PROVE CursorInv' /\ CursorOnScreen'
  BY DEF CursorInv, CursorOnScreen
<1>1. CursorColumn' \in Nat /\ Size(Mode').Columns \in Nat
  BY ModeFacts DEF TypeOK
<1>2. ASSUME Idle' PROVE ~Pending'
  <2>1. stack' = <<>>
    BY <1>2 DEF Idle
  <2>2. DOMAIN stack' = {}
    BY <2>1
  <2> QED BY <2>2 DEF Pending
<1>3. Idle' => CursorColumn' < Size(Mode').Columns
  BY <1>1, <1>2, Smaller DEF CursorFacts
<1> QED BY <1>3 DEF CursorInv, CursorOnScreen, SameMode, Pending, CursorFacts

\* A call is entered.
LEMMA CallsEnter ==
  ASSUME TypeOK, NEW f \in Frames, stack' = Append(stack, f), NEW m
  PROVE  /\ SameMode(m) /\ f.Mode = m => \A i \in DOMAIN stack' : stack'[i].Mode = m
         /\ Pending => Pending'
<1> DEFINE n == Len(stack)
<1>1. /\ n \in Nat /\ DOMAIN stack = 1..n /\ DOMAIN stack' = 1..(n + 1)
      /\ (\A i \in 1..n : stack'[i] = stack[i]) /\ stack'[n + 1] = f
  BY PushFacts DEF TypeOK
<1> HIDE DEF n
<1> QED BY <1>1, Places DEF SameMode, Pending

\* The running call takes a step.
LEMMA CallsGoOn ==
  ASSUME TypeOK, ~Idle, NEW f \in Frames, Goto(f), NEW m
  PROVE  /\ SameMode(m) /\ f.Mode = top.Mode => \A i \in DOMAIN stack' : stack'[i].Mode = m
         /\ Pending /\ (WillReturn(top) => WillReturn(f)) => Pending'
         /\ WillReturn(f) => Pending'
<1> DEFINE n == Len(stack)
<1>1. /\ n \in Nat /\ n >= 1 /\ DOMAIN stack = 1..n /\ DOMAIN stack' = 1..n
      /\ (\A i \in 1..(n - 1) : stack'[i] = stack[i]) /\ stack'[n] = f /\ top = stack[n]
  BY GotoFacts DEF TypeOK, top
<1> HIDE DEF n
<1>2. n \in 1..n /\ \A i \in 1..n : i \in 1..(n - 1) \/ i = n
  BY <1>1
<1> QED BY <1>1, <1>2 DEF SameMode, Pending

\* The running call returns.
LEMMA CallsReturn ==
  ASSUME TypeOK, ~Idle, Return, NEW m
  PROVE  /\ SameMode(m) => \A i \in DOMAIN stack' : stack'[i].Mode = m
         /\ Pending /\ ~WillReturn(top) => Pending'
<1> DEFINE n == Len(stack)
<1>1. /\ n \in Nat /\ n >= 1 /\ DOMAIN stack = 1..n /\ DOMAIN stack' = 1..(n - 1)
      /\ (\A i \in 1..(n - 1) : stack'[i] = stack[i]) /\ top = stack[n]
  BY ReturnFacts DEF TypeOK, top
<1> HIDE DEF n
<1>2. (\A i \in 1..n : i \in 1..(n - 1) \/ i = n) /\ (\A i \in 1..(n - 1) : i \in 1..n)
  BY <1>1
<1> QED BY <1>1, <1>2 DEF SameMode, Pending

\* The running call calls itself to wrap the line.
LEMMA CallsWrap ==
  ASSUME TypeOK, Mode # NoMode, Wrap
  PROVE  /\ SameMode(Mode) => \A i \in DOMAIN stack' : stack'[i].Mode = Mode
         /\ Pending'
<1> DEFINE n == Len(stack)
<1>1. /\ n \in Nat /\ n >= 1 /\ DOMAIN stack = 1..n /\ DOMAIN stack' = 1..(n + 1)
      /\ (\A i \in 1..(n - 1) : stack'[i] = stack[i])
      /\ stack'[n] = [top EXCEPT !.pc = "lock"] /\ top \in Frames /\ top = stack[n]
      /\ stack'[n + 1] = Frame("lock", top.level, mCrLfString, Mode, Attribute, 0)
  BY WrapFacts DEF top
<1> HIDE DEF n
<1>2. n \in 1..n /\ \A i \in 1..n : i \in 1..(n - 1) \/ i = n
  BY <1>1
<1>3. stack'[n].Mode = stack[n].Mode
  BY <1>1, UpdatePc
<1>4. stack'[n + 1].Mode = Mode /\ stack'[n + 1].pc = "lock" /\ stack'[n + 1].left = mCrLfString
  BY <1>1, FrameFields
<1>5. mCrLfString # <<>> /\ Head(mCrLfString) = "CR"
  BY DEF mCrLfString
<1>6. WillReturn(stack'[n + 1])
  BY <1>4, <1>5 DEF WillReturn
<1>7. n + 1 \in DOMAIN stack'
  BY <1>1, Places
<1>8. SameMode(Mode) => \A i \in 1..n : stack'[i].Mode = Mode
  BY <1>1, <1>2, <1>3 DEF SameMode
<1> QED BY <1>1, <1>4, <1>6, <1>7, <1>8, Places DEF Pending

\* Rows and columns of the mode are there.
LEMMA TouchSafe ==
  ASSUME TypeOK, ScreenInv, RowsAccounted, fault = "none", loaded, Mode \in Modes,
         NEW rows, rows \subseteq 1..Size(Mode).Rows, NEW columns \in Nat, columns <= Size(Mode).Columns
  PROVE  Touch(rows, columns) = "none"
<1>1. Mode # NoMode
  BY ModeFacts
<1>2. DOMAIN ScreenBuffer = 1..Size(Mode).Rows
  BY <1>1, LenProperties DEF ScreenInv, TypeOK
<1>3. \A k \in rows : ScreenBuffer[k] \in heap
  BY <1>2 DEF RowsAccounted, ToSet
<1> QED BY <1>2, <1>3 DEF Touch

\* Cursor and mode stay.
LEMMA CursorSame ==
  ASSUME TypeOK', CursorInv, CursorOnScreen, fault = "none", fault' \in {"none", "double free"},
         UNCHANGED <<Mode, CursorColumn, CursorRow, adrift>>,
         fault' = "none" /\ SameMode(Mode) => SameMode(Mode)', Pending => Pending'
  PROVE  CursorInv' /\ CursorOnScreen'
<1> SUFFICES ASSUME Mode # NoMode, ~adrift PROVE CursorInv' /\ CursorOnScreen'
  BY DEF CursorInv, CursorOnScreen
<1>1. SameMode(Mode) /\ CursorColumn <= Size(Mode).Columns + 1 /\ CursorRow < Size(Mode).Rows
      /\ (CursorColumn >= Size(Mode).Columns => Pending)
  BY DEF CursorInv, CursorOnScreen, SameMode, Pending
<1> QED BY <1>1, CursorParts DEF CursorFacts

\* The cursor is placed on the screen.
LEMMA CursorPlaced ==
  ASSUME TypeOK', CursorInv, fault = "none", fault' = "none", UNCHANGED <<Mode, stack>>,
         Mode \in Modes, NEW column \in Nat, NEW row \in Nat, Place(column, row),
         column < Size(Mode).Columns, row < Size(Mode).Rows
  PROVE  CursorInv' /\ CursorOnScreen'
<1> SUFFICES ASSUME Mode # NoMode, ~adrift' PROVE CursorInv' /\ CursorOnScreen'
  BY DEF CursorInv, CursorOnScreen
<1>1. CursorColumn' = column /\ CursorRow' = row /\ (~adrift \/ Idle)
  BY DEF Place
<1>2. ASSUME Idle PROVE SameMode(Mode)
  <2>1. DOMAIN stack = {}
    BY <1>2 DEF Idle
  <2> QED BY <2>1 DEF SameMode
<1>3. SameMode(Mode)
  BY <1>1, <1>2 DEF CursorInv, SameMode
<1>4. SameMode(Mode)'
  BY <1>3 DEF SameMode
<1>5. Size(Mode).Columns \in Nat
  BY ModeFacts
<1>6. column <= Size(Mode).Columns + 1 /\ ~(column >= Size(Mode).Columns)
  BY <1>5
<1> QED BY <1>1, <1>4, <1>6, CursorParts DEF CursorFacts

\* SetMode places the cursor in a new mode, or leaves it.
LEMMA CursorInMode ==
  ASSUME TypeOK, TypeOK', ScreenInv, RowsAccounted, CursorInv, CursorOnScreen, fault = "none", loaded,
         NEW mode \in Modes, InMode(mode), Pending => Pending',
         SameMode(mode) => \A i \in DOMAIN stack' : stack'[i].Mode = mode
  PROVE  CursorInv' /\ CursorOnScreen'
<1>1. CASE mode = Mode /\ ClearRows
           /\ UNCHANGED <<Mode, CursorColumn, CursorRow, ScreenBuffer, ScreenHistory, heap, adrift>>
  <2>1. Size(Mode).Rows \in Nat /\ Size(Mode).Columns \in Nat /\ Mode \in Modes
    BY <1>1, ModeFacts
  <2>2. 1..Size(Mode).Rows \subseteq 1..Size(Mode).Rows /\ Size(Mode).Columns <= Size(Mode).Columns
    BY <2>1
  <2>3. fault' = "none"
    BY <1>1, <2>1, <2>2, TouchSafe DEF ClearRows
  <2>4. SameMode(Mode) => SameMode(Mode)'
    BY <1>1 DEF SameMode
  <2> QED BY <1>1, <2>3, <2>4, CursorSame
<1>2. CASE fault' = "double free"
           /\ UNCHANGED <<Mode, CursorColumn, CursorRow, ScreenBuffer, ScreenHistory, heap, adrift>>
  BY <1>2, CursorSame
<1>3. CASE ChangeMode(mode) /\ Freeable(FreedBySetMode)
  <2>1. Mode' = mode /\ CursorColumn' = 0 /\ CursorRow' = 0 /\ (~adrift' => Idle) /\ fault' = "none"
    BY <1>3 DEF ChangeMode
  <2>2. Idle => SameMode(mode)
    <3>1. Idle => DOMAIN stack = {}
      BY DEF Idle
    <3> QED BY <3>1 DEF SameMode
  <2>3. Idle => SameMode(Mode)'
    BY <2>1, <2>2 DEF SameMode
  <2>4. Size(mode).Columns \in Nat /\ Size(mode).Columns >= 2 /\ Size(mode).Rows \in Nat /\ Size(mode).Rows >= 1
    BY ModeFacts
  <2>5. 0 <= Size(mode).Columns + 1 /\ ~(0 >= Size(mode).Columns) /\ 0 < Size(mode).Rows
    BY <2>4
  <2> QED BY <2>1, <2>3, <2>5, CursorParts DEF CursorFacts
<1> QED BY <1>1, <1>2, <1>3 DEF InMode, ChangeMode

\* What a call that is about to write a character finds.
LEMMA PutFacts ==
  ASSUME TypeOK, ScreenInv, CursorInv, fault = "none", NEW ch, Next1(ch)
  PROVE  /\ ~Idle /\ top \in Frames /\ Mode \in Modes /\ loaded
         /\ top.pc = "put" /\ top.left # <<>> /\ Head(top.left) = ch
         /\ ~adrift => SameMode(Mode) /\ max = Size(Mode)
         /\ ch # "CR" => ~WillReturn(top)
<1>1. ~Idle /\ top.pc = "put" /\ top.left # <<>> /\ Head(top.left) = ch
  BY DEF Next1, Running
<1>2. top \in Frames /\ Len(stack) \in DOMAIN stack
  BY <1>1, TopFacts DEF TypeOK
<1>3. Mode \in Modes /\ loaded
  BY <1>1, TopRow DEF Idle
<1>4. Mode # NoMode
  BY <1>3, ModeFacts
<1>5. ~adrift => SameMode(Mode)
  BY <1>4 DEF CursorInv, SameMode
<1>6. ~adrift => top.Mode = Mode
  BY <1>2, <1>5 DEF SameMode, top
<1>7. ch # "CR" => ~WillReturn(top)
  BY <1>1 DEF WillReturn
<1> QED BY <1>1, <1>2, <1>3, <1>5, <1>6, <1>7 DEF max

\* A character has been used up.
LEMMA UsedFacts ==
  ASSUME TypeOK, ScreenInv, CursorInv, fault = "none", NEW ch, Next1(ch), Used, Mode' = Mode
  PROVE  /\ SameMode(Mode) => SameMode(Mode)'
         /\ ch # "CR" /\ Pending => Pending'
<1> DEFINE f == [top EXCEPT !.left = Tail(@)]
<1>1. ~Idle /\ top \in Frames /\ top.left # <<>> /\ (ch # "CR" => ~WillReturn(top))
  BY PutFacts
<1>2. f \in Frames /\ f.Mode = top.Mode
  <2>1. f \in Frames
    BY <1>1, StepFrames
  <2> QED BY <1>1, <2>1 DEF Frames
<1>3. Goto(f)
  BY DEF Used
<1> HIDE DEF f
<1>4. SameMode(Mode) => \A i \in DOMAIN stack' : stack'[i].Mode = Mode
  BY <1>1, <1>2, <1>3, CallsGoOn
<1>5. ch # "CR" /\ Pending => Pending'
  BY <1>1, <1>2, <1>3, CallsGoOn
<1> QED BY <1>4, <1>5 DEF SameMode

\* Without interruption nobody but the call that runs will bring the cursor back, and it will
\* not if it writes anything else.
LEMMA NobodyElse ==
  ASSUME TypeOK, ScreenInv, CursorInv, AloneInv, fault = "none", NEW ch, Next1(ch), ch \notin {"CR", "LF"},
         ~interrupted
  PROVE  ~Pending
<1> DEFINE n == Len(stack)
<1>1. n \in Nat /\ n >= 1 /\ DOMAIN stack = 1..n
  BY PutFacts, TopFacts DEF TypeOK
<1>2. n <= 2 /\ n # 2
  BY AloneNext DEF AloneInv
<1>3. ~WillReturn(stack[n])
  BY PutFacts DEF top
<1> HIDE DEF n
<1>4. n = 1
  BY <1>1, <1>2
<1>5. \A i \in 1..1 : i = 1
  OBVIOUS
<1> QED BY <1>1, <1>3, <1>4, <1>5 DEF Pending

\* Where a backspace leaves the cursor; the row and the columns that it touches.
LEMMA BackspacePlaces ==
  ASSUME NEW col \in Nat, NEW row \in Nat, NEW cols \in Nat, NEW rows \in Nat, cols >= 2,
         col <= cols + 1, row < rows
  PROVE  /\ row > 0 => row - 1 < rows /\ {row - 1 + 1} \subseteq 1..rows /\ cols - 1 + 1 <= cols
                       /\ cols - 1 + 1 \in Nat
                       /\ cols - 1 <= cols + 1 /\ ~(cols - 1 >= cols)
         /\ col > 0 => /\ col - 1 <= cols + 1 /\ col - 1 + 1 \in Nat
                       /\ col - 1 >= cols => col >= cols
                       /\ col - 1 + 1 <= cols \/ (col - 1 = cols /\ col >= cols)
         /\ {row + 1} \subseteq 1..rows
         /\ 0 + 1 <= cols /\ 0 + 1 \in Nat
OBVIOUS

\* Backspace leaves the row only past the edge, and then after an interruption.
LEMMA CursorBackspace ==
  ASSUME TypeOK, TypeOK', ScreenInv, RowsAccounted, AloneInv, CursorInv, CursorOnScreen, fault = "none",
         Backspace
  PROVE  CursorInv' /\ CursorOnScreen'
<1>1. Next1("BS") /\ Used /\ UNCHANGED <<Mode, interrupted, adrift>>
  BY DEF Backspace, PutUnchanged
<1>2. Mode \in Modes /\ loaded /\ (~adrift => SameMode(Mode) /\ max = Size(Mode))
  BY <1>1, PutFacts
<1> SUFFICES ASSUME Mode # NoMode, ~adrift PROVE CursorFacts'
  BY <1>1, CursorParts
<1> DEFINE cols == Size(Mode).Columns
           rows == Size(Mode).Rows
<1>3. cols \in Nat /\ cols >= 2 /\ rows \in Nat /\ max.Columns = cols
  BY <1>2, ModeFacts
<1>4. CursorColumn \in Nat /\ CursorRow \in Nat /\ CursorColumn <= cols + 1 /\ CursorRow < rows
      /\ (CursorColumn >= cols => Pending)
  BY DEF TypeOK, CursorInv, CursorOnScreen, Pending
<1>5. SameMode(Mode)' /\ (Pending => Pending')
  BY <1>1, <1>2, UsedFacts
<1>6. ~interrupted => ~Pending
  BY <1>1, NobodyElse
<1>7. fault' = Touch({CursorRow' + 1}, CursorColumn' + 1)
  BY DEF Backspace
<1>8. \A r, c : r \subseteq 1..rows /\ c \in Nat /\ c <= cols => Touch(r, c) = "none"
  BY <1>2, TouchSafe
<1>9. fault' \in {"none", "out of bounds"}
  BY <1>7, TouchLive
<1>p. /\ Mode' = Mode /\ Size(Mode').Columns = cols /\ Size(Mode').Rows = rows
  BY <1>1
<1> HIDE DEF cols, rows
<1>z. ASSUME {CursorRow' + 1} \subseteq 1..rows, CursorColumn' + 1 \in Nat, CursorColumn' + 1 <= cols
      PROVE  fault' = "none"
  BY <1>7, <1>8, <1>z
<1>10. CASE CursorRow > 0 /\ CursorRow' = CursorRow - 1 /\ CursorColumn' = cols - 1
  <2>0. CursorRow' < rows /\ {CursorRow' + 1} \subseteq 1..rows /\ CursorColumn' + 1 <= cols
        /\ CursorColumn' + 1 \in Nat /\ CursorColumn' <= cols + 1 /\ ~(CursorColumn' >= cols)
    BY <1>3, <1>4, <1>10, BackspacePlaces
  <2>1. fault' = "none"
    BY <1>z, <2>0
  <2> QED BY <1>5, <1>p, <2>0, <2>1 DEF CursorFacts
<1>11. CASE CursorColumn > 0 /\ CursorColumn' = CursorColumn - 1 /\ CursorRow' = CursorRow
  <2>0. CursorRow' < rows /\ {CursorRow' + 1} \subseteq 1..rows /\ CursorColumn' + 1 \in Nat
        /\ CursorColumn' <= cols + 1 /\ (CursorColumn' >= cols => CursorColumn >= cols)
        /\ (CursorColumn' + 1 <= cols \/ (CursorColumn' = cols /\ CursorColumn >= cols))
    BY <1>3, <1>4, <1>11, BackspacePlaces
  <2>1. fault' = "out of bounds" => CursorColumn' = cols /\ CursorColumn >= cols
    BY <1>z, <2>0
  <2>2. CursorColumn >= cols => Pending' /\ interrupted'
    BY <1>1, <1>4, <1>5, <1>6
  <2> QED BY <1>5, <1>9, <1>p, <2>0, <2>1, <2>2 DEF CursorFacts
<1>12. CASE CursorColumn = 0 /\ CursorColumn' = 0 /\ CursorRow' = CursorRow
  <2>0. CursorRow' < rows /\ {CursorRow' + 1} \subseteq 1..rows /\ CursorColumn' + 1 <= cols
        /\ CursorColumn' + 1 \in Nat
    BY <1>3, <1>4, <1>12, BackspacePlaces
  <2>z. CursorColumn' <= cols + 1 /\ ~(CursorColumn' >= cols)
    BY <1>3, <1>12
  <2>1. fault' = "none"
    BY <1>z, <2>0
  <2> QED BY <1>5, <1>p, <2>0, <2>z, <2>1 DEF CursorFacts
<1> QED BY <1>3, <1>10, <1>11, <1>12 DEF Backspace

\* The rows that a line feed touches.
LEMMA LinefeedPlaces ==
  ASSUME NEW row \in Nat, NEW rows \in Nat, row < rows
  PROVE  /\ row # rows - 1 => row + 1 < rows
         /\ row = rows - 1 => 1..(row + 1) \subseteq 1..rows
OBVIOUS

\* A line feed stays on the screen.
LEMMA CursorLinefeed ==
  ASSUME TypeOK, TypeOK', ScreenInv, RowsAccounted, CursorInv, CursorOnScreen, fault = "none", Linefeed
  PROVE  CursorInv' /\ CursorOnScreen'
<1>1. Next1("LF") /\ Used /\ UNCHANGED <<Mode, interrupted, adrift, CursorColumn>>
  BY DEF Linefeed, PutUnchanged
<1>2. Mode \in Modes /\ loaded /\ (~adrift => SameMode(Mode) /\ max = Size(Mode))
  BY <1>1, PutFacts
<1> SUFFICES ASSUME Mode # NoMode, ~adrift PROVE CursorFacts'
  BY <1>1, CursorParts
<1> DEFINE cols == Size(Mode).Columns
           rows == Size(Mode).Rows
<1>3. cols \in Nat /\ rows \in Nat /\ max.Columns = cols /\ max.Rows = rows
  BY <1>2, ModeFacts
<1>4. CursorColumn \in Nat /\ CursorRow \in Nat /\ CursorColumn <= cols + 1 /\ CursorRow < rows
      /\ (CursorColumn >= cols => Pending)
  BY DEF TypeOK, CursorInv, CursorOnScreen, Pending
<1>5. SameMode(Mode)' /\ (Pending => Pending')
  BY <1>1, <1>2, UsedFacts
<1>8. \A r : r \subseteq 1..rows => Touch(r, cols) = "none"
  <2>1. cols <= cols
    BY <1>3
  <2> QED BY <1>2, <1>3, <2>1, TouchSafe
<1>p. /\ Mode' = Mode /\ Size(Mode').Columns = cols /\ Size(Mode').Rows = rows
  BY <1>1
<1> HIDE DEF cols, rows
<1>10. CASE CursorRow = rows - 1 /\ fault' = Touch(1..(CursorRow + 1), cols) /\ CursorRow' = CursorRow
  <2>1. fault' = "none"
    BY <1>3, <1>4, <1>8, <1>10, LinefeedPlaces
  <2> QED BY <1>1, <1>3, <1>4, <1>5, <1>p, <1>10, <2>1 DEF CursorFacts
<1>11. CASE CursorRow # rows - 1 /\ CursorRow' = CursorRow + 1 /\ fault' = fault
  BY <1>1, <1>3, <1>4, <1>5, <1>p, <1>11, LinefeedPlaces DEF CursorFacts
<1> QED BY <1>3, <1>10, <1>11 DEF Linefeed

\* Where a printable character leaves the cursor.
LEMMA PutPlaces ==
  ASSUME NEW col \in Nat, NEW row \in Nat, NEW cols \in Nat, NEW rows \in Nat, NEW width \in {1, 2},
         cols >= 2, col <= cols + 1, row < rows
  PROVE  /\ col + width <= cols => /\ col + 1 <= cols /\ col + width <= cols + 1
                                   /\ ~(col + width >= cols) \/ col + width = cols
         /\ col < cols => col + 2 <= cols + 1
         /\ {row + 1} \subseteq 1..rows /\ col + 1 \in Nat
OBVIOUS

\* A printable character is stored on the screen, and the line will be wrapped if it is full.
LEMMA CursorPutChar ==
  ASSUME TypeOK, TypeOK', ScreenInv, RowsAccounted, CursorInv, CursorOnScreen, fault = "none", PutChar
  PROVE  CursorInv' /\ CursorOnScreen'
<1>1. Next1("c") /\ UNCHANGED <<Mode, interrupted, adrift, CursorRow>>
  BY DEF PutChar, PutUnchanged
<1>2. /\ Mode \in Modes /\ loaded /\ (~adrift => SameMode(Mode) /\ max = Size(Mode))
      /\ ~Idle /\ top \in Frames /\ top.left # <<>> /\ ~WillReturn(top)
  BY <1>1, PutFacts
<1> SUFFICES ASSUME Mode # NoMode, ~adrift PROVE CursorFacts'
  BY <1>1, CursorParts
<1> DEFINE cols == Size(Mode).Columns
           rows == Size(Mode).Rows
           width == IF IsWide(Attribute) THEN 2 ELSE 1
<1>3. cols \in Nat /\ cols >= 2 /\ rows \in Nat /\ max.Columns = cols
  BY <1>2, ModeFacts
<1>4. CursorColumn \in Nat /\ CursorRow \in Nat /\ CursorColumn <= cols + 1 /\ CursorRow < rows
      /\ (CursorColumn >= cols => Pending)
  BY DEF TypeOK, CursorInv, CursorOnScreen, Pending
<1>w. width \in {1, 2}
  OBVIOUS
<1>8. \A r, c : r \subseteq 1..rows /\ c \in Nat /\ c <= cols => Touch(r, c) = "none"
  BY <1>2, TouchSafe
<1>p. /\ Mode' = Mode /\ Size(Mode').Columns = cols /\ Size(Mode').Rows = rows
  BY <1>1
<1>s. ASSUME NEW f \in Frames, f.Mode = top.Mode, Goto(f)
      PROVE  SameMode(Mode)' /\ (WillReturn(f) => Pending')
  <2>1. \A i \in DOMAIN stack' : stack'[i].Mode = Mode
    BY <1>2, <1>s, CallsGoOn
  <2> QED BY <1>1, <1>2, <1>s, <2>1, CallsGoOn DEF SameMode
<1>10. ASSUME CursorColumn + width <= cols, CursorColumn' = CursorColumn + width,
              fault' = Touch({CursorRow + 1}, CursorColumn + 1),
              Goto([top EXCEPT !.left = Tail(@), !.pc = IF CursorColumn + width = cols THEN "wrap" ELSE "put"])
       PROVE  CursorFacts'
  <2>1. PICK pc \in Writing : pc = IF CursorColumn + width = cols THEN "wrap" ELSE "put"
    BY DEF Writing
  <2> DEFINE f == [top EXCEPT !.left = Tail(@), !.pc = pc]
  <2>2. f \in Frames /\ f.Mode = top.Mode /\ f.pc = pc
    <3>1. f \in Frames
      BY <1>2, StepFrames
    <3> QED BY <1>2, <3>1 DEF Frames
  <2>3. Goto(f)
    BY <1>10, <2>1
  <2> HIDE DEF f
  <2>4. SameMode(Mode)' /\ (WillReturn(f) => Pending')
    BY <1>s, <2>2, <2>3
  <2>5. CursorColumn + width = cols => Pending'
    BY <2>1, <2>2, <2>4 DEF WillReturn
  <2> HIDE DEF cols, rows, width
  <2>6. fault' = "none"
    BY <1>w, <1>3, <1>4, <1>8, <1>10, PutPlaces
  <2>7. CursorColumn' <= cols + 1 /\ (CursorColumn' >= cols => CursorColumn + width = cols)
    BY <1>w, <1>3, <1>4, <1>10, PutPlaces
  <2> QED BY <1>1, <1>4, <1>p, <2>4, <2>5, <2>6, <2>7 DEF CursorFacts
<1>11. ASSUME CursorColumn' = IF CursorColumn < cols THEN CursorColumn + 2 ELSE CursorColumn,
              fault' = fault, Goto([top EXCEPT !.pc = "wrap"])
       PROVE  CursorFacts'
  <2> DEFINE f == [top EXCEPT !.pc = "wrap"]
  <2>2. f \in Frames /\ f.Mode = top.Mode /\ f.pc = "wrap"
    <3>1. f \in Frames
      BY <1>2, StepFrames DEF Writing
    <3> QED BY <1>2, <3>1 DEF Frames
  <2>3. Goto(f)
    BY <1>11
  <2> HIDE DEF f
  <2>4. SameMode(Mode)' /\ Pending'
    BY <1>s, <2>2, <2>3 DEF WillReturn
  <2> HIDE DEF cols, rows, width
  <2> QED BY <1>1, <1>w, <1>3, <1>4, <1>p, <1>11, <2>4, PutPlaces DEF CursorFacts
<1> HIDE DEF cols, rows
<1> QED BY <1>3, <1>10, <1>11 DEF PutChar

\* A copy ends: it leaves the caller's buffer only after an interruption.
LEMMA CursorCopy ==
  ASSUME TypeOK, TypeOK', ScreenInv, RowsAccounted, AloneInv, CursorInv, CursorOnScreen, fault = "none",
         GetScreenCopy
  PROVE  CursorInv' /\ CursorOnScreen'
<1>1. /\ ~Idle /\ top.pc \in {"copy", "copy all"} /\ Return
      /\ UNCHANGED <<Mode, interrupted, adrift, CursorColumn, CursorRow>>
  BY DEF GetScreenCopy, Running, device
<1>2. Mode \in Modes /\ loaded /\ Len(stack) \in DOMAIN stack /\ Len(stack) \in Nat /\ Len(stack) >= 1
  BY <1>1, TopRow, TopFacts DEF Idle, TypeOK
<1> SUFFICES ASSUME Mode # NoMode, ~adrift PROVE CursorFacts'
  BY <1>1, CursorParts
<1>3. SameMode(Mode) /\ CursorColumn <= Size(Mode).Columns + 1 /\ CursorRow < Size(Mode).Rows
      /\ (CursorColumn >= Size(Mode).Columns => Pending)
  BY DEF CursorInv, CursorOnScreen, SameMode, Pending
<1>4. max = Size(Mode)
  BY <1>2, <1>3 DEF SameMode, max, top
<1>5. ~WillReturn(top)
  BY <1>1 DEF WillReturn
<1>6. \A i \in DOMAIN stack' : stack'[i].Mode = Mode
  BY <1>1, <1>3, CallsReturn
<1>7. SameMode(Mode)' /\ (Pending => Pending')
  BY <1>1, <1>5, <1>6, CallsReturn DEF SameMode
<1>8. Touch(1..max.Rows, max.Columns) = "none"
  <2>1. Size(Mode).Columns \in Nat /\ Size(Mode).Columns <= Size(Mode).Columns
    BY <1>2, ModeFacts
  <2> QED BY <1>2, <1>4, <2>1, TouchSafe
<1>9. ASSUME ~interrupted PROVE ~(top.pc = "copy all" /\ Len(ScreenHistory) > top.HistoryRows)
  <2>1. Len(stack) # 2
    BY <1>1, <1>9 DEF AloneInv, Wrapping, top
  <2>2. Len(stack) <= 2
    BY <1>9 DEF AloneInv
  <2>3. \A n \in Nat : n >= 1 /\ n <= 2 /\ n # 2 => n = 1
    OBVIOUS
  <2>4. Len(stack) = 1
    BY <1>2, <2>1, <2>2, <2>3
  <2>5. Counted(top, Len(ScreenHistory))
    BY <1>9, <2>4 DEF AloneInv, top
  <2>6. Len(ScreenHistory) \in Nat
    BY LenProperties DEF TypeOK
  <2>7. ~(Len(ScreenHistory) > Len(ScreenHistory))
    BY <2>6
  <2> QED BY <2>5, <2>7 DEF Counted
<1>10. ToSet(ScreenHistory) \subseteq heap
  BY DEF RowsAccounted
<1>11. fault' = IF top.pc = "copy all" /\ Len(ScreenHistory) > top.HistoryRows THEN "overrun" ELSE "none"
  BY <1>8, <1>10 DEF GetScreenCopy
<1>12. fault' \in {"none", "overrun"} /\ (fault' = "overrun" => interrupted)
  BY <1>9, <1>11
<1> QED BY <1>1, <1>3, <1>7, <1>12 DEF CursorFacts

\* Every step keeps the cursor on the screen.
LEMMA CursorStep ==
  ASSUME TypeOK, TypeOK', ScreenInv, RowsAccounted, AloneInv, CursorInv, CursorOnScreen, [Next]_vars
  PROVE  CursorInv' /\ CursorOnScreen'
<1> USE DEF device
<1>0. CASE UNCHANGED vars
  BY <1>0 DEF vars, CursorInv, CursorOnScreen, Idle
<1> SUFFICES ASSUME Next PROVE CursorInv' /\ CursorOnScreen'
  BY <1>0
<1>a. fault = "none"
  BY DEF Next
<1>t. stack \in Seq(Frames)
  BY DEF TypeOK
<1>b. ~Idle => Mode # NoMode /\ loaded
  BY <1>a DEF ScreenInv, Idle
<1>e. ASSUME NEW f \in Frames, f.Mode = Mode, stack' = Append(stack, f),
             UNCHANGED <<Mode, CursorColumn, CursorRow, adrift, fault>>
      PROVE  CursorInv' /\ CursorOnScreen'
  <2>1. SameMode(Mode) => \A i \in DOMAIN stack' : stack'[i].Mode = Mode
    BY <1>e, CallsEnter
  <2>2. (SameMode(Mode) => SameMode(Mode)') /\ (Pending => Pending')
    BY <1>e, <2>1, CallsEnter DEF SameMode
  <2> QED BY <1>a, <1>e, <2>2, CursorSame
<1>1. ASSUME NEW level \in Tpl, NEW s \in Strings, OutputString(level, s) PROVE CursorInv' /\ CursorOnScreen'
  <2> DEFINE f == Frame("lock", level, s, Mode, Attribute, 0)
  <2>1. f \in Frames /\ f.Mode = Mode
    BY <1>1, OutAssumption, NewFrames DEF OutputString, Frame
  <2>2. stack' = Append(stack, f) /\ UNCHANGED <<Mode, CursorColumn, CursorRow, adrift, fault>>
    BY <1>1 DEF OutputString
  <2> HIDE DEF f
  <2> QED BY <1>e, <2>1, <2>2
<1>s. ASSUME UNCHANGED <<Mode, CursorColumn, CursorRow, adrift, stack>>, fault' \in {"none", "double free"}
      PROVE  CursorInv' /\ CursorOnScreen'
  <2>1. (SameMode(Mode) => SameMode(Mode)') /\ (Pending => Pending')
    BY <1>s DEF SameMode, Pending
  <2> QED BY <1>a, <1>s, <2>1, CursorSame
<1>2. ASSUME NEW level \in Tpl, NEW a \in Attributes, SetAttribute(level, a) PROVE CursorInv' /\ CursorOnScreen'
  BY <1>2, <1>a, <1>s DEF SetAttribute
<1>3. ASSUME NEW level \in Tpl, NEW mode \in Modes, SetMode(level, mode) PROVE CursorInv' /\ CursorOnScreen'
  <2>1. InMode(mode) /\ stack' = stack /\ loaded
    BY <1>3 DEF SetMode, Begin
  <2>2. (Pending => Pending') /\ (SameMode(mode) => \A i \in DOMAIN stack' : stack'[i].Mode = mode)
    BY <2>1 DEF Pending, SameMode
  <2> QED BY <1>a, <2>1, <2>2, CursorInMode
<1>4. ASSUME NEW level \in Tpl, ClearScreen(level) PROVE CursorInv' /\ CursorOnScreen'
  <2>1. Mode \in Modes /\ loaded /\ Place(0, 0) /\ ClearRows /\ UNCHANGED <<Mode, stack>>
    BY <1>4 DEF ClearScreen, Begin, TypeOK
  <2>2. /\ Size(Mode).Columns \in Nat /\ Size(Mode).Columns <= Size(Mode).Columns
        /\ 0 < Size(Mode).Columns /\ 0 < Size(Mode).Rows
    BY <2>1, ModeFacts
  <2>3. fault' = "none"
    BY <1>a, <2>1, <2>2, TouchSafe DEF ClearRows
  <2> QED BY <1>a, <2>1, <2>2, <2>3, CursorPlaced
<1>5. ASSUME NEW level \in Tpl, SetCursorPosition(level) PROVE CursorInv' /\ CursorOnScreen'
  <2>1. Mode \in Modes /\ fault' = fault /\ UNCHANGED <<Mode, stack>>
    BY <1>5 DEF SetCursorPosition, Begin, TypeOK
  <2>2. PICK column \in 0..(Size(Mode).Columns - 1), row \in 0..(Size(Mode).Rows - 1) : Place(column, row)
    BY <1>5 DEF SetCursorPosition
  <2>3. Size(Mode).Columns \in Nat /\ Size(Mode).Rows \in Nat
    BY <2>1, ModeFacts
  <2>4. column \in Nat /\ row \in Nat /\ column < Size(Mode).Columns /\ row < Size(Mode).Rows
    BY <2>3
  <2> QED BY <1>a, <2>1, <2>2, <2>4, CursorPlaced
<1>6. ASSUME NEW level \in Tpl, ConOutReset(level) PROVE CursorInv' /\ CursorOnScreen'
  <2> DEFINE f == Frame("reset", level, <<>>, 0, 0, 0)
  <2>1. f \in Frames /\ f.Mode = 0 /\ stack' = Append(stack, f) /\ InMode(0) /\ loaded
    BY <1>6, NewFrames DEF ConOutReset, Begin, Frame
  <2> HIDE DEF f
  <2>2. (Pending => Pending') /\ (SameMode(0) => \A i \in DOMAIN stack' : stack'[i].Mode = 0)
    BY <2>1, CallsEnter
  <2> QED BY <1>a, <2>1, <2>2, CursorInMode, ModeFacts
<1>7. ASSUME NEW level \in Tpl, GetScreen(level) PROVE CursorInv' /\ CursorOnScreen'
  <2>1. PICK f \in Frames : f.Mode = Mode /\ stack' = Append(stack, f)
    <3>1. CASE stack' = Append(stack, Frame("copy", level, <<>>, Mode, 0, 0))
      BY <1>7, <3>1, NewFrames DEF GetScreen, Frame
    <3>2. CASE stack' = Append(stack, Frame("copy all", level, <<>>, Mode, 0, Len(ScreenHistory)))
      BY <1>7, <3>2, NewFrames DEF GetScreen, Frame
    <3> QED BY <1>7, <3>1, <3>2 DEF GetScreen
  <2>2. UNCHANGED <<Mode, CursorColumn, CursorRow, adrift, fault>>
    BY <1>7 DEF GetScreen
  <2> QED BY <1>e, <2>1, <2>2
<1>g. ASSUME ~Idle, NEW f \in Frames, f.Mode = top.Mode, Goto(f), WillReturn(top) => WillReturn(f),
             UNCHANGED <<Mode, CursorColumn, CursorRow, adrift, fault>>
      PROVE  CursorInv' /\ CursorOnScreen'
  <2>1. SameMode(Mode) => \A i \in DOMAIN stack' : stack'[i].Mode = Mode
    BY <1>g, CallsGoOn
  <2>2. (SameMode(Mode) => SameMode(Mode)') /\ (Pending => Pending')
    BY <1>g, <2>1, CallsGoOn DEF SameMode
  <2> QED BY <1>a, <1>g, <2>2, CursorSame
<1>8. CASE AcquireLock
  <2> DEFINE f == [top EXCEPT !.pc = "put"]
  <2>1. ~Idle /\ top \in Frames /\ Goto(f) /\ top.pc = "lock"
        /\ UNCHANGED <<Mode, CursorColumn, CursorRow, adrift, fault>>
    BY <1>8, <1>t, TopFacts DEF AcquireLock, Running
  <2>2. f \in Frames /\ f.pc = "put" /\ f.left = top.left /\ f.Mode = top.Mode
    BY <2>1, StepFrames, UpdatePc DEF Writing
  <2> HIDE DEF f
  <2>3. WillReturn(top) => WillReturn(f)
    BY <2>1, <2>2 DEF WillReturn
  <2> QED BY <1>g, <2>1, <2>2, <2>3
<1>9. ASSUME NEW ch, Next1(ch), Used, ch # "CR", UNCHANGED <<Mode, CursorColumn, CursorRow, adrift, fault>>
      PROVE  CursorInv' /\ CursorOnScreen'
  BY <1>a, <1>9, UsedFacts, CursorSame
<1>10. CASE Backspace
  BY <1>a, <1>10, CursorBackspace
<1>11. CASE Linefeed
  BY <1>a, <1>11, CursorLinefeed
<1>12. CASE CarriageReturn
  <2>1. Next1("CR") /\ Used /\ UNCHANGED <<Mode, adrift, fault, CursorRow>> /\ CursorColumn' = 0
    BY <1>12 DEF CarriageReturn, PutUnchanged
  <2>2. Mode \in Modes
    BY <1>a, <2>1, PutFacts
  <2>3. SameMode(Mode) => SameMode(Mode)'
    BY <1>a, <2>1, UsedFacts
  <2>4. Size(Mode).Columns \in Nat /\ Size(Mode).Columns >= 2
    BY <2>2, ModeFacts
  <2>5. 0 <= Size(Mode).Columns + 1 /\ ~(0 >= Size(Mode).Columns)
    BY <2>4
  <2>6. Mode # NoMode /\ ~adrift => SameMode(Mode) /\ CursorRow < Size(Mode).Rows
    BY <1>a DEF CursorInv, CursorOnScreen, SameMode
  <2> QED BY <1>a, <2>1, <2>3, <2>5, <2>6, CursorParts DEF CursorFacts
<1>13. CASE WideOrNarrow
  BY <1>9, <1>13 DEF WideOrNarrow, PutUnchanged
<1>14. CASE PutChar
  BY <1>a, <1>14, CursorPutChar
<1>15. CASE Wrap
  <2>1. Mode # NoMode /\ UNCHANGED <<Mode, CursorColumn, CursorRow, adrift, fault>>
    BY <1>15, <1>b DEF Wrap, Running
  <2>2. SameMode(Mode) => \A i \in DOMAIN stack' : stack'[i].Mode = Mode
    BY <1>15, <2>1, CallsWrap
  <2>3. (SameMode(Mode) => SameMode(Mode)') /\ Pending'
    BY <1>15, <2>1, <2>2, CallsWrap DEF SameMode
  <2> QED BY <1>a, <2>1, <2>3, CursorSame
<1>16. CASE StringEnd \/ ResetWrites
  <2>1. ~Idle /\ Return /\ (top.pc = "attribute" \/ (top.pc = "put" /\ top.left = <<>>))
        /\ UNCHANGED <<Mode, CursorColumn, CursorRow, adrift, fault>>
    BY <1>16 DEF StringEnd, ResetWrites, Running, PutUnchanged
  <2>2. ~WillReturn(top)
    BY <2>1 DEF WillReturn
  <2>3. SameMode(Mode) => \A i \in DOMAIN stack' : stack'[i].Mode = Mode
    BY <2>1, CallsReturn
  <2>4. (SameMode(Mode) => SameMode(Mode)') /\ (Pending => Pending')
    BY <2>1, <2>2, <2>3, CallsReturn DEF SameMode
  <2> QED BY <1>a, <2>1, <2>4, CursorSame
<1>17. CASE ResetReads
  <2> DEFINE f == [top EXCEPT !.pc = "attribute", !.Attribute = OnBlack(Attribute)]
  <2>1. ~Idle /\ top.pc = "reset" /\ Goto(f) /\ top \in Frames
        /\ UNCHANGED <<Mode, CursorColumn, CursorRow, adrift, fault>>
    BY <1>17, <1>t, TopFacts DEF ResetReads, Running
  <2>2. f \in Frames /\ f.Mode = top.Mode
    BY <2>1, StepFrames DEF Frames
  <2> HIDE DEF f
  <2>3. ~WillReturn(top)
    BY <2>1 DEF WillReturn
  <2> QED BY <1>g, <2>1, <2>2, <2>3
<1>19. CASE GetScreenCopy
  BY <1>a, <1>19, CursorCopy
<1>20. CASE VirtualConsoleUnload
  BY <1>a, <1>20, <1>s DEF VirtualConsoleUnload
<1> QED BY <1>1, <1>2, <1>3, <1>4, <1>5, <1>6, <1>7, <1>8, <1>10, <1>11, <1>12, <1>13, <1>14, <1>15,
           <1>16, <1>17, <1>19, <1>20 DEF Next, Put

-----------------------------------------------------------------------------
(* Theorems.                                                               *)

Inv == /\ TypeOK /\ ScreenInv /\ RowsAccounted
       /\ AttributeInv /\ AloneInv /\ CursorInv /\ CursorOnScreen

\* After InitializeVirtualConsole it all holds.
LEMMA InvInit == Init => Inv
<1> SUFFICES ASSUME Init PROVE Inv
  OBVIOUS
<1>1. stack = <<>> /\ ScreenBuffer = <<>> /\ ScreenHistory = <<>> /\ heap = {} /\ fault = "none"
      /\ Mode = NoMode /\ Attribute = 7 /\ chosen = 7
  BY DEF Init
<1>b. loaded \in BOOLEAN /\ interrupted \in BOOLEAN /\ adrift \in BOOLEAN
  BY DEF Init
<1>c. CursorColumn = 0 /\ CursorRow = 0
  BY DEF Init
<1>2. TypeOK
  <2>1. <<>> \in Seq(Addr) /\ <<>> \in Seq(Frames)
    BY EmptySeq
  <2>2. 7 \in 0..255 /\ 7 \in -1..255 /\ 0 \in Nat
    OBVIOUS
  <2> QED BY <1>1, <1>b, <1>c, <2>1, <2>2 DEF TypeOK, Faults
<1>3. ToSet(<<>>) = {} /\ IsInjective(<<>>) /\ DOMAIN <<>> = {} /\ Len(<<>>) = 0
  BY EmptySeq DEF ToSet, IsInjective
<1>4. ScreenInv
  BY <1>1, <1>3 DEF ScreenInv, Init
<1>5. RowsAccounted
  BY <1>1, <1>3 DEF RowsAccounted
<1>6. AttributeInv
  BY <1>1, <1>3 DEF AttributeInv, Restored, IsWide, EFI_WIDE_ATTRIBUTE
<1>7. AloneInv
  BY <1>1, <1>3 DEF AloneInv
<1>8. CursorInv /\ CursorOnScreen
  BY <1>1 DEF CursorInv, CursorOnScreen
<1> QED BY <1>2, <1>4, <1>5, <1>6, <1>7, <1>8 DEF Inv

\* Every step of any caller keeps it.
LEMMA InvNext == Inv /\ [Next]_vars => Inv'
<1> SUFFICES ASSUME Inv, [Next]_vars PROVE Inv'
  OBVIOUS
<1>1. TypeOK'
  BY TypeStep DEF Inv
<1> QED BY <1>1, RowsStep, AttributeStep, AloneStep, CursorStep DEF Inv

\* The device and the calls in progress have values of their types, for any modes, strings,
\* attributes and priorities.
THEOREM OutTyped == Spec => []TypeOK
<1>1. Inv => TypeOK
  BY DEF Inv
<1> QED BY <1>1, InvInit, InvNext, PTL DEF Spec

\* No row buffer leaks, none is used after it is freed, and FreePool gets one twice only if a
\* row has scrolled off, whoever writes, clears or changes the mode in between two steps of
\* another call.
THEOREM RowsSafe == Spec => []RowsAccounted
<1>1. Inv => RowsAccounted
  BY DEF Inv
<1> QED BY <1>1, InvInit, InvNext, PTL DEF Spec

\* OutputString puts back the attribute that it found, through wraps, wide characters and
\* calls of any number of priorities in the middle of a string.
THEOREM AttributeKept == Spec => []AttributeRestored
<1>1. Inv => AttributeRestored
  <2> SUFFICES ASSUME AttributeInv, Idle PROVE ~IsWide(Attribute) /\ chosen \in {Attribute, Unknown}
    BY DEF Inv, AttributeRestored
  <2>1. DOMAIN stack = {}
    BY DEF Idle
  <2> QED BY <2>1 DEF AttributeInv, Restored
<1> QED BY <1>1, InvInit, InvNext, PTL DEF Spec

\* The cursor stays on the screen and every store in its row, except for a backspace that
\* comes in between, and unless the mode is changed under a call; GetScreen's copy fits the
\* caller's buffer unless somebody writes after it was sized.
THEOREM CursorStays == Spec => []CursorOnScreen
<1>1. Inv => CursorOnScreen
  BY DEF Inv
<1> QED BY <1>1, InvInit, InvNext, PTL DEF Spec
=============================================================================
