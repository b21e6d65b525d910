---------------------------- MODULE VirtualConOut ----------------------------
(***************************************************************************)
(* The output half of the virtual console                                  *)
(* (VirtualConsoleDxe/VirtualConOut.c): a text screen of row buffers, the  *)
(* history of rows that scrolled off, the cursor, and GetScreen.           *)
(*                                                                         *)
(* A call is interrupted by calls of higher priority wherever it does not  *)
(* hold TxtOutLock, a lock at TPL_NOTIFY.  OutputString takes one step per *)
(* character under the lock and gives the lock up to wrap a line, which it *)
(* does by calling itself; GetScreen sizes its answer before it takes the  *)
(* lock, and ConOutReset is three calls.  Every other call is one step.    *)
(***************************************************************************)
EXTENDS Integers, Sequences, SequencesExt

CONSTANTS ModeData,     \* SimpleTextOutputModeData: a sequence of columns and rows
          Strings,      \* the strings that are written
          Attributes,   \* what is passed to SetAttribute: the low bits are the foreground
          Tpl,          \* the task priorities of the callers
          Addr,         \* where AllocatePool may put a row buffer
          MaxHistory    \* bound: no call begins with more rows in the history, or with the
                        \* cursor further down

Chars == {"c", "BS", "LF", "CR", "WIDE", "NARROW"}

ASSUME OutAssumption ==
  /\ ModeData \in Seq([Columns : Nat, Rows : Nat]) /\ ModeData # <<>>
  /\ \A m \in DOMAIN ModeData : ModeData[m].Columns >= 2 /\ ModeData[m].Rows >= 1
  /\ Strings \subseteq Seq(Chars)
  /\ Attributes \subseteq 0..127
  /\ Tpl \subseteq Nat
  /\ MaxHistory \in Nat

VARIABLES Mode, CursorColumn, CursorRow, Attribute,   \* SimpleTextOutputMode
          ScreenBuffer, ScreenHistory,   \* addresses of row buffers
          heap,         \* the row buffers that are allocated
          stack,        \* the calls in progress, the running one last
          loaded, fault,
          chosen,       \* history: what SetAttribute set last, Unknown if during a string
          interrupted,  \* history: the last call came in between two steps of another
          adrift        \* history: the mode was changed in between two steps of a call, and
                        \* nobody has placed the cursor since

device == <<Mode, CursorColumn, CursorRow, Attribute, ScreenBuffer, ScreenHistory, heap>>
vars == <<device, stack, loaded, fault, chosen, interrupted, adrift>>

NoMode == -1
Modes == 0..(Len(ModeData) - 1)
Size(mode) == ModeData[mode + 1]

EFI_WIDE_ATTRIBUTE == 128
IsWide(a) == a >= EFI_WIDE_ATTRIBUTE
Unknown == -1

\* A call in progress with its local variables: what is left of WString, the mode it
\* found, the attribute it will write, and the history rows it counted.
Frame(pc, level, left, mode, attribute, rows) ==
  [pc |-> pc, level |-> level, left |-> left, Mode |-> mode, Attribute |-> attribute,
   HistoryRows |-> rows]

top == stack[Len(stack)]
Idle == stack = <<>>
Running(pc) == ~Idle /\ top.pc = pc
Goto(frame) == stack' = [stack EXCEPT ![Len(stack)] = frame]
Return == stack' = SubSeq(stack, 1, Len(stack) - 1)

\* After InitializeVirtualConsole: no mode is set, there are no rows.
Init ==
  /\ Mode = NoMode /\ CursorColumn = 0 /\ CursorRow = 0 /\ Attribute = 7
  /\ ScreenBuffer = <<>> /\ ScreenHistory = <<>> /\ heap = {}
  /\ stack = <<>> /\ loaded = TRUE /\ fault = "none"
  /\ chosen = 7 /\ interrupted = FALSE /\ adrift = FALSE

\* A call may begin whenever nothing of its priority runs and nobody holds TxtOutLock.
Begin(level) ==
  /\ loaded /\ Len(ScreenHistory) <= MaxHistory /\ CursorRow <= MaxHistory
  /\ ~Idle => top.level < level /\ top.pc # "put"
  /\ interrupted' = ~Idle

-----------------------------------------------------------------------------
(* Memory.                                                                 *)

\* What goes wrong when the given rows are read or written in so many columns.
Touch(rows, columns) ==
  IF ~(rows \subseteq DOMAIN ScreenBuffer /\ columns <= Size(Mode).Columns) THEN "out of bounds"
  ELSE IF \E k \in rows : ScreenBuffer[k] \notin heap THEN "freed row"
  ELSE "none"

\* FreePool of one row after the other goes well.
Freeable(rows) == IsInjective(rows) /\ ToSet(rows) \subseteq heap

\* VirtualConsoleClearHistory and the rows of the screen, in the order in which SetMode frees them.
FreedBySetMode == ScreenHistory \o ScreenBuffer

\* AllocatePool for every row.
NewScreens(free, rows) == {s \in [1..rows -> free] : IsInjective(s)}

-----------------------------------------------------------------------------
(* OutputString.                                                           *)

\* The mode is looked up before the lock is taken; EFI_UNSUPPORTED without one.
OutputString(level, string) ==
  /\ Begin(level) /\ Mode # NoMode
  /\ stack' = Append(stack, Frame("lock", level, string, Mode, Attribute, 0))
  /\ UNCHANGED <<device, loaded, fault, chosen, adrift>>

AcquireLock ==
  /\ Running("lock")
  /\ Goto([top EXCEPT !.pc = "put"])
  /\ UNCHANGED <<device, loaded, fault, chosen, interrupted, adrift>>

\* The next character of the string; max is the size of the mode that the call found.
Next1(ch) == Running("put") /\ top.left # <<>> /\ Head(top.left) = ch
Used == Goto([top EXCEPT !.left = Tail(@)])
max == Size(top.Mode)
PutUnchanged == UNCHANGED <<Mode, ScreenBuffer, heap, loaded, chosen, interrupted, adrift>>

Backspace ==
  /\ Next1("BS") /\ Used
  /\ \/ /\ CursorColumn = 0 /\ CursorRow > 0
        /\ CursorRow' = CursorRow - 1 /\ CursorColumn' = max.Columns - 1
     \/ /\ CursorColumn > 0
        /\ CursorColumn' = CursorColumn - 1 /\ UNCHANGED CursorRow
     \/ /\ CursorColumn = 0 /\ CursorRow = 0
        /\ UNCHANGED <<CursorColumn, CursorRow>>
  /\ fault' = Touch({CursorRow' + 1}, CursorColumn' + 1)
  /\ UNCHANGED <<Attribute, ScreenHistory>> /\ PutUnchanged

\* Fault model: the display is scrolled one row too late.
Linefeed_OffByOne ==
  /\ Next1("LF") /\ Used
  /\ \/ /\ CursorRow = max.Rows
        /\ ScreenHistory' = Append(ScreenHistory, ScreenBuffer[1])
        /\ fault' = Touch(1..(CursorRow + 1), max.Columns)
        /\ UNCHANGED CursorRow
     \/ /\ CursorRow # max.Rows
        /\ CursorRow' = CursorRow + 1 /\ UNCHANGED <<ScreenHistory, fault>>
  /\ UNCHANGED <<CursorColumn, Attribute>> /\ PutUnchanged

\* At the bottom row 0's buffer itself is appended to the history, every row is copied up,
\* and the last one blanked.
Linefeed ==
  /\ Next1("LF") /\ Used
  /\ \/ /\ CursorRow = max.Rows - 1
        /\ ScreenHistory' = Append(ScreenHistory, ScreenBuffer[1])
        /\ fault' = Touch(1..(CursorRow + 1), max.Columns)
        /\ UNCHANGED CursorRow
     \/ /\ CursorRow # max.Rows - 1
        /\ CursorRow' = CursorRow + 1 /\ UNCHANGED <<ScreenHistory, fault>>
  /\ UNCHANGED <<CursorColumn, Attribute>> /\ PutUnchanged

CarriageReturn ==
  /\ Next1("CR") /\ Used
  /\ CursorColumn' = 0
  /\ UNCHANGED <<CursorRow, Attribute, ScreenHistory, fault>> /\ PutUnchanged

WideOrNarrow ==
  /\ \/ Next1("WIDE") /\ Attribute' = (Attribute % EFI_WIDE_ATTRIBUTE) + EFI_WIDE_ATTRIBUTE
     \/ Next1("NARROW") /\ Attribute' = Attribute % EFI_WIDE_ATTRIBUTE
  /\ Used
  /\ UNCHANGED <<CursorColumn, CursorRow, ScreenHistory, fault>> /\ PutUnchanged

\* A printable character.  A wide one is not split over two rows: what does not fit is left
\* for the next line, with the cursor past the edge.
PutChar ==
  LET width == IF IsWide(Attribute) THEN 2 ELSE 1
      column == CursorColumn + width
  IN /\ Next1("c")
     /\ \/ /\ column <= max.Columns
           /\ CursorColumn' = column
           /\ fault' = Touch({CursorRow + 1}, CursorColumn + 1)
           /\ Goto([top EXCEPT !.left = Tail(@), !.pc = IF column = max.Columns THEN "wrap" ELSE "put"])
        \/ /\ column > max.Columns
           /\ CursorColumn' = IF CursorColumn < max.Columns THEN CursorColumn + 2 ELSE CursorColumn
           /\ UNCHANGED fault
           /\ Goto([top EXCEPT !.pc = "wrap"])
     /\ UNCHANGED <<CursorRow, Attribute, ScreenHistory>> /\ PutUnchanged

\* The lock has been released. The recursive call looks up mode and attribute itself;
\* when it has returned, the outer one takes the lock again.
mCrLfString == <<"CR", "LF">>
Wrap ==
  /\ Running("wrap")
  /\ stack' = Append([stack EXCEPT ![Len(stack)] = [top EXCEPT !.pc = "lock"]],
                     Frame("lock", top.level, mCrLfString, Mode, Attribute, 0))
  /\ UNCHANGED <<device, loaded, fault, chosen, interrupted, adrift>>

\* Fault model: the attribute that the string began with is not restored.
StringEnd_KeepAttribute ==
  /\ Running("put") /\ top.left = <<>>
  /\ Return
  /\ UNCHANGED <<Attribute, CursorColumn, CursorRow, ScreenHistory, fault>> /\ PutUnchanged

StringEnd ==
  /\ Running("put") /\ top.left = <<>>
  /\ Attribute' = top.Attribute
  /\ Return
  /\ UNCHANGED <<CursorColumn, CursorRow, ScreenHistory, fault>> /\ PutUnchanged

-----------------------------------------------------------------------------
(* Calls that hold the lock from beginning to end.                         *)

Writing == {"lock", "put", "wrap"}

\* The attribute is set; the end of a string that is being output will write back the one
\* that it began with.
Choose(a) ==
  /\ Attribute' = a
  /\ chosen' = IF \E i \in DOMAIN stack : stack[i].pc \in Writing THEN Unknown ELSE a

SetAttribute(level, a) ==
  /\ Begin(level)
  /\ Choose(a)
  /\ UNCHANGED <<Mode, CursorColumn, CursorRow, ScreenBuffer, ScreenHistory, heap, stack, loaded,
                 fault, adrift>>

\* The cursor is placed.
Place(column, row) ==
  /\ CursorColumn' = column /\ CursorRow' = row
  /\ adrift' = (adrift /\ ~Idle)

\* The rows of the mode that is set are blanked.
ClearRows == fault' = Touch(1..Size(Mode).Rows, Size(Mode).Columns)

\* Fault model: the last row of the old screen is not freed.
ChangeMode_OffByOne(mode) ==
  \/ /\ ~Freeable(FreedBySetMode)
     /\ fault' = "double free"
     /\ UNCHANGED <<Mode, CursorColumn, CursorRow, ScreenBuffer, ScreenHistory, heap, adrift>>
  \/ LET kept == heap \ ToSet(IF Mode = NoMode THEN <<>> ELSE Front(FreedBySetMode))
     IN /\ Freeable(FreedBySetMode)
        /\ \E rows \in NewScreens(Addr \ kept, Size(mode).Rows) :
             /\ ScreenBuffer' = rows
             /\ heap' = kept \cup ToSet(rows)
        /\ ScreenHistory' = <<>>
        /\ Mode' = mode /\ CursorColumn' = 0 /\ CursorRow' = 0 /\ adrift' = ~Idle
        /\ UNCHANGED fault

\* History and screen are destroyed and a new screen is allocated.
ChangeMode(mode) ==
  \/ /\ ~Freeable(FreedBySetMode)
     /\ fault' = "double free"
     /\ UNCHANGED <<Mode, CursorColumn, CursorRow, ScreenBuffer, ScreenHistory, heap, adrift>>
  \/ LET kept == heap \ ToSet(FreedBySetMode)
     IN /\ Freeable(FreedBySetMode)
        /\ \E rows \in NewScreens(Addr \ kept, Size(mode).Rows) :
             /\ ScreenBuffer' = rows
             /\ heap' = kept \cup ToSet(rows)
        /\ ScreenHistory' = <<>>
        /\ Mode' = mode /\ CursorColumn' = 0 /\ CursorRow' = 0 /\ adrift' = ~Idle
        /\ UNCHANGED fault

InMode(mode) ==
  \/ /\ mode = Mode
     /\ ClearRows
     /\ UNCHANGED <<Mode, CursorColumn, CursorRow, ScreenBuffer, ScreenHistory, heap, adrift>>
  \/ /\ mode # Mode
     /\ ChangeMode(mode)

SetMode(level, mode) ==
  /\ Begin(level)
  /\ InMode(mode)
  /\ UNCHANGED <<Attribute, stack, loaded, chosen>>

ClearScreen(level) ==
  /\ Begin(level) /\ Mode # NoMode
  /\ ClearRows
  /\ Place(0, 0)
  /\ UNCHANGED <<Mode, Attribute, ScreenBuffer, ScreenHistory, heap, stack, loaded, chosen>>

\* EFI_UNSUPPORTED outside the screen.
SetCursorPosition(level) ==
  /\ Begin(level) /\ Mode # NoMode
  /\ \E column \in 0..(Size(Mode).Columns - 1), row \in 0..(Size(Mode).Rows - 1) : Place(column, row)
  /\ UNCHANGED <<Mode, Attribute, ScreenBuffer, ScreenHistory, heap, stack, loaded, fault, chosen>>

-----------------------------------------------------------------------------
(* ConOutReset sets mode 0, reads the attribute, and sets it.              *)

\* EFI_TEXT_ATTR (Attribute & 0x0F, EFI_BACKGROUND_BLACK)
OnBlack(a) == a % 16

ConOutReset(level) ==
  /\ Begin(level)
  /\ InMode(0)
  /\ stack' = Append(stack, Frame("reset", level, <<>>, 0, 0, 0))
  /\ UNCHANGED <<Attribute, loaded, chosen>>

ResetReads ==
  /\ Running("reset")
  /\ Goto([top EXCEPT !.pc = "attribute", !.Attribute = OnBlack(Attribute)])
  /\ UNCHANGED <<device, loaded, fault, chosen, interrupted, adrift>>

ResetWrites ==
  /\ Running("attribute")
  /\ Choose(top.Attribute)
  /\ Return
  /\ UNCHANGED <<Mode, CursorColumn, CursorRow, ScreenBuffer, ScreenHistory, heap, loaded, fault,
                 interrupted, adrift>>

-----------------------------------------------------------------------------
(* GetScreen.                                                              *)

\* QueryMode, the length of the history, and the size test, without the lock.  The
\* caller's buffer holds exactly the number of characters that is needed now.
GetScreen(level) ==
  /\ Begin(level) /\ Mode # NoMode
  /\ \/ stack' = Append(stack, Frame("copy", level, <<>>, Mode, 0, 0))
     \/ stack' = Append(stack, Frame("copy all", level, <<>>, Mode, 0, Len(ScreenHistory)))
  /\ UNCHANGED <<device, loaded, fault, chosen, adrift>>

\* Under the lock: copy the history that is there now, and the screen.
GetScreenCopy ==
  /\ Running("copy") \/ Running("copy all")
  /\ fault' = IF top.pc = "copy all" /\ Len(ScreenHistory) > top.HistoryRows THEN "overrun"
              ELSE IF top.pc = "copy all" /\ ~(ToSet(ScreenHistory) \subseteq heap) THEN "freed row"
              ELSE Touch(1..max.Rows, max.Columns)
  /\ Return
  /\ UNCHANGED <<device, loaded, chosen, interrupted, adrift>>

\* VirtualConsoleUnload, output part: free the rows, then the history.
VirtualConsoleUnload ==
  /\ Idle /\ loaded
  /\ loaded' = FALSE
  /\ \/ /\ ~Freeable(FreedBySetMode)
        /\ fault' = "double free"
        /\ UNCHANGED <<ScreenBuffer, ScreenHistory, heap>>
     \/ /\ Freeable(FreedBySetMode)
        /\ heap' = heap \ ToSet(FreedBySetMode)
        /\ ScreenBuffer' = <<>> /\ ScreenHistory' = <<>>
        /\ UNCHANGED fault
  /\ UNCHANGED <<Mode, CursorColumn, CursorRow, Attribute, stack, chosen, interrupted, adrift>>

-----------------------------------------------------------------------------
Put == Backspace \/ Linefeed \/ CarriageReturn \/ WideOrNarrow \/ PutChar

Next ==
  /\ fault = "none"
  /\ \/ \E level \in Tpl :
          \/ \E s \in Strings : OutputString(level, s)
          \/ \E a \in Attributes : SetAttribute(level, a)
          \/ \E mode \in Modes : SetMode(level, mode)
          \/ ClearScreen(level) \/ SetCursorPosition(level)
          \/ ConOutReset(level) \/ GetScreen(level)
     \/ AcquireLock \/ Put \/ Wrap \/ StringEnd
     \/ ResetReads \/ ResetWrites \/ GetScreenCopy
     \/ VirtualConsoleUnload

Spec == Init /\ [][Next]_vars

-----------------------------------------------------------------------------
(* Properties.                                                             *)

\* Unless the mode changes under a call in progress: the cursor is on the screen after each
\* call, whatever was written and by how many writers in the middle of one another's wraps;
\* its row is on the screen at all times.  A store leaves its row only if a writer that comes
\* in between takes a backspace while a wide character waits for its wrap, and a copy leaves
\* the caller's buffer only if somebody wrote after it was sized.
CursorOnScreen ==
  Mode # NoMode /\ ~adrift =>
    /\ CursorRow < Size(Mode).Rows
    /\ Idle => CursorColumn < Size(Mode).Columns
    /\ fault = "out of bounds" => interrupted /\ CursorColumn = Size(Mode).Columns
    /\ fault = "overrun" => interrupted

\* No row buffer leaks and none is used after it is freed, whoever changes the mode and when:
\* each one that is allocated belongs to the screen or to the history.  A row is freed twice
\* only if a row has scrolled off.
RowsAccounted ==
  /\ fault = "none" => heap = ToSet(ScreenBuffer) \cup ToSet(ScreenHistory)
  /\ fault = "double free" => ScreenHistory # <<>>
  /\ fault # "freed row"

\* Between two calls the attribute is the one that SetAttribute or Reset set last, and
\* never a wide one, whatever control characters were written and whoever wrote in the
\* middle of a string: OutputString puts back what it found. Excepted is an attribute that
\* was set in the middle of a string, which the end of that string overwrites.
AttributeRestored ==
  Idle => ~IsWide(Attribute) /\ chosen \in {Attribute, Unknown}

-----------------------------------------------------------------------------
(* What makes the properties above inductive.                              *)

Faults == {"none", "double free", "out of bounds", "freed row", "overrun"}
Frames == [pc : Writing \cup {"reset", "attribute", "copy", "copy all"}, level : Tpl,
           left : Seq(Chars), Mode : Modes, Attribute : 0..255, HistoryRows : Nat]

\* Device and calls have values of their types.
TypeOK ==
  /\ Mode \in Modes \cup {NoMode} /\ CursorColumn \in Nat /\ CursorRow \in Nat
  /\ Attribute \in 0..255 /\ chosen \in -1..255
  /\ ScreenBuffer \in Seq(Addr) /\ ScreenHistory \in Seq(Addr) /\ heap \subseteq Addr
  /\ stack \in Seq(Frames) /\ fault \in Faults
  /\ loaded \in BOOLEAN /\ interrupted \in BOOLEAN /\ adrift \in BOOLEAN

\* The screen has the rows of its mode, each a buffer of its own; calls that are in progress
\* have found a mode.
ScreenInv ==
  fault = "none" =>
    /\ IsInjective(ScreenBuffer)
    /\ Mode # NoMode /\ loaded => Len(ScreenBuffer) = Size(Mode).Rows
    /\ Mode = NoMode => stack = <<>> /\ ScreenBuffer = <<>> /\ ScreenHistory = <<>>
    /\ ~loaded => stack = <<>>

\* A call that will move the cursor to the first column before it ends.
WillReturn(call) ==
  call.pc = "wrap" \/ (call.pc \in {"lock", "put"} /\ call.left # <<>> /\ Head(call.left) = "CR")

\* Unless the mode changes under a call, all calls know the mode, and the cursor is past the
\* edge, by two columns at most, only while somebody will bring it back.
CursorInv ==
  Mode # NoMode /\ ~adrift =>
    /\ fault = "none" => \A i \in DOMAIN stack : stack[i].Mode = Mode
    /\ CursorColumn <= Size(Mode).Columns + 1
    /\ CursorColumn >= Size(Mode).Columns => \E i \in DOMAIN stack : WillReturn(stack[i])

\* Without interruption there is one call, or with it the one that wraps its line.
Wrapping(call) == call.pc \in {"lock", "put"} /\ call.left \in {mCrLfString, <<"LF">>, <<>>}
Counted(call, rows) == call.pc = "copy all" => call.HistoryRows = rows
AloneInv ==
  fault = "none" /\ ~interrupted =>
    /\ Len(stack) <= 2
    /\ Len(stack) = 2 => stack[1].pc = "lock" /\ Wrapping(stack[2])
    /\ Len(stack) = 1 => Counted(stack[1], Len(ScreenHistory))

\* The outermost string in progress has the attribute that was set last, or will overwrite it.
Outermost(i) == stack[i].pc \in Writing /\ \A j \in 1..(i - 1) : stack[j].pc \notin Writing
Restored(a) == ~IsWide(a) /\ chosen \in {a, Unknown}
AttributeInv ==
  /\ (\A i \in DOMAIN stack : stack[i].pc \notin Writing) => Restored(Attribute)
  /\ \A i \in DOMAIN stack : Outermost(i) => Restored(stack[i].Attribute)
  /\ \A i \in DOMAIN stack : stack[i].pc = "attribute" => ~IsWide(stack[i].Attribute)
=============================================================================
