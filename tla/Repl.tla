-------------------------------- MODULE Repl --------------------------------
(***************************************************************************)
(* The interactive prompt (MicroPythonDxe/Uefi/repl.c, and DoRepl of       *)
(* use.c): a line editor with a history ring, continuation lines and a     *)
(* paste mode.  One action per key.                                        *)
(*                                                                         *)
(* A line is a sequence of characters; positions count from 0 as in the    *)
(* code, so character number p of the code is Line[p + 1].  The lengths    *)
(* given to ReplPrint are unsigned differences: a negative one reads far   *)
(* past the buffer and ends the behaviour with fault = "overrun".          *)
(*                                                                         *)
(* The strings of the history are allocated on the collected heap, and     *)
(* only the static array mReplData points to them, which is no root of the *)
(* collector: after a collection an entry may hold anything.               *)
(***************************************************************************)
EXTENDS Integers, Sequences

CONSTANTS Printable,    \* characters with no meaning to the editor
          Completions,  \* what mp_repl_autocomplete may offer as the only match
          Garbage,      \* what memory that was not written, or was freed, may hold
          HistSize,     \* REPL_HIST_SIZE: 64
          MaxLine,      \* bound on the length of a typed line and on the cursor
          NULL

Newline == "\n"
Blank == " "
Char == Printable \cup {Newline, Blank}

ASSUME SizeAssumption == HistSize \in Nat /\ HistSize >= 2 /\ MaxLine \in Nat
ASSUME TextAssumption == /\ Completions \subseteq Seq(Char) /\ Garbage \subseteq Seq(Char)
                         /\ NULL \notin Seq(Char)

VARIABLES Running,         \* DoRepl is active
          Line,            \* mReplData.Line
          OrigLineLength,  \* where the editable part of the line starts
          CursorPos,
          ReplMode,
          History,         \* slot -> line or NULL
          HistoryIndex,    \* the slot that the next line goes to
          HistoryCursor,   \* the slot that is shown
          fault

edit == <<Line, OrigLineLength, CursorPos>>
ring == <<History, HistoryIndex>>
vars == <<Running, edit, ReplMode, ring, HistoryCursor, fault>>

Slot == 0..(HistSize - 1)
Before(i) == (HistSize + i - 1) % HistSize
After(i) == (i + 1) % HistSize

\* Ranges of the variables.
TypeOK ==
  /\ Running \in BOOLEAN
  /\ Line \in Seq(Char)
  /\ OrigLineLength \in Nat /\ CursorPos \in Nat
  /\ ReplMode \in {"normal", "continue", "paste"}
  /\ History \in [Slot -> Seq(Char) \cup {NULL}]
  /\ HistoryIndex \in Slot /\ HistoryCursor \in Slot
  /\ fault \in {"none", "overrun"}

EmptyHistory == [i \in Slot |-> NULL]

Init ==
  /\ Running = FALSE
  /\ Line = <<>> /\ OrigLineLength = 0 /\ CursorPos = 0
  /\ ReplMode = "normal"
  /\ History = EmptyHistory /\ HistoryIndex = 0 /\ HistoryCursor = 0
  /\ fault = "none"

-----------------------------------------------------------------------------
(* The line buffer.                                                        *)

\* vstr_ins_char, vstr_ins_byte: a position behind the end means the end.
Insert(line, pos, text) ==
  LET at == IF pos > Len(line) THEN Len(line) ELSE pos
  IN SubSeq(line, 1, at) \o text \o SubSeq(line, at + 1, Len(line))

\* vstr_cut_out_bytes of one byte.
Cut(line, pos) ==
  IF pos >= Len(line) THEN line
  ELSE SubSeq(line, 1, pos) \o SubSeq(line, pos + 2, Len(line))

White == {Newline, Blank}

\* n is the length that the strip leaves: nothing but white space behind, and none at
\* the end.
ReplLineStrip(line, n) ==
  /\ \A i \in (n + 1)..Len(line) : line[i] \in White
  /\ n > 0 => line[n] \notin White

\* The string at buf + OrigLineLength, with the terminator behind the stripped line.
\* When the strip removed the start of the last line, it begins behind the terminator.
LastLine(line) ==
  {SubSeq(line, OrigLineLength + 1, n) :
     n \in {m \in OrigLineLength..Len(line) : ReplLineStrip(line, m)}}
  \cup
  {SubSeq(line, OrigLineLength + 1, Len(line)) \o rest :
     rest \in {text \in Garbage : \E n \in 0..Len(line) :
                                  n < OrigLineLength /\ ReplLineStrip(line, n)}}

\* Prints `length` characters, an unsigned difference.
ReplPrint(length) == IF length < 0 THEN "overrun" ELSE fault

\* The redraw at the end of the loop, from `cursor` on.
Redraw(line, cursor, forward) ==
  /\ Line' = line
  /\ CursorPos' = cursor + forward
  /\ fault' = ReplPrint(Len(line) - cursor)

\* The cursor moves over unchanged text.
Move(cursor) ==
  /\ CursorPos' = cursor
  /\ UNCHANGED <<Line, fault>>

-----------------------------------------------------------------------------
(* The loop around ReplLoop, and the history.                              *)

\* ReplReset and the start of ReplLoop: an empty line in normal mode.
Prompt(index) ==
  /\ Line' = <<>> /\ OrigLineLength' = 0 /\ CursorPos' = 0
  /\ ReplMode' = "normal"
  /\ HistoryCursor' = index

\* DoRepl: ReplInit, then the first prompt.
DoRepl ==
  /\ ~Running
  /\ Running' = TRUE
  /\ History' = EmptyHistory /\ HistoryIndex' = 0
  /\ Prompt(0)
  /\ UNCHANGED fault

\* What DoRepl does with the line that ReplLoop returned: run it, if there is any code,
\* which may end the loop (SystemExit), and prompt again.
Execute(code, index) ==
  /\ Running' \in BOOLEAN
  /\ ~code => Running'
  /\ Prompt(index)
  /\ UNCHANGED fault

\* Fault model: the slot behind the new line is not cleared.
ReplPushHistory_NoNull(text) ==
  IF text = <<>> \/ History[Before(HistoryIndex)] = text
  THEN UNCHANGED ring
  ELSE /\ HistoryIndex' = After(HistoryIndex)
       /\ History' = [History EXCEPT ![HistoryIndex] = text]

\* What a slot holds after the copy: the text, or its old value when the copy cannot be
\* allocated.
ReplStringDup(text) == {text, History[HistoryIndex]}

\* An empty line, or one that repeats the last one, is not stored.
ReplPushHistory(text) ==
  IF text = <<>> \/ History[Before(HistoryIndex)] = text
  THEN UNCHANGED ring
  ELSE /\ HistoryIndex' = After(HistoryIndex)
       /\ \E copy \in ReplStringDup(text) :
            History' = [History EXCEPT ![HistoryIndex] = copy, ![After(HistoryIndex)] = NULL]

\* A collection, started by the code that ran or by an allocation: the block of a
\* history string is given out again.
gc_collect ==
  /\ Running
  /\ \E i \in Slot, text \in Garbage :
       History[i] # NULL /\ History' = [History EXCEPT ![i] = text]
  /\ UNCHANGED <<Running, edit, ReplMode, HistoryIndex, HistoryCursor, fault>>

-----------------------------------------------------------------------------
(* Keys.                                                                   *)

\* The line is dropped, the cursor and the start of the editable part are not reset.
\* (The first conjunct is the bound on the cursor.)
CtrlE ==
  /\ CursorPos <= MaxLine
  /\ Line' = <<>>
  /\ ReplMode' = "paste"
  /\ UNCHANGED <<Running, OrigLineLength, CursorPos, ring, HistoryCursor, fault>>

\* Submit the line, with its last part as the new entry of the history.
Submit(code, texts) ==
  \E text \in texts : ReplPushHistory(text) /\ Execute(code, HistoryIndex')

\* The strip leaves something.
HasText == \E i \in DOMAIN Line : Line[i] \notin White

\* Leave the prompt, or end the input of a compound statement or of paste mode.
CtrlD ==
  \/ /\ ReplMode = "normal"
     /\ Running' = FALSE
     /\ UNCHANGED <<edit, ReplMode, ring, HistoryCursor, fault>>
  \/ ReplMode = "continue" /\ Submit(HasText, LastLine(Line))
  \/ ReplMode = "paste" /\ UNCHANGED ring /\ Execute(Line # <<>>, HistoryIndex)

\* A new line in the same input.  OrigLineLength moves to the end of the text.
NewLine(mode) ==
  /\ Len(Line) < MaxLine
  /\ Line' = Insert(Line, CursorPos, <<Newline>>)
  /\ CursorPos' = CursorPos + 1
  /\ OrigLineLength' = Len(Line) + 1
  /\ ReplMode' = mode
  /\ UNCHANGED <<Running, ring, HistoryCursor, fault>>

TwoBlankLines ==
  Len(Line) >= 2 /\ Line[Len(Line)] = Newline /\ Line[Len(Line) - 1] = Newline

EnterContinue == IF TwoBlankLines THEN Submit(HasText, LastLine(Line)) ELSE NewLine("continue")

\* mp_repl_continue_with_input decides in normal mode whether more lines follow: never
\* after an empty one.
Enter ==
  \/ ReplMode = "normal" /\ Submit(Line # <<>>, {SubSeq(Line, OrigLineLength + 1, Len(Line))})
  \/ ReplMode = "normal" /\ Line # <<>> /\ EnterContinue
  \/ ReplMode = "continue" /\ EnterContinue
  \/ ReplMode = "paste" /\ NewLine("paste")

\* Behind the end of the line the character before the cursor is not defined.
Backspace ==
  /\ CursorPos > OrigLineLength
  /\ CursorPos <= Len(Line) => Line[CursorPos] # Newline
  /\ Redraw(Cut(Line, CursorPos - 1), CursorPos - 1, 0)
  /\ UNCHANGED <<Running, OrigLineLength, ReplMode, ring, HistoryCursor>>

\* Many matches are printed with the text before the cursor again; a single one is
\* inserted.
Tab ==
  /\ ReplMode # "paste"
  /\ \/ /\ fault' = IF CursorPos <= Len(Line) THEN ReplPrint(CursorPos - OrigLineLength)
                    ELSE "overrun"
        /\ UNCHANGED <<Line, CursorPos>>
     \/ \E text \in Completions :
          /\ Len(Line) + Len(text) <= MaxLine
          /\ Redraw(Insert(Line, CursorPos, text), CursorPos, Len(text))
  /\ UNCHANGED <<Running, OrigLineLength, ReplMode, ring, HistoryCursor>>

Type(c) ==
  /\ Len(Line) < MaxLine
  /\ Redraw(Insert(Line, CursorPos, <<c>>), CursorPos, 1)
  /\ UNCHANGED <<Running, OrigLineLength, ReplMode, ring, HistoryCursor>>

\* Show slot i.  A line that is not empty is cleared first (ReplClear).
Recall(i) ==
  /\ ReplMode = "normal" /\ History[i] # NULL
  /\ LET kept == IF Line = <<>> THEN OrigLineLength ELSE 0
     IN /\ OrigLineLength' = kept
        /\ Line' = SubSeq(Line, 1, kept) \o History[i]
  /\ CursorPos' = Len(Line')
  /\ HistoryCursor' = i
  /\ UNCHANGED <<Running, ReplMode, ring, fault>>

Up == Recall(Before(HistoryCursor))

Down == Recall(After(HistoryCursor))

Right ==
  /\ CursorPos < Len(Line)
  /\ Move(CursorPos + 1)
  /\ UNCHANGED <<Running, OrigLineLength, ReplMode, ring, HistoryCursor>>

Left ==
  /\ CursorPos > OrigLineLength
  /\ Move(CursorPos - 1)
  /\ UNCHANGED <<Running, OrigLineLength, ReplMode, ring, HistoryCursor>>

End ==
  /\ CursorPos < Len(Line)
  /\ Move(Len(Line))
  /\ UNCHANGED <<Running, OrigLineLength, ReplMode, ring, HistoryCursor>>

Home ==
  /\ CursorPos > OrigLineLength
  /\ Move(OrigLineLength)
  /\ UNCHANGED <<Running, OrigLineLength, ReplMode, ring, HistoryCursor>>

\* Fault model: the character before the cursor goes.
Delete_Before ==
  /\ CursorPos < Len(Line) /\ CursorPos > 0
  /\ Redraw(Cut(Line, CursorPos - 1), CursorPos, 0)
  /\ UNCHANGED <<Running, OrigLineLength, ReplMode, ring, HistoryCursor>>

Delete ==
  /\ CursorPos < Len(Line)
  /\ Redraw(Cut(Line, CursorPos), CursorPos, 0)
  /\ UNCHANGED <<Running, OrigLineLength, ReplMode, ring, HistoryCursor>>

\* Fault model: the line is cleared and the cursor stays where it was.
Esc_KeepCursor ==
  \/ ReplMode = "paste" /\ Prompt(HistoryIndex) /\ UNCHANGED <<Running, ring, fault>>
  \/ /\ ReplMode # "paste"
     /\ Line' = <<>> /\ OrigLineLength' = 0
     /\ ReplMode' = "normal"
     /\ UNCHANGED <<Running, CursorPos, ring, HistoryCursor, fault>>

ReplClear == Line' = <<>> /\ OrigLineLength' = 0 /\ CursorPos' = 0

\* Leave paste mode with an empty line, or clear the line.
Esc ==
  \/ ReplMode = "paste" /\ Prompt(HistoryIndex) /\ UNCHANGED <<Running, ring, fault>>
  \/ /\ ReplMode # "paste"
     /\ ReplClear
     /\ ReplMode' = "normal"
     /\ UNCHANGED <<Running, ring, HistoryCursor, fault>>

-----------------------------------------------------------------------------
ReplLoop ==
  /\ Running
  /\ \/ CtrlE \/ CtrlD \/ Enter \/ Backspace \/ Tab \/ Up \/ Down
     \/ Right \/ Left \/ End \/ Home \/ Delete \/ Esc
     \/ \E c \in Printable \cup {Blank} : Type(c)

Next == fault = "none" /\ (DoRepl \/ gc_collect \/ ReplLoop)

Spec == Init /\ [][Next]_vars

-----------------------------------------------------------------------------
(* Properties.                                                             *)

\* repl.c:198, "Make sure there's a NULL history after last one so that we can know
\* where to stop when traversing the history list": the slot behind the newest line
\* is empty, whatever was stored, lost or dropped, and the slot on show is that one
\* or one with a line.
HistoryRing ==
  /\ History[HistoryIndex] = NULL
  /\ HistoryCursor = HistoryIndex \/ History[HistoryCursor] # NULL

\* Outside paste mode the cursor never leaves the text, and a line that is not a
\* continuation is editable from its first character.
CursorInLine ==
  /\ ReplMode # "paste" => CursorPos <= Len(Line)
  /\ ReplMode = "normal" => OrigLineLength = 0

\* The lengths that the redraw and the completion list compute from the cursor are
\* negative in two cases only: in paste mode, which keeps the cursor of the line it
\* dropped, and after Enter in the middle of a line, which leaves the cursor before
\* the start of the editable part.
OverrunsExplained ==
  fault = "overrun" => \/ ReplMode = "paste"
                       \/ ReplMode = "continue" /\ CursorPos < OrigLineLength

\* As long as the cursor is in the last line of a compound statement, no key changes
\* the lines before it.
EarlierLinesFixed ==
  [][ReplMode = "continue" /\ ReplMode' = "continue" /\ CursorPos >= OrigLineLength
       => SubSeq(Line', 1, OrigLineLength) = SubSeq(Line, 1, OrigLineLength)]_vars
=============================================================================
