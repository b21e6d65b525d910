------------------------------ MODULE Display ------------------------------
(***************************************************************************)
(* The display of a script that uses LVGL: the list of invalidated areas   *)
(* and the refresh of lv_refr.c, which draws them part by part into one    *)
(* buffer, composed with the efidirect driver of EfiMonitor.c, which       *)
(* copies each part to every monitor (every handle with a Graphics Output  *)
(* Protocol), and with the life cycle of both: the library's lists live in *)
(* the heap of a script, its flag lv_initialized and the driver's record   *)
(* tPrivate outlive the script in the resident driver.                     *)
(*                                                                         *)
(* Pictures are abstracted to one pixel, spot, chosen once: owed is the    *)
(* set of monitors that do not show the pixel's present content. As spot   *)
(* is arbitrary, what holds for it holds for every pixel. There is one     *)
(* display, and ASSERTs are compiled out.                                  *)
(***************************************************************************)
EXTENDS Integers, Sequences, FiniteSets

CONSTANTS Width, Height,  \* hor_res and ver_res
          BufSize,        \* pixels of the draw buffer
          InvBufSize,     \* LV_INV_BUF_SIZE
          Areas,          \* areas that scripts invalidate
          DrawAreas,      \* areas that drawing callbacks invalidate
          Monitors, Res   \* the monitors and the resolution of each

ASSUME SizeAssumption == Width \in Nat \ {0} /\ Height \in Nat \ {0}
ASSUME BufAssumption == BufSize \in Nat /\ BufSize >= Width
ASSUME InvAssumption == InvBufSize \in Nat \ {0}
ASSUME AreasAssumption == Areas \cup DrawAreas \subseteq [x1 : Int, x2 : Int, y1 : Int, y2 : Int]
ASSUME MonitorAssumption == Res \in [Monitors -> [w : Nat, h : Nat]]

VARIABLES
  inv, joined,   \* inv_areas up to inv_p, and the indices with inv_area_joined set
  refr_on,       \* the priority of refr_task is not LV_TASK_PRIO_OFF
  act_scr,       \* the display has an active screen
  disp,          \* a display is registered
  lv_initialized, roots, tPrivate,
  flushing,      \* of the draw buffer
  pc, i, from, todo,             \* where _lv_disp_refr_task is
  area, row, y2, max_row, part,  \* in lv_refr_area: what area_p points to, the rows
  gops,          \* monitors plugged in
  handler,       \* lv_task_handler: already_running is set in "refreshing" and "raised"
  spot, owed, held,  \* the pixel, the monitors that lack it, whether the buffer has it
  late, spilled, grown, raised, torn, blind, slips,  \* history, see below
  fault          \* memory that is freed or not there was used

list == <<inv, joined, refr_on, act_scr>>
life == <<disp, lv_initialized, roots, tPrivate, slips, fault>>
loop == <<i, from, area, row, y2, max_row, part, todo>>
pixel == <<owed, held, late>>
marks == <<spilled, grown, raised, torn>>
vars == <<list, life, loop, pixel, marks, flushing, blind, pc, handler, gops, spot>>

(* History. What drawing callbacks did: late, a change they made or that    *)
(* an overflow of the list met may be lost; spilled, the list overflowed in *)
(* this refresh; grown, the area being drawn was overwritten by it; raised, *)
(* one raised an exception and no refresh was completed since; torn, the    *)
(* list was then replaced while flags of joined areas were left in it.      *)
(* blind: a flush found no monitor. slips: what scripts or the machine did  *)
(* that library and driver do not guard against.                            *)
Slips == {"no_monitor", "no_driver", "no_init", "no_deinit"}

Min2(a, b) == IF a < b THEN a ELSE b
Max2(a, b) == IF a > b THEN a ELSE b

Screen == [x1 |-> 0, x2 |-> Width - 1, y1 |-> 0, y2 |-> Height - 1]
OnScreen == [x1 : 0 .. Width - 1, x2 : 0 .. Width - 1, y1 : 0 .. Height - 1, y2 : 0 .. Height - 1]
Wide(a) == a.x2 - a.x1 + 1
High(a) == a.y2 - a.y1 + 1
Size(a) == Wide(a) * High(a)
\* Fault model: the area is not cut to the screen.
IntersectNot(a, b) == a
Intersect(a, b) == [x1 |-> Max2(a.x1, b.x1), x2 |-> Min2(a.x2, b.x2),
                    y1 |-> Max2(a.y1, b.y1), y2 |-> Min2(a.y2, b.y2)]
Empty(a) == a.x1 > a.x2 \/ a.y1 > a.y2
IsOn(a, b) == a.x1 <= b.x2 /\ a.x2 >= b.x1 /\ a.y1 <= b.y2 /\ a.y2 >= b.y1
IsIn(a, b) == a.x1 >= b.x1 /\ a.y1 >= b.y1 /\ a.x2 <= b.x2 /\ a.y2 <= b.y2
Join(a, b) == [x1 |-> Min2(a.x1, b.x1), x2 |-> Max2(a.x2, b.x2),
               y1 |-> Min2(a.y1, b.y1), y2 |-> Max2(a.y2, b.y2)]
Has(a, p) == p[1] \in a.x1 .. a.x2 /\ p[2] \in a.y1 .. a.y2

\* Every variable has a value of its C counterpart's range; at most InvBufSize
\* areas are listed, all of them on the screen and not empty.
TypeOK ==
  /\ inv \in Seq(OnScreen) /\ Len(inv) <= InvBufSize
  /\ \A k \in 1 .. Len(inv) : ~Empty(inv[k])
  /\ joined \subseteq 1 .. InvBufSize
  /\ refr_on \in BOOLEAN /\ act_scr \in BOOLEAN /\ disp \in BOOLEAN
  /\ lv_initialized \in BOOLEAN /\ roots \in {"none", "live", "dangling"}
  /\ tPrivate \in {"null", "live", "freed"} /\ slips \subseteq Slips
  /\ fault \in {"none", "null_record", "freed_record", "lists"}
  /\ handler \in {"idle", "refreshing", "raised"} /\ blind \in BOOLEAN
  /\ flushing \in BOOLEAN /\ pc \in {"script", "join", "areas", "part", "drawing", "blt"}
  /\ i \in 1 .. InvBufSize + 1 /\ from \in 1 .. InvBufSize
  /\ row \in 0 .. 2 * Height /\ y2 \in 0 .. Height - 1 /\ max_row \in 1 .. Height
  /\ area \in OnScreen /\ part \in OnScreen /\ todo \subseteq Monitors /\ gops \subseteq Monitors
  /\ spot \in (0 .. Width - 1) \X (0 .. Height - 1)
  /\ owed \subseteq Monitors /\ held \in BOOLEAN /\ late \in BOOLEAN
  /\ spilled \in BOOLEAN /\ grown \in BOOLEAN /\ raised \in BOOLEAN /\ torn \in BOOLEAN

Init ==
  /\ inv = <<>> /\ joined = {} /\ refr_on = FALSE /\ act_scr = FALSE
  /\ disp = FALSE /\ lv_initialized = FALSE /\ roots = "none" /\ tPrivate = "null"
  /\ slips = {} /\ fault = "none" /\ flushing = FALSE /\ blind = FALSE
  /\ pc = "script" /\ handler = "idle"
  /\ i = 1 /\ from = 1 /\ row = 0 /\ y2 = 0 /\ max_row = 1 /\ area = Screen /\ part = Screen /\ todo = {}
  /\ gops \in SUBSET Monitors
  /\ spot \in (0 .. Width - 1) \X (0 .. Height - 1)
  /\ owed = {} /\ held = FALSE /\ late = FALSE
  /\ spilled = FALSE /\ grown = FALSE /\ raised = FALSE /\ torn = FALSE

-----------------------------------------------------------------------------
(* The life cycle.                                                          *)

\* Without a monitor the record is freed again and the pointer kept.
monitor_init ==
  /\ pc = "script"
  /\ tPrivate' = IF tPrivate # "null" THEN tPrivate ELSE IF gops = {} THEN "freed" ELSE "live"
  /\ slips' = IF tPrivate # "null" THEN slips
              ELSE (slips \ {"no_driver"}) \cup (IF gops = {} THEN {"no_monitor"} ELSE {})
  /\ UNCHANGED <<list, disp, lv_initialized, roots, fault, loop, pixel, marks, flushing, blind, pc, handler, gops, spot>>

\* Fault model: the pointer to the freed record is kept.
DeinitKeepsPointer ==
  /\ pc = "script"
  /\ tPrivate' = IF tPrivate = "null" THEN "null" ELSE "freed"
  /\ fault' = IF tPrivate = "freed" THEN "freed_record" ELSE fault
  /\ slips' = IF disp THEN slips \cup {"no_driver"} ELSE slips
  /\ UNCHANGED <<list, disp, lv_initialized, roots, loop, pixel, marks, flushing, blind, pc, handler, gops, spot>>

\* ed.deinit(), also of a driver that a display uses, and of one that was not initialised:
\* FreePool(NULL) returns an error that is dropped.
monitor_deinit ==
  /\ pc = "script"
  /\ tPrivate' = "null"
  /\ fault' = IF tPrivate = "freed" THEN "freed_record" ELSE fault
  /\ slips' = IF disp THEN slips \cup {"no_driver"} ELSE slips
  /\ UNCHANGED <<list, disp, lv_initialized, roots, loop, pixel, marks, flushing, blind, pc, handler, gops, spot>>

lv_init ==
  /\ pc = "script" /\ ~lv_initialized
  /\ lv_initialized' = TRUE /\ roots' = "live"
  /\ UNCHANGED <<list, disp, tPrivate, slips, fault, loop, pixel, marks, flushing, blind, pc, handler, gops, spot>>

\* What is left of the display when its lists are gone.
NoDisplay ==
  /\ disp' = FALSE /\ inv' = <<>> /\ joined' = {} /\ refr_on' = FALSE /\ act_scr' = FALSE
  /\ owed' = {} /\ held' = FALSE /\ late' = FALSE /\ flushing' = FALSE /\ blind' = FALSE
  /\ spilled' = FALSE /\ grown' = FALSE /\ raised' = FALSE /\ torn' = FALSE

lv_deinit ==
  /\ pc = "script"
  /\ NoDisplay /\ lv_initialized' = FALSE /\ roots' = "none"
  /\ slips' = slips \ {"no_driver", "no_deinit"}
  /\ UNCHANGED <<tPrivate, fault, loop, pc, handler, gops, spot>>

\* A script ends, its heap is freed, and the next script starts. Nothing makes a script
\* call lv.deinit() before: the heads of the library's lists, its flag, the driver's
\* record and already_running stay as they are.
NewScript ==
  /\ pc = "script"
  /\ NoDisplay /\ roots' = IF roots = "live" THEN "dangling" ELSE roots
  /\ slips' = (slips \ {"no_driver"}) \cup (IF roots = "live" THEN {"no_deinit"} ELSE {})
  /\ UNCHANGED <<tPrivate, fault, lv_initialized, loop, pc, handler, gops, spot>>

\* Neither library nor driver need be initialised.
lv_disp_drv_register ==
  /\ pc = "script" /\ ~disp
  /\ fault' = IF roots = "live" THEN fault ELSE "lists"
  /\ slips' = slips \cup (IF tPrivate = "null" THEN {"no_driver"} ELSE {})
                    \cup (IF lv_initialized THEN {} ELSE {"no_init"})
  /\ disp' = TRUE /\ act_scr' = TRUE /\ inv' = <<Screen>> /\ refr_on' = TRUE
  /\ owed' = gops /\ late' = FALSE
  /\ UNCHANGED <<joined, lv_initialized, roots, tPrivate, loop, held, marks, flushing, blind, pc, handler, gops, spot>>

\* lv.task_handler() of a script that follows one whose heap held the tasks.
HandlerWalksFreed ==
  /\ pc = "script" /\ handler = "idle" /\ roots = "dangling"
  /\ fault' = "lists"
  /\ UNCHANGED <<list, disp, lv_initialized, roots, tPrivate, slips, loop, pixel, marks, flushing, blind, pc, handler, gops, spot>>

Plug(g) ==
  /\ g \notin gops /\ gops' = gops \cup {g}
  /\ UNCHANGED <<list, life, loop, pixel, marks, flushing, blind, pc, handler, spot>>

Unplug(g) ==
  /\ g \in gops /\ gops' = gops \ {g} /\ owed' = owed \ {g}
  /\ UNCHANGED <<list, life, loop, held, late, marks, flushing, blind, pc, handler, spot>>

-----------------------------------------------------------------------------
(* Invalidation.                                                            *)

Listed(c) == \E k \in 1 .. Len(inv) : IsIn(c, inv[k])

\* Fault model: a full list takes no more areas.
InvAreaDrops(a) ==
  LET c == Intersect(a, Screen)
  IN IF Empty(c) \/ Listed(c) \/ Len(inv) = InvBufSize
     THEN UNCHANGED <<inv, refr_on>>
     ELSE inv' = Append(inv, c) /\ refr_on' = TRUE

lv_inv_area(a) ==
  LET c == Intersect(a, Screen)
  IN IF Empty(c) \/ Listed(c)
     THEN UNCHANGED <<inv, refr_on>>
     ELSE /\ inv' = IF Len(inv) < InvBufSize THEN Append(inv, c) ELSE <<Screen>>
          /\ refr_on' = TRUE

\* A new content of area a: the monitors lack it until it is copied to them.
Repaint(a) == owed' = IF Has(a, spot) /\ act_scr' THEN gops ELSE owed

\* The list is full and area a is new.
Overflows(a) ==
  LET c == Intersect(a, Screen)
  IN ~Empty(c) /\ ~Listed(c) /\ Len(inv) = InvBufSize

\* The script invalidates; after an exception in a refresh, flags of joined areas may be
\* left, and an overflow gives them to the screen.
ScriptInvalidates(a) ==
  /\ pc = "script" /\ disp
  /\ lv_inv_area(a)
  /\ torn' = (torn \/ (Overflows(a) /\ joined # {}))
  /\ UNCHANGED <<joined, life, loop, held, spilled, grown, raised, flushing, blind, pc, handler, gops, spot>>

\* The script changes an object.
Invalidate(a) ==
  /\ ScriptInvalidates(a) /\ act_scr' = act_scr /\ Repaint(a)
  /\ late' = (late /\ ~Has(a, spot))

lv_disp_load_scr ==
  /\ ScriptInvalidates(Screen) /\ act_scr' = TRUE /\ Repaint(Screen) /\ late' = FALSE

\* lv_obj_del of the active screen: until another one is loaded there is
\* nothing to show.
DeleteScreen ==
  /\ act_scr /\ ScriptInvalidates(Screen) /\ act_scr' = FALSE /\ owed' = {} /\ late' = FALSE

-----------------------------------------------------------------------------
(* The refresh.                                                             *)

\* The first lines of _lv_disp_refr_task. Without a screen the list is emptied,
\* and flags of joined areas are not.
StartRefresh ==
  /\ pc = "script" /\ disp
  /\ refr_on' = FALSE /\ i' = 1 /\ from' = 1
  /\ inv' = IF act_scr THEN inv ELSE <<>>
  /\ raised' = IF act_scr THEN raised ELSE joined # {}
  /\ torn' = IF act_scr THEN torn ELSE joined # {}
  /\ pc' = IF act_scr /\ inv # <<>> THEN "join" ELSE "script"
  /\ UNCHANGED <<joined, act_scr, life, area, row, y2, max_row, part, todo, pixel, spilled, grown, flushing, blind, gops, spot>>

\* lv.refr_now() calls it directly.
lv_refr_now == StartRefresh /\ handler' = handler

\* lv_task_handler runs the refresh task when its priority is not off.
RefreshTask ==
  /\ fault = "none" /\ refr_on /\ handler = "idle" /\ StartRefresh
  /\ handler' = IF pc' = "join" THEN "refreshing" ELSE "idle"

\* A callback of another task raises an exception out of lv_task_handler, which leaves
\* already_running set.
OtherTaskRaises ==
  /\ pc = "script" /\ disp /\ handler = "idle"
  /\ handler' = "raised"
  /\ UNCHANGED <<list, life, loop, pixel, marks, flushing, blind, pc, gops, spot>>

\* lv_refr_join_area: one round of the double loop over join_in, i here, and
\* join_from. Two areas that overlap become one when that is less to draw.
Joinable(a, b) ==
  /\ a # b /\ a \notin joined /\ b \notin joined /\ IsOn(inv[a], inv[b])
  /\ Size(Join(inv[a], inv[b])) < Size(inv[a]) + Size(inv[b])

lv_refr_join_area ==
  /\ pc = "join"
  /\ IF Joinable(i, from)
     THEN inv' = [inv EXCEPT ![i] = Join(inv[i], inv[from])] /\ joined' = joined \cup {from}
     ELSE UNCHANGED <<inv, joined>>
  /\ from' = IF from < Len(inv) THEN from + 1 ELSE 1
  /\ i' = IF from < Len(inv) THEN i ELSE IF i < Len(inv) THEN i + 1 ELSE 1
  /\ pc' = IF from = Len(inv) /\ i = Len(inv) THEN "areas" ELSE "join"
  /\ UNCHANGED <<refr_on, act_scr, life, area, row, y2, max_row, part, todo, pixel, marks, flushing, blind, handler, gops, spot>>

SkipJoined ==
  /\ pc = "areas" /\ i <= Len(inv) /\ i \in joined
  /\ i' = i + 1
  /\ UNCHANGED <<list, life, from, area, row, y2, max_row, part, todo, pixel, marks, flushing, blind, pc, handler, gops, spot>>

\* Fault model: the number of rows is rounded up.
RefrAreaRoundsUp ==
  /\ pc = "areas" /\ i <= Len(inv) /\ i \notin joined
  /\ max_row' = Min2((BufSize + Wide(inv[i]) - 1) \div Wide(inv[i]) + 1, High(inv[i]))
  /\ area' = inv[i] /\ row' = inv[i].y1 /\ y2' = inv[i].y2 /\ pc' = "part"
  /\ UNCHANGED <<list, life, i, from, part, todo, pixel, marks, flushing, blind, handler, gops, spot>>

\* lv_refr_area: the rows that fit into the buffer.
lv_refr_area ==
  /\ pc = "areas" /\ i <= Len(inv) /\ i \notin joined
  /\ max_row' = Min2(BufSize \div Wide(inv[i]), High(inv[i]))
  /\ area' = inv[i] /\ row' = inv[i].y1 /\ y2' = inv[i].y2 /\ pc' = "part"
  /\ UNCHANGED <<list, life, i, from, part, todo, pixel, marks, flushing, blind, handler, gops, spot>>

NextRow == row' = row + max_row

\* The local variables of lv_refr_area are gone when it is left.
LeaveArea ==
  /\ area' = Screen /\ row' = 0 /\ y2' = 0 /\ max_row' = 1 /\ part' = Screen
  /\ held' = FALSE /\ grown' = FALSE

\* The next part; the columns are read again through area_p. With one buffer,
\* lv_refr_area_part first waits until the previous part is flushed.
lv_refr_area_part ==
  /\ pc = "part" /\ row <= y2 /\ ~flushing
  /\ part' = [x1 |-> area.x1, x2 |-> area.x2, y1 |-> row, y2 |-> Min2(row + max_row - 1, y2)]
  /\ held' = Has(part', spot) /\ pc' = "drawing"
  /\ UNCHANGED <<list, life, i, from, area, row, y2, max_row, todo, owed, late, marks, flushing, blind, handler, gops, spot>>

\* A callback that draws an object changes something. When the changed object
\* was drawn already, the buffer does not have its new content.
DrawInvalidates(a) ==
  LET c == Intersect(a, Screen)
      spills == Overflows(a)
      later == \/ \E k \in i + 1 .. Len(inv) : k \notin joined /\ IsIn(c, inv[k])
               \/ IsIn(c, area) /\ spot[2] \in row + max_row .. y2
  IN /\ pc = "drawing" /\ lv_inv_area(a) /\ act_scr' = act_scr /\ Repaint(a)
     /\ held' \in IF Has(a, spot) THEN {FALSE, held} ELSE {held}
     /\ spilled' = (spilled \/ spills) /\ grown' = (grown \/ (spills /\ i = 1))
     /\ late' = (late \/ (Has(a, spot) /\ Listed(c) /\ ~later) \/ (spills /\ owed' # {}))
     /\ area' = IF spills /\ i = 1 THEN Screen ELSE area
     /\ UNCHANGED <<joined, life, i, from, row, y2, max_row, part, todo, raised, torn, flushing, blind, pc, handler, gops, spot>>

\* Fault model: the list is emptied although its areas are not drawn.
RaiseEmpties ==
  /\ pc = "drawing" /\ pc' = "script"
  /\ inv' = <<>> /\ joined' = {}
  /\ handler' = IF handler = "refreshing" THEN "raised" ELSE handler
  /\ raised' = TRUE /\ torn' = (torn \/ (spilled /\ joined # {})) /\ spilled' = FALSE
  /\ i' = 1 /\ LeaveArea
  /\ UNCHANGED <<refr_on, act_scr, life, from, todo, owed, late, flushing, blind, gops, spot>>

\* A callback that draws an object is a Python function that raises an exception: the jump
\* to the script's handler leaves the refresh where it is, with the list as it is and the
\* refresh task off, and lv_task_handler with already_running set.
DrawRaises ==
  /\ pc = "drawing" /\ pc' = "script"
  /\ handler' = IF handler = "refreshing" THEN "raised" ELSE handler
  /\ raised' = TRUE /\ torn' = (torn \/ (spilled /\ joined # {})) /\ spilled' = FALSE
  /\ i' = 1 /\ LeaveArea
  /\ UNCHANGED <<list, life, from, todo, owed, late, flushing, blind, gops, spot>>

\* lv_refr_vdb_flush and monitor_flush up to its loop over the handles. It reads
\* a field of the driver's record first.
lv_refr_vdb_flush ==
  /\ pc = "drawing"
  /\ fault' = IF tPrivate = "null" THEN "null_record"
              ELSE IF tPrivate = "freed" THEN "freed_record" ELSE fault
  /\ flushing' = TRUE
  /\ IF gops = {}
     THEN NextRow /\ pc' = "part" /\ todo' = todo /\ blind' = TRUE
     ELSE todo' = gops /\ pc' = "blt" /\ row' = row /\ blind' = blind
  /\ UNCHANGED <<list, disp, lv_initialized, roots, tPrivate, slips, i, from, area, y2, max_row, part, pixel, marks, handler, gops, spot>>

\* Fault model: the loop ends at a handle that is gone.
BltBreaks(g) ==
  /\ pc = "blt" /\ g \in todo
  /\ todo' = IF g \in gops THEN todo \ {g} ELSE {}
  /\ owed' = IF g \in gops /\ held /\ part.x2 < Res[g].w /\ part.y2 < Res[g].h
             THEN owed \ {g} ELSE owed
  /\ late' = (late /\ owed' # {})
  /\ UNCHANGED <<list, life, i, from, area, row, y2, max_row, part, held, marks, flushing, blind, pc, handler, gops, spot>>

\* A block that is not wholly inside a monitor's mode is rejected; the driver
\* ignores the status. A handle that is gone by now is skipped.
Blt(g) ==
  /\ pc = "blt" /\ g \in todo
  /\ todo' = todo \ {g}
  /\ owed' = IF g \in gops /\ held /\ part.x2 < Res[g].w /\ part.y2 < Res[g].h
             THEN owed \ {g} ELSE owed
  /\ late' = (late /\ owed' # {})
  /\ UNCHANGED <<list, life, i, from, area, row, y2, max_row, part, held, marks, flushing, blind, pc, handler, gops, spot>>

\* Fault model: LVGL is not told.
FlushNeverReady ==
  /\ pc = "blt" /\ todo = {}
  /\ held' = FALSE /\ NextRow /\ pc' = "part"
  /\ UNCHANGED <<list, life, i, from, area, y2, max_row, part, todo, owed, late, marks, flushing, blind, handler, gops, spot>>

lv_disp_flush_ready ==
  /\ pc = "blt" /\ todo = {}
  /\ flushing' = FALSE /\ held' = FALSE /\ NextRow /\ pc' = "part"
  /\ UNCHANGED <<list, life, i, from, area, y2, max_row, part, todo, owed, late, marks, blind, handler, gops, spot>>

AreaDone ==
  /\ pc = "part" /\ row > y2
  /\ i' = i + 1 /\ pc' = "areas" /\ LeaveArea
  /\ UNCHANGED <<list, life, from, todo, owed, late, spilled, raised, torn, flushing, blind, handler, gops, spot>>

\* The end of lv_refr_areas, the clean up of _lv_disp_refr_task and the end of the pass.
\* With flags that were not its own, areas may have been left out.
RefreshDone ==
  /\ pc = "areas" /\ i > Len(inv)
  /\ inv' = <<>> /\ joined' = {} /\ pc' = "script" /\ i' = 1
  /\ handler' = IF handler = "refreshing" THEN "idle" ELSE handler
  /\ late' = (late \/ (torn /\ owed # {}))
  /\ spilled' = FALSE /\ raised' = FALSE /\ torn' = FALSE
  /\ UNCHANGED <<refr_on, act_scr, life, from, area, row, y2, max_row, part, todo, owed, held, grown, flushing, blind, gops, spot>>

-----------------------------------------------------------------------------
Script == \/ monitor_init \/ monitor_deinit \/ lv_init \/ lv_deinit \/ NewScript
          \/ lv_disp_drv_register \/ HandlerWalksFreed \/ lv_disp_load_scr \/ DeleteScreen
          \/ lv_refr_now \/ RefreshTask \/ OtherTaskRaises
          \/ \E a \in Areas : Invalidate(a)
Refresh == /\ fault = "none"
           /\ \/ lv_refr_join_area \/ SkipJoined \/ lv_refr_area \/ lv_refr_area_part
              \/ lv_refr_vdb_flush \/ lv_disp_flush_ready \/ AreaDone \/ RefreshDone
              \/ \E g \in Monitors : Blt(g)
\* Nothing is said of what happens after a fault.
Next == /\ fault = "none"
        /\ \/ Script \/ Refresh \/ DrawRaises
           \/ \E a \in DrawAreas : DrawInvalidates(a)
           \/ \E g \in Monitors : Plug(g) \/ Unplug(g)

Spec == Init /\ [][Next]_vars
\* A refresh that has begun runs on: nothing else has the processor.
FairSpec == Spec /\ WF_vars(Refresh)

-----------------------------------------------------------------------------
\* spot is still to be drawn by the refresh that is going on: in an area that
\* is not reached yet, in a later part of this one, or in this part.
StillDrawn(g) ==
  \/ pc = "join" /\ \E k \in 1 .. Len(inv) : k \notin joined /\ Has(inv[k], spot)
  \/ \E k \in i + 1 .. Len(inv) : k \notin joined /\ Has(inv[k], spot)
  \/ pc = "areas" /\ i <= Len(inv) /\ i \notin joined /\ Has(inv[i], spot)
  \/ pc = "part" /\ spot[1] \in area.x1 .. area.x2 /\ spot[2] \in row .. y2
  \/ pc \in {"drawing", "blt"} /\ spot[1] \in area.x1 .. area.x2
       /\ spot[2] \in row + max_row .. y2
  \/ pc = "drawing" /\ held
  \/ pc = "blt" /\ held /\ g \in todo

\* A monitor that shows the whole screen.
Shows(g) == Res[g].w >= Width /\ Res[g].h >= Height

\* A changed pixel is never forgotten: as long as a monitor does not show it, it is in a
\* listed area that the next refresh draws, and the refresh task is scheduled, or the
\* refresh going on has it still before it. When a drawing callback raised an exception the
\* pixel stays listed but the task may be off. The code does lose a change that a drawing
\* callback makes inside an area the refresh has reached, one that meets an overflow of the
\* list while it is drawn (late), and those of a list that was replaced while it had flags
\* of the areas that an exception left behind (torn).
NothingForgotten ==
  \A g \in owed : (Shows(g) /\ ~late /\ ~torn) =>
    IF pc = "script"
    THEN (refr_on \/ raised) /\ \E k \in 1 .. Len(inv) \ joined : Has(inv[k], spot)
    ELSE StillDrawn(g)

\* A part never exceeds the draw buffer, although its height was computed
\* before callbacks could change the list: excepted is the list overflowing
\* in the middle of the first area, which is then the whole screen.
PartFitsBuffer == pc \in {"drawing", "blt"} /\ ~grown => Size(part) <= BufSize

\* Memory that is freed or not there is used for four reasons only: the driver's record
\* because an ed.init() met no monitor, or because a display is registered without
\* ed.init() or outlives ed.deinit(); the library's lists because a display is registered
\* before lv.init(), or an earlier script ended without lv.deinit() and none was called since.
FaultsExplained ==
  /\ fault = "freed_record" => "no_monitor" \in slips
  /\ fault = "null_record" => "no_driver" \in slips
  /\ fault = "lists" => slips \cap {"no_init", "no_deinit"} # {}

\* A refresh comes to its end, whatever its callbacks invalidate and whichever monitors
\* come and go, unless a flush found no monitor at all: LVGL is then never told that the
\* part was flushed, and the next one waits for ever.
RefreshEnds == (pc # "script") ~> (pc = "script" \/ blind \/ fault # "none")

\* What changed is shown in the end on every monitor that stays and is large enough,
\* provided that the script's calls of lv.task_handler() do get to the refresh task: a
\* callback before it that creates or deletes a task ends the pass, and one that does so in
\* every pass can keep it from ever running. Excepted are the losses that NothingForgotten
\* excepts, a callback that raised (the refresh task is off or already_running set for
\* ever), and a flush without a monitor.
Shown ==
  WF_vars(RefreshTask) =>
    \A g \in Monitors : (g \in owed /\ Shows(g)) ~>
       (g \notin owed \/ late \/ raised \/ handler = "raised" \/ blind \/ fault # "none")

-----------------------------------------------------------------------------
(* What makes the invariants above inductive.                               *)

InArea == pc \in {"part", "drawing", "blt"}

\* Indices stay in the list, also when callbacks add to it or it overflows: from then
\* on it is the whole screen, which every further area is in. Flags of joined areas outlive
\* a refresh only by an exception.
ListInv ==
  /\ torn => raised
  /\ ~disp => ~raised /\ pc = "script"
  /\ pc = "script" => ~spilled /\ (raised \/ (joined = {} /\ (inv # <<>> => refr_on)))
  /\ pc = "join" => i \in 1 .. Len(inv) /\ from \in 1 .. Len(inv) /\ ~spilled
  /\ InArea => i <= InvBufSize
  /\ spilled => inv # <<>> /\ inv[1] = Screen
  /\ InArea /\ ~spilled => i <= Len(inv)
  /\ ~spilled /\ ~torn => joined \subseteq 1 .. Len(inv)

\* An area that was joined into another one is in an area that will be drawn.
JoinInv ==
  ~spilled /\ ~torn =>
    \A k \in joined : \E j \in 1 .. Len(inv) \ joined : IsIn(inv[k], inv[j])

\* The rows computed for an area fit the buffer as long as the area is the same.
LoopInv ==
  /\ InArea => area.x1 <= area.x2 /\ (grown \/ max_row * Wide(area) <= BufSize)
  /\ pc \in {"drawing", "blt"} => row <= y2

\* Unless the list overflows, the area being drawn is the listed one, and what the
\* buffer holds is of it.
AreaInv ==
  InArea /\ ~spilled =>
    /\ area = inv[i] /\ i \notin joined /\ row >= area.y1 /\ y2 = area.y2
    /\ pc = "drawing" /\ held => Has(area, spot)

\* What library and driver lack, and why.
LifeInv ==
  /\ tPrivate = "freed" => "no_monitor" \in slips
  /\ disp /\ tPrivate = "null" => "no_driver" \in slips
  /\ roots = "dangling" => "no_deinit" \in slips
  /\ roots = "none" => ~lv_initialized
  /\ pc # "script" => disp

\* Only monitors that are plugged in lack the pixel, and none when no screen is shown.
OwedInv == owed \subseteq gops /\ (~act_scr => owed = {})
=============================================================================
