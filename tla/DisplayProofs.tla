--------------------------- MODULE DisplayProofs ---------------------------
(***************************************************************************)
(* Proofs about Display, for screens, buffers and lists of any size, any   *)
(* areas that scripts and drawing callbacks invalidate, and any monitors.  *)
(***************************************************************************)
EXTENDS Display, SequenceTheorems, TLAPS

Box == [x1 : Int, x2 : Int, y1 : Int, y2 : Int]

-----------------------------------------------------------------------------
(* Areas.                                                                   *)

\* The whole screen is an area on the screen.
LEMMA ScreenOn == Screen \in OnScreen /\ Screen \in Box /\ ~Empty(Screen)
BY SizeAssumption DEF Screen, OnScreen, Box, Empty

\* What _lv_inv_area cuts to the screen is on it, unless nothing is left (lv_refr.c:118-126).
LEMMA CutOn ==
  ASSUME NEW a \in Box, ~Empty(Intersect(a, Screen))
  PROVE  Intersect(a, Screen) \in OnScreen
BY SizeAssumption DEF Box, Empty, Intersect, Screen, OnScreen, Max2, Min2

\* The join of two areas is on the screen and has the pixels of both.
LEMMA JoinOn ==
  ASSUME NEW a \in OnScreen, NEW b \in OnScreen, ~Empty(a), ~Empty(b)
  PROVE  /\ Join(a, b) \in OnScreen /\ ~Empty(Join(a, b))
         /\ \A p \in (0 .. Width - 1) \X (0 .. Height - 1) :
              Has(a, p) \/ Has(b, p) => Has(Join(a, b), p)
<1> USE SizeAssumption DEF OnScreen, Empty, Join, Max2, Min2
<1>1. Join(a, b) \in OnScreen /\ ~Empty(Join(a, b))
  OBVIOUS
<1>2. ASSUME NEW p \in (0 .. Width - 1) \X (0 .. Height - 1), Has(a, p) \/ Has(b, p)
      PROVE  Has(Join(a, b), p)
  BY <1>2 DEF Has
<1> QED BY <1>1, <1>2

\* The extent of an area on the screen.
LEMMA Extent ==
  ASSUME NEW a \in OnScreen, ~Empty(a)
  PROVE  Wide(a) \in 1 .. Width /\ High(a) \in 1 .. Height
BY SizeAssumption DEF OnScreen, Empty, Wide, High

\* So many rows of an area fit the buffer.
LEMMA RowsFit ==
  ASSUME NEW w \in 1 .. Width
  PROVE  BufSize \div w \in Nat /\ BufSize \div w >= 1 /\ (BufSize \div w) * w <= BufSize
<1>1. w \in Nat /\ w >= 1 /\ BufSize \in Nat /\ BufSize >= w
  BY SizeAssumption, BufAssumption
<1>2. \A b, v \in Nat : v >= 1 => b \div v \in Nat /\ (b \div v) * v <= b /\ b < (b \div v) * v + v
  OBVIOUS
<1> QED BY <1>1, <1>2

\* Fewer rows are fewer pixels.
LEMMA FewerRows ==
  ASSUME NEW m \in Nat, NEW n \in Nat, NEW w \in Nat, m <= n
  PROVE  /\ m * w <= n * w /\ w * m <= n * w
         /\ m * w \in Nat /\ w * m \in Nat /\ n * w \in Nat
OBVIOUS

-----------------------------------------------------------------------------
(* The list of areas.                                                       *)

Room == Seq(OnScreen)
ListOK == inv \in Room /\ Len(inv) <= InvBufSize /\ \A k \in 1 .. Len(inv) : ~Empty(inv[k])

\* Every listed area is on the screen, and a list of areas can hold the screen.
LEMMA ListFacts ==
  /\ ListOK => /\ Len(inv) \in Nat
               /\ \A k \in 1 .. Len(inv) : inv[k] \in OnScreen /\ ~Empty(inv[k])
  /\ <<Screen>> \in Room /\ Len(<<Screen>>) = 1 /\ <<Screen>>[1] = Screen /\ <<Screen>> # <<>>
  /\ <<>> \in Room /\ Len(<<>>) = 0
BY ScreenOn DEF ListOK, Room

\* What lv_inv_area may do to the list (lv_refr.c:106-149): nothing, as the area is off the
\* screen or in a listed one; add the part of it on the screen; or, when the list is full,
\* replace it by the whole screen.
Kept(a) == /\ Empty(Intersect(a, Screen)) \/ Listed(Intersect(a, Screen))
           /\ inv' = inv /\ refr_on' = refr_on
Added(a) == /\ ~Empty(Intersect(a, Screen)) /\ ~Listed(Intersect(a, Screen))
            /\ Intersect(a, Screen) \in OnScreen
            /\ Len(inv) < InvBufSize /\ Len(inv') = Len(inv) + 1
            /\ inv' # <<>> /\ refr_on' = TRUE
            /\ \A k \in 1 .. Len(inv) : inv'[k] = inv[k]
            /\ inv'[Len(inv) + 1] = Intersect(a, Screen)
Replaced(a) == /\ ~Empty(Intersect(a, Screen)) /\ ~Listed(Intersect(a, Screen))
               /\ Len(inv) = InvBufSize
               /\ inv' = <<Screen>> /\ Len(inv') = 1 /\ inv'[1] = Screen
               /\ inv' # <<>> /\ refr_on' = TRUE

\* These are the cases, and the list stays one.
LEMMA InvArea ==
  ASSUME ListOK, NEW a \in Box, lv_inv_area(a)
  PROVE  ListOK' /\ (Kept(a) \/ Added(a) \/ Replaced(a))
<1> DEFINE c == Intersect(a, Screen)
<1>0. Len(inv) \in Nat /\ InvBufSize \in Nat /\ Len(inv) <= InvBufSize
  BY ListFacts, InvAssumption DEF ListOK
<1>1. CASE Empty(c) \/ Listed(c)
  <2>1. inv' = inv /\ refr_on' = refr_on
    BY <1>1 DEF lv_inv_area
  <2> QED BY <1>1, <2>1 DEF Kept, ListOK
<1>2. CASE ~(Empty(c) \/ Listed(c)) /\ Len(inv) < InvBufSize
  <2>1. inv' = Append(inv, c) /\ refr_on' = TRUE
    BY <1>2 DEF lv_inv_area
  <2>2. c \in OnScreen /\ ~Empty(c)
    BY <1>2, CutOn
  <2> HIDE DEF c
  <2>3. /\ inv' \in Room /\ Len(inv') = Len(inv) + 1 /\ inv' # <<>>
        /\ \A k \in 1 .. Len(inv) : inv'[k] = inv[k]
        /\ inv'[Len(inv) + 1] = c
    BY <1>0, <2>1, <2>2 DEF ListOK, Room
  <2>4. ListOK'
    <3>1. ASSUME NEW k \in 1 .. Len(inv') PROVE ~Empty(inv'[k])
      <4>1. k \in 1 .. Len(inv) \/ k = Len(inv) + 1
        BY <1>0, <2>3
      <4> QED BY <2>2, <2>3, <4>1 DEF ListOK
    <3> QED BY <1>0, <1>2, <2>3, <3>1 DEF ListOK
  <2> QED BY <1>2, <2>1, <2>2, <2>3, <2>4 DEF Added, c
<1>3. CASE ~(Empty(c) \/ Listed(c)) /\ ~(Len(inv) < InvBufSize)
  <2>1. inv' = <<Screen>> /\ refr_on' = TRUE
    BY <1>3 DEF lv_inv_area
  <2>2. Len(inv) = InvBufSize
    BY <1>0, <1>3
  <2>3. Len(inv') = 1 /\ inv'[1] = Screen /\ inv' # <<>> /\ inv' \in Room
    BY <2>1, ListFacts
  <2>4. ListOK'
    BY <2>3, ScreenOn, InvAssumption DEF ListOK
  <2> QED BY <1>3, <2>1, <2>2, <2>3, <2>4 DEF Replaced
<1> QED BY <1>1, <1>2, <1>3

-----------------------------------------------------------------------------
(* Types and bounds.                                                        *)

LifeOK ==
  /\ disp \in BOOLEAN /\ lv_initialized \in BOOLEAN /\ roots \in {"none", "live", "dangling"}
  /\ tPrivate \in {"null", "live", "freed"} /\ slips \subseteq Slips
  /\ fault \in {"none", "null_record", "freed_record", "lists"}
MarksOK ==
  /\ refr_on \in BOOLEAN /\ act_scr \in BOOLEAN /\ blind \in BOOLEAN
  /\ flushing \in BOOLEAN /\ held \in BOOLEAN /\ late \in BOOLEAN
  /\ spilled \in BOOLEAN /\ grown \in BOOLEAN /\ raised \in BOOLEAN /\ torn \in BOOLEAN
PlaceOK ==
  /\ handler \in {"idle", "refreshing", "raised"}
  /\ pc \in {"script", "join", "areas", "part", "drawing", "blt"}
  /\ todo \subseteq Monitors /\ gops \subseteq Monitors /\ owed \subseteq Monitors
  /\ spot \in (0 .. Width - 1) \X (0 .. Height - 1)
FlagOK == LifeOK /\ MarksOK /\ PlaceOK
LoopOK ==
  /\ joined \subseteq 1 .. InvBufSize
  /\ i \in 1 .. InvBufSize + 1 /\ from \in 1 .. InvBufSize
  /\ row \in 0 .. 2 * Height /\ y2 \in 0 .. Height - 1 /\ max_row \in 1 .. Height
  /\ area \in OnScreen /\ part \in OnScreen

\* TypeOK by its parts.
LEMMA TypeParts == TypeOK <=> ListOK /\ FlagOK /\ LoopOK
BY DEF TypeOK, ListOK, Room, FlagOK, LifeOK, MarksOK, PlaceOK, LoopOK

\* Every invalidated area is one.
LEMMA AreasAreBoxes == /\ \A a \in Areas : a \in Box
                       /\ \A a \in DrawAreas : a \in Box
BY AreasAssumption DEF Box

\* No step takes a flag, a state or a set of monitors out of its range.
LEMMA FlagStep ==
  ASSUME ListOK, FlagOK, [Next]_vars
  PROVE  FlagOK'
<1> USE DEF FlagOK, LifeOK, MarksOK, PlaceOK, list, life, loop, pixel, marks
<1>1. CASE monitor_init
  BY <1>1 DEF monitor_init, Slips
<1>2. CASE monitor_deinit
  BY <1>2 DEF monitor_deinit, Slips
<1>3. CASE lv_init
  BY <1>3 DEF lv_init
<1>4. CASE lv_deinit
  BY <1>4 DEF lv_deinit, NoDisplay
<1>5. CASE NewScript
  BY <1>5 DEF NewScript, NoDisplay, Slips
<1>6. CASE lv_disp_drv_register
  <2>7. LifeOK'
    BY <1>6 DEF lv_disp_drv_register, Slips
  <2>8. MarksOK'
    BY <1>6 DEF lv_disp_drv_register, Slips
  <2>9. PlaceOK'
    BY <1>6 DEF lv_disp_drv_register, Slips
  <2> QED BY <2>7, <2>8, <2>9
<1>7. CASE HandlerWalksFreed \/ OtherTaskRaises
  BY <1>7 DEF HandlerWalksFreed, OtherTaskRaises
<1>s. ASSUME NEW a \in Box, ScriptInvalidates(a), act_scr' \in BOOLEAN, late' \in BOOLEAN, owed' \subseteq Monitors
      PROVE  FlagOK'
  <2>1. refr_on' \in BOOLEAN
    BY <1>s, InvArea DEF ScriptInvalidates, Kept, Added, Replaced
  <2>2. torn' \in BOOLEAN
    BY <1>s DEF ScriptInvalidates
  <2>7. LifeOK'
    BY <1>s, <2>1, <2>2 DEF ScriptInvalidates
  <2>8. MarksOK'
    BY <1>s, <2>1, <2>2 DEF ScriptInvalidates
  <2>9. PlaceOK'
    BY <1>s, <2>1, <2>2 DEF ScriptInvalidates
  <2> QED BY <2>7, <2>8, <2>9
<1>8. CASE lv_disp_load_scr \/ DeleteScreen
  BY <1>8, <1>s, ScreenOn DEF lv_disp_load_scr, DeleteScreen, Repaint, ScriptInvalidates
<1>9. ASSUME StartRefresh, handler' \in {"idle", "refreshing", "raised"} PROVE FlagOK'
  <2>1. raised' \in BOOLEAN /\ torn' \in BOOLEAN
    BY <1>9 DEF StartRefresh
  <2>7. LifeOK'
    BY <1>9, <2>1 DEF StartRefresh
  <2>8. MarksOK'
    BY <1>9, <2>1 DEF StartRefresh
  <2>9. PlaceOK'
    BY <1>9, <2>1 DEF StartRefresh
  <2> QED BY <2>7, <2>8, <2>9
<1>10. CASE lv_refr_now \/ RefreshTask
  BY <1>9, <1>10 DEF lv_refr_now, RefreshTask
<1>11. ASSUME NEW a \in Areas, Invalidate(a) PROVE FlagOK'
  <2>1. a \in Box /\ ScriptInvalidates(a) /\ act_scr' \in BOOLEAN
    BY <1>11, AreasAreBoxes DEF Invalidate
  <2>2. late' \in BOOLEAN
    BY <1>11 DEF Invalidate
  <2>3. owed' \subseteq Monitors
    BY <1>11 DEF Invalidate, Repaint, ScriptInvalidates
  <2> QED BY <1>s, <2>1, <2>2, <2>3
<1>12. CASE lv_refr_join_area
  <2>7. LifeOK'
    BY <1>12 DEF lv_refr_join_area
  <2>8. MarksOK'
    BY <1>12 DEF lv_refr_join_area
  <2>9. PlaceOK'
    BY <1>12 DEF lv_refr_join_area
  <2> QED BY <2>7, <2>8, <2>9
<1>13. CASE SkipJoined
  BY <1>13 DEF SkipJoined
<1>14. CASE lv_refr_area
  <2>7. LifeOK'
    BY <1>14 DEF lv_refr_area
  <2>8. MarksOK'
    BY <1>14 DEF lv_refr_area
  <2>9. PlaceOK'
    BY <1>14 DEF lv_refr_area
  <2> QED BY <2>7, <2>8, <2>9
<1>15. CASE lv_refr_area_part
  <2>1. held' \in BOOLEAN
    BY <1>15 DEF lv_refr_area_part, Has
  <2>7. LifeOK'
    BY <1>15, <2>1 DEF lv_refr_area_part
  <2>8. MarksOK'
    BY <1>15, <2>1 DEF lv_refr_area_part
  <2>9. PlaceOK'
    BY <1>15, <2>1 DEF lv_refr_area_part
  <2> QED BY <2>7, <2>8, <2>9
<1>16. CASE lv_refr_vdb_flush
  <2>7. LifeOK'
    BY <1>16 DEF lv_refr_vdb_flush
  <2>8. MarksOK'
    BY <1>16 DEF lv_refr_vdb_flush
  <2>9. PlaceOK'
    BY <1>16 DEF lv_refr_vdb_flush
  <2> QED BY <2>7, <2>8, <2>9
<1>17. ASSUME NEW g \in Monitors, Blt(g) PROVE FlagOK'
  <2>7. LifeOK'
    BY <1>17 DEF Blt
  <2>8. MarksOK'
    BY <1>17 DEF Blt
  <2>9. PlaceOK'
    BY <1>17 DEF Blt
  <2> QED BY <2>7, <2>8, <2>9
<1>18. CASE lv_disp_flush_ready
  <2>7. LifeOK'
    BY <1>18 DEF lv_disp_flush_ready
  <2>8. MarksOK'
    BY <1>18 DEF lv_disp_flush_ready
  <2>9. PlaceOK'
    BY <1>18 DEF lv_disp_flush_ready
  <2> QED BY <2>7, <2>8, <2>9
<1>19. CASE AreaDone
  <2>7. LifeOK'
    BY <1>19 DEF AreaDone, LeaveArea
  <2>8. MarksOK'
    BY <1>19 DEF AreaDone, LeaveArea
  <2>9. PlaceOK'
    BY <1>19 DEF AreaDone, LeaveArea
  <2> QED BY <2>7, <2>8, <2>9
<1>20. CASE RefreshDone
  <2>1. late' \in BOOLEAN
    BY <1>20 DEF RefreshDone
  <2>7. LifeOK'
    BY <1>20, <2>1 DEF RefreshDone
  <2>8. MarksOK'
    BY <1>20, <2>1 DEF RefreshDone
  <2>9. PlaceOK'
    BY <1>20, <2>1 DEF RefreshDone
  <2> QED BY <2>7, <2>8, <2>9
<1>21. CASE DrawRaises
  <2>1. torn' \in BOOLEAN
    BY <1>21 DEF DrawRaises
  <2>7. LifeOK'
    BY <1>21, <2>1 DEF DrawRaises, LeaveArea
  <2>8. MarksOK'
    BY <1>21, <2>1 DEF DrawRaises, LeaveArea
  <2>9. PlaceOK'
    BY <1>21, <2>1 DEF DrawRaises, LeaveArea
  <2> QED BY <2>7, <2>8, <2>9
<1>22. ASSUME NEW a \in DrawAreas, DrawInvalidates(a) PROVE FlagOK'
  <2>1. refr_on' \in BOOLEAN
    BY <1>22, InvArea, AreasAreBoxes DEF DrawInvalidates, Kept, Added, Replaced
  <2>2. owed' \subseteq Monitors
    BY <1>22 DEF DrawInvalidates, Repaint
  <2>3. held' \in BOOLEAN /\ late' \in BOOLEAN /\ spilled' \in BOOLEAN /\ grown' \in BOOLEAN
    BY <1>22 DEF DrawInvalidates
  <2>7. LifeOK'
    BY <1>22, <2>1, <2>2, <2>3 DEF DrawInvalidates
  <2>8. MarksOK'
    BY <1>22, <2>1, <2>2, <2>3 DEF DrawInvalidates
  <2>9. PlaceOK'
    BY <1>22, <2>1, <2>2, <2>3 DEF DrawInvalidates
  <2> QED BY <2>7, <2>8, <2>9
<1>23. ASSUME NEW g \in Monitors, Plug(g) \/ Unplug(g) PROVE FlagOK'
  BY <1>23 DEF Plug, Unplug
<1>24. CASE UNCHANGED vars
  BY <1>24 DEF vars
<1> QED BY <1>1, <1>2, <1>3, <1>4, <1>5, <1>6, <1>7, <1>8, <1>10, <1>11, <1>12, <1>13, <1>14, <1>15,
           <1>16, <1>17, <1>18, <1>19, <1>20, <1>21, <1>22, <1>23, <1>24 DEF Next, Script, Refresh

\* The invariant of the loops: list, indices, rows and parts.
CoreInv == ListOK /\ FlagOK /\ LoopOK /\ ListInv /\ LoopInv /\ PartFitsBuffer

\* A step of the script that leaves the loop where it is keeps it, when the list it makes
\* is one that schedules the refresh, or an exception left it behind.
LEMMA ScriptList ==
  ASSUME CoreInv, FlagOK', ListOK', pc' = "script", LoopOK', ~spilled', torn' => raised', ~disp' => ~raised',
         raised' \/ (joined' = {} /\ (inv' # <<>> => refr_on')), torn' \/ joined' \subseteq 1 .. Len(inv')
  PROVE  CoreInv'
BY DEF CoreInv, ListInv, LoopInv, PartFitsBuffer, InArea

\* A step that changes neither list nor loop keeps it.
LEMMA SameList ==
  ASSUME CoreInv, FlagOK', UNCHANGED <<inv, joined, refr_on, loop, pc, marks, disp>>
  PROVE  CoreInv'
BY DEF CoreInv, ListOK, LoopOK, ListInv, LoopInv, PartFitsBuffer, InArea, loop, marks

\* A script that invalidates an area keeps it.
LEMMA ScriptArea ==
  ASSUME CoreInv, FlagOK', NEW a \in Box, ScriptInvalidates(a)
  PROVE  CoreInv'
<1>1. /\ pc = "script" /\ lv_inv_area(a) /\ torn' = (torn \/ (Overflows(a) /\ joined # {}))
      /\ UNCHANGED <<joined, loop, spilled, raised, pc, disp>>
  BY DEF ScriptInvalidates, life
<1>2. ListOK' /\ (Kept(a) \/ Added(a) \/ Replaced(a)) /\ ListOK
  BY <1>1, InvArea DEF CoreInv
<1>3. /\ torn => raised
      /\ ~disp => ~raised
      /\ ~spilled /\ (raised \/ (joined = {} /\ (inv # <<>> => refr_on)))
      /\ torn \/ joined \subseteq 1 .. Len(inv)
  BY <1>1 DEF CoreInv, ListInv
<1>4. Len(inv) \in Nat
  BY <1>2, ListFacts
<1>5. LoopOK'
  BY <1>1 DEF CoreInv, LoopOK, loop
<1>6. torn' => raised'
  BY <1>1, <1>3
<1>7. raised' \/ (joined' = {} /\ (inv' # <<>> => refr_on'))
  BY <1>1, <1>2, <1>3 DEF Kept, Added, Replaced
<1>8. torn' \/ joined' \subseteq 1 .. Len(inv')
  <2>1. CASE Kept(a)
    BY <1>1, <1>3, <2>1 DEF Kept
  <2>2. CASE Added(a)
    <3>1. Len(inv') = Len(inv) + 1
      BY <2>2 DEF Added
    <3>2. 1 .. Len(inv) \subseteq 1 .. Len(inv')
      BY <1>4, <3>1
    <3> QED BY <1>1, <1>3, <3>2
  <2>3. CASE Replaced(a)
    <3>1. Overflows(a)
      BY <2>3 DEF Replaced, Overflows
    <3> QED BY <1>1, <3>1
  <2> QED BY <1>2, <2>1, <2>2, <2>3
<1>9. ~spilled' /\ pc' = "script" /\ (~disp' => ~raised')
  BY <1>1, <1>3
<1> QED BY <1>2, <1>5, <1>6, <1>7, <1>8, <1>9, ScriptList

\* Every step keeps it.
LEMMA CoreStep ==
  ASSUME CoreInv, [Next]_vars
  PROVE  CoreInv'
<1>f. FlagOK' /\ FlagOK
  BY FlagStep DEF CoreInv
<1>e. /\ ListOK /\ Len(inv) \in Nat /\ Len(inv) <= InvBufSize
      /\ \A k \in 1 .. Len(inv) : inv[k] \in OnScreen /\ ~Empty(inv[k])
      /\ InvBufSize \in Nat /\ InvBufSize >= 1
  BY ListFacts, InvAssumption DEF CoreInv, ListOK
<1>s. ASSUME pc = "script" PROVE ~spilled /\ (raised \/ (joined = {} /\ (inv # <<>> => refr_on)))
  BY <1>s DEF CoreInv, ListInv
<1>t. /\ torn => raised
      /\ ~disp => ~raised /\ pc = "script"
  BY DEF CoreInv, ListInv
<1>1. CASE monitor_init
  BY <1>1, <1>f, SameList DEF monitor_init, list
<1>2. CASE monitor_deinit
  BY <1>2, <1>f, SameList DEF monitor_deinit, list
<1>3. CASE lv_init
  BY <1>3, <1>f, SameList DEF lv_init, list
<1>4. CASE HandlerWalksFreed \/ OtherTaskRaises
  BY <1>4, <1>f, SameList DEF HandlerWalksFreed, OtherTaskRaises, list, life
<1>5. ASSUME NoDisplay, pc' = "script", UNCHANGED loop PROVE CoreInv'
  <2>1. ListOK'
    BY <1>5, ListFacts, <1>e DEF NoDisplay, ListOK
  <2>2. LoopOK'
    BY <1>5 DEF NoDisplay, CoreInv, LoopOK, loop
  <2> QED BY <1>5, <1>f, <2>1, <2>2, ScriptList DEF NoDisplay
<1>6. CASE lv_deinit \/ NewScript
  BY <1>5, <1>6 DEF lv_deinit, NewScript
<1>7. CASE lv_disp_drv_register
  <2>1. /\ pc' = "script" /\ inv' = <<Screen>> /\ refr_on' /\ disp' /\ UNCHANGED <<joined, loop, marks>>
        /\ pc = "script" /\ ~disp
    BY <1>7 DEF lv_disp_drv_register
  <2>2. ListOK'
    BY <2>1, ListFacts, ScreenOn, <1>e DEF ListOK
  <2>3. ~raised /\ joined = {} /\ ~spilled /\ ~torn
    BY <1>s, <1>t, <2>1
  <2>4. LoopOK'
    BY <2>1, <2>3 DEF CoreInv, LoopOK, loop
  <2>5. ~spilled' /\ ~torn' /\ ~raised' /\ joined' = {}
    BY <2>1, <2>3 DEF marks
  <2> QED BY <1>f, <2>1, <2>2, <2>4, <2>5, ScriptList
<1>8. CASE lv_disp_load_scr \/ DeleteScreen
  BY <1>8, <1>f, ScriptArea, ScreenOn DEF lv_disp_load_scr, DeleteScreen
<1>9. ASSUME StartRefresh PROVE CoreInv'
  <2>0. /\ pc = "script" /\ disp /\ i' = 1 /\ from' = 1
        /\ inv' = (IF act_scr THEN inv ELSE <<>>)
        /\ raised' = (IF act_scr THEN raised ELSE joined # {})
        /\ torn' = (IF act_scr THEN torn ELSE joined # {})
        /\ pc' = (IF act_scr /\ inv # <<>> THEN "join" ELSE "script")
        /\ UNCHANGED <<joined, disp, area, row, y2, max_row, part, spilled, grown>>
    BY <1>9 DEF StartRefresh, life
  <2>1. ListOK'
    BY <2>0, <1>e, ListFacts DEF ListOK
  <2>2. LoopOK'
    BY <2>0, <1>e DEF LoopOK, CoreInv
  <2>3. torn' => raised'
    BY <1>t, <2>0
  <2>4. torn' \/ joined' \subseteq 1 .. Len(inv')
    <3>1. torn \/ joined \subseteq 1 .. Len(inv)
      BY <1>s, <2>0 DEF CoreInv, ListInv
    <3>2. CASE act_scr
      BY <2>0, <3>1, <3>2
    <3>3. CASE ~act_scr
      BY <2>0, <3>3
    <3> QED BY <3>2, <3>3
  <2>5. CASE pc' = "script"
    <3>1. inv' = <<>> /\ (raised' \/ joined' = {})
      BY <1>s, <2>0, <2>5
    <3> QED BY <1>f, <1>s, <2>0, <2>1, <2>2, <2>3, <2>4, <2>5, <3>1, ScriptList
  <2>6. CASE pc' = "join"
    <3>1. inv' = inv /\ inv # <<>> /\ ~spilled' /\ i' = 1 /\ from' = 1
      BY <1>s, <2>0, <2>6
    <3>2. Len(inv') >= 1 /\ Len(inv') \in Nat
      BY <1>e, <3>1 DEF ListOK, Room
    <3>3. ListInv'
      BY <2>0, <2>3, <2>4, <2>6, <3>1, <3>2 DEF ListInv, InArea
    <3> QED BY <1>f, <2>1, <2>2, <2>6, <3>3 DEF CoreInv, LoopInv, PartFitsBuffer, InArea
  <2> QED BY <2>0, <2>5, <2>6
<1>10. ASSUME NEW a \in Areas, Invalidate(a) PROVE CoreInv'
  BY <1>10, <1>f, ScriptArea, AreasAreBoxes DEF Invalidate
<1>11. CASE lv_refr_join_area
  <2>0. /\ pc = "join" /\ i \in 1 .. Len(inv) /\ from \in 1 .. Len(inv)
        /\ ~spilled /\ (torn \/ joined \subseteq 1 .. Len(inv))
    BY <1>11 DEF lv_refr_join_area, CoreInv, ListInv
  <2>1. ListOK' /\ Len(inv') = Len(inv)
    <3>1. CASE Joinable(i, from)
      <4>1. inv' = [inv EXCEPT ![i] = Join(inv[i], inv[from])]
        BY <1>11, <3>1 DEF lv_refr_join_area
      <4>2. Join(inv[i], inv[from]) \in OnScreen /\ ~Empty(Join(inv[i], inv[from]))
        BY <1>e, <2>0, JoinOn
      <4>3. inv' \in Room /\ Len(inv') = Len(inv)
        BY <1>e, <2>0, <4>1, <4>2 DEF ListOK, Room
      <4>4. \A k \in 1 .. Len(inv') : ~Empty(inv'[k])
        BY <1>e, <2>0, <4>1, <4>2, <4>3 DEF ListOK, Room
      <4> QED BY <1>e, <4>3, <4>4 DEF ListOK
    <3>2. CASE ~Joinable(i, from)
      BY <1>11, <1>e, <3>2 DEF lv_refr_join_area, ListOK
    <3> QED BY <3>1, <3>2
  <2>2. UNCHANGED <<spilled, raised, torn, disp>> /\ joined' \subseteq joined \cup {from}
    BY <1>11 DEF lv_refr_join_area, marks, life
  <2>3. /\ from' \in 1 .. Len(inv) /\ i' \in 1 .. Len(inv)
        /\ pc' \in {"join", "areas"}
    BY <1>11, <1>e, <2>0 DEF lv_refr_join_area
  <2>4. LoopOK'
    BY <1>11, <1>e, <2>0, <2>2, <2>3 DEF lv_refr_join_area, LoopOK, CoreInv
  <2>5. ListInv'
    <3>1. torn' \/ joined' \subseteq 1 .. Len(inv')
      BY <2>0, <2>1, <2>2
    <3> QED BY <1>t, <2>0, <2>1, <2>2, <2>3, <3>1 DEF ListInv, InArea
  <2> QED BY <1>f, <2>1, <2>3, <2>4, <2>5 DEF CoreInv, LoopInv, PartFitsBuffer, InArea
<1>12. CASE SkipJoined
  <2>1. i' = i + 1 /\ i <= Len(inv) /\ pc = "areas" /\ pc' = pc /\ UNCHANGED <<spilled, raised, torn, disp>>
    BY <1>12 DEF SkipJoined, marks, life
  <2>2. UNCHANGED <<inv, joined, refr_on, from, row, y2, max_row, area, part>>
    BY <1>12 DEF SkipJoined, list
  <2>3. ListOK' /\ LoopOK'
    BY <1>e, <2>1, <2>2 DEF CoreInv, ListOK, LoopOK
  <2> QED BY <1>f, <2>1, <2>2, <2>3 DEF CoreInv, ListInv, LoopInv, PartFitsBuffer, InArea
<1>13. CASE lv_refr_area
  <2>0. pc = "areas" /\ pc' = "part" /\ i \in 1 .. Len(inv)
    BY <1>13, <1>e DEF lv_refr_area, CoreInv, LoopOK
  <2>1. inv[i] \in OnScreen /\ ~Empty(inv[i])
    BY <1>e, <2>0
  <2>2. UNCHANGED <<inv, joined, refr_on, i, from, part, spilled, raised, torn, disp>>
    BY <1>13 DEF lv_refr_area, list, marks, life
  <2>3. /\ area' = inv[i] /\ row' = inv[i].y1 /\ y2' = inv[i].y2
        /\ max_row' = Min2(BufSize \div Wide(inv[i]), High(inv[i]))
    BY <1>13 DEF lv_refr_area
  <2>4. row' \in 0 .. 2 * Height /\ y2' \in 0 .. Height - 1 /\ area' \in OnScreen /\ area'.x1 <= area'.x2
    BY <2>1, <2>3, SizeAssumption DEF OnScreen, Empty
  <2>5. max_row' \in 1 .. Height /\ max_row' * Wide(area') <= BufSize
    <3> DEFINE w == Wide(inv[i])  h == High(inv[i])  n == BufSize \div w
    <3>1. w \in 1 .. Width /\ h \in 1 .. Height
      BY <2>1, Extent
    <3>2. n \in Nat /\ n >= 1 /\ n * w <= BufSize
      BY <3>1, RowsFit
    <3>3. max_row' = Min2(n, h) /\ Wide(area') = w
      BY <2>3
    <3> HIDE DEF w, h, n
    <3>4. w \in Nat /\ h \in Nat /\ BufSize \in Nat
      BY <3>1, SizeAssumption, BufAssumption
    <3>5. max_row' \in 1 .. Height /\ max_row' <= n /\ max_row' \in Nat
      BY <3>1, <3>2, <3>3, <3>4, SizeAssumption DEF Min2
    <3>6. max_row' * w <= n * w /\ max_row' * w \in Nat /\ n * w \in Nat
      BY <3>2, <3>4, <3>5, FewerRows
    <3> QED BY <3>2, <3>3, <3>4, <3>5, <3>6
  <2>6. ListOK' /\ LoopOK'
    BY <1>e, <2>2, <2>4, <2>5 DEF CoreInv, ListOK, LoopOK
  <2>7. ListInv'
    BY <1>e, <2>0, <2>2 DEF CoreInv, ListInv, InArea
  <2>8. LoopInv' /\ PartFitsBuffer'
    BY <2>0, <2>4, <2>5 DEF LoopInv, PartFitsBuffer
  <2> QED BY <1>f, <2>6, <2>7, <2>8 DEF CoreInv
<1>14. CASE lv_refr_area_part
  <2>0. pc = "part" /\ pc' = "drawing" /\ row <= y2
    BY <1>14 DEF lv_refr_area_part
  <2>1. UNCHANGED <<inv, joined, refr_on, i, from, area, row, y2, max_row, spilled, grown, raised, torn, disp>>
    BY <1>14 DEF lv_refr_area_part, list, marks, life
  <2>2. part' = [x1 |-> area.x1, x2 |-> area.x2, y1 |-> row, y2 |-> Min2(row + max_row - 1, y2)]
    BY <1>14 DEF lv_refr_area_part
  <2>3. /\ area \in OnScreen /\ area.x1 <= area.x2 /\ row \in Nat /\ y2 \in 0 .. Height - 1
        /\ max_row \in 1 .. Height /\ (grown \/ max_row * Wide(area) <= BufSize)
    BY <2>0 DEF CoreInv, LoopOK, LoopInv, InArea
  <2>4. Min2(row + max_row - 1, y2) \in row .. y2 /\ Min2(row + max_row - 1, y2) <= row + max_row - 1
    BY <2>0, <2>3, SizeAssumption DEF Min2
  <2>5. part' \in OnScreen /\ part'.x1 <= part'.x2 /\ part'.y1 <= part'.y2
    BY <2>0, <2>2, <2>3, <2>4, SizeAssumption DEF OnScreen
  <2>6. Wide(part') = Wide(area) /\ High(part') <= max_row /\ High(part') \in Nat /\ Wide(area) \in Nat
    <3>1. Wide(part') = Wide(area)
      BY <2>2 DEF Wide
    <3>2. High(part') = Min2(row + max_row - 1, y2) - row + 1
      BY <2>2 DEF High
    <3>3. Wide(area) \in Nat
      BY <2>3, SizeAssumption DEF OnScreen, Wide
    <3> QED BY <2>3, <2>4, <3>1, <3>2, <3>3
  <2>7. ListOK' /\ LoopOK'
    BY <1>e, <2>1, <2>5 DEF CoreInv, ListOK, LoopOK
  <2>8. ListInv' /\ LoopInv'
    BY <2>0, <2>1 DEF CoreInv, ListInv, LoopInv, InArea
  <2>9. PartFitsBuffer'
    <3>1. ASSUME ~grown PROVE Size(part') <= BufSize
      <4> DEFINE w == Wide(area)  h == High(part')
      <4>1. w \in Nat /\ h \in Nat /\ max_row \in Nat /\ h <= max_row /\ max_row * w <= BufSize /\ BufSize \in Nat
        BY <2>3, <2>6, <3>1, BufAssumption
      <4>2. Size(part') = w * h
        BY <2>6 DEF Size
      <4> HIDE DEF w, h
      <4>3. w * h <= max_row * w /\ w * h \in Nat /\ max_row * w \in Nat
        BY <4>1, FewerRows
      <4> QED BY <4>1, <4>2, <4>3
    <3> QED BY <2>1, <3>1 DEF PartFitsBuffer
  <2> QED BY <1>f, <2>7, <2>8, <2>9 DEF CoreInv
<1>r. ASSUME pc \in {"drawing", "blt"}
      PROVE  row <= y2 /\ row + max_row \in 0 .. 2 * Height
  BY <1>r, SizeAssumption DEF CoreInv, LoopInv, LoopOK
<1>n. ASSUME pc \in {"drawing", "blt"}, NextRow, pc' = "part",
             UNCHANGED <<inv, joined, refr_on, i, from, area, y2, max_row, part, marks, disp>>
      PROVE  CoreInv'
  <2>1. row' \in 0 .. 2 * Height
    BY <1>n, <1>r DEF NextRow
  <2>2. ListOK' /\ LoopOK'
    BY <1>n, <1>e, <2>1 DEF CoreInv, ListOK, LoopOK
  <2>3. ListInv' /\ LoopInv' /\ PartFitsBuffer'
    BY <1>n DEF CoreInv, ListInv, LoopInv, PartFitsBuffer, InArea, marks
  <2> QED BY <1>f, <2>2, <2>3 DEF CoreInv
<1>15. CASE lv_refr_vdb_flush
  <2>1. pc = "drawing" /\ UNCHANGED <<inv, joined, refr_on, i, from, area, y2, max_row, part, marks, disp>>
    BY <1>15 DEF lv_refr_vdb_flush, list
  <2>2. CASE gops = {}
    BY <1>15, <1>n, <2>1, <2>2 DEF lv_refr_vdb_flush
  <2>3. CASE gops # {}
    <3>1. pc' = "blt" /\ row' = row
      BY <1>15, <2>3 DEF lv_refr_vdb_flush
    <3> QED BY <1>f, <1>e, <2>1, <3>1 DEF CoreInv, ListOK, LoopOK, ListInv, LoopInv, PartFitsBuffer, InArea, marks
  <2> QED BY <2>2, <2>3
<1>16. ASSUME NEW g \in Monitors, Blt(g) PROVE CoreInv'
  <2>1. UNCHANGED <<inv, joined, refr_on, i, from, area, row, y2, max_row, part, marks, disp, pc>>
    BY <1>16 DEF Blt, list, life
  <2> QED BY <1>f, <1>e, <2>1 DEF CoreInv, ListOK, LoopOK, ListInv, LoopInv, PartFitsBuffer, InArea, marks
<1>17. CASE lv_disp_flush_ready
  BY <1>17, <1>n DEF lv_disp_flush_ready, list, life
<1>v. ASSUME LeaveArea, i' \in 1 .. InvBufSize + 1, from' = from, joined' \subseteq joined PROVE LoopOK'
  BY <1>v, <1>e, ScreenOn, SizeAssumption DEF LeaveArea, CoreInv, LoopOK
<1>18. CASE AreaDone
  <2>1. pc = "part" /\ pc' = "areas" /\ i' = i + 1 /\ LeaveArea
    BY <1>18 DEF AreaDone
  <2>2. UNCHANGED <<inv, joined, refr_on, from, spilled, raised, torn, disp>>
    BY <1>18 DEF AreaDone, list, life
  <2>3. i' \in 1 .. InvBufSize + 1
    BY <1>e, <2>1 DEF CoreInv, ListInv, InArea, LoopOK
  <2>4. ListOK' /\ LoopOK'
    BY <1>e, <1>v, <2>1, <2>2, <2>3 DEF ListOK
  <2> QED BY <1>f, <2>1, <2>2, <2>4 DEF CoreInv, ListInv, LoopInv, PartFitsBuffer, InArea
<1>19. CASE RefreshDone
  <2>1. /\ pc' = "script" /\ inv' = <<>> /\ joined' = {} /\ i' = 1 /\ disp' = disp
        /\ ~spilled' /\ ~raised' /\ ~torn'
    BY <1>19 DEF RefreshDone, life
  <2>2. UNCHANGED <<from, area, row, y2, max_row, part>>
    BY <1>19 DEF RefreshDone
  <2>3. ListOK' /\ LoopOK'
    BY <1>e, <2>1, <2>2, ListFacts DEF CoreInv, ListOK, LoopOK
  <2> QED BY <1>f, <2>1, <2>3, ScriptList
<1>25. CASE DrawRaises
  <2>1. /\ pc = "drawing" /\ pc' = "script" /\ i' = 1 /\ LeaveArea /\ raised' = TRUE /\ ~spilled'
        /\ torn' = (torn \/ (spilled /\ joined # {}))
        /\ UNCHANGED <<inv, joined, from, disp>>
    BY <1>25 DEF DrawRaises, list, life
  <2>2. ListOK' /\ LoopOK'
    BY <1>e, <1>v, <2>1 DEF ListOK
  <2>3. torn' \/ joined' \subseteq 1 .. Len(inv')
    <3>1. spilled \/ torn \/ joined \subseteq 1 .. Len(inv)
      BY DEF CoreInv, ListInv
    <3> QED BY <2>1, <3>1
  <2> QED BY <1>f, <1>t, <2>1, <2>2, <2>3, ScriptList
<1>20. ASSUME NEW a \in DrawAreas, DrawInvalidates(a) PROVE CoreInv'
  <2> DEFINE spills == Overflows(a)
  <2>1. /\ pc = "drawing" /\ lv_inv_area(a) /\ spilled' = (spilled \/ spills)
        /\ grown' = (grown \/ (spills /\ i = 1))
        /\ area' = IF spills /\ i = 1 THEN Screen ELSE area
        /\ UNCHANGED <<joined, i, from, row, y2, max_row, part, pc, raised, torn, disp>>
    BY <1>20 DEF DrawInvalidates, life
  <2>2. ListOK' /\ (Kept(a) \/ Added(a) \/ Replaced(a))
    BY <1>e, <2>1, InvArea, AreasAreBoxes
  <2>3. area' \in OnScreen /\ area'.x1 <= area'.x2
    BY <2>1, ScreenOn, SizeAssumption DEF CoreInv, LoopOK, LoopInv, InArea, Screen
  <2>4. LoopOK'
    BY <2>1, <2>3 DEF CoreInv, LoopOK
  <2>5. Replaced(a) <=> spills
    BY <1>e, <2>2 DEF Kept, Added, Replaced, Overflows
  <2> HIDE DEF spills
  <2>6. LoopInv' /\ PartFitsBuffer'
    <3>1. row <= y2 /\ (grown \/ max_row * Wide(area) <= BufSize) /\ (grown \/ Size(part) <= BufSize)
      BY <2>1 DEF CoreInv, LoopInv, PartFitsBuffer, InArea
    <3>2. grown' \/ area' = area
      BY <2>1
    <3>3. grown' \/ ~grown
      BY <2>1
    <3> QED BY <2>1, <2>3, <3>1, <3>2, <3>3 DEF LoopInv, PartFitsBuffer
  <2>7. CASE Replaced(a)
    <3>1. spilled' = TRUE
      BY <2>1, <2>5, <2>7
    <3>2. ListInv'
      BY <1>t, <2>1, <2>7, <3>1 DEF CoreInv, ListInv, InArea, Replaced
    <3> QED BY <1>f, <2>2, <2>4, <2>6, <3>2 DEF CoreInv
  <2>8. CASE ~Replaced(a)
    <3>1. spilled' = spilled
      BY <1>f, <2>1, <2>5, <2>8 DEF FlagOK, LifeOK, MarksOK, PlaceOK
    <3>2. ListInv'
      <4>1. Len(inv') \in Nat /\ Len(inv') >= Len(inv)
        BY <1>e, <2>2, <2>8 DEF Kept, Added
      <4>2. ASSUME inv # <<>>, inv[1] = Screen PROVE inv' # <<>> /\ inv'[1] = Screen
        <5>1. 1 \in 1 .. Len(inv)
          BY <1>e, <4>2 DEF ListOK, Room
        <5> QED BY <2>2, <2>8, <4>2, <5>1 DEF Kept, Added
      <4>3. spilled' => inv' # <<>> /\ inv'[1] = Screen
        BY <3>1, <4>2 DEF CoreInv, ListInv
      <4>4. ~spilled' => i' <= Len(inv')
        <5>1. ~spilled => i <= Len(inv) /\ i \in Nat
          BY <2>1 DEF CoreInv, ListInv, InArea, LoopOK
        <5> QED BY <1>e, <2>1, <3>1, <4>1, <5>1
      <4>5. ~spilled' /\ ~torn' => joined' \subseteq 1 .. Len(inv')
        <5>1. ~spilled /\ ~torn => joined \subseteq 1 .. Len(inv)
          BY DEF CoreInv, ListInv
        <5>2. 1 .. Len(inv) \subseteq 1 .. Len(inv')
          BY <1>e, <4>1
        <5> QED BY <2>1, <3>1, <5>1, <5>2
      <4>6. i <= InvBufSize
        BY <2>1 DEF CoreInv, ListInv, InArea
      <4> QED BY <1>t, <2>1, <4>3, <4>4, <4>5, <4>6 DEF ListInv, InArea
    <3> QED BY <1>f, <2>2, <2>4, <2>6, <3>2 DEF CoreInv
  <2> QED BY <2>7, <2>8
<1>21. ASSUME NEW g \in Monitors, Plug(g) \/ Unplug(g) PROVE CoreInv'
  BY <1>21, <1>f, SameList DEF Plug, Unplug, list, life
<1>22. CASE UNCHANGED vars
  BY <1>22, <1>f, SameList DEF vars, list, life
<1>23. CASE lv_refr_now \/ RefreshTask
  BY <1>9, <1>23 DEF lv_refr_now, RefreshTask
<1> QED BY <1>1, <1>2, <1>3, <1>4, <1>6, <1>7, <1>8, <1>10, <1>11, <1>12, <1>13, <1>14, <1>15, <1>16,
           <1>17, <1>18, <1>19, <1>20, <1>21, <1>22, <1>23, <1>25 DEF Next, Script, Refresh

\* The refresh starts from a list that is empty.
LEMMA InitCore == Init => CoreInv
<1> SUFFICES ASSUME Init PROVE CoreInv
  OBVIOUS
<1>1. ListOK
  BY ListFacts, InvAssumption DEF Init, ListOK
<1>2. FlagOK
  BY DEF Init, FlagOK, LifeOK, MarksOK, PlaceOK
<1>3. LoopOK
  BY ScreenOn, SizeAssumption, InvAssumption DEF Init, LoopOK
<1> QED BY <1>1, <1>2, <1>3 DEF Init, CoreInv, ListInv, LoopInv, PartFitsBuffer, InArea

\* Every variable of the refresh and of its driver keeps its range, whatever drawing
\* callbacks add to the list while it is drawn: at most LV_INV_BUF_SIZE areas, all on the
\* screen, and rows and indices never beyond it (lv_refr.c:106-149, 338-480).
THEOREM DisplayTyped == Spec => []TypeOK
<1>1. CoreInv /\ [Next]_vars => CoreInv'
  BY CoreStep
<1>2. CoreInv => TypeOK
  BY TypeParts DEF CoreInv
<1> QED BY <1>1, <1>2, InitCore, PTL DEF Spec

\* A part that is drawn and flushed fits the draw buffer (lv_refr_area and
\* lv_refr_area_part, lv_refr.c:411-530), for every screen, buffer and list size, unless
\* the list overflows while the first area is drawn.
THEOREM PartsFit == Spec => []PartFitsBuffer
<1>1. CoreInv /\ [Next]_vars => CoreInv'
  BY CoreStep
<1>2. CoreInv => PartFitsBuffer
  BY DEF CoreInv
<1> QED BY <1>1, <1>2, InitCore, PTL DEF Spec

-----------------------------------------------------------------------------
(* Life cycles.                                                             *)

\* Every step keeps LifeInv, and what it does wrong is explained.
LEMMA LifeStep ==
  ASSUME FlagOK, LifeInv, FaultsExplained, [Next]_vars
  PROVE  LifeInv' /\ FaultsExplained'
<1> USE DEF FlagOK, LifeOK, PlaceOK, LifeInv, FaultsExplained, list, life
<1>1. CASE fault = "none" /\ monitor_init
  BY <1>1 DEF monitor_init
<1>2. CASE fault = "none" /\ monitor_deinit
  BY <1>2 DEF monitor_deinit
<1>3. CASE lv_init
  BY <1>3 DEF lv_init
<1>4. CASE fault = "none" /\ lv_deinit
  BY <1>4 DEF lv_deinit, NoDisplay
<1>5. CASE fault = "none" /\ NewScript
  BY <1>5 DEF NewScript, NoDisplay
<1>6. CASE fault = "none" /\ lv_disp_drv_register
  BY <1>6 DEF lv_disp_drv_register
<1>7. CASE HandlerWalksFreed
  BY <1>7 DEF HandlerWalksFreed
<1>8. CASE lv_disp_load_scr \/ DeleteScreen \/ \E a \in Areas : Invalidate(a)
  BY <1>8 DEF lv_disp_load_scr, DeleteScreen, Invalidate, ScriptInvalidates
<1>9. CASE lv_refr_now \/ RefreshTask
  BY <1>9 DEF lv_refr_now, RefreshTask, StartRefresh
<1>10. CASE OtherTaskRaises \/ DrawRaises
  BY <1>10 DEF OtherTaskRaises, DrawRaises
<1>11. CASE lv_refr_join_area \/ SkipJoined \/ lv_refr_area \/ lv_refr_area_part
  BY <1>11 DEF lv_refr_join_area, SkipJoined, lv_refr_area, lv_refr_area_part
<1>12. CASE fault = "none" /\ lv_refr_vdb_flush
  BY <1>12 DEF lv_refr_vdb_flush
<1>13. CASE lv_disp_flush_ready \/ AreaDone \/ RefreshDone \/ \E g \in Monitors : Blt(g)
  BY <1>13 DEF lv_disp_flush_ready, AreaDone, RefreshDone, Blt
<1>14. CASE \E a \in DrawAreas : DrawInvalidates(a)
  BY <1>14 DEF DrawInvalidates
<1>15. CASE \E g \in Monitors : Plug(g) \/ Unplug(g)
  BY <1>15 DEF Plug, Unplug
<1>16. CASE UNCHANGED vars
  BY <1>16 DEF vars
<1> QED BY <1>1, <1>2, <1>3, <1>4, <1>5, <1>6, <1>7, <1>8, <1>9, <1>10, <1>11, <1>12, <1>13, <1>14,
           <1>15, <1>16 DEF Next, Script, Refresh

\* Whatever scripts call in whatever order, and whichever monitors come and go, the library
\* and the driver use memory that is freed or not there only because an ed.init() met no
\* monitor, because a display is used without the driver (EfiMonitor.c:93-129, 194-198),
\* or because of a script without lv.init() or an earlier one without lv.deinit()
\* (lv_obj.c:164-253, lv_hal_disp.c:116).
THEOREM MemoryFaults == Spec => []FaultsExplained
<1>1. Init => CoreInv /\ LifeInv /\ FaultsExplained
  BY InitCore DEF Init, LifeInv, FaultsExplained
<1>2. CoreInv /\ LifeInv /\ FaultsExplained /\ [Next]_vars => (CoreInv /\ LifeInv /\ FaultsExplained)'
  BY CoreStep, LifeStep DEF CoreInv
<1> QED BY <1>1, <1>2, PTL DEF Spec

-----------------------------------------------------------------------------
(* Pixels.                                                                  *)

\* Every step keeps OwedInv.
LEMMA OwedStep ==
  ASSUME FlagOK, OwedInv, [Next]_vars
  PROVE  OwedInv'
<1> USE DEF FlagOK, LifeOK, MarksOK, PlaceOK, OwedInv, list, pixel
<1>1. CASE monitor_init \/ monitor_deinit \/ lv_init \/ HandlerWalksFreed \/ OtherTaskRaises
  BY <1>1 DEF monitor_init, monitor_deinit, lv_init, HandlerWalksFreed, OtherTaskRaises
<1>2. CASE lv_deinit \/ NewScript
  BY <1>2 DEF lv_deinit, NewScript, NoDisplay
<1>3. CASE lv_disp_drv_register
  BY <1>3 DEF lv_disp_drv_register
<1>4. CASE lv_disp_load_scr
  BY <1>4 DEF lv_disp_load_scr, ScriptInvalidates, Repaint
<1>5. CASE DeleteScreen
  BY <1>5 DEF DeleteScreen, ScriptInvalidates
<1>6. CASE \E a \in Areas : Invalidate(a)
  BY <1>6 DEF Invalidate, ScriptInvalidates, Repaint
<1>7. CASE lv_refr_now \/ RefreshTask
  BY <1>7 DEF lv_refr_now, RefreshTask, StartRefresh
<1>8. CASE lv_refr_join_area \/ SkipJoined \/ lv_refr_area \/ lv_refr_area_part \/ lv_refr_vdb_flush
  BY <1>8 DEF lv_refr_join_area, SkipJoined, lv_refr_area, lv_refr_area_part, lv_refr_vdb_flush
<1>9. CASE lv_disp_flush_ready \/ AreaDone \/ RefreshDone \/ DrawRaises
  BY <1>9 DEF lv_disp_flush_ready, AreaDone, RefreshDone, DrawRaises
<1>10. CASE \E g \in Monitors : Blt(g)
  BY <1>10 DEF Blt
<1>11. CASE \E a \in DrawAreas : DrawInvalidates(a)
  BY <1>11 DEF DrawInvalidates, Repaint
<1>12. CASE \E g \in Monitors : Plug(g) \/ Unplug(g)
  BY <1>12 DEF Plug, Unplug
<1>13. CASE UNCHANGED vars
  BY <1>13 DEF vars
<1> QED BY <1>1, <1>2, <1>3, <1>4, <1>5, <1>6, <1>7, <1>8, <1>9, <1>10, <1>11, <1>12, <1>13
      DEF Next, Script, Refresh

\* A pixel of an area that is on the screen is in the cut area, and in every area that
\* the cut area is in.
LEMMA PixelCut ==
  ASSUME FlagOK, NEW a \in Box, Has(a, spot)
  PROVE  /\ Has(Intersect(a, Screen), spot) /\ ~Empty(Intersect(a, Screen)) /\ Has(Screen, spot)
         /\ \A b \in OnScreen : IsIn(Intersect(a, Screen), b) => Has(b, spot)
<1> DEFINE x == spot[1]  y == spot[2]
<1>1. x \in 0 .. Width - 1 /\ y \in 0 .. Height - 1 /\ x \in a.x1 .. a.x2 /\ y \in a.y1 .. a.y2
  BY DEF FlagOK, PlaceOK, Has
<1>2. a.x1 \in Int /\ a.x2 \in Int /\ a.y1 \in Int /\ a.y2 \in Int
  BY DEF Box
<1> HIDE DEF x, y
<1> USE <1>1, <1>2, SizeAssumption
<1>3. /\ x \in Max2(a.x1, 0) .. Min2(a.x2, Width - 1) /\ y \in Max2(a.y1, 0) .. Min2(a.y2, Height - 1)
      /\ Max2(a.x1, 0) \in Int /\ Min2(a.x2, Width - 1) \in Int
      /\ Max2(a.y1, 0) \in Int /\ Min2(a.y2, Height - 1) \in Int
  BY DEF Max2, Min2
<1>4. Intersect(a, Screen) = [x1 |-> Max2(a.x1, 0), x2 |-> Min2(a.x2, Width - 1),
                              y1 |-> Max2(a.y1, 0), y2 |-> Min2(a.y2, Height - 1)]
  BY DEF Intersect, Screen
<1>5. Has(Intersect(a, Screen), spot) /\ ~Empty(Intersect(a, Screen)) /\ Has(Screen, spot)
  BY <1>3, <1>4 DEF Has, Empty, Screen, x, y
<1>6. ASSUME NEW b \in OnScreen, IsIn(Intersect(a, Screen), b) PROVE Has(b, spot)
  BY <1>3, <1>4, <1>6 DEF IsIn, Has, OnScreen, x, y
<1> QED BY <1>5, <1>6

\* The pixel is on the screen.
LEMMA PixelOnScreen ==
  ASSUME FlagOK
  PROVE  Has(Screen, spot) /\ spot[1] \in 0 .. Width - 1 /\ spot[2] \in 0 .. Height - 1
BY SizeAssumption DEF FlagOK, PlaceOK, Has, Screen

\* Being in an area, on the screen.
LEMMA InOrder ==
  /\ \A a, b \in OnScreen : IsIn(a, Join(a, b)) /\ IsIn(b, Join(a, b))
  /\ \A a, b, c \in OnScreen : IsIn(a, b) /\ IsIn(b, c) => IsIn(a, c)
  /\ \A a, b \in OnScreen : IsIn(a, b) /\ Has(a, spot) /\ FlagOK => Has(b, spot)
<1>1. \A a, b \in OnScreen : IsIn(a, Join(a, b)) /\ IsIn(b, Join(a, b))
  BY SizeAssumption DEF OnScreen, IsIn, Join, Min2, Max2
<1>2. \A a, b, c \in OnScreen : IsIn(a, b) /\ IsIn(b, c) => IsIn(a, c)
  BY SizeAssumption DEF OnScreen, IsIn
<1>3. ASSUME NEW a \in OnScreen, NEW b \in OnScreen, IsIn(a, b), Has(a, spot), FlagOK PROVE Has(b, spot)
  <2>1. spot[1] \in Nat /\ spot[2] \in Nat
    BY <1>3, PixelOnScreen, SizeAssumption
  <2> QED BY <1>3, <2>1, SizeAssumption DEF OnScreen, IsIn, Has
<1> QED BY <1>1, <1>2, <1>3

\* Adding to the list keeps JoinInv.
LEMMA AddKeepsJoin ==
  ASSUME CoreInv, JoinInv, NEW a \in Box, lv_inv_area(a), ~Replaced(a), ~spilled, ~torn, joined' = joined
  PROVE  JoinInv'
<1>1. Len(inv) \in Nat /\ joined \subseteq 1 .. Len(inv) /\ ListOK
  BY ListFacts DEF CoreInv, ListInv
<1>2. /\ Len(inv') \in Nat /\ Len(inv') >= Len(inv)
      /\ \A k \in 1 .. Len(inv) : inv'[k] = inv[k]
  <2>1. Kept(a) \/ Added(a)
    BY <1>1, InvArea
  <2>2. CASE Kept(a)
    BY <1>1, <2>2 DEF Kept
  <2>3. CASE Added(a)
    BY <1>1, <2>3 DEF Added
  <2> QED BY <2>1, <2>2, <2>3
<1>3. ASSUME NEW k \in joined PROVE \E j \in 1 .. Len(inv') \ joined : IsIn(inv'[k], inv'[j])
  <2>1. PICK j \in 1 .. Len(inv) \ joined : IsIn(inv[k], inv[j])
    BY DEF JoinInv
  <2>2. j \in 1 .. Len(inv') \ joined
    BY <1>1, <1>2
  <2> QED BY <1>1, <1>2, <2>1, <2>2
<1> QED BY <1>3 DEF JoinInv

\* Every step keeps JoinInv.
LEMMA JoinStep ==
  ASSUME CoreInv, CoreInv', JoinInv, [Next]_vars
  PROVE  JoinInv'
<1>e. JoinInv' \/ joined' # {}
  BY DEF JoinInv
<1>u. ASSUME UNCHANGED <<inv, joined>>, (spilled \/ torn) => (spilled' \/ torn') PROVE JoinInv'
  BY <1>u DEF JoinInv
<1>1. CASE monitor_init \/ monitor_deinit \/ lv_init \/ HandlerWalksFreed \/ OtherTaskRaises
  BY <1>1, <1>u DEF monitor_init, monitor_deinit, lv_init, HandlerWalksFreed, OtherTaskRaises, list, marks
<1>2. CASE lv_deinit \/ NewScript
  BY <1>2, <1>e DEF lv_deinit, NewScript, NoDisplay
<1>3. CASE lv_disp_drv_register
  <2>1. joined = {}
    BY <1>3 DEF lv_disp_drv_register, CoreInv, ListInv
  <2> QED BY <1>3, <1>e, <2>1 DEF lv_disp_drv_register
<1>s. ASSUME NEW a \in Box, ScriptInvalidates(a) PROVE JoinInv'
  <2>1. /\ lv_inv_area(a) /\ torn' = (torn \/ (Overflows(a) /\ joined # {}))
        /\ joined' = joined /\ spilled' = spilled
    BY <1>s DEF ScriptInvalidates
  <2>2. CASE Replaced(a)
    <3>1. Overflows(a)
      BY <2>2 DEF Replaced, Overflows
    <3>2. torn' \/ joined = {}
      BY <2>1, <3>1
    <3> QED BY <1>e, <2>1, <3>2 DEF JoinInv
  <2>3. CASE ~Replaced(a)
    BY <2>1, <2>3, AddKeepsJoin DEF JoinInv
  <2> QED BY <2>2, <2>3
<1>4. CASE lv_disp_load_scr \/ DeleteScreen
  BY <1>4, <1>s, ScreenOn DEF lv_disp_load_scr, DeleteScreen
<1>5. ASSUME NEW a \in Areas, Invalidate(a) PROVE JoinInv'
  BY <1>5, <1>s, AreasAreBoxes DEF Invalidate
<1>6. ASSUME StartRefresh PROVE JoinInv'
  <2>1. /\ joined' = joined /\ spilled' = spilled
        /\ inv' = (IF act_scr THEN inv ELSE <<>>)
        /\ torn' = (IF act_scr THEN torn ELSE joined # {})
    BY <1>6 DEF StartRefresh
  <2>2. CASE act_scr
    BY <1>u, <2>1, <2>2
  <2>3. CASE ~act_scr
    BY <1>e, <2>1, <2>3 DEF JoinInv
  <2> QED BY <2>2, <2>3
<1>7. CASE lv_refr_now \/ RefreshTask
  BY <1>6, <1>7 DEF lv_refr_now, RefreshTask
<1>8. CASE lv_refr_join_area
  <2>0. /\ i \in 1 .. Len(inv) /\ from \in 1 .. Len(inv) /\ inv \in Seq(OnScreen)
        /\ \A k \in 1 .. Len(inv) : inv[k] \in OnScreen
        /\ UNCHANGED <<spilled, torn>>
    BY <1>8, ListFacts DEF lv_refr_join_area, CoreInv, ListInv, ListOK, Room, marks
  <2>1. CASE ~Joinable(i, from)
    BY <1>8, <1>u, <2>0, <2>1 DEF lv_refr_join_area
  <2>2. CASE Joinable(i, from) /\ ~spilled /\ ~torn
    <3> DEFINE n == Join(inv[i], inv[from])
    <3>1. inv' = [inv EXCEPT ![i] = n] /\ joined' = joined \cup {from}
      BY <1>8, <2>2 DEF lv_refr_join_area
    <3>2. i # from /\ i \notin joined /\ from \notin joined /\ joined \subseteq 1 .. Len(inv)
      BY <2>2 DEF Joinable, CoreInv, ListInv
    <3>3. IsIn(inv[i], n) /\ IsIn(inv[from], n) /\ n \in OnScreen
      <4>1. ~Empty(inv[i]) /\ ~Empty(inv[from])
        BY <2>0 DEF CoreInv, ListOK
      <4> QED BY <2>0, <4>1, InOrder, JoinOn
    <3> HIDE DEF n
    <3>4. /\ Len(inv') = Len(inv) /\ inv'[i] = n
          /\ \A k \in 1 .. Len(inv) : k # i => inv'[k] = inv[k]
      BY <2>0, <3>1
    <3>5. ASSUME NEW k \in joined' PROVE \E j \in 1 .. Len(inv') \ joined' : IsIn(inv'[k], inv'[j])
      <4>1. k # i /\ inv'[k] = inv[k] /\ k \in 1 .. Len(inv)
        BY <2>0, <3>1, <3>2, <3>4
      <4>2. i \in 1 .. Len(inv') \ joined'
        BY <2>0, <3>1, <3>2, <3>4
      <4>3. CASE k = from
        BY <3>3, <3>4, <4>1, <4>2, <4>3
      <4>4. CASE k \in joined
        <5>1. PICK j \in 1 .. Len(inv) \ joined : IsIn(inv[k], inv[j])
          BY <2>2, <4>4 DEF JoinInv
        <5>2. CASE j = i \/ j = from
          <6>1. IsIn(inv[k], n)
            BY <2>0, <3>3, <4>1, <5>1, <5>2, InOrder
          <6> QED BY <3>4, <4>1, <4>2, <6>1
        <5>3. CASE j # i /\ j # from
          BY <3>1, <3>4, <4>1, <5>1, <5>3
        <5> QED BY <5>2, <5>3
      <4> QED BY <3>1, <4>3, <4>4
    <3> QED BY <3>5 DEF JoinInv
  <2> QED BY <2>0, <2>1, <2>2 DEF JoinInv
<1>9. CASE SkipJoined \/ lv_refr_area \/ lv_refr_area_part \/ lv_refr_vdb_flush
  BY <1>9, <1>u DEF SkipJoined, lv_refr_area, lv_refr_area_part, lv_refr_vdb_flush, list, marks
<1>10. CASE lv_disp_flush_ready \/ AreaDone \/ \E g \in Monitors : Blt(g)
  BY <1>10, <1>u DEF lv_disp_flush_ready, AreaDone, Blt, list, marks
<1>11. CASE RefreshDone
  BY <1>11, <1>e DEF RefreshDone
<1>12. CASE DrawRaises
  <2>1. torn' = (torn \/ (spilled /\ joined # {})) /\ UNCHANGED <<inv, joined>>
    BY <1>12 DEF DrawRaises, list
  <2>2. CASE joined = {}
    BY <1>e, <2>1, <2>2
  <2>3. CASE joined # {}
    BY <1>u, <2>1, <2>3
  <2> QED BY <2>2, <2>3
<1>13. ASSUME NEW a \in DrawAreas, DrawInvalidates(a) PROVE JoinInv'
  <2>1. /\ lv_inv_area(a) /\ a \in Box /\ joined' = joined /\ torn' = torn
        /\ spilled' = (spilled \/ Overflows(a))
    BY <1>13, AreasAreBoxes DEF DrawInvalidates
  <2>2. CASE Replaced(a)
    <3>1. Overflows(a)
      BY <2>2 DEF Replaced, Overflows
    <3> QED BY <2>1, <3>1 DEF JoinInv
  <2>3. CASE ~Replaced(a)
    BY <2>1, <2>3, AddKeepsJoin DEF JoinInv
  <2> QED BY <2>2, <2>3
<1>14. CASE \E g \in Monitors : Plug(g) \/ Unplug(g)
  BY <1>14, <1>u DEF Plug, Unplug, list, marks
<1>15. CASE UNCHANGED vars
  BY <1>15, <1>u DEF vars, list, marks
<1> QED BY <1>1, <1>2, <1>3, <1>4, <1>5, <1>7, <1>8, <1>9, <1>10, <1>11, <1>12, <1>13, <1>14, <1>15
      DEF Next, Script, Refresh

\* Every step keeps AreaInv.
LEMMA AreaStep ==
  ASSUME CoreInv, AreaInv, [Next]_vars
  PROVE  AreaInv'
<1> USE DEF AreaInv, InArea
<1>u. ASSUME UNCHANGED <<inv, joined, i, area, row, y2, held, spot, pc, spilled>> PROVE AreaInv'
  BY <1>u
<1>1. CASE pc' \notin {"part", "drawing", "blt"}
  BY <1>1
<1>2. CASE Script
  <2>1. pc' \in {"script", "join"}
    BY <1>2 DEF Script, monitor_init, monitor_deinit, lv_init, lv_deinit, NewScript, lv_disp_drv_register,
          HandlerWalksFreed, lv_disp_load_scr, DeleteScreen, lv_refr_now, RefreshTask, StartRefresh,
          OtherTaskRaises, Invalidate, ScriptInvalidates
  <2> QED BY <1>1, <2>1
<1>3. CASE lv_refr_join_area \/ SkipJoined \/ AreaDone \/ RefreshDone \/ DrawRaises
  BY <1>1, <1>3 DEF lv_refr_join_area, SkipJoined, AreaDone, RefreshDone, DrawRaises
<1>4. CASE lv_refr_area
  <2>1. /\ area' = inv[i] /\ row' = inv[i].y1 /\ y2' = inv[i].y2 /\ pc' = "part" /\ i \notin joined
        /\ UNCHANGED <<inv, joined, i>> /\ i \in 1 .. Len(inv)
    BY <1>4, ListFacts DEF lv_refr_area, list, CoreInv, LoopOK
  <2>2. inv[i].y1 \in Int
    BY <2>1, ListFacts DEF CoreInv, OnScreen
  <2> QED BY <2>1, <2>2
<1>5. CASE lv_refr_area_part
  <2>1. /\ pc = "part" /\ pc' = "drawing" /\ held' = Has(part', spot)
        /\ part' = [x1 |-> area.x1, x2 |-> area.x2, y1 |-> row, y2 |-> Min2(row + max_row - 1, y2)]
        /\ UNCHANGED <<inv, joined, i, area, row, y2, spot, spilled>>
    BY <1>5 DEF lv_refr_area_part, list, marks
  <2>2. /\ area \in OnScreen /\ row \in Int /\ y2 \in Int /\ max_row \in Int
        /\ spot[1] \in Int /\ spot[2] \in Int
    BY PixelOnScreen DEF CoreInv, LoopOK
  <2>3. ASSUME ~spilled, Has(part', spot) PROVE Has(area, spot)
    <3>1. row >= area.y1 /\ y2 = area.y2
      BY <2>1, <2>3
    <3>2. Min2(row + max_row - 1, y2) \in Int /\ Min2(row + max_row - 1, y2) <= y2
      BY <2>2 DEF Min2
    <3>3. spot[1] \in area.x1 .. area.x2 /\ spot[2] \in row .. Min2(row + max_row - 1, y2)
      BY <2>1, <2>3 DEF Has
    <3>4. area.y1 \in Int
      BY <2>2 DEF OnScreen
    <3> QED BY <2>2, <3>1, <3>2, <3>3, <3>4 DEF Has
  <2> QED BY <2>1, <2>3
<1>r. ASSUME pc \in {"drawing", "blt"}, NextRow, pc' = "part", UNCHANGED <<inv, joined, i, area, y2, spilled>>
      PROVE  AreaInv'
  <2>1. row \in Int /\ max_row \in Int /\ max_row >= 1 /\ row' = row + max_row /\ area.y1 \in Int
    BY <1>r, SizeAssumption DEF CoreInv, LoopOK, NextRow, OnScreen
  <2> QED BY <1>r, <2>1
<1>6. CASE lv_refr_vdb_flush
  <2>1. pc = "drawing" /\ UNCHANGED <<inv, joined, i, area, y2, held, spot, spilled>>
    BY <1>6 DEF lv_refr_vdb_flush, list, marks, pixel
  <2>2. CASE gops = {}
    BY <1>6, <1>r, <2>1, <2>2 DEF lv_refr_vdb_flush
  <2>3. CASE gops # {}
    <3>1. row' = row /\ pc' = "blt"
      BY <1>6, <2>3 DEF lv_refr_vdb_flush
    <3> QED BY <2>1, <3>1
  <2> QED BY <2>2, <2>3
<1>7. CASE \E g \in Monitors : Blt(g)
  BY <1>7, <1>u DEF Blt, list, marks
<1>8. CASE lv_disp_flush_ready
  BY <1>8, <1>r DEF lv_disp_flush_ready, list, marks
<1>9. ASSUME NEW a \in DrawAreas, DrawInvalidates(a) PROVE AreaInv'
  <2>1. /\ pc = "drawing" /\ lv_inv_area(a) /\ a \in Box /\ spilled' = (spilled \/ Overflows(a))
        /\ area' = (IF Overflows(a) /\ i = 1 THEN Screen ELSE area)
        /\ held' \in {FALSE, held}
        /\ UNCHANGED <<joined, i, row, y2, pc, spot>>
    BY <1>9, AreasAreBoxes DEF DrawInvalidates
  <2>2. SUFFICES ASSUME ~spilled' PROVE AreaInv'
    OBVIOUS
  <2>3. ~spilled /\ ~Overflows(a) /\ area' = area
    BY <2>1, <2>2
  <2>4. Kept(a) \/ Added(a)
    BY <2>1, <2>3, InvArea DEF CoreInv, Replaced, Overflows
  <2>5. i \in 1 .. Len(inv)
    BY <2>1, <2>3, ListFacts DEF CoreInv, ListInv, LoopOK
  <2>6. inv'[i] = inv[i]
    BY <2>4, <2>5 DEF Kept, Added
  <2> QED BY <2>1, <2>3, <2>6
<1>10. CASE \E g \in Monitors : Plug(g) \/ Unplug(g)
  BY <1>10, <1>u DEF Plug, Unplug, list, marks, loop, pixel
<1>11. CASE UNCHANGED vars
  BY <1>11, <1>u DEF vars, list, marks, loop, pixel
<1> QED BY <1>2, <1>3, <1>4, <1>5, <1>6, <1>7, <1>8, <1>9, <1>10, <1>11 DEF Next, Refresh

\* What NothingForgotten says of a monitor that lacks the pixel.
Waits == \E k \in 1 .. Len(inv) \ joined : Has(inv[k], spot)
Awaits(g) == IF pc = "script" THEN (refr_on \/ raised) /\ Waits ELSE StillDrawn(g)
\* The pixel is in an area that the refresh reaches later.
Ahead == \E k \in i + 1 .. Len(inv) : k \notin joined /\ Has(inv[k], spot)

\* Invalidating an area keeps a listed pixel listed, and lists the pixels of the area.
LEMMA StaysListed ==
  ASSUME CoreInv, JoinInv, NEW a \in Box, ScriptInvalidates(a), ~torn',
         Has(a, spot) \/ ((refr_on \/ raised) /\ Waits)
  PROVE  (refr_on' \/ raised') /\ Waits'
<1>f. FlagOK /\ ListOK
  BY DEF CoreInv
<1>0. Len(inv) \in Nat /\ \A k \in 1 .. Len(inv) : inv[k] \in OnScreen
  BY <1>f, ListFacts
<1>s. /\ pc = "script" /\ lv_inv_area(a) /\ torn' = (torn \/ (Overflows(a) /\ joined # {}))
      /\ UNCHANGED <<joined, raised, spot>>
  BY DEF ScriptInvalidates
<1>t. ~torn /\ ~spilled /\ joined \subseteq 1 .. Len(inv) /\ (inv # <<>> => refr_on \/ raised)
  BY <1>s DEF CoreInv, ListInv
<1>1. Kept(a) \/ Added(a) \/ Replaced(a)
  BY <1>f, <1>s, InvArea
<1>2. CASE Replaced(a)
  <2>1. Len(inv') = 1 /\ inv'[1] = Screen /\ refr_on' = TRUE
    BY <1>2 DEF Replaced
  <2>2. joined' = {}
    BY <1>2, <1>s DEF Replaced, Overflows
  <2> QED BY <1>f, <1>s, <2>1, <2>2, PixelOnScreen DEF Waits
<1>3. CASE (refr_on \/ raised) /\ Waits
  <2>1. PICK k \in 1 .. Len(inv) \ joined : Has(inv[k], spot)
    BY <1>3 DEF Waits
  <2>2. CASE Kept(a)
    BY <1>3, <1>s, <2>2 DEF Kept, Waits
  <2>3. CASE Added(a)
    <3>1. k \in 1 .. Len(inv') \ joined' /\ inv'[k] = inv[k] /\ refr_on'
      BY <1>0, <1>s, <2>3 DEF Added
    <3> QED BY <1>s, <2>1, <3>1 DEF Waits
  <2> QED BY <1>1, <1>2, <2>2, <2>3
<1>4. CASE Has(a, spot)
  <2>0. /\ Has(Intersect(a, Screen), spot) /\ ~Empty(Intersect(a, Screen))
        /\ \A b \in OnScreen : IsIn(Intersect(a, Screen), b) => Has(b, spot)
    BY <1>f, <1>4, PixelCut
  <2>1. CASE Kept(a)
    <3>1. PICK k \in 1 .. Len(inv) : IsIn(Intersect(a, Screen), inv[k])
      BY <2>0, <2>1 DEF Kept, Listed
    <3>2. Has(inv[k], spot)
      BY <1>0, <2>0, <3>1
    <3>3. inv # <<>>
      BY <1>f, <1>0, <3>1 DEF ListOK, Room
    <3>4. Waits
      <4>1. CASE k \notin joined
        BY <3>2, <4>1 DEF Waits
      <4>2. CASE k \in joined
        <5>1. PICK j \in 1 .. Len(inv) \ joined : IsIn(inv[k], inv[j])
          BY <1>t, <4>2 DEF JoinInv
        <5>2. Has(inv[j], spot)
          BY <1>0, <1>f, <3>2, <5>1, InOrder
        <5> QED BY <5>1, <5>2 DEF Waits
      <4> QED BY <4>1, <4>2
    <3> QED BY <1>s, <1>t, <2>1, <3>3, <3>4 DEF Kept, Waits
  <2>2. CASE Added(a)
    <3>1. /\ Len(inv) + 1 \in 1 .. Len(inv') /\ refr_on' /\ Len(inv) + 1 \notin joined'
          /\ inv'[Len(inv) + 1] = Intersect(a, Screen)
      BY <1>0, <1>s, <1>t, <2>2 DEF Added
    <3> QED BY <1>s, <2>0, <3>1 DEF Waits
  <2> QED BY <1>1, <1>2, <2>1, <2>2
<1> QED BY <1>3, <1>4

\* Joining two areas loses no pixel of the areas that are still to be drawn.
LEMMA StaysJoined ==
  ASSUME CoreInv, lv_refr_join_area,
         \E k \in 1 .. Len(inv) : k \notin joined /\ Has(inv[k], spot)
  PROVE  /\ Len(inv') = Len(inv)
         /\ \E k \in 1 .. Len(inv) : k \notin joined' /\ Has(inv'[k], spot)
<1>0. /\ pc = "join" /\ i \in 1 .. Len(inv) /\ from \in 1 .. Len(inv)
      /\ inv \in Seq(OnScreen) /\ \A k \in 1 .. Len(inv) : inv[k] \in OnScreen /\ ~Empty(inv[k])
      /\ FlagOK
  BY ListFacts DEF lv_refr_join_area, CoreInv, ListInv, ListOK, Room
<1>1. PICK k \in 1 .. Len(inv) : k \notin joined /\ Has(inv[k], spot)
  OBVIOUS
<1>2. CASE ~Joinable(i, from)
  BY <1>1, <1>2 DEF lv_refr_join_area
<1>3. CASE Joinable(i, from)
  <2> DEFINE j == Join(inv[i], inv[from])
  <2>1. inv' = [inv EXCEPT ![i] = j] /\ joined' = joined \cup {from}
    BY <1>3 DEF lv_refr_join_area
  <2>2. i # from /\ i \notin joined
    BY <1>3 DEF Joinable
  <2>3. Has(inv[i], spot) \/ Has(inv[from], spot) => Has(j, spot)
    BY <1>0, JoinOn DEF FlagOK, PlaceOK
  <2> HIDE DEF j
  <2>4. /\ Len(inv') = Len(inv) /\ inv'[i] = j
        /\ \A n \in 1 .. Len(inv) : n # i => inv'[n] = inv[n]
    BY <1>0, <2>1
  <2>5. CASE k = i \/ k = from
    BY <1>0, <1>1, <2>1, <2>2, <2>3, <2>4, <2>5
  <2>6. CASE k # i /\ k # from
    BY <1>1, <2>1, <2>4, <2>6
  <2> QED BY <2>5, <2>6
<1> QED BY <1>2, <1>3

\* No step forgets the pixel.
LEMMA PixelStep ==
  ASSUME CoreInv, CoreInv', JoinInv, AreaInv, OwedInv, NothingForgotten, [Next]_vars
  PROVE  NothingForgotten'
<1> SUFFICES ASSUME NEW g \in owed', Shows(g), ~late', ~torn' PROVE Awaits(g)'
  BY DEF NothingForgotten, Awaits, Waits, Shows
<1>o. ASSUME g \in owed, ~late, ~torn PROVE Awaits(g)
  BY <1>o DEF NothingForgotten, Awaits, Waits
<1>f. /\ FlagOK /\ ListOK /\ LoopOK /\ Len(inv) \in Nat /\ i \in Nat /\ i >= 1
      /\ \A k \in 1 .. Len(inv) : inv[k] \in OnScreen
  BY ListFacts, InvAssumption DEF CoreInv, LoopOK
<1>p. spot[1] \in Nat /\ spot[2] \in Nat /\ Has(Screen, spot)
  BY <1>f, PixelOnScreen, SizeAssumption
<1>r. row \in Nat /\ y2 \in Nat /\ max_row \in Nat /\ max_row >= 1
  BY <1>f, SizeAssumption DEF LoopOK
<1>u. ASSUME UNCHANGED <<inv, joined, refr_on, loop, pc, spot, held, late, marks>>, owed' \subseteq owed
      PROVE  Awaits(g)'
  <2>1. Awaits(g)
    BY <1>o, <1>u DEF marks
  <2> QED BY <1>u, <2>1 DEF Awaits, Waits, StillDrawn, loop, marks
<1>1. CASE monitor_init \/ monitor_deinit \/ lv_init \/ HandlerWalksFreed \/ OtherTaskRaises
  BY <1>1, <1>u DEF monitor_init, monitor_deinit, lv_init, HandlerWalksFreed, OtherTaskRaises, list, pixel
<1>2. CASE lv_deinit \/ NewScript
  BY <1>2 DEF lv_deinit, NewScript, NoDisplay
<1>3. CASE lv_disp_drv_register
  <2>1. /\ pc' = "script" /\ refr_on' = TRUE /\ inv' = <<Screen>> /\ spot' = spot
        /\ joined' = joined /\ ~disp /\ pc = "script"
    BY <1>3 DEF lv_disp_drv_register
  <2>2. joined = {}
    BY <2>1 DEF CoreInv, ListInv
  <2> QED BY <1>p, <2>1, <2>2, ListFacts DEF Awaits, Waits
<1>4. CASE lv_disp_load_scr
  <2>1. ScriptInvalidates(Screen) /\ pc' = "script"
    BY <1>4 DEF lv_disp_load_scr, ScriptInvalidates
  <2> QED BY <1>p, <2>1, ScreenOn, StaysListed DEF Awaits
<1>5. CASE DeleteScreen
  BY <1>5 DEF DeleteScreen
<1>6. ASSUME NEW a \in Areas, Invalidate(a) PROVE Awaits(g)'
  <2>1. /\ ScriptInvalidates(a) /\ pc = "script" /\ pc' = "script" /\ a \in Box
        /\ ~Has(a, spot) => g \in owed /\ ~late
        /\ ~torn
    BY <1>6, AreasAreBoxes DEF Invalidate, ScriptInvalidates, Repaint
  <2>2. Has(a, spot) \/ ((refr_on \/ raised) /\ Waits)
    BY <1>o, <2>1 DEF Awaits
  <2> QED BY <2>1, <2>2, StaysListed DEF Awaits
<1>s. ASSUME StartRefresh PROVE Awaits(g)'
  <2>1. pc = "script" /\ owed' = owed /\ late' = late /\ spot' = spot /\ joined' = joined
    BY <1>s DEF StartRefresh, pixel
  <2>2. act_scr
    BY <2>1 DEF OwedInv
  <2>3. ~torn
    BY <1>s, <2>2 DEF StartRefresh
  <2>4. Waits
    BY <1>o, <2>1, <2>3 DEF Awaits
  <2>5. inv # <<>>
    BY <1>f, <2>4 DEF Waits, ListOK, Room
  <2>6. pc' = "join" /\ inv' = inv
    BY <1>s, <2>2, <2>5 DEF StartRefresh
  <2> QED BY <2>1, <2>4, <2>6 DEF Awaits, Waits, StillDrawn
<1>7. CASE lv_refr_now \/ RefreshTask
  BY <1>7, <1>s DEF lv_refr_now, RefreshTask
<1>8. CASE lv_refr_join_area
  <2>1. pc = "join" /\ owed' = owed /\ late' = late /\ spot' = spot /\ torn' = torn
    BY <1>8 DEF lv_refr_join_area, pixel, marks
  <2>2. \E k \in 1 .. Len(inv) : k \notin joined /\ Has(inv[k], spot)
    BY <1>f, <1>o, <2>1 DEF Awaits, StillDrawn
  <2>3. PICK k \in 1 .. Len(inv) : Len(inv') = Len(inv) /\ k \notin joined' /\ Has(inv'[k], spot)
    BY <1>8, <2>2, StaysJoined
  <2>4. CASE pc' = "join"
    BY <2>1, <2>3, <2>4 DEF Awaits, StillDrawn
  <2>5. CASE pc' = "areas"
    <3>1. i' = 1
      BY <1>8, <1>f, <2>5 DEF lv_refr_join_area
    <3>2. k = 1 \/ k \in i' + 1 .. Len(inv')
      BY <1>f, <2>3, <3>1
    <3>3. i' <= Len(inv')
      BY <1>f, <2>3, <3>1
    <3> QED BY <2>1, <2>3, <2>5, <3>1, <3>2, <3>3 DEF Awaits, StillDrawn
  <2> QED BY <1>8, <2>4, <2>5 DEF lv_refr_join_area
\* Behind index i there is another area, and the refresh goes there.
<1>n. ASSUME Ahead, i' = i + 1, pc' = "areas", UNCHANGED <<inv, joined, spot>> PROVE Awaits(g)'
  <2>1. PICK k \in i + 1 .. Len(inv) : k \notin joined /\ Has(inv[k], spot)
    BY <1>n DEF Ahead
  <2>2. (k = i' \/ k \in i' + 1 .. Len(inv)) /\ i' <= Len(inv)
    BY <1>f, <1>n, <2>1
  <2> QED BY <1>n, <2>1, <2>2 DEF Awaits, StillDrawn
<1>9. CASE SkipJoined
  <2>1. /\ pc = "areas" /\ i \in joined /\ owed' = owed /\ late' = late /\ torn' = torn
        /\ i' = i + 1 /\ pc' = "areas" /\ UNCHANGED <<inv, joined, spot>>
    BY <1>9 DEF SkipJoined, list, pixel, marks
  <2>2. Ahead
    BY <1>o, <2>1 DEF Awaits, StillDrawn, Ahead
  <2> QED BY <1>n, <2>1, <2>2
<1>10. CASE lv_refr_area
  <2>1. /\ pc = "areas" /\ pc' = "part" /\ area' = inv[i] /\ row' = inv[i].y1 /\ y2' = inv[i].y2
        /\ UNCHANGED <<inv, joined, i, spot, owed, late, torn>>
    BY <1>10 DEF lv_refr_area, list, pixel, marks
  <2>2. Ahead \/ Has(inv[i], spot)
    BY <1>o, <2>1 DEF Awaits, StillDrawn, Ahead
  <2> QED BY <2>1, <2>2 DEF Awaits, StillDrawn, Ahead, Has
<1>11. CASE lv_refr_area_part
  <2>1. /\ pc = "part" /\ pc' = "drawing" /\ held' = Has(part', spot) /\ row <= y2
        /\ part' = [x1 |-> area.x1, x2 |-> area.x2, y1 |-> row, y2 |-> Min2(row + max_row - 1, y2)]
        /\ UNCHANGED <<inv, joined, i, spot, owed, late, torn, area, row, y2, max_row>>
    BY <1>11 DEF lv_refr_area_part, list, marks
  <2>2. Ahead \/ (spot[1] \in area.x1 .. area.x2 /\ spot[2] \in row .. y2)
    BY <1>o, <2>1 DEF Awaits, StillDrawn, Ahead
  <2>3. CASE Ahead
    BY <2>1, <2>3 DEF Awaits, StillDrawn, Ahead
  <2>4. CASE spot[1] \in area.x1 .. area.x2 /\ spot[2] \in row .. y2
    <3>1. spot[2] \in row .. Min2(row + max_row - 1, y2) \/ spot[2] \in row + max_row .. y2
      BY <1>p, <1>r, <2>4 DEF Min2
    <3>2. spot[2] \in row .. Min2(row + max_row - 1, y2) => held'
      BY <2>1, <2>4 DEF Has
    <3> QED BY <2>1, <2>4, <3>1, <3>2 DEF Awaits, StillDrawn
  <2> QED BY <2>2, <2>3, <2>4
<1>12. CASE lv_refr_vdb_flush
  <2>1. /\ pc = "drawing" /\ UNCHANGED <<inv, joined, i, spot, owed, late, torn, held, area, y2, max_row, gops>>
    BY <1>12 DEF lv_refr_vdb_flush, list, pixel, marks
  <2>2. g \in gops
    BY <2>1 DEF OwedInv
  <2>3. pc' = "blt" /\ todo' = gops /\ row' = row
    BY <1>12, <2>2 DEF lv_refr_vdb_flush
  <2>4. Awaits(g)
    BY <1>o, <2>1
  <2> QED BY <2>1, <2>2, <2>3, <2>4 DEF Awaits, StillDrawn
<1>13. ASSUME NEW m \in Monitors, Blt(m) PROVE Awaits(g)'
  <2>1. /\ pc = "blt" /\ todo' = todo \ {m} /\ owed' \subseteq owed
        /\ owed' = IF m \in gops /\ held /\ part.x2 < Res[m].w /\ part.y2 < Res[m].h
                   THEN owed \ {m} ELSE owed
        /\ UNCHANGED <<inv, joined, i, spot, held, torn, area, row, y2, max_row, pc>>
    BY <1>13 DEF Blt, list, marks
  <2>2. ~late
    BY <1>13, <1>f DEF Blt, FlagOK, MarksOK
  <2>3. Awaits(g)
    BY <1>o, <2>1, <2>2
  <2>4. CASE g # m
    BY <2>1, <2>3, <2>4 DEF Awaits, StillDrawn
  <2>5. CASE g = m
    <3>1. m \in gops
      BY <2>1, <2>5 DEF OwedInv
    <3>2. Res[m].w \in Nat /\ Res[m].h \in Nat
      BY MonitorAssumption
    <3>3. part.x2 < Res[m].w /\ part.y2 < Res[m].h
      <4>1. part.x2 \in 0 .. Width - 1 /\ part.y2 \in 0 .. Height - 1
        BY <1>f DEF LoopOK, OnScreen
      <4>2. Res[m].w >= Width /\ Res[m].h >= Height
        BY <2>5 DEF Shows
      <4> QED BY <3>2, <4>1, <4>2, SizeAssumption
    <3>4. ~held
      BY <2>1, <2>5, <3>1, <3>3
    <3> QED BY <2>1, <2>3, <3>4 DEF Awaits, StillDrawn
  <2> QED BY <2>4, <2>5
<1>14. CASE lv_disp_flush_ready
  <2>1. /\ pc = "blt" /\ todo = {} /\ pc' = "part" /\ row' = row + max_row
        /\ UNCHANGED <<inv, joined, i, spot, owed, late, torn, area, y2>>
    BY <1>14 DEF lv_disp_flush_ready, NextRow, list, marks
  <2>2. Awaits(g)
    BY <1>o, <2>1
  <2> QED BY <2>1, <2>2 DEF Awaits, StillDrawn
<1>15. CASE AreaDone
  <2>1. /\ pc = "part" /\ row > y2 /\ owed' = owed /\ late' = late /\ torn' = torn
        /\ i' = i + 1 /\ pc' = "areas" /\ UNCHANGED <<inv, joined, spot>>
    BY <1>15 DEF AreaDone, list
  <2>2. ~(spot[2] \in row .. y2)
    BY <1>p, <1>r, <2>1
  <2>3. Ahead
    BY <1>o, <2>1, <2>2 DEF Awaits, StillDrawn, Ahead
  <2> QED BY <1>n, <2>1, <2>3
<1>16. CASE RefreshDone
  <2>1. pc = "areas" /\ i > Len(inv) /\ owed' = owed /\ ~late /\ ~torn
    BY <1>16 DEF RefreshDone
  <2>2. ~(i <= Len(inv)) /\ i + 1 .. Len(inv) = {}
    BY <1>f, <2>1
  <2> QED BY <1>o, <2>1, <2>2 DEF Awaits, StillDrawn
<1>20. CASE DrawRaises
  <2>1. /\ pc = "drawing" /\ pc' = "script" /\ raised' = TRUE /\ torn' = (torn \/ (spilled /\ joined # {}))
        /\ UNCHANGED <<inv, joined, owed, late, spot>>
    BY <1>20 DEF DrawRaises, list
  <2>2. Awaits(g) /\ ~torn /\ (spilled => joined = {})
    BY <1>o, <2>1
  <2>3. Waits
    <3>1. CASE spilled
      <4>1. inv # <<>> /\ inv[1] = Screen
        BY <3>1 DEF CoreInv, ListInv
      <4>2. 1 \in 1 .. Len(inv)
        BY <1>f, <4>1 DEF ListOK, Room
      <4> QED BY <1>p, <2>2, <3>1, <4>1, <4>2 DEF Waits
    <3>2. CASE ~spilled
      <4>1. /\ area = inv[i] /\ i \notin joined /\ row >= area.y1 /\ y2 = area.y2
            /\ held => Has(area, spot)
        BY <2>1, <3>2 DEF AreaInv, InArea
      <4>2. i \in 1 .. Len(inv) /\ area.y1 \in Int
        BY <1>f, <2>1, <3>2 DEF CoreInv, ListInv, InArea, LoopOK, OnScreen
      <4>3. CASE Ahead
        BY <1>f, <4>3 DEF Ahead, Waits
      <4>4. CASE held
        BY <4>1, <4>2, <4>4 DEF Waits
      <4>5. CASE spot[1] \in area.x1 .. area.x2 /\ spot[2] \in row + max_row .. y2
        <5>1. Has(area, spot)
          BY <1>p, <1>r, <4>1, <4>2, <4>5 DEF Has
        <5> QED BY <4>1, <4>2, <5>1 DEF Waits
      <4> QED BY <2>1, <2>2, <4>3, <4>4, <4>5 DEF Awaits, StillDrawn, Ahead
    <3> QED BY <3>1, <3>2
  <2> QED BY <2>1, <2>3 DEF Awaits, Waits
<1>17. ASSUME NEW a \in DrawAreas, DrawInvalidates(a) PROVE Awaits(g)'
  <2> DEFINE c == Intersect(a, Screen)
             spills == Overflows(a)
             later == \/ \E k \in i + 1 .. Len(inv) : k \notin joined /\ IsIn(c, inv[k])
                      \/ IsIn(c, area) /\ spot[2] \in row + max_row .. y2
  <2>1. /\ pc = "drawing" /\ lv_inv_area(a) /\ a \in Box
        /\ spilled' = (spilled \/ spills)
        /\ area' = IF spills /\ i = 1 THEN Screen ELSE area
        /\ UNCHANGED <<joined, i, row, y2, max_row, pc, spot, torn>>
    BY <1>17, AreasAreBoxes DEF DrawInvalidates
  <2>2. /\ owed' = (IF Has(a, spot) /\ act_scr' THEN gops ELSE owed)
        /\ held' \in (IF Has(a, spot) THEN {FALSE, held} ELSE {held})
        /\ late' = (late \/ (Has(a, spot) /\ Listed(c) /\ ~later) \/ (spills /\ owed' # {}))
    BY <1>17 DEF DrawInvalidates, Repaint
  <2>3. ~late /\ ~(Has(a, spot) /\ Listed(c) /\ ~later) /\ ~spills /\ ~torn
    BY <2>1, <2>2
  <2>4. area' = area
    BY <2>1, <2>3
  <2>5. Kept(a) \/ Added(a)
    BY <1>f, <2>1, <2>3, InvArea DEF Replaced, Overflows
  <2>6. /\ Len(inv') \in Nat /\ Len(inv') >= Len(inv)
        /\ \A k \in 1 .. Len(inv) : inv'[k] = inv[k]
    BY <1>f, <2>5 DEF Kept, Added
  <2>7. Ahead => Ahead'
    BY <1>f, <2>1, <2>6 DEF Ahead
  <2>8. CASE ~Has(a, spot)
    <3>1. owed' = owed /\ held' = held
      BY <2>2, <2>8
    <3>2. Awaits(g)
      BY <1>o, <2>3, <3>1
    <3>3. CASE Ahead
      BY <2>1, <2>7, <3>3 DEF Awaits, StillDrawn, Ahead
    <3>4. CASE ~Ahead
      BY <2>1, <2>4, <3>1, <3>2, <3>4 DEF Awaits, StillDrawn, Ahead
    <3> QED BY <3>3, <3>4
  <2>9. CASE Has(a, spot)
    <3>0. /\ Has(c, spot) /\ ~Empty(c)
          /\ \A b \in OnScreen : IsIn(c, b) => Has(b, spot)
      BY <1>f, <2>1, <2>9, PixelCut
    <3>1. CASE Kept(a)
      <4>1. later
        BY <2>3, <2>9, <3>0, <3>1 DEF Kept
      <4>2. CASE \E k \in i + 1 .. Len(inv) : k \notin joined /\ IsIn(c, inv[k])
        <5>1. PICK k \in i + 1 .. Len(inv) : k \notin joined /\ IsIn(c, inv[k])
          BY <4>2
        <5>2. k \in 1 .. Len(inv)
          BY <1>f
        <5>3. Has(inv[k], spot)
          BY <1>f, <3>0, <5>1, <5>2
        <5>4. Ahead
          BY <5>1, <5>3 DEF Ahead
        <5> QED BY <2>1, <2>7, <5>4 DEF Awaits, StillDrawn, Ahead
      <4>3. CASE IsIn(c, area) /\ spot[2] \in row + max_row .. y2
        <5>1. Has(area, spot)
          BY <1>f, <3>0, <4>3 DEF LoopOK
        <5> QED BY <2>1, <2>4, <4>3, <5>1 DEF Awaits, StillDrawn, Has
      <4> QED BY <4>1, <4>2, <4>3
    <3>2. CASE Added(a)
      <4>1. ~spilled
        <5>1. ASSUME spilled PROVE Listed(c)
          <6>1. inv # <<>> /\ inv[1] = Screen
            BY <2>1, <5>1 DEF CoreInv, ListInv
          <6>2. 1 \in 1 .. Len(inv)
            BY <1>f, <6>1 DEF ListOK, Room
          <6>3. IsIn(c, Screen)
            <7>1. c \in OnScreen
              BY <3>2 DEF Added
            <7> HIDE DEF c
            <7> QED BY <7>1, SizeAssumption DEF IsIn, OnScreen, Screen
          <6> QED BY <6>1, <6>2, <6>3 DEF Listed
        <5> QED BY <3>2, <5>1 DEF Added
      <4>2. joined \subseteq 1 .. Len(inv) /\ i <= Len(inv)
        BY <2>1, <4>1 DEF CoreInv, ListInv, InArea
      <4>3. Len(inv') = Len(inv) + 1 /\ inv'[Len(inv) + 1] = c
        BY <3>2 DEF Added
      <4>4. Len(inv) + 1 \in i' + 1 .. Len(inv') /\ Len(inv) + 1 \notin joined'
        BY <1>f, <2>1, <4>2, <4>3
      <4>5. Ahead'
        BY <2>1, <3>0, <4>3, <4>4 DEF Ahead
      <4> QED BY <2>1, <4>5 DEF Awaits, StillDrawn, Ahead
    <3> QED BY <2>5, <3>1, <3>2
  <2> QED BY <2>8, <2>9
<1>18. ASSUME NEW m \in Monitors, Plug(m) \/ Unplug(m) PROVE Awaits(g)'
  BY <1>18, <1>u DEF Plug, Unplug, list, pixel
<1>19. CASE UNCHANGED vars
  BY <1>19, <1>u DEF vars, list, pixel
<1> QED BY <1>1, <1>2, <1>3, <1>4, <1>5, <1>6, <1>7, <1>8, <1>9, <1>10, <1>11, <1>12, <1>13, <1>14,
           <1>15, <1>16, <1>17, <1>18, <1>19, <1>20 DEF Next, Script, Refresh

\* A changed pixel is never forgotten (lv_refr.c, EfiMonitor.c), for screens, buffers and
\* lists of any size, any areas and any monitors that come and go, and for drawing
\* callbacks that raise exceptions: until a monitor that is large enough shows it, it is
\* in a listed area that the next refresh draws, with the refresh task scheduled unless a
\* callback raised, or the refresh going on still has it before it, unless it is lost in
\* one of the ways that late and torn record.
THEOREM PixelsKept == Spec => []NothingForgotten
<1> DEFINE Inv == CoreInv /\ JoinInv /\ AreaInv /\ OwedInv /\ NothingForgotten
<1>1. Init => Inv
  BY InitCore DEF Init, OwedInv, NothingForgotten, JoinInv, AreaInv, InArea
<1>2. Inv /\ [Next]_vars => Inv'
  <2> SUFFICES ASSUME Inv, [Next]_vars PROVE Inv'
    OBVIOUS
  <2>1. CoreInv'
    BY CoreStep
  <2>2. JoinInv' /\ AreaInv'
    BY <2>1, JoinStep, AreaStep
  <2>3. OwedInv'
    BY OwedStep DEF CoreInv
  <2>4. NothingForgotten'
    BY <2>1, PixelStep
  <2> QED BY <2>1, <2>2, <2>3, <2>4
<1> QED BY <1>1, <1>2, PTL DEF Spec
=============================================================================
