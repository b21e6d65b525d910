------------------------------- MODULE LvTask -------------------------------
(***************************************************************************)
(* The task scheduler of LVGL (lv_misc/lv_task.c) as a MicroPython script  *)
(* drives it: the script calls lv.task_handler() and lv.tick_inc() in a    *)
(* loop, and the handler calls the tasks back, C functions like the        *)
(* display refresh or Python functions through lv_mpy.c.  A callback may   *)
(* create, delete and reprioritise tasks, the running one included, while  *)
(* the handler holds pointers into the list.                               *)
(*                                                                         *)
(* A task is the address of its list node; a freed address may be used     *)
(* again.  Time is abstracted to the set ready of tasks whose period has   *)
(* elapsed: lv_tick_inc may add any task to it, and a task leaves it when  *)
(* it is run.  A task with period 0 is always ready, also after it has run.*)
(***************************************************************************)
EXTENDS Integers, Sequences

CONSTANTS Task,         \* addresses of list nodes
          NULL,
          HIGHEST,      \* LV_TASK_PRIO_HIGHEST; 0 is LV_TASK_PRIO_OFF
          RepeatCounts, \* repeat counts a script gives: -1 for ever, 1 once
          CallbackOps   \* what callbacks do besides returning

ASSUME NullAssumption == NULL \notin Task
ASSUME HighestAssumption == HIGHEST \in Nat /\ HIGHEST >= 2
ASSUME RepeatAssumption == RepeatCounts \subseteq {-1, 1}
ASSUME OpsAssumption == CallbackOps \subseteq {"create", "del", "prio", "ready", "repeat", "raise"}

VARIABLES
  ll,                \* _lv_task_ll: the tasks, highest priority first
  prio, repeat_count,
  async,             \* tasks made by lv_async_call
  zero,              \* tasks with period 0
  ready,             \* tasks whose lv_task_time_remaining is 0
  lv_task_run, already_running,
  task_deleted, task_created, task_list_changed,
  act,               \* _lv_task_act
  task_interrupter, next,
  branch,            \* the arm of the handler's IF that called lv_task_exec
  pc,                \* who runs: the script, the handler or a callback
  ran,               \* history: tasks this call of the handler has run,
  late               \* and those that are due and were touched by its callbacks since

flags == <<task_deleted, task_created, task_list_changed>>
tasks == <<ll, prio, repeat_count, async, zero, ready>>
history == <<late, ran>>
handler == <<already_running, task_interrupter, next, branch>>
vars == <<tasks, flags, handler, act, lv_task_run, pc, history>>

OFF == 0
Prio == OFF .. HIGHEST
Pointer == Task \cup {NULL}
Listed == {ll[i] : i \in 1 .. Len(ll)}

\* Every variable has a value its C counterpart can have; the list has no cycle.
TypeOK ==
  /\ ll \in Seq(Task) /\ \A i, j \in 1 .. Len(ll) : ll[i] = ll[j] => i = j
  /\ prio \in [Task -> Prio] /\ repeat_count \in [Task -> {-1, 1}]
  /\ async \subseteq zero /\ zero \subseteq ready /\ ready \subseteq Task
  /\ late \subseteq Task /\ ran \subseteq Task
  /\ lv_task_run \in BOOLEAN /\ already_running \in BOOLEAN
  /\ task_deleted \in BOOLEAN /\ task_created \in BOOLEAN /\ task_list_changed \in BOOLEAN
  /\ act \in Pointer /\ task_interrupter \in Pointer /\ next \in Pointer
  /\ branch \in {"none", "highest", "other"}
  /\ pc \in {"script", "scan", "callback"}

\* _lv_task_core_init: an empty list, handling enabled.
Init ==
  /\ ll = <<>> /\ prio = [t \in Task |-> OFF] /\ repeat_count = [t \in Task |-> -1]
  /\ async = {} /\ zero = {} /\ ready = {} /\ late = {} /\ ran = {}
  /\ lv_task_run = TRUE /\ already_running = FALSE
  /\ task_deleted = FALSE /\ task_created = FALSE /\ task_list_changed = FALSE
  /\ act = NULL /\ task_interrupter = NULL /\ next = NULL /\ branch = "none"
  /\ pc = "script"

-----------------------------------------------------------------------------
(* The list.                                                               *)

\* Fault model of Spot: a task always goes to the tail of the list.
SpotTail(s, p, n) == n = Len(s)

\* The first n tasks of s, and only they, have a higher priority than p: a new
\* task of priority p goes behind them.
Spot(s, p, n) ==
  /\ \A i \in 1 .. n : prio[s[i]] > p
  /\ n < Len(s) => prio[s[n + 1]] <= p

\* s with t behind its first n elements; s without its k-th element.
InsertAfter(s, n, t) ==
  [i \in 1 .. Len(s) + 1 |-> IF i <= n THEN s[i] ELSE IF i = n + 1 THEN t ELSE s[i - 1]]
CutOut(s, k) == [i \in 1 .. Len(s) - 1 |-> IF i < k THEN s[i] ELSE s[i + 1]]

\* _lv_ll_get_head, _lv_ll_get_next.
First(s) == IF s = <<>> THEN NULL ELSE s[1]
NextOf(s, t) ==
  IF \E i \in 1 .. Len(s) - 1 : s[i] = t
  THEN s[1 + CHOOSE i \in 1 .. Len(s) - 1 : s[i] = t]
  ELSE NULL

\* The handler clears the flags before it reads them, so they matter only when
\* they are set in a callback.  late is kept for the same time.
InCallback == pc = "callback"
Touch(t) == late' = IF InCallback /\ t \in ready' THEN late \cup {t} ELSE late \ {t}

\* lv_task_create, with period 0 if isZero, and lv_async_call, with period 0, the
\* highest priority and one run: a node before the first task of no higher priority.
lv_task_create(t, p, count, isZero, isAsync) ==
  /\ t \notin Listed
  /\ \E n \in 0 .. Len(ll) : Spot(ll, p, n) /\ ll' = InsertAfter(ll, n, t)
  /\ prio' = [prio EXCEPT ![t] = p]
  /\ repeat_count' = [repeat_count EXCEPT ![t] = count]
  /\ async' = IF isAsync THEN async \cup {t} ELSE async
  /\ zero' = IF isZero THEN zero \cup {t} ELSE zero
  /\ ready' = IF isZero THEN ready \cup {t} ELSE ready
  /\ task_created' = InCallback /\ task_list_changed' = InCallback
  /\ Touch(t)
  /\ UNCHANGED <<task_deleted, handler, act, lv_task_run, pc, ran>>

\* What lv_task_del does to the list; a freed node is never read again, so it is
\* put back to the values of an unused one.
Unlink(t) ==
  /\ \E k \in 1 .. Len(ll) : ll[k] = t /\ ll' = CutOut(ll, k)
  /\ prio' = [prio EXCEPT ![t] = OFF] /\ repeat_count' = [repeat_count EXCEPT ![t] = -1]
  /\ async' = async \ {t} /\ zero' = zero \ {t} /\ ready' = ready \ {t}

lv_task_del(t) ==
  /\ Unlink(t)
  /\ task_list_changed' = InCallback
  /\ task_deleted' = (task_deleted \/ (InCallback /\ act = t))
  /\ ran' = ran \ {t} /\ late' = late \ {t}
  /\ UNCHANGED <<task_created, handler, act, lv_task_run, pc>>

\* lv_task_set_prio: the task goes before the first one with no higher priority
\* than the new one.  That may be the task itself, which then stays where it is:
\* the same place as when it is taken out first.
lv_task_set_prio(t, p) ==
  /\ prio[t] # p
  /\ \E k \in 1 .. Len(ll), n \in 0 .. Len(ll) - 1 :
       /\ ll[k] = t
       /\ Spot(CutOut(ll, k), p, n)
       /\ ll' = InsertAfter(CutOut(ll, k), n, t)
  /\ prio' = [prio EXCEPT ![t] = p]
  /\ task_list_changed' = InCallback
  /\ UNCHANGED <<repeat_count, async, zero, ready, task_deleted, task_created, handler, act,
                 lv_task_run, pc, ran>>
  /\ Touch(t)

\* The rest of what changes when task t is due next.
Timed(t) ==
  /\ Touch(t)
  /\ UNCHANGED <<ll, prio, repeat_count, async, flags, handler, act, lv_task_run, pc, ran>>

\* lv_task_ready: do not wait for the period.
lv_task_ready(t) ==
  /\ t \in Listed /\ t \notin ready
  /\ ready' = ready \cup {t} /\ zero' = zero
  /\ Timed(t)

\* lv_task_reset: wait for a whole period again.
lv_task_reset(t) ==
  /\ t \in ready /\ t \notin zero
  /\ ready' = ready \ {t} /\ zero' = zero
  /\ Timed(t)

\* With period 0 the task is due for ever; with another one it depends on when it last ran.
lv_task_set_period(t, isZero) ==
  /\ t \in Listed
  /\ IF isZero
     THEN zero' = zero \cup {t} /\ ready' = ready \cup {t}
     ELSE zero' = zero \ {t} /\ ready' \in {ready \cup {t}, ready \ {t}}
  /\ Timed(t)

\* lv_task_set_repeat_count: run for ever or once more.
lv_task_set_repeat_count(t, count) ==
  /\ t \in Listed
  /\ repeat_count' = [repeat_count EXCEPT ![t] = count]
  /\ UNCHANGED <<ll, prio, async, zero, ready, flags, handler, act, lv_task_run, pc, history>>

-----------------------------------------------------------------------------
(* The script between two calls of the handler.                            *)

\* lv_tick_inc: time goes on, and some periods elapse.
lv_tick_inc ==
  /\ pc = "script"
  /\ \E some \in SUBSET Listed : ready' = ready \cup some
  /\ UNCHANGED <<ll, prio, repeat_count, async, zero, flags, handler, act, lv_task_run, pc, history>>

lv_task_enable(en) ==
  /\ pc = "script" /\ lv_task_run' = en
  /\ UNCHANGED <<tasks, flags, handler, act, pc, history>>

\* May the code that is running do op now?  Tasks of lv_async_call are nobody's:
\* the function does not return them.  A callback that lets time pass does what several
\* calls of lv_task_ready do.
May(op) == pc = "script" \/ (pc = "callback" /\ op \in CallbackOps)

Create == May("create") /\ \E t \in Task, p \in Prio :
            \/ \E count \in RepeatCounts, isZero \in BOOLEAN : lv_task_create(t, p, count, isZero, FALSE)
            \/ lv_task_create(t, HIGHEST, 1, TRUE, TRUE)
Delete == May("del") /\ \E t \in Task \ async : lv_task_del(t)
SetPrio == May("prio") /\ \E t \in Task \ async, p \in Prio : lv_task_set_prio(t, p)
Retime == May("ready") /\ \E t \in Task \ async :
            \/ lv_task_ready(t) \/ lv_task_reset(t)
            \/ \E isZero \in BOOLEAN : lv_task_set_period(t, isZero)
Recount == May("repeat") /\ \E t \in Task \ async, count \in RepeatCounts :
             lv_task_set_repeat_count(t, count)

-----------------------------------------------------------------------------
(* lv_task_handler.                                                        *)

\* The head of the do loop: all flags down, start at the highest priority.
StartPass ==
  /\ task_deleted' = FALSE /\ task_created' = FALSE /\ task_list_changed' = FALSE
  /\ act' = First(ll)
  /\ next' = NULL /\ branch' = "none"
  /\ pc' = "scan"

\* A call that is not refused by already_running or lv_task_run; a refused one,
\* such as every call from a callback, returns 1 and changes nothing.
lv_task_handler ==
  /\ pc = "script" /\ ~already_running /\ lv_task_run
  /\ already_running' = TRUE
  /\ task_interrupter' = NULL
  /\ StartPass
  /\ UNCHANGED <<tasks, lv_task_run, history>>

\* Back in the script: the locals are gone, and _lv_task_act and the flags are
\* not read before the handler sets them again.
Leave ==
  /\ pc' = "script"
  /\ act' = NULL /\ task_interrupter' = NULL /\ next' = NULL /\ branch' = "none"
  /\ task_deleted' = FALSE /\ task_created' = FALSE /\ task_list_changed' = FALSE
  /\ late' = {} /\ ran' = {}

\* The end of the do loop with end_flag set: release the mutex and return.  The
\* delay that is returned is not modelled.
Return == already_running' = FALSE /\ Leave

\* End of the list or of the tasks that are not turned off.
EndOfTasks ==
  /\ pc = "scan"
  /\ act # NULL => prio[act] = OFF
  /\ Return
  /\ UNCHANGED <<tasks, lv_task_run>>

SkipInterrupter ==
  /\ pc = "scan" /\ act # NULL /\ prio[act] # OFF
  /\ act = task_interrupter
  /\ task_interrupter' = NULL
  /\ act' = NextOf(ll, act)
  /\ UNCHANGED <<tasks, flags, already_running, next, branch, lv_task_run, pc, history>>

\* Fault model of ToExec: behind the interrupter nothing is run.
ToExecNever == prio[act] = HIGHEST /\ task_interrupter # NULL

\* Is lv_task_exec called for the current task?
ToExec == prio[act] = HIGHEST
          \/ (task_interrupter # NULL => prio[act] > prio[task_interrupter])

PassBy ==
  /\ pc = "scan" /\ act # NULL /\ prio[act] # OFF /\ act # task_interrupter
  /\ ToExec => act \notin ready
  /\ act' = NextOf(ll, act)
  /\ UNCHANGED <<tasks, flags, handler, lv_task_run, pc, history>>

\* Fault model of Exec: last_run is not updated.
ExecKeepsDue ==
  /\ pc = "scan" /\ act # NULL /\ prio[act] # OFF /\ act # task_interrupter
  /\ ToExec /\ act \in ready
  /\ next' = NextOf(ll, act)
  /\ branch' = IF prio[act] = HIGHEST THEN "highest" ELSE "other"
  /\ pc' = "callback" /\ ran' = ran \cup {act} /\ late' = late \ {act}
  /\ UNCHANGED <<tasks, flags, already_running, task_interrupter, act, lv_task_run>>

\* lv_task_exec up to the callback; next was read before.
Exec ==
  /\ pc = "scan" /\ act # NULL /\ prio[act] # OFF /\ act # task_interrupter
  /\ ToExec /\ act \in ready
  /\ ready' = IF act \in zero THEN ready ELSE ready \ {act}
  /\ next' = NextOf(ll, act)
  /\ branch' = IF prio[act] = HIGHEST THEN "highest" ELSE "other"
  /\ pc' = "callback" /\ ran' = ran \cup {act} /\ late' = late \ {act}
  /\ UNCHANGED <<ll, prio, repeat_count, async, zero, flags, already_running, task_interrupter,
                 act, lv_task_run>>

\* The rest of lv_task_exec and of the loop body.  A one-shot task is deleted
\* unless it has deleted itself, and a deletion or creation ends the handler.
LastRun == ~task_deleted /\ repeat_count[act] = 1

CallbackEnds ==
  /\ pc = "callback" /\ (LastRun \/ task_deleted \/ task_created)
  /\ IF LastRun THEN Unlink(act) ELSE UNCHANGED tasks
  /\ Return
  /\ UNCHANGED lv_task_run

\* A task below the highest priority ran: look at all tasks again, but run only
\* those of higher priority and those behind it.
CallbackInterrupts ==
  /\ pc = "callback" /\ ~LastRun /\ ~task_deleted /\ ~task_created
  /\ branch = "other"
  /\ task_interrupter' = act
  /\ StartPass
  /\ UNCHANGED <<tasks, already_running, lv_task_run, history>>

\* Fault model of CallbackContinues: goes on with the saved next in any case.
ContinuesAnyway ==
  /\ pc = "callback" /\ ~LastRun /\ ~task_deleted /\ ~task_created
  /\ branch = "highest"
  /\ act' = next /\ next' = NULL /\ branch' = "none" /\ pc' = "scan"
  /\ UNCHANGED <<tasks, flags, task_interrupter, already_running, lv_task_run, history>>

\* A task of the highest priority ran: start over if it moved or deleted others.
CallbackContinues ==
  /\ pc = "callback" /\ ~LastRun /\ ~task_deleted /\ ~task_created
  /\ branch = "highest"
  /\ IF task_list_changed
     THEN task_interrupter' = NULL /\ StartPass
     ELSE /\ act' = next /\ next' = NULL /\ branch' = "none" /\ pc' = "scan"
          /\ UNCHANGED <<flags, task_interrupter>>
  /\ UNCHANGED <<tasks, already_running, lv_task_run, history>>

CallbackReturn == CallbackEnds \/ CallbackInterrupts \/ CallbackContinues

\* A Python callback raises: the non-local return leaves lv_task_handler where it
\* is and lands in the script, or ends it.
Raise ==
  /\ pc = "callback" /\ "raise" \in CallbackOps
  /\ Leave
  /\ UNCHANGED <<tasks, already_running, lv_task_run>>

Scan == EndOfTasks \/ SkipInterrupter \/ PassBy \/ Exec
Script == lv_tick_inc \/ \E en \in BOOLEAN : lv_task_enable(en)

Next == Script \/ Create \/ Delete \/ SetPrio \/ Retime \/ Recount
        \/ lv_task_handler \/ Scan \/ CallbackReturn \/ Raise

Spec == Init /\ [][Next]_vars

\* The script's loop calls the handler again and again, the handler goes on, and
\* callbacks return.  Nothing is assumed of time or of the script's other calls.
FairSpec == Spec /\ WF_vars(lv_task_handler) /\ WF_vars(Scan) /\ WF_vars(CallbackReturn)

-----------------------------------------------------------------------------
(* Properties.                                                             *)

\* The list is ordered by priority, whatever is created, moved and deleted: the
\* handler stops at the first task that is off and relies on it
\* (lv_task.c:102, 208).
SortedByPriority ==
  \A i, j \in 1 .. Len(ll) : i < j => prio[ll[i]] >= prio[ll[j]]

\* The handler never goes on from a node a callback has freed or moved: the
\* pointers it uses are nodes of the list, and after a callback that leaves the
\* list alone the saved next is still the successor (lv_task.c:97, 143).
HandlerPointersValid ==
  /\ pc = "scan" => {act, task_interrupter} \subseteq Listed \cup {NULL}
  /\ pc = "callback" /\ ~task_deleted => act \in Listed
  /\ pc = "callback" /\ ~task_list_changed =>
       next = NextOf(ll, act) /\ task_interrupter \in Listed \cup {NULL}

\* The mutex of the handler is held only while the handler is running, "Avoid
\* concurrent running of the task handler" (lv_task.c:69).
MutexMeansRunning == already_running => pc # "script"

\* A call of the handler that is not ended by a creation or a deletion leaves no
\* task that is due, except those that its own callbacks have moved or made due
\* behind its back, and those of period 0, which it has run (lv_task.c:84).
ServesAllDue ==
  [][pc = "scan" /\ pc' = "script" =>
       \A t \in Listed' : prio'[t] # OFF /\ t \in ready' => t \in late \/ t \in zero \cap ran]_vars

\* Two tasks of period 0, neither off nor of the highest priority, one above the other:
\* each that runs makes the handler start over for the other one.
Rivals ==
  \E t, u \in zero : {prio[t], prio[u]} \cap {OFF, HIGHEST} = {} /\ prio[t] # prio[u]
\* A callback of a task of period 0 and the highest priority changes the list: the
\* handler starts over and runs it again.
Restarter == pc = "callback" /\ branch = "highest" /\ act \in zero /\ task_list_changed
\* A callback made a task due, or moved one that is due, which this call has run.
Revived == late \cap ran \cap ready # {}

\* lv_task_handler returns, although every task that runs makes it start over, unless
\* the periods or the callbacks give it no end: two rivals, a restarter, or a task revived
\* (lv_task.c:133-155, 308, 411).
HandlerReturns == pc # "script" ~> (pc = "script" \/ Rivals \/ Restarter \/ Revived)

-----------------------------------------------------------------------------
(* What makes ServesAllDue inductive.                                      *)

Before(s, t, u) == \E i, j \in 1 .. Len(s) : i < j /\ s[i] = t /\ s[j] = u
Served(t) == t \in ready => t \in late \/ t \in zero \cap ran

\* The mark that task u leaves as task_interrupter: it has been run, and so has
\* everything that stands before it without a higher priority.
Mark(u) == /\ Served(u)
           /\ \A t \in Listed : Before(ll, t, u) /\ prio[t] <= prio[u] => Served(t)

\* A pass has served what it has passed by; the interrupter, as long as there is
\* one, is still ahead and is a mark.
PassServes ==
  /\ \A t \in Listed : act = NULL \/ Before(ll, t, act) => Served(t)
  /\ task_interrupter # NULL =>
       /\ act # NULL /\ (act = task_interrupter \/ Before(ll, act, task_interrupter))
       /\ Mark(task_interrupter)

\* In a callback that has not ended the handler, the same as far as it will rely
\* on it: after a lower task only that this one is a mark, after one of the highest
\* priority the whole of it unless the list has changed.
Ongoing == pc = "callback" /\ ~task_deleted /\ ~task_created
CallbackServes ==
  /\ branch = "other" => Mark(act)
  /\ branch # "other" /\ ~task_list_changed =>
       /\ \A t \in Listed : t = act \/ Before(ll, t, act) => Served(t)
       /\ task_interrupter # NULL =>
            Before(ll, act, task_interrupter) /\ Mark(task_interrupter)

ServeInv == (pc = "scan" => PassServes) /\ (Ongoing => CallbackServes)
=============================================================================
