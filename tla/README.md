# A TLA+ development for EfiLvgl

EfiLvgl puts MicroPython and the LVGL graphics library into UEFI firmware: a
DXE driver with the interpreter behind a *script engine* protocol, a shell
application that launches scripts, a *script file* protocol with POSIX-like
descriptors, and a *virtual console* through which tests type keys and read the
screen. This directory models the parts of the repository that are its own logic,
and the two parts of the vendored LVGL on which its scripts and its display driver
depend (the task scheduler and the screen refresh), checks them with TLC on small
instances and proves the central properties with TLAPS for all sizes. The rest of
the vendored code (MicroPython, widgets and fonts of LVGL, Oniguruma) is left out.

All paths below are relative to `src/`; `Uefi/` is `MicroPythonDxe/Uefi/`.

## 1. Inventory

UEFI has one processor and no threads, but it does have preemption: a timer
notification at `TPL_CALLBACK` or `TPL_NOTIFY` interrupts code at
`TPL_APPLICATION` wherever that code has not raised the task priority itself.
Asynchronous scripts run inside such notifications. That is where this code is
hard: what is read before a notification and used after it, and which of two
locked sections another priority may come between.

| Component | State | Operations | Interacts with | What makes it correct |
|---|---|---|---|---|
| Script engine executor (`Uefi/use.c`, `main.c`) | `mExecutorData` (protocol pointer, `IsRunning`, `DeinitAfterwards`, event, script, stack, jump buffers), interpreter heap, `sys.argv`, `sys.path` | `Execute`, `ExecuteAsync`, `SetSysArgs`, `SetSysPath`, timer notification, `UpySuspend`, driver load/unload | called by applications and by other drivers; jumps between the caller's and the script's stack | one script at a time; every accepted script is run, once; stacks and sources are freed once; a sharable interpreter survives |
| MicroPython application (`MicroPythonApp/MicroPython.c`, `Uefi/misc.c`) | options, whether it loaded the driver itself | parse options, load driver, pass arguments, launch, retry, unload | script engine, shell | returns; never unloads the driver under a script; arguments reach the script |
| Descriptor table (`Uefi/usf.c`) and file objects (`Uefi/file.c`) | `FilePool`, standard files, per object `fd`, `fh`, `sfp` | `Map`, `Unmap`, `GetFileHandle`, `SetStdIo`; `open`, read/write/seek/flush, `close`, garbage collection | firmware file systems, the interpreter's collector | no use of a closed handle; a descriptor denotes one file until it is closed; no descriptor is lost |
| Virtual console input (`VirtualConsoleDxe/VirtualConIn.c`) | key queue, notification list, toggle state | `InputKey`, `ReadKeyStroke(Ex)`, `Reset(Ex)`, `SetState`, `Register`/`UnregisterKeyNotify`, `WaitForKey` | test scripts type keys; the console splitter reads | keys arrive in order, once; no key out of an empty queue; a waiting reader wakes up |
| Virtual console output (`VirtualConOut.c`, `VirtualConsole.c`) | rows, history, cursor, mode, attribute | `OutputString`, `Reset`, `SetMode`, `ClearScreen`, `SetCursorPosition`, `GetScreen`, unload | every console writer; test scripts take snapshots | stores stay inside rows; rows are owned once; history holds what scrolled off |
| Text mode table (`VirtualConsole.c`) | mode table | built at start-up | ConOut | default modes are offered |
| REPL (`Uefi/repl.c`) | line, cursor, history ring, paste mode | one handler per key | console, interpreter | cursor inside the line; history bounded by its NULL entry |
| Paths, volumes and the os module (`usf.c`, `modos.c`, `use.c`) | working directory (twice: driver and Shell), open handles, iterators | normalise, open, `mkdir`, `stat`, `remove`, `rename`, `chdir`, `rmdir`, `listdir`, `ilistdir`, import search | firmware file systems, UEFI Shell | handles are closed once; `rmdir` removes its tree and nothing else; `chdir` lasts |
| Volume mapping names (`sfsmapping.c`) | table of names | built at start-up | device paths | - |
| Test module (`modets.c`) | fault handler | press, snapshot, clear history, MSR access | virtual console | handler restored |
| UEFI objects (`objuefi.c`, `moduefi.c`) | memory and protocol objects | typed access, free | firmware | no use after free |
| LVGL task scheduler (`lvgl/src/lv_misc/lv_task.c`, `lv_async.c`, `lv_ll.c`, callbacks through `Uefi/lv_mpy.c`) | ordered task list, flags, the handler's pointers | `lv_task_handler`, create, delete, priority, period, repeat count, ready, `lv_async_call` | Python callbacks run inside the handler and change its list | handler uses no freed node, serves what is due, returns |
| LVGL refresh and display driver (`lv_refr.c`, `lv_hal_disp.c`, `lv_obj.c`, `Drivers/efidirect/EfiMonitor.c`) | invalidated areas, draw buffer, `lv_initialized`, `tPrivate` | invalidate, refresh, flush, init, deinit | the refresh is a task; the driver copies to every graphics output | what changes is shown; a refresh ends; nothing freed is used by a script that initialises and deinitialises |
| Input driver (`Drivers/efidirect/EfiInput.c`) | pointer position | read | LVGL | - |
| Time, machine, HAL, regular expressions, lexer, collector glue | little | wrappers | firmware, vendored code | - |

The hazards, each at its line and with the property that would catch it, are
listed in `PROJECT.json`.

## 2. Modules

| Module | Models | Main definitions |
|---|---|---|
| `ScriptEngine` | the executor | one action per protocol entry, per timer notification and per thing a running script may do (`UpySuspend`, `UpyDoScript`); `SetSysArgs` and `SetSysPath`, which raise no TPL, are two steps each; `QuietSpec` is `Spec` for callers at least one timer tick apart |
| `SingleJob` | what the protocol header promises: one job at a time, each accepted job gets the processor and is done once | abstract specification of `ScriptEngine` |
| `ScriptApp` | the application on top of `ScriptEngine` (it EXTENDS it and uses its actions) | a program counter through `MicroPythonAppMain` and `RunScript` |
| `FileTable` | descriptor pool and file objects | `UsfMap`, `UsfUnmap`, `UsfSetStdIo`, `fdfile_open`, `fdfile_io`, `fdfile_close`, `Collect`; `RedirectorClose` (external) |
| `VirtualConIn` | key queue, waiting, notifications | a call from application priority is one step per locked section, and per node of the unlocked walks of the notification list; one from callback priority is one step |
| `VirtualConOut` | screen, history, cursor, for callers of any number of priorities | a stack of calls in progress; `OutputString` takes one step per character and gives way where it releases `TxtOutLock`, `GetScreen` two steps, `ConOutReset` three |
| `Repl` | line editor, history ring, the loop of `DoRepl` | one action per key; `gc_collect` |
| `LvTask` | the task scheduler under callbacks that change it | one action per visit of the handler and per library call a script or callback makes |
| `Display` | invalidation, refresh, flush, monitors, life cycle over scripts | one action per round of each loop of the refresh, per part and per copy to a monitor, per exception out of a drawing callback, and per call of `lv.init`, `ed.init`, register and deinit |
| `OsModule` | working directory, paths, handles of the os module | one action per operation; `remove_dir`, which calls itself, is one step per entry and per return |
| `ScriptEngineProofs` (executor and applications), `FileTableProofs`, `VirtualConInProofs`, `VirtualConOutProofs`, `ReplProofs`, `LvTaskProofs`, `DisplayProofs`, `OsModuleProofs` | theorems | |
| `MCScriptEngine`, `MCScriptApp`, `MCFileTable`, `MCVirtualConOut`, `MCRepl`, `MCLvTask`, `MCDisplay`, `MCOsModule` | small instances for TLC | |

### How state and actions correspond to the code

* `ScriptEngine`: the fields of `mExecutorData` keep their names. A stack, a
  jump buffer, a timer event and a source buffer are named after the request that
  owns them, `NULL` otherwise; `stacks`, `sources` and `timers` are what is
  allocated or armed. `active` is the interpreter that has the processor;
  `fault` records undefined behaviour (`"control"`: jump to a dead buffer, stack or
  source; `"heap"`: interpreter without a heap) and ends the behaviour. A status
  that the code drops is dropped in the action. `setting` names the callers that have
  tested the protocol pointer in `SetSysArgs` or `SetSysPath` and have not written the
  list; `dropped` (the pointer was set although `UpyInit` failed) and `swept` (callers in
  such a gap when the end of a script freed the heap) are history. The test of `IsRunning`
  and the writing of the record in `Execute` and `ExecuteAsync` (use.c:710-745) are one
  step. The code raises no TPL there either, so that this is the code only for callers a
  timer tick apart: every theorem about launches is about `QuietSpec`, and in
  `engine_race`, whose counterexample needs no finer step, callers are at any distance.
* `ScriptApp`: `pc` is the place in `RunScript`; the outcome of the option loop is
  one of `CommandLine`; a synchronous `Execute` keeps the application at
  `"blocked"` until the engine is idle. Both halves of `SetSysArgs` and of `SetSysPath` are
  steps, with the timer in between.
* `FileTable`: `file[o]` is a `mp_obj_fdfile_t` (`fd`, `fh`; `sfp` is set exactly
  when `fh` is), `FilePool` the pool. Handle values may be reused by the firmware
  after they are closed. `held` is the set of handles that a redirector has passed to
  `SetStdIo` and has not closed itself. Positions and contents are left out: no property
  here distinguishes them.
* `VirtualConIn`: the list of keys and the list of registrations are sequences;
  `pressed`, `taken`, `stolen` (a reader came between the test and the removal of
  `DequeKeyData`) and `raced` (pairs that callback priority registered between the end of
  another's scan for them and its insertion) are history variables.
* `VirtualConOut`: the fields of `SimpleTextOutputMode` and of the device keep their names;
  `heap` holds the addresses of the row buffers that are allocated, so that a row in the
  history and a row of the screen can be seen to be the same buffer. A character is a
  printable one (`"c"`) or one of the control characters; what the cells hold is abstracted
  away. The attribute is the number of the code, with bit 7 for wide characters. `stack`
  holds the calls in progress, each with its priority and its local variables: a call of a
  higher priority may come in wherever the running one does not hold `TxtOutLock`
  (`Begin`), and the call that wraps a line is a frame of its own on top of its caller's.
  `chosen` (the attribute set last), `interrupted` (the last call came in between two steps
  of another) and `adrift` (the mode was changed in between two steps of a call and the
  cursor has not been placed since) are history.
* `Repl`: the fields of `mReplData` and the locals of `ReplLoop` keep their names; a
  handler and the redraw at the end of the loop are one action. The return of
  `ReplLoop`, the execution of the line and the next prompt are one step. Whether more
  lines follow, and what is completed, is up to the vendored interpreter and is
  chosen freely. The history strings are on the collected heap and no root of the
  collector leads to them, so `gc_collect` may change them at any time; bytes behind
  the end of the line buffer may hold anything (`Garbage`). An unsigned length that
  would be negative is the fault `"overrun"`.

* `LvTask`: a task is the address of its node, which may be used again for a new task
  once it is freed. Time is abstracted to the set of tasks that are due (`ready`), to
  which a tick may add any task; the tasks of period 0 (`zero`), by creation or by
  `lv_task_set_period`, are due for ever, also after they have run. A repeat count is "for
  ever" or "once more". The handler's local variables and its static flags keep their
  names; `ran` (tasks that this call of the handler has run) and `late` (due, and made so
  or moved by its callbacks) are history.
* `Display`: one arbitrary pixel (`spot`) stands for all; `owed` is the set of monitors
  that do not show its present content. `area` is what `area_p` points to, which an
  overflow of the list can overwrite while it is drawn. A drawing callback invalidates
  areas or raises: the exception leaves `_lv_disp_refr_task` and `lv_task_handler` where they
  are (`handler` is `"raised"`: `already_running` stays set as long as the driver stays
  loaded) and the script goes on, or ends; so does one out of another task (LvTask). Only `lv_refr_now` then refreshes. Scripts call
  `lv.init`, `lv.deinit`, `ed.init`, `ed.deinit` and register in any order, or not at all:
  the actions have no guards that the code does not have. A use of memory that is gone is a
  `fault` and ends the behaviour. History: `late`, `spilled`, `grown`, `raised` and `torn`
  (what drawing callbacks did), `blind` (a flush met no monitor), and `slips`, what scripts
  and machine did that library and driver do not guard against.
* `OsModule`: a place is a volume and names below it, a handle the address of an
  `EFI_FILE_PROTOCOL` (reused after it is closed), a path its form and where it leads.
  The file systems are external: any call may fail as `Faults` says, and Delete always
  closes its handle, with a warning when it refuses. An allocation on MicroPython's heap may
  raise MemoryError (`modos.c:310`, 647 and 691), and a label may be on no volume. `leaked`
  names the handles that are open and that nothing refers to; `blame` and `wanted` are history.

Definitions marked "Fault model" or "Mutant" are alternative versions of the definition after
them, each with a plausible mistake; they show that every property can fail.

## 3. What is checked

| Run | Configuration | Shows |
|---|---|---|
| `engine_quiet` | 3 requests, callers a tick apart, allocation may fail | `NoControlFault`, `OnlyJobOwnsMemory`, `OneWakeUp`, `SharedInterpreterSurvives`, `RunningScriptUndisturbed` |
| `app_quiet` | 2 applications with any options, each with script and REPL; allocation may fail, the timer interrupts the setters | `AppsAreQuiet`: applications are callers a tick apart, which discharges the assumption of `engine_quiet` and of the theorems; `HeapFaultExplained`: a script is entered, or a list written, without an interpreter only after an `UpyInit` whose failure was dropped, or when a script that an earlier application left behind ended between the two halves of a setter (the run reaches both); `AppsReturn`, unless the interpreter is missed; `ArgsReachScript`: arguments set while no script is alive are those of the script they were set for; `ImplementsPromise`: `SingleJob` with its fairness |
| `files` | 3 objects, redirected standard files, folders | `NoClosedHandle`, `OwnDescriptors`, `DescriptorStable` for scripts that open by name |
| `files_std` | open(0), open(1), open(2), standard files redirected, restored, and closed by scripts and by the redirector | `FullMeansManyOpen`; `StandardIoExplained`: a read, write, seek, flush or open(number) reaches a closed handle only while a standard descriptor leads to a redirection that a script has closed |
| `con_in` | 3 key presses, 2 keys, readers and registrations at both priorities | `KeysInOrder`, `RegisteredOnce` (a pair is in the list twice only after a registration of it between the end of the scan and the insertion), `PhantomExplained` (the empty list is taken for a key only when a reader came between the two locked sections), `KeysAreRead` (unless callback priority changes the notification list under the reader's walks for ever) |
| `con_out` | modes 3x2 and 2x3, strings with every control character, two attributes, two priorities | `CursorOnScreen` (unless the mode changes under a call; two kinds of interruption are named that do make a store or a copy leave its buffer), `AttributeRestored`, `RowsAccounted` |
| `repl` | ring of 3 slots, typed lines up to 3 characters, one printable character | `HistoryRing`, `OverrunsExplained`, `EarlierLinesFixed` |
| `tasks` | 2 tasks, periodic, one-shot, of period 0 or of `lv_async_call`; callbacks that create, delete, move and retime tasks, or raise, between the steps of the handler | `SortedByPriority`, `HandlerPointersValid`, `ServesAllDue`; `HandlerReturns` but for three named ways to keep it busy for ever |
| `display` | screen 2x3, buffer of 2 pixels, list of 2 areas, a monitor of that size and a smaller one that both come and go, raising callbacks, several scripts with or without init and deinit | `TypeOK`, `NothingForgotten`, `PartFitsBuffer`; `FaultsExplained`: memory that is freed or not there is used for four named reasons only; `RefreshEnds`, unless a flush met no monitor; `Shown`, if the scheduler gets to the refresh |
| `os` | 2 volumes, 5 places, a path of each form, 3 handles, failing opens, infos, deletes and allocations, a label that no volume has, no Shell, an accepting and a refusing one | `HandleUse`, `HandlesAccounted`, `RmdirComplete`, `ChdirLasts`, `RmdirEnds` |
| `engine_race` | violation | `RefusedWhileBusy`: `IsRunning` is set by the notification, not by `ExecuteAsync` |
| `tasks_raise` | violation | `MutexMeansRunning`: a Python callback that raises leaves `already_running` set |

Further places where the code does not do what its comments, or a reader, expect,
which the models exhibit. A property of a passing run then names the case as an
exception, which the run reaches, or is stated for the cases without it:

* Engine and application. `UseDeinit` leaves the stack, the source and the armed timer
  of a suspended script (use.c:1107; applications never get there, `AppsAreQuiet`);
  `ExecuteAsync` drops the status of `UpyInit` (use.c:715), and so do `SetSysArgs` and
  `SetSysPath`, which also write the list without looking whether the script that the timer
  resumed has taken the interpreter down (use.c:903, 963); arguments that an application
  sets while another script is alive are gone when its own script starts, because the
  end of the other one, or the next `UpyInit`, empties the lists (use.c:648).
* Files. open() of a directory loses a descriptor for good (file.c:84;
  `FullMeansManyOpen` fails with `Folders = TRUE`); open(number) shares a handle whose
  close the other object does not notice (file.c:48). Redirected standard files:
  open(1).close() closes the handle of the redirector, as `UsfUnmap` leaves a standard
  entry in the table and `fdfile_close` closes what it holds; every later use of the
  descriptor reaches the closed handle until the default is restored, and an object that
  outlives the redirection, or the redirector itself, closes it a second time.
* os module. Delete returns a warning when it fails, which
  `RAISE_UEFI_EXCEPTION_ON_ERROR` ignores: a failed `remove` or `rmdir` is silent, and
  `remove_dir` and `rmdir` then close the closed handle again (modos.c:545, 584), also for
  the root of a volume. `mkdir` of something that exists raises nothing, as `EEXIST` is no
  error status (modos.c:259); `rename` of a file without info does nothing, silently;
  `chdir` accepts a file. `mp_import_stat` never closes the module it found (use.c:238),
  label lookup leaves the roots it tried open (usf.c:818), all of them when no volume has
  the label, a MemoryError out of `stat`, `ilistdir` or `listdir` the handle that the
  function has opened (modos.c:310, 691, 647), an abandoned iterator its directory; `next()`
  after the end uses a closed handle (modos.c:640); `os.listdir` of a
  path that is not there uses the empty tuple as an iterator (modos.c:720). The status of
  the Shell's `SetCurDir` is ignored (usf.c:1256), and the unified form of a path is not
  one that EDK2's Shell understands: such a `chdir` has no effect on relative paths.
* Virtual console. A reader between the two locked sections of `DequeKeyData` makes the
  other take the list head for a key (VirtualConIn.c:101); `ConInReset` always returns
  EFI_NOT_READY (VirtualConIn.c:166); registered key functions are never called
  (VirtualConIn.c:510); neither the search of `RegisterKeyNotify` nor its insertion nor the
  search and removal of `UnregisterKeyNotify` is under a lock (VirtualConIn.c:391-412,
  449-455): a registration of the same pair in between enters it twice, and a node that is
  unregistered under a search is read after it is freed. The history holds the pointer to the screen's own top
  row, which the scroll overwrites and a mode change frees twice (VirtualConOut.c:207, 442,
  the `"double free"` fault); a writer that interrupts the wrap of a wide character finds the
  cursor past the edge and stores its backspace there, a call whose mode was changed under it
  goes on with the old sizes, and `GetScreen` sizes its answer before it takes the lock (the
  `"out of bounds"` and `"overrun"` faults); an attribute set in the middle of a string is lost
  (VirtualConOut.c:301); the `ClearHistory` member of the protocol is NULL
  (VirtualConsole.c:22) and `modets.c:173` calls it.
* REPL. Ctrl-E and Enter inside a line leave a cursor with which later keys print a
  negative length (repl.c:294 and 338, the two cases of `OverrunsExplained`); paste mode
  announces "Ctrl-C to cancel" (repl.c:292) but Esc cancels and Ctrl-C is inserted like any
  character; with a full history ring Down at an empty prompt shows the oldest line
  (repl.c:421); history strings do not survive a garbage collection (repl.c:194).
* Scheduler. `lv_task_handler` need not return (lv_task.c:137): with two tasks of period 0
  and different priorities, neither off nor the highest (`Rivals`), with one of period 0 and
  the highest priority whose callback deletes or moves tasks (`Restarter`), or with callbacks
  that make a task due, or move a due one, that this call has run (`Revived`).
  `HandlerReturns` fails if one of the three is taken out of it. A creation or
  deletion in a callback ends the handler before the tasks behind it, so that a chain of
  `lv_async_call` keeps the display from being refreshed (lv_task.c:146).
* Display. When no graphics output is left, `monitor_flush` returns without
  `lv_disp_flush_ready` and the next part waits for ever (EfiMonitor.c:39, `blind`); a
  monitor smaller than the screen rejects every part that crosses its edge, and the status
  is ignored (EfiMonitor.c:53). What a drawing callback changes inside an area that the
  refresh has reached, or with a full list, is lost at the clean up (`late`), and an overflow
  while the first of several parts is drawn makes the next part larger than the buffer
  (`grown`). A drawing callback that raises leaves the refresh task off, the list with its
  flags of joined areas, and `already_running` set (lv_refr.c:188, `raised`): areas that are
  listed already do not schedule the task again (lv_refr.c:135), `lv.task_handler()` returns
  at once from then on, and a list that is replaced when full keeps the flags, so that its
  one area is taken for a joined one (`torn`). The four reasons of `FaultsExplained`:
  `monitor_init` without a monitor leaves a pointer to freed memory (EfiMonitor.c:125,
  `"no_monitor"`); a display registered without the driver, or one that outlives
  `ed.deinit()`, uses a record that is not there (EfiMonitor.c:194, `"no_driver"`);
  registration does not look whether the library is initialised (lv_hal_disp.c:116,
  `"no_init"`); and a script that does not call `lv.deinit()`, as `test.py` and `2048.py`,
  leaves `lv_initialized` set with lists in a heap that is freed (lv_obj.c:167,
  `"no_deinit"`).

### Bounds

* Three requests: one running or suspended, one that races with it, and one that
  comes after both. The invariants of `ScriptEngine` are also proved for any number.
* Two applications: one leaves an asynchronous script and perhaps the driver
  behind, the other meets them; each makes up to two launches.
* A pool with two or three entries beyond the standard ones: full, one free,
  reuse of a released entry.
* `MaxPress = 3`: a queue with a head, a middle and a tail.
* `MaxHistory` bounds the rows that scroll off and the rows by which a cursor can
  run below a screen whose mode changed under a writer; strings are up to four
  characters, so one string wraps twice on the narrow screen.
* `HistSize = 3`: the ring is empty, half full, full and wrapped. `MaxLine = 3`: a
  compound statement with one character and its two blank lines; it also bounds the
  cursor that repeated Ctrl-E carries over. Both are free in the theorems.

* `con_out`: attributes 7 and 23 (0x17), two foreground and background combinations that
  `ConOutReset` tells apart; two priorities, so that stacks of up to four calls occur, each
  writer in the middle of its wrap. Four row buffers are one more than the larger screen
  has, so that a leak shows and addresses are used again. The theorems have no such bounds.
* `tasks`: two nodes, as every way in which the handler can lose its place or its end
  takes the running task and one other, and freed ones are used again; three priorities
  besides off, so that two tasks can differ below the highest; all operations in callbacks.
  Three nodes make some millions of states. The safety properties are proved for any number.
* `display`: areas that overlap, nest and leave the screen; a buffer of one row of the wide
  areas and two of the narrow ones, so that areas take one, two or three parts; the list
  overflows with the third area, and drawing callbacks can fill it a second time in the same
  refresh, or raise in any part of it.
* `os`: a directory in a directory on one volume, a second volume behind the first for the
  label lookup; three handles let `rmdir` run out of them at its second level.

### Fairness

* Timers go off: weak fairness of `ScriptExecutor`. A firmware timer event that is set is
  signalled.
* Scripts end: in `FairAppSpec` a script that could end infinitely often does
  (strong fairness of `UpyDoScript`); without it the retry loops of the application
  wait for as long as the script in front of them runs, as they should.
* The application's own code goes on while it has the processor (weak fairness of
  `AppStep` once an application is started); the shell need not start one.
* `ScriptApp` assumes that loading and starting an image takes the shell longer than
  one timer tick. Without it two `MicroPython.efi -a` in a row meet the race of
  `engine_race`.
* `VirtualConIn`: among its other calls the reader calls `ReadKeyStroke` again and again
  (strong fairness, as it may register, unregister and reset as often as it likes), its calls
  return, and the firmware runs the `WaitForKey` notification again and again for a
  waiter. Readers at callback priority are not assumed to do anything.

* `LvTask`: the script's loop calls `lv.task_handler()` (Examples/test.py:95), and its steps
  and callbacks go on.
* `Display`: a refresh that has begun runs on. That the scheduler gets to the refresh task
  is not assumed of the system: it is the explicit premise of `Shown`, as a callback that
  creates or deletes a task in every pass denies it (lv_task.c:146).
* `OsModule`: a script in `rmdir` goes on; nothing waits for another actor.

Deadlock is not checked where a behaviour may end: a fault, an unloaded driver, or
all requests used up.

## 4. What is proved

The theorems hold for every value of the constants.

* `ScriptEngineProofs`
  * `TypeCorrect`: `Spec => []TypeOK`.
  * `ExecutorSafe`: `QuietSpec => [](NoControlFault /\ OnlyJobOwnsMemory /\ OneWakeUp)`.
    None of the three is inductive: that a notification finds a live jump buffer
    depends on which request owns the stack, whether it was launched
    asynchronously, and whether it is suspended. `ExecutorInv` says this about the one
    job that `ScriptEngineStack` names; each action either leaves that job alone,
    moves it from pending to running to asleep, or ends it.
    `MemoryOwned` and `OneTimer` state two of its parts.
  * `RunningUndisturbed`: the action property, for callers a tick apart.
  * `KeepsPromise`: the executor implements `SingleJob` (initial states and steps),
    with the job and its phase read off `mExecutorData`.
  * `InterpreterLoss` (`HeapFaultExplained`), allocation failures and interrupted setters
    included. `HeapInv`: a protocol pointer without an interpreter means that a failure was
    dropped, and a caller between the halves of a setter whose pointer is gone is `swept`.
  * `SharedSurvives` (`SharedInterpreterSurvives`), allocation failures included. The end of
    a script takes the interpreter down when the record says so, so the invariant
    (`SharingInv`) is that the record says what the launch of the job at hand asked for.
  * Applications: `AppsQuiet` (`AppsAreQuiet`) shows that every step of an application is
    one of a caller a tick apart, which is what the theorems above assume; with it
    `AppsSafe`, `AppsInterpreterLoss`, `AppsShare` and `AppsKeepPromise` are the executor's
    theorems for `AppSpec`, for any number of applications and any command lines. The
    invariant `AppsInv`: a launch is pending only behind the back of the application that
    made it, which is on its way out; an application that loaded the driver finds no script
    but its own, and one that will unload it has left none behind.
  * `ArgsArrive` (`ArgsReachScript`): `ArgsInv` follows the arguments from `SetSysArgs`
    through `sys.argv` to the entry of the script. Nobody else runs in between and
    `UpyInit`, which empties the list, does not run again.
* `FileTableProofs`: `FilesSafe` (`NoClosedHandle`, `OwnDescriptors`; `FilesOwned` is a part
  of it) and `FilesStable` (`DescriptorStable`), for scripts that open files by name
  (`Numbers = {}`). The inductive invariant `FileTableInv` ties objects, pool entries and
  open handles together; the free descriptor that `UsfMap` finds is the least one
  (`LeastExists`, by well-foundedness of the naturals). `FilesTyped` has no hypothesis.
  `FullTable` (`FullMeansManyOpen`) is for scripts that open plain files, and by number only
  standard descriptors: in a full pool every descriptor has an open file (`PoolInv`: it has
  an open handle that no other descriptor has, so that no close of another object, which may
  share a standard file, leaves it dead). `StandardFaults` (`StandardIoExplained`) is for the
  same scripts and any redirections, whatever scripts and redirectors close: as standard
  files are looked up in every call, a closed handle is reached only through an entry that
  still leads to it. The hypotheses are needed: section 3 names what happens without them.
* `VirtualConInProofs`: `KeysSafe` (`KeysInOrder` and the types, also `KeysTyped`),
  `NotificationsOnce` (`RegisteredOnce`) and `PhantomsExplained` (`PhantomExplained`), for any
  callers at both priorities, who change the list under each other's walks. For
  `NotificationsOnce` the invariant says where a walk is: the pair it looks for is not in
  the part it has passed, unless callback priority has put it there since.
* `VirtualConOutProofs`: `RowsSafe` (`RowsAccounted`), `CursorStays` (`CursorOnScreen`),
  `AttributeKept` (`AttributeRestored`) and `OutTyped`, for any modes, strings, attributes
  and any number of priorities, that is for stacks of any depth.
  * Rows (`ScreenInv`): the screen has as many rows as its mode, each a buffer of its own,
    and a call in progress has found a mode. A list without rows in the history can
    therefore be freed row by row.
  * Cursor (`CursorInv`): the cursor is past the edge only while some call in the stack
    *will return it*: it is about to wrap, or the next character it writes is a carriage
    return. A frame that returns is never such a call, so after the last one the cursor is
    on the screen, although the call that moved it out may long have lost it to others. The
    exceptions in the property need `AloneInv`: without interruption there is one call, or
    with it the one that wraps its line, so that a backspace finds nobody who waits for a
    wrap and `GetScreen` the history it counted.
  * Attribute (`AttributeInv`): the outermost string in progress holds the attribute that
    was set last; inner ones may hold a wide one, which they put back.
* `ReplProofs`: `PromptSafe` (`HistoryRing`, `CursorInLine`, `OverrunsExplained` and the
  types), for any alphabet, ring size and line length. The four parts are inductive only
  together: the redraw is safe because the cursor is in the text, a recalled line
  replaces the whole line because an editable part in normal mode starts at 0, and
  the slot on show has a line because of the ring. `EarlierLinesStay` is the action
  property `EarlierLinesFixed`; it rests on what insertion and removal keep
  (`InsertKeeps`, `CutKeeps`). `PromptTyped`, `CursorStays` and `OverrunsKnown` state
  the parts of `PromptSafe`.
* `LvTaskProofs`: `ListSorted` (`SortedByPriority`), `HandlerSafe` (`HandlerPointersValid`)
  and `TasksTyped`, for any number of tasks and priorities, any periods and repeat counts,
  raising callbacks included. The
  invariant adds that the list has no node twice and that, unless a flag says that the
  list has changed, the saved successor is the successor now. `AllDueServed`
  (`ServesAllDue`) is the action property of the end of the handler. Its invariant
  `ServeInv` is about the interrupter, the task at which a restarted pass stops: it is
  still ahead, it has been run, and so has everything before it without a higher priority.
* `DisplayProofs`, for any screen, areas, buffer of at least a row, length of the list and
  monitors: `PartsFit` (`PartFitsBuffer`; `ListInv`, `LoopInv`: indices stay in a list that
  callbacks extend or overflow, and the height of a part was computed for the area that is
  drawn), `PixelsKept` (`NothingForgotten`: joining, clipping and splitting into parts cover
  the pixel, and what an exception leaves behind is found again by the next refresh;
  `JoinInv`: an area with the flag of a joined one is in an area without it; `AreaInv`: the
  area being drawn is the listed one; `OwedInv`), `DisplayTyped`, and `MemoryFaults`
  (`FaultsExplained`) for any order of init, deinit, registration and ends of scripts
  (`LifeInv`: what library and driver lack, and which slip is the reason).
* `OsModuleProofs`, for any volumes, trees, paths, number of handles and failures:
  * `CwdLasts` (`ChdirLasts`). The invariant adds that a directory is only believed in
    while there is no Shell or one that takes it; remembering what
    `UsfGetCurrentDirectory` returns then changes nothing.
  * `OsTyped` (`TypeOK`) needs that `remove_dir` has a call to return from as long as it
    runs, that a live iterator has a handle, and that the handle an open takes is one of
    those there are (`NewIsFree`).
  * `HandlesSafe` (`HandleUse`, `HandlesAccounted`; the latter also as `HandlesOwned`). No
    handle has two owners, but for that of `rmdir`, which is the first call's of
    `remove_dir` (`HandleInv`), until one of the places named in section 3 is to blame;
    what a MemoryError or a label lookup leaves open is among the leaks.
  * `RmdirRemovesAll` (`RmdirComplete`): the calls of `remove_dir` go down a level each
    (`Levels`) in a tree whose inner nodes are directories (`Tree`), so what is left when
    the outermost returns is outside the tree.

Type invariants that are theorems, and `CursorInLine`, which follows the guards of the
editing keys, are not repeated in the runs.

Only model-checked: liveness (`AppsReturn`, `KeysAreRead`, `HandlerReturns`,
`RefreshEnds`, `Shown`, `RmdirEnds`, the fairness half of `ImplementsPromise`), which needs
ENABLED and fairness. Every other property that a passing run checks is a theorem, for the
hypotheses named above. The inductive invariants were checked with TLC on the instances of
the runs before they were proved.

Assumptions: the named ASSUMEs of the modules (`NULL` is not a request, handle, ...;
pool sizes and bounds are natural numbers; a text mode has at least two columns and
one row, as a wide character needs two; a draw buffer holds a row of the screen; with a
place the places above it are there), all evaluated by TLC on the instances.

## 5. What is not modelled

* Vendored and generated code but for the LVGL files named above: widgets, drawing,
  fonts, the binding's generated wrappers, MicroPython and Oniguruma. It makes up nearly
  all of the repository's lines.
* `mp_lexer_new_from_file`; `Evaluate` and `SetSysEnv`, which only answer EFI_UNSUPPORTED.
* File positions and contents. (The SEEK request reports offset 0 always, file.c:210.)
* The text of paths and load options; `ParseLoadOptionsToArgs` (MicroPython.c:452) and
  `AddSysPath` (MicroPython.c:473) are represented by their outcomes. Device paths and
  volume mapping names: a volume plugged in after the driver's start has none.
* `EnableCursor`, `QueryMode` and `TestString` of the virtual console, which change nothing
  that anybody reads; the loop that builds the mode table (VirtualConsole.c:152), which
  copies from behind the end of its default modes; the contents of cells.
* What the REPL draws.
* In `Display`: double buffering, `rounder_cb`, `set_px_cb`, `lv_disp_remove`, the object
  tree, `lv_refr_now` called from a drawing callback, and a draw buffer smaller than a row,
  with which `lv_refr_area` would not end.
* In `LvTask`: the idle statistics and the delay that the handler returns; repeat counts
  above one, which only put off the last run.
* `modets.c`, `objuefi.c`, `moduefi.c`, `EfiInput.c`, time, HAL and regular expressions:
  wrappers around firmware services or raw memory with little state of their own.

## 6. Plan

1. Done: executor, application, descriptor table, virtual console, REPL, task scheduler,
   display refresh with its driver, os module.
2. Done: the invariants and action properties of the runs as theorems, and the safety part
   of the refinement, for the executor and for applications on top of it.
3. `FileStream` beside `FileTable`: mode strings, append, truncate, seek and tell.
4. The two parsers (load options, mode table) as functions against reference definitions.
