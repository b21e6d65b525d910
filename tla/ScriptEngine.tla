---------------------------- MODULE ScriptEngine ----------------------------
(***************************************************************************)
(* The script executor of MicroPythonDxe/Uefi/use.c: the driver global     *)
(* mExecutorData, the interpreter heap mHeap, the protocol entries         *)
(* Execute, ExecuteAsync, SetSysArgs and SetSysPath, the timer             *)
(* notification ScriptExecutor with its SetJump/LongJump protocol, the     *)
(* ets.suspend primitive UpySuspend, and the load and unload of the driver.*)
(*                                                                         *)
(* A request r of Req is one call of Execute or ExecuteAsync; it also      *)
(* names what the call brings along or allocates: its source buffer, its   *)
(* interpreter stack and its timer event.  Pointers are therefore requests *)
(* or NULL, and the sets sources and stacks say what is still allocated.   *)
(*                                                                         *)
(* Callers run at TPL_APPLICATION, an asynchronous script runs inside a    *)
(* TPL_CALLBACK notification, and that notification may interrupt a caller *)
(* or a synchronous script but not an asynchronous one.  No entry raises   *)
(* the TPL: SetSysArgs and SetSysPath are therefore two steps, the test of *)
(* the protocol pointer and the writing of the interpreter's list, with    *)
(* whatever the timer notification does in between.  A launch is one step: *)
(* when it finds IsRunning FALSE no timer is set, for callers a tick apart *)
(* (QuietSpec), so that nothing comes between its test and its writes.     *)
(* For callers at any moment (Spec) one step is coarser than the code.     *)
(***************************************************************************)

CONSTANTS Req,         \* calls of Execute / ExecuteAsync
          NULL,        \* the null pointer
          InitMayFail  \* can the 64 MB heap allocation of UpyInit fail?

ASSUME NullAssumption == NULL \notin Req
ASSUME InitMayFailAssumption == InitMayFail \in BOOLEAN

VARIABLES
  Loaded,               \* driver started, protocol interface installed
  ScriptEngineProtocol, \* mExecutorData.ScriptEngineProtocol # NULL
  mHeap,                \* mHeap # NULL: there is an initialised interpreter
  IsRunning, DeinitAfterwards, ExecEvent, ExecStatus,
  Script, ScriptEngineStack,
  ScriptEngineContext,  \* request whose interpreter the jump buffer resumes
  sysArgv,              \* request whose arguments sys.argv holds
  sysPath,              \* requests whose directory was added to sys.path
  setting,              \* the list that the caller of a request is about to write
  sources,              \* source buffers the engine has yet to free
  stacks,               \* interpreter stacks the engine has yet to free
  timers,               \* events whose timer is set
  active,               \* request whose interpreter owns the processor
  launched,             \* history: how each request was accepted
  shared,               \* history: requests accepted with Sharable = TRUE
  finished,             \* history: requests whose script ran to its end
  result,               \* history: last status returned for each request
  dropped,              \* history: the protocol pointer was set after an UpyInit
                        \* that failed, its status dropped
  swept,                \* history: callers between test and write when the end of
                        \* a script took the interpreter down
  fault                 \* undefined behaviour: a jump, stack or buffer that is
                        \* not there ("control"), no interpreter ("heap")

executorData == <<ScriptEngineProtocol, IsRunning, DeinitAfterwards, ExecEvent,
                  ExecStatus, Script, ScriptEngineStack, ScriptEngineContext>>
history == <<launched, shared, finished, result>>
setters == <<setting, dropped, swept>>
vars == <<Loaded, mHeap, sysArgv, sysPath, sources, stacks, timers, active, fault,
          executorData, history, setters>>

Status == {"none", "SUCCESS", "LOAD_ERROR", "ALREADY_STARTED",
           "OUT_OF_RESOURCES", "INVALID_PARAMETER"}
Pointer == Req \cup {NULL}

\* Every variable has a value its C counterpart can have.
TypeOK ==
  /\ Loaded \in BOOLEAN /\ ScriptEngineProtocol \in BOOLEAN /\ mHeap \in BOOLEAN
  /\ IsRunning \in BOOLEAN /\ DeinitAfterwards \in BOOLEAN
  /\ ExecEvent \in Pointer /\ Script \in Pointer /\ ScriptEngineStack \in Pointer
  /\ ScriptEngineContext \in Pointer /\ sysArgv \in Pointer /\ active \in Pointer
  /\ ExecStatus \in Status
  /\ sysPath \subseteq Req /\ sources \subseteq Req /\ stacks \subseteq Req
  /\ timers \subseteq Req
  /\ launched \in [Req -> {"no", "sync", "async"}]
  /\ shared \subseteq Req /\ finished \subseteq Req
  /\ result \in [Req -> Status]
  /\ setting \in [Req -> {"no", "args", "path", "clear"}]
  /\ dropped \in BOOLEAN /\ swept \subseteq Req
  /\ fault \in {"none", "control", "heap"}

\* The state UseInit leaves behind when the driver is first started.
Init ==
  /\ Loaded = TRUE /\ ScriptEngineProtocol = TRUE /\ mHeap = TRUE
  /\ IsRunning = FALSE /\ DeinitAfterwards = FALSE
  /\ ExecEvent = NULL /\ ExecStatus = "SUCCESS"
  /\ Script = NULL /\ ScriptEngineStack = NULL /\ ScriptEngineContext = NULL
  /\ sysArgv = NULL /\ sysPath = {} /\ sources = {} /\ stacks = {} /\ timers = {} /\ active = NULL
  /\ launched = [r \in Req |-> "no"] /\ shared = {} /\ finished = {}
  /\ result = [r \in Req |-> "none"]
  /\ setting = [r \in Req |-> "no"] /\ dropped = FALSE /\ swept = {}
  /\ fault = "none"

-----------------------------------------------------------------------------
(* Start and stop of the interpreter and of the driver.                    *)

\* UpyInit: allocate the heap and start MicroPython, with an empty sys.argv.
UpyInit(ok) ==
  /\ ok \/ InitMayFail
  /\ mHeap' = ok
  /\ ExecStatus' = IF ok THEN "SUCCESS" ELSE ExecStatus

\* "if (mExecutorData.ScriptEngineProtocol == NULL) UpyInit ();"
EnsureInit(ok) ==
  IF ScriptEngineProtocol THEN ok /\ UNCHANGED <<mHeap, ExecStatus>>
                          ELSE UpyInit(ok)

\* Fault model: every launch starts the interpreter's lists anew.
ArgvAfterInit_Always(ok) == NULL

ArgvAfterInit(ok) == IF ~ScriptEngineProtocol /\ ok THEN NULL ELSE sysArgv
PathAfterInit(ok) == IF ~ScriptEngineProtocol /\ ok THEN {} ELSE sysPath

SysAfterInit(ok) ==
  /\ sysArgv' = ArgvAfterInit(ok) /\ sysPath' = PathAfterInit(ok)
  /\ dropped' = IF ScriptEngineProtocol THEN dropped ELSE ~ok

\* UseInit, from MicroPythonDriverInitialize: start the interpreter and publish
\* the protocol.  Whichever step fails, the earlier ones are undone.
UseInit(ok) ==
  /\ ~Loaded /\ active = NULL
  /\ ok \/ InitMayFail
  /\ Loaded' = ok /\ ScriptEngineProtocol' = ok /\ mHeap' = ok
  /\ sysArgv' = NULL /\ sysPath' = {} /\ ExecStatus' = "SUCCESS" /\ dropped' = FALSE
  /\ UNCHANGED <<IsRunning, DeinitAfterwards, ExecEvent, Script,
                 ScriptEngineStack, ScriptEngineContext, sources, stacks,
                 timers, active, fault, setting, swept, history>>

\* UseDeinit, from MicroPythonDriverUnload: a running script only earns a debug
\* message; the interpreter goes, mExecutorData is zeroed, and the timer event
\* is neither cancelled nor closed.
UseDeinit ==
  /\ Loaded /\ active = NULL
  /\ Loaded' = FALSE /\ ScriptEngineProtocol' = FALSE /\ mHeap' = FALSE
  /\ IsRunning' = FALSE /\ DeinitAfterwards' = FALSE
  /\ ExecEvent' = NULL /\ ExecStatus' = "SUCCESS"
  /\ Script' = NULL /\ ScriptEngineStack' = NULL /\ ScriptEngineContext' = NULL
  /\ UNCHANGED <<sysArgv, sysPath, sources, stacks, timers, active, fault, setters, history>>

-----------------------------------------------------------------------------
(* The protocol entries.  A caller may try again after ALREADY_STARTED with  *)
(* the same buffer; once a request is accepted the engine owns the buffer.   *)

\* The first half of UpySetArgs and UpySetPath: IsRunning is not looked at, and a
\* failed UpyInit goes unnoticed.
SysSetter(r, list) ==
  /\ Loaded /\ launched[r] = "no" /\ setting[r] = "no"
  /\ \E ok \in BOOLEAN : EnsureInit(ok) /\ SysAfterInit(ok)
  /\ ScriptEngineProtocol' = TRUE
  /\ setting' = [setting EXCEPT ![r] = list]
  /\ UNCHANGED <<Loaded, IsRunning, DeinitAfterwards, ExecEvent, Script,
                 ScriptEngineStack, ScriptEngineContext, sources, stacks,
                 timers, active, fault, swept, history>>

UpySetArgs(r) == SysSetter(r, "args")

\* A NULL path empties sys.path.
UpySetPath(r, path) == SysSetter(r, IF path = NULL THEN "clear" ELSE "path")

\* The second half: the list is written in the interpreter's heap, without another
\* look at the protocol pointer.  An empty list has nothing to clear.
WriteList(r) ==
  /\ setting[r] # "no"
  /\ setting' = [setting EXCEPT ![r] = "no"]
  /\ sysArgv' = IF setting[r] = "args" THEN r ELSE sysArgv
  /\ sysPath' = CASE setting[r] = "path" -> sysPath \cup {r}
                  [] setting[r] = "clear" -> {}
                  [] OTHER -> sysPath
  /\ \E written \in {TRUE, setting[r] # "clear"} :
       fault' = IF ~Loaded THEN "control" ELSE IF written /\ ~mHeap THEN "heap" ELSE fault
  /\ swept' = IF fault' = "heap" THEN swept ELSE swept \ {r}
  /\ UNCHANGED <<Loaded, mHeap, sources, stacks, timers, active, dropped, executorData, history>>

\* A launch that returns an error before it touches the executor.
Refuse(r, status) ==
  /\ result' = [result EXCEPT ![r] = status]
  /\ UNCHANGED <<Loaded, sysArgv, sysPath, sources, stacks, timers, active, fault,
                 ScriptEngineProtocol, IsRunning, DeinitAfterwards, ExecEvent,
                 Script, ScriptEngineStack, ScriptEngineContext,
                 launched, shared, finished, setters>>

\* Fault model: DeinitAfterwards is only ever raised, never lowered.
Accept_StickyDeinit(r, src, sharable, kind) ==
  /\ ScriptEngineProtocol' = TRUE
  /\ DeinitAfterwards' = (DeinitAfterwards \/ ~sharable)
  /\ Script' = src
  /\ sources' = sources \cup ({src} \ {NULL})
  /\ ScriptEngineStack' = r /\ stacks' = stacks \cup {r}
  /\ launched' = [launched EXCEPT ![r] = kind]
  /\ shared' = IF sharable THEN shared \cup {r} ELSE shared
  /\ UNCHANGED <<Loaded, ScriptEngineContext, finished, setting, swept>>

\* What Execute and ExecuteAsync record about an accepted request.
Accept(r, src, sharable, kind) ==
  /\ ScriptEngineProtocol' = TRUE
  /\ DeinitAfterwards' = ~sharable
  /\ Script' = src
  /\ sources' = sources \cup ({src} \ {NULL})
  /\ ScriptEngineStack' = r /\ stacks' = stacks \cup {r}
  /\ launched' = [launched EXCEPT ![r] = kind]
  /\ shared' = IF sharable THEN shared \cup {r} ELSE shared
  /\ UNCHANGED <<Loaded, ScriptEngineContext, finished, setting, swept>>

\* Is what SwitchStack is about to run there: the stack, the source, the heap?
EntryFault(stack, src, liveStacks, liveSources, heap) ==
  IF stack \notin liveStacks \/ (src # NULL /\ src \notin liveSources)
  THEN "control"
  ELSE IF heap THEN "none" ELSE "heap"

\* Fault model: ExecuteAsync without the IsRunning test.
UpyExecuteAsync_NoTest(r, src, sharable) ==
  /\ Loaded /\ launched[r] = "no" /\ setting[r] = "no" /\ src # NULL
  /\ \E ok \in BOOLEAN : EnsureInit(ok) /\ SysAfterInit(ok)
  /\ Accept(r, src, sharable, "async")
  /\ ExecEvent' = r
  /\ timers' = timers \cup {r}
  /\ result' = [result EXCEPT ![r] = "SUCCESS"]
  /\ UNCHANGED <<IsRunning, active, fault>>

\* UpyExecuteAsync: the outcome of UpyInit is dropped, and IsRunning stays FALSE
\* until the timer notification.
UpyExecuteAsync(r, src, sharable) ==
  /\ Loaded /\ launched[r] = "no" /\ setting[r] = "no"
  /\ \/ /\ src = NULL
        /\ Refuse(r, "INVALID_PARAMETER")
        /\ UNCHANGED <<mHeap, ExecStatus>>
     \/ /\ src # NULL /\ IsRunning
        /\ Refuse(r, "ALREADY_STARTED")
        /\ UNCHANGED <<mHeap, ExecStatus>>
     \/ /\ src # NULL /\ ~IsRunning
        /\ \E ok \in BOOLEAN : EnsureInit(ok) /\ SysAfterInit(ok)
        /\ Accept(r, src, sharable, "async")
        /\ ExecEvent' = r
        /\ timers' = timers \cup {r}
        /\ result' = [result EXCEPT ![r] = "SUCCESS"]
        /\ UNCHANGED <<IsRunning, active, fault>>

\* Fault model: Execute without the IsRunning test.
UpyExecute_NoTest(r, src, sharable) ==
  /\ Loaded /\ launched[r] = "no" /\ setting[r] = "no"
  /\ EnsureInit(TRUE) /\ SysAfterInit(TRUE)
  /\ Accept(r, src, sharable, "sync")
  /\ ExecEvent' = NULL
  /\ IsRunning' = TRUE
  /\ active' = r
  /\ fault' = EntryFault(r, src, stacks', sources', mHeap')
  /\ UNCHANGED <<timers, result>>

\* UpyExecute: ScriptExecutor is called directly and switches to the script
\* (src = NULL starts the REPL); the call returns in UpyDoScript below.
UpyExecute(r, src, sharable) ==
  /\ Loaded /\ launched[r] = "no" /\ setting[r] = "no"
  /\ \/ /\ IsRunning
        /\ Refuse(r, "ALREADY_STARTED")
        /\ UNCHANGED <<mHeap, ExecStatus>>
     \/ /\ ~IsRunning
        /\ EnsureInit(FALSE)
        /\ Refuse(r, "OUT_OF_RESOURCES")
     \/ /\ ~IsRunning
        /\ EnsureInit(TRUE) /\ SysAfterInit(TRUE)
        /\ Accept(r, src, sharable, "sync")
        /\ ExecEvent' = NULL
        /\ IsRunning' = TRUE
        /\ active' = r
        /\ fault' = EntryFault(r, src, stacks', sources', mHeap')
        /\ UNCHANGED <<timers, result>>

-----------------------------------------------------------------------------
(* The timer notification and the script.                                  *)

\* ScriptExecutor as notification of event e: start the script that
\* mExecutorData names when none is running, otherwise LongJump to the saved
\* interpreter context.
ScriptExecutor(e) ==
  /\ e \in timers
  /\ active # NULL => launched[active] = "sync"
  /\ timers' = timers \ {e}
  /\ \/ /\ Loaded /\ ~IsRunning /\ ScriptEngineProtocol
        /\ fault' = EntryFault(ScriptEngineStack, Script, stacks, sources, mHeap)
        /\ IsRunning' = TRUE
        /\ active' = ScriptEngineStack
     \/ /\ Loaded /\ (IsRunning \/ ~ScriptEngineProtocol)
        /\ fault' = IF active = NULL /\ ScriptEngineContext \in stacks
                    THEN fault ELSE "control"
        /\ active' = ScriptEngineContext
        /\ UNCHANGED IsRunning
     \/ /\ ~Loaded
        /\ fault' = "control"
        /\ UNCHANGED <<active, IsRunning>>
  /\ UNCHANGED <<Loaded, mHeap, sysArgv, sysPath, sources, stacks, ScriptEngineProtocol,
                 DeinitAfterwards, ExecEvent, ExecStatus, Script,
                 ScriptEngineStack, ScriptEngineContext, setters, history>>

\* Fault model: the interpreter yields without setting the timer again.
UpySuspend_NoTimer ==
  /\ active # NULL /\ ExecEvent # NULL
  /\ ScriptEngineContext' = active
  /\ active' = NULL
  /\ UNCHANGED <<Loaded, mHeap, sysArgv, sysPath, sources, stacks, fault, timers,
                 ScriptEngineProtocol, IsRunning, DeinitAfterwards, ExecEvent,
                 ExecStatus, Script, ScriptEngineStack, setters, history>>

\* UpySuspend in an asynchronous script, and case 1 of ScriptExecutor: save the
\* interpreter, jump back to the notification, set the timer again.  (In a
\* synchronous script ExecEvent is NULL and ets.suspend only raises.)
UpySuspend ==
  /\ active # NULL /\ ExecEvent # NULL
  /\ ScriptEngineContext' = active
  /\ timers' = timers \cup {ExecEvent}
  /\ active' = NULL
  /\ UNCHANGED <<Loaded, mHeap, sysArgv, sysPath, sources, stacks, fault,
                 ScriptEngineProtocol, IsRunning, DeinitAfterwards, ExecEvent,
                 ExecStatus, Script, ScriptEngineStack, setters, history>>

\* The variables UpyDoScript and the clean-up of ScriptExecutor settle the same
\* way in the model and in its fault models.
ScriptEnds(status) ==
  /\ active # NULL
  /\ fault' = IF Script # NULL /\ Script \notin sources THEN "control" ELSE fault
  /\ ScriptEngineStack' = NULL
  /\ IsRunning' = FALSE
  /\ active' = NULL
  /\ finished' = finished \cup {active}
  /\ result' = IF launched[active] = "sync"
               THEN [result EXCEPT ![active] = status] ELSE result
  /\ swept' = IF DeinitAfterwards THEN swept \cup {r \in Req : setting[r] # "no"} ELSE swept
  /\ UNCHANGED <<Loaded, sysArgv, sysPath, timers, DeinitAfterwards, ExecEvent, Script,
                 ScriptEngineContext, launched, shared, setting, dropped>>

\* Fault model: the protocol pointer survives UpyDeinit.
DeinitIfAsked_KeepPointer ==
  /\ mHeap' = (mHeap /\ ~DeinitAfterwards)
  /\ UNCHANGED ScriptEngineProtocol

\* UpyDeinit and "mExecutorData.ScriptEngineProtocol = NULL".
DeinitIfAsked ==
  /\ mHeap' = (mHeap /\ ~DeinitAfterwards)
  /\ ScriptEngineProtocol' = (ScriptEngineProtocol /\ ~DeinitAfterwards)

\* Fault model: a script that ended with an exception keeps its source buffer.
UpyDoScript_LeakOnError(status) ==
  /\ ScriptEnds(status)
  /\ sources' = IF status = "SUCCESS" THEN sources \ {Script} ELSE sources
  /\ ExecStatus' = status
  /\ stacks' = stacks \ {ScriptEngineStack}
  /\ DeinitIfAsked

\* The end of UpyDoScript and the default case of ScriptExecutor: free the
\* source and the stack, take a non-sharable interpreter down, go idle; a
\* synchronous Execute now returns ExecStatus.
UpyDoScript(status) ==
  /\ ScriptEnds(status)
  /\ sources' = sources \ {Script}
  /\ ExecStatus' = status
  /\ stacks' = stacks \ {ScriptEngineStack}
  /\ DeinitIfAsked

-----------------------------------------------------------------------------
Launch(r) ==
  \E src \in {r, NULL}, sharable \in BOOLEAN :
    UpyExecuteAsync(r, src, sharable) \/ UpyExecute(r, src, sharable)

ScriptStep ==
  \/ \E e \in Req : ScriptExecutor(e)
  \/ UpySuspend
  \/ \E status \in {"SUCCESS", "LOAD_ERROR"} : UpyDoScript(status)

Client ==
  \/ \E r \in Req : UpySetArgs(r) \/ \E path \in {r, NULL} : UpySetPath(r, path)
  \/ \E ok \in BOOLEAN : UseInit(ok)

\* Any protocol user, at any moment.
Next ==
  /\ fault = "none"
  /\ \/ ScriptStep
     \/ Client
     \/ UseDeinit
     \/ \E r \in Req : Launch(r) \/ WriteList(r)
Spec == Init /\ [][Next]_vars

\* An accepted script whose launch timer has not gone off yet.
LaunchPending == ~IsRunning /\ timers # {}

\* No caller is inside SetSysArgs or SetSysPath.
NobodySets == \A r \in Req : setting[r] = "no"

\* Protocol users that are at least one timer tick apart: nobody calls while another
\* is inside SetSysArgs or SetSysPath, nobody launches while a launch is pending,
\* nobody unloads the driver before the timers are off.
QuietNext ==
  /\ fault = "none"
  /\ \/ ScriptStep
     \/ \E r \in Req : WriteList(r)
     \/ NobodySets /\ Client
     \/ NobodySets /\ ~LaunchPending /\ \E r \in Req : Launch(r)
     \/ NobodySets /\ timers = {} /\ UseDeinit
QuietSpec == Init /\ [][QuietNext]_vars

-----------------------------------------------------------------------------
(* Properties.                                                             *)

\* Control never reaches a dead jump buffer, a freed or missing stack, or a
\* freed source buffer: the timer notification of use.c always finds what
\* mExecutorData says.
NoControlFault == fault # "control"

\* A script is entered, or sys.argv and sys.path are written, without an interpreter
\* only for one of two reasons: the interpreter start of the entry that set the
\* protocol pointer failed and its status was dropped (use.c:715, 904 and 964), or a
\* non-sharable script ended while a caller was between the test of the pointer and
\* the writing of the list (use.c:903, 963).  No mixture of sharable and non-sharable
\* launches, refusals, suspensions and reloads is a third.
HeapFaultExplained == fault = "heap" => dropped \/ swept # {}

\* What makes it inductive: a protocol pointer without an interpreter is the first
\* reason, a caller that has lost the pointer it tested the second.
HeapInv ==
  /\ HeapFaultExplained
  /\ ScriptEngineProtocol /\ ~mHeap => dropped
  /\ \A r \in Req : setting[r] # "no" /\ ~ScriptEngineProtocol => r \in swept

\* Stacks and source buffers have exactly one owner, the accepted request that
\* has not finished; nothing else stays allocated (no leak, no early free).
OnlyJobOwnsMemory ==
  /\ stacks = {r \in Req : launched[r] # "no"} \ finished
  /\ stacks = {ScriptEngineStack} \ {NULL}
  /\ sources \subseteq stacks
  /\ \A r \in stacks : launched[r] = "async" => r \in sources

\* The processor and the timer are never both in charge of a script: while an
\* interpreter owns the processor no timer is set, and a script that does not
\* own it has exactly its own timer set.
OneWakeUp ==
  timers = IF active # NULL THEN {} ELSE stacks

\* The inductive strengthening behind the three invariants above: what the
\* executor record, the timer and the saved context say about the one job.
ExecutorInv ==
  /\ NoControlFault
  /\ OnlyJobOwnsMemory
  /\ OneWakeUp
  /\ \A r \in finished : launched[r] # "no"
  /\ NobodySets \/ Loaded
  /\ active # NULL => active = ScriptEngineStack /\ IsRunning
  /\ ScriptEngineStack = NULL => ~IsRunning
  /\ ScriptEngineStack # NULL =>
       /\ Loaded /\ ScriptEngineProtocol
       /\ Script \in {NULL, ScriptEngineStack}
       /\ sources = {Script} \ {NULL}
       /\ active = NULL => launched[ScriptEngineStack] = "async"
       /\ ExecEvent = IF launched[ScriptEngineStack] = "async"
                      THEN ScriptEngineStack ELSE NULL
       /\ IsRunning /\ active = NULL => ScriptEngineContext = ScriptEngineStack

\* Only the end of a script that was launched as non-sharable, or the unload of
\* the driver, takes the interpreter down (Sharable of ExecuteAsync/Execute).
SharedInterpreterSurvives ==
  [][mHeap /\ ~mHeap' => ~Loaded' \/ \E r \in finished' \ finished : r \notin shared]_vars

\* What makes it inductive: there is no interpreter without a protocol pointer, so
\* that UpyInit never replaces a live one, and DeinitAfterwards is about the job
\* that holds the executor, not about one before it.
SharingInv ==
  /\ mHeap => ScriptEngineProtocol
  /\ \A r \in shared : launched[r] # "no"
  /\ ScriptEngineStack # NULL => DeinitAfterwards = (ScriptEngineStack \notin shared)

\* Whatever protocol users a tick apart do while a script runs or sleeps: once it has
\* been entered its executor record is left alone until it ends (or the driver is
\* unloaded).
RunningScriptUndisturbed ==
  [][IsRunning /\ IsRunning' =>
       UNCHANGED <<Script, ScriptEngineStack, ExecEvent, DeinitAfterwards, stacks>>]_vars

\* The promise of ScriptEngineProtocol.h, one job at a time and every job once,
\* read off mExecutorData.
jobPhase ==
  IF ScriptEngineStack = NULL THEN "idle"
  ELSE IF active # NULL THEN "running"
  ELSE IF IsRunning THEN "asleep" ELSE "pending"

Promise == INSTANCE SingleJob WITH
  Job <- Req, job <- ScriptEngineStack, phase <- jobPhase, done <- finished

\* The executor implements the protocol's promise, including that a pending or
\* suspended script is eventually given the processor by its timer.
ImplementsPromise == Promise!FairSpec

\* use.c:691, "EFI_ALREADY_STARTED   There's another script in running.": a
\* launch is accepted only when every script accepted before has finished.
RefusedWhileBusy ==
  [][\A r \in Req : launched[r] # launched'[r] =>
        \A q \in Req : launched[q] # "no" => q \in finished]_vars
=============================================================================
