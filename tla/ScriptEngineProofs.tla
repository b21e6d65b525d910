------------------------- MODULE ScriptEngineProofs -------------------------
(***************************************************************************)
(* Theorems about the script executor, for every set of requests and       *)
(* whether or not an interpreter start may fail; then about applications   *)
(* that the shell starts one after the other, for every number of them and *)
(* every command line: they are callers a tick apart, so that what is      *)
(* proved of the executor for such callers holds of the composition, and   *)
(* their arguments reach their scripts.                                    *)
(***************************************************************************)
EXTENDS ScriptApp, TLAPS

\* Every step of any protocol user keeps every executor variable in its range.
LEMMA TypeStep == ASSUME TypeOK, [Next]_vars PROVE TypeOK'
<1> USE DEF TypeOK, Pointer, Status
<1>1. ASSUME NEW e \in Req, ScriptExecutor(e) PROVE TypeOK'
  <2>1. fault' \in {"none", "control", "heap"}
    BY <1>1 DEF ScriptExecutor, EntryFault
  <2>2. IsRunning' \in BOOLEAN /\ active' \in Pointer /\ timers' \subseteq Req
    BY <1>1 DEF ScriptExecutor
  <2> QED
    BY <1>1, <2>1, <2>2 DEF ScriptExecutor, history, setters
<1>2. CASE UpySuspend
  BY <1>2 DEF UpySuspend, history, setters
<1>3. ASSUME NEW status \in {"SUCCESS", "LOAD_ERROR"}, UpyDoScript(status)
      PROVE TypeOK'
  BY <1>3 DEF UpyDoScript, ScriptEnds, DeinitIfAsked
<1>4. ASSUME NEW r \in Req, NEW path \in {r, NULL}, UpySetArgs(r) \/ UpySetPath(r, path)
      PROVE TypeOK'
  <2>1. mHeap' \in BOOLEAN /\ ExecStatus' \in Status
    BY <1>4 DEF UpySetArgs, UpySetPath, SysSetter, EnsureInit, UpyInit
  <2>2. sysArgv' \in Pointer /\ sysPath' \subseteq Req /\ dropped' \in BOOLEAN
    BY <1>4 DEF UpySetArgs, UpySetPath, SysSetter, SysAfterInit, ArgvAfterInit, PathAfterInit
  <2>3. setting' \in [Req -> {"no", "args", "path", "clear"}]
    BY <1>4 DEF UpySetArgs, UpySetPath, SysSetter
  <2> QED
    BY <1>4, <2>1, <2>2, <2>3 DEF UpySetArgs, UpySetPath, SysSetter, history
<1>5. ASSUME NEW ok \in BOOLEAN, UseInit(ok) PROVE TypeOK'
  BY <1>5 DEF UseInit, history
<1>6. CASE UseDeinit
  BY <1>6 DEF UseDeinit, history, setters
<1>7. ASSUME NEW r \in Req, Launch(r) PROVE TypeOK'
  <2>1. ASSUME NEW status \in Status, Refuse(r, status), UNCHANGED <<mHeap, ExecStatus>> \/ EnsureInit(FALSE)
        PROVE  TypeOK'
    <3>1. mHeap' \in BOOLEAN /\ ExecStatus' \in Status
      BY <2>1 DEF EnsureInit, UpyInit
    <3>2. result' \in [Req -> Status]
      BY <2>1 DEF Refuse
    <3> QED
      BY <2>1, <3>1, <3>2 DEF Refuse, setters
  <2>2. ASSUME NEW s \in {r, NULL}, NEW sh \in BOOLEAN, NEW kind \in {"sync", "async"}, NEW ok \in BOOLEAN,
               Accept(r, s, sh, kind), EnsureInit(ok), SysAfterInit(ok),
               ExecEvent' \in {r, NULL}, timers' \in {timers, timers \cup {r}},
               result' \in [Req -> Status], IsRunning' \in BOOLEAN, active' \in Pointer,
               fault' \in {"none", "control", "heap"}
        PROVE  TypeOK'
    <3>1. mHeap' \in BOOLEAN /\ ExecStatus' \in Status
      BY <2>2 DEF EnsureInit, UpyInit
    <3>2. sysArgv' \in Pointer /\ sysPath' \subseteq Req
      BY <2>2 DEF SysAfterInit, ArgvAfterInit, PathAfterInit
    <3>3. dropped' \in BOOLEAN
      BY <2>2 DEF SysAfterInit
    <3>4. launched' \in [Req -> {"no", "sync", "async"}] /\ shared' \subseteq Req
      BY <2>2 DEF Accept
    <3>5. /\ ScriptEngineProtocol' \in BOOLEAN /\ DeinitAfterwards' \in BOOLEAN /\ Script' \in Pointer
          /\ sources' \subseteq Req /\ ScriptEngineStack' \in Pointer /\ stacks' \subseteq Req
          /\ UNCHANGED <<Loaded, ScriptEngineContext, finished, setting, swept>>
      BY <2>2 DEF Accept
    <3> QED
      BY <2>2, <3>1, <3>2, <3>3, <3>4, <3>5
  <2>3. PICK s \in {r, NULL}, sh \in BOOLEAN : UpyExecuteAsync(r, s, sh) \/ UpyExecute(r, s, sh)
    BY <1>7 DEF Launch
  <2>4. CASE UpyExecuteAsync(r, s, sh)
    <3>1. \/ \E status \in Status : Refuse(r, status) /\ UNCHANGED <<mHeap, ExecStatus>>
          \/ /\ \E ok \in BOOLEAN : EnsureInit(ok) /\ SysAfterInit(ok)
             /\ Accept(r, s, sh, "async") /\ ExecEvent' = r /\ timers' = timers \cup {r}
             /\ result' = [result EXCEPT ![r] = "SUCCESS"] /\ UNCHANGED <<IsRunning, active, fault>>
      BY <2>4 DEF UpyExecuteAsync
    <3> QED
      BY <2>1, <2>2, <3>1
  <2>5. CASE UpyExecute(r, s, sh)
    <3>1. EntryFault(r, s, stacks', sources', mHeap') \in {"none", "control", "heap"}
      BY DEF EntryFault
    <3>2. \/ \E status \in Status : Refuse(r, status) /\ (UNCHANGED <<mHeap, ExecStatus>> \/ EnsureInit(FALSE))
          \/ /\ EnsureInit(TRUE) /\ SysAfterInit(TRUE)
             /\ Accept(r, s, sh, "sync") /\ ExecEvent' = NULL /\ IsRunning' = TRUE /\ active' = r
             /\ fault' = EntryFault(r, s, stacks', sources', mHeap') /\ UNCHANGED <<timers, result>>
      BY <2>5 DEF UpyExecute
    <3> QED
      BY <2>1, <2>2, <3>1, <3>2
  <2> QED
    BY <2>3, <2>4, <2>5
<1>9. ASSUME NEW r \in Req, WriteList(r) PROVE TypeOK'
  <2>1. sysArgv' \in Pointer /\ sysPath' \subseteq Req
    BY <1>9 DEF WriteList
  <2>2. setting' \in [Req -> {"no", "args", "path", "clear"}]
    BY <1>9 DEF WriteList
  <2>3. fault' \in {"none", "control", "heap"} /\ swept' \subseteq Req
    BY <1>9 DEF WriteList
  <2> QED
    BY <1>9, <2>1, <2>2, <2>3 DEF WriteList, executorData, history
<1>10. CASE UNCHANGED vars
  BY <1>10 DEF vars, executorData, history, setters
<1> QED
  BY <1>1, <1>2, <1>3, <1>4, <1>5, <1>6, <1>7, <1>9, <1>10
     DEF Next, ScriptStep, Client

\* From the load of the driver on, every variable of use.c has a value of its type.
THEOREM TypeCorrect == Spec => []TypeOK
<1>1. Init => TypeOK
  BY NullAssumption DEF Init, TypeOK, Pointer, Status
<1>2. TypeOK /\ [Next]_vars => TypeOK'
  BY TypeStep
<1> QED
  BY <1>1, <1>2, PTL DEF Spec

-----------------------------------------------------------------------------
\* A quiet protocol user is a protocol user.
LEMMA QuietTypeCorrect == QuietSpec => []TypeOK
<1>1. QuietNext => Next
  BY DEF QuietNext, Next
<1>2. QuietSpec => Spec
  BY <1>1, PTL DEF QuietSpec, Spec
<1> QED
  BY <1>2, TypeCorrect, PTL

\* No step of the timer notification, of the script, or of callers a tick apart
\* breaks what mExecutorData, the timer and the saved context say of the job.
LEMMA ExecutorInvStep ==
  ASSUME TypeOK, ExecutorInv, [QuietNext]_vars
  PROVE  ExecutorInv'
<1> USE NullAssumption DEF ExecutorInv, NoControlFault, OnlyJobOwnsMemory, OneWakeUp, TypeOK, Pointer, NobodySets
<1>1. ASSUME NEW e \in Req, fault = "none", ScriptExecutor(e) PROVE ExecutorInv'
  BY <1>1 DEF ScriptExecutor, EntryFault, history, setters
<1>2. CASE fault = "none" /\ UpySuspend
  BY <1>2 DEF UpySuspend, history, setters
<1>3. ASSUME NEW status \in {"SUCCESS", "LOAD_ERROR"}, fault = "none", UpyDoScript(status)
      PROVE ExecutorInv'
  <2>1. active = ScriptEngineStack /\ active \in Req /\ IsRunning
    BY <1>3 DEF UpyDoScript, ScriptEnds
  <2>2. stacks' = {} /\ sources' = {} /\ timers' = {} /\ fault' = "none"
    BY <1>3, <2>1 DEF UpyDoScript, ScriptEnds
  <2>3. ScriptEngineStack' = NULL /\ active' = NULL /\ ~IsRunning'
    BY <1>3 DEF UpyDoScript, ScriptEnds
  <2>4. launched' = launched /\ finished' = finished \cup {ScriptEngineStack}
    BY <1>3, <2>1 DEF UpyDoScript, ScriptEnds
  <2>5. stacks' = {r \in Req : launched'[r] # "no"} \ finished'
    BY <2>1, <2>2, <2>4
  <2>6. \A r \in finished' : launched'[r] # "no"
    BY <2>1, <2>4
  <2>7. UNCHANGED <<Loaded, setting>>
    BY <1>3 DEF UpyDoScript, ScriptEnds
  <2> QED
    BY <2>2, <2>3, <2>5, <2>6, <2>7
<1>4. ASSUME fault = "none", NEW r \in Req, NEW list, SysSetter(r, list) PROVE ExecutorInv'
  BY <1>4 DEF SysSetter, history
<1>5. ASSUME NobodySets, NEW ok \in BOOLEAN, UseInit(ok) PROVE ExecutorInv'
  BY <1>5 DEF UseInit, history
<1>6. CASE NobodySets /\ timers = {} /\ UseDeinit
  BY <1>6 DEF UseDeinit, history, setters
<1>7. ASSUME NEW r \in Req, NEW src \in {r, NULL}, NEW sharable \in BOOLEAN,
             ~LaunchPending, fault = "none", UpyExecuteAsync(r, src, sharable)
      PROVE ExecutorInv'
  <2>1. ASSUME NEW status, Refuse(r, status) PROVE ExecutorInv'
    BY <2>1 DEF Refuse, setters
  <2>2. CASE ~IsRunning /\ src # NULL /\ Accept(r, src, sharable, "async")
              /\ ExecEvent' = r /\ timers' = timers \cup {r}
              /\ UNCHANGED <<IsRunning, active, fault>>
    <3>1. ScriptEngineStack = NULL /\ stacks = {} /\ sources = {} /\ timers = {}
      BY <1>7, <2>2 DEF LaunchPending
    <3>2. /\ stacks' = {r} /\ sources' = {r} /\ timers' = {r} /\ active' = NULL
          /\ ScriptEngineStack' = r /\ Script' = r /\ ~IsRunning'
          /\ Loaded' /\ ScriptEngineProtocol' /\ fault' = "none"
      BY <1>7, <2>2, <3>1 DEF Accept, UpyExecuteAsync
    <3>3. launched' = [launched EXCEPT ![r] = "async"] /\ finished' = finished
      BY <2>2 DEF Accept
    <3>4. r \notin finished
      BY <1>7 DEF UpyExecuteAsync
    <3> QED
      BY <2>2, <3>1, <3>2, <3>3, <3>4
  <2> QED
    BY <1>7, <2>1, <2>2 DEF UpyExecuteAsync
<1>8. ASSUME NEW r \in Req, NEW src \in {r, NULL}, NEW sharable \in BOOLEAN,
             ~LaunchPending, fault = "none", UpyExecute(r, src, sharable)
      PROVE ExecutorInv'
  <2>1. ASSUME NEW status, Refuse(r, status) PROVE ExecutorInv'
    BY <2>1 DEF Refuse, setters
  <2>2. CASE ~IsRunning /\ Accept(r, src, sharable, "sync") /\ ExecEvent' = NULL
              /\ IsRunning' = TRUE /\ active' = r /\ UNCHANGED timers
              /\ fault' = EntryFault(r, src, stacks', sources', mHeap')
    <3>1. ScriptEngineStack = NULL /\ stacks = {} /\ sources = {} /\ timers = {}
      BY <1>8, <2>2 DEF LaunchPending
    <3>2. /\ stacks' = {r} /\ sources' = {src} \ {NULL} /\ timers' = {} /\ active' = r
          /\ ScriptEngineStack' = r /\ Script' = src /\ IsRunning'
          /\ Loaded' /\ ScriptEngineProtocol'
      BY <1>8, <2>2, <3>1 DEF Accept, UpyExecute
    <3>3. fault' # "control"
      BY <2>2, <3>2 DEF EntryFault
    <3>4. launched' = [launched EXCEPT ![r] = "sync"] /\ finished' = finished
      BY <2>2 DEF Accept
    <3>5. r \notin finished
      BY <1>8 DEF UpyExecute
    <3>6. stacks' = {q \in Req : launched'[q] # "no"} \ finished'
      BY <3>1, <3>2, <3>4, <3>5
    <3> QED
      BY <2>2, <3>2, <3>3, <3>4, <3>6
  <2> QED
    BY <1>8, <2>1, <2>2 DEF UpyExecute
<1>9. ASSUME fault = "none", NEW r \in Req, WriteList(r) PROVE ExecutorInv'
  <2>1. Loaded
    BY <1>9 DEF WriteList
  <2>2. fault' # "control"
    BY <1>9, <2>1 DEF WriteList
  <2>3. UNCHANGED <<Loaded, sources, stacks, timers, active, executorData, history>>
    BY <1>9 DEF WriteList
  <2> QED
    BY <2>1, <2>2, <2>3 DEF executorData, history
<1>10. CASE UNCHANGED vars
  BY <1>10 DEF vars, executorData, history, setters
<1> QED
  BY <1>1, <1>2, <1>3, <1>4, <1>5, <1>6, <1>7, <1>8, <1>9, <1>10
     DEF QuietNext, ScriptStep, Client, Launch, UpySetArgs, UpySetPath

\* The inductive invariant holds in every reachable state.
LEMMA ExecutorInvariant == QuietSpec => [](TypeOK /\ ExecutorInv)
<1>1. Init => ExecutorInv
  BY NullAssumption DEF Init, ExecutorInv, NoControlFault, OnlyJobOwnsMemory, OneWakeUp, NobodySets
<1>2. TypeOK /\ ExecutorInv /\ [QuietNext]_vars => ExecutorInv'
  BY ExecutorInvStep
<1> QED
  BY <1>1, <1>2, QuietTypeCorrect, PTL DEF QuietSpec

\* Callers a timer tick apart never drive the executor of use.c into a dead jump
\* buffer, a freed stack or a freed source; nothing leaks; one wake-up at a time.
THEOREM ExecutorSafe == QuietSpec => [](NoControlFault /\ OnlyJobOwnsMemory /\ OneWakeUp)
<1>1. ExecutorInv => NoControlFault /\ OnlyJobOwnsMemory /\ OneWakeUp
  BY DEF ExecutorInv
<1> QED
  BY <1>1, ExecutorInvariant, PTL

\* Stacks and sources of use.c belong to the one job that is pending or running, and are
\* freed exactly once.
THEOREM MemoryOwned == QuietSpec => []OnlyJobOwnsMemory
BY ExecutorSafe, PTL
\* A job that waits has exactly one timer set, and nobody else has one.
THEOREM OneTimer == QuietSpec => []OneWakeUp
BY ExecutorSafe, PTL

-----------------------------------------------------------------------------
\* Once a script has been entered no protocol user of use.c, as long as callers are a
\* tick apart, changes the executor record under it.
THEOREM RunningUndisturbed == QuietSpec => RunningScriptUndisturbed
<1>1. ASSUME [QuietNext]_vars, IsRunning, IsRunning'
      PROVE  UNCHANGED <<Script, ScriptEngineStack, ExecEvent, DeinitAfterwards, stacks>>
  <2>1. ASSUME NEW e \in Req, ScriptExecutor(e)
        PROVE  UNCHANGED <<Script, ScriptEngineStack, ExecEvent, DeinitAfterwards, stacks>>
    BY <2>1 DEF ScriptExecutor
  <2>2. ~\E status \in {"SUCCESS", "LOAD_ERROR"} : UpyDoScript(status)
    BY <1>1 DEF UpyDoScript, ScriptEnds
  <2>3. ASSUME NEW r \in Req, Launch(r)
        PROVE  UNCHANGED <<Script, ScriptEngineStack, ExecEvent, DeinitAfterwards, stacks>>
    BY <1>1, <2>3 DEF Launch, UpyExecuteAsync, UpyExecute, Refuse
  <2>4. CASE UpySuspend
    BY <2>4 DEF UpySuspend
  <2>5. CASE Client
    BY <2>5 DEF Client, UpySetArgs, UpySetPath, SysSetter, UseInit
  <2>6. ~UseDeinit
    BY <1>1 DEF UseDeinit
  <2>7. ASSUME NEW r \in Req, WriteList(r)
        PROVE  UNCHANGED <<Script, ScriptEngineStack, ExecEvent, DeinitAfterwards, stacks>>
    BY <2>7 DEF WriteList, executorData
  <2>8. CASE UNCHANGED vars
    BY <2>8 DEF vars, executorData
  <2> QED
    BY <1>1, <2>1, <2>2, <2>3, <2>4, <2>5, <2>6, <2>7, <2>8 DEF QuietNext, ScriptStep
<1> QED
  BY <1>1, PTL DEF QuietSpec, RunningScriptUndisturbed

\* Each step of the executor is a step of the one-job engine or none at all.
LEMMA PromiseStep ==
  ASSUME TypeOK, ExecutorInv, [QuietNext]_vars
  PROVE  [Promise!Next]_(Promise!jobVars)
<1> USE NullAssumption DEF TypeOK, Pointer, ExecutorInv, OnlyJobOwnsMemory, OneWakeUp,
        jobPhase
<1>1. ASSUME NEW e \in Req, ScriptExecutor(e) PROVE Promise!Run
  <2>1. active = NULL /\ ScriptEngineStack # NULL /\ e = ScriptEngineStack
    BY <1>1 DEF ScriptExecutor
  <2>2. active' = ScriptEngineStack
    BY <1>1, <2>1 DEF ScriptExecutor
  <2>3. ScriptEngineStack' = ScriptEngineStack /\ finished' = finished
    BY <1>1 DEF ScriptExecutor, history
  <2> QED
    BY <2>1, <2>2, <2>3 DEF Promise!Run
<1>2. ASSUME UpySuspend PROVE Promise!Sleep
  BY <1>2 DEF UpySuspend, Promise!Sleep, history
<1>3. ASSUME NEW status, UpyDoScript(status) PROVE Promise!End
  BY <1>3 DEF UpyDoScript, ScriptEnds, Promise!End
<1>4. CASE Client \/ UNCHANGED vars
  BY <1>4 DEF Client, UpySetArgs, UpySetPath, SysSetter, UseInit, vars, executorData, history, Promise!jobVars
<1>5. CASE timers = {} /\ UseDeinit
  <2>1. ScriptEngineStack = NULL
    BY <1>5 DEF UseDeinit
  <2> QED
    BY <1>5, <2>1 DEF UseDeinit, history, Promise!jobVars
<1>6. ASSUME NEW r \in Req, ~LaunchPending, Launch(r)
      PROVE  Promise!Accept(r) \/ UNCHANGED Promise!jobVars
  <2>1. PICK src \in {r, NULL}, sharable \in BOOLEAN :
             UpyExecuteAsync(r, src, sharable) \/ UpyExecute(r, src, sharable)
    BY <1>6 DEF Launch
  <2>2. ASSUME NEW status, Refuse(r, status) PROVE UNCHANGED Promise!jobVars
    BY <2>2 DEF Refuse, Promise!jobVars
  <2>3. ASSUME ~IsRunning, NEW kind, Accept(r, src, sharable, kind),
               launched[r] = "no", active' \in {NULL, r}, active' = NULL => ~IsRunning'
        PROVE  Promise!Accept(r)
    <3>1. ScriptEngineStack = NULL
      BY <1>6, <2>3 DEF LaunchPending
    <3>2. ScriptEngineStack' = r /\ finished' = finished /\ r \notin finished
      BY <2>3 DEF Accept
    <3> QED
      BY <2>3, <3>1, <3>2 DEF Promise!Accept
  <2>4. CASE UpyExecuteAsync(r, src, sharable)
    BY <2>2, <2>3, <2>4 DEF UpyExecuteAsync
  <2>5. CASE UpyExecute(r, src, sharable)
    BY <2>2, <2>3, <2>5 DEF UpyExecute
  <2> QED
    BY <2>1, <2>4, <2>5
<1>7. ASSUME NEW r \in Req, WriteList(r) PROVE UNCHANGED Promise!jobVars
  BY <1>7 DEF WriteList, executorData, history, Promise!jobVars
<1> QED
  BY <1>1, <1>2, <1>3, <1>4, <1>5, <1>6, <1>7
     DEF QuietNext, ScriptStep, Promise!Next

\* For callers a tick apart the executor of use.c is an engine that holds one
\* script at a time and runs every accepted script exactly once: the safety part
\* of what ScriptEngineProtocol.h documents.
THEOREM KeepsPromise == QuietSpec => Promise!Spec
<1>1. Init => Promise!Init
  BY DEF Init, Promise!Init, jobPhase
<1> QED
  BY <1>1, ExecutorInvariant, PromiseStep, PTL DEF QuietSpec, Promise!Spec
-----------------------------------------------------------------------------
\* No step of callers a tick apart loses the interpreter and keeps the protocol pointer,
\* or takes the pointer from a caller that has tested it, without a trace of why.
LEMMA HeapInvStep ==
  ASSUME TypeOK, ExecutorInv, HeapInv, ExecutorInv', [QuietNext]_vars
  PROVE  HeapInv'
<1> USE DEF HeapInv, HeapFaultExplained, TypeOK, Pointer, ExecutorInv, NoControlFault
<1>1. ASSUME NEW e \in Req, fault = "none", ScriptExecutor(e) PROVE HeapInv'
  BY <1>1 DEF ScriptExecutor, EntryFault, setters
<1>2. CASE UpySuspend
  BY <1>2 DEF UpySuspend, setters
<1>3. ASSUME NEW status, fault = "none", UpyDoScript(status) PROVE HeapInv'
  BY <1>3 DEF UpyDoScript, ScriptEnds, DeinitIfAsked
<1>4. ASSUME NEW r \in Req, NEW list, fault = "none", SysSetter(r, list) PROVE HeapInv'
  <2>1. ScriptEngineProtocol' /\ fault' = "none"
    BY <1>4 DEF SysSetter
  <2>2. ~mHeap' => dropped'
    BY <1>4 DEF SysSetter, EnsureInit, UpyInit, SysAfterInit
  <2> QED
    BY <2>1, <2>2
<1>5. ASSUME NEW ok \in BOOLEAN, fault = "none", NobodySets, UseInit(ok) PROVE HeapInv'
  BY <1>5 DEF UseInit, NobodySets
<1>6. CASE fault = "none" /\ NobodySets /\ UseDeinit
  BY <1>6 DEF UseDeinit, setters, NobodySets
<1>7. ASSUME NEW r \in Req, NEW src \in {r, NULL}, NEW sharable \in BOOLEAN,
             fault = "none", UpyExecuteAsync(r, src, sharable)
      PROVE HeapInv'
  <2>1. ASSUME NEW st, Refuse(r, st), UNCHANGED mHeap PROVE HeapInv'
    BY <2>1 DEF Refuse, setters
  <2>2. ASSUME NEW ok \in BOOLEAN, EnsureInit(ok), SysAfterInit(ok), ScriptEngineProtocol',
               UNCHANGED fault
        PROVE  HeapInv'
    <3>1. ~mHeap' => dropped'
      BY <2>2 DEF EnsureInit, UpyInit, SysAfterInit
    <3> QED
      BY <1>7, <2>2, <3>1
  <2> QED
    BY <1>7, <2>1, <2>2 DEF UpyExecuteAsync, Accept
<1>8. ASSUME NEW r \in Req, NEW src \in {r, NULL}, NEW sharable \in BOOLEAN,
             fault = "none", UpyExecute(r, src, sharable)
      PROVE HeapInv'
  <2>1. ASSUME NEW st, Refuse(r, st), UNCHANGED mHeap \/ EnsureInit(FALSE) PROVE HeapInv'
    BY <2>1 DEF Refuse, setters, EnsureInit, UpyInit
  <2>2. ASSUME EnsureInit(TRUE), SysAfterInit(TRUE), ScriptEngineProtocol',
               fault' = EntryFault(r, src, stacks', sources', mHeap')
        PROVE  HeapInv'
    <3>1. ~mHeap' => dropped'
      BY <2>2 DEF EnsureInit, UpyInit, SysAfterInit
    <3>2. fault' = "heap" => ~mHeap'
      BY <2>2 DEF EntryFault
    <3> QED
      BY <2>2, <3>1, <3>2
  <2> QED
    BY <1>8, <2>1, <2>2 DEF UpyExecute, Accept
<1>9. ASSUME NEW r \in Req, fault = "none", WriteList(r) PROVE HeapInv'
  <2>1. UNCHANGED <<mHeap, ScriptEngineProtocol, dropped>>
    BY <1>9 DEF WriteList, executorData
  <2>2. \A q \in Req : q # r => setting'[q] = setting[q]
    BY <1>9 DEF WriteList
  <2>3. setting'[r] = "no" /\ setting[r] # "no"
    BY <1>9 DEF WriteList
  <2>4. swept' = IF fault' = "heap" THEN swept ELSE swept \ {r}
    BY <1>9 DEF WriteList
  <2>5. fault' = "heap" => ~mHeap
    BY <1>9 DEF WriteList
  <2>6. HeapFaultExplained'
    BY <2>1, <2>3, <2>4, <2>5
  <2> QED
    BY <2>1, <2>2, <2>3, <2>4, <2>6
<1>10. CASE UNCHANGED vars
  BY <1>10 DEF vars, executorData, setters
<1> QED
  BY <1>1, <1>2, <1>3, <1>4, <1>5, <1>6, <1>7, <1>8, <1>9, <1>10
     DEF QuietNext, ScriptStep, Client, Launch, UpySetArgs, UpySetPath

\* For callers a tick apart, whether or not an interpreter start may fail and however
\* sharable and non-sharable launches, SetSysArgs, SetSysPath and reloads are mixed:
\* use.c enters a script or writes a list without an interpreter only after a failed
\* start whose status it dropped, or when a non-sharable script ended inside a setter.
THEOREM InterpreterLoss == QuietSpec => []HeapFaultExplained
<1>1. Init => HeapInv
  BY DEF Init, HeapInv, HeapFaultExplained
<1>2. TypeOK /\ ExecutorInv /\ HeapInv /\ ExecutorInv' /\ [QuietNext]_vars => HeapInv'
  BY HeapInvStep
<1>3. HeapInv => HeapFaultExplained
  BY DEF HeapInv
<1> QED
  BY <1>1, <1>2, <1>3, ExecutorInvariant, PTL DEF QuietSpec
-----------------------------------------------------------------------------
\* Launches, ends and reloads keep DeinitAfterwards in step with the way the one
\* job was launched.
LEMMA SharingInvStep ==
  ASSUME TypeOK, ExecutorInv, SharingInv, [QuietNext]_vars
  PROVE  SharingInv'
<1> USE NullAssumption DEF SharingInv, TypeOK, Pointer
<1>1. ASSUME NEW e \in Req, ScriptExecutor(e) PROVE SharingInv'
  BY <1>1 DEF ScriptExecutor, history
<1>2. CASE UpySuspend
  BY <1>2 DEF UpySuspend, history
<1>3. ASSUME NEW status, UpyDoScript(status) PROVE SharingInv'
  BY <1>3 DEF UpyDoScript, ScriptEnds, DeinitIfAsked
<1>4. ASSUME NEW r \in Req, NEW path \in {r, NULL}, UpySetArgs(r) \/ UpySetPath(r, path)
      PROVE SharingInv'
  BY <1>4 DEF UpySetArgs, UpySetPath, SysSetter, history
<1>5. ASSUME NEW ok \in BOOLEAN, UseInit(ok) PROVE SharingInv'
  BY <1>5 DEF UseInit, history
<1>6. CASE UseDeinit
  BY <1>6 DEF UseDeinit, history
<1>7. ASSUME NEW r \in Req, NEW src, NEW sharable \in BOOLEAN, NEW kind \in {"sync", "async"},
             launched[r] = "no", Accept(r, src, sharable, kind)
      PROVE  SharingInv'
  <2>1. ScriptEngineProtocol' /\ ScriptEngineStack' = r /\ DeinitAfterwards' = ~sharable
    BY <1>7 DEF Accept
  <2>2. shared' = (IF sharable THEN shared \cup {r} ELSE shared) /\ r \notin shared
    BY <1>7 DEF Accept
  <2>3. \A q \in Req : launched'[q] = IF q = r THEN kind ELSE launched[q]
    BY <1>7 DEF Accept
  <2> QED
    BY <2>1, <2>2, <2>3
<1>8. ASSUME NEW r \in Req, NEW status, Refuse(r, status),
             (mHeap' = mHeap) \/ EnsureInit(FALSE)
      PROVE  SharingInv'
  BY <1>8 DEF Refuse, EnsureInit, UpyInit
<1>9. ASSUME NEW r \in Req, Launch(r) PROVE SharingInv'
  <2>1. PICK src \in {r, NULL}, sharable \in BOOLEAN :
             UpyExecuteAsync(r, src, sharable) \/ UpyExecute(r, src, sharable)
    BY <1>9 DEF Launch
  <2>2. CASE UpyExecuteAsync(r, src, sharable)
    <3>1. \/ \E status : Refuse(r, status) /\ mHeap' = mHeap
          \/ launched[r] = "no" /\ Accept(r, src, sharable, "async")
      BY <2>2 DEF UpyExecuteAsync
    <3> QED
      BY <3>1, <1>7, <1>8
  <2>3. CASE UpyExecute(r, src, sharable)
    <3>1. \/ \E status : Refuse(r, status) /\ (mHeap' = mHeap \/ EnsureInit(FALSE))
          \/ launched[r] = "no" /\ Accept(r, src, sharable, "sync")
      BY <2>3 DEF UpyExecute
    <3> QED
      BY <3>1, <1>7, <1>8
  <2> QED
    BY <2>1, <2>2, <2>3
<1>10. ASSUME NEW r \in Req, WriteList(r) PROVE SharingInv'
  BY <1>10 DEF WriteList, executorData, history
<1>11. CASE UNCHANGED vars
  BY <1>11 DEF vars, executorData, history
<1> QED
  BY <1>1, <1>2, <1>3, <1>4, <1>5, <1>6, <1>9, <1>10, <1>11
     DEF QuietNext, ScriptStep, Client

\* A step that takes the interpreter down ends a script launched as non-sharable,
\* or unloads the driver; no failed UpyInit replaces an interpreter that was there.
LEMMA SharedSurvivesStep ==
  ASSUME TypeOK, ExecutorInv, SharingInv, [QuietNext]_vars, mHeap, ~mHeap'
  PROVE  ~Loaded' \/ \E r \in finished' \ finished : r \notin shared
<1> USE NullAssumption DEF TypeOK, Pointer
<1>1. ScriptEngineProtocol
  BY DEF SharingInv
<1>2. ~EnsureInit(TRUE) /\ ~EnsureInit(FALSE)
  BY <1>1 DEF EnsureInit
<1>3. ASSUME NEW status, UpyDoScript(status)
      PROVE  \E r \in finished' \ finished : r \notin shared
  <2>1. DeinitAfterwards /\ active # NULL /\ finished' = finished \cup {active}
    BY <1>3 DEF UpyDoScript, ScriptEnds, DeinitIfAsked
  <2>2. active = ScriptEngineStack /\ active \in stacks /\ active \notin finished
    BY <2>1 DEF ExecutorInv, OnlyJobOwnsMemory
  <2> QED
    BY <2>1, <2>2 DEF SharingInv
<1>4. ASSUME NEW e \in Req, ScriptExecutor(e) PROVE FALSE
  BY <1>4 DEF ScriptExecutor
<1>5. ~UpySuspend
  BY DEF UpySuspend
<1>6. ASSUME NEW r \in Req, NEW path, UpySetArgs(r) \/ UpySetPath(r, path) PROVE FALSE
  BY <1>2, <1>6 DEF UpySetArgs, UpySetPath, SysSetter
<1>7. ASSUME NEW ok, UseInit(ok) PROVE ~Loaded'
  BY <1>7 DEF UseInit
<1>8. ASSUME UseDeinit PROVE ~Loaded'
  BY <1>8 DEF UseDeinit
<1>9. ASSUME NEW r \in Req, Launch(r) PROVE FALSE
  BY <1>2, <1>9 DEF Launch, UpyExecuteAsync, UpyExecute
<1>10. ~UNCHANGED vars
  BY DEF vars
<1>11. ASSUME NEW r \in Req, WriteList(r) PROVE FALSE
  BY <1>11 DEF WriteList
<1> QED
  BY <1>3, <1>4, <1>5, <1>6, <1>7, <1>8, <1>9, <1>10, <1>11 DEF QuietNext, ScriptStep, Client

\* A script launched as sharable, a refused launch, SetSysArgs and a suspended
\* script all leave the interpreter where it is: for callers a tick apart only the
\* end of a non-sharable script or the unload of the driver calls UpyDeinit.
THEOREM SharedSurvives == QuietSpec => SharedInterpreterSurvives
<1>1. Init => SharingInv
  BY DEF Init, SharingInv
<1>2. TypeOK /\ ExecutorInv /\ SharingInv /\ [QuietNext]_vars => SharingInv'
  BY SharingInvStep
<1>3. TypeOK /\ ExecutorInv /\ SharingInv /\ [QuietNext]_vars =>
        [mHeap /\ ~mHeap' => ~Loaded' \/ \E r \in finished' \ finished : r \notin shared]_vars
  BY SharedSurvivesStep
<1> QED
  BY <1>1, <1>2, <1>3, ExecutorInvariant, PTL DEF QuietSpec, SharedInterpreterSurvives

-----------------------------------------------------------------------------
(* Applications in a row.                                                  *)

\* What every proof below needs of the constants: the two requests of the running
\* application are requests.
LEMMA OwnRequests ==
  ASSUME AppTypeOK, pc # "shell"
  PROVE  /\ app \in App /\ ScriptReq \in Req /\ ReplReq \in Req
         /\ ScriptReq # NULL /\ ReplReq # NULL /\ ScriptReq # ReplReq
<1>1. app \in App
  BY DEF AppTypeOK
<1>2. ScriptReq \in Req /\ ReplReq \in Req
  BY <1>1, ReqAssumption DEF ScriptReq, ReplReq
<1>3. ScriptReq # ReplReq
  BY DEF ScriptReq, ReplReq
<1> QED
  BY <1>1, <1>2, <1>3, NullAssumption

\* The options of a command line are Booleans, and -a makes -i void.
LEMMA OwnOptions ==
  ASSUME AppTypeOK
  PROVE  /\ opts.async \in BOOLEAN /\ opts.share \in BOOLEAN /\ opts.inter \in BOOLEAN
         /\ opts.args \in BOOLEAN /\ (opts.async => ~opts.inter)
BY DEF AppTypeOK, CommandLine, Options

\* After boot nothing is held, and there is no application.
LEMMA AppInitial ==
  ASSUME AppInit
  PROVE  /\ TypeOK /\ ExecutorInv /\ SharingInv /\ HeapInv /\ AppTypeOK /\ AppsInv /\ SetterInv
         /\ ArgsInv /\ Promise!Init
<1> USE NullAssumption DEF AppInit
<1>1. TypeOK
  BY DEF TypeOK, Pointer, Status
<1>2. ExecutorInv
  BY DEF ExecutorInv, NoControlFault, OnlyJobOwnsMemory, OneWakeUp, NobodySets
<1>3. SharingInv /\ HeapInv
  BY DEF SharingInv, HeapInv, HeapFaultExplained
<1>4. AppTypeOK
  BY DEF AppTypeOK, NoOpts, CommandLine, Options
<1>5. AppsInv /\ SetterInv
  BY DEF AppsInv, LaunchPending, SetterInv
<1>6. ArgsInv
  BY DEF ArgsInv
<1>7. Promise!Init
  BY DEF Promise!Init, jobPhase
<1> QED
  BY <1>1, <1>2, <1>3, <1>4, <1>5, <1>6, <1>7

\* What the executor record says while no script owns the processor: a launch that
\* is pending, a script that sleeps, or nothing at all.
LEMMA NobodyRuns ==
  ASSUME TypeOK, ExecutorInv, active = NULL
  PROVE  /\ timers = {ScriptEngineStack} \ {NULL}
         /\ ScriptEngineStack # NULL => launched[ScriptEngineStack] = "async"
         /\ ~Loaded => ScriptEngineStack = NULL
         /\ ScriptEngineStack = NULL => ~IsRunning
BY DEF ExecutorInv, OnlyJobOwnsMemory, OneWakeUp

-----------------------------------------------------------------------------
\* Each step of the composition is, for the executor, a step of a caller a tick
\* apart, or none.
LEMMA AppQuietStep ==
  ASSUME TypeOK, ExecutorInv, AppTypeOK, AppsInv, SetterInv, [AppNext]_allVars
  PROVE  [QuietNext]_vars
<1> USE NullAssumption
<1>1. CASE UNCHANGED allVars
  BY <1>1 DEF allVars
<1>2. CASE fault = "none" /\ ScriptStep
  BY <1>2 DEF QuietNext
<1>3. CASE fault = "none" /\ AppStep
  <2>1. active = NULL
    BY <1>3 DEF AppStep
  <2>0. pc \notin {"args", "path"} => NobodySets
    BY DEF SetterInv, NobodySets
  <2>2. ASSUME NEW r \in Req, Launch(r), ~LaunchPending, NobodySets PROVE QuietNext
    BY <1>3, <2>2 DEF QuietNext
  <2>3. ASSUME NEW r \in Req, UpySetArgs(r) \/ UpySetPath(r, r), NobodySets PROVE QuietNext
    BY <1>3, <2>3 DEF QuietNext, Client
  <2>4. ASSUME UseDeinit, loadedHere, NobodySets, pc = "parse" \/ ~opts.async
        PROVE  QuietNext
    <3>1. ScriptEngineStack = NULL
      BY <2>1, <2>4, NobodyRuns DEF AppsInv
    <3>2. timers = {}
      BY <2>1, <3>1, NobodyRuns
    <3> QED
      BY <1>3, <2>4, <3>2 DEF QuietNext
  <2>5. ASSUME NEW a \in App, StartApp(a) PROVE UNCHANGED vars
    BY <2>5 DEF StartApp
  <2>6. ASSUME NEW ok \in BOOLEAN, LoadDriver(ok) PROVE QuietNext
    BY <1>3, <2>0, <2>6 DEF LoadDriver, QuietNext, Client
  <2>7. CASE BadOptions
    BY <2>0, <2>4, <2>7 DEF BadOptions
  <2>8. CASE SetArgs
    <3>1. ScriptReq \in Req
      BY <2>8, OwnRequests DEF SetArgs
    <3> QED
      BY <2>0, <2>3, <2>8, <3>1 DEF SetArgs
  <2>9. ASSUME NEW readable, NEW empty, ReadScript(readable, empty)
        PROVE  QuietNext \/ UNCHANGED vars
    <3>1. ScriptReq \in Req
      BY <2>9, OwnRequests DEF ReadScript
    <3> QED
      BY <2>0, <2>3, <2>9, <3>1 DEF ReadScript
  <2>14. ASSUME NEW empty, SetArgsReturns \/ AddSysPathReturns(empty) PROVE QuietNext
    <3>1. ScriptReq \in Req
      BY <2>14, OwnRequests DEF SetArgsReturns, AddSysPathReturns
    <3> QED
      BY <1>3, <2>14, <3>1 DEF SetArgsReturns, AddSysPathReturns, QuietNext
  <2>10. CASE LaunchScript
    <3>1. ScriptReq \in Req
      BY <2>10, OwnRequests DEF LaunchScript
    <3>2. ~LaunchPending
      BY <2>10 DEF LaunchScript, AppsInv
    <3>3. opts.share \in BOOLEAN /\ (opts.share \/ opts.inter) \in BOOLEAN
      BY OwnOptions
    <3>4. Launch(ScriptReq)
      BY <2>10, <3>1, <3>3 DEF LaunchScript, Launch
    <3>5. NobodySets
      BY <2>0, <2>10 DEF LaunchScript
    <3> QED
      BY <2>2, <3>1, <3>2, <3>4, <3>5
  <2>11. CASE LaunchRepl
    <3>1. CASE opts.inter /\ UpyExecute(ReplReq, NULL, opts.share)
      <4>1. ReplReq \in Req
        BY <2>11, OwnRequests DEF LaunchRepl
      <4>2. ~LaunchPending
        BY <2>11, <3>1, OwnOptions DEF LaunchRepl, AppsInv
      <4>3. Launch(ReplReq)
        BY <3>1, OwnOptions DEF Launch
      <4>4. NobodySets
        BY <2>0, <2>11 DEF LaunchRepl
      <4> QED
        BY <2>2, <4>1, <4>2, <4>3, <4>4
    <3> QED
      BY <2>11, <3>1 DEF LaunchRepl
  <2>12. CASE ExecuteReturns
    BY <2>12 DEF ExecuteReturns
  <2>13. CASE FinishApp
    BY <2>0, <2>4, <2>13 DEF FinishApp
  <2> QED
    BY <1>3, <2>5, <2>6, <2>7, <2>8, <2>9, <2>10, <2>11, <2>12, <2>13, <2>14 DEF AppStep
<1> QED
  BY <1>1, <1>2, <1>3 DEF AppNext

\* Every step of the application, and every slice of a script, keeps the
\* application's variables in their ranges.
LEMMA AppTypeStep ==
  ASSUME AppTypeOK, [AppNext]_allVars
  PROVE  AppTypeOK'
<1> USE AppAssumption DEF AppTypeOK
<1>1. CASE UNCHANGED appVars
  BY <1>1 DEF appVars
<1>2. ASSUME Exit PROVE AppTypeOK'
  <2>1. NoOpts \in CommandLine
    BY DEF NoOpts, CommandLine, Options
  <2> QED
    BY <1>2, <2>1 DEF Exit
<1>3. ASSUME pc # "shell",
             NEW label \in {"args", "read", "path", "launch", "repl", "blocked", "finish"}, Goto(label)
      PROVE AppTypeOK'
  BY <1>3 DEF Goto
<1>4. ASSUME NEW a \in App, StartApp(a) PROVE AppTypeOK'
  BY <1>4 DEF StartApp
<1>5. ASSUME NEW ok \in BOOLEAN, LoadDriver(ok) PROVE AppTypeOK'
  BY <1>2, <1>5 DEF LoadDriver
<1>6. CASE BadOptions \/ FinishApp
  BY <1>2, <1>6 DEF BadOptions, FinishApp
<1>7. CASE SetArgsReturns
  <2>1. app \in ran
    BY <1>7 DEF SetArgsReturns
  <2> QED
    BY <1>7, <2>1 DEF SetArgsReturns
<1>10. CASE SetArgs
  BY <1>3, <1>10 DEF SetArgs
<1>8. ASSUME NEW readable, NEW empty, ReadScript(readable, empty) \/ AddSysPathReturns(empty)
      PROVE AppTypeOK'
  BY <1>3, <1>8 DEF ReadScript, AddSysPathReturns, IfEmpty
<1>9. CASE LaunchScript \/ LaunchRepl \/ ExecuteReturns
  BY <1>3, <1>9 DEF LaunchScript, LaunchRepl, ExecuteReturns
<1> QED
  BY <1>1, <1>4, <1>5, <1>6, <1>7, <1>8, <1>9, <1>10 DEF AppNext, AppStep, allVars, appVars

\* A caller is inside a setter exactly between the two steps of its call.
LEMMA SetterInvStep ==
  ASSUME TypeOK, AppTypeOK, SetterInv, [AppNext]_allVars
  PROVE  SetterInv'
<1>1. ASSUME setting' = setting, pc' = pc, app' = app PROVE SetterInv'
  BY <1>1 DEF SetterInv, ScriptReq
<1>2. ASSUME setting' = setting, pc \notin {"args", "path"}, pc' \notin {"args", "path"}
      PROVE SetterInv'
  BY <1>2 DEF SetterInv
<1>3. CASE UNCHANGED allVars
  BY <1>1, <1>3 DEF allVars, vars, setters, appVars
<1>4. CASE ScriptStep /\ UNCHANGED appVars
  <2>1. setting' = setting
    BY <1>4 DEF ScriptStep, ScriptExecutor, UpySuspend, UpyDoScript, ScriptEnds, setters
  <2> QED
    BY <1>1, <1>4, <2>1 DEF appVars
<1>5. ASSUME NEW list \in {"args", "path"}, SysSetter(ScriptReq, list), pc' = list,
             pc \notin {"args", "path"}, UNCHANGED app
      PROVE  SetterInv'
  <2>1. \A r \in Req : setting'[r] = IF r = ScriptReq THEN list ELSE setting[r]
    BY <1>5 DEF SysSetter, TypeOK
  <2>2. \A r \in Req : setting[r] = "no"
    BY <1>5 DEF SetterInv
  <2>3. ScriptReq' = ScriptReq
    BY <1>5 DEF ScriptReq
  <2> QED
    BY <1>5, <2>1, <2>2, <2>3 DEF SetterInv
<1>6. ASSUME WriteList(ScriptReq), pc' \notin {"args", "path"} PROVE SetterInv'
  <2>1. \A r \in Req : setting'[r] = IF r = ScriptReq THEN "no" ELSE setting[r]
    BY <1>6 DEF WriteList, TypeOK
  <2>2. \A r \in Req : r # ScriptReq => setting[r] = "no"
    BY DEF SetterInv
  <2> QED
    BY <1>6, <2>1, <2>2 DEF SetterInv
<1>7. CASE AppStep
  <2>1. CASE SetArgs
    <3>1. CASE opts.args
      BY <1>5, <2>1, <3>1 DEF SetArgs, UpySetArgs, Goto
    <3>2. CASE ~opts.args
      BY <1>2, <2>1, <3>2 DEF SetArgs, Goto, vars, setters
    <3> QED
      BY <3>1, <3>2
  <2>2. CASE SetArgsReturns
    BY <1>6, <2>2 DEF SetArgsReturns
  <2>3. ASSUME NEW readable, NEW empty, ReadScript(readable, empty) PROVE SetterInv'
    <3>1. CASE UNCHANGED vars /\ pc' \in {"finish", "repl", "launch"}
      BY <1>2, <2>3, <3>1 DEF ReadScript, vars, setters
    <3>2. CASE UpySetPath(ScriptReq, ScriptReq) /\ Goto("path")
      <4>1. ScriptReq # NULL
        BY <2>3, OwnRequests DEF ReadScript
      <4> QED
        BY <1>5, <2>3, <3>2, <4>1 DEF ReadScript, UpySetPath, Goto
    <3> QED
      BY <2>3, <3>1, <3>2 DEF ReadScript, Goto, IfEmpty
  <2>4. ASSUME NEW empty, AddSysPathReturns(empty) PROVE SetterInv'
    BY <1>6, <2>4 DEF AddSysPathReturns, Goto, IfEmpty
  <2>5. ASSUME NEW a \in App, StartApp(a) PROVE SetterInv'
    <3>1. pc = "shell"
      BY <2>5 DEF StartApp, AppTypeOK
    <3> QED
      BY <1>2, <2>5, <3>1 DEF StartApp, vars, setters
  <2>6. ASSUME NEW ok \in BOOLEAN, LoadDriver(ok) PROVE SetterInv'
    BY <1>2, <2>6 DEF LoadDriver, UseInit, Exit
  <2>7. CASE BadOptions \/ FinishApp
    BY <1>2, <2>7 DEF BadOptions, FinishApp, UseDeinit, Exit, vars, setters
  <2>8. CASE LaunchScript
    <3>1. setting' = setting
      BY <2>8 DEF LaunchScript, UpyExecuteAsync, UpyExecute, Refuse, Accept, setters
    <3> QED
      BY <1>2, <2>8, <3>1 DEF LaunchScript, Goto
  <2>9. CASE LaunchRepl
    <3>1. setting' = setting
      BY <2>9 DEF LaunchRepl, UpyExecute, Refuse, Accept, vars, setters
    <3> QED
      BY <1>2, <2>9, <3>1 DEF LaunchRepl, Goto
  <2>10. CASE ExecuteReturns
    BY <1>2, <2>10 DEF ExecuteReturns, Goto, vars, setters
  <2> QED
    BY <1>7, <2>1, <2>2, <2>3, <2>4, <2>5, <2>6, <2>7, <2>8, <2>9, <2>10 DEF AppStep
<1> QED
  BY <1>3, <1>4, <1>7 DEF AppNext

\* An accepted launch: what the two entries have in common.
LEMMA Launched ==
  ASSUME TypeOK, ExecutorInv, NEW r \in Req, NEW src \in {r, NULL}, NEW sharable \in BOOLEAN,
         UpyExecuteAsync(r, src, sharable) \/ UpyExecute(r, src, sharable)
  PROVE  \/ /\ launched'[r] = "no" /\ UNCHANGED <<ScriptEngineStack, timers, IsRunning, launched>>
            /\ UNCHANGED <<sysArgv, ScriptEngineProtocol>>
         \/ /\ ScriptEngineStack' = r /\ ~IsRunning
            /\ launched'[r] \in {"sync", "async"}
            /\ launched'[r] = "sync" => IsRunning' /\ timers' = timers
            /\ launched'[r] = "async" => ~IsRunning' /\ result'[r] = "SUCCESS"
            /\ ScriptEngineProtocol => sysArgv' = sysArgv
<1> USE DEF TypeOK
<1>1. CASE UpyExecuteAsync(r, src, sharable)
  BY <1>1 DEF UpyExecuteAsync, Refuse, Accept, SysAfterInit, ArgvAfterInit
<1>2. CASE UpyExecute(r, src, sharable)
  BY <1>2 DEF UpyExecute, Refuse, Accept, SysAfterInit, ArgvAfterInit
<1> QED
  BY <1>1, <1>2

\* A slice of a script leaves no launch pending: its timer has entered it, put it to
\* sleep, or it has ended.
LEMMA Slice ==
  ASSUME TypeOK, ExecutorInv, ScriptStep
  PROVE  /\ ScriptEngineStack # NULL /\ ScriptEngineStack' \in {ScriptEngineStack, NULL}
         /\ ScriptEngineStack' # NULL => IsRunning'
         /\ ScriptEngineStack' = NULL => timers' = {}
         /\ UNCHANGED <<launched, sysArgv>>
<1> USE NullAssumption DEF TypeOK, Pointer, ExecutorInv, OnlyJobOwnsMemory, OneWakeUp
<1>1. ASSUME NEW e \in Req, ScriptExecutor(e)
      PROVE  /\ ScriptEngineStack # NULL /\ ScriptEngineStack' = ScriptEngineStack
             /\ IsRunning' /\ UNCHANGED <<launched, sysArgv>>
  BY <1>1 DEF ScriptExecutor, history
<1>2. CASE UpySuspend
  BY <1>2 DEF UpySuspend, history
<1>3. ASSUME NEW status, UpyDoScript(status)
      PROVE  /\ ScriptEngineStack # NULL /\ ScriptEngineStack' = NULL /\ timers' = {}
             /\ UNCHANGED <<launched, sysArgv>>
  BY <1>3 DEF UpyDoScript, ScriptEnds
<1> QED
  BY <1>1, <1>2, <1>3 DEF ScriptStep

\* No step lets a pending launch meet an application that could launch or unload.
LEMMA AppsInvStep ==
  ASSUME TypeOK, ExecutorInv, AppTypeOK, AppsInv, [AppNext]_allVars
  PROVE  AppsInv'
<1> USE NullAssumption
<1>1. CASE UNCHANGED allVars
  BY <1>1 DEF allVars, vars, executorData, history, appVars, AppsInv, LaunchPending
<1>2. CASE ScriptStep /\ UNCHANGED appVars
  BY <1>2, Slice DEF appVars, AppsInv, LaunchPending
<1>3. CASE AppStep
  <2>1. active = NULL
    BY <1>3 DEF AppStep
  <2>2. ASSUME UNCHANGED <<timers, IsRunning, ScriptEngineStack, launched, loadedHere, opts>>,
               pc \notin {"shell", "load"},
               pc' \in {"args", "read", "path", "launch", "repl", "blocked", "finish"},
               pc' \in {"args", "read", "path", "launch"}
                 => pc \in {"parse", "args", "read", "path", "launch"},
               pc \in {"repl", "finish"} => pc' \in {"repl", "finish"}
        PROVE  AppsInv'
    BY <2>2 DEF AppsInv, LaunchPending
  <2>3. ASSUME Exit PROVE AppsInv'
    BY <2>3 DEF Exit, AppsInv
  <2>4. ASSUME NEW a \in App, StartApp(a) PROVE AppsInv'
    BY <2>4 DEF StartApp, AppsInv, LaunchPending, vars, executorData
  <2>5. ASSUME NEW ok \in BOOLEAN, LoadDriver(ok) PROVE AppsInv'
    <3>1. ScriptEngineStack = NULL /\ timers = {}
      BY <2>1, <2>5, NobodyRuns DEF LoadDriver, UseInit
    <3>2. ScriptEngineStack' = NULL /\ timers' = {}
      BY <2>5, <3>1 DEF LoadDriver, UseInit
    <3> QED
      BY <3>2 DEF AppsInv, LaunchPending
  <2>6. CASE BadOptions \/ FinishApp
    BY <2>3, <2>6 DEF BadOptions, FinishApp
  <2>7. CASE SetArgs \/ SetArgsReturns
    <3>1. UNCHANGED <<timers, IsRunning, ScriptEngineStack, launched>>
      BY <2>7 DEF SetArgs, SetArgsReturns, UpySetArgs, SysSetter, WriteList, vars, executorData, history
    <3>2. /\ pc \in {"parse", "args"} /\ pc' \in {"args", "read"}
          /\ UNCHANGED <<loadedHere, opts>>
      BY <2>7 DEF SetArgs, SetArgsReturns, Goto
    <3> QED
      BY <2>2, <3>1, <3>2
  <2>8. ASSUME NEW readable, NEW empty, ReadScript(readable, empty) \/ AddSysPathReturns(empty)
        PROVE AppsInv'
    <3>1. UNCHANGED <<timers, IsRunning, ScriptEngineStack, launched>>
      BY <2>8 DEF ReadScript, AddSysPathReturns, UpySetPath, SysSetter, WriteList, vars,
                  executorData, history
    <3>2. /\ pc \in {"read", "path"} /\ pc' \in {"path", "launch", "repl", "finish"}
          /\ UNCHANGED <<loadedHere, opts>>
      BY <2>8 DEF ReadScript, AddSysPathReturns, Goto, IfEmpty
    <3> QED
      BY <2>2, <3>1, <3>2
  <2>9. CASE LaunchScript
    <3>1. /\ ScriptReq \in Req /\ ScriptReq # NULL
          /\ opts.share \in BOOLEAN /\ (opts.share \/ opts.inter) \in BOOLEAN
      BY <2>9, OwnRequests, OwnOptions DEF LaunchScript
    <3>2. /\ pc = "launch" /\ UNCHANGED <<opts, loadedHere, app>>
          /\ pc' = IF launched'[ScriptReq] = "sync" THEN "blocked"
                   ELSE IF result'[ScriptReq] = "ALREADY_STARTED" THEN "launch" ELSE "repl"
      BY <2>9 DEF LaunchScript, Goto
    <3>3. CASE UNCHANGED <<ScriptEngineStack, timers, IsRunning, launched>>
      BY <2>2, <3>2, <3>3
    <3>4. CASE opts.async /\ UpyExecuteAsync(ScriptReq, ScriptReq, opts.share)
      <4>1. \/ UNCHANGED <<ScriptEngineStack, timers, IsRunning, launched>>
            \/ pc' = "repl"
        BY <3>1, <3>2, <3>4, Launched DEF UpyExecuteAsync, Accept, TypeOK
      <4>2. ASSUME pc' = "repl" PROVE AppsInv'
        BY <3>2, <3>4, <4>2 DEF AppsInv
      <4> QED
        BY <3>3, <4>1, <4>2
    <3>5. CASE ~opts.async /\ UpyExecute(ScriptReq, ScriptReq, opts.share \/ opts.inter)
      <4>1. \/ UNCHANGED <<ScriptEngineStack, timers, IsRunning, launched>>
            \/ /\ ScriptEngineStack' = ScriptReq /\ IsRunning'
               /\ launched'[ScriptReq] = "sync"
        BY <3>1, <3>5 DEF UpyExecute, Refuse, Accept, TypeOK
      <4> QED
        BY <3>3, <4>1 DEF AppsInv, LaunchPending
    <3> QED
      BY <2>9, <3>4, <3>5 DEF LaunchScript
  <2>10. CASE LaunchRepl
    <3>1. ReplReq \in Req /\ opts.share \in BOOLEAN
      BY <2>10, OwnRequests, OwnOptions DEF LaunchRepl
    <3>2. pc = "repl" /\ UNCHANGED <<opts, loadedHere>> /\ pc' \in {"repl", "blocked", "finish"}
      BY <2>10 DEF LaunchRepl, Goto
    <3>3. CASE ~opts.inter /\ UNCHANGED vars /\ Goto("finish")
      BY <2>2, <3>2, <3>3 DEF vars, executorData, history, Goto
    <3>4. CASE /\ opts.inter /\ UpyExecute(ReplReq, NULL, opts.share)
               /\ Goto(IF launched'[ReplReq] = "sync" THEN "blocked"
                       ELSE IF result'[ReplReq] = "ALREADY_STARTED" THEN "repl" ELSE "finish")
      <4>1. \/ /\ UNCHANGED <<ScriptEngineStack, timers, IsRunning, launched>>
               /\ launched'[ReplReq] # "sync"
            \/ /\ ScriptEngineStack' = ReplReq /\ IsRunning'
               /\ launched'[ReplReq] = "sync"
        BY <3>1, <3>4 DEF UpyExecute, Refuse, Accept, TypeOK
      <4>2. pc' = "blocked" => launched'[ReplReq] = "sync"
        BY <3>4 DEF Goto
      <4> QED
        BY <2>2, <3>2, <4>1, <4>2 DEF AppsInv, LaunchPending
    <3> QED
      BY <2>10, <3>3, <3>4 DEF LaunchRepl
  <2>11. CASE ExecuteReturns
    BY <2>2, <2>11 DEF ExecuteReturns, Goto, vars, executorData, history
  <2> QED
    BY <1>3, <2>4, <2>5, <2>6, <2>7, <2>8, <2>9, <2>10, <2>11 DEF AppStep
<1> QED
  BY <1>1, <1>2, <1>3 DEF AppNext

\* No step between SetSysArgs and the entry of the script changes sys.argv.
LEMMA ArgsInvStep ==
  ASSUME TypeOK, ExecutorInv, SharingInv, AppTypeOK, AppsInv, SetterInv, ArgsInv, [AppNext]_allVars
  PROVE  ArgsInv'
<1> USE NullAssumption
<1>1. CASE UNCHANGED allVars
  BY <1>1 DEF allVars, vars, executorData, history, appVars, ArgsInv, ScriptReq
<1>2. CASE fault = "none" /\ ScriptStep /\ UNCHANGED appVars
  <2>1. UNCHANGED <<app, pc, argued>>
    BY <1>2 DEF appVars
  <2>2. ~(pc \in {"read", "path", "launch"} /\ app \in argued)
    BY <1>2, Slice DEF ArgsInv
  <2>3. \A a \in argued : ~(ScriptEngineStack' = <<a, "script">> /\ ~IsRunning')
    <3>1. ASSUME NEW a \in argued, ScriptEngineStack' = <<a, "script">>, ~IsRunning' PROVE FALSE
      <4>1. ScriptEngineStack' = NULL
        BY <1>2, <3>1, Slice
      <4>2. <<a, "script">> \in Req
        BY ReqAssumption DEF AppTypeOK
      <4> QED
        BY <3>1, <4>1, <4>2
    <3> QED
      BY <3>1
  <2> QED
    BY <2>1, <2>2, <2>3 DEF ArgsInv
<1>3. CASE fault = "none" /\ AppStep
  <2>1. active = NULL
    BY <1>3 DEF AppStep
  <2>2. \A a \in App : <<a, "script">> \in Req /\ <<a, "script">> # NULL
    BY ReqAssumption
  <2>3. argued \subseteq App
    BY DEF AppTypeOK
  <2>4. ASSUME pc \in {"load", "parse", "args", "read", "path", "launch"}
        PROVE  ScriptEngineStack = NULL \/ IsRunning
    BY <2>1, <2>4, NobodyRuns DEF AppsInv, LaunchPending
  \* Steps that leave the job alone, or drop it, on the way out of the application.
  <2>5. ASSUME pc' \notin {"load", "parse", "args", "read", "path", "launch"}, argued' = argued,
               \/ UNCHANGED <<ScriptEngineStack, IsRunning, sysArgv>>
               \/ ScriptEngineStack' = NULL \/ IsRunning'
        PROVE  ArgsInv'
    <3>1. CASE UNCHANGED <<ScriptEngineStack, IsRunning, sysArgv>>
      BY <2>5, <3>1 DEF ArgsInv
    <3>2. CASE ScriptEngineStack' = NULL \/ IsRunning'
      BY <2>2, <2>3, <2>5, <3>2 DEF ArgsInv
    <3> QED
      BY <2>5, <3>1, <3>2
  <2>6. ASSUME NEW a \in App, StartApp(a) PROVE ArgsInv'
    <3>1. /\ pc' \in {"load", "parse"} /\ app' = a /\ a \notin ran /\ argued' = argued
          /\ UNCHANGED <<ScriptEngineStack, IsRunning, sysArgv>>
      BY <2>6 DEF StartApp, vars, executorData
    <3>2. app' \notin argued'
      BY <3>1 DEF AppTypeOK
    <3> QED
      BY <3>1, <3>2 DEF ArgsInv
  <2>7. ASSUME NEW ok \in BOOLEAN, LoadDriver(ok) PROVE ArgsInv'
    <3>1. ScriptEngineStack' = NULL /\ argued' = argued
      BY <2>1, <2>7, NobodyRuns DEF LoadDriver, UseInit, Exit
    <3>2. (pc' = "parse" /\ app' = app) \/ pc' = "shell"
      BY <2>7 DEF LoadDriver, Exit
    <3>3. app \notin argued
      BY <2>7 DEF LoadDriver, ArgsInv
    <3> QED
      BY <2>2, <2>3, <3>1, <3>2, <3>3 DEF ArgsInv
  <2>8. CASE BadOptions \/ FinishApp
    <3>1. UseDeinit \/ UNCHANGED vars
      BY <2>8 DEF BadOptions, FinishApp
    <3>2. pc' = "shell" /\ argued' = argued
      BY <2>8 DEF BadOptions, FinishApp, Exit
    <3> QED
      BY <2>5, <3>1, <3>2 DEF UseDeinit, vars, executorData
  <2>9. CASE SetArgs
    <3>1. app \notin argued /\ UNCHANGED <<app, argued>> /\ pc = "parse" /\ pc' \in {"args", "read"}
      BY <2>9 DEF SetArgs, ArgsInv, Goto
    <3>2. UNCHANGED <<ScriptEngineStack, IsRunning>>
      BY <2>9 DEF SetArgs, UpySetArgs, SysSetter, vars, executorData
    <3> QED
      BY <2>2, <2>3, <2>4, <3>1, <3>2 DEF ArgsInv
  <2>14. CASE SetArgsReturns
    <3>1. app \notin argued /\ app' = app /\ pc' = "read" /\ pc = "args"
      BY <2>14 DEF SetArgsReturns, ArgsInv
    <3>2. UNCHANGED <<ScriptEngineStack, IsRunning, ScriptEngineProtocol, mHeap>>
      BY <2>14 DEF SetArgsReturns, WriteList, executorData
    <3>3. ASSUME app \in argued', fault' = "none"
          PROVE  ScriptEngineStack' = NULL /\ ScriptEngineProtocol' /\ sysArgv' = ScriptReq
      <4>1. timers = {}
        BY <2>14, <3>1, <3>3 DEF SetArgsReturns
      <4>2. ScriptEngineStack = NULL
        BY <2>1, <4>1, NobodyRuns
      <4>3. setting[ScriptReq] = "args"
        BY <3>1, OwnRequests DEF SetterInv
      <4>4. mHeap
        BY <2>14, <3>3, <4>3 DEF SetArgsReturns, WriteList
      <4> QED
        BY <2>14, <3>2, <4>2, <4>3, <4>4 DEF SetArgsReturns, WriteList, SharingInv
    <3>4. argued' \subseteq App
      BY <2>3, <2>14, <3>1, OwnRequests DEF SetArgsReturns
    <3> QED
      BY <2>2, <2>4, <3>1, <3>2, <3>3, <3>4 DEF ArgsInv, ScriptReq
  <2>10. ASSUME NEW readable, NEW empty, ReadScript(readable, empty) \/ AddSysPathReturns(empty)
         PROVE ArgsInv'
    <3>1. /\ pc \in {"read", "path"} /\ pc' \in {"path", "launch", "repl", "finish"}
          /\ UNCHANGED <<app, argued>>
      BY <2>10 DEF ReadScript, AddSysPathReturns, Goto, IfEmpty
    <3>2. UNCHANGED <<ScriptEngineStack, IsRunning>>
      BY <2>10 DEF ReadScript, AddSysPathReturns, UpySetPath, SysSetter, WriteList, vars, executorData
    <3>3. ScriptEngineProtocol => UNCHANGED <<sysArgv, ScriptEngineProtocol>>
      <4>1. CASE ReadScript(readable, empty)
        BY <4>1 DEF ReadScript, UpySetPath, SysSetter, SysAfterInit, ArgvAfterInit, vars,
                    executorData, TypeOK
      <4>2. CASE AddSysPathReturns(empty)
        <5>1. setting[ScriptReq] = "path"
          BY <4>2, OwnRequests DEF AddSysPathReturns, SetterInv
        <5> QED
          BY <4>2, <5>1 DEF AddSysPathReturns, WriteList, executorData
      <4> QED
        BY <2>10, <4>1, <4>2
    <3> QED
      BY <1>3, <2>2, <2>3, <2>4, <3>1, <3>2, <3>3 DEF ArgsInv, ScriptReq
  <2>11. CASE LaunchScript
    <3>1. /\ ScriptReq \in Req /\ ScriptReq # NULL /\ app \in App
          /\ opts.share \in BOOLEAN /\ (opts.share \/ opts.inter) \in BOOLEAN
      BY <2>11, OwnRequests, OwnOptions DEF LaunchScript
    <3>2. /\ pc = "launch" /\ UNCHANGED <<app, argued>>
          /\ pc' = IF launched'[ScriptReq] = "sync" THEN "blocked"
                   ELSE IF result'[ScriptReq] = "ALREADY_STARTED" THEN "launch" ELSE "repl"
      BY <2>11 DEF LaunchScript, Goto
    <3>3. \E sharable \in BOOLEAN : \/ UpyExecuteAsync(ScriptReq, ScriptReq, sharable)
                                    \/ UpyExecute(ScriptReq, ScriptReq, sharable)
      BY <2>11, <3>1 DEF LaunchScript
    <3>4. CASE UNCHANGED <<ScriptEngineStack, IsRunning, sysArgv, ScriptEngineProtocol>>
      BY <1>3, <3>2, <3>4 DEF ArgsInv, ScriptReq
    <3>5. CASE /\ ScriptEngineStack' = ScriptReq /\ launched'[ScriptReq] \in {"sync", "async"}
               /\ launched'[ScriptReq] = "async" => result'[ScriptReq] = "SUCCESS"
               /\ ScriptEngineProtocol => sysArgv' = sysArgv
      <4>1. pc' \in {"blocked", "repl"}
        BY <3>2, <3>5
      <4>2. ASSUME NEW a \in argued', ScriptEngineStack' = <<a, "script">>
            PROVE  sysArgv' = <<a, "script">>
        <5>1. a = app
          BY <3>5, <4>2 DEF ScriptReq
        <5> QED
          BY <1>3, <3>2, <3>5, <5>1 DEF ArgsInv, ScriptReq
      <4> QED
        BY <4>1, <4>2 DEF ArgsInv
    <3>6. \/ UNCHANGED <<ScriptEngineStack, IsRunning, sysArgv, ScriptEngineProtocol>>
          \/ /\ ScriptEngineStack' = ScriptReq /\ launched'[ScriptReq] \in {"sync", "async"}
             /\ launched'[ScriptReq] = "async" => result'[ScriptReq] = "SUCCESS"
             /\ ScriptEngineProtocol => sysArgv' = sysArgv
      BY <3>1, <3>3, Launched
    <3> QED
      BY <3>4, <3>5, <3>6
  <2>12. CASE LaunchRepl
    <3>1. pc' \in {"repl", "blocked", "finish"} /\ argued' = argued
      BY <2>12 DEF LaunchRepl, Goto
    <3>2. UNCHANGED <<ScriptEngineStack, IsRunning, sysArgv>> \/ IsRunning'
      BY <2>12 DEF LaunchRepl, UpyExecute, Refuse, vars, executorData
    <3> QED
      BY <2>5, <3>1, <3>2
  <2>13. CASE ExecuteReturns
    BY <2>5, <2>13 DEF ExecuteReturns, Goto, vars, executorData
  <2> QED
    BY <1>3, <2>6, <2>7, <2>8, <2>9, <2>10, <2>11, <2>12, <2>13, <2>14 DEF AppStep
<1> QED
  BY <1>1, <1>2, <1>3 DEF AppNext

\* A script that is entered finds the arguments of its application.
LEMMA ArgsReachStep ==
  ASSUME TypeOK, ExecutorInv, AppTypeOK, AppsInv, ArgsInv, [AppNext]_allVars,
         NEW a \in argued, ~IsRunning, IsRunning', active' = <<a, "script">>
  PROVE  sysArgv' = <<a, "script">>
<1> USE NullAssumption
<1>0. fault = "none"
  BY DEF AppNext, allVars, vars, executorData
<1>1. ASSUME NEW e \in Req, ScriptExecutor(e) PROVE sysArgv' = <<a, "script">>
  <2>1. e = ScriptEngineStack /\ active = NULL
    BY <1>1 DEF ScriptExecutor, ExecutorInv, OnlyJobOwnsMemory, OneWakeUp
  <2>2. active' = ScriptEngineStack /\ sysArgv' = sysArgv
    BY <1>1, <2>1 DEF ScriptExecutor, ExecutorInv
  <2> QED
    BY <2>2 DEF ArgsInv
<1>2. ~UpySuspend /\ \A status : ~UpyDoScript(status)
  BY DEF UpySuspend, UpyDoScript, ScriptEnds
<1>3. CASE LaunchScript
  <2>1. /\ ScriptReq \in Req
        /\ \E src, sharable : UpyExecute(ScriptReq, src, sharable)
    BY <1>3, OwnRequests DEF LaunchScript, UpyExecuteAsync, Refuse
  <2>2. active' = ScriptReq /\ sysArgv' = ArgvAfterInit(TRUE)
    BY <2>1 DEF UpyExecute, Refuse, SysAfterInit
  <2>3. a = app /\ pc = "launch"
    BY <1>3, <2>2 DEF ScriptReq, LaunchScript
  <2> QED
    BY <1>0, <2>2, <2>3 DEF ArgsInv, ArgvAfterInit, ScriptReq
<1>4. CASE LaunchRepl
  <2>1. active' = ReplReq
    BY <1>4 DEF LaunchRepl, UpyExecute, Refuse, vars, executorData
  <2> QED
    BY <2>1 DEF ReplReq
<1>5. ASSUME NEW b \in App, StartApp(b) PROVE FALSE
  BY <1>5 DEF StartApp, vars, executorData
<1>6. ASSUME NEW ok, LoadDriver(ok) PROVE FALSE
  BY <1>6 DEF LoadDriver, UseInit
<1>7. ~BadOptions /\ ~FinishApp /\ ~ExecuteReturns
  BY DEF BadOptions, FinishApp, ExecuteReturns, UseDeinit, vars, executorData
<1>8. ~SetArgs /\ ~SetArgsReturns
  BY DEF SetArgs, SetArgsReturns, UpySetArgs, SysSetter, WriteList, vars, executorData
<1>9. ASSUME NEW readable, NEW empty, ReadScript(readable, empty) \/ AddSysPathReturns(empty)
      PROVE FALSE
  BY <1>9 DEF ReadScript, AddSysPathReturns, UpySetPath, SysSetter, WriteList, vars, executorData
<1>10. ~UNCHANGED allVars
  BY DEF allVars, vars, executorData
<1> QED
  BY <1>1, <1>2, <1>3, <1>4, <1>5, <1>6, <1>7, <1>8, <1>9, <1>10
     DEF AppNext, AppStep, ScriptStep

-----------------------------------------------------------------------------
\* The invariants of the executor and of the applications hold together: each needs
\* the other, the executor that its callers are a tick apart, the applications that
\* an idle executor holds nothing.
LEMMA AppInvariant ==
  AppSpec => [](TypeOK /\ ExecutorInv /\ SharingInv /\ AppTypeOK /\ AppsInv /\ SetterInv /\ ArgsInv)
<1> DEFINE Inv == TypeOK /\ ExecutorInv /\ SharingInv /\ AppTypeOK /\ AppsInv /\ SetterInv /\ ArgsInv
<1>1. AppInit => Inv
  BY AppInitial
<1>2. Inv /\ [AppNext]_allVars => Inv'
  <2> SUFFICES ASSUME Inv, [AppNext]_allVars PROVE Inv'
    OBVIOUS
  <2>1. [QuietNext]_vars
    BY AppQuietStep
  <2>2. [Next]_vars
    BY <2>1 DEF QuietNext, Next
  <2>3. TypeOK'
    BY <2>2, TypeStep
  <2>4. ExecutorInv'
    BY <2>1, ExecutorInvStep
  <2>5. SharingInv'
    BY <2>1, SharingInvStep
  <2> QED
    BY <2>3, <2>4, <2>5, AppTypeStep, AppsInvStep, SetterInvStep, ArgsInvStep
<1> QED
  BY <1>1, <1>2, PTL DEF AppSpec

\* Applications that the shell starts one after the other, with any command lines,
\* never launch over a pending launch and never unload the driver under a timer:
\* what QuietSpec assumes of protocol users, MicroPython.c does.
THEOREM AppsQuiet == AppSpec => AppsAreQuiet
<1>1. TypeOK /\ ExecutorInv /\ AppTypeOK /\ AppsInv /\ SetterInv /\ [AppNext]_allVars => [QuietNext]_vars
  BY AppQuietStep
<1> QED
  BY <1>1, AppInvariant, PTL DEF AppSpec, AppsAreQuiet

\* Under such applications no jump buffer, stack or source is used after it is gone,
\* every one has one owner, and a script that waits has exactly its own timer.
THEOREM AppsSafe == AppSpec => [](NoControlFault /\ OnlyJobOwnsMemory /\ OneWakeUp)
<1>1. ExecutorInv => NoControlFault /\ OnlyJobOwnsMemory /\ OneWakeUp
  BY DEF ExecutorInv
<1> QED
  BY <1>1, AppInvariant, PTL

\* Under such applications a script is entered, or sys.argv and sys.path are written,
\* without an interpreter only after a start of use.c that failed unnoticed, or when the
\* script that an earlier application left behind ended inside SetSysArgs or SetSysPath.
THEOREM AppsInterpreterLoss == AppSpec => []HeapFaultExplained
<1>1. AppInit => HeapInv
  BY AppInitial
<1>2. TypeOK /\ ExecutorInv /\ AppTypeOK /\ AppsInv /\ SetterInv /\ HeapInv /\ ExecutorInv'
        /\ [AppNext]_allVars => HeapInv'
  BY AppQuietStep, HeapInvStep
<1>3. HeapInv => HeapFaultExplained
  BY DEF HeapInv
<1> QED
  BY <1>1, <1>2, <1>3, AppInvariant, PTL DEF AppSpec

\* Under such applications an interpreter goes only with the end of a script launched
\* without -s, or with the driver.
THEOREM AppsShare == AppSpec => SharedInterpreterSurvives
<1>1. TypeOK /\ ExecutorInv /\ SharingInv /\ AppTypeOK /\ AppsInv /\ SetterInv /\ [AppNext]_allVars =>
        [mHeap /\ ~mHeap' => ~Loaded' \/ \E r \in finished' \ finished : r \notin shared]_vars
  BY AppQuietStep, SharedSurvivesStep
<1> QED
  BY <1>1, AppInvariant, PTL DEF AppSpec, SharedInterpreterSurvives

\* The applications and the executor together keep the safety part of the promise of
\* ScriptEngineProtocol.h: one script at a time, every accepted script exactly once.
THEOREM AppsKeepPromise == AppSpec => Promise!Spec
<1>1. AppInit => Promise!Init
  BY AppInitial
<1>2. TypeOK /\ ExecutorInv /\ AppTypeOK /\ AppsInv /\ SetterInv /\ [AppNext]_allVars
        => [Promise!Next]_(Promise!jobVars)
  BY AppQuietStep, PromiseStep
<1> QED
  BY <1>1, <1>2, AppInvariant, PTL DEF AppSpec, Promise!Spec

\* Arguments that an application passes with no script alive are what its script
\* sees when it is entered, at once or by the timer, whether or not the interpreter
\* had to be started for them.
THEOREM ArgsArrive == AppSpec => ArgsReachScript
<1>1. TypeOK /\ ExecutorInv /\ AppTypeOK /\ AppsInv /\ ArgsInv /\ [AppNext]_allVars =>
        [\A a \in argued :
           ~IsRunning /\ IsRunning' /\ active' = <<a, "script">>
             => sysArgv' = <<a, "script">>]_allVars
  BY ArgsReachStep
<1> QED
  BY <1>1, AppInvariant, PTL DEF AppSpec, ArgsReachScript
=============================================================================
