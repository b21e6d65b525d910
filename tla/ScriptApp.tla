------------------------------ MODULE ScriptApp ------------------------------
(***************************************************************************)
(* MicroPythonApp/MicroPython.c on top of the script engine: the shell     *)
(* starts one application after the other; each one finds or loads the     *)
(* driver, parses its command line, hands sys.argv and sys.path to the     *)
(* engine, launches its script and perhaps a REPL, and decides on exit     *)
(* whether to unload the driver.                                           *)
(*                                                                         *)
(* The application runs at TPL_APPLICATION: its steps need the processor,  *)
(* so they interleave with the slices of asynchronous scripts that earlier *)
(* applications left behind, and a synchronous script blocks it.           *)
(***************************************************************************)
EXTENDS ScriptEngine

CONSTANT App   \* one element per start of MicroPython.efi

ASSUME ReqAssumption == Req = App \X {"script", "repl"}
ASSUME AppAssumption == NULL \notin App

VARIABLES app,        \* the application the shell is running, or NULL
          pc,         \* where it is
          opts,       \* what its command line asked for
          loadedHere, \* UpyDxeImage # NULL: it loaded the driver itself
          ran,        \* history: applications started so far
          argued      \* history: applications that passed arguments with no script alive

appVars == <<app, pc, opts, loadedHere, ran, argued>>
allVars == <<vars, appVars>>

Options == [async : BOOLEAN, share : BOOLEAN, inter : BOOLEAN,
            script : {"none", "file", "string"}, args : BOOLEAN]

\* The outcome of the option loop of RunScript: -a, -s, -i (void with -a), where
\* the script comes from, and whether arguments follow it.
CommandLine ==
  {o \in Options : /\ o.async => ~o.inter
                   /\ o.args => o.script # "none"}

ScriptReq == <<app, "script">>
ReplReq == <<app, "repl">>

NoOpts == [async |-> FALSE, share |-> FALSE, inter |-> TRUE, script |-> "none", args |-> FALSE]

\* The machine after boot: the driver is not loaded.
AppInit ==
  /\ Loaded = FALSE /\ ScriptEngineProtocol = FALSE /\ mHeap = FALSE
  /\ IsRunning = FALSE /\ DeinitAfterwards = FALSE
  /\ ExecEvent = NULL /\ ExecStatus = "SUCCESS"
  /\ Script = NULL /\ ScriptEngineStack = NULL /\ ScriptEngineContext = NULL
  /\ sysArgv = NULL /\ sysPath = {} /\ sources = {} /\ stacks = {} /\ timers = {}
  /\ active = NULL
  /\ launched = [r \in Req |-> "no"] /\ shared = {} /\ finished = {}
  /\ result = [r \in Req |-> "none"]
  /\ setting = [r \in Req |-> "no"] /\ dropped = FALSE /\ swept = {}
  /\ fault = "none"
  /\ app = NULL /\ pc = "shell" /\ opts = NoOpts /\ loadedHere = FALSE
  /\ ran = {} /\ argued = {}

Goto(label) == pc' = label /\ UNCHANGED <<app, opts, loadedHere, ran, argued>>

\* Back to the shell.
Exit == /\ app' = NULL /\ pc' = "shell" /\ opts' = NoOpts /\ loadedHere' = FALSE
        /\ UNCHANGED <<ran, argued>>

-----------------------------------------------------------------------------
\* The shell starts a, and a looks for the protocol.  ASSUMPTION on the shell:
\* reading and starting an image takes longer than one timer tick, so a launch
\* timer set by the previous application has gone off.
StartApp(a) ==
  /\ app = NULL /\ a \notin ran
  /\ ~LaunchPending
  /\ app' = a /\ ran' = ran \cup {a} /\ loadedHere' = FALSE
  /\ opts' \in CommandLine
  /\ pc' = IF Loaded THEN "parse" ELSE "load"
  /\ UNCHANGED <<vars, argued>>

\* LoadImage and StartImage of MicroPythonDxe.efi; failure ends the application.
LoadDriver(ok) ==
  /\ pc = "load"
  /\ UseInit(ok)
  /\ IF ok THEN /\ pc' = "parse" /\ loadedHere' = TRUE
                /\ UNCHANGED <<app, opts, ran, argued>>
           ELSE Exit

\* ParseLoadOptionsToArgs fails: unload what was loaded here, and return.
BadOptions ==
  /\ pc = "parse"
  /\ IF loadedHere THEN UseDeinit ELSE UNCHANGED vars
  /\ Exit

\* RunScript, option loop: SetSysArgs with the arguments that follow the script.
SetArgs ==
  /\ pc = "parse"
  /\ IF opts.args THEN UpySetArgs(ScriptReq) ELSE UNCHANGED vars
  /\ Goto(IF opts.args THEN "args" ELSE "read")

SetArgsReturns ==
  /\ pc = "args"
  /\ WriteList(ScriptReq)
  /\ argued' = IF timers = {} /\ ~IsRunning THEN argued \cup {app} ELSE argued
  /\ pc' = "read"
  /\ UNCHANGED <<app, opts, loadedHere, ran>>

\* An empty script is not launched.
IfEmpty(empty) == IF empty \/ opts.script = "none" THEN "repl" ELSE "launch"

\* GetScriptFromFile or UnicodeStrToAsciiStrS; AddSysPath for a file that is named
\* with a directory.
ReadScript(readable, empty) ==
  /\ pc = "read"
  /\ \/ /\ opts.script # "none" /\ ~readable
        /\ UNCHANGED vars
        /\ Goto("finish")
     \/ /\ readable
        /\ UNCHANGED vars
        /\ Goto(IfEmpty(empty))
     \/ /\ opts.script = "file" /\ readable
        /\ UpySetPath(ScriptReq, ScriptReq)
        /\ Goto("path")

AddSysPathReturns(empty) ==
  /\ pc = "path"
  /\ WriteList(ScriptReq)
  /\ Goto(IfEmpty(empty))

\* One turn of "do Stall, Execute or ExecuteAsync while (EFI_ALREADY_STARTED)".
LaunchScript ==
  /\ pc = "launch"
  /\ IF opts.async THEN UpyExecuteAsync(ScriptReq, ScriptReq, opts.share)
                   ELSE UpyExecute(ScriptReq, ScriptReq, opts.share \/ opts.inter)
  /\ Goto(IF launched'[ScriptReq] = "sync" THEN "blocked"
          ELSE IF result'[ScriptReq] = "ALREADY_STARTED" THEN "launch" ELSE "repl")

\* The interactive part: a REPL after the script, or on its own.
LaunchRepl ==
  /\ pc = "repl"
  /\ \/ /\ ~opts.inter
        /\ UNCHANGED vars
        /\ Goto("finish")
     \/ /\ opts.inter
        /\ UpyExecute(ReplReq, NULL, opts.share)
        /\ Goto(IF launched'[ReplReq] = "sync" THEN "blocked"
                ELSE IF result'[ReplReq] = "ALREADY_STARTED" THEN "repl" ELSE "finish")

\* A synchronous Execute returns to RunScript.
ExecuteReturns ==
  /\ pc = "blocked" /\ ~IsRunning
  /\ UNCHANGED vars
  /\ Goto(IF ReplReq \in finished THEN "finish" ELSE "repl")

\* Fault model: an application that left an asynchronous script behind reports
\* success, so that the driver is unloaded.
FinishApp_ForgetAsync ==
  /\ pc = "finish"
  /\ IF loadedHere /\ ~opts.share THEN UseDeinit ELSE UNCHANGED vars
  /\ Exit

\* The end of RunScript and of MicroPythonAppMain: EFI_ALREADY_STARTED for -a and
\* -s keeps the driver, otherwise it is unloaded by whoever loaded it.
FinishApp ==
  /\ pc = "finish"
  /\ IF loadedHere /\ ~opts.async /\ ~opts.share THEN UseDeinit ELSE UNCHANGED vars
  /\ Exit

-----------------------------------------------------------------------------
AppStep ==
  /\ active = NULL
  /\ \/ \E a \in App : StartApp(a)
     \/ \E ok \in BOOLEAN : LoadDriver(ok)
     \/ BadOptions
     \/ SetArgs
     \/ SetArgsReturns
     \/ \E readable, empty \in BOOLEAN : ReadScript(readable, empty)
     \/ \E empty \in BOOLEAN : AddSysPathReturns(empty)
     \/ LaunchScript
     \/ LaunchRepl
     \/ ExecuteReturns
     \/ FinishApp

AppNext == fault = "none" /\ (AppStep \/ (ScriptStep /\ UNCHANGED appVars))

AppSpec == AppInit /\ [][AppNext]_allVars

\* Timers go off, the application's own code makes progress, and every script
\* ends: a script that could end infinitely often does.
FairAppSpec ==
  /\ AppSpec
  /\ \A e \in Req : WF_allVars(ScriptExecutor(e) /\ UNCHANGED appVars)
  /\ SF_allVars((\E s \in {"SUCCESS", "LOAD_ERROR"} : UpyDoScript(s)) /\ UNCHANGED appVars)
  /\ WF_allVars(AppStep /\ app # NULL)

-----------------------------------------------------------------------------
(* Properties.                                                             *)

\* Whatever their command lines, applications in a row are callers a tick apart:
\* none launches over a pending launch, unloads the driver while a timer is set, or
\* calls the engine while another is inside SetSysArgs or SetSysPath.
\* This discharges the assumption of QuietSpec, and with it the executor theorems.
AppsAreQuiet == [][QuietNext]_vars

\* An application never gets stuck in its EFI_ALREADY_STARTED loop: it is back in
\* the shell once the scripts before it have ended, unless the engine is used without
\* an interpreter (HeapFaultExplained says when).
AppsReturn == \A a \in App : app = a ~> app = NULL \/ fault = "heap"

\* "Pass standard command line options to script engine." (ScriptEngineProtocol.h:
\* 185): a script that is entered sees the arguments its application passed, over
\* the launch loop and the timer, if no other script was alive when SetSysArgs
\* returned. One that was would lose them: its end takes the interpreter down.
ArgsReachScript ==
  [][\A a \in argued :
       ~IsRunning /\ IsRunning' /\ active' = <<a, "script">>
         => sysArgv' = <<a, "script">>]_allVars
-----------------------------------------------------------------------------
(* What makes the properties above inductive.                              *)

\* The application's own state has the values MicroPythonAppMain gives it.
AppTypeOK ==
  /\ app \in ran \cup {NULL}
  /\ pc \in {"shell", "load", "parse", "args", "read", "path", "launch", "repl", "blocked",
             "finish"}
  /\ opts \in CommandLine
  /\ loadedHere \in BOOLEAN
  /\ ran \subseteq App /\ argued \subseteq ran
  /\ app = NULL <=> pc = "shell"

\* A launch is pending only behind the back of the application that made it, on
\* its way out; an application that loaded the driver itself finds no script but
\* its own, and one that will unload it has launched none that outlives the call.
AppsInv ==
  /\ LaunchPending => \/ pc = "shell"
                      \/ (pc \in {"repl", "finish"} /\ opts.async)
  /\ loadedHere /\ ScriptEngineStack # NULL
     /\ (pc \in {"parse", "args", "read", "path", "launch"} \/ ~opts.async)
       => launched[ScriptEngineStack] = "sync"

\* Only the application that the shell is running can be inside a setter.
SetterInv ==
  \A r \in Req : setting[r] = IF pc \in {"args", "path"} /\ r = ScriptReq THEN pc ELSE "no"

\* Arguments passed with no script alive stay in sys.argv until their script is
\* entered: nobody else gets to run, and UpyInit does not run again.
ArgsInv ==
  /\ pc \in {"load", "parse", "args"} => app \notin argued
  /\ fault = "none" /\ pc \in {"read", "path", "launch"} /\ app \in argued =>
       ScriptEngineStack = NULL /\ ScriptEngineProtocol /\ sysArgv = ScriptReq
  /\ \A a \in argued : ScriptEngineStack = <<a, "script">> /\ ~IsRunning
                          => sysArgv = <<a, "script">>
=============================================================================
