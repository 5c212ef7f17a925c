------------------------------ MODULE Lifecycle ------------------------------
(***************************************************************************)
(* How the pieces start, wait for each other and stop.  Three goroutines:  *)
(* the emitter's Loop, the engine's handleResults, and the caller of       *)
(* engine.Loop, which handles the emitter's errors.  They share a context  *)
(* and three unbuffered channels: pollResultChan and errChan, which the    *)
(* emitter closes, and syncChan, which the engine closes.                  *)
(*                                                                         *)
(* What a poll finds and what the engine does with it are the subject of   *)
(* the other modules; here a poll has nothing new, a result or an error.   *)
(*                                                                         *)
(* Three programs run the pieces: superWatcher.Run, servicetest.RunService *)
(* and the main function of examples/easywatcher.                          *)
(***************************************************************************)
EXTENDS Components

CONSTANTS
    Systems,        \* the systems to start: [driver, wired]
    MaxShutdowns    \* bound: how often the user calls superWatcher.Shutdown

ASSUME LifecycleAssumption ==
    /\ \A s \in Systems :
         /\ s.driver \in {"Run", "RunService", "easywatcher"}
         /\ s.wired.engine \in {"engine", "thinEngine"}
         /\ s.wired.emitter \subseteq Channels
         /\ s.wired.parts \subseteq EmitterParts
         /\ s.wired.client \subseteq Channels
    /\ MaxShutdowns \in Nat

VARIABLES
    driver,     \* the program that runs the pieces
    wired,      \* what components put together
    process,    \* "running", "panicked" or "exited"
    cancelled,  \* the context is done
    closed,     \* the channels that are closed
    epc,        \* the emitter's goroutine
    emitErr,    \* the error that loopEmit returned
    rpc,        \* the goroutine of handleResults
    mpc,        \* the caller of engine.Loop
    mainErr,    \* the error it is handling, and then the one it returns
    upc,        \* the user, in Shutdown
    shutdowns,  \* calls of Shutdown so far
    failed      \* history: handleResults has returned an error

vars == <<driver, wired, process, cancelled, closed, epc, emitErr, rpc, mpc, mainErr,
          upc, shutdowns, failed>>

Init ==
    /\ \E s \in Systems : driver = s.driver /\ wired = s.wired
    /\ process = "running"
    /\ cancelled = FALSE
    /\ closed = {}
    /\ epc = "loop"
    /\ emitErr = "none"
    /\ rpc = "receive"
    /\ mpc = "wait"
    /\ mainErr = "none"
    /\ upc = "idle"
    /\ shutdowns = 0
    /\ failed = FALSE

-----------------------------------------------------------------------------
(* Channels.  On a nil channel every operation but close waits forever. *)

Panic(pc) ==
    /\ process' = "panicked"
    /\ UNCHANGED <<closed, pc>>

\* Mutant of Close: the channel stays open.
CloseForgotten(c, held, pc, next) ==
    /\ pc' = next
    /\ UNCHANGED <<process, closed>>

\* close(c) by a side that holds the channels in held
Close(c, held, pc, next) ==
    IF c \in closed \/ c \notin held THEN Panic(pc)
    ELSE /\ closed' = closed \cup {c}
         /\ pc' = next
         /\ UNCHANGED process

\* A send and a receive meet.
Meet(c) == c \in wired.emitter \cap wired.client /\ c \notin closed

-----------------------------------------------------------------------------
(* The emitter *)

\* Loop looks at the context, then enters loopEmit.
EmitterLoop ==
    /\ epc = "loop"
    /\ epc' = IF cancelled THEN "closeResult" ELSE "loopEmit"
    /\ UNCHANGED <<driver, wired, process, cancelled, closed, emitErr, rpc, mpc, mainErr,
                   upc, shutdowns, failed>>

\* Mutants of LoopEmit: it does not look at the context; it returns without the
\* context's error.
LoopEmitUnaware ==
    /\ epc = "loopEmit"
    /\ epc' = "poll"
    /\ UNCHANGED <<driver, wired, process, cancelled, closed, emitErr, rpc, mpc, mainErr,
                   upc, shutdowns, failed>>

LoopEmitNoError ==
    /\ epc = "loopEmit"
    /\ epc' = IF cancelled THEN "emitError" ELSE "poll"
    /\ UNCHANGED <<driver, wired, process, cancelled, closed, emitErr, rpc, mpc, mainErr,
                   upc, shutdowns, failed>>

\* loopEmit looks at the context at the top of its loop and nowhere else.
LoopEmit ==
    /\ epc = "loopEmit"
    /\ IF cancelled THEN epc' = "emitError" /\ emitErr' = "cancelled"
       ELSE epc' = "poll" /\ UNCHANGED emitErr
    /\ UNCHANGED <<driver, wired, process, cancelled, closed, rpc, mpc, mainErr,
                   upc, shutdowns, failed>>

\* computeFromBlockToBlock asks the gateway and then the node; then comes Poll.  Only
\* the simulated chain of servicetest has an exit block.
PollReturns ==
    /\ epc = "poll"
    /\ \/ "ethClient" \in wired.parts /\ epc' = "loopEmit" /\ UNCHANGED emitErr
       \/ wired.parts = EmitterParts /\ epc' = "emitResult" /\ UNCHANGED emitErr
       \/ epc' = "emitError" /\ emitErr' = "fetch"
       \/ driver = "RunService" /\ epc' = "emitError" /\ emitErr' = "exitBlock"
    /\ UNCHANGED <<driver, wired, process, cancelled, closed, rpc, mpc, mainErr,
                   upc, shutdowns, failed>>

\* The emitter was built without what it calls next.
PollPanics ==
    /\ epc = "poll"
    /\ wired.parts # EmitterParts
    /\ Panic(epc)
    /\ UNCHANGED <<driver, wired, cancelled, emitErr, rpc, mpc, mainErr, upc, shutdowns,
                   failed>>

\* emitFilterResult: nothing is sent on a nil channel; a closed one panics, the
\* waiting sender included.
EmitResult ==
    /\ epc = "emitResult"
    /\ \/ /\ Meet("result") /\ rpc = "receive"
          /\ epc' = "sync"
          /\ rpc' = "handle"
          /\ UNCHANGED <<process, closed>>
       \/ /\ "result" \notin wired.emitter
          /\ epc' = "sync"
          /\ UNCHANGED <<process, closed, rpc>>
       \/ /\ "result" \in wired.emitter \cap closed
          /\ Panic(epc)
          /\ UNCHANGED rpc
    /\ UNCHANGED <<driver, wired, cancelled, emitErr, mpc, mainErr, upc, shutdowns, failed>>

\* Mutant of SyncsEngine: the emitter goes on without the signal.
SyncSkipped ==
    /\ epc = "sync"
    /\ epc' = "loopEmit"
    /\ IF rpc = "sync" THEN rpc' = "receive" ELSE UNCHANGED rpc
    /\ UNCHANGED <<driver, wired, process, cancelled, closed, emitErr, mpc, mainErr,
                   upc, shutdowns, failed>>

\* SyncsEngine and SyncsEmitter meet, or the engine has closed the channel.
SyncsEngine ==
    /\ epc = "sync"
    /\ \/ Meet("sync") /\ rpc = "sync" /\ rpc' = "receive"
       \/ "sync" \in wired.emitter \cap closed /\ UNCHANGED rpc
    /\ epc' = "loopEmit"
    /\ UNCHANGED <<driver, wired, process, cancelled, closed, emitErr, mpc, mainErr,
                   upc, shutdowns, failed>>

\* emitError: the caller of engine.Loop takes the error.
EmitError ==
    /\ epc = "emitError"
    /\ \/ /\ Meet("err") /\ mpc = "wait"
          /\ epc' = "loop"
          /\ emitErr' = "none"
          /\ mpc' = "handleError"
          /\ mainErr' = emitErr
          /\ UNCHANGED <<process, closed>>
       \/ /\ "err" \in wired.emitter \cap closed
          /\ Panic(epc)
          /\ UNCHANGED <<emitErr, mpc, mainErr>>
    /\ UNCHANGED <<driver, wired, cancelled, rpc, upc, shutdowns, failed>>

\* Shutdown, called by Loop
EmitterCloses ==
    /\ \/ epc = "closeResult" /\ Close("result", wired.emitter, epc, "closeErr")
       \/ epc = "closeErr" /\ Close("err", wired.emitter, epc, "return")
    /\ UNCHANGED <<driver, wired, cancelled, emitErr, rpc, mpc, mainErr, upc, shutdowns,
                   failed>>

\* Loop returns the context's error.  Run cancels the context with it.
EmitterReturns ==
    /\ epc = "return"
    /\ epc' = "done"
    /\ cancelled' = (cancelled \/ driver = "Run")
    /\ UNCHANGED <<driver, wired, process, closed, emitErr, rpc, mpc, mainErr, upc,
                   shutdowns, failed>>

Emitter ==
    EmitterLoop \/ LoopEmit \/ PollReturns \/ PollPanics \/ EmitResult \/ SyncsEngine
    \/ EmitError \/ EmitterCloses \/ EmitterReturns

-----------------------------------------------------------------------------
(* handleResults *)

\* WatcherResult finds the channel closed, and the managed engine leaves its loop.
ResultsClosed ==
    /\ wired.engine = "engine"
    /\ rpc = "receive"
    /\ "result" \in wired.client \cap closed
    /\ rpc' = "shutdown"
    /\ UNCHANGED <<driver, wired, process, cancelled, closed, epc, emitErr, mpc, mainErr,
                   upc, shutdowns, failed>>

\* The thin engine does not look, and hands the nil result to the service.
ThinResultsClosed ==
    /\ wired.engine = "thinEngine"
    /\ rpc = "receive"
    /\ "result" \in wired.client \cap closed
    /\ rpc' = "handleNil"
    /\ UNCHANGED <<driver, wired, process, cancelled, closed, epc, emitErr, mpc, mainErr,
                   upc, shutdowns, failed>>

\* The service and the gateway have done their work, or failed.
HandleResult ==
    /\ rpc \in {"handle", "handleNil"}
    /\ \/ rpc' = "sync" /\ UNCHANGED failed
       \/ rpc' = "shutdown" /\ failed' = TRUE
    /\ UNCHANGED <<driver, wired, process, cancelled, closed, epc, emitErr, mpc, mainErr,
                   upc, shutdowns>>

\* Mutant of EngineShutdown: the nil channel is closed too.
ShutdownUnguarded ==
    /\ rpc = "shutdown"
    /\ Close("sync", wired.client, rpc, "done")
    /\ UNCHANGED <<driver, wired, cancelled, epc, emitErr, mpc, mainErr, upc, shutdowns,
                   failed>>

\* The deferred shutdown: EmitterClient.Shutdown closes syncChan unless it is nil.
EngineShutdown ==
    /\ rpc = "shutdown"
    /\ IF "sync" \in wired.client THEN Close("sync", wired.client, rpc, "done")
       ELSE rpc' = "done" /\ UNCHANGED <<process, closed>>
    /\ UNCHANGED <<driver, wired, cancelled, epc, emitErr, mpc, mainErr, upc, shutdowns,
                   failed>>

HandleResults == ResultsClosed \/ ThinResultsClosed \/ HandleResult \/ EngineShutdown

-----------------------------------------------------------------------------
(* The caller of engine.Loop: HandleEmitterError, and what its caller does next *)

\* WatcherError finds the channel closed: Loop returns nil.
ErrorsClosed ==
    /\ mpc = "wait"
    /\ "err" \in wired.client \cap closed
    /\ mpc' = "loopReturned"
    /\ mainErr' = "none"
    /\ UNCHANGED <<driver, wired, process, cancelled, closed, epc, emitErr, rpc, upc,
                   shutdowns, failed>>

\* The service's HandleEmitterError returns nil, the error it was given, or one of
\* its own.
ServiceHandlesError ==
    /\ mpc = "handleError"
    /\ \/ mpc' = "wait" /\ mainErr' = "none"
       \/ mpc' = "loopReturned" /\ mainErr' \in {mainErr, "service"}
    /\ UNCHANGED <<driver, wired, process, cancelled, closed, epc, emitErr, rpc, upc,
                   shutdowns, failed>>

\* superWatcher.Run returns.
RunReturns ==
    /\ driver = "Run"
    /\ mpc = "loopReturned"
    /\ mpc' = "done"
    /\ UNCHANGED <<driver, wired, process, cancelled, closed, epc, emitErr, rpc, mainErr,
                   upc, shutdowns, failed>>

\* RunService returns at once on ErrExitBlockReached and otherwise waits for the
\* emitter's goroutine.
RunServiceReturns ==
    /\ driver = "RunService"
    /\ mpc = "loopReturned"
    /\ mainErr = "exitBlock" \/ epc = "done"
    /\ mpc' = "done"
    /\ UNCHANGED <<driver, wired, process, cancelled, closed, epc, emitErr, rpc, mainErr,
                   upc, shutdowns, failed>>

\* The main function of easywatcher returns, and the process ends.
EasywatcherReturns ==
    /\ driver = "easywatcher"
    /\ mpc = "loopReturned"
    /\ mpc' = "done"
    /\ process' = "exited"
    /\ UNCHANGED <<driver, wired, cancelled, closed, epc, emitErr, rpc, mainErr, upc,
                   shutdowns, failed>>

Main ==
    ErrorsClosed \/ ServiceHandlesError \/ RunReturns \/ RunServiceReturns
    \/ EasywatcherReturns

-----------------------------------------------------------------------------
(* The user of superWatcher.Run *)

Cancel ==
    /\ driver = "Run"
    /\ ~cancelled
    /\ cancelled' = TRUE
    /\ UNCHANGED <<driver, wired, process, closed, epc, emitErr, rpc, mpc, mainErr, upc,
                   shutdowns, failed>>

\* superWatcher.Shutdown closes the emitter's channels from another goroutine.
Shutdown ==
    /\ driver = "Run"
    /\ \/ /\ upc = "idle" /\ shutdowns < MaxShutdowns
          /\ shutdowns' = shutdowns + 1
          /\ Close("result", wired.emitter, upc, "closeErr")
       \/ /\ upc = "closeErr"
          /\ Close("err", wired.emitter, upc, "idle")
          /\ UNCHANGED shutdowns
    /\ UNCHANGED <<driver, wired, cancelled, epc, emitErr, rpc, mpc, mainErr, failed>>

-----------------------------------------------------------------------------

Next ==
    /\ process = "running"
    /\ Emitter \/ HandleResults \/ Main \/ Cancel \/ Shutdown

Spec == Init /\ [][Next]_vars

\* The Go scheduler runs every goroutine that can go on, polls return and the
\* service's handlers return.  The user need not cancel.
Fairness ==
    /\ WF_vars(process = "running" /\ Emitter)
    /\ WF_vars(process = "running" /\ HandleResults)
    /\ WF_vars(process = "running" /\ Main)

FairSpec == Spec /\ Fairness

-----------------------------------------------------------------------------
(* Properties *)

EmitterBuilt == wired.emitter = Channels /\ wired.parts = EmitterParts

FullyWired == EmitterBuilt /\ wired.client = Channels

\* Each goroutine is at one of its own steps, and an error is at hand exactly
\* where one is sent or handled.
TypeOK ==
    /\ process \in {"running", "panicked", "exited"}
    /\ cancelled \in BOOLEAN
    /\ closed \subseteq Channels
    /\ epc \in {"loop", "loopEmit", "poll", "emitResult", "sync", "emitError",
               "closeResult", "closeErr", "return", "done"}
    /\ emitErr \in {"none", "cancelled", "fetch", "exitBlock"}
    /\ rpc \in {"receive", "handle", "handleNil", "sync", "shutdown", "done"}
    /\ mpc \in {"wait", "handleError", "loopReturned", "done"}
    /\ mainErr \in {"none", "cancelled", "fetch", "exitBlock", "service"}
    /\ upc \in {"idle", "closeErr"}
    /\ shutdowns \in 0 .. MaxShutdowns
    /\ failed \in BOOLEAN
    /\ epc = "emitError" <=> emitErr # "none"
    /\ mpc = "handleError" => mainErr # "none"

\* No goroutine sends on a closed channel or closes one twice, and the engine
\* never closes a channel it was not given, whatever fails and whenever the
\* context is cancelled.  Two things break it: superWatcher.Shutdown, which closes
\* the channels under the emitter, and an emitter without its channels, its client
\* of the node or its poller.
PanicsOnlyWhenMisused ==
    process = "panicked" => shutdowns > 0 \/ ~EmitterBuilt

\* emitter.go: "SyncsEngine blocks until a signal is sent".  While the service is
\* handling a result, the emitter neither polls nor reads the recorded block that
\* the engine is about to write.
Lockstep == rpc = "handle" => epc = "sync"

\* The emitter never waits forever for the engine's signal: an engine that fails
\* on a result closes the channel instead.
SyncReturns ==
    (epc = "sync" /\ FullyWired) ~> (epc # "sync" \/ process # "running")

Stopped ==
    /\ mpc = "done"
    /\ mainErr = "none" =>
         epc = "done" /\ (wired.engine = "engine" => rpc = "done")

\* emitter.go: "When |ctx| is canceled elsewhere, Loop calls *emitter.shutdown and
\* returns".  Wherever the goroutines are when the context is cancelled, Run
\* returns, and if the service did not give up, the goroutines have ended; of the
\* thin engine only the emitter's: handleResults waits forever to sync the nil
\* result.  Once handleResults has failed the promise is off: nobody receives the
\* next result, and the emitter waits to send it without looking at the context.
CancelStops ==
    (cancelled /\ FullyWired) ~> (Stopped \/ failed \/ process = "panicked")

=============================================================================
