--------------------------- MODULE LifecycleProofs ---------------------------
(***************************************************************************)
(* Proofs about Lifecycle, for every system that components can put        *)
(* together, every program that runs it and any number of Shutdowns: type  *)
(* correctness, Lockstep and PanicsOnlyWhenMisused.                        *)
(***************************************************************************)
EXTENDS Lifecycle, TLAPS

-----------------------------------------------------------------------------
(* The inductive invariant *)

\* The engine closes syncChan on its way out and is gone afterwards: a closed
\* syncChan never lets the emitter go on while a result is being handled.
SyncClosedLast == "sync" \in closed => rpc = "done"

\* Unless the user calls Shutdown, only the emitter closes its two channels, and it
\* never sends on them again.
EmitterClosesLast ==
    shutdowns = 0 =>
        /\ upc = "idle"
        /\ "result" \in closed => epc \in {"closeErr", "return", "done"}
        /\ "err" \in closed => epc \in {"return", "done"}

IInv ==
    /\ TypeOK
    /\ Lockstep
    /\ SyncClosedLast
    /\ EmitterClosesLast
    /\ PanicsOnlyWhenMisused

-----------------------------------------------------------------------------

\* At the start no channel is closed and nobody has failed.
LEMMA InitIInv == Init => IInv
<1>1. Init => cancelled \in BOOLEAN /\ failed \in BOOLEAN
  BY DEF Init
<1> QED
  BY <1>1, LifecycleAssumption
  DEF Init, IInv, TypeOK, Lockstep, SyncClosedLast, EmitterClosesLast,
      PanicsOnlyWhenMisused

\* Nothing undoes a cancellation of the context or a failure of handleResults.
LEMMA NextBooleans ==
    ASSUME TypeOK, [Next]_vars
    PROVE  cancelled' \in BOOLEAN /\ failed' \in BOOLEAN
<1> USE DEF vars, Next, Emitter, EmitterLoop, LoopEmit, PollReturns, PollPanics,
            EmitResult, SyncsEngine, EmitError, EmitterCloses, EmitterReturns,
            HandleResults, ResultsClosed, ThinResultsClosed, HandleResult,
            EngineShutdown, Main, ErrorsClosed, ServiceHandlesError, RunReturns,
            RunServiceReturns, EasywatcherReturns, Cancel, Shutdown
<1>1. \/ UNCHANGED cancelled
      \/ cancelled' = TRUE
      \/ cancelled' = (cancelled \/ driver = "Run")
  OBVIOUS
<1>2. UNCHANGED failed \/ failed' = TRUE
  OBVIOUS
<1> QED
  BY <1>1, <1>2 DEF TypeOK

\* No goroutine leaves its own steps, and none loses or invents an error.
LEMMA NextTypeOK ==
    ASSUME TypeOK, [Next]_vars
    PROVE  TypeOK'
<1> USE NextBooleans, LifecycleAssumption DEF TypeOK, Channels
<1>1. CASE process = "running" /\ EmitterLoop
  BY <1>1 DEF EmitterLoop
<1>2. CASE process = "running" /\ LoopEmit
  BY <1>2 DEF LoopEmit
<1>3. CASE process = "running" /\ PollReturns
  BY <1>3 DEF PollReturns
<1>4. CASE process = "running" /\ PollPanics
  BY <1>4 DEF PollPanics, Panic
<1>5. CASE process = "running" /\ EmitResult
  <2>1. process' \in {"running", "panicked"} /\ closed' = closed
    BY <1>5 DEF EmitResult, Panic
  <2>2. epc' \in {"sync", "emitResult"} /\ epc = "emitResult" /\ rpc' \in {"handle", rpc}
    BY <1>5 DEF EmitResult, Panic
  <2>3. UNCHANGED <<cancelled, emitErr, mpc, mainErr, upc, shutdowns, failed>>
    BY <1>5 DEF EmitResult
  <2> QED
    BY <2>1, <2>2, <2>3
<1>6. CASE process = "running" /\ SyncsEngine
  BY <1>6 DEF SyncsEngine, Meet
<1>7. CASE process = "running" /\ EmitError
  <2>1. process' \in {"running", "panicked"} /\ closed' = closed
    BY <1>7 DEF EmitError, Panic
  <2>2. \/ /\ epc' = "loop" /\ emitErr' = "none"
           /\ mpc' = "handleError" /\ mainErr' = emitErr /\ emitErr # "none"
        \/ UNCHANGED <<epc, emitErr, mpc, mainErr>>
    BY <1>7 DEF EmitError, Panic
  <2>3. UNCHANGED <<cancelled, rpc, upc, shutdowns, failed>>
    BY <1>7 DEF EmitError
  <2> QED
    BY <2>1, <2>2, <2>3
<1>8. CASE process = "running" /\ EmitterCloses
  <2>1. process' \in {"running", "panicked"} /\ closed' \subseteq Channels
    BY <1>8 DEF EmitterCloses, Close, Panic
  <2>2. epc # "emitError" /\ epc' \in {epc, "closeErr", "return"}
    BY <1>8 DEF EmitterCloses, Close, Panic
  <2>3. UNCHANGED <<cancelled, emitErr, rpc, mpc, mainErr, upc, shutdowns, failed>>
    BY <1>8 DEF EmitterCloses
  <2> QED
    BY <2>1, <2>2, <2>3
<1>9. CASE process = "running" /\ EmitterReturns
  BY <1>9 DEF EmitterReturns
<1>10. CASE process = "running" /\ ResultsClosed
  BY <1>10 DEF ResultsClosed
<1>11. CASE process = "running" /\ ThinResultsClosed
  BY <1>11 DEF ThinResultsClosed
<1>12. CASE process = "running" /\ HandleResult
  BY <1>12 DEF HandleResult
<1>13. CASE process = "running" /\ EngineShutdown
  <2>1. /\ process' \in {"running", "panicked"}
        /\ closed' \subseteq Channels
        /\ rpc' \in {rpc, "done"}
    BY <1>13 DEF EngineShutdown, Close, Panic
  <2>2. UNCHANGED <<cancelled, epc, emitErr, mpc, mainErr, upc, shutdowns, failed>>
    BY <1>13 DEF EngineShutdown
  <2> QED
    BY <2>1, <2>2
<1>14. CASE process = "running" /\ ErrorsClosed
  BY <1>14 DEF ErrorsClosed
<1>15. CASE process = "running" /\ ServiceHandlesError
  BY <1>15 DEF ServiceHandlesError
<1>16. CASE process = "running" /\ RunReturns
  BY <1>16 DEF RunReturns
<1>17. CASE process = "running" /\ RunServiceReturns
  BY <1>17 DEF RunServiceReturns
<1>18. CASE process = "running" /\ EasywatcherReturns
  BY <1>18 DEF EasywatcherReturns
<1>19. CASE process = "running" /\ Cancel
  BY <1>19 DEF Cancel
<1>20. CASE process = "running" /\ Shutdown
  <2>1. shutdowns' \in 0 .. MaxShutdowns
    BY <1>20 DEF Shutdown
  <2>2. /\ process' \in {"running", "panicked", "exited"}
        /\ closed' \subseteq Channels
        /\ upc' \in {"idle", "closeErr"}
    BY <1>20 DEF Shutdown, Close, Panic
  <2>3. UNCHANGED <<cancelled, epc, emitErr, rpc, mpc, mainErr, failed>>
    BY <1>20 DEF Shutdown
  <2> QED
    BY <2>1, <2>2, <2>3
<1>21. CASE UNCHANGED vars
  BY <1>21 DEF vars
<1> QED
  BY <1>1, <1>2, <1>3, <1>4, <1>5, <1>6, <1>7, <1>8, <1>9, <1>10, <1>11, <1>12,
     <1>13, <1>14, <1>15, <1>16, <1>17, <1>18, <1>19, <1>20, <1>21
  DEF Next, Emitter, HandleResults, Main

\* The engine and the emitter stay in lockstep: a closed syncChan is that of an
\* engine that is gone.
LEMMA NextLockstep ==
    ASSUME TypeOK, Lockstep, SyncClosedLast, [Next]_vars
    PROVE  Lockstep' /\ SyncClosedLast'
<1> USE DEF TypeOK, Lockstep, SyncClosedLast
<1>1. CASE process = "running" /\ EmitterLoop
  BY <1>1 DEF EmitterLoop
<1>2. CASE process = "running" /\ LoopEmit
  BY <1>2 DEF LoopEmit
<1>3. CASE process = "running" /\ PollReturns
  BY <1>3 DEF PollReturns
<1>4. CASE process = "running" /\ PollPanics
  BY <1>4 DEF PollPanics, Panic
<1>5. CASE process = "running" /\ EmitResult
  BY <1>5 DEF EmitResult, Panic, Meet
<1>6. CASE process = "running" /\ SyncsEngine
  BY <1>6 DEF SyncsEngine, Meet
<1>7. CASE process = "running" /\ EmitError
  BY <1>7 DEF EmitError, Panic, Meet
<1>8. CASE process = "running" /\ EmitterCloses
  BY <1>8 DEF EmitterCloses, Close, Panic
<1>9. CASE process = "running" /\ EmitterReturns
  BY <1>9 DEF EmitterReturns
<1>10. CASE process = "running" /\ ResultsClosed
  BY <1>10 DEF ResultsClosed
<1>11. CASE process = "running" /\ ThinResultsClosed
  BY <1>11 DEF ThinResultsClosed
<1>12. CASE process = "running" /\ HandleResult
  BY <1>12 DEF HandleResult
<1>13. CASE process = "running" /\ EngineShutdown
  BY <1>13 DEF EngineShutdown, Close, Panic
<1>14. CASE process = "running" /\ ErrorsClosed
  BY <1>14 DEF ErrorsClosed
<1>15. CASE process = "running" /\ ServiceHandlesError
  BY <1>15 DEF ServiceHandlesError
<1>16. CASE process = "running" /\ RunReturns
  BY <1>16 DEF RunReturns
<1>17. CASE process = "running" /\ RunServiceReturns
  BY <1>17 DEF RunServiceReturns
<1>18. CASE process = "running" /\ EasywatcherReturns
  BY <1>18 DEF EasywatcherReturns
<1>19. CASE process = "running" /\ Cancel
  BY <1>19 DEF Cancel
<1>20. CASE process = "running" /\ Shutdown
  BY <1>20 DEF Shutdown, Close, Panic
<1>21. CASE UNCHANGED vars
  BY <1>21 DEF vars
<1> QED
  BY <1>1, <1>2, <1>3, <1>4, <1>5, <1>6, <1>7, <1>8, <1>9, <1>10, <1>11, <1>12,
     <1>13, <1>14, <1>15, <1>16, <1>17, <1>18, <1>19, <1>20, <1>21
  DEF Next, Emitter, HandleResults, Main

\* Without a Shutdown the emitter closes its channels once, when it sends no more.
LEMMA NextNoPanic ==
    ASSUME TypeOK, SyncClosedLast, EmitterClosesLast, PanicsOnlyWhenMisused, [Next]_vars
    PROVE  EmitterClosesLast' /\ PanicsOnlyWhenMisused'
<1> USE DEF TypeOK, SyncClosedLast, EmitterClosesLast,
        PanicsOnlyWhenMisused, EmitterBuilt, Channels, EmitterParts
<1>1. CASE process = "running" /\ EmitterLoop
  BY <1>1 DEF EmitterLoop
<1>2. CASE process = "running" /\ LoopEmit
  BY <1>2 DEF LoopEmit
<1>3. CASE process = "running" /\ PollReturns
  BY <1>3 DEF PollReturns
<1>4. CASE process = "running" /\ PollPanics
  BY <1>4 DEF PollPanics, Panic
<1>5. CASE process = "running" /\ EmitResult
  BY <1>5 DEF EmitResult, Panic, Meet
<1>6. CASE process = "running" /\ SyncsEngine
  BY <1>6 DEF SyncsEngine, Meet
<1>7. CASE process = "running" /\ EmitError
  BY <1>7 DEF EmitError, Panic, Meet
<1>8. CASE process = "running" /\ EmitterCloses
  BY <1>8 DEF EmitterCloses, Close, Panic
<1>9. CASE process = "running" /\ EmitterReturns
  BY <1>9 DEF EmitterReturns
<1>10. CASE process = "running" /\ ResultsClosed
  BY <1>10 DEF ResultsClosed
<1>11. CASE process = "running" /\ ThinResultsClosed
  BY <1>11 DEF ThinResultsClosed
<1>12. CASE process = "running" /\ HandleResult
  BY <1>12 DEF HandleResult
<1>13. CASE process = "running" /\ EngineShutdown
  BY <1>13 DEF EngineShutdown, Close, Panic
<1>14. CASE process = "running" /\ ErrorsClosed
  BY <1>14 DEF ErrorsClosed
<1>15. CASE process = "running" /\ ServiceHandlesError
  BY <1>15 DEF ServiceHandlesError
<1>16. CASE process = "running" /\ RunReturns
  BY <1>16 DEF RunReturns
<1>17. CASE process = "running" /\ RunServiceReturns
  BY <1>17 DEF RunServiceReturns
<1>18. CASE process = "running" /\ EasywatcherReturns
  BY <1>18 DEF EasywatcherReturns
<1>19. CASE process = "running" /\ Cancel
  BY <1>19 DEF Cancel
<1>20. CASE process = "running" /\ Shutdown
  BY <1>20 DEF Shutdown, Close, Panic
<1>21. CASE UNCHANGED vars
  BY <1>21 DEF vars
<1> QED
  BY <1>1, <1>2, <1>3, <1>4, <1>5, <1>6, <1>7, <1>8, <1>9, <1>10, <1>11, <1>12,
     <1>13, <1>14, <1>15, <1>16, <1>17, <1>18, <1>19, <1>20, <1>21
  DEF Next, Emitter, HandleResults, Main

-----------------------------------------------------------------------------
(* The theorems *)

\* The conjunction of the parts above is preserved by every step.
THEOREM Invariance == Spec => []IInv
<1>1. IInv /\ [Next]_vars => IInv'
  BY NextTypeOK, NextLockstep, NextNoPanic DEF IInv
<1> QED
  BY <1>1, InitIInv, PTL DEF Spec

\* Each goroutine stays at its own steps and an error is at hand exactly where one
\* is sent or handled.
THEOREM TypeCorrect == Spec => []TypeOK
<1>1. IInv => TypeOK
  BY DEF IInv
<1> QED
  BY <1>1, Invariance, PTL

\* SyncsEngine: while the service handles a result the emitter waits for the engine's
\* signal, whatever channels are missing, whoever fails and whoever closes what.
THEOREM InLockstep == Spec => []Lockstep
<1>1. IInv => Lockstep
  BY DEF IInv
<1> QED
  BY <1>1, Invariance, PTL

\* No send on a closed channel, no second close, no close of a nil channel, and no
\* call of a part that is not there, in any system whose emitter was built whole,
\* until the user calls Shutdown.
THEOREM NoPanicUnlessMisused == Spec => []PanicsOnlyWhenMisused
<1>1. IInv => PanicsOnlyWhenMisused
  BY DEF IInv
<1> QED
  BY <1>1, Invariance, PTL

=============================================================================
