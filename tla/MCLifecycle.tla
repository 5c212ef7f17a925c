---------------------------- MODULE MCLifecycle ----------------------------
(* Instances of Lifecycle for TLC: every driver, and every wiring in which a   *)
(* channel is missing on one side or on both, or the client or the poller.     *)
EXTENDS Lifecycle
MCOptions == Channels \cup {"ethClient"}
MCWirings ==
    {NewDefault, NewThinEngineWithEmitter, newSuperwatcherFromArgs, newSuperWatcherOptions,
     NewSuperWatcher(NewEmitter(MCOptions), NewEngineOptions(MCOptions))}
    \cup { NewSuperWatcherOptions(given) : given \in SUBSET MCOptions }
    \cup { NewSuperWatcher(NewEmitterOptions(given), NewEngineOptions(MCOptions)) :
              given \in SUBSET MCOptions }
    \cup { NewSuperWatcher(NewEmitterOptions(MCOptions), NewEngineOptions(given)) :
              given \in SUBSET MCOptions }
MCSystems ==
    { [driver |-> "Run", wired |-> w] : w \in MCWirings }
    \cup {[driver |-> "RunService", wired |-> NewDefault],
          [driver |-> "easywatcher", wired |-> NewThinEngineWithEmitter]}
=============================================================================
