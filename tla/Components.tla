----------------------------- MODULE Components -----------------------------
(***************************************************************************)
(* pkg/components: how an emitter and an engine are put together.  Of the  *)
(* wiring the model keeps which of the three channels each side was given, *)
(* whether the emitter has a client of the node and a poller, and which    *)
(* engine was built.  What was not given is nil.  Both sides are given the *)
(* same channel, or one of them none: a user who pairs two different       *)
(* channels has built two systems.                                         *)
(***************************************************************************)
EXTENDS Integers, FiniteSets

\* pollResultChan, errChan and syncChan, all of them unbuffered
Channels == {"result", "err", "sync"}

\* What else the emitter's loop calls
EmitterParts == {"ethClient", "poller"}

\* componentConfig, after WithFilterResultChan, WithErrChan, WithSyncChan and
\* WithEthClient among the options have been applied to it.  No option gives a poller.
Given(options) == options \cap (Channels \cup {"ethClient"})

NewEmitter(given) == [chans |-> given \cap Channels, parts |-> given \cap EmitterParts]

\* A poller of the emitter's own is made first.
NewEmitterWithPoller(given) == NewEmitter(given \cup {"poller"})

SetPoller(emitter) == [emitter EXCEPT !.parts = @ \cup {"poller"}]

NewEmitterClient(given) == [chans |-> given \cap Channels]

NewEngine(client) == [kind |-> "engine", client |-> client]

NewThinEngine(client) == [kind |-> "thinEngine", client |-> client]

NewSuperWatcher(emitter, engine) ==
    [emitter |-> emitter.chans, parts |-> emitter.parts,
     engine |-> engine.kind, client |-> engine.client.chans]

\* Each called with options of its own
NewEmitterOptions(options) == NewEmitterWithPoller(Given(options))
NewEngineOptions(options) == NewEngine(NewEmitterClient(Given(options)))

\* The same options for both sides
NewSuperWatcherOptions(options) ==
    NewSuperWatcher(NewEmitterWithPoller(Given(options)),
                    NewEngine(NewEmitterClient(Given(options))))

\* NewDefault and NewThinEngineWithEmitter make the channels themselves.
NewDefault ==
    NewSuperWatcher(NewEmitterWithPoller(Channels \cup {"ethClient"}),
                    NewEngine(NewEmitterClient(Channels)))

NewThinEngineWithEmitter ==
    NewSuperWatcher(NewEmitterWithPoller(Channels \cup {"ethClient"}),
                    NewThinEngine(NewEmitterClient(Channels)))

-----------------------------------------------------------------------------
(* The ways that examples/demoservice shows to its readers.  The first one is   *)
(* NewDefault.                                                                   *)

\* The poller is set once the emitter is made without one.
newSuperwatcherFromArgs ==
    NewSuperWatcher(SetPoller(NewEmitter(Channels \cup {"ethClient"})),
                    NewEngine(NewEmitterClient(Channels)))

\* Its ethClient is not among the options it passes on.
newSuperWatcherOptions == NewSuperWatcherOptions(Channels)

=============================================================================
