------------------------------- MODULE Filter -------------------------------
(***************************************************************************)
(* DpdfnetFilter (src/src/dpdfnet-filter.cpp): the audio callback, the     *)
(* worker thread and the threads that call update, reset or the enable     *)
(* signal, around one DpdfnetProcessor.                                    *)
(*                                                                         *)
(* A section under mutex_ or resampler_request_mutex_ is one action, since *)
(* everything they guard is read and written inside them.  update_mutex_   *)
(* is held across such sections and while models and resamplers are        *)
(* prepared, so it is a variable.  The condition variable is the guard of  *)
(* WorkerWake.                                                             *)
(***************************************************************************)
EXTENDS ProcessorView, Sequences

CONSTANTS Clients,  \* threads that call into the filter
          Calls,    \* what they call: a subset of AllCalls
          Failures, \* what may fail: a subset of AllFailures
          Slots     \* events whose diagnostics are told apart

AllCalls    == {"update", "reset", "boundary", "enable"}
AllFailures == {"load", "prepare", "process", "overload"}

\* An event of the processor, a pause, or the end of the probe after it.
Events == {"setback", "paused", "recovered"}

ASSUME FilterAssumption ==
    /\ Calls \subseteq AllCalls /\ Failures \subseteq AllFailures
    /\ Clients \cap {"worker", "free"} = {} /\ Slots \subseteq Events

VARIABLES obs,         \* OBS's audio format
          proc,        \* processor_
          guard,       \* realtime_guard_ and overload_retries_
          rejected,    \* failed_model_path_, if any
          error,       \* last_resampler_error_ is set
          request,     \* what resampler_request_mutex_ guards
          audio,       \* the audio thread
          worker,      \* the worker thread
          client,      \* the threads that call into the filter
          updateLock,  \* holder of update_mutex_
          unlogged     \* history: events reported and not yet logged

vars == <<obs, proc, guard, rejected, error, request, audio, worker, client,
          updateLock, unlogged>>

LastDelay == 3    \* DELAYS_NS.size(): 10, 30 and 60 seconds
Paths     == Models \cup {NoModel}

\* attempts: up to the last delay, after which it makes no difference.
GuardType == [probe : BOOLEAN, attempts : 0 .. LastDelay]

\* slots: diagnostics that are pending.  news: another one is, or a status
\* refresh.  deadline: which delay the retry deadline was set from, 0 for
\* none.  due: it has passed.
RequestType == [refresh : BOOLEAN, news : BOOLEAN, slots : SUBSET Slots,
                deadline : 0 .. LastDelay, due : BOOLEAN, stop : BOOLEAN]

PostType  == [refresh : BOOLEAN, event : Events \cup {"none"},
              delay : 0 .. LastDelay]
AudioType == [pc : {"idle", "lock", "post"}, format : Formats,
              posts : Seq(PostType)]

WorkerPcs  == {"waiting", "rebuild", "install", "retry", "status", "snapshot",
               "stopped"}
WorkerType == [pc : WorkerPcs, timed : BOOLEAN, retry : BOOLEAN,
               format : Formats, model : Paths]

\* Where a thread of OBS is: between the locks of the method it is in.
UpdatePcs   == {"update", "read", "prepare", "fallback", "install"}
ResetPcs    == {"reset", "resetInstall", "clear"}
BoundaryPcs == {"boundary", "boundaryInstall", "notify"}
ClientPcs   == {"idle"} \cup UpdatePcs \cup ResetPcs \cup BoundaryPcs
Loads     == {"none", "loaded", "rejected", "unpaired"}
Attempts  == {"none", "ready", "failed"}
ClientType ==
    [pc : ClientPcs, path : Paths, switch : BOOLEAN, format : Formats,
     old : [format : Formats, model : Paths, path : BOOLEAN, stale : BOOLEAN],
     load : Loads, pair : Attempts, fallback : Attempts]

\* A thread outside the filter has no locals; they are given one value.
AnyFormat == CHOOSE f \in Formats : TRUE
AnyOld    == [format |-> AnyFormat, model |-> NoModel, path |-> FALSE,
              stale |-> FALSE]

NoAudio == [pc |-> "idle", format |-> AnyFormat, posts |-> <<>>]
NoWork  == [pc |-> "waiting", timed |-> FALSE, retry |-> FALSE,
            format |-> AnyFormat, model |-> NoModel]
Away    == [pc |-> "idle", path |-> NoModel, switch |-> FALSE,
            format |-> AnyFormat, old |-> AnyOld, load |-> "none",
            pair |-> "none", fallback |-> "none"]

NoRequest == [refresh |-> FALSE, news |-> FALSE, slots |-> {},
              deadline |-> 0, due |-> FALSE, stop |-> FALSE]
NoGuard   == [probe |-> FALSE, attempts |-> 0]

Init ==
    /\ obs \in Formats
    /\ proc = FirstView(obs)
    /\ guard = NoGuard
    /\ rejected = {}
    /\ error = FALSE
    /\ request = NoRequest
    /\ audio = NoAudio
    /\ worker = NoWork
    /\ client = [c \in Clients |-> Away]
    /\ updateLock = "free"
    /\ unlogged = {}

Overloaded == proc.reason = "RealtimeOverload"

\* What an attempt may come to, when it fails for this reason.
MaySucceed(failure) == IF failure \in Failures THEN BOOLEAN ELSE {TRUE}

(***************************************************************************)
(* The audio thread: filter_audio.                                         *)
(***************************************************************************)
Post(refresh, event, delay) ==
    [refresh |-> refresh, event |-> event, delay |-> delay]

\* request_worker returns at once when it has nothing to say.
PostIf(refresh, says, event) ==
    IF refresh \/ says \/ event # "none" THEN <<Post(refresh, event, 0)>>
    ELSE <<>>

EventOf(o) == IF o.event THEN "setback" ELSE "none"

Results(v) ==
    Ordinary(v) \cup IF "process" \in Failures THEN Setbacks(v) ELSE {}

AudioArrives ==
    /\ audio.pc = "idle" /\ ~request.stop
    /\ audio' = [audio EXCEPT !.pc = "lock", !.format = obs]
    /\ UNCHANGED <<obs, proc, guard, rejected, error, request, worker, client,
                   updateLock, unlogged>>

\* What guard and schedule make of a result, what is posted of it, and the
\* event that is reported on top of the processor's.
Untouched(o, says, refresh) ==
    [guard |-> guard, view |-> o.view, event |-> "none",
     posts |-> PostIf(refresh, says, EventOf(o))]

\* Slip: the attempt count indexes past the last delay.
NextDelayUncapped(g) == g.attempts + 1

NextDelay(g) == IF g.attempts < LastDelay THEN g.attempts + 1 ELSE LastDelay

Pause(o, delay, before, refresh) ==
    [guard |-> [guard EXCEPT !.attempts = NextDelay(guard)],
     view  |-> DisableForRealtimeOverload(o.view), event |-> "paused",
     posts |-> before \o <<Post(refresh, "paused", delay)>>]

\* Slip: the delay is looked up after the attempt was counted.
TrippedCountedFirst(o, refresh) ==
    Pause(o, NextDelay([guard EXCEPT !.attempts = NextDelay(guard)]),
          PostIf(FALSE, FALSE, EventOf(o)), refresh)

\* Slip: the event the pause displaces is dropped.
TrippedDroppingEvent(o, refresh) ==
    Pause(o, NextDelay(guard), <<>>, refresh)

\* The event it displaces is posted first.
Tripped(o, refresh) ==
    Pause(o, NextDelay(guard), PostIf(FALSE, FALSE, EventOf(o)), refresh)

ProbeOver(o, refresh) ==
    [guard |-> NoGuard, view |-> o.view, event |-> "recovered",
     posts |-> <<Post(refresh, "recovered", 0)>>]

(***************************************************************************)
(* The guard may trip on any hops it measures, and end the probe on any    *)
(* without an event; the module AudioCallback has when it does.            *)
(***************************************************************************)
Verdicts(o, eligible, says, refresh) ==
    {Untouched(o, says, refresh)}
    \cup (IF eligible /\ o.hops /\ "overload" \in Failures
          THEN {Tripped(o, refresh)} ELSE {})
    \cup (IF eligible /\ o.hops /\ guard.probe /\ ~o.event
          THEN {ProbeOver(o, refresh)} ELSE {})

AudioProcess ==
    /\ audio.pc = "lock"
    /\ LET changed  == audio.format # proc.format
           v        == SetFormat(proc, audio.format)
           eligible == /\ Loaded(v) /\ v.reason = "None"
                       /\ ~Resamples(v.format, v.model) \/ Path(v)
       IN \E o \in Results(v) :
            LET says    == proc.failing /\ ~o.view.failing
                refresh == o.refresh \/ (changed /\ Stale(v))
            IN \E r \in Verdicts(o, eligible, says, refresh) :
                 /\ proc' = r.view
                 /\ guard' = r.guard
                 /\ audio' = IF r.posts = <<>> THEN NoAudio
                             ELSE [NoAudio EXCEPT !.pc = "post",
                                                  !.posts = r.posts]
                 /\ unlogged' =
                      unlogged \cup ({EventOf(o), r.event} \cap Slots)
    /\ UNCHANGED <<obs, rejected, error, request, worker, client, updateLock>>

\* request_worker: one section for each result it is given.
AudioPost ==
    /\ audio.pc = "post"
    /\ LET p == Head(audio.posts)
       IN request' = [request EXCEPT
             !.refresh  = @ \/ p.refresh,
             !.news     = @ \/ p.event \notin Slots,
             !.slots    = @ \cup ({p.event} \cap Slots),
             !.deadline = IF p.delay > 0 THEN p.delay ELSE @,
             !.due      = @ /\ p.delay = 0]
    /\ audio' = IF Len(audio.posts) = 1 THEN NoAudio
                ELSE [audio EXCEPT !.posts = Tail(@)]
    /\ UNCHANGED <<obs, proc, guard, rejected, error, worker, client,
                   updateLock, unlogged>>

(***************************************************************************)
(* The worker: resampler_worker_loop.                                      *)
(***************************************************************************)
\* Slip: the wait's predicate does not look at the stop flag.
ReadyUnlessStopped ==
    request.refresh \/ request.news \/ request.slots # {}

Ready   == \/ request.stop \/ request.refresh \/ request.news
           \/ request.slots # {}
Expired == request.deadline > 0 /\ request.due

\* Time passes.
DeadlinePasses ==
    /\ request.deadline > 0 /\ ~request.due
    /\ request' = [request EXCEPT !.due = TRUE]
    /\ UNCHANGED <<obs, proc, guard, rejected, error, audio, worker, client,
                   updateLock, unlogged>>

\* Slip: the worker always waits until it is notified.
WorkerWaitsUntimed(r) == NoWork

\* timed: it waits with a timeout, for the deadline it found.
WorkerWaits(r) == [NoWork EXCEPT !.timed = r.deadline > 0]

\* Slip: the deadline is cleared whether it has passed or not.
TakenWithDeadline == [request EXCEPT !.refresh = FALSE, !.news = FALSE,
                                     !.slots = {}, !.deadline = 0,
                                     !.due = FALSE]

Taken == [request EXCEPT !.refresh = FALSE, !.news = FALSE, !.slots = {},
                         !.deadline = IF Expired THEN 0 ELSE @,
                         !.due = FALSE]

WorkerWake ==
    /\ worker.pc = "waiting"
    /\ Ready \/ (worker.timed /\ (request.deadline = 0 \/ request.due))
    /\ \/ /\ request.stop
          /\ worker' = [NoWork EXCEPT !.pc = "stopped"]
          /\ UNCHANGED <<request, unlogged>>
       \/ /\ ~request.stop
          /\ request' = Taken
          /\ worker' =
               IF request.refresh
               THEN [NoWork EXCEPT !.pc = "rebuild", !.retry = Expired]
               ELSE IF Expired
               THEN [NoWork EXCEPT !.pc = "retry", !.retry = TRUE]
               ELSE IF request.news \/ request.slots # {}
               THEN [NoWork EXCEPT !.pc = "status"]
               ELSE WorkerWaits(Taken)
          /\ unlogged' = unlogged \ request.slots
    /\ UNCHANGED <<obs, proc, guard, rejected, error, audio, client,
                   updateLock>>

AfterRebuild == IF worker.retry THEN "retry" ELSE "status"

\* Slip: an early return that keeps update_mutex_.
RebuildReadKeepsLock ==
    /\ worker.pc = "rebuild" /\ updateLock = "free"
    /\ updateLock' = "worker"
    /\ worker' = IF Stale(proc)
                 THEN [worker EXCEPT !.pc = "install", !.format = proc.format,
                                     !.model = proc.model]
                 ELSE [worker EXCEPT !.pc = AfterRebuild]
    /\ UNCHANGED <<obs, proc, guard, rejected, error, request, audio, client,
                   unlogged>>

(***************************************************************************)
(* rebuild_resamplers_after_discontinuity: read what is needed, prepare a  *)
(* pair without the audio mutex, install it if it still fits.              *)
(***************************************************************************)
RebuildRead ==
    /\ worker.pc = "rebuild" /\ updateLock = "free"
    /\ IF Stale(proc)
       THEN /\ updateLock' = "worker"
            /\ worker' = [worker EXCEPT !.pc = "install",
                                        !.format = proc.format,
                                        !.model = proc.model]
       ELSE /\ worker' = [worker EXCEPT !.pc = AfterRebuild]
            /\ UNCHANGED updateLock
    /\ UNCHANGED <<obs, proc, guard, rejected, error, request, audio, client,
                   unlogged>>

\* Slip: the pair is installed whatever the rate has become.
StillCurrentAnyRate == Stale(proc)

StillCurrent ==
    /\ Stale(proc)
    /\ RateOf[proc.format] = RateOf[worker.format]
    /\ ModelRate[proc.model] = ModelRate[worker.model]

RebuildInstall ==
    /\ worker.pc = "install"
    /\ LET needed == Resamples(worker.format, worker.model)
           pair   == PairFor(worker.format, worker.model)
       IN \E prepared \in MaySucceed("prepare") :
            IF ~StillCurrent THEN UNCHANGED <<proc, error>>
            ELSE IF needed /\ ~prepared
            THEN error' = TRUE /\ UNCHANGED proc
            ELSE /\ proc' = IF needed THEN ReplaceResamplers(proc, pair)
                            ELSE ReleaseInvalidResamplers(proc)
                 /\ error' = FALSE
    /\ updateLock' = "free"
    /\ worker' = [NoWork EXCEPT !.pc = AfterRebuild, !.retry = worker.retry]
    /\ UNCHANGED <<obs, guard, rejected, request, audio, client, unlogged>>

\* Slip: the retry does not start a probe.
WorkerRetryUnprobed ==
    /\ worker.pc = "retry"
    /\ IF Overloaded
       THEN proc' = ResumeAfterOverload(proc) /\ UNCHANGED guard
       ELSE UNCHANGED <<proc, guard>>
    /\ worker' = [worker EXCEPT !.pc = "status", !.retry = FALSE]
    /\ UNCHANGED <<obs, rejected, error, request, audio, client, updateLock,
                   unlogged>>

\* retry_after_overload
WorkerRetry ==
    /\ worker.pc = "retry"
    /\ IF Overloaded
       THEN /\ proc' = ResumeAfterOverload(proc)
            /\ guard' = [guard EXCEPT !.probe = TRUE]
       ELSE UNCHANGED <<proc, guard>>
    /\ worker' = [worker EXCEPT !.pc = "status", !.retry = FALSE]
    /\ UNCHANGED <<obs, rejected, error, request, audio, client, updateLock,
                   unlogged>>

\* Slip: status() does not take update_mutex_.
StatusReadUnlocked ==
    /\ worker.pc = "status"
    /\ worker' = [worker EXCEPT !.pc = "snapshot", !.model = proc.model]
    /\ UNCHANGED <<obs, proc, guard, rejected, error, request, audio, client,
                   updateLock, unlogged>>

\* status() takes the model's address under mutex_ and reads the model after
\* it, with update_mutex_ held throughout.
StatusRead ==
    /\ worker.pc = "status" /\ updateLock = "free"
    /\ updateLock' = "worker"
    /\ worker' = [worker EXCEPT !.pc = "snapshot", !.model = proc.model]
    /\ UNCHANGED <<obs, proc, guard, rejected, error, request, audio, client,
                   unlogged>>

StatusShow ==
    /\ worker.pc = "snapshot"
    /\ updateLock' = "free"
    /\ worker' = WorkerWaits(request)
    /\ UNCHANGED <<obs, proc, guard, rejected, error, request, audio, client,
                   unlogged>>

(***************************************************************************)
(* update: settings are read, a model and resamplers are prepared without  *)
(* the audio mutex, and all of it is installed in one section.             *)
(***************************************************************************)
CallUpdate(c) ==
    /\ client[c].pc = "idle" /\ ~request.stop /\ "update" \in Calls
    /\ client' = [client EXCEPT ![c].pc = "update"]
    /\ UNCHANGED <<obs, proc, guard, rejected, error, request, audio, worker,
                   updateLock, unlogged>>

\* The settings ask for a model file and may switch the input channel.
BeginUpdate(c) ==
    /\ client[c].pc = "update" /\ updateLock = "free"
    /\ updateLock' = c
    /\ \E path \in Paths, switch \in BOOLEAN :
         client' = [client EXCEPT ![c].pc = "read", ![c].format = obs,
                                  ![c].path = path, ![c].switch = switch]
    /\ UNCHANGED <<obs, proc, guard, rejected, error, request, audio, worker,
                   unlogged>>

OldState == [format |-> proc.format, model |-> proc.model,
             path |-> Path(proc), stale |-> Stale(proc)]

UpdateRead(c) ==
    /\ client[c].pc = "read"
    /\ client' = [client EXCEPT ![c].pc = "prepare", ![c].old = OldState]
    /\ UNCHANGED <<obs, proc, guard, rejected, error, request, audio, worker,
                   updateLock, unlogged>>

FormatBoundary(k) == k.old.format # k.format

\* need_load without skip_failed
WantsLoad(k) == /\ k.path # k.old.model \/ k.path = NoModel
                /\ k.path \notin rejected

\* The model the new pair is for.
TargetModel(k) == IF k.load \in {"loaded", "unpaired"} THEN k.path
                  ELSE k.old.model

OldNeedsResamplers(k) == Resamples(k.format, k.old.model)

(***************************************************************************)
(* "unpaired": the file could be loaded, but no resamplers prepared for    *)
(* it, which is model_activation_failed.  "rejected": it could not.        *)
(***************************************************************************)
UpdatePrepare(c) ==
    /\ client[c].pc = "prepare"
    /\ \E loads \in MaySucceed("load"), prepared \in MaySucceed("prepare") :
         LET k      == client[c]
             got    == WantsLoad(k) /\ k.path # NoModel /\ loads
             target == IF got THEN k.path ELSE k.old.model
             fresh  == /\ Resamples(k.format, target)
                       /\ \/ got \/ k.switch \/ FormatBoundary(k)
                          \/ ~ResamplerMatches(proc, k.format, target)
             failed == fresh /\ ~prepared
         IN client' = [client EXCEPT
              ![c].load = IF got THEN IF failed THEN "unpaired" ELSE "loaded"
                          ELSE IF WantsLoad(k) THEN "rejected" ELSE "none",
              ![c].pair = IF failed THEN "failed"
                          ELSE IF fresh THEN "ready" ELSE "none",
              ![c].fallback = "none",
              ![c].pc = IF got /\ failed /\ OldNeedsResamplers(k)
                        THEN "fallback" ELSE "install"]
    /\ UNCHANGED <<obs, proc, guard, rejected, error, request, audio, worker,
                   updateLock, unlogged>>

\* The model in use gets a new pair when it is to be kept in a new format.
UpdateFallback(c) ==
    /\ client[c].pc = "fallback"
    /\ \E prepared \in MaySucceed("prepare") :
         LET k      == client[c]
             needed == \/ FormatBoundary(k)
                       \/ ~ResamplerMatches(proc, k.format, k.old.model)
         IN client' = [client EXCEPT
              ![c].pc = "install",
              ![c].fallback = IF ~needed THEN "none"
                              ELSE IF prepared THEN "ready" ELSE "failed"]
    /\ UNCHANGED <<obs, proc, guard, rejected, error, request, audio, worker,
                   updateLock, unlogged>>

\* What update() does with the pair: install one, drop it ("none"), or keep
\* what is there.
DropsOld(k) == FormatBoundary(k) \/ k.old.path \/ k.old.stale

PairChange(k) ==
    IF k.load = "loaded" THEN IF k.pair = "ready" THEN "fresh" ELSE "drop"
    ELSE IF k.load = "unpaired"
    THEN IF ~OldNeedsResamplers(k)
         THEN IF DropsOld(k) THEN "drop" ELSE "keep"
         ELSE [none |-> "keep", ready |-> "fallback",
               failed |-> "drop"][k.fallback]
    ELSE IF k.pair = "ready" THEN "fresh"
    ELSE IF k.pair = "failed" THEN "drop"
    ELSE IF ~Resamples(k.format, TargetModel(k)) /\ DropsOld(k) THEN "drop"
    ELSE "keep"

WithPairChange(k, v) ==
    LET change == PairChange(k)
    IN IF change = "keep" THEN v
       ELSE ReplaceResamplers(v,
              IF change = "fresh" THEN PairFor(k.format, TargetModel(k))
              ELSE IF change = "fallback" THEN PairFor(k.format, k.old.model)
              ELSE NoPair)

\* last_resampler_error_ after it.
UpdateError(k) ==
    IF k.load = "loaded" THEN FALSE
    ELSE IF k.load = "unpaired" THEN
         IF ~OldNeedsResamplers(k) THEN FALSE
         ELSE [none |-> error, ready |-> FALSE, failed |-> TRUE][k.fallback]
    ELSE IF k.pair = "failed" THEN TRUE
    ELSE error /\ PairChange(k) = "keep"

UpdateInstall(c) ==
    /\ client[c].pc = "install"
    /\ LET k       == client[c]
           settled == SetFormat(proc, k.format)
           modeled == IF k.load = "loaded" THEN ReplaceModel(settled, k.path)
                      ELSE settled
           paired  == WithPairChange(k, modeled)
       IN /\ proc' = IF k.switch THEN ResetStream(paired) ELSE paired
          /\ guard' = IF k.load = "loaded" THEN NoGuard ELSE guard
          /\ rejected' = IF k.load = "loaded" THEN {}
                         ELSE IF k.load # "none" THEN {k.path}
                         ELSE rejected \cap {k.path}
          /\ error' = UpdateError(k)
    /\ client' = [client EXCEPT ![c] = Away]
    /\ updateLock' = "free"
    /\ UNCHANGED <<obs, request, audio, worker, unlogged>>

(***************************************************************************)
(* reset_state, and reset_stream_boundary at the enable signal: both       *)
(* prepare a pair for the format they read and install it unasked.         *)
(***************************************************************************)
CallReset(c) ==
    /\ client[c].pc = "idle" /\ ~request.stop /\ "reset" \in Calls
    /\ client' = [client EXCEPT ![c].pc = "reset"]
    /\ UNCHANGED <<obs, proc, guard, rejected, error, request, audio, worker,
                   updateLock, unlogged>>

CallDisable(c) ==
    /\ client[c].pc = "idle" /\ ~request.stop /\ "boundary" \in Calls
    /\ client' = [client EXCEPT ![c].pc = "boundary"]
    /\ UNCHANGED <<obs, proc, guard, rejected, error, request, audio, worker,
                   updateLock, unlogged>>

CallEnable(c) ==
    /\ client[c].pc = "idle" /\ ~request.stop /\ "enable" \in Calls
    /\ client' = [client EXCEPT ![c].pc = "notify"]
    /\ UNCHANGED <<obs, proc, guard, rejected, error, request, audio, worker,
                   updateLock, unlogged>>

ReadForReset(c, from, to) ==
    /\ client[c].pc = from /\ updateLock = "free"
    /\ updateLock' = c
    /\ client' = [client EXCEPT ![c].pc = to, ![c].old = OldState]
    /\ UNCHANGED <<obs, proc, guard, rejected, error, request, audio, worker,
                   unlogged>>

\* Slip: a pair that matches is kept through the reset.
FreshInstalledIfMissing(old, prepared) ==
    IF Resamples(old.format, old.model) /\ ~old.path
    THEN ReplaceResamplers(proc, IF prepared THEN PairFor(old.format, old.model)
                                 ELSE NoPair)
    ELSE IF old.stale THEN ReleaseInvalidResamplers(proc) ELSE proc

\* prepare_fresh_resamplers and install_fresh_resamplers
FreshInstalled(old, prepared) ==
    IF Resamples(old.format, old.model)
    THEN ReplaceResamplers(proc, IF prepared THEN PairFor(old.format, old.model)
                                 ELSE NoPair)
    ELSE IF old.stale THEN ReleaseInvalidResamplers(proc) ELSE proc

FreshError(old, prepared) == Resamples(old.format, old.model) /\ ~prepared

ResetRead(c) == ReadForReset(c, "reset", "resetInstall")

ResetInstall(c) ==
    /\ client[c].pc = "resetInstall"
    /\ \E prepared \in MaySucceed("prepare") :
         /\ proc' = ResetState(FreshInstalled(client[c].old, prepared))
         /\ error' = FreshError(client[c].old, prepared)
    /\ guard' = NoGuard
    /\ rejected' = {}
    /\ updateLock' = "free"
    /\ client' = [client EXCEPT ![c] = [Away EXCEPT !.pc = "clear"]]
    /\ UNCHANGED <<obs, request, audio, worker, unlogged>>

\* The retry deadline is cleared after both mutexes are let go, and the
\* settings are applied again.
ResetClear(c) ==
    /\ client[c].pc = "clear"
    /\ request' = [request EXCEPT !.deadline = 0, !.due = FALSE]
    /\ client' = [client EXCEPT ![c].pc = "update"]
    /\ UNCHANGED <<obs, proc, guard, rejected, error, audio, worker,
                   updateLock, unlogged>>

BoundaryRead(c) == ReadForReset(c, "boundary", "boundaryInstall")

BoundaryInstall(c) ==
    /\ client[c].pc = "boundaryInstall"
    /\ \E prepared \in MaySucceed("prepare") :
         /\ proc' = ResetStream(FreshInstalled(client[c].old, prepared))
         /\ error' = FreshError(client[c].old, prepared)
    /\ updateLock' = "free"
    /\ client' = [client EXCEPT ![c] = [Away EXCEPT !.pc = "notify"]]
    /\ UNCHANGED <<obs, guard, rejected, request, audio, worker, unlogged>>

\* request_worker at the end of the enable signal
Notify(c) ==
    /\ client[c].pc = "notify"
    /\ request' = [request EXCEPT !.news = TRUE]
    /\ client' = [client EXCEPT ![c].pc = "idle"]
    /\ UNCHANGED <<obs, proc, guard, rejected, error, audio, worker,
                   updateLock, unlogged>>

(***************************************************************************)
(* OBS.  Its audio may be reset to another format while the filter lives,  *)
(* and it destroys the filter when no call is in progress.                 *)
(***************************************************************************)
ResetObsAudio ==
    /\ \E f \in Formats \ {obs} : obs' = f
    /\ UNCHANGED <<proc, guard, rejected, error, request, audio, worker,
                   client, updateLock, unlogged>>

Destroy ==
    /\ ~request.stop /\ audio.pc = "idle"
    /\ \A c \in Clients : client[c].pc = "idle"
    /\ request' = [request EXCEPT !.stop = TRUE]
    /\ UNCHANGED <<obs, proc, guard, rejected, error, audio, worker, client,
                   updateLock, unlogged>>

AudioStep  == AudioArrives \/ AudioProcess \/ AudioPost
WorkerStep == \/ WorkerWake \/ RebuildRead \/ RebuildInstall \/ WorkerRetry
              \/ StatusRead \/ StatusShow

ClientCall(c) == \/ CallUpdate(c) \/ CallReset(c) \/ CallDisable(c)
                 \/ CallEnable(c)

ClientStep(c) ==
    \/ BeginUpdate(c) \/ UpdateRead(c) \/ UpdatePrepare(c)
    \/ UpdateFallback(c) \/ UpdateInstall(c)
    \/ ResetRead(c) \/ ResetInstall(c) \/ ResetClear(c)
    \/ BoundaryRead(c) \/ BoundaryInstall(c) \/ Notify(c)

Next == \/ AudioStep \/ WorkerStep \/ DeadlinePasses
        \/ ResetObsAudio \/ Destroy
        \/ \E c \in Clients : ClientCall(c) \/ ClientStep(c)

Spec == Init /\ [][Next]_vars

(***************************************************************************)
(* Threads that are in a call go on with it, and time passes.  Nothing     *)
(* makes a call begin.  A thread that goes on finding update_mutex_ free   *)
(* gets it in the end.                                                     *)
(***************************************************************************)
Fairness == /\ WF_vars(AudioProcess) /\ WF_vars(AudioPost)
            /\ SF_vars(WorkerStep) /\ WF_vars(DeadlinePasses)
            /\ \A c \in Clients : SF_vars(ClientStep(c))

FairSpec == Spec /\ Fairness

(***************************************************************************)
(* Properties.                                                             *)
(***************************************************************************)
\* Every variable stays in its type; posts never queue more than a displaced
\* event and its trip.
TypeOK ==
    /\ obs \in Formats /\ proc \in ViewType /\ guard \in GuardType
    /\ rejected \subseteq Paths /\ error \in BOOLEAN
    /\ request \in RequestType
    /\ audio \in AudioType /\ Len(audio.posts) <= 2
    /\ worker \in WorkerType /\ client \in [Clients -> ClientType]
    /\ updateLock \in Clients \cup {"worker", "free"}

Retrying == worker.retry /\ worker.pc \in {"rebuild", "install", "retry"}

\* An overload pause always has its retry: a deadline, or the audio thread
\* about to set it, or the worker about to retry (filter.cpp:600,1118).
PauseHasRetry ==
    Overloaded => \/ request.deadline > 0
                  \/ \E i \in DOMAIN audio.posts : audio.posts[i].delay > 0
                  \/ Retrying

\* While a pause waits, the deadline is the one its attempt calls for: 10 s,
\* then 30 s, then 60 s (realtime-guard.hpp:104, filter.cpp:1043).
DelayFitsAttempt ==
    Overloaded /\ request.deadline > 0 /\ audio.posts = <<>>
      => request.deadline = guard.attempts

\* Every event that is reported is on its way to the log until it is logged,
\* also one that a pause displaces (filter.cpp:563, 1038, 1145).
NoEventLost ==
    unlogged \subseteq request.slots
                        \cup {audio.posts[i].event : i \in DOMAIN audio.posts}

\* The schedule starts over only when probing is over: attempts are counted
\* exactly while a pause or the probe after it lasts, or the circuit opened
\* on the way (filter.cpp:605, 720).
ScheduleFollowsProbe ==
    /\ Overloaded \/ guard.probe => guard.attempts > 0
    /\ guard.attempts > 0 =>
         guard.probe \/ proc.reason # "None"

\* A pair is on its way, or its failure is shown, whenever the stream lacks
\* one; the next callback sees a format the processor does not have yet.
PairIsComing ==
    (Stale(proc) \/ Mismatch(proc))
    /\ proc.reason # "RepeatedProcessingFailures"
      => \/ error \/ request.refresh
         \/ \E i \in DOMAIN audio.posts : audio.posts[i].refresh
         \/ worker.pc \in {"rebuild", "install"}
         \/ \E c \in Clients : client[c].pc \notin {"idle", "notify"}
         \/ obs # proc.format

\* A stream that starts through a pair starts with one that holds nothing
\* but the zeros the dry lane's prefill stands for (processor.cpp:549).
PairMatchesPrefill == Path(proc) /\ ~proc.used => ~proc.fed

\* The model whose name the status reads is the processor's: nobody frees it
\* meanwhile (filter.cpp:774).
StatusModelAlive == worker.pc = "snapshot" => worker.model = proc.model

\* An overload pause ends: a retry, or a call, ends it, unless the filter is
\* destroyed first.
PauseEnds == Overloaded ~> ~Overloaded \/ request.stop

\* A call into the filter returns, whatever the others do.
CallsReturn == \A c \in Clients : client[c].pc # "idle" ~> client[c].pc = "idle"

\* The destructor's join returns.
WorkerStops == request.stop ~> worker.pc = "stopped"
=============================================================================
