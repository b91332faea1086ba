-------------------------------- MODULE Blocking --------------------------------
(***************************************************************************)
(* How Synthpod changes a running host: app/synthpod_app_ui.c and          *)
(* app/synthpod_app_worker.c as bin/synthpod_bin.c and the dummy driver    *)
(* run them.                                                               *)
(*                                                                         *)
(* A realtime thread runs one period after another.  In each it takes the  *)
(* worker's replies, ejects a module that has faded out, handles messages  *)
(* of the UI, runs the modules and handles the events they send to the     *)
(* host.  What may not run in realtime it sends as a job to the worker,    *)
(* the main thread.  For a preset or a bundle it first drains the worker   *)
(* (block_state RUN -> DRAIN -> BLOCK), then sends the job and waits for   *)
(* its reply (WAIT -> RUN); a module whose preset changes is faded out     *)
(* meanwhile (silence_state).  While draining or waiting no message is     *)
(* handled; while a bundle is loaded whole periods are bypassed.           *)
(***************************************************************************)
EXTENDS Integers, Sequences, SequencesExt, FiniteSets

CONSTANTS
  Mods,        \* all modules there may be (by URN)
  System,      \* the system's audio sink
  Nowhere,     \* what a module without audio output feeds
  Feeds,       \* where each module's audio output goes when it is loaded
  RampPeriods, \* how many periods a ramp lasts (0.1 s of samples in the code)
  MaxJobs,     \* how many chunks each of the two rings of jobs holds
  UiMessages,  \* how many messages at most the UI sends in a behaviour
  ComEvents,   \* how many events at most the modules send to the host
  Managed,     \* how many requests at most a session manager makes
  Ops          \* which kinds of message are sent

ASSUME RampAssumption  == RampPeriods \in Nat \ {0}
ASSUME JobsAssumption  == MaxJobs \in Nat \ {0}
ASSUME FeedsAssumption == /\ Feeds \in [Mods -> Mods \union {System, Nowhere}]
                          /\ {System, Nowhere} \cap Mods = {}
                          /\ \A m \in Mods : Feeds[m] # m
ASSUME BudgetAssumption == UiMessages \in Nat /\ ComEvents \in Nat /\ Managed \in Nat
ASSUME OpsAssumption   == Ops \subseteq {"preset", "save", "load", "add", "rem"}

VARIABLES
  block, silence, loadBundle, \* app->block_state, ->silence_state, ->load_bundle
  mods,                       \* the modules in app->mods
  out, left,    \* the ramp on a module's audio connection, periods left of it
  delRequest,   \* the modules with mod->delete_request
  toWorker, toApp, \* app_to_worker and app_from_worker, rings of jobs
  uiRing, appRing, \* messages of the UI; events that had to wait
  phase, bypassed, \* the realtime thread's: step of the period; sp_app_bypassed
  worker, job,     \* the worker's: its step; the job it executes
  viaApp,          \* whether the job came out of the ring
  uiLeft, comLeft, nsmLeft, \* what remains of the budgets
  lost             \* ghost: a full ring made the app drop something

graph == <<mods, out, left, delRequest>>
state == <<block, silence, loadBundle>>
rings == <<toWorker, toApp, uiRing, appRing>>
vars  == <<graph, state, rings, phase, bypassed, worker, job, viaApp,
           uiLeft, comLeft, nsmLeft, lost>>

NoMod    == Nowhere
Named(k, m) == [kind |-> k, mod |-> m]
Job(k)      == Named(k, NoMod)
NoJob       == Job("none")

(* The jobs whose reply releases the block; "preset" stands for loading a  *)
(* preset and for instantiating a module anew, "save" for saving a bundle  *)
(* or a preset, "status" for what follows a bundle's reply.                *)
BlockingKinds == {"preset", "save", "load"}
Kinds == BlockingKinds \union {"drain", "add", "del", "status"}
Jobs  == {Named(k, m) : k \in {"preset", "add", "del"}, m \in Mods}
           \union {Job(k) : k \in {"save", "load", "drain", "add", "status"}}

Messages == {Named(k, m) : k \in {"preset", "rem"} \cap Ops, m \in Mods}
              \union {Job(k) : k \in {"save", "load", "add"} \cap Ops}

Ramps  == {"none", "on", "up", "down", "del", "drain"}
Ramped == {"up", "down", "del", "drain"}

(* The modules m whose audio reaches something, of those in M. *)
Wired(M) == {m \in M : Feeds[m] \in M \union {System}}

Init ==
  /\ block = "run" /\ silence = "run" /\ loadBundle = FALSE
  /\ mods = Mods /\ delRequest = {}
  /\ out = [m \in Mods |-> IF m \in Wired(Mods) THEN "on" ELSE "none"]
  /\ left = [m \in Mods |-> 0]
  /\ toWorker = <<>> /\ toApp = <<>> /\ uiRing = <<>> /\ appRing = <<>>
  /\ phase = "begin" /\ bypassed = FALSE
  /\ worker = "idle" /\ job = NoJob /\ viaApp = FALSE
  /\ uiLeft \in 0 .. UiMessages /\ comLeft \in 0 .. ComEvents /\ nsmLeft \in 0 .. Managed
  /\ lost = FALSE

-------------------------------------------------------------------------------
(* What the realtime thread does to the rings, the ramps and the modules. *)

RoomForJob == Len(toWorker) < MaxJobs

(* _sp_app_to_worker_request and _advance; without space the job is lost. *)
Send(j) ==
  IF RoomForJob THEN toWorker' = Append(toWorker, j) /\ UNCHANGED lost
                ELSE UNCHANGED toWorker /\ lost' = TRUE

(* A ramp of state r starts, or starts anew, on the connections of M. *)
StartRamp(M, r) ==
  /\ out'  = [m \in Mods |-> IF m \in M THEN r ELSE out[m]]
  /\ left' = [m \in Mods |-> IF m \in M THEN RampPeriods ELSE left[m]]

Connected(M) == {m \in M : out[m] # "none"}

(* Mutant of Eject: the module stays in app->mods. *)
EjectKeeps(m) ==
  /\ mods' = mods
  /\ out' = [x \in Mods |-> IF x = m \/ Feeds[x] = m THEN "none" ELSE out[x]]
  /\ left' = [x \in Mods |-> IF x = m \/ Feeds[x] = m THEN 0 ELSE left[x]]
  /\ Send(Named("del", m))

(* _sp_app_mod_eject: out of the graph, its connections cut, and a job for *)
(* the worker to delete it.                                                *)
Eject(m) ==
  /\ mods' = mods \ {m}
  /\ out' = [x \in Mods |-> IF x = m \/ Feeds[x] = m THEN "none" ELSE out[x]]
  /\ left' = [x \in Mods |-> IF x = m \/ Feeds[x] = m THEN 0 ELSE left[x]]
  /\ Send(Named("del", m))

(* _mod_list_rem: the module's sources fade out, and the module itself; it *)
(* is ejected when that has ended, at once if it is not heard.  A ramp     *)
(* that is under way is left alone.                                        *)
ModListRem(m) ==
  IF m \notin mods THEN UNCHANGED <<mods, out, left, toWorker, lost>>
  ELSE IF out[m] = "none" THEN Eject(m)
  ELSE LET sources == {x \in mods : Feeds[x] = m}
           fading  == {x \in sources \union {m} : out[x] = "on"}
       IN  /\ out' = [x \in Mods |-> IF x \notin fading THEN out[x]
                                     ELSE IF x = m THEN "del" ELSE "down"]
           /\ left' = [x \in Mods |-> IF x \in fading THEN RampPeriods ELSE left[x]]
           /\ UNCHANGED <<mods, toWorker, lost>>

-------------------------------------------------------------------------------
(* sp_app_from_ui: a message is refused and stays where it is, starts to   *)
(* drain and stays where it is, or is handled.                             *)

(* What the message asks for needs the worker to itself. *)
NeedsBlock(msg) ==
  msg.kind \in BlockingKinds /\ (msg.kind = "preset" => msg.mod \in mods)

Refuses(msg) ==
  \/ block \in {"drain", "wait"}
  \/ (block = "block" /\ msg.kind = "preset" /\ msg.mod \in mods /\ silence = "block")

(* Mutant of Silence: the ramp is waited for where there is none. *)
SilenceWaits(msg) ==
  IF msg.kind = "preset"
    THEN StartRamp(Connected({msg.mod}), "drain") /\ silence' = "block"
    ELSE UNCHANGED <<silence, out, left>>

(* _mod_needs_ramping and the choice of silence_state, before a preset. *)
Silence(msg) ==
  IF msg.kind = "preset"
    THEN /\ StartRamp(Connected({msg.mod}), "drain")
         /\ silence' = IF Connected({msg.mod}) = {} THEN "run" ELSE "block"
    ELSE UNCHANGED <<silence, out, left>>

StartDrain(msg) ==
  /\ block = "run" /\ NeedsBlock(msg) /\ RoomForJob
  /\ Silence(msg)
  /\ Send(Job("drain"))
  /\ block' = "drain"
  /\ UNCHANGED <<loadBundle, mods>>

(* Without space in the ring the message is done with all the same. *)
DrainFails(msg) ==
  /\ block = "run" /\ NeedsBlock(msg) /\ ~RoomForJob
  /\ Silence(msg)
  /\ Send(Job("drain"))
  /\ UNCHANGED <<block, loadBundle, mods>>

(* Mutant of SendJob: the bypass is not asked for. *)
SendJobBare(msg) ==
  /\ block = "block" /\ NeedsBlock(msg) /\ ~Refuses(msg)
  /\ Send(Named(msg.kind, msg.mod))
  /\ block' = IF RoomForJob THEN "wait" ELSE block
  /\ UNCHANGED <<loadBundle, silence, mods, out, left>>

SendJob(msg) ==
  /\ block = "block" /\ NeedsBlock(msg) /\ ~Refuses(msg)
  /\ Send(Named(msg.kind, msg.mod))
  /\ block' = IF RoomForJob THEN "wait" ELSE block
  /\ loadBundle' = (loadBundle \/ (RoomForJob /\ msg.kind = "load"))
  /\ UNCHANGED <<silence, mods, out, left>>

(* What needs no block is done in RUN and in BLOCK. *)
Plain(msg) ==
  /\ block \in {"run", "block"} /\ ~NeedsBlock(msg)
  /\ CASE msg.kind = "add" -> Send(Job("add")) /\ UNCHANGED <<mods, out, left>>
       [] msg.kind = "rem" -> ModListRem(msg.mod)
       [] OTHER -> UNCHANGED <<mods, out, left, toWorker, lost>>
  /\ UNCHANGED <<block, silence, loadBundle>>

Handles(msg) == DrainFails(msg) \/ SendJob(msg) \/ Plain(msg)

RealtimeOnly == <<delRequest, toApp, bypassed, worker, job, viaApp, uiLeft, nsmLeft>>
Untouched    == <<block, silence, loadBundle, mods, out, left, toWorker, lost>>

-------------------------------------------------------------------------------
(* One period of the realtime thread. *)

(* _process asks once whether the period is bypassed. *)
PeriodBegin ==
  /\ phase = "begin"
  /\ bypassed' = (loadBundle /\ block = "wait")   \* sp_app_bypassed
  /\ phase' = "replies"
  /\ UNCHANGED <<graph, state, rings, worker, job, viaApp, uiLeft, comLeft, nsmLeft, lost>>

(* What sp_app_from_worker asserts of block_state, before it changes it. *)
Expected(reply) ==
  CASE reply.kind = "drain" -> block = "drain"
    [] reply.kind = "load"  -> block = "wait" /\ loadBundle
    [] reply.kind = "save"  -> block = "wait" /\ ~loadBundle
    [] reply.kind = "preset" -> block = "wait"
    [] OTHER -> TRUE

(* Mutant of Released: a preset's reply forgets that the module is muted. *)
ReleasedMuted(reply) ==
  /\ block' = "run" /\ UNCHANGED mods
  /\ loadBundle' = (loadBundle /\ reply.kind # "load")
  /\ CASE reply.kind = "preset" ->
            silence' = "run" /\ UNCHANGED <<out, left, toWorker, lost>>
       [] OTHER -> Send(Job("status")) /\ UNCHANGED <<silence, out, left>>

(* Mutant of Released: the bypass outlasts the bundle's reply. *)
ReleasedBypassed(reply) ==
  /\ block' = "run" /\ UNCHANGED <<mods, loadBundle>>
  /\ CASE reply.kind = "preset" /\ silence = "wait" ->
            /\ silence' = "run"
            /\ StartRamp(Connected({reply.mod}), "up")
            /\ UNCHANGED <<toWorker, lost>>
       [] reply.kind = "preset" /\ silence # "wait" ->
            UNCHANGED <<silence, out, left, toWorker, lost>>
       [] OTHER ->
            Send(Job("status")) /\ UNCHANGED <<silence, out, left>>

(* A reply that releases the block: a silenced module is heard again. *)
Released(reply) ==
  /\ block' = "run" /\ UNCHANGED mods
  /\ loadBundle' = (loadBundle /\ reply.kind # "load")
  /\ CASE reply.kind = "preset" /\ silence = "wait" ->
            /\ silence' = "run"
            /\ StartRamp(Connected({reply.mod}), "up")
            /\ UNCHANGED <<toWorker, lost>>
       [] reply.kind = "preset" /\ silence # "wait" ->
            UNCHANGED <<silence, out, left, toWorker, lost>>
       [] OTHER ->
            Send(Job("status")) /\ UNCHANGED <<silence, out, left>>

(* sp_app_from_worker, and past the reply in the ring.  Where an assertion *)
(* does not hold the program ends, so there is no step.                    *)
TakeReply ==
  /\ phase = "replies" /\ toApp # <<>>
  /\ Expected(Head(toApp))
  /\ LET reply == Head(toApp)
     IN  CASE reply.kind \in BlockingKinds -> Released(reply)
           [] reply.kind = "drain" ->
                block' = "block"
                  /\ UNCHANGED <<silence, loadBundle, mods, out, left, toWorker, lost>>
           [] reply.kind = "add" ->
                mods' = mods \union {reply.mod}
                  /\ UNCHANGED <<silence, block, loadBundle, out, left, toWorker, lost>>
           [] OTHER -> UNCHANGED Untouched
  /\ toApp' = Tail(toApp)
  /\ UNCHANGED <<delRequest, uiRing, appRing, phase, bypassed, worker, job, viaApp,
                 uiLeft, comLeft, nsmLeft>>

NoMoreReplies ==
  /\ phase = "replies" /\ toApp = <<>>
  /\ phase' = IF bypassed THEN "ui" ELSE "pre"
  /\ UNCHANGED <<graph, state, rings, bypassed, worker, job, viaApp,
                 uiLeft, comLeft, nsmLeft, lost>>

(* sp_app_run_pre ejects one of the modules that asked for it. *)
RunPre ==
  /\ phase = "pre" /\ phase' = "ui"
  /\ IF delRequest \cap mods = {}
       THEN UNCHANGED <<mods, out, left, delRequest, toWorker, lost>>
       ELSE \E m \in delRequest \cap mods : Eject(m) /\ delRequest' = delRequest \ {m}
  /\ UNCHANGED <<state, toApp, uiRing, appRing, bypassed, worker, job, viaApp,
                 uiLeft, comLeft, nsmLeft>>

(* One message of the UI, sandbox_master_recv; it is left in the ring, and *)
(* so are those behind it, when sp_app_from_ui does not want it yet.       *)
FromUi ==
  /\ phase = "ui" /\ uiRing # <<>>
  /\ \/ Refuses(Head(uiRing)) /\ UNCHANGED <<Untouched, uiRing>> /\ phase' = "app"
     \/ StartDrain(Head(uiRing)) /\ UNCHANGED uiRing /\ phase' = "app"
     \/ Handles(Head(uiRing)) /\ uiRing' = Tail(uiRing) /\ UNCHANGED phase
  /\ UNCHANGED <<RealtimeOnly, appRing, comLeft>>

NoMoreFromUi ==
  /\ phase = "ui" /\ uiRing = <<>> /\ phase' = "app"
  /\ UNCHANGED <<Untouched, uiRing, RealtimeOnly, appRing, comLeft>>

(* The events that had to wait, app_from_app. *)
FromApp ==
  /\ phase = "app" /\ appRing # <<>>
  /\ LET next == IF bypassed THEN "begin" ELSE "run"
     IN  \/ Refuses(Head(appRing)) /\ UNCHANGED <<Untouched, appRing>> /\ phase' = next
         \/ StartDrain(Head(appRing)) /\ UNCHANGED appRing /\ phase' = next
         \/ Handles(Head(appRing)) /\ appRing' = Tail(appRing) /\ UNCHANGED phase
  /\ UNCHANGED <<RealtimeOnly, uiRing, comLeft>>

NoMoreFromApp ==
  /\ phase = "app" /\ appRing = <<>>
  /\ phase' = IF bypassed THEN "begin" ELSE "run"
  /\ UNCHANGED <<Untouched, appRing, RealtimeOnly, uiRing, comLeft>>

(* The modules run, sp_app_run_post: every ramp advances by a period, and  *)
(* _update_ramp does what its end brings.  A module that is drained stays  *)
(* silent, and says so again in every period.                              *)
Run ==
  /\ phase = "run" /\ phase' = "com"
  /\ LET on    == {m \in mods : out[m] \in Ramped}
         ended == {m \in on : left[m] <= 1}
         done(m) == CASE out[m] \in {"down", "del"} -> "none"
                      [] out[m] = "up" -> "on"
                      [] OTHER -> out[m]
     IN  /\ out' = [m \in Mods |-> IF m \in ended THEN done(m) ELSE out[m]]
         /\ left' = [m \in Mods |-> IF m \in ended THEN 0
                                    ELSE IF m \in on THEN left[m] - 1 ELSE left[m]]
         /\ delRequest' = delRequest \union {m \in ended : out[m] = "del"}
         /\ silence' = IF \E m \in ended : out[m] = "drain" THEN "wait" ELSE silence
  /\ UNCHANGED <<mods, block, loadBundle, rings, bypassed, worker, job, viaApp,
                 uiLeft, comLeft, nsmLeft, lost>>

(* An event a module sent to the host while it ran: tried at once, queued  *)
(* when it is refused or has to be seen again after the drain.             *)
ComEvent(msg) ==
  /\ phase = "com" /\ comLeft > 0 /\ mods # {}
  /\ comLeft' = comLeft - 1
  /\ \/ Refuses(msg) /\ UNCHANGED Untouched /\ appRing' = Append(appRing, msg)
     \/ StartDrain(msg) /\ appRing' = Append(appRing, msg)
     \/ Handles(msg) /\ UNCHANGED appRing
  /\ UNCHANGED <<RealtimeOnly, uiRing, phase>>

PeriodEnd ==
  /\ phase = "com" /\ phase' = "begin"
  /\ UNCHANGED <<Untouched, RealtimeOnly, uiRing, appRing, comLeft>>

Realtime == \/ PeriodBegin \/ TakeReply \/ NoMoreReplies \/ RunPre
            \/ FromUi \/ NoMoreFromUi \/ FromApp \/ NoMoreFromApp
            \/ Run \/ (\E msg \in Messages : ComEvent(msg)) \/ PeriodEnd

-------------------------------------------------------------------------------
(* The worker, which is the main thread. *)

WorkerKeeps == <<silence, uiRing, appRing, phase, bypassed, uiLeft, comLeft, lost>>

(* The modules some job in the rings is about to add or to delete. *)
Passing == {j.mod : j \in {i \in ToSet(toWorker) \union ToSet(toApp) :
                             i.kind \in {"add", "del"}}} \ {NoMod}

TakeJob ==
  /\ worker = "idle" /\ toWorker # <<>>
  /\ job' = Head(toWorker) /\ worker' = "work" /\ viaApp' = TRUE
  /\ UNCHANGED <<WorkerKeeps, graph, block, loadBundle, toWorker, toApp, nsmLeft>>

(* Mutant of Reset: the connections stay. *)
ResetModsOnly ==
  /\ worker = "work" /\ job.kind = "load" /\ worker' = "inject"
  /\ mods' = {} /\ delRequest' = {} /\ UNCHANGED <<out, left>>
  /\ UNCHANGED <<WorkerKeeps, block, loadBundle, toWorker, toApp, job, viaApp, nsmLeft>>

(* Loading a bundle deletes all modules first, _sp_app_reset. *)
Reset ==
  /\ worker = "work" /\ job.kind = "load" /\ worker' = "inject"
  /\ mods' = {} /\ delRequest' = {}
  /\ out' = [m \in Mods |-> "none"] /\ left' = [m \in Mods |-> 0]
  /\ UNCHANGED <<WorkerKeeps, block, loadBundle, toWorker, toApp, job, viaApp, nsmLeft>>

(* The bundle's modules are put in, and connected. *)
Inject ==
  /\ job.kind = "load"
  /\ \E M \in SUBSET (Mods \ Passing) :
       /\ mods' = M
       /\ out' = [m \in Mods |-> IF m \in Wired(M) THEN "up" ELSE "none"]
       /\ left' = [m \in Mods |-> IF m \in Wired(M) THEN RampPeriods ELSE 0]
  /\ toApp' = Append(toApp, job)

(* The job is done: its reply goes out, once there is space, and it leaves *)
(* the ring it came from.  A module that cannot be added has no reply.     *)
FinishJob ==
  /\ worker = (IF job.kind = "load" THEN "inject" ELSE "work")
  /\ Len(toApp) < MaxJobs
  /\ \/ Inject
     \/ /\ job.kind = "add"
        /\ \/ \E m \in Mods \ (mods \union Passing) :
                toApp' = Append(toApp, Named("add", m))
           \/ UNCHANGED toApp
        /\ UNCHANGED <<mods, out, left>>
     \/ /\ job.kind \notin {"load", "add"}
        /\ toApp' = IF job.kind = "status" THEN toApp ELSE Append(toApp, job)
        /\ UNCHANGED <<mods, out, left>>
  /\ worker' = "idle" /\ job' = NoJob /\ viaApp' = FALSE
  /\ toWorker' = IF viaApp THEN Tail(toWorker) ELSE toWorker
  /\ UNCHANGED <<WorkerKeeps, delRequest, block, loadBundle, nsmLeft>>

(* The ring is empty: what follows in the loop is nsmc_run. *)
Drained ==
  /\ worker = "idle" /\ toWorker = <<>> /\ nsmLeft > 0
  /\ worker' = "nsm"
  /\ UNCHANGED <<WorkerKeeps, graph, block, loadBundle, toWorker, toApp, job, viaApp, nsmLeft>>

(* The session manager asks to open or to save a session: the worker sets *)
(* the blocking state itself, sp_app_bundle_load and _save not via_app.    *)
Manage(k) ==
  /\ worker = "nsm" /\ nsmLeft > 0
  /\ block' = "wait" /\ loadBundle' = (loadBundle \/ k = "load")
  /\ job' = Job(k) /\ worker' = "work" /\ viaApp' = FALSE /\ nsmLeft' = nsmLeft - 1
  /\ UNCHANGED <<WorkerKeeps, graph, toWorker, toApp>>

NotManaged ==
  /\ worker = "nsm" /\ worker' = "idle"
  /\ UNCHANGED <<WorkerKeeps, graph, block, loadBundle, toWorker, toApp, job, viaApp, nsmLeft>>

Worker == TakeJob \/ Reset \/ FinishJob \/ Drained \/ NotManaged
            \/ (\E k \in {"load", "save"} : Manage(k))

-------------------------------------------------------------------------------
(* The UI writes into its ring whenever it likes. *)
UiSend(msg) ==
  /\ uiLeft > 0 /\ uiLeft' = uiLeft - 1
  /\ uiRing' = Append(uiRing, msg)
  /\ UNCHANGED <<graph, state, toWorker, toApp, appRing, phase, bypassed,
                 worker, job, viaApp, comLeft, nsmLeft, lost>>

Next == Realtime \/ Worker \/ (\E msg \in Messages : UiSend(msg))

Spec == Init /\ [][Next]_vars

(* Either thread is scheduled again and again; nothing else is promised. *)
Fairness == WF_vars(Realtime) /\ WF_vars(Worker)

FairSpec == Spec /\ Fairness

-------------------------------------------------------------------------------
(* The types; only what is in the graph is connected, only ramps run. *)
TypeOK ==
  /\ block \in {"run", "drain", "block", "wait"}
  /\ silence \in {"run", "block", "wait"}
  /\ loadBundle \in BOOLEAN
  /\ mods \subseteq Mods /\ delRequest \subseteq Mods
  /\ out \in [Mods -> Ramps] /\ left \in [Mods -> 0 .. RampPeriods]
  /\ \A m \in Mods : /\ out[m] # "none" => m \in mods
                     /\ left[m] > 0 => out[m] \in Ramped
  /\ toWorker \in Seq(Jobs) /\ toApp \in Seq(Jobs)
  /\ Len(toWorker) <= MaxJobs /\ Len(toApp) <= MaxJobs
  /\ uiRing \in Seq(Messages) /\ appRing \in Seq(Messages)
  /\ phase \in {"begin", "replies", "pre", "ui", "app", "run", "com"}
  /\ bypassed \in BOOLEAN
  /\ worker \in {"idle", "work", "inject", "nsm"}
  /\ job \in Jobs \union {NoJob} /\ viaApp \in BOOLEAN
  /\ uiLeft \in 0 .. UiMessages /\ comLeft \in 0 .. ComEvents
  /\ nsmLeft \in 0 .. Managed /\ lost \in BOOLEAN

(* How many jobs of the kinds K are in a ring, and on their way at all, as *)
(* requests or replies.                                                    *)
Count(ring, K) == Cardinality({i \in 1 .. Len(ring) : ring[i].kind \in K})

Pending(K) ==
  Count(toWorker, K) + Count(toApp, K)
    + (IF job # NoJob /\ ~viaApp /\ job.kind \in K THEN 1 ELSE 0)

(* The block is as long as what it is for: DRAIN while one drain is on its *)
(* way between the threads, WAIT while one blocking job is, and the bypass *)
(* stands exactly while a bundle is being loaded.  So every reply finds    *)
(* the state it asserts, and none is answered twice or for another.        *)
OneAtATime ==
  /\ Pending({"drain"}) = (IF block = "drain" THEN 1 ELSE 0)
  /\ Pending(BlockingKinds) = (IF block = "wait" THEN 1 ELSE 0)
  /\ loadBundle <=> Pending({"load"}) = 1

(* The assertions of sp_app_from_worker: the reply the realtime thread     *)
(* takes is one that the blocking state allows.                            *)
AssertsHold == phase = "replies" /\ toApp # <<>> => Expected(Head(toApp))

(* No job of the worker names a module that was deleted before it: what is *)
(* to be deleted has left the graph, is deleted once and by the last job   *)
(* that names it; a preset is loaded into a module that is in the graph or *)
(* deleted after (or leaked, when the ring was full).                      *)
NamesLiveModules ==
  \A i \in 1 .. Len(toWorker) :
    LET m == toWorker[i].mod
        later == {j \in i + 1 .. Len(toWorker) : toWorker[j].mod = m}
    IN  /\ toWorker[i].kind = "del" => m \notin mods /\ later = {}
        /\ toWorker[i].kind = "preset" =>
             m \in mods \/ lost \/ \E j \in later : toWorker[j].kind = "del"

(* While a bundle's modules are exchanged the realtime thread neither runs *)
(* the graph nor reads what it has sent.                                   *)
LoadAlone == worker = "inject" => phase \notin {"run", "com"}

(* Whatever the UI has sent is handled in the end: no message stays in the *)
(* ring, refused for good, and keeps those behind it from being seen.      *)
AllTaken == uiRing # <<>> ~> uiRing = <<>>

(* A module that was faded out for a preset does not stay mute: it is heard *)
(* again or leaves the graph (unless a full ring swallowed the preset).     *)
MuteEnds == \A m \in Mods : out[m] = "drain" ~> (out[m] # "drain" \/ lost)
===============================================================================
