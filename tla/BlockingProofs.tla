----------------------------- MODULE BlockingProofs -----------------------------
(***************************************************************************)
(* The blocking protocol keeps its jobs apart as long as no session        *)
(* manager interferes: whatever modules there are, however long the rings  *)
(* and the ramps, and however many messages and events come.               *)
(***************************************************************************)
EXTENDS Blocking, FiniteSetTheorems, TLAPS

USE RampAssumption, JobsAssumption, FeedsAssumption, BudgetAssumption, OpsAssumption

-------------------------------------------------------------------------------
(* Jobs of some kinds in a ring, and how many there are. *)

Places(r, K) == {i \in 1 .. Len(r) : r[i].kind \in K}

LEMMA CountIs ==
  ASSUME NEW r \in Seq(Jobs), NEW K
  PROVE  /\ IsFiniteSet(Places(r, K)) /\ Count(r, K) = Cardinality(Places(r, K))
         /\ Count(r, K) \in Nat
<1>1. IsFiniteSet(1 .. Len(r))
  BY FS_Interval
<1>2. Places(r, K) \subseteq 1 .. Len(r)
  BY DEF Places
<1>3. IsFiniteSet(Places(r, K))
  BY <1>1, <1>2, FS_Subset
<1>4. Count(r, K) = Cardinality(Places(r, K))
  BY DEF Count, Places
<1> QED BY <1>3, <1>4, FS_CardinalityType

LEMMA CountAppend ==
  ASSUME NEW r \in Seq(Jobs), NEW j \in Jobs, NEW K
  PROVE  Count(Append(r, j), K) = Count(r, K) + (IF j.kind \in K THEN 1 ELSE 0)
<1>1. Append(r, j) \in Seq(Jobs) /\ Len(r) \in Nat
  OBVIOUS
<1>2. Places(Append(r, j), K) = IF j.kind \in K THEN Places(r, K) \union {Len(r) + 1}
                                                ELSE Places(r, K)
  BY DEF Places
<1>3. Len(r) + 1 \notin Places(r, K)
  BY DEF Places
<1>4. Cardinality(Places(r, K) \union {Len(r) + 1}) = Cardinality(Places(r, K)) + 1
  BY <1>3, CountIs, FS_AddElement
<1>5. /\ Count(r, K) = Cardinality(Places(r, K)) /\ Count(r, K) \in Nat
      /\ Count(Append(r, j), K) = Cardinality(Places(Append(r, j), K))
  BY <1>1, CountIs
<1> QED BY <1>2, <1>4, <1>5

LEMMA CountTail ==
  ASSUME NEW r \in Seq(Jobs), r # <<>>, NEW K
  PROVE  Count(Tail(r), K) = Count(r, K) - (IF Head(r).kind \in K THEN 1 ELSE 0)
<1> DEFINE P == Places(Tail(r), K)
           Q == Places(r, K) \ {1}
           f == [i \in P |-> i + 1]
<1>1. Tail(r) \in Seq(Jobs) /\ Len(r) \in Nat /\ Len(r) > 0 /\ Len(Tail(r)) = Len(r) - 1
  OBVIOUS
<1>2. \A i \in 1 .. Len(Tail(r)) : Tail(r)[i] = r[i + 1]
  OBVIOUS
<1>3. f \in Bijection(P, Q)
  <2>1. \A i \in P : i \in Nat /\ i + 1 \in Q
    BY <1>1, <1>2 DEF Places
  <2>2. \A q \in Q : q \in Nat /\ q - 1 \in P /\ q = (q - 1) + 1
    BY <1>1, <1>2 DEF Places
  <2>3. f \in [P -> Q]
    BY <2>1
  <2>4. \A a, b \in P : f[a] = f[b] => a = b
    BY <2>1
  <2>5. \A q \in Q : \E a \in P : f[a] = q
    BY <2>2
  <2> QED BY <2>3, <2>4, <2>5 DEF Bijection, Injection, Surjection, IsInjective
<1>4. IsFiniteSet(P) /\ IsFiniteSet(Places(r, K))
  BY <1>1, CountIs
<1>5. Cardinality(Q) = Cardinality(P)
  <2> HIDE DEF f, P, Q
  <2>1. ExistsBijection(P, Q)
    BY <1>3 DEF ExistsBijection
  <2> QED BY <1>4, <2>1, FS_Bijection
<1>6. Cardinality(Q) = Cardinality(Places(r, K)) - (IF 1 \in Places(r, K) THEN 1 ELSE 0)
  <2>1. 1 \in Places(r, K) => Cardinality(Q) = Cardinality(Places(r, K)) - 1
    BY <1>4, FS_RemoveElement
  <2>2. 1 \notin Places(r, K) => Q = Places(r, K)
    OBVIOUS
  <2>3. Cardinality(Places(r, K)) \in Nat
    BY CountIs
  <2> HIDE DEF Q
  <2>4. CASE 1 \in Places(r, K)
    BY <2>1, <2>4
  <2>5. CASE 1 \notin Places(r, K)
    BY <2>2, <2>3, <2>5
  <2> QED BY <2>4, <2>5
<1>7. 1 \in Places(r, K) <=> Head(r).kind \in K
  BY <1>1 DEF Places
<1>8. /\ Count(r, K) = Cardinality(Places(r, K)) /\ Count(r, K) \in Nat
      /\ Count(Tail(r), K) = Cardinality(P)
  BY <1>1, CountIs
<1> QED BY <1>5, <1>6, <1>7, <1>8

(* What is in a ring is counted, and what is not is not. *)
LEMMA CountZero ==
  ASSUME NEW r \in Seq(Jobs), NEW K
  PROVE  Count(r, K) = 0 <=> \A i \in 1 .. Len(r) : r[i].kind \notin K
<1>1. Count(r, K) = 0 <=> Places(r, K) = {}
  BY CountIs, FS_EmptySet
<1> QED BY <1>1 DEF Places

LEMMA CountSubset ==
  ASSUME NEW r \in Seq(Jobs), NEW K, NEW L, K \subseteq L
  PROVE  Count(r, K) <= Count(r, L)
<1>1. Places(r, K) \subseteq Places(r, L)
  BY DEF Places
<1> QED BY <1>1, CountIs, FS_Subset

-------------------------------------------------------------------------------
(* Types, and what the worker has at hand: a job that came out of the ring *)
(* is the first one there, any other is a session manager's.               *)

JobAtHand ==
  /\ worker \in {"work", "inject"} <=> job # NoJob
  /\ worker = "inject" => job.kind = "load"
  /\ viaApp => job # NoJob /\ toWorker # <<>> /\ job = Head(toWorker)
  /\ job # NoJob /\ ~viaApp => job.kind \in {"load", "save"}

(* The reply to an addition names a module. *)
RepliesNamed ==
  \A i \in 1 .. Len(toApp) : toApp[i].kind = "add" => toApp[i].mod \in Mods

TypeInv == TypeOK /\ JobAtHand /\ RepliesNamed

(* The parts of TypeOK. *)
GraphOK ==
  /\ mods \subseteq Mods
  /\ out \in [Mods -> Ramps] /\ left \in [Mods -> 0 .. RampPeriods]
  /\ \A m \in Mods : /\ out[m] # "none" => m \in mods
                     /\ left[m] > 0 => out[m] \in Ramped

StateOK ==
  /\ block \in {"run", "drain", "block", "wait"}
  /\ silence \in {"run", "block", "wait"}
  /\ loadBundle \in BOOLEAN

JobsOK ==
  /\ toWorker \in Seq(Jobs) /\ toApp \in Seq(Jobs)
  /\ Len(toWorker) <= MaxJobs /\ Len(toApp) <= MaxJobs
  /\ lost \in BOOLEAN

RestOK ==
  /\ delRequest \subseteq Mods
  /\ uiRing \in Seq(Messages) /\ appRing \in Seq(Messages)
  /\ phase \in {"begin", "replies", "pre", "ui", "app", "run", "com"}
  /\ bypassed \in BOOLEAN
  /\ worker \in {"idle", "work", "inject", "nsm"}
  /\ job \in Jobs \union {NoJob} /\ viaApp \in BOOLEAN
  /\ uiLeft \in 0 .. UiMessages /\ comLeft \in 0 .. ComEvents
  /\ nsmLeft \in 0 .. Managed

LEMMA TypeParts == TypeOK <=> GraphOK /\ StateOK /\ JobsOK /\ RestOK
BY DEF TypeOK, GraphOK, StateOK, JobsOK, RestOK

LEMMA JobFacts ==
  /\ \A j \in Jobs : /\ j = Named(j.kind, j.mod) /\ j.kind \in Kinds
                     /\ j.kind \in {"preset", "del"} => j.mod \in Mods
                     /\ j.kind \notin {"preset", "del", "add"} => j.mod = NoMod
                     /\ j.mod \in Mods \union {NoMod} /\ j # NoJob
  /\ \A m \in Mods : Named("preset", m) \in Jobs /\ Named("add", m) \in Jobs
                     /\ Named("del", m) \in Jobs
  /\ \A k \in {"save", "load", "drain", "add", "status"} : Job(k) \in Jobs
  /\ NoMod \notin Mods
<1>1. NoMod \notin Mods
  BY DEF NoMod
<1>2. ASSUME NEW j \in Jobs
      PROVE  /\ j = Named(j.kind, j.mod) /\ j.kind \in Kinds
             /\ j.kind \in {"preset", "del"} => j.mod \in Mods
             /\ j.kind \notin {"preset", "del", "add"} => j.mod = NoMod
             /\ j.mod \in Mods \union {NoMod} /\ j # NoJob
  <2>1. CASE \E k \in {"preset", "add", "del"}, m \in Mods : j = Named(k, m)
    BY <2>1 DEF Named, NoJob, Job, Kinds, BlockingKinds
  <2>2. CASE \E k \in {"save", "load", "drain", "add", "status"} : j = Job(k)
    BY <2>2 DEF Named, NoJob, Job, Kinds, BlockingKinds
  <2> QED BY <2>1, <2>2 DEF Jobs
<1>3. /\ \A m \in Mods : Named("preset", m) \in Jobs /\ Named("add", m) \in Jobs
                        /\ Named("del", m) \in Jobs
      /\ \A k \in {"save", "load", "drain", "add", "status"} : Job(k) \in Jobs
  BY DEF Jobs
<1> QED BY <1>1, <1>2, <1>3

LEMMA MessageFacts ==
  \A msg \in Messages :
    /\ msg.kind \in {"preset", "rem", "save", "load", "add"}
    /\ msg.kind \in {"preset", "rem"} => msg.mod \in Mods
    /\ msg.kind \in {"save", "load", "add"} => msg.mod = NoMod
    /\ msg.kind \in BlockingKinds => Named(msg.kind, msg.mod) \in Jobs
BY DEF Messages, Named, Job, Jobs, BlockingKinds

(* A job is sent, or lost. *)
LEMMA SendIs ==
  ASSUME JobsOK, NEW j \in Jobs, Send(j)
  PROVE  /\ toWorker' \in Seq(Jobs) /\ Len(toWorker') <= MaxJobs /\ lost' \in BOOLEAN
         /\ RoomForJob => toWorker' = Append(toWorker, j) /\ lost' = lost
         /\ ~RoomForJob => toWorker' = toWorker /\ lost'
         /\ toWorker # <<>> => toWorker' # <<>> /\ Head(toWorker') = Head(toWorker)
<1>1. CASE RoomForJob
  <2>1. toWorker' = Append(toWorker, j) /\ lost' = lost /\ Len(toWorker) < MaxJobs
    BY <1>1 DEF Send, RoomForJob
  <2>2. /\ Append(toWorker, j) \in Seq(Jobs) /\ Len(Append(toWorker, j)) = Len(toWorker) + 1
        /\ toWorker # <<>> => Append(toWorker, j) # <<>>
                              /\ Head(Append(toWorker, j)) = Head(toWorker)
    BY DEF JobsOK
  <2> QED BY <1>1, <2>1, <2>2 DEF JobsOK
<1>2. CASE ~RoomForJob
  BY <1>2 DEF Send, JobsOK
<1> QED BY <1>1, <1>2

(* The graph is well formed after whatever is done to it. *)
LEMMA StartRampOK ==
  ASSUME GraphOK, NEW M, \A m \in M \cap Mods : out[m] # "none", NEW r \in Ramped,
         StartRamp(M, r), mods' = mods
  PROVE  GraphOK'
<1>1. RampPeriods \in 0 .. RampPeriods /\ RampPeriods > 0
  OBVIOUS
<1>2. /\ out' = [m \in Mods |-> IF m \in M THEN r ELSE out[m]]
      /\ left' = [m \in Mods |-> IF m \in M THEN RampPeriods ELSE left[m]]
  BY DEF StartRamp
<1>3. r \in Ramps
  BY DEF Ramps, Ramped
<1>4. out' \in [Mods -> Ramps] /\ left' \in [Mods -> 0 .. RampPeriods]
  BY <1>1, <1>2, <1>3 DEF GraphOK
<1>5. \A m \in Mods : /\ out'[m] # "none" => m \in mods'
                      /\ left'[m] > 0 => out'[m] \in Ramped
  BY <1>2 DEF GraphOK
<1> QED BY <1>4, <1>5 DEF GraphOK

LEMMA EjectOK ==
  ASSUME GraphOK, NEW m \in Mods, Eject(m)
  PROVE  GraphOK' /\ Send(Named("del", m)) /\ mods' = mods \ {m}
<1>1. /\ mods' = mods \ {m} /\ Send(Named("del", m))
      /\ out' = [x \in Mods |-> IF x = m \/ Feeds[x] = m THEN "none" ELSE out[x]]
      /\ left' = [x \in Mods |-> IF x = m \/ Feeds[x] = m THEN 0 ELSE left[x]]
  BY DEF Eject
<1>2. 0 \in 0 .. RampPeriods /\ "none" \in Ramps
  BY DEF Ramps
<1>3. out' \in [Mods -> Ramps] /\ left' \in [Mods -> 0 .. RampPeriods]
  BY <1>1, <1>2 DEF GraphOK
<1>4. \A x \in Mods : /\ out'[x] # "none" => x \in mods'
                      /\ left'[x] > 0 => out'[x] \in Ramped
  BY <1>1 DEF GraphOK
<1> QED BY <1>1, <1>3, <1>4 DEF GraphOK

(* What _mod_list_rem does: nothing to the jobs, or it ejects. *)
LEMMA ModListRemOK ==
  ASSUME GraphOK, NEW m \in Mods, ModListRem(m)
  PROVE  /\ GraphOK'
         /\ \/ mods' = mods /\ UNCHANGED <<toWorker, lost>>
            \/ m \in mods /\ Send(Named("del", m)) /\ mods' = mods \ {m}
<1>1. CASE m \notin mods
  <2>1. UNCHANGED <<mods, out, left, toWorker, lost>>
    BY <1>1 DEF ModListRem
  <2> QED BY <2>1 DEF GraphOK
<1>2. CASE m \in mods /\ out[m] = "none"
  <2>1. Eject(m)
    BY <1>2 DEF ModListRem
  <2> QED BY <1>2, <2>1, EjectOK
<1>3. CASE m \in mods /\ out[m] # "none"
  <2> DEFINE fading == {x \in {y \in mods : Feeds[y] = m} \union {m} : out[x] = "on"}
  <2>1. /\ out' = [x \in Mods |-> IF x \notin fading THEN out[x]
                                  ELSE IF x = m THEN "del" ELSE "down"]
        /\ left' = [x \in Mods |-> IF x \in fading THEN RampPeriods ELSE left[x]]
        /\ UNCHANGED <<mods, toWorker, lost>>
    BY <1>3 DEF ModListRem
  <2>2. \A x \in fading : out[x] = "on"
    OBVIOUS
  <2> HIDE DEF fading
  <2>3. /\ RampPeriods \in 0 .. RampPeriods
        /\ "del" \in Ramps /\ "down" \in Ramps /\ "del" \in Ramped /\ "down" \in Ramped
    BY DEF Ramps, Ramped
  <2>4. out' \in [Mods -> Ramps] /\ left' \in [Mods -> 0 .. RampPeriods]
    BY <2>1, <2>3 DEF GraphOK
  <2>5. \A x \in Mods : /\ out'[x] # "none" => x \in mods'
                        /\ left'[x] > 0 => out'[x] \in Ramped
    BY <2>1, <2>2, <2>3 DEF GraphOK
  <2> QED BY <2>1, <2>4, <2>5 DEF GraphOK
<1> QED BY <1>1, <1>2, <1>3

LEMMA RunOK == GraphOK /\ RestOK /\ Run => GraphOK' /\ delRequest' \subseteq Mods
                                          /\ silence' \in {"wait", silence}
<1> SUFFICES ASSUME GraphOK, RestOK, Run
             PROVE  GraphOK' /\ delRequest' \subseteq Mods /\ silence' \in {"wait", silence}
  OBVIOUS
<1> DEFINE on    == {m \in mods : out[m] \in Ramped}
           ended == {m \in on : left[m] <= 1}
           done(m) == CASE out[m] \in {"down", "del"} -> "none"
                        [] out[m] = "up" -> "on"
                        [] OTHER -> out[m]
<1>1. /\ out' = [m \in Mods |-> IF m \in ended THEN done(m) ELSE out[m]]
      /\ left' = [m \in Mods |-> IF m \in ended THEN 0
                                 ELSE IF m \in on THEN left[m] - 1 ELSE left[m]]
      /\ delRequest' = delRequest \union {m \in ended : out[m] = "del"}
      /\ silence' = IF \E m \in ended : out[m] = "drain" THEN "wait" ELSE silence
      /\ UNCHANGED mods
  BY DEF Run
<1>2. \A m \in Mods : /\ out[m] \in Ramps /\ left[m] \in 0 .. RampPeriods
                      /\ m \in on <=> m \in mods /\ out[m] \in Ramped
                      /\ m \in ended <=> m \in on /\ left[m] <= 1
                      /\ done(m) \in Ramps /\ (done(m) # "none" => out[m] # "none")
  BY DEF GraphOK, Ramps, Ramped
<1>3. ended \subseteq Mods
  BY DEF GraphOK
<1> HIDE DEF on, ended, done
<1>4. \A m \in Mods : m \in on /\ m \notin ended => left[m] - 1 \in 0 .. RampPeriods
  BY <1>2
<1>5. out' \in [Mods -> Ramps] /\ left' \in [Mods -> 0 .. RampPeriods]
  BY <1>1, <1>2, <1>4
<1>6. \A m \in Mods : /\ out'[m] # "none" => m \in mods'
                      /\ left'[m] > 0 => out'[m] \in Ramped
  BY <1>1, <1>2 DEF GraphOK
<1>7. GraphOK'
  BY <1>1, <1>5, <1>6 DEF GraphOK
<1>8. delRequest' \subseteq Mods
  BY <1>1, <1>3 DEF RestOK
<1> QED BY <1>1, <1>7, <1>8

-------------------------------------------------------------------------------
(* What the realtime thread's steps, but for TakeReply, do to what it      *)
(* shares with the worker: nothing, or one of four things.                 *)

Sends(j) == RoomForJob /\ toWorker' = Append(toWorker, j) /\ lost' = lost

Idles == UNCHANGED <<block, loadBundle, mods, toWorker>> /\ (lost => lost')

Drains ==
  /\ block = "run" /\ block' = "drain"
  /\ Sends(Job("drain"))
  /\ UNCHANGED <<loadBundle, mods>>

Requests ==
  \E j \in Jobs :
    /\ j.kind \in BlockingKinds /\ (j.kind = "preset" => j.mod \in mods)
    /\ block = "block" /\ block' = "wait"
    /\ loadBundle' = (loadBundle \/ j.kind = "load")
    /\ Sends(j)
    /\ UNCHANGED mods

Orders == Sends(Job("add")) /\ UNCHANGED <<block, loadBundle, mods>>

Ejects ==
  \E m \in mods :
    /\ mods' = mods \ {m}
    /\ Sends(Named("del", m)) \/ (toWorker' = toWorker /\ lost')
    /\ UNCHANGED <<block, loadBundle>>

AppStep ==
  /\ Idles \/ Drains \/ Requests \/ Orders \/ Ejects
  /\ UNCHANGED <<toApp, worker, job, viaApp, nsmLeft>>

LEMMA SilenceOK ==
  ASSUME GraphOK, StateOK, NEW msg \in Messages, Silence(msg), mods' = mods
  PROVE  GraphOK' /\ silence' \in {"run", "block", "wait"}
<1>1. CASE msg.kind = "preset"
  <2>1. /\ StartRamp(Connected({msg.mod}), "drain")
        /\ silence' = IF Connected({msg.mod}) = {} THEN "run" ELSE "block"
    BY <1>1 DEF Silence
  <2>2. \A m \in Connected({msg.mod}) : out[m] # "none"
    BY DEF Connected
  <2>3. GraphOK'
    BY <2>1, <2>2, StartRampOK DEF Ramped
  <2> QED BY <2>1, <2>3
<1>2. CASE msg.kind # "preset"
  <2>1. UNCHANGED <<silence, out, left>>
    BY <1>2 DEF Silence
  <2> QED BY <2>1 DEF GraphOK, StateOK
<1> QED BY <1>1, <1>2

LEMMA MessageStep ==
  ASSUME TypeInv, NEW msg \in Messages, StartDrain(msg) \/ Handles(msg)
  PROVE  /\ GraphOK' /\ StateOK'
         /\ toWorker' \in Seq(Jobs) /\ Len(toWorker') <= MaxJobs /\ lost' \in BOOLEAN
         /\ Idles \/ Drains \/ Requests \/ Orders \/ Ejects
<1>1. GraphOK /\ StateOK /\ JobsOK
  BY TypeParts DEF TypeInv
<1>2. CASE StartDrain(msg)
  <2>1. /\ block = "run" /\ RoomForJob /\ Silence(msg) /\ Send(Job("drain"))
        /\ block' = "drain" /\ UNCHANGED <<loadBundle, mods>>
    BY <1>2 DEF StartDrain
  <2>2. /\ toWorker' \in Seq(Jobs) /\ Len(toWorker') <= MaxJobs /\ lost' \in BOOLEAN
        /\ Sends(Job("drain"))
    BY <1>1, <2>1, SendIs, JobFacts DEF Sends
  <2>3. GraphOK' /\ silence' \in {"run", "block", "wait"}
    BY <1>1, <2>1, SilenceOK
  <2> QED BY <1>1, <2>1, <2>2, <2>3 DEF Drains, StateOK
<1>3. CASE DrainFails(msg)
  <2>1. /\ ~RoomForJob /\ Silence(msg) /\ Send(Job("drain"))
        /\ UNCHANGED <<block, loadBundle, mods>>
    BY <1>3 DEF DrainFails
  <2>2. /\ toWorker' \in Seq(Jobs) /\ Len(toWorker') <= MaxJobs /\ lost' \in BOOLEAN
        /\ toWorker' = toWorker /\ lost'
    BY <1>1, <2>1, SendIs, JobFacts
  <2>3. GraphOK' /\ silence' \in {"run", "block", "wait"}
    BY <1>1, <2>1, SilenceOK
  <2> QED BY <1>1, <2>1, <2>2, <2>3 DEF Idles, StateOK
<1>4. CASE SendJob(msg)
  <2> DEFINE j == Named(msg.kind, msg.mod)
  <2>1. /\ block = "block" /\ NeedsBlock(msg) /\ Send(j)
        /\ block' = IF RoomForJob THEN "wait" ELSE block
        /\ loadBundle' = (loadBundle \/ (RoomForJob /\ msg.kind = "load"))
        /\ UNCHANGED <<silence, mods, out, left>>
    BY <1>4 DEF SendJob
  <2>2. /\ j \in Jobs /\ j.kind = msg.kind /\ j.mod = msg.mod
        /\ msg.kind \in BlockingKinds /\ (msg.kind = "preset" => msg.mod \in mods)
    BY <2>1, MessageFacts DEF NeedsBlock, Named
  <2> HIDE DEF j
  <2>3. GraphOK' /\ StateOK'
    BY <1>1, <2>1 DEF GraphOK, StateOK
  <2>4. CASE RoomForJob
    <3>1. Requests
      BY <1>1, <2>1, <2>2, <2>4, SendIs DEF Requests, Sends
    <3> QED BY <1>1, <2>1, <2>2, <2>3, <3>1, SendIs
  <2>5. CASE ~RoomForJob
    <3>1. Idles
      BY <1>1, <2>1, <2>2, <2>5, SendIs DEF Idles, StateOK
    <3> QED BY <1>1, <2>1, <2>2, <2>3, <3>1, SendIs
  <2> QED BY <2>4, <2>5
<1>5. CASE Plain(msg)
  <2>1. UNCHANGED <<block, silence, loadBundle>> /\ StateOK'
    BY <1>1, <1>5 DEF Plain, StateOK
  <2>2. CASE msg.kind = "add"
    <3>1. Send(Job("add")) /\ UNCHANGED <<mods, out, left>>
      BY <1>5, <2>2 DEF Plain
    <3>2. /\ toWorker' \in Seq(Jobs) /\ Len(toWorker') <= MaxJobs /\ lost' \in BOOLEAN
          /\ Sends(Job("add")) \/ (toWorker' = toWorker /\ lost')
      BY <1>1, <3>1, SendIs, JobFacts DEF Sends
    <3> QED BY <1>1, <2>1, <3>1, <3>2 DEF GraphOK, Orders, Idles
  <2>3. CASE msg.kind = "rem"
    <3>1. ModListRem(msg.mod) /\ msg.mod \in Mods
      BY <1>5, <2>3, MessageFacts DEF Plain
    <3>2. /\ GraphOK'
          /\ \/ mods' = mods /\ UNCHANGED <<toWorker, lost>>
             \/ msg.mod \in mods /\ Send(Named("del", msg.mod)) /\ mods' = mods \ {msg.mod}
      BY <1>1, <3>1, ModListRemOK
    <3>3. CASE mods' = mods /\ UNCHANGED <<toWorker, lost>>
      BY <1>1, <2>1, <3>2, <3>3 DEF JobsOK, Idles
    <3>4. CASE msg.mod \in mods /\ Send(Named("del", msg.mod)) /\ mods' = mods \ {msg.mod}
      <4>1. /\ toWorker' \in Seq(Jobs) /\ Len(toWorker') <= MaxJobs /\ lost' \in BOOLEAN
            /\ Sends(Named("del", msg.mod)) \/ (toWorker' = toWorker /\ lost')
        BY <1>1, <3>1, <3>4, SendIs, JobFacts DEF Sends
      <4> QED BY <2>1, <3>2, <3>4, <4>1 DEF Ejects
    <3> QED BY <3>2, <3>3, <3>4
  <2>4. CASE msg.kind \notin {"add", "rem"}
    <3>1. UNCHANGED <<mods, out, left, toWorker, lost>>
      BY <1>5, <2>4 DEF Plain
    <3> QED BY <1>1, <2>1, <3>1 DEF GraphOK, JobsOK, Idles
  <2> QED BY <2>2, <2>3, <2>4
<1> QED BY <1>2, <1>3, <1>4, <1>5 DEF Handles

AppTypes == GraphOK /\ StateOK /\ JobsOK /\ RestOK

(* Nothing is done to what a message may change. *)
LEMMA QuietStep ==
  ASSUME TypeInv, UNCHANGED Untouched
  PROVE  /\ GraphOK' /\ StateOK'
         /\ toWorker' \in Seq(Jobs) /\ Len(toWorker') <= MaxJobs /\ lost' \in BOOLEAN
         /\ Idles
<1>1. GraphOK /\ StateOK /\ JobsOK
  BY TypeParts DEF TypeInv
<1>2. UNCHANGED <<block, silence, loadBundle, mods, out, left, toWorker, lost>>
  BY DEF Untouched
<1> QED BY <1>1, <1>2 DEF GraphOK, StateOK, JobsOK, Idles

(* The steps that handle one message or none. *)
LEMMA ReceiveStep ==
  ASSUME TypeInv,
         FromUi \/ NoMoreFromUi \/ FromApp \/ NoMoreFromApp \/ PeriodEnd
           \/ \E msg \in Messages : ComEvent(msg)
  PROVE  AppTypes' /\ AppStep
<1>1. GraphOK /\ StateOK /\ JobsOK /\ RestOK
  BY TypeParts DEF TypeInv
<1>2. UNCHANGED <<delRequest, toApp, bypassed, worker, job, viaApp, uiLeft, nsmLeft>>
  BY DEF FromUi, NoMoreFromUi, FromApp, NoMoreFromApp, PeriodEnd, ComEvent, RealtimeOnly
<1>3. \/ UNCHANGED Untouched
      \/ \E msg \in Messages : StartDrain(msg) \/ Handles(msg)
  <2>1. uiRing # <<>> => Head(uiRing) \in Messages
    BY <1>1 DEF RestOK
  <2>2. appRing # <<>> => Head(appRing) \in Messages
    BY <1>1 DEF RestOK
  <2> QED BY <2>1, <2>2 DEF FromUi, NoMoreFromUi, FromApp, NoMoreFromApp, PeriodEnd, ComEvent
<1>4. /\ GraphOK' /\ StateOK'
      /\ toWorker' \in Seq(Jobs) /\ Len(toWorker') <= MaxJobs /\ lost' \in BOOLEAN
      /\ Idles \/ Drains \/ Requests \/ Orders \/ Ejects
  BY <1>3, QuietStep, MessageStep
<1>5. /\ uiRing' \in Seq(Messages) /\ appRing' \in Seq(Messages)
      /\ phase' \in {"begin", "replies", "pre", "ui", "app", "run", "com"}
      /\ comLeft' \in 0 .. ComEvents
  <2>1. CASE FromUi
    <3>1. /\ uiRing # <<>> /\ uiRing' \in {uiRing, Tail(uiRing)} /\ UNCHANGED appRing
          /\ phase \in {"ui"} /\ phase' \in {"app", phase} /\ UNCHANGED comLeft
      BY <2>1 DEF FromUi
    <3> QED BY <1>1, <3>1 DEF RestOK
  <2>2. CASE NoMoreFromUi
    BY <1>1, <2>2 DEF NoMoreFromUi, RestOK
  <2>3. CASE FromApp
    <3>1. /\ appRing # <<>> /\ appRing' \in {appRing, Tail(appRing)} /\ UNCHANGED uiRing
          /\ phase' \in {"begin", "run", phase} /\ UNCHANGED comLeft
      BY <2>3 DEF FromApp
    <3> QED BY <1>1, <3>1 DEF RestOK
  <2>4. CASE NoMoreFromApp
    BY <1>1, <2>4 DEF NoMoreFromApp, RestOK
  <2>5. CASE PeriodEnd
    BY <1>1, <2>5 DEF PeriodEnd, RestOK
  <2>6. CASE \E msg \in Messages : ComEvent(msg)
    <3>1. PICK msg \in Messages : ComEvent(msg)
      BY <2>6
    <3>2. /\ appRing' \in {appRing, Append(appRing, msg)} /\ UNCHANGED <<uiRing, phase>>
          /\ comLeft > 0 /\ comLeft' = comLeft - 1
      BY <3>1 DEF ComEvent
    <3>3. Append(appRing, msg) \in Seq(Messages)
      BY <1>1 DEF RestOK
    <3>4. comLeft' \in 0 .. ComEvents
      BY <1>1, <3>2 DEF RestOK
    <3> QED BY <1>1, <3>2, <3>3, <3>4 DEF RestOK
  <2> QED BY <2>1, <2>2, <2>3, <2>4, <2>5, <2>6
<1>6. RestOK'
  BY <1>1, <1>2, <1>5 DEF RestOK
<1>7. JobsOK'
  BY <1>1, <1>2, <1>4 DEF JobsOK
<1> QED BY <1>2, <1>4, <1>6, <1>7 DEF AppTypes, AppStep

(* The other steps of the period, and the UI's. *)
LEMMA PeriodStep ==
  ASSUME TypeInv,
         PeriodBegin \/ NoMoreReplies \/ RunPre \/ Run
           \/ \E msg \in Messages : UiSend(msg)
  PROVE  AppTypes' /\ AppStep
<1>1. GraphOK /\ StateOK /\ JobsOK /\ RestOK
  BY TypeParts DEF TypeInv
<1>2. CASE PeriodBegin \/ NoMoreReplies
  <2>1. /\ UNCHANGED <<mods, out, left, delRequest, block, silence, loadBundle>>
        /\ UNCHANGED <<toWorker, toApp, uiRing, appRing, worker, job, viaApp>>
        /\ UNCHANGED <<uiLeft, comLeft, nsmLeft, lost>>
        /\ bypassed' \in BOOLEAN
        /\ phase' \in {"begin", "replies", "pre", "ui", "app", "run", "com"}
    BY <1>1, <1>2 DEF PeriodBegin, NoMoreReplies, graph, state, rings, RestOK, StateOK
  <2>2. AppTypes'
    BY <1>1, <2>1 DEF AppTypes, GraphOK, StateOK, JobsOK, RestOK
  <2> QED BY <2>1, <2>2 DEF AppStep, Idles
<1>3. CASE RunPre
  <2>1. /\ UNCHANGED <<block, silence, loadBundle, toApp, uiRing, appRing, bypassed>>
        /\ UNCHANGED <<worker, job, viaApp, uiLeft, comLeft, nsmLeft>>
        /\ phase' = "ui"
    BY <1>3 DEF RunPre, state
  <2>2. CASE UNCHANGED <<mods, out, left, delRequest, toWorker, lost>>
    <3>1. AppTypes'
      BY <1>1, <2>1, <2>2 DEF AppTypes, GraphOK, StateOK, JobsOK, RestOK
    <3> QED BY <2>1, <2>2, <3>1 DEF AppStep, Idles
  <2>3. CASE \E m \in delRequest \cap mods : Eject(m) /\ delRequest' = delRequest \ {m}
    <3>1. PICK m \in mods : Eject(m) /\ delRequest' = delRequest \ {m}
      BY <2>3
    <3>2. GraphOK' /\ Send(Named("del", m)) /\ mods' = mods \ {m} /\ m \in Mods
      <4>1. m \in Mods
        BY <1>1 DEF GraphOK
      <4> QED BY <1>1, <3>1, <4>1, EjectOK
    <3>3. /\ toWorker' \in Seq(Jobs) /\ Len(toWorker') <= MaxJobs /\ lost' \in BOOLEAN
          /\ Sends(Named("del", m)) \/ (toWorker' = toWorker /\ lost')
      BY <1>1, <3>2, SendIs, JobFacts DEF Sends
    <3>4. StateOK' /\ JobsOK' /\ RestOK'
      BY <1>1, <2>1, <3>1, <3>3 DEF StateOK, JobsOK, RestOK
    <3> QED BY <2>1, <3>2, <3>3, <3>4 DEF AppTypes, AppStep, Ejects
  <2> QED BY <1>3, <2>2, <2>3 DEF RunPre
<1>4. CASE Run
  <2>1. /\ UNCHANGED <<mods, block, loadBundle, toWorker, toApp, uiRing, appRing, bypassed>>
        /\ UNCHANGED <<worker, job, viaApp, uiLeft, comLeft, nsmLeft, lost>>
        /\ phase' = "com"
    BY <1>4 DEF Run, rings
  <2>2. GraphOK' /\ delRequest' \subseteq Mods /\ silence' \in {"wait", silence}
    BY <1>1, <1>4, RunOK
  <2>3. StateOK' /\ JobsOK' /\ RestOK'
    BY <1>1, <2>1, <2>2 DEF StateOK, JobsOK, RestOK
  <2> QED BY <2>1, <2>2, <2>3 DEF AppTypes, AppStep, Idles
<1>5. CASE \E msg \in Messages : UiSend(msg)
  <2>1. /\ UNCHANGED <<mods, out, left, delRequest, block, silence, loadBundle>>
        /\ UNCHANGED <<toWorker, toApp, appRing, phase, bypassed, worker, job, viaApp>>
        /\ UNCHANGED <<comLeft, nsmLeft, lost>>
        /\ uiLeft' \in 0 .. UiMessages /\ uiRing' \in Seq(Messages)
    BY <1>1, <1>5 DEF UiSend, graph, state, RestOK
  <2>2. AppTypes'
    BY <1>1, <2>1 DEF AppTypes, GraphOK, StateOK, JobsOK, RestOK
  <2> QED BY <2>1, <2>2 DEF AppStep, Idles
<1> QED BY <1>2, <1>3, <1>4, <1>5

(* A job at the head of the ring stays there while others are sent. *)
LEMMA HeadStays ==
  ASSUME TypeInv, NEW j \in Jobs,
         toWorker' = toWorker \/ toWorker' = Append(toWorker, j),
         UNCHANGED <<worker, job, viaApp>>
  PROVE  JobAtHand'
<1>1. toWorker \in Seq(Jobs) /\ JobAtHand
  BY DEF TypeInv, TypeOK
<1>2. toWorker # <<>> => toWorker' # <<>> /\ Head(toWorker') = Head(toWorker)
  BY <1>1
<1> QED BY <1>1, <1>2 DEF JobAtHand

LEMMA AppStepTypes ==
  ASSUME TypeInv, AppTypes', AppStep
  PROVE  TypeInv'
<1>1. TypeOK'
  BY TypeParts, PTL DEF AppTypes
<1>2. UNCHANGED <<toApp, worker, job, viaApp>>
  BY DEF AppStep
<1>3. \E j \in Jobs : toWorker' = toWorker \/ toWorker' = Append(toWorker, j)
  <2>1. /\ Job("drain") \in Jobs /\ Job("add") \in Jobs
        /\ \A m \in mods : Named("del", m) \in Jobs
    BY JobFacts DEF TypeInv, TypeOK
  <2> QED BY <2>1 DEF AppStep, Idles, Drains, Requests, Orders, Ejects, Sends
<1>4. JobAtHand'
  BY <1>2, <1>3, HeadStays
<1>5. RepliesNamed'
  BY <1>2 DEF TypeInv, RepliesNamed
<1> QED BY <1>1, <1>4, <1>5 DEF TypeInv

(* What a reply does. *)
ReplyStep ==
  /\ toApp # <<>> /\ toApp' = Tail(toApp) /\ Expected(Head(toApp))
  /\ UNCHANGED <<worker, job, viaApp, nsmLeft>>
  /\ LET r == Head(toApp)
     IN  \/ /\ r.kind \in BlockingKinds
            /\ block' = "run" /\ loadBundle' = (loadBundle /\ r.kind # "load")
            /\ mods' = mods
            /\ (lost => lost') /\ (toWorker' = toWorker \/ Sends(Job("status")))
         \/ /\ r.kind = "drain" /\ block' = "block"
            /\ UNCHANGED <<loadBundle, mods, toWorker, lost>>
         \/ /\ r.kind = "add" /\ mods' = mods \union {r.mod}
            /\ UNCHANGED <<block, loadBundle, toWorker, lost>>
         \/ /\ r.kind \in {"del", "status"}
            /\ UNCHANGED <<block, loadBundle, mods, toWorker, lost>>

LEMMA TakeReplyStep ==
  ASSUME TypeInv, TakeReply
  PROVE  TypeInv' /\ ReplyStep
<1>1. GraphOK /\ StateOK /\ JobsOK /\ RestOK /\ RepliesNamed
  BY TypeParts DEF TypeInv
<1>2. PICK r \in Jobs : r = Head(toApp) /\ toApp # <<>> /\ (r.kind = "add" => r.mod \in Mods)
  <2>1. toApp # <<>> /\ toApp \in Seq(Jobs)
    BY <1>1 DEF TakeReply, JobsOK
  <2>2. Head(toApp) = toApp[1] /\ Head(toApp) \in Jobs /\ 1 \in 1 .. Len(toApp)
    BY <2>1
  <2> QED BY <1>1, <2>1, <2>2 DEF RepliesNamed
<1>3. /\ Expected(r) /\ toApp' = Tail(toApp) /\ phase = "replies"
      /\ UNCHANGED <<delRequest, uiRing, appRing, phase, bypassed, worker, job, viaApp,
                     uiLeft, comLeft, nsmLeft>>
  BY <1>2 DEF TakeReply
<1>4. /\ GraphOK' /\ StateOK'
      /\ toWorker' \in Seq(Jobs) /\ Len(toWorker') <= MaxJobs /\ lost' \in BOOLEAN
      /\ toWorker' = toWorker \/ Sends(Job("status"))
      /\ ReplyStep
  <2>1. CASE r.kind \in BlockingKinds
    <3>1. Released(r)
      BY <1>2, <2>1 DEF TakeReply, BlockingKinds
    <3>2. /\ block' = "run" /\ mods' = mods
          /\ loadBundle' = (loadBundle /\ r.kind # "load")
      BY <3>1 DEF Released
    <3>3. CASE r.kind = "preset" /\ silence = "wait"
      <4>1. /\ silence' = "run" /\ StartRamp(Connected({r.mod}), "up")
            /\ UNCHANGED <<toWorker, lost>>
        BY <3>1, <3>3 DEF Released
      <4>2. \A m \in Connected({r.mod}) : out[m] # "none"
        BY DEF Connected
      <4>3. GraphOK'
        BY <1>1, <3>2, <4>1, <4>2, StartRampOK DEF Ramped
      <4>4. StateOK'
        BY <1>1, <3>2, <4>1 DEF StateOK
      <4> QED BY <1>1, <1>2, <1>3, <2>1, <3>2, <4>1, <4>3, <4>4 DEF ReplyStep, JobsOK
    <3>4. CASE r.kind = "preset" /\ silence # "wait"
      <4>1. UNCHANGED <<silence, out, left, toWorker, lost>>
        BY <3>1, <3>4 DEF Released
      <4>2. GraphOK' /\ StateOK'
        BY <1>1, <3>2, <4>1 DEF GraphOK, StateOK
      <4> QED BY <1>1, <1>2, <1>3, <2>1, <3>2, <4>1, <4>2 DEF ReplyStep, JobsOK
    <3>5. CASE r.kind # "preset"
      <4>1. Send(Job("status")) /\ UNCHANGED <<silence, out, left>>
        BY <3>1, <3>5 DEF Released
      <4>2. /\ toWorker' \in Seq(Jobs) /\ Len(toWorker') <= MaxJobs /\ lost' \in BOOLEAN
            /\ Sends(Job("status")) \/ (toWorker' = toWorker /\ lost')
        BY <1>1, <4>1, SendIs, JobFacts DEF Sends
      <4>3. GraphOK' /\ StateOK'
        BY <1>1, <3>2, <4>1 DEF GraphOK, StateOK
      <4>4. lost => lost'
        BY <4>2 DEF Sends
      <4> QED BY <1>2, <1>3, <2>1, <3>2, <4>2, <4>3, <4>4 DEF ReplyStep
    <3> QED BY <3>3, <3>4, <3>5
  <2>2. CASE r.kind = "drain"
    <3>1. /\ block' = "block"
          /\ UNCHANGED <<silence, loadBundle, mods, out, left, toWorker, lost>>
      BY <1>2, <2>2 DEF TakeReply, BlockingKinds
    <3> QED BY <1>1, <1>2, <1>3, <2>2, <3>1 DEF GraphOK, StateOK, JobsOK, ReplyStep
  <2>3. CASE r.kind = "add"
    <3>1. /\ mods' = mods \union {r.mod} /\ r.mod \in Mods
          /\ UNCHANGED <<silence, block, loadBundle, out, left, toWorker, lost>>
      BY <1>2, <2>3 DEF TakeReply, BlockingKinds
    <3> QED BY <1>1, <1>2, <1>3, <2>3, <3>1 DEF GraphOK, StateOK, JobsOK, ReplyStep
  <2>4. CASE r.kind \in {"del", "status"}
    <3>1. UNCHANGED <<block, silence, loadBundle, mods, out, left, toWorker, lost>>
      BY <1>2, <2>4 DEF TakeReply, BlockingKinds, Untouched
    <3> QED BY <1>1, <1>2, <1>3, <2>4, <3>1 DEF GraphOK, StateOK, JobsOK, ReplyStep
  <2> QED BY <2>1, <2>2, <2>3, <2>4, JobFacts DEF Kinds
<1>5. toApp' \in Seq(Jobs) /\ Len(toApp') <= MaxJobs
  <2>1. toApp \in Seq(Jobs) /\ Len(toApp) <= MaxJobs /\ MaxJobs \in Nat
    BY <1>1 DEF JobsOK
  <2>2. Tail(toApp) \in Seq(Jobs) /\ Len(Tail(toApp)) = Len(toApp) - 1 /\ Len(toApp) \in Nat
    BY <1>2, <2>1
  <2> QED BY <1>3, <2>1, <2>2
<1>6. TypeOK'
  <2>1. JobsOK' /\ RestOK'
    BY <1>1, <1>3, <1>4, <1>5 DEF JobsOK, RestOK
  <2> QED BY <1>4, <2>1, TypeParts, PTL
<1>7. JobAtHand'
  BY <1>3, <1>4, HeadStays, JobFacts DEF Sends
<1>8. RepliesNamed'
  <2>1. \A i \in 1 .. Len(toApp') : i + 1 \in 1 .. Len(toApp) /\ toApp'[i] = toApp[i + 1]
    BY <1>1, <1>2, <1>3 DEF JobsOK
  <2> QED BY <1>1, <2>1 DEF RepliesNamed
<1> QED BY <1>4, <1>6, <1>7, <1>8 DEF TypeInv

LEMMA InitTypes == Init => TypeInv
<1> SUFFICES ASSUME Init PROVE TypeInv
  OBVIOUS
<1>1. GraphOK
  <2>1. /\ mods = Mods /\ left = [m \in Mods |-> 0]
        /\ out = [m \in Mods |-> IF m \in Wired(Mods) THEN "on" ELSE "none"]
    BY DEF Init
  <2> QED BY <2>1 DEF GraphOK, Ramps
<1>2. StateOK /\ JobsOK /\ RestOK
  <2>1. StateOK
    BY DEF Init, StateOK
  <2>2. /\ toWorker = <<>> /\ toApp = <<>> /\ lost = FALSE
        /\ Len(<<>>) = 0 /\ <<>> \in Seq(Jobs) /\ <<>> \in Seq(Messages)
    BY DEF Init
  <2>3. JobsOK
    <3>1. MaxJobs \in Nat /\ 0 <= MaxJobs /\ Len(toWorker) = 0 /\ Len(toApp) = 0
      BY <2>2
    <3> QED BY <2>2, <3>1 DEF JobsOK
  <2>4. RestOK
    BY <2>2 DEF Init, RestOK
  <2> QED BY <2>1, <2>3, <2>4
<1>3. JobAtHand /\ RepliesNamed
  BY DEF Init, JobAtHand, RepliesNamed
<1> QED BY <1>1, <1>2, <1>3, TypeParts DEF TypeInv

-------------------------------------------------------------------------------
(* The worker's steps. *)

(* A job is taken out of the ring only when it is done. *)
FinishStep ==
  /\ worker \in {"work", "inject"} /\ worker' = "idle" /\ job' = NoJob /\ ~viaApp'
  /\ job # NoJob
  /\ toWorker' = IF viaApp THEN Tail(toWorker) ELSE toWorker
  /\ viaApp => toWorker # <<>> /\ job = Head(toWorker)
  /\ UNCHANGED <<block, loadBundle, nsmLeft, lost>>
  /\ \/ /\ job.kind = "load" /\ toApp' = Append(toApp, job)
        /\ mods' \subseteq Mods \ Passing
     \/ /\ job.kind = "add" /\ mods' = mods
        /\ \/ \E m \in Mods \ (mods \union Passing) : toApp' = Append(toApp, Named("add", m))
           \/ toApp' = toApp
     \/ /\ job.kind \notin {"load", "add", "status"} /\ mods' = mods
        /\ toApp' = Append(toApp, job)
     \/ job.kind = "status" /\ mods' = mods /\ toApp' = toApp

LEMMA FinishTypes ==
  ASSUME TypeInv, FinishJob
  PROVE  TypeInv' /\ FinishStep
<1>1. GraphOK /\ StateOK /\ JobsOK /\ RestOK /\ RepliesNamed /\ JobAtHand
  BY TypeParts DEF TypeInv
<1>2. /\ worker = (IF job.kind = "load" THEN "inject" ELSE "work")
      /\ Len(toApp) < MaxJobs
      /\ worker' = "idle" /\ job' = NoJob /\ viaApp' = FALSE
      /\ toWorker' = IF viaApp THEN Tail(toWorker) ELSE toWorker
      /\ UNCHANGED <<silence, uiRing, appRing, phase, bypassed, uiLeft, comLeft, lost>>
      /\ UNCHANGED <<delRequest, block, loadBundle, nsmLeft>>
  BY DEF FinishJob, WorkerKeeps
<1>3. worker \in {"work", "inject"} /\ job # NoJob /\ job \in Jobs
  BY <1>1, <1>2 DEF JobAtHand, RestOK
<1>4. /\ GraphOK'
      /\ \/ /\ job.kind = "load" /\ toApp' = Append(toApp, job)
            /\ mods' \subseteq Mods \ Passing
         \/ /\ job.kind = "add" /\ mods' = mods
            /\ \/ \E m \in Mods \ (mods \union Passing) :
                     toApp' = Append(toApp, Named("add", m))
               \/ toApp' = toApp
         \/ /\ job.kind \notin {"load", "add", "status"} /\ mods' = mods
            /\ toApp' = Append(toApp, job)
         \/ job.kind = "status" /\ mods' = mods /\ toApp' = toApp
  <2>1. CASE Inject
    <3>1. PICK M \in SUBSET (Mods \ Passing) :
            /\ mods' = M
            /\ out' = [m \in Mods |-> IF m \in Wired(M) THEN "up" ELSE "none"]
            /\ left' = [m \in Mods |-> IF m \in Wired(M) THEN RampPeriods ELSE 0]
      BY <2>1 DEF Inject
    <3>2. Wired(M) \subseteq M /\ M \subseteq Mods
      BY DEF Wired
    <3>3. /\ RampPeriods \in 0 .. RampPeriods /\ 0 \in 0 .. RampPeriods
          /\ "up" \in Ramps /\ "none" \in Ramps /\ "up" \in Ramped
      BY DEF Ramps, Ramped
    <3>4. out' \in [Mods -> Ramps] /\ left' \in [Mods -> 0 .. RampPeriods]
      BY <3>1, <3>3
    <3>5. \A x \in Mods : /\ out'[x] # "none" => x \in mods'
                          /\ left'[x] > 0 => out'[x] \in Ramped
      BY <3>1, <3>2, <3>3
    <3> QED BY <2>1, <3>1, <3>2, <3>4, <3>5 DEF Inject, GraphOK
  <2>2. CASE ~Inject
    <3>1. UNCHANGED <<mods, out, left>>
      BY <2>2 DEF FinishJob
    <3>2. GraphOK'
      BY <1>1, <3>1 DEF GraphOK
    <3> QED BY <2>2, <3>1, <3>2 DEF FinishJob
  <2> QED BY <2>1, <2>2
<1>5. PICK S \in {toApp} \union {Append(toApp, j) : j \in Jobs} : toApp' = S
  BY <1>3, <1>4, JobFacts
<1>6. toApp' \in Seq(Jobs) /\ Len(toApp') <= MaxJobs
  BY <1>1, <1>2, <1>5 DEF JobsOK
<1>7. toWorker' \in Seq(Jobs) /\ Len(toWorker') <= MaxJobs
  <2>1. CASE viaApp
    <3>1. toWorker # <<>> /\ toWorker \in Seq(Jobs) /\ Len(toWorker) <= MaxJobs
      BY <1>1, <2>1 DEF JobAtHand, JobsOK
    <3>2. Tail(toWorker) \in Seq(Jobs) /\ Len(Tail(toWorker)) <= Len(toWorker)
      BY <3>1
    <3> QED BY <1>2, <2>1, <3>1, <3>2
  <2>2. CASE ~viaApp
    BY <1>1, <1>2, <2>2 DEF JobsOK
  <2> QED BY <2>1, <2>2
<1>8. TypeOK'
  <2>1. StateOK' /\ JobsOK' /\ RestOK'
    BY <1>1, <1>2, <1>6, <1>7 DEF StateOK, JobsOK, RestOK
  <2> QED BY <1>4, <2>1, TypeParts, PTL
<1>9. JobAtHand'
  BY <1>2 DEF JobAtHand
<1>10. RepliesNamed'
  <2>1. \E j \in Jobs : /\ toApp' = toApp \/ toApp' = Append(toApp, j)
                        /\ j.kind = "add" => j.mod \in Mods
    <3>1. \A m \in Mods : Named("add", m) \in Jobs /\ Named("add", m).mod = m
      BY JobFacts DEF Named
    <3>2. CASE job.kind = "add"
      <4>1. toApp' = toApp \/ \E m \in Mods : toApp' = Append(toApp, Named("add", m))
        BY <1>4, <3>2
      <4>2. Job("load") \in Jobs /\ Job("load").kind # "add"
        BY JobFacts DEF Job, Named
      <4> QED BY <3>1, <4>1, <4>2
    <3>3. CASE job.kind # "add"
      BY <1>3, <1>4, <3>3
    <3> QED BY <3>2, <3>3
  <2>2. PICK j \in Jobs : /\ toApp' = toApp \/ toApp' = Append(toApp, j)
                          /\ j.kind = "add" => j.mod \in Mods
    BY <2>1
  <2>3. CASE toApp' = toApp
    BY <1>1, <2>3 DEF RepliesNamed
  <2>4. CASE toApp' = Append(toApp, j)
    <3>1. \A i \in 1 .. Len(toApp') : \/ i \in 1 .. Len(toApp) /\ toApp'[i] = toApp[i]
                                     \/ toApp'[i] = j
      BY <1>1, <2>4 DEF JobsOK
    <3> QED BY <1>1, <2>2, <3>1 DEF RepliesNamed
  <2> QED BY <2>2, <2>3, <2>4
<1>11. FinishStep
  BY <1>1, <1>2, <1>3, <1>4 DEF FinishStep, JobAtHand
<1> QED BY <1>8, <1>9, <1>10, <1>11 DEF TypeInv

LEMMA WorkerTypes ==
  ASSUME TypeInv,
         TakeJob \/ Reset \/ Drained \/ NotManaged \/ \E k \in {"load", "save"} : Manage(k)
  PROVE  TypeInv'
<1>1. GraphOK /\ StateOK /\ JobsOK /\ RestOK /\ RepliesNamed /\ JobAtHand
  BY TypeParts DEF TypeInv
<1>2. UNCHANGED <<silence, uiRing, appRing, phase, bypassed, uiLeft, comLeft, lost,
                  toWorker, toApp>>
  BY DEF TakeJob, Reset, Drained, NotManaged, Manage, WorkerKeeps
<1>3. JobsOK' /\ RepliesNamed'
  BY <1>1, <1>2 DEF JobsOK, RepliesNamed
<1>4. CASE TakeJob
  <2>1. /\ worker = "idle" /\ toWorker # <<>> /\ job' = Head(toWorker) /\ worker' = "work"
        /\ viaApp' = TRUE
        /\ UNCHANGED <<mods, out, left, delRequest, block, loadBundle, nsmLeft>>
    BY <1>4 DEF TakeJob, graph
  <2>2. job' \in Jobs /\ job' # NoJob
    BY <1>1, <2>1, JobFacts DEF JobsOK
  <2>3. GraphOK' /\ StateOK' /\ RestOK'
    BY <1>1, <1>2, <2>1, <2>2 DEF GraphOK, StateOK, RestOK
  <2>4. JobAtHand'
    BY <1>2, <2>1, <2>2 DEF JobAtHand
  <2> QED BY <1>3, <2>3, <2>4, TypeParts, PTL DEF TypeInv
<1>5. CASE Reset
  <2>1. /\ worker = "work" /\ job.kind = "load" /\ worker' = "inject"
        /\ mods' = {} /\ delRequest' = {}
        /\ out' = [m \in Mods |-> "none"] /\ left' = [m \in Mods |-> 0]
        /\ UNCHANGED <<block, loadBundle, job, viaApp, nsmLeft>>
    BY <1>5 DEF Reset
  <2>2. GraphOK'
    BY <2>1 DEF GraphOK, Ramps
  <2>3. StateOK' /\ RestOK'
    BY <1>1, <1>2, <2>1 DEF StateOK, RestOK
  <2>4. JobAtHand'
    BY <1>1, <1>2, <2>1 DEF JobAtHand
  <2> QED BY <1>3, <2>2, <2>3, <2>4, TypeParts, PTL DEF TypeInv
<1>6. CASE Drained \/ NotManaged
  <2>1. /\ worker \in {"idle", "nsm"} /\ worker' \in {"idle", "nsm"}
        /\ UNCHANGED <<mods, out, left, delRequest, block, loadBundle, job, viaApp, nsmLeft>>
    BY <1>6 DEF Drained, NotManaged, graph
  <2>2. GraphOK' /\ StateOK' /\ RestOK'
    BY <1>1, <1>2, <2>1 DEF GraphOK, StateOK, RestOK
  <2>3. JobAtHand'
    BY <1>1, <1>2, <2>1 DEF JobAtHand
  <2> QED BY <1>3, <2>2, <2>3, TypeParts, PTL DEF TypeInv
<1>7. CASE \E k \in {"load", "save"} : Manage(k)
  <2>1. PICK k \in {"load", "save"} : Manage(k)
    BY <1>7
  <2>2. /\ worker = "nsm" /\ nsmLeft > 0 /\ block' = "wait"
        /\ loadBundle' = (loadBundle \/ k = "load")
        /\ job' = Job(k) /\ worker' = "work" /\ viaApp' = FALSE /\ nsmLeft' = nsmLeft - 1
        /\ UNCHANGED <<mods, out, left, delRequest>>
    BY <2>1 DEF Manage, graph
  <2>3. Job(k) \in Jobs /\ Job(k).kind = k /\ Job(k) # NoJob
    BY JobFacts DEF Job, Named
  <2>4. GraphOK' /\ StateOK'
    BY <1>1, <1>2, <2>2 DEF GraphOK, StateOK
  <2>5. nsmLeft' \in 0 .. Managed
    BY <1>1, <2>2 DEF RestOK
  <2>6. RestOK'
    BY <1>1, <1>2, <2>2, <2>3, <2>5 DEF RestOK
  <2>7. JobAtHand'
    BY <2>2, <2>3 DEF JobAtHand
  <2> QED BY <1>3, <2>4, <2>6, <2>7, TypeParts, PTL DEF TypeInv
<1> QED BY <1>4, <1>5, <1>6, <1>7

LEMMA StutterTypes == TypeInv /\ UNCHANGED vars => TypeInv'
<1> SUFFICES ASSUME TypeInv, UNCHANGED vars PROVE TypeInv'
  OBVIOUS
<1>1. GraphOK /\ StateOK /\ JobsOK /\ RestOK /\ RepliesNamed /\ JobAtHand
  BY TypeParts DEF TypeInv
<1>2. GraphOK' /\ StateOK'
  BY <1>1 DEF GraphOK, StateOK, vars, graph, state, rings
<1>3. JobsOK' /\ RestOK'
  BY <1>1 DEF JobsOK, RestOK, vars, graph, state, rings
<1>4. RepliesNamed' /\ JobAtHand'
  BY <1>1 DEF RepliesNamed, JobAtHand, vars, graph, state, rings
<1> QED BY <1>2, <1>3, <1>4, TypeParts, PTL DEF TypeInv

(* The steps of the realtime thread, but for TakeReply, and of the UI. *)
AppNext ==
  \/ PeriodBegin \/ NoMoreReplies \/ RunPre \/ Run
  \/ FromUi \/ NoMoreFromUi \/ FromApp \/ NoMoreFromApp \/ PeriodEnd
  \/ \E msg \in Messages : ComEvent(msg) \/ UiSend(msg)

LEMMA NextIs ==
  Next <=> \/ AppNext \/ TakeReply \/ FinishJob
           \/ TakeJob \/ Reset \/ Drained \/ NotManaged
           \/ \E k \in {"load", "save"} : Manage(k)
BY DEF Next, Realtime, Worker, AppNext

LEMMA AppTypesStep ==
  ASSUME TypeInv, AppNext
  PROVE  TypeInv' /\ AppStep
<1>1. AppTypes' /\ AppStep
  <2>1. CASE PeriodBegin \/ NoMoreReplies \/ RunPre \/ Run
               \/ \E msg \in Messages : UiSend(msg)
    BY <2>1, PeriodStep
  <2>2. CASE FromUi \/ NoMoreFromUi \/ FromApp \/ NoMoreFromApp \/ PeriodEnd
               \/ \E msg \in Messages : ComEvent(msg)
    BY <2>2, ReceiveStep
  <2> QED BY <2>1, <2>2 DEF AppNext
<1> QED BY <1>1, AppStepTypes

LEMMA TypeInvariant == Spec => []TypeInv
<1>1. ASSUME TypeInv, [Next]_vars PROVE TypeInv'
  <2>1. CASE AppNext
    BY <1>1, <2>1, AppTypesStep
  <2>2. CASE TakeReply
    BY <1>1, <2>2, TakeReplyStep
  <2>3. CASE FinishJob
    BY <1>1, <2>3, FinishTypes
  <2>4. CASE TakeJob \/ Reset \/ Drained \/ NotManaged
               \/ \E k \in {"load", "save"} : Manage(k)
    BY <1>1, <2>4, WorkerTypes
  <2>5. CASE UNCHANGED vars
    BY <1>1, <2>5, StutterTypes
  <2> QED BY <1>1, <2>1, <2>2, <2>3, <2>4, <2>5, NextIs
<1> QED BY <1>1, InitTypes, PTL DEF Spec

(* All variables keep their types, only modules in the graph are connected *)
(* and only ramps run.                                                     *)
THEOREM TypeCorrect == Spec => []TypeOK
<1>1. TypeInv => TypeOK
  BY DEF TypeInv
<1> QED BY <1>1, TypeInvariant, PTL

-------------------------------------------------------------------------------
(* One job at a time, without a session manager: every job of the worker   *)
(* comes out of the ring and stays there until it is done, so that it is   *)
(* enough to count what is in the rings.                                   *)

Total(K) == Count(toWorker, K) + Count(toApp, K)

BlockInv ==
  /\ nsmLeft = 0 /\ worker # "nsm" /\ (job # NoJob => viaApp)
  /\ Total({"drain"}) = (IF block = "drain" THEN 1 ELSE 0)
  /\ Total(BlockingKinds) = (IF block = "wait" THEN 1 ELSE 0)
  /\ loadBundle <=> Total({"load"}) = 1

LEMMA TotalIs ==
  ASSUME TypeInv
  PROVE  /\ \A K : /\ Total(K) \in Nat
                   /\ Count(toWorker, K) \in Nat /\ Count(toApp, K) \in Nat
         /\ Total({"load"}) <= Total(BlockingKinds)
<1>1. toWorker \in Seq(Jobs) /\ toApp \in Seq(Jobs)
  BY DEF TypeInv, TypeOK
<1>2. \A K : Count(toWorker, K) \in Nat /\ Count(toApp, K) \in Nat
  BY <1>1, CountIs
<1>3. /\ Count(toWorker, {"load"}) <= Count(toWorker, BlockingKinds)
      /\ Count(toApp, {"load"}) <= Count(toApp, BlockingKinds)
  <2>1. {"load"} \subseteq BlockingKinds
    BY DEF BlockingKinds
  <2> QED BY <1>1, <2>1, CountSubset
<1> QED BY <1>2, <1>3 DEF Total

LEMMA BlockInvOneAtATime == TypeInv /\ BlockInv => OneAtATime
<1> SUFFICES ASSUME TypeInv, BlockInv PROVE OneAtATime
  OBVIOUS
<1>1. \A K : Pending(K) = Count(toWorker, K) + Count(toApp, K) + 0
  BY DEF Pending, BlockInv
<1>2. \A K : Pending(K) = Total(K)
  <2> SUFFICES ASSUME NEW K PROVE Pending(K) = Total(K)
    OBVIOUS
  <2>1. Count(toWorker, K) \in Nat /\ Count(toApp, K) \in Nat
    BY TotalIs
  <2> QED BY <1>1, <2>1 DEF Total
<1> QED BY <1>2 DEF BlockInv, OneAtATime

(* A job is sent. *)
LEMMA SendsTotal ==
  ASSUME TypeInv, NEW j \in Jobs, Sends(j), toApp' = toApp, NEW K
  PROVE  Total(K)' = Total(K) + (IF j.kind \in K THEN 1 ELSE 0)
<1>1. toWorker \in Seq(Jobs) /\ toWorker' = Append(toWorker, j)
  BY DEF TypeInv, TypeOK, Sends
<1>2. Count(toWorker', K) = Count(toWorker, K) + (IF j.kind \in K THEN 1 ELSE 0)
  BY <1>1, CountAppend
<1>3. Count(toWorker, K) \in Nat /\ Count(toApp, K) \in Nat
  BY TotalIs
<1>4. Total(K)' = Count(toWorker', K) + Count(toApp, K)
  BY DEF Total
<1> QED BY <1>2, <1>3, <1>4 DEF Total

(* A reply is taken, and an answer to it sent or not. *)
LEMMA TakesTotal ==
  ASSUME TypeInv, toApp # <<>>, toApp' = Tail(toApp), NEW K,
         toWorker' = toWorker \/ (Sends(Job("status")) /\ "status" \notin K)
  PROVE  Total(K)' = Total(K) - (IF Head(toApp).kind \in K THEN 1 ELSE 0)
<1>1. toWorker \in Seq(Jobs) /\ toApp \in Seq(Jobs)
  BY DEF TypeInv, TypeOK
<1>2. Count(toApp', K) = Count(toApp, K) - (IF Head(toApp).kind \in K THEN 1 ELSE 0)
  BY <1>1, CountTail
<1>3. Count(toWorker', K) = Count(toWorker, K)
  <2>1. Job("status") \in Jobs /\ Job("status").kind = "status"
    BY JobFacts DEF Job, Named
  <2>2. CASE toWorker' = toWorker
    BY <2>2
  <2>3. CASE Sends(Job("status")) /\ "status" \notin K
    <3>1. /\ toWorker' = Append(toWorker, Job("status"))
          /\ Count(Append(toWorker, Job("status")), K) = Count(toWorker, K) + 0
      BY <1>1, <2>1, <2>3, CountAppend DEF Sends
    <3> QED BY <3>1, TotalIs
  <2> QED BY <2>2, <2>3
<1>4. Count(toWorker, K) \in Nat /\ Count(toApp, K) \in Nat
  BY TotalIs
<1>5. Total(K)' = Count(toWorker', K) + Count(toApp', K)
  BY DEF Total
<1> QED BY <1>2, <1>3, <1>4, <1>5 DEF Total

(* What is taken out of a ring was counted. *)
LEMMA HeadCounted ==
  ASSUME TypeInv, toApp # <<>>, NEW K, Head(toApp).kind \in K
  PROVE  Total(K) > 0
<1>1. toApp \in Seq(Jobs) /\ Head(toApp) = toApp[1] /\ 1 \in 1 .. Len(toApp)
  BY DEF TypeInv, TypeOK
<1>2. Count(toApp, K) # 0
  BY <1>1, CountZero
<1> QED BY <1>2, TotalIs DEF Total

(* A job is done, and answered or not. *)
LEMMA FinishTotal ==
  ASSUME TypeInv, FinishStep, viaApp, NEW K, "add" \notin K, "status" \notin K
  PROVE  Total(K)' = Total(K)
<1>1. /\ toWorker \in Seq(Jobs) /\ toApp \in Seq(Jobs) /\ toWorker # <<>>
      /\ job = Head(toWorker) /\ toWorker' = Tail(toWorker) /\ job \in Jobs
  BY DEF TypeInv, TypeOK, FinishStep
<1>2. Count(toWorker', K) = Count(toWorker, K) - (IF job.kind \in K THEN 1 ELSE 0)
  BY <1>1, CountTail
<1>3. Count(toApp', K) = Count(toApp, K) + (IF job.kind \in K THEN 1 ELSE 0)
  <2>1. CASE toApp' = Append(toApp, job)
    BY <1>1, <2>1, CountAppend
  <2>2. CASE toApp' = toApp /\ job.kind \in {"add", "status"}
    BY <2>2, TotalIs
  <2>3. CASE job.kind = "add" /\ \E m \in Mods : toApp' = Append(toApp, Named("add", m))
    <3>1. PICK m \in Mods : toApp' = Append(toApp, Named("add", m))
      BY <2>3
    <3>2. Named("add", m) \in Jobs /\ Named("add", m).kind = "add"
      BY JobFacts DEF Named
    <3> QED BY <1>1, <2>3, <3>1, <3>2, CountAppend
  <2> QED BY <2>1, <2>2, <2>3 DEF FinishStep
<1>4. Count(toWorker, K) \in Nat /\ Count(toApp, K) \in Nat
  BY TotalIs
<1>5. Total(K)' = Count(toWorker', K) + Count(toApp', K)
  BY DEF Total
<1> QED BY <1>2, <1>3, <1>4, <1>5 DEF Total

LEMMA BlockApp ==
  ASSUME TypeInv, BlockInv, AppStep
  PROVE  BlockInv'
<1>1. /\ UNCHANGED <<toApp, worker, job, viaApp, nsmLeft>>
      /\ nsmLeft' = 0 /\ worker' # "nsm" /\ (job' # NoJob => viaApp')
  BY DEF AppStep, BlockInv
<1>2. \A K : Total(K) \in Nat
  BY TotalIs
<1>3. Total({"load"}) <= Total(BlockingKinds)
  BY TotalIs
<1>4. ASSUME NEW j \in Jobs, Sends(j)
      PROVE  /\ Total({"drain"})' = Total({"drain"}) + (IF j.kind = "drain" THEN 1 ELSE 0)
             /\ Total(BlockingKinds)' = Total(BlockingKinds)
                                           + (IF j.kind \in BlockingKinds THEN 1 ELSE 0)
             /\ Total({"load"})' = Total({"load"}) + (IF j.kind = "load" THEN 1 ELSE 0)
  <2>2. (j.kind \in {"drain"} <=> j.kind = "drain") /\ (j.kind \in {"load"} <=> j.kind = "load")
    OBVIOUS
  <2>3. Total({"drain"})' = Total({"drain"}) + (IF j.kind \in {"drain"} THEN 1 ELSE 0)
    BY <1>1, <1>4, SendsTotal
  <2>4. Total({"load"})' = Total({"load"}) + (IF j.kind \in {"load"} THEN 1 ELSE 0)
    BY <1>1, <1>4, SendsTotal
  <2>5. Total(BlockingKinds)' = Total(BlockingKinds)
                                  + (IF j.kind \in BlockingKinds THEN 1 ELSE 0)
    BY <1>1, <1>4, SendsTotal
  <2> QED BY <2>2, <2>3, <2>4, <2>5
<1>5. toWorker' = toWorker => /\ Total({"drain"})' = Total({"drain"})
                              /\ Total(BlockingKinds)' = Total(BlockingKinds)
                              /\ Total({"load"})' = Total({"load"})
  BY <1>1 DEF Total
<1>6. ASSUME UNCHANGED <<block, loadBundle>>,
             \/ toWorker' = toWorker
             \/ \E j \in Jobs : Sends(j) /\ j.kind \notin BlockingKinds \union {"drain", "load"}
      PROVE  BlockInv'
  <2>1. /\ Total({"drain"})' = Total({"drain"})
        /\ Total(BlockingKinds)' = Total(BlockingKinds)
        /\ Total({"load"})' = Total({"load"})
    BY <1>2, <1>4, <1>5, <1>6
  <2> QED BY <1>1, <1>6, <2>1 DEF BlockInv
<1>7. CASE Idles
  BY <1>6, <1>7 DEF Idles
<1>8. CASE Orders
  BY <1>6, <1>8, JobFacts DEF Orders, Job, Named, BlockingKinds
<1>9. CASE Ejects
  <2>1. PICK m \in mods : /\ Sends(Named("del", m)) \/ toWorker' = toWorker
                          /\ UNCHANGED <<block, loadBundle>>
    BY <1>9 DEF Ejects
  <2>2. Named("del", m) \in Jobs /\ Named("del", m).kind = "del"
    BY JobFacts DEF Named, TypeInv, TypeOK
  <2> QED BY <1>6, <2>1, <2>2 DEF BlockingKinds
<1>10. CASE Drains
  <2>1. Job("drain") \in Jobs /\ Job("drain").kind = "drain"
    BY JobFacts DEF Job, Named
  <2>2. /\ block = "run" /\ block' = "drain" /\ Sends(Job("drain")) /\ loadBundle' = loadBundle
    BY <1>10 DEF Drains
  <2> QED BY <1>1, <1>2, <1>4, <2>1, <2>2 DEF BlockInv, BlockingKinds
<1>11. CASE Requests
  <2>1. PICK j \in Jobs : /\ j.kind \in BlockingKinds
                          /\ block = "block" /\ block' = "wait"
                          /\ loadBundle' = (loadBundle \/ j.kind = "load")
                          /\ Sends(j)
    BY <1>11 DEF Requests
  <2>2. Total(BlockingKinds) = 0 /\ Total({"load"}) = 0 /\ ~loadBundle /\ Total({"drain"}) = 0
    BY <1>2, <1>3, <2>1 DEF BlockInv
  <2>3. /\ Total({"drain"})' = 0 /\ Total(BlockingKinds)' = 1
        /\ Total({"load"})' = IF j.kind = "load" THEN 1 ELSE 0
    BY <1>4, <2>1, <2>2 DEF BlockingKinds
  <2> QED BY <1>1, <2>1, <2>2, <2>3 DEF BlockInv
<1> QED BY <1>7, <1>8, <1>9, <1>10, <1>11 DEF AppStep

(* Each reply finds the state it asserts. *)
LEMMA RepliesExpected ==
  ASSUME TypeInv, BlockInv, toApp # <<>>
  PROVE  Expected(Head(toApp))
<1>1. /\ Head(toApp).kind \in {"drain"} => Total({"drain"}) > 0
      /\ Head(toApp).kind \in BlockingKinds => Total(BlockingKinds) > 0
      /\ Head(toApp).kind \in {"load"} => Total({"load"}) > 0
  BY HeadCounted
<1>2. /\ Total({"load"}) \in Nat /\ Total({"load"}) <= Total(BlockingKinds)
      /\ Total(BlockingKinds) \in Nat
  BY TotalIs
<1>3. CASE Head(toApp).kind = "drain"
  BY <1>1, <1>3 DEF BlockInv, Expected
<1>4. CASE Head(toApp).kind = "load"
  <2>1. block = "wait" /\ Total({"load"}) = 1
    BY <1>1, <1>2, <1>4 DEF BlockInv, BlockingKinds
  <2> QED BY <1>4, <2>1 DEF BlockInv, Expected
<1>5. CASE Head(toApp).kind = "save"
  <2>1. block = "wait"
    BY <1>1, <1>2, <1>5 DEF BlockInv, BlockingKinds
  <2>2. Total({"load"}) = 0
    <3>1. Total(BlockingKinds) = 1
      BY <2>1 DEF BlockInv
    <3>2. Count(toApp, {"load"}) < Count(toApp, BlockingKinds)
      <4>1. toApp \in Seq(Jobs) /\ Head(toApp) = toApp[1] /\ 1 \in 1 .. Len(toApp)
        BY DEF TypeInv, TypeOK
      <4>2. Places(toApp, {"load"}) \subseteq Places(toApp, BlockingKinds)
        BY DEF Places, BlockingKinds
      <4>3. 1 \in Places(toApp, BlockingKinds) /\ 1 \notin Places(toApp, {"load"})
        BY <1>5, <4>1 DEF Places, BlockingKinds
      <4>4. Count(toApp, {"load"}) <= Count(toApp, BlockingKinds)
        BY <4>1, CountSubset DEF BlockingKinds
      <4>5. Count(toApp, {"load"}) # Count(toApp, BlockingKinds)
        BY <4>1, <4>2, <4>3, CountIs, FS_Subset
      <4> QED BY <4>4, <4>5, TotalIs
    <3>3. Count(toWorker, {"load"}) <= Count(toWorker, BlockingKinds)
      BY CountSubset DEF TypeInv, TypeOK, BlockingKinds
    <3>4. /\ Count(toWorker, {"load"}) \in Nat /\ Count(toApp, {"load"}) \in Nat
          /\ Count(toWorker, BlockingKinds) \in Nat /\ Count(toApp, BlockingKinds) \in Nat
      BY TotalIs
    <3> QED BY <3>1, <3>2, <3>3, <3>4 DEF Total
  <2> QED BY <1>5, <2>1, <2>2 DEF BlockInv, Expected
<1>6. CASE Head(toApp).kind = "preset"
  <2>1. block = "wait"
    BY <1>1, <1>2, <1>6 DEF BlockInv, BlockingKinds
  <2> QED BY <1>6, <2>1 DEF Expected
<1>7. CASE Head(toApp).kind \notin {"drain", "load", "save", "preset"}
  BY <1>7 DEF Expected
<1> QED BY <1>3, <1>4, <1>5, <1>6, <1>7

LEMMA BlockReply ==
  ASSUME TypeInv, BlockInv, ReplyStep
  PROVE  BlockInv'
<1>1. /\ toApp # <<>> /\ toApp' = Tail(toApp)
      /\ UNCHANGED <<worker, job, viaApp, nsmLeft>>
      /\ nsmLeft' = 0 /\ worker' # "nsm" /\ (job' # NoJob => viaApp')
      /\ toWorker' = toWorker \/ Sends(Job("status"))
  BY DEF ReplyStep, BlockInv
<1>2. /\ Total({"drain"}) \in Nat /\ Total(BlockingKinds) \in Nat /\ Total({"load"}) \in Nat
      /\ Total({"load"}) <= Total(BlockingKinds)
  BY TotalIs
<1>3. PICK k \in Kinds : k = Head(toApp).kind
  <2>1. toApp \in Seq(Jobs)
    BY DEF TypeInv, TypeOK
  <2>2. Head(toApp) \in Jobs
    BY <1>1, <2>1
  <2> QED BY <2>2, JobFacts
<1>4. /\ Total({"drain"})' = Total({"drain"}) - (IF k = "drain" THEN 1 ELSE 0)
      /\ Total({"load"})' = Total({"load"}) - (IF k = "load" THEN 1 ELSE 0)
      /\ Total(BlockingKinds)' = Total(BlockingKinds) - (IF k \in BlockingKinds THEN 1 ELSE 0)
  <2>1. Total({"drain"})' = Total({"drain"}) - (IF Head(toApp).kind \in {"drain"} THEN 1 ELSE 0)
    BY <1>1, TakesTotal
  <2>2. Total({"load"})' = Total({"load"}) - (IF Head(toApp).kind \in {"load"} THEN 1 ELSE 0)
    BY <1>1, TakesTotal
  <2>3. "status" \notin BlockingKinds
    BY DEF BlockingKinds
  <2>4. Total(BlockingKinds)'
          = Total(BlockingKinds) - (IF Head(toApp).kind \in BlockingKinds THEN 1 ELSE 0)
    BY <1>1, <2>3, TakesTotal
  <2> QED BY <1>3, <2>1, <2>2, <2>4
<1>5. Expected(Head(toApp))
  BY <1>1, RepliesExpected
<1>6. CASE k \in BlockingKinds
  <2>1. block' = "run" /\ loadBundle' = (loadBundle /\ k # "load")
    BY <1>3, <1>6 DEF ReplyStep, BlockingKinds
  <2>2. block = "wait" /\ (k = "load" => loadBundle)
    BY <1>3, <1>5, <1>6 DEF Expected, BlockingKinds
  <2>3. Total({"drain"}) = 0 /\ Total(BlockingKinds) = 1 /\ k # "drain"
    BY <1>6, <2>2 DEF BlockInv, BlockingKinds
  <2>4. Total({"drain"})' = 0 /\ Total(BlockingKinds)' = 0
    BY <1>4, <1>6, <2>3
  <2>5. Total({"load"})' = Total({"load"}) - (IF k = "load" THEN 1 ELSE 0)
    BY <1>4
  <2>6. Total({"load"})' <= Total(BlockingKinds)' /\ Total({"load"})' \in Nat
    <3>1. \/ toWorker' = toWorker
          \/ toWorker' = Append(toWorker, Job("status"))
      BY <1>1 DEF Sends
    <3>2. toWorker' \in Seq(Jobs) /\ toApp' \in Seq(Jobs)
      <4>1. toWorker \in Seq(Jobs) /\ toApp \in Seq(Jobs) /\ Job("status") \in Jobs
        BY JobFacts DEF TypeInv, TypeOK
      <4>2. Append(toWorker, Job("status")) \in Seq(Jobs) /\ Tail(toApp) \in Seq(Jobs)
        BY <1>1, <4>1
      <4> QED BY <1>1, <3>1, <4>1, <4>2
    <3>3. /\ Count(toWorker', {"load"}) <= Count(toWorker', BlockingKinds)
          /\ Count(toApp', {"load"}) <= Count(toApp', BlockingKinds)
          /\ Count(toWorker', {"load"}) \in Nat /\ Count(toApp', {"load"}) \in Nat
          /\ Count(toWorker', BlockingKinds) \in Nat /\ Count(toApp', BlockingKinds) \in Nat
      BY <3>2, CountSubset, CountIs DEF BlockingKinds
    <3>4. /\ Total({"load"})' = Count(toWorker', {"load"}) + Count(toApp', {"load"})
          /\ Total(BlockingKinds)'
               = Count(toWorker', BlockingKinds) + Count(toApp', BlockingKinds)
      BY DEF Total
    <3> QED BY <3>3, <3>4
  <2>7. Total({"load"})' = 0
    BY <2>4, <2>6
  <2>8. ~loadBundle'
    <3>1. CASE k = "load"
      BY <2>1, <3>1
    <3>2. CASE k # "load"
      <4>1. Total({"load"}) = 0
        BY <1>2, <2>5, <2>7, <3>2
      <4>2. ~loadBundle
        BY <4>1 DEF BlockInv
      <4> QED BY <2>1, <4>2
    <3> QED BY <3>1, <3>2
  <2> QED BY <1>1, <2>1, <2>4, <2>7, <2>8 DEF BlockInv
<1>7. CASE k = "drain"
  <2>1. block' = "block" /\ loadBundle' = loadBundle /\ block = "drain"
    BY <1>3, <1>5, <1>7 DEF ReplyStep, BlockingKinds, Expected
  <2>2. /\ Total({"drain"})' = 0 /\ Total(BlockingKinds)' = 0
        /\ Total({"load"})' = Total({"load"})
    BY <1>2, <1>4, <1>7, <2>1 DEF BlockInv, BlockingKinds
  <2> QED BY <1>1, <2>1, <2>2 DEF BlockInv
<1>8. CASE k \notin BlockingKinds \union {"drain"}
  <2>1. block' = block /\ loadBundle' = loadBundle
    BY <1>3, <1>8 DEF ReplyStep, BlockingKinds
  <2>2. /\ Total({"drain"})' = Total({"drain"}) /\ Total(BlockingKinds)' = Total(BlockingKinds)
        /\ Total({"load"})' = Total({"load"})
    BY <1>2, <1>4, <1>8 DEF BlockingKinds
  <2> QED BY <1>1, <2>1, <2>2 DEF BlockInv
<1> QED BY <1>6, <1>7, <1>8

LEMMA BlockFinish ==
  ASSUME TypeInv, BlockInv, FinishStep
  PROVE  BlockInv'
<1>1. /\ viaApp /\ job' = NoJob /\ worker' = "idle" /\ UNCHANGED <<block, loadBundle, nsmLeft>>
  BY DEF FinishStep, BlockInv
<1>2. /\ Total({"drain"})' = Total({"drain"}) /\ Total(BlockingKinds)' = Total(BlockingKinds)
      /\ Total({"load"})' = Total({"load"})
  <2>1. "add" \notin BlockingKinds /\ "status" \notin BlockingKinds
    BY DEF BlockingKinds
  <2> QED BY <1>1, <2>1, FinishTotal
<1> QED BY <1>1, <1>2 DEF BlockInv

LEMMA BlockWorker ==
  ASSUME TypeInv, BlockInv,
         TakeJob \/ Reset \/ Drained \/ NotManaged \/ \E k \in {"load", "save"} : Manage(k)
  PROVE  BlockInv'
<1>1. /\ UNCHANGED <<toWorker, toApp, block, loadBundle, nsmLeft>>
      /\ worker' # "nsm" /\ (job' # NoJob => viaApp')
  <2>1. ~Drained /\ ~NotManaged /\ \A k : ~Manage(k)
    BY DEF BlockInv, Drained, NotManaged, Manage
  <2> QED BY <2>1 DEF BlockInv, TakeJob, Reset
<1>2. /\ Total({"drain"})' = Total({"drain"}) /\ Total(BlockingKinds)' = Total(BlockingKinds)
      /\ Total({"load"})' = Total({"load"})
  BY <1>1 DEF Total
<1> QED BY <1>1, <1>2 DEF BlockInv

LEMMA BlockInit == ASSUME Managed = 0 PROVE Init => BlockInv
<1> SUFFICES ASSUME Init PROVE BlockInv
  OBVIOUS
<1>1. /\ toWorker = <<>> /\ toApp = <<>> /\ block = "run" /\ loadBundle = FALSE
      /\ job = NoJob /\ worker = "idle" /\ nsmLeft = 0
  BY DEF Init
<1>2. <<>> \in Seq(Jobs) /\ Len(<<>>) = 0
  OBVIOUS
<1>3. \A K : Count(<<>>, K) = 0
  <2> SUFFICES ASSUME NEW K PROVE Count(<<>>, K) = 0
    OBVIOUS
  <2>1. \A i \in 1 .. Len(<<>>) : <<>>[i].kind \notin K
    BY <1>2
  <2> QED BY <1>2, <2>1, CountZero
<1>4. \A K : Total(K) = 0
  BY <1>1, <1>3 DEF Total
<1> QED BY <1>1, <1>4 DEF BlockInv

LEMMA BlockInvariant == ASSUME Managed = 0 PROVE Spec => []BlockInv
<1>1. ASSUME TypeInv, BlockInv, [Next]_vars PROVE BlockInv'
  <2>1. CASE AppNext
    BY <1>1, <2>1, AppTypesStep, BlockApp
  <2>2. CASE TakeReply
    BY <1>1, <2>2, TakeReplyStep, BlockReply
  <2>3. CASE FinishJob
    BY <1>1, <2>3, FinishTypes, BlockFinish
  <2>4. CASE TakeJob \/ Reset \/ Drained \/ NotManaged
               \/ \E k \in {"load", "save"} : Manage(k)
    BY <1>1, <2>4, BlockWorker
  <2>5. CASE UNCHANGED vars
    <3>1. UNCHANGED <<toWorker, toApp, block, loadBundle, nsmLeft, worker, job, viaApp>>
      BY <2>5 DEF vars, state, rings
    <3>2. /\ Total({"drain"})' = Total({"drain"}) /\ Total(BlockingKinds)' = Total(BlockingKinds)
          /\ Total({"load"})' = Total({"load"})
      BY <3>1 DEF Total
    <3> QED BY <1>1, <3>1, <3>2 DEF BlockInv
  <2> QED BY <1>1, <2>1, <2>2, <2>3, <2>4, <2>5, NextIs
<1> QED BY <1>1, TypeInvariant, BlockInit, PTL DEF Spec

(* Without a session manager the block is as long as what it is for: no    *)
(* reply is answered twice, or for another, and none overlaps another.     *)
THEOREM OneJobAtATime == ASSUME Managed = 0 PROVE Spec => []OneAtATime
BY TypeInvariant, BlockInvariant, BlockInvOneAtATime, PTL

(* The assertions of sp_app_from_worker never fail then, so that no reply  *)
(* is ever left in the ring.                                               *)
THEOREM RepliesAlwaysExpected == ASSUME Managed = 0 PROVE Spec => []AssertsHold
<1>1. TypeInv /\ BlockInv => AssertsHold
  BY RepliesExpected DEF AssertsHold
<1> QED BY <1>1, TypeInvariant, BlockInvariant, PTL

-------------------------------------------------------------------------------
(* What jobs name.  A module to be deleted has left the graph, and no      *)
(* later job names it; one to be given a preset is in the graph or will be *)
(* deleted later; one that is about to be put into the graph is neither in *)
(* it nor to be deleted, and there is one reply that puts it in.           *)

DeletedLast ==
  \A i \in 1 .. Len(toWorker) : toWorker[i].kind = "del" =>
    /\ toWorker[i].mod \notin mods
    /\ \A j \in 1 .. Len(toWorker) : i < j => toWorker[j].mod # toWorker[i].mod

PresetsLive ==
  \A i \in 1 .. Len(toWorker) : toWorker[i].kind = "preset" =>
    \/ toWorker[i].mod \in mods \/ lost
    \/ \E j \in 1 .. Len(toWorker) :
         i < j /\ toWorker[j].kind = "del" /\ toWorker[j].mod = toWorker[i].mod

AddedOnce ==
  \A i \in 1 .. Len(toApp) : toApp[i].kind = "add" =>
    /\ toApp[i].mod \notin mods
    /\ \A j \in 1 .. Len(toWorker) :
         toWorker[j].kind = "del" => toWorker[j].mod # toApp[i].mod
    /\ \A j \in 1 .. Len(toApp) :
         toApp[j].kind = "add" /\ toApp[j].mod = toApp[i].mod => j = i

LiveInv == DeletedLast /\ PresetsLive /\ AddedOnce

LEMMA LiveInvNames == TypeInv /\ LiveInv => NamesLiveModules
<1> SUFFICES ASSUME TypeInv, LiveInv PROVE NamesLiveModules
  OBVIOUS
<1>1. Len(toWorker) \in Nat
  BY DEF TypeInv, TypeOK
<1> SUFFICES ASSUME NEW i \in 1 .. Len(toWorker)
             PROVE  LET m == toWorker[i].mod
                        later == {j \in i + 1 .. Len(toWorker) : toWorker[j].mod = m}
                    IN  /\ toWorker[i].kind = "del" => m \notin mods /\ later = {}
                        /\ toWorker[i].kind = "preset" =>
                             m \in mods \/ lost \/ \E j \in later : toWorker[j].kind = "del"
  BY DEF NamesLiveModules
<1>2. \A j : j \in i + 1 .. Len(toWorker) <=> j \in 1 .. Len(toWorker) /\ i < j
  BY <1>1
<1>3. toWorker[i].kind = "del" =>
        /\ toWorker[i].mod \notin mods
        /\ {j \in i + 1 .. Len(toWorker) : toWorker[j].mod = toWorker[i].mod} = {}
  BY <1>2 DEF LiveInv, DeletedLast
<1>4. toWorker[i].kind = "preset" =>
        \/ toWorker[i].mod \in mods \/ lost
        \/ \E j \in {k \in i + 1 .. Len(toWorker) : toWorker[k].mod = toWorker[i].mod} :
             toWorker[j].kind = "del"
  BY <1>2 DEF LiveInv, PresetsLive
<1> QED BY <1>3, <1>4

(* Where jobs are counted as one there is no second. *)
LEMMA CountOne ==
  ASSUME NEW r \in Seq(Jobs), NEW K, Count(r, K) <= 1,
         NEW i \in 1 .. Len(r), NEW j \in 1 .. Len(r), r[i].kind \in K, r[j].kind \in K
  PROVE  i = j
<1>1. i \in Places(r, K) /\ j \in Places(r, K)
  BY DEF Places
<1>2. /\ IsFiniteSet(Places(r, K)) /\ Cardinality(Places(r, K)) <= 1
      /\ Cardinality(Places(r, K)) \in Nat
  BY CountIs
<1>3. Cardinality(Places(r, K) \ {i}) = Cardinality(Places(r, K)) - 1
      /\ IsFiniteSet(Places(r, K) \ {i}) /\ Cardinality(Places(r, K) \ {i}) \in Nat
  BY <1>1, <1>2, FS_RemoveElement, FS_CardinalityType
<1>4. Cardinality(Places(r, K) \ {i}) = 0
  BY <1>2, <1>3
<1>5. Places(r, K) \ {i} = {}
  BY <1>3, <1>4, FS_EmptySet
<1> QED BY <1>1, <1>5

(* No preset waits behind a bundle that is being loaded. *)
LEMMA LoadIsAlone ==
  ASSUME TypeInv, BlockInv, job.kind = "load"
  PROVE  \A i \in 1 .. Len(toWorker) : toWorker[i].kind # "preset"
<1>1. /\ toWorker \in Seq(Jobs) /\ toWorker # <<>> /\ job = Head(toWorker)
  BY DEF TypeInv, TypeOK, BlockInv, JobAtHand, NoJob, Job, Named
<1>2. /\ 1 \in 1 .. Len(toWorker) /\ toWorker[1].kind = "load"
  BY <1>1
<1>3. Count(toWorker, BlockingKinds) <= 1
  BY TotalIs DEF BlockInv, Total
<1> SUFFICES ASSUME NEW i \in 1 .. Len(toWorker), toWorker[i].kind = "preset" PROVE FALSE
  OBVIOUS
<1>4. "load" \in BlockingKinds /\ "preset" \in BlockingKinds
  BY DEF BlockingKinds
<1>5. i = 1
  BY <1>1, <1>2, <1>3, <1>4, CountOne
<1> QED BY <1>2, <1>5

LEMMA PassingHas ==
  ASSUME TypeInv
  PROVE  /\ \A i \in 1 .. Len(toWorker) : toWorker[i].kind = "del" => toWorker[i].mod \in Passing
         /\ \A i \in 1 .. Len(toApp) : toApp[i].kind = "add" => toApp[i].mod \in Passing
<1>1. /\ toWorker \in Seq(Jobs) /\ toApp \in Seq(Jobs)
      /\ \A i \in 1 .. Len(toApp) : toApp[i].kind = "add" => toApp[i].mod \in Mods
  BY DEF TypeInv, TypeOK, RepliesNamed
<1>2. \A i \in 1 .. Len(toWorker) : toWorker[i] \in Jobs /\ toWorker[i] \in ToSet(toWorker)
  BY <1>1 DEF ToSet
<1>3. \A i \in 1 .. Len(toApp) : toApp[i] \in ToSet(toApp)
  BY <1>1 DEF ToSet
<1>4. \A i \in 1 .. Len(toWorker) : toWorker[i].kind = "del" => toWorker[i].mod \in Mods
  BY <1>2, JobFacts
<1>5. \A j \in ToSet(toWorker) \union ToSet(toApp) :
        j.kind \in {"add", "del"} /\ j.mod \in Mods => j.mod \in Passing
  BY JobFacts DEF Passing
<1> QED BY <1>1, <1>2, <1>3, <1>4, <1>5

(* The graph stays, and no job is sent that deletes or whose module is not *)
(* in the graph.                                                           *)
LEMMA RequestsLive ==
  ASSUME TypeInv, LiveInv, mods' = mods, lost => lost',
         \/ toWorker' = toWorker
         \/ \E j \in Jobs : /\ toWorker' = Append(toWorker, j) /\ j.kind # "del"
                            /\ j.kind = "preset" => j.mod \in mods
                            /\ j.kind # "preset" => j.mod = NoMod
  PROVE  DeletedLast' /\ PresetsLive'
<1>1. CASE toWorker' = toWorker
  BY <1>1 DEF LiveInv, DeletedLast, PresetsLive
<1>2. CASE toWorker' # toWorker
  <2>1. PICK j \in Jobs : /\ toWorker' = Append(toWorker, j) /\ j.kind # "del"
                          /\ j.kind = "preset" => j.mod \in mods
                          /\ j.kind # "preset" => j.mod = NoMod
    BY <1>2
  <2> DEFINE n == Len(toWorker)
  <2>2. n \in Nat /\ toWorker \in Seq(Jobs)
    BY DEF TypeInv, TypeOK
  <2>3. /\ Len(toWorker') = n + 1 /\ toWorker'[n + 1] = j
        /\ \A i \in 1 .. n : toWorker'[i] = toWorker[i] /\ i \in 1 .. n + 1
        /\ \A i \in 1 .. n + 1 : i \in 1 .. n \/ i = n + 1
    BY <2>1, <2>2
  <2>4. \A i \in 1 .. n : toWorker[i].kind = "del" => toWorker[i].mod # j.mod
    <3>1. \A i \in 1 .. n : toWorker[i].kind = "del" => toWorker[i].mod \in Mods
      BY <2>2, JobFacts
    <3> QED BY <2>1, <3>1, JobFacts DEF LiveInv, DeletedLast
  <2> HIDE DEF n
  <2>5. DeletedLast'
    <3> SUFFICES ASSUME NEW i \in 1 .. n + 1, toWorker'[i].kind = "del"
                 PROVE  /\ toWorker'[i].mod \notin mods
                        /\ \A k \in 1 .. n + 1 : i < k => toWorker'[k].mod # toWorker'[i].mod
      BY <2>3 DEF DeletedLast
    <3>1. i \in 1 .. n /\ toWorker[i].kind = "del"
      BY <2>1, <2>3
    <3> QED BY <2>3, <2>4, <3>1 DEF LiveInv, DeletedLast, n
  <2>6. PresetsLive'
    <3> SUFFICES ASSUME NEW i \in 1 .. n + 1, toWorker'[i].kind = "preset"
                 PROVE  \/ toWorker'[i].mod \in mods' \/ lost'
                        \/ \E k \in 1 .. n + 1 : /\ i < k /\ toWorker'[k].kind = "del"
                                                /\ toWorker'[k].mod = toWorker'[i].mod
      BY <2>3 DEF PresetsLive
    <3>1. CASE i = n + 1
      BY <2>1, <2>3, <3>1
    <3>2. CASE i \in 1 .. n
      <4>1. toWorker[i].kind = "preset" /\ toWorker'[i] = toWorker[i]
        BY <2>3, <3>2
      <4>2. \/ toWorker[i].mod \in mods \/ lost
            \/ \E k \in 1 .. n : /\ i < k /\ toWorker[k].kind = "del"
                                 /\ toWorker[k].mod = toWorker[i].mod
        BY <3>2, <4>1 DEF LiveInv, PresetsLive, n
      <4> QED BY <2>3, <4>1, <4>2
    <3> QED BY <2>3, <3>1, <3>2
  <2> QED BY <2>5, <2>6
<1> QED BY <1>1, <1>2

LEMMA LiveSend ==
  ASSUME TypeInv, LiveInv, mods' = mods, toApp' = toApp, lost => lost',
         \/ toWorker' = toWorker
         \/ \E j \in Jobs : /\ toWorker' = Append(toWorker, j) /\ j.kind # "del"
                            /\ j.kind = "preset" => j.mod \in mods
                            /\ j.kind # "preset" => j.mod = NoMod
  PROVE  LiveInv'
<1>1. \A i \in 1 .. Len(toWorker') :
        toWorker'[i].kind = "del" => i \in 1 .. Len(toWorker) /\ toWorker'[i] = toWorker[i]
  <2>1. toWorker \in Seq(Jobs)
    BY DEF TypeInv, TypeOK
  <2> QED BY <2>1
<1>2. AddedOnce'
  BY <1>1 DEF LiveInv, AddedOnce
<1> QED BY <1>2, RequestsLive DEF LiveInv

(* A module leaves the graph, and the job to delete it is sent or lost. *)
LEMMA LiveEject ==
  ASSUME TypeInv, LiveInv, toApp' = toApp, NEW m \in mods, mods' = mods \ {m},
         Sends(Named("del", m)) \/ (toWorker' = toWorker /\ lost')
  PROVE  LiveInv'
<1>1. /\ Len(toWorker) \in Nat /\ toWorker \in Seq(Jobs) /\ m \in Mods
  BY DEF TypeInv, TypeOK
<1>2. CASE toWorker' = toWorker /\ lost'
  BY <1>2 DEF LiveInv, DeletedLast, PresetsLive, AddedOnce
<1>3. CASE Sends(Named("del", m))
  <2> DEFINE n == Len(toWorker)
  <2>1. PICK j \in Jobs : j = Named("del", m) /\ j.kind = "del" /\ j.mod = m
    BY <1>1, JobFacts DEF Named
  <2>2. toWorker' = Append(toWorker, j) /\ lost' = lost
    BY <1>3, <2>1 DEF Sends
  <2>3. /\ Len(toWorker') = n + 1 /\ toWorker'[n + 1] = j /\ n \in Nat
        /\ \A i \in 1 .. n : toWorker'[i] = toWorker[i] /\ i \in 1 .. n + 1
        /\ \A i \in 1 .. n + 1 : i \in 1 .. n \/ i = n + 1
    BY <1>1, <2>2
  <2>4. \A i \in 1 .. n : toWorker[i].kind = "del" => toWorker[i].mod \notin mods
    BY DEF LiveInv, DeletedLast
  <2>5. DeletedLast'
    <3> SUFFICES ASSUME NEW i \in 1 .. n + 1, toWorker'[i].kind = "del"
                 PROVE  /\ toWorker'[i].mod \notin mods'
                        /\ \A k \in 1 .. n + 1 : i < k => toWorker'[k].mod # toWorker'[i].mod
      BY <2>3 DEF DeletedLast
    <3>1. CASE i = n + 1
      BY <2>1, <2>3, <3>1
    <3>2. CASE i \in 1 .. n
      <4>1. toWorker[i].kind = "del" /\ toWorker'[i] = toWorker[i]
        BY <2>3, <3>2
      <4>2. /\ toWorker[i].mod \notin mods
            /\ \A k \in 1 .. n : i < k => toWorker[k].mod # toWorker[i].mod
        BY <3>2, <4>1 DEF LiveInv, DeletedLast
      <4> QED BY <2>1, <2>3, <4>1, <4>2
    <3> QED BY <2>3, <3>1, <3>2
  <2>6. PresetsLive'
    <3> SUFFICES ASSUME NEW i \in 1 .. n + 1, toWorker'[i].kind = "preset", ~lost'
                 PROVE  \/ toWorker'[i].mod \in mods'
                        \/ \E k \in 1 .. n + 1 : /\ i < k /\ toWorker'[k].kind = "del"
                                                /\ toWorker'[k].mod = toWorker'[i].mod
      BY <2>3 DEF PresetsLive
    <3>1. i \in 1 .. n /\ toWorker[i].kind = "preset" /\ toWorker'[i] = toWorker[i] /\ i < n + 1
      BY <2>1, <2>3
    <3>2. \/ toWorker[i].mod \in mods
          \/ \E k \in 1 .. n : /\ i < k /\ toWorker[k].kind = "del"
                               /\ toWorker[k].mod = toWorker[i].mod
      BY <2>2, <3>1 DEF LiveInv, PresetsLive
    <3>3. CASE toWorker[i].mod = m
      BY <2>1, <2>3, <3>1, <3>3
    <3>4. CASE toWorker[i].mod # m
      BY <2>3, <3>1, <3>2, <3>4
    <3> QED BY <3>3, <3>4
  <2>7. AddedOnce'
    <3> SUFFICES ASSUME NEW i \in 1 .. Len(toApp), toApp[i].kind = "add"
                 PROVE  /\ toApp[i].mod \notin mods'
                        /\ \A k \in 1 .. n + 1 :
                             toWorker'[k].kind = "del" => toWorker'[k].mod # toApp[i].mod
                        /\ \A k \in 1 .. Len(toApp) :
                             toApp[k].kind = "add" /\ toApp[k].mod = toApp[i].mod => k = i
      BY <2>3 DEF AddedOnce
    <3>1. /\ toApp[i].mod \notin mods
          /\ \A k \in 1 .. n : toWorker[k].kind = "del" => toWorker[k].mod # toApp[i].mod
          /\ \A k \in 1 .. Len(toApp) :
               toApp[k].kind = "add" /\ toApp[k].mod = toApp[i].mod => k = i
      BY DEF LiveInv, AddedOnce
    <3> QED BY <2>1, <2>3, <3>1
  <2> QED BY <2>5, <2>6, <2>7 DEF LiveInv
<1> QED BY <1>2, <1>3

LEMMA LiveApp ==
  ASSUME TypeInv, LiveInv, AppStep
  PROVE  LiveInv'
<1>1. toApp' = toApp
  BY DEF AppStep
<1>2. CASE Idles
  BY <1>1, <1>2, LiveSend DEF Idles
<1>3. CASE Drains
  <2>1. Job("drain") \in Jobs /\ Job("drain").kind = "drain" /\ Job("drain").mod = NoMod
    BY JobFacts DEF Job, Named
  <2>2. /\ toWorker' = Append(toWorker, Job("drain")) /\ mods' = mods /\ lost' = lost
    BY <1>3 DEF Drains, Sends
  <2> QED BY <1>1, <2>1, <2>2, LiveSend
<1>4. CASE Requests
  <2>1. PICK j \in Jobs : /\ j.kind \in BlockingKinds /\ (j.kind = "preset" => j.mod \in mods)
                          /\ Sends(j) /\ mods' = mods
    BY <1>4 DEF Requests
  <2>2. toWorker' = Append(toWorker, j) /\ lost' = lost
    BY <2>1 DEF Sends
  <2>3. j.kind # "del" /\ (j.kind # "preset" => j.mod = NoMod)
    BY <2>1, JobFacts DEF BlockingKinds
  <2> QED BY <1>1, <2>1, <2>2, <2>3, LiveSend
<1>5. CASE Orders
  <2>1. Job("add") \in Jobs /\ Job("add").kind = "add" /\ Job("add").mod = NoMod
    BY JobFacts DEF Job, Named
  <2>2. /\ toWorker' = Append(toWorker, Job("add")) /\ mods' = mods /\ lost' = lost
    BY <1>5 DEF Orders, Sends
  <2> QED BY <1>1, <2>1, <2>2, LiveSend
<1>6. CASE Ejects
  BY <1>1, <1>6, LiveEject DEF Ejects
<1> QED BY <1>2, <1>3, <1>4, <1>5, <1>6 DEF AppStep

(* A ring without its first job. *)
LEMMA TailIs ==
  ASSUME NEW r \in Seq(Jobs), r # <<>>
  PROVE  /\ Len(r) \in Nat /\ Len(Tail(r)) \in Nat /\ Len(Tail(r)) = Len(r) - 1
         /\ Head(r) = r[1] /\ 1 \in 1 .. Len(r)
         /\ \A i \in 1 .. Len(Tail(r)) : i + 1 \in 1 .. Len(r) /\ Tail(r)[i] = r[i + 1]
         /\ \A i \in 1 .. Len(r) : i # 1 => i - 1 \in 1 .. Len(Tail(r)) /\ Tail(r)[i - 1] = r[i]
<1>1. Len(r) \in Nat /\ Len(r) > 0 /\ Len(Tail(r)) = Len(r) - 1 /\ Head(r) = r[1]
  OBVIOUS
<1>2. \A i \in 1 .. Len(Tail(r)) : Tail(r)[i] = r[i + 1]
  OBVIOUS
<1> QED BY <1>1, <1>2

(* The realtime thread takes a reply. *)
LEMMA LiveReply ==
  ASSUME TypeInv, LiveInv, ReplyStep
  PROVE  LiveInv'
<1>1. /\ toApp \in Seq(Jobs) /\ toApp # <<>> /\ toApp' = Tail(toApp)
  BY DEF TypeInv, TypeOK, ReplyStep
<1> DEFINE n == Len(toApp)
           r == toApp[1]
<1>2. /\ n \in Nat /\ 1 \in 1 .. n /\ Head(toApp) = r /\ Len(toApp') = n - 1
      /\ \A i \in 1 .. n - 1 : i + 1 \in 1 .. n /\ toApp'[i] = toApp[i + 1] /\ i \in Nat
  BY <1>1, TailIs
<1>3. CASE r.kind = "add"
  <2>1. mods' = mods \union {r.mod} /\ UNCHANGED <<toWorker, lost>>
    BY <1>2, <1>3 DEF ReplyStep, BlockingKinds
  <2>2. /\ \A j \in 1 .. Len(toWorker) : toWorker[j].kind = "del" => toWorker[j].mod # r.mod
        /\ \A j \in 1 .. n : toApp[j].kind = "add" /\ toApp[j].mod = r.mod => j = 1
    BY <1>2, <1>3 DEF LiveInv, AddedOnce
  <2>3. DeletedLast' /\ PresetsLive'
    BY <2>1, <2>2 DEF LiveInv, DeletedLast, PresetsLive
  <2>4. AddedOnce'
    <3> SUFFICES ASSUME NEW i \in 1 .. n - 1, toApp'[i].kind = "add"
                 PROVE  /\ toApp'[i].mod \notin mods'
                        /\ \A k \in 1 .. Len(toWorker) :
                             toWorker[k].kind = "del" => toWorker[k].mod # toApp'[i].mod
                        /\ \A k \in 1 .. n - 1 :
                             toApp'[k].kind = "add" /\ toApp'[k].mod = toApp'[i].mod => k = i
      BY <1>2, <2>1 DEF AddedOnce
    <3>1. /\ i + 1 \in 1 .. n /\ toApp[i + 1].kind = "add" /\ toApp'[i] = toApp[i + 1]
          /\ i + 1 # 1
      BY <1>2
    <3>2. /\ toApp[i + 1].mod \notin mods
          /\ \A k \in 1 .. Len(toWorker) :
               toWorker[k].kind = "del" => toWorker[k].mod # toApp[i + 1].mod
          /\ \A k \in 1 .. n :
               toApp[k].kind = "add" /\ toApp[k].mod = toApp[i + 1].mod => k = i + 1
      BY <3>1 DEF LiveInv, AddedOnce
    <3>3. toApp[i + 1].mod # r.mod
      BY <2>2, <3>1
    <3>4. \A k \in 1 .. n - 1 :
            toApp'[k].kind = "add" /\ toApp'[k].mod = toApp'[i].mod => k = i
      <4> SUFFICES ASSUME NEW k \in 1 .. n - 1, toApp'[k].kind = "add",
                          toApp'[k].mod = toApp'[i].mod
                   PROVE  k = i
        OBVIOUS
      <4>1. k + 1 = i + 1
        BY <1>2, <3>1, <3>2
      <4> QED BY <1>2, <4>1
    <3> QED BY <2>1, <3>1, <3>2, <3>3, <3>4
  <2> QED BY <2>3, <2>4 DEF LiveInv
<1>4. CASE r.kind # "add"
  <2>1. /\ mods' = mods /\ (lost => lost')
        /\ toWorker' = toWorker \/ toWorker' = Append(toWorker, Job("status"))
    BY <1>2, <1>4 DEF ReplyStep, Sends
  <2>2. Job("status") \in Jobs /\ Job("status").kind = "status" /\ Job("status").mod = NoMod
    BY JobFacts DEF Job, Named
  <2> DEFINE a == toApp'
  <2>3. ASSUME NEW i \in 1 .. n - 1, a[i].kind = "add"
        PROVE  /\ a[i].mod \notin mods
               /\ \A k \in 1 .. Len(toWorker) : toWorker[k].kind = "del" => toWorker[k].mod # a[i].mod
               /\ \A k \in 1 .. n - 1 : a[k].kind = "add" /\ a[k].mod = a[i].mod => k = i
    <3>1. /\ i + 1 \in 1 .. n /\ toApp[i + 1].kind = "add" /\ a[i] = toApp[i + 1]
      BY <1>2, <2>3
    <3>2. /\ toApp[i + 1].mod \notin mods
          /\ \A k \in 1 .. Len(toWorker) :
               toWorker[k].kind = "del" => toWorker[k].mod # toApp[i + 1].mod
          /\ \A k \in 1 .. n :
               toApp[k].kind = "add" /\ toApp[k].mod = toApp[i + 1].mod => k = i + 1
      BY <3>1 DEF LiveInv, AddedOnce
    <3>3. \A k \in 1 .. n - 1 : a[k].kind = "add" /\ a[k].mod = a[i].mod => k + 1 = i + 1
      BY <1>2, <3>1, <3>2
    <3> QED BY <1>2, <3>1, <3>2, <3>3
  <2>4. \A i \in 1 .. Len(toWorker') :
          toWorker'[i].kind = "del" => i \in 1 .. Len(toWorker) /\ toWorker'[i] = toWorker[i]
    <3>1. toWorker \in Seq(Jobs)
      BY DEF TypeInv, TypeOK
    <3> QED BY <2>1, <2>2, <3>1
  <2>5. AddedOnce'
    <3> SUFFICES ASSUME NEW i \in 1 .. n - 1, a[i].kind = "add"
                 PROVE  /\ a[i].mod \notin mods'
                        /\ \A k \in 1 .. Len(toWorker') :
                             toWorker'[k].kind = "del" => toWorker'[k].mod # a[i].mod
                        /\ \A k \in 1 .. n - 1 :
                             a[k].kind = "add" /\ a[k].mod = a[i].mod => k = i
      BY <1>2 DEF AddedOnce
    <3> HIDE DEF a, n
    <3>1. /\ a[i].mod \notin mods'
          /\ \A k \in 1 .. n - 1 : a[k].kind = "add" /\ a[k].mod = a[i].mod => k = i
      BY <2>1, <2>3
    <3>2. \A k \in 1 .. Len(toWorker') :
            toWorker'[k].kind = "del" => toWorker'[k].mod # a[i].mod
      BY <2>3, <2>4
    <3> QED BY <3>1, <3>2
  <2>6. DeletedLast' /\ PresetsLive'
    BY <2>1, <2>2, RequestsLive
  <2> QED BY <2>5, <2>6 DEF LiveInv
<1> QED BY <1>3, <1>4

(* The worker finishes a job. *)
LEMMA LiveFinish ==
  ASSUME TypeInv, BlockInv, LiveInv, FinishStep
  PROVE  LiveInv'
<1>1. /\ toWorker \in Seq(Jobs) /\ toApp \in Seq(Jobs) /\ job \in Jobs
      /\ toWorker # <<>> /\ job = toWorker[1] /\ toWorker' = Tail(toWorker)
      /\ lost' = lost
  BY TailIs DEF TypeInv, TypeOK, FinishStep, BlockInv
<1> DEFINE n == Len(toWorker)
           w == toWorker'
<1>2. /\ n \in Nat /\ Len(w) = n - 1
      /\ \A i \in 1 .. n - 1 : i + 1 \in 1 .. n /\ w[i] = toWorker[i + 1] /\ i \in Nat
      /\ \A i \in 1 .. n : i # 1 => i - 1 \in 1 .. n - 1 /\ w[i - 1] = toWorker[i]
  BY <1>1, TailIs
<1>3. \/ mods' = mods
      \/ job.kind = "load" /\ mods' \subseteq Mods \ Passing /\ toApp' = Append(toApp, job)
  BY DEF FinishStep
<1>4. /\ \A i \in 1 .. n : toWorker[i].kind = "del" => toWorker[i].mod \notin mods'
      /\ \A i \in 1 .. Len(toApp) : toApp[i].kind = "add" => toApp[i].mod \notin mods'
  BY <1>3, PassingHas DEF LiveInv, DeletedLast, AddedOnce
<1>5. DeletedLast'
  <2> SUFFICES ASSUME NEW i \in 1 .. n - 1, w[i].kind = "del"
               PROVE  /\ w[i].mod \notin mods'
                      /\ \A k \in 1 .. n - 1 : i < k => w[k].mod # w[i].mod
    BY <1>2 DEF DeletedLast
  <2>1. /\ i + 1 \in 1 .. n /\ toWorker[i + 1].kind = "del" /\ w[i] = toWorker[i + 1]
    BY <1>2
  <2>2. \A k \in 1 .. n : i + 1 < k => toWorker[k].mod # toWorker[i + 1].mod
    BY <2>1 DEF LiveInv, DeletedLast
  <2>3. ASSUME NEW k \in 1 .. n - 1, i < k PROVE w[k].mod # w[i].mod
    <3>1. k + 1 \in 1 .. n /\ i + 1 < k + 1 /\ w[k] = toWorker[k + 1]
      BY <1>2, <2>3
    <3> QED BY <2>1, <2>2, <3>1
  <2> QED BY <1>4, <2>1, <2>3
<1>6. PresetsLive'
  <2>1. CASE job.kind = "load"
    <3>1. \A i \in 1 .. n - 1 : w[i].kind # "preset"
      BY <1>2, <2>1, LoadIsAlone
    <3> QED BY <1>2, <3>1 DEF PresetsLive
  <2>2. CASE job.kind # "load"
    <3> SUFFICES ASSUME NEW i \in 1 .. n - 1, w[i].kind = "preset"
                 PROVE  \/ w[i].mod \in mods' \/ lost'
                        \/ \E k \in 1 .. n - 1 : /\ i < k /\ w[k].kind = "del"
                                                /\ w[k].mod = w[i].mod
      BY <1>2 DEF PresetsLive
    <3>4. mods' = mods
      BY <1>3, <2>2
    <3>1. /\ i + 1 \in 1 .. n /\ toWorker[i + 1].kind = "preset" /\ w[i] = toWorker[i + 1]
      BY <1>2
    <3>2. CASE toWorker[i + 1].mod \in mods \/ lost
      BY <1>1, <3>1, <3>2, <3>4
    <3>3. CASE ~(toWorker[i + 1].mod \in mods \/ lost)
      <4>1. PICK k \in 1 .. n : /\ i + 1 < k /\ toWorker[k].kind = "del"
                                /\ toWorker[k].mod = toWorker[i + 1].mod
        BY <3>1, <3>3 DEF LiveInv, PresetsLive
      <4>2. k # 1 /\ i < k - 1
        BY <1>2, <4>1
      <4>3. k - 1 \in 1 .. n - 1 /\ w[k - 1] = toWorker[k]
        BY <1>2, <4>2
      <4> QED BY <3>1, <4>1, <4>2, <4>3
    <3> QED BY <3>2, <3>3
  <2> QED BY <2>1, <2>2
<1>7. \A k \in 1 .. n - 1 : \E l \in 1 .. n : w[k] = toWorker[l]
  BY <1>2
<1>8. ASSUME \A i \in 1 .. Len(toApp') :
               toApp'[i].kind = "add" => i \in 1 .. Len(toApp) /\ toApp'[i] = toApp[i]
      PROVE  AddedOnce'
  <2> SUFFICES ASSUME NEW i \in 1 .. Len(toApp'), toApp'[i].kind = "add"
               PROVE  /\ toApp'[i].mod \notin mods'
                      /\ \A k \in 1 .. n - 1 : w[k].kind = "del" => w[k].mod # toApp'[i].mod
                      /\ \A k \in 1 .. Len(toApp') :
                           toApp'[k].kind = "add" /\ toApp'[k].mod = toApp'[i].mod => k = i
    BY <1>2 DEF AddedOnce
  <2>1. i \in 1 .. Len(toApp) /\ toApp'[i] = toApp[i] /\ toApp[i].kind = "add"
    BY <1>8
  <2>2. /\ \A k \in 1 .. n : toWorker[k].kind = "del" => toWorker[k].mod # toApp[i].mod
        /\ \A k \in 1 .. Len(toApp) :
             toApp[k].kind = "add" /\ toApp[k].mod = toApp[i].mod => k = i
    BY <2>1 DEF LiveInv, AddedOnce
  <2>3. \A k \in 1 .. Len(toApp') :
          toApp'[k].kind = "add" => k \in 1 .. Len(toApp) /\ toApp'[k] = toApp[k]
    BY <1>8
  <2>4. toApp'[i].mod \notin mods'
    BY <1>4, <2>1
  <2>5. \A k \in 1 .. n - 1 : w[k].kind = "del" => w[k].mod # toApp'[i].mod
    BY <1>7, <2>1, <2>2
  <2>6. \A k \in 1 .. Len(toApp') :
          toApp'[k].kind = "add" /\ toApp'[k].mod = toApp'[i].mod => k = i
    BY <2>1, <2>2, <2>3
  <2> QED BY <2>4, <2>5, <2>6
<1>9. CASE toApp' = toApp \/ (toApp' = Append(toApp, job) /\ job.kind # "add")
  <2>1. AddedOnce'
    BY <1>1, <1>8, <1>9
  <2> QED BY <1>5, <1>6, <2>1 DEF LiveInv
<1>10. CASE job.kind = "add" /\ \E m \in Mods \ (mods \union Passing) :
                                  toApp' = Append(toApp, Named("add", m))
  <2>1. PICK m \in Mods \ (mods \union Passing) : toApp' = Append(toApp, Named("add", m))
    BY <1>10
  <2>8. Named("add", m) \in Jobs /\ Named("add", m).kind = "add" /\ Named("add", m).mod = m
    BY JobFacts DEF Named
  <2>2. PICK j \in Jobs : j = Named("add", m) /\ j.kind = "add" /\ j.mod = m
    BY <2>8
  <2> DEFINE p == Len(toApp)
             a == toApp'
  <2>3. /\ p \in Nat /\ Len(a) = p + 1 /\ a[p + 1] = j
        /\ \A i \in 1 .. p : a[i] = toApp[i]
        /\ \A i \in 1 .. p + 1 : i \in 1 .. p \/ i = p + 1
    BY <1>1, <2>1, <2>2
  <2>4. mods' = mods
    BY <1>3, <1>10
  <2>5. /\ \A k \in 1 .. n : toWorker[k].kind = "del" => toWorker[k].mod # m
        /\ \A i \in 1 .. p : toApp[i].kind = "add" => toApp[i].mod # m
    BY <2>1, PassingHas
  <2> SUFFICES ASSUME NEW i \in 1 .. p + 1, a[i].kind = "add"
               PROVE  /\ a[i].mod \notin mods'
                      /\ \A k \in 1 .. n - 1 : w[k].kind = "del" => w[k].mod # a[i].mod
                      /\ \A k \in 1 .. p + 1 : a[k].kind = "add" /\ a[k].mod = a[i].mod => k = i
    BY <1>2, <1>5, <1>6, <2>3 DEF AddedOnce, LiveInv
  <2>6. CASE i = p + 1
    BY <1>7, <2>1, <2>2, <2>3, <2>4, <2>5, <2>6
  <2>7. CASE i \in 1 .. p
    <3>1. a[i] = toApp[i] /\ toApp[i].kind = "add"
      BY <2>3, <2>7
    <3>2. /\ toApp[i].mod \notin mods
          /\ \A k \in 1 .. n : toWorker[k].kind = "del" => toWorker[k].mod # toApp[i].mod
          /\ \A k \in 1 .. p :
               toApp[k].kind = "add" /\ toApp[k].mod = toApp[i].mod => k = i
      BY <2>7, <3>1 DEF LiveInv, AddedOnce
    <3>3. toApp[i].mod # m
      BY <2>5, <2>7, <3>1
    <3>4. \A k \in 1 .. n - 1 : w[k].kind = "del" => w[k].mod # a[i].mod
      BY <1>7, <3>1, <3>2
    <3>5. \A k \in 1 .. p + 1 : a[k].kind = "add" /\ a[k].mod = a[i].mod => k \in 1 .. p
      BY <2>2, <2>3, <3>1, <3>3
    <3>6. \A k \in 1 .. p : a[k].kind = "add" /\ a[k].mod = a[i].mod => k = i
      BY <2>3, <3>1, <3>2
    <3> HIDE DEF a, w, n, p
    <3> QED BY <2>4, <3>1, <3>2, <3>4, <3>5, <3>6
  <2> QED BY <2>3, <2>6, <2>7
<1> QED BY <1>9, <1>10 DEF FinishStep

(* All modules are deleted, for a bundle. *)
LEMMA LiveReset ==
  ASSUME TypeInv, BlockInv, LiveInv, Reset
  PROVE  LiveInv'
<1>1. job.kind = "load" /\ mods' = {} /\ UNCHANGED <<toWorker, toApp>>
  BY DEF Reset, WorkerKeeps
<1>2. \A i \in 1 .. Len(toWorker) : toWorker[i].kind # "preset"
  BY <1>1, LoadIsAlone
<1>3. DeletedLast' /\ PresetsLive' /\ AddedOnce'
  BY <1>1, <1>2 DEF LiveInv, DeletedLast, PresetsLive, AddedOnce
<1> QED BY <1>3 DEF LiveInv

LEMMA LiveStays ==
  ASSUME LiveInv, UNCHANGED <<mods, toWorker, toApp, lost>>
  PROVE  LiveInv'
BY DEF LiveInv, DeletedLast, PresetsLive, AddedOnce

LEMMA LiveInit == Init => LiveInv
<1> SUFFICES ASSUME Init PROVE LiveInv
  OBVIOUS
<1>1. /\ toWorker = <<>> /\ toApp = <<>>
      /\ Len(<<>>) = 0 /\ \A i \in 1 .. 0 : FALSE
  BY DEF Init
<1> QED BY <1>1 DEF LiveInv, DeletedLast, PresetsLive, AddedOnce

LEMMA LiveInvariant == ASSUME Managed = 0 PROVE Spec => []LiveInv
<1>1. ASSUME TypeInv, BlockInv, LiveInv, [Next]_vars PROVE LiveInv'
  <2>1. CASE AppNext
    BY <1>1, <2>1, AppTypesStep, LiveApp
  <2>2. CASE TakeReply
    BY <1>1, <2>2, TakeReplyStep, LiveReply
  <2>3. CASE FinishJob
    BY <1>1, <2>3, FinishTypes, LiveFinish
  <2>4. CASE Reset
    BY <1>1, <2>4, LiveReset
  <2>5. CASE TakeJob \/ Drained \/ NotManaged \/ \E k \in {"load", "save"} : Manage(k)
    <3>1. UNCHANGED <<mods, toWorker, toApp, lost>>
      BY <2>5 DEF TakeJob, Drained, NotManaged, Manage, WorkerKeeps, graph
    <3> QED BY <1>1, <3>1, LiveStays
  <2>6. CASE UNCHANGED vars
    <3>1. UNCHANGED <<mods, toWorker, toApp, lost>>
      BY <2>6 DEF vars, graph, rings
    <3> QED BY <1>1, <3>1, LiveStays
  <2> QED BY <1>1, <2>1, <2>2, <2>3, <2>4, <2>5, <2>6, NextIs
<1> QED BY <1>1, TypeInvariant, BlockInvariant, LiveInit, PTL DEF Spec

(* Without a session manager no job of the worker names a module that was  *)
(* deleted before it: _sp_app_mod_del comes last for its module, once, and *)
(* a preset finds its module alive.                                        *)
THEOREM NamesStayLive == ASSUME Managed = 0 PROVE Spec => []NamesLiveModules
BY TypeInvariant, LiveInvariant, LiveInvNames, PTL
===============================================================================
