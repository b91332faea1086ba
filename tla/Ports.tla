------------------------------- MODULE Ports --------------------------------
(***************************************************************************)
(* The connections of the patch: src/app/synthpod_app_port.c and what      *)
(* calls it.  An input port has an array of sources; an audio connection   *)
(* carries a ramp, and it is the end of that ramp that removes it, deletes *)
(* its module or lets a preset be loaded.  Everything here happens in the  *)
(* realtime thread: per period it ejects a module (pre), takes messages of *)
(* the UI (ui) and runs the modules (run).                                 *)
(*                                                                         *)
(* A source is [port, state, left]; left counts the periods of the ramp.   *)
(* The place of a source in the array matters: removing one moves the      *)
(* ports behind it, and nothing else, one place forward.  Gains move no    *)
(* state and are left out.                                                 *)
(***************************************************************************)
EXTENDS Integers, Sequences, FiniteSets

CONSTANTS
  Mods,         \* the modules of the patch
  Outs, Ins,    \* their output and input ports ...
  Owner,        \* ... and the module of each
  Audio,        \* the ports that carry audio; the others are never ramped
  Links,        \* the pairs <<output, input>> a user connects
  RampPeriods,  \* periods in app->ramp_samples
  MaxSources,   \* MAX_SOURCES
  NoMod

ASSUME PortAssumption ==
  /\ Owner \in [Outs \cup Ins -> Mods] /\ NoMod \notin Mods /\ Outs \cap Ins = {}
  /\ Links \subseteq Outs \X Ins
  /\ \A l \in Links : l[1] \in Audio <=> l[2] \in Audio
  /\ RampPeriods \in Nat \ {0} /\ MaxSources \in Nat \ {0}

VARIABLES
  mods,         \* app->mods
  sources,      \* of each input port, up to num_sources
  deleting,     \* the modules with delete_request
  silence,      \* app->silence_state
  loading,      \* the module a preset is being loaded to, which stops the UI's queue
  phase,        \* what the realtime thread does next
  wanted,       \* ghost: the connections the user has asked for
  doomed,       \* ghost: the modules the user has removed
  calm          \* ghost: no order has met a ramp or a full array

vars == <<mods, sources, deleting, silence, loading, phase, wanted, doomed, calm>>

OutsOf(m) == {o \in Outs : Owner[o] = m}

Init ==
  /\ mods = Mods
  /\ sources = [i \in Ins |-> <<>>]
  /\ deleting = {} /\ silence = "run" /\ loading = NoMod /\ phase = "pre"
  /\ wanted = {} /\ doomed = {} /\ calm = TRUE

----------------------------------------------------------------------------
(* One array of sources *)

\* Mutant of HasSource: the search ends before the last source.
HasSourceShort(conn, o) == \E s \in DOMAIN conn : s < Len(conn) /\ conn[s].port = o

\* _sp_app_port_connected
HasSource(conn, o) == \E s \in DOMAIN conn : conn[s].port = o

\* Mutant of Cut: the last source goes, whichever was meant.
CutLast(conn, ports) ==
  IF \E o \in ports : HasSource(conn, o) THEN SubSeq(conn, 1, Len(conn) - 1) ELSE conn

\* The place of the s-th source that is kept.
Kept(conn, ports) == {s \in DOMAIN conn : conn[s].port \notin ports}
Place(kept, s) == CHOOSE k \in kept : Cardinality({j \in kept : j <= k}) = s

\* _sp_app_port_disconnect, of some output ports: only the ports behind them move up.
Cut(conn, ports) ==
  LET kept == Kept(conn, ports)
  IN  [s \in 1..Cardinality(kept) |-> [conn[s] EXCEPT !.port = conn[Place(kept, s)].port]]

\* Mutant of Start: counts the period it begins in twice.
StartLong(conn, at, state) ==
  [s \in DOMAIN conn |-> IF s \in at THEN [conn[s] EXCEPT !.state = state, !.left = RampPeriods + 1]
                                     ELSE conn[s]]

\* A ramp begins on the places `at` of an array.
Start(conn, at, state) ==
  [s \in DOMAIN conn |-> IF s \in at THEN [conn[s] EXCEPT !.state = state, !.left = RampPeriods]
                                     ELSE conn[s]]

\* _sp_app_port_silence_request and _sp_app_port_desilence: whatever ramp there is.
Ramp(conn, ports, state) ==
  Start(conn, {s \in DOMAIN conn : conn[s].port \in ports \cap Audio}, state)

\* _sp_app_port_disconnect_request: audio that is not ramped already fades out,
\* what is no audio is cut at once.
DropRequest(conn, ports, state) ==
  Cut(Start(conn, {s \in DOMAIN conn : /\ conn[s].port \in ports \cap Audio
                                       /\ conn[s].state = "none"}, state),
      ports \ Audio)

\* A loop over conn->sources by index that drops or cuts each: after one that is
\* cut at once it passes over the next.
DropAt(conn, s) == IF s > Len(conn) THEN conn ELSE DropRequest(conn, {conn[s].port}, "down")
DropAll(conn) ==
  LET after[s \in 0..Len(conn)] == IF s = 0 THEN conn ELSE DropAt(after[s - 1], s)
  IN  after[Len(conn)]

CutAt(conn, s) == IF s > Len(conn) THEN conn ELSE Cut(conn, {conn[s].port})
CutAll(conn) ==
  LET after[s \in 0..Len(conn)] == IF s = 0 THEN conn ELSE CutAt(after[s - 1], s)
  IN  after[Len(conn)]

\* Mutant of RampEnd: a removal that deletes its module leaves the connection.
RampEndKeeps(run, s) ==
  LET src == run.conn[s]
      cut == IF src.state = "down" THEN Cut(run.conn, {src.port}) ELSE run.conn
  IN  [conn |-> IF src.state = "drain" THEN [run.conn EXCEPT ![s].left = 0]
                ELSE [q \in DOMAIN cut |-> IF q = s THEN [cut[q] EXCEPT !.state = "none"]
                                                    ELSE cut[q]],
       dels |-> run.dels,
       wait |-> run.wait \/ src.state = "drain"]

\* _update_ramp at the end of a ramp, of the source in place s.  Where the source
\* is cut, the ramp of the one that takes its place is cleared.
RampEnd(run, s) ==
  LET src == run.conn[s]
      cut == IF src.state \in {"down", "del"} THEN Cut(run.conn, {src.port}) ELSE run.conn
  IN  [conn |-> IF src.state = "drain" THEN [run.conn EXCEPT ![s].left = 0]
                ELSE [q \in DOMAIN cut |-> IF q = s THEN [cut[q] EXCEPT !.state = "none"]
                                                    ELSE cut[q]],
       dels |-> run.dels \cup IF src.state = "del" THEN {Owner[src.port]} ELSE {},
       wait |-> run.wait \/ src.state = "drain"]

\* Mutant of UpdateRamp: a mute counts as complete one period early.
UpdateRampEarly(run, s) ==
  IF s > Len(run.conn) \/ run.conn[s].state = "none" THEN run
  ELSE IF run.conn[s].left > 1
  THEN [conn |-> [run.conn EXCEPT ![s].left = @ - 1], dels |-> run.dels,
        wait |-> run.wait \/ run.conn[s].state = "drain"]
  ELSE RampEnd(run, s)

\* _update_ramp, of the source in place s if there is one and it has a ramp.
UpdateRamp(run, s) ==
  IF s > Len(run.conn) \/ run.conn[s].state = "none" THEN run
  ELSE IF run.conn[s].left > 1 THEN [run EXCEPT !.conn[s].left = @ - 1]
  ELSE RampEnd(run, s)

\* _port_audio_multiplex, as far as it changes anything but audio.
Multiplex(conn) ==
  LET start == [conn |-> conn, dels |-> {}, wait |-> FALSE]
      after[s \in 0..Len(conn)] == IF s = 0 THEN start ELSE UpdateRamp(after[s - 1], s)
  IN  after[Len(conn)]

----------------------------------------------------------------------------
(* All arrays *)

InPatch(i) == Owner[i] \in mods

\* Mutant of Ejected: the sinks of the module keep their sources.
EjectedHalf(srcs, m) ==
  [i \in Ins |-> IF Owner[i] = m THEN CutAll(srcs[i]) ELSE srcs[i]]

\* _sp_app_mod_eject: the module's own inputs and whatever in the patch it feeds.
Ejected(srcs, m) ==
  [i \in Ins |-> IF Owner[i] = m THEN CutAll(srcs[i])
                 ELSE IF InPatch(i) THEN Cut(srcs[i], OutsOf(m)) ELSE srcs[i]]

\* A ramp on all audio connections from m.
Ramped(m, state) ==
  [i \in Ins |-> IF InPatch(i) THEN Ramp(sources[i], OutsOf(m), state) ELSE sources[i]]

\* The loops of _mod_list_rem: the module's sources go, its sinks take it along.
Faded(m) ==
  [i \in Ins |-> IF Owner[i] = m THEN DropAll(sources[i])
                 ELSE IF InPatch(i) THEN DropRequest(sources[i], OutsOf(m), "del")
                 ELSE sources[i]]

FedBy(m) == {i \in Ins : InPatch(i) /\ \E o \in OutsOf(m) : HasSource(sources[i], o)}
NeedsRamping(m) == \E i \in FedBy(m), o \in OutsOf(m) \cap Audio : HasSource(sources[i], o)

\* For `calm`: no order meets a ramp that another started.
Falling(i) == \E s \in DOMAIN sources[i] : sources[i][s].state \in {"down", "del", "drain"}
Steady(o, i) == \A s \in DOMAIN sources[i] : sources[i][s].port = o => sources[i][s].state = "none"
Touching(m) == {l \in Links : m \in {Owner[l[1]], Owner[l[2]]}}

----------------------------------------------------------------------------
(* Messages of the UI *)

Ui == phase = "ui" /\ loading = NoMod

\* _connection_list_add, _sp_app_port_connect: a new audio connection fades in; one
\* that exists, or finds the array full, changes nothing.
Connect(l) ==
  LET o == l[1]
      conn == sources[l[2]]
      new == IF o \in Audio THEN [port |-> o, state |-> "up", left |-> RampPeriods]
             ELSE [port |-> o, state |-> "none", left |-> 0]
  IN
  /\ Ui /\ Owner[o] \in mods /\ InPatch(l[2])
  /\ sources' = [sources EXCEPT ![l[2]] =
       IF ~HasSource(conn, o) /\ Len(conn) < MaxSources THEN Append(conn, new) ELSE conn]
  /\ wanted' = wanted \cup {l}
  /\ calm' = (/\ calm /\ ~Falling(l[2]) /\ {Owner[o], Owner[l[2]]} \cap doomed = {}
              /\ HasSource(conn, o) \/ Len(conn) < MaxSources)
  /\ UNCHANGED <<mods, deleting, silence, loading, phase, doomed>>

\* _connection_list_rem
Disconnect(l) ==
  /\ Ui /\ Owner[l[1]] \in mods /\ Owner[l[2]] \in mods
  /\ HasSource(sources[l[2]], l[1])
  /\ sources' = [sources EXCEPT ![l[2]] = DropRequest(@, {l[1]}, "down")]
  /\ wanted' = wanted \ {l}
  /\ calm' = (calm /\ ~Falling(l[2]) /\ Steady(l[1], l[2]))
  /\ UNCHANGED <<mods, deleting, silence, loading, phase, doomed>>

\* _mod_list_rem: with nothing to fade out the module is ejected at once.
RemoveModule(m) ==
  /\ Ui /\ m \in mods
  /\ IF NeedsRamping(m)
     THEN sources' = Faded(m) /\ UNCHANGED mods
     ELSE sources' = Ejected(Faded(m), m) /\ mods' = mods \ {m}
  /\ doomed' = doomed \cup {m}
  /\ wanted' = wanted \ Touching(m)
  /\ calm' = (/\ calm /\ m \notin doomed /\ \A i \in FedBy(m) : ~Falling(i)
              /\ \A l \in Touching(m) : Steady(l[1], l[2]))
  /\ UNCHANGED <<deleting, silence, loading, phase>>

\* A preset is asked for: the module is muted first (_mod_needs_ramping).
PresetLoad(m) ==
  /\ Ui /\ m \in mods
  /\ sources' = Ramped(m, "drain")
  /\ silence' = IF NeedsRamping(m) THEN "block" ELSE "run"
  /\ loading' = m
  /\ calm' = (calm /\ m \notin doomed /\ \A i \in FedBy(m) : ~Falling(i))
  /\ UNCHANGED <<mods, deleting, phase, wanted, doomed>>

----------------------------------------------------------------------------
(* The period *)

\* The reply to the preset job, which is sent once the module is silent: its
\* connections fade in again.
PresetLoaded ==
  /\ phase = "pre" /\ loading # NoMod /\ silence # "block"
  /\ IF silence = "wait"
     THEN sources' = Ramped(loading, "up") /\ silence' = "run"
     ELSE UNCHANGED <<sources, silence>>
  /\ loading' = NoMod
  /\ UNCHANGED <<mods, deleting, phase, wanted, doomed, calm>>

\* sp_app_run_pre ejects one module of those marked, the first in the order the
\* user has given them.
Pre ==
  /\ phase = "pre" /\ phase' = "ui"
  /\ IF deleting \cap mods = {} THEN UNCHANGED <<mods, sources, deleting>>
     ELSE \E m \in deleting \cap mods :
            /\ mods' = mods \ {m}
            /\ sources' = Ejected(sources, m)
            /\ deleting' = deleting \ {m}
  /\ UNCHANGED <<silence, loading, wanted, doomed, calm>>

\* All modules run; each of their audio inputs is multiplexed.
Run ==
  LET ran == [i \in {j \in Ins : InPatch(j)} |-> Multiplex(sources[i])]
  IN
  /\ phase = "ui" /\ phase' = "pre"
  /\ sources' = [i \in Ins |-> IF InPatch(i) THEN ran[i].conn ELSE sources[i]]
  /\ deleting' = deleting \cup UNION {ran[i].dels : i \in DOMAIN ran}
  /\ silence' = IF \E i \in DOMAIN ran : ran[i].wait THEN "wait" ELSE silence
  /\ UNCHANGED <<mods, loading, wanted, doomed, calm>>

Period == Pre \/ Run

Next ==
  \/ \E l \in Links : Connect(l)
  \/ \E l \in Links : Disconnect(l)
  \/ \E m \in Mods : RemoveModule(m)
  \/ \E m \in Mods : PresetLoad(m)
  \/ PresetLoaded \/ Period

Spec == Init /\ [][Next]_vars

\* The driver calls one period after the other.  Half of it can always be taken, so
\* this is its weak fairness.
FairSpec == Spec /\ []<><<Period>>_vars

----------------------------------------------------------------------------
(* Properties *)

Source == [port : Outs, state : {"none", "up", "down", "del", "drain"},
           left : 0..RampPeriods]

TypeOK ==
  /\ mods \subseteq Mods /\ deleting \subseteq Mods /\ doomed \subseteq Mods
  /\ sources \in [Ins -> Seq(Source)]
  /\ \A i \in Ins : Len(sources[i]) <= MaxSources
  /\ silence \in {"run", "block", "wait"} /\ loading \in Mods \cup {NoMod}
  /\ phase \in {"pre", "ui"} /\ calm \in BOOLEAN
  /\ wanted \subseteq Links

Connected(l) == InPatch(l[2]) /\ HasSource(sources[l[2]], l[1])

\* No module in the patch has a source in a module that has left it, whose memory
\* the worker frees, whatever the orders and ramps (app_mod.c, lines 1161 to 1180).
NoDanglingSource ==
  \A i \in Ins : InPatch(i) =>
    \A s \in DOMAIN sources[i] : Owner[sources[i][s].port] \in mods

\* A port is no source of another twice: cutting it takes one away and leaves none
\* (port.c, lines 220 to 279).
NoSourceTwice ==
  \A i \in Ins : \A s, r \in DOMAIN sources[i] :
    sources[i][s].port = sources[i][r].port => s = r

\* No module feeds an input by two of its audio ports: two fade-outs of one removal
\* never end side by side in one array.
Separate ==
  \A k, l \in Links :
    k[2] = l[2] /\ {k[1], l[1]} \subseteq Audio /\ Owner[k[1]] = Owner[l[1]] => k = l

\* If orders keep clear of ramps, the end of one ramp cuts no connection and deletes
\* no module but those the user let go.
NothingElseCut ==
  calm /\ Separate => /\ \A l \in wanted : Connected(l)
          /\ Mods \ mods \subseteq doomed /\ deleting \subseteq doomed

\* Whoever is marked for removal by the end of a ramp ("mark module for removal",
\* port.c, line 443) is a module the user removed, orders that meet ramps aside.
OnlyRemovedMarked == calm => deleting \subseteq doomed

\* If orders keep clear of ramps, a module is fully silent when its preset is
\* loaded: "fully silenced, continue with preset loading" (port.c, line 448).
SilentForPreset ==
  calm /\ Separate /\ loading # NoMod /\ silence # "block" =>
    \A i \in Ins : InPatch(i) =>
      \A s \in DOMAIN sources[i] :
        LET src == sources[i][s]
        IN  Owner[src.port] = loading /\ src.port \in Audio => src.state = "drain" /\ src.left = 0

\* If orders keep clear of ramps and the user asks for nothing new, what was removed is gone in the
\* end and what was connected stays: a fade-out that never ends, or whose end is
\* taken for another's, leaves a connection or a module behind.
AsOrdered == /\ mods \cap doomed = {}
             /\ \A l \in Links : Connected(l) <=> l \in wanted
OrdersDone == <>[][UNCHANGED <<wanted, doomed>>]_vars => <>[](calm /\ Separate => AsOrdered)
=============================================================================
