---------------------------- MODULE ConfigReload ----------------------------
(***************************************************************************)
(* Hot reload of the configuration file: the notify callback, the watcher  *)
(* thread's event loop, the per-listener swap of filter pipelines and the  *)
(* generations of health checks.                                           *)
(*                                                                         *)
(* Pipelines, health registries and tokens are known by their generation:  *)
(* 1 for those of the startup, one more for each successful reload.        *)
(***************************************************************************)
EXTENDS Integers, Sequences, FiniteSets

CONSTANTS
    Listeners,      \* listeners bound at startup
    Unbound,        \* listener names that only a later config may contain
    Capacity,       \* of the mpsc channel between notify and the watcher
    MaxWrites,      \* bound: writes of the configuration file
    None

Names == Listeners \cup Unbound

\* What a write can leave in the file: "unreadable" is a removed, truncated
\* or invalid file, "unbuildable" parses but has bad log overrides or a
\* pipeline that cannot be built.
Config ==
    [ver : 0..MaxWrites, kind : {"ok", "unreadable", "unbuildable"},
     names : SUBSET Names, health : BOOLEAN]

ASSUME ReloadAssumption ==
    /\ Capacity \in Nat \ {0} /\ MaxWrites \in Nat
    /\ Listeners \cap Unbound = {}
    /\ None \notin Config

VARIABLES
    file,           \* the configuration file
    writes,         \* writes so far
    unwatched,      \* history: the last write came before the watch was set up
    events,         \* file events the notify thread has yet to report
    channel,        \* messages in the channel
    pc,             \* where the watcher thread stands
    content,        \* the configuration it read
    todo,           \* listener names of the new pipelines still to be swapped
    live,           \* generation of each listener's pipeline
    current,        \* current_config
    applied,        \* history: the configuration of each generation
    token,          \* generation of the token in health_shutdown
    cancelled,      \* generations whose token is cancelled
    threads,        \* health check threads spawned and not yet running
    probing         \* generations whose health check tasks were started

vars == <<file, writes, unwatched, events, channel, pc, content, todo, live,
          current, applied, token, cancelled, threads, probing>>

NextGeneration == Len(applied) + 1

health == <<token, cancelled, threads, probing>>
disk == <<file, writes, unwatched>>

\* The watcher is not in the middle of a reload
Idle == {"starting", "stopped", "recv", "debounce", "drain", "read", "build"}

-----------------------------------------------------------------------------
\* The server has read the file, built its pipelines and spawned the first
\* health checks; the watcher thread is about to set up the watch.
Init ==
    /\ file \in {c \in Config : c.ver = 0 /\ c.kind = "ok" /\ c.names = Listeners}
    /\ writes = 0 /\ unwatched = FALSE /\ events = 0
    /\ channel = 0
    /\ pc = "starting"
    /\ content = None
    /\ todo = {}
    /\ live = [l \in Listeners |-> 1]
    /\ current = file
    /\ applied = <<file>>
    /\ token = 1 /\ cancelled = {} /\ probing = {}
    /\ threads = IF file.health THEN {1} ELSE {}

\* Anyone writes or removes the file. A program that truncates it first makes
\* two writes. Events of a directory not yet watched are lost.
WriteFile ==
    \E kind \in {"ok", "unreadable", "unbuildable"}, names \in SUBSET Names, h \in BOOLEAN :
        /\ writes < MaxWrites
        /\ names # {}
        /\ kind # "ok" => names = Listeners /\ h
        /\ writes' = writes + 1
        /\ file' = [ver |-> writes + 1, kind |-> kind, names |-> names, health |-> h]
        /\ unwatched' = (pc = "starting")
        /\ events' = IF pc = "starting" THEN events ELSE events + 1
        /\ UNCHANGED <<channel, pc, content, todo, live, current, applied, health>>

\* setup_watcher's callback: try_send drops the message when the channel is full
TrySend == IF channel < Capacity THEN channel + 1 ELSE channel

Notify ==
    /\ events > 0 /\ pc # "stopped"
    /\ events' = events - 1
    /\ channel' = TrySend
    /\ UNCHANGED <<disk, pc, content, todo, live, current, applied, health>>

-----------------------------------------------------------------------------
(* The watcher thread                                                      *)

\* watch_loop: a watch that cannot be set up ends the thread.
SetupWatcher ==
    /\ pc = "starting"
    /\ pc' \in {"recv", "stopped"}
    /\ UNCHANGED <<disk, events, channel, content, todo, live, current, applied, health>>

\* run_event_loop
Recv ==
    /\ pc = "recv" /\ channel > 0
    /\ channel' = channel - 1
    /\ pc' = "debounce"
    /\ UNCHANGED <<disk, events, content, todo, live, current, applied, health>>

\* drain_and_debounce: the sleep, then try_recv until the channel is empty
Debounced ==
    /\ pc = "debounce"
    /\ pc' = "drain"
    /\ UNCHANGED <<disk, events, channel, content, todo, live, current, applied, health>>

TryRecv ==
    /\ pc = "drain"
    /\ \/ /\ channel > 0
          /\ channel' = channel - 1
          /\ UNCHANGED pc
       \/ /\ channel = 0
          /\ pc' = "read"
          /\ UNCHANGED channel
    /\ UNCHANGED <<disk, events, content, todo, live, current, applied, health>>

\* handle_reload: read and parse
ReadConfig ==
    /\ pc = "read"
    /\ \/ /\ file.kind = "unreadable"
          /\ pc' = "recv"
          /\ UNCHANGED content
       \/ /\ file.kind # "unreadable"
          /\ content' = file
          /\ pc' = "build"
    /\ UNCHANGED <<disk, events, channel, todo, live, current, applied, health>>

\* reload_pipelines until the first swap: every check comes before it. The
\* erroneous variant leaves out the pipelines that cannot be built.
SkipUnbuildable ==
    /\ pc = "build"
    /\ todo' = content.names
    /\ pc' = "swap"
    /\ UNCHANGED <<disk, events, channel, content, live, current, applied, health>>
ResolvePipelines ==
    /\ pc = "build"
    /\ \/ /\ content.kind = "ok"
          /\ todo' = content.names
          /\ pc' = "swap"
          /\ UNCHANGED content
       \/ /\ content.kind = "unbuildable"
          /\ content' = None
          /\ pc' = "recv"
          /\ UNCHANGED todo
    /\ UNCHANGED <<disk, events, channel, live, current, applied, health>>

\* live.swap for one listener name; a name that is not bound is skipped.
Swap ==
    \E n \in todo :
        /\ pc = "swap"
        /\ todo' = todo \ {n}
        /\ live' = [l \in Listeners |-> IF l = n THEN NextGeneration ELSE live[l]]
        /\ UNCHANGED <<disk, events, channel, pc, content, current, applied, health>>

\* respawn_health_checks: a new token replaces the old one, which is cancelled
KeepOldChecks == cancelled
CancelOldChecks == cancelled \cup {token}

RespawnHealthChecks ==
    /\ pc = "swap" /\ todo = {}
    /\ token' = NextGeneration
    /\ cancelled' = CancelOldChecks
    /\ threads' = IF content.health THEN threads \cup {NextGeneration} ELSE threads
    /\ pc' = "finish"
    /\ UNCHANGED <<disk, events, channel, content, todo, live, current, applied, probing>>

\* handle_reload after a successful reload. The erroneous variant throws away
\* the messages that came in during the reload.
FinishAndDrain ==
    /\ pc = "finish"
    /\ current' = content
    /\ applied' = Append(applied, content)
    /\ content' = None
    /\ channel' = 0
    /\ pc' = "recv"
    /\ UNCHANGED <<disk, events, todo, live, health>>
Finish ==
    /\ pc = "finish"
    /\ current' = content
    /\ applied' = Append(applied, content)
    /\ content' = None
    /\ pc' = "recv"
    /\ UNCHANGED <<disk, events, channel, todo, live, health>>

\* A health check thread gets to run: its tasks stop at once if its token was
\* cancelled before.
HealthThreadRuns ==
    \E g \in threads :
        /\ threads' = threads \ {g}
        /\ probing' = probing \cup {g}
        /\ UNCHANGED <<disk, events, channel, pc, content, todo, live, current, applied,
                       token, cancelled>>

Watcher ==
    SetupWatcher \/ Recv \/ Debounced \/ TryRecv \/ ReadConfig \/ ResolvePipelines
        \/ Swap \/ RespawnHealthChecks \/ Finish

Next == WriteFile \/ Notify \/ Watcher \/ HealthThreadRuns

\* The threads are scheduled by the operating system; nobody has to write.
Fairness == WF_vars(Notify) /\ WF_vars(Watcher) /\ WF_vars(HealthThreadRuns)

Spec == Init /\ [][Next]_vars
FairSpec == Spec /\ Fairness

-----------------------------------------------------------------------------
TypeOK ==
    /\ file \in Config /\ current \in Config
    /\ writes \in 0..MaxWrites /\ unwatched \in BOOLEAN
    /\ events \in Nat
    /\ channel \in 0..Capacity
    /\ pc \in Idle \cup {"swap", "finish"}
    /\ content \in Config \cup {None}
    /\ todo \subseteq Names
    /\ live \in [Listeners -> Nat]
    /\ applied \in Seq(Config)
    /\ token \in Nat
    /\ cancelled \subseteq Nat /\ threads \subseteq Nat /\ probing \subseteq Nat

\* Generation g is the last one whose configuration names listener l.
GoodFor(g, l) == applied[g].kind = "ok" /\ l \in applied[g].names
IsLatest(g, l) ==
    /\ g \in DOMAIN applied /\ GoodFor(g, l)
    /\ \A j \in DOMAIN applied : GoodFor(j, l) => j <= g

\* reload_pipelines "on failure ... returns Err without modifying any live
\* state" and otherwise moves every listener together: whenever no swap is
\* under way, each listener serves the last good configuration that names it,
\* through failed reloads, listeners that come and go, and changes of the file
\* while it is being loaded.
AtRest == pc \in Idle => \A l \in Listeners : IsLatest(live[l], l)

\* At most one generation of health checks is running, however late the thread
\* of a generation starts, and between reloads it is the current one's.
OneGeneration ==
    LET running == probing \ cancelled IN
    /\ Cardinality(running) <= 1
    /\ pc \in Idle => running \subseteq {Len(applied)}

\* "triggers reload_pipelines on each valid change": once writes cease, a valid
\* file written under the watch is what every listener it names serves and
\* what the health checks probe, although messages are dropped, coalesced and
\* sent while a reload is running.
Served ==
    /\ current = file
    /\ \A l \in Listeners \cap file.names :
          live[l] \in DOMAIN applied /\ applied[live[l]] = file
    /\ probing \ cancelled = IF file.health THEN {Len(applied)} ELSE {}

Converges == <>[](pc = "stopped" \/ unwatched \/ file.kind # "ok" \/ Served)
=============================================================================
