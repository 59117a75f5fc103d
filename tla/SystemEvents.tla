----------------------------- MODULE SystemEvents -----------------------------
(***************************************************************************)
(* How the plugin reports updates of WordPress and its plugins to the      *)
(* SaaS timeline (SystemEventReporter.php): hooks compare the new version  *)
(* with the one remembered in an option, remember the new one, and queue   *)
(* an event if the site is connected; a queued event is sent once.         *)
(***************************************************************************)
EXTENDS Integers, Sequences, SequencesExt

CONSTANTS
    WpPlugins,      \* plugins of the site other than this one
    WpCore          \* WordPress itself

VARIABLES
    connected,      \* whether this plugin has a stored connection
    version,        \* the version of each component that is installed
    known,          \* the version remembered in the options, 0 when there is none
    seeded,         \* the option with the plugins' versions exists
    hooks,          \* hooks that still have to run for the last update of WordPress
    queued,         \* events waiting to be sent
    timeline        \* Event rows of the SaaS

eventVars == <<version, known, seeded, hooks, queued, timeline>>

Components == WpPlugins \cup {WpCore}
Change == [of: Components, old: Nat, new: Nat]

EventTypes ==
    /\ version \in [Components -> Nat]
    /\ known \in [Components -> Nat]
    /\ seeded \in BOOLEAN
    /\ hooks \in 0..2
    /\ queued \in Seq(Change) /\ timeline \in Seq(Change)

Init ==
    /\ version = [c \in Components |-> 1]
    /\ known = [c \in Components |-> 0]
    /\ seeded = FALSE
    /\ hooks = 0
    /\ queued = <<>> /\ timeline = <<>>

(* Every request to a connected site seeds what is missing before any other hook runs. *)
Visited == connected => seeded /\ known[WpCore] # 0

(* Each option is seeded the first time a page of a connected site finds it missing. *)
EnsureBaseline ==
    /\ connected
    /\ ~seeded \/ known[WpCore] = 0
    /\ known' = [c \in Components |->
                    IF c = WpCore THEN IF known[c] = 0 THEN version[c] ELSE known[c]
                    ELSE IF seeded THEN known[c] ELSE version[c]]
    /\ seeded' = TRUE
    /\ UNCHANGED <<version, hooks, queued, timeline>>

Queue(change) == queued' = IF connected THEN Append(queued, change) ELSE queued

Remembered(c) == [known EXCEPT ![c] = version[c]]

(* upgrader_process_complete, for the update of a plugin. *)
UpdatePlugin(p) ==
    /\ Visited
    /\ version' = [version EXCEPT ![p] = @ + 1]
    /\ known' = [known EXCEPT ![p] = version[p] + 1]
    /\ seeded' = TRUE
    /\ Queue([of |-> p, old |-> known[p], new |-> version[p] + 1])
    /\ UNCHANGED <<hooks, timeline>>

(* An update of WordPress itself runs two hooks, both of which end in onCoreUpdated. *)
UpdateCore ==
    /\ Visited /\ hooks = 0
    /\ version' = [version EXCEPT ![WpCore] = @ + 1]
    /\ hooks' = 2
    /\ UNCHANGED <<known, seeded, queued, timeline>>

CoreHookAlways ==                               \* mutant: the remembered version is not compared
    /\ hooks > 0
    /\ hooks' = hooks - 1
    /\ known' = Remembered(WpCore)
    /\ Queue([of |-> WpCore, old |-> known[WpCore], new |-> version[WpCore]])
    /\ UNCHANGED <<version, seeded, timeline>>

CoreHookTwice ==                                \* mutant: the hook runs once more
    /\ version[WpCore] > 1
    /\ hooks' = hooks - 1
    /\ UNCHANGED <<version, known, seeded, queued, timeline>>

CoreHook ==
    /\ hooks > 0
    /\ hooks' = hooks - 1
    /\ IF known[WpCore] = version[WpCore]
         THEN UNCHANGED <<known, queued>>
         ELSE /\ known' = Remembered(WpCore)
              /\ Queue([of |-> WpCore, old |-> known[WpCore], new |-> version[WpCore]])
    /\ UNCHANGED <<version, seeded, timeline>>

(* Queued events may be sent in any order; one that fails is dropped. *)
Deliver(i, arrives) ==
    /\ i \in DOMAIN queued
    /\ queued' = RemoveAt(queued, i)
    /\ timeline' = IF connected /\ arrives THEN Append(timeline, queued[i]) ELSE timeline
    /\ UNCHANGED <<version, known, seeded, hooks>>

Next ==
    /\ \/ EnsureBaseline \/ UpdateCore \/ CoreHook
       \/ \E p \in WpPlugins : UpdatePlugin(p)
       \/ \E i \in DOMAIN queued, arrives \in BOOLEAN : Deliver(i, arrives)
    /\ UNCHANGED connected

Spec == Init /\ [][Next]_<<eventVars, connected>>
=============================================================================
