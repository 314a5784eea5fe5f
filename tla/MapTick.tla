-------------------------------- MODULE MapTick --------------------------------
(***************************************************************************)
(* What a tick of the map manager promises, whoever does the work: from the *)
(* maps it begins with it unloads some and updates the others, each once    *)
(* and in one thread; only when all of these updates have ended does it run *)
(* DelayedUpdate, on every map, one after the other; and session handlers   *)
(* and the shutdown find no thread inside a map.                            *)
(***************************************************************************)
CONSTANT Maps

VARIABLES
    maps,       \* the maps there are
    phase,      \* "sessions", the two loops "updates" and "delayed", or "stopping"
    ahead,      \* the maps the loop has not dealt with
    given,      \* maps handed out whose update has not begun
    inside      \* maps a thread is inside of

vars == <<maps, phase, ahead, given, inside>>

Init ==
    /\ maps = {}
    /\ phase = "sessions"
    /\ ahead = {} /\ given = {} /\ inside = {}

CreateMap(m) ==
    /\ phase = "sessions"
    /\ m \notin maps
    /\ maps' = maps \cup {m}
    /\ UNCHANGED <<phase, ahead, given, inside>>

BeginTick ==
    /\ phase = "sessions"
    /\ phase' = "updates"
    /\ ahead' = maps
    /\ UNCHANGED <<maps, given, inside>>

\* A map that nobody has been given yet goes, or stays because it has players.
Unload(m) ==
    /\ phase = "updates"
    /\ m \in ahead
    /\ ahead' = ahead \ {m}
    /\ maps' \in {maps, maps \ {m}}
    /\ UNCHANGED <<phase, given, inside>>

Give(m) ==
    /\ phase = "updates"
    /\ m \in ahead
    /\ ahead' = ahead \ {m}
    /\ given' = given \cup {m}
    /\ UNCHANGED <<maps, phase, inside>>

BeginUpdate(m) ==
    /\ phase = "updates"
    /\ m \in given \cap maps
    /\ m \notin inside
    /\ given' = given \ {m}
    /\ inside' = inside \cup {m}
    /\ UNCHANGED <<maps, phase, ahead>>

\* The loop itself goes into a map, to update it at once or for DelayedUpdate.
Visit(m) ==
    /\ phase \in {"updates", "delayed"}
    /\ m \in ahead \cap maps
    /\ m \notin inside
    /\ ahead' = ahead \ {m}
    /\ inside' = inside \cup {m}
    /\ UNCHANGED <<maps, phase, given>>

EndUpdate(m) ==
    /\ m \in inside
    /\ inside' = inside \ {m}
    /\ UNCHANGED <<maps, phase, ahead, given>>

\* All updates have ended.
BeginDelayed ==
    /\ phase = "updates"
    /\ ahead = {} /\ given = {} /\ inside = {}
    /\ phase' = "delayed"
    /\ ahead' = maps
    /\ UNCHANGED <<maps, given, inside>>

EndTick ==
    /\ phase = "delayed"
    /\ ahead = {} /\ inside = {}
    /\ phase' = "sessions"
    /\ UNCHANGED <<maps, ahead, given, inside>>

Stop ==
    /\ phase = "sessions"
    /\ phase' = "stopping"
    /\ UNCHANGED <<maps, ahead, given, inside>>

DeleteMaps ==
    /\ phase = "stopping"
    /\ given = {} /\ inside = {}
    /\ maps' = {}
    /\ UNCHANGED <<phase, ahead, given, inside>>

Next ==
    \/ \E m \in Maps :
        \/ CreateMap(m)
        \/ Unload(m) \/ Give(m) \/ BeginUpdate(m) \/ Visit(m) \/ EndUpdate(m)
    \/ BeginTick \/ BeginDelayed \/ EndTick
    \/ Stop \/ DeleteMaps

Spec == Init /\ [][Next]_vars
================================================================================
