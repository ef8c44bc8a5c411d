------------------------------ MODULE Startup ------------------------------
(***************************************************************************)
(* How a live hotseat match is brought up without a hand on the keyboard:  *)
(* scripts/live_zero_touch.py, with the scripts that it sends to the game  *)
(* (live_hotseat_launch.py, live_newgame.py, live_seat_check.py).  A game  *)
(* is hosted and saved, the process started anew, the save loaded, its     *)
(* seats are made human again, and only then the driver runs.              *)
(*                                                                         *)
(* A poll that is given up after so many tries is one that may be given up *)
(* at any time, and so is every step, by its deadline.                     *)
(***************************************************************************)
EXTENDS Naturals, Sequences

File == {"autosave", "quicksave", "slot"}
Seat == {0, 1}

VARIABLES
  opts,     \* [arch1, killFirst, freshX, config]
  pc, code, \* where the launcher is; the gate that stopped it, 0 for none
  game,     \* [up, screen, tuner, world, core, cfg, extra]
  saves,    \* [File -> [world, fresh, whole]]
  kept,     \* [File -> worlds]: the copies in the artifacts
  rewrote,  \* what the former game overwrote itself
  record,   \* the startup's events
  driver    \* none, running, told to end, ended

vars == <<opts, pc, code, game, saves, kept, rewrote, record, driver>>
gameVars == <<game, saves, rewrote>>
ownVars == <<opts, kept, record, driver>>

\* A world is that of a game from before (old, and late once it is saved again) or
\* of the one that this session hosts.  core and cfg are the seats that the game and
\* its configuration take for human; extra is an open slot of a third major.
Off == [up |-> FALSE, screen |-> "none", tuner |-> FALSE, world |-> "none",
        core |-> {}, cfg |-> {}, extra |-> FALSE]
Save(world) == [world |-> world, fresh |-> TRUE, whole |-> TRUE]

Init ==
  /\ opts \in {o \in [arch1 : BOOLEAN, killFirst : BOOLEAN, freshX : BOOLEAN, config : BOOLEAN] :
                 ~o.arch1 => ~o.config}
  /\ pc = "allocate" /\ code = 0
  /\ game \in {Off, [Off EXCEPT !.up = TRUE, !.screen = "menu", !.tuner = TRUE],
               [Off EXCEPT !.up = TRUE, !.screen = "map", !.tuner = TRUE, !.world = "old",
                           !.core = {0}, !.cfg = {0}]}
  /\ saves = [f \in File |-> Save("old")] /\ kept = [f \in File |-> {}] /\ rewrote = {}
  /\ record = <<>> /\ driver = "none"

-----------------------------------------------------------------------------
(* The game by itself. *)
Alive == game.up /\ pc # "gone"

Boots ==
  /\ Alive /\ game.screen = "boot"
  /\ \E bound \in BOOLEAN : game' = [game EXCEPT !.screen = "menu", !.tuner = bound]
  /\ UNCHANGED <<pc, code, saves, rewrote, ownVars>>

Dies ==
  /\ Alive /\ game' = [game EXCEPT !.up = FALSE]
  /\ UNCHANGED <<pc, code, saves, rewrote, ownVars>>

\* A game on the map saves by itself, each hotseat turn among them.
Autosaves ==
  /\ Alive /\ game.screen = "map" /\ \E f \in {"autosave", "slot"} :
       /\ f = "slot" => game.world # "ours"
       /\ saves' = [saves EXCEPT ![f] = Save(IF game.world = "ours" THEN "ours" ELSE "late")]
       /\ rewrote' = IF game.world = "ours" THEN rewrote ELSE rewrote \cup {f}
  /\ UNCHANGED <<pc, code, game, ownVars>>

SaveCompletes ==
  /\ Alive /\ ~saves["quicksave"].whole
  /\ saves' = [saves EXCEPT !["quicksave"].whole = TRUE]
  /\ UNCHANGED <<pc, code, game, rewrote, ownVars>>

\* The map of a loaded game is there when its save was whole; its tuner binds late.
MapForms ==
  /\ Alive /\ game.screen = "loading" /\ game.world # "torn"
  /\ game' = [game EXCEPT !.screen = "map", !.tuner = TRUE]
  /\ UNCHANGED <<pc, code, saves, rewrote, ownVars>>

-----------------------------------------------------------------------------
(* The launcher's steps.  A gate that fails stops it with its code. *)
To(next) == pc' = next /\ UNCHANGED code
Stop(n) == pc' = "seal" /\ code' = n
At(step) == pc = step

\* The plain ladder keeps no record.
Allocate ==
  /\ At("allocate")
  /\ IF opts.arch1
     THEN \/ To("copy") /\ record' = <<"MATCH_START">>
          \/ pc' = "gone" /\ code' = 1 /\ UNCHANGED record   \* the run exists
     ELSE To("preflight") /\ UNCHANGED record
  /\ UNCHANGED <<gameVars, opts, kept, driver>>

\* Every save is copied before anything is done to the game.
Copy ==
  /\ At("copy") /\ To("preflight")
  /\ kept' = [f \in File |-> kept[f] \cup {saves[f].world}]
  /\ UNCHANGED <<gameVars, opts, record, driver>>

\* A display without an output; the session refuses to restart X under a game that is
\* to stay.
Preflight ==
  /\ At("preflight")
  /\ IF opts.arch1 /\ opts.freshX /\ ~opts.killFirst THEN Stop(2)
     ELSE Stop(2) \/ To(IF opts.freshX THEN "bounce" ELSE "restart")
  /\ UNCHANGED <<gameVars, ownVars>>

BounceX ==
  /\ At("bounce") /\ (To("restart") \/ Stop(20))
  /\ game' \in {game, Off}
  /\ UNCHANGED <<saves, rewrote, ownVars>>

\* kill_game, which gives up after three signals, and launch, which does nothing
\* while a game runs.
Restarted ==
  game' \in {[Off EXCEPT !.up = TRUE, !.screen = "boot"]} \cup (IF game.up THEN {game} ELSE {})
Restart ==
  /\ At("restart") /\ To("menu")
  /\ IF opts.killFirst THEN Restarted ELSE UNCHANGED game
  /\ UNCHANGED <<saves, rewrote, ownVars>>

\* wait_for: a listener, and a state of that name behind it.
Shows(screen) == game.up /\ game.tuner /\ game.screen = screen
WaitsFor(step, screen, next, gates) ==
  /\ At(step) /\ ((Shows(screen) /\ To(next)) \/ \E n \in gates : Stop(n))
  /\ UNCHANGED <<gameVars, ownVars>>

Menu == WaitsFor("menu", "menu", IF opts.arch1 THEN "normalize" ELSE "config",
                 IF opts.arch1 THEN {21, 22} ELSE {1, 2})
Menu2 == WaitsFor("menu2", "menu", "normalize2", {27, 28})
Ingame == WaitsFor("ingame", "map", IF opts.arch1 THEN "reflag" ELSE "smoke",
                   {IF opts.arch1 THEN 30 ELSE 6})

\* normalize_game_window: one connection that sets the size the clicks count on.
Normalized(step, next) ==
  /\ At(step) /\ ((Shows("menu") /\ To(next)) \/ Stop(2))
  /\ UNCHANGED <<gameVars, ownVars>>
Normalize == Normalized("normalize", "host") \/ Normalized("normalize2", "load")

\* live_hotseat_launch --full --ui-start: two human seats with empty passwords and no
\* other major, read back; hosting ends the tuner.  The screen may set its defaults up
\* again before it is left.
Host ==
  /\ At("host")
  /\ \/ /\ Shows("menu") /\ To("ready")
        /\ \E reopened \in BOOLEAN :
             game' = [game EXCEPT !.screen = "staging", !.tuner = FALSE, !.world = "ours",
                                  !.core = Seat, !.cfg = Seat, !.extra = reopened]
     \/ Stop(23) /\ game' \in {game, Off}
  /\ UNCHANGED <<saves, rewrote, ownVars>>

\* The guard that is bound to the Ready button sets up, closes, sets up once more and
\* launches only what it then finds: two humans and nobody else.
Launches(extra) == ~extra
Ready ==
  /\ At("ready")
  /\ \/ /\ To("enter")
        /\ saves' = [f \in File |-> [saves[f] EXCEPT !.fresh = FALSE]]   \* session_start
        /\ \E reopened \in BOOLEAN :
             game' = [game EXCEPT !.extra = reopened,
                        !.screen = IF @ = "staging" /\ Launches(reopened) THEN "intro" ELSE @]
     \/ Stop(2) /\ UNCHANGED <<game, saves>>
  /\ UNCHANGED <<rewrote, ownVars>>

\* Banner and Return, until the first save of this game is seen.
Landed_Exists(f) == TRUE  \* mutant: mtime is not looked at
Landed(f) == saves[f].fresh
EnterInput ==
  /\ At("enter") /\ ~Landed("autosave") /\ game.up /\ game.screen = "intro"
  /\ game' = [game EXCEPT !.screen = "map"]
  /\ UNCHANGED <<pc, code, saves, rewrote, ownVars>>
Enter ==
  /\ At("enter") /\ (IF Landed("autosave") THEN To("quicksave") ELSE Stop(24))
  /\ UNCHANGED <<gameVars, ownVars>>

\* Escape and a click: the file is seen as soon as it is begun.
Quicksave ==
  /\ At("quicksave") /\ To("quicksaved")
  /\ \/ game.up /\ game.screen = "map"
        /\ saves' = [saves EXCEPT !["quicksave"] = [Save(game.world) EXCEPT !.whole = FALSE]]
     \/ UNCHANGED saves
  /\ UNCHANGED <<game, rewrote, ownVars>>

QuicksaveLanded ==
  /\ At("quicksaved") /\ (IF Landed("quicksave") THEN To("swap") ELSE Stop(25))
  /\ UNCHANGED <<gameVars, ownVars>>

\* The quicksave goes where LoadGame looks, and what was there to the artifacts.
Swap ==
  /\ At("swap") /\ To("restart2")
  /\ kept' = [kept EXCEPT !["slot"] = @ \cup {saves["slot"].world}]
  /\ saves' = [saves EXCEPT !["slot"] = saves["quicksave"]]
  /\ UNCHANGED <<game, rewrote, opts, record, driver>>

Restart2 ==
  /\ At("restart2") /\ To("menu2") /\ Restarted
  /\ UNCHANGED <<saves, rewrote, ownVars>>

\* LoadGame without a server resolves its name to one of two files, and leaves the
\* second seat to the computer.
Load ==
  /\ At("load")
  /\ \/ /\ Shows("menu") /\ To("ingame")
        /\ \E f \in {"slot", "autosave"} :
             game' = [game EXCEPT !.screen = "loading", !.tuner = FALSE, !.core = {0}, !.cfg = {0},
                        !.world = IF saves[f].whole THEN saves[f].world ELSE "torn"]
     \/ Stop(29) /\ UNCHANGED game
  /\ UNCHANGED <<saves, rewrote, ownVars>>

\* The slot is read back from the configuration, which may say so while the game
\* does not, and the other way round.
Reflag ==
  /\ At("reflag")
  /\ \/ /\ Shows("map")
        /\ \E core, cfg \in {{0}, Seat} :
             game' = [game EXCEPT !.core = core, !.cfg = cfg]
        /\ IF game'.cfg = Seat THEN To("census") ELSE Stop(31)
     \/ Stop(31) /\ UNCHANGED game
  /\ UNCHANGED <<saves, rewrote, ownVars>>

TwoHumanMajors_Configured(seen) == game.cfg = Seat /\ ~game.extra  \* mutant
\* verify_two_major_census, of a whole census: what the game says counts, and the
\* configuration where it can be seen.
TwoHumanMajors(seen) == game.core = Seat /\ (seen => game.cfg = Seat) /\ ~game.extra
Census ==
  /\ At("census")
  /\ \/ Shows("map") /\ (\E seen \in BOOLEAN : TwoHumanMajors(seen)) /\ To("smoke")
     \/ Stop(31)
  /\ UNCHANGED <<gameVars, ownVars>>

\* firetuner_smoke, unless it is left out.
Smoke ==
  /\ At("smoke") /\ ((pc' = "seal" /\ UNCHANGED code) \/ Stop(IF opts.arch1 THEN 32 ELSE 7))
  /\ UNCHANGED <<gameVars, ownVars>>

\* The plain ladder: one human seat, hosted at once, and the banner clicked.
Config ==
  /\ At("config")
  /\ \/ /\ Shows("menu") /\ To("ingame")
        /\ game' = [game EXCEPT !.screen = "loading", !.tuner = FALSE, !.world = "ours",
                                !.core = {0}, !.cfg = {0}]
     \/ \E n \in 3..5 : Stop(n) /\ game' \in {game, [game EXCEPT !.screen = "staging"]}
  /\ UNCHANGED <<saves, rewrote, ownVars>>

-----------------------------------------------------------------------------
(* The end of the startup. *)
Session == {"copy", "preflight", "bounce", "restart", "menu", "normalize", "host", "ready",
            "enter", "quicksave", "quicksaved", "swap", "restart2", "menu2", "normalize2", "load",
            "ingame", "reflag", "census", "smoke", "config"}

\* The startup timeout, a signal, or an exception anywhere in it.
Interrupted ==
  /\ pc \in Session /\ Stop(2)
  /\ UNCHANGED <<gameVars, ownVars>>

\* Whatever happened is sealed; the driver runs in what is left of the budget, if
\* anything is.
Clean == code = 0
Seal ==
  /\ At("seal")
  /\ record' = IF opts.arch1 THEN Append(record, IF Clean THEN "CLEAN_END" ELSE "END") ELSE record
  /\ IF opts.arch1 /\ Clean /\ opts.config
     THEN pc' = "dispatch" /\ driver' = "running" ELSE pc' = "gone" /\ UNCHANGED driver
  /\ UNCHANGED <<gameVars, code, opts, kept>>

\* The driver ends, or the launcher is told to and passes it on; told once more, it
\* does not wait for it.
DriverEnds ==
  /\ driver \in {"running", "told"} /\ driver' = "ended"
  /\ UNCHANGED <<gameVars, pc, code, opts, kept, record>>
Dispatch ==
  /\ At("dispatch")
  /\ \/ driver = "ended" /\ pc' = "gone" /\ UNCHANGED driver
     \/ driver = "running" /\ driver' = "told" /\ UNCHANGED pc
     \/ driver = "told" /\ pc' = "gone" /\ driver' \in {"told", "ended"}
  /\ UNCHANGED <<gameVars, code, opts, kept, record>>

Next ==
  \/ Boots \/ Dies \/ Autosaves \/ SaveCompletes \/ MapForms
  \/ Allocate \/ Copy \/ Preflight \/ BounceX \/ Restart \/ Menu \/ Normalize
  \/ Host \/ Ready \/ EnterInput \/ Enter \/ Quicksave \/ QuicksaveLanded \/ Swap
  \/ Restart2 \/ Menu2 \/ Load \/ Ingame \/ Reflag \/ Census \/ Smoke \/ Config
  \/ Interrupted \/ Seal \/ DriverEnds \/ Dispatch

Spec == Init /\ [][Next]_vars

-----------------------------------------------------------------------------
\* The driver meets the game that this session hosted, loaded from a whole save of
\* it, with two majors that are both human, however the files, processes and seats
\* of before linger, unless that game has died since (run_arch1_session).
DriverMeetsItsGame ==
  driver = "running" /\ game.up =>
    game.screen = "map" /\ game.world = "ours" /\ game.core = Seat /\ ~game.extra

\* No save from before the session is lost to it: what is not in its place any more
\* is in the artifacts, or a former game has overwritten it itself.
SavesAreKept ==
  opts.arch1 => \A f \in File :
    saves[f].world = "old" \/ "old" \in kept[f] \/ f \in rewrote

\* A startup that began has one end, clean exactly if a driver may run; and the
\* launcher leaves no driver that it has not told to end.
EndsOnRecord ==
  /\ pc = "gone" /\ record # <<>> => Len(record) = 2
  /\ driver # "none" => record = <<"MATCH_START", "CLEAN_END">>
  /\ pc = "gone" => driver # "running"
=============================================================================
