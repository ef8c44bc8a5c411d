----------------------------- MODULE MCAgents -----------------------------
(* For TLC: the referee's duel, and what plays at its seats.  A behaviour  *)
(* belongs to one of them and the others rest in an initial state.         *)
EXTENDS MCReferee

CONSTANTS
  u1,
  Cadence, MaxRounds, MaxRequests, MaxRetries, MaxUses, SeatTurns, MaxKills,
  MaxDecisions,                                                  \* of LlmSeat
  Start, Land, Guards,
  MaxPlanTurns, MaxRelocations, MaxGuardHolds, CapitalTurns, MaxMishaps,  \* of Capital
  Site, Wait, TTL, MaxCities, MaxReplans, LastTurn, MaxEvents,   \* of Expansion
  Tile, Blocked, Named,
  Health, EnterBelow, ResumeAt, SuppressFor, ScoutTurns,          \* of Scouting
  None, Gone

\* 0 < enter_below_percent < resume_at_percent <= 100 in the code.
ASSUME ScoutingAssumption ==
  /\ Tile \subseteq Int /\ 1 \in Tile /\ Named \subseteq Int /\ None \notin Int
  /\ Health \subseteq Int /\ EnterBelow \in Int /\ ResumeAt \in Int /\ EnterBelow < ResumeAt
  /\ SuppressFor \in Nat /\ ScoutTurns \in Nat
  /\ None \notin [recovering : BOOLEAN]
  /\ None \notin [action : {"hold", "move"}, dest : Int \cup {None}]
  /\ None \notin [origin : Int, dest : Int, turn : Int]
  /\ None \notin [origin : Int, dests : SUBSET [dest : Int, until : Int]]

\* A city of another seat stands off the land; None and Gone are no data.
ASSUME CapitalAssumption ==
  /\ Land \subseteq Int /\ Start \in Land /\ -1 \notin Land /\ Gone \notin Int
  /\ Guards \subseteq SUBSET Land
  /\ MaxPlanTurns \in Nat \ {0} /\ MaxRelocations \in Nat /\ MaxGuardHolds \in Nat
  /\ None \notin {"accepted", "rejected"}
  /\ None \notin [action : {"move", "found", "hold"}, dest : Int]
  /\ None \notin [site : Int, arrived : Int]
  /\ None \notin [action : {"move", "found"}, status : {"due", "accepted", "rejected"},
                   turn : Int, origin : Int, superseded : BOOLEAN]

\* The client's limits; None is no directive and no number of one.
ASSUME LlmAssumption ==
  /\ MaxRounds \in Nat /\ MaxRequests \in Nat /\ None \notin Nat
  /\ None \notin [by : Nat, turn : Nat, late : BOOLEAN, overrides : SUBSET {u1}]

VARIABLES
  which,
  mode, adaptive, seatTurn, open, seatPc, ctl, client, ask, uses, todo, idleCities, unmoved,
  rows, boundaries, orders, minted, kills,
  capitalTurn, stage, w, plan, order, sent, due, acted, idle, mishaps,
  day, step, g, promised, pol, exe, touched, missionSent, trained, events,
  scoutTurn, scoutStage, frozen, unit, bad, tracker, overlay, staged, cooling, override, role,
  untouched, tried, late, moves, hurt, settled, scoutEvents

llmVars == <<mode, adaptive, seatTurn, open, seatPc, ctl, client, ask, uses, todo, idleCities,
             unmoved, rows, boundaries, orders, minted, kills>>
capitalVars == <<capitalTurn, stage, w, plan, order, sent, due, acted, idle, mishaps>>
expansionVars == <<day, step, g, promised, pol, exe, touched, missionSent, trained, events>>
scoutVars == <<scoutTurn, scoutStage, frozen, unit, bad, tracker, overlay, staged, cooling,
               override, role, untouched, tried, late, moves, hurt, settled, scoutEvents>>

Llm == INSTANCE LlmSeat
  WITH turn <- seatTurn, pc <- seatPc, idle <- idleCities, MaxTurn <- SeatTurns,
       Unit <- {u1}, City <- {1}, Gate <- TRUE
Capital == INSTANCE Capital
  WITH turn <- capitalTurn, MaxTurn <- CapitalTurns,
       Site <- Land
Growth == INSTANCE Expansion
  WITH due <- promised, sent <- missionSent
Scouts == INSTANCE Scouting
  WITH turn <- scoutTurn, stage <- scoutStage, order <- override, due <- late,
       events <- scoutEvents, TTL <- SuppressFor, LastTurn <- ScoutTurns

MCInit ==
  /\ which \in {"referee", "llm", "capital", "expansion", "scouting"}
  /\ Init /\ (which # "referee" => chaos = <<>>)
  /\ Llm!Init /\ (which # "llm" => mode = "tools")
  /\ Capital!Init /\ Growth!Init
  /\ Scouts!Init /\ (which # "scouting" => ~frozen)

MCNext ==
  /\ UNCHANGED which
  /\ \/ which = "referee" /\ Next /\ UNCHANGED <<llmVars, capitalVars, expansionVars, scoutVars>>
     \/ which = "llm" /\ Llm!Next /\ UNCHANGED <<vars, capitalVars, expansionVars, scoutVars>>
     \/ which = "capital" /\ Capital!Next /\ UNCHANGED <<vars, llmVars, expansionVars, scoutVars>>
     \/ which = "expansion" /\ Growth!Next /\ UNCHANGED <<vars, llmVars, capitalVars, scoutVars>>
     \/ which = "scouting" /\ Scouts!Next
        /\ UNCHANGED <<vars, llmVars, capitalVars, expansionVars>>

MCSpec == MCInit /\ [][MCNext]_<<which, vars, llmVars, capitalVars, expansionVars, scoutVars>>

\* LlmSeat!CostsAddUp, LlmSeat!OrdersHaveAuthority and LlmSeat!FailedForGood.
DecisionsAreAccounted ==
  [](Llm!CostsAddUp /\ Llm!OrdersHaveAuthority) /\ Llm!FailedForGood

\* Capital!CapitalIsFoundedWithCare.
CapitalIsFoundedWithCare == Capital!CapitalIsFoundedWithCare

\* Expansion!OneFounderAtATime, MissionsAreCareful and ReceiptFollowsMission.
ExpansionIsCautious ==
  Growth!OneFounderAtATime /\ Growth!MissionsAreCareful /\ Growth!ReceiptFollowsMission

\* Scouting!HeldWhileHurt, NeverPushed and AttemptsAreBounded.
ScoutsAreSpared == Scouts!HeldWhileHurt /\ Scouts!NeverPushed /\ Scouts!AttemptsAreBounded
=============================================================================
