--------------------------- MODULE LiveSeatProofs ---------------------------
(***************************************************************************)
(* What the lease of a live seat is worth, for every allowance, number of  *)
(* tries, losses, drifts and turns: a lease stands as long as its turn is  *)
(* played, and a unit never spends more than one allowance in it.  And     *)
(* what surrounds the seat, for any number of dialogs, checks and faults:  *)
(* the popups are pressed with care, and a driver meets its own game.      *)
(***************************************************************************)
EXTENDS MCLiveSeat, SequenceTheorems, FiniteSetTheorems, TLAPS

(***************************************************************************)
(* The records by their fields; of a field that does not matter here       *)
(* nothing is said but that the record has it.                             *)
(***************************************************************************)
IsLease(l) ==
  l \in [turn : Nat, base : {l.base}, restored : BOOLEAN, grant : {l.grant}, seen : {l.seen}]

IsGame(g) ==
  /\ g \in [turn : Nat \ {0}, stage : {"active", "ending", "over"}, hooks : {g.hooks},
            deact : Nat, world : [Entity -> Int], puppet : BOOLEAN, lease : {g.lease},
            cache : {g.cache}, ledger : {g.ledger}, ambient : {g.ambient},
            window : {g.window}, windowOpen : {g.windowOpen}, reward : {g.reward},
            granted : Nat, landed : {g.landed}, spent : Int, ends : Nat,
            overrun : BOOLEAN, sealed : {g.sealed}, dumped : {g.dumped}]
  /\ IsLease(g.lease)

Statuses == [turn : Nat, active : BOOLEAN, lease : Nat]

IsSeat(s) ==
  s \in [pc : {s.pc}, status : Statuses,
         target : Nat, last : Nat, retried : {s.retried}, tries : Nat, open : {s.open}, seq : {s.seq},
         order : {s.order}, fatal : {s.fatal}, journal : {s.journal},
         allowed : {s.allowed}, covered : {s.covered}, digest : {s.digest},
         changed : {s.changed}, mutated : {s.mutated}, missing : {s.missing},
         loose : {s.loose}]

\* The turn and the lease of h are those of g; then the unit is, too.
SameLease(g, h) ==
  /\ h.turn = g.turn /\ h.stage = g.stage /\ h.puppet = g.puppet /\ h.granted = g.granted
  /\ h.lease.turn = g.lease.turn /\ h.lease.restored = g.lease.restored
  /\ h.ends = g.ends /\ h.overrun = g.overrun

Alike(g, h) == SameLease(g, h) /\ h.world[Unit] = g.world[Unit] /\ h.spent = g.spent

-----------------------------------------------------------------------------
(* The operators of the mod and of the engine.                             *)

LEMMA FrozenUnit ==
  ASSUME NEW world \in [Entity -> Int]
  PROVE  Frozen(world) \in [Entity -> Int] /\ Frozen(world)[Unit] = 0
BY FieldsAssumption DEF Frozen

\* A lease just taken is of its turn and has restored nobody.
LEMMA NewLease ==
  ASSUME NEW turn \in Nat, NEW world
  PROVE  /\ IsLease(LeaseOn(turn, world))
         /\ LeaseOn(turn, world).turn = turn /\ ~LeaseOn(turn, world).restored
BY DEF IsLease, LeaseOn

\* The start hook takes the lease of the turn and leaves the unit without movement.
LEMMA AcquireFreezes ==
  ASSUME NEW g, IsGame(g)
  PROVE  LET h == Acquire(g)
         IN  /\ IsGame(h)
             /\ h.turn = g.turn /\ h.stage = g.stage /\ h.puppet = g.puppet
             /\ h.granted = g.turn /\ h.lease.turn = g.turn /\ ~h.lease.restored
             /\ h.world[Unit] = 0 /\ h.spent = g.spent
             /\ h.ends = g.ends /\ h.overrun = g.overrun
<1> DEFINE frozen == Frozen(g.world)
           lease == LeaseOn(g.turn, frozen)
<1>1. frozen \in [Entity -> Int] /\ frozen[Unit] = 0
  BY FrozenUnit DEF IsGame
<1>2. IsLease(lease) /\ lease.turn = g.turn /\ ~lease.restored
  BY NewLease DEF IsGame
<1> HIDE DEF frozen, lease
<1>3. ASSUME NEW h, h = [g EXCEPT !.world = frozen, !.reward = 0, !.granted = g.turn, !.lease = lease]
      PROVE  /\ IsGame(h)
             /\ h.turn = g.turn /\ h.stage = g.stage /\ h.puppet = g.puppet
             /\ h.granted = g.turn /\ h.lease.turn = g.turn /\ ~h.lease.restored
             /\ h.world[Unit] = 0 /\ h.spent = g.spent
             /\ h.ends = g.ends /\ h.overrun = g.overrun
  BY <1>1, <1>2, <1>3 DEF IsGame
<1> QED BY <1>3 DEF Acquire, frozen, lease

\* A release changes nothing but the lease, and only when its turn is named.
LEMMA ReleaseFrees ==
  ASSUME NEW g, IsGame(g), NEW turn
  PROVE  LET h == ReleaseLease(g, turn)
         IN  /\ IsGame(h)
             /\ h.turn = g.turn /\ h.stage = g.stage /\ h.puppet = g.puppet
             /\ h.granted = g.granted /\ h.world[Unit] = g.world[Unit] /\ h.spent = g.spent
             /\ h.ends = g.ends /\ h.overrun = g.overrun
             /\ IF turn # 0 /\ g.lease.turn = turn THEN h.lease.turn = 0
                ELSE h = g
<1> DEFINE sealed == Sealed(g.sealed, g)
           ledger == AddRows(g.ledger, Drifted(g.lease.base, g.world))
<1> HIDE DEF sealed, ledger
<1>1. IsLease(NoLease) /\ NoLease.turn = 0
  BY NewLease DEF NoLease
<1>2. ASSUME NEW h, h = [g EXCEPT !.ledger = ledger, !.sealed = sealed,
                 !.lease = NoLease, !.cache = NoCache, !.reward = 0]
      PROVE  /\ IsGame(h)
             /\ h.turn = g.turn /\ h.stage = g.stage /\ h.puppet = g.puppet
             /\ h.granted = g.granted /\ h.world[Unit] = g.world[Unit] /\ h.spent = g.spent
             /\ h.ends = g.ends /\ h.overrun = g.overrun /\ h.lease.turn = 0
  BY <1>1, <1>2 DEF IsGame
<1> QED BY <1>2 DEF ReleaseLease, sealed, ledger

\* Restoring gives the allowance once in a lease; the second time it does nothing.
LEMMA RestoreGivesOnce ==
  ASSUME NEW g, IsGame(g), Allowance \in Nat
  PROVE  LET h == RestoreUnit(g).game
         IN  /\ IsGame(h)
             /\ \/ Alike(g, h)
                \/ /\ g.lease.turn # 0 /\ ~g.lease.restored
                   /\ h.turn = g.turn /\ h.stage = g.stage /\ h.puppet = g.puppet
                   /\ h.granted = g.granted /\ h.lease.turn = g.lease.turn
                   /\ h.lease.restored /\ h.world[Unit] = Allowance
                   /\ h.spent = g.spent /\ h.ends = g.ends /\ h.overrun = g.overrun
<1> DEFINE world == [g.world EXCEPT ![Unit] = Allowance]
           lease == [g.lease EXCEPT !.restored = TRUE]
<1>1. world \in [Entity -> Int] /\ world[Unit] = Allowance
  BY FieldsAssumption DEF IsGame
<1>2. IsLease(lease) /\ lease.restored /\ lease.turn = g.lease.turn
  BY DEF IsGame, IsLease
<1>3. [g EXCEPT !.world[Unit] = Allowance, !.lease.restored = TRUE]
        = [g EXCEPT !.world = world, !.lease = lease]
  BY DEF IsGame
<1> HIDE DEF world, lease
<1>4. ASSUME NEW h, h = [g EXCEPT !.world = world, !.lease = lease]
      PROVE  /\ IsGame(h)
             /\ h.turn = g.turn /\ h.stage = g.stage /\ h.puppet = g.puppet
             /\ h.granted = g.granted /\ h.lease = lease /\ h.world = world
             /\ h.spent = g.spent /\ h.ends = g.ends /\ h.overrun = g.overrun
  BY <1>1, <1>2, <1>4 DEF IsGame
<1>5. CASE g.lease.turn # 0 /\ ~g.lease.restored
  <2>1. RestoreUnit(g).game = [g EXCEPT !.world = world, !.lease = lease]
    BY <1>3, <1>5 DEF RestoreUnit
  <2> QED BY <1>1, <1>2, <1>4, <1>5, <2>1
<1>6. CASE ~(g.lease.turn # 0 /\ ~g.lease.restored)
  BY <1>6 DEF RestoreUnit, Alike, SameLease
<1> QED BY <1>5, <1>6

\* The backstop takes all movement or changes nothing that matters here.
LEMMA FreezeTakes ==
  ASSUME NEW g, IsGame(g)
  PROVE  LET h == FreezeUnit(g)
         IN  /\ IsGame(h)
             /\ \/ Alike(g, h)
                \/ SameLease(g, h) /\ h.world[Unit] = 0 /\ h.spent = g.spent
<1> DEFINE world == Frozen(g.world)
           touched == g.lease.seen.refrozen \/ (g.world[Unit] # 0 /\ g.lease.base[Unit] # 0)
           lease == [g.lease EXCEPT !.seen.refrozen = touched]
<1> HIDE DEF touched
<1>1. world \in [Entity -> Int] /\ world[Unit] = 0
  BY FrozenUnit DEF IsGame
<1>2. IsLease(lease) /\ lease.restored = g.lease.restored /\ lease.turn = g.lease.turn
  BY DEF IsGame, IsLease
<1>3. [g EXCEPT !.world = Frozen(@), !.lease.seen.refrozen = touched]
        = [g EXCEPT !.world = world, !.lease = lease]
  BY DEF IsGame
<1> HIDE DEF world, lease
<1>4. ASSUME NEW h, h = [g EXCEPT !.world = world, !.lease = lease]
      PROVE  /\ IsGame(h)
             /\ h.turn = g.turn /\ h.stage = g.stage /\ h.puppet = g.puppet
             /\ h.granted = g.granted /\ h.lease = lease /\ h.world = world
             /\ h.spent = g.spent /\ h.ends = g.ends /\ h.overrun = g.overrun
  BY <1>1, <1>2, <1>4 DEF IsGame
<1>5. \/ FreezeUnit(g) = g
      \/ FreezeUnit(g) = [g EXCEPT !.world = world, !.lease = lease]
  BY <1>3 DEF FreezeUnit, touched
<1> QED BY <1>1, <1>2, <1>4, <1>5 DEF Alike, SameLease

\* Reading what changed moves only the bookkeeping of the mod.
LEMMA DiffBooks ==
  ASSUME NEW g, IsGame(g), NEW fields, NEW seq
  PROVE  IsGame(DiffSinceLast(g, fields, seq).game) /\ Alike(g, DiffSinceLast(g, fields, seq).game)
<1> DEFINE rows == Drifted(g.lease.base, g.world)
           cache == [seq |-> seq, rows |-> Within(rows, fields)]
           ledger == AddRows(g.ledger, Within(rows, Entity \ fields))
           lease == [g.lease EXCEPT !.base = g.world]
           changed == [g EXCEPT !.lease.base = g.world, !.cache = cache, !.ledger = ledger]
<1> HIDE DEF cache, ledger
<1>1. IsLease(lease) /\ lease.restored = g.lease.restored /\ lease.turn = g.lease.turn
  BY DEF IsGame, IsLease
<1>2. changed = [g EXCEPT !.lease = lease, !.cache = cache, !.ledger = ledger]
  BY DEF IsGame
<1> HIDE DEF lease, changed
<1>3. IsGame(changed) /\ Alike(g, changed)
  BY <1>1, <1>2 DEF IsGame, Alike, SameLease
<1>4. DiffSinceLast(g, fields, seq).game \in {g, changed}
  BY DEF DiffSinceLast, changed, cache, ledger
<1> QED BY <1>3, <1>4 DEF Alike, SameLease

\* The marks of rewards, windows and dumps leave the unit and the lease alone.
LEMMA MarksAreAlike ==
  ASSUME NEW g, IsGame(g), NEW seq
  PROVE  /\ IsGame(BeginReward(g, seq).game) /\ Alike(g, BeginReward(g, seq).game)
         /\ IsGame(CancelReward(g)) /\ Alike(g, CancelReward(g))
         /\ IsGame(BeginWindow(g)) /\ Alike(g, BeginWindow(g))
         /\ IsGame(EndWindow(g)) /\ Alike(g, EndWindow(g))
         /\ IsGame(DumpAmbient(g).game) /\ Alike(g, DumpAmbient(g).game)
         /\ IsGame(DumpLedger(g).game) /\ Alike(g, DumpLedger(g).game)
<1>1. IsGame(g) /\ Alike(g, g)
  BY DEF Alike, SameLease
<1>2. ASSUME NEW r, NEW h, h = [g EXCEPT !.reward = r]
      PROVE  IsGame(h) /\ Alike(g, h)
  BY <1>2 DEF IsGame, Alike, SameLease
<1>3. IsGame(BeginReward(g, seq).game) /\ Alike(g, BeginReward(g, seq).game)
  BY <1>1, <1>2 DEF BeginReward
<1>4. IsGame(CancelReward(g)) /\ Alike(g, CancelReward(g))
  BY <1>2 DEF CancelReward
<1>5. ASSUME NEW w, NEW h, h = [g EXCEPT !.window = w, !.windowOpen = TRUE]
      PROVE  IsGame(h) /\ Alike(g, h)
  BY <1>5 DEF IsGame, Alike, SameLease
<1>6. ASSUME NEW a, NEW w, NEW h,
             h = [g EXCEPT !.ambient = a, !.window = w, !.windowOpen = FALSE]
      PROVE  IsGame(h) /\ Alike(g, h)
  BY <1>6 DEF IsGame, Alike, SameLease
<1>7. ASSUME NEW a, NEW h, h = [g EXCEPT !.ambient = a]
      PROVE  IsGame(h) /\ Alike(g, h)
  BY <1>7 DEF IsGame, Alike, SameLease
<1>8. ASSUME NEW a, NEW b, NEW c, NEW h, h = [g EXCEPT !.ledger = a, !.sealed = b, !.dumped = c]
      PROVE  IsGame(h) /\ Alike(g, h)
  BY <1>8 DEF IsGame, Alike, SameLease
<1>9. IsGame(EndWindow(g)) /\ Alike(g, EndWindow(g))
  BY <1>1, <1>6 DEF EndWindow
<1> QED BY <1>3, <1>4, <1>5, <1>7, <1>8, <1>9 DEF BeginWindow, DumpAmbient, DumpLedger

\* So does the end of a reward.
LEMMA FinishBooks ==
  ASSUME NEW g, IsGame(g), NEW seq
  PROVE  IsGame(FinishReward(g, seq).game) /\ Alike(g, FinishReward(g, seq).game)
<1> DEFINE h == [g EXCEPT !.reward = 0]
<1>1. IsGame(h) /\ Alike(g, h)
  BY MarksAreAlike DEF CancelReward
<1> HIDE DEF h
<1>2. IsGame(DiffSinceLast(h, {Unit}, seq).game) /\ Alike(h, DiffSinceLast(h, {Unit}, seq).game)
  BY <1>1, DiffBooks
<1> QED BY <1>1, <1>2 DEF FinishReward, h, Alike, SameLease

(* What the unit loses is what is spent; a unit without movement loses none, *)
(* and no unit loses what it has not.                                        *)
LEMMA CarrySpends ==
  ASSUME NEW g, IsGame(g), NEW order, order.tool \in Tools
  PROVE  LET h == Carry(g, order).game
         IN  /\ IsGame(h) /\ SameLease(g, h)
             /\ g.world[Unit] = 0 => Alike(g, h)
             /\ g.world[Unit] >= 0 => h.world[Unit] >= 0
             /\ h.spent + h.world[Unit] = g.spent + g.world[Unit]
<1> DEFINE denied == g.lease.seen.denied \/ g.landed > 0
           lease == [g.lease EXCEPT !.seen.denied = denied]
           world == After(g, order.tool)
           landed == IF world # g.world THEN g.landed + 1 ELSE g.landed
           spent == g.spent + (g.world[Unit] - world[Unit])
           refused == [g EXCEPT !.lease.seen.denied = denied]
           carried == [g EXCEPT !.world = world, !.landed = landed, !.spent = spent]
<1>1. Carry(g, order).game = IF Refuses(g, order) THEN refused ELSE carried
  BY DEF Carry
<1>2. CASE Refuses(g, order)
  <2> HIDE DEF denied
  <2>1. IsLease(lease) /\ lease.restored = g.lease.restored /\ lease.turn = g.lease.turn
    BY DEF IsGame, IsLease
  <2>2. refused = [g EXCEPT !.lease = lease]
    BY DEF IsGame
  <2> HIDE DEF lease, refused
  <2>3. IsGame(refused) /\ Alike(g, refused)
    BY <2>1, <2>2 DEF IsGame, Alike, SameLease
  <2> QED BY <1>1, <1>2, <2>3 DEF Alike, IsGame
<1>3. CASE ~Refuses(g, order)
  <2> HIDE DEF landed
  <2>1. /\ world \in [Entity -> Int] /\ world[Unit] \in Int
        /\ g.world[Unit] >= 0 => world[Unit] >= 0
        /\ g.world[Unit] = 0 => world[Unit] = 0
    <3>1. g.world \in [Entity -> Int] /\ g.world[Unit] \in Int /\ g.world[Gold] \in Int
          /\ g.world[Unit] - 1 \in Int /\ g.world[Gold] - Price \in Int
      BY FieldsAssumption, SizesAssumption, TopAssumption DEF IsGame
    <3>2. CASE order.tool = "move_unit"
      <4>1. g.world[Unit] # 0
        BY <1>3, <3>2 DEF Refuses, UnitTools
      <4>2. world = IF g.landed > 0 THEN g.world ELSE [g.world EXCEPT ![Unit] = @ - 1]
        BY <3>2 DEF After
      <4> HIDE DEF world
      <4> QED BY <3>1, <4>1, <4>2, FieldsAssumption
    <3>3. CASE order.tool = "attack"
      BY <3>3, <3>1, FrozenUnit DEF After
    <3>4. CASE order.tool = "purchase"
      <4>1. world = [g.world EXCEPT ![Gold] = g.world[Gold] - Price]
        BY <3>4 DEF After
      <4> HIDE DEF world
      <4> QED BY <3>1, <4>1, FieldsAssumption
    <3> QED BY <3>2, <3>3, <3>4 DEF Tools, UnitTools
  <2>2. /\ spent \in Int /\ spent + world[Unit] = g.spent + g.world[Unit]
        /\ g.world[Unit] = world[Unit] => spent = g.spent
    <3>1. g.spent \in Int /\ g.world[Unit] \in Int
      BY FieldsAssumption DEF IsGame
    <3> HIDE DEF world
    <3> QED BY <2>1, <3>1
  <2> HIDE DEF world, spent, denied
  <2>0. world \in [Entity -> Int] /\ spent \in Int
    BY <2>1, <2>2
  <2>3. ASSUME NEW h, h = carried
        PROVE  IsGame(h) /\ SameLease(g, h) /\ h.world = world /\ h.spent = spent
    BY <2>0, <2>3 DEF IsGame, SameLease
  <2> HIDE DEF carried
  <2>4. Carry(g, order).game = carried
    BY <1>1, <1>3
  <2>5. /\ IsGame(carried) /\ SameLease(g, carried)
        /\ carried.world = world /\ carried.spent = spent
    BY <2>3
  <2>6. g.world[Unit] = 0 => Alike(g, carried)
    BY <2>1, <2>2, <2>5 DEF Alike
  <2>7. g.world[Unit] >= 0 => carried.world[Unit] >= 0
    BY <2>1, <2>5
  <2>8. carried.spent + carried.world[Unit] = g.spent + g.world[Unit]
    BY <2>2, <2>5
  <2> QED BY <2>4, <2>5, <2>6, <2>7, <2>8
<1> QED BY <1>2, <1>3

\* A request to end the turn ends the one being played, whichever that is.
LEMMA RequestEnds ==
  ASSUME NEW g, IsGame(g)
  PROVE  LET h == RequestEndTurn(g)
         IN  /\ IsGame(h)
             /\ h.turn = g.turn /\ h.puppet = g.puppet /\ h.granted = g.granted
             /\ h.lease = g.lease /\ h.world = g.world /\ h.spent = g.spent
             /\ IF g.stage = "active"
                THEN /\ h.stage = "ending" /\ h.ends > 0
                     /\ h.overrun <=> g.overrun \/ g.ends > 0
                ELSE h = g
<1>1. g.ends \in Nat /\ g.ends + 1 \in Nat /\ g.ends + 1 > 0
      /\ (g.overrun \/ g.ends > 0) \in BOOLEAN
  BY DEF IsGame
<1>3. CASE g.stage = "active"
  <2> DEFINE e == g.ends + 1
             o == g.overrun \/ g.ends > 0
             ended == [g EXCEPT !.stage = "ending", !.ends = e, !.overrun = o]
  <2>1. RequestEndTurn(g) = ended
    BY <1>3 DEF RequestEndTurn
  <2>2. e \in Nat /\ e > 0 /\ o \in BOOLEAN /\ (o <=> g.overrun \/ g.ends > 0)
    BY <1>1
  <2> HIDE DEF e, o
  <2>3. ASSUME NEW h, h = ended
        PROVE  /\ IsGame(h)
               /\ h.turn = g.turn /\ h.puppet = g.puppet /\ h.granted = g.granted
               /\ h.lease = g.lease /\ h.world = g.world /\ h.spent = g.spent
               /\ h.stage = "ending" /\ h.ends = e /\ h.overrun = o
    BY <2>2, <2>3 DEF IsGame
  <2> HIDE DEF ended
  <2> QED BY <1>3, <2>1, <2>2, <2>3
<1>4. CASE g.stage # "active"
  BY <1>4 DEF RequestEndTurn
<1> QED BY <1>3, <1>4

-----------------------------------------------------------------------------
(* The seat: what a call does to it, whether it is answered or not.        *)

\* s is at place, with the target and the order of the seat.
IsAt(s, place) ==
  /\ IsSeat(s) /\ s.pc = place
  /\ s.target = seat.target /\ s.order = seat.order

\* Going to another place keeps the aim and the order.
LEMMA SeatGoes ==
  ASSUME IsSeat(seat), NEW place
  PROVE  IsAt(Goes(place), place)
BY DEF Goes, IsAt, IsSeat

\* A lost answer costs a try and nothing else.
LEMMA SeatTries ==
  ASSUME IsSeat(seat)
  PROVE  IsAt([seat EXCEPT !.tries = @ + 1], seat.pc)
<1> DEFINE n == seat.tries + 1
<1>1. n \in Nat
  BY DEF IsSeat
<1> HIDE DEF n
<1>2. IsAt([seat EXCEPT !.tries = n], seat.pc)
  BY <1>1 DEF IsAt, IsSeat
<1> QED BY <1>2 DEF n

\* An answer ends the count of tries.
LEMMA SeatIsAnswered ==
  ASSUME NEW s, IsSeat(s)
  PROVE  LET t == [s EXCEPT !.tries = 0]
         IN  IsSeat(t) /\ t.pc = s.pc /\ t.target = s.target /\ t.order = s.order
BY DEF IsSeat

\* A script whose answer nobody reads, and one whose answer is next.
LEMMA TellGoes ==
  ASSUME IsSeat(seat), NEW g, NEW place, NEW limit, Tell(g, Goes(place), limit)
  PROVE  /\ game' \in {game, g}
         /\ IsAt(seat', place) \/ (IsAt(seat', seat.pc) /\ seat.tries + 1 < limit)
         /\ game' = g \/ losses' = losses + 1
<1>1. IsAt(Goes(place), place) /\ IsAt([seat EXCEPT !.tries = @ + 1], seat.pc)
  BY SeatGoes, SeatTries
<1>2. IsAt([Goes(place) EXCEPT !.tries = 0], place)
  BY <1>1, SeatIsAnswered DEF IsAt
<1> QED BY <1>1, <1>2 DEF Tell, Call, Answer

\* What the mod reports of turn and lease is typed.
LEMMA StatusIsTyped ==
  ASSUME IsGame(game), game.lease.turn \in Nat
  PROVE  /\ Status(game) \in Statuses
         /\ NoStatus \in Statuses
BY DEF IsGame, Status, NoStatus, Statuses

\* A poll reads, and changes nothing of the game.
LEMMA PollGoes ==
  ASSUME IsGame(game), IsSeat(seat), Poll \/ Settle
  PROVE  game' = game /\ IsSeat(seat') /\ seat'.pc \in {"poll", "settle", "aim"}
<1>1. /\ Status(game) \in Statuses
      /\ NoStatus \in Statuses
  BY StatusIsTyped DEF IsGame, IsLease
<1>2. IsAt([seat EXCEPT !.tries = @ + 1], seat.pc)
  BY SeatTries
<1>4. CASE Poll
  <2>1. game' = game
    BY <1>4 DEF Poll, Call, Answer
  <2> DEFINE Polled(x) == [seat EXCEPT !.status = x,
                               !.pc = IF Unclear(x) THEN "settle" ELSE "aim"]
  <2>2. ASSUME NEW x \in Statuses, NEW s, s = Polled(x)
        PROVE  IsSeat(s) /\ s.pc \in {"settle", "aim"}
    BY <2>2 DEF IsSeat
  <2> HIDE DEF Polled
  <2>3. /\ IsSeat(Polled(Status(game))) /\ Polled(Status(game)).pc \in {"settle", "aim"}
        /\ IsSeat(Polled(NoStatus)) /\ Polled(NoStatus).pc \in {"settle", "aim"}
    BY <1>1, <2>2
  <2>4. seat' \in {[Polled(Status(game)) EXCEPT !.tries = 0], [Polled(NoStatus) EXCEPT !.tries = 0],
                   [seat EXCEPT !.tries = @ + 1]}
    BY <1>4 DEF Poll, Call, Answer, Polled
  <2>5. seat.pc = "poll"
    BY <1>4 DEF Poll
  <2> QED BY <1>2, <2>1, <2>3, <2>4, <2>5, SeatIsAnswered DEF IsAt
<1>5. CASE Settle
  <2>1. game' = game /\ seat.pc = "settle"
    BY <1>5 DEF Settle, Call, Answer
  <2> DEFINE Settled(x) == [seat EXCEPT !.status = x, !.pc = "aim"]
  <2>2. ASSUME NEW x \in Statuses, NEW s, s = Settled(x)
        PROVE  IsSeat(s) /\ s.pc = "aim"
    BY <2>2 DEF IsSeat
  <2> HIDE DEF Settled
  <2>3. /\ IsSeat(Settled(Status(game))) /\ Settled(Status(game)).pc = "aim"
        /\ IsSeat(Settled(NoStatus)) /\ Settled(NoStatus).pc = "aim"
    BY <1>1, <2>2
  <2>4. seat' \in {[Settled(Status(game)) EXCEPT !.tries = 0], [Settled(NoStatus) EXCEPT !.tries = 0],
                   [seat EXCEPT !.tries = @ + 1]}
    BY <1>5 DEF Settle, Call, Answer, Settled
  <2> QED BY <1>2, <2>1, <2>3, <2>4, SeatIsAnswered DEF IsAt
<1> QED BY <1>4, <1>5

\* Aiming at the turn reported changes nothing of the game.
LEMMA AimGoes ==
  ASSUME IsGame(game), IsSeat(seat), Aim
  PROVE  game' = game /\ IsSeat(seat') /\ seat'.pc \in {"aim", "arm"}
<1> DEFINE Aimed(x) == [seat EXCEPT !.pc = "arm", !.status = NoStatus,
                            !.target = TargetTurn(seat.status, seat.last, x)]
<1>1. game' = game /\ seat.pc = "aim"
  BY DEF Aim, Call, Answer
<1>2. NoStatus \in Statuses
  BY DEF NoStatus, Statuses
<1>3. ASSUME NEW x PROVE TargetTurn(seat.status, seat.last, x) \in Nat
  BY DEF IsSeat, TargetTurn, Statuses
<1>4. ASSUME NEW x PROVE IsSeat(Aimed(x)) /\ Aimed(x).pc = "arm"
  <2> DEFINE t == TargetTurn(seat.status, seat.last, x)
  <2>1. t \in Nat
    BY <1>3
  <2> HIDE DEF t
  <2>2. ASSUME NEW s, s = [seat EXCEPT !.pc = "arm", !.status = NoStatus, !.target = t]
        PROVE  IsSeat(s) /\ s.pc = "arm"
    BY <1>2, <2>1, <2>2 DEF IsSeat
  <2> QED BY <2>2 DEF t
<1>5. seat' \in {[Aimed(game.deact) EXCEPT !.tries = 0], [Aimed(0) EXCEPT !.tries = 0],
                 [seat EXCEPT !.tries = @ + 1]}
  BY DEF Aim, Call, Answer
<1>6. IsAt([seat EXCEPT !.tries = @ + 1], seat.pc)
  BY SeatTries
<1> HIDE DEF Aimed
<1> QED BY <1>1, <1>4, <1>5, <1>6, SeatIsAnswered DEF IsAt

-----------------------------------------------------------------------------
(* The steps of a phase: they stay in it or end the run.                   *)

Phase == {"window", "unwindow", "manifest", "opening", "open", "reward", "restore", "order",
          "diff", "refreeze", "cancel"}

Carrying == {"reward", "restore", "order"}

InPhase(s) ==
  /\ IsSeat(s) /\ s.target = seat.target
  /\ s.pc \in Phase \cup {"dead"}
  /\ s.pc \in Carrying => s.order.tool \in Tools

\* Within the phase the order in hand is one of the order tools.
LEMMA SeatStays ==
  ASSUME IsSeat(seat), seat.pc \in Phase, seat.pc \in Carrying => seat.order.tool \in Tools
  PROVE  /\ InPhase([seat EXCEPT !.tries = @ + 1])
         /\ \A s : InPhase(s) => InPhase([s EXCEPT !.tries = 0])
         /\ \A place \in (Phase \cup {"dead"}) \ Carrying : InPhase(Goes(place))
         /\ seat.pc \in Carrying => \A place \in Phase : InPhase(Goes(place))
<1>1. InPhase([seat EXCEPT !.tries = @ + 1])
  BY SeatTries DEF IsAt, InPhase
<1>2. ASSUME NEW s, InPhase(s)
      PROVE  InPhase([s EXCEPT !.tries = 0])
  BY <1>2, SeatIsAnswered DEF InPhase
<1>3. ASSUME NEW place \in (Phase \cup {"dead"}) \ Carrying
      PROVE  InPhase(Goes(place))
  BY SeatGoes DEF IsAt, InPhase
<1>4. ASSUME seat.pc \in Carrying, NEW place \in Phase
      PROVE  InPhase(Goes(place))
  BY <1>4, SeatGoes DEF IsAt, InPhase
<1> QED BY <1>1, <1>2, <1>3, <1>4

\* An error on the wire stays in the phase or stops the match.
LEMMA SeatRaises ==
  ASSUME IsSeat(seat)
  PROVE  InPhase(Raises)
<1> DEFINE place == IF seat.order.tool = "move_unit" THEN "cancel"
                 ELSE IF seat.order.tool = "attack" THEN "refreeze" ELSE "dead"
<1>1. place \in Phase \cup {"dead"} /\ place \notin Carrying
  BY DEF Phase, Carrying
<1> HIDE DEF place
<1>2. ASSUME NEW s, s = [seat EXCEPT !.fatal = TRUE, !.pc = place]
      PROVE  InPhase(s)
  BY <1>1, <1>2 DEF InPhase, IsSeat
<1> QED BY <1>2 DEF Raises, place

\* Writing rows into the journal stays in the phase.
LEMMA SeatBooks ==
  ASSUME IsSeat(seat), NEW rows
  PROVE  InPhase(NextOrder) /\ InPhase(Book(rows)) /\ InPhase([Book(rows) EXCEPT !.missing = TRUE])
<1> DEFINE next == NextOrder
           journal == AddRows(next.journal, rows)
           allowed == AddRows(next.allowed, rows)
           mutated == next.mutated \/ rows # NoRows
           covered == next.covered \cup Scope(seat.order.tool)
<1>1. ASSUME NEW s, s = NextOrder
      PROVE  InPhase(s) /\ s.pc = "open"
  BY <1>1 DEF NextOrder, InPhase, IsSeat, Phase, Carrying
<1>2. Book(rows) = [next EXCEPT !.journal = journal, !.allowed = allowed, !.mutated = mutated,
                                !.covered = covered]
  BY DEF Book
<1> HIDE DEF next, journal, allowed, mutated, covered
<1>3. InPhase(Book(rows)) /\ Book(rows).pc = "open"
  <2>1. InPhase(next) /\ next.pc = "open"
    BY <1>1 DEF next
  <2>2. ASSUME NEW u, u = Book(rows)
        PROVE  InPhase(u) /\ u.pc = "open"
    BY <1>2, <2>1, <2>2 DEF InPhase, IsSeat, Phase, Carrying
  <2> QED BY <2>2
<1>4. ASSUME NEW s, s.pc = "open", InPhase(s), NEW u, u = [s EXCEPT !.missing = TRUE]
      PROVE  InPhase(u)
  BY <1>4 DEF InPhase, IsSeat, Phase, Carrying
<1> QED BY <1>1, <1>3, <1>4

\* What a step of a phase leaves of the game.
Plays ==
  /\ IsGame(game') /\ SameLease(game, game')
  /\ \/ Alike(game, game')
     \/ game'.world[Unit] = 0 /\ game'.spent = game.spent

\* The steps of a phase that neither restore nor move the unit nor end the turn.
LEMMA QuietSteps ==
  ASSUME IsGame(game), IsSeat(seat),
         OpenWindow \/ CloseWindow \/ Manifest \/ OpenDigest \/ Reward
         \/ Drain \/ DrainReward \/ Refreeze \/ Cancel \/ DigestLost,
         seat.pc \in Carrying => seat.order.tool \in Tools
  PROVE  seat.pc \in Phase /\ InPhase(seat') /\ Plays
<1>1. seat.pc \in Phase
  BY DEF OpenWindow, CloseWindow, Manifest, OpenDigest, Reward, Drain, DrainReward,
         Refreeze, Cancel, DigestLost, Phase
<1>2. /\ InPhase([seat EXCEPT !.tries = @ + 1])
      /\ \A s : InPhase(s) => InPhase([s EXCEPT !.tries = 0])
      /\ \A place \in (Phase \cup {"dead"}) \ Carrying : InPhase(Goes(place))
      /\ seat.pc \in Carrying => \A place \in Phase : InPhase(Goes(place))
  BY <1>1, SeatStays
<1>3. Alike(game, game)
  BY DEF Alike, SameLease
<1>4. CASE OpenWindow
  BY <1>2, <1>3, <1>4, MarksAreAlike
  DEF OpenWindow, Tell, Call, Answer, Plays, Alike, Phase, Carrying
<1>5. CASE CloseWindow
  BY <1>2, <1>3, <1>5, MarksAreAlike
  DEF CloseWindow, Tell, Call, Answer, Plays, Alike, Phase, Carrying
<1>6. CASE Reward
  BY <1>2, <1>3, <1>6, MarksAreAlike, SeatRaises
  DEF Reward, Call, Plays, Alike, Phase, Carrying
<1>7. CASE Manifest
  <2> DEFINE Declared(rows) == [seat EXCEPT !.pc = "opening", !.open = TRUE,
                                    !.allowed = rows, !.covered = Fields(rows)]
  <2>1. ASSUME NEW rows, NEW s, s = Declared(rows) PROVE InPhase(s)
    <3> DEFINE fields == Fields(rows)
    <3> HIDE DEF fields
    <3>1. s = [seat EXCEPT !.pc = "opening", !.open = TRUE, !.allowed = rows, !.covered = fields]
      BY <2>1 DEF fields
    <3> QED BY <3>1 DEF InPhase, IsSeat, Phase, Carrying
  <2>2. /\ game' \in {game, DumpAmbient(game).game}
        /\ \/ seat' = [Declared(DumpAmbient(game).says) EXCEPT !.tries = 0]
           \/ seat' = [Declared(NoRows) EXCEPT !.tries = 0]
           \/ seat' = [seat EXCEPT !.tries = @ + 1]
    BY <1>7 DEF Manifest, Call
  <2> HIDE DEF Declared
  <2>3. InPhase(seat')
    BY <1>2, <2>1, <2>2
  <2> QED BY <1>1, <1>3, <2>2, <2>3, MarksAreAlike DEF Plays, Alike
<1>8. CASE OpenDigest
  <2>1. ASSUME NEW s, s = [seat EXCEPT !.pc = "open", !.digest = game.world] PROVE InPhase(s)
    BY <2>1 DEF InPhase, IsSeat, Phase, Carrying
  <2> QED BY <1>1, <1>3, <1>8, <2>1 DEF OpenDigest, Plays, Alike
<1>9. CASE Drain
  <2> DEFINE diff == DiffSinceLast(game, Scope(seat.order.tool), seat.seq)
  <2>1. IsGame(diff.game) /\ Alike(game, diff.game)
    BY DiffBooks
  <2>2. /\ game' \in {game, diff.game}
        /\ \/ seat' = [Book(diff.says) EXCEPT !.tries = 0]
           \/ seat' = [[Book(NoRows) EXCEPT !.missing = TRUE] EXCEPT !.tries = 0]
           \/ seat' = [seat EXCEPT !.tries = @ + 1]
    BY <1>9 DEF Drain, Call
  <2> HIDE DEF diff
  <2> QED BY <1>1, <1>2, <1>3, <2>1, <2>2, SeatBooks DEF Plays, Alike
<1>10. CASE DrainReward
  <2> DEFINE diff == FinishReward(game, seat.seq)
  <2>1. IsGame(diff.game) /\ Alike(game, diff.game)
    BY FinishBooks
  <2>2. /\ game' \in {game, diff.game}
        /\ \/ seat' = [Book(diff.says) EXCEPT !.tries = 0]
           \/ seat' = [Goes("dead") EXCEPT !.tries = 0]
           \/ seat' = Goes("dead")
           \/ seat' = [seat EXCEPT !.tries = @ + 1]
    BY <1>10 DEF DrainReward, Call
  <2> HIDE DEF diff
  <2>3. InPhase(Goes("dead"))
    BY <1>2 DEF Carrying
  <2> QED BY <1>1, <1>2, <1>3, <2>1, <2>2, <2>3, SeatBooks DEF Plays, Alike
<1>11. CASE Refreeze
  <2> DEFINE Frosted == IF seat.fatal THEN Goes("dead")
                        ELSE IF seat.order.tool = "move_unit" THEN Goes("cancel") ELSE NextOrder
  <2>1. InPhase(Frosted)
    BY <1>2, SeatBooks DEF Phase, Carrying
  <2>2. /\ game' \in {game, FreezeUnit(game)}
        /\ \/ seat' = [Frosted EXCEPT !.tries = 0]
           \/ seat' = [[Frosted EXCEPT !.loose = TRUE] EXCEPT !.tries = 0]
           \/ seat' = [seat EXCEPT !.tries = @ + 1]
    BY <1>11 DEF Refreeze, Call, Answer
  <2> HIDE DEF Frosted
  <2>3. ASSUME NEW s, s = [Frosted EXCEPT !.loose = TRUE] PROVE InPhase(s)
    BY <2>1, <2>3 DEF InPhase, IsSeat, Phase, Carrying
  <2> QED BY <1>1, <1>2, <1>3, <2>1, <2>2, <2>3, FreezeTakes DEF Plays, Alike
<1>12. CASE Cancel
  <2>1. InPhase(IF seat.fatal THEN Goes("refreeze") ELSE NextOrder)
    BY <1>2, SeatBooks DEF Phase, Carrying
  <2> QED BY <1>1, <1>2, <1>3, <1>12, <2>1, MarksAreAlike DEF Cancel, Tell, Call, Answer, Plays, Alike
<1>13. CASE DigestLost
  <2>1. InPhase(Goes("dead"))
    BY <1>2 DEF Carrying
  <2> QED BY <1>1, <1>3, <1>13, <2>1 DEF DigestLost, Plays, Alike
<1> QED BY <1>1, <1>4, <1>5, <1>6, <1>7, <1>8, <1>9, <1>10, <1>11, <1>12, <1>13

\* Choosing the next order leaves the game alone.
LEMMA OrderStep ==
  ASSUME IsGame(game), IsSeat(seat), Order
  PROVE  seat.pc \in Phase /\ InPhase(seat') /\ IsGame(game') /\ Alike(game, game')
<1>1. PICK tool \in Tools, legal \in BOOLEAN :
        seat' = [seat EXCEPT !.order = [tool |-> tool, legal |-> legal],
                             !.seq = @ + 1,
                             !.pc = IF tool = "move_unit" THEN "reward"
                                    ELSE IF tool = "attack" THEN "restore" ELSE "order"]
  BY DEF Order
<1> DEFINE order == [tool |-> tool, legal |-> legal]
           seq == seat.seq + 1
           place == IF tool = "move_unit" THEN "reward"
                 ELSE IF tool = "attack" THEN "restore" ELSE "order"
<1>2. order.tool \in Tools /\ place \in Phase
  BY DEF Phase
<1>3. seat' = [seat EXCEPT !.order = order, !.seq = seq, !.pc = place]
  BY <1>1
<1> HIDE DEF order, seq, place
<1>4. InPhase(seat')
  BY <1>2, <1>3 DEF InPhase, IsSeat
<1>5. game' = [game EXCEPT !.landed = 0]
  BY DEF Order
<1>6. ASSUME NEW h, h = [game EXCEPT !.landed = 0] PROVE IsGame(h) /\ Alike(game, h)
  BY <1>6 DEF IsGame, Alike, SameLease
<1> QED BY <1>4, <1>5, <1>6 DEF Order, Phase

\* The restore reaches the mod or is lost.
LEMMA RestoreStep ==
  ASSUME IsGame(game), IsSeat(seat), Restore, seat.order.tool \in Tools
  PROVE  seat.pc \in Phase /\ InPhase(seat') /\ game' \in {game, RestoreUnit(game).game}
<1>1. seat.pc \in Phase /\ seat.pc \in Carrying
  BY DEF Restore, Phase, Carrying
<1>2. /\ InPhase([seat EXCEPT !.tries = @ + 1])
      /\ \A s : InPhase(s) => InPhase([s EXCEPT !.tries = 0])
      /\ InPhase(Goes("order")) /\ InPhase(Raises)
  BY <1>1, SeatStays, SeatRaises DEF Phase
<1> QED BY <1>1, <1>2 DEF Restore, Call

\* The order reaches the game or is lost.
LEMMA SendStep ==
  ASSUME IsGame(game), IsSeat(seat), Send, seat.order.tool \in Tools
  PROVE  seat.pc = "order" /\ InPhase(seat') /\ game' \in {game, Carry(game, seat.order).game}
<1>1. seat.pc = "order" /\ seat.pc \in Phase /\ seat.pc \in Carrying
  BY DEF Send, Phase, Carrying
<1>2. /\ InPhase([seat EXCEPT !.tries = @ + 1])
      /\ \A s : InPhase(s) => InPhase([s EXCEPT !.tries = 0])
      /\ InPhase(Goes("diff")) /\ InPhase(Goes("refreeze"))
      /\ InPhase(Raises) /\ InPhase(NextOrder)
  BY <1>1, SeatStays, SeatRaises, SeatBooks DEF Phase
<1>3. Carry(game, seat.order).says \in {"accepted", "rejected"}
  BY DEF Carry
<1> QED BY <1>1, <1>2, <1>3 DEF Send, Call

\* The last reading of the turn changes nothing that matters here.
LEMMA DumpStep ==
  ASSUME IsGame(game), IsSeat(seat), Dump
  PROVE  /\ seat.pc = "dump" /\ IsSeat(seat') /\ seat'.pc \in {"dump", "closed"}
         /\ IsGame(game') /\ Alike(game, game')
<1> DEFINE Dumped(rows) ==
             [seat EXCEPT !.pc = "closed", !.open = FALSE, !.journal = AddRows(@, rows)]
<1>1. ASSUME NEW rows, NEW s, s = Dumped(rows) PROVE IsSeat(s) /\ s.pc = "closed"
  <2> DEFINE journal == AddRows(seat.journal, rows)
  <2>1. s = [seat EXCEPT !.pc = "closed", !.open = FALSE, !.journal = journal]
    BY <1>1
  <2> HIDE DEF journal
  <2> QED BY <2>1 DEF IsSeat
<1>2. /\ game' \in {game, DumpLedger(game).game}
      /\ \/ seat' = [Dumped(DumpLedger(game).says) EXCEPT !.tries = 0]
         \/ seat' = [[Dumped(NoRows) EXCEPT !.missing = TRUE] EXCEPT !.tries = 0]
         \/ seat' = [seat EXCEPT !.tries = @ + 1]
  BY DEF Dump, Call
<1>3. seat.pc = "dump"
  BY DEF Dump
<1> HIDE DEF Dumped
<1>4. ASSUME NEW s, IsSeat(s), NEW u, u = [s EXCEPT !.missing = TRUE] PROVE IsSeat(u) /\ u.pc = s.pc
  BY <1>4 DEF IsSeat
<1>5. /\ IsSeat(Dumped(NoRows)) /\ Dumped(NoRows).pc = "closed"
      /\ IsSeat(Dumped(DumpLedger(game).says)) /\ Dumped(DumpLedger(game).says).pc = "closed"
  BY <1>1
<1>6. IsSeat([Dumped(NoRows) EXCEPT !.missing = TRUE])
      /\ [Dumped(NoRows) EXCEPT !.missing = TRUE].pc = "closed"
  BY <1>4, <1>5
<1>7. IsSeat(seat') /\ seat'.pc \in {"dump", "closed"}
  BY <1>2, <1>3, <1>5, <1>6, SeatTries, SeatIsAnswered DEF IsAt
<1> QED BY <1>2, <1>3, <1>7, MarksAreAlike DEF Alike, SameLease

-----------------------------------------------------------------------------
(* The invariant.                                                          *)

LeaseOfTheTurn ==
  /\ game.lease.turn \in {0, game.turn}
  /\ game.lease.turn # 0 => game.puppet /\ game.granted = game.turn /\ game.stage # "over"
  /\ game.granted <= game.turn

\* Also while the turn is ending; it is the seat's teardown that may end it.
LeaseHeld ==
  game.stage # "over" /\ game.granted = game.turn /\ seat.pc # "stopped" =>
    game.lease.turn = game.turn

\* The turn of a phase has had its lease; when the driver goes on to release
\* it the game has left the turn.
TurnWasGranted ==
  /\ seat.pc \in Phase \cup {"end", "leave"} =>
       /\ seat.target <= game.turn
       /\ seat.target = game.turn => game.granted = game.turn
  /\ seat.pc = "release" =>
       seat.target < game.turn \/ (seat.target = game.turn /\ game.stage = "over")

OrderIsKnown == seat.pc \in Carrying => seat.order.tool \in Tools

\* A phase is played in its own turn, and only its end ends that turn.
PlaysItsTurn ==
  /\ seat.pc \in Phase =>
       game.turn = seat.target /\ game.stage = "active" /\ game.lease.turn = game.turn
  /\ seat.pc = "end" /\ game.ends = 0 => game.turn = seat.target /\ game.stage = "active"
  /\ seat.pc = "unpark" /\ game.ends = 0 => game.turn # seat.target /\ game.stage = "active"
  /\ game.stage = "ending" =>
       \/ seat.pc \in {"end", "leave"} /\ game.turn = seat.target
       \/ seat.pc \in {"unpark", "arm", "await", "recover"} /\ game.turn # seat.target
       \/ seat.pc \in {"dead", "stopped"}

\* Movement spent and movement left are one allowance, given by the restore.
OneAllowance ==
  /\ game.world[Unit] >= 0 /\ game.spent <= Allowance
  /\ seat.pc # "stopped" =>
       /\ game.lease.turn = 0 /\ game.stage = "active" => game.spent = 0
       /\ game.lease.turn # 0 =>
            IF game.lease.restored THEN game.spent + game.world[Unit] <= Allowance
            ELSE game.spent = 0 /\ game.world[Unit] = 0

LiveInv ==
  /\ IsGame(game) /\ IsSeat(seat)
  /\ LeaseOfTheTurn /\ LeaseHeld /\ TurnWasGranted /\ OrderIsKnown
  /\ ~game.overrun => PlaysItsTurn /\ OneAllowance

\* The two entities are not the same one, and an allowance is a number.
LEMMA Sizes == Allowance \in Nat /\ Unit \in Entity /\ Gold \in Entity /\ Unit # Gold
BY FieldsAssumption, SizesAssumption, TopAssumption

\* The invariant holds at first.
LEMMA LiveInit ==
  Init => LiveInv
<1> SUFFICES ASSUME Init PROVE LiveInv
  OBVIOUS
<1>1. PICK first \in {"active", "over"}, hooks \in 0 .. 1, traced \in BOOLEAN :
        game = [turn |-> 1, stage |-> first, hooks |-> hooks,
                deact |-> IF traced THEN 1 ELSE 0,
                world |-> [e \in Entity |-> IF e = Unit THEN Allowance ELSE Top],
                puppet |-> FALSE, lease |-> NoLease, cache |-> NoCache,
                ledger |-> NoRows, ambient |-> NoRows,
                window |-> Zero, windowOpen |-> FALSE, reward |-> 0,
                granted |-> 0, landed |-> 0, spent |-> 0, ends |-> 0, overrun |-> FALSE,
                sealed |-> NothingSealed, dumped |-> NothingSealed]
  BY DEF Init
<1> DEFINE world == [e \in Entity |-> IF e = Unit THEN Allowance ELSE Top]
           deact == IF traced THEN 1 ELSE 0
<1>2. world \in [Entity -> Int] /\ world[Unit] = Allowance /\ deact \in Nat
  BY Sizes, TopAssumption
<1>3. IsLease(NoLease) /\ NoLease.turn = 0
  BY NewLease DEF NoLease
<1> HIDE DEF world, deact
<1>4. IsGame(game)
  BY <1>1, <1>2, <1>3 DEF IsGame, world, deact
<1>5. /\ game.turn = 1 /\ game.lease.turn = 0 /\ game.granted = 0 /\ game.stage # "ending"
      /\ game.world[Unit] = Allowance /\ game.spent = 0
  BY <1>1, <1>2, <1>3 DEF world
<1>6. IsSeat(seat) /\ seat.pc = "attach"
  BY DEF Init, IsSeat, NoStatus, Statuses
<1> QED BY <1>4, <1>5, <1>6, Sizes
        DEF LiveInv, LeaseOfTheTurn, LeaseHeld, TurnWasGranted, OrderIsKnown, PlaysItsTurn,
            OneAllowance, Phase, Carrying

-----------------------------------------------------------------------------
(* The steps preserve it.                                                  *)

LEMMA PhaseKeeps ==
  ASSUME LiveInv, seat.pc \in Phase, InPhase(seat'), IsGame(game'),
         game'.turn = game.turn, game'.stage = game.stage, game'.puppet = game.puppet,
         game'.granted = game.granted, game'.lease.turn = game.lease.turn,
         game'.overrun = game.overrun,
         ~game.overrun => OneAllowance'
  PROVE  LiveInv'
<1>1. seat'.pc # "stopped" /\ seat.pc # "stopped" /\ seat'.pc \notin {"release", "end", "unpark", "leave"}
  BY DEF InPhase, Phase
<1>2. IsGame(game') /\ IsSeat(seat') /\ LeaseOfTheTurn' /\ LeaseHeld' /\ OrderIsKnown'
  BY <1>1 DEF LiveInv, LeaseOfTheTurn, LeaseHeld, OrderIsKnown, InPhase
<1>3. TurnWasGranted'
  BY <1>1 DEF LiveInv, TurnWasGranted, InPhase, Phase
<1>4. ~game'.overrun => PlaysItsTurn'
  BY <1>1 DEF LiveInv, PlaysItsTurn, InPhase
<1> QED BY <1>2, <1>3, <1>4 DEF LiveInv

\* A step of the driver outside the phase that leaves the game as it was.
LEMMA DrivesOn ==
  ASSUME LiveInv, seat.pc # "stopped", IsGame(game'), IsSeat(seat'),
         game'.turn = game.turn, game'.stage = game.stage,
         game'.puppet = game.puppet \/ game'.puppet,
         game'.granted = game.granted, game'.lease.turn = game.lease.turn,
         game'.lease.restored = game.lease.restored,
         game'.overrun = game.overrun,
         game'.spent = game.spent, game'.world[Unit] = game.world[Unit],
         seat'.pc \notin Phase \cup {"end", "leave", "release", "unpark"},
         game.stage = "ending" /\ ~game.overrun =>
           \/ seat'.pc \in {"arm", "await", "recover"} /\ game.turn # seat'.target
           \/ seat'.pc \in {"dead", "stopped"}
  PROVE  LiveInv'
<1>1. IsGame(game') /\ IsSeat(seat') /\ LeaseOfTheTurn' /\ LeaseHeld' /\ OrderIsKnown'
  BY DEF LiveInv, LeaseOfTheTurn, LeaseHeld, OrderIsKnown, Phase, Carrying
<1>2. TurnWasGranted'
  BY DEF TurnWasGranted
<1>3. ~game'.overrun => PlaysItsTurn'
  BY DEF LiveInv, PlaysItsTurn
<1>4. ~game'.overrun => OneAllowance'
  BY DEF LiveInv, OneAllowance
<1> QED BY <1>1, <1>2, <1>3, <1>4 DEF LiveInv

\* The steps of the game: its start hook, the end of the turn, what drifts in.
LEMMA EngineKeeps ==
  ASSUME LiveInv, StartHook \/ Deactivate \/ NextTurn \/ Drift
  PROVE  LiveInv'
<1>1. CASE StartHook
  <2> DEFINE hooks == game.hooks - 1
             g == [game EXCEPT !.hooks = hooks]
  <2> HIDE DEF hooks
  <2>1. ASSUME NEW h, h = g PROVE IsGame(h) /\ Alike(game, h)
    BY <2>1 DEF LiveInv, IsGame, Alike, SameLease
  <2>2. game.stage = "active" /\ game' = IF g.puppet /\ g.lease.turn # g.turn THEN Acquire(g) ELSE g
    BY <1>1 DEF StartHook, hooks
  <2>3. seat' = seat
    BY <1>1 DEF StartHook
  <2> HIDE DEF g
  <2>4. IsGame(g) /\ Alike(game, g)
    BY <2>1
  <2>5. CASE game' = g
    BY <2>3, <2>4, <2>5
    DEF LiveInv, Alike, SameLease, LeaseOfTheTurn, LeaseHeld, TurnWasGranted, OrderIsKnown,
        PlaysItsTurn, OneAllowance
  <2>6. CASE game' = Acquire(g) /\ g.puppet /\ g.lease.turn # g.turn
    <3>1. /\ IsGame(game')
          /\ game'.turn = game.turn /\ game'.stage = "active" /\ game'.puppet
          /\ game'.granted = game.turn /\ game'.lease.turn = game.turn /\ ~game'.lease.restored
          /\ game'.world[Unit] = 0 /\ game'.spent = game.spent
          /\ game'.ends = game.ends /\ game'.overrun = game.overrun
      BY <2>2, <2>4, <2>6, AcquireFreezes DEF Alike, SameLease
    <3>2. game.lease.turn = 0 /\ game.turn # 0
      BY <2>4, <2>6 DEF LiveInv, LeaseOfTheTurn, Alike, SameLease, IsGame
    <3>3. IsSeat(seat') /\ LeaseOfTheTurn' /\ LeaseHeld' /\ TurnWasGranted' /\ OrderIsKnown'
      BY <2>2, <2>3, <3>1 DEF LiveInv, LeaseOfTheTurn, LeaseHeld, TurnWasGranted, OrderIsKnown, IsGame
    <3>4. ~game'.overrun => PlaysItsTurn'
      BY <2>2, <2>3, <3>1 DEF LiveInv, PlaysItsTurn
    <3>5. ~game'.overrun => OneAllowance'
      BY <2>2, <2>3, <3>1, <3>2 DEF LiveInv, OneAllowance
    <3> QED BY <3>1, <3>3, <3>4, <3>5 DEF LiveInv
  <2> QED BY <2>2, <2>5, <2>6
<1>2. CASE Deactivate
  <2> DEFINE g == [game EXCEPT !.stage = "over", !.hooks = 0, !.deact = game.turn]
  <2>1. ASSUME NEW h, h = g
        PROVE  /\ IsGame(h) /\ h.stage = "over" /\ h.turn = game.turn /\ h.puppet = game.puppet
               /\ h.granted = game.granted /\ h.lease = game.lease /\ h.world = game.world
               /\ h.spent = game.spent /\ h.ends = game.ends /\ h.overrun = game.overrun
    BY <2>1 DEF LiveInv, IsGame
  <2>2. game.stage = "ending" /\ game' = (IF g.puppet THEN ReleaseLease(g, g.turn) ELSE g) /\ seat' = seat
    BY <1>2 DEF Deactivate
  <2> HIDE DEF g
  <2>3. /\ IsGame(g) /\ g.stage = "over" /\ g.turn = game.turn /\ g.puppet = game.puppet
        /\ g.granted = game.granted /\ g.lease = game.lease /\ g.world = game.world
        /\ g.spent = game.spent /\ g.ends = game.ends /\ g.overrun = game.overrun
    BY <2>1
  <2>4. /\ IsGame(game') /\ game'.stage = "over" /\ game'.turn = game.turn
        /\ game'.granted = game.granted /\ game'.world[Unit] = game.world[Unit]
        /\ game'.spent = game.spent /\ game'.ends = game.ends
        /\ game'.overrun = game.overrun /\ game'.lease.turn = 0
    <3>1. CASE game.puppet
      BY <2>2, <2>3, <3>1, ReleaseFrees DEF LiveInv, LeaseOfTheTurn, IsGame
    <3>2. CASE ~game.puppet
      BY <2>2, <2>3, <3>2 DEF LiveInv, LeaseOfTheTurn
    <3> QED BY <3>1, <3>2
  <2>5. IsSeat(seat') /\ LeaseOfTheTurn' /\ LeaseHeld' /\ TurnWasGranted' /\ OrderIsKnown'
    BY <2>2, <2>4 DEF LiveInv, LeaseOfTheTurn, LeaseHeld, TurnWasGranted, OrderIsKnown
  <2>6. ~game'.overrun => PlaysItsTurn'
    BY <2>2, <2>4 DEF LiveInv, PlaysItsTurn, Phase
  <2>7. ~game'.overrun => OneAllowance'
    BY <2>2, <2>4 DEF LiveInv, OneAllowance
  <2> QED BY <2>4, <2>5, <2>6, <2>7 DEF LiveInv
<1>3. CASE NextTurn
  <2>1. PICK hooks \in 1 .. MaxHooks :
          game' = [game EXCEPT !.turn = @ + 1, !.stage = "active", !.hooks = hooks,
                               !.deact = game.turn,
                               !.world[Unit] = Allowance, !.spent = 0]
    BY <1>3 DEF NextTurn
  <2> DEFINE turn == game.turn + 1
             world == [game.world EXCEPT ![Unit] = Allowance]
  <2>2. turn \in Nat \ {0} /\ world \in [Entity -> Int] /\ world[Unit] = Allowance
    BY Sizes DEF LiveInv, IsGame
  <2>3. game' = [game EXCEPT !.turn = turn, !.stage = "active", !.hooks = hooks,
                             !.deact = game.turn, !.world = world, !.spent = 0]
    BY <2>1 DEF LiveInv, IsGame
  <2> HIDE DEF turn, world
  <2> DEFINE deact == game.turn
             begun == [game EXCEPT !.turn = turn, !.stage = "active", !.hooks = hooks]
             next == [begun EXCEPT !.deact = deact, !.world = world, !.spent = 0]
  <2>4. /\ deact \in Nat /\ world \in [Entity -> Int] /\ turn \in Nat \ {0} /\ 0 \in Int
        /\ IsGame(game) /\ game' = next
    BY <2>2, <2>3 DEF LiveInv, IsGame
  <2> HIDE DEF deact
  <2>5. ASSUME NEW h, h = next
        PROVE  /\ IsGame(h) /\ h.turn = turn /\ h.stage = "active"
               /\ h.granted = game.granted /\ h.lease = game.lease /\ h.world = world
               /\ h.spent = 0 /\ h.ends = game.ends /\ h.overrun = game.overrun
    <3>1. ASSUME NEW g, g = begun
          PROVE  /\ IsGame(g) /\ g.turn = turn /\ g.stage = "active"
                 /\ g.granted = game.granted /\ g.lease = game.lease
                 /\ g.ends = game.ends /\ g.overrun = game.overrun
      BY <2>4, <3>1 DEF IsGame
    <3> HIDE DEF begun
    <3>2. /\ IsGame(begun) /\ begun.turn = turn /\ begun.stage = "active"
          /\ begun.granted = game.granted /\ begun.lease = game.lease
          /\ begun.ends = game.ends /\ begun.overrun = game.overrun
      BY <3>1
    <3> QED BY <2>4, <2>5, <3>2 DEF IsGame
  <2> HIDE DEF next
  <2>6. /\ IsGame(game') /\ game'.turn = turn /\ game'.stage = "active"
        /\ game'.granted = game.granted /\ game'.lease = game.lease
        /\ game'.world[Unit] = Allowance /\ game'.spent = 0
        /\ game'.ends = game.ends /\ game'.overrun = game.overrun
    BY <2>2, <2>4, <2>5
  <2>7. game.stage = "over" /\ game.lease.turn = 0 /\ seat' = seat
    BY <1>3 DEF NextTurn, LiveInv, LeaseOfTheTurn
  <2>8. game.turn \in Nat /\ turn = game.turn + 1 /\ game.granted \in Nat /\ game.granted <= game.turn
        /\ seat.target \in Nat
    BY DEF turn, LiveInv, IsGame, LeaseOfTheTurn, IsSeat
  <2>9. IsSeat(seat') /\ LeaseOfTheTurn' /\ LeaseHeld' /\ TurnWasGranted' /\ OrderIsKnown'
    BY <2>6, <2>7, <2>8 DEF LiveInv, LeaseOfTheTurn, LeaseHeld, TurnWasGranted, OrderIsKnown
  <2>10. ~game'.overrun => PlaysItsTurn'
    BY <2>6, <2>7 DEF LiveInv, PlaysItsTurn
  <2>11. ~game'.overrun => OneAllowance'
    BY <2>6, <2>7, Sizes DEF LiveInv, OneAllowance
  <2> QED BY <2>6, <2>9, <2>10, <2>11 DEF LiveInv
<1>4. CASE Drift
  <2>1. PICK level \in Val :
          game' = [game EXCEPT !.world[Gold] = level, !.lease.seen.drifts = @ + 1]
    BY <1>4 DEF Drift
  <2> DEFINE drifts == game.lease.seen.drifts + 1
             world == [game.world EXCEPT ![Gold] = level]
             lease == [game.lease EXCEPT !.seen.drifts = drifts]
  <2> HIDE DEF drifts
  <2>2. world \in [Entity -> Int] /\ world[Unit] = game.world[Unit]
    BY Sizes, TopAssumption DEF LiveInv, IsGame, Val
  <2>3. IsLease(lease) /\ lease.turn = game.lease.turn /\ lease.restored = game.lease.restored
    BY DEF LiveInv, IsGame, IsLease
  <2>4. game' = [game EXCEPT !.world = world, !.lease = lease]
    BY <2>1 DEF LiveInv, IsGame, drifts
  <2> HIDE DEF world, lease
  <2>5. IsGame(game') /\ Alike(game, game')
    BY <2>2, <2>3, <2>4 DEF LiveInv, IsGame, Alike, SameLease
  <2>6. seat' = seat
    BY <1>4 DEF Drift
  <2> QED BY <2>5, <2>6
      DEF LiveInv, Alike, SameLease, LeaseOfTheTurn, LeaseHeld, TurnWasGranted, OrderIsKnown,
          PlaysItsTurn, OneAllowance
<1> QED BY <1>1, <1>2, <1>3, <1>4

\* The steps of the phase, each by what it does to the unit.
LEMMA PhaseStepKeeps ==
  ASSUME LiveInv,
         OpenWindow \/ CloseWindow \/ Manifest \/ OpenDigest \/ Order \/ Reward \/ Restore \/ Send
         \/ Drain \/ DrainReward \/ Refreeze \/ Cancel \/ DigestLost
  PROVE  LiveInv'
<1>1. IsGame(game) /\ IsSeat(seat) /\ (seat.pc \in Carrying => seat.order.tool \in Tools)
  BY DEF LiveInv, OrderIsKnown
<1>2. seat.pc \in Phase /\ ~game.overrun => game.lease.turn # 0 /\ seat.pc # "stopped"
  BY DEF LiveInv, PlaysItsTurn, Phase, IsGame
<1>3. ASSUME seat.pc \in Phase, InPhase(seat'), Plays
      PROVE  LiveInv'
  <2>1. ~game.overrun => OneAllowance'
    <3> SUFFICES ASSUME ~game.overrun PROVE OneAllowance'
      OBVIOUS
    <3>1. OneAllowance /\ game.lease.turn # 0 /\ seat.pc # "stopped" /\ game.turn # 0
      BY <1>2, <1>3 DEF LiveInv, IsGame
    <3>2. IsGame(game) /\ IsGame(game') /\ SameLease(game, game')
      BY <1>1, <1>3 DEF Plays
    <3>3. game.spent \in Int /\ game.world[Unit] \in Int /\ game.world[Unit] >= 0
      BY <1>1, <3>1, Sizes DEF IsGame, OneAllowance
    <3>4. CASE Alike(game, game')
      BY <3>1, <3>2, <3>4 DEF OneAllowance, SameLease, Alike
    <3>5. CASE game'.world[Unit] = 0 /\ game'.spent = game.spent
      BY <3>1, <3>2, <3>3, <3>5, Sizes DEF OneAllowance, SameLease
    <3> QED BY <1>3, <3>4, <3>5 DEF Plays
  <2> QED BY <1>3, <2>1, PhaseKeeps DEF Plays, SameLease
<1>4. CASE OpenWindow \/ CloseWindow \/ Manifest \/ OpenDigest \/ Reward
           \/ Drain \/ DrainReward \/ Refreeze \/ Cancel \/ DigestLost
  BY <1>1, <1>3, <1>4, QuietSteps
<1>5. CASE Order
  BY <1>1, <1>3, <1>5, OrderStep DEF Plays, Alike
<1>6. CASE Restore
  <2>1. seat.pc \in Phase /\ InPhase(seat') /\ game' \in {game, RestoreUnit(game).game}
    BY <1>1, <1>6, RestoreStep DEF Restore, Carrying
  <2>2. CASE game' = game
    BY <1>1, <1>3, <2>1, <2>2 DEF Plays, Alike, SameLease
  <2>3. CASE game' = RestoreUnit(game).game
    <3>1. CASE IsGame(game') /\ Alike(game, game')
      BY <1>3, <2>1, <3>1 DEF Plays, Alike
    <3>2. CASE /\ IsGame(game') /\ game.lease.turn # 0 /\ ~game.lease.restored
               /\ game'.turn = game.turn /\ game'.stage = game.stage /\ game'.puppet = game.puppet
               /\ game'.granted = game.granted /\ game'.lease.turn = game.lease.turn
               /\ game'.lease.restored /\ game'.world[Unit] = Allowance
               /\ game'.spent = game.spent /\ game'.ends = game.ends
               /\ game'.overrun = game.overrun
      <4>1. ~game.overrun => OneAllowance'
        BY <1>2, <2>1, <3>2, Sizes DEF LiveInv, OneAllowance
      <4> QED BY <2>1, <3>2, <4>1, PhaseKeeps
    <3> QED BY <1>1, <2>3, <3>1, <3>2, RestoreGivesOnce, Sizes
  <2> QED BY <2>1, <2>2, <2>3
<1>7. CASE Send
  <2>1. seat.pc = "order"
    BY <1>7 DEF Send
  <2>2. seat.pc \in Phase /\ InPhase(seat') /\ game' \in {game, Carry(game, seat.order).game}
    BY <1>1, <1>7, <2>1, SendStep DEF Carrying, Phase
  <2>3. CASE game' = game
    BY <1>1, <1>3, <2>2, <2>3 DEF Plays, Alike, SameLease
  <2>4. CASE game' = Carry(game, seat.order).game
    <3>1. seat.order.tool \in Tools
      BY <1>1, <2>1 DEF Carrying
    <3>2. CASE ~game.overrun
      <4>1. OneAllowance /\ game.world[Unit] >= 0
        BY <3>2 DEF LiveInv, OneAllowance
      <4>2. /\ IsGame(game') /\ SameLease(game, game')
            /\ game.world[Unit] = 0 => Alike(game, game')
            /\ game'.world[Unit] >= 0
            /\ game'.spent + game'.world[Unit] = game.spent + game.world[Unit]
        BY <1>1, <2>4, <3>1, <4>1, CarrySpends
      <4>3. /\ game.spent \in Int /\ game.world[Unit] \in Int
            /\ game'.spent \in Int /\ game'.world[Unit] \in Int
        BY <1>1, <4>2, Sizes DEF IsGame
      <4>4. OneAllowance'
        <5>1. game.lease.turn # 0 /\ game'.lease.turn # 0 /\ seat.pc # "stopped"
          BY <1>2, <2>2, <3>2, <4>2 DEF SameLease
        <5>2. CASE game.lease.restored
          <6>1. game'.spent + game'.world[Unit] <= Allowance
            BY <4>1, <4>2, <4>3, <5>1, <5>2 DEF OneAllowance
          <6>2. game'.spent <= Allowance
            BY <4>2, <4>3, <6>1, Sizes
          <6> QED BY <4>2, <5>1, <5>2, <6>1, <6>2 DEF OneAllowance, SameLease
        <5>3. CASE ~game.lease.restored
          <6>1. game.spent = 0 /\ game.world[Unit] = 0
            BY <4>1, <5>1, <5>3 DEF OneAllowance
          <6> QED BY <4>2, <5>1, <5>3, <6>1, Sizes DEF OneAllowance, SameLease, Alike
        <5> QED BY <5>2, <5>3
      <4> QED BY <2>2, <4>2, <4>4, PhaseKeeps DEF SameLease
    <3>3. CASE game.overrun
      <4>1. IsGame(game') /\ SameLease(game, game')
        BY <1>1, <2>4, <3>1, CarrySpends
      <4> QED BY <2>2, <3>3, <4>1, PhaseKeeps DEF SameLease
    <3> QED BY <3>2, <3>3
  <2> QED BY <2>2, <2>3, <2>4
<1> QED BY <1>4, <1>5, <1>6, <1>7

\* The steps of the driver around the phase.
LEMMA DriverKeeps ==
  ASSUME LiveInv,
         Arm \/ Poll \/ Settle \/ Aim \/ Engage \/ Timeout \/ Recover \/ Unpark
         \/ EndPhase \/ SendEndTurn \/ Leave \/ Release \/ Dump \/ Sweep \/ Teardown
  PROVE  LiveInv'
<1>1. IsGame(game) /\ IsSeat(seat) /\ game.turn \in Nat \ {0} /\ game.ends \in Nat
      /\ seat.target \in Nat /\ seat.tries \in Nat
  BY DEF LiveInv, IsGame, IsSeat
<1>2. Alike(game, game) /\ Once = 1
  BY DEF Alike, SameLease, Once
<1>3. CASE Arm
  <2> DEFINE g == [game EXCEPT !.puppet = TRUE]
             place == IF seat.pc = "attach" THEN "poll" ELSE "await"
  <2>1. ASSUME NEW h, h = g
        PROVE  /\ IsGame(h) /\ h.puppet /\ h.turn = game.turn /\ h.stage = game.stage
               /\ h.granted = game.granted /\ h.lease = game.lease /\ h.world = game.world
               /\ h.spent = game.spent /\ h.overrun = game.overrun
    BY <1>1, <2>1 DEF IsGame
  <2>2. seat.pc \in {"attach", "arm"} /\ Tell(g, Goes(place), Once)
    BY <1>3 DEF Arm
  <2> HIDE DEF g, place
  <2>3. game' \in {game, g} /\ (IsAt(seat', place) \/ IsAt(seat', seat.pc))
    BY <1>1, <2>2, TellGoes
  <2>4. IsSeat(seat') /\ seat'.pc \in {"attach", "arm", "poll", "await"} /\ seat'.target = seat.target
        /\ (seat.pc = "arm" => seat'.pc \in {"arm", "await"})
    BY <2>2, <2>3 DEF IsAt, place
  <2>5. game.stage = "ending" /\ ~game.overrun => seat.pc = "arm" /\ game.turn # seat.target
    BY <2>2 DEF LiveInv, PlaysItsTurn
  <2> QED BY <1>1, <2>1, <2>2, <2>3, <2>4, <2>5, DrivesOn DEF Phase
<1>4. CASE Poll \/ Settle \/ Aim
  <2>1. /\ game' = game /\ IsSeat(seat') /\ seat'.pc \in {"poll", "settle", "aim", "arm"}
        /\ seat.pc \in {"poll", "settle", "aim"}
    BY <1>1, <1>4, PollGoes, AimGoes DEF Poll, Settle, Aim
  <2>2. ~(game.stage = "ending" /\ ~game.overrun)
    BY <2>1 DEF LiveInv, PlaysItsTurn
  <2> QED BY <1>1, <2>1, <2>2, DrivesOn DEF Phase
<1>5. CASE Engage
  <2>1. /\ game' = game /\ seat' = [seat EXCEPT !.pc = "window", !.retried = FALSE]
        /\ seat.pc = "await" /\ game.lease.turn = seat.target /\ game.lease.turn # 0
    BY <1>5 DEF Engage
  <2>2. IsSeat(seat') /\ seat'.pc = "window" /\ seat'.target = seat.target
    BY <1>1, <2>1 DEF IsSeat
  <2>3. game.turn = seat.target /\ game.granted = game.turn /\ game.stage # "over"
    BY <2>1 DEF LiveInv, LeaseOfTheTurn
  <2>4. ~game.overrun => game.stage = "active"
    BY <1>1, <2>1, <2>3 DEF LiveInv, PlaysItsTurn, IsGame
  <2> QED BY <1>1, <2>1, <2>2, <2>3, <2>4
      DEF LiveInv, LeaseOfTheTurn, LeaseHeld, TurnWasGranted, OrderIsKnown, PlaysItsTurn,
          OneAllowance, Phase, Carrying
<1>6. CASE Timeout
  <2>1. game' = game /\ seat.pc \in {"await", "leave"}
    BY <1>6 DEF Timeout
  <2>2. /\ IsSeat(seat') /\ seat'.target = seat.target
        /\ seat'.pc = "dead" \/ (seat.pc = "await" /\ seat'.pc = "recover")
    <3>1. ASSUME NEW s, s = [seat EXCEPT !.retried = TRUE, !.pc = "recover"]
          PROVE  IsSeat(s) /\ s.pc = "recover" /\ s.target = seat.target
      BY <1>1, <3>1 DEF IsSeat
    <3> QED BY <1>1, <1>6, <3>1, SeatGoes DEF Timeout, IsAt
  <2>3. seat.pc = "await" /\ game.stage = "ending" /\ ~game.overrun => game.turn # seat.target
    BY DEF LiveInv, PlaysItsTurn
  <2> QED BY <1>1, <2>1, <2>2, <2>3, DrivesOn DEF Phase
<1>7. CASE Recover
  <2>1. seat.pc = "recover"
    BY <1>7 DEF Recover
  <2>2. CASE game.lease.turn = 0 /\ game.stage = "active" /\ game.turn = seat.target - 1
    <3>1. game' = [game EXCEPT !.ends = 0] /\ seat' = Goes("unpark")
      BY <1>7, <2>2 DEF Recover
    <3>2. IsAt(seat', "unpark")
      BY <1>1, <3>1, SeatGoes
    <3>3. ASSUME NEW h, h = [game EXCEPT !.ends = 0]
          PROVE  /\ IsGame(h) /\ h.puppet = game.puppet /\ h.turn = game.turn /\ h.stage = game.stage
                 /\ h.granted = game.granted /\ h.lease = game.lease /\ h.world = game.world
                 /\ h.spent = game.spent /\ h.overrun = game.overrun
      BY <1>1, <3>3 DEF IsGame
    <3>4. game.turn # seat.target
      BY <1>1, <2>2
    <3> QED BY <2>1, <2>2, <3>1, <3>2, <3>3, <3>4
        DEF LiveInv, LeaseOfTheTurn, LeaseHeld, TurnWasGranted, OrderIsKnown, PlaysItsTurn,
            OneAllowance, Phase, Carrying, IsAt
  <2>3. CASE ~(game.lease.turn = 0 /\ game.stage = "active" /\ game.turn = seat.target - 1)
    <3>1. game' = game /\ seat' = Goes("arm")
      BY <1>7, <2>3 DEF Recover
    <3>2. IsAt(seat', "arm")
      BY <1>1, <3>1, SeatGoes
    <3>3. game.stage = "ending" /\ ~game.overrun => game.turn # seat.target
      BY <2>1 DEF LiveInv, PlaysItsTurn
    <3> QED BY <1>1, <2>1, <3>1, <3>2, <3>3, DrivesOn DEF Phase, IsAt
  <2> QED BY <2>2, <2>3
<1>8. CASE Unpark \/ SendEndTurn
  <2> DEFINE g == RequestEndTurn(game)
             place == IF seat.pc = "unpark" THEN "arm" ELSE "leave"
  <2>1. seat.pc \in {"unpark", "end"} /\ Tell(g, Goes(place), ReadTries)
    BY <1>8 DEF Unpark, SendEndTurn
  <2>2. /\ IsGame(g)
        /\ g.turn = game.turn /\ g.puppet = game.puppet /\ g.granted = game.granted
        /\ g.lease = game.lease /\ g.world = game.world /\ g.spent = game.spent
        /\ IF game.stage = "active"
           THEN /\ g.stage = "ending" /\ g.ends > 0
                /\ g.overrun <=> game.overrun \/ game.ends > 0
           ELSE g = game
    BY <1>1, RequestEnds
  <2> HIDE DEF g, place
  <2>3. game' \in {game, g} /\ (IsAt(seat', place) \/ IsAt(seat', seat.pc))
    BY <1>1, <2>1, TellGoes
  <2>4. IsSeat(seat') /\ seat'.target = seat.target
        /\ \/ seat.pc = "unpark" /\ seat'.pc \in {"unpark", "arm"}
           \/ seat.pc = "end" /\ seat'.pc \in {"end", "leave"}
    BY <2>1, <2>3 DEF IsAt, place
  <2>5. /\ IsGame(game')
        /\ game'.turn = game.turn /\ game'.puppet = game.puppet /\ game'.granted = game.granted
        /\ game'.lease = game.lease /\ game'.world = game.world /\ game'.spent = game.spent
        /\ \/ game' = game
           \/ /\ game.stage = "active" /\ game'.stage = "ending" /\ game'.ends > 0
              /\ game'.overrun <=> game.overrun \/ game.ends > 0
    BY <1>1, <2>2, <2>3
  <2>6. LeaseOfTheTurn' /\ LeaseHeld' /\ TurnWasGranted' /\ OrderIsKnown'
    BY <2>4, <2>5
    DEF LiveInv, LeaseOfTheTurn, LeaseHeld, TurnWasGranted, OrderIsKnown, Phase, Carrying
  <2>7. ~game'.overrun => ~game.overrun /\ PlaysItsTurn'
    <3>1. CASE game' = game
      BY <2>4, <3>1 DEF LiveInv, PlaysItsTurn, Phase
    <3>2. CASE /\ game.stage = "active" /\ game'.stage = "ending" /\ game'.ends > 0
               /\ game'.overrun <=> game.overrun \/ game.ends > 0
      BY <1>1, <2>4, <2>5, <3>2 DEF LiveInv, PlaysItsTurn, Phase
    <3> QED BY <2>5, <3>1, <3>2
  <2>8. ~game'.overrun => OneAllowance'
    BY <2>4, <2>5, <2>7 DEF LiveInv, OneAllowance
  <2> QED BY <2>4, <2>5, <2>6, <2>7, <2>8 DEF LiveInv
<1>9. CASE EndPhase
  <2>1. /\ seat' = [seat EXCEPT !.pc = "end", !.changed = game.world # seat.digest, !.digest = Zero]
        /\ game' = [game EXCEPT !.ends = 0] /\ seat.pc = "open"
    BY <1>9 DEF EndPhase
  <2> DEFINE changed == game.world # seat.digest
  <2> HIDE DEF changed
  <2>2. IsSeat(seat') /\ seat'.pc = "end" /\ seat'.target = seat.target
    BY <1>1, <2>1 DEF IsSeat
  <2>3. ASSUME NEW h, h = [game EXCEPT !.ends = 0]
        PROVE  /\ IsGame(h) /\ h.puppet = game.puppet /\ h.turn = game.turn /\ h.stage = game.stage
               /\ h.granted = game.granted /\ h.lease = game.lease /\ h.world = game.world
               /\ h.spent = game.spent /\ h.overrun = game.overrun
    BY <1>1, <2>3 DEF IsGame
  <2> QED BY <2>1, <2>2, <2>3
      DEF LiveInv, LeaseOfTheTurn, LeaseHeld, TurnWasGranted, OrderIsKnown, PlaysItsTurn,
          OneAllowance, Phase, Carrying
<1>10. CASE Leave
  <2>1. game' = game /\ seat.pc = "leave" /\ HasLeft /\ IsAt(seat', "release")
    BY <1>1, <1>10, SeatGoes DEF Leave
  <2>2. seat.target < game.turn \/ (seat.target = game.turn /\ game.stage = "over")
    BY <1>1, <2>1 DEF LiveInv, TurnWasGranted, LeaseHeld, HasLeft
  <2>3. ~game.overrun => game.stage # "ending"
    BY <1>1, <2>1, <2>2 DEF LiveInv, PlaysItsTurn
  <2> QED BY <1>1, <2>1, <2>2, <2>3
      DEF LiveInv, LeaseOfTheTurn, LeaseHeld, TurnWasGranted, OrderIsKnown, PlaysItsTurn,
          OneAllowance, Phase, Carrying, IsAt
<1>11. CASE Release
  <2>1. seat.pc = "release" /\ Tell(ReleaseLease(game, seat.target), Goes("dump"), Once)
    BY <1>11 DEF Release
  <2>2. ReleaseLease(game, seat.target) = game
    BY <1>1, <2>1 DEF ReleaseLease, LiveInv, TurnWasGranted, LeaseOfTheTurn
  <2>3. game' = game /\ IsAt(seat', "dump")
    BY <1>1, <1>2, <2>1, <2>2, TellGoes
  <2>4. game.stage = "ending" => game.overrun
    BY <2>1 DEF LiveInv, PlaysItsTurn
  <2> QED BY <1>1, <2>1, <2>3, <2>4, DrivesOn DEF Phase, IsAt
<1>12. CASE Dump
  <2>1. /\ seat.pc = "dump" /\ IsSeat(seat') /\ seat'.pc \in {"dump", "closed"}
        /\ IsGame(game') /\ Alike(game, game')
    BY <1>1, <1>12, DumpStep
  <2>2. game.stage = "ending" => game.overrun
    BY <2>1 DEF LiveInv, PlaysItsTurn
  <2> QED BY <2>1, <2>2, DrivesOn DEF Phase, Alike, SameLease
<1>13. CASE Sweep
  <2> DEFINE place == IF Flagged \/ Unexpected THEN "anomaly"
                   ELSE IF seat.target >= MaxTurn THEN "done" ELSE "poll"
  <2>1. /\ seat.pc = "closed" /\ game' = game /\ place \in {"anomaly", "done", "poll"}
        /\ seat' = [seat EXCEPT !.last = seat.target, !.seq = 0, !.loose = FALSE,
                                !.mutated = FALSE, !.changed = FALSE,
                                !.journal = NoRows, !.allowed = NoRows, !.covered = {},
                                !.pc = place]
    BY <1>13 DEF Sweep
  <2> HIDE DEF place
  <2>2. IsSeat(seat') /\ seat'.pc = place
    BY <1>1, <2>1 DEF IsSeat
  <2>3. game.stage = "ending" => game.overrun
    BY <2>1 DEF LiveInv, PlaysItsTurn
  <2> QED BY <1>1, <2>1, <2>2, <2>3, DrivesOn DEF Phase
<1>14. CASE Teardown
  <2> DEFINE g == IF seat.open THEN ReleaseLease(game, seat.target) ELSE game
  <2>1. /\ IsGame(g)
        /\ g.turn = game.turn /\ g.stage = game.stage /\ g.puppet = game.puppet
        /\ g.granted = game.granted /\ g.world[Unit] = game.world[Unit] /\ g.spent = game.spent
        /\ g.overrun = game.overrun
        /\ g = game \/ g.lease.turn = 0
    BY <1>1, ReleaseFrees
  <2>2. seat.pc = "dead" /\ Tell(g, Goes("stopped"), Once)
    BY <1>14 DEF Teardown
  <2> HIDE DEF g
  <2>3. game' \in {game, g} /\ IsAt(seat', "stopped")
    BY <1>1, <1>2, <2>2, TellGoes
  <2> QED BY <1>1, <2>1, <2>2, <2>3
      DEF LiveInv, LeaseOfTheTurn, LeaseHeld, TurnWasGranted, OrderIsKnown, PlaysItsTurn,
          OneAllowance, Phase, Carrying, IsAt
<1> QED BY <1>3, <1>4, <1>5, <1>6, <1>7, <1>8, <1>9, <1>10, <1>11, <1>12, <1>13, <1>14

\* The invariant holds in every reachable state.
THEOREM LiveInvHolds == Spec => []LiveInv
<1>1. LiveInv /\ [Next]_vars => LiveInv'
  <2> SUFFICES ASSUME LiveInv, [Next]_vars PROVE LiveInv'
    OBVIOUS
  <2>1. CASE UNCHANGED vars
    BY <2>1
    DEF vars, LiveInv, LeaseOfTheTurn, LeaseHeld, TurnWasGranted, OrderIsKnown, PlaysItsTurn,
        OneAllowance
  <2>2. CASE Engine \/ Drift
    BY <2>2, EngineKeeps DEF Engine
  <2>3. CASE Driver \/ DigestLost
    BY <2>3, PhaseStepKeeps, DriverKeeps DEF Driver
  <2> QED BY <2>1, <2>2, <2>3 DEF Next
<1> QED BY <1>1, LiveInit, PTL DEF Spec

-----------------------------------------------------------------------------
(* The lease of the turn that is being played stands until the turn ends,  *)
(* whatever the link loses and however late the seat's release arrives.    *)
THEOREM LeaseOutlastsTheTurn == Spec => []LeaseStands
<1>1. LiveInv => LeaseStands
  BY DEF LiveInv, LeaseHeld, LeaseStands
<1> QED BY <1>1, LiveInvHolds, PTL

(* A unit spends at most one allowance in a turn, however often a restore  *)
(* or an order is sent again and however often the start hook is called.   *)
THEOREM NoUnitMovesTwice == Spec => []AllowanceOncePerTurn
<1>1. LiveInv => AllowanceOncePerTurn
  BY DEF LiveInv, OneAllowance, AllowanceOncePerTurn
<1> QED BY <1>1, LiveInvHolds, PTL
-----------------------------------------------------------------------------
(* The popups: what a check at work holds, what a close on the wire has done *)
(* by now, and what is on record of the checks before.                       *)

(* A dialog of a context, and what a check knows of the popup it has picked. *)
Dialog(c) == [id : Nat, kind : Dialogs!Kind(c)]
Picked == [popup : Dialogs!Context, conn : Nat, frame : Nat, dialog : Nat]
Wire == [check : Nat, context : {"notice"}, left : 0..2, rows : SUBSET {"again", "no_target", "visible", "hidden"}]

PopupsTyped ==
  /\ queue \in [Dialogs!Context -> Seq(Dialog("advisor"))] /\ queue["notice"] \in Seq(Dialog("notice"))
  /\ checks \in Nat /\ dialogs \in Nat /\ conn \in Nat /\ frame \in Nat
  /\ receipt \in [Dialogs!Context -> Nat]
  /\ at \in {"idle", "close", "closing", "target", "click", "rescan", "over"}
  /\ lock \in {"free", "watch", "sweep"}
  /\ saw = None \/ saw \in Picked
  /\ script = None \/ script \in Wire

(* A check at work holds the lock and knows its popup. *)
AtWork ==
  /\ at \in {"close", "closing", "target", "click", "rescan"} => lock # "free" /\ saw \in Picked
  /\ at = "close" => saw.popup = "notice"
  /\ at = "click" => Dialogs!InformsOnly /\ Dialogs!Foremost("advisor").id = saw.dialog

(* Only a close that is waited for, or was given up, is on the wire. *)
OnTheWire ==
  /\ at = "closing" => script # None /\ script.check = Dialogs!Token
  /\ at \notin {"closing", "over"} => script = None
  /\ at = "over" /\ script # None => script.check = checks

(* No receipt is of a check to come. *)
ReceiptsAreOld ==
  \A c \in Dialogs!Context : receipt[c] <= Dialogs!Token /\ (at # "over" /\ at # "closing" => receipt[c] <= checks)

(* What the copies of a close that have run have said and pressed. *)
Ran == script # None => 
  /\ (receipt[script.context] = script.check) <=> script.rows # {}
  /\ receipt[script.context] <= script.check
  /\ "again" \in script.rows => \E r \in script.rows : r # "again"
  /\ script.rows \cap {"visible", "hidden"} # {} <=> \E p \in pressed : p.check = script.check
  /\ \A r, s \in script.rows \ {"again"} : r = s

PressesAreOld ==
  /\ \A p \in pressed : p.check \in Nat /\ p.check <= Dialogs!Token
  /\ at \notin {"closing", "rescan", "over"} => \A p \in pressed : p.check <= checks
  /\ at = "over" => \A p \in pressed : p.check <= checks
  /\ at = "rescan" => \E p \in pressed : p.check = Dialogs!Token

PressedOnce == \A p, q \in pressed : p.check = q.check => p = q
PressedWhatItSaw == \A p \in pressed : p.dialog.id = p.saw /\ p.dialog.kind = "ok"

ResultsAreTrue ==
  /\ \A r \in results :
       /\ r.check \in Nat /\ r.check <= checks
       /\ r.status = "no_target" => ~ \E p \in pressed : p.check = r.check
       /\ r.status = "sent" => \E p \in pressed : p.check = r.check
  /\ at = "over" => \A r \in results : r.check = checks => r.status = "failed"

PopupsInv ==
  PopupsTyped /\ AtWork /\ OnTheWire /\ ReceiptsAreOld /\ Ran /\ PressesAreOld
  /\ PressedOnce /\ PressedWhatItSaw /\ ResultsAreTrue

LEMMA PopupsInit == Dialogs!Init => PopupsInv
<1> SUFFICES ASSUME Dialogs!Init PROVE PopupsInv
  OBVIOUS
<1> USE DEF Dialogs!Init
<1>1. PopupsTyped
  <2>1. <<>> \in Seq(Dialog("advisor")) /\ <<>> \in Seq(Dialog("notice"))
    OBVIOUS
  <2>2. "notice" \in Dialogs!Context
    BY DEF Dialogs!Context
  <2> QED BY <2>1, <2>2 DEF PopupsTyped
<1>2. AtWork /\ OnTheWire /\ ReceiptsAreOld /\ Ran
  BY DEF AtWork, OnTheWire, ReceiptsAreOld, Ran, Dialogs!Token
<1>3. PressesAreOld /\ PressedOnce /\ PressedWhatItSaw /\ ResultsAreTrue
  BY DEF PressesAreOld, PressedOnce, PressedWhatItSaw, ResultsAreTrue
<1> QED BY <1>1, <1>2, <1>3 DEF PopupsInv

(* What the end of a check leaves. *)
LEMMA CheckEnds ==
  ASSUME NEW status \in {"failed", "no_target", "sent"}, NEW after, PopupsInv, Dialogs!Ends(status, after),
         pressed \subseteq pressed', \A p \in pressed' : p \in pressed \/ p.check = Dialogs!Token,
         status = "no_target" => ~ \E p \in pressed' : p.check = Dialogs!Token,
         status = "sent" => \E p \in pressed' : p.check = Dialogs!Token
  PROVE  /\ PressesAreOld' /\ ResultsAreTrue' /\ checks' = Dialogs!Token /\ checks' \in Nat
         /\ at' \in {"idle", "over"} /\ lock' \in {"free", "watch", "sweep"}
         /\ at' = "over" <=> status = "failed"
<1> USE DEF PopupsInv
<1>1. checks' = Dialogs!Token /\ checks \in Nat /\ Dialogs!Token = checks + 1 /\ lock \in {"free", "watch", "sweep"}
  BY DEF Dialogs!Ends, PopupsTyped, Dialogs!Token
<1>2. (at' = "over" /\ status = "failed" /\ lock' = lock) \/ (at' = "idle" /\ status # "failed" /\ lock' = "free")
  BY DEF Dialogs!Ends
<1> DEFINE new == [check |-> Dialogs!Token, status |-> status, after |-> after]
<1>3. results' = results \cup {new} /\ new.check = Dialogs!Token /\ new.status = status
  BY DEF Dialogs!Ends
<1> HIDE DEF new
<1>4. \A p \in pressed' : p.check \in Nat /\ p.check <= Dialogs!Token
  BY <1>1 DEF PressesAreOld
<1>5. PressesAreOld'
  BY <1>1, <1>2, <1>4 DEF PressesAreOld, Dialogs!Token
<1>6. ResultsAreTrue'
  <2>1. ASSUME NEW r \in results
        PROVE  /\ r.check \in Nat /\ r.check <= Dialogs!Token /\ r.check # Dialogs!Token
               /\ r.status = "no_target" => ~ \E p \in pressed' : p.check = r.check
               /\ r.status = "sent" => \E p \in pressed' : p.check = r.check
    <3>1. r.check \in Nat /\ r.check <= Dialogs!Token /\ r.check # Dialogs!Token
      BY <1>1 DEF ResultsAreTrue
    <3> QED BY <3>1 DEF ResultsAreTrue
  <2>2. new.check \in Nat /\ new.check <= Dialogs!Token
    BY <1>1, <1>3
  <2> QED BY <1>1, <1>2, <1>3, <2>1, <2>2 DEF ResultsAreTrue
<1> QED BY <1>1, <1>2, <1>5, <1>6

(* A check of nothing that failed, found nothing or was made while nothing was  *)
(* on the wire.                                                                *)
LEMMA NothingPressed ==
  ASSUME NEW status \in {"failed", "no_target", "sent"}, NEW after, PopupsInv, Dialogs!Ends(status, after),
         UNCHANGED <<queue, dialogs, conn, frame, receipt, script, saw, pressed>>,
         at # "over",
         status # "failed" => at # "closing",
         status = "no_target" => at # "rescan",
         status = "sent" => at = "rescan"
  PROVE  PopupsInv'
<1> USE DEF PopupsInv
<1>1. /\ PressesAreOld' /\ ResultsAreTrue' /\ checks' = Dialogs!Token /\ checks' \in Nat
      /\ at' \in {"idle", "over"} /\ lock' \in {"free", "watch", "sweep"}
      /\ at' = "over" <=> status = "failed"
  <2>1. status = "no_target" => ~ \E p \in pressed' : p.check = Dialogs!Token
    BY DEF PressesAreOld, PopupsTyped, Dialogs!Token
  <2>2. status = "sent" => \E p \in pressed' : p.check = Dialogs!Token
    BY DEF PressesAreOld
  <2> QED BY <2>1, <2>2, CheckEnds
<1>2. PopupsTyped'
  BY <1>1 DEF PopupsTyped
<1>3. AtWork'
  BY <1>1 DEF AtWork
<1>4. OnTheWire'
  BY <1>1 DEF OnTheWire
<1>5. ReceiptsAreOld'
  BY <1>1 DEF ReceiptsAreOld, PopupsTyped, Dialogs!Token
<1>6. Ran' /\ PressedOnce' /\ PressedWhatItSaw'
  BY DEF Ran, PressedOnce, PressedWhatItSaw
<1> QED BY <1>1, <1>2, <1>3, <1>4, <1>5, <1>6

LEMMA AppearsKeeps == ASSUME NEW c \in Dialogs!Context, PopupsInv, Dialogs!Appears(c) PROVE PopupsInv'
<1> USE DEF PopupsInv
<1>1. PICK k \in Dialogs!Kind(c) : queue' = [queue EXCEPT ![c] = Append(@, [id |-> dialogs + 1, kind |-> k])]
  BY DEF Dialogs!Appears
<1> DEFINE new == [id |-> dialogs + 1, kind |-> k]
<1>2. dialogs' = dialogs + 1 /\ dialogs \in Nat
      /\ UNCHANGED <<conn, frame, stage, lock, at, saw, script, receipt, checks, pressed, results>>
  BY DEF Dialogs!Appears, PopupsTyped, Dialogs!monitorVars, Dialogs!historyVars
<1>3. new \in Dialog(c) /\ new \in Dialog("advisor")
  BY <1>2 DEF Dialog, Dialogs!Kind
<1> HIDE DEF new
<1>4. /\ queue \in [Dialogs!Context -> Seq(Dialog("advisor"))] /\ queue["notice"] \in Seq(Dialog("notice"))
      /\ "notice" \in Dialogs!Context /\ "advisor" \in Dialogs!Context
  BY DEF PopupsTyped, Dialogs!Context
<1>5. queue' = [queue EXCEPT ![c] = Append(queue[c], new)]
  BY <1>1 DEF new
<1>6. queue' \in [Dialogs!Context -> Seq(Dialog("advisor"))]
  BY <1>3, <1>4, <1>5
<1>7. queue'["notice"] \in Seq(Dialog("notice"))
  BY <1>3, <1>4, <1>5
<1>8. PopupsTyped'
  BY <1>2, <1>6, <1>7 DEF PopupsTyped
<1>9. Dialogs!InformsOnly => Dialogs!InformsOnly' /\ Dialogs!Foremost("advisor")' = Dialogs!Foremost("advisor")
  <2> SUFFICES ASSUME queue["advisor"] # <<>>
      PROVE  queue'["advisor"] # <<>> /\ queue'["advisor"][1] = queue["advisor"][1]
    BY DEF Dialogs!InformsOnly, Dialogs!Visible, Dialogs!Foremost
  <2>1. queue'["advisor"] = queue["advisor"] \/ queue'["advisor"] = Append(queue["advisor"], new)
    BY <1>4, <1>5
  <2>2. queue["advisor"] \in Seq(Dialog("advisor"))
    BY <1>4
  <2> QED BY <2>1, <2>2, <1>3
<1>10. AtWork'
  BY <1>2, <1>9 DEF AtWork
<1>11. OnTheWire' /\ ReceiptsAreOld' /\ Ran'
  BY <1>2 DEF OnTheWire, ReceiptsAreOld, Ran, Dialogs!Token
<1>12. PressesAreOld' /\ PressedOnce' /\ PressedWhatItSaw' /\ ResultsAreTrue'
  BY <1>2 DEF PressesAreOld, PressedOnce, PressedWhatItSaw, ResultsAreTrue, Dialogs!Token
<1> QED BY <1>8, <1>10, <1>11, <1>12

(* What happens to the window, the connection and the driver's stage. *)
LEMMA AroundKeeps == ASSUME PopupsInv, Dialogs!WindowMoves \/ Dialogs!Reconnects \/ Dialogs!Turns PROVE PopupsInv'
<1> USE DEF PopupsInv
<1>1. UNCHANGED <<queue, dialogs, lock, at, saw, script, receipt, checks, pressed, results>>
  BY DEF Dialogs!WindowMoves, Dialogs!Reconnects, Dialogs!Turns, Dialogs!monitorVars, Dialogs!historyVars, Dialogs!uiVars
<1>2. conn' \in {conn, conn + 1} /\ frame' \in {frame, frame + 1}
  BY DEF Dialogs!WindowMoves, Dialogs!Reconnects, Dialogs!Turns, Dialogs!uiVars
<1>3. PopupsTyped'
  BY <1>1, <1>2 DEF PopupsTyped
<1>4. AtWork'
  BY <1>1 DEF AtWork, Dialogs!InformsOnly, Dialogs!Visible, Dialogs!Foremost
<1>5. OnTheWire' /\ ReceiptsAreOld' /\ Ran'
  BY <1>1 DEF OnTheWire, ReceiptsAreOld, Ran, Dialogs!Token
<1>6. PressesAreOld' /\ PressedOnce' /\ PressedWhatItSaw' /\ ResultsAreTrue'
  BY <1>1 DEF PressesAreOld, PressedOnce, PressedWhatItSaw, ResultsAreTrue, Dialogs!Token
<1> QED BY <1>3, <1>4, <1>5, <1>6

LEMMA CheckKeeps == ASSUME NEW by \in {"watch", "sweep"}, PopupsInv, Dialogs!Check(by) PROVE PopupsInv'
<1> USE DEF PopupsInv
<1>1. /\ at = "idle" /\ lock = "free"
      /\ UNCHANGED <<queue, dialogs, conn, frame, receipt, script, pressed>>
  BY DEF Dialogs!Check, Dialogs!uiVars
<1>2. CASE Dialogs!Failed /\ saw' = saw
  <2>1. Dialogs!Ends("failed", "unavailable")
    BY <1>2 DEF Dialogs!Failed
  <2> QED BY <1>1, <1>2, <2>1, NothingPressed
<1>3. CASE Dialogs!NoTarget(by) /\ saw' = saw
  <2>1. Dialogs!Ends("no_target", "unavailable")
    BY <1>3 DEF Dialogs!NoTarget
  <2> QED BY <1>1, <1>3, <2>1, NothingPressed
<1>4. CASE /\ Dialogs!First # None
           /\ at' = (IF Dialogs!First = "advisor" THEN "target" ELSE "close") /\ lock' = by
           /\ saw' = [popup |-> Dialogs!First, conn |-> conn, frame |-> 0, dialog |-> 0]
           /\ UNCHANGED <<results, checks>>
  <2>1. Dialogs!First \in Dialogs!Context
    BY <1>4 DEF Dialogs!First, Dialogs!Context
  <2>2. saw' \in Picked /\ saw'.popup = Dialogs!First
    BY <1>4, <2>1 DEF Picked, PopupsTyped
  <2>3. Dialogs!First = "advisor" \/ Dialogs!First = "notice"
    BY <2>1 DEF Dialogs!Context
  <2>4. PopupsTyped'
    BY <1>1, <1>4, <2>2 DEF PopupsTyped
  <2>5. AtWork'
    BY <1>4, <2>2, <2>3 DEF AtWork
  <2>6. OnTheWire' /\ ReceiptsAreOld' /\ Ran'
    BY <1>1, <1>4 DEF OnTheWire, ReceiptsAreOld, Ran, Dialogs!Token
  <2>7. PressesAreOld' /\ PressedOnce' /\ PressedWhatItSaw' /\ ResultsAreTrue'
    BY <1>1, <1>4 DEF PressesAreOld, PressedOnce, PressedWhatItSaw, ResultsAreTrue, Dialogs!Token
  <2> QED BY <2>4, <2>5, <2>6, <2>7
<1> QED BY <1>2, <1>3, <1>4 DEF Dialogs!Check

LEMMA CloseKeeps == ASSUME PopupsInv, Dialogs!Close PROVE PopupsInv'
<1> USE DEF PopupsInv
<1>1. at = "close" /\ UNCHANGED <<queue, dialogs, conn, frame, receipt, saw, pressed>>
  BY DEF Dialogs!Close, Dialogs!uiVars
<1>2. CASE Dialogs!Failed /\ script' = script
  <2>1. Dialogs!Ends("failed", "unavailable")
    BY <1>2 DEF Dialogs!Failed
  <2> QED BY <1>1, <1>2, <2>1, NothingPressed
<1>3. ASSUME at' = "closing", UNCHANGED <<lock, results, checks>>, NEW n \in 1..2,
             script' = [check |-> Dialogs!Token, context |-> saw.popup, left |-> n, rows |-> {}]
      PROVE  PopupsInv'
  <2>1. saw.popup = "notice" /\ saw \in Picked /\ Dialogs!Token \in Nat /\ Dialogs!Token = checks + 1 /\ checks \in Nat
    BY <1>1 DEF AtWork, Dialogs!Token, PopupsTyped
  <2>2. script' \in Wire /\ script'.check = Dialogs!Token /\ script'.rows = {} /\ script'.context = "notice" 
    BY <1>3, <2>1 DEF Wire
  <2>3. "notice" \in Dialogs!Context /\ receipt["notice"] \in Nat /\ receipt["notice"] <= checks
    BY <1>1 DEF PopupsTyped, ReceiptsAreOld, Dialogs!Context
  <2>4. \A p \in pressed : p.check # Dialogs!Token
    BY <1>1, <2>1 DEF PressesAreOld
  <2>5. PopupsTyped'
    BY <1>1, <1>3, <2>2 DEF PopupsTyped
  <2>6. AtWork'
    BY <1>1, <1>3 DEF AtWork
  <2>7. OnTheWire' /\ ReceiptsAreOld'
    <3>1. script' # None
      BY <2>2, PopupAssumption DEF Wire
    <3>2. OnTheWire'
      BY <1>1, <1>3, <2>2, <3>1 DEF OnTheWire, Dialogs!Token
    <3>3. \A c \in Dialogs!Context : receipt[c] <= Dialogs!Token
      BY DEF ReceiptsAreOld
    <3>4. Dialogs!Token' = Dialogs!Token
      BY <1>3 DEF Dialogs!Token
    <3>5. ReceiptsAreOld'
      BY <1>1, <1>3, <3>3, <3>4 DEF ReceiptsAreOld
    <3> QED BY <3>2, <3>5
  <2>8. Ran'
    BY <1>1, <2>1, <2>2, <2>3, <2>4 DEF Ran
  <2>9. PressesAreOld' /\ PressedOnce' /\ PressedWhatItSaw' /\ ResultsAreTrue'
    BY <1>1, <1>3 DEF PressesAreOld, PressedOnce, PressedWhatItSaw, ResultsAreTrue, Dialogs!Token
  <2> QED BY <2>5, <2>6, <2>7, <2>8, <2>9
<1> QED BY <1>1, <1>2, <1>3 DEF Dialogs!Close

LEMMA RunCloseKeeps == ASSUME PopupsInv, Dialogs!RunClose PROVE PopupsInv'
<1> USE DEF PopupsInv
<1> DEFINE check == script.check
           row == IF Dialogs!Replayed(script) THEN "again" ELSE IF ~Dialogs!Visible("notice") THEN "no_target"
                  ELSE IF Len(queue["notice"]) > 1 THEN "visible" ELSE "hidden"
           new == [check |-> check, dialog |-> Dialogs!Foremost("notice"), saw |-> Dialogs!Foremost("notice").id]
<1>1. /\ script # None /\ script.left > 0
      /\ UNCHANGED <<conn, frame, dialogs, lock, at, saw, checks, results>>
  BY DEF Dialogs!RunClose, Dialogs!monitorVars
<1>2. script \in Wire
  BY <1>1 DEF PopupsTyped
<1>3. script.context = "notice" /\ check \in Nat /\ script.left \in 0..2
      /\ script.rows \subseteq {"again", "no_target", "visible", "hidden"}
  BY <1>2 DEF Wire
<1>4. /\ script' = [script EXCEPT !.left = @ - 1, !.rows = @ \cup {row}]
      /\ receipt' = [receipt EXCEPT !["notice"] = check]
      /\ IF row \in {"visible", "hidden"}
         THEN queue' = [queue EXCEPT !["notice"] = Tail(@)] /\ pressed' = pressed \cup {new}
         ELSE UNCHANGED <<queue, pressed>>
  BY <1>3 DEF Dialogs!RunClose
<1>5. /\ "notice" \in Dialogs!Context /\ receipt \in [Dialogs!Context -> Nat] /\ checks \in Nat /\ Dialogs!Token = checks + 1
      /\ queue \in [Dialogs!Context -> Seq(Dialog("advisor"))] /\ queue["notice"] \in Seq(Dialog("notice"))
  BY DEF PopupsTyped, Dialogs!Token, Dialogs!Context
<1>6. (at = "closing" /\ check = Dialogs!Token) \/ (at = "over" /\ check = checks)
  BY <1>1 DEF OnTheWire
<1>7. row = "again" <=> receipt["notice"] = check
  BY <1>3 DEF Dialogs!Replayed
<1>8. row \in {"again", "no_target", "visible", "hidden"}
  OBVIOUS
<1>9. row \in {"visible", "hidden"} => Dialogs!Visible("notice")
  OBVIOUS
<1> HIDE DEF row, new
<1>10. script' \in Wire /\ script'.check = check /\ script'.context = "notice" /\ script'.rows = script.rows \cup {row}
  <2>1. script.left - 1 \in 0..2
    BY <1>1, <1>3
  <2> QED BY <1>2, <1>3, <1>4, <1>8, <2>1 DEF Wire
<1>11. script' # None
  BY <1>10, PopupAssumption DEF Wire
<1>12. receipt'["notice"] = check /\ (\A c \in Dialogs!Context : receipt'[c] = receipt[c] \/ receipt'[c] = check)
       /\ receipt' \in [Dialogs!Context -> Nat]
  BY <1>3, <1>4, <1>5
<1>13. (receipt["notice"] = check <=> script.rows # {})
       /\ ("again" \in script.rows => \E r \in script.rows : r # "again")
       /\ (script.rows \cap {"visible", "hidden"} # {} <=> \E p \in pressed : p.check = check)
       /\ (\A r, s \in script.rows \ {"again"} : r = s)
  BY <1>1, <1>3 DEF Ran
<1>14. row \in {"visible", "hidden"} =>
         /\ queue["notice"] # <<>> /\ Dialogs!Foremost("notice") \in Dialog("notice")
         /\ Tail(queue["notice"]) \in Seq(Dialog("notice"))
  BY <1>5, <1>9 DEF Dialogs!Visible, Dialogs!Foremost
<1>15. new.check = check /\ new.dialog = Dialogs!Foremost("notice") /\ new.saw = Dialogs!Foremost("notice").id
  BY DEF new
<1>16. PopupsTyped'
  <2>1. Dialog("notice") \subseteq Dialog("advisor")
    BY DEF Dialog, Dialogs!Kind
  <2>2. Tail(queue["notice"]) \in Seq(Dialog("notice")) => Tail(queue["notice"]) \in Seq(Dialog("advisor"))
    BY <2>1
  <2>3. queue' \in [Dialogs!Context -> Seq(Dialog("advisor"))] /\ queue'["notice"] \in Seq(Dialog("notice"))
    BY <2>2, <1>4, <1>5, <1>14
  <2> QED BY <2>3, <1>1, <1>10, <1>12 DEF PopupsTyped
<1>17. AtWork' /\ OnTheWire' /\ ReceiptsAreOld'
  <2>1. AtWork'
    BY <1>1, <1>6 DEF AtWork
  <2>2. OnTheWire'
    BY <1>1, <1>6, <1>10, <1>11 DEF OnTheWire, Dialogs!Token
  <2>3. ReceiptsAreOld'
    <3>1. Dialogs!Token' = Dialogs!Token /\ at' = at /\ (at = "over" \/ at = "closing")
      BY <1>1, <1>6 DEF Dialogs!Token
    <3>2. check <= Dialogs!Token
      BY <1>5, <1>6
    <3>3. \A c \in Dialogs!Context : receipt'[c] <= Dialogs!Token
      BY <1>12, <3>2 DEF ReceiptsAreOld
    <3> QED BY <3>1, <3>3 DEF ReceiptsAreOld
  <2> QED BY <2>1, <2>2, <2>3
<1>18. Ran'
  <2>1. script'.rows # {} /\ receipt'[script'.context] = script'.check
    BY <1>10, <1>12
  <2>2. "again" \in script'.rows => \E r \in script'.rows : r # "again"
    BY <1>7, <1>10, <1>13
  <2>3. script'.rows \cap {"visible", "hidden"} # {} <=> \E p \in pressed' : p.check = check
    <3>1. CASE row \in {"visible", "hidden"}
      BY <3>1, <1>4, <1>10, <1>15
    <3>2. CASE row \notin {"visible", "hidden"}
      BY <3>2, <1>4, <1>10, <1>13
    <3> QED BY <3>1, <3>2
  <2>4. \A r, s \in script'.rows \ {"again"} : r = s
    BY <1>7, <1>10, <1>13
  <2> QED BY <2>1, <2>2, <2>3, <2>4, <1>3, <1>10 DEF Ran
<1>19. row \in {"visible", "hidden"} => ~ \E p \in pressed : p.check = check
  <2>1. row \in {"visible", "hidden"} => script.rows = {}
    BY <1>7, <1>13
  <2> QED BY <2>1, <1>13
<1>20. \A p \in pressed' : p \in pressed \/ (p = new /\ row \in {"visible", "hidden"})
  BY <1>4
<1>21. PressesAreOld'
  BY <1>1, <1>3, <1>5, <1>6, <1>15, <1>20 DEF PressesAreOld, Dialogs!Token
<1>22. PressedOnce'
  BY <1>15, <1>19, <1>20 DEF PressedOnce
<1>23. PressedWhatItSaw'
  BY <1>14, <1>15, <1>20 DEF PressedWhatItSaw, Dialog, Dialogs!Kind
<1>24. ResultsAreTrue'
  <2>1. pressed \subseteq pressed'
    BY <1>4
  <2>2. ASSUME NEW r \in results, r.status = "no_target" PROVE ~ \E p \in pressed' : p.check = r.check
    <3>1. r.check # check
      BY <2>2, <1>5, <1>6 DEF ResultsAreTrue
    <3> QED BY <3>1, <2>2, <1>15, <1>20 DEF ResultsAreTrue
  <2> QED BY <1>1, <2>1, <2>2 DEF ResultsAreTrue
<1> QED BY <1>16, <1>17, <1>18, <1>21, <1>22, <1>23, <1>24

LEMMA SameSize == \A S : Dialogs!Cardinality(S) = Cardinality(S)
BY DEF Dialogs!Cardinality, Cardinality

LEMMA FewRows ==
  ASSUME NEW S \in SUBSET {"again", "no_target", "visible", "hidden"}, Cardinality(S) = 1
  PROVE  \E x : S = {x}
<1>1. IsFiniteSet({"again", "no_target", "visible", "hidden"})
  <2>1. IsFiniteSet({"again"})
    BY FS_Singleton
  <2>2. IsFiniteSet({"again"} \cup {"no_target"})
    BY <2>1, FS_AddElement
  <2>3. IsFiniteSet(({"again"} \cup {"no_target"}) \cup {"visible"})
    BY <2>2, FS_AddElement
  <2>4. IsFiniteSet((({"again"} \cup {"no_target"}) \cup {"visible"}) \cup {"hidden"})
    BY <2>3, FS_AddElement
  <2>5. (({"again"} \cup {"no_target"}) \cup {"visible"}) \cup {"hidden"} = {"again", "no_target", "visible", "hidden"}
    OBVIOUS
  <2> QED BY <2>4, <2>5
<1>2. IsFiniteSet(S)
  BY <1>1, FS_Subset
<1> QED BY <1>2, FS_Singleton

LEMMA ClosedKeeps == ASSUME PopupsInv, Dialogs!Closed PROVE PopupsInv'
<1> USE DEF PopupsInv
<1>1. at = "closing" /\ UNCHANGED <<queue, dialogs, conn, frame, saw, receipt, pressed>>
  BY DEF Dialogs!Closed, Dialogs!uiVars
<1>2. script # None /\ script.check = Dialogs!Token /\ script \in Wire
  BY <1>1 DEF OnTheWire, PopupsTyped
<1>3. CASE Dialogs!Failed /\ script' = script
  <2>1. Dialogs!Ends("failed", "unavailable")
    BY <1>3 DEF Dialogs!Failed
  <2> QED BY <1>1, <1>3, <2>1, NothingPressed
<1>4. ASSUME script' = None, NEW status \in {"failed", "no_target", "sent"}, NEW after, Dialogs!Ends(status, after),
             status = "no_target" => script.rows \cap {"visible", "hidden"} = {},
             status = "sent" => script.rows \cap {"visible", "hidden"} # {}
      PROVE  PopupsInv'
  <2>1. /\ PressesAreOld' /\ ResultsAreTrue' /\ checks' = Dialogs!Token /\ checks' \in Nat
        /\ at' \in {"idle", "over"} /\ lock' \in {"free", "watch", "sweep"}
        /\ at' = "over" <=> status = "failed"
    <3>1. script.rows \cap {"visible", "hidden"} # {} <=> \E p \in pressed : p.check = Dialogs!Token
      BY <1>2 DEF Ran
    <3> QED BY <3>1, <1>1, <1>4, CheckEnds
  <2>2. PopupsTyped'
    BY <2>1, <1>1, <1>4 DEF PopupsTyped
  <2>3. AtWork' /\ OnTheWire' /\ Ran'
    BY <2>1, <1>4 DEF AtWork, OnTheWire, Ran
  <2>4. ReceiptsAreOld'
    BY <2>1, <1>1 DEF ReceiptsAreOld, PopupsTyped, Dialogs!Token
  <2>5. PressedOnce' /\ PressedWhatItSaw'
    BY <1>1 DEF PressedOnce, PressedWhatItSaw
  <2> QED BY <2>1, <2>2, <2>3, <2>4, <2>5
<1>5. CASE Dialogs!Failed /\ script' = None
  <2>1. Dialogs!Ends("failed", "unavailable")
    BY <1>5 DEF Dialogs!Failed
  <2> QED BY <1>4, <1>5, <2>1
<1>6. ASSUME script' = None, Cardinality(script.rows) = 1, NEW row, row = (CHOOSE r \in script.rows : TRUE),
             IF row = "no_target" THEN Dialogs!NoTarget(lock) ELSE Dialogs!Sent(script.context, row)
      PROVE  PopupsInv'
  <2>1. PICK x : script.rows = {x}
    BY <1>2, <1>6, FewRows DEF Wire
  <2>2. row = x
    BY <2>1, <1>6
  <2>3. row \in {"no_target", "visible", "hidden"}
    BY <2>1, <2>2, <1>2 DEF Ran, Wire
  <2>4. CASE row = "no_target"
    <3>1. Dialogs!Ends("no_target", "unavailable")
      BY <2>4, <1>6 DEF Dialogs!NoTarget
    <3> QED BY <3>1, <2>1, <2>2, <2>4, <1>4, <1>6
  <2>5. CASE row # "no_target"
    <3>1. Dialogs!Ends("sent", row)
      BY <2>5, <1>6 DEF Dialogs!Sent
    <3>2. script.rows \cap {"visible", "hidden"} # {}
      BY <2>1, <2>2, <2>3, <2>5
    <3> QED BY <3>1, <3>2, <1>4, <1>6
  <2> QED BY <2>4, <2>5
<1> QED BY <1>3, <1>5, <1>6, SameSize DEF Dialogs!Closed

LEMMA TargetKeeps == ASSUME PopupsInv, Dialogs!Target PROVE PopupsInv'
<1> USE DEF PopupsInv
<1>1. at = "target" /\ UNCHANGED <<queue, dialogs, conn, frame, script, receipt, pressed>>
  BY DEF Dialogs!Target, Dialogs!uiVars
<1>2. CASE Dialogs!Failed /\ saw' = saw
  <2>1. Dialogs!Ends("failed", "unavailable")
    BY <1>2 DEF Dialogs!Failed
  <2> QED BY <1>1, <1>2, <2>1, NothingPressed
<1>3. ASSUME Dialogs!InformsOnly, at' = "click", UNCHANGED <<lock, results, checks>>,
             saw' = [saw EXCEPT !.frame = frame, !.dialog = Dialogs!Foremost("advisor").id]
      PROVE  PopupsInv'
  <2>1. saw \in Picked /\ lock # "free"
    BY <1>1 DEF AtWork
  <2>2. Dialogs!Foremost("advisor") \in Dialog("advisor") /\ frame \in Nat
    BY <1>3 DEF PopupsTyped, Dialogs!InformsOnly, Dialogs!Visible, Dialogs!Foremost, Dialogs!Context
  <2>3. Dialogs!Foremost("advisor").id \in Nat
    BY <2>2 DEF Dialog
  <2>4. saw' \in Picked /\ saw'.dialog = Dialogs!Foremost("advisor").id
    BY <2>1, <2>2, <2>3, <1>3 DEF Picked
  <2>5. PopupsTyped'
    BY <2>4, <1>1, <1>3 DEF PopupsTyped
  <2>6. AtWork'
    BY <2>1, <2>4, <1>1, <1>3 DEF AtWork, Dialogs!InformsOnly, Dialogs!Visible, Dialogs!Foremost
  <2>7. OnTheWire' /\ ReceiptsAreOld' /\ Ran'
    BY <1>1, <1>3 DEF OnTheWire, ReceiptsAreOld, Ran, Dialogs!Token
  <2>8. PressesAreOld' /\ PressedOnce' /\ PressedWhatItSaw' /\ ResultsAreTrue'
    BY <1>1, <1>3 DEF PressesAreOld, PressedOnce, PressedWhatItSaw, ResultsAreTrue, Dialogs!Token
  <2> QED BY <2>5, <2>6, <2>7, <2>8
<1> QED BY <1>2, <1>3 DEF Dialogs!Target

LEMMA ClickKeeps == ASSUME PopupsInv, Dialogs!Click PROVE PopupsInv'
<1> USE DEF PopupsInv
<1>1. at = "click" /\ UNCHANGED <<dialogs, conn, frame, script, receipt, saw>> /\ script = None
  BY DEF Dialogs!Click, OnTheWire
<1>2. CASE Dialogs!Failed /\ UNCHANGED <<queue, pressed>>
  <2>1. Dialogs!Ends("failed", "unavailable")
    BY <1>2 DEF Dialogs!Failed
  <2> QED BY <1>1, <1>2, <2>1, NothingPressed
<1>3. CASE Dialogs!NoTarget(lock) /\ UNCHANGED <<queue, pressed>>
  <2>1. Dialogs!Ends("no_target", "unavailable")
    BY <1>3 DEF Dialogs!NoTarget
  <2> QED BY <1>1, <1>3, <2>1, NothingPressed
<1>4. CASE Dialogs!Hit /\ ((at' = "rescan" /\ UNCHANGED <<lock, results, checks>>) \/ Dialogs!Failed)
  <2> DEFINE new == [check |-> Dialogs!Token, dialog |-> Dialogs!Foremost("advisor"), saw |-> saw.dialog]
  <2>1. Dialogs!InformsOnly /\ Dialogs!Foremost("advisor").id = saw.dialog /\ saw \in Picked /\ lock # "free"
    BY <1>1 DEF AtWork
  <2>2. queue' = [queue EXCEPT !["advisor"] = Tail(@)] /\ pressed' = pressed \cup {new}
    BY <2>1, <1>4 DEF Dialogs!Hit, Dialogs!InformsOnly
  <2>3. new.check = Dialogs!Token /\ new.dialog.id = new.saw /\ new.dialog.kind = "ok"
    BY <2>1 DEF Dialogs!InformsOnly
  <2> HIDE DEF new
  <2>4. /\ queue \in [Dialogs!Context -> Seq(Dialog("advisor"))] /\ queue["notice"] \in Seq(Dialog("notice"))
        /\ "notice" \in Dialogs!Context /\ "advisor" \in Dialogs!Context /\ queue["advisor"] # <<>>
        /\ checks \in Nat /\ Dialogs!Token = checks + 1
    BY <2>1 DEF PopupsTyped, Dialogs!Context, Dialogs!InformsOnly, Dialogs!Visible, Dialogs!Token
  <2>5. queue' \in [Dialogs!Context -> Seq(Dialog("advisor"))] /\ queue'["notice"] \in Seq(Dialog("notice"))
    BY <2>2, <2>4
  <2>6. \A p \in pressed : p.check \in Nat /\ p.check <= checks
    BY <1>1 DEF PressesAreOld
  <2>7. PressedOnce' /\ PressedWhatItSaw'
    <3>1. \A p \in pressed : p.check # Dialogs!Token
      BY <2>4, <2>6
    <3>2. \A p \in pressed' : p \in pressed \/ p = new
      BY <2>2
    <3> QED BY <3>1, <3>2, <2>3 DEF PressedOnce, PressedWhatItSaw
  <2>8. Ran'
    BY <1>1 DEF Ran
  <2>9. CASE at' = "rescan" /\ UNCHANGED <<lock, results, checks>>
    <3>1. PopupsTyped'
      BY <2>5, <2>9, <1>1 DEF PopupsTyped
    <3>2. AtWork' /\ OnTheWire'
      BY <2>1, <2>9, <1>1 DEF AtWork, OnTheWire
    <3>3. ReceiptsAreOld'
      BY <2>9, <1>1 DEF ReceiptsAreOld, Dialogs!Token
    <3>4. PressesAreOld'
      BY <2>2, <2>3, <2>4, <2>6, <2>9 DEF PressesAreOld, Dialogs!Token
    <3>5. ResultsAreTrue'
      <4>1. \A r \in results : r.check \in Nat /\ r.check <= checks /\ r.check # Dialogs!Token
        BY <2>4 DEF ResultsAreTrue
      <4>2. \A r \in results : (\E p \in pressed' : p.check = r.check) <=> (\E p \in pressed : p.check = r.check)
        BY <4>1, <2>2, <2>3
      <4> QED BY <4>1, <4>2, <2>9 DEF ResultsAreTrue
    <3> QED BY <2>7, <2>8, <3>1, <3>2, <3>3, <3>4, <3>5
  <2>10. CASE Dialogs!Failed
    <3>1. Dialogs!Ends("failed", "unavailable")
      BY <2>10 DEF Dialogs!Failed
    <3>2. pressed \subseteq pressed' /\ \A p \in pressed' : p \in pressed \/ p.check = Dialogs!Token
      BY <2>2, <2>3
    <3>3. /\ PressesAreOld' /\ ResultsAreTrue' /\ checks' = Dialogs!Token /\ checks' \in Nat
          /\ at' \in {"idle", "over"} /\ lock' \in {"free", "watch", "sweep"}
      BY <3>1, <3>2, CheckEnds
    <3>4. PopupsTyped'
      BY <2>5, <3>3, <1>1 DEF PopupsTyped
    <3>5. AtWork' /\ OnTheWire'
      BY <3>3, <1>1 DEF AtWork, OnTheWire
    <3>6. ReceiptsAreOld'
      BY <3>3, <1>1 DEF ReceiptsAreOld, PopupsTyped, Dialogs!Token
    <3> QED BY <2>7, <2>8, <3>3, <3>4, <3>5, <3>6
  <2> QED BY <2>9, <2>10, <1>4
<1> QED BY <1>2, <1>3, <1>4 DEF Dialogs!Click

LEMMA RescanKeeps == ASSUME PopupsInv, Dialogs!Rescan PROVE PopupsInv'
<1>1. at = "rescan" /\ UNCHANGED <<queue, dialogs, conn, frame, saw, script, receipt, pressed>>
  BY DEF Dialogs!Rescan, Dialogs!uiVars
<1>2. CASE Dialogs!Failed
  <2>1. Dialogs!Ends("failed", "unavailable")
    BY <1>2 DEF Dialogs!Failed
  <2> QED BY <1>1, <2>1, NothingPressed
<1>3. ASSUME NEW after, Dialogs!Sent("advisor", after) PROVE PopupsInv'
  <2>1. Dialogs!Ends("sent", after)
    BY <1>3 DEF Dialogs!Sent
  <2> QED BY <1>1, <2>1, NothingPressed
<1> QED BY <1>2, <1>3 DEF Dialogs!Rescan

LEMMA KeyKeeps == ASSUME PopupsInv, Dialogs!Key PROVE PopupsInv'
<1> USE DEF PopupsInv
<1>1. lock = "free" /\ at # "over"
      /\ UNCHANGED <<frame, dialogs, conn, lock, at, saw, script, receipt, checks, pressed, results>>
  BY DEF Dialogs!Key, Dialogs!Running, Dialogs!monitorVars, Dialogs!historyVars
<1>2. at = "idle"
  BY <1>1 DEF AtWork, PopupsTyped
<1>3. queue' \in [Dialogs!Context -> Seq(Dialog("advisor"))] /\ queue'["notice"] \in Seq(Dialog("notice"))
  <2>1. /\ queue \in [Dialogs!Context -> Seq(Dialog("advisor"))] /\ queue["notice"] \in Seq(Dialog("notice"))
        /\ "notice" \in Dialogs!Context
    BY DEF PopupsTyped, Dialogs!Context
  <2>2. ASSUME NEW c \in Dialogs!Context, Dialogs!Visible(c), queue' = [queue EXCEPT ![c] = Tail(@)]
        PROVE  queue' \in [Dialogs!Context -> Seq(Dialog("advisor"))] /\ queue'["notice"] \in Seq(Dialog("notice"))
    BY <2>1, <2>2 DEF Dialogs!Visible
  <2> QED BY <2>1, <2>2 DEF Dialogs!Key
<1>4. PopupsTyped'
  BY <1>1, <1>3 DEF PopupsTyped
<1>5. AtWork' /\ OnTheWire' /\ ReceiptsAreOld' /\ Ran'
  BY <1>1, <1>2 DEF AtWork, OnTheWire, ReceiptsAreOld, Ran, Dialogs!Token
<1>6. PressesAreOld' /\ PressedOnce' /\ PressedWhatItSaw' /\ ResultsAreTrue'
  BY <1>1 DEF PressesAreOld, PressedOnce, PressedWhatItSaw, ResultsAreTrue, Dialogs!Token
<1> QED BY <1>4, <1>5, <1>6

LEMMA PopupsInvIsEnough == PopupsInv => Dialogs!PressesWhatItSaw /\ Dialogs!ReportsWhatItDid
<1> SUFFICES ASSUME PopupsInv PROVE Dialogs!PressesWhatItSaw /\ Dialogs!ReportsWhatItDid
  OBVIOUS
<1> USE DEF PopupsInv
<1>1. ASSUME NEW n \in 1..Dialogs!Token PROVE Cardinality(Dialogs!By(n)) <= 1
  <2>1. \A p, q \in Dialogs!By(n) : p = q
    BY DEF Dialogs!By, PressedOnce
  <2>2. CASE Dialogs!By(n) = {}
    BY <2>2, FS_EmptySet
  <2>3. CASE Dialogs!By(n) # {}
    <3>1. PICK p : p \in Dialogs!By(n)
      BY <2>3
    <3>2. Dialogs!By(n) = {p}
      BY <2>1, <3>1
    <3>3. Cardinality({p}) = 1
      BY FS_Singleton
    <3> QED BY <3>2, <3>3
  <2> QED BY <2>2, <2>3
<1>2. Dialogs!PressesWhatItSaw
  BY <1>1, SameSize DEF Dialogs!PressesWhatItSaw, PressedWhatItSaw
<1>3. Dialogs!ReportsWhatItDid
  BY DEF Dialogs!ReportsWhatItDid, ResultsAreTrue, Dialogs!By
<1> QED BY <1>2, <1>3

LEMMA PopupsInvKeeps == PopupsInv /\ Dialogs!Next => PopupsInv'
<1> SUFFICES ASSUME PopupsInv, Dialogs!Next PROVE PopupsInv'
  OBVIOUS
<1> QED
  BY AppearsKeeps, AroundKeeps, CheckKeeps, CloseKeeps, RunCloseKeeps, ClosedKeeps, TargetKeeps,
     ClickKeeps, RescanKeeps, KeyKeeps
  DEF Dialogs!Next

-----------------------------------------------------------------------------
(* The startup: whose the game and its saves are at each of its steps.       *)

(* The worlds and screens of a game, the game and a save of it. *)
Worlds == {"none", "old", "late", "ours", "torn"}
Screens == {"none", "boot", "menu", "staging", "intro", "loading", "map"}
Games == [up : BOOLEAN, screen : Screens, tuner : BOOLEAN, world : Worlds,
          core : SUBSET Start!Seat, cfg : SUBSET Start!Seat, extra : BOOLEAN]
SaveFiles == [world : Worlds, fresh : BOOLEAN, whole : BOOLEAN]

StartTyped ==
  /\ opts \in [arch1 : BOOLEAN, killFirst : BOOLEAN, freshX : BOOLEAN, config : BOOLEAN]
  /\ pc \in Start!Session \cup {"allocate", "seal", "dispatch", "gone"}
  /\ host \in Games /\ saves \in [Start!File -> SaveFiles] /\ kept \in [Start!File -> SUBSET Worlds]
  /\ pc = "config" => ~opts.arch1

(* What was hosted is there until the game is started anew, dead or alive; the   *)
(* saves that are seen since are of it, and so is what is loaded afterwards.     *)
OwnGame ==
  /\ pc \in {"ready", "enter", "quicksave", "quicksaved", "swap", "restart2"} =>
       host.world = "ours" /\ host.screen \in {"staging", "intro", "map"}
  /\ pc \in {"menu2", "normalize2", "load"} =>
       host.screen # "loading" /\ (host.screen = "map" => host.world = "ours")
OwnSaves ==
  /\ pc \in {"enter", "quicksave", "quicksaved", "swap"} =>
       \A f \in Start!File : saves[f].fresh => saves[f].world = "ours"
  /\ pc \in {"quicksave", "quicksaved", "swap", "restart2", "menu2", "normalize2", "load"} =>
       saves["autosave"].world = "ours"
  /\ pc = "swap" => saves["quicksave"].world = "ours"
  /\ pc \in {"restart2", "menu2", "normalize2", "load"} => saves["slot"].world = "ours"
OwnMap ==
  opts.arch1 =>
    /\ pc = "ingame" => host.screen \in {"loading", "map"} /\ host.world \in {"ours", "torn"}
                        /\ (host.screen = "map" => host.world = "ours")
    /\ pc \in {"reflag", "census"} => host.screen = "map" /\ host.world = "ours"
    /\ (pc \in {"smoke", "dispatch"} \/ (pc = "seal" /\ code = 0)) =>
         host.screen = "map" /\ host.world = "ours" /\ host.core = Start!Seat /\ ~host.extra

(* The copies are there before a world of this session is. *)
OldIsKept ==
  opts.arch1 =>
    /\ \A f \in Start!File : saves[f].world = "old" \/ "old" \in kept[f] \/ f \in rewrote
    /\ pc \in Start!Session \ {"copy"} \/ host.world = "ours" =>
         \A f \in Start!File : "old" \in kept[f] \/ f \in rewrote

OnRecord ==
  /\ pc = "allocate" => record = <<>> /\ driver = "none"
  /\ pc \in Start!Session \cup {"seal"} =>
       driver = "none" /\ record = (IF opts.arch1 THEN <<"MATCH_START">> ELSE <<>>)
  /\ pc = "dispatch" => opts.arch1 /\ driver # "none"
  /\ pc = "gone" => driver # "running" /\ (record = <<>> \/ Len(record) = 2)
  /\ driver # "none" => pc \in {"dispatch", "gone"} /\ record = <<"MATCH_START", "CLEAN_END">>

StartInv == StartTyped /\ OwnGame /\ OwnSaves /\ OwnMap /\ OldIsKept /\ OnRecord

LEMMA StartInit == Start!Init => StartInv
<1> SUFFICES ASSUME Start!Init PROVE StartInv
  OBVIOUS
<1> USE DEF Start!Init
<1>1. host \in Games /\ host.world \in {"none", "old"}
  <2>1. Start!Off \in Games /\ Start!Off.world = "none"
    BY DEF Start!Off, Games, Screens, Worlds, Start!Seat
  <2> DEFINE menu == [Start!Off EXCEPT !.up = TRUE, !.screen = "menu", !.tuner = TRUE]
             map == [Start!Off EXCEPT !.up = TRUE, !.screen = "map", !.tuner = TRUE, !.world = "old",
                           !.core = {0}, !.cfg = {0}]
  <2>2. menu \in Games /\ menu.world = "none"
    BY <2>1 DEF Games, Screens
  <2>3. map \in Games /\ map.world = "old"
    BY <2>1 DEF Games, Screens, Worlds, Start!Seat
  <2>4. host \in {Start!Off, menu, map}
    OBVIOUS
  <2> HIDE DEF menu, map
  <2> QED BY <2>1, <2>2, <2>3, <2>4
<1>2. saves \in [Start!File -> SaveFiles] /\ (\A f \in Start!File : saves[f].world = "old") /\ kept \in [Start!File -> SUBSET Worlds]
  BY DEF Start!Save, SaveFiles, Worlds
<1>3. StartTyped
  BY <1>1, <1>2 DEF StartTyped
<1>4. OwnGame /\ OwnSaves /\ OwnMap /\ OnRecord
  BY <1>3 DEF OwnGame, OwnSaves, OwnMap, OnRecord, Start!Session
<1>5. OldIsKept
  BY <1>1, <1>2 DEF OldIsKept, Start!Session
<1> QED BY <1>3, <1>4, <1>5 DEF StartInv

(* What the game does by itself, wherever the launcher is. *)
LEMMA GameKeeps ==
  ASSUME StartInv, Start!Boots \/ Start!Dies \/ Start!Autosaves \/ Start!SaveCompletes \/ Start!MapForms PROVE StartInv'
<1> USE DEF StartInv
<1>1. UNCHANGED <<pc, code, opts, kept, record, driver>>
  BY DEF Start!Boots, Start!Dies, Start!Autosaves, Start!SaveCompletes, Start!MapForms, Start!ownVars
<1>2. OnRecord'
  BY <1>1 DEF OnRecord
<1>3. ASSUME UNCHANGED <<saves, rewrote>>, host' \in Games,
             host'.world = host.world, host'.core = host.core, host'.extra = host.extra,
             \/ host'.screen = host.screen
             \/ host.screen = "boot" /\ host'.screen = "menu"
             \/ host.screen = "loading" /\ host'.screen = "map" /\ host.world # "torn"
      PROVE  StartInv'
  <2>1. StartTyped'
    BY <1>1, <1>3 DEF StartTyped
  <2>2. OwnGame'
    BY <1>1, <1>3 DEF OwnGame
  <2>3. OwnSaves' /\ OldIsKept'
    BY <1>1, <1>3 DEF OwnSaves, OldIsKept
  <2>4. OwnMap'
    BY <1>1, <1>3 DEF OwnMap
  <2> QED BY <1>2, <2>1, <2>2, <2>3, <2>4
<1>4. host \in Games /\ saves \in [Start!File -> SaveFiles]
  BY DEF StartTyped
<1>5. CASE Start!Boots
  <2>1. PICK bound \in BOOLEAN : host' = [host EXCEPT !.screen = "menu", !.tuner = bound]
    BY <1>5 DEF Start!Boots
  <2>2. host' \in Games /\ host'.world = host.world /\ host'.core = host.core /\ host'.extra = host.extra
        /\ host'.screen = "menu"
    BY <1>4, <2>1 DEF Games, Screens
  <2> QED BY <1>3, <1>5, <2>2 DEF Start!Boots
<1>6. CASE Start!Dies
  <2>1. host' = [host EXCEPT !.up = FALSE]
    BY <1>6 DEF Start!Dies
  <2>2. host' \in Games /\ host'.world = host.world /\ host'.core = host.core /\ host'.extra = host.extra
        /\ host'.screen = host.screen
    BY <1>4, <2>1 DEF Games, Screens
  <2> QED BY <1>3, <1>6, <2>2 DEF Start!Dies
<1>7. CASE Start!MapForms
  <2>1. host' = [host EXCEPT !.screen = "map", !.tuner = TRUE]
    BY <1>7 DEF Start!MapForms
  <2>2. host' \in Games /\ host'.world = host.world /\ host'.core = host.core /\ host'.extra = host.extra
        /\ host'.screen = "map"
    BY <1>4, <2>1 DEF Games, Screens
  <2> QED BY <1>3, <1>7, <2>2 DEF Start!MapForms
<1>8. CASE Start!SaveCompletes
  <2>1. saves' = [saves EXCEPT !["quicksave"].whole = TRUE] /\ UNCHANGED <<host, rewrote>>
    BY <1>8 DEF Start!SaveCompletes
  <2>2. saves' \in [Start!File -> SaveFiles]
    BY <1>4, <2>1 DEF SaveFiles
  <2>3. \A f \in Start!File : saves'[f].world = saves[f].world /\ saves'[f].fresh = saves[f].fresh
    BY <1>4, <2>1 DEF SaveFiles
  <2>4. StartTyped' /\ OwnGame' /\ OwnMap'
    BY <1>1, <2>1, <2>2 DEF StartTyped, OwnGame, OwnMap
  <2>5. OwnSaves' /\ OldIsKept'
    BY <1>1, <2>1, <2>3 DEF OwnSaves, OldIsKept, Start!File
  <2> QED BY <1>2, <2>4, <2>5
<1>9. CASE Start!Autosaves
  <2>1. PICK f \in {"autosave", "slot"} :
          /\ f = "slot" => host.world # "ours"
          /\ saves' = [saves EXCEPT ![f] = Start!Save(IF host.world = "ours" THEN "ours" ELSE "late")]
          /\ rewrote' = IF host.world = "ours" THEN rewrote ELSE rewrote \cup {f}
    BY <1>9 DEF Start!Autosaves
  <2>2. host.screen = "map" /\ host' = host
    BY <1>9 DEF Start!Autosaves
  <2>3. \A w \in Worlds : Start!Save(w) \in SaveFiles /\ Start!Save(w).world = w
    BY DEF Start!Save, SaveFiles
  <2> DEFINE w == IF host.world = "ours" THEN "ours" ELSE "late"
  <2>4. w \in Worlds /\ f \in Start!File
    BY DEF Worlds, Start!File
  <2>5. saves' \in [Start!File -> SaveFiles] /\ saves'[f].world = w
        /\ \A h \in Start!File : h # f => saves'[h] = saves[h]
    BY <1>4, <2>1, <2>3, <2>4
  <2>6. StartTyped' /\ OwnGame' /\ OwnMap'
    BY <1>1, <2>2, <2>5 DEF StartTyped, OwnGame, OwnMap
  <2>7. OwnSaves'
    BY <1>1, <2>1, <2>2, <2>5 DEF OwnSaves, OwnGame, Start!File
  <2>8. OldIsKept'
    BY <1>1, <2>1, <2>2, <2>4, <2>5 DEF OldIsKept
  <2> QED BY <1>2, <2>6, <2>7, <2>8
<1> QED BY <1>5, <1>6, <1>7, <1>8, <1>9

(* A step that only goes on, or stops with the code of a gate.                  *)
LEMMA GoesOn ==
  ASSUME StartInv, UNCHANGED <<host, saves, rewrote, opts, kept, record, driver>>,
         pc \in Start!Session,
         NEW next \in Start!Session \cup {"seal"},
         (pc' = next /\ code' = code) \/ (pc' = "seal" /\ code' \in Nat \ {0}),
         <<pc, next>> \in
           {<<"preflight", "bounce">>, <<"preflight", "restart">>, <<"bounce", "restart">>,
            <<"restart", "menu">>, <<"menu", "normalize">>, <<"menu", "config">>,
            <<"normalize", "host">>, <<"menu2", "normalize2">>, <<"normalize2", "load">>,
            <<"quicksaved", "swap">>,
            <<"enter", "quicksave">>, <<"ingame", "reflag">>, <<"ingame", "smoke">>,
            <<"census", "smoke">>, <<"smoke", "seal">>} \/ (pc' = "seal" /\ code' \in Nat \ {0}),
         <<pc, pc'>> = <<"menu", "config">> => ~opts.arch1,
         <<pc, pc'>> = <<"enter", "quicksave">> => saves["autosave"].fresh,
         <<pc, pc'>> = <<"quicksaved", "swap">> => saves["quicksave"].fresh,
         <<pc, pc'>> = <<"ingame", "reflag">> => host.screen = "map",
         <<pc, pc'>> = <<"ingame", "smoke">> => ~opts.arch1,
         <<pc, pc'>> = <<"census", "smoke">> => host.core = Start!Seat /\ ~host.extra
  PROVE  StartInv'
<1> USE DEF StartInv
<1>1. pc' \in Start!Session \cup {"seal"} /\ pc # "seal"
  BY DEF Start!Session
<1>2. StartTyped'
  BY <1>1 DEF StartTyped
<1>3. OwnGame'
  BY DEF OwnGame
<1>4. OwnSaves'
  BY DEF OwnSaves, Start!File
<1>5. OwnMap'
  BY DEF OwnMap
<1>6. OldIsKept'
  BY <1>1 DEF OldIsKept, Start!Session
<1>7. OnRecord'
  BY <1>1 DEF OnRecord, Start!Session
<1> QED BY <1>2, <1>3, <1>4, <1>5, <1>6, <1>7

LEMMA GatesKeep ==
  ASSUME StartInv,
         \/ Start!Preflight \/ Start!Menu \/ Start!Menu2 \/ Start!Ingame \/ Start!Normalize \/ Start!Enter \/ Start!QuicksaveLanded
         \/ Start!Census \/ Start!Smoke \/ Start!Interrupted
  PROVE  StartInv'
<1>1. UNCHANGED <<host, saves, rewrote, opts, kept, record, driver>>
  BY DEF Start!Preflight, Start!Menu, Start!Menu2, Start!Ingame, Start!WaitsFor, Start!Normalize, Start!Normalized, Start!Enter, Start!QuicksaveLanded,
         Start!Census, Start!Smoke, Start!Interrupted, Start!gameVars, Start!ownVars
<1>2. CASE pc \in Start!Session /\ pc' = "seal" /\ code' \in Nat \ {0}
  BY <1>1, <1>2, GoesOn
<1>3. CASE Start!Preflight
  BY <1>1, <1>2, <1>3, GoesOn DEF Start!Preflight, Start!At, Start!To, Start!Stop, Start!Session
<1>4. CASE Start!Menu
  BY <1>1, <1>2, <1>4, GoesOn DEF Start!Menu, Start!WaitsFor, Start!At, Start!To, Start!Stop, Start!Session
<1>5. CASE Start!Menu2
  BY <1>1, <1>2, <1>5, GoesOn DEF Start!Menu2, Start!WaitsFor, Start!At, Start!To, Start!Stop, Start!Session
<1>6. CASE Start!Ingame
  BY <1>1, <1>2, <1>6, GoesOn DEF Start!Ingame, Start!WaitsFor, Start!At, Start!To, Start!Stop, Start!Session, Start!Shows
<1>7. CASE Start!Normalize
  BY <1>1, <1>2, <1>7, GoesOn DEF Start!Normalize, Start!Normalized, Start!At, Start!To, Start!Stop, Start!Session
<1>8. CASE Start!Enter
  BY <1>1, <1>2, <1>8, GoesOn DEF Start!Enter, Start!Landed, Start!At, Start!To, Start!Stop, Start!Session
<1>9. CASE Start!QuicksaveLanded
  BY <1>1, <1>2, <1>9, GoesOn DEF Start!QuicksaveLanded, Start!Landed, Start!At, Start!To, Start!Stop, Start!Session
<1>10. CASE Start!Census
  BY <1>1, <1>2, <1>10, GoesOn DEF Start!Census, Start!TwoHumanMajors, Start!At, Start!To, Start!Stop, Start!Session
<1>11. CASE Start!Smoke
  BY <1>1, <1>2, <1>11, GoesOn DEF Start!Smoke, Start!At, Start!To, Start!Stop, Start!Session
<1>12. CASE Start!Interrupted
  BY <1>1, <1>2, <1>12, GoesOn DEF Start!Interrupted, Start!Stop
<1> QED BY <1>3, <1>4, <1>5, <1>6, <1>7, <1>8, <1>9, <1>10, <1>11, <1>12

LEMMA AllocateKeeps == ASSUME StartInv, Start!Allocate PROVE StartInv'
<1> USE DEF StartInv
<1>1. pc = "allocate" /\ UNCHANGED <<host, saves, rewrote, opts, kept, driver>>
  BY DEF Start!Allocate, Start!At, Start!gameVars
<1>2. \/ opts.arch1 /\ pc' = "copy" /\ record' = <<"MATCH_START">>
      \/ opts.arch1 /\ pc' = "gone" /\ record' = record
      \/ ~opts.arch1 /\ pc' = "preflight" /\ record' = record
  BY DEF Start!Allocate, Start!To
<1>3. StartTyped'
  BY <1>1, <1>2 DEF StartTyped, Start!Session
<1>4. OwnGame' /\ OwnSaves' /\ OwnMap'
  BY <1>1, <1>2 DEF OwnGame, OwnSaves, OwnMap
<1>5. OldIsKept'
  BY <1>1, <1>2 DEF OldIsKept, Start!Session
<1>6. OnRecord'
  BY <1>1, <1>2 DEF OnRecord, Start!Session, StartTyped
<1> QED BY <1>3, <1>4, <1>5, <1>6

LEMMA CopyKeeps == ASSUME StartInv, Start!Copy PROVE StartInv'
<1> USE DEF StartInv
<1>1. pc = "copy" /\ pc' = "preflight" /\ UNCHANGED <<host, saves, rewrote, opts, record, driver>>
      /\ kept' = [f \in Start!File |-> kept[f] \cup {saves[f].world}]
  BY DEF Start!Copy, Start!At, Start!To, Start!gameVars
<1>2. \A f \in Start!File : saves[f].world \in Worlds
  BY DEF StartTyped, SaveFiles
<1>3. StartTyped'
  BY <1>1, <1>2 DEF StartTyped, Start!Session
<1>4. OwnGame' /\ OwnSaves' /\ OwnMap'
  BY <1>1 DEF OwnGame, OwnSaves, OwnMap
<1>5. OldIsKept'
  BY <1>1 DEF OldIsKept, Start!Session
<1>6. OnRecord'
  BY <1>1 DEF OnRecord, Start!Session
<1> QED BY <1>3, <1>4, <1>5, <1>6

(* The steps that change the game, before it is hosted and when it is loaded.  *)
LEMMA GameChanges ==
  ASSUME StartInv, UNCHANGED <<saves, rewrote, opts, kept, record, driver>>,
         host' \in Games, pc \in Start!Session \ {"copy"}, pc' \in (Start!Session \ {"copy"}) \cup {"seal"},
         pc' = "seal" => code' \in Nat \ {0},
         pc' = "config" => ~opts.arch1,
         OwnGame', OwnSaves', OwnMap'
  PROVE  StartInv'
<1> USE DEF StartInv
<1>1. StartTyped'
  BY DEF StartTyped
<1>2. OldIsKept'
  BY DEF OldIsKept
<1>3. OnRecord'
  BY DEF OnRecord, Start!Session
<1> QED BY <1>1, <1>2, <1>3

LEMMA BootedGame ==
  ASSUME host \in Games, Start!Restarted
  PROVE  host' \in Games /\ (host' = host \/ (host'.screen = "boot" /\ host'.world = "none"))
BY DEF Start!Restarted, Start!Off, Games, Screens, Worlds, Start!Seat

LEMMA OffIsAGame == Start!Off \in Games /\ Start!Off.screen = "none"
BY DEF Start!Off, Games, Screens, Worlds, Start!Seat

LEMMA RestartsKeep ==
  ASSUME StartInv, Start!BounceX \/ Start!Restart \/ Start!Restart2 PROVE StartInv'
<1>1. StartTyped /\ OwnGame /\ OwnSaves /\ OwnMap /\ host \in Games
      /\ UNCHANGED <<saves, rewrote, opts, kept, record, driver>>
  BY DEF StartInv, StartTyped, Start!BounceX, Start!Restart, Start!Restart2, Start!ownVars
<1>2. CASE Start!BounceX
  <2>1. pc = "bounce" /\ host' \in Games
        /\ (pc' = "restart" \/ (pc' = "seal" /\ code' \in Nat \ {0}))
    BY <1>1, <1>2, OffIsAGame DEF Start!BounceX, Start!At, Start!To, Start!Stop
  <2>2. OwnGame' /\ OwnSaves' /\ OwnMap'
    BY <2>1 DEF OwnGame, OwnSaves, OwnMap
  <2> QED BY <1>1, <2>1, <2>2, GameChanges DEF Start!Session
<1>3. CASE Start!Restart
  <2>1. pc = "restart" /\ pc' = "menu" /\ host' \in Games
    BY <1>1, <1>3, BootedGame DEF Start!Restart, Start!At, Start!To
  <2>2. OwnGame' /\ OwnSaves' /\ OwnMap'
    BY <2>1 DEF OwnGame, OwnSaves, OwnMap
  <2> QED BY <1>1, <2>1, <2>2, GameChanges DEF Start!Session
<1>4. CASE Start!Restart2
  <2>1. pc = "restart2" /\ pc' = "menu2" /\ host' \in Games
        /\ (host' = host \/ host'.screen = "boot")
    BY <1>1, <1>4, BootedGame DEF Start!Restart2, Start!At, Start!To
  <2>2. OwnGame'
    BY <1>1, <2>1 DEF OwnGame
  <2>3. OwnSaves' /\ OwnMap'
    BY <1>1, <2>1 DEF OwnSaves, OwnMap
  <2> QED BY <1>1, <2>1, <2>2, <2>3, GameChanges DEF Start!Session
<1> QED BY <1>2, <1>3, <1>4

LEMMA HostKeeps == ASSUME StartInv, Start!Host PROVE StartInv'
<1>1. host \in Games /\ pc = "host" /\ UNCHANGED <<saves, rewrote, opts, kept, record, driver>>
  BY DEF StartInv, StartTyped, Start!Host, Start!ownVars, Start!At
<1>2. CASE Start!Stop(23) /\ host' \in {host, Start!Off}
  <2>1. pc' = "seal" /\ code' \in Nat \ {0} /\ host' \in Games
    BY <1>1, <1>2, OffIsAGame DEF Start!Stop
  <2>2. OwnGame' /\ OwnSaves' /\ OwnMap'
    BY <2>1 DEF OwnGame, OwnSaves, OwnMap
  <2> QED BY <1>1, <2>1, <2>2, GameChanges DEF Start!Session
<1>3. CASE Start!To("ready")
           /\ \E reopened \in BOOLEAN :
                host' = [host EXCEPT !.screen = "staging", !.tuner = FALSE, !.world = "ours",
                                     !.core = Start!Seat, !.cfg = Start!Seat, !.extra = reopened]
  <2>1. pc' = "ready" /\ host'.world = "ours" /\ host'.screen = "staging" /\ host' \in Games
    BY <1>1, <1>3 DEF Start!To, Games, Screens, Worlds
  <2>2. OwnGame' /\ OwnSaves' /\ OwnMap'
    BY <2>1 DEF OwnGame, OwnSaves, OwnMap
  <2> QED BY <1>1, <2>1, <2>2, GameChanges DEF Start!Session
<1> QED BY <1>2, <1>3 DEF Start!Host

LEMMA ConfigKeeps == ASSUME StartInv, Start!Config PROVE StartInv'
<1>1. host \in Games /\ pc = "config" /\ ~opts.arch1
      /\ UNCHANGED <<saves, rewrote, opts, kept, record, driver>>
  BY DEF StartInv, StartTyped, Start!Config, Start!ownVars, Start!At
<1>2. (pc' = "ingame" \/ (pc' = "seal" /\ code' \in Nat \ {0})) /\ host' \in Games
  <2> DEFINE hosted == [host EXCEPT !.screen = "loading", !.tuner = FALSE, !.world = "ours",
                                    !.core = {0}, !.cfg = {0}]
             staged == [host EXCEPT !.screen = "staging"]
  <2>1. hosted \in Games
    BY <1>1 DEF Games, Screens, Worlds, Start!Seat
  <2>2. staged \in Games
    BY <1>1 DEF Games, Screens
  <2>3. \/ pc' = "ingame" /\ host' = hosted
        \/ \E n \in 3..5 : Start!Stop(n) /\ host' \in {host, staged}
    BY DEF Start!Config, Start!To
  <2> HIDE DEF hosted, staged
  <2> QED BY <1>1, <2>1, <2>2, <2>3 DEF Start!Stop
<1>3. OwnGame' /\ OwnSaves' /\ OwnMap'
  BY <1>1, <1>2 DEF OwnGame, OwnSaves, OwnMap
<1> QED BY <1>1, <1>2, <1>3, GameChanges DEF Start!Session

LEMMA LoadKeeps == ASSUME StartInv, Start!Load PROVE StartInv'
<1>1. host \in Games /\ pc = "load" /\ UNCHANGED <<saves, rewrote, opts, kept, record, driver>>
      /\ saves["slot"].world = "ours" /\ saves["autosave"].world = "ours"
  BY DEF StartInv, StartTyped, OwnSaves, Start!Load, Start!ownVars, Start!At
<1>2. CASE Start!Stop(29) /\ host' = host
  <2>1. pc' = "seal" /\ code' \in Nat \ {0} /\ host' \in Games
    BY <1>1, <1>2 DEF Start!Stop
  <2>2. OwnGame' /\ OwnSaves' /\ OwnMap'
    BY <2>1 DEF OwnGame, OwnSaves, OwnMap
  <2> QED BY <1>1, <2>1, <2>2, GameChanges DEF Start!Session
<1>3. ASSUME Start!To("ingame"), NEW f \in {"slot", "autosave"},
             host' = [host EXCEPT !.screen = "loading", !.tuner = FALSE, !.core = {0}, !.cfg = {0},
                        !.world = IF saves[f].whole THEN saves[f].world ELSE "torn"]
      PROVE  StartInv'
  <2>1. (IF saves[f].whole THEN saves[f].world ELSE "torn") \in {"ours", "torn"}
    BY <1>1
  <2>2. pc' = "ingame" /\ host'.world \in {"ours", "torn"} /\ host'.screen = "loading" /\ host' \in Games
    BY <1>1, <1>3, <2>1 DEF Start!To, Games, Screens, Worlds, Start!Seat
  <2>3. OwnGame' /\ OwnSaves' /\ OwnMap'
    BY <2>2 DEF OwnGame, OwnSaves, OwnMap
  <2> QED BY <1>1, <2>2, <2>3, GameChanges DEF Start!Session
<1> QED BY <1>2, <1>3 DEF Start!Load

LEMMA ReflagKeeps == ASSUME StartInv, Start!Reflag PROVE StartInv'
<1>1. host \in Games /\ pc = "reflag" /\ UNCHANGED <<saves, rewrote, opts, kept, record, driver>>
  BY DEF StartInv, StartTyped, Start!Reflag, Start!ownVars, Start!At
<1>2. host' \in Games /\ host'.screen = host.screen /\ host'.world = host.world
      /\ (pc' = "census" \/ (pc' = "seal" /\ code' \in Nat \ {0}))
  <2>1. CASE host' = host
    BY <1>1, <2>1 DEF Start!Reflag, Start!To, Start!Stop
  <2>2. ASSUME NEW core \in {{0}, Start!Seat}, NEW cfg \in {{0}, Start!Seat},
               host' = [host EXCEPT !.core = core, !.cfg = cfg]
        PROVE  host' \in Games /\ host'.screen = host.screen /\ host'.world = host.world
    BY <1>1, <2>2 DEF Games, Start!Seat
  <2>3. pc' = "census" \/ (pc' = "seal" /\ code' \in Nat \ {0})
    BY DEF Start!Reflag, Start!To, Start!Stop
  <2> QED BY <1>1, <2>1, <2>2, <2>3 DEF Start!Reflag
<1>3. OwnGame' /\ OwnSaves' /\ OwnMap'
  BY <1>1, <1>2 DEF OwnGame, OwnSaves, OwnMap, StartInv
<1> QED BY <1>1, <1>2, <1>3, GameChanges DEF Start!Session

LEMMA EnterInputKeeps == ASSUME StartInv, Start!EnterInput PROVE StartInv'
<1>1. host \in Games /\ pc = "enter" /\ pc' = pc /\ UNCHANGED <<saves, rewrote, opts, kept, record, driver>>
      /\ host' = [host EXCEPT !.screen = "map"] /\ OwnGame /\ OwnSaves
  BY DEF StartInv, StartTyped, Start!EnterInput, Start!ownVars, Start!At
<1>2. host' \in Games /\ host'.screen = "map" /\ host'.world = host.world
  BY <1>1 DEF Games, Screens
<1>3. OwnGame' /\ OwnSaves' /\ OwnMap'
  BY <1>1, <1>2 DEF OwnGame, OwnSaves, OwnMap
<1> QED BY <1>1, <1>2, <1>3, GameChanges DEF Start!Session

(* The steps that change the files of the game.                               *)
LEMMA FilesChange ==
  ASSUME StartInv, UNCHANGED <<rewrote, opts, record, driver>>,
         pc \in Start!Session \ {"copy"}, pc' \in Start!Session \ {"copy", "config"},
         host' \in Games, saves' \in [Start!File -> SaveFiles], kept' \in [Start!File -> SUBSET Worlds],
         \A f \in Start!File : kept[f] \subseteq kept'[f],
         OwnGame', OwnSaves', OwnMap'
  PROVE  StartInv'
<1> USE DEF StartInv
<1>1. StartTyped'
  BY DEF StartTyped
<1>2. OldIsKept'
  BY DEF OldIsKept
<1>3. OnRecord'
  BY DEF OnRecord, Start!Session
<1> QED BY <1>1, <1>2, <1>3

LEMMA ReadyKeeps == ASSUME StartInv, Start!Ready PROVE StartInv'
<1>1. host \in Games /\ pc = "ready" /\ UNCHANGED <<rewrote, opts, kept, record, driver>>
      /\ saves \in [Start!File -> SaveFiles] /\ kept \in [Start!File -> SUBSET Worlds]
      /\ host.world = "ours" /\ host.screen \in {"staging", "intro", "map"}
  BY DEF StartInv, StartTyped, OwnGame, Start!Ready, Start!ownVars, Start!At
<1>2. CASE Start!Stop(2) /\ UNCHANGED <<host, saves>>
  <2>1. pc' = "seal" /\ code' \in Nat \ {0}
    BY <1>2 DEF Start!Stop
  <2>2. OwnGame' /\ OwnSaves' /\ OwnMap'
    BY <2>1 DEF OwnGame, OwnSaves, OwnMap
  <2> QED BY <1>1, <1>2, <2>1, <2>2, GameChanges DEF Start!Session
<1>3. ASSUME Start!To("enter"), saves' = [f \in Start!File |-> [saves[f] EXCEPT !.fresh = FALSE]],
             NEW reopened \in BOOLEAN,
             host' = [host EXCEPT !.extra = reopened,
                        !.screen = IF @ = "staging" /\ Start!Launches(reopened) THEN "intro" ELSE @]
      PROVE  StartInv'
  <2>1. pc' = "enter" /\ host' \in Games /\ host'.world = "ours" /\ host'.screen \in {"staging", "intro", "map"}
    BY <1>1, <1>3 DEF Start!To, Games, Screens
  <2>2. saves' \in [Start!File -> SaveFiles] /\ \A f \in Start!File : saves'[f].fresh = FALSE
    BY <1>1, <1>3 DEF SaveFiles
  <2>3. OwnGame' /\ OwnSaves' /\ OwnMap'
    BY <2>1, <2>2 DEF OwnGame, OwnSaves, OwnMap
  <2> QED BY <1>1, <2>1, <2>2, <2>3, FilesChange DEF Start!Session
<1> QED BY <1>2, <1>3 DEF Start!Ready

LEMMA QuicksaveKeeps == ASSUME StartInv, Start!Quicksave PROVE StartInv'
<1>1. host \in Games /\ pc = "quicksave" /\ pc' = "quicksaved" /\ UNCHANGED <<host, rewrote, opts, kept, record, driver>>
      /\ saves \in [Start!File -> SaveFiles] /\ kept \in [Start!File -> SUBSET Worlds]
      /\ host.world = "ours" /\ OwnGame /\ OwnSaves
  BY DEF StartInv, StartTyped, OwnGame, Start!Quicksave, Start!ownVars, Start!At, Start!To
<1>2. CASE saves' = saves
  <2>1. OwnGame' /\ OwnSaves' /\ OwnMap'
    BY <1>1, <1>2 DEF OwnGame, OwnSaves, OwnMap
  <2> QED BY <1>1, <1>2, <2>1, FilesChange DEF Start!Session
<1>3. CASE saves' = [saves EXCEPT !["quicksave"] = [Start!Save(host.world) EXCEPT !.whole = FALSE]]
  <2> DEFINE file == [Start!Save(host.world) EXCEPT !.whole = FALSE]
  <2>1. file \in SaveFiles /\ file.world = "ours"
    BY <1>1 DEF Start!Save, SaveFiles, Worlds
  <2> HIDE DEF file
  <2>2. saves' = [saves EXCEPT !["quicksave"] = file]
    BY <1>3 DEF file
  <2>3. saves' \in [Start!File -> SaveFiles] /\ \A f \in Start!File : saves'[f] = saves[f] \/ saves'[f] = file
    BY <1>1, <2>1, <2>2
  <2>4. OwnGame' /\ OwnMap'
    BY <1>1 DEF OwnGame, OwnMap
  <2>5. OwnSaves'
    BY <1>1, <2>1, <2>3 DEF OwnSaves, Start!File
  <2> QED BY <1>1, <2>3, <2>4, <2>5, FilesChange DEF Start!Session
<1> QED BY <1>2, <1>3 DEF Start!Quicksave

LEMMA SwapKeeps == ASSUME StartInv, Start!Swap PROVE StartInv'
<1>1. host \in Games /\ pc = "swap" /\ pc' = "restart2" /\ UNCHANGED <<host, rewrote, opts, record, driver>>
      /\ saves \in [Start!File -> SaveFiles] /\ kept \in [Start!File -> SUBSET Worlds]
      /\ kept' = [kept EXCEPT !["slot"] = @ \cup {saves["slot"].world}]
      /\ saves' = [saves EXCEPT !["slot"] = saves["quicksave"]] /\ OwnGame /\ OwnSaves
      /\ saves["autosave"].world = "ours" /\ saves["quicksave"].world = "ours"
  BY DEF StartInv, StartTyped, OwnSaves, Start!Swap, Start!At, Start!To
<1>2. "slot" \in Start!File /\ "quicksave" \in Start!File /\ "autosave" \in Start!File
  BY DEF Start!File
<1>3. saves' \in [Start!File -> SaveFiles] /\ saves'["slot"].world = "ours" /\ saves'["autosave"].world = "ours"
  BY <1>1, <1>2
<1>4. saves["slot"].world \in Worlds
  BY <1>1, <1>2 DEF SaveFiles
<1>5. kept' \in [Start!File -> SUBSET Worlds] /\ \A f \in Start!File : kept[f] \subseteq kept'[f]
  BY <1>1, <1>2, <1>4
<1>6. OwnGame' /\ OwnMap'
  BY <1>1 DEF OwnGame, OwnMap
<1>7. OwnSaves'
  BY <1>1, <1>3 DEF OwnSaves
<1> QED BY <1>1, <1>3, <1>5, <1>6, <1>7, FilesChange DEF Start!Session

(* The end of the startup, and of the driver.                                 *)
LEMMA SealKeeps == ASSUME StartInv, Start!Seal PROVE StartInv'
<1> USE DEF StartInv
<1>1. pc = "seal" /\ UNCHANGED <<host, saves, rewrote, code, opts, kept>> /\ driver = "none"
      /\ record = (IF opts.arch1 THEN <<"MATCH_START">> ELSE <<>>)
  BY DEF Start!Seal, Start!At, Start!gameVars, OnRecord, Start!Session
<1>2. \/ /\ opts.arch1 /\ code = 0 /\ pc' = "dispatch" /\ driver' = "running"
         /\ record' = <<"MATCH_START", "CLEAN_END">>
      \/ pc' = "gone" /\ driver' = driver /\ (record' = <<>> \/ Len(record') = 2)
  <2>1. opts.arch1 => record' = Append(<<"MATCH_START">>, IF code = 0 THEN "CLEAN_END" ELSE "END")
    BY <1>1 DEF Start!Seal, Start!Clean
  <2>2. ~opts.arch1 => record' = <<>>
    BY <1>1 DEF Start!Seal
  <2>3. opts.arch1 => Len(record') = 2 /\ (code = 0 => record' = <<"MATCH_START", "CLEAN_END">>)
    BY <2>1
  <2>4. \/ opts.arch1 /\ code = 0 /\ pc' = "dispatch" /\ driver' = "running"
        \/ pc' = "gone" /\ driver' = driver
    BY DEF Start!Seal, Start!Clean
  <2> QED BY <2>2, <2>3, <2>4
<1>3. StartTyped' /\ OwnGame' /\ OwnSaves'
  BY <1>1, <1>2 DEF StartTyped, OwnGame, OwnSaves
<1>4. OwnMap'
  BY <1>1, <1>2 DEF OwnMap
<1>5. OldIsKept'
  BY <1>1, <1>2 DEF OldIsKept, Start!Session
<1>6. OnRecord'
  BY <1>1, <1>2 DEF OnRecord, Start!Session
<1> QED BY <1>3, <1>4, <1>5, <1>6

LEMMA DispatchKeeps == ASSUME StartInv, Start!Dispatch \/ Start!DriverEnds PROVE StartInv'
<1> USE DEF StartInv
<1>1. UNCHANGED <<host, saves, rewrote, code, opts, kept, record>> /\ pc \in {"dispatch", "gone"}
      /\ driver # "none"
  BY DEF Start!Dispatch, Start!DriverEnds, Start!At, Start!gameVars, OnRecord
<1>2. /\ driver' # "none"
      /\ \/ pc' = "gone" /\ driver' # "running"
         \/ pc' = pc /\ (pc = "gone" => driver' # "running")
  BY <1>1 DEF Start!Dispatch, Start!DriverEnds, Start!At, OnRecord
<1>3. StartTyped' /\ OwnGame' /\ OwnSaves' /\ OwnMap'
  BY <1>1, <1>2 DEF StartTyped, OwnGame, OwnSaves, OwnMap
<1>4. OldIsKept'
  BY <1>1, <1>2 DEF OldIsKept, Start!Session
<1>5. OnRecord'
  BY <1>1, <1>2 DEF OnRecord, Start!Session
<1> QED BY <1>3, <1>4, <1>5

LEMMA StartInvKeeps == StartInv /\ Start!Next => StartInv'
<1> SUFFICES ASSUME StartInv, Start!Next PROVE StartInv'
  OBVIOUS
<1> QED
  BY GameKeeps, GatesKeep, AllocateKeeps, CopyKeeps, RestartsKeep, HostKeeps, ConfigKeeps, LoadKeeps,
     ReflagKeeps, EnterInputKeeps, ReadyKeeps, QuicksaveKeeps, SwapKeeps, SealKeeps, DispatchKeeps
  DEF Start!Next

LEMMA StartInvIsEnough == StartInv => Start!DriverMeetsItsGame /\ Start!SavesAreKept /\ Start!EndsOnRecord
<1> SUFFICES ASSUME StartInv PROVE Start!DriverMeetsItsGame /\ Start!SavesAreKept /\ Start!EndsOnRecord
  OBVIOUS
<1> USE DEF StartInv
<1>1. Start!DriverMeetsItsGame
  BY DEF Start!DriverMeetsItsGame, OnRecord, OwnMap
<1>2. Start!SavesAreKept
  BY DEF Start!SavesAreKept, OldIsKept
<1>3. Start!EndsOnRecord
  BY DEF Start!EndsOnRecord, OnRecord
<1> QED BY <1>1, <1>2, <1>3

-----------------------------------------------------------------------------
(* The two in the module that is checked: a behaviour is of one of them, and *)
(* the others rest.                                                          *)
OfItsKind ==
  /\ which = "popups" => PopupsInv
  /\ which = "startup" => StartInv

LEMMA RestKeeps ==
  ASSUME UNCHANGED <<popupVars, startVars>>
  PROVE  (PopupsInv => PopupsInv') /\ (StartInv => StartInv')
<1>1. PopupsInv => PopupsInv'
  BY DEF popupVars, PopupsInv, PopupsTyped, AtWork, OnTheWire, ReceiptsAreOld, Ran, PressesAreOld,
         PressedOnce, PressedWhatItSaw, ResultsAreTrue, Dialogs!Token, Dialogs!InformsOnly,
         Dialogs!Visible, Dialogs!Foremost
<1>2. StartInv => StartInv'
  BY DEF startVars, StartInv, StartTyped, OwnGame, OwnSaves, OwnMap, OldIsKept, OnRecord
<1> QED BY <1>1, <1>2

THEOREM OfItsKindHolds == MCSpec => []OfItsKind
<1>1. MCInit => OfItsKind
  BY PopupsInit, StartInit DEF MCInit, OfItsKind
<1>2. OfItsKind /\ [MCNext]_<<which, load, vars, popupVars, startVars>> => OfItsKind'
  <2> SUFFICES ASSUME OfItsKind, [MCNext]_<<which, load, vars, popupVars, startVars>> PROVE OfItsKind'
    OBVIOUS
  <2>1. which' = which
    BY DEF MCNext
  <2>2. CASE UNCHANGED <<popupVars, startVars>>
    BY <2>1, <2>2, RestKeeps DEF OfItsKind
  <2>3. CASE which = "popups" /\ Dialogs!Next
    BY <2>1, <2>3, PopupsInvKeeps DEF OfItsKind
  <2>4. CASE which = "startup" /\ Start!Next
    BY <2>1, <2>4, StartInvKeeps DEF OfItsKind
  <2> QED BY <2>2, <2>3, <2>4 DEF MCNext
<1> QED BY <1>1, <1>2, PTL DEF MCSpec

(* A check of the popups presses at most one button, that of the dialog it   *)
(* saw and never of a choice, and reports what it did, whatever close is sent *)
(* twice, runs late or goes unanswered (ui_popups.py, _CivArenaPopupDismissReceipt). *)
THEOREM PopupsArePressedWithCare == MCSpec => []PressesWithCare
<1>1. OfItsKind => PressesWithCare
  BY PopupsInvIsEnough DEF OfItsKind, PressesWithCare
<1> QED BY <1>1, OfItsKindHolds, PTL

(* A driver meets the game that the startup hosted and loaded, with two human *)
(* majors; no save from before is lost; every startup that began ends on      *)
(* record, whatever step is given up and whenever the game dies.              *)
THEOREM TheRightGameIsStarted == MCSpec => []StartsTheRightGame
<1>1. OfItsKind => StartsTheRightGame
  BY StartInvIsEnough DEF OfItsKind, StartsTheRightGame
<1> QED BY <1>1, OfItsKindHolds, PTL
=============================================================================
