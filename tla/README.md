# Verification of the traffic game (SceneKitTest)

The program is an iOS game. Cars drive on a grid of two horizontal and two vertical two-way
roads; each draws a random list of turns. The player taps traffic lights to let cars through and
keep them from colliding; every car that reaches the far edge scores and is replaced by two new
ones; a collision or the end of 60 seconds ends the game. The application's code is 2,400 lines of
Swift under `src/SceneKitTest/SceneKitTest/`; everything else in the repository is Realm (vendored,
used to print one URL), art, project files and test templates that test nothing. Below, `GVC` is
`GameViewController.swift`.

## 1. Inventory

| Component | State | Operations | Talks to |
|---|---|---|---|
| Render loop (GVC 590-655) | `carArray`, `carsThrough`, the loop's `elementsToRemove` | `move()` once per frame: per car a red light, a turn, or driving on; cars that leave; `createCar`, `removeCar`, `removeElementsFromArray` | cars, streets, lights; called by SceneKit's render thread |
| Car | position, speed, `currentStreet`, `previousStreet`, `closestCar`, turn lists, `intersectionArray`, `currentIntersection`, `currentTurn`, `intersected` | `makeRightTurn`, `makeLeftTurn`/`leftTurner`, `turnAreaFree`, `addToIntersectionArray`, `move`, `adjustSpeed`, `fixPosOnStreet` | its one or two streets, a turn object |
| Streets (4 classes, copies of one another) | `carArray`, `lightArray` | `addCar`, `removeCar`, `updateClosestCar`, `findClosestCar`, `isStreetFree`, `addLight`, `lightFinder` | write `closestCar` of the cars they list |
| Turn objects (`RightTurn`, `UpStreetLeftTurn`) | `pointReached` | `turnCar` | set the car's position |
| Roads and intersections | fixed after `viewDidLoad` | geometry, street of a heading, opposite street, square | - |
| Traffic lights | `state`, `timeLeft`, `timer` | `changeState`, `onTimerFires`, `isRed` | main run loop; read by the render thread |
| Taps (GVC 447) | - | `handleTap`: a light and its neighbour | lights, on the main thread |
| Collisions (GVC 777) | - | `didBegin`: `stopCar` twice, `gameOverScreen` | cars, session, on SceneKit's thread |
| Session (GVC 249, 473-503, 729) | `timer`, `timeLeft`, paused, views | timer, pause, resume, restart, game over | both threads |
| Scene, `User`, `AppDelegate`, tests, Realm | none that matters | - | not modelled (section 8) |

What is hard to get right here, and hard to test since most of it runs in SceneKit callbacks:

- a turning car is in the lists of **two** streets from the moment it enters the turn until its first
  visit outside the square (Car 151-158, 290-308), and `currentStreet` is assigned before it is known
  whether the way is free;
- `closestCar` is a **cache**, recomputed only when a list changes (street `updateClosestCar`);
- cars are visited **one after another** in a frame, and each sees what the earlier ones did;
- cars join and leave `carArray` **during the loop** over it, by index;
- lights are written on the main thread and read on the render thread, and each yellow light has a
  repeating **timer object** of its own, which runs out of step with its neighbour's;
- a car's random turns may bring it back to where it was;
- a collision ends the game **on SceneKit's thread**, beside the main thread's clock, pause and resume;
- a car stops for a light only in a band half a unit wide, and its speed and rolling back depend on a
  **sign** that differs by heading.

What makes each part correct: cars - exact lists, a right `closestCar`, no overtaking, no second turn
at an intersection, getting out; loop - never an empty `carArray`, the right cars removed; street -
loops that find the nearest light and car; lights - one timer per yellow, two seconds of yellow, pairs
that agree, no colour skipped. `PROJECT.json` lists each hazard at its line with its properties.

## 2. Plan and modules

| Module | What it is |
|---|---|
| `Roads` | constant geometry: streets, intersections, squares, lights' bands, curves, edges |
| `Traffic` | cars, street lists and the loop of `move()` on whole cells; extends `Roads` |
| `StreetLists` | the loops over a street's arrays, element by element |
| `Lane` | exact speeds and places of the cars of one street before a light |
| `LightCycle` | abstract specification of the lights |
| `Signals` | lights, taps and timers; refines `LightCycle` |
| `Game` | `Traffic` extended by an instance of `Signals`: cars read the real lights; refines fair `Traffic` |
| `Session` | the game's clock, pause, resume and the end of the game, on two threads |
| `TrafficProofs`, `CarsProofs`, `FlowProofs` | theorems about the cars: lists and turns, courses and notes, the flow on a street |
| `SignalsProofs`, `LaneProofs`, `SessionProofs`, `ListsProofs` | theorems about the lights, one street, the clock, the loops over a street's lists |
| `GameProofs` | theorems about the composition, from those about its parts |
| `MCTraffic`, `MCStreetLists`, `MCLane`, `MCGame` | values of constants for TLC (`Signals` and `Session` need none) |

Left, in this order: `Game` with two cars and with `Session`; the merging gap after a left turn in `Lane`;
what `ClosestIsNearest` becomes on a street that a left turn upset.

## 3. How the models correspond to the code

**Roads.** Positions are cells of one unit. Lanes are at midline +-1, the square of an intersection
is +-3 (`width + extra`), the red band is the single cell 4 before the centre (3.5 to 4 in the code),
the window of `turnAreaFree` is the car's cell and the next (-0.5 to 2, exclusive), that of
`makeLeftTurn` the cells from 4 before the centre to the centre (5 to -0.75, exclusive), `createCar` refuses less than 2 on both
axes, `speedModifier` is zero up to 2. The tables of 42 and 73 points become the 3 and 5 cells they
pass; the four tables of a turn are rotations of each other, which `CurvePoint` expresses. The four
street classes become one, with `Along` and `Ahead` for the axis and the sign.

**Traffic.** The state is that of `GameViewController` and `Car`, one function over cars per field.
`on[s][c]` counts how often street `s` lists `c`, so a missing or double entry can be seen. Cars are
numbered in the order of creation, which is the order of `carArray`. Actions:

| Action | Code |
|---|---|
| `BeginFrame`, `EndFrame` | the range of the loop, evaluated once; `removeElementsFromArray` |
| `StopAtRed` | GVC 594-603 |
| `MakeRightTurn`, `MakeLeftTurn` | GVC 604-612 with `addToIntersectionArray` and the whole of `makeRightTurn`, `makeLeftTurn`, `leftTurner`: enter the turn, put `currentStreet` back, or wait |
| `FinishTurn` | `Car.move` when it cleans up after a turn (151-160) and then drives |
| `FollowCurve` | `Car.move` on the curve (169-177) |
| `Advance` | `Car.move` otherwise, and the visit of a car that crashed |
| `Leave` | the car's last movement, both `createCar` calls, `removeCar` (GVC 617-648) |
| `Contact` | `didBegin` between two frames |
| `BoundReached` | not code: it marks the end of what is explored |

A visit is one action because `move()` runs on one thread and nothing else writes what it reads but
the lights. A light may be changed by the main thread at any moment, so a visit may read either
colour, whatever it read before: every property here holds for every player. Speed is abstracted: a
car with more than `MinDistance` ahead either moves one cell or is still on its way; otherwise it
stays. `Contact` may happen or not to any two cars that overlap. The next turn of a car whose object
was freed cannot matter, so `EndFrame` resets what it held. Two variables are history: `turnedAt`, the
intersections at which a car began a turn, and `upset`, the streets on which `closestCar` may be behind. A left
turn upsets the two streets it crosses. So does, for its street, a search for closest cars in the frame in which
a car that turns off has been put on the lane of its new street (`EnterTurn` applies `fixPosOnStreet` before the
curve's first point takes the car back two units, `Swings`). A street is no longer upset once it is
searched when all it lists drives on it and is two units apart (`Settled`).

**StreetLists.** `addLight` with its insert while scanning and its flag, `lightFinder`,
`findClosestCar` with its running candidate, `isStreetFree`, and `removeElementsFromArray`, each a recursive function
over the indices of its loop; `elementsToRemove` is noted while new cars are appended; the heading is a variable. Its properties are the set-based definitions that `Traffic` uses.

**Lane.** What `Traffic` abstracts, in thousandths of a unit: `adjustSpeed` (slowing down at once,
gaining by steps), `speedModifier`, `moveCarForward`, `fixPosOnStreet` (ten-thousandths), the red band and
`setCurrentSpeed(0.02)`. `HoldAtRed` and `Drive` are the two outcomes of a visit, `Drive` with `removeCar`
and `updateClosestCar` when the car leaves. `heading` is the sign of a forward step, so that the constants
the code writes without a sign mean what they do on each street. Quotients are rounded away from zero.
The light is any light with two seconds of yellow (`MinClear` frames). A wreck stands where it crashed.

**Signals.** A `Timer` is an object with a target and a remaining time, separate from the field
`timer` of the light, so a timer that is not invalidated goes on firing. A tap changes two lights in
one callback. `Tick` is the run loop's clock: time does not pass while a timer is due, and several
due callbacks and taps run in any order. `age` and `split` are history variables.

**Game** extends `Traffic` and instantiates `Signals`, with four lights to each entry of
`IntersectionArray`: `LightAt` numbers them in the order of `getAllLights`, which is what the parity in
`handleTap` relies on. `LookAndMove` is a visit of `Traffic` in which `StopAtRed` is taken exactly if the
light found is red; `BetweenVisits` is the rest of the render thread; `Tap`, `Fire` and `Tick` are the main
thread's steps, between any two of those. A frame is short against a tick, so no tick passes before
every car has been visited since the last one (`seen`).

**Session.** The main thread's callbacks (`OnTimerFires`, `PauseGame`, `ResumeGame`, `ShowGameOver`, which is
the block on the main queue) are one action each. `gameOverScreen` after a collision runs on SceneKit's
thread, where each access of the field `timer` is a step: load, invalidate, clear, dispatch. A race on
the field is thus any order of single accesses. `crossed` marks a resume after `gameOverScreen` had loaded the timer, or had queued its block, and before the block
was run (`EndHasBegun`); `played`, the other history variable, is not counted any further then.

## 4. Runs and their bounds

| Run | Bounds | Properties |
|---|---|---|
| `opposing` | one crossing, two cars head-on, all 81 pairs of turn lists of length 2, one car leaves and is replaced by two (310,000 states) | `TypeOK`, `ListedOnce`, `TurnStartsClean` |
| `merge` | one crossing, two cars from crossing streets, otherwise the same (346,000) | `ClosestIsNearest`, `NoOvertaking` |
| `follow` | one crossing, a car about to leave, its two successors with all turn lists, until one of them has left as well (311,000) | `CarsNeverEmpty` |
| `grid` | the real 2x2 grid, screen and spawn places, one car, all 243 turn lists of length 5 (18,000) | `TurnsOnceAtEach`, `TurnsSuffice`, `EveryCarGetsOut` |
| `gridlock` | as `opposing` with no number for new cars, under fairness (35,000) | `NoGridlock` |
| `fresh_turn` | one crossing, one car before it with all turn lists, and its two successors | `CompletedUnlessWaiting` (violated) |
| `game` | one crossing and one car with all turn lists of length 2, its four lights, one tick to the second, two timers, taps on the left and right lights (37,000) | `OppositeStreetsAgree`, `ImplementsTraffic` |
| `signals` | 4 lights, 4 timers, 2 ticks to the second, under fairness (120,000) | `TypeOK`, `OneTimerPerYellow`, `PairsAgree`, `YellowLastsTwoSeconds`, `YellowEndsRed`, `ImplementsLightCycle` |
| `lists` | 3 cars, 3 lights, 4 places, 4 headings (61,000) | `TypeOK`, `LightFinderIsNearest`, `SearchesFindNearest`, `RemovalTakesTheRightOnes`, `AddLightKeepsLights` |
| `lane` | 3 cars of which the front one may be a wreck, at rest or at 0.1 a frame, in 12 arrangements at the band, either sign of heading, three changes of the light (5.6 million) | `TypeOK`, `KeepsGap`, `RollsBackLittle`, `NobodyRunsTheRed` |
| `lane_live` | the last crossing of an up street, nine units before the edge; a car out of a left turn at it with another about to be held there, or two cars out of one at the crossing before; three changes, under fairness (346,000) | `LeavesNearLane`, `EveryCarGetsThrough` |
| `session` | a game of 3 seconds, 3 ticks to the second, two pauses, two collisions (101,000) | `TypeOK`, `OneClock`, `ClockIsHonest`, `LeftoverClockStops`, `GameEnds`, `CollisionEndsGame` |

Why these bounds are enough. Every rule of the code looks at one car, the intersection it is at and
the cars of at most two streets; a crossing with two cars from any two of its streets and all their
turns, and a third and fourth that enter behind, reaches every branch. The small screen (6 units each
way) only shortens the way between crossings. On the grid a car can meet at most four intersections,
so five turns are more than it can use (the program has 21). In the lists, three elements are the
fewest in which one can be inserted, found or removed in the middle. With two ticks to the second
two timers of a pair can be started half a second apart, and with two pairs independently. In `lane` the
three cars are one that is held, one that follows it and one in front whose speed or wreck the others
meet after the light; three changes give red, open, red, open, in `lane_live` as well, so a car that rolled back
at the first red can meet the second. `lane_live` starts where the way to the edge is shortest: six units after a left
turn at the last crossing of an up street, against fourteen on a right street. In `follow` the car that leaves first
makes two others, of which one turns or drives anywhere and the other need not move: the second to leave finds one or
both of its places taken by a car that stays. In `session` two pauses and two collisions are
the fewest of each that can fall inside one another, and three ticks tell a pause early in a second from a
late one. In `game` one car suffices: the question is what a light's timing does to a car that waits, and the
interplay of cars is that of `Traffic`, whose behaviours `GameIsTraffic` shows to include the game's; the down
and up lights stay red there, so a car that turned into such a street meets no light again.
`MaxCars`, `MaxThrough`, `Timers`, `TappedLights`, `MaxChanges`, `MaxTimers`, `MaxContacts` and `Overtime` are
the only bounds on actions: no car leaves when there is no number for its successors, no frame begins after
`MaxThrough`, no tap starts a timer without a name, other lights are not tapped, the last change of the light
opens it, no pause begins when there is no timer left for its end, no further collision is reported, and the time
left is counted to one second below zero and stays there. In `gridlock` cars stop at the edge for want of numbers;
`NoGridlock` therefore counts a car as through when it is there, or behind one that is.

What the runs show that is worth knowing:

- `ClosestIsNearest` and `NoOvertaking` are true of straight driving, of right turns into traffic and
  of spawning, although `closestCar` is only refreshed when a list changes: cars on a street stay in
  order and a newcomer refreshes the list. They are **not** true on a street that a car turned left
  into or out of: the left curve runs four cells along the new street, `turnAreaFree`
  looked at two, and `turnCar` does not look at `closestCar`. Nor are they after a search in the one frame in which
  a car turning off is two units ahead of itself: the car behind it may then be given a `closestCar` beyond it. Both
  streets of a left turn, and a street searched in such a frame, are `upset` and left out until they are settled.
- A car that turns off on `turnAreaFree`'s word and comes back two units for its curve never lands on what follows it:
  the follower stops two units behind it, or behind a car that does.
- A tap between the two timers of a pair splits it (`PairsAgree` names exactly that case).
- `isLastTurnCompleted` is false for a car with a turn ahead that has met no intersection yet,
  against its comment (Car.swift:426). The caller at Car.swift:334 asks it about opposing cars, among
  them such cars.

- Two cars that meet head-on with any turns never wait for each other for ever: the rule that a left turn goes
  ahead of an opposing car that will turn left as well is what prevents it (its mutant blocks both).
- After a red light cars on left and down streets roll **back**, by less than 0.09 of a unit
  (`RollsBackLittle`), since `setCurrentSpeed(0.02)` (GVC 599) has no sign; the gap of two units is enough for that.
- `Car.move` compares `currentSpeed` with 0.02 without its magnitude (Car.swift:163): only cars heading right
  or up return towards their lane after a turn, a thirtieth of the way in each frame. That is not always enough to
  reach it: after a left turn at the last crossing they leave up to a twentieth of a unit beside it (`LeavesNearLane`;
  0.048 is violated), cars on left and down streets a quarter. `createCar` puts the two cars that replace it at the
  same place across the lane, so what is left of one car's turn is handed on.
- A game that is resumed while `gameOverScreen` is between two of its steps keeps a clock that nothing refers to
  once the field is cleared (GVC 731) and that counts on below zero, behind the game-over view. `OneClock` and
  `ClockIsHonest` hold of every other game, and `CollisionEndsGame` of all. `LeftoverClockStops` is what remains
  true of such a clock: as long as the field refers to it, its own end or another collision stops it.
- A pause wins time: `resumeGame` starts a whole second. A player who pauses within every second plays for ever, so
  `GameEnds` has the alternative that the game is paused again and again (`[]<>paused`). The run has two pauses, which
  is enough for each to meet the last second and the end, not for such a player.

Every property has a mutant in `PROJECT.json`: a small change of a mapped definition, kept beside it
under the heading *Mutant*, that breaks it.

## 5. Fairness

`Traffic!FairSpec`: the display link keeps calling the renderer (`BeginFrame`, `EndFrame`), the loop
visits its next car (`Visit`) - weak fairness each. `GetsOn` has strong fairness: a car that is
able to get on in frame after frame does, because its speed grows in each of them and because the
player shows it green again and again; the first is what `adjustSpeed` does, the second is an assumption
on the player. With several cars a collision stops two for good, as designed, so `NoGridlock` excludes games
with one.

`Game!FairGame` replaces the second assumption by one on the player's taps: both threads go on, time passes and
due timers fire (weak), a car that may get on in visit after visit gets on, and a red light that a car is held
by again and again is tapped (strong). `ImplementsTraffic` shows that this implies `Traffic!FairSpec`: two
seconds of yellow, however soon it is tapped away, are enough for the car to be visited. Any other tap may
happen or not.

`Signals!FairSpec`: time goes on and the run loop fires a due timer; taps are not fair. `Lane!FairSpec`: the
renderer goes on and a red light does not stay red for ever. `Session!FairSpec`: time, due timers, the main queue
and SceneKit's thread inside `gameOverScreen` go on; no button and no collision is fair, hence the
alternative of a game that is left paused, or paused again and again, in `GameEnds`.

## 6. What is proved

`tlapm` checks every step. The theorems hold for all values of the constants that satisfy the named
assumptions, which TLC evaluates on every run: roads are more than seven units apart and more than
five from the edge of the screen (`SpacingAssumption`, `ScreenAssumption`: ten, and seven or more, in the game),
they are finitely many and fewer crossings than turns, new cars appear before the middle of the screen and before
the squares of the intersections (`SpawnAssumption`: 20 to 40 units out, the squares end at 8), the cars of
`viewDidLoad` start outside the squares and clear of one another (`PlacesAssumption`: `createCar` checks the second),
there is at least one car, lights come in pairs, cars start two units apart in `Lane`.

- `TrafficProofs`: `Spec => []TypeOK`, `Spec => []ListedOnce`, `Spec => TurnStartsClean`. Neither invariant
  is inductive. `TypeOK` needs that a car on a curve has an intersection, `ListedOnce` that a car about to
  leave, or to enter a turn, is not still on a second list. The strengthening is `BetweenStreets`: a car whose
  two streets differ has noted the intersection it turns at, has that turn marked as completed and is in the
  square or one cell beyond it. There it can be in no other square (`FramesApart`), so it has no turn to make
  (`NothingNew`), and not at the edge (`NearIsInside`), so it cannot leave; on the curve it stays in the square
  (`CurveInFrame`), and its first visit outside ends the turn. `Loop` and `AtRest` say that numbers
  above `created` are unused. One lemma per action, `OneCarInv` for what they share, after the geometry they rest on.
- `CarsProofs`: `Spec => []CarsNeverEmpty`. When nobody stays, every car of `carArray` is past the far edge of its
  street; such a car, if it is on its lane, is near no place where the first new one appears
  (`OutOfTheWay`: same street, parallel, crossing), so `createCar` does not refuse it. That it is on its lane
  is the invariant `OnCourse`, which follows the curves to where they end (`RightCurveEnd`, `LeftCurveEnd`).
- `CarsProofs`, second part: `Spec => []TurnsOnceAtEach`, `Spec => []TurnsSuffice`. A car keeps the intersections it noted and
  the numbers of the turns it completed, not where it completed them. `NotesInv` relates them; its key is
  `LastIsHere`: while the turn at the intersection noted last is not completed, the car is in its square, so no
  other is noted before. No intersection is noted twice, so the notes are an injection into a finite
  set and `turnArray` is longer (`NotedFew`).
- `FlowProofs`: `Spec => []ClosestIsNearest` and `Spec => NoOvertaking`. Both say something of all pairs of cars on a
  street, while a visit looks at one `closestCar` that was found some frames ago. The invariant `FlowInv` says of every
  street that is not upset (`Calm`): who turns there turns right (`RightOnly`); no two cars are at one place, and they
  are next to each other only one cell around a crossing, where one joined between two others (`Spread`);
  `closestCar` is the nearest ahead or a car on its way off the street that is nearer (`Nearest`), and between such
  a car and its follower is no other up to where the curve leaves the street (`BehindLeaver`). The hard part
  is the start of a turn: a car that turns off is put two cells ahead for one frame and comes back, so the cells
  it comes back to must stay free (`MouthGap`), which they do because whatever is behind follows it or something
  further back (`MouthFollow`), one turning car at a time (`OneMouth`). Which of two cars has had its visit in the
  frame matters for one cell (`StillToGo`), and so the order of visits does (`InOrder`). `Paths` adds, for each car, that
  it meets a turn exactly on the first cell of the square (`AtEntry`) and where it is on the right curve (`OnPath`).
  The proof has one lemma for each way a street changes - a car moves on (`MemberMoves`), follows its curve
  (`LeaverMoves`), begins to turn off (`MemberLeaves`), joins (`EnterNew`), or the street is searched anew with every
  car in place (`Fresh`, `EvenAgain`) - and one for each action. `Finds` shows that `findClosestCar` finds
  (a finite set of cars has one furthest back, `FurthestBack`); `MovesAlone` is what `NoOvertaking` takes of it.
  TLC checked `FlowInv` on the instances of `merge`, `opposing`, `gridlock` and one car with its successors before it
  was proved.
- `SignalsProofs`: `Spec => []TypeOK`, `Spec => []OneTimerPerYellow`, `Spec => YellowLastsTwoSeconds`, from an
  invariant that ties each scheduled timer to the light that refers to it (`ScheduledIsHeld`,
  `HeldIsScheduled`) and each countdown to the time since the light turned yellow (`Countdown`);
  `Spec => []PairsAgree`, from `PairsInStep`: two yellow lights of a pair have the same age, so their
  timers fall due at the same instant; and `FollowsCycle`, the step simulation of `LightCycle`.
- `LaneProofs`: `Spec => []TypeOK`, `Spec => NobodyRunsTheRed` (no step is longer than the band), and
  `Spec => []KeepsGap`, `Spec => []RollsBackLittle` on every heading, whatever the light does and for any number of cars.
  A car rolls back only after a red light. `RollInv` ties how far it is behind the place it was held at to its
  speed: after `j` frames it is `j * (19 - j)` behind, and after 19 it is back. It is not held again meanwhile,
  because the light stays clear of red for `MinClear` frames, two seconds of yellow and at least 20 frames
  (`ClearAssumption`). Nobody is less than 2.3 units ahead of a car that
  rolls on: one let go with a car nearer than that stops at once. `Apart` is about the places the cars have been furthest
  at, any two of which are 1.999 units apart: a step is at most a thousandth longer than a fifteenth of the distance
  beyond two units. `KeepsGap` is `Apart` less what has been rolled. `QueueInv` is `RollInv`, `Apart` and that
  `closestCar` is the car ahead.
- `ListsProofs`: all five properties of `StreetLists`, for lists of any length; `TypeOK` says that a light or car is
  listed once. What a loop computes would need
  induction, which the prover has not; instead `LoopExists` and `EveryRound` take the least round in which a claim
  fails (natural numbers have least elements). With them: the running candidate of `findClosestCar` and
  `isStreetFree` is the best so far (`BestIsKept`), `addLight` inserts once and in order (`LightIsInserted`,
  `LightsSorted`), and removing by noted indices from the last to the first takes out just those
  (`IsNoted`, `IsLeft`), though cars were appended after they were noted.
- `SessionProofs`: `Spec => []TypeOK`, `[]OneClock`, `[]ClockIsHonest`, from `HoldsTheClock` (SceneKit's
  thread holds the clock it is about to stop), `TimeIsLeft`, `TimerToCome` and `Counted` (how far the running timer
  has come in its second).
- `GameProofs`: `GameSpec => Spec` of `Traffic`, so the theorems on cars hold in the game;
  `GameSpec => []OppositeStreetsAgree`: the game's lights are an instance of `Signals` (`GameIsSignals`), to which `Pairs`
  and `OneTimer` apply, and the lights of opposite streets are partners (`OppositeIsPartner`).

## 7. Only model-checked

`LeavesNearLane`, which depends on where the cars start and on how far the edge is, and not on an invariant of
single steps; and liveness: `EveryCarGetsOut`, `NoGridlock`, `EveryCarGetsThrough`, `YellowEndsRed`,
`LeftoverClockStops`, `GameEnds`, `CollisionEndsGame`, and the
fairness parts of `ImplementsLightCycle` and `ImplementsTraffic`. The prover has no rule for fairness and ENABLED.

## 8. Not modelled

- Rendering: node rotation, buildings, labels, images and hit testing keep no state the rest reads.
- `checkCollisions`, `Intersection.isCarAtIntersection` and `User` are never used; `AppDelegate` and the test targets are
  the empty templates of the project.
- `timer.tolerance` (0.15 of a second) is not in `Signals` and `Session`: time is that of the callbacks. A pause does not
  stop the timers of yellow lights; the two modules are not composed.
- `Session` takes each access of the field `timer` as atomic; tearing of the reference and the thread on which
  `Timer.invalidate` is called are beyond the model. That SceneKit draws no frames while the scene is paused is taken
  for granted for physics, and nothing is said of `move()`.
- Two hazards of the code are modelled but not excluded, because the code does not: a left turn looks two units ahead
  and its curve runs four (Car.swift:312), and an opposing car that will turn left later is not waited for
  even when it drives straight here (Car.swift:334).
- Whether SceneKit calls the renderer before `viewDidLoad` has finished (GVC 132) is not decided by this code.
- Realm, nearly all of the repository's C++, is a third-party library under `Pods`; the program
  prints the URL of its file and calls nothing else, so none of it is modelled.
