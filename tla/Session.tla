------------------------------ MODULE Session -------------------------------
(***************************************************************************)
(* The game's clock, pausing, and the end of the game.  A Timer, the       *)
(* buttons and the blocks of the main queue run on the main thread, each   *)
(* callback as a whole: one action.  A collision is reported on SceneKit's *)
(* thread, where gameOverScreen runs beside the main thread; it shares the *)
(* field timer with it, and each of its accesses is a step.                *)
(*                                                                         *)
(* As in Signals, a Timer is an object that fires once a second until it   *)
(* is invalidated, and time does not pass while a timer is due.  A main    *)
(* callback may be taken as one step: what it does to the field between    *)
(* two accesses of the other thread has the same result before or after.   *)
(***************************************************************************)
EXTENDS Integers, FiniteSets

CONSTANTS
  StartTime,       \* timeLeft at first (60)
  TicksPerSecond,  \* resolution of time
  MaxTimers,       \* bound: Timer objects made; one more than the pauses
  MaxContacts,     \* bound: collisions reported
  Overtime         \* bound: how far below zero the time left is counted

TimerId == 1..MaxTimers
NoTimer == 0

ASSUME TimeAssumption   == StartTime \in Nat \ {0} /\ TicksPerSecond \in Nat \ {0}
ASSUME BoundsAssumption == MaxTimers \in Nat \ {0} /\ MaxContacts \in Nat /\ Overtime \in Nat

VARIABLES
  timer,      \* GameViewController.timer
  timeLeft,   \* GameViewController.timeLeft
  running,    \* the Timer objects on the run loop
  due,        \* ticks until each of them fires
  made,       \* how many have been made
  paused,     \* pauseView is shown, scene.isPaused, gameView takes no touches
  overShown,  \* gameOverView is shown; it covers everything
  pending,    \* a block that shows it is on the main queue
  pc,         \* where SceneKit's thread is in gameOverScreen
  held,       \* the timer it has loaded
  contacts,   \* collisions reported
  crossed,    \* history: the game was resumed after its end had begun
  played      \* history: ticks since the start, without the pauses; not counted once crossed

vars == <<timer, timeLeft, running, due, made, paused, overShown, pending, pc, held, contacts,
          crossed, played>>

\* viewDidLoad.
Init ==
  /\ timer = 1 /\ running = {1} /\ made = 1
  /\ due = [t \in TimerId |-> TicksPerSecond]
  /\ timeLeft = StartTime
  /\ paused = FALSE /\ overShown = FALSE /\ pending = FALSE
  /\ pc = "idle" /\ held = NoTimer /\ contacts = 0
  /\ crossed = FALSE /\ played = 0

\* Mutant: the timer is not taken off the run loop.
NotInvalidated(t) == running

\* timer?.invalidate()
Invalidated(t) == running \ {t}

\* Mutant: the Timer is made but not put on the run loop.
NotScheduled(t) == running

\* Timer.scheduledTimer
Scheduled(t) == running \cup {t}

(***************************************************************************)
(* The main thread.                                                        *)
(***************************************************************************)
\* Mutant: the comparison with zero is off by one.
TimeIsUpLate(left) == left < 0

TimeIsUp(left) == left =< 0

CountedDown(left) == IF left > -Overtime THEN left - 1 ELSE left   \* bound

\* onTimerFires, called by t.  When the time is up it invalidates the timer the field
\* refers to, and gameOverScreen finds nil and puts its block on the queue.
OnTimerFires(t) ==
  LET over == TimeIsUp(timeLeft - 1) IN
  /\ t \in running /\ due[t] = 0
  /\ timeLeft' = CountedDown(timeLeft)
  /\ running' = IF over THEN Invalidated(timer) ELSE running
  /\ timer' = IF over THEN NoTimer ELSE timer
  /\ pending' = (pending \/ over)
  /\ due' = [due EXCEPT ![t] = TicksPerSecond]
  /\ UNCHANGED <<made, paused, overShown, pc, held, contacts, crossed, played>>

PauseGame ==
  /\ ~paused /\ ~overShown
  /\ made < MaxTimers       \* bound
  /\ running' = Invalidated(timer)
  /\ paused' = TRUE
  /\ UNCHANGED <<timer, timeLeft, due, made, overShown, pending, pc, held, contacts, crossed, played>>

\* gameOverScreen has begun: it holds the timer it will stop, or its block is queued.
EndHasBegun == pc \in {"invalidate", "clear", "dispatch"} \/ pending

\* A new timer, with a whole second to go.
ResumeGame ==
  /\ paused /\ ~overShown
  /\ made' = made + 1
  /\ timer' = made'
  /\ running' = Scheduled(made')
  /\ due' = [due EXCEPT ![made'] = TicksPerSecond]
  /\ paused' = FALSE
  /\ crossed' = (crossed \/ EndHasBegun)
  /\ UNCHANGED <<timeLeft, overShown, pending, pc, held, contacts, played>>

\* Mutant: the end is not shown over the pause.
ShowWhenNotPaused ==
  /\ pending /\ ~paused
  /\ pending' = FALSE /\ overShown' = TRUE
  /\ UNCHANGED <<timer, timeLeft, running, due, made, paused, pc, held, contacts, crossed, played>>

\* The block of gameOverScreen.
ShowGameOver ==
  /\ pending
  /\ pending' = FALSE /\ overShown' = TRUE
  /\ UNCHANGED <<timer, timeLeft, running, due, made, paused, pc, held, contacts, crossed, played>>

\* restartGame shows the view its button is on.
RestartGame == overShown /\ UNCHANGED vars

Tick ==
  /\ running # {} /\ \A t \in running : due[t] > 0
  /\ due' = [t \in TimerId |-> IF t \in running THEN due[t] - 1 ELSE due[t]]
  /\ played' = IF paused \/ overShown \/ crossed THEN played ELSE played + 1
  /\ UNCHANGED <<timer, timeLeft, running, made, paused, overShown, pending, pc, held, contacts, crossed>>

(***************************************************************************)
(* SceneKit's thread: physicsWorld(didBegin:) and its gameOverScreen.      *)
(* Physics stands still while the scene is paused.                         *)
(***************************************************************************)
DidBegin ==
  /\ pc = "idle" /\ ~paused
  /\ contacts < MaxContacts  \* bound
  /\ pc' = "load" /\ contacts' = contacts + 1
  /\ UNCHANGED <<timer, timeLeft, running, due, made, paused, overShown, pending, held, crossed, played>>

LoadTimer ==
  /\ pc = "load"
  /\ held' = timer /\ pc' = "invalidate"
  /\ UNCHANGED <<timer, timeLeft, running, due, made, paused, overShown, pending, contacts, crossed, played>>

InvalidateTimer ==
  /\ pc = "invalidate"
  /\ running' = Invalidated(held) /\ pc' = "clear"
  /\ UNCHANGED <<timer, timeLeft, due, made, paused, overShown, pending, held, contacts, crossed, played>>

ClearTimer ==
  /\ pc = "clear"
  /\ timer' = NoTimer /\ pc' = "dispatch"
  /\ UNCHANGED <<timeLeft, running, due, made, paused, overShown, pending, held, contacts, crossed, played>>

\* DispatchQueue.main.async
Dispatch ==
  /\ pc = "dispatch"
  /\ pending' = TRUE /\ pc' = "idle" /\ held' = NoTimer
  /\ UNCHANGED <<timer, timeLeft, running, due, made, paused, overShown, contacts, crossed, played>>

GameOverScreen == LoadTimer \/ InvalidateTimer \/ ClearTimer \/ Dispatch

Next ==
  \/ \E t \in TimerId : OnTimerFires(t)
  \/ PauseGame \/ ResumeGame \/ ShowGameOver \/ RestartGame
  \/ Tick
  \/ DidBegin \/ GameOverScreen

Spec == Init /\ [][Next]_vars

\* Time goes on, the run loop calls what is due, and SceneKit's thread finishes what it
\* began.  Nobody has to press a button.
FairSpec ==
  /\ Spec
  /\ WF_vars(Tick) /\ \A t \in TimerId : WF_vars(OnTimerFires(t))
  /\ WF_vars(ShowGameOver) /\ WF_vars(GameOverScreen)

(***************************************************************************)
(* Properties.                                                             *)
(***************************************************************************)
\* Types.  The time left does not go below zero, unless a timer was left behind.
TypeOK ==
  /\ timer \in TimerId \cup {NoTimer} /\ held \in TimerId \cup {NoTimer}
  /\ timeLeft \in (-Overtime)..StartTime /\ (crossed \/ timeLeft >= 0)
  /\ running \subseteq 1..made /\ made \in TimerId
  /\ due \in [TimerId -> 0..TicksPerSecond]
  /\ paused \in BOOLEAN /\ overShown \in BOOLEAN /\ pending \in BOOLEAN /\ crossed \in BOOLEAN
  /\ pc \in {"idle", "load", "invalidate", "clear", "dispatch"}
  /\ contacts \in 0..MaxContacts /\ played \in Nat

\* gameOverScreen has not begun, or not got as far as the clock.
GameGoesOn == pc \in {"idle", "load", "invalidate"} /\ ~pending /\ ~overShown

\* While the game goes on exactly one timer runs, the one the field refers to, and none
\* while it is paused or over, however pauses, resumes, collisions and the last second
\* fall, on the two threads.  The exception is what the code does not guard against: a
\* game that is resumed after gameOverScreen has loaded the timer, and before the end is
\* shown, has a clock again; if the field is cleared after that (GVC 731) nothing
\* refers to it and it counts on below zero.
OneClock ==
  ~crossed => running = IF GameGoesOn /\ ~paused THEN {timer} ELSE {}

\* A clock that such a resume leaves running behind the game-over view is stopped when
\* its time is up, or by the next collision, unless gameOverScreen is just between
\* its two uses of the field and forgets it.
LeftoverClockStops ==
  \A t \in TimerId :
    overShown /\ pc = "idle" /\ timer = t /\ t \in running ~> t \notin running

\* The clock is honest, but for such a resume: the seconds it has taken off have all
\* been played, and a pause wins less than a second (resumeGame starts a whole one).
ClockIsHonest ==
  ~crossed =>
    LET seconds == StartTime - timeLeft IN
    /\ seconds * TicksPerSecond =< played
    /\ running # {} => played =< (seconds + made) * TicksPerSecond

\* The game ends, unless it is left paused or paused again and again: every resume
\* starts a whole second, so a player who pauses within each second plays for ever.
GameEnds == <>overShown \/ []<>paused

\* A collision ends the game, also when it is paused or resumed or its time runs out
\* in the middle of gameOverScreen.
CollisionEndsGame == pc = "load" ~> overShown

=============================================================================
