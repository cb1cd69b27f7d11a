---------------------------- MODULE GameService ----------------------------
(***************************************************************************)
(* One duel as the backend runs it (usecase/game_play.go, game_logic.go,   *)
(* handle_timeout.go, game_recovery.go, redis/store.go, the two timeout    *)
(* workers and the start-up recovery of main.go).                          *)
(*                                                                         *)
(* Threads: one goroutine per WebSocket connection, the turn-timeout       *)
(* worker, the secret-setup worker and main.  A handler is cut where       *)
(* another thread can get in: around every Redis call and every database   *)
(* access.  A transaction is one step: all of them begin by locking the    *)
(* game row (FOR UPDATE), and touch nothing another of them does not lock. *)
(* The clock counts seconds; Redis drops a key when its TTL has run out.   *)
(***************************************************************************)
EXTENDS Integers, FiniteSets

CONSTANTS
  P1, P2,            \* player1_id and player2_id of the game
  NoPlayer,          \* a nil *uuid.UUID
  NoKey,             \* the Redis key game:<id>:turn is absent
  Conns,             \* WebSocket connections; a reconnecting player has two
  Owner,             \* Owner[c]: the user authenticated on connection c
  TurnWorker, SecretWorker, Main,
  TurnDuration, SecretSetup, GameLockTTL,      \* configuration, in seconds
  MaxClock,          \* bound: the clock stops here
  MaxTurn,           \* bound: the guess of this turn is a hit
  MaxFaults, MaxCrashes, MaxDeletes            \* bounds on the environment

Players == {P1, P2}
Threads == Conns \cup {TurnWorker, SecretWorker, Main}

ASSUME PlayersAssumption == P1 # P2 /\ NoPlayer \notin Players
ASSUME ThreadsAssumption ==
  /\ Owner \in [Conns -> Players]
  /\ Conns \cap {TurnWorker, SecretWorker, Main} = {}
  /\ TurnWorker # SecretWorker /\ TurnWorker # Main /\ SecretWorker # Main
ASSUME ConfigAssumption ==
  /\ TurnDuration \in Nat \ {0} /\ SecretSetup \in Nat \ {0}
  /\ GameLockTTL \in Nat /\ MaxClock \in Nat /\ MaxTurn \in Nat \ {0}
  /\ MaxFaults \in Nat /\ MaxCrashes \in Nat /\ MaxDeletes \in Nat
ASSUME NoKeyAssumption ==
  NoKey \notin [turn : Nat, player : Players, expiresAt : Nat, gone : Nat]

VARIABLES
  \* PostgreSQL
  game,        \* the games row
  guesses,     \* the rows of guesses
  history,     \* the rows of match_histories
  winCount,    \* users.win_count of the two players
  deleted,     \* the players with users.deleted_at set
  \* Redis
  turnKey,     \* game:<id>:turn
  guessLock,   \* guessLock[p]: when the guess lock of p lapses; 0 when free
  secretLock,  \* the same for the secret lock
  \* the process
  pc,          \* where each thread is
  mem,         \* the locals of each thread's current handler
  lastEvent,   \* the kind of the event last sent to the players
  \* the environment
  clock, faults, crashes

db    == <<game, guesses, history, winCount>>
redis == <<turnKey, guessLock, secretLock>>
env   == <<clock, faults, crashes, deleted>>
vars  == <<db, redis, pc, mem, lastEvent, env>>

-----------------------------------------------------------------------------
(* Helpers on the games row *)

Other(p) == IF p = P1 THEN P2 ELSE P1

(* The player to guess at turn k, as the alternation from player1 has it. *)
Mover(k) == IF k % 2 = 1 THEN P1 ELSE P2

CreatedAt == 1    \* the clock when matching created the game

SetSecret(g, p) == [g EXCEPT !.secret[p] = TRUE, !.updatedAt = clock]

BothSecretsSet(g) == g.secret[P1] /\ g.secret[P2]

(* Mutant: the game starts without a current player. *)
StartGameNoMover(g) ==
  [g EXCEPT !.status = "IN_PROGRESS", !.turn = 1,
            !.startedAt = clock, !.updatedAt = clock]

StartGame(g) ==
  [g EXCEPT !.status = "IN_PROGRESS", !.turn = 1, !.mover = P1,
            !.startedAt = clock, !.updatedAt = clock]

(* Mutants: the current player is not checked; the status is not. *)
CanGuessAnyTime(g, p) == g.status = "IN_PROGRESS"

CanGuessOver(g, p) == g.mover = p

CanGuess(g, p) == g.status = "IN_PROGRESS" /\ g.mover = p

(* Mutant: the turn number advances, the current player stays. *)
AdvanceTurnOnly(g, p) == [g EXCEPT !.turn = @ + 1, !.updatedAt = clock]

AdvanceTurn(g, p) ==
  [g EXCEPT !.turn = @ + 1, !.mover = Other(p), !.updatedAt = clock]

(* Mutant: the winner is set, the status is not. *)
FinishGameRunning(g, p) == [g EXCEPT !.winner = p, !.updatedAt = clock]

FinishGame(g, p) ==
  [g EXCEPT !.status = "FINISHED", !.winner = p, !.updatedAt = clock]

CancelGame(g, now) == [g EXCEPT !.status = "FINISHED", !.updatedAt = now]

-----------------------------------------------------------------------------
(* Threads *)

NoLocals == [actor |-> NoPlayer, turn |-> 0, mover |-> NoPlayer,
             stamp |-> 0, won |-> FALSE]

Serving == pc[Main] = "serve"

Home(t) == IF t = Main THEN "serve" ELSE "idle"

Goto(t, l) == pc' = [pc EXCEPT ![t] = l]

(* The handler returns and its locals are gone. *)
Return(t) ==
  /\ Goto(t, Home(t))
  /\ mem' = [mem EXCEPT ![t] = NoLocals]

(* SendToUser to both players, of an event of this kind. *)
Send(kind) == lastEvent' = kind

(* FindByID after the commit: the turn the notifier will publish. *)
ReadTurn(m) == [m EXCEPT !.turn = game.turn, !.mover = game.mover]

(* AcquireLock: SET NX EX of at least a second; nothing ever releases it. *)
LapseAt == clock + (IF GameLockTTL = 0 THEN 1 ELSE GameLockTTL)

(* Mutants: the timer names the player who has just guessed; the deadline  *)
(* is the reading of the clock.                                            *)
WriteTurnKeyOfActor(t) ==
  turnKey' = [turn |-> mem[t].turn, player |-> mem[t].actor,
              expiresAt |-> mem[t].stamp + TurnDuration,
              gone |-> clock + TurnDuration]

WriteTurnKeyAtOnce(t) ==
  turnKey' = [turn |-> mem[t].turn, player |-> mem[t].mover,
              expiresAt |-> mem[t].stamp, gone |-> clock + TurnDuration]

(* SetTurn: the payload's deadline counts from the caller's clock reading, *)
(* the key's TTL from the moment Redis runs the command.                   *)
WriteTurnKey(t) ==
  turnKey' = [turn |-> mem[t].turn, player |-> mem[t].mover,
              expiresAt |-> mem[t].stamp + TurnDuration,
              gone |-> clock + TurnDuration]

-----------------------------------------------------------------------------
(* SetSecretNumber, called from the read loop of connection c.  The lock   *)
(* is taken before the digits are looked at; bad digits keep it taken.     *)

AcquireSecretLock(c) ==
  /\ Serving /\ pc[c] = "idle"
  /\ secretLock[Owner[c]] = 0
  /\ secretLock' = [secretLock EXCEPT ![Owner[c]] = LapseAt]
  /\ \/ Goto(c, "secretUser") /\ mem' = [mem EXCEPT ![c].actor = Owner[c]]
     \/ UNCHANGED <<pc, mem>>                    \* ValidateFourDigits fails
  /\ UNCHANGED <<db, turnKey, guessLock, lastEvent, env>>

(* ensureGamePlayer, for either handler: a read of the users row outside   *)
(* the transaction that follows.                                           *)
CheckPlayer(t, from, to) ==
  /\ pc[t] = from
  /\ IF mem[t].actor \in deleted
     THEN Return(t)
     ELSE Goto(t, to) /\ UNCHANGED mem
  /\ UNCHANGED <<db, redis, lastEvent, env>>

RejectSecret(t) ==
  /\ pc[t] = "secretTx"
  /\ game.status # "WAITING_SECRET" \/ game.secret[mem[t].actor]
  /\ Return(t)
  /\ UNCHANGED <<db, redis, lastEvent, env>>

StoreSecret(t) ==
  /\ pc[t] = "secretTx"
  /\ game.status = "WAITING_SECRET" /\ ~game.secret[mem[t].actor]
  /\ LET g == SetSecret(game, mem[t].actor)
     IN IF BothSecretsSet(g)
        THEN game' = StartGame(g) /\ Goto(t, "startRead") /\ UNCHANGED mem
        ELSE game' = g /\ Return(t)
  /\ UNCHANGED <<guesses, history, winCount, redis, lastEvent, env>>

(* notifyGameStart; GAME_STATE_SYNC goes out just before TURN_CHANGED. *)
ReadStarted(t) ==
  /\ pc[t] = "startRead"
  /\ Goto(t, "startSet")
  /\ mem' = [mem EXCEPT ![t] = [ReadTurn(@) EXCEPT !.stamp = clock]]
  /\ UNCHANGED <<db, redis, lastEvent, env>>

SetFirstTurn(t) ==
  /\ pc[t] = "startSet"
  /\ WriteTurnKey(t)
  /\ Goto(t, "startMsg")
  /\ UNCHANGED <<db, guessLock, secretLock, mem, lastEvent, env>>

AnnounceStart(t) ==
  /\ pc[t] = "startMsg"
  /\ Send("TURN_CHANGED")
  /\ Return(t)
  /\ UNCHANGED <<db, redis, env>>

-----------------------------------------------------------------------------
(* SubmitGuess, called by a connection or, with isAuto, by HandleTimeout.  *)

AcquireGuessLock(c) ==
  /\ Serving /\ pc[c] = "idle"
  /\ guessLock[Owner[c]] = 0
  /\ guessLock' = [guessLock EXCEPT ![Owner[c]] = LapseAt]
  /\ \/ Goto(c, "guessUser") /\ mem' = [mem EXCEPT ![c].actor = Owner[c]]
     \/ UNCHANGED <<pc, mem>>                    \* ValidateFourDigits fails
  /\ UNCHANGED <<db, turnKey, secretLock, lastEvent, env>>

RejectGuess(t) ==
  /\ pc[t] = "guessTx"
  /\ ~game.secret[Other(mem[t].actor)] \/ ~CanGuess(game, mem[t].actor)
  /\ Return(t)
  /\ UNCHANGED <<db, redis, lastEvent, env>>

GuessRow(t, hit) ==
  [turn |-> game.turn, player |-> mem[t].actor,
   auto |-> t = TurnWorker, hit |-> hit]

(* The committed transaction; a hit also finishes the game, records the    *)
(* match and counts the win (finishGameService).                           *)
CommitGuess(t, hit) ==
  LET p == mem[t].actor
      g == AdvanceTurn(game, p)
  IN /\ pc[t] = "guessTx"
     /\ game.secret[Other(p)] /\ CanGuess(game, p)
     /\ guesses' = guesses \cup {GuessRow(t, hit)}
     /\ IF hit
        THEN /\ game' = FinishGame(g, p)
             /\ history' = history \cup {[winner |-> p, loser |-> Other(p)]}
             /\ winCount' = [winCount EXCEPT ![p] = @ + 1]
        ELSE /\ game' = g
             /\ UNCHANGED <<history, winCount>>
     /\ mem' = [mem EXCEPT ![t].won = hit]
     /\ Goto(t, "guessRead")
     /\ UNCHANGED <<redis, lastEvent, env>>

(* notifyGuessResult, after the activity log: a failure of either leaves   *)
(* the players unnotified and the turn without its timer.                  *)
ReadNextTurn(t) ==
  /\ pc[t] = "guessRead"
  /\ Goto(t, "guessMsg")
  /\ mem' = [mem EXCEPT ![t] = ReadTurn(@)]
  /\ UNCHANGED <<db, redis, lastEvent, env>>

(* Mutant: the notifier forgets that the guess has won. *)
AnnounceResultOnly(t) ==
  /\ pc[t] = "guessMsg"
  /\ Send("GUESS_RESULT")
  /\ Goto(t, "nextSet")
  /\ mem' = [mem EXCEPT ![t].stamp = clock]
  /\ UNCHANGED <<db, redis, env>>

AnnounceResult(t) ==
  /\ pc[t] = "guessMsg"
  /\ Send("GUESS_RESULT")
  /\ Goto(t, IF mem[t].won THEN "overDel" ELSE "nextSet")
  /\ mem' = [mem EXCEPT ![t].stamp = clock]
  /\ UNCHANGED <<db, redis, env>>

SetNextTurn(t) ==
  /\ pc[t] = "nextSet"
  /\ WriteTurnKey(t)
  /\ Goto(t, "nextMsg")
  /\ UNCHANGED <<db, guessLock, secretLock, mem, lastEvent, env>>

AnnounceTurn(t) ==
  /\ pc[t] = "nextMsg"
  /\ Send("TURN_CHANGED")
  /\ Return(t)
  /\ UNCHANGED <<db, redis, env>>

(* DeleteTurn, its error ignored, by the winner's or the cancelling thread *)
DropTurnKey(t) ==
  /\ pc[t] \in {"overDel", "cancelDel"}
  /\ \/ turnKey' = NoKey /\ UNCHANGED faults
     \/ faults < MaxFaults /\ faults' = faults + 1 /\ UNCHANGED turnKey
  /\ Goto(t, IF pc[t] = "overDel" THEN "overMsg" ELSE "cancelMsg")
  /\ UNCHANGED <<db, guessLock, secretLock, mem, lastEvent,
                 clock, crashes, deleted>>

AnnounceWin(t) ==
  /\ pc[t] = "overMsg"
  /\ Send("GAME_OVER")
  /\ Return(t)
  /\ UNCHANGED <<db, redis, env>>

-----------------------------------------------------------------------------
(* TurnTimeoutWorker.tick and HandleTimeout                                *)

ListExpiredTurns ==
  /\ Serving /\ pc[TurnWorker] = "idle"
  /\ turnKey # NoKey /\ turnKey.expiresAt <= clock
  /\ Goto(TurnWorker, "timeoutLock")
  /\ mem' = [mem EXCEPT ![TurnWorker] =
                 [@ EXCEPT !.actor = turnKey.player, !.stamp = clock]]
  /\ UNCHANGED <<db, redis, lastEvent, env>>

(* HandleTimeout reads the clock between the listing and its lock: other   *)
(* games of the same tick may come first.                                  *)
TimeoutLock ==
  LET p == mem[TurnWorker].actor
  IN /\ pc[TurnWorker] = "timeoutLock"
     /\ IF guessLock[p] = 0
        THEN /\ guessLock' = [guessLock EXCEPT ![p] = LapseAt]
             /\ Goto(TurnWorker, "timeoutCheck")
             /\ \E now \in mem[TurnWorker].stamp..clock :
                  mem' = [mem EXCEPT ![TurnWorker].stamp = now]
        ELSE Return(TurnWorker) /\ UNCHANGED guessLock
     /\ UNCHANGED <<db, turnKey, secretLock, lastEvent, env>>

(* GetTurn, made twice; validateTimeoutGame, between the two, reads the    *)
(* game and lets every answer through.                                     *)
TimeoutDue ==
  /\ turnKey # NoKey
  /\ turnKey.player = mem[TurnWorker].actor
  /\ turnKey.expiresAt <= mem[TurnWorker].stamp

CheckTimeout(from, to) ==
  /\ pc[TurnWorker] = from
  /\ IF TimeoutDue
     THEN Goto(TurnWorker, to) /\ UNCHANGED mem
     ELSE Return(TurnWorker)
  /\ UNCHANGED <<db, redis, lastEvent, env>>

-----------------------------------------------------------------------------
(* SecretSetupTimeoutWorker.tick and CancelBySecretTimeout                 *)

(* Mutant: the comparison is the wrong way round. *)
SetupExpiredReversed(now) == now < CreatedAt + SecretSetup

SetupExpired(now) == now > CreatedAt + SecretSetup

ListWaitingGames ==
  /\ Serving /\ pc[SecretWorker] = "idle"
  /\ game.status = "WAITING_SECRET" /\ SetupExpired(clock)
  /\ Goto(SecretWorker, "cancelTx")
  /\ mem' = [mem EXCEPT ![SecretWorker].stamp = clock]
  /\ UNCHANGED <<db, redis, lastEvent, env>>

(* Mutant: the status is not looked at again under the row lock. *)
CancelUnchecked(t) ==
  /\ pc[t] = "cancelTx"
  /\ IF SetupExpired(mem[t].stamp)
     THEN /\ game' = CancelGame(game, mem[t].stamp)
          /\ Goto(t, "cancelDel")
          /\ UNCHANGED mem
     ELSE Return(t) /\ UNCHANGED game
  /\ UNCHANGED <<guesses, history, winCount, redis, lastEvent, env>>

CancelBySecretTimeout(t) ==
  /\ pc[t] = "cancelTx"
  /\ IF game.status = "WAITING_SECRET" /\ SetupExpired(mem[t].stamp)
     THEN /\ game' = CancelGame(game, mem[t].stamp)
          /\ Goto(t, "cancelDel")
          /\ UNCHANGED mem
     ELSE Return(t) /\ UNCHANGED game
  /\ UNCHANGED <<guesses, history, winCount, redis, lastEvent, env>>

AnnounceCancel(t) ==
  /\ pc[t] = "cancelMsg"
  /\ Send("GAME_OVER")
  /\ Return(t)
  /\ UNCHANGED <<db, redis, env>>

-----------------------------------------------------------------------------
(* Start-up: main runs RecoverActiveGames before it serves or starts the   *)
(* workers, and serves whatever the outcome.                               *)

Restart ==
  /\ pc[Main] = "down"
  /\ Goto(Main, "recList")
  /\ UNCHANGED <<db, redis, mem, lastEvent, env>>

ListInProgress ==
  /\ pc[Main] = "recList"
  /\ mem' = [mem EXCEPT ![Main] = [ReadTurn(@) EXCEPT !.stamp = clock]]
  /\ Goto(Main, IF game.status = "IN_PROGRESS" THEN "recGet" ELSE "recWait")
  /\ UNCHANGED <<db, redis, lastEvent, env>>

(* Mutant: any timer is written over, a missing one is left missing. *)
RecoverGetTurnInverted ==
  /\ pc[Main] = "recGet"
  /\ Goto(Main, IF turnKey = NoKey THEN "recWait" ELSE "recSet")
  /\ UNCHANGED <<db, redis, mem, lastEvent, env>>

RecoverGetTurn ==
  /\ pc[Main] = "recGet"
  /\ Goto(Main, IF turnKey # NoKey /\ turnKey.expiresAt > mem[Main].stamp
                THEN "recWait" ELSE "recSet")
  /\ UNCHANGED <<db, redis, mem, lastEvent, env>>

RecoverSetTurn ==
  /\ pc[Main] = "recSet"
  /\ WriteTurnKey(Main)
  /\ Goto(Main, "recMsg")
  /\ UNCHANGED <<db, guessLock, secretLock, mem, lastEvent, env>>

RecoverAnnounce ==
  /\ pc[Main] = "recMsg"
  /\ Send("TURN_CHANGED")
  /\ Goto(Main, "recWait")
  /\ UNCHANGED <<db, redis, mem, env>>

RecoverWaiting ==
  /\ pc[Main] = "recWait"
  /\ IF game.status = "WAITING_SECRET" /\ SetupExpired(mem[Main].stamp)
     THEN /\ Goto(Main, "cancelTx")
          /\ mem' = [mem EXCEPT ![Main].stamp = clock]
     ELSE Return(Main)
  /\ UNCHANGED <<db, redis, lastEvent, env>>

-----------------------------------------------------------------------------
(* The environment *)

(* A database or Redis call returns an error: the handler gives up there,  *)
(* and what it committed before stays.                                     *)
Fallible == {"secretUser", "secretTx", "startRead", "startSet", "startMsg",
             "guessUser", "guessTx", "guessRead", "nextSet",
             "nextMsg", "overMsg", "timeoutCheck", "timeoutRecheck",
             "cancelTx",
             "recList", "recGet", "recSet", "recMsg", "recWait"}

Fail(t) ==
  /\ pc[t] \in Fallible /\ faults < MaxFaults
  /\ faults' = faults + 1
  /\ Return(t)
  /\ UNCHANGED <<db, redis, lastEvent, clock, crashes, deleted>>

(* The process dies, in whatever every thread was doing. *)
Crash ==
  /\ pc[Main] # "down" /\ crashes < MaxCrashes
  /\ crashes' = crashes + 1
  /\ pc' = [t \in Threads |-> IF t = Main THEN "down" ELSE "idle"]
  /\ mem' = [t \in Threads |-> NoLocals]
  /\ UNCHANGED <<db, redis, lastEvent, clock, faults, deleted>>

(* AdminUseCase.DeleteUser saves the row of a player: it looked for an     *)
(* active game before matching committed this one.                         *)
DeletePlayer(p) ==
  /\ p \notin deleted /\ Cardinality(deleted) < MaxDeletes
  /\ deleted' = deleted \cup {p}
  /\ UNCHANGED <<db, redis, pc, mem, lastEvent, clock, faults, crashes>>

(* A second passes, and with it Redis keys. *)
Unlapsed(at) == IF at <= clock + 1 THEN 0 ELSE at

Tick ==
  /\ clock < MaxClock
  /\ clock' = clock + 1
  /\ turnKey' = IF turnKey # NoKey /\ turnKey.gone <= clock + 1
                THEN NoKey ELSE turnKey
  /\ guessLock' = [p \in Players |-> Unlapsed(guessLock[p])]
  /\ secretLock' = [p \in Players |-> Unlapsed(secretLock[p])]
  /\ UNCHANGED <<db, pc, mem, lastEvent, faults, crashes, deleted>>

-----------------------------------------------------------------------------
Init ==
  /\ game = [status |-> "WAITING_SECRET", secret |-> [p \in Players |-> FALSE],
             turn |-> 1, mover |-> NoPlayer, winner |-> NoPlayer,
             startedAt |-> 0, updatedAt |-> CreatedAt]
  /\ guesses = {} /\ history = {} /\ deleted = {}
  /\ winCount = [p \in Players |-> 0]
  /\ turnKey = NoKey
  /\ guessLock = [p \in Players |-> 0]
  /\ secretLock = [p \in Players |-> 0]
  /\ pc = [t \in Threads |-> Home(t)]
  /\ mem = [t \in Threads |-> NoLocals]
  /\ lastEvent = "none"
  /\ clock = CreatedAt /\ faults = 0 /\ crashes = 0

(* The steps of a handler that is under way *)
SecretStep(t) ==
  \/ CheckPlayer(t, "secretUser", "secretTx")
  \/ RejectSecret(t)
  \/ StoreSecret(t)
  \/ ReadStarted(t)
  \/ SetFirstTurn(t)
  \/ AnnounceStart(t)

GuessStep(t) ==
  \/ CheckPlayer(t, "guessUser", "guessTx")
  \/ RejectGuess(t)
  \/ \E hit \in (IF game.turn < MaxTurn THEN BOOLEAN ELSE {TRUE}) :
        CommitGuess(t, hit)
  \/ ReadNextTurn(t)
  \/ AnnounceResult(t)
  \/ SetNextTurn(t)
  \/ AnnounceTurn(t)
  \/ DropTurnKey(t)
  \/ AnnounceWin(t)

TimeoutStep ==
  \/ TimeoutLock
  \/ CheckTimeout("timeoutCheck", "timeoutRecheck")
  \/ CheckTimeout("timeoutRecheck", "guessUser")
  \/ GuessStep(TurnWorker)

CancelStep(t) ==
  \/ CancelBySecretTimeout(t)
  \/ DropTurnKey(t)
  \/ AnnounceCancel(t)

RecoverStep ==
  \/ ListInProgress
  \/ RecoverGetTurn
  \/ RecoverSetTurn
  \/ RecoverAnnounce
  \/ RecoverWaiting
  \/ CancelStep(Main)

ConnStep(c) == SecretStep(c) \/ GuessStep(c)

Next ==
  \/ \E c \in Conns : AcquireSecretLock(c) \/ AcquireGuessLock(c) \/ ConnStep(c)
  \/ ListExpiredTurns
  \/ TimeoutStep
  \/ ListWaitingGames
  \/ CancelStep(SecretWorker)
  \/ Restart
  \/ RecoverStep
  \/ \E t \in Threads : Fail(t)
  \/ Crash
  \/ \E p \in Players : DeletePlayer(p)
  \/ Tick

Spec == Init /\ [][Next]_vars

(* Time passes, a goroutine that can go on does, the workers poll, and a   *)
(* process that died is started again.  Nobody is obliged to send anything. *)
FairSpec ==
  /\ Spec
  /\ WF_vars(Tick) /\ WF_vars(Restart) /\ WF_vars(RecoverStep)
  /\ \A c \in Conns : WF_vars(ConnStep(c))
  /\ WF_vars(ListExpiredTurns) /\ WF_vars(TimeoutStep)
  /\ WF_vars(ListWaitingGames) /\ WF_vars(CancelStep(SecretWorker))

(* The same with a turn-timeout worker that is never late: no second       *)
(* passes while an expired turn is there to be listed.                     *)
ExpiredTurnThere ==
  Serving /\ pc[TurnWorker] = "idle" /\ turnKey # NoKey /\ turnKey.expiresAt <= clock

PromptSpec ==
  /\ Init /\ [][Next /\ (clock' # clock => ~ExpiredTurnThere)]_vars
  /\ WF_vars(Tick) /\ WF_vars(TimeoutStep) /\ WF_vars(ListExpiredTurns)
  /\ \A c \in Conns : WF_vars(ConnStep(c))

-----------------------------------------------------------------------------
(* Properties *)

Status == {"WAITING_SECRET", "IN_PROGRESS", "FINISHED"}

GameRows ==
  [status : Status, secret : [Players -> BOOLEAN], turn : Nat,
   mover : Players \cup {NoPlayer}, winner : Players \cup {NoPlayer},
   startedAt : Nat, updatedAt : Nat]

GuessRows == [turn : Nat, player : Players, auto : BOOLEAN, hit : BOOLEAN]

TurnKeys == [turn : Nat, player : Players, expiresAt : Nat, gone : Nat]

Locals == [actor : Players \cup {NoPlayer}, turn : Nat,
           mover : Players \cup {NoPlayer}, stamp : Nat, won : BOOLEAN]

ConnPoints == {"idle", "secretUser", "secretTx", "startRead", "startSet",
               "startMsg", "guessUser", "guessTx", "guessRead",
               "guessMsg", "nextSet", "nextMsg", "overDel", "overMsg"}
TimeoutPoints == {"idle", "timeoutLock", "timeoutCheck", "timeoutRecheck",
                  "guessUser", "guessTx", "guessRead", "guessMsg",
                  "nextSet", "nextMsg", "overDel", "overMsg"}
CancelPoints == {"cancelTx", "cancelDel", "cancelMsg"}
MainPoints == {"down", "recList", "recGet", "recSet", "recMsg", "recWait",
               "serve"} \cup CancelPoints
Points == ConnPoints \cup TimeoutPoints \cup MainPoints

Events == {"none", "TURN_CHANGED", "GUESS_RESULT", "GAME_OVER"}

(* Every variable stays in its type, the rows of the three tables and the  *)
(* locals of every handler included.                                       *)
TypeOK ==
  /\ game \in GameRows
  /\ guesses \subseteq GuessRows
  /\ history \subseteq [winner : Players, loser : Players]
  /\ winCount \in [Players -> Nat]
  /\ deleted \subseteq Players
  /\ turnKey \in TurnKeys \cup {NoKey}
  /\ guessLock \in [Players -> Nat] /\ secretLock \in [Players -> Nat]
  /\ pc \in [Threads -> Points]
  /\ mem \in [Threads -> Locals]
  /\ lastEvent \in Events
  /\ clock \in Nat /\ faults \in Nat /\ crashes \in Nat

(* The rows of guesses are an unbroken alternation: one row for each turn  *)
(* below games.current_turn, by player1 in the odd turns and by player2 in *)
(* the even ones, however the two connections, their retries and the       *)
(* timeout worker interleave.                                              *)
GuessesAlternate ==
  /\ \A g \in guesses : g.turn \in 1..(game.turn - 1) /\ g.player = Mover(g.turn)
  /\ \A k \in 1..(game.turn - 1) : \E g \in guesses : g.turn = k
  /\ \A g, h \in guesses : g.turn = h.turn => g = h

(* The three records of a result agree: a winner in games, exactly one     *)
(* match_histories row and one counted win exist together, and exactly     *)
(* when the last guess, and no earlier one, was a hit (finishGameService). *)
ResultRecorded ==
  /\ \A g \in guesses : g.hit => g.turn = game.turn - 1
  /\ IF game.winner = NoPlayer
     THEN /\ history = {} /\ \A p \in Players : winCount[p] = 0
          /\ \A g \in guesses : ~g.hit
     ELSE /\ game.status = "FINISHED"
          /\ history = {[winner |-> game.winner, loser |-> Other(game.winner)]}
          /\ \A p \in Players : winCount[p] = (IF p = game.winner THEN 1 ELSE 0)
          /\ \E g \in guesses : g.hit /\ g.player = game.winner

(* A game called off for want of a secret was never played: no guess, no   *)
(* start time and no turn timer, although a SET_SECRET may have been on    *)
(* its way when CancelBySecretTimeout committed.                           *)
CancelledNeverPlayed ==
  game.status = "FINISHED" /\ game.winner = NoPlayer =>
    guesses = {} /\ game.startedAt = 0 /\ ~BothSecretsSet(game) /\ turnKey = NoKey

(* The turn timer in Redis may lag behind the database, because SetTurn    *)
(* runs after the commit, but it never runs ahead of it, and the player it *)
(* names is the one whose turn it names.                                   *)
TimerNotAhead ==
  turnKey # NoKey =>
    /\ game.startedAt > 0
    /\ turnKey.turn \in 1..game.turn
    /\ turnKey.player = Mover(turnKey.turn)

(* Once a game is FINISHED its outcome, its guesses and its history row    *)
(* never change, whatever handlers are still under way.                    *)
FinishedIsFinal ==
  [][game.status = "FINISHED" => UNCHANGED <<game, guesses, history, winCount>>]_vars

(* The timeout worker plays for nobody before a full TURN_DURATION has     *)
(* passed since the game started, whichever timer it acted on.             *)
NoAutoGuessInFirstTurn ==
  [][\A g \in guesses' \ guesses :
       g.auto => clock >= game.startedAt + TurnDuration]_vars

(* RecoverActiveGames, when none of its calls fails, leaves every game in  *)
(* progress with a turn timer when main begins to serve: it can be missing *)
(* only if it ran out since main read the clock.                           *)
RecoveryArmsTimer ==
  [][pc[Main] = "recWait" /\ pc'[Main] = "serve" /\ faults' = 0
       /\ game.status = "IN_PROGRESS"
     => turnKey # NoKey \/ clock > mem[Main].stamp]_vars

(* A game that waits for secrets does not wait forever: it starts or the   *)
(* secret-setup timeout ends it, across crashes of the process.            *)
WaitingResolves ==
  game.status = "WAITING_SECRET" ~> game.status # "WAITING_SECRET"

(* When nothing fails, a game that ends is announced as GAME_OVER at some  *)
(* point.  (Not as the last event: a slower notifier may still send        *)
(* TURN_CHANGED after it.)                                                 *)
FinishAnnounced ==
  <>(game.status = "FINISHED") =>
    <>(lastEvent = "GAME_OVER" \/ crashes > 0 \/ faults > 0)

(* README.md:276: a turn without input is played by an automatic guess.    *)
(* Asked of the first turn, with room for the clock to reach its deadline  *)
(* twice, and of a process that neither crashes nor fails.                 *)
FirstTurnIsPlayed ==
  game.status = "IN_PROGRESS" /\ game.turn = 1
      /\ game.startedAt + 2 * TurnDuration <= MaxClock
    ~> game.turn # 1 \/ crashes > 0 \/ faults > 0 \/ deleted # {}

-----------------------------------------------------------------------------
(* The inductive strengthening of the properties above, in named parts.    *)

(* The columns of games agree: a game has started exactly when both        *)
(* secrets are set, its mover is the one the turn number calls for, and a  *)
(* winner is the player of the turn before the current one.                *)
RowAgrees ==
  /\ game.turn >= 1
  /\ game.startedAt > 0 <=> BothSecretsSet(game)
  /\ game.startedAt = 0 =>
       /\ game.status # "IN_PROGRESS" /\ game.turn = 1
       /\ game.mover = NoPlayer /\ game.winner = NoPlayer
  /\ game.startedAt > 0 =>
       /\ game.status # "WAITING_SECRET" /\ game.mover = Mover(game.turn)
       /\ game.status = "IN_PROGRESS" <=> game.winner = NoPlayer
  /\ game.winner # NoPlayer => game.turn >= 2 /\ game.winner = Mover(game.turn - 1)
  /\ clock > 0

(* What a handler holds for the turn timer was published by the database.  *)
Published(m) ==
  /\ game.startedAt > 0
  /\ m.turn \in 1..game.turn
  /\ m.mover = Mover(m.turn)

(* Where a handler holds a turn to be written to the timer *)
TurnInHand == {"startSet", "guessMsg", "nextSet", "recGet", "recSet"}

(* A request or a timeout under way acts for one of the players; between   *)
(* the commit and SetTurn the game has started, and once the turn is read  *)
(* back it is a published one.                                             *)
HandlerHolds(t) ==
  /\ t \in Conns \cup {TurnWorker} /\ pc[t] # "idle" => mem[t].actor \in Players
  /\ pc[t] \in {"startRead", "guessRead"} => game.startedAt > 0
  /\ pc[t] \in TurnInHand => Published(mem[t])

(* The invariant the proofs are by: what handlers hold and how the columns *)
(* of a row agree, with the safety properties of the rows and the timer.   *)
DuelInv ==
  /\ RowAgrees
  /\ GuessesAlternate
  /\ ResultRecorded
  /\ \A t \in Threads : HandlerHolds(t)
  /\ TimerNotAhead

-----------------------------------------------------------------------------
(* The service implements the duel: the guesses rows are the moves, the    *)
(* handlers' other steps stutter.                                          *)
GuessOfTurn(k) == CHOOSE g \in guesses : g.turn = k

Moves ==
  [k \in 1..(game.turn - 1) |->
     [by |-> GuessOfTurn(k).player, hit |-> GuessOfTurn(k).hit]]

Ready == {p \in Players : game.secret[p]}

D == INSTANCE Duel WITH
       ready    <- Ready,
       moves    <- Moves,
       champion <- game.winner,
       over     <- game.status = "FINISHED"

(* Every behaviour of the service is a behaviour of Duel.                  *)
ImplementsDuel == D!Spec

=============================================================================
