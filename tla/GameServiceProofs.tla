------------------------- MODULE GameServiceProofs -------------------------
(***************************************************************************)
(* Theorems about GameService for every value of its constants: any        *)
(* number of connections, any durations, any number of crashes and faults. *)
(* The last part is the refinement of Duel.                                *)
(***************************************************************************)
EXTENDS GameService, SequenceTheorems, TLAPS

-----------------------------------------------------------------------------
(* Types of the operators the actions are built from *)

LEMMA OtherType ==
  ASSUME NEW p \in Players
  PROVE  Other(p) \in Players /\ Other(p) # p
BY PlayersAssumption DEF Players, Other

LEMMA LapseAtType ==
  ASSUME TypeOK
  PROVE  LapseAt \in Nat
BY ConfigAssumption DEF TypeOK, LapseAt

LEMMA NoLocalsType == NoLocals \in Locals
BY DEF NoLocals, Locals

LEMMA HomeType ==
  ASSUME NEW t \in Threads
  PROVE  Home(t) \in Points
BY DEF Home, Points, ConnPoints, MainPoints

(* Setting the program counter to a point of the code keeps its type. *)
LEMMA GotoType ==
  ASSUME TypeOK, NEW t \in Threads, NEW l \in Points, Goto(t, l)
  PROVE  pc' \in [Threads -> Points]
BY DEF TypeOK, Goto

LEMMA ReturnType ==
  ASSUME TypeOK, NEW t \in Threads, Return(t)
  PROVE  pc' \in [Threads -> Points] /\ mem' \in [Threads -> Locals]
BY GotoType, HomeType, NoLocalsType DEF Return, TypeOK

LEMMA WriteTurnKeyType ==
  ASSUME TypeOK, NEW t \in Threads, WriteTurnKey(t), mem[t].mover \in Players
  PROVE  turnKey' \in TurnKeys
BY ConfigAssumption DEF TypeOK, WriteTurnKey, TurnKeys, Locals

LEMMA ReadTurnType ==
  ASSUME TypeOK, NEW m \in Locals
  PROVE  /\ ReadTurn(m) \in Locals
         /\ [ReadTurn(m) EXCEPT !.stamp = clock] \in Locals
<1>1. ReadTurn(m) \in Locals
  BY DEF ReadTurn, TypeOK, GameRows, Locals
<1>2. clock \in Nat
  BY DEF TypeOK
<1> QED BY <1>1, <1>2 DEF Locals

LEMMA MoverType ==
  ASSUME NEW k
  PROVE  Mover(k) \in Players
BY DEF Mover, Players

LEMMA PublishedType ==
  ASSUME NEW m, Published(m)
  PROVE  m.mover \in Players
BY MoverType DEF Published

LEMMA GameRowTypes ==
  ASSUME NEW g \in GameRows, NEW p \in Players, NEW now \in Nat, clock \in Nat
  PROVE  /\ SetSecret(g, p) \in GameRows
         /\ StartGame(g) \in GameRows
         /\ AdvanceTurn(g, p) \in GameRows
         /\ FinishGame(g, p) \in GameRows
         /\ CancelGame(g, now) \in GameRows
<1>1. SetSecret(g, p) \in GameRows
  BY DEF SetSecret, GameRows
<1>2. StartGame(g) \in GameRows
  BY DEF StartGame, GameRows, Status, Players
<1>3. AdvanceTurn(g, p) \in GameRows
  <2>1. Other(p) \in Players /\ g.turn + 1 \in Nat
    BY OtherType DEF GameRows
  <2> QED BY <2>1 DEF AdvanceTurn, GameRows
<1>4. FinishGame(g, p) \in GameRows
  BY DEF FinishGame, GameRows, Status
<1>5. CancelGame(g, now) \in GameRows
  BY DEF CancelGame, GameRows, Status
<1> QED BY <1>1, <1>2, <1>3, <1>4, <1>5

-----------------------------------------------------------------------------
(* Type correctness *)

LEMMA ThreadsFacts ==
  /\ Conns \subseteq Threads
  /\ TurnWorker \in Threads /\ SecretWorker \in Threads /\ Main \in Threads
  /\ \A c \in Conns : Owner[c] \in Players
BY ThreadsAssumption DEF Threads

LEMMA InitType == Init => TypeOK
<1> SUFFICES ASSUME Init PROVE TypeOK
  OBVIOUS
<1>1. game \in GameRows
  BY DEF Init, GameRows, Status, CreatedAt
<1>2. pc \in [Threads -> Points] /\ mem \in [Threads -> Locals]
  BY HomeType, NoLocalsType DEF Init
<1> QED BY <1>1, <1>2 DEF Init, TypeOK, CreatedAt, Events

(* One lemma for each of the program's operations *)

LEMMA SecretStepType ==
  ASSUME TypeOK, DuelInv, NEW t \in Conns, SecretStep(t)
  PROVE  TypeOK'
<1> DEFINE p == mem[t].actor
<1> USE ThreadsFacts
<1>0. p \in Players
  BY DEF DuelInv, HandlerHolds, SecretStep, CheckPlayer, RejectSecret,
         StoreSecret, ReadStarted, SetFirstTurn, AnnounceStart
<1>1. CASE CheckPlayer(t, "secretUser", "secretTx")
  <2>1. CASE p \in deleted
    BY <1>1, <2>1, ReturnType DEF CheckPlayer, TypeOK, db, redis, env
  <2>2. CASE p \notin deleted
    BY <1>1, <2>2, GotoType DEF CheckPlayer, TypeOK, db, redis, env, Points, ConnPoints
  <2> QED BY <2>1, <2>2
<1>2. CASE RejectSecret(t)
  BY <1>2, ReturnType DEF RejectSecret, TypeOK, db, redis, env
<1>3. CASE StoreSecret(t)
  <2> DEFINE g == SetSecret(game, p)
  <2>1. g \in GameRows /\ StartGame(g) \in GameRows
    BY <1>0, GameRowTypes DEF TypeOK
  <2>2. CASE BothSecretsSet(g)
    BY <1>3, <2>1, <2>2, GotoType DEF StoreSecret, TypeOK, redis, env, Points, ConnPoints
  <2>3. CASE ~BothSecretsSet(g)
    BY <1>3, <2>1, <2>3, ReturnType DEF StoreSecret, TypeOK, redis, env
  <2> QED BY <2>2, <2>3
<1>4. CASE ReadStarted(t)
  <2>1. mem' \in [Threads -> Locals]
    BY <1>4, ReadTurnType DEF ReadStarted, TypeOK
  <2> QED BY <1>4, <2>1, GotoType DEF ReadStarted, TypeOK, db, redis, env, Points, ConnPoints
<1>5. CASE SetFirstTurn(t)
  <2>1. mem[t].mover \in Players
    BY <1>5, PublishedType DEF SetFirstTurn, DuelInv, HandlerHolds, TurnInHand
  <2> QED BY <1>5, <2>1, GotoType, WriteTurnKeyType
          DEF SetFirstTurn, TypeOK, db, env, Points, ConnPoints
<1>6. CASE AnnounceStart(t)
  BY <1>6, ReturnType DEF AnnounceStart, Send, Events, TypeOK, db, redis, env
<1> QED BY <1>1, <1>2, <1>3, <1>4, <1>5, <1>6 DEF SecretStep

LEMMA DropTurnKeyType ==
  ASSUME TypeOK, NEW t \in Threads, DropTurnKey(t)
  PROVE  TypeOK'
<1> DEFINE l == IF pc[t] = "overDel" THEN "overMsg" ELSE "cancelMsg"
<1>1. l \in Points
  BY DEF Points, ConnPoints, MainPoints, CancelPoints
<1>2. Goto(t, l)
  BY DEF DropTurnKey
<1>3. pc' \in [Threads -> Points]
  BY <1>1, <1>2, GotoType
<1> QED BY <1>3 DEF DropTurnKey, TypeOK, db

LEMMA GuessStepType ==
  ASSUME TypeOK, DuelInv, NEW t \in Conns \cup {TurnWorker}, GuessStep(t)
  PROVE  TypeOK'
<1> DEFINE p == mem[t].actor
<1> USE ThreadsFacts
<1>0. p \in Players
  BY DEF DuelInv, HandlerHolds, GuessStep, CheckPlayer, RejectGuess, CommitGuess,
         ReadNextTurn, AnnounceResult, SetNextTurn, AnnounceTurn, DropTurnKey,
         AnnounceWin
<1>1. CASE CheckPlayer(t, "guessUser", "guessTx")
  <2>1. CASE p \in deleted
    BY <1>1, <2>1, ReturnType DEF CheckPlayer, TypeOK, db, redis, env
  <2>2. CASE p \notin deleted
    BY <1>1, <2>2, GotoType DEF CheckPlayer, TypeOK, db, redis, env, Points, ConnPoints
  <2> QED BY <2>1, <2>2
<1>2. CASE RejectGuess(t)
  BY <1>2, ReturnType DEF RejectGuess, TypeOK, db, redis, env
<1>3. ASSUME NEW hit \in BOOLEAN, CommitGuess(t, hit)
      PROVE  TypeOK'
  <2> DEFINE g == AdvanceTurn(game, p)
  <2>1. g \in GameRows /\ FinishGame(g, p) \in GameRows
    BY <1>0, GameRowTypes DEF TypeOK
  <2>2. pc' \in [Threads -> Points]
    BY <1>3, GotoType DEF CommitGuess, Points, ConnPoints
  <2>3. mem' \in [Threads -> Locals]
    BY <1>3 DEF CommitGuess, TypeOK, Locals
  <2>4. guesses' \subseteq GuessRows
    <3>1. GuessRow(t, hit) \in GuessRows
      BY <1>0 DEF GuessRow, GuessRows, TypeOK, GameRows
    <3> QED BY <1>3, <3>1 DEF CommitGuess, TypeOK
  <2>5. CASE hit
    <3>1. history' \subseteq [winner : Players, loser : Players]
      BY <1>0, <1>3, <2>5, OtherType DEF CommitGuess, TypeOK
    <3>2. winCount' \in [Players -> Nat]
      BY <1>0, <1>3, <2>5 DEF CommitGuess, TypeOK
    <3> QED BY <1>3, <2>1, <2>2, <2>3, <2>4, <2>5, <3>1, <3>2
            DEF CommitGuess, TypeOK, redis, env
  <2>6. CASE ~hit
    BY <1>3, <2>1, <2>2, <2>3, <2>4, <2>6 DEF CommitGuess, TypeOK, redis, env
  <2> QED BY <2>5, <2>6
<1>4. CASE ReadNextTurn(t)
  <2>1. mem' \in [Threads -> Locals]
    BY <1>4, ReadTurnType DEF ReadNextTurn, TypeOK
  <2> QED BY <1>4, <2>1, GotoType DEF ReadNextTurn, TypeOK, db, redis, env, Points, ConnPoints
<1>5. CASE AnnounceResult(t)
  <2> DEFINE l == IF mem[t].won THEN "overDel" ELSE "nextSet"
  <2>1. l \in Points /\ Goto(t, l)
    BY <1>5 DEF AnnounceResult, Points, ConnPoints
  <2>2. pc' \in [Threads -> Points]
    BY <2>1, GotoType
  <2>3. mem' \in [Threads -> Locals]
    BY <1>5 DEF AnnounceResult, TypeOK, Locals
  <2> QED BY <1>5, <2>2, <2>3 DEF AnnounceResult, Send, Events, TypeOK, db, redis, env
<1>6. CASE SetNextTurn(t)
  <2>1. mem[t].mover \in Players
    BY <1>6, PublishedType DEF SetNextTurn, DuelInv, HandlerHolds, TurnInHand
  <2> QED BY <1>6, <2>1, GotoType, WriteTurnKeyType
          DEF SetNextTurn, TypeOK, db, env, Points, ConnPoints
<1>7. CASE AnnounceTurn(t)
  BY <1>7, ReturnType DEF AnnounceTurn, Send, Events, TypeOK, db, redis, env
<1>8. CASE DropTurnKey(t)
  BY <1>8, DropTurnKeyType
<1>9. CASE AnnounceWin(t)
  BY <1>9, ReturnType DEF AnnounceWin, Send, Events, TypeOK, db, redis, env
<1> QED BY <1>1, <1>2, <1>3, <1>4, <1>5, <1>6, <1>7, <1>8, <1>9 DEF GuessStep

LEMMA TimeoutStepType ==
  ASSUME TypeOK, DuelInv, TimeoutStep
  PROVE  TypeOK'
<1> DEFINE p == mem[TurnWorker].actor
<1> USE ThreadsFacts
<1>1. CASE TimeoutLock
  <2>1. p \in Players
    BY <1>1 DEF TimeoutLock, DuelInv, HandlerHolds
  <2>2. CASE guessLock[p] = 0
    <3>1. PICK now \in mem[TurnWorker].stamp..clock :
               mem' = [mem EXCEPT ![TurnWorker].stamp = now]
      BY <1>1, <2>2 DEF TimeoutLock
    <3>2. now \in Nat
      BY <3>1 DEF TypeOK, Locals
    <3>3. mem' \in [Threads -> Locals]
      BY <3>1, <3>2 DEF TypeOK, Locals
    <3> QED BY <1>1, <2>1, <2>2, <3>3, GotoType, LapseAtType
        DEF TimeoutLock, TypeOK, db, env, Points, TimeoutPoints
  <2>3. CASE guessLock[p] # 0
    BY <1>1, <2>3, ReturnType DEF TimeoutLock, TypeOK, db, env
  <2> QED BY <2>2, <2>3
<1>2. ASSUME NEW from, NEW to \in Points, CheckTimeout(from, to)
      PROVE  TypeOK'
  <2>1. CASE TimeoutDue
    BY <1>2, <2>1, GotoType DEF CheckTimeout, TypeOK, db, redis, env
  <2>2. CASE ~TimeoutDue
    BY <1>2, <2>2, ReturnType DEF CheckTimeout, TypeOK, db, redis, env
  <2> QED BY <2>1, <2>2
<1>3. CASE GuessStep(TurnWorker)
  BY <1>3, GuessStepType
<1> QED BY <1>1, <1>2, <1>3 DEF TimeoutStep, Points, TimeoutPoints

LEMMA CancelStepType ==
  ASSUME TypeOK, NEW t \in Threads, CancelStep(t)
  PROVE  TypeOK'
<1>1. CASE CancelBySecretTimeout(t)
  <2> DEFINE due == game.status = "WAITING_SECRET" /\ SetupExpired(mem[t].stamp)
  <2>1. CASE due
    <3>1. CancelGame(game, mem[t].stamp) \in GameRows
      BY DEF CancelGame, TypeOK, GameRows, Status, Locals
    <3> QED BY <1>1, <2>1, <3>1, GotoType
            DEF CancelBySecretTimeout, TypeOK, redis, env, Points, MainPoints, CancelPoints
  <2>2. CASE ~due
    BY <1>1, <2>2, ReturnType DEF CancelBySecretTimeout, TypeOK, redis, env
  <2> QED BY <2>1, <2>2
<1>2. CASE DropTurnKey(t)
  BY <1>2, DropTurnKeyType
<1>3. CASE AnnounceCancel(t)
  BY <1>3, ReturnType DEF AnnounceCancel, Send, Events, TypeOK, db, redis, env
<1> QED BY <1>1, <1>2, <1>3 DEF CancelStep

LEMMA RecoverStepType ==
  ASSUME TypeOK, DuelInv, RecoverStep
  PROVE  TypeOK'
<1> USE ThreadsFacts
<1>1. CASE ListInProgress
  <2> DEFINE l == IF game.status = "IN_PROGRESS" THEN "recGet" ELSE "recWait"
  <2>1. l \in Points /\ Goto(Main, l)
    BY <1>1 DEF ListInProgress, Points, MainPoints
  <2>2. pc' \in [Threads -> Points]
    BY <2>1, GotoType
  <2>3. mem' \in [Threads -> Locals]
    BY <1>1, ReadTurnType DEF ListInProgress, TypeOK
  <2> QED BY <1>1, <2>2, <2>3 DEF ListInProgress, TypeOK, db, redis, env
<1>2. CASE RecoverGetTurn
  <2> DEFINE l == IF turnKey # NoKey /\ turnKey.expiresAt > mem[Main].stamp
                  THEN "recWait" ELSE "recSet"
  <2>1. l \in Points /\ Goto(Main, l)
    BY <1>2 DEF RecoverGetTurn, Points, MainPoints
  <2>2. pc' \in [Threads -> Points]
    BY <2>1, GotoType
  <2> QED BY <1>2, <2>2 DEF RecoverGetTurn, TypeOK, db, redis, env
<1>3. CASE RecoverSetTurn
  <2>1. mem[Main].mover \in Players
    BY <1>3, PublishedType DEF RecoverSetTurn, DuelInv, HandlerHolds, TurnInHand
  <2> QED BY <1>3, <2>1, GotoType, WriteTurnKeyType
          DEF RecoverSetTurn, TypeOK, db, env, Points, MainPoints
<1>4. CASE RecoverAnnounce
  BY <1>4, GotoType
  DEF RecoverAnnounce, Send, Events, TypeOK, db, redis, env, Points, MainPoints
<1>5. CASE RecoverWaiting
  <2> DEFINE due == game.status = "WAITING_SECRET" /\ SetupExpired(mem[Main].stamp)
  <2>1. CASE due
    <3>1. mem' \in [Threads -> Locals]
      BY <1>5, <2>1 DEF RecoverWaiting, TypeOK, Locals
    <3> QED BY <1>5, <2>1, <3>1, GotoType
            DEF RecoverWaiting, TypeOK, db, redis, env, Points, MainPoints, CancelPoints
  <2>2. CASE ~due
    BY <1>5, <2>2, ReturnType DEF RecoverWaiting, TypeOK, db, redis, env
  <2> QED BY <2>1, <2>2
<1>6. CASE CancelStep(Main)
  BY <1>6, CancelStepType
<1> QED BY <1>1, <1>2, <1>3, <1>4, <1>5, <1>6 DEF RecoverStep

LEMMA BeginType ==
  ASSUME TypeOK, DuelInv,
         \/ \E c \in Conns : AcquireSecretLock(c) \/ AcquireGuessLock(c)
         \/ ListExpiredTurns
         \/ ListWaitingGames
         \/ Restart
  PROVE  TypeOK'
<1> USE ThreadsFacts
<1>1. ASSUME NEW c \in Conns, AcquireSecretLock(c)
      PROVE  TypeOK'
  <2>1. secretLock' \in [Players -> Nat]
    BY <1>1, LapseAtType DEF AcquireSecretLock, TypeOK
  <2>2. pc' \in [Threads -> Points]
    BY <1>1 DEF AcquireSecretLock, Goto, TypeOK, Points, ConnPoints
  <2>3. mem' \in [Threads -> Locals]
    BY <1>1 DEF AcquireSecretLock, TypeOK, Locals
  <2> QED BY <1>1, <2>1, <2>2, <2>3 DEF AcquireSecretLock, TypeOK, db, env
<1>2. ASSUME NEW c \in Conns, AcquireGuessLock(c)
      PROVE  TypeOK'
  <2>1. guessLock' \in [Players -> Nat]
    BY <1>2, LapseAtType DEF AcquireGuessLock, TypeOK
  <2>2. pc' \in [Threads -> Points]
    BY <1>2 DEF AcquireGuessLock, Goto, TypeOK, Points, ConnPoints
  <2>3. mem' \in [Threads -> Locals]
    BY <1>2 DEF AcquireGuessLock, TypeOK, Locals
  <2> QED BY <1>2, <2>1, <2>2, <2>3 DEF AcquireGuessLock, TypeOK, db, env
<1>3. CASE ListExpiredTurns
  <2> DEFINE m == [mem[TurnWorker] EXCEPT !.actor = turnKey.player, !.stamp = clock]
  <2>1. turnKey \in TurnKeys
    BY <1>3 DEF ListExpiredTurns, TypeOK
  <2>2. m \in Locals
    BY <2>1 DEF TypeOK, TurnKeys, Locals
  <2>3. mem' \in [Threads -> Locals]
    BY <1>3, <2>2 DEF ListExpiredTurns, TypeOK
  <2> QED BY <1>3, <2>3, GotoType
          DEF ListExpiredTurns, TypeOK, db, redis, env, Points, TimeoutPoints
<1>4. CASE ListWaitingGames
  <2>1. mem' \in [Threads -> Locals]
    BY <1>4 DEF ListWaitingGames, TypeOK, Locals
  <2> QED BY <1>4, <2>1, GotoType
          DEF ListWaitingGames, TypeOK, db, redis, env, Points, MainPoints, CancelPoints
<1>5. CASE Restart
  BY <1>5, GotoType DEF Restart, TypeOK, db, redis, env, Points, MainPoints
<1> QED BY <1>1, <1>2, <1>3, <1>4, <1>5

LEMMA EnvironmentType ==
  ASSUME TypeOK,
         \/ \E t \in Threads : Fail(t)
         \/ Crash
         \/ \E p \in Players : DeletePlayer(p)
         \/ Tick
  PROVE  TypeOK'
<1>1. ASSUME NEW t \in Threads, Fail(t)
      PROVE  TypeOK'
  BY <1>1, ReturnType DEF Fail, TypeOK, db, redis
<1>2. CASE Crash
  <2>1. pc' \in [Threads -> Points] /\ mem' \in [Threads -> Locals]
    BY <1>2, NoLocalsType DEF Crash, Points, ConnPoints, MainPoints
  <2> QED BY <1>2, <2>1 DEF Crash, TypeOK, db, redis
<1>3. ASSUME NEW p \in Players, DeletePlayer(p)
      PROVE  TypeOK'
  BY <1>3 DEF DeletePlayer, TypeOK, db, redis
<1>4. CASE Tick
  <2>1. \A p \in Players : Unlapsed(guessLock[p]) \in Nat /\ Unlapsed(secretLock[p]) \in Nat
    BY DEF Unlapsed, TypeOK
  <2>2. guessLock' \in [Players -> Nat] /\ secretLock' \in [Players -> Nat]
    BY <1>4, <2>1 DEF Tick
  <2> QED BY <1>4, <2>2 DEF Tick, TypeOK, db
<1> QED BY <1>1, <1>2, <1>3, <1>4

LEMMA NextType ==
  ASSUME TypeOK, DuelInv, [Next]_vars
  PROVE  TypeOK'
<1>1. CASE Next
  BY <1>1, ThreadsFacts, SecretStepType, GuessStepType, TimeoutStepType,
     CancelStepType, RecoverStepType, BeginType, EnvironmentType
  DEF Next, ConnStep
<1>2. CASE UNCHANGED vars
  BY <1>2 DEF TypeOK, vars, db, redis, env
<1> QED BY <1>1, <1>2

-----------------------------------------------------------------------------
(* The rows: RowAgrees, GuessesAlternate and ResultRecorded *)

RowsInv == RowAgrees /\ GuessesAlternate /\ ResultRecorded

LEMMA InitRows == Init => RowsInv
<1> SUFFICES ASSUME Init PROVE RowsInv
  OBVIOUS
<1>1. RowAgrees
  BY PlayersAssumption DEF Init, RowAgrees, BothSecretsSet, CreatedAt, Players
<1>2. GuessesAlternate
  BY DEF Init, GuessesAlternate
<1>3. ResultRecorded
  BY DEF Init, ResultRecorded
<1> QED BY <1>1, <1>2, <1>3 DEF RowsInv

(* Only three transactions write the rows. *)
LEMMA RowWriters ==
  ASSUME [Next]_vars
  PROVE  \/ UNCHANGED db
         \/ \E t \in Conns : StoreSecret(t)
         \/ \E t \in Conns \cup {TurnWorker}, hit \in BOOLEAN : CommitGuess(t, hit)
         \/ \E t \in Threads : CancelBySecretTimeout(t)
<1>1. ASSUME NEW c \in Conns, SecretStep(c), ~StoreSecret(c)
      PROVE  UNCHANGED db
  BY <1>1 DEF SecretStep, CheckPlayer, RejectSecret, ReadStarted, SetFirstTurn, AnnounceStart
<1>2. ASSUME NEW t, GuessStep(t), \A hit \in BOOLEAN : ~CommitGuess(t, hit)
      PROVE  UNCHANGED db
  BY <1>2 DEF GuessStep, CheckPlayer, RejectGuess, ReadNextTurn, AnnounceResult,
     SetNextTurn, AnnounceTurn, DropTurnKey, AnnounceWin
<1>3. ASSUME TimeoutStep, \A hit \in BOOLEAN : ~CommitGuess(TurnWorker, hit)
      PROVE  UNCHANGED db
  BY <1>2, <1>3 DEF TimeoutStep, TimeoutLock, CheckTimeout
<1>4. ASSUME NEW t, CancelStep(t), ~CancelBySecretTimeout(t)
      PROVE  UNCHANGED db
  BY <1>4 DEF CancelStep, DropTurnKey, AnnounceCancel
<1>5. ASSUME RecoverStep, ~CancelBySecretTimeout(Main)
      PROVE  UNCHANGED db
  BY <1>4, <1>5 DEF RecoverStep, ListInProgress, RecoverGetTurn, RecoverSetTurn,
     RecoverAnnounce, RecoverWaiting
<1>6. ASSUME \/ \E c \in Conns : AcquireSecretLock(c) \/ AcquireGuessLock(c)
             \/ ListExpiredTurns \/ ListWaitingGames \/ Restart
             \/ \E t \in Threads : Fail(t)
             \/ Crash
             \/ \E q \in Players : DeletePlayer(q)
             \/ Tick
             \/ UNCHANGED vars
      PROVE  UNCHANGED db
  BY <1>6 DEF AcquireSecretLock, AcquireGuessLock, ListExpiredTurns,
     ListWaitingGames, Restart, Fail, Crash, DeletePlayer, Tick, vars
<1> QED BY <1>1, <1>2, <1>3, <1>4, <1>5, <1>6, ThreadsFacts DEF Next, ConnStep

LEMMA ClockGrows ==
  ASSUME TypeOK, [Next]_vars
  PROVE  clock' >= clock
<1>1. Tick => clock' >= clock
  BY DEF Tick, TypeOK
<1>2. ASSUME [Next]_vars, ~Tick
      PROVE  clock' = clock
  BY <1>2 DEF Next, ConnStep, SecretStep, GuessStep, TimeoutStep, CancelStep, RecoverStep,
     AcquireSecretLock, AcquireGuessLock, CheckPlayer, RejectSecret, StoreSecret,
     ReadStarted, SetFirstTurn, AnnounceStart, RejectGuess, CommitGuess, ReadNextTurn,
     AnnounceResult, SetNextTurn, AnnounceTurn, DropTurnKey, AnnounceWin,
     ListExpiredTurns, TimeoutLock, CheckTimeout, ListWaitingGames,
     CancelBySecretTimeout, AnnounceCancel, Restart, ListInProgress, RecoverGetTurn,
     RecoverSetTurn, RecoverAnnounce, RecoverWaiting, Fail, Crash, DeletePlayer, vars, env
<1> QED BY <1>1, <1>2 DEF TypeOK

(* The alternation: after the guess of turn k it is the other's turn.      *)
LEMMA MoverAlternates ==
  ASSUME NEW k \in Nat
  PROVE  Other(Mover(k)) = Mover(k + 1)
<1>1. k % 2 = 1 => (k + 1) % 2 # 1
  OBVIOUS
<1>2. k % 2 # 1 => (k + 1) % 2 = 1
  OBVIOUS
<1> QED BY <1>1, <1>2, PlayersAssumption DEF Mover, Other

LEMMA StoreSecretRows ==
  ASSUME TypeOK, DuelInv, NEW t \in Conns, StoreSecret(t)
  PROVE  RowsInv'
<1> DEFINE p == mem[t].actor
           g == SetSecret(game, p)
<1> USE ThreadsFacts
<1>1. p \in Players /\ p \in {P1, P2}
  BY DEF DuelInv, HandlerHolds, StoreSecret, Players
<1>2. /\ game \in GameRows /\ clock \in Nat /\ clock > 0
      /\ game.status = "WAITING_SECRET"
      /\ UNCHANGED <<guesses, history, winCount, clock>>
  BY DEF StoreSecret, TypeOK, DuelInv, RowAgrees, env
<1>3. /\ game.startedAt = 0 /\ game.turn = 1
      /\ game.mover = NoPlayer /\ game.winner = NoPlayer
  BY <1>2 DEF DuelInv, RowAgrees, GameRows
<1>4. guesses = {}
  BY <1>3 DEF DuelInv, GuessesAlternate, TypeOK, GuessRows
<1>5. /\ g.status = "WAITING_SECRET" /\ g.turn = 1 /\ g.startedAt = 0
      /\ g.mover = NoPlayer /\ g.winner = NoPlayer
  BY <1>2, <1>3 DEF SetSecret, GameRows
<1>6. CASE BothSecretsSet(g)
  <2>1. game' = StartGame(g)
    BY <1>6 DEF StoreSecret
  <2>2. /\ game'.status = "IN_PROGRESS" /\ game'.turn = 1 /\ game'.mover = P1
        /\ game'.startedAt = clock /\ game'.winner = NoPlayer
        /\ game'.secret = g.secret
    <3>1. g \in GameRows
      BY <1>1, <1>2, GameRowTypes
    <3> HIDE DEF g
    <3> QED BY <1>5, <2>1, <3>1 DEF StartGame, GameRows
  <2>3. RowAgrees'
    <3>1. Mover(1) = P1
      BY DEF Mover
    <3>2. BothSecretsSet(game')
      BY <1>6, <2>2 DEF BothSecretsSet
    <3> QED BY <1>2, <2>2, <3>1, <3>2 DEF RowAgrees
  <2>4. GuessesAlternate'
    BY <1>2, <1>4, <2>2 DEF GuessesAlternate
  <2>5. ResultRecorded'
    BY <1>2, <1>3, <1>4, <2>2 DEF ResultRecorded, DuelInv
  <2> QED BY <2>3, <2>4, <2>5 DEF RowsInv
<1>7. CASE ~BothSecretsSet(g)
  <2>1. game' = g
    BY <1>7 DEF StoreSecret
  <2>2. RowAgrees'
    BY <1>2, <1>5, <1>7, <2>1 DEF RowAgrees
  <2>3. GuessesAlternate'
    BY <1>2, <1>4, <1>5, <2>1 DEF GuessesAlternate
  <2>4. ResultRecorded'
    BY <1>2, <1>3, <1>4, <1>5, <2>1 DEF ResultRecorded, DuelInv
  <2> QED BY <2>2, <2>3, <2>4 DEF RowsInv
<1> QED BY <1>6, <1>7

LEMMA CancelRows ==
  ASSUME TypeOK, DuelInv, NEW t \in Threads, CancelBySecretTimeout(t)
  PROVE  RowsInv'
<1> DEFINE due == game.status = "WAITING_SECRET" /\ SetupExpired(mem[t].stamp)
<1>1. /\ game \in GameRows /\ clock \in Nat /\ clock > 0
      /\ UNCHANGED <<guesses, history, winCount, clock>>
  BY DEF CancelBySecretTimeout, TypeOK, DuelInv, RowAgrees, env
<1>2. CASE due
  <2>1. /\ game.startedAt = 0 /\ game.turn = 1
        /\ game.mover = NoPlayer /\ game.winner = NoPlayer
        /\ ~BothSecretsSet(game)
    BY <1>1, <1>2 DEF DuelInv, RowAgrees, GameRows
  <2>2. game' = CancelGame(game, mem[t].stamp)
    BY <1>2 DEF CancelBySecretTimeout
  <2>3. /\ game'.status = "FINISHED" /\ game'.turn = 1 /\ game'.startedAt = 0
        /\ game'.mover = NoPlayer /\ game'.winner = NoPlayer
        /\ game'.secret = game.secret
    BY <1>1, <2>1, <2>2 DEF CancelGame, GameRows
  <2>4. RowAgrees'
    BY <1>1, <2>1, <2>3 DEF RowAgrees, BothSecretsSet
  <2>5. GuessesAlternate'
    BY <1>1, <2>1, <2>3 DEF GuessesAlternate, DuelInv
  <2>6. ResultRecorded'
    BY <1>1, <2>1, <2>3 DEF ResultRecorded, DuelInv
  <2> QED BY <2>4, <2>5, <2>6 DEF RowsInv
<1>3. CASE ~due
  <2>1. UNCHANGED game
    BY <1>3 DEF CancelBySecretTimeout
  <2> QED BY <1>1, <2>1 DEF RowsInv, DuelInv, RowAgrees, GuessesAlternate,
          ResultRecorded, BothSecretsSet
<1> QED BY <1>2, <1>3

LEMMA CommitGuessRows ==
  ASSUME TypeOK, DuelInv, NEW t \in Conns \cup {TurnWorker}, NEW hit \in BOOLEAN,
         CommitGuess(t, hit)
  PROVE  RowsInv'
<1> DEFINE p == mem[t].actor
           k == game.turn
           row == GuessRow(t, hit)
           g == AdvanceTurn(game, p)
<1> USE ThreadsFacts
<1>1. p \in Players /\ Other(p) \in Players
  BY OtherType DEF DuelInv, HandlerHolds, CommitGuess
<1>2. /\ game \in GameRows /\ clock \in Nat /\ clock > 0 /\ UNCHANGED clock
      /\ game.status = "IN_PROGRESS" /\ game.mover = p /\ k \in Nat /\ k >= 1
  BY DEF CommitGuess, CanGuess, TypeOK, DuelInv, RowAgrees, env, GameRows
<1>3. /\ game.startedAt > 0 /\ BothSecretsSet(game)
      /\ p = Mover(k) /\ game.winner = NoPlayer
  BY <1>2 DEF DuelInv, RowAgrees, GameRows
<1>4. Mover(k + 1) = Other(p)
  BY <1>2, <1>3, MoverAlternates
<1>5. /\ guesses' = guesses \cup {row}
      /\ row.turn = k /\ row.player = p /\ row.hit = hit
  BY DEF CommitGuess, GuessRow
<1>6. /\ g \in GameRows
      /\ g.status = "IN_PROGRESS" /\ g.turn = k + 1 /\ g.mover = Other(p)
      /\ g.winner = NoPlayer /\ g.startedAt = game.startedAt
      /\ g.secret = game.secret
  <2>1. g \in GameRows
    BY <1>1, <1>2, GameRowTypes
  <2> QED BY <1>2, <1>3, <2>1 DEF AdvanceTurn, GameRows
<1> HIDE DEF g
<1>7. /\ game'.turn = k + 1 /\ game'.mover = Other(p)
      /\ game'.startedAt = game.startedAt /\ game'.secret = game.secret
      /\ game'.status = (IF hit THEN "FINISHED" ELSE "IN_PROGRESS")
      /\ game'.winner = (IF hit THEN p ELSE NoPlayer)
  <2>1. CASE hit
    <3>1. game' = FinishGame(g, p)
      BY <2>1 DEF CommitGuess, g
    <3> QED BY <1>6, <2>1, <3>1 DEF FinishGame, GameRows
  <2>2. CASE ~hit
    BY <1>6, <2>2 DEF CommitGuess, g
  <2> QED BY <2>1, <2>2
<1>8. p # NoPlayer
  BY <1>1, PlayersAssumption
<1>9. RowAgrees'
  BY <1>2, <1>3, <1>4, <1>7, <1>8 DEF RowAgrees, BothSecretsSet, GameRows
<1>10. GuessesAlternate'
  <2>1. \A h \in guesses : h.turn \in 1..(k - 1) /\ h.player = Mover(h.turn)
    BY DEF DuelInv, GuessesAlternate
  <2>2. \A h \in guesses' : h.turn \in 1..(game'.turn - 1) /\ h.player = Mover(h.turn)
    BY <1>2, <1>3, <1>5, <1>7, <2>1
  <2>3. \A n \in 1..(game'.turn - 1) : \E h \in guesses' : h.turn = n
    <3> SUFFICES ASSUME NEW n \in 1..k PROVE \E h \in guesses' : h.turn = n
      BY <1>2, <1>7
    <3>1. CASE n = k
      BY <1>5, <3>1
    <3>2. CASE n # k
      BY <1>2, <1>5, <3>2 DEF DuelInv, GuessesAlternate
    <3> QED BY <3>1, <3>2
  <2>4. \A h, i \in guesses' : h.turn = i.turn => h = i
    BY <1>2, <1>5, <2>1 DEF DuelInv, GuessesAlternate
  <2> QED BY <2>2, <2>3, <2>4 DEF GuessesAlternate
<1>11. ResultRecorded'
  <2>1. /\ history = {} /\ \A q \in Players : winCount[q] = 0
        /\ \A h \in guesses : ~h.hit
    BY <1>3 DEF DuelInv, ResultRecorded
  <2>2. \A h \in guesses' : h.hit => h = row /\ hit
    BY <1>5, <2>1
  <2>3. \A h \in guesses' : h.hit => h.turn = game'.turn - 1
    BY <1>2, <1>5, <1>7, <2>2
  <2>4. CASE hit
    <3>1. history' = {[winner |-> p, loser |-> Other(p)]}
      BY <2>1, <2>4 DEF CommitGuess
    <3>2. \A q \in Players : winCount'[q] = (IF q = p THEN 1 ELSE 0)
      BY <1>1, <2>1, <2>4 DEF CommitGuess, TypeOK
    <3>3. row \in guesses' /\ row.hit /\ row.player = p
      BY <1>5, <2>4
    <3> QED BY <1>7, <1>8, <2>3, <2>4, <3>1, <3>2, <3>3 DEF ResultRecorded
  <2>5. CASE ~hit
    BY <1>7, <2>1, <2>2, <2>3, <2>5 DEF CommitGuess, ResultRecorded
  <2> QED BY <2>4, <2>5
<1> QED BY <1>9, <1>10, <1>11 DEF RowsInv

LEMMA NextRows ==
  ASSUME TypeOK, DuelInv, [Next]_vars
  PROVE  RowsInv'
<1>1. CASE UNCHANGED db
  <2>1. clock' > 0
    BY ClockGrows, NextType DEF DuelInv, RowAgrees, TypeOK
  <2> QED BY <1>1, <2>1 DEF RowsInv, DuelInv, RowAgrees, GuessesAlternate,
          ResultRecorded, BothSecretsSet, db
<1> QED BY <1>1, RowWriters, StoreSecretRows, CommitGuessRows, CancelRows

-----------------------------------------------------------------------------
(* The handlers and the timer: HandlerHolds and TimerNotAhead *)

(* A turn once published stays published: turns are only added. *)
LEMMA GameGrows ==
  ASSUME TypeOK, DuelInv, [Next]_vars
  PROVE  /\ game'.turn >= game.turn
         /\ game.startedAt > 0 => game'.startedAt > 0
<1> USE ThreadsFacts
<1>1. game \in GameRows /\ clock \in Nat
  BY DEF TypeOK
<1>2. CASE UNCHANGED db
  BY <1>1, <1>2 DEF db, GameRows
<1>3. ASSUME NEW t \in Conns, StoreSecret(t)
      PROVE  /\ game'.turn >= game.turn
             /\ game.startedAt > 0 => game'.startedAt > 0
  <2>1. game.startedAt = 0 /\ game.turn = 1
    BY <1>1, <1>3 DEF StoreSecret, DuelInv, RowAgrees, GameRows
  <2>2. game' \in GameRows /\ game'.turn >= 1
    BY <1>3, NextRows, NextType DEF RowsInv, RowAgrees, TypeOK
  <2> QED BY <2>1, <2>2 DEF GameRows
<1>4. ASSUME NEW t \in Conns \cup {TurnWorker}, NEW hit \in BOOLEAN, CommitGuess(t, hit)
      PROVE  /\ game'.turn >= game.turn
             /\ game.startedAt > 0 => game'.startedAt > 0
  <2> DEFINE g == AdvanceTurn(game, mem[t].actor)
  <2>1. mem[t].actor \in Players
    BY <1>4 DEF DuelInv, HandlerHolds, CommitGuess
  <2>2. g \in GameRows /\ g.turn = game.turn + 1 /\ g.startedAt = game.startedAt
    <3>1. g \in GameRows
      BY <1>1, <2>1, GameRowTypes
    <3> QED BY <1>1, <3>1 DEF AdvanceTurn, GameRows
  <2>3. game' = g \/ game' = FinishGame(g, mem[t].actor)
    BY <1>4 DEF CommitGuess
  <2> HIDE DEF g
  <2>4. game'.turn = g.turn /\ game'.startedAt = g.startedAt
    BY <2>2, <2>3 DEF FinishGame, GameRows
  <2> QED BY <1>1, <2>2, <2>4 DEF GameRows
<1>5. ASSUME NEW t \in Threads, CancelBySecretTimeout(t)
      PROVE  /\ game'.turn >= game.turn
             /\ game.startedAt > 0 => game'.startedAt > 0
  <2> DEFINE g == CancelGame(game, mem[t].stamp)
  <2>1. game' = g \/ game' = game
    BY <1>5 DEF CancelBySecretTimeout
  <2>2. g.turn = game.turn /\ g.startedAt = game.startedAt
    BY <1>1 DEF CancelGame, GameRows
  <2> QED BY <1>1, <2>1, <2>2 DEF GameRows
<1> QED BY <1>2, <1>3, <1>4, <1>5, RowWriters

LEMMA PublishedStays ==
  ASSUME TypeOK, DuelInv, [Next]_vars, NEW m, m.turn \in Nat, Published(m)
  PROVE  Published(m)'
BY GameGrows, NextType DEF Published, TypeOK, GameRows

(* What the games row offers to a reader once the game has started. *)
LEMMA ReadIsPublished ==
  ASSUME TypeOK, DuelInv, NEW m \in Locals, game.startedAt > 0
  PROVE  /\ Published(ReadTurn(m))
         /\ Published([ReadTurn(m) EXCEPT !.stamp = clock])
<1>1. /\ game \in GameRows /\ game.turn \in 1..game.turn
      /\ game.mover = Mover(game.turn)
  BY DEF TypeOK, DuelInv, RowAgrees, GameRows
<1>2. /\ ReadTurn(m) \in Locals
      /\ ReadTurn(m).turn = game.turn /\ ReadTurn(m).mover = game.mover
      /\ ReadTurn(m).actor = m.actor
  BY ReadTurnType DEF ReadTurn, Locals
<1> DEFINE r == ReadTurn(m)
<1> HIDE DEF r
<1>3. /\ [r EXCEPT !.stamp = clock].turn = game.turn
      /\ [r EXCEPT !.stamp = clock].mover = game.mover
  BY <1>2 DEF r, Locals
<1> QED BY <1>1, <1>2, <1>3 DEF Published, r

LEMMA ReadKeepsActor ==
  ASSUME TypeOK, NEW m \in Locals
  PROVE  /\ ReadTurn(m).actor = m.actor
         /\ [ReadTurn(m) EXCEPT !.stamp = clock].actor = m.actor
<1>1. ReadTurn(m) \in Locals /\ ReadTurn(m).actor = m.actor
  BY ReadTurnType DEF ReadTurn, Locals
<1> DEFINE r == ReadTurn(m)
<1> HIDE DEF r
<1>2. r \in Locals /\ r.actor = m.actor => [r EXCEPT !.stamp = clock].actor = m.actor
  BY DEF Locals
<1> QED BY <1>1, <1>2 DEF r

LEMMA WrittenKeyNotAhead ==
  ASSUME TypeOK, DuelInv, NEW t \in Threads, Published(mem[t]), WriteTurnKey(t),
         UNCHANGED game
  PROVE  TimerNotAhead'
BY DEF WriteTurnKey, Published, TimerNotAhead, TypeOK, Locals, GameRows

LEMMA NextTimer ==
  ASSUME TypeOK, DuelInv, [Next]_vars
  PROVE  TimerNotAhead'
<1> USE ThreadsFacts
<1>1. CASE UNCHANGED turnKey \/ turnKey' = NoKey
  <2>1. CASE turnKey' = NoKey
    BY <2>1 DEF TimerNotAhead
  <2>2. CASE turnKey' # NoKey
    <3>1. /\ turnKey' = turnKey /\ turnKey \in TurnKeys
          /\ game.startedAt > 0 /\ turnKey.turn \in 1..game.turn
          /\ turnKey.player = Mover(turnKey.turn)
      BY <1>1, <2>2 DEF TypeOK, DuelInv, TimerNotAhead
    <3>2. game'.turn \in Nat /\ game.turn \in Nat
      BY NextType DEF TypeOK, GameRows
    <3> QED BY <3>1, <3>2, GameGrows DEF TimerNotAhead
  <2> QED BY <2>1, <2>2
<1>2. ASSUME NEW t \in Conns \cup {TurnWorker}, SetFirstTurn(t) \/ SetNextTurn(t)
      PROVE  TimerNotAhead'
  BY <1>2, WrittenKeyNotAhead
  DEF SetFirstTurn, SetNextTurn, DuelInv, HandlerHolds, TurnInHand, db
<1>3. CASE RecoverSetTurn
  BY <1>3, WrittenKeyNotAhead DEF RecoverSetTurn, DuelInv, HandlerHolds, TurnInHand, db
<1>4. ASSUME ~(\E t \in Conns \cup {TurnWorker} : SetFirstTurn(t) \/ SetNextTurn(t)),
             ~RecoverSetTurn
      PROVE  UNCHANGED turnKey \/ turnKey' = NoKey
  BY <1>4 DEF Next, ConnStep, SecretStep, GuessStep, TimeoutStep, CancelStep, RecoverStep,
     AcquireSecretLock, AcquireGuessLock, CheckPlayer, RejectSecret, StoreSecret,
     ReadStarted, AnnounceStart, RejectGuess, CommitGuess, ReadNextTurn,
     AnnounceResult, AnnounceTurn, DropTurnKey, AnnounceWin,
     ListExpiredTurns, TimeoutLock, CheckTimeout, ListWaitingGames,
     CancelBySecretTimeout, AnnounceCancel, Restart, ListInProgress, RecoverGetTurn,
     RecoverAnnounce, RecoverWaiting, Fail, Crash, DeletePlayer, Tick, vars, redis
<1> QED BY <1>1, <1>2, <1>3, <1>4

(* A thread that does not move keeps what it holds. *)
LEMMA HandlerWaits ==
  ASSUME TypeOK, DuelInv, [Next]_vars, NEW t \in Threads,
         pc'[t] = pc[t], mem'[t] = mem[t]
  PROVE  HandlerHolds(t)'
<1>1. HandlerHolds(t) /\ mem[t].turn \in Nat /\ game \in GameRows
  BY DEF DuelInv, TypeOK, Locals
<1>2. game.startedAt > 0 => game'.startedAt > 0
  BY GameGrows
<1>3. pc[t] \in TurnInHand => Published(mem[t])
  BY <1>1 DEF HandlerHolds, TurnInHand
<1>4. pc[t] \in TurnInHand => Published(mem[t])'
  <2>1. game.turn \in Nat /\ game'.turn \in Nat /\ game'.turn >= game.turn
    BY <1>1, GameGrows, NextType DEF TypeOK, GameRows
  <2> SUFFICES ASSUME pc[t] \in TurnInHand PROVE Published(mem[t])'
    OBVIOUS
  <2>2. game.startedAt > 0 /\ mem[t].turn \in 1..game.turn
        /\ mem[t].mover = Mover(mem[t].turn)
    BY <1>3 DEF Published
  <2>3. mem[t].turn \in 1..game'.turn
    BY <1>1, <2>1, <2>2
  <2> QED BY <1>2, <2>2, <2>3 DEF Published
<1> QED BY <1>1, <1>2, <1>4 DEF HandlerHolds, TurnInHand

(* A thread that has nothing under way holds nothing. *)
LEMMA HandlerRests ==
  ASSUME NEW t \in Threads,
         pc'[t] = Home(t) \/ (t = Main /\ pc'[t] = "down")
  PROVE  HandlerHolds(t)'
BY ThreadsAssumption DEF HandlerHolds, Home, TurnInHand

(* A handler that goes on acts for the same player. *)
LEMMA HandlerGoesOn ==
  ASSUME TypeOK, DuelInv, NEW t \in Threads,
         pc[t] # "idle", mem'[t].actor = mem[t].actor,
         pc'[t] \in {"startRead", "guessRead"} => game'.startedAt > 0,
         pc'[t] \in TurnInHand => Published(mem[t])'
  PROVE  HandlerHolds(t)'
BY DEF HandlerHolds, TurnInHand, DuelInv

(* The step of one thread moves no other. *)
LEMMA OneThreadMoves ==
  ASSUME TypeOK, DuelInv, [Next]_vars, NEW t \in Threads,
         \A u \in Threads \ {t} : pc'[u] = pc[u] /\ mem'[u] = mem[u],
         HandlerHolds(t)'
  PROVE  \A u \in Threads : HandlerHolds(u)'
<1> SUFFICES ASSUME NEW u \in Threads, u # t
             PROVE  HandlerHolds(u)'
  OBVIOUS
<1> QED BY HandlerWaits

(* What a step under way needs to keep HandlerHolds of every thread. *)
LEMMA SecretHandlers ==
  ASSUME TypeOK, DuelInv, [Next]_vars, NEW t \in Conns, SecretStep(t)
  PROVE  \A u \in Threads : HandlerHolds(u)'
<1> USE ThreadsFacts
<1>1. \A u \in Threads \ {t} : pc'[u] = pc[u] /\ mem'[u] = mem[u]
  BY DEF SecretStep, CheckPlayer, RejectSecret, StoreSecret, ReadStarted,
     SetFirstTurn, AnnounceStart, Return, Goto, TypeOK
<1>2. t \in DOMAIN pc /\ t \in DOMAIN mem /\ mem[t] \in Locals
  BY DEF TypeOK
<1>3. CASE CheckPlayer(t, "secretUser", "secretTx")
  <2>1. \/ pc'[t] = Home(t)
        \/ pc[t] # "idle" /\ pc'[t] = "secretTx" /\ mem'[t] = mem[t]
    BY <1>2, <1>3 DEF CheckPlayer, Return, Goto
  <2> QED BY <1>1, <2>1, HandlerRests, HandlerGoesOn, OneThreadMoves DEF TurnInHand
<1>4. CASE RejectSecret(t) \/ AnnounceStart(t)
  <2>1. pc'[t] = Home(t)
    BY <1>2, <1>4 DEF RejectSecret, AnnounceStart, Return, Goto
  <2> QED BY <1>1, <2>1, HandlerRests, OneThreadMoves
<1>5. CASE StoreSecret(t)
  <2>1. \/ pc'[t] = Home(t)
        \/ /\ pc[t] # "idle" /\ pc'[t] = "startRead" /\ mem'[t] = mem[t]
           /\ BothSecretsSet(SetSecret(game, mem[t].actor))
           /\ game' = StartGame(SetSecret(game, mem[t].actor))
    BY <1>2, <1>5 DEF StoreSecret, Return, Goto
  <2>2. CASE pc'[t] = Home(t)
    BY <1>1, <2>2, HandlerRests, OneThreadMoves
  <2>3. CASE pc'[t] # Home(t)
    <3>1. BothSecretsSet(game')
      BY <2>1, <2>3 DEF BothSecretsSet, StartGame, SetSecret, TypeOK, GameRows
    <3>2. game'.startedAt > 0
      BY <3>1, NextRows DEF RowsInv, RowAgrees, BothSecretsSet
    <3> QED BY <1>1, <2>1, <2>3, <3>2, HandlerGoesOn, OneThreadMoves DEF TurnInHand
  <2> QED BY <2>2, <2>3
<1>6. CASE ReadStarted(t)
  <2>1. /\ pc[t] = "startRead" /\ pc'[t] = "startSet" /\ UNCHANGED game
        /\ mem'[t] = [ReadTurn(mem[t]) EXCEPT !.stamp = clock]
    BY <1>2, <1>6 DEF ReadStarted, Goto, db
  <2>2. game.startedAt > 0 /\ mem[t].actor \in Players
    BY <2>1 DEF DuelInv, HandlerHolds
  <2>3. Published(mem[t])' /\ mem'[t].actor = mem[t].actor
    BY <1>2, <2>1, <2>2, ReadIsPublished, ReadKeepsActor DEF Published
  <2> QED BY <1>1, <2>1, <2>3, HandlerGoesOn, OneThreadMoves
<1>7. CASE SetFirstTurn(t)
  <2>1. pc[t] = "startSet" /\ pc'[t] = "startMsg" /\ mem'[t] = mem[t]
    BY <1>2, <1>7 DEF SetFirstTurn, Goto
  <2> QED BY <1>1, <2>1, HandlerGoesOn, OneThreadMoves DEF TurnInHand
<1> QED BY <1>3, <1>4, <1>5, <1>6, <1>7 DEF SecretStep

LEMMA GuessHandlers ==
  ASSUME TypeOK, DuelInv, [Next]_vars, NEW t \in Conns \cup {TurnWorker}, GuessStep(t)
  PROVE  \A u \in Threads : HandlerHolds(u)'
<1> USE ThreadsFacts
<1>1. \A u \in Threads \ {t} : pc'[u] = pc[u] /\ mem'[u] = mem[u]
  BY DEF GuessStep, CheckPlayer, RejectGuess, CommitGuess, ReadNextTurn, AnnounceResult,
     SetNextTurn, AnnounceTurn, DropTurnKey, AnnounceWin, Return, Goto, TypeOK
<1>2. t \in Threads /\ t \in DOMAIN pc /\ t \in DOMAIN mem /\ mem[t] \in Locals
  BY DEF TypeOK
<1>3. CASE CheckPlayer(t, "guessUser", "guessTx")
  <2>1. \/ pc'[t] = Home(t)
        \/ pc[t] # "idle" /\ pc'[t] = "guessTx" /\ mem'[t] = mem[t]
    BY <1>2, <1>3 DEF CheckPlayer, Return, Goto
  <2> QED BY <1>1, <1>2, <2>1, HandlerRests, HandlerGoesOn, OneThreadMoves DEF TurnInHand
<1>4. CASE RejectGuess(t) \/ AnnounceTurn(t) \/ AnnounceWin(t)
  <2>1. pc'[t] = Home(t)
    BY <1>2, <1>4 DEF RejectGuess, AnnounceTurn, AnnounceWin, Return, Goto
  <2> QED BY <1>1, <1>2, <2>1, HandlerRests, OneThreadMoves
<1>5. ASSUME NEW hit \in BOOLEAN, CommitGuess(t, hit)
      PROVE  \A u \in Threads : HandlerHolds(u)'
  <2>1. /\ pc[t] = "guessTx" /\ pc'[t] = "guessRead"
        /\ mem'[t] = [mem[t] EXCEPT !.won = hit]
    BY <1>2, <1>5 DEF CommitGuess, Goto
  <2>2. game.status = "IN_PROGRESS"
    BY <1>5 DEF CommitGuess, CanGuess
  <2>3. game.startedAt > 0
    BY <2>2 DEF DuelInv, RowAgrees, TypeOK, GameRows
  <2>4. game'.startedAt > 0 /\ mem'[t].actor = mem[t].actor
    BY <1>2, <2>1, <2>3, GameGrows DEF Locals
  <2> QED BY <1>1, <1>2, <2>1, <2>4, HandlerGoesOn, OneThreadMoves DEF TurnInHand
<1>6. CASE ReadNextTurn(t)
  <2>1. /\ pc[t] = "guessRead" /\ pc'[t] = "guessMsg" /\ UNCHANGED game
        /\ mem'[t] = ReadTurn(mem[t])
    BY <1>2, <1>6 DEF ReadNextTurn, Goto, db
  <2>2. game.startedAt > 0
    BY <1>2, <2>1 DEF DuelInv, HandlerHolds
  <2>3. Published(mem[t])' /\ mem'[t].actor = mem[t].actor
    BY <1>2, <2>1, <2>2, ReadIsPublished, ReadKeepsActor DEF Published
  <2> QED BY <1>1, <1>2, <2>1, <2>3, HandlerGoesOn, OneThreadMoves
<1>7. CASE AnnounceResult(t)
  <2>1. /\ pc[t] = "guessMsg" /\ pc'[t] \in {"overDel", "nextSet"} /\ UNCHANGED game
        /\ mem'[t] = [mem[t] EXCEPT !.stamp = clock]
    BY <1>2, <1>7 DEF AnnounceResult, Goto, db
  <2>2. Published(mem[t])
    BY <1>2, <2>1 DEF DuelInv, HandlerHolds, TurnInHand
  <2>3. /\ mem'[t].turn = mem[t].turn /\ mem'[t].mover = mem[t].mover
        /\ mem'[t].actor = mem[t].actor
    BY <1>2, <2>1 DEF Locals
  <2>4. Published(mem[t])'
    BY <2>1, <2>2, <2>3 DEF Published
  <2> QED BY <1>1, <1>2, <2>1, <2>3, <2>4, HandlerGoesOn, OneThreadMoves
<1>8. CASE SetNextTurn(t) \/ DropTurnKey(t)
  <2>1. /\ pc[t] # "idle" /\ pc'[t] \in {"nextMsg", "overMsg", "cancelMsg"}
        /\ mem'[t] = mem[t]
    BY <1>2, <1>8 DEF SetNextTurn, DropTurnKey, Goto
  <2> QED BY <1>1, <1>2, <2>1, HandlerGoesOn, OneThreadMoves DEF TurnInHand
<1> QED BY <1>3, <1>4, <1>5, <1>6, <1>7, <1>8 DEF GuessStep

LEMMA TimeoutHandlers ==
  ASSUME TypeOK, DuelInv, [Next]_vars, TimeoutStep
  PROVE  \A u \in Threads : HandlerHolds(u)'
<1> USE ThreadsFacts
<1>1. CASE GuessStep(TurnWorker)
  BY <1>1, GuessHandlers
<1>2. ASSUME TimeoutLock \/ CheckTimeout("timeoutCheck", "timeoutRecheck")
             \/ CheckTimeout("timeoutRecheck", "guessUser")
      PROVE  \A u \in Threads : HandlerHolds(u)'
  <2>1. \A u \in Threads \ {TurnWorker} : pc'[u] = pc[u] /\ mem'[u] = mem[u]
    BY <1>2 DEF TimeoutLock, CheckTimeout, Return, Goto, TypeOK
  <2>2. /\ TurnWorker \in DOMAIN pc /\ TurnWorker \in DOMAIN mem
        /\ mem[TurnWorker] \in Locals
    BY DEF TypeOK
  <2>3. \/ pc'[TurnWorker] = Home(TurnWorker)
        \/ /\ pc[TurnWorker] # "idle"
           /\ \E now : mem'[TurnWorker] = [mem[TurnWorker] EXCEPT !.stamp = now]
           /\ pc'[TurnWorker] = "timeoutCheck"
        \/ /\ pc[TurnWorker] # "idle" /\ mem'[TurnWorker] = mem[TurnWorker]
           /\ pc'[TurnWorker] \in {"timeoutRecheck", "guessUser"}
    BY <1>2, <2>2 DEF TimeoutLock, CheckTimeout, Return, Goto
  <2>4. pc'[TurnWorker] # Home(TurnWorker) => mem'[TurnWorker].actor = mem[TurnWorker].actor
    BY <2>2, <2>3 DEF Locals
  <2> QED BY <2>1, <2>3, <2>4, HandlerRests, HandlerGoesOn, OneThreadMoves DEF TurnInHand
<1> QED BY <1>1, <1>2 DEF TimeoutStep

LEMMA CancelHandlers ==
  ASSUME TypeOK, DuelInv, [Next]_vars, NEW t \in {SecretWorker, Main}, CancelStep(t)
  PROVE  \A u \in Threads : HandlerHolds(u)'
<1> USE ThreadsFacts
<1>1. \A u \in Threads \ {t} : pc'[u] = pc[u] /\ mem'[u] = mem[u]
  BY DEF CancelStep, CancelBySecretTimeout, DropTurnKey, AnnounceCancel, Return, Goto,
     TypeOK
<1>2. t \in Threads /\ t \in DOMAIN pc /\ t \in DOMAIN mem
  BY DEF TypeOK
<1>3. \/ pc'[t] = Home(t)
      \/ /\ pc[t] # "idle" /\ mem'[t] = mem[t]
         /\ pc'[t] \in {"cancelDel", "cancelMsg", "overMsg"}
  BY <1>2 DEF CancelStep, CancelBySecretTimeout, DropTurnKey, AnnounceCancel, Return, Goto
<1> QED BY <1>1, <1>2, <1>3, HandlerRests, HandlerGoesOn, OneThreadMoves DEF TurnInHand

LEMMA RecoverHandlers ==
  ASSUME TypeOK, DuelInv, [Next]_vars, RecoverStep
  PROVE  \A u \in Threads : HandlerHolds(u)'
<1> USE ThreadsFacts
<1>1. CASE CancelStep(Main)
  BY <1>1, CancelHandlers
<1>2. ASSUME \/ ListInProgress \/ RecoverGetTurn \/ RecoverSetTurn
             \/ RecoverAnnounce \/ RecoverWaiting
      PROVE  \A u \in Threads \ {Main} : pc'[u] = pc[u] /\ mem'[u] = mem[u]
  BY <1>2 DEF ListInProgress, RecoverGetTurn, RecoverSetTurn,
     RecoverAnnounce, RecoverWaiting, Return, Goto, TypeOK
<1>3. Main \in DOMAIN pc /\ Main \in DOMAIN mem /\ mem[Main] \in Locals
  BY DEF TypeOK
<1>4. Main \notin Conns \cup {TurnWorker}
  BY ThreadsAssumption
<1>5. CASE ListInProgress
  <2>1. /\ mem'[Main] = [ReadTurn(mem[Main]) EXCEPT !.stamp = clock] /\ UNCHANGED game
        /\ pc'[Main] = IF game.status = "IN_PROGRESS" THEN "recGet" ELSE "recWait"
    BY <1>3, <1>5 DEF ListInProgress, Goto, db
  <2>2. game.status = "IN_PROGRESS" => Published(mem[Main])'
    <3>1. game.status = "IN_PROGRESS" => game.startedAt > 0
      BY DEF DuelInv, RowAgrees, TypeOK, GameRows
    <3> QED BY <1>3, <2>1, <3>1, ReadIsPublished DEF Published
  <2>3. HandlerHolds(Main)'
    BY <1>4, <2>1, <2>2 DEF HandlerHolds, TurnInHand
  <2> QED BY <1>2, <1>5, <2>3, OneThreadMoves
<1>6. CASE RecoverGetTurn
  <2>1. pc[Main] = "recGet" /\ mem' = mem /\ UNCHANGED game /\ pc'[Main] \in {"recWait", "recSet"}
    BY <1>3, <1>6 DEF RecoverGetTurn, Goto, db
  <2>2. Published(mem[Main])'
    BY <2>1 DEF DuelInv, HandlerHolds, TurnInHand, Published
  <2>3. HandlerHolds(Main)'
    BY <1>4, <2>1, <2>2 DEF HandlerHolds, TurnInHand
  <2> QED BY <1>2, <1>6, <2>3, OneThreadMoves
<1>7. CASE RecoverSetTurn \/ RecoverAnnounce
  <2>1. pc'[Main] \in {"recMsg", "recWait"}
    BY <1>3, <1>7 DEF RecoverSetTurn, RecoverAnnounce, Goto
  <2>2. HandlerHolds(Main)'
    BY <1>4, <2>1 DEF HandlerHolds, TurnInHand
  <2> QED BY <1>2, <1>7, <2>2, OneThreadMoves
<1>8. CASE RecoverWaiting
  <2>1. pc'[Main] \in {"cancelTx", "serve"}
    BY <1>3, <1>8 DEF RecoverWaiting, Return, Goto, Home
  <2>2. HandlerHolds(Main)'
    BY <1>4, <2>1 DEF HandlerHolds, TurnInHand
  <2> QED BY <1>2, <1>8, <2>2, OneThreadMoves
<1> QED BY <1>1, <1>5, <1>6, <1>7, <1>8 DEF RecoverStep

LEMMA BeginHandlers ==
  ASSUME TypeOK, DuelInv, [Next]_vars, NEW t \in Threads,
         \/ t \in Conns /\ (AcquireSecretLock(t) \/ AcquireGuessLock(t))
         \/ t = TurnWorker /\ ListExpiredTurns
         \/ t = SecretWorker /\ ListWaitingGames
         \/ t = Main /\ Restart
  PROVE  \A u \in Threads : HandlerHolds(u)'
<1> USE ThreadsFacts
<1>1. \A u \in Threads \ {t} : pc'[u] = pc[u] /\ mem'[u] = mem[u]
  BY DEF AcquireSecretLock, AcquireGuessLock, ListExpiredTurns, ListWaitingGames, Restart,
     Goto, TypeOK
<1>2. t \in DOMAIN pc /\ t \in DOMAIN mem /\ mem[t] \in Locals
  BY DEF TypeOK
<1>3. HandlerHolds(t)'
  <2>1. CASE t \in Conns /\ (AcquireSecretLock(t) \/ AcquireGuessLock(t))
    <3>1. \/ pc'[t] = pc[t] /\ mem'[t] = mem[t]
          \/ /\ pc'[t] \in {"secretUser", "guessUser"}
             /\ mem'[t] = [mem[t] EXCEPT !.actor = Owner[t]]
      BY <1>2, <2>1 DEF AcquireSecretLock, AcquireGuessLock, Goto
    <3>2. CASE pc'[t] = pc[t] /\ mem'[t] = mem[t]
      BY <3>2, HandlerWaits
    <3>3. CASE /\ pc'[t] \in {"secretUser", "guessUser"}
               /\ mem'[t] = [mem[t] EXCEPT !.actor = Owner[t]]
      <4>1. mem'[t].actor \in Players
        BY <1>2, <2>1, <3>3 DEF Locals
      <4> QED BY <3>3, <4>1 DEF HandlerHolds, TurnInHand
    <3> QED BY <3>1, <3>2, <3>3
  <2>2. CASE t = TurnWorker /\ ListExpiredTurns
    <3>1. /\ pc'[t] = "timeoutLock" /\ turnKey \in TurnKeys
          /\ mem'[t] = [mem[t] EXCEPT !.actor = turnKey.player, !.stamp = clock]
      BY <1>2, <2>2 DEF ListExpiredTurns, Goto, TypeOK
    <3>2. mem'[t].actor \in Players
      BY <1>2, <3>1 DEF Locals, TurnKeys
    <3> QED BY <3>1, <3>2 DEF HandlerHolds, TurnInHand
  <2>3. CASE \/ t = SecretWorker /\ ListWaitingGames
             \/ t = Main /\ Restart
    <3>1. pc'[t] \in {"cancelTx", "recList"} /\ t \notin Conns \cup {TurnWorker}
      BY <1>2, <2>3, ThreadsAssumption DEF ListWaitingGames, Restart, Goto
    <3> QED BY <3>1 DEF HandlerHolds, TurnInHand
  <2> QED BY <2>1, <2>2, <2>3
<1> QED BY <1>1, <1>3, OneThreadMoves

(* What every thread holds stays true, whichever thread moves. *)
LEMMA NextHandlers ==
  ASSUME TypeOK, DuelInv, [Next]_vars
  PROVE  \A u \in Threads : HandlerHolds(u)'
<1> USE ThreadsFacts
<1>1. ASSUME NEW t \in Threads, Fail(t)
      PROVE  \A u \in Threads : HandlerHolds(u)'
  <2>1. \A u \in Threads \ {t} : pc'[u] = pc[u] /\ mem'[u] = mem[u]
    BY <1>1 DEF Fail, Return, Goto, TypeOK
  <2>2. pc'[t] = Home(t)
    BY <1>1 DEF Fail, Return, Goto, TypeOK
  <2> QED BY <2>1, <2>2, HandlerRests, OneThreadMoves
<1>2. CASE Crash
  <2>1. \A u \in Threads : pc'[u] = Home(u) \/ (u = Main /\ pc'[u] = "down")
    BY <1>2 DEF Crash, Home
  <2> QED BY <2>1, HandlerRests
<1>3. CASE (\E p \in Players : DeletePlayer(p)) \/ Tick \/ UNCHANGED vars
  <2>1. pc' = pc /\ mem' = mem
    BY <1>3 DEF DeletePlayer, Tick, vars
  <2> QED BY <2>1, HandlerWaits
<1>4. ASSUME NEW c \in Conns, AcquireSecretLock(c) \/ AcquireGuessLock(c) \/ ConnStep(c)
      PROVE  \A u \in Threads : HandlerHolds(u)'
  BY <1>4, BeginHandlers, SecretHandlers, GuessHandlers DEF ConnStep
<1>5. CASE ListExpiredTurns \/ ListWaitingGames \/ Restart
  BY <1>5, BeginHandlers
<1>6. CASE TimeoutStep
  BY <1>6, TimeoutHandlers
<1>7. CASE CancelStep(SecretWorker)
  BY <1>7, CancelHandlers
<1>8. CASE RecoverStep
  BY <1>8, RecoverHandlers
<1> QED BY <1>1, <1>2, <1>3, <1>4, <1>5, <1>6, <1>7, <1>8 DEF Next

-----------------------------------------------------------------------------
(* The theorems *)

LEMMA InitDuel == Init => DuelInv
<1> SUFFICES ASSUME Init PROVE DuelInv
  OBVIOUS
<1>1. RowsInv
  BY InitRows
<1>2. \A t \in Threads : HandlerHolds(t)
  BY ThreadsAssumption DEF Init, HandlerHolds, TurnInHand, Home, Threads
<1>3. TimerNotAhead
  BY DEF Init, TimerNotAhead
<1> QED BY <1>1, <1>2, <1>3 DEF RowsInv, DuelInv

LEMMA NextDuel ==
  ASSUME TypeOK, DuelInv, [Next]_vars
  PROVE  DuelInv'
BY NextRows, NextHandlers, NextTimer DEF RowsInv, DuelInv

(* The invariant by which everything else is proved: types, the agreement  *)
(* of the rows, and what every handler under way holds, in every reachable *)
(* state (usecase/game_play.go, handle_timeout.go, game_recovery.go).      *)
THEOREM Safety == Spec => [](TypeOK /\ DuelInv)
<1>1. Init => TypeOK /\ DuelInv
  BY InitType, InitDuel
<1>2. TypeOK /\ DuelInv /\ [Next]_vars => (TypeOK /\ DuelInv)'
  BY NextType, NextDuel
<1> QED BY <1>1, <1>2, PTL DEF Spec

(* Every variable of the service stays in its type.                        *)
THEOREM TypeCorrect == Spec => []TypeOK
BY Safety, PTL

(* SubmitGuess, called by any number of connections and by the timeout     *)
(* worker, leaves one guesses row per played turn, the players alternating *)
(* from player1.                                                           *)
THEOREM Alternation == Spec => []GuessesAlternate
<1>1. DuelInv => GuessesAlternate
  BY DEF DuelInv
<1> QED BY <1>1, Safety, PTL

(* finishGameService records a result once and consistently in games,      *)
(* match_histories and users, across crashes and failed calls.             *)
THEOREM ResultOnce == Spec => []ResultRecorded
<1>1. DuelInv => ResultRecorded
  BY DEF DuelInv
<1> QED BY <1>1, Safety, PTL

(* The turn timer SetTurn writes after the commit never names a turn the   *)
(* database has not reached.                                               *)
THEOREM TimerBehind == Spec => []TimerNotAhead
<1>1. DuelInv => TimerNotAhead
  BY DEF DuelInv
<1> QED BY <1>1, Safety, PTL

(* CancelBySecretTimeout ends only games nobody has played.                *)
THEOREM CancelSound == Spec => []CancelledNeverPlayed
<1>1. TypeOK /\ DuelInv => CancelledNeverPlayed
  <2> SUFFICES ASSUME TypeOK, DuelInv,
                      game.status = "FINISHED", game.winner = NoPlayer
               PROVE  guesses = {} /\ game.startedAt = 0
                      /\ ~BothSecretsSet(game) /\ turnKey = NoKey
    BY DEF CancelledNeverPlayed
  <2>1. game.startedAt = 0 /\ game.turn = 1 /\ ~BothSecretsSet(game)
    BY DEF DuelInv, RowAgrees, TypeOK, GameRows
  <2>2. guesses = {}
    BY <2>1 DEF DuelInv, GuessesAlternate
  <2>3. turnKey = NoKey
    BY <2>1 DEF DuelInv, TimerNotAhead
  <2> QED BY <2>1, <2>2, <2>3
<1> QED BY <1>1, Safety, PTL

(* No handler under way changes the outcome of a FINISHED game.            *)
THEOREM OutcomeFinal == Spec => FinishedIsFinal
<1>1. TypeOK /\ DuelInv /\ [Next]_vars =>
        [game.status = "FINISHED" => UNCHANGED <<game, guesses, history, winCount>>]_vars
  <2> SUFFICES ASSUME TypeOK, DuelInv, [Next]_vars, game.status = "FINISHED"
               PROVE  UNCHANGED <<game, guesses, history, winCount>>
    OBVIOUS
  <2>1. CASE UNCHANGED db
    BY <2>1 DEF db
  <2>2. ~(\E t \in Conns : StoreSecret(t))
    BY DEF StoreSecret
  <2>3. ~(\E t \in Conns \cup {TurnWorker}, hit \in BOOLEAN : CommitGuess(t, hit))
    BY DEF CommitGuess, CanGuess
  <2>4. ASSUME NEW t \in Threads, CancelBySecretTimeout(t)
        PROVE  UNCHANGED <<game, guesses, history, winCount>>
    BY <2>4 DEF CancelBySecretTimeout
  <2> QED BY <2>1, <2>2, <2>3, <2>4, RowWriters
<1> QED BY <1>1, Safety, PTL DEF FinishedIsFinal, Spec

-----------------------------------------------------------------------------
(* The clock: how long before a turn is played for a player, and what the  *)
(* recovery leaves behind                                                  *)

(* Nobody starts before the clock says so, and no timer runs out within a  *)
(* turn's time of the start.                                               *)
TimerOnTime ==
  /\ game.startedAt <= clock
  /\ turnKey # NoKey => turnKey.expiresAt >= game.startedAt + TurnDuration

(* A handler that will write a timer took its time after the start; the    *)
(* timeout worker took its time from the clock, and plays only when a      *)
(* turn's time has passed.                                                 *)
Stamped(t) ==
  /\ pc[t] \in {"startSet", "nextSet", "recGet", "recSet"} => mem[t].stamp >= game.startedAt
  /\ t = TurnWorker /\ pc[t] \in {"timeoutLock", "timeoutCheck", "timeoutRecheck"} =>
       mem[t].stamp <= clock
  /\ t = TurnWorker /\ pc[t] \in {"guessUser", "guessTx"} =>
       game.startedAt > 0 /\ clock >= game.startedAt + TurnDuration

FirstTurnInv == TimerOnTime /\ \A t \in Threads : Stamped(t)

(* Where a time that was taken matters *)
Timed == {"startSet", "nextSet", "recGet", "recSet", "timeoutLock", "timeoutCheck",
          "timeoutRecheck", "guessUser", "guessTx"}

(* What a step does to a thread, as far as those times go.                 *)
StampStep(t) ==
  \/ pc'[t] = pc[t] /\ mem'[t] = mem[t]
  \/ pc'[t] \notin Timed
  \/ t # TurnWorker /\ pc'[t] \in {"guessUser", "guessTx"}
  \/ /\ pc'[t] \in {"startSet", "nextSet", "recGet", "timeoutLock"}
     /\ mem'[t].stamp = clock /\ UNCHANGED game
  \/ pc[t] = "recGet" /\ pc'[t] = "recSet" /\ mem'[t] = mem[t]
  \/ /\ t = TurnWorker /\ pc[t] = "timeoutLock" /\ pc'[t] = "timeoutCheck"
     /\ mem'[t].stamp \in Nat /\ mem'[t].stamp <= clock
  \/ t = TurnWorker /\ pc[t] = "timeoutCheck" /\ pc'[t] = "timeoutRecheck" /\ mem'[t] = mem[t]
  \/ /\ t = TurnWorker /\ pc[t] = "timeoutRecheck" /\ pc'[t] = "guessUser"
     /\ TimeoutDue /\ UNCHANGED game
  \/ t = TurnWorker /\ pc[t] = "guessUser" /\ pc'[t] = "guessTx"

(* The same for a thread that moves alone.                                 *)
LEMMA OneThreadStamps ==
  ASSUME NEW t \in Threads, StampStep(t),
         \A u \in Threads \ {t} : pc'[u] = pc[u] /\ mem'[u] = mem[u]
  PROVE  \A u \in Threads : StampStep(u)
<1> SUFFICES ASSUME NEW u \in Threads, u # t
             PROVE  StampStep(u)
  OBVIOUS
<1> QED BY DEF StampStep

LEMMA SecretStamps ==
  ASSUME TypeOK, NEW t \in Conns, SecretStep(t)
  PROVE  \A u \in Threads : StampStep(u)
<1> USE ThreadsFacts
<1>1. \A u \in Threads \ {t} : pc'[u] = pc[u] /\ mem'[u] = mem[u]
  BY DEF SecretStep, CheckPlayer, RejectSecret, StoreSecret, ReadStarted,
     SetFirstTurn, AnnounceStart, Return, Goto, TypeOK
<1>2. t \in DOMAIN pc /\ t \in DOMAIN mem /\ mem[t] \in Locals
  BY DEF TypeOK
<1>3. CASE ReadStarted(t)
  <2>1. /\ pc'[t] = "startSet" /\ UNCHANGED game
        /\ mem'[t] = [ReadTurn(mem[t]) EXCEPT !.stamp = clock]
    BY <1>2, <1>3 DEF ReadStarted, Goto, db
  <2>2. mem'[t].stamp = clock
    BY <1>2, <2>1, ReadTurnType DEF Locals
  <2>3. StampStep(t)
    BY <2>1, <2>2 DEF StampStep
  <2> QED BY <1>1, <2>3, OneThreadStamps
<1>4. ASSUME ~ReadStarted(t)
      PROVE  pc'[t] \in {Home(t), "secretTx", "startRead", "startMsg"}
  BY <1>2, <1>4 DEF SecretStep, CheckPlayer, RejectSecret, StoreSecret, SetFirstTurn,
     AnnounceStart, Return, Goto
<1>5. CASE ~ReadStarted(t)
  <2>1. StampStep(t)
    BY <1>4, <1>5 DEF StampStep, Timed, Home
  <2> QED BY <1>1, <2>1, OneThreadStamps
<1> QED BY <1>3, <1>5

LEMMA GuessStamps ==
  ASSUME TypeOK, NEW t \in Conns \cup {TurnWorker}, GuessStep(t)
  PROVE  \A u \in Threads : StampStep(u)
<1> USE ThreadsFacts
<1>1. \A u \in Threads \ {t} : pc'[u] = pc[u] /\ mem'[u] = mem[u]
  BY DEF GuessStep, CheckPlayer, RejectGuess, CommitGuess, ReadNextTurn, AnnounceResult,
     SetNextTurn, AnnounceTurn, DropTurnKey, AnnounceWin, Return, Goto, TypeOK
<1>2. t \in Threads /\ t \in DOMAIN pc /\ t \in DOMAIN mem /\ mem[t] \in Locals
  BY DEF TypeOK
<1>3. CASE CheckPlayer(t, "guessUser", "guessTx")
  <2>1. pc'[t] = Home(t) \/ (pc[t] = "guessUser" /\ pc'[t] = "guessTx")
    BY <1>2, <1>3 DEF CheckPlayer, Return, Goto
  <2>2. StampStep(t)
    BY <2>1 DEF StampStep, Timed, Home
  <2> QED BY <1>1, <1>2, <2>2, OneThreadStamps
<1>4. CASE AnnounceResult(t)
  <2>1. /\ pc'[t] \in {"overDel", "nextSet"} /\ UNCHANGED game
        /\ mem'[t] = [mem[t] EXCEPT !.stamp = clock]
    BY <1>2, <1>4 DEF AnnounceResult, Goto, db
  <2>2. mem'[t].stamp = clock
    BY <1>2, <2>1 DEF Locals
  <2>3. StampStep(t)
    BY <2>1, <2>2 DEF StampStep, Timed
  <2> QED BY <1>1, <1>2, <2>3, OneThreadStamps
<1>5. CASE RejectGuess(t) \/ (\E hit \in BOOLEAN : CommitGuess(t, hit)) \/ ReadNextTurn(t)
           \/ SetNextTurn(t) \/ AnnounceTurn(t) \/ DropTurnKey(t) \/ AnnounceWin(t)
  <2>1. pc'[t] \in {Home(t), "guessRead", "guessMsg", "nextMsg", "overMsg", "cancelMsg"}
    BY <1>2, <1>5 DEF RejectGuess, CommitGuess, ReadNextTurn, SetNextTurn, AnnounceTurn,
       DropTurnKey, AnnounceWin, Return, Goto
  <2>2. StampStep(t)
    BY <2>1 DEF StampStep, Timed, Home
  <2> QED BY <1>1, <1>2, <2>2, OneThreadStamps
<1> QED BY <1>3, <1>4, <1>5 DEF GuessStep

LEMMA TimeoutStamps ==
  ASSUME TypeOK, TimeoutStep
  PROVE  \A u \in Threads : StampStep(u)
<1> USE ThreadsFacts
<1> DEFINE t == TurnWorker
<1>1. CASE GuessStep(t)
  BY <1>1, GuessStamps
<1>2. ASSUME TimeoutLock \/ CheckTimeout("timeoutCheck", "timeoutRecheck")
             \/ CheckTimeout("timeoutRecheck", "guessUser")
      PROVE  \A u \in Threads : StampStep(u)
  <2>1. \A u \in Threads \ {t} : pc'[u] = pc[u] /\ mem'[u] = mem[u]
    BY <1>2 DEF TimeoutLock, CheckTimeout, Return, Goto, TypeOK
  <2>2. t \in DOMAIN pc /\ t \in DOMAIN mem /\ mem[t] \in Locals /\ clock \in Nat
    BY DEF TypeOK
  <2>3. CASE pc'[t] = Home(t)
    <3>1. StampStep(t)
      BY <2>3 DEF StampStep, Timed, Home
    <3> QED BY <2>1, <3>1, OneThreadStamps
  <2>4. CASE TimeoutLock /\ pc'[t] # Home(t)
    <3>1. pc[t] = "timeoutLock" /\ pc'[t] = "timeoutCheck"
          /\ \E now \in mem[t].stamp .. clock : mem' = [mem EXCEPT ![t].stamp = now]
      BY <2>2, <2>4 DEF TimeoutLock, Return, Goto
    <3>2. PICK now \in mem[t].stamp .. clock : mem' = [mem EXCEPT ![t].stamp = now]
      BY <3>1
    <3>3. now \in Nat /\ now <= clock /\ mem'[t].stamp = now
      BY <2>2, <3>2 DEF Locals
    <3>4. StampStep(t)
      BY <3>1, <3>3 DEF StampStep
    <3> QED BY <2>1, <3>4, OneThreadStamps
  <2>5. CASE CheckTimeout("timeoutCheck", "timeoutRecheck") /\ pc'[t] # Home(t)
    <3>1. pc[t] = "timeoutCheck" /\ pc'[t] = "timeoutRecheck" /\ mem'[t] = mem[t]
      BY <2>2, <2>5 DEF CheckTimeout, Return, Goto
    <3>2. StampStep(t)
      BY <3>1 DEF StampStep
    <3> QED BY <2>1, <3>2, OneThreadStamps
  <2>6. CASE CheckTimeout("timeoutRecheck", "guessUser") /\ pc'[t] # Home(t)
    <3>1. pc[t] = "timeoutRecheck" /\ pc'[t] = "guessUser" /\ TimeoutDue /\ UNCHANGED game
      BY <2>2, <2>6 DEF CheckTimeout, Return, Goto, db
    <3>2. StampStep(t)
      BY <3>1 DEF StampStep
    <3> QED BY <2>1, <3>2, OneThreadStamps
  <2> QED BY <1>2, <2>3, <2>4, <2>5, <2>6
<1> QED BY <1>1, <1>2 DEF TimeoutStep

LEMMA CancelStamps ==
  ASSUME TypeOK, NEW t \in Threads, CancelStep(t)
  PROVE  \A u \in Threads : StampStep(u)
<1>1. \A u \in Threads \ {t} : pc'[u] = pc[u] /\ mem'[u] = mem[u]
  BY DEF CancelStep, CancelBySecretTimeout, DropTurnKey, AnnounceCancel, Return, Goto,
     TypeOK
<1>2. pc'[t] \in {Home(t), "cancelDel", "cancelMsg", "overMsg"}
  BY DEF CancelStep, CancelBySecretTimeout, DropTurnKey, AnnounceCancel, Return, Goto, TypeOK
<1>3. StampStep(t)
  BY <1>2 DEF StampStep, Timed, Home
<1> QED BY <1>1, <1>3, OneThreadStamps

LEMMA RecoverStamps ==
  ASSUME TypeOK, RecoverStep
  PROVE  \A u \in Threads : StampStep(u)
<1> USE ThreadsFacts
<1>1. CASE CancelStep(Main)
  BY <1>1, CancelStamps
<1>2. ASSUME \/ ListInProgress \/ RecoverGetTurn \/ RecoverSetTurn
             \/ RecoverAnnounce \/ RecoverWaiting
      PROVE  \A u \in Threads \ {Main} : pc'[u] = pc[u] /\ mem'[u] = mem[u]
  BY <1>2 DEF ListInProgress, RecoverGetTurn, RecoverSetTurn,
     RecoverAnnounce, RecoverWaiting, Return, Goto, TypeOK
<1>3. Main \in DOMAIN pc /\ Main \in DOMAIN mem /\ mem[Main] \in Locals
  BY DEF TypeOK
<1>4. CASE ListInProgress
  <2>1. /\ mem'[Main] = [ReadTurn(mem[Main]) EXCEPT !.stamp = clock] /\ UNCHANGED game
        /\ pc'[Main] \in {"recGet", "recWait"}
    BY <1>3, <1>4 DEF ListInProgress, Goto, db
  <2>2. mem'[Main].stamp = clock
    BY <1>3, <2>1, ReadTurnType DEF Locals
  <2>3. StampStep(Main)
    BY <2>1, <2>2 DEF StampStep, Timed
  <2> QED BY <1>2, <1>4, <2>3, OneThreadStamps
<1>5. CASE RecoverGetTurn
  <2>1. pc[Main] = "recGet" /\ mem' = mem /\ pc'[Main] \in {"recWait", "recSet"}
    BY <1>3, <1>5 DEF RecoverGetTurn, Goto
  <2>2. StampStep(Main)
    BY <2>1 DEF StampStep, Timed
  <2> QED BY <1>2, <1>5, <2>2, OneThreadStamps
<1>6. CASE RecoverSetTurn \/ RecoverAnnounce \/ RecoverWaiting
  <2>1. pc'[Main] \in {"recMsg", "recWait", "cancelTx", "serve"}
    BY <1>3, <1>6 DEF RecoverSetTurn, RecoverAnnounce, RecoverWaiting, Return, Goto, Home
  <2>2. StampStep(Main)
    BY <2>1 DEF StampStep, Timed
  <2> QED BY <1>2, <1>6, <2>2, OneThreadStamps
<1> QED BY <1>1, <1>4, <1>5, <1>6 DEF RecoverStep

LEMMA BeginStamps ==
  ASSUME TypeOK, NEW t \in Threads,
         \/ t \in Conns /\ (AcquireSecretLock(t) \/ AcquireGuessLock(t))
         \/ t = TurnWorker /\ ListExpiredTurns
         \/ t = SecretWorker /\ ListWaitingGames
         \/ t = Main /\ Restart
  PROVE  \A u \in Threads : StampStep(u)
<1> USE ThreadsFacts
<1>1. \A u \in Threads \ {t} : pc'[u] = pc[u] /\ mem'[u] = mem[u]
  BY DEF AcquireSecretLock, AcquireGuessLock, ListExpiredTurns, ListWaitingGames, Restart,
     Goto, TypeOK
<1>2. t \in DOMAIN pc /\ t \in DOMAIN mem /\ mem[t] \in Locals
  BY DEF TypeOK
<1>3. CASE t \in Conns /\ (AcquireSecretLock(t) \/ AcquireGuessLock(t))
  <2>1. \/ pc'[t] = pc[t] /\ mem'[t] = mem[t]
        \/ pc'[t] \in {"secretUser", "guessUser"}
    BY <1>2, <1>3 DEF AcquireSecretLock, AcquireGuessLock, Goto
  <2>2. StampStep(t)
    BY <1>3, <2>1, ThreadsAssumption DEF StampStep, Timed
  <2> QED BY <1>1, <2>2, OneThreadStamps
<1>4. CASE t = TurnWorker /\ ListExpiredTurns
  <2>1. /\ pc'[t] = "timeoutLock" /\ UNCHANGED game
        /\ mem'[t] = [mem[t] EXCEPT !.actor = turnKey.player, !.stamp = clock]
    BY <1>2, <1>4 DEF ListExpiredTurns, Goto, db
  <2>2. mem'[t].stamp = clock
    BY <1>2, <2>1 DEF Locals
  <2>3. StampStep(t)
    BY <2>1, <2>2 DEF StampStep
  <2> QED BY <1>1, <2>3, OneThreadStamps
<1>5. CASE \/ t = SecretWorker /\ ListWaitingGames
           \/ t = Main /\ Restart
  <2>1. pc'[t] \in {"cancelTx", "recList"}
    BY <1>2, <1>5 DEF ListWaitingGames, Restart, Goto
  <2>2. StampStep(t)
    BY <2>1 DEF StampStep, Timed
  <2> QED BY <1>1, <2>2, OneThreadStamps
<1> QED BY <1>3, <1>4, <1>5

(* Every step of the system is one of these for every thread.              *)
LEMMA NextStamps ==
  ASSUME TypeOK, [Next]_vars
  PROVE  \A u \in Threads : StampStep(u)
<1> USE ThreadsFacts
<1>1. ASSUME NEW t \in Threads, Fail(t)
      PROVE  \A u \in Threads : StampStep(u)
  <2>1. \A u \in Threads \ {t} : pc'[u] = pc[u] /\ mem'[u] = mem[u]
    BY <1>1 DEF Fail, Return, Goto, TypeOK
  <2>2. pc'[t] = Home(t)
    BY <1>1 DEF Fail, Return, Goto, TypeOK
  <2>3. StampStep(t)
    BY <2>2 DEF StampStep, Timed, Home
  <2> QED BY <2>1, <2>3, OneThreadStamps
<1>2. CASE Crash
  <2>1. \A u \in Threads : pc'[u] \in {"idle", "down"}
    BY <1>2 DEF Crash
  <2> QED BY <2>1 DEF StampStep, Timed
<1>3. CASE (\E p \in Players : DeletePlayer(p)) \/ Tick \/ UNCHANGED vars
  <2>1. pc' = pc /\ mem' = mem
    BY <1>3 DEF DeletePlayer, Tick, vars
  <2> QED BY <2>1 DEF StampStep
<1>4. ASSUME NEW c \in Conns, AcquireSecretLock(c) \/ AcquireGuessLock(c) \/ ConnStep(c)
      PROVE  \A u \in Threads : StampStep(u)
  BY <1>4, BeginStamps, SecretStamps, GuessStamps DEF ConnStep
<1>5. CASE ListExpiredTurns \/ ListWaitingGames \/ Restart
  BY <1>5, BeginStamps
<1>6. CASE TimeoutStep
  BY <1>6, TimeoutStamps
<1>7. CASE CancelStep(SecretWorker) \/ RecoverStep
  BY <1>7, CancelStamps, RecoverStamps
<1> QED BY <1>1, <1>2, <1>3, <1>4, <1>5, <1>6, <1>7 DEF Next

(* The start time is set once, to the time of the step that starts.        *)
LEMMA StartedOnce ==
  ASSUME TypeOK, DuelInv, [Next]_vars
  PROVE  \/ game'.startedAt = game.startedAt
         \/ game.startedAt = 0 /\ game'.startedAt = clock
<1> USE ThreadsFacts
<1>1. game \in GameRows /\ clock \in Nat
  BY DEF TypeOK
<1>2. ASSUME NEW t \in Conns, StoreSecret(t)
      PROVE  \/ game'.startedAt = game.startedAt
             \/ game.startedAt = 0 /\ game'.startedAt = clock
  <2> DEFINE g == SetSecret(game, mem[t].actor)
  <2>1. game' = g \/ game' = StartGame(g)
    BY <1>2 DEF StoreSecret
  <2>2. game.startedAt = 0
    BY <1>1, <1>2 DEF StoreSecret, DuelInv, RowAgrees, GameRows
  <2>3. g.startedAt = game.startedAt /\ g \in GameRows
    <3>1. mem[t].actor \in Players
      BY <1>2 DEF DuelInv, HandlerHolds, StoreSecret
    <3>2. g \in GameRows
      BY <1>1, <3>1, GameRowTypes
    <3> QED BY <1>1, <3>2 DEF SetSecret, GameRows
  <2> HIDE DEF g
  <2>4. StartGame(g).startedAt = clock
    BY <2>3 DEF StartGame, GameRows
  <2> QED BY <2>1, <2>2, <2>3, <2>4
<1>3. ASSUME NEW t \in Conns \cup {TurnWorker}, NEW hit \in BOOLEAN, CommitGuess(t, hit)
      PROVE  game'.startedAt = game.startedAt
  <2> DEFINE g == AdvanceTurn(game, mem[t].actor)
  <2>1. mem[t].actor \in Players
    BY <1>3 DEF DuelInv, HandlerHolds, CommitGuess
  <2>2. g \in GameRows
    BY <1>1, <2>1, GameRowTypes
  <2>3. g.startedAt = game.startedAt
    BY <1>1 DEF AdvanceTurn, GameRows
  <2>4. game' = g \/ game' = FinishGame(g, mem[t].actor)
    BY <1>3 DEF CommitGuess
  <2> HIDE DEF g
  <2>5. FinishGame(g, mem[t].actor).startedAt = g.startedAt
    BY <2>2 DEF FinishGame, GameRows
  <2> QED BY <2>3, <2>4, <2>5
<1>4. ASSUME NEW t \in Threads, CancelBySecretTimeout(t)
      PROVE  game'.startedAt = game.startedAt
  <2>1. game' = CancelGame(game, mem[t].stamp) \/ game' = game
    BY <1>4 DEF CancelBySecretTimeout
  <2> QED BY <1>1, <2>1 DEF CancelGame, GameRows
<1> QED BY <1>2, <1>3, <1>4, RowWriters DEF db

(* A timer is written by a handler that has one in hand, or stays, or goes. *)
LEMMA TimerWriters ==
  ASSUME [Next]_vars
  PROVE  \/ UNCHANGED turnKey \/ turnKey' = NoKey
         \/ \E t \in Threads : /\ pc[t] \in {"startSet", "nextSet", "recSet"}
                               /\ WriteTurnKey(t) /\ UNCHANGED game
<1> USE ThreadsFacts
<1>1. ASSUME NEW t \in Conns \cup {TurnWorker}, SetFirstTurn(t) \/ SetNextTurn(t)
      PROVE  /\ pc[t] \in {"startSet", "nextSet", "recSet"}
             /\ WriteTurnKey(t) /\ UNCHANGED game
  BY <1>1 DEF SetFirstTurn, SetNextTurn, db
<1>2. ASSUME RecoverSetTurn
      PROVE  /\ pc[Main] \in {"startSet", "nextSet", "recSet"}
             /\ WriteTurnKey(Main) /\ UNCHANGED game
  BY <1>2 DEF RecoverSetTurn, db
<1>3. ASSUME ~(\E t \in Conns \cup {TurnWorker} : SetFirstTurn(t) \/ SetNextTurn(t)),
             ~RecoverSetTurn
      PROVE  UNCHANGED turnKey \/ turnKey' = NoKey
  BY <1>3 DEF Next, ConnStep, SecretStep, GuessStep, TimeoutStep, CancelStep, RecoverStep,
     AcquireSecretLock, AcquireGuessLock, CheckPlayer, RejectSecret, StoreSecret,
     ReadStarted, AnnounceStart, RejectGuess, CommitGuess, ReadNextTurn,
     AnnounceResult, AnnounceTurn, DropTurnKey, AnnounceWin,
     ListExpiredTurns, TimeoutLock, CheckTimeout, ListWaitingGames,
     CancelBySecretTimeout, AnnounceCancel, Restart, ListInProgress, RecoverGetTurn,
     RecoverAnnounce, RecoverWaiting, Fail, Crash, DeletePlayer, Tick, vars, redis
<1> QED BY <1>1, <1>2, <1>3

(* Times before a step and after it.                                       *)
LEMMA TimeFacts ==
  ASSUME TypeOK, DuelInv, [Next]_vars
  PROVE  /\ clock \in Nat /\ clock' \in Nat /\ clock <= clock'
         /\ game.startedAt \in Nat /\ game'.startedAt \in Nat /\ TurnDuration \in Nat
         /\ \A t \in Threads : mem[t].stamp \in Nat
         /\ turnKey # NoKey => turnKey.expiresAt \in Nat
<1>1. TypeOK'
  BY NextType
<1>2. clock <= clock'
  BY <1>1, ClockGrows DEF TypeOK
<1> QED BY <1>1, <1>2, ConfigAssumption DEF TypeOK, GameRows, Locals, TurnKeys

LEMMA NextOnTime ==
  ASSUME TypeOK, DuelInv, FirstTurnInv, [Next]_vars
  PROVE  TimerOnTime'
<1>1. game'.startedAt <= clock'
  BY TimeFacts, StartedOnce DEF FirstTurnInv, TimerOnTime
<1>2. CASE turnKey' = NoKey
  BY <1>1, <1>2 DEF TimerOnTime
<1>3. CASE UNCHANGED turnKey /\ turnKey # NoKey
  <2>1. game.startedAt > 0 /\ turnKey.expiresAt >= game.startedAt + TurnDuration
    BY <1>3 DEF DuelInv, TimerNotAhead, FirstTurnInv, TimerOnTime
  <2>2. game'.startedAt = game.startedAt
    BY <2>1, StartedOnce
  <2> QED BY <1>1, <1>3, <2>1, <2>2 DEF TimerOnTime
<1>4. ASSUME NEW t \in Threads, pc[t] \in {"startSet", "nextSet", "recSet"},
             WriteTurnKey(t), UNCHANGED game
      PROVE  TimerOnTime'
  <2>1. mem[t].stamp >= game.startedAt
    BY <1>4 DEF FirstTurnInv, Stamped
  <2>2. turnKey'.expiresAt = mem[t].stamp + TurnDuration
    BY <1>4 DEF WriteTurnKey
  <2>3. turnKey'.expiresAt >= game.startedAt + TurnDuration
    BY <2>1, <2>2, TimeFacts
  <2> QED BY <1>1, <1>4, <2>3 DEF TimerOnTime
<1> QED BY <1>2, <1>3, <1>4, TimerWriters

LEMMA NextStamped ==
  ASSUME TypeOK, DuelInv, FirstTurnInv, [Next]_vars, NEW t \in Threads
  PROVE  Stamped(t)'
<1>0. StampStep(t) /\ Stamped(t) /\ HandlerHolds(t) /\ game.startedAt <= clock
  BY NextStamps DEF FirstTurnInv, DuelInv, TimerOnTime
<1>s. /\ clock \in Nat /\ clock' \in Nat /\ clock <= clock'
      /\ game.startedAt \in Nat /\ game'.startedAt \in Nat /\ TurnDuration \in Nat
      /\ mem[t].stamp \in Nat
      /\ game.startedAt > 0 => game'.startedAt = game.startedAt
  BY TimeFacts, StartedOnce
<1>h. pc[t] \in {"startSet", "nextSet", "recGet", "recSet"} =>
        game.startedAt > 0 /\ mem[t].stamp >= game.startedAt
  BY <1>0 DEF Stamped, HandlerHolds, TurnInHand, Published
<1>1. CASE pc'[t] = pc[t] /\ mem'[t] = mem[t]
  <2>1. pc[t] \in {"startSet", "nextSet", "recGet", "recSet"} => mem[t].stamp >= game'.startedAt
    BY <1>s, <1>h
  <2>2. t = TurnWorker /\ pc[t] \in {"timeoutLock", "timeoutCheck", "timeoutRecheck"} =>
          mem[t].stamp <= clock'
    BY <1>0, <1>s DEF Stamped
  <2>3. t = TurnWorker /\ pc[t] \in {"guessUser", "guessTx"} =>
          game'.startedAt > 0 /\ clock' >= game'.startedAt + TurnDuration
    BY <1>0, <1>s DEF Stamped
  <2> QED BY <1>1, <2>1, <2>2, <2>3 DEF Stamped
<1>2. CASE pc'[t] \notin Timed
  BY <1>2 DEF Stamped, Timed
<1>3. CASE t # TurnWorker /\ pc'[t] \in {"guessUser", "guessTx"}
  BY <1>3 DEF Stamped
<1>4. CASE /\ pc'[t] \in {"startSet", "nextSet", "recGet", "timeoutLock"}
           /\ mem'[t].stamp = clock /\ UNCHANGED game
  BY <1>0, <1>s, <1>4 DEF Stamped
<1>5. CASE pc[t] = "recGet" /\ pc'[t] = "recSet" /\ mem'[t] = mem[t]
  BY <1>s, <1>h, <1>5 DEF Stamped
<1>6. CASE /\ t = TurnWorker /\ pc[t] = "timeoutLock" /\ pc'[t] = "timeoutCheck"
           /\ mem'[t].stamp \in Nat /\ mem'[t].stamp <= clock
  BY <1>s, <1>6 DEF Stamped
<1>7. CASE /\ t = TurnWorker /\ pc[t] = "timeoutCheck" /\ pc'[t] = "timeoutRecheck"
           /\ mem'[t] = mem[t]
  BY <1>0, <1>s, <1>7 DEF Stamped
<1>8. CASE /\ t = TurnWorker /\ pc[t] = "timeoutRecheck" /\ pc'[t] = "guessUser"
           /\ TimeoutDue /\ UNCHANGED game
  <2>1. turnKey # NoKey /\ turnKey.expiresAt <= mem[t].stamp /\ mem[t].stamp <= clock
    BY <1>0, <1>8 DEF TimeoutDue, Stamped
  <2>2. game.startedAt > 0 /\ turnKey.expiresAt >= game.startedAt + TurnDuration
        /\ turnKey.expiresAt \in Nat
    BY <2>1, TimeFacts DEF DuelInv, TimerNotAhead, FirstTurnInv, TimerOnTime
  <2>3. clock' >= game.startedAt + TurnDuration
    BY <1>s, <2>1, <2>2
  <2> QED BY <1>8, <2>2, <2>3 DEF Stamped
<1>9. CASE t = TurnWorker /\ pc[t] = "guessUser" /\ pc'[t] = "guessTx"
  BY <1>0, <1>s, <1>9 DEF Stamped
<1> QED BY <1>0, <1>1, <1>2, <1>3, <1>4, <1>5, <1>6, <1>7, <1>8, <1>9 DEF StampStep

(* The timeout worker plays for nobody before a full TURN_DURATION has     *)
(* passed since the game started, whichever timer it acted on and however  *)
(* late its two looks at the timer are (handle_timeout.go:17-64).          *)
THEOREM FirstTurnIsLeft == Spec => NoAutoGuessInFirstTurn
<1>1. Init => FirstTurnInv
  <2> SUFFICES ASSUME Init PROVE FirstTurnInv
    OBVIOUS
  <2>1. \A t \in Threads : pc[t] \in {"idle", "serve"}
    BY DEF Init, Home
  <2> QED BY <2>1 DEF Init, FirstTurnInv, TimerOnTime, Stamped, CreatedAt
<1>2. TypeOK /\ DuelInv /\ FirstTurnInv /\ [Next]_vars => FirstTurnInv'
  BY NextOnTime, NextStamped DEF FirstTurnInv
<1>3. TypeOK /\ DuelInv /\ FirstTurnInv /\ [Next]_vars =>
        [\A g \in guesses' \ guesses : g.auto => clock >= game.startedAt + TurnDuration]_vars
  <2> SUFFICES ASSUME TypeOK, DuelInv, FirstTurnInv, [Next]_vars,
                      NEW g \in guesses' \ guesses, g.auto
               PROVE  clock >= game.startedAt + TurnDuration
    OBVIOUS
  <2>1. ASSUME NEW t \in Conns \cup {TurnWorker}, NEW hit \in BOOLEAN, CommitGuess(t, hit)
        PROVE  clock >= game.startedAt + TurnDuration
    <3>1. g = GuessRow(t, hit) /\ pc[t] = "guessTx"
      BY <2>1 DEF CommitGuess
    <3>2. t = TurnWorker
      BY <3>1 DEF GuessRow
    <3> QED BY <3>1, <3>2, ThreadsFacts DEF FirstTurnInv, Stamped
  <2>2. \E t \in Conns \cup {TurnWorker}, hit \in BOOLEAN : CommitGuess(t, hit)
    BY RowWriters DEF db, StoreSecret, CancelBySecretTimeout
  <2> QED BY <2>1, <2>2
<1> QED BY <1>1, <1>2, <1>3, Safety, PTL DEF NoAutoGuessInFirstTurn, Spec

(* While main recovers nothing else runs, so that the timer it found or    *)
(* wrote is lost only to time.                                             *)
AloneInRecovery ==
  pc[Main] # "serve" => \A t \in Threads \ {Main} : pc[t] = "idle"

RecoveryHolds ==
  /\ pc[Main] \in {"recGet", "recSet", "recMsg", "recWait"} => mem[Main].stamp <= clock
  /\ pc[Main] \in {"recMsg", "recWait"} /\ game.status = "IN_PROGRESS" =>
       turnKey # NoKey \/ clock > mem[Main].stamp

RecoveryInv == AloneInRecovery /\ RecoveryHolds

(* A thread that is idle does none of a handler's steps.                   *)
LEMMA IdleRests ==
  ASSUME NEW t, pc[t] = "idle"
  PROVE  /\ ~SecretStep(t) /\ ~GuessStep(t) /\ ~CancelStep(t) /\ ~Fail(t)
         /\ t = TurnWorker => ~TimeoutStep
<1>1. ~SecretStep(t)
  BY DEF SecretStep, CheckPlayer, RejectSecret, StoreSecret, ReadStarted, SetFirstTurn, AnnounceStart
<1>2. ~GuessStep(t)
  BY DEF GuessStep, CheckPlayer, RejectGuess, CommitGuess, ReadNextTurn, AnnounceResult,
     SetNextTurn, AnnounceTurn, DropTurnKey, AnnounceWin
<1>3. ~CancelStep(t) /\ ~Fail(t)
  BY DEF CancelStep, CancelBySecretTimeout, DropTurnKey, AnnounceCancel, Fail, Fallible
<1>4. t = TurnWorker => ~TimeoutStep
  BY <1>2 DEF TimeoutStep, TimeoutLock, CheckTimeout
<1> QED BY <1>1, <1>2, <1>3, <1>4

(* What can happen while main is not serving                               *)
LEMMA RecoverySteps ==
  ASSUME AloneInRecovery, pc[Main] # "serve", [Next]_vars
  PROVE  \/ RecoverStep \/ Restart \/ Fail(Main) \/ Crash \/ Tick
         \/ (\E p \in Players : DeletePlayer(p)) \/ UNCHANGED vars
<1>1. \A t \in Threads \ {Main} : pc[t] = "idle"
  BY DEF AloneInRecovery
<1>2. /\ Conns \subseteq Threads \ {Main}
      /\ TurnWorker \in Threads \ {Main} /\ SecretWorker \in Threads \ {Main}
  BY ThreadsFacts, ThreadsAssumption
<1>3. \A c \in Conns : ~(AcquireSecretLock(c) \/ AcquireGuessLock(c) \/ ConnStep(c))
  BY <1>1, <1>2, IdleRests DEF AcquireSecretLock, AcquireGuessLock, Serving, ConnStep
<1>4. ~ListExpiredTurns /\ ~ListWaitingGames
  BY DEF ListExpiredTurns, ListWaitingGames, Serving
<1>5. ~TimeoutStep /\ ~CancelStep(SecretWorker)
  BY <1>1, <1>2, IdleRests
<1>6. \A t \in Threads \ {Main} : ~Fail(t)
  BY <1>1, IdleRests
<1> QED BY <1>3, <1>4, <1>5, <1>6 DEF Next

(* What can happen to main while it serves                                 *)
LEMMA ServingSteps ==
  ASSUME TypeOK, pc[Main] = "serve", [Next]_vars
  PROVE  pc'[Main] = "serve" \/ Crash
<1> USE ThreadsFacts
<1>1. ~RecoverStep /\ ~Restart /\ ~Fail(Main)
  BY DEF RecoverStep, ListInProgress, RecoverGetTurn, RecoverSetTurn, RecoverAnnounce,
     RecoverWaiting, CancelStep, CancelBySecretTimeout, DropTurnKey, AnnounceCancel,
     Restart, Fail, Fallible
<1>2. Main \notin Conns /\ Main # TurnWorker /\ Main # SecretWorker
  BY ThreadsAssumption
<1>3. ASSUME NEW c \in Conns, AcquireSecretLock(c) \/ AcquireGuessLock(c)
      PROVE  pc'[Main] = "serve"
  BY <1>2, <1>3 DEF AcquireSecretLock, AcquireGuessLock, Goto, TypeOK
<1>4. ASSUME NEW c \in Conns, SecretStep(c)
      PROVE  pc'[Main] = "serve"
  BY <1>2, <1>4 DEF SecretStep, CheckPlayer, RejectSecret, StoreSecret, ReadStarted,
     SetFirstTurn, AnnounceStart, Return, Goto, TypeOK
<1>5. ASSUME NEW t \in Conns \cup {TurnWorker}, GuessStep(t)
      PROVE  pc'[Main] = "serve"
  BY <1>2, <1>5 DEF GuessStep, CheckPlayer, RejectGuess, CommitGuess, ReadNextTurn,
     AnnounceResult, SetNextTurn, AnnounceTurn, DropTurnKey, AnnounceWin, Return, Goto, TypeOK
<1>6. ASSUME TimeoutStep, ~GuessStep(TurnWorker)
      PROVE  pc'[Main] = "serve"
  BY <1>2, <1>6 DEF TimeoutStep, TimeoutLock, CheckTimeout, Return, Goto, TypeOK
<1>7. CASE ListExpiredTurns \/ ListWaitingGames
  BY <1>2, <1>7 DEF ListExpiredTurns, ListWaitingGames, Goto, TypeOK
<1>8. CASE CancelStep(SecretWorker)
  BY <1>2, <1>8 DEF CancelStep, CancelBySecretTimeout, DropTurnKey, AnnounceCancel,
     Return, Goto, TypeOK
<1>9. ASSUME NEW t \in Threads \ {Main}, Fail(t)
      PROVE  pc'[Main] = "serve"
  BY <1>9 DEF Fail, Return, Goto, TypeOK
<1>10. CASE (\E p \in Players : DeletePlayer(p)) \/ Tick \/ UNCHANGED vars
  BY <1>10 DEF DeletePlayer, Tick, vars
<1> QED BY <1>1, <1>3, <1>4, <1>5, <1>6, <1>7, <1>8, <1>9, <1>10 DEF Next, ConnStep

LEMMA NextAlone ==
  ASSUME TypeOK, AloneInRecovery, [Next]_vars
  PROVE  AloneInRecovery'
<1> USE ThreadsFacts
<1>1. CASE Crash
  BY <1>1 DEF Crash, AloneInRecovery
<1>2. CASE pc[Main] = "serve"
  BY <1>1, <1>2, ServingSteps DEF AloneInRecovery
<1>3. CASE pc[Main] # "serve"
  <2>1. \A t \in Threads \ {Main} : pc[t] = "idle"
    BY <1>3 DEF AloneInRecovery
  <2>2. CASE RecoverStep \/ Restart \/ Fail(Main)
    <3>1. \A t \in Threads \ {Main} : pc'[t] = pc[t]
      BY <2>2 DEF RecoverStep, ListInProgress, RecoverGetTurn, RecoverSetTurn, RecoverAnnounce,
         RecoverWaiting, CancelStep, CancelBySecretTimeout, DropTurnKey, AnnounceCancel,
         Restart, Fail, Return, Goto, TypeOK
    <3> QED BY <2>1, <3>1 DEF AloneInRecovery
  <2>3. CASE (\E p \in Players : DeletePlayer(p)) \/ Tick \/ UNCHANGED vars
    <3>1. pc' = pc
      BY <2>3 DEF DeletePlayer, Tick, vars
    <3> QED BY <2>1, <3>1 DEF AloneInRecovery
  <2> QED BY <1>1, <1>3, <2>2, <2>3, RecoverySteps
<1> QED BY <1>2, <1>3

LEMMA NextRecovery ==
  ASSUME TypeOK, DuelInv, RecoveryInv, [Next]_vars
  PROVE  RecoveryHolds'
<1> USE ThreadsFacts
<1> DEFINE In == {"recGet", "recSet", "recMsg", "recWait"}
<1>0. /\ Main \in DOMAIN pc /\ Main \in DOMAIN mem /\ mem[Main] \in Locals
      /\ clock \in Nat /\ mem[Main].stamp \in Nat
      /\ AloneInRecovery /\ RecoveryHolds
  BY DEF TypeOK, Locals, RecoveryInv
<1>1. CASE Crash
  <2>1. pc'[Main] = "down"
    BY <1>1 DEF Crash
  <2> QED BY <2>1 DEF RecoveryHolds
<1>2. CASE pc[Main] = "serve"
  BY <1>1, <1>2, ServingSteps DEF RecoveryHolds
<1>3. CASE ListInProgress
  <2>1. /\ mem'[Main] = [ReadTurn(mem[Main]) EXCEPT !.stamp = clock] /\ UNCHANGED <<game, clock>>
        /\ pc'[Main] = IF game.status = "IN_PROGRESS" THEN "recGet" ELSE "recWait"
    BY <1>0, <1>3 DEF ListInProgress, Goto, db, env
  <2>2. mem'[Main].stamp = clock
    BY <1>0, <2>1, ReadTurnType DEF Locals
  <2> QED BY <1>0, <2>1, <2>2 DEF RecoveryHolds
<1>4. CASE RecoverGetTurn
  <2>1. /\ pc[Main] = "recGet" /\ UNCHANGED <<mem, clock, turnKey>>
        /\ pc'[Main] \in {"recWait", "recSet"}
        /\ pc'[Main] = "recWait" => turnKey # NoKey
    BY <1>0, <1>4 DEF RecoverGetTurn, Goto, redis, env
  <2> QED BY <1>0, <2>1 DEF RecoveryHolds
<1>5. CASE RecoverSetTurn
  <2>1. pc[Main] = "recSet" /\ pc'[Main] = "recMsg" /\ UNCHANGED <<mem, clock>>
    BY <1>0, <1>5 DEF RecoverSetTurn, Goto, env
  <2>2. turnKey' \in TurnKeys
    <3>1. mem[Main].mover \in Players
      BY <1>5, PublishedType DEF RecoverSetTurn, DuelInv, HandlerHolds, TurnInHand
    <3> QED BY <1>5, <3>1, WriteTurnKeyType DEF RecoverSetTurn
  <2>3. turnKey' # NoKey
    BY <2>2, NoKeyAssumption DEF TurnKeys
  <2> QED BY <1>0, <2>1, <2>3 DEF RecoveryHolds
<1>6. CASE RecoverAnnounce
  <2>1. pc[Main] = "recMsg" /\ pc'[Main] = "recWait" /\ UNCHANGED <<mem, clock, turnKey, game>>
    BY <1>0, <1>6 DEF RecoverAnnounce, Goto, env, redis, db
  <2> QED BY <1>0, <2>1 DEF RecoveryHolds
<1>7. CASE RecoverWaiting \/ CancelStep(Main) \/ Restart \/ Fail(Main)
  <2>1. pc'[Main] \notin In
    BY <1>0, <1>7 DEF RecoverWaiting, CancelStep, CancelBySecretTimeout, DropTurnKey,
       AnnounceCancel, Restart, Fail, Return, Goto, Home
  <2> QED BY <2>1 DEF RecoveryHolds
<1>8. CASE Tick
  <2>1. UNCHANGED <<pc, mem, game>> /\ clock' = clock + 1
    BY <1>8 DEF Tick, db
  <2> QED BY <1>0, <2>1 DEF RecoveryHolds
<1>9. CASE (\E p \in Players : DeletePlayer(p)) \/ UNCHANGED vars
  <2>1. UNCHANGED <<pc, mem, game, clock, turnKey>>
    BY <1>9 DEF DeletePlayer, vars, db, redis, env
  <2> QED BY <1>0, <2>1 DEF RecoveryHolds
<1> QED BY <1>0, <1>1, <1>2, <1>3, <1>4, <1>5, <1>6, <1>7, <1>8, <1>9, RecoverySteps DEF RecoverStep

(* RecoverActiveGames leaves every game in progress with a turn timer when *)
(* main begins to serve, unless the timer ran out since main read the      *)
(* clock (game_recovery.go:60-118).                                        *)
THEOREM TimersRecovered == Spec => RecoveryArmsTimer
<1>1. Init => RecoveryInv
  <2> SUFFICES ASSUME Init PROVE RecoveryInv
    OBVIOUS
  <2>1. pc[Main] = "serve"
    BY ThreadsFacts DEF Init, Home
  <2> QED BY <2>1 DEF RecoveryInv, AloneInRecovery, RecoveryHolds
<1>2. TypeOK /\ DuelInv /\ RecoveryInv /\ [Next]_vars => RecoveryInv'
  BY NextAlone, NextRecovery DEF RecoveryInv
<1>3. TypeOK /\ DuelInv /\ RecoveryInv =>
        [pc[Main] = "recWait" /\ pc'[Main] = "serve" /\ faults' = 0
           /\ game.status = "IN_PROGRESS"
         => turnKey # NoKey \/ clock > mem[Main].stamp]_vars
  BY DEF RecoveryInv, RecoveryHolds
<1> QED BY <1>1, <1>2, <1>3, Safety, PTL DEF RecoveryArmsTimer, Spec

-----------------------------------------------------------------------------
(* The service implements Duel: each step of a handler maps to a move of   *)
(* the duel or to none                                                     *)

MoveRecords == [by : Players, hit : BOOLEAN]

(* Each turn played has its one row. *)
LEMMA RowOfTurn ==
  ASSUME TypeOK, DuelInv, NEW k \in 1..(game.turn - 1)
  PROVE  /\ GuessOfTurn(k) \in guesses /\ GuessOfTurn(k).turn = k
         /\ \A g \in guesses : g.turn = k => GuessOfTurn(k) = g
<1>1. \E g \in guesses : g.turn = k
  BY DEF DuelInv, GuessesAlternate
<1>2. GuessOfTurn(k) \in guesses /\ GuessOfTurn(k).turn = k
  BY <1>1 DEF GuessOfTurn
<1> QED BY <1>2 DEF DuelInv, GuessesAlternate

LEMMA MovesType ==
  ASSUME TypeOK, DuelInv
  PROVE  Moves \in Seq(MoveRecords) /\ Len(Moves) = game.turn - 1
<1>1. game.turn - 1 \in Nat
  BY DEF TypeOK, GameRows, DuelInv, RowAgrees
<1>2. \A k \in 1..(game.turn - 1) : GuessOfTurn(k) \in GuessRows
  BY RowOfTurn DEF TypeOK
<1>3. Moves \in [1..(game.turn - 1) -> MoveRecords]
  BY <1>2 DEF Moves, MoveRecords, GuessRows
<1>4. Moves \in Seq(MoveRecords)
  BY <1>1, <1>3, SeqDef
<1> QED BY <1>1, <1>3, <1>4, LenProperties

(* The same two facts of the next state, where the invariant holds too. *)
LEMMA MovesNext ==
  (TypeOK /\ DuelInv =>
     /\ Moves \in Seq(MoveRecords) /\ Len(Moves) = game.turn - 1
     /\ \A k \in 1..(game.turn - 1), g \in guesses :
          g.turn = k => GuessOfTurn(k) = g)'
<1>1. TypeOK /\ DuelInv =>
        /\ Moves \in Seq(MoveRecords) /\ Len(Moves) = game.turn - 1
        /\ \A k \in 1..(game.turn - 1), g \in guesses :
             g.turn = k => GuessOfTurn(k) = g
  BY MovesType, RowOfTurn
<1> QED BY <1>1, PTL

(* A handler that leaves the rows alone leaves the duel alone. *)
LEMMA RowsKept ==
  ASSUME UNCHANGED db
  PROVE  UNCHANGED D!duelVars
BY DEF db, D!duelVars, Ready, Moves, GuessOfTurn

LEMMA StoreSecretPrepares ==
  ASSUME TypeOK, DuelInv, NEW t \in Conns, StoreSecret(t)
  PROVE  \E p \in D!Duelists : D!Prepare(p)
<1> DEFINE p == mem[t].actor
           g == SetSecret(game, p)
<1>1. p \in Players /\ game \in GameRows /\ clock \in Nat
  BY ThreadsFacts DEF StoreSecret, DuelInv, HandlerHolds, TypeOK
<1>2. game.status = "WAITING_SECRET" /\ ~game.secret[p] /\ UNCHANGED guesses
  BY DEF StoreSecret
<1>3. game.turn = 1 /\ game.winner = NoPlayer
  BY <1>1, <1>2 DEF DuelInv, RowAgrees, GameRows
<1>4. game' = g \/ game' = StartGame(g)
  BY DEF StoreSecret
<1>5. g \in GameRows /\ g.secret = [game.secret EXCEPT ![p] = TRUE]
  BY <1>1, GameRowTypes DEF SetSecret, GameRows
<1>6. g.status = game.status /\ g.turn = game.turn /\ g.winner = game.winner
  BY <1>1 DEF SetSecret, GameRows
<1> HIDE DEF g
<1>7. /\ game'.secret = g.secret /\ game'.turn = 1 /\ game'.winner = NoPlayer
      /\ game'.status \in {"WAITING_SECRET", "IN_PROGRESS"}
  BY <1>2, <1>3, <1>4, <1>5, <1>6 DEF StartGame, GameRows
<1>8. p \notin Ready /\ Ready' = Ready \cup {p}
  BY <1>1, <1>2, <1>5, <1>7 DEF Ready, GameRows
<1>9. Moves' = Moves
  BY <1>2, <1>3, <1>7 DEF Moves, GuessOfTurn
<1> QED
  BY <1>1, <1>2, <1>3, <1>7, <1>8, <1>9 DEF D!Prepare, D!Duelists, Players

LEMMA CommitGuessPlays ==
  ASSUME TypeOK, DuelInv, [Next]_vars,
         NEW t \in Conns \cup {TurnWorker}, NEW hit \in BOOLEAN, CommitGuess(t, hit)
  PROVE  D!Play(mem[t].actor, hit)
<1> DEFINE p   == mem[t].actor
           g   == AdvanceTurn(game, p)
           row == GuessRow(t, hit)
           n   == game.turn - 1
           mv  == [by |-> p, hit |-> hit]
<1>1. p \in Players /\ game \in GameRows /\ clock \in Nat
  BY ThreadsFacts DEF CommitGuess, DuelInv, HandlerHolds, TypeOK
<1>2. /\ game.status = "IN_PROGRESS" /\ game.mover = p
      /\ guesses' = guesses \cup {row}
      /\ game' = IF hit THEN FinishGame(g, p) ELSE g
  BY DEF CommitGuess, CanGuess
<1>3. game.startedAt > 0 /\ game.winner = NoPlayer /\ game.turn \in Nat /\ game.turn >= 1
  BY <1>1, <1>2 DEF DuelInv, RowAgrees, GameRows
<1>4. /\ g \in GameRows /\ g.turn = game.turn + 1 /\ g.status = game.status
      /\ g.secret = game.secret /\ g.winner = game.winner
  <2>1. g \in GameRows
    BY <1>1, GameRowTypes
  <2> QED BY <1>1, <2>1 DEF AdvanceTurn, GameRows
<1>5. row.turn = game.turn /\ row.player = p /\ row.hit = hit
  BY DEF GuessRow
<1> HIDE DEF g, row
<1>6. /\ game'.turn = game.turn + 1 /\ game'.secret = game.secret
      /\ game'.status = IF hit THEN "FINISHED" ELSE "IN_PROGRESS"
      /\ game'.winner = IF hit THEN p ELSE NoPlayer
  BY <1>2, <1>3, <1>4 DEF FinishGame, GameRows
<1>7. Ready = D!Duelists /\ Ready' = Ready
  BY <1>3, <1>6 DEF DuelInv, RowAgrees, BothSecretsSet, Ready, D!Duelists, Players
<1>8. Moves \in Seq(MoveRecords) /\ Len(Moves) = n /\ n \in Nat
  BY <1>3, MovesType
<1>9. p = D!OnMove
  <2>1. n % 2 = 0 <=> game.turn % 2 = 1
    BY <1>3
  <2>2. p = Mover(game.turn)
    BY <1>2, <1>3 DEF DuelInv, RowAgrees
  <2> QED BY <1>8, <2>1, <2>2 DEF D!OnMove, Mover
<1>10. Moves' = Append(Moves, mv)
  <2>1. TypeOK' /\ DuelInv'
    BY NextType, NextDuel
  <2>2. Moves' \in Seq(MoveRecords) /\ Len(Moves') = n + 1
    BY <1>3, <1>6, <2>1, MovesNext
  <2>3. mv \in MoveRecords
    BY <1>1 DEF MoveRecords
  <2>4. ASSUME NEW k \in 1..n
        PROVE  Moves'[k] = Moves[k]
    <3>1. GuessOfTurn(k) \in guesses /\ GuessOfTurn(k).turn = k
      BY RowOfTurn
    <3>2. GuessOfTurn(k)' = GuessOfTurn(k)
      BY <1>2, <1>3, <1>6, <2>1, <3>1, MovesNext
    <3> QED BY <1>3, <1>6, <3>2 DEF Moves
  <2>5. Moves'[n + 1] = mv
    <3>1. ASSUME NEW k, k = game.turn
          PROVE  GuessOfTurn(k)' = row
      BY <1>2, <1>3, <1>5, <1>6, <2>1, <3>1, MovesNext
    <3> QED BY <1>3, <1>5, <1>6, <3>1 DEF Moves
  <2> QED BY <1>8, <2>2, <2>3, <2>4, <2>5, AppendProperties, SeqEqual
<1> QED BY <1>1, <1>2, <1>6, <1>7, <1>9, <1>10, <1>3 DEF D!Play

LEMMA CancelCallsOff ==
  ASSUME TypeOK, DuelInv, NEW t \in Threads, CancelBySecretTimeout(t), game' # game
  PROVE  D!CallOff
<1>1. /\ game \in GameRows /\ game.status = "WAITING_SECRET" /\ UNCHANGED guesses
      /\ game' = CancelGame(game, mem[t].stamp)
  BY DEF CancelBySecretTimeout, TypeOK
<1>2. game.winner = NoPlayer /\ ~BothSecretsSet(game)
  BY <1>1 DEF DuelInv, RowAgrees, GameRows
<1>3. /\ game'.status = "FINISHED" /\ game'.turn = game.turn
      /\ game'.secret = game.secret /\ game'.winner = game.winner
  BY <1>1 DEF CancelGame, GameRows
<1>4. Ready # D!Duelists
  BY <1>2 DEF Ready, D!Duelists, BothSecretsSet
<1>5. Ready' = Ready /\ Moves' = Moves
  BY <1>1, <1>3 DEF Ready, Moves, GuessOfTurn
<1> QED BY <1>1, <1>3, <1>4, <1>5 DEF D!CallOff

(* Every handler step is a step of the duel or invisible to it: the whole  *)
(* service (usecase/game_play.go, handle_timeout.go, game_recovery.go)     *)
(* implements the game the README's rules describe.                        *)
THEOREM Refinement == Spec => ImplementsDuel
<1>1. Init => D!Init
  <2> SUFFICES ASSUME Init PROVE D!Init
    OBVIOUS
  <2>1. Ready = {} /\ game.winner = NoPlayer /\ game.status # "FINISHED"
    BY DEF Init, Ready
  <2>2. Moves = <<>>
    <3>1. Len(Moves) = 0 /\ Moves \in Seq(MoveRecords)
      BY InitType, InitDuel, MovesType DEF Init
    <3> QED BY <3>1, EmptySeq
  <2> QED BY <2>1, <2>2 DEF D!Init
<1>2. TypeOK /\ DuelInv /\ [Next]_vars => [D!Next]_(D!duelVars)
  <2> SUFFICES ASSUME TypeOK, DuelInv, [Next]_vars
               PROVE  D!Next \/ UNCHANGED D!duelVars
    OBVIOUS
  <2>1. CASE UNCHANGED db
    BY <2>1, RowsKept
  <2>2. ASSUME NEW t \in Conns, StoreSecret(t)
        PROVE  D!Next
    BY <2>2, StoreSecretPrepares DEF D!Next
  <2>3. ASSUME NEW t \in Conns \cup {TurnWorker}, NEW hit \in BOOLEAN, CommitGuess(t, hit)
        PROVE  D!Next
    <3>1. mem[t].actor \in D!Duelists
      BY <2>3, ThreadsFacts DEF CommitGuess, DuelInv, HandlerHolds, D!Duelists, Players
    <3> QED BY <2>3, <3>1, CommitGuessPlays DEF D!Next
  <2>4. ASSUME NEW t \in Threads, CancelBySecretTimeout(t)
        PROVE  D!Next \/ UNCHANGED db
    BY <2>4, CancelCallsOff DEF D!Next, CancelBySecretTimeout, db
  <2> QED BY <2>1, <2>2, <2>3, <2>4, RowWriters, RowsKept
<1> QED BY <1>1, <1>2, Safety, PTL DEF Spec, D!Spec, ImplementsDuel

=============================================================================
