# NumDuel in TLA+

NumDuel is a two-player number-guessing duel. Each player registers a secret
of four different digits, the players guess in turn, the judge answers for each
position whether it is a hit, and the first guess with four hits wins. The backend is one Go
process in front of PostgreSQL and Redis; the frontend is a React page that
talks to it over HTTP and one WebSocket per tab. This directory holds the
specification of that program, its model-checking configurations and the
machine-checked proofs about it.

All paths below are relative to the repository's root, with `backend/` and
`frontend/` for its two parts.

## 1. Inventory

| Component | State it keeps | Operations | Interacts with |
|---|---|---|---|
| Game play (`usecase/game_play.go`, `game_logic.go`, `model/game.go`) | rows of `games`, `guesses`, `match_histories`, `users.win_count` | `SetSecretNumber`, `SubmitGuess`, their notifiers | turn timer, guess and secret locks in Redis, hub |
| Turn timer and locks (`redis/store.go`) | `game:<id>:turn` with a deadline and a TTL; `lock:...`, `jwt:revoked:...`, `user:<id>:force_logout_before`, `backup:status` | `SetTurn`, `GetTurn`, `DeleteTurn`, `ListExpiredTurns`, `AcquireLock`, the setters of the others | everybody |
| Turn timeout (`worker/turn_timeout.go`, `usecase/handle_timeout.go`) | its locals between two Redis calls | `tick`, `HandleTimeout` → `SubmitGuess` with `isAuto` | game play |
| Secret-setup timeout (`worker/secret_setup_timeout.go`, `usecase/game_recovery.go`) | its locals | `tick`, `CancelBySecretTimeout` | game play |
| Start-up recovery (`main.go`, `usecase/game_recovery.go`) | none of its own | `RecoverActiveGames`, before routes and workers start | games rows, turn timer |
| Matching (`usecase/matching.go`) | rows of `matching_queue` | `Start`, `Cancel`, `Status` | creates the game |
| Judge and validation (`usecase/judge.go`, `game_validate.go`, `crypto/secret.go`, `random.go`) | none | `ValidateFourDigits`, hash a secret, verify a guess against it, draw a number | game play |
| Game state view (`usecase/game.go`) | none | `buildGameState`, `ensureGamePlayer` | reads games and guesses |
| WebSocket hub and handler (`websocket/`) | `Hub.clients` by user, session key in Redis, connection log | `Register`, `Disconnect`, `SendToUser`, `Handle` | game play, WS authentication |
| WS authentication (`usecase/ws_auth.go`) | `ws_connection_logs`, `users.last_activity_at` | `Authenticate`, `RecordConnection`, `TouchActivity`, `CloseConnectionLog` | hub, user rows |
| Login, registration, logout (`usecase/auth*.go`) | users, tokens, login logs | `Register`, `Login`, `Logout` | refresh tokens |
| Refresh tokens (`usecase/auth_refresh.go`, `repository/refresh_token.go`) | `refresh_tokens` (family, used, revoked) | `Refresh`, reuse handling, cleanup worker | login, auto-logout |
| Auto-logout (`usecase/auto_logout.go`) | online flag, tokens, a force-logout key | `Run` every tick | refresh tokens, hub |
| User rows (`repository/user.go`) | `users` | whole-row `Save` and column updates | nearly everybody |
| Administration (`usecase/admin.go`) | users, locks of its own | `DeleteUser`, `RebuildRanking`, `SyncBackup` | matching, ranking, backup |
| Ranking (`usecase/ranking.go`) | `rankings` | `Rebuild`, `RunScheduledRebuild` | users, admin |
| Backup (`usecase/backup.go`, `repository/backup.go`) | the copy database, a watermark in Redis | `RunSync` | every table |
| Logs and retention (`usecase/log_retention.go`) | append-only log tables | `Run` | – |
| Rate limiter and middleware (`middleware/`) | a window of time stamps per key | `allow` | HTTP |
| Frontend game state (`hooks/useGameState.tsx`, `useGamePage.ts`) | the reducer's state | one case per event | WebSocket events |
| Frontend WebSocket (`hooks/useWebSocket.tsx`) | the socket, a reconnect timer | `connect`, `onclose`, `onmessage` | hub |

### What is hard about it

* **Interleaving.** A user may have two connections (a replaced one still
  serves the message it has read). Both, and the turn-timeout worker, can be in
  `SubmitGuess` of one turn. Only the games row is locked while the guess is
  committed; everything before the transaction (the Redis guess lock, the check
  that the player exists, the worker's two reads of the timer) and after it (the
  activity log, reading the next turn, the events, `SetTurn`) is outside.
* **Two stores.** The turn is in PostgreSQL and its timer in Redis, written
  after the commit by whoever committed. They are never written together.
* **Failure in the middle.** The notifiers return at the first error. What was
  committed stays, the rest (events, timer) does not happen.
* **Crash and restart.** Nothing of a notifier survives; `RecoverActiveGames`
  has to make up for it before the server accepts anything.
* **Time.** Turn deadline, key TTL, lock TTL, secret-setup deadline and the two
  pollers all run on the same seconds.

The full list, one entry per place where it bites, is under `hazards` in
`PROJECT.json`. The properties are for that list.

### What makes each component correct

* *Game play*: one guesses row per turn, alternating; games, match_histories
  and users agree on a result; a finished game is final; it implements a duel.
* *Turn timer*: it lags behind the database, never runs ahead of it, and never
  names the wrong player.
* *Turn timeout*: never plays before the turn's time is over; plays for a silent
  player eventually.
* *Secret-setup timeout*: ends games that wait, and only those that nobody played.
* *Recovery*: a game in progress has a timer when the server opens.
* *Matching*: nobody is in two active games; two ready users who wait are matched;
  nobody is stuck behind a bad queue entry.
* *Hub*: a user with an open registered connection can be sent to; nothing of a
  session outlives its handlers; a tab always has a way back.
* *Refresh tokens*: at most one live token in a family; after reuse none.
* *User rows*: a win is counted, unless another whole-row save overlaps it.
* *Judge*: judging by hashes is judging by digits; what is drawn is a valid number.
* *Rate limiter*: no window lets more than the limit through, and nobody is refused without cause.
* *Access tokens*: neither a revoked jti nor a deleted user's old token gets in.
* *Backup*: every row the next sync will not look at is in the copy as it is, but for what was
  committed while a sync ran.
* *Ranking*: however rebuilds overlap, the table is one list, ranked by wins and names.
* *Auto-logout*: an inactive user is logged out, an active one is not.
* *Client view*: a page that has had everything sent to it shows each guess of its player once
  and knows when the game is over.

## 2. Modules

| Module | What it is |
|---|---|
| `Duel` | abstract specification of one game: secrets, alternating moves, winner, called off |
| `GameService` | the game as the backend runs it: game play, turn timer, both timeout workers, recovery, crash, failure |
| `MCGameService` | connections and owners for TLC |
| `GameServiceProofs` | type correctness, the safety properties, the first turn's time, the recovery's timers and the refinement of `Duel`, for every instance |
| `Matching` | the queue: `Start` and `Cancel` of any number of tabs, the administrator's `DeleteUser` |
| `MCMatching` | requests and callers for TLC |
| `MatchingProofs` | the invariant of `Matching` and the properties that follow, for every instance |
| `WsHub` | the connections of one user: browser tabs, handlers, hub, session key |
| `MCWsHub` | connections and tabs for TLC |
| `WsHubProofs` | the safety of `WsHub`, for every instance |
| `Accounts` | the sessions of one user: `users` and `refresh_tokens` and everybody who writes them |
| `MCAccounts` | requests for TLC |
| `AccountsProofs` | types, one live token per family and its end, for every instance |
| `Api` | the HTTP front door: limiters, registration, access tokens, `Auth`, the cut-off |
| `MCApi` | requests and limits for TLC |
| `ApiProofs` | types, the limiters, revocation and deletion, for every instance |
| `Upkeep` | whole-row saves of users, the ranking and the backup |
| `MCUpkeep` | the symmetries of `Upkeep` for TLC |
| `UpkeepProofs` | types, wins, the ranking and the backup, for every instance |
| `Judge` | validation, hashes, judging and the automatic draw, as operators |
| `JudgeProofs` | what judging and drawing compute, proved |
| `DuelPage` | one player's page: reducer, socket, snapshots and announcements; it judges with `Judge` |
| `MCDuelPage` | numbers for TLC |
| `DuelPageProofs` | types, the guesses and the end the page shows, for every instance |

`Matching` ends where `GameService` begins: `CreateGame` inserts the row that is
`GameService`'s `Init`, and what `EndGame` stands for in `Matching` is what
`GameService` models. `WsHub` is where `GameService`'s connections come from: one
connection handles one message at a time, and a replaced one may still be handling its last.
`DuelPage` takes the transactions of `GameService` as single steps and cuts what follows them:
announcing, reading a snapshot, receiving. `Accounts`, `Api` and `Upkeep` share the
`users` row, each with the columns its properties are about: who is deleted and active with which
refresh tokens, who is let in, what a row saved over another loses. `SessionStore.DeleteUser`,
which logout and deletion call as well, is a closer of `WsHub`.

### GameService: state

| Variable | In the program |
|---|---|
| `game` | the `games` row: status, the two secret hashes (set or not), `current_turn`, `current_player_id`, `winner_id`, `started_at`, `updated_at` |
| `guesses` | rows of `guesses`: turn, player, `is_auto`, and whether four hits |
| `history`, `winCount` | rows of `match_histories`; `users.win_count` |
| `deleted` | players with `deleted_at` set |
| `turnKey` | `game:<id>:turn`: payload and the second its TTL runs out (`gone`) |
| `guessLock`, `secretLock` | per player, the second the `SET NX EX` lock lapses, 0 if free |
| `pc`, `mem` | where each goroutine is in its handler, and the locals it carries over a database or Redis call |
| `lastEvent` | kind of the event last sent to the players |
| `clock`, `faults`, `crashes` | seconds; bounds on the environment |

### GameService: actions

A handler is cut where another goroutine can get in, around each Redis call and
each database access, and each piece is one action. A transaction is one
action: all transactions on a game start with `SELECT ... FOR UPDATE` of its row
and touch nothing another of them does not lock.

| Actions | Code |
|---|---|
| `AcquireSecretLock`, `CheckPlayer`, `RejectSecret`, `StoreSecret` | `SetSecretNumber` (game_play.go:24-98) |
| `ReadStarted`, `SetFirstTurn`, `AnnounceStart` | `notifyGameStart` (231-254) |
| `AcquireGuessLock`, `CheckPlayer`, `RejectGuess`, `CommitGuess` | `SubmitGuess` (100-229) |
| `ReadNextTurn`, `AnnounceResult`, `SetNextTurn`, `AnnounceTurn`, `DropTurnKey`, `AnnounceWin` | `notifyGuessResult` (278-318) |
| `ListExpiredTurns`, `TimeoutLock`, `CheckTimeout` (twice) | `TurnTimeoutWorker.tick`, `HandleTimeout`; its guess goes on through `SubmitGuess`'s own actions |
| `ListWaitingGames`, `CancelBySecretTimeout`, `DropTurnKey`, `AnnounceCancel` | `SecretSetupTimeoutWorker.tick`, `CancelBySecretTimeout` |
| `Restart`, `ListInProgress`, `RecoverGetTurn`, `RecoverSetTurn`, `RecoverAnnounce`, `RecoverWaiting` | `main`, `RecoverActiveGames` |
| `Fail`, `Crash`, `DeletePlayer`, `Tick` | error returns; death of the process; `AdminUseCase.DeleteUser`; the clock and Redis expiry |

Abstractions, and why they are sound for the properties stated:

* Digits are not modelled. A guess hits or not, freely, and at turn `MaxTurn`
  always; bad digits are the second disjunct of the two `Acquire...` actions, after
  the lock was taken, as in the code.
* `TimeoutLock` reads the clock anywhere between the listing and the lock:
  `HandleTimeout` takes `now` before the lock, and other games of the same tick
  may come first.
* `validateTimeoutGame` answers nil on every mismatch, so it has no effect on
  the state and is no action of its own. A failure of its read is `Fail` at the check.
* An activity log that cannot be written has the same effect as `FindByID`
  failing after it: the handler returns. Both are `Fail`.
* The application's clock and Redis's are one clock. Redis does not lose keys
  before their TTL and PostgreSQL does not lose commits.
* SIGTERM is a `Crash`: `main` closes the server without waiting for workers.
* `winCount` counts the win of this game only. Other components that save the
  whole users row can overwrite it; that is `WinsCounted` of `Upkeep`, and
  `ResultRecorded` speaks about game play alone.

### Matching: state

| Variable | In the program |
|---|---|
| `queue` | committed rows of `matching_queue`, all WAITING: user and `created_at` |
| `games` | committed games, with the two entries each was made of, and whether it is over |
| `deleted` | users with `deleted_at` set |
| `pc`, `mem` | where each request is, and its locals: the `created_at` of its insert, the rows of its snapshot not visited yet, the two rows it has locked, the user to be deleted |
| `clock` | the next `created_at` |

### Matching: actions

| Actions | Code |
|---|---|
| `StartCheckActive`, `StartCheckWaiting` | `Start` before its transaction (matching.go:50-76) |
| `InsertAndList`, `LockNext` | `Insert`, `ListByStatusForUpdate` (matching.go:77-83, matching_queue.go:48-57): snapshot, then row by row |
| `WaitAlone`, `RejectPair`, `CheckFirst`, `CheckSecond`, `CreateGame` | `matchPlayers` (132-167) and the commit |
| `Cancel`, `Erase` | `Cancel` (104-111) |
| `AdminCheck`, `AdminDelete`, `AdminCommit` | `DeleteUser` (admin.go:76-126): the check outside, the DELETE, the commit |
| `EndGame`, `Abort` | the game is played to its end; an error or a crash rolls the transaction back |

What the model takes from PostgreSQL, whose default READ COMMITTED the code runs under
(`WithTx` sets no isolation level):

* A statement sees what was committed when it began, and the transaction's own writes.
  What a transaction has written is seen by nobody else before it commits, so the last
  statement and the commit are one step, and an error undoes everything at once.
* `ORDER BY created_at LIMIT 2 FOR UPDATE` takes the rows of its snapshot in
  order, waits for a row somebody else has locked, and skips it if it has been deleted by
  then. A row inserted since is not in the snapshot.
* A `DELETE` works on the rows its snapshot has and takes its locks together
  with its commit. PostgreSQL takes them one by one in no order the program chooses; a circle
  with a listing that this could form is broken by PostgreSQL, which makes one
  of the transactions fail, and a failing transaction is `Abort`.
* Two readings of `created_at` differ (microseconds). Equal ones would be
  listed in an order the code does not define.

Left out: the `MATCHED` notification (its errors are ignored and it changes nothing
here), the refusal of masters (`Users` are those who may start), tokens and the force-logout
key that `DeleteUser` also writes (`Accounts`, `Api`), and other administrators (the lock of
`DeleteUser` is per administrator). `matchingPlayerReady` reads the user and
the games in one step; only a whole game end and deletion between the two could tell.

### WsHub: state

| Variable | In the program |
|---|---|
| `open`, `noticing` | sockets that are open; sockets closed by either side whose `onclose` has not run |
| `pc` | where `Handle` is for each connection; `"serving"` is its read loop with a `userID`, `"drop"` and `"forget"` are `onDisconnect` |
| `authed`, `watched` | handlers that have put a token into `authCh`; connections whose watchdog has not fired |
| `hub`, `key` | the user's entry in `Hub.clients`; `ws:user:<id>` in Redis |
| `closer` | where a `SessionStore.DeleteUser` is |
| `tab` | per tab: `wsRef`, `shouldConnectRef` (`live`), `connected`, the retry timers not fired, `reconnectAttemptRef`, refreshes under way, and whether RECONNECT_FAILED was emitted since the last opening |
| `mishaps` | bound on the environment |

### WsHub: actions

| Actions | Code |
|---|---|
| `Authenticate`, `RecordConnection`, `Register`, `SetUser`, `Reply` | `Handle` on AUTH (handler.go:82-112), cut at each database, hub and Redis call |
| `RecordFails`, `Refuse` | its error returns; what `handleWsError` does with the answer |
| `ReadError`, `Drop`, `Forget` | `ReadMessage` fails; `onDisconnect` (69-75, 155-162) |
| `Watchdog` | the five-second goroutine (59-66) |
| `CloserDisconnect`, `CloserDelKey` | `SessionStore.DeleteUser` (hub.go:111-117), for logout, deletion, token reuse, auto-logout |
| `OnClose`, `Retry`, `Login`, `Logout`, `RefreshDone` | `useWebSocket.tsx`: `onclose`, the timer's `connect`, the effect, `disconnect`, the end of `handleWsError` |
| `Lose` | the network |

A message of the browser is handled in one step with its effect on the refs,
because the browser runs one callback at a time; only the closing of a socket
and the `onclose` it causes are apart, as they are in the browser. A connection that cannot
be made goes straight to `noticing`. Opening and `onopen` are one step. The
TTL of `ws:user` is left out: the code writes and deletes the key and never reads
it. Of a refused AUTH the model keeps the three things the tab can do: refresh its tokens on
`token_expired`, disconnect on `unauthorized`, show any other error. Pings and `reconnect()`, which
nobody calls, are left out. Connections whose handler, socket, watchdog and `onclose` are all over are
reused under the same name.

`Timely` says that the code's delays (one second and more before a retry, five
before the watchdog) outlast every reaction already due. `hubtabs` assumes it,
because a server slower than its watchdog closes every connection for ever; the
theorems hold for either value, so the three invariants do not rest on it. The DEL of `ws:user` (`Forget`, `CloserDelKey`) is taken to succeed. The code ignores its error
(handler.go:158), and a key that stays changes nothing else, since nobody reads it.

### Accounts: state and actions

| Variable | In the program |
|---|---|
| `user` | the `users` row: `deleted_at` set or not, `last_activity_at` |
| `token` | rows of `refresh_tokens`: status, family, when issued, when ended; a row the clean-up deleted is `"gone"` |
| `frozen` | `AutoLogoutUseCase.Now`: 0 while nil |
| `pc`, `mem` | where each request, the worker and the administrator are; the rows an UPDATE's snapshot has, the user row read |
| `clock`, `crashes` | the time; bound on restarts |

| Actions | Code |
|---|---|
| `LoginFind`, `LoginCommit` | `Login` up to and with its transaction |
| `RefreshFind`, `RefreshExpire`, `RotateLock`, `RotateCommit` | `Refresh`: the look outside, the expired row, the transaction with its row lock |
| `RevokeRows`, `EndCommit` | the UPDATE that revokes a family or all of a user's tokens, and the rest of the transaction, for reuse, logout, `DeleteUser` and auto-logout |
| `Logout`, `AdminFind`, `AdminForce`, `WorkerTick`, `WorkerForce` | what comes before that |
| `Cleanup`, `Request`, `RequestFails`, `Restart`, `Tick` | the clean-up worker; `ActivityUpdate`; a rolled-back transaction; the process; time |

An UPDATE takes the rows that were live when it started, waits for their locks and looks at
each again, as PostgreSQL does. `Users.Update` is GORM's `Save` and writes every column back.

### Api: state and actions

| Variable | In the program |
|---|---|
| `user` | the `users` row of one name: none, active or deleted |
| `token` | access tokens: `iat` and `exp`, cut to whole seconds |
| `revoked`, `cutoff` | `jwt:revoked:<jti>` and when it lapses; `user:<id>:force_logout_before` |
| `hits` | the lists of `middleware.RateLimiter`; a hit is a time and a number, so that two at the same time are two |
| `pc`, `mem`, `admin`, `worker` | requests, `DeleteUser`, the auto-logout of this user |
| `frozen`, `clock`, `sends`, `runs` | the worker's clock; the time in ticks; bounds |
| `log` | history: what the limiters let through and refused, the cut-off of a deletion, whether a stale row undid one, whether the worker set a cut-off back |

`mem[r].late` and `mem[r].gone` are history too: whether the jti had been revoked, and which
deletion was done, when the request came.

| Actions | Code |
|---|---|
| `ArrivePublic` | `RateLimitPublic`, one list per path |
| `RegisterFind`, `RegisterCreate`, `FindActive`, `IssueCommit` | `Register`; the user and the commit of `Login` and `Refresh` |
| `ArriveProtected`, `IsRevoked`, `CutOff`, `FindUser`, `UserLimit` | the middleware `Auth` check by check, `UserRateLimit` |
| `Call`, `LogoutStart`, `Revoke`, `LogoutRead`, `LogoutSave` | any other handler; `Logout` |
| `AdminFind`, `AdminForce`, `AdminCommit` | `DeleteUser`: cut-off first, transaction second |
| `WorkerTick`, `WorkerForce`, `WorkerRead`, `WorkerSave` | `logoutUser` with the frozen clock |
| `RequestFails`, `Tick` | an error; time |

A refresh needs some issued token and no more: which refresh tokens work is `Accounts`. A failure
between two checks of `Auth` refuses the request. `Refresh` takes its time (auth_refresh.go:24) before
it reads the user again (87); `FindActive` does both at once. The properties compare a token's times
with those of a deletion, and an earlier time only makes the token older.

### Upkeep: state and actions

| Variable | In the program |
|---|---|
| `rows`, `backup` | `users` and `rankings` in the database and in the backup: wins, deleted, rank, `updated_at` |
| `status` | `backup:status` in Redis |
| `pc`, `mem` | transactions that save a user, rebuilds, syncs, and what each has read |
| `won`, `dirty`, `gone`, `late` | history: wins in `match_histories`; users with a win committed inside another save; users ever deleted; rows committed while a sync ran, or with a clock the last sync had passed |

| Actions | Code |
|---|---|
| `ReadUser`, `SaveUser`, `SaveFails` | `incrementUserWinCount`, `TouchActivity` and the other activity writers, `DeleteUser` |
| `StartRebuild`, `DeleteRanking`, `DeleteWaits`, `InsertRanking` | `Rebuild`: its read, the DELETE with its wait, INSERT and commit |
| `StartSync`, `ReadRows`, `CopyRows`, `SyncFails`, `SetOk`, `ReadAgain`, `SetError` | `RunSync` with its attempts, `Sync` table by table, the statuses |

What `Rebuild` reads is any correctly sorted list (`ListOf`) of the users it does not leave out;
names decide among equal wins, so there is only one.
The `stamp` of a row is the clock of whoever wrote it, read before the commit, so it can be
older than the commit; a status has whole seconds (RFC 3339). Two of the seven tables
are there, the first a table that others write at any time and the second the one that is replaced as a whole.

### Judge and DuelPage

`Judge` has no state. HMAC-SHA256 is an injective function of what is hashed (`Digest`): slot,
position and digit, within one game. `GenerateGuessNumber` is the set of numbers the shuffle can end with.

| Variable of `DuelPage` | In the program |
|---|---|
| `game`, `hidden` | the `games` row and each player's `guesses` by turn; who has set a number |
| `conn`, `inbox`, `wire` | the player's socket, what the page sent, what is on its way to the page |
| `thread` | goroutines that announce a guess (`by`, `nth`, the `guessId` of the code) or answer `SYNC_REQUEST`, with what they read |
| `load` | the one `GET` of the game |
| `page` | `GameViewState`, and whether the page was left |
| `mixed` | history: the page may differ, see below |
| `mishaps`, `sends` | bounds |

| Actions | Code |
|---|---|
| `OppActs`, `AutoGuess`, `Cancel`, `TakeMessage` | one whole transaction of a handler of `GameService`, or its refusal |
| `ReadBack`, `TellResult`, `TellTurn`, `TellOver`, `AnnounceFails` | `notifyGuessResult`, `notifyGameStart`, event by event |
| `BuildState`, `SendState`, `LoadReads`, `LoadFails`, `LoadArrives` | `buildGameState` (the game, then the guesses), and the two ways it is asked for |
| `Receive`, `Submit`, `Leave` | the reducer and the subscription of `useGamePage`; its input; `closeResult` |
| `Drop`, `Reconnect` | the socket; `SYNC_REQUEST` on each connection |

Nobody is deleted here, so no request is refused with `not_found`, on which the page leaves
(useGamePage.ts:92); every other refusal only shows a message. Deletion during a game is in `GameService`.

A page can rightly differ from the database when a message to it was lost, when results of its
player were announced out of order (`Overtakes`), when its last snapshot was read while a guess
was being announced or before a transaction that followed, or when that snapshot was the one
`notifyGameStart` sends, taken after the game had ended: the turn that follows it puts the page back.
`mixed` says so, and becomes false again with the next clean snapshot. The properties speak of a
page that has no such excuse and nothing on its way to it; what happens with the excuse is listed
under *Also met*.

## 3. Runs

| Run | Instance | Question | Result |
|---|---|---|---|
| `turns` | 3 connections (P1 has two), 2 turns, clock 2, a deletion | `TypeOK`, `TimerNotAhead`, `GuessesAlternate`, `DuelInv`, `NoAutoGuessInFirstTurn`, `ImplementsDuel` | hold |
| `failures` | 2 connections, `MaxTurn` 1, clock 3, 1 failing call, 1 crash, fairness | `ResultRecorded`, `CancelledNeverPlayed`, `FinishedIsFinal`, `RecoveryArmsTimer`, `WaitingResolves`, `FinishAnnounced` | hold |
| `autoguess` | a worker that is never late | `FirstTurnIsPlayed` | **violated** |
| `tabs` | users A (two tabs) and B, 3 entries, a deletion, B's request may fail, fairness | `TypeOK`, `FirstComeIsPlayer1`, `OneGamePerSingleTab`, `MatchingInv`, `MatchConsumesEntries`, `InnocentsStay`, `RequestsReturn` | hold |
| `twogames` | A (two tabs), B, C, 4 entries, nothing fails | `OneActiveGame` | **violated** |
| `hubtabs` | a tab with two sockets, another with one, 1 mishap, 2 retries, `Timely`, fairness | `TypeOK`, `OpenIsReachable`, `NothingOutlivesHandlers`, `NeverStranded`, `AuthenticatedOrClosed`, `Settles` | hold |
| `sessions` | 2 requests, worker, administrator, 3 tokens, clock 2, a restart | `TypeOK`, `OneLivePerFamily`, `FamilyEndsForGood` | hold |
| `idle` | 1 request, 2 tokens, clock 4, fairness, nothing fails | `IdleLoggedOut` | **violated** |
| `shown` | both players, the timeout worker, 2 numbers, 2 submissions, 2 goroutines at once; one guess with 1 mishap, three guesses with none | `TypeOK`, `GuessesShown`, `EndShown` | hold |
| `count` | one guess, 1 mishap | `OpponentCountShown` | **violated** |
| `copies` | 2 users, 4 operations among 2 saves, 2 rebuilds and 2 syncs, 2 attempts, clock 3 | `TypeOK`, `WinsCounted`, `RankingIsOneList`, `BackupComplete` | hold |
| `door` | 2 requests, 2 access tokens, 3 sends, one run of the administrator and of the worker, clock 5 | `TypeOK`, `RateKept`, `RevokedStaysOut`, `DeletedStaysOut` | hold |

**Bounds of `GameService`.** `TurnDuration`, `SecretSetup` and `GameLockTTL` are one second, the
clock runs to 2 or 3: long enough for a setup timeout, for a turn to expire and its
key to lapse, and for a lock to be taken, to lapse and to be taken again within
one handler. One failure and one crash can fall at any step; a second of either adds
only longer sequences of the same kind, and the proofs do not need the bound. Two connections of
one player are the number that can be in a handler at once: the hub replaces the
one before. The players are not
symmetric (`P1` opens); the two connections of one player in `turns` are, and
`SameOwner` says so to TLC. `turns` has no liveness property, for which that would not be sound.
The stale notifier of an earlier turn of the same player needs a third turn; that case is
left to the theorems, which know no bound.

**`Matching`.** `MaxStarts` bounds the entries ever inserted. Three are a pair and one that waits: a
listing that waits for another and skips what that one deleted, and a user who is matched
again after a game. Four, in `twogames`, are two pairs. `Failing` and `Deletable` name who
may fail and who may be deleted; in `twogames` nobody does, so that neither is the cause.

**`WsHub`.** A mishap is a lost connection, one that cannot be
made, a refused AUTH, a failing connection log, a logout or a forced disconnection;
replacements, late callbacks and watchdogs are free. A tab uses a connection again when everything about the old one is over, so the
tab with two can have an old socket that closes late beside its new one, while the other tab replaces
either; that is where `Settles` could fail. Its `MaxAttempts` is 2 (5 in the code): with 1, a tab that
reconnects beside an open socket gives up before it can loop, and the loop is what the run looks for.

**`Accounts`.** Three tokens are two sessions, one with a rotation, or a chain of two
rotations. `MaxBusy` 2 overlaps any two operations. `RefreshLife` 1 and `Grace` 0 reach expiry and
clean-up, `SessionTimeout` 0 makes a user inactive at the next second.
In `idle` expiry is out of reach, so that it cannot end the session in the worker's place.

**`Upkeep`.** Two users give a list whose order can change; two saves of one row, two rebuilds and two
syncs are what can go wrong in pairs, any four of them in a behaviour and two at once. `Second` 2
puts instants within a second, which the status cuts off.

**`DuelPage`.** In `shown` two goroutines are at work at once (`TwoAtWork`), the GET beside them: one that is slow and
one that passes it, which is enough for turns to be announced after the end (the opponent's slow `notifyGameStart` and
the winning guess), and for one announcement to overtake another. Besides there is one bound for each of two hazards
(`FirstGuessOrInPlay`). Up to the first guess, winning or losing, with the automatic guess as rival and one lost socket
or broken announcement, nothing else is bounded: one guess is enough to be lost, doubled or somebody else's. One guess
of the player overtaking another takes three turns. From the second guess on there is no mishap, the game is loaded and
in play, and at most two messages are under way (`InPlay`); two guesses of the player then do overtake each other, and
without the excuse `Overtakes` the run fails. The theorems have no such bounds. The two numbers differ in one digit.
`Watched` stops where the player leaves the page, since nothing is shown after that.

**`Api`.** Limits of one with a window of one second make every key reach its
limit, stay there and be free again. `Second` 2 lets a token, a revocation and a cut-off fall within one
second, which is where whole seconds matter. `TokenLife` 3 lets tokens issued in one half of a second lapse
within the run and those of the other half not.

**Deadlock** is on in the runs of `Matching` and off in the others: a game that is over, at
the last second of the bounded clock, has nothing left to do, and neither has a user whose
tab has given up or whose requests have all been sent.

**Fairness** (`FairSpec`). `GameService`: time passes; a goroutine whose next statement can run
runs it; the two tickers fire; a process that died is started again (the
container's restart policy); recovery runs on. Each is weak fairness of the
corresponding action. No player is obliged to send anything, and no failure or
crash to happen. `PromptSpec` adds that the turn-timeout worker polls in every
second in which there is something to list: the best worker the code could have. In
`Matching` every request under way, and the administrator's,
goes on when it can; nobody has to send one. In `WsHub` handlers go on, watchdogs and retry
timers fire, the browser runs its callbacks, and nobody has to log in. In `Accounts` what is under way
goes on and time passes, and the worker has strong fairness: row locks are granted in the
order they were asked for, so requests that come one after another cannot keep it waiting. The finding of
`idle` stands although the worker ticks for ever.

**Mutants.** For each property of each passing run, `PROJECT.json` names a
plausible mistake in a mapped definition (a current player not set or not
checked, a check left out under the row lock, an inverted comparison, a guess compared
at any position ...) with which TLC must find the property violated. They stand
before the operator they mutate and are used nowhere.

### Findings

1. **`autoguess`, `FirstTurnIsPlayed`** — README.md:276 promises an automatic
   guess for a turn without input. `SetTurn` (redis/store.go:103) gives the key a TTL
   that ends at the deadline, so Redis drops the key when `ListExpiredTurns`
   would begin to list it. A worker that is never late can still find nothing.
   After that no timer exists and the turn stays open until someone plays or the
   process restarts.
2. **`twogames`, `OneActiveGame`** — `Start` looks for an active game and for a
   waiting entry before its transaction (matching.go:61-74), and `matching_queue.user_id` is
   not unique. Two tabs of one user can pass both checks and insert two entries. Two
   transactions then lock disjoint pairs, each with one of them, both find the user
   ready before either commits, and the user is in two active games, which
   `ErrUserInActiveGame` (model/errors.go:27) is there to prevent.
   `OneGamePerSingleTab` shows, and `OneGameEach` proves, that a user with one
   tab is safe whatever the others do.
3. **`idle`, `IdleLoggedOut`** — the first tick of the auto-logout worker sets `Now` to a function
   that answers the time of that tick for ever (worker/auto_logout.go:34-37), so the cut-off for
   inactivity (auto_logout.go:14, env.go:28) never moves. Who is active after that tick is never
   logged out by the worker until the process restarts.
4. **`count`, `OpponentCountShown`** — `buildGameState` (game.go:153) passes the
   opponent to `CountByGameExcludingPlayer` and so sends the player's own number of
   guesses, which GamePage.tsx:67 shows as the opponent's. With the player's own id in the
   call the property holds in the whole instance.

### Also met while modelling

These follow from the code. The repository's texts promise nothing else, or can be read as
promising it and are named here.

*Matching.* Two entries of one user at the head of the queue make every later `Start` roll back
with `ErrBadRequest` until that user cancels (`RejectPair`). Two `Start`s at once do not see each
other's row and both answer "waiting", until a third comes (matching.go:133).
src/README.md:171 says that a user in a game cannot be deleted (`user_in_active_game`). `DeleteUser` looks for
an active game before its transaction (admin.go:96) and not again in it, so a user who is matched in
between is deleted as the player of a game under way (`AdminCheck`, `CreateGame`, `AdminCommit`).

*Game play.* A player deleted during a game can neither guess nor be played for
(`ensureGamePlayer`), so the game never ends. A timeout overtaken by two guesses plays a turn of
the same player that has only just begun (handle_timeout.go:65-82), although README.md:275 gives a
turn `TURN_DURATION_SECONDS`; the table names the setting and does not say that the worker never comes early,
so this is no finding, and `NoAutoGuessInFirstTurn` speaks of the first turn alone.

*WebSocket.* Two open tabs of one user evict each other without end: `Register` closes
the other tab's connection, whose handler then runs `onDisconnect`, which removes by
user and so closes the new connection as well; both tabs retry after a second. This
is why `Settles` is about one tab. After a logout and login within one page, the late
`onclose` of the old socket clears `wsRef` and a second connection is opened beside
the first. A connection whose log row could not be written is closed by the watchdog, and
its `onDisconnect` closes the user's registered connection with it.

*Sessions.* A rotation or login in flight outlives a revocation of all tokens, whose UPDATE does
not see a row inserted after its snapshot; a stale row saved by login, refresh, logout or the
auto-logout worker can undo a deletion (`log.undone`). A `DeleteUser` whose transaction fails has
still logged the user out. The worker's frozen clock also makes its cut-off old, and it can set a
deletion's cut-off back (`log.setBack`). Registration takes e-mail addresses that login refuses
(user_validate.go:42).

*User rows, ranking, backup.* `TouchActivity` and every other whole-row save can take back a win
committed since its read (`dirty`). Of two overlapping rebuilds the one with the older list can win.
They exclude each other only by the unique key of a user both lists have: two lists with nobody in
common, which takes the deletion of all who were in the first and a save that undoes one, both
stay. `RankingIsOneList` therefore asks for one user who was never deleted, and
`RankingIsAlwaysOneList` shows that one is enough.
Rows committed while a sync ran can be missed for ever (`late`). Rows dropped from the ranking stay in the backup.

*The page.* Nothing orders the goroutines that announce guesses: one that is slow to read the game
back (game_play.go:278) is overtaken by whoever announces a later guess of the same player, a
connection or the timeout worker, and the page, which numbers its guesses as they come
(useGameState.tsx:97), shows them in the wrong order until the next snapshot. With a stale snapshot (`mixed`) it can lose or double its own guess, and clear
`gameOver`. A winning guess leaves the turn with the opponent (game_logic.go:102, 107-119) and
`notifyTurnChanged` does not look at the status (game_play.go:255-258), so whoever announces slowly sends `TURN_CHANGED`
after the end, and the page is `IN_PROGRESS` again. As long as it has had `GAME_OVER` it shows the result nevertheless, which is what `EndShown`
says. If `GAME_OVER` was lost and the end came with the snapshot of a slow `notifyGameStart`, whose turn
follows, the page stays `IN_PROGRESS` until the next snapshot: the last excuse in `mixed`. The socket's error for a
finished game is `conflict` (websocket/errors.go), so the page's case `game_already_finished` (useGamePage.ts:97) never
occurs;
`pendingGuessRef` (useGamePage.ts:142)
shows the result of an automatic guess with the number submitted last; `secretSubmitted` is not
restored on a reload; who reconnects to a game that has ended gets no result.

## 4. Proofs

### GameService

Checked by TLAPS for every value of the constants that meets the four named
assumptions (two different players; threads are different and a connection belongs
to a player; durations are natural numbers; the absent key is no key), any
number of connections, any clock, any number of turns, failures, crashes and deletions.

| Theorem | States |
|---|---|
| `Safety` | `Spec => [](TypeOK /\ DuelInv)` |
| `TypeCorrect`, `Alternation`, `ResultOnce`, `TimerBehind`, `CancelSound` | `TypeOK`, `GuessesAlternate`, `ResultRecorded`, `TimerNotAhead`, `CancelledNeverPlayed` are invariants |
| `OutcomeFinal` | `FinishedIsFinal` |
| `FirstTurnIsLeft`, `TimersRecovered` | `NoAutoGuessInFirstTurn`, `RecoveryArmsTimer` |
| `Refinement` | `Spec => ImplementsDuel` |

The inductive invariant is `DuelInv`. `GuessesAlternate` alone is not inductive:
the row a guess adds alternates because `current_player_id` is the one the turn number calls
for, which is `RowAgrees`. `ResultRecorded` needs that a game with a winner
is not in progress, also `RowAgrees`. `TimerNotAhead` is about a write that comes long
after the read it is based on, so the invariant must speak of what a handler
under way holds: `HandlerHolds` says that where a turn is in hand (`TurnInHand`) it is
one the database has published, and that between the commit and that read the game
has started. `CancelledNeverPlayed` then follows: a game that ended without a
winner never started, has no guesses, and a timer would imply a start.

`OutcomeFinal` is proved from the invariant step by step: in a finished
game `CanGuess` and the status checks are false, so no action that writes the
rows is enabled. `Refinement` maps the rows of `guesses`, ordered by turn, to the
sequence of moves; the invariant makes that mapping a function (one row per
turn) and makes `CommitGuess` append to it.

`FirstTurnIsLeft` is about time: `FirstTurnInv` says that the game did not start after now, that no
timer expires less than `TURN_DURATION` after the start (`TimerOnTime`), and what each handler's
stamp is worth (`Stamped`): who is going to write a timer took its time after the start; the
worker took its time from the clock, and once it has compared it with the timer the turn's time has
passed. `StampStep` lists the seven things a step can do to such a stamp, and
`DuelInv` gives what else is needed, that a timer implies a start. `TimersRecovered` rests on
`RecoveryInv`: while `main` recovers every other thread is idle (`AloneInRecovery`), which is the
code's order of `RecoverActiveGames` before routes and workers, so that between its
`SetTurn` and the opening nothing but time can take the timer away (`RecoveryHolds`).

### Matching

For any users, any number of requests of each of them, any entries, failures and deletions, from
four assumptions: a caller is a user and the administrator's request is none of the users';
`NoUser` and `NoEntry` are nobody and no entry; the bounds are of their types.

| Theorem | States |
|---|---|
| `MatchingSafety` | `Spec => [](TypeOK /\ MatchingInv)` |
| `PairInOrder`, `OneGameEach` | `FirstComeIsPlayer1`, `OneGamePerSingleTab` are invariants |
| `EntriesUsedOnce`, `NobodyElseRemoved` | `MatchConsumesEntries`, `InnocentsStay` |

`OneGamePerSingleTab` is not inductive: a game is created from what `matchingPlayerReady`
found some steps ago. `StillReady` says that the answer still holds for a single-tab
user, and needs that no other transaction can make a game of the same user: that
one holds another entry of that user (`LocksHold`: locks are exclusive), of which there is none
(`SingleEntry`: one entry, committed or not). `MatchConsumesEntries` needs that a
locked row is still there (`LocksHold`) and that no old entry comes back
(`EntriesSpent`), which rests on the time stamps (`StampsDiffer`).
`FirstComeIsPlayer1` needs the order in which a listing takes its locks
(`ListedInOrder`), and `InnocentsStay` whose rows a DELETE has in hand (`ErasesOwnRows`).

The proof goes by the effect of a step instead of by its name. The lemma `Steps` sorts the
sixteen actions into five cases: nothing changes; a request moves on and touches no table
(`Shape`); it returns, committing at most its own entry and removing only rows nobody
else holds (`Returns`); it returns with a game (`CreateGame`); a game ends. Each part of
the invariant is then proved against these five.

### WsHub

For any connections, any tabs, any limits, any number of mishaps and either value of `Timely`,
from three assumptions: a connection belongs to a tab, `NoConn` is none, the limits are
of their types.

| Theorem | States |
|---|---|
| `TypeCorrect` | `TypeOK` is an invariant |
| `Reachable`, `NothingLeft`, `NotStranded` | `OpenIsReachable`, `NothingOutlivesHandlers`, `NeverStranded` are invariants |

`ServerInv` strengthens the first two: a handler that has not replied has no token in
`authCh` (`Unauthenticated`), the hub's entry belongs to a handler that still has
`onDisconnect` before it (`HubHasHandler`), and the key to one that still has to delete it
(`KeyHasHandler`). `NeverStranded` needs `OwnSocket`: `wsRef` holds a socket of its own
tab, so the `onclose` of one tab's socket cannot clear another tab's. Closing moves a
socket from `open` to `noticing` (`CloseKeeps`), which is why most steps keep both.

### Accounts

For any requests, any number of tokens, any lifetimes, clocks and restarts, from
four assumptions: tokens are numbered from 1, durations and bounds are natural numbers, and worker,
administrator and requests are different.

| Theorem | States |
|---|---|
| `TypeCorrect`, `OneLive` | `TypeOK`, `OneLivePerFamily` are invariants |
| `EndedStaysEnded` | `FamilyEndsForGood` |

The invariant `AccountInv` adds two things to the properties: who works on a token works on a
row that was inserted (`WorksOnRows`), and a family's first row was inserted (`FamilyHasBegun`), so
that a login cannot begin a family that exists. `TokenStep` sorts the steps by what they
do to the table: nothing; a login's row in a family of its own; a rotation, which ends the row it has
locked and still finds live, in the step that inserts the next; rows that end; rows that
are cleaned up. `RowsAfter` says of all five that a live row was live before or is new, and that a new one begins a
family or comes in the place of a live one of its family. Both properties follow from it. That the rotation looks at the row again under its lock is what makes the third case
true; the look before the transaction is worth nothing, and no part of the invariant speaks of it.

### Upkeep

For finitely many users, any writers, rebuilds and syncs, any number of attempts and any length of
a second, from four assumptions: users are numbered, the three kinds of process are
different, at least one attempt is made, and the bounds are natural numbers.

| Theorem | States |
|---|---|
| `TypeCorrect` | `TypeOK` is an invariant |
| `WinsAreCounted`, `RankingIsAlwaysOneList`, `BackupIsComplete` | `WinsCounted`, `RankingIsOneList`, `BackupComplete` are invariants |

* `WinsInv`: the row a save is about to write back has the wins the table has, unless a
  win came in between.
* `RankInv` needs `DeletionInv` first: who was never deleted is deleted neither in
  the table nor in a row about to be saved. Such a user is in every list a rebuild has read and,
  after the first rebuild, in the table. Therefore a rebuild that did not see the rows of another
  meets the unique key and cannot insert, and who does insert has removed all there was: what
  a rebuild has seen is nothing or everything (`seen \in {{}, Present}`). `ReplacedIsOneList` shows that the
  rows made from a sorted list are ranked 1, 2, 3 ... in its order.
* `BackupInv` is about a row that is not `late`, against each sync under way (`Safe`): it
  is copied, or newer than the time the sync looks from; if the sync is past its table it is copied; if it has
  been read, what was read is the row. `status.last` moves only with a sync that has copied
  everything, and what `SetError` writes is a time that some status had, which the row is newer than as well.

### Api

For any requests and tokens, any limits, window, token life and length of a second, from
four assumptions: tokens are numbered from 1, the durations and limits are positive, and there is
time for one second.

| Theorem | States |
|---|---|
| `TypeCorrect`, `RateIsKept` | `TypeOK`, `RateKept` are invariants |
| `RevokedStaysOutside`, `DeletedStaysOutside` | `RevokedStaysOut`, `DeletedStaysOut` are invariants |

The steps are sorted once (`Moves`, `LimitStep`, `Quiet`, `Writes`, `Grows`): which request goes
from where to where, which list is touched, and whether a shared part is written. `TypeInv` adds to the types that
times stored are times that have passed (`Passed`), that lists are finite (`Counted`), and
that a request past `Parse` holds a token that was issued (`Carries`).

* `RateInv`: the limiter forgets what is older than a window, and only that (`Dropped`), so what it
  keeps is what the window that ends now let through (`WithinNow`). A hit that is let through
  is the last of that window; windows that end earlier are closed, since nothing is let
  through in the past (`Numbered`).
* `RevokedInv`: a key's expiry is not before the token's (`KeysOutlive`), which takes that
  the TTL is the rest of the token's life, the token's `exp` is cut to whole seconds,
  and `Revoke` uses the time taken before. A request that came late therefore
  found the key, or a token that had lapsed (`LateIsRevoked`).
* `DeletedInv`: the user stays deleted unless a stale row is saved, and the cut-off stays at least at the
  deletion's second unless the worker overwrites it (`DeletionHolds`). What a late request
  has passed, check by check, is `AfterDeletion`. Both exceptions are real; the invariant shows there is no third.

### Judge

| Theorem | States |
|---|---|
| `VerifyIsJudge` | for numbers of any length over any digits, judging by hashes is judging by digits |
| `WinIsEqual` | a guess wins when it is the number and only then |
| `WinIsAllHits` | the stored hit count is the full one exactly for a guess that wins |
| `SlotsApart` | a number hashed for one slot gives no hit in the other |
| `DrawIsValid` | whatever the random source answers, the draw makes four different digits |
| `EveryNumberDrawn` | the numbers that can be drawn are exactly those of four different digits |

`ValidateFourDigits` has the length of four; the first four theorems hold for any length. The first two and `SlotsApart` unfold to the equality of one digest with another at each position and
rest on `Digest` being injective, as HMAC is taken to be. The draw is four swaps of a pool of ten; `SwapPermutes` and
`ShufflePermutes` show that a pool stays a permutation of the digits, and four places of one are
different digits. For the converse, `ShuffleReaches`: the digit a number wants next is not among
those drawn, so it lies within the bounds of the next swap. `Judge` has no state, so TLC has nothing to explore; `DuelPage` judges with its operators.

### DuelPage

For any numbers, turns, lost sockets, broken announcements and submissions, from four assumptions:
two different players; the opponent and the worker are different goroutines and no sockets; the
bounds are natural numbers; numbers are numbers of four different digits.

| Theorem | States |
|---|---|
| `TypeCorrect` | `TypeOK` is an invariant |
| `GuessesAreShown`, `EndIsShown` | `GuessesShown`, `EndShown` are invariants |

Both properties speak of a page that nothing is on its way to, so neither is inductive: the
invariant has to say what every goroutine and every message still adds to the page.

* `Snapshots`: a clean snapshot, in the locals of a goroutine or of the GET or on the wire, shows
  what the database has; all is `Calm`, so no goroutine has a guess of the player to announce, and
  none announces anything once the game is over; and neither is such a message behind it. Whoever receives it is up to date whatever came before.
* `GuessInv`: as long as the page has no excuse it is `InStep`: the player's guesses are divided,
  in order, into those shown, those on the wire and those nobody has announced yet. Hence the next result to come is that of the next guess
  (`NextGuess`), and when nothing is on its way all are shown. The attempt to prove this without
  `Overtakes` failed at the announcement of a guess while an earlier one is pending, which is how
  the out-of-order results under *Also met* were found.
* `EndInv`: when the game is over the page is `Informed` (it has had `GAME_OVER`, or it knows from a snapshot and
  nobody is announcing who could send a turn and make it forget), or the end is on its way: `GAME_OVER` is on the wire, or a goroutine is
  about to send it, or has the winning guess in hand (`EndComes`).

`Steps` sorts the actions into what they do: a whole transaction, which spoils every
snapshot under way (`Transaction`); one step of one goroutine (`Move`); what only loses messages or
leaves the page (`Outside`); receiving; the GET. Each part of the invariant is proved against these.

**Only model-checked.** `WaitingResolves`, `FinishAnnounced`, `RequestsReturn`,
`AuthenticatedOrClosed` and `Settles`: liveness under fairness is out of the prover's reach. Every
other property of a passing run is a theorem. Every inductive invariant
named above was checked with TLC on the instance of its component's run before it was proved.

## 5. Plan

The plan is carried out: the modules are complete as far as section 6 allows, and every safety and
action property that a run checks is proved. What could follow is a further cut of what is already there: the
order in which the two players are sent the same event, and the texts and numbers the page shows beside the hits.

## 6. Not modelled, and why

* Controllers, DTOs, presentation: stateless translation. Of the routes, those of one user's
  session are in `Api`.
* Configuration, migrations, connection set-up, `SeedMaster`: run once, before anything else.
* Logs and their retention: append-only rows that nothing reads back to decide anything.
* Password hashing, input formats, lists, searches, CSV: they change no state.
* Concurrent `WriteMessage` on one gorilla connection (hub.go:64): what goes wrong
  is inside the library.
* Pages and components of the frontend: presentation and routing. Tests, scripts and CI are not part of
  the running program.
